\* One reader, in every mode, while Datasets and messages are added.
CONSTANTS
    FanOutRecipients = 2
    FanInSenders = 2
    RapidForwardWindow = 1
    PathForwardWindow = 2
    MaximumCycleHops = 3
    Target = 1
    Contents <- MCContents
    PageSize = 2
    Window = 2
    Top = 2
    Anchors = {1, 2}
    LastMessage = 3
SPECIFICATION Spec
CHECK_DEADLOCK FALSE
INVARIANTS PagesAreWhole ResultIsOfOneDataset PartialNeverOverstates CyclesAreReal
