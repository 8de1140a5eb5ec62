------------------------------- MODULE Reading -------------------------------
(***************************************************************************)
(* Reading an Investigation in pages: the transaction graph                *)
(* (analysis/graph.go, GetGraph), the current result (LoadCurrentResult)   *)
(* and the transcript (LoadConversationPage), while Datasets are           *)
(* published, messages are stored and the Investigation may be deleted.    *)
(*                                                                         *)
(* A page takes several statements, and none of the readers holds a lock:  *)
(* each statement is an action.  The reader is one client that fetches     *)
(* page after page, as the frontend does; ranked windows end when the skip *)
(* reaches the counterparties of the anchor (transactionGraphBrowser.ts).  *)
(***************************************************************************)
EXTENDS Rules, SequencesExt

CONSTANTS
    Target,         \* the target of the Investigation
    Contents,       \* for each Dataset, the sets of transfers it may hold
    PageSize, Window, Top,  \* sizes of a page, of a range, of a ranked window
    Anchors,        \* addresses whose transfers are asked for
    LastMessage     \* bound: messages of a transcript

\* A row of trc20_transfers: nothing happened at time zero, and 0 is nobody.
TransferRow ==
    [at : Nat \ {0}, tx : Nat, log : Nat, from : Nat \ {0}, to : Nat \ {0}, amount : Nat]

\* idx_dataset_transfer_event: an event is stored once in a Dataset.
ReadingAssumption ==
    /\ {PageSize, Window, Top} \subseteq Nat \ {0}
    /\ LastMessage \in Nat
    /\ Contents \in Seq(SUBSET SUBSET TransferRow)
    /\ \A T \in UNION Range(Contents) :
          /\ IsFiniteSet(T)
          /\ \A t, u \in T : t.tx = u.tx /\ t.log = u.log => t = u
ASSUME ReadingAssumption

Datasets   == DOMAIN Contents
GraphModes == {"cursor", "range", "top"}
Modes      == GraphModes \cup {"result", "transcript"}
Anyone     == 0     \* no anchor

VARIABLES
    present,    \* the Investigation exists
    current,    \* its current Dataset, 0 for none
    content,    \* the transfers of each Dataset, as published
    assessment, \* its assessment and its metrics, as published
    length,     \* messages of the transcript
    pc,         \* the next statement of the reader
    query,      \* what it asks: mode, Dataset, anchor
    place,      \* where the next page begins: a cursor, a start, a skip or an ordinal
    page,       \* the page that is being assembled
    collected,  \* the pages so far, concatenated
    known,      \* messages there were when the reader began
    answer      \* how the last request ended

investigation == <<present, current, content, assessment, length>>
reader == <<pc, query, place, page, collected, known, answer>>
vars   == <<investigation, reader>>

NoQuery == [mode |-> "none", dataset |-> 0, anchor |-> Anyone]
Begin   == [after |-> <<0, 0, 0>>, number |-> 1]
NoPage  == [rows |-> <<>>, ranked |-> {}, more |-> FALSE]
NoResult == [metrics |-> <<>>, evaluation |-> <<>>]

----------------------------------------------------------------------------
(***************************************************************************)
(* The Investigation.  Datasets are immutable, and only a deletion removes *)
(* one; a transcript grows by groups of one message or two.                *)
(***************************************************************************)
Publish(T) ==
    LET d == current + 1 IN
    /\ present
    /\ d \in Datasets /\ T \in Contents[d]
    /\ current' = d
    /\ content' = [content EXCEPT ![d] = T]
    /\ assessment' = [assessment EXCEPT
                        ![d] = [metrics |-> Metrics(Target, T), evaluation |-> Evaluate(Target, T)]]
    /\ UNCHANGED <<present, length, reader>>

StoreGroup(n) ==
    /\ present
    /\ length + n <= LastMessage
    /\ length' = length + n
    /\ UNCHANGED <<present, current, content, assessment, reader>>

Delete ==
    /\ present
    /\ present' = FALSE
    /\ UNCHANGED <<current, content, assessment, length, reader>>

\* What a statement finds.
Transfers == IF present THEN content[query.dataset] ELSE {}
Messages  == IF present THEN length ELSE 0

----------------------------------------------------------------------------
(***************************************************************************)
(* The reader.                                                             *)
(***************************************************************************)
Ask(mode, d, a) ==
    /\ pc \in {"idle", "done"}
    /\ mode \in GraphModes => d \in 1..current
    /\ mode \notin GraphModes => d = 0 /\ a = Anyone
    /\ mode \in {"range", "top"} => a # Anyone
    /\ query' = [mode |-> mode, dataset |-> d, anchor |-> a]
    /\ pc' = "row" /\ place' = Begin /\ page' = NoPage
    /\ collected' = <<>> /\ known' = Messages /\ answer' = "none"
    /\ UNCHANGED investigation

End(reply) ==
    /\ answer' = reply
    /\ pc' = "done"

FirstStatement ==
    [cursor |-> "edges", range |-> "edges", top |-> "ranked",
     result |-> "dataset", transcript |-> "messages"]

\* The row of the Investigation, read anew for every page.
ReadRow ==
    /\ pc = "row"
    /\ IF ~present \/ (query.mode = "result" /\ current = 0) THEN End("not_found")
       ELSE IF query.mode \in GraphModes /\ query.dataset # current THEN End("stale")
       ELSE pc' = FirstStatement[query.mode] /\ UNCHANGED answer
    /\ query' = IF query.mode = "result" THEN [query EXCEPT !.dataset = current] ELSE query
    /\ UNCHANGED <<investigation, place, page, collected, known>>

----------------------------------------------------------------------------
(***************************************************************************)
(* LoadGraphPage                                                           *)
(***************************************************************************)
Key(t) == <<t.at, t.tx, t.log>>

\* The order of the rows and of the cursor: time, transaction, event.
Later(k, l) ==
    \/ k[1] > l[1]
    \/ k[1] = l[1] /\ k[2] > l[2]
    \/ k[1] = l[1] /\ k[2] = l[2] /\ k[3] > l[3]

\* The elements of a set in the order of Before, a strict total order of them.
InOrder(S, Before(_, _)) ==
    [i \in 1..Cardinality(S) |-> CHOOSE e \in S : Cardinality({d \in S : Before(d, e)}) = i - 1]

Sorted(T) == InOrder(T, LAMBDA t, u : Later(Key(u), Key(t)))

Anchored(T, a) == {t \in T : a \in {Anyone, t.from, t.to}}
Other(t, a)    == IF t.from = a THEN t.to ELSE t.from

\* GROUP BY counterparty ORDER BY COUNT(*) DESC, counterparty
Ranked(T, a) ==
    LET others     == {Other(t, a) : t \in Anchored(T, a)}
        shared(o)  == Cardinality({t \in Anchored(T, a) : Other(t, a) = o})
    IN  InOrder(others, LAMBDA o, p : shared(o) > shared(p) \/ (shared(o) = shared(p) /\ o < p))

\* SubSeq of what there is, from a first row on.
Slice(s, first, n) == SubSeq(s, first, Min({first + n - 1, Len(s)}))

ReadRanked ==
    /\ pc = "ranked"
    /\ LET ranked == Range(Slice(Ranked(Transfers, query.anchor), place.number, Top)) IN
          /\ page' = [NoPage EXCEPT !.ranked = ranked]
          /\ IF ranked = {} THEN End("complete") ELSE pc' = "edges" /\ UNCHANGED answer
    /\ UNCHANGED <<investigation, query, place, collected, known>>

\* Mutant: the cursor is the time of the last row alone.
CursorByTime(T) == {t \in T : t.at > place.after[1]}

AfterCursor(T) == {t \in T : Later(Key(t), place.after)}

\* One row more than the page tells whether there is another.
ReadEdges ==
    /\ pc = "edges"
    /\ LET all  == Anchored(Transfers, query.anchor)
           rows == CASE query.mode = "cursor" -> Sorted(AfterCursor(all))
                     [] query.mode = "range"  -> Slice(Sorted(all), place.number, Window + 1)
                     [] query.mode = "top"    -> Sorted({t \in all : Other(t, query.anchor) \in page.ranked})
           size == CASE query.mode = "cursor" -> PageSize
                     [] query.mode = "range"  -> Window
                     [] query.mode = "top"    -> Len(rows)
       IN  page' = [page EXCEPT !.rows = Slice(rows, 1, size), !.more = Len(rows) > size]
    /\ pc' = "count"
    /\ UNCHANGED <<investigation, query, place, collected, known, answer>>

\* The DISTINCT other sides of an address in the whole Dataset.
Counterparties(T, a) ==
    Cardinality({t.to : t \in {u \in T : u.from = a}} \cup {t.from : t \in {u \in T : u.to = a}})

\* countCounterparties, and the page leaves.  The next page, if the client is
\* told of one, begins after its last row, its last rank or its last number.
CountCounterparties ==
    /\ pc = "count"
    /\ LET more == IF query.mode = "top"
                     THEN place.number + Top <= Counterparties(Transfers, query.anchor)
                     ELSE page.more
       IN  IF more THEN pc' = "row" /\ UNCHANGED answer ELSE End("complete")
    /\ place' = [after  |-> IF page.rows = <<>> THEN place.after ELSE Key(Last(page.rows)),
                 number |-> place.number + (IF query.mode = "top" THEN Top ELSE Window)]
    /\ collected' = collected \o page.rows
    /\ page' = NoPage
    /\ UNCHANGED <<investigation, query, known>>

----------------------------------------------------------------------------
(***************************************************************************)
(* LoadCurrentResult: the Dataset by the identity the row named, then the  *)
(* metrics and the assessment that belong to it.                           *)
(***************************************************************************)
ReadPart(here, part, then) ==
    /\ pc = here
    /\ IF present
         THEN collected' = Append(collected, part) /\ (IF then = "done" THEN End("complete")
                                                       ELSE pc' = then /\ UNCHANGED answer)
         ELSE End("not_found") /\ UNCHANGED collected
    /\ UNCHANGED <<investigation, query, place, page, known>>

ReadDataset    == ReadPart("dataset", query.dataset, "metrics")

\* Mutant: the metrics of the Dataset that is current now.
ReadMetricsOfCurrent == ReadPart("metrics", assessment[current].metrics, "assessment")

ReadMetrics    == ReadPart("metrics", assessment[query.dataset].metrics, "assessment")
ReadAssessment == ReadPart("assessment", assessment[query.dataset].evaluation, "done")

----------------------------------------------------------------------------
(***************************************************************************)
(* LoadConversationPage: messages by ordinal, then their chunks, without   *)
(* which a message cannot be shown.                                        *)
(***************************************************************************)
ReadMessages ==
    /\ pc = "messages"
    /\ LET last == Min({place.number + PageSize - 1, Messages}) IN
          page' = [NoPage EXCEPT !.rows = [i \in 1..Max({0, last - place.number + 1}) |-> place.number + i - 1],
                                 !.more = Messages > last]
    /\ pc' = "chunks"
    /\ UNCHANGED <<investigation, query, place, collected, known, answer>>

ReadChunks ==
    /\ pc = "chunks"
    /\ IF page.rows # <<>> /\ ~present
         THEN End("internal_error") /\ UNCHANGED <<place, collected>>
         ELSE /\ collected' = collected \o page.rows
              /\ place' = [place EXCEPT !.number = @ + Len(page.rows)]
              /\ IF page.more THEN pc' = "row" /\ UNCHANGED answer ELSE End("complete")
    /\ page' = NoPage
    /\ UNCHANGED <<investigation, query, known>>

----------------------------------------------------------------------------
Init ==
    /\ present = TRUE /\ current = 0 /\ length = 0
    /\ content = [d \in Datasets |-> {}]
    /\ assessment = [d \in Datasets |-> NoResult]
    /\ pc = "idle" /\ query = NoQuery /\ place = Begin /\ page = NoPage
    /\ collected = <<>> /\ known = 0 /\ answer = "none"

Read ==
    \/ ReadRow
    \/ ReadRanked \/ ReadEdges \/ CountCounterparties
    \/ ReadDataset \/ ReadMetrics \/ ReadAssessment
    \/ ReadMessages \/ ReadChunks

Next ==
    \/ \E d \in Datasets : \E T \in Contents[d] : Publish(T)
    \/ \E n \in {1, 2} : StoreGroup(n)
    \/ Delete
    \/ \E m \in Modes, d \in 0..current, a \in Anchors \cup {Anyone} : Ask(m, d, a)
    \/ Read

Spec == Init /\ [][Next]_vars

----------------------------------------------------------------------------
\* A client that was given the last page has the whole, once each and in
\* order, whatever was published or stored while it read; a transcript is at
\* least as long as it was at the beginning.  Only a deletion cuts it short.
PagesAreWhole ==
    answer = "complete" /\ present =>
        /\ query.mode \in {"cursor", "range"} =>
              collected = Sorted(Anchored(content[query.dataset], query.anchor))
        /\ query.mode = "top" =>
              /\ Range(collected) = Anchored(content[query.dataset], query.anchor)
              /\ Len(collected) = Cardinality(Range(collected))
        /\ query.mode = "transcript" =>
              /\ collected = [i \in 1..Len(collected) |-> i]
              /\ Len(collected) \in known..length

\* A result shows the metrics and the assessment of the one Dataset it names,
\* though they are read one after the other.
ResultIsOfOneDataset ==
    query.mode = "result" /\ answer = "complete" =>
        collected = <<query.dataset, Metrics(Target, content[query.dataset]),
                      Evaluate(Target, content[query.dataset])>>

\* The freshly published Dataset, looked at once.
Fresh == present /\ current > 0 /\ pc = "idle" /\ length = 0
Latest == content[current]

\* What a collection that was cut short shows of an address, the whole would
\* show too: with any transfer missing there is no other reason, no other
\* address and no higher score.  Every reason is that of some address.
PartialNeverOverstates ==
    Fresh =>
        LET whole == assessment[current].evaluation IN
        /\ whole.reasons = UNION {whole.nodes[a].reasons : a \in DOMAIN whole.nodes}
        /\ \A t \in Latest :
              LET part == Evaluate(Target, Latest \ {t}) IN
              /\ part.reasons \subseteq whole.reasons
              /\ part.score <= whole.score
              /\ \A a \in DOMAIN part.nodes :
                    /\ a \in DOMAIN whole.nodes
                    /\ part.nodes[a].score <= whole.nodes[a].score

\* The search finds exactly the addresses on a path of two up to the maximum
\* number of transfers that returns to where it began.
CyclesAreReal ==
    Fresh =>
        LET addresses   == UNION {{t.from, t.to} : t \in Latest}
            edges       == EdgesOf(Latest)
            returns(c)  == /\ \A i, j \in DOMAIN c : c[i] = c[j] => i = j
                           /\ \A i \in DOMAIN c : <<c[i], c[IF i = Len(c) THEN 1 ELSE i + 1]>> \in edges
            cycles      == UNION {{c \in [1..n -> addresses] : returns(c)} : n \in 2..MaximumCycleHops}
        IN  CircularFlow(Latest) = UNION {Range(c) : c \in cycles}
=============================================================================
