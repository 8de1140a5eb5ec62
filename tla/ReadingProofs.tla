---------------------------- MODULE ReadingProofs ----------------------------
(***************************************************************************)
(* What a reader promises, for all Datasets, sizes of pages and anchors,   *)
(* and whatever is published, stored or deleted while it reads; and what   *)
(* the assessment in a Dataset says of its transfers.                      *)
(*                                                                         *)
(*   Consistent     the Datasets, the question, and what of a result was   *)
(*                  read;                                                  *)
(*   PagesSoFar     the first n rows have left, and the next page begins   *)
(*                  behind the n-th, be it by its number or by its key;    *)
(*   RanksSoFar     the transfers of the first ranks have left, once each; *)
(*   TranscriptSoFar the messages up to a number have left.                *)
(*                                                                         *)
(* A page is sorted by choosing, for each place, the row with so many rows *)
(* before it: Lists says that of a function, RanksAreTaken that there is   *)
(* one, and OneList that there is no other, so the rows that a cursor      *)
(* finds are the tail of the whole (RestIsSorted).                         *)
(*                                                                         *)
(* After n rounds the search for cycles has the paths of up to n addresses *)
(* (PathsAre), so what it reports are the cycles themselves, and that rule *)
(* grows with the transfers as the others do (QualifyingGrows); a score is *)
(* a sum over the rules that fired, and grows with them (ScoreGrows).      *)
(***************************************************************************)
EXTENDS Reading, FiniteFacts, SequenceTheorems

USE ReadingAssumption DEF ReadingAssumption

----------------------------------------------------------------------------
\* The Investigation and the reader, apart from what was read.

Investigated ==
    /\ current \in 0..Len(Contents)
    /\ content \in [Datasets -> SUBSET TransferRow]
    /\ DOMAIN assessment = Datasets
    /\ \A d \in 1..current :
          /\ content[d] \in Contents[d]
          /\ assessment[d] = [metrics    |-> Metrics(Target, content[d]),
                              evaluation |-> Evaluate(Target, content[d])]
    /\ length \in Nat

Statements == [edges |-> GraphModes, count |-> GraphModes, ranked |-> {"top"},
               dataset |-> {"result"}, metrics |-> {"result"}, assessment |-> {"result"},
               messages |-> {"transcript"}, chunks |-> {"transcript"}]

Asked ==
    /\ pc \in {"idle", "row", "done"} \cup DOMAIN Statements
    /\ pc \in DOMAIN Statements => query.mode \in Statements[pc]
    /\ query \in [mode : Modes \cup {"none"}, dataset : 0..current, anchor : Anchors \cup {Anyone}]
    /\ query.mode \in GraphModes => query.dataset # 0
    /\ query.mode \in {"range", "top"} => query.anchor # Anyone
    /\ pc # "idle" => query.mode # "none"
    /\ pc # "done" => answer = "none"
    /\ answer \in {"none", "complete", "not_found", "stale", "internal_error"}

Shaped ==
    /\ page = [rows |-> page.rows, ranked |-> page.ranked, more |-> page.more]
    /\ place = [after |-> place.after, number |-> place.number]

ResultSoFar ==
    query.mode = "result" =>
        LET d == query.dataset IN
        /\ pc \in {"row", "dataset"} => collected = <<>>
        /\ pc = "metrics" => collected = <<d>>
        /\ pc = "assessment" => collected = <<d, Metrics(Target, content[d])>>
        /\ pc \in {"dataset", "metrics", "assessment"} => d # 0
        /\ answer = "complete" =>
              d # 0 /\ collected = <<d, Metrics(Target, content[d]), Evaluate(Target, content[d])>>


----------------------------------------------------------------------------
LEMMA ContentsFacts ==
    ASSUME NEW d \in Datasets, NEW T \in Contents[d]
    PROVE  /\ Datasets = 1..Len(Contents) /\ Len(Contents) \in Nat
           /\ T \subseteq TransferRow /\ IsFiniteSet(T)
           /\ \A t, u \in T : t.tx = u.tx /\ t.log = u.log => t = u
<1>1. Contents[d] \in Range(Contents) /\ Contents[d] \in SUBSET SUBSET TransferRow
  BY DEF Range, Datasets
<1>2. T \in UNION Range(Contents) /\ T \in SUBSET TransferRow
  BY <1>1
<1>3. Datasets = 1..Len(Contents) /\ Len(Contents) \in Nat
  BY DEF Datasets
<1> QED BY <1>2, <1>3

Steps == Read \/ \E m \in Modes, d \in 0..current, a \in Anchors \cup {Anyone} : Ask(m, d, a)

LEMMA ReadingLeaves == Steps => UNCHANGED investigation
BY DEF Steps, Ask, Read, ReadRow, ReadRanked, ReadEdges, CountCounterparties, ReadDataset, ReadMetrics,
       ReadAssessment, ReadPart, ReadMessages, ReadChunks

LEMMA InvestigatedStep == Investigated /\ [Next]_vars => Investigated'
<1> SUFFICES ASSUME Investigated, [Next]_vars PROVE Investigated'
  OBVIOUS
<1>1. ASSUME NEW d \in Datasets, NEW T \in Contents[d], Publish(T) PROVE Investigated'
  <2>1. /\ current' = current + 1 /\ current + 1 \in Datasets /\ T \in Contents[current + 1]
        /\ length' = length
    BY <1>1 DEF Publish
  <2>2. T \in SUBSET TransferRow /\ Datasets = 1..Len(Contents) /\ Len(Contents) \in Nat
    BY ContentsFacts
  <2>3. content' = [content EXCEPT ![current + 1] = T]
    BY <1>1 DEF Publish
  <2>4. assessment' = [assessment EXCEPT ![current + 1] =
            [metrics |-> Metrics(Target, T), evaluation |-> Evaluate(Target, T)]]
    BY <1>1 DEF Publish
  <2>5. current' \in 0..Len(Contents) /\ content' \in [Datasets -> SUBSET TransferRow]
    BY <2>1, <2>2, <2>3 DEF Investigated
  <2>6. DOMAIN assessment' = Datasets
    BY <2>4 DEF Investigated
  <2>7. ASSUME NEW e \in 1..current'
        PROVE  /\ content'[e] \in Contents[e]
               /\ assessment'[e] = [metrics |-> Metrics(Target, content'[e]),
                                    evaluation |-> Evaluate(Target, content'[e])]
    <3>1. e = current + 1 \/ e \in 1..current
      BY <2>1 DEF Investigated
    <3>2. e \in Datasets /\ e \in DOMAIN content /\ e \in DOMAIN assessment
      BY <2>1, <2>2, <2>5, <2>6 DEF Investigated
    <3>3. CASE e = current + 1
      BY <2>1, <2>3, <2>4, <3>2, <3>3
    <3>4. CASE e \in 1..current
      <4>1. e # current + 1 /\ content'[e] = content[e] /\ assessment'[e] = assessment[e]
        BY <2>3, <2>4, <3>2, <3>4 DEF Investigated
      <4> QED BY <3>4, <4>1 DEF Investigated
    <3> QED BY <3>1, <3>3, <3>4
  <2> QED BY <2>1, <2>5, <2>6, <2>7 DEF Investigated
<1>2. ASSUME NEW n \in {1, 2}, StoreGroup(n) PROVE Investigated'
  <2>1. UNCHANGED <<current, content, assessment>> /\ length' = length + n
    BY <1>2 DEF StoreGroup
  <2>2. length' \in Nat
    BY <2>1 DEF Investigated
  <2> QED BY <2>1, <2>2 DEF Investigated
<1>3. CASE Delete \/ Steps \/ UNCHANGED vars
  <2>1. UNCHANGED <<current, content, assessment, length>>
    BY <1>3, ReadingLeaves DEF Delete, vars, investigation
  <2> QED BY <2>1 DEF Investigated
<1> QED BY <1>1, <1>2, <1>3 DEF Next, Steps

\* The others leave the reader alone, and the Dataset it reads.
LEMMA OthersLeave ==
    ASSUME Investigated, [Next]_vars, ~Steps
    PROVE  /\ UNCHANGED reader
           /\ current <= current' /\ current' \in Nat
           /\ \A d \in 1..current : content'[d] = content[d]
           /\ present' => present
           /\ length <= length' /\ length' \in Nat
<1>1. ASSUME NEW d \in Datasets, NEW T \in Contents[d], Publish(T) PROVE \A e \in 1..current : content'[e] = content[e]
  BY <1>1, ContentsFacts DEF Publish, Investigated
<1>2. CASE \E d \in Datasets : \E T \in Contents[d] : Publish(T)
  BY <1>1, <1>2 DEF Publish, Investigated
<1>3. CASE \E n \in {1, 2} : StoreGroup(n)
  BY <1>3 DEF StoreGroup, Investigated
<1>4. CASE Delete
  BY <1>4 DEF Delete, Investigated
<1>5. CASE UNCHANGED vars
  BY <1>5 DEF vars, investigation, Investigated
<1> QED BY <1>2, <1>3, <1>4, <1>5 DEF Next, Steps

LEMMA AskedStep == Investigated /\ Asked /\ [Next]_vars => Asked'
<1> SUFFICES ASSUME Investigated, Asked, [Next]_vars PROVE Asked'
  OBVIOUS
<1>1. CASE ~Steps
  BY <1>1, OthersLeave DEF Asked, Investigated, reader
<1> USE DEF Statements
<1>2. ASSUME NEW m \in Modes, NEW d \in 0..current, NEW a \in Anchors \cup {Anyone}, Ask(m, d, a)
      PROVE  Asked'
  BY <1>2 DEF Ask, Asked, investigation, GraphModes, Modes
<1>3. CASE ReadRow
  <2>1. query' \in [mode : Modes \cup {"none"}, dataset : 0..current, anchor : Anchors \cup {Anyone}]
    BY <1>3 DEF ReadRow, Asked, Investigated
  <2>2. query'.mode = query.mode /\ query'.anchor = query.anchor /\ (query.mode # "result" => query' = query)
    BY <1>3 DEF ReadRow, Asked
  <2>3. current' = current
    BY <1>3 DEF ReadRow, investigation
  <2>4. /\ answer' \in {"none", "not_found", "stale"}
        /\ pc' = "done" \/ (answer' = "none" /\ query.mode \in Modes /\ pc' = FirstStatement[query.mode])
    <3>1. query.mode \in Modes
      BY <1>3 DEF ReadRow, Asked, Modes, GraphModes
    <3> QED BY <1>3, <3>1 DEF ReadRow, Asked, End
  <2>5. pc' = "done" \/ (answer' = "none" /\ pc' \in DOMAIN Statements /\ query.mode \in Statements[pc'])
    BY <2>4 DEF FirstStatement, Modes, GraphModes
  <2>6. pc' \in {"done"} \cup DOMAIN Statements /\ (pc' \in DOMAIN Statements => query'.mode \in Statements[pc'])
    BY <2>2, <2>5
  <2>7. query'.mode \in GraphModes => query' = query
    BY <2>2 DEF GraphModes
  <2>8. query.mode # "none" /\ (query.mode \in GraphModes => query.dataset # 0)
        /\ (query.mode \in {"range", "top"} => query.anchor # Anyone)
    BY <1>3 DEF ReadRow, Asked
  <2>9. (pc' # "done" => answer' = "none") /\ answer' \in {"none", "complete", "not_found", "stale", "internal_error"}
    BY <2>4, <2>5
  <2> HIDE DEF Statements
  <2> QED BY <2>1, <2>2, <2>3, <2>6, <2>7, <2>8, <2>9 DEF Asked
<1>4. CASE ReadRanked
  BY <1>4 DEF ReadRanked, Asked, End, investigation, GraphModes
<1>5. CASE ReadEdges \/ CountCounterparties
  BY <1>5 DEF ReadEdges, CountCounterparties, Asked, End, investigation
<1>6. CASE ReadDataset \/ ReadMetrics \/ ReadAssessment
  BY <1>6 DEF ReadDataset, ReadMetrics, ReadAssessment, ReadPart, Asked, End, investigation
<1>7. CASE ReadMessages \/ ReadChunks
  BY <1>7 DEF ReadMessages, ReadChunks, Asked, End, investigation
<1> QED BY <1>1, <1>2, <1>3, <1>4, <1>5, <1>6, <1>7 DEF Steps, Read

LEMMA ShapedStep == Investigated /\ Shaped /\ [Next]_vars => Shaped'
<1> SUFFICES ASSUME Investigated, Shaped, [Next]_vars PROVE Shaped'
  OBVIOUS
<1>1. CASE ~Steps
  BY <1>1, OthersLeave DEF Shaped, reader
<1>2. CASE \E m \in Modes, d \in 0..current, a \in Anchors \cup {Anyone} : Ask(m, d, a)
  BY <1>2 DEF Ask, Shaped, Begin, NoPage
<1>3. CASE ReadRow \/ ReadDataset \/ ReadMetrics \/ ReadAssessment
  BY <1>3 DEF ReadRow, ReadDataset, ReadMetrics, ReadAssessment, ReadPart, Shaped
<1>4. ASSUME NEW r, NEW m, page' = [page EXCEPT !.rows = r, !.more = m], place' = place PROVE Shaped'
  BY <1>4 DEF Shaped
<1>5. CASE ReadEdges
  BY <1>4, <1>5 DEF ReadEdges
<1>6. CASE ReadRanked \/ ReadMessages
  BY <1>6 DEF ReadRanked, ReadMessages, NoPage, Shaped
<1>7. CASE CountCounterparties \/ ReadChunks
  <2>1. page' = NoPage
    BY <1>7 DEF CountCounterparties, ReadChunks
  <2>2. place' = [after |-> place'.after, number |-> place'.number]
    BY <1>7 DEF CountCounterparties, ReadChunks, Shaped
  <2> QED BY <2>1, <2>2 DEF NoPage, Shaped
<1> QED BY <1>1, <1>2, <1>3, <1>5, <1>6, <1>7 DEF Steps, Read

LEMMA ResultStep == Investigated /\ Asked /\ ResultSoFar /\ [Next]_vars => ResultSoFar'
<1> SUFFICES ASSUME Investigated, Asked, ResultSoFar, [Next]_vars PROVE ResultSoFar'
  OBVIOUS
<1>1. CASE ~Steps
  <2>1. query.mode = "result" /\ query.dataset # 0 => content'[query.dataset] = content[query.dataset]
    BY <1>1, OthersLeave DEF Asked, Investigated
  <2> QED BY <1>1, <2>1, OthersLeave DEF ResultSoFar, reader
<1>2. ASSUME Steps PROVE content' = content
  BY <1>2, ReadingLeaves DEF investigation
<1> USE DEF Statements
<1>3. ASSUME NEW m \in Modes, NEW d \in 0..current, NEW a \in Anchors \cup {Anyone}, Ask(m, d, a)
      PROVE  ResultSoFar'
  BY <1>3 DEF Ask, ResultSoFar, Modes
<1>4. CASE ReadRow
  <2>1. query'.mode = query.mode
    BY <1>4 DEF ReadRow, Asked
  <2>2. query.mode = "result" => query'.dataset = current
    BY <1>4 DEF ReadRow, Asked
  <2>3. query.mode = "result" => pc' = "done" \/ (pc' = "dataset" /\ current # 0)
    BY <1>4 DEF ReadRow, End, FirstStatement, GraphModes
  <2>4. answer' # "complete" /\ collected' = collected /\ pc = "row"
    BY <1>4 DEF ReadRow, End, Asked
  <2> QED BY <2>1, <2>2, <2>3, <2>4 DEF ResultSoFar
<1>5. CASE ReadRanked \/ ReadEdges \/ CountCounterparties \/ ReadMessages \/ ReadChunks
  BY <1>5 DEF ReadRanked, ReadEdges, CountCounterparties, ReadMessages, ReadChunks, ResultSoFar, Asked, GraphModes
<1>6. CASE ReadDataset
  BY <1>2, <1>6 DEF ReadDataset, ReadPart, End, ResultSoFar, Asked, Steps, Read
<1>7. CASE ReadMetrics \/ ReadAssessment
  <2>1. query.mode = "result" /\ query.dataset \in 1..current
    BY <1>7 DEF ReadMetrics, ReadAssessment, ReadPart, Asked, ResultSoFar, Investigated
  <2>2. assessment[query.dataset] = [metrics    |-> Metrics(Target, content[query.dataset]),
                                     evaluation |-> Evaluate(Target, content[query.dataset])]
    BY <2>1 DEF Investigated
  <2> DEFINE d == query.dataset
  <2>3. content' = content /\ query' = query
    BY <1>2, <1>7 DEF Steps, Read, ReadMetrics, ReadAssessment, ReadPart
  <2>4. CASE ReadMetrics
    <3>1. collected = <<d>> /\ pc' \in {"assessment", "done"} /\ answer' # "complete"
      BY <2>1, <2>4 DEF ReadMetrics, ReadPart, End, ResultSoFar, Asked
    <3>2. pc' = "assessment" => collected' = <<d, Metrics(Target, content[d])>>
      BY <2>2, <2>4, <3>1 DEF ReadMetrics, ReadPart, End
    <3> QED BY <2>1, <2>3, <3>1, <3>2 DEF ResultSoFar
  <2>5. CASE ReadAssessment
    <3>1. collected = <<d, Metrics(Target, content[d])>> /\ pc' = "done"
      BY <2>1, <2>5 DEF ReadAssessment, ReadPart, End, ResultSoFar, Asked
    <3>2. answer' = "complete" => collected' = <<d, Metrics(Target, content[d]), Evaluate(Target, content[d])>>
      BY <2>2, <2>5, <3>1 DEF ReadAssessment, ReadPart, End
    <3> QED BY <2>1, <2>3, <3>1, <3>2 DEF ResultSoFar
  <2> QED BY <1>7, <2>4, <2>5
<1> QED BY <1>1, <1>3, <1>4, <1>5, <1>6, <1>7 DEF Steps, Read

Consistent == Investigated /\ Asked /\ Shaped /\ ResultSoFar

LEMMA ConsistentAlways == Spec => []Consistent
<1>1. Init => Consistent
  <2> SUFFICES ASSUME Init PROVE Consistent
    OBVIOUS
  <2>1. Investigated
    BY DEF Init, Investigated
  <2>2. Shaped
    BY DEF Init, Shaped, Begin, NoPage
  <2> QED BY <2>1, <2>2 DEF Init, Consistent, Asked, ResultSoFar, NoQuery, Statements, Anyone, Modes, GraphModes
<1>2. Consistent /\ [Next]_vars => Consistent'
  BY InvestigatedStep, AskedStep, ShapedStep, ResultStep DEF Consistent
<1> QED BY <1>1, <1>2, PTL DEF Spec

\* ResultIsOfOneDataset: the metrics and the assessment that LoadCurrentResult
\* returns are those of the Dataset it names, whatever is published meanwhile.
THEOREM ResultsAreConsistent == Spec => []ResultIsOfOneDataset
<1>1. Consistent => ResultIsOfOneDataset
  BY DEF Consistent, ResultSoFar, ResultIsOfOneDataset
<1> QED BY <1>1, ConsistentAlways, PTL

----------------------------------------------------------------------------
\* The order of the rows.

Chronology == {p \in TransferRow \X TransferRow : Later(Key(p[2]), Key(p[1]))}

\* What a Dataset may hold.
Storable(T) ==
    /\ T \subseteq TransferRow /\ IsFiniteSet(T)
    /\ \A t, u \in T : t.tx = u.tx /\ t.log = u.log => t = u

LEMMA SubsetsAreStorable ==
    ASSUME NEW T, Storable(T), NEW U, U \subseteq T PROVE Storable(U)
<1>1. IsFiniteSet(U)
  BY FS_Subset DEF Storable
<1> QED BY <1>1 DEF Storable

LEMMA ChronologyOrders == ASSUME NEW T, Storable(T) PROVE StrictOrder(Chronology, T)
<1>1. \A t, u \in T : <<t, u>> \in Chronology <=> Later(Key(u), Key(t))
  BY DEF Chronology, Storable
<1>2. \A t \in T : t.at \in Int /\ t.tx \in Int /\ t.log \in Int
  BY DEF Storable, TransferRow
<1>3. \A t, u \in T : Later(Key(u), Key(t)) <=>
            \/ u.at > t.at
            \/ u.at = t.at /\ u.tx > t.tx
            \/ u.at = t.at /\ u.tx = t.tx /\ u.log > t.log
  BY DEF Later, Key
<1>4. \A t, u \in T : t = u \/ Later(Key(u), Key(t)) \/ Later(Key(t), Key(u))
  BY <1>2, <1>3 DEF Storable
<1>5. \A t \in T : ~Later(Key(t), Key(t))
  BY <1>2, <1>3
<1>6. \A t, u, v \in T : Later(Key(u), Key(t)) /\ Later(Key(v), Key(u)) => Later(Key(v), Key(t))
  BY <1>2, <1>3
<1> QED BY <1>1, <1>4, <1>5, <1>6 DEF StrictOrder

LEMMA SortedLists == ASSUME NEW T, Storable(T) PROVE Lists(Sorted(T), Chronology, T)
<1>1. StrictOrder(Chronology, T) /\ IsFiniteSet(T)
  BY ChronologyOrders DEF Storable
<1>2. \A e \in T : Below(Chronology, T, e) = {d \in T : Later(Key(e), Key(d))}
  BY DEF Below, Chronology, Storable
<1>3. ASSUME NEW i \in 1..Cardinality(T)
      PROVE  \E e \in T : Cardinality({d \in T : Later(Key(e), Key(d))}) = i - 1
  <2>1. PICK e \in T : Cardinality(Below(Chronology, T, e)) = i - 1
    BY <1>1, RanksAreTaken
  <2> QED BY <1>2, <2>1
<1>4. Sorted(T) = [i \in 1..Cardinality(T) |->
                      CHOOSE e \in T : Cardinality({d \in T : Later(Key(e), Key(d))}) = i - 1]
  BY DEF Sorted, InOrder
<1>5. \A i \in 1..Cardinality(T) :
          Sorted(T)[i] \in T /\ Cardinality({d \in T : Later(Key(Sorted(T)[i]), Key(d))}) = i - 1
  BY <1>3, <1>4
<1>6. Sorted(T) \in [1..Cardinality(T) -> T]
  BY <1>4, <1>5
<1> QED BY <1>2, <1>5, <1>6 DEF Lists

LEMMA SortedIsWhole ==
    ASSUME NEW T, Storable(T)
    PROVE  /\ Sorted(T) \in Seq(T) /\ Len(Sorted(T)) = Cardinality(T) /\ Cardinality(T) \in Nat
           /\ \A i, j \in 1..Cardinality(T) : <<Sorted(T)[i], Sorted(T)[j]>> \in Chronology <=> i < j
           /\ \A t \in T : \E i \in 1..Cardinality(T) : Sorted(T)[i] = t
<1> DEFINE n == Cardinality(T)  s == Sorted(T)
<1>1. /\ n \in Nat /\ s \in [1..n -> T]
      /\ \A i, j \in 1..n : <<s[i], s[j]>> \in Chronology <=> i < j
      /\ \A t \in T : \E i \in 1..n : s[i] = t
  BY SortedLists, ChronologyOrders, ListIsWhole DEF Storable
<1>2. s \in Seq(T) /\ Len(s) = n
  <2> HIDE DEF s, n
  <2> QED BY <1>1
<1> QED BY <1>1, <1>2

\* SubSeq, position by position.
LEMMA SubSeqIs ==
    ASSUME NEW S, NEW s \in Seq(S), NEW m \in Nat \ {0}, NEW k \in 0..Len(s)
    PROVE  /\ SubSeq(s, m, k) = [i \in 1..(k - m + 1) |-> s[i + m - 1]]
           /\ SubSeq(s, m, k) \in Seq(S)
           /\ Len(SubSeq(s, m, k)) = IF m <= k THEN k - m + 1 ELSE 0
<1>1. m \in Int /\ k \in Int /\ \A i \in m..k : s[i] \in S
  OBVIOUS
<1>2. /\ SubSeq(s, m, k) \in Seq(S)
      /\ Len(SubSeq(s, m, k)) = IF m <= k THEN k - m + 1 ELSE 0
      /\ \A i \in 1..(k - m + 1) : SubSeq(s, m, k)[i] = s[m + i - 1]
  BY <1>1, SubSeqProperties
<1>3. \A i \in 1..(k - m + 1) : SubSeq(s, m, k)[i] = s[i + m - 1]
  BY <1>2
<1>4. SubSeq(s, m, k) = [i \in 1..Len(SubSeq(s, m, k)) |-> SubSeq(s, m, k)[i]]
  BY <1>2
<1>5. 1..Len(SubSeq(s, m, k)) = 1..(k - m + 1)
  BY <1>2
<1> QED BY <1>2, <1>3, <1>4, <1>5

\* The rows after the n-th are those that the cursor behind it finds.
After(T, n) == IF n = 0 THEN <<0, 0, 0>> ELSE Key(Sorted(T)[n])

LEMMA RestIsSorted ==
    ASSUME NEW T, Storable(T), NEW n \in 0..Cardinality(T)
    PROVE  Sorted({t \in T : Later(Key(t), After(T, n))}) = SubSeq(Sorted(T), n + 1, Len(Sorted(T)))
<1> DEFINE s == Sorted(T)
           N == Cardinality(T)
           U == {t \in T : Later(Key(t), After(T, n))}
           f == [i \in 1..(N - n) |-> s[i + n]]
<1>1. /\ s \in Seq(T) /\ Len(s) = N /\ N \in Nat
      /\ \A i, j \in 1..N : <<s[i], s[j]>> \in Chronology <=> i < j
      /\ \A t \in T : \E i \in 1..N : s[i] = t
  BY SortedIsWhole
<1>2. \A i \in 1..N : s[i] \in U <=> n < i
  <2> TAKE i \in 1..N
  <2>1. s[i] \in T /\ s[i] \in TransferRow
    BY <1>1 DEF Storable
  <2>2. CASE n = 0
    <3>1. s[i].at \in Nat \ {0}
      BY <2>1 DEF TransferRow
    <3>2. Later(Key(s[i]), <<0, 0, 0>>)
      BY <3>1 DEF Later, Key
    <3> QED BY <2>1, <2>2, <3>2 DEF After
  <2>3. CASE n # 0
    <3>1. n \in 1..N /\ s[n] \in TransferRow
      BY <1>1, <2>3 DEF Storable
    <3>2. <<s[n], s[i]>> \in Chronology <=> n < i
      BY <1>1, <3>1
    <3>3. <<s[n], s[i]>> \in Chronology <=> Later(Key(s[i]), Key(s[n]))
      BY <2>1, <3>1 DEF Chronology
    <3> QED BY <2>1, <2>3, <3>2, <3>3 DEF After
  <2> QED BY <2>2, <2>3
<1>3. U \subseteq T /\ Storable(U)
  BY SubsetsAreStorable
<1> HIDE DEF U, s, N
<1>4. N - n \in Nat /\ \A i \in 1..(N - n) : i + n \in 1..N
  BY <1>1 DEF N
<1>5. f \in [1..(N - n) -> U]
  BY <1>2, <1>4
<1>6. \A i, j \in 1..(N - n) : i < j => <<f[i], f[j]>> \in Chronology
  BY <1>1, <1>4
<1>7. ASSUME NEW t \in U PROVE \E i \in 1..(N - n) : f[i] = t
  <2>1. PICK i \in 1..N : s[i] = t
    BY <1>1, <1>3
  <2>2. n < i
    BY <1>2, <2>1
  <2>3. i - n \in 1..(N - n) /\ (i - n) + n = i
    BY <2>2, <1>1
  <2> QED BY <2>1, <2>3
<1>8. StrictOrder(Chronology, U) /\ IsFiniteSet(U)
  BY <1>3, ChronologyOrders DEF Storable
<1>9. Lists(f, Chronology, U)
  <2> HIDE DEF f
  <2> QED BY <1>4, <1>5, <1>6, <1>7, <1>8, IncreasingLists
<1>10. Sorted(U) = f
  BY <1>3, <1>8, <1>9, SortedLists, OneList
<1>11. SubSeq(s, n + 1, N) = [i \in 1..(N - (n + 1) + 1) |-> s[i + (n + 1) - 1]]
  <2>1. n + 1 \in Nat \ {0} /\ N \in 0..Len(s)
    BY <1>1
  <2> QED BY <1>1, <2>1, SubSeqIs
<1>12. SubSeq(s, n + 1, N) = f
  <2>1. N - (n + 1) + 1 = N - n /\ \A i \in 1..(N - n) : i + (n + 1) - 1 = i + n
    BY <1>1, <1>4 DEF N
  <2> QED BY <1>11, <2>1
<1> QED BY <1>1, <1>10, <1>12 DEF U, s

----------------------------------------------------------------------------
\* The pages of a cursor or of a range.

Wanted == Anchored(content[query.dataset], query.anchor)
All    == Sorted(Wanted)
AtOnce == IF query.mode = "cursor" THEN PageSize ELSE Window

\* The first n rows have left, and the next page begins after them.
Taken(n) ==
    /\ collected = SubSeq(All, 1, n)
    /\ query.mode = "cursor" => place.after = After(Wanted, n)
    /\ query.mode = "range" => place.number = n + 1

\* The page in hand: the rows that follow the n-th.
InHand(n) ==
    LET m == Min({n + AtOnce, Len(All)}) IN
    /\ page.rows = SubSeq(All, n + 1, m)
    /\ page.more <=> m < Len(All)

PagesSoFar ==
    present /\ query.mode \in {"cursor", "range"} =>
        /\ pc \in {"row", "edges", "count"} =>
              \E n \in 0..Len(All) : Taken(n) /\ (pc = "count" => InHand(n))
        /\ answer = "complete" => collected = All

\* What the reader wants is there in full, while the Investigation is.
LEMMA WantedIsStorable ==
    Investigated /\ Asked /\ query.mode \in GraphModes =>
        Storable(content[query.dataset]) /\ Storable(Wanted)
<1> SUFFICES ASSUME Investigated, Asked, query.mode \in GraphModes
             PROVE  Storable(content[query.dataset]) /\ Storable(Wanted)
  OBVIOUS
<1>1. query.dataset \in 1..current /\ query.dataset \in Datasets
  BY DEF Investigated, Asked, Datasets
<1>2. content[query.dataset] \in Contents[query.dataset]
  BY <1>1 DEF Investigated
<1>3. Storable(content[query.dataset])
  BY <1>1, <1>2, ContentsFacts DEF Storable
<1> QED BY <1>3, SubsetsAreStorable DEF Wanted, Anchored

\* The others leave what is wanted.
LEMMA WantedStays ==
    ASSUME Investigated, Asked, [Next]_vars, ~Steps, query.mode \in GraphModes
    PROVE  content'[query.dataset] = content[query.dataset]
<1>1. query.dataset \in 1..current
  BY DEF Investigated, Asked
<1> QED BY <1>1, OthersLeave

LEMMA MinIs == ASSUME NEW a \in Int, NEW b \in Int PROVE Min({a, b}) = IF a <= b THEN a ELSE b
<1>1. \E x \in {a, b} : \A y \in {a, b} : x <= y
  OBVIOUS
<1> QED BY <1>1 DEF Min

\* Cutting a page off the rows that follow the n-th, when at least one more
\* than fits was asked for.
LEMMA PageCut ==
    ASSUME NEW S, NEW s \in Seq(S), NEW n \in 0..Len(s), NEW size \in Nat \ {0},
           NEW k \in n..Len(s), k = Len(s) \/ n + size < k,
           NEW m \in n..Len(s), m = n + size \/ (m = Len(s) /\ m < n + size)
    PROVE  /\ Slice(SubSeq(s, n + 1, k), 1, size) = SubSeq(s, n + 1, m)
           /\ Len(SubSeq(s, n + 1, k)) > size <=> m < Len(s)
<1> DEFINE rows == SubSeq(s, n + 1, k)  l == Min({1 + size - 1, Len(rows)})
<1>1. n + 1 \in Nat \ {0} /\ Len(s) \in Nat /\ k \in 0..Len(s) /\ m \in 0..Len(s)
  OBVIOUS
<1>2. /\ rows = [i \in 1..(k - (n + 1) + 1) |-> s[i + (n + 1) - 1]]
      /\ rows \in Seq(S)
      /\ Len(rows) = IF n + 1 <= k THEN k - (n + 1) + 1 ELSE 0
  BY <1>1, SubSeqIs
<1> HIDE DEF rows
<1>3. Len(rows) = k - n
  BY <1>1, <1>2
<1>4. l = m - n /\ l \in 0..Len(rows)
  <2>1. 1 + size - 1 \in Int /\ Len(rows) \in Int /\ 1 + size - 1 = size
    BY <1>2
  <2>2. l = IF 1 + size - 1 <= Len(rows) THEN 1 + size - 1 ELSE Len(rows)
    BY <2>1, MinIs
  <2> QED BY <1>1, <1>3, <2>1, <2>2
<1> HIDE DEF l
<1>5. SubSeq(rows, 1, l) = [i \in 1..(l - 1 + 1) |-> rows[i + 1 - 1]]
  BY <1>2, <1>4, SubSeqIs
<1>6. SubSeq(s, n + 1, m) = [i \in 1..(m - (n + 1) + 1) |-> s[i + (n + 1) - 1]]
  BY <1>1, SubSeqIs
<1>7. l - 1 + 1 = m - n /\ m - (n + 1) + 1 = m - n
  BY <1>1, <1>4
<1>8. ASSUME NEW i \in 1..(m - n) PROVE rows[i + 1 - 1] = s[i + (n + 1) - 1]
  <2>1. i + 1 - 1 = i /\ i \in 1..(k - (n + 1) + 1)
    BY <1>1
  <2> QED BY <1>2, <2>1
<1>9. SubSeq(rows, 1, l) = [i \in 1..(m - n) |-> rows[i + 1 - 1]]
  BY <1>5, <1>7
<1>10. SubSeq(s, n + 1, m) = [i \in 1..(m - n) |-> s[i + (n + 1) - 1]]
  BY <1>6, <1>7
<1>11. Slice(rows, 1, size) = SubSeq(s, n + 1, m)
  BY <1>8, <1>9, <1>10 DEF Slice, l
<1>12. Len(rows) > size <=> m < Len(s)
  BY <1>1, <1>3
<1> QED BY <1>11, <1>12 DEF rows

LEMMA PagesStep == Investigated /\ Asked /\ Shaped /\ PagesSoFar /\ [Next]_vars => PagesSoFar'
<1> SUFFICES ASSUME Investigated, Asked, Shaped, PagesSoFar, [Next]_vars,
                    present', query'.mode \in {"cursor", "range"}
             PROVE  /\ pc' \in {"row", "edges", "count"} =>
                          (\E n \in 0..Len(All) : Taken(n) /\ (pc = "count" => InHand(n)))'
                    /\ answer' = "complete" => collected' = All'
  BY DEF PagesSoFar
<1> USE DEF GraphModes
<1>1. CASE ~Steps
  <2>1. UNCHANGED reader /\ present /\ query.mode \in {"cursor", "range"}
    BY <1>1, OthersLeave DEF reader
  <2>2. Wanted' = Wanted
    BY <1>1, <2>1, WantedStays DEF Wanted, reader
  <2>3. All' = All
    BY <2>2 DEF All
  <2>4. \A n : Taken(n)' = Taken(n) /\ InHand(n)' = InHand(n)
    BY <2>1, <2>2, <2>3 DEF Taken, InHand, AtOnce, reader
  <2> QED BY <2>1, <2>3, <2>4 DEF PagesSoFar, reader
<1>2. ASSUME NEW m \in Modes, NEW d \in 0..current, NEW a \in Anchors \cup {Anyone}, Ask(m, d, a)
      PROVE  /\ pc' = "row" /\ answer' = "none"
             /\ (\E n \in 0..Len(All) : Taken(n))'
  <2>1. pc' = "row" /\ answer' = "none" /\ collected' = <<>> /\ place' = [after |-> <<0, 0, 0>>, number |-> 1]
    BY <1>2 DEF Ask, Begin
  <2>2. Investigated' /\ Asked'
    BY InvestigatedStep, AskedStep
  <2>3. (Investigated /\ Asked /\ query.mode \in GraphModes =>
            Storable(content[query.dataset]) /\ Storable(Wanted))'
    BY WantedIsStorable, PTL
  <2>4. (All \in Seq(Wanted))'
    BY <2>2, <2>3, SortedIsWhole DEF All
  <2>5. Len(All') \in Nat /\ SubSeq(All', 1, 0) = <<>>
    BY <2>4, SubSeqEmpty
  <2>6. Taken(0)'
    BY <2>1, <2>5 DEF Taken, After
  <2> QED BY <2>1, <2>5, <2>6
<1>3. ASSUME Read PROVE Wanted' = Wanted /\ All' = All /\ AtOnce' = AtOnce /\ query' = query /\ present = present'
  <2>1. content' = content /\ present' = present
    BY <1>3, ReadingLeaves DEF Steps, investigation
  <2>2. query' = query
    BY <1>3 DEF Asked, Read, ReadRow, ReadRanked, ReadEdges, CountCounterparties, ReadDataset, ReadMetrics,
           ReadAssessment, ReadPart, ReadMessages, ReadChunks
  <2>3. Wanted' = Wanted
    BY <2>1, <2>2 DEF Wanted
  <2> QED BY <2>1, <2>2, <2>3 DEF All, AtOnce
<1>4. CASE ReadRow
  <2>1. UNCHANGED <<place, collected>> /\ pc' \in {"done", "edges"} /\ pc = "row" /\ answer' # "complete"
    BY <1>3, <1>4 DEF ReadRow, End, FirstStatement, Asked, Read
  <2>2. \A n : Taken(n)' = Taken(n)
    BY <1>3, <1>4, <2>1 DEF Taken, Read
  <2> QED BY <1>3, <1>4, <2>1, <2>2 DEF PagesSoFar, Read
<1>5. CASE ReadEdges
  <2>1. /\ pc = "edges" /\ pc' = "count" /\ UNCHANGED <<place, collected, answer>>
        /\ present /\ query.mode \in {"cursor", "range"} /\ answer = "none"
    BY <1>3, <1>5 DEF ReadEdges, Read, Asked
  <2>2. PICK n \in 0..Len(All) : Taken(n)
    BY <2>1 DEF PagesSoFar
  <2>3. Taken(n)'
    BY <1>3, <1>5, <2>1, <2>2 DEF Taken, Read
  <2>4. Storable(Wanted) /\ All \in Seq(Wanted) /\ Len(All) = Cardinality(Wanted) /\ All = Sorted(Wanted)
    BY <2>1, WantedIsStorable, SortedIsWhole DEF All
  <2>5. Wanted = Anchored(Transfers, query.anchor)
    BY <2>1 DEF Wanted, Transfers
  <2>6. AtOnce \in Nat \ {0}
    BY DEF AtOnce
  <2>7. CASE query.mode = "cursor"
    <3> DEFINE rows == Sorted(AfterCursor(Wanted))
    <3>1. AfterCursor(Wanted) = {t \in Wanted : Later(Key(t), After(Wanted, n))}
      BY <2>2, <2>7 DEF AfterCursor, Taken
    <3>2. rows = SubSeq(All, n + 1, Len(All))
      BY <2>4, <3>1, RestIsSorted
    <3>3. page' = [page EXCEPT !.rows = Slice(rows, 1, PageSize), !.more = Len(rows) > PageSize]
      BY <1>5, <2>5, <2>7 DEF ReadEdges
    <3>4. \E m : /\ m = Min({n + PageSize, Len(All)})
                 /\ Slice(rows, 1, PageSize) = SubSeq(All, n + 1, m)
                 /\ Len(rows) > PageSize <=> m < Len(All)
      <4> HIDE DEF rows
      <4>1. PICK m, k : m = Min({n + PageSize, Len(All)}) /\ k = Len(All)
        OBVIOUS
      <4>2. n \in 0..Len(All) /\ PageSize \in Nat \ {0} /\ Len(All) \in Nat
        BY <2>4
      <4>3. m \in n..Len(All) /\ (m = n + PageSize \/ (m = Len(All) /\ m < n + PageSize))
        BY <4>1, <4>2, MinIs
      <4>4. k \in n..Len(All) /\ (k = Len(All) \/ n + PageSize < k)
        BY <4>1, <4>2, MinIs
      <4>5. rows = SubSeq(All, n + 1, k)
        BY <3>2, <4>1
      <4>6. All \in Seq(Wanted) /\ n \in 0..Len(All)
        BY <2>4
      <4>7. Slice(SubSeq(All, n + 1, k), 1, PageSize) = SubSeq(All, n + 1, m)
        BY ONLY <4>2, <4>3, <4>4, <4>6, PageCut
      <4>8. Len(SubSeq(All, n + 1, k)) > PageSize <=> m < Len(All)
        BY ONLY <4>2, <4>3, <4>4, <4>6, PageCut
      <4> QED BY <4>1, <4>5, <4>7, <4>8
    <3>5. AtOnce = PageSize
      BY <2>7 DEF AtOnce
    <3> HIDE DEF rows
    <3>6. page'.rows = Slice(rows, 1, PageSize) /\ page'.more = (Len(rows) > PageSize)
      BY <3>3 DEF Shaped
    <3>7. InHand(n)'
      BY <1>3, <1>5, <3>4, <3>5, <3>6 DEF InHand, Read
    <3> QED BY <1>3, <1>5, <2>1, <2>3, <3>7 DEF Read
  <2>8. CASE query.mode = "range"
    <3> DEFINE rows == Slice(All, n + 1, Window + 1)
    <3>1. place.number = n + 1 /\ AtOnce = Window
      BY <2>2, <2>8 DEF Taken, AtOnce
    <3>2. rows = SubSeq(All, n + 1, Min({n + 1 + Window, Len(All)}))
      <4>1. n + 1 + (Window + 1) - 1 = n + 1 + Window
        BY <2>4
      <4> QED BY <4>1 DEF Slice
    <3>3. page' = [page EXCEPT !.rows = Slice(rows, 1, Window), !.more = Len(rows) > Window]
      BY <1>5, <2>4, <2>5, <2>8, <3>1 DEF ReadEdges
    <3>4. \E m : /\ m = Min({n + Window, Len(All)})
                 /\ Slice(rows, 1, Window) = SubSeq(All, n + 1, m)
                 /\ Len(rows) > Window <=> m < Len(All)
      <4> HIDE DEF rows
      <4>1. PICK m, k : m = Min({n + Window, Len(All)}) /\ k = Min({n + 1 + Window, Len(All)})
        OBVIOUS
      <4>2. n \in 0..Len(All) /\ Window \in Nat \ {0} /\ Len(All) \in Nat
        BY <2>4
      <4>3. m \in n..Len(All) /\ (m = n + Window \/ (m = Len(All) /\ m < n + Window))
        BY <4>1, <4>2, MinIs
      <4>4. k \in n..Len(All) /\ (k = Len(All) \/ n + Window < k)
        BY <4>1, <4>2, MinIs
      <4>5. rows = SubSeq(All, n + 1, k)
        BY <3>2, <4>1
      <4>6. All \in Seq(Wanted) /\ n \in 0..Len(All)
        BY <2>4
      <4>7. Slice(SubSeq(All, n + 1, k), 1, Window) = SubSeq(All, n + 1, m)
        BY ONLY <4>2, <4>3, <4>4, <4>6, PageCut
      <4>8. Len(SubSeq(All, n + 1, k)) > Window <=> m < Len(All)
        BY ONLY <4>2, <4>3, <4>4, <4>6, PageCut
      <4> QED BY <4>1, <4>5, <4>7, <4>8
    <3> HIDE DEF rows
    <3>5. page'.rows = Slice(rows, 1, Window) /\ page'.more = (Len(rows) > Window)
      BY <3>3 DEF Shaped
    <3>6. InHand(n)'
      BY <1>3, <1>5, <3>1, <3>4, <3>5 DEF InHand, Read
    <3> QED BY <1>3, <1>5, <2>1, <2>3, <3>6 DEF Read
  <2> QED BY <2>1, <2>7, <2>8
<1>6. CASE CountCounterparties
  <2>1. /\ pc = "count" /\ present /\ query.mode \in {"cursor", "range"} /\ answer = "none"
        /\ collected' = collected \o page.rows
    BY <1>3, <1>6 DEF CountCounterparties, Read, Asked
  <2>2. PICK n \in 0..Len(All) : Taken(n) /\ InHand(n)
    BY <2>1 DEF PagesSoFar
  <2>3. Storable(Wanted) /\ All \in Seq(Wanted) /\ All = Sorted(Wanted) /\ Len(All) \in Nat
    BY <2>1, WantedIsStorable, SortedIsWhole DEF All
  <2>4. PICK m : m = Min({n + AtOnce, Len(All)})
    OBVIOUS
  <2>5. m = (IF n + AtOnce <= Len(All) THEN n + AtOnce ELSE Len(All)) /\ AtOnce \in Nat \ {0}
    <3>1. AtOnce \in Nat \ {0} /\ n + AtOnce \in Int /\ Len(All) \in Int
      BY <2>3 DEF AtOnce
    <3> QED BY <2>4, <3>1, MinIs
  <2>6. m \in n..Len(All) /\ (n < Len(All) => n < m)
    BY <2>3, <2>5
  <2>7. page.rows = SubSeq(All, n + 1, m) /\ (page.more <=> m < Len(All))
    BY <2>2, <2>4 DEF InHand
  <2>8. collected' = SubSeq(All, 1, m)
    <3>1. SubSeq(All, 1, n) \o SubSeq(All, n + 1, m) = SubSeq(All, 1, m)
      <4>1. 1 \in 1..(Len(All) + 1) /\ n \in (1 - 1)..Len(All) /\ m \in n..Len(All)
        BY <2>3, <2>6
      <4> QED BY <2>3, <4>1, ConcatAdjacentSubSeq
    <3> QED BY <2>1, <2>2, <2>7, <3>1 DEF Taken
  <2>9. CASE page.more
    <3>1. m < Len(All) /\ m = n + AtOnce /\ pc' = "row" /\ answer' = "none"
      BY <1>6, <2>1, <2>5, <2>6, <2>7, <2>9 DEF CountCounterparties
    <3>2. page.rows # <<>> /\ Last(page.rows) = All[m] /\ n + 1 <= m
      <4>1. n + 1 \in Nat \ {0} /\ m \in 0..Len(All) /\ n + 1 <= m
        BY <2>3, <2>5, <3>1
      <4>2. /\ page.rows = [i \in 1..(m - (n + 1) + 1) |-> All[i + (n + 1) - 1]]
            /\ Len(page.rows) = m - (n + 1) + 1
        BY <2>3, <2>7, <4>1, SubSeqIs
      <4>3. m - (n + 1) + 1 = m - n /\ m - n \in 1..(m - n) /\ (m - n) + (n + 1) - 1 = m
        BY <2>3, <4>1
      <4>4. Len(page.rows) # 0
        BY <4>1, <4>2, <4>3
      <4>5. page.rows[m - n] = All[m]
        BY <4>2, <4>3
      <4>6. page.rows # <<>>
        BY <4>4
      <4>7. Last(page.rows) = All[m]
        BY <4>2, <4>3, <4>5 DEF Last
      <4> QED BY <4>1, <4>6, <4>7
    <3>3. query.mode = "cursor" => place'.after = After(Wanted, m)
      BY <1>6, <2>1, <2>3, <2>6, <3>1, <3>2 DEF CountCounterparties, After
    <3>4. query.mode = "range" => place'.number = m + 1
      BY <1>6, <2>2, <2>3, <3>1 DEF CountCounterparties, Taken, AtOnce
    <3>5. Taken(m)'
      BY <1>3, <1>6, <2>8, <3>3, <3>4 DEF Taken, Read
    <3>6. m \in 0..Len(All)
      BY <2>3, <2>6
    <3> QED BY <1>3, <1>6, <3>1, <3>5, <3>6 DEF Read
  <2>10. CASE ~page.more
    <3>1. m = Len(All) /\ pc' = "done"
      BY <1>6, <2>1, <2>3, <2>6, <2>7, <2>10 DEF CountCounterparties, End
    <3>2. collected' = All
      BY <2>3, <2>8, <3>1, SubSeqFull
    <3> QED BY <1>3, <1>6, <3>1, <3>2 DEF Read
  <2> QED BY <2>9, <2>10
<1>7. CASE ReadRanked \/ ReadDataset \/ ReadMetrics \/ ReadAssessment \/ ReadMessages \/ ReadChunks
  BY <1>3, <1>7 DEF ReadRanked, ReadDataset, ReadMetrics, ReadAssessment, ReadPart, ReadMessages, ReadChunks,
                    Read, Asked, Statements
<1> QED BY <1>1, <1>2, <1>4, <1>5, <1>6, <1>7 DEF Steps, Read

----------------------------------------------------------------------------
\* The ranked windows of an anchor.

Counterparts(T, a) == {Other(t, a) : t \in Anchored(T, a)}
Shared(T, a, o)    == Cardinality({t \in Anchored(T, a) : Other(t, a) = o})
MoreShared(T, a)   ==
    {p \in Counterparts(T, a) \X Counterparts(T, a) :
        \/ Shared(T, a, p[1]) > Shared(T, a, p[2])
        \/ Shared(T, a, p[1]) = Shared(T, a, p[2]) /\ p[1] < p[2]}

LEMMA CounterpartsAreFinite ==
    ASSUME NEW T, Storable(T), NEW a
    PROVE  /\ IsFiniteSet(Counterparts(T, a)) /\ Counterparts(T, a) \subseteq Nat
           /\ \A o : Shared(T, a, o) \in Nat
<1> DEFINE other == [t \in Anchored(T, a) |-> Other(t, a)]
<1>1. Anchored(T, a) \subseteq T /\ IsFiniteSet(Anchored(T, a))
  <2>1. Anchored(T, a) \in SUBSET T
    BY DEF Anchored
  <2> QED BY <2>1, FS_Subset DEF Storable
<1>2. other \in Surjection(Anchored(T, a), Counterparts(T, a))
  BY DEF Surjection, Counterparts
<1>3. IsFiniteSet(Counterparts(T, a))
  BY <1>1, <1>2, FS_Surjection
<1>4. \A t \in Anchored(T, a) : Other(t, a) \in Nat
  BY <1>1 DEF Other, Storable, TransferRow
<1>5. ASSUME NEW o PROVE Shared(T, a, o) \in Nat
  <2>1. {t \in Anchored(T, a) : Other(t, a) = o} \in SUBSET Anchored(T, a)
    OBVIOUS
  <2> QED BY <1>1, <2>1, FS_Subset, FS_CardinalityType DEF Shared
<1> QED BY <1>3, <1>4, <1>5 DEF Counterparts

LEMMA MoreSharedOrders ==
    ASSUME NEW T, Storable(T), NEW a PROVE StrictOrder(MoreShared(T, a), Counterparts(T, a))
<1> DEFINE S == Counterparts(T, a)
           n == [o \in S |-> Shared(T, a, o)]
<1>1. \A o, p \in S : <<o, p>> \in MoreShared(T, a) <=> n[o] > n[p] \/ (n[o] = n[p] /\ o < p)
  BY DEF MoreShared
<1>2. S \subseteq Int /\ \A o \in S : n[o] \in Int
  BY CounterpartsAreFinite
<1> HIDE DEF S, n
<1>3. \A o, p \in S : o = p \/ n[o] > n[p] \/ (n[o] = n[p] /\ o < p) \/ n[p] > n[o] \/ (n[p] = n[o] /\ p < o)
  BY <1>2
<1>4. \A o \in S : ~(n[o] > n[o]) /\ ~(o < o)
  BY <1>2
<1>5. \A o, p, q \in S : (n[o] > n[p] \/ (n[o] = n[p] /\ o < p)) /\ (n[p] > n[q] \/ (n[p] = n[q] /\ p < q))
                            => n[o] > n[q] \/ (n[o] = n[q] /\ o < q)
  <2> TAKE o, p, q \in S
  <2> DEFINE i == n[o]  j == n[p]  k == n[q]
  <2>1. i \in Int /\ j \in Int /\ k \in Int /\ o \in Int /\ p \in Int /\ q \in Int
    BY <1>2
  <2> HIDE DEF i, j, k
  <2>2. (i > j \/ (i = j /\ o < p)) /\ (j > k \/ (j = k /\ p < q)) => i > k \/ (i = k /\ o < q)
    BY ONLY <2>1
  <2> QED BY <2>2 DEF i, j, k
<1>6. StrictOrder(MoreShared(T, a), S)
  BY <1>1, <1>3, <1>4, <1>5 DEF StrictOrder
<1> QED BY <1>6 DEF S

LEMMA RankedLists ==
    ASSUME NEW T, Storable(T), NEW a
    PROVE  Lists(Ranked(T, a), MoreShared(T, a), Counterparts(T, a))
<1> DEFINE S == Counterparts(T, a)  R == MoreShared(T, a)
           ahead(o, p) == Shared(T, a, o) > Shared(T, a, p) \/ (Shared(T, a, o) = Shared(T, a, p) /\ o < p)
<1>1. IsFiniteSet(S) /\ StrictOrder(R, S)
  BY CounterpartsAreFinite, MoreSharedOrders
<1>2. Ranked(T, a) = [i \in 1..Cardinality(S) |-> CHOOSE e \in S : Cardinality({d \in S : ahead(d, e)}) = i - 1]
  BY DEF Ranked, InOrder, Counterparts, Shared
<1>3. \A e \in S : Below(R, S, e) = {d \in S : ahead(d, e)}
  BY DEF Below, MoreShared
<1> HIDE DEF S, R, ahead
<1>4. ASSUME NEW i \in 1..Cardinality(S)
      PROVE  \E e \in S : Cardinality({d \in S : ahead(d, e)}) = i - 1
  <2>1. PICK e \in S : Cardinality(Below(R, S, e)) = i - 1
    BY <1>1, RanksAreTaken
  <2> QED BY <1>3, <2>1
<1>5. ASSUME NEW i \in 1..Cardinality(S)
      PROVE  Ranked(T, a)[i] \in S /\ Cardinality({d \in S : ahead(d, Ranked(T, a)[i])}) = i - 1
  <2> DEFINE c == CHOOSE e \in S : Cardinality({d \in S : ahead(d, e)}) = i - 1
  <2>1. c \in S /\ Cardinality({d \in S : ahead(d, c)}) = i - 1
    BY <1>4
  <2>2. Ranked(T, a)[i] = c
    BY <1>2
  <2> QED BY <2>1, <2>2
<1>6. Ranked(T, a) \in [1..Cardinality(S) -> S]
  BY <1>2, <1>5
<1>7. Lists(Ranked(T, a), R, S)
  BY <1>3, <1>5, <1>6 DEF Lists
<1> QED BY <1>7 DEF R, S

\* Every counterparty has one rank, and they are as many as are counted.
LEMMA RankedIsWhole ==
    ASSUME NEW T, Storable(T), NEW a, a # Anyone
    PROVE  /\ Ranked(T, a) \in Seq(Nat) /\ Len(Ranked(T, a)) = Counterparties(T, a)
           /\ DOMAIN Ranked(T, a) = 1..Len(Ranked(T, a)) /\ Len(Ranked(T, a)) \in Nat
           /\ \A i, j \in DOMAIN Ranked(T, a) : Ranked(T, a)[i] = Ranked(T, a)[j] => i = j
           /\ \A t \in Anchored(T, a) : \E i \in DOMAIN Ranked(T, a) : Other(t, a) = Ranked(T, a)[i]
<1> DEFINE S == Counterparts(T, a)  R == MoreShared(T, a)  r == Ranked(T, a)  n == Cardinality(S)
<1>1. IsFiniteSet(S) /\ S \subseteq Nat /\ StrictOrder(R, S) /\ Lists(r, R, S)
  BY CounterpartsAreFinite, MoreSharedOrders, RankedLists
<1>2. Counterparties(T, a) = n
  <2>1. ASSUME NEW t \in Anchored(T, a)
        PROVE  Other(t, a) \in {u.to : u \in {v \in T : v.from = a}} \cup {u.from : u \in {v \in T : v.to = a}}
    BY DEF Anchored, Other
  <2>2. ASSUME NEW u \in T, u.from = a PROVE u.to \in S
    <3>1. u \in Anchored(T, a) /\ Other(u, a) = u.to
      BY <2>2 DEF Anchored, Other
    <3> QED BY <3>1 DEF Counterparts
  <2>3. ASSUME NEW u \in T, u.to = a PROVE u.from \in S
    <3>1. u \in Anchored(T, a) /\ Other(u, a) = u.from
      BY <2>3 DEF Anchored, Other
    <3> QED BY <3>1 DEF Counterparts
  <2>4. {u.to : u \in {v \in T : v.from = a}} \cup {u.from : u \in {v \in T : v.to = a}} = S
    BY <2>1, <2>2, <2>3 DEF Counterparts
  <2> QED BY <2>4 DEF Counterparties
<1>3. \A t \in Anchored(T, a) : Other(t, a) \in S
  BY DEF Counterparts
<1> HIDE DEF S, R, r
<1>4. /\ n \in Nat /\ r \in [1..n -> S]
      /\ \A i, j \in 1..n : <<r[i], r[j]>> \in R <=> i < j
      /\ \A e \in S : \E i \in 1..n : r[i] = e
  BY <1>1, ListIsWhole
<1> HIDE DEF n
<1>5. r \in Seq(Nat) /\ Len(r) = n /\ DOMAIN r = 1..n
  <2>1. r \in [1..n -> Nat]
    BY <1>1, <1>4
  <2> QED BY <1>4, <2>1
<1>6. \A i, j \in 1..n : r[i] = r[j] => i = j
  <2> SUFFICES ASSUME NEW i \in 1..n, NEW j \in 1..n, r[i] = r[j], i # j PROVE FALSE
    OBVIOUS
  <2>1. i < j \/ j < i
    BY <1>4
  <2>2. r[i] \in S /\ <<r[i], r[i]>> \in R
    BY <1>4, <2>1
  <2> QED BY <1>1, <2>2 DEF StrictOrder
<1>7. \A t \in Anchored(T, a) : \E i \in 1..n : Other(t, a) = r[i]
  BY <1>3, <1>4
<1> QED BY <1>2, <1>4, <1>5, <1>6, <1>7 DEF r

Ranking == Ranked(content[query.dataset], query.anchor)

\* The transfers with the counterparties of these ranks.
OfRanks(I) == {t \in Wanted : \E i \in I \cap DOMAIN Ranking : Other(t, query.anchor) = Ranking[i]}

OnceEach(s, T) == IsInjective(s) /\ Range(s) = T

LEMMA OnceEachJoined ==
    ASSUME NEW S, NEW s \in Seq(S), NEW t \in Seq(S), NEW A, NEW B,
           OnceEach(s, A), OnceEach(t, B), A \cap B = {}
    PROVE  OnceEach(s \o t, A \cup B)
<1>1. /\ s \o t \in Seq(S) /\ Len(s \o t) = Len(s) + Len(t) /\ Len(s) \in Nat /\ Len(t) \in Nat
      /\ \A i \in 1..(Len(s) + Len(t)) : (s \o t)[i] = IF i <= Len(s) THEN s[i] ELSE t[i - Len(s)]
  BY ConcatProperties
<1>2. Range(s \o t) = A \cup B
  BY RangeConcatenation DEF OnceEach
<1>3. DOMAIN s = 1..Len(s) /\ DOMAIN t = 1..Len(t) /\ DOMAIN (s \o t) = 1..(Len(s) + Len(t))
  BY <1>1
<1>4. (\A i \in 1..Len(s) : s[i] \in A) /\ (\A i \in 1..Len(t) : t[i] \in B)
  BY <1>3 DEF OnceEach, Range
<1>5. /\ \A i, j \in 1..Len(s) : s[i] = s[j] => i = j
      /\ \A i, j \in 1..Len(t) : t[i] = t[j] => i = j
  BY <1>3 DEF OnceEach, IsInjective
<1>6. ASSUME NEW i \in 1..(Len(s) + Len(t)), NEW j \in 1..(Len(s) + Len(t)), (s \o t)[i] = (s \o t)[j]
      PROVE  i = j
  <2>1. \A x \in 1..(Len(s) + Len(t)) : x <= Len(s) => x \in 1..Len(s) /\ (s \o t)[x] = s[x]
    BY <1>1
  <2>2. \A x \in 1..(Len(s) + Len(t)) : ~(x <= Len(s)) => x - Len(s) \in 1..Len(t) /\ (s \o t)[x] = t[x - Len(s)]
    BY <1>1
  <2>3. CASE i <= Len(s) /\ j <= Len(s)
    BY <1>5, <1>6, <2>1, <2>3
  <2>4. CASE ~(i <= Len(s)) /\ ~(j <= Len(s))
    <3>1. i - Len(s) = j - Len(s)
      BY <1>5, <1>6, <2>2, <2>4
    <3> QED BY <1>1, <3>1
  <2>5. CASE i <= Len(s) /\ ~(j <= Len(s))
    BY <1>4, <1>6, <2>1, <2>2, <2>5
  <2>6. CASE ~(i <= Len(s)) /\ j <= Len(s)
    BY <1>4, <1>6, <2>1, <2>2, <2>6
  <2> QED BY <2>3, <2>4, <2>5, <2>6
<1> QED BY <1>2, <1>3, <1>6 DEF OnceEach, IsInjective

LEMMA SortedOnceEach == ASSUME NEW T, Storable(T) PROVE OnceEach(Sorted(T), T) /\ Sorted(T) \in Seq(TransferRow)
<1> DEFINE s == Sorted(T)  n == Cardinality(T)
<1>1. /\ s \in Seq(T) /\ Len(s) = n /\ n \in Nat
      /\ \A i, j \in 1..n : <<s[i], s[j]>> \in Chronology <=> i < j
      /\ \A t \in T : \E i \in 1..n : s[i] = t
  BY SortedIsWhole
<1>2. StrictOrder(Chronology, T)
  BY ChronologyOrders
<1> HIDE DEF s, n
<1>3. DOMAIN s = 1..n /\ \A i \in 1..n : s[i] \in T
  BY <1>1
<1>4. Range(s) = T
  <2>1. Range(s) = {s[i] : i \in 1..n}
    BY <1>3 DEF Range
  <2> QED BY <1>1, <1>3, <2>1
<1>5. \A i, j \in 1..n : s[i] = s[j] => i = j
  <2> SUFFICES ASSUME NEW i \in 1..n, NEW j \in 1..n, s[i] = s[j], i # j PROVE FALSE
    OBVIOUS
  <2>1. i < j \/ j < i
    BY <1>1
  <2>2. s[i] \in T /\ <<s[i], s[i]>> \in Chronology
    BY <1>1, <1>3, <2>1
  <2> QED BY <1>2, <2>2 DEF StrictOrder
<1>6. T \subseteq TransferRow
  BY DEF Storable
<1>7. s \in Seq(TransferRow)
  BY <1>1, <1>6, SeqMonotonic
<1> QED BY <1>3, <1>4, <1>5, <1>7 DEF OnceEach, IsInjective, s

LEMMA WindowIs ==
    ASSUME NEW S, NEW r \in Seq(S), NEW n \in Nat \ {0}, NEW size \in Nat \ {0}
    PROVE  /\ DOMAIN r = 1..Len(r)
           /\ Range(Slice(r, n, size)) = {r[i] : i \in (n..(n + size - 1)) \cap DOMAIN r}
           /\ Range(Slice(r, n, size)) = {} => Len(r) <= n - 1
<1> DEFINE m == Min({n + size - 1, Len(r)})
<1>1. Len(r) \in Nat /\ DOMAIN r = 1..Len(r) /\ n + size - 1 \in Nat /\ n <= n + size - 1
  OBVIOUS
<1>2. m = IF n + size - 1 <= Len(r) THEN n + size - 1 ELSE Len(r)
  BY <1>1, MinIs
<1> HIDE DEF m
<1>3. m \in 0..Len(r) /\ n..m = (n..(n + size - 1)) \cap DOMAIN r
  <2> PICK to : to = n + size - 1
    OBVIOUS
  <2>1. to \in Nat /\ m = IF to <= Len(r) THEN to ELSE Len(r)
    BY <1>1, <1>2
  <2>2. m \in 0..Len(r) /\ n..m = (n..to) \cap (1..Len(r))
    <3>1. CASE to <= Len(r)
      <4>1. m = to
        BY <2>1, <3>1
      <4>2. to \in 0..Len(r) /\ n..to = (n..to) \cap (1..Len(r))
        BY <1>1, <2>1, <3>1
      <4> QED BY <4>1, <4>2
    <3>2. CASE ~(to <= Len(r))
      <4>1. m = Len(r)
        BY <2>1, <3>2
      <4>2. Len(r) \in 0..Len(r) /\ n..Len(r) = (n..to) \cap (1..Len(r))
        BY <1>1, <2>1, <3>2
      <4> QED BY <4>1, <4>2
    <3> QED BY <3>1, <3>2
  <2> QED BY <1>1, <2>2
<1>4. SubSeq(r, n, m) = [i \in 1..(m - n + 1) |-> r[i + n - 1]]
  BY <1>3, SubSeqIs
<1> DEFINE f == [i \in 1..(m - n + 1) |-> r[i + n - 1]]
<1>5. Range(f) = {r[i] : i \in n..m}
  <2>1. ASSUME NEW x \in Range(f) PROVE x \in {r[i] : i \in n..m}
    <3>1. PICK i \in 1..(m - n + 1) : x = r[i + n - 1]
      BY <2>1 DEF Range
    <3>2. i + n - 1 \in n..m
      BY <1>3
    <3> QED BY <3>1, <3>2
  <2>2. ASSUME NEW i \in n..m PROVE r[i] \in Range(f)
    <3>1. i - n + 1 \in 1..(m - n + 1) /\ (i - n + 1) + n - 1 = i
      BY <1>3
    <3>2. f[i - n + 1] = r[i]
      BY <3>1
    <3> QED BY <3>1, <3>2 DEF Range
  <2> QED BY <2>1, <2>2
<1>6. Range(Slice(r, n, size)) = {r[i] : i \in n..m}
  BY <1>4, <1>5 DEF Slice, m
<1>7. n..m = {} => Len(r) <= n - 1
  <2> PICK to : to = n + size - 1
    OBVIOUS
  <2>1. to \in Nat /\ n <= to /\ m = IF to <= Len(r) THEN to ELSE Len(r)
    BY <1>1, <1>2
  <2>2. m \in Nat /\ (m = to \/ m = Len(r))
    BY <1>1, <2>1
  <2>3. n..m = {} => ~(n <= m)
    BY <2>2
  <2>4. CASE m = to
    BY <2>1, <2>3, <2>4
  <2>5. CASE m = Len(r)
    <3>1. ~(n <= Len(r)) => Len(r) <= n - 1
      BY <1>1
    <3> QED BY <2>3, <2>5, <3>1
  <2> QED BY <2>2, <2>4, <2>5
<1>8. Range(Slice(r, n, size)) = {} => n..m = {}
  <2>1. \A i \in n..m : r[i] \in Range(Slice(r, n, size))
    BY <1>6
  <2> QED BY <2>1
<1>9. Range(Slice(r, n, size)) = {r[i] : i \in (n..(n + size - 1)) \cap DOMAIN r}
  BY <1>3, <1>6
<1> QED BY <1>1, <1>7, <1>8, <1>9

RanksSoFar ==
    present /\ query.mode = "top" =>
        LET to == place.number + Top - 1 IN
        /\ collected \in Seq(TransferRow) /\ page.rows \in Seq(TransferRow)
        /\ place.number \in Nat \ {0}
        /\ pc # "done" => OnceEach(collected, OfRanks(1..(place.number - 1)))
        /\ pc \in {"edges", "count"} =>
              page.ranked = {Ranking[i] : i \in (place.number..to) \cap DOMAIN Ranking}
        /\ pc = "count" => OnceEach(page.rows, OfRanks(place.number..to))
        /\ answer = "complete" => OnceEach(collected, Wanted)

\* What the ranks are, and that the last of them makes the whole.
LEMMA RankingIsWhole ==
    ASSUME Investigated, Asked, query.mode = "top", present
    PROVE  /\ Ranking \in Seq(Nat) /\ DOMAIN Ranking = 1..Len(Ranking) /\ Len(Ranking) \in Nat
           /\ Len(Ranking) = Counterparties(Transfers, query.anchor)
           /\ Ranking = Ranked(Transfers, query.anchor) /\ Wanted = Anchored(Transfers, query.anchor)
           /\ \A i, j \in DOMAIN Ranking : Ranking[i] = Ranking[j] => i = j
           /\ \A n \in Nat : Len(Ranking) <= n => OfRanks(1..n) = Wanted
<1>1. Storable(content[query.dataset]) /\ query.anchor # Anyone
  BY WantedIsStorable DEF GraphModes, Asked
<1>2. /\ Ranking \in Seq(Nat) /\ DOMAIN Ranking = 1..Len(Ranking) /\ Len(Ranking) \in Nat
      /\ Len(Ranking) = Counterparties(content[query.dataset], query.anchor)
      /\ \A i, j \in DOMAIN Ranking : Ranking[i] = Ranking[j] => i = j
      /\ \A t \in Wanted : \E i \in DOMAIN Ranking : Other(t, query.anchor) = Ranking[i]
  BY <1>1, RankedIsWhole DEF Ranking, Wanted
<1>3. ASSUME NEW n \in Nat, Len(Ranking) <= n PROVE OfRanks(1..n) = Wanted
  <2>1. (1..n) \cap DOMAIN Ranking = DOMAIN Ranking
    BY <1>2, <1>3
  <2> QED BY <1>2, <2>1 DEF OfRanks
<1> QED BY <1>2, <1>3 DEF Transfers, Ranking, Wanted

LEMMA RanksStep == Investigated /\ Asked /\ Shaped /\ RanksSoFar /\ [Next]_vars => RanksSoFar'
<1> SUFFICES ASSUME Investigated, Asked, Shaped, RanksSoFar, [Next]_vars, present', query'.mode = "top"
             PROVE  RanksSoFar'
  BY DEF RanksSoFar
<1>1. CASE ~Steps
  <2>1. UNCHANGED reader /\ present /\ query.mode = "top"
    BY <1>1, OthersLeave DEF reader
  <2>2. Wanted' = Wanted /\ Ranking' = Ranking
    BY <1>1, <2>1, WantedStays DEF Wanted, Ranking, reader, GraphModes
  <2>3. \A I : OfRanks(I)' = OfRanks(I)
    BY <2>1, <2>2 DEF OfRanks, reader
  <2> QED BY <2>1, <2>2, <2>3 DEF RanksSoFar, reader, OnceEach
<1>2. ASSUME NEW m \in Modes, NEW d \in 0..current, NEW a \in Anchors \cup {Anyone}, Ask(m, d, a)
      PROVE  RanksSoFar'
  <2>1. /\ collected' = <<>> /\ page'.rows = <<>> /\ place'.number = 1 /\ pc' = "row" /\ answer' = "none"
    BY <1>2 DEF Ask, Begin, NoPage
  <2>2. <<>> \in Seq(TransferRow) /\ OnceEach(<<>>, {})
    BY EmptySeq DEF OnceEach, IsInjective, Range
  <2>3. 1..(place'.number - 1) = {}
    BY <2>1
  <2>4. OfRanks(1..(place.number - 1))' = {}
    BY <2>3 DEF OfRanks
  <2>5. OnceEach(collected, OfRanks(1..(place.number - 1)))'
    BY <2>1, <2>2, <2>4 DEF OnceEach
  <2> QED BY <2>1, <2>2, <2>5 DEF RanksSoFar
<1>3. ASSUME Read
      PROVE  /\ query' = query /\ present' = present /\ present /\ query.mode = "top"
             /\ Wanted' = Wanted /\ Ranking' = Ranking
             /\ \A I : OfRanks(I)' = OfRanks(I)
             /\ pc \in {"row", "ranked", "edges", "count"} /\ answer = "none"
  <2>1. content' = content /\ present' = present
    BY <1>3, ReadingLeaves DEF Steps, investigation
  <2>2. query' = query
    BY <1>3 DEF Asked, Read, ReadRow, ReadRanked, ReadEdges, CountCounterparties, ReadDataset, ReadMetrics,
           ReadAssessment, ReadPart, ReadMessages, ReadChunks
  <2>3. Wanted' = Wanted /\ Ranking' = Ranking
    BY <2>1, <2>2 DEF Wanted, Ranking
  <2>4. pc # "idle" /\ pc # "done"
    BY <1>3 DEF Asked, Read, ReadRow, ReadRanked, ReadEdges, CountCounterparties, ReadDataset, ReadMetrics,
           ReadAssessment, ReadPart, ReadMessages, ReadChunks
  <2>5. pc \in {"row", "ranked", "edges", "count"} /\ answer = "none"
    BY <2>2, <2>4 DEF Asked, Statements
  <2> QED BY <2>1, <2>2, <2>3, <2>5 DEF OfRanks
<1> DEFINE number == place.number  K == Len(Ranking)  to == number + Top - 1
<1>4. ASSUME Read
      PROVE  /\ Ranking \in Seq(Nat) /\ DOMAIN Ranking = 1..K /\ K \in Nat
             /\ K = Counterparties(Transfers, query.anchor)
             /\ Ranking = Ranked(Transfers, query.anchor) /\ Wanted = Anchored(Transfers, query.anchor)
             /\ \A i, j \in DOMAIN Ranking : Ranking[i] = Ranking[j] => i = j
             /\ \A n \in Nat : K <= n => OfRanks(1..n) = Wanted
  BY <1>3, <1>4, RankingIsWhole
<1>5. ASSUME Read
      PROVE  /\ collected \in Seq(TransferRow) /\ page.rows \in Seq(TransferRow) /\ number \in Nat \ {0}
             /\ OnceEach(collected, OfRanks(1..(number - 1)))
             /\ pc \in {"edges", "count"} => page.ranked = {Ranking[i] : i \in (number..to) \cap DOMAIN Ranking}
             /\ pc = "count" => OnceEach(page.rows, OfRanks(number..to))
  BY <1>3, <1>5 DEF RanksSoFar
<1>6. CASE ReadRow
  <2>1. UNCHANGED <<place, collected, page>> /\ pc' \in {"done", "ranked"} /\ answer' # "complete"
    <3>1. query.mode = "top" /\ answer = "none"
      BY <1>3, <1>6 DEF Read
    <3> QED BY <1>6, <3>1 DEF ReadRow, End, FirstStatement
  <2> QED BY <1>3, <1>5, <1>6, <2>1 DEF RanksSoFar, Read, OnceEach
<1>7. CASE ReadRanked
  <2> DEFINE window == {Ranking[i] : i \in (number..to) \cap DOMAIN Ranking}
  <2>1. Read
    BY <1>7 DEF Read
  <2>2. Range(Slice(Ranking, number, Top)) = window /\ (window = {} => K <= number - 1)
    BY <1>4, <1>5, <2>1, WindowIs
  <2> HIDE DEF window
  <2>3. /\ page' = [NoPage EXCEPT !.ranked = window]
        /\ IF window = {} THEN answer' = "complete" /\ pc' = "done" ELSE pc' = "edges" /\ answer' = answer
        /\ UNCHANGED <<place, collected>>
    BY <1>4, <1>7, <2>1, <2>2 DEF ReadRanked, End
  <2>4. page'.rows = <<>> /\ page'.ranked = window /\ <<>> \in Seq(TransferRow)
    BY <2>3, EmptySeq DEF NoPage
  <2>5. CASE window = {}
    <3>1. number - 1 \in Nat /\ K <= number - 1
      BY <1>5, <2>1, <2>2, <2>5
    <3>2. OfRanks(1..(number - 1)) = Wanted
      BY <1>4, <2>1, <3>1
    <3>3. OnceEach(collected, Wanted)'
      BY <1>3, <1>5, <2>1, <2>3, <3>2 DEF OnceEach
    <3> QED BY <1>5, <2>1, <2>3, <2>4, <2>5, <3>3 DEF RanksSoFar
  <2>6. CASE window # {}
    <3>1. OnceEach(collected, OfRanks(1..(place.number - 1)))'
      BY <1>3, <1>5, <2>1, <2>3 DEF OnceEach
    <3>2. page'.ranked = {Ranking'[i] : i \in (place'.number..(place'.number + Top - 1)) \cap DOMAIN Ranking'}
      BY <1>3, <2>1, <2>3, <2>4 DEF window
    <3>3. pc' = "edges" /\ answer' = "none"
      BY <1>3, <2>1, <2>3, <2>6
    <3> QED BY <1>5, <2>1, <2>3, <2>4, <3>1, <3>2, <3>3 DEF RanksSoFar
  <2> QED BY <2>5, <2>6
<1>8. CASE ReadEdges
  <2> DEFINE rows == Sorted(OfRanks(number..to))
  <2>1. Read /\ pc = "edges"
    BY <1>8 DEF Read, ReadEdges
  <2>2. {t \in Wanted : Other(t, query.anchor) \in page.ranked} = OfRanks(number..to)
    BY <1>5, <2>1 DEF OfRanks
  <2>3. /\ page' = [page EXCEPT !.rows = Slice(rows, 1, Len(rows)), !.more = Len(rows) > Len(rows)]
        /\ pc' = "count" /\ UNCHANGED <<place, collected, answer>>
    BY <1>3, <1>4, <1>8, <2>1, <2>2 DEF ReadEdges
  <2>4. Storable(OfRanks(number..to))
    <3>1. Storable(Wanted)
      BY <1>3, <2>1, WantedIsStorable DEF GraphModes
    <3> QED BY <3>1, SubsetsAreStorable DEF OfRanks
  <2>5. OnceEach(rows, OfRanks(number..to)) /\ rows \in Seq(TransferRow)
    BY <2>4, SortedOnceEach
  <2> HIDE DEF rows
  <2>6. Slice(rows, 1, Len(rows)) = rows
    <3>1. Len(rows) \in Int /\ 1 + Len(rows) - 1 = Len(rows)
      BY <2>5
    <3>2. Min({1 + Len(rows) - 1, Len(rows)}) = Len(rows)
      BY <3>1, MinIs
    <3> QED BY <2>5, <3>2, SubSeqFull DEF Slice
  <2>7. page'.rows = rows /\ page'.ranked = page.ranked
    BY <2>3, <2>6 DEF Shaped
  <2> QED BY <1>3, <1>5, <2>1, <2>3, <2>5, <2>7 DEF RanksSoFar, OnceEach
<1>9. CASE CountCounterparties
  <2>1. Read /\ pc = "count"
    BY <1>9 DEF Read, CountCounterparties
  <2>2. /\ collected' = collected \o page.rows /\ page'.rows = <<>>
        /\ place'.number = number + Top
        /\ IF number + Top <= K THEN pc' = "row" /\ answer' = answer ELSE answer' = "complete" /\ pc' = "done"
    BY <1>3, <1>4, <1>9, <2>1 DEF CountCounterparties, End, NoPage
  <2>3. /\ OnceEach(collected, OfRanks(1..(number - 1))) /\ OnceEach(page.rows, OfRanks(number..to))
        /\ collected \in Seq(TransferRow) /\ page.rows \in Seq(TransferRow) /\ number \in Nat \ {0}
    BY <1>5, <2>1
  <2>4. OfRanks(1..(number - 1)) \cap OfRanks(number..to) = {}
    <3> SUFFICES ASSUME NEW t \in OfRanks(1..(number - 1)), t \in OfRanks(number..to) PROVE FALSE
      OBVIOUS
    <3>1. PICK i \in (1..(number - 1)) \cap DOMAIN Ranking : Other(t, query.anchor) = Ranking[i]
      BY DEF OfRanks
    <3>2. PICK j \in (number..to) \cap DOMAIN Ranking : Other(t, query.anchor) = Ranking[j]
      BY DEF OfRanks
    <3>3. i = j
      BY <1>4, <2>1, <3>1, <3>2
    <3> QED BY <2>3, <3>3
  <2>5. OfRanks(1..(number - 1)) \cup OfRanks(number..to) = OfRanks(1..to)
    <3>1. (1..(number - 1)) \cup (number..to) = 1..to
      BY <2>3
    <3> QED BY <3>1 DEF OfRanks
  <2>6. OnceEach(collected', OfRanks(1..to)) /\ collected' \in Seq(TransferRow)
    <3>1. OnceEach(collected \o page.rows, OfRanks(1..(number - 1)) \cup OfRanks(number..to))
      BY <2>3, <2>4, OnceEachJoined
    <3>2. collected \o page.rows \in Seq(TransferRow)
      BY <2>3, ConcatProperties
    <3> QED BY <2>2, <2>5, <3>1, <3>2
  <2>7. <<>> \in Seq(TransferRow) /\ number + Top \in Nat \ {0} /\ (number + Top) - 1 = to /\ to \in Nat
    <3>1. <<>> \in Seq(TransferRow)
      BY EmptySeq
    <3>2. number \in Nat \ {0}
      BY <2>3
    <3> HIDE DEF number
    <3> QED BY <3>1, <3>2
  <2>8. ~(number + Top <= K) => OfRanks(1..to) = Wanted
    BY <1>4, <2>1, <2>7
  <2> QED BY <1>3, <2>1, <2>2, <2>6, <2>7, <2>8 DEF RanksSoFar, OnceEach
<1>10. CASE ReadDataset \/ ReadMetrics \/ ReadAssessment \/ ReadMessages \/ ReadChunks
  BY <1>3, <1>10 DEF ReadDataset, ReadMetrics, ReadAssessment, ReadPart, ReadMessages, ReadChunks, Read
<1> QED BY <1>1, <1>2, <1>6, <1>7, <1>8, <1>9, <1>10 DEF Steps, Read

----------------------------------------------------------------------------
\* The transcript.

TranscriptSoFar ==
    present /\ query.mode = "transcript" =>
        LET before == place.number - 1 IN
        /\ known \in 0..length
        /\ pc \in {"row", "messages", "chunks"} =>
              place.number \in 1..(length + 1) /\ collected = [i \in 1..before |-> i]
        /\ pc = "chunks" =>
              \E n \in before..length :
                  /\ page.rows = [i \in 1..(n - before) |-> before + i]
                  /\ ~page.more => n >= known
        /\ answer = "complete" =>
              \E n \in known..length : collected = [i \in 1..n |-> i]

\* The numbers up to n, and those from there up to m.
LEMMA NumbersJoined ==
    ASSUME NEW n \in Nat, NEW m \in Nat, n <= m
    PROVE  /\ [i \in 1..n |-> i] \o [i \in 1..(m - n) |-> n + i] = [i \in 1..m |-> i]
           /\ Len([i \in 1..(m - n) |-> n + i]) = m - n
<1> DEFINE s == [i \in 1..n |-> i]  t == [i \in 1..(m - n) |-> n + i]  u == [i \in 1..m |-> i]
<1>1. s \in Seq(Int) /\ Len(s) = n
  OBVIOUS
<1>2. t \in Seq(Int) /\ Len(t) = m - n
  OBVIOUS
<1>3. u \in Seq(Int) /\ Len(u) = m
  OBVIOUS
<1>4. \A i \in 1..m : IF i <= n THEN i \in 1..n /\ s[i] = i ELSE i - n \in 1..(m - n) /\ t[i - n] = i
  OBVIOUS
<1>5. \A i \in 1..m : u[i] = i
  OBVIOUS
<1> HIDE DEF s, t, u
<1>6. /\ s \o t \in Seq(Int) /\ Len(s \o t) = Len(s) + Len(t)
      /\ \A i \in 1..(Len(s) + Len(t)) : (s \o t)[i] = IF i <= Len(s) THEN s[i] ELSE t[i - Len(s)]
  BY <1>1, <1>2, ConcatProperties
<1>7. Len(s \o t) = m /\ \A i \in 1..m : (s \o t)[i] = i
  <2>1. Len(s) + Len(t) = m
    BY <1>1, <1>2
  <2>2. \A i \in 1..m : (s \o t)[i] = IF i <= n THEN s[i] ELSE t[i - n]
    BY <1>1, <1>6, <2>1
  <2> QED BY <1>4, <1>6, <2>1, <2>2
<1>8. s \o t = u
  BY <1>3, <1>5, <1>6, <1>7, SeqEqual
<1> QED BY <1>2, <1>8 DEF s, t, u

LEMMA TranscriptStep == Investigated /\ Asked /\ Shaped /\ TranscriptSoFar /\ [Next]_vars => TranscriptSoFar'
<1> SUFFICES ASSUME Investigated, Asked, Shaped, TranscriptSoFar, [Next]_vars, present', query'.mode = "transcript"
             PROVE  TranscriptSoFar'
  BY DEF TranscriptSoFar
<1>1. CASE ~Steps
  <2>1. UNCHANGED reader /\ present /\ query.mode = "transcript" /\ length \in Nat /\ length' \in Nat /\ length <= length'
    BY <1>1, OthersLeave DEF reader, Investigated
  <2>2. known \in 0..length => known \in 0..length' /\ known..length \subseteq known..length'
    BY <2>1
  <2>3. place.number \in 1..(length + 1) =>
            /\ place.number \in 1..(length' + 1)
            /\ (place.number - 1)..length \subseteq (place.number - 1)..length'
    BY <2>1
  <2>4. ~(pc = "chunks" /\ answer = "complete")
    BY DEF Asked
  <2> QED BY <2>1, <2>2, <2>3, <2>4 DEF TranscriptSoFar, reader
<1>2. ASSUME NEW m \in Modes, NEW d \in 0..current, NEW a \in Anchors \cup {Anyone}, Ask(m, d, a)
      PROVE  TranscriptSoFar'
  <2>1. /\ collected' = <<>> /\ place'.number = 1 /\ pc' = "row" /\ answer' = "none"
        /\ known' = length /\ length' = length /\ length \in Nat
    BY <1>2 DEF Ask, Begin, Messages, investigation, Investigated
  <2>2. [i \in 1..(1 - 1) |-> i] = <<>>
    OBVIOUS
  <2> QED BY <2>1, <2>2 DEF TranscriptSoFar
<1>3. ASSUME Read
      PROVE  /\ query' = query /\ present' = present /\ present /\ query.mode = "transcript"
             /\ length' = length /\ length \in Nat /\ known' = known
             /\ pc \in {"row", "messages", "chunks"} /\ answer = "none"
  <2>1. length' = length /\ present' = present /\ length \in Nat
    BY <1>3, ReadingLeaves DEF Steps, investigation, Investigated
  <2>2. query' = query /\ known' = known
    BY <1>3 DEF Asked, Read, ReadRow, ReadRanked, ReadEdges, CountCounterparties, ReadDataset, ReadMetrics,
           ReadAssessment, ReadPart, ReadMessages, ReadChunks
  <2>3. pc # "idle" /\ pc # "done"
    BY <1>3 DEF Asked, Read, ReadRow, ReadRanked, ReadEdges, CountCounterparties, ReadDataset, ReadMetrics,
           ReadAssessment, ReadPart, ReadMessages, ReadChunks
  <2>4. pc \in {"row", "messages", "chunks"} /\ answer = "none"
    BY <2>2, <2>3 DEF Asked, Statements, GraphModes
  <2> QED BY <2>1, <2>2, <2>4
<1> DEFINE before == place.number - 1
<1>4. CASE ReadRow
  <2>1. UNCHANGED <<place, collected>> /\ pc' \in {"done", "messages"} /\ answer' # "complete"
    <3>1. query.mode = "transcript" /\ answer = "none"
      BY <1>3, <1>4 DEF Read
    <3> QED BY <1>4, <3>1 DEF ReadRow, End, FirstStatement, GraphModes
  <2> QED BY <1>3, <1>4, <2>1 DEF TranscriptSoFar, Read
<1>5. CASE ReadMessages
  <2>1. Read /\ pc = "messages"
    BY <1>5 DEF Read, ReadMessages
  <2>2. /\ known \in 0..length /\ place.number \in 1..(length + 1) /\ collected = [i \in 1..before |-> i]
        /\ Messages = length /\ length \in Nat
    BY <1>3, <2>1 DEF TranscriptSoFar, Messages
  <2>3. PICK last : last = Min({place.number + PageSize - 1, length})
    OBVIOUS
  <2>4. last = (IF place.number + PageSize - 1 <= length THEN place.number + PageSize - 1 ELSE length)
        /\ last \in before..length
    <3>1. place.number + PageSize - 1 \in Int /\ length \in Int /\ place.number \in Nat \ {0}
      BY <2>2
    <3> QED BY <2>2, <2>3, <3>1, MinIs
  <2>5. Max({0, last - place.number + 1}) = last - before
    <3>1. last - place.number + 1 = last - before /\ last - before \in Nat
      BY <2>2, <2>4
    <3>2. \E x \in {0, last - before} : \A y \in {0, last - before} : x >= y
      BY <3>1
    <3>3. \A x \in {0, last - before} : (\A y \in {0, last - before} : x >= y) => x = last - before
      BY <3>1
    <3> QED BY <3>1, <3>2, <3>3 DEF Max
  <2>6. /\ page'.rows = [i \in 1..(last - before) |-> place.number + i - 1]
        /\ page'.more = (length > last)
        /\ pc' = "chunks" /\ UNCHANGED <<place, collected, answer>>
    BY <1>5, <2>2, <2>3, <2>5 DEF ReadMessages, NoPage
  <2>7. page'.rows = [i \in 1..(last - before) |-> before + i]
    <3>1. \A i \in 1..(last - before) : place.number + i - 1 = before + i
      BY <2>2, <2>4
    <3> QED BY <2>6, <3>1
  <2>8. ~page'.more => last >= known
    <3>1. last \in Int /\ known \in Int /\ length \in Int /\ known <= length
      BY <2>2, <2>4
    <3>2. ~page'.more => ~(length > last)
      BY <2>6, Zenon
    <3> QED BY <3>1, <3>2
  <2>9. \E n \in before'..length' :
            page'.rows = [i \in 1..(n - before') |-> before' + i] /\ (~page'.more => n >= known')
    BY <1>3, <2>1, <2>4, <2>6, <2>7, <2>8
  <2>10. known' \in 0..length' /\ place'.number \in 1..(length' + 1) /\ collected' = [i \in 1..before' |-> i]
    BY <1>3, <2>1, <2>2, <2>6
  <2>11. pc' = "chunks" /\ answer' = "none"
    BY <1>3, <2>1, <2>6
  <2> QED BY <2>9, <2>10, <2>11 DEF TranscriptSoFar
<1>6. CASE ReadChunks
  <2>1. Read /\ pc = "chunks"
    BY <1>6 DEF Read, ReadChunks
  <2>2. /\ known \in 0..length /\ place.number \in 1..(length + 1) /\ collected = [i \in 1..before |-> i]
        /\ length \in Nat
    BY <1>3, <2>1 DEF TranscriptSoFar
  <2>3. PICK n \in before..length :
            page.rows = [i \in 1..(n - before) |-> before + i] /\ (~page.more => n >= known)
    BY <1>3, <2>1 DEF TranscriptSoFar
  <2>4. before \in Nat /\ n \in Nat /\ before <= n /\ n <= length
    BY <2>2
  <2> HIDE DEF before
  <2>5. collected \o page.rows = [i \in 1..n |-> i] /\ Len(page.rows) = n - before
    BY <2>2, <2>3, <2>4, NumbersJoined
  <2>6. /\ collected' = collected \o page.rows
        /\ place'.number = place.number + Len(page.rows)
        /\ IF page.more THEN pc' = "row" /\ answer' = answer ELSE answer' = "complete" /\ pc' = "done"
    BY <1>3, <1>6, <2>1 DEF ReadChunks, End, Shaped
  <2>7. place'.number = n + 1 /\ (n + 1) - 1 = n /\ n + 1 \in 1..(length + 1)
    BY <2>2, <2>4, <2>5, <2>6 DEF before
  <2>8. CASE page.more
    BY <1>3, <2>1, <2>2, <2>5, <2>6, <2>7, <2>8 DEF TranscriptSoFar
  <2>9. CASE ~page.more
    <3>1. n \in known..length
      BY <2>2, <2>3, <2>4, <2>9
    <3> QED BY <1>3, <2>1, <2>2, <2>5, <2>6, <2>9, <3>1 DEF TranscriptSoFar
  <2> QED BY <2>8, <2>9
<1>7. CASE ReadRanked \/ ReadEdges \/ CountCounterparties \/ ReadDataset \/ ReadMetrics \/ ReadAssessment
  BY <1>3, <1>7 DEF ReadRanked, ReadEdges, CountCounterparties, ReadDataset, ReadMetrics, ReadAssessment, ReadPart, Read
<1> QED BY <1>1, <1>2, <1>4, <1>5, <1>6, <1>7 DEF Steps, Read

----------------------------------------------------------------------------
\* PagesAreWhole: the pages that GetGraph and GetConversation return are the
\* whole that was asked for, once each and in order.
THEOREM PagesMakeTheWhole == Spec => []PagesAreWhole
<1>1. Init => PagesSoFar /\ RanksSoFar /\ TranscriptSoFar
  BY DEF Init, NoQuery, PagesSoFar, RanksSoFar, TranscriptSoFar
<1>2. Consistent /\ PagesSoFar /\ RanksSoFar /\ TranscriptSoFar /\ [Next]_vars
          => (PagesSoFar /\ RanksSoFar /\ TranscriptSoFar)'
  BY PagesStep, RanksStep, TranscriptStep DEF Consistent
<1>3. Consistent /\ PagesSoFar /\ RanksSoFar /\ TranscriptSoFar => PagesAreWhole
  <2> SUFFICES ASSUME Consistent, PagesSoFar, RanksSoFar, TranscriptSoFar, answer = "complete", present
               PROVE  PagesAreWhole
    BY DEF PagesAreWhole
  <2>1. CASE query.mode \in {"cursor", "range"}
    BY <2>1 DEF PagesSoFar, All, Wanted, PagesAreWhole
  <2>2. CASE query.mode = "top"
    <3>1. OnceEach(collected, Wanted) /\ collected \in Seq(TransferRow)
      BY <2>2 DEF RanksSoFar
    <3>2. Len(collected) = Cardinality(Range(collected))
      <4>1. Len(collected) \in Nat /\ collected \in [1..Len(collected) -> Range(collected)]
        <5>1. Len(collected) \in Nat /\ collected \in [1..Len(collected) -> TransferRow]
          BY <3>1
        <5> QED BY <5>1 DEF Range
      <4>2. collected \in Bijection(1..Len(collected), Range(collected))
        <5>1. collected \in Injection(1..Len(collected), Range(collected))
          BY <3>1, <4>1 DEF OnceEach, Injection, IsInjective
        <5>2. \A t \in Range(collected) : \E i \in 1..Len(collected) : collected[i] = t
          BY <4>1 DEF Range
        <5> QED BY <4>1, <5>1, <5>2 DEF Bijection, Surjection
      <4> QED BY <4>1, <4>2, FS_CountingElements DEF ExistsBijection
    <3> QED BY <2>2, <3>1, <3>2 DEF OnceEach, Wanted, PagesAreWhole
  <2>3. CASE query.mode = "transcript"
    <3>1. PICK n \in known..length : collected = [i \in 1..n |-> i]
      BY <2>3 DEF TranscriptSoFar
    <3>2. known \in Nat /\ length \in Nat
      BY <2>3 DEF TranscriptSoFar, Consistent, Investigated
    <3>3. n \in Nat /\ Len([i \in 1..n |-> i]) = n
      BY <3>2
    <3> QED BY <2>3, <3>1, <3>3 DEF PagesAreWhole
  <2>4. CASE query.mode \notin {"cursor", "range", "top", "transcript"}
    BY <2>4 DEF PagesAreWhole
  <2> QED BY <2>1, <2>2, <2>3, <2>4
<1> QED BY <1>1, <1>2, <1>3, ConsistentAlways, PTL DEF Spec
----------------------------------------------------------------------------
HIDE DEF ReadingAssumption

\* The rules.  The search for cycles first: what it has after n rounds are the
\* paths of up to n addresses, none twice, along the edges.

Longer(T, p) == {Append(p, e[2]) : e \in {d \in EdgesOf(T) : d[1] = p[Len(p)] /\ d[2] \notin Range(p)}}

ArePaths(f, T) ==
    f = [n \in 1..MaximumCycleHops |->
            IF n = 1 THEN {<<e[1]>> : e \in EdgesOf(T)}
            ELSE f[n - 1] \cup UNION {Longer(T, p) : p \in f[n - 1]}]

Closed(T, p) == {k \in 1..(Len(p) - 1) : <<p[Len(p)], p[k]>> \in EdgesOf(T)}

LEMMA CircularFlowIs ==
    ASSUME NEW T
    PROVE  CircularFlow(T) =
              UNION {UNION {{p[i] : i \in k..Len(p)} : k \in Closed(T, p)} :
                        p \in (CHOOSE f : ArePaths(f, T))[MaximumCycleHops]}
BY DEF CircularFlow, ArePaths, Closed, Longer

LEMMA PathsExist == ASSUME NEW T PROVE \E f : ArePaths(f, T)
<1> DEFINE Upto(f, m) ==
             \A n \in 1..m : f[n] = IF n = 1 THEN {<<e[1]>> : e \in EdgesOf(T)}
                                    ELSE f[n - 1] \cup UNION {Longer(T, p) : p \in f[n - 1]}
           Known == {m \in Nat : \E f : DOMAIN f = 1..m /\ f = [n \in 1..m |-> f[n]] /\ Upto(f, m)}
<1>1. 0 \in Known
  <2> DEFINE f == [n \in 1..0 |-> {}]
  <2>1. DOMAIN f = 1..0 /\ f = [n \in 1..0 |-> f[n]] /\ Upto(f, 0)
    OBVIOUS
  <2> HIDE DEF f, Upto
  <2> QED BY <2>1
<1>2. ASSUME NEW m \in Nat, m \in Known PROVE m + 1 \in Known
  <2>1. PICK f : DOMAIN f = 1..m /\ Upto(f, m)
    BY <1>2
  <2> DEFINE Value(n) == IF n = 1 THEN {<<e[1]>> : e \in EdgesOf(T)}
                         ELSE f[n - 1] \cup UNION {Longer(T, p) : p \in f[n - 1]}
             h == [n \in 1..(m + 1) |-> IF n = m + 1 THEN Value(n) ELSE f[n]]
  <2>2. \A n \in 1..(m + 1) : h[n] = IF n = m + 1 THEN Value(n) ELSE f[n]
    OBVIOUS
  <2>3. DOMAIN h = 1..(m + 1) /\ h = [n \in 1..(m + 1) |-> h[n]]
    OBVIOUS
  <2> HIDE DEF h
  <2>4. ASSUME NEW n \in 1..(m + 1)
        PROVE  h[n] = IF n = 1 THEN {<<e[1]>> : e \in EdgesOf(T)}
                      ELSE h[n - 1] \cup UNION {Longer(T, p) : p \in h[n - 1]}
    <3>1. h[n] = Value(n)
      <4>1. CASE n = m + 1
        BY <2>2, <4>1
      <4>2. CASE n # m + 1
        <5>1. n \in 1..m
          BY <4>2
        <5>2. f[n] = Value(n)
          BY <2>1, <5>1
        <5> HIDE DEF Value
        <5> QED BY <2>2, <4>2, <5>2
      <4> QED BY <4>1, <4>2
    <3>2. n # 1 => h[n - 1] = f[n - 1]
      <4> SUFFICES ASSUME n # 1 PROVE h[n - 1] = f[n - 1]
        OBVIOUS
      <4>1. n - 1 \in 1..(m + 1) /\ n - 1 # m + 1
        OBVIOUS
      <4> QED BY <2>2, <4>1
    <3> QED BY <3>1, <3>2
  <2>5. Upto(h, m + 1)
    BY <2>4
  <2> HIDE DEF Upto
  <2> QED BY <2>3, <2>5
<1>3. MaximumCycleHops \in Known
  <2> HIDE DEF Known
  <2>1. MaximumCycleHops \in Nat
    BY RulesAssumption DEF RulesAssumption
  <2> QED BY <1>1, <1>2, <2>1, Induction
<1>4. PICK f : f = [n \in 1..MaximumCycleHops |-> f[n]] /\ Upto(f, MaximumCycleHops)
  BY <1>3
<1> DEFINE Rule(n) == IF n = 1 THEN {<<e[1]>> : e \in EdgesOf(T)}
                      ELSE f[n - 1] \cup UNION {Longer(T, p) : p \in f[n - 1]}
<1>5. \A n \in 1..MaximumCycleHops : f[n] = Rule(n)
  BY <1>4
<1>6. f = [n \in 1..MaximumCycleHops |-> Rule(n)]
  <2> HIDE DEF Rule
  <2> QED BY <1>4, <1>5
<1> QED BY <1>6 DEF ArePaths

\* Paths of up to n addresses.
PathsUpto(T, n) ==
    {p \in Seq(Nat) : /\ Len(p) \in 1..n
                      /\ \A i, j \in 1..Len(p) : p[i] = p[j] => i = j
                      /\ \A i \in 1..(Len(p) - 1) : <<p[i], p[i + 1]>> \in EdgesOf(T)
                      /\ \E e \in EdgesOf(T) : p[1] = e[1]}

LEMMA EdgesAre ==
    ASSUME NEW T, T \subseteq TransferRow
    PROVE  /\ EdgesOf(T) \subseteq Nat \X Nat
           /\ \A e \in EdgesOf(T) :
                 /\ e = <<e[1], e[2]>> /\ e[1] # e[2]
                 /\ {e[1], e[2]} \subseteq UNION {{t.from, t.to} : t \in T}
BY DEF EdgesOf, TransferRow

LEMMA FirstPaths ==
    ASSUME NEW T, T \subseteq TransferRow
    PROVE  {<<e[1]>> : e \in EdgesOf(T)} = PathsUpto(T, 1)
<1>1. ASSUME NEW e \in EdgesOf(T) PROVE <<e[1]>> \in PathsUpto(T, 1)
  <2>1. e[1] \in Nat
    BY EdgesAre
  <2> DEFINE p == <<e[1]>>
  <2>2. p \in Seq(Nat) /\ Len(p) = 1 /\ p[1] = e[1]
    BY <2>1
  <2> HIDE DEF p
  <2>3. Len(p) \in 1..1 /\ 1..Len(p) = {1} /\ 1..(Len(p) - 1) = {}
    BY <2>2
  <2>4. \A i, j \in 1..Len(p) : p[i] = p[j] => i = j
    BY <2>3
  <2>5. \A i \in 1..(Len(p) - 1) : <<p[i], p[i + 1]>> \in EdgesOf(T)
    BY <2>3
  <2>6. p \in PathsUpto(T, 1)
    BY <2>2, <2>3, <2>4, <2>5 DEF PathsUpto
  <2> QED BY <2>6 DEF p
<1>2. ASSUME NEW p \in PathsUpto(T, 1) PROVE \E e \in EdgesOf(T) : p = <<e[1]>>
  <2>1. p \in Seq(Nat) /\ Len(p) = 1
    BY DEF PathsUpto
  <2>2. p = <<p[1]>>
    BY <2>1
  <2>3. PICK e \in EdgesOf(T) : p[1] = e[1]
    BY DEF PathsUpto
  <2> QED BY <2>2, <2>3
<1> QED BY <1>1, <1>2

LEMMA NextPaths ==
    ASSUME NEW T, T \subseteq TransferRow, NEW n \in Nat \ {0}
    PROVE  PathsUpto(T, n) \cup UNION {Longer(T, p) : p \in PathsUpto(T, n)} = PathsUpto(T, n + 1)
<1>1. PathsUpto(T, n) \subseteq PathsUpto(T, n + 1)
  BY DEF PathsUpto
<1>2. ASSUME NEW p \in PathsUpto(T, n), NEW q \in Longer(T, p) PROVE q \in PathsUpto(T, n + 1)
  <2>1. PICK e \in EdgesOf(T) : e[1] = p[Len(p)] /\ e[2] \notin Range(p) /\ q = Append(p, e[2])
    BY DEF Longer
  <2>2. p \in Seq(Nat) /\ Len(p) \in 1..n /\ e[2] \in Nat /\ e = <<e[1], e[2]>>
    BY EdgesAre DEF PathsUpto
  <2>3. q \in Seq(Nat) /\ Len(q) = Len(p) + 1 /\ Len(p) \in Nat
    BY <2>1, <2>2
  <2>4. \A i \in 1..Len(p) : q[i] = p[i]
    BY <2>1, <2>2
  <2>5. q[Len(p) + 1] = e[2]
    BY <2>1, <2>2
  <2>6. \A i \in 1..Len(p) : p[i] # e[2]
    BY <2>1, <2>2 DEF Range
  <2>7. \A i, j \in 1..Len(p) : p[i] = p[j] => i = j
    BY DEF PathsUpto
  <2>8. \A i, j \in 1..Len(q) : q[i] = q[j] => i = j
    <3> SUFFICES ASSUME NEW i \in 1..Len(q), NEW j \in 1..Len(q), q[i] = q[j] PROVE i = j
      OBVIOUS
    <3>1. i \in 1..Len(p) \/ i = Len(p) + 1
      BY <2>3
    <3>2. j \in 1..Len(p) \/ j = Len(p) + 1
      BY <2>3
    <3> QED BY <2>4, <2>5, <2>6, <2>7, <3>1, <3>2
  <2>9. \A i \in 1..(Len(q) - 1) : <<q[i], q[i + 1]>> \in EdgesOf(T)
    <3> SUFFICES ASSUME NEW i \in 1..(Len(q) - 1) PROVE <<q[i], q[i + 1]>> \in EdgesOf(T)
      OBVIOUS
    <3>1. CASE i = Len(p)
      BY <2>1, <2>2, <2>4, <2>5, <3>1
    <3>2. CASE i # Len(p)
      <4>1. i \in 1..(Len(p) - 1) /\ i \in 1..Len(p) /\ i + 1 \in 1..Len(p)
        BY <2>3, <3>2
      <4> QED BY <2>4, <4>1 DEF PathsUpto
    <3> QED BY <3>1, <3>2
  <2>10. q[1] = p[1]
    BY <2>2, <2>4
  <2>11. \E d \in EdgesOf(T) : q[1] = d[1]
    BY <2>10 DEF PathsUpto
  <2>12. Len(q) \in 1..(n + 1)
    BY <2>2, <2>3
  <2> QED BY <2>3, <2>8, <2>9, <2>11, <2>12 DEF PathsUpto
<1>3. ASSUME NEW q \in PathsUpto(T, n + 1), q \notin PathsUpto(T, n)
      PROVE  \E p \in PathsUpto(T, n) : q \in Longer(T, p)
  <2>1. q \in Seq(Nat) /\ Len(q) = n + 1
    BY <1>3 DEF PathsUpto
  <2> DEFINE p == [i \in 1..n |-> q[i]]
             e == <<q[n], q[n + 1]>>
  <2>2. \A i \in 1..(n + 1) : q[i] \in Nat
    BY <2>1
  <2>3. p \in Seq(Nat) /\ Len(p) = n /\ \A i \in 1..n : p[i] = q[i]
    <3>1. \A i \in 1..n : q[i] \in Nat
      BY <2>2
    <3>2. p \in [1..n -> Nat]
      BY <3>1
    <3> QED BY <3>2, SeqDef
  <2>4. DOMAIN p = 1..n
    OBVIOUS
  <2>5. e \in EdgesOf(T) /\ e[1] = q[n] /\ e[2] = q[n + 1]
    BY <2>1 DEF PathsUpto
  <2>6. \A i, j \in 1..(n + 1) : q[i] = q[j] => i = j
    BY <2>1 DEF PathsUpto
  <2> HIDE DEF p, e
  <2>7. e[2] \notin Range(p)
    <3>1. ASSUME NEW i \in 1..n, p[i] = e[2] PROVE FALSE
      <4>1. i \in 1..(n + 1) /\ n + 1 \in 1..(n + 1) /\ i # n + 1
        OBVIOUS
      <4> QED BY <2>3, <2>5, <2>6, <3>1, <4>1
    <3> QED BY <2>4, <3>1 DEF Range
  <2>8. p \in PathsUpto(T, n)
    <3>1. \A i, j \in 1..n : p[i] = p[j] => i = j
      BY <2>3, <2>6
    <3>2. \A i \in 1..(n - 1) : <<p[i], p[i + 1]>> \in EdgesOf(T)
      <4> SUFFICES ASSUME NEW i \in 1..(n - 1) PROVE <<p[i], p[i + 1]>> \in EdgesOf(T)
        OBVIOUS
      <4>1. i \in 1..n /\ i + 1 \in 1..n /\ i \in 1..(Len(q) - 1)
        BY <2>1
      <4>2. <<q[i], q[i + 1]>> \in EdgesOf(T)
        BY <4>1 DEF PathsUpto
      <4> QED BY <2>3, <4>1, <4>2
    <3>3. p[1] = q[1]
      BY <2>3
    <3>4. \E d \in EdgesOf(T) : p[1] = d[1]
      BY <3>3 DEF PathsUpto
    <3> QED BY <2>3, <3>1, <3>2, <3>4 DEF PathsUpto
  <2>9. q = Append(p, e[2])
    <3> DEFINE r == Append(p, e[2])
    <3>1. r \in Seq(Nat) /\ Len(r) = n + 1
      BY <2>2, <2>3, <2>5
    <3>2. \A i \in 1..(n + 1) : r[i] = q[i]
      BY <2>3, <2>5
    <3> HIDE DEF r
    <3>3. q = r
      BY <2>1, <3>1, <3>2, SeqEqual
    <3> QED BY <3>3 DEF r
  <2>10. e[1] = p[Len(p)]
    BY <2>3, <2>5
  <2> QED BY <2>5, <2>7, <2>8, <2>9, <2>10 DEF Longer
<1> QED BY <1>1, <1>2, <1>3

LEMMA PathsAre ==
    ASSUME NEW T, T \subseteq TransferRow
    PROVE  (CHOOSE f : ArePaths(f, T))[MaximumCycleHops] = PathsUpto(T, MaximumCycleHops)
<1> DEFINE f == CHOOSE f : ArePaths(f, T)
           Known == {m \in Nat : m + 1 <= MaximumCycleHops => f[m + 1] = PathsUpto(T, m + 1)}
<1>1. ArePaths(f, T)
  BY PathsExist
<1>2. MaximumCycleHops \in Nat \ {0}
  BY RulesAssumption DEF RulesAssumption
<1> HIDE DEF f
<1>3. 0 \in Known
  <2>1. 1 \in 1..MaximumCycleHops
    BY <1>2
  <2> DEFINE Rule(n) == IF n = 1 THEN {<<e[1]>> : e \in EdgesOf(T)}
                        ELSE f[n - 1] \cup UNION {Longer(T, p) : p \in f[n - 1]}
  <2>2. f[1] = {<<e[1]>> : e \in EdgesOf(T)}
    <3>1. f = [n \in 1..MaximumCycleHops |-> Rule(n)]
      BY <1>1 DEF ArePaths
    <3>2. Rule(1) = {<<e[1]>> : e \in EdgesOf(T)}
      OBVIOUS
    <3> HIDE DEF Rule
    <3>3. f[1] = Rule(1)
      BY <2>1, <3>1
    <3> QED BY <3>2, <3>3
  <2>3. f[1] = PathsUpto(T, 1)
    BY <2>2, FirstPaths
  <2>4. 0 + 1 = 1
    OBVIOUS
  <2> QED BY <2>3, <2>4
<1>4. ASSUME NEW m \in Nat, m \in Known PROVE m + 1 \in Known
  <2> SUFFICES ASSUME (m + 1) + 1 <= MaximumCycleHops PROVE f[(m + 1) + 1] = PathsUpto(T, (m + 1) + 1)
    OBVIOUS
  <2>1. PICK k \in 1..MaximumCycleHops : k = (m + 1) + 1
    BY <1>2
  <2>2. f[k] = IF k = 1 THEN {<<e[1]>> : e \in EdgesOf(T)}
               ELSE f[k - 1] \cup UNION {Longer(T, p) : p \in f[k - 1]}
    BY <1>1 DEF ArePaths
  <2>3. k # 1 /\ k - 1 = m + 1 /\ m + 1 <= MaximumCycleHops /\ m + 1 \in Nat \ {0}
    BY <1>2, <2>1
  <2>4. f[k - 1] = PathsUpto(T, m + 1)
    BY <1>4, <2>3
  <2>5. f[k] = PathsUpto(T, m + 1) \cup UNION {Longer(T, p) : p \in PathsUpto(T, m + 1)}
    BY <2>2, <2>3, <2>4
  <2> QED BY <2>1, <2>3, <2>5, NextPaths
<1>5. MaximumCycleHops - 1 \in Known
  <2> HIDE DEF Known
  <2>1. MaximumCycleHops - 1 \in Nat
    BY <1>2
  <2> QED BY <1>3, <1>4, <2>1, Induction
<1>6. (MaximumCycleHops - 1) + 1 = MaximumCycleHops
  BY <1>2
<1>7. f[MaximumCycleHops] = PathsUpto(T, MaximumCycleHops)
  BY <1>2, <1>5, <1>6
<1> QED BY <1>7 DEF f

\* A cycle: addresses, none twice, along the edges and back to the first.
Addresses(T) == UNION {{t.from, t.to} : t \in T}

Cycles(T) ==
    UNION {{c \in [1..n -> Addresses(T)] :
              /\ \A i, j \in DOMAIN c : c[i] = c[j] => i = j
              /\ \A i \in DOMAIN c : <<c[i], c[IF i = Len(c) THEN 1 ELSE i + 1]>> \in EdgesOf(T)} :
           n \in 2..MaximumCycleHops}

LEMMA CircularFlowIsTheCycles ==
    ASSUME NEW T, T \subseteq TransferRow
    PROVE  CircularFlow(T) = UNION {Range(c) : c \in Cycles(T)}
<1> DEFINE M == MaximumCycleHops
           Found == UNION {UNION {{p[i] : i \in k..Len(p)} : k \in Closed(T, p)} : p \in PathsUpto(T, M)}
<1>1. CircularFlow(T) = Found
  BY CircularFlowIs, PathsAre
<1>2. M \in Nat \ {0}
  BY RulesAssumption DEF RulesAssumption
<1>3. \A d \in EdgesOf(T) : {d[1], d[2]} \subseteq Addresses(T)
  BY EdgesAre DEF Addresses
<1>4. ASSUME NEW p \in PathsUpto(T, M), NEW k \in Closed(T, p), NEW i \in k..Len(p)
      PROVE  \E c \in Cycles(T) : p[i] \in Range(c)
  <2>1. /\ p \in Seq(Nat) /\ Len(p) \in 1..M
        /\ \A g, h \in 1..Len(p) : p[g] = p[h] => g = h
        /\ \A g \in 1..(Len(p) - 1) : <<p[g], p[g + 1]>> \in EdgesOf(T)
    BY DEF PathsUpto
  <2>2. k \in 1..(Len(p) - 1) /\ <<p[Len(p)], p[k]>> \in EdgesOf(T)
    BY DEF Closed
  <2> DEFINE n == Len(p) - k + 1
             c == [j \in 1..n |-> p[k + j - 1]]
  <2>3. n \in 2..M /\ n \in Nat
    BY <2>1, <2>2, <1>2
  <2>4. \A j \in 1..n : k + j - 1 \in 1..Len(p)
    BY <2>1, <2>2
  <2>5. \A g \in 1..Len(p) : p[g] \in Addresses(T)
    <3> SUFFICES ASSUME NEW g \in 1..Len(p) PROVE p[g] \in Addresses(T)
      OBVIOUS
    <3>1. CASE g = Len(p)
      <4> DEFINE d == <<p[Len(p)], p[k]>>
      <4>1. d \in EdgesOf(T) /\ d[1] = p[g]
        BY <2>2, <3>1
      <4> HIDE DEF d
      <4> QED BY <1>3, <4>1
    <3>2. CASE g # Len(p)
      <4> DEFINE d == <<p[g], p[g + 1]>>
      <4>1. g \in 1..(Len(p) - 1)
        BY <2>1, <3>2
      <4>2. d \in EdgesOf(T) /\ d[1] = p[g]
        BY <2>1, <4>1
      <4> HIDE DEF d
      <4> QED BY <1>3, <4>2
    <3> QED BY <3>1, <3>2
  <2>6. c \in [1..n -> Addresses(T)]
    BY <2>4, <2>5
  <2>7. DOMAIN c = 1..n /\ Len(c) = n /\ \A j \in 1..n : c[j] = p[k + j - 1]
    <3>1. c \in Seq(Addresses(T))
      BY <2>3, <2>6, SeqDef
    <3> QED BY <2>3, <3>1
  <2> HIDE DEF c
  <2>8. \A g, h \in DOMAIN c : c[g] = c[h] => g = h
    <3> SUFFICES ASSUME NEW g \in 1..n, NEW h \in 1..n, c[g] = c[h] PROVE g = h
      BY <2>7
    <3>1. p[k + g - 1] = p[k + h - 1]
      BY <2>7
    <3>2. k + g - 1 = k + h - 1
      BY <2>1, <2>4, <3>1
    <3> QED BY <2>1, <2>2, <3>2
  <2>9. \A j \in DOMAIN c : <<c[j], c[IF j = Len(c) THEN 1 ELSE j + 1]>> \in EdgesOf(T)
    <3> SUFFICES ASSUME NEW j \in 1..n PROVE <<c[j], c[IF j = n THEN 1 ELSE j + 1]>> \in EdgesOf(T)
      BY <2>7
    <3>1. CASE j = n
      <4>1. c[n] = p[Len(p)] /\ c[1] = p[k]
        <5>1. n \in 1..n /\ 1 \in 1..n /\ k + n - 1 = Len(p) /\ k + 1 - 1 = k
          BY <2>1, <2>2, <2>3
        <5> HIDE DEF n
        <5> QED BY <2>7, <5>1
      <4> QED BY <2>2, <3>1, <4>1
    <3>2. CASE j # n
      <4>1. k \in Int /\ j \in Int /\ Len(p) \in Int /\ 1 <= k /\ 1 <= j /\ j <= n /\ j # n
        BY <2>1, <2>2, <2>3, <3>2
      <4>2. j + 1 \in 1..n /\ k + (j + 1) - 1 = (k + j - 1) + 1
        BY <4>1
      <4>3. k + j - 1 \in 1..(Len(p) - 1)
        BY <4>1
      <4>4. j + 1 \in 1..n /\ k + j - 1 \in 1..(Len(p) - 1) /\ k + (j + 1) - 1 = (k + j - 1) + 1
        BY <4>2, <4>3
      <4>5. c[j] = p[k + j - 1] /\ c[j + 1] = p[(k + j - 1) + 1]
        BY <2>7, <4>4
      <4> HIDE DEF n
      <4> QED BY <2>1, <3>2, <4>4, <4>5
    <3> QED BY <3>1, <3>2
  <2>10. c \in Cycles(T)
    <3> HIDE DEF n
    <3> QED BY <2>3, <2>6, <2>8, <2>9 DEF Cycles
  <2>11. i - k + 1 \in 1..n /\ k + (i - k + 1) - 1 = i
    BY <2>1, <2>2
  <2>12. p[i] = c[i - k + 1]
    BY <2>7, <2>11
  <2>13. p[i] \in Range(c)
    BY <2>7, <2>11, <2>12 DEF Range
  <2> QED BY <2>10, <2>13
<1>5. ASSUME NEW c \in Cycles(T), NEW i \in DOMAIN c PROVE c[i] \in Found
  <2>1. PICK n \in 2..M : c \in [1..n -> Addresses(T)]
    BY DEF Cycles
  <2>2. DOMAIN c = 1..n /\ n \in Nat
    BY <2>1
  <2>3. \A a \in Addresses(T) : a \in Nat
    BY DEF Addresses, TransferRow
  <2>4. c \in Seq(Nat) /\ Len(c) = n
    <3>1. c \in [1..n -> Nat]
      BY <2>1, <2>3
    <3>2. c \in Seq(Nat)
      BY <2>2, <3>1, SeqDef
    <3> QED BY <2>2, <3>2
  <2>5. /\ \A g, h \in 1..n : c[g] = c[h] => g = h
        /\ \A g \in 1..n : <<c[g], c[IF g = n THEN 1 ELSE g + 1]>> \in EdgesOf(T)
    <3>1. /\ \A g, h \in DOMAIN c : c[g] = c[h] => g = h
          /\ \A g \in DOMAIN c : <<c[g], c[IF g = Len(c) THEN 1 ELSE g + 1]>> \in EdgesOf(T)
      BY DEF Cycles
    <3> QED BY <2>2, <2>4, <3>1
  <2>6. \A g \in 1..(n - 1) : <<c[g], c[g + 1]>> \in EdgesOf(T)
    <3> SUFFICES ASSUME NEW g \in 1..(n - 1) PROVE <<c[g], c[g + 1]>> \in EdgesOf(T)
      OBVIOUS
    <3>1. g \in 1..n /\ g # n
      BY <2>2
    <3> QED BY <2>5, <3>1
  <2>7. <<c[n], c[1]>> \in EdgesOf(T)
    <3>1. n \in 1..n
      BY <2>1
    <3> QED BY <2>5, <3>1
  <2>8. \E d \in EdgesOf(T) : c[1] = d[1]
    <3> DEFINE d == <<c[1], c[1 + 1]>>
    <3>1. 1 \in 1..(n - 1)
      BY <2>1
    <3>2. d \in EdgesOf(T) /\ c[1] = d[1]
      BY <2>6, <3>1
    <3> HIDE DEF d
    <3> QED BY <3>2
  <2>9. n \in 1..M
    BY <2>1
  <2>10. c \in PathsUpto(T, M)
    BY <2>4, <2>5, <2>6, <2>8, <2>9 DEF PathsUpto
  <2>11. 1 \in Closed(T, c)
    BY <2>1, <2>4, <2>7 DEF Closed
  <2>12. c[i] \in {c[h] : h \in 1..Len(c)}
    BY <2>2, <2>4
  <2> QED BY <2>10, <2>11, <2>12
<1>6. Found \subseteq UNION {Range(c) : c \in Cycles(T)}
  BY <1>4
<1>7. UNION {Range(c) : c \in Cycles(T)} \subseteq Found
  <2> HIDE DEF Found
  <2> QED BY <1>5 DEF Range
<1> HIDE DEF Found
<1> QED BY <1>1, <1>6, <1>7

\* What a published Dataset holds, and what was written of it.
LEMMA FreshFacts ==
    Investigated /\ Fresh =>
        /\ Latest \subseteq TransferRow /\ IsFiniteSet(Latest)
        /\ assessment[current].evaluation = Evaluate(Target, Latest)
<1> SUFFICES ASSUME Investigated, Fresh
             PROVE  /\ Latest \subseteq TransferRow /\ IsFiniteSet(Latest)
                    /\ assessment[current].evaluation = Evaluate(Target, Latest)
  OBVIOUS
<1>1. current \in 1..current
  BY DEF Investigated, Fresh
<1>2. current \in Datasets /\ content[current] \in Contents[current]
  <2>1. content[current] \in Contents[current]
    BY <1>1 DEF Investigated
  <2>2. Len(Contents) \in Nat /\ Datasets = 1..Len(Contents)
    BY ReadingAssumption DEF ReadingAssumption, Datasets
  <2>3. current \in 0..Len(Contents)
    BY DEF Investigated
  <2> QED BY <1>1, <2>1, <2>2, <2>3
<1>3. content[current] \in SUBSET TransferRow
  BY <1>2 DEF Investigated
<1>4. IsFiniteSet(content[current])
  BY <1>2, ContentsFacts
<1>5. assessment[current] = [metrics    |-> Metrics(Target, content[current]),
                             evaluation |-> Evaluate(Target, content[current])]
  BY <1>1 DEF Investigated
<1> QED BY <1>3, <1>4, <1>5 DEF Latest

\* rules_v1.go, rulesV1FindCycles: the bounded search reports the addresses of
\* the cycles of two up to the maximum number of transfers, and no others.
THEOREM SearchFindsTheCycles == Spec => []CyclesAreReal
<1>1. Investigated => CyclesAreReal
  <2> SUFFICES ASSUME Investigated, Fresh
               PROVE  CircularFlow(Latest) = UNION {Range(c) : c \in Cycles(Latest)}
    BY DEF CyclesAreReal, Cycles, Addresses
  <2> QED BY FreshFacts, CircularFlowIsTheCycles
<1>2. Spec => []Investigated
  BY ConsistentAlways, PTL DEF Consistent
<1> QED BY <1>1, <1>2, PTL

----------------------------------------------------------------------------
\* More transfers, more evidence: every rule is monotone.

AmountSums(g, T) ==
    g = [s \in SUBSET T |-> IF s = {} THEN 0 ELSE Take(s).amount + g[s \ {Take(s)}]]

LEMMA AmountsAre ==
    ASSUME NEW T, T \subseteq TransferRow, IsFiniteSet(T)
    PROVE  \E g : Additive(g, [t \in T |-> t.amount], T) /\ Amounts(T) = g[T]
<1> DEFINE w == [t \in T |-> t.amount]
           g == CHOOSE g : AmountSums(g, T)
<1>1. \A t \in T : w[t] = t.amount /\ w[t] \in Nat
  BY DEF TransferRow
<1> HIDE DEF w
<1>2. ASSUME NEW h PROVE AmountSums(h, T) <=> AreSums(h, w, T)
  <2>1. \A s \in SUBSET T : s # {} => w[Take(s)] = Take(s).amount
    BY <1>1 DEF Take
  <2> DEFINE Left(s)  == IF s = {} THEN 0 ELSE Take(s).amount + h[s \ {Take(s)}]
             Right(s) == IF s = {} THEN 0 ELSE w[Take(s)] + h[s \ {Take(s)}]
  <2>2. \A s \in SUBSET T : Left(s) = Right(s)
    BY <2>1
  <2>3. [s \in SUBSET T |-> Left(s)] = [s \in SUBSET T |-> Right(s)]
    <3> HIDE DEF Left, Right
    <3> QED BY <2>2
  <2> QED BY <2>3 DEF AmountSums, AreSums
<1>3. \E h : AmountSums(h, T)
  BY <1>1, <1>2, SumsExist
<1>4. AmountSums(g, T)
  BY <1>3
<1>5. Amounts(T) = g[T]
  BY DEF Amounts, MapThenSumSet, MapThenFoldSet, AmountSums, Take
<1> HIDE DEF g
<1>6. Additive(g, w, T)
  BY <1>1, <1>2, <1>4, SumsAdd
<1> QED BY <1>5, <1>6 DEF w

LEMMA AmountsGrow ==
    ASSUME NEW U, U \subseteq TransferRow, IsFiniteSet(U), NEW P \in SUBSET U
    PROVE  Amounts(P) \in Nat /\ Amounts(U) \in Nat /\ Amounts(P) <= Amounts(U)
<1> DEFINE w == [t \in U |-> t.amount]
           v == [t \in P |-> t.amount]
<1>1. P \subseteq TransferRow /\ IsFiniteSet(P)
  BY FS_Subset
<1>2. PICK g : Additive(g, w, U) /\ Amounts(U) = g[U]
  BY AmountsAre
<1>3. PICK h : Additive(h, v, P) /\ Amounts(P) = h[P]
  BY <1>1, AmountsAre
<1>4. (\A t \in U : w[t] \in Nat) /\ \A t \in P : w[t] = v[t]
  BY DEF TransferRow
<1> HIDE DEF w, v
<1>5. g[P] = h[P]
  BY <1>2, <1>3, <1>4, SumsAgree
<1>6. g[P] <= g[U]
  BY <1>2, <1>4, SumsGrow
<1>7. g[P] \in Nat /\ g[U] \in Nat
  BY <1>2 DEF Additive
<1> QED BY <1>2, <1>3, <1>5, <1>6, <1>7

LEMMA ScoreGrows ==
    ASSUME NEW Q \in SUBSET Reasons, NEW P \in SUBSET Q
    PROVE  Score(P) \in Nat /\ Score(Q) \in Nat /\ Score(P) <= Score(Q)
<1> DEFINE Sum(R) == CHOOSE g : AreSums(g, Weight, R)
<1>1. IsFiniteSet(Reasons) /\ \A r \in Reasons : Weight[r] \in Nat
  <2>1. Reasons = {"fan_out", "fan_in", "rapid_forwarding", "target_connected_forwarding", "circular_flow"}
    BY DEF Reasons, Weight
  <2>2. Reasons = ((({"fan_out"} \cup {"fan_in"}) \cup {"rapid_forwarding"})
                      \cup {"target_connected_forwarding"}) \cup {"circular_flow"}
    BY <2>1
  <2>3. IsFiniteSet(Reasons)
    BY <2>2, FS_Singleton, FS_Union
  <2> QED BY <2>1, <2>3 DEF Weight
<1>2. \A R \in SUBSET Reasons : IsFiniteSet(R) /\ Additive(Sum(R), Weight, R)
  <2> SUFFICES ASSUME NEW R \in SUBSET Reasons PROVE IsFiniteSet(R) /\ Additive(Sum(R), Weight, R)
    OBVIOUS
  <2>1. IsFiniteSet(R) /\ \A r \in R : Weight[r] \in Nat
    BY <1>1, FS_Subset
  <2>2. AreSums(Sum(R), Weight, R)
    BY <2>1, SumsExist
  <2> HIDE DEF Sum
  <2> QED BY <2>1, <2>2, SumsAdd
<1>3. \A R \in SUBSET Reasons : Score(R) = Min({100, Sum(R)[R]})
  BY DEF Score, MapThenSumSet, MapThenFoldSet, AreSums, Take
<1> HIDE DEF Sum
<1>4. P \in SUBSET Reasons
  OBVIOUS
<1>5. Sum(Q)[P] = Sum(P)[P]
  BY <1>2, <1>4, SumsAgree
<1>6. Sum(Q)[P] <= Sum(Q)[Q]
  BY <1>1, <1>2, SumsGrow
<1>7. Sum(P)[P] \in Nat /\ Sum(Q)[Q] \in Nat
  BY <1>2, <1>4 DEF Additive
<1>8. /\ Score(P) = IF 100 <= Sum(P)[P] THEN 100 ELSE Sum(P)[P]
      /\ Score(Q) = IF 100 <= Sum(Q)[Q] THEN 100 ELSE Sum(Q)[Q]
  <2>1. \A n \in Nat : Min({100, n}) = IF 100 <= n THEN 100 ELSE n
    BY MinIs
  <2>2. Score(P) = Min({100, Sum(P)[P]}) /\ Score(Q) = Min({100, Sum(Q)[Q]})
    BY <1>3, <1>4
  <2> QED BY <1>7, <2>1, <2>2
<1> QED BY <1>5, <1>6, <1>7, <1>8

LEMMA EdgesGrow ==
    ASSUME NEW U, IsFiniteSet(U), NEW P \in SUBSET U
    PROVE  EdgesOf(P) \subseteq EdgesOf(U) /\ IsFiniteSet(EdgesOf(U))
<1> DEFINE S    == {u \in U : u.from # u.to}
           edge == [t \in S |-> <<t.from, t.to>>]
<1>1. S \in SUBSET U
  OBVIOUS
<1>2. IsFiniteSet(S)
  BY <1>1, FS_Subset
<1>3. edge \in Surjection(S, EdgesOf(U))
  BY DEF Surjection, EdgesOf
<1>4. IsFiniteSet(EdgesOf(U))
  BY <1>2, <1>3, FS_Surjection
<1>5. EdgesOf(P) \subseteq EdgesOf(U)
  BY DEF EdgesOf
<1> QED BY <1>4, <1>5

LEMMA FansGrow ==
    ASSUME NEW U, IsFiniteSet(U), NEW P \in SUBSET U
    PROVE  FanOut(P) \subseteq FanOut(U) /\ FanIn(P) \subseteq FanIn(U)
<1>1. ASSUME NEW a, NEW n \in {1, 2}
      PROVE  /\ Cardinality({e \in EdgesOf(P) : e[n] = a}) \in Nat
             /\ Cardinality({e \in EdgesOf(U) : e[n] = a}) \in Nat
             /\ Cardinality({e \in EdgesOf(P) : e[n] = a}) <= Cardinality({e \in EdgesOf(U) : e[n] = a})
  <2> DEFINE E == {e \in EdgesOf(U) : e[n] = a}
             D == {e \in EdgesOf(P) : e[n] = a}
  <2>1. E \in SUBSET EdgesOf(U) /\ D \in SUBSET E /\ IsFiniteSet(EdgesOf(U))
    BY EdgesGrow
  <2> HIDE DEF E, D
  <2>2. IsFiniteSet(E) /\ IsFiniteSet(D) /\ Cardinality(D) <= Cardinality(E)
    BY <2>1, FS_Subset
  <2>3. Cardinality(D) \in Nat /\ Cardinality(E) \in Nat
    BY <2>2, FS_CardinalityType
  <2> QED BY <2>2, <2>3 DEF D, E
<1>2. FanOutRecipients \in Nat /\ FanInSenders \in Nat
  BY RulesAssumption DEF RulesAssumption
<1>3. FanOut(P) \subseteq FanOut(U)
  <2> SUFFICES ASSUME NEW a \in FanOut(P) PROVE a \in FanOut(U)
    OBVIOUS
  <2>1. a \in {t.from : t \in U}
    BY DEF FanOut
  <2>2. Cardinality({e \in EdgesOf(P) : e[1] = a}) >= FanOutRecipients
    BY DEF FanOut
  <2>3. Cardinality({e \in EdgesOf(U) : e[1] = a}) >= FanOutRecipients
    <3> DEFINE D == Cardinality({e \in EdgesOf(P) : e[1] = a})
               E == Cardinality({e \in EdgesOf(U) : e[1] = a})
    <3>1. 1 \in {1, 2}
      OBVIOUS
    <3>2. D \in Nat /\ E \in Nat /\ D <= E
      BY <1>1, <3>1
    <3>3. D >= FanOutRecipients
      BY <2>2
    <3> HIDE DEF D, E
    <3>4. E >= FanOutRecipients
      BY <1>2, <3>2, <3>3
    <3> QED BY <3>4 DEF E
  <2> QED BY <2>1, <2>3 DEF FanOut
<1>4. FanIn(P) \subseteq FanIn(U)
  <2> SUFFICES ASSUME NEW a \in FanIn(P) PROVE a \in FanIn(U)
    OBVIOUS
  <2>1. a \in {t.to : t \in U}
    BY DEF FanIn
  <2>2. Cardinality({e \in EdgesOf(P) : e[2] = a}) >= FanInSenders
    BY DEF FanIn
  <2>3. Cardinality({e \in EdgesOf(U) : e[2] = a}) >= FanInSenders
    <3> DEFINE D == Cardinality({e \in EdgesOf(P) : e[2] = a})
               E == Cardinality({e \in EdgesOf(U) : e[2] = a})
    <3>1. 2 \in {1, 2}
      OBVIOUS
    <3>2. D \in Nat /\ E \in Nat /\ D <= E
      BY <1>1, <3>1
    <3>3. D >= FanInSenders
      BY <2>2
    <3> HIDE DEF D, E
    <3>4. E >= FanInSenders
      BY <1>2, <3>2, <3>3
    <3> QED BY <3>4 DEF E
  <2> QED BY <2>1, <2>3 DEF FanIn
<1> QED BY <1>3, <1>4

LEMMA RapidForwardingGrows ==
    ASSUME NEW U, U \subseteq TransferRow, IsFiniteSet(U), NEW P \in SUBSET U
    PROVE  RapidForwarding(P) \subseteq RapidForwarding(U)
<1> DEFINE SentOn(T, r) == {s \in T \ {r} : s.from = r.to /\ Within(s, r, RapidForwardWindow)}
<1>1. ASSUME NEW r \in P, AtLeast(80, Amounts(SentOn(P, r)), r.amount)
      PROVE  AtLeast(80, Amounts(SentOn(U, r)), r.amount)
  <2> DEFINE A == SentOn(P, r)
             B == SentOn(U, r)
  <2>1. A \in SUBSET B /\ B \in SUBSET U /\ r.amount \in Nat
    BY DEF TransferRow
  <2>2. AtLeast(80, Amounts(A), r.amount)
    BY <1>1
  <2> HIDE DEF A, B
  <2>3. B \subseteq TransferRow /\ IsFiniteSet(B)
    BY <2>1, FS_Subset
  <2>4. Amounts(A) \in Nat /\ Amounts(B) \in Nat /\ Amounts(A) <= Amounts(B)
    BY <2>1, <2>3, AmountsGrow
  <2>5. AtLeast(80, Amounts(B), r.amount)
    BY <2>1, <2>2, <2>4 DEF AtLeast
  <2> QED BY <2>5 DEF B
<1>2. ASSUME NEW T
      PROVE  RapidForwarding(T) = {r.to : r \in {u \in T : AtLeast(80, Amounts(SentOn(T, u)), u.amount)}}
  BY DEF RapidForwarding
<1> HIDE DEF SentOn
<1> QED BY <1>1, <1>2

LEMMA TargetConnectedGrows ==
    ASSUME NEW U, NEW P \in SUBSET U, NEW target
    PROVE  TargetConnectedForwarding(target, P) \subseteq TargetConnectedForwarding(target, U)
BY DEF TargetConnectedForwarding

LEMMA CircularFlowGrows ==
    ASSUME NEW U, U \subseteq TransferRow, IsFiniteSet(U), NEW P \in SUBSET U
    PROVE  CircularFlow(P) \subseteq CircularFlow(U)
<1>1. EdgesOf(P) \subseteq EdgesOf(U) /\ Addresses(P) \subseteq Addresses(U) /\ P \subseteq TransferRow
  BY EdgesGrow DEF Addresses
<1>2. ASSUME NEW c \in Cycles(P) PROVE c \in Cycles(U)
  <2>1. PICK n \in 2..MaximumCycleHops :
           /\ c \in [1..n -> Addresses(P)]
           /\ \A i, j \in DOMAIN c : c[i] = c[j] => i = j
           /\ \A i \in DOMAIN c : <<c[i], c[IF i = Len(c) THEN 1 ELSE i + 1]>> \in EdgesOf(P)
    BY DEF Cycles
  <2>2. c \in [1..n -> Addresses(U)]
    BY <1>1, <2>1
  <2> QED BY <1>1, <2>1, <2>2 DEF Cycles
<1> QED BY <1>1, <1>2, CircularFlowIsTheCycles

LEMMA QualifyingGrows ==
    ASSUME NEW U, U \subseteq TransferRow, IsFiniteSet(U), NEW P \in SUBSET U, NEW target, NEW r \in Reasons
    PROVE  Qualifying(target, P)[r] \subseteq Qualifying(target, U)[r]
<1>1. r \in {"fan_out", "fan_in", "rapid_forwarding", "target_connected_forwarding", "circular_flow"}
  BY DEF Reasons, Weight
<1> QED BY <1>1, FansGrow, RapidForwardingGrows, TargetConnectedGrows, CircularFlowGrows DEF Qualifying

Fired(target, T)        == {r \in Reasons : Qualifying(target, T)[r] # {}}
ReasonsOf(target, T, a) == {r \in Reasons : a \in Qualifying(target, T)[r]}
Marked(target, T)       == UNION Range(Qualifying(target, T))

LEMMA EvaluateIs ==
    ASSUME NEW T, NEW target
    PROVE  /\ T = {} => Evaluate(target, T) = NoEvidence
           /\ T # {} => /\ Evaluate(target, T).score = Score(Fired(target, T))
                        /\ Evaluate(target, T).reasons = Fired(target, T)
                        /\ DOMAIN Evaluate(target, T).nodes = Marked(target, T)
                        /\ \A a \in Marked(target, T) :
                              /\ Evaluate(target, T).nodes[a].score = Score(ReasonsOf(target, T, a))
                              /\ Evaluate(target, T).nodes[a].reasons = ReasonsOf(target, T, a)
BY DEF Evaluate, Fired, ReasonsOf, Marked

LEMMA MarkedIs ==
    ASSUME NEW T, NEW target
    PROVE  Marked(target, T) = UNION {Qualifying(target, T)[r] : r \in Reasons}
<1>1. DOMAIN Qualifying(target, T) = Reasons
  BY DEF Qualifying, Reasons, Weight
<1> QED BY <1>1 DEF Marked, Range

LEMMA NoEvidenceIs ==
    NoEvidence.reasons = {} /\ NoEvidence.score = -1 /\ DOMAIN NoEvidence.nodes = {}
<1>1. DOMAIN <<>> = {}
  OBVIOUS
<1> QED BY <1>1 DEF NoEvidence

LEMMA ReasonsAreOfAddresses ==
    ASSUME NEW T, NEW target
    PROVE  LET whole == Evaluate(target, T)
           IN  whole.reasons = UNION {whole.nodes[a].reasons : a \in DOMAIN whole.nodes}
<1> DEFINE whole == Evaluate(target, T)
<1>1. CASE T = {}
  <2>1. whole.reasons = {} /\ DOMAIN whole.nodes = {}
    BY <1>1, EvaluateIs, NoEvidenceIs
  <2> HIDE DEF whole
  <2>2. whole.reasons = UNION {whole.nodes[a].reasons : a \in DOMAIN whole.nodes}
    BY <2>1
  <2> QED BY <2>2 DEF whole
<1>2. CASE T # {}
  <2>1. /\ whole.reasons = Fired(target, T) /\ DOMAIN whole.nodes = Marked(target, T)
        /\ \A a \in Marked(target, T) : whole.nodes[a].reasons = ReasonsOf(target, T, a)
    BY <1>2, EvaluateIs
  <2>2. Fired(target, T) = UNION {ReasonsOf(target, T, a) : a \in Marked(target, T)}
    BY MarkedIs DEF Fired, ReasonsOf
  <2> HIDE DEF whole
  <2>3. whole.reasons = UNION {whole.nodes[a].reasons : a \in DOMAIN whole.nodes}
    BY <2>1, <2>2
  <2> QED BY <2>3 DEF whole
<1> QED BY <1>1, <1>2

LEMMA EvaluationGrows ==
    ASSUME NEW U, U \subseteq TransferRow, IsFiniteSet(U), U # {}, NEW P \in SUBSET U, NEW target
    PROVE  LET whole == Evaluate(target, U)
               part  == Evaluate(target, P)
           IN  /\ part.reasons \subseteq whole.reasons
               /\ part.score <= whole.score
               /\ \A a \in DOMAIN part.nodes :
                     /\ a \in DOMAIN whole.nodes
                     /\ part.nodes[a].score <= whole.nodes[a].score
<1> DEFINE whole == Evaluate(target, U)
           part  == Evaluate(target, P)
<1>1. /\ whole.score = Score(Fired(target, U)) /\ whole.reasons = Fired(target, U)
      /\ DOMAIN whole.nodes = Marked(target, U)
      /\ \A a \in Marked(target, U) : whole.nodes[a].score = Score(ReasonsOf(target, U, a))
  BY EvaluateIs
<1>2. CASE P = {}
  <2>1. part.reasons = {} /\ part.score = -1 /\ DOMAIN part.nodes = {}
    BY <1>2, EvaluateIs, NoEvidenceIs
  <2>2. Fired(target, U) \in SUBSET Reasons
    BY DEF Fired
  <2>3. whole.score \in Nat
    BY <1>1, <2>2, ScoreGrows
  <2> HIDE DEF whole, part
  <2>4. part.score <= whole.score
    BY <2>1, <2>3
  <2> QED BY <2>1, <2>4 DEF whole, part
<1>3. CASE P # {}
  <2>1. /\ part.score = Score(Fired(target, P)) /\ part.reasons = Fired(target, P)
        /\ DOMAIN part.nodes = Marked(target, P)
        /\ \A a \in Marked(target, P) : part.nodes[a].score = Score(ReasonsOf(target, P, a))
    BY <1>3, EvaluateIs
  <2>2. \A r \in Reasons : Qualifying(target, P)[r] \subseteq Qualifying(target, U)[r]
    BY QualifyingGrows
  <2>3. Fired(target, U) \in SUBSET Reasons /\ Fired(target, P) \in SUBSET Fired(target, U)
    BY <2>2 DEF Fired
  <2>4. Marked(target, P) \subseteq Marked(target, U)
    BY <2>2, MarkedIs
  <2>5. \A a : /\ ReasonsOf(target, U, a) \in SUBSET Reasons
               /\ ReasonsOf(target, P, a) \in SUBSET ReasonsOf(target, U, a)
    BY <2>2 DEF ReasonsOf
  <2> HIDE DEF whole, part
  <2>6. part.reasons \subseteq whole.reasons
    BY <1>1, <2>1, <2>3
  <2>7. part.score <= whole.score
    BY <1>1, <2>1, <2>3, ScoreGrows
  <2>8. ASSUME NEW a \in DOMAIN part.nodes
        PROVE  a \in DOMAIN whole.nodes /\ part.nodes[a].score <= whole.nodes[a].score
    <3>1. a \in Marked(target, P) /\ a \in Marked(target, U)
      BY <2>1, <2>4
    <3>2. Score(ReasonsOf(target, P, a)) <= Score(ReasonsOf(target, U, a))
      BY <2>5, ScoreGrows
    <3> QED BY <1>1, <2>1, <3>1, <3>2
  <2> QED BY <2>6, <2>7, <2>8 DEF whole, part
<1> QED BY <1>2, <1>3

\* rules_v1.go, Evaluate: with a transfer missing, as in a collection that was
\* cut short, no reason and no address is added and no score is higher; and
\* every reason of the whole is that of an address.
THEOREM PartsNeverOverstate == Spec => []PartialNeverOverstates
<1>1. Investigated => PartialNeverOverstates
  <2> SUFFICES ASSUME Investigated, Fresh PROVE PartialNeverOverstates
    BY DEF PartialNeverOverstates
  <2>1. /\ Latest \subseteq TransferRow /\ IsFiniteSet(Latest)
        /\ assessment[current].evaluation = Evaluate(Target, Latest)
    BY FreshFacts
  <2>2. \A t \in Latest : Latest # {} /\ Latest \ {t} \in SUBSET Latest
    OBVIOUS
  <2> DEFINE whole == assessment[current].evaluation
  <2>3. whole.reasons = UNION {whole.nodes[a].reasons : a \in DOMAIN whole.nodes}
    BY <2>1, ReasonsAreOfAddresses
  <2>4. \A t \in Latest :
           LET part == Evaluate(Target, Latest \ {t}) IN
           /\ part.reasons \subseteq whole.reasons
           /\ part.score <= whole.score
           /\ \A a \in DOMAIN part.nodes :
                 /\ a \in DOMAIN whole.nodes
                 /\ part.nodes[a].score <= whole.nodes[a].score
    BY <2>1, <2>2, EvaluationGrows
  <2> QED BY <2>3, <2>4 DEF PartialNeverOverstates
<1>2. Spec => []Investigated
  BY ConsistentAlways, PTL DEF Consistent
<1> QED BY <1>1, <1>2, PTL
=============================================================================
