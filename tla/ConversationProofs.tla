------------------------- MODULE ConversationProofs -------------------------
(* Machine-checked safety of Conversation, for every value of its constants. *)
EXTENDS Conversation, FiniteSetTheorems, TLAPS

-----------------------------------------------------------------------------
(* Ordinals *)

\* A finite set that is an initial segment of the naturals: its maximum is one
\* less than its size.
LEMMA SegmentMax ==
  ASSUME NEW S, IsFiniteSet(S), S = 0..(Cardinality(S) - 1)
  PROVE  /\ Cardinality(S) \in Nat
         /\ S = {} => Cardinality(S) = 0
         /\ S # {} => Max(S) = Cardinality(S) - 1
<1>1. Cardinality(S) \in Nat
  BY FS_CardinalityType
<1>2. S = {} => Cardinality(S) = 0
  BY FS_EmptySet
<1>3. ASSUME S # {} PROVE Max(S) = Cardinality(S) - 1
  <2> DEFINE m == Cardinality(S) - 1
  <2>1. m \in S /\ \A y \in S : m >= y
    BY <1>1, <1>3
  <2>2. Max(S) \in S /\ \A y \in S : Max(S) >= y
    BY <2>1 DEF Max
  <2> DEFINE x == Max(S)
  <2>3. m \in Int /\ x \in Int
    BY <1>1, <2>2
  <2>4. m >= x /\ x >= m
    BY <2>1, <2>2
  <2> HIDE DEF m, x
  <2>5. x = m
    BY <2>3, <2>4
  <2> QED
    BY <2>5 DEF m, x
<1> QED
  BY <1>1, <1>2, <1>3

\* nextConversationOrdinal is the length of the conversation.
LEMMA NextIsLength ==
  ASSUME TypeOK, NoGapInTranscript, NEW i \in Investigations
  PROVE  /\ NextOrdinal(i) = Cardinality(Ordinals(i))
         /\ Cardinality(Ordinals(i)) \in Nat
<1>1. IsFiniteSet(Ordinals(i)) /\ Ordinals(i) = 0..(Cardinality(Ordinals(i)) - 1)
  BY DEF TypeOK, IsTranscript, NoGapInTranscript, Ordinals
<1> QED
  BY <1>1, SegmentMax DEF NextOrdinal

\* A segment extended by another one is a segment of the sum of their sizes.
LEMMA SegmentExtended ==
  ASSUME NEW n \in Nat, NEW k \in Nat
  PROVE  LET S == 0..(n - 1) \cup n..(n + k - 1) IN
         /\ S = 0..(n + k - 1) /\ IsFiniteSet(S) /\ Cardinality(S) = n + k
<1>1. 0..(n - 1) \cup n..(n + k - 1) = 0..(n + k - 1)
  OBVIOUS
<1>2. IsFiniteSet(0..(n + k - 1)) /\ Cardinality(0..(n + k - 1)) = n + k
  BY FS_Interval
<1> QED
  BY <1>1, <1>2

-----------------------------------------------------------------------------
(* The rows of a group *)

Outcomes == {"answer", "unavailable", "summary"}

LEMMA RolesOf ==
  /\ Roles("answer") = <<"user", "agent">>
  /\ Roles("unavailable") = <<"user", "system">>
  /\ Roles("summary") = <<"agent">>
BY DEF Roles

\* What a call writes from an ordinal on: two rows for a question, one for a summary.
LEMMA EntriesShape ==
  ASSUME NEW e \in Call, NEW n \in Nat, e.outcome \in Outcomes,
         e.key \in AllKeys
  PROVE  /\ DOMAIN Entries(e, n) = n..(n + Len(Roles(e.outcome)) - 1)
         /\ IsTranscript(Entries(e, n))
         /\ \A o \in DOMAIN Entries(e, n) : Entries(e, n)[o].key = e.key
         /\ e.outcome = "summary" =>
              /\ DOMAIN Entries(e, n) = {n} /\ Entries(e, n)[n].role = "agent"
         /\ e.outcome # "summary" =>
              /\ DOMAIN Entries(e, n) = {n, n + 1}
              /\ Entries(e, n)[n].role = "user" /\ Entries(e, n)[n + 1].role # "user"
<1> DEFINE roles == Roles(e.outcome)
           E == Entries(e, n)
<1>1. roles \in {<<"user", "agent">>, <<"user", "system">>, <<"agent">>}
      /\ (e.outcome = "summary" <=> roles = <<"agent">>)
  BY RolesOf DEF Outcomes
<1>2. E = [o \in n..(n + Len(roles) - 1) |->
             [key |-> e.key, role |-> roles[o - n + 1],
              about |-> IF roles[o - n + 1] = "agent" THEN e.about ELSE 0]]
  BY DEF Entries
<1> HIDE DEF roles, E
<1>3. DOMAIN E = n..(n + Len(roles) - 1) /\ E = [o \in DOMAIN E |-> E[o]]
  BY <1>2
<1>4. e.about \in 0..LastDataset /\ LastDataset \in Nat
  BY ConversationAssumption DEF Call
<1>5. CASE roles = <<"agent">>
  <2>1. Len(roles) = 1 /\ roles[1] = "agent" /\ n - n + 1 = 1 /\ n..(n + 1 - 1) = {n}
    BY <1>5
  <2>2. DOMAIN E = {n}
    BY <1>3, <2>1
  <2>3. E[n] = [key |-> e.key, role |-> "agent", about |-> e.about]
    BY <1>2, <1>3, <2>1, <2>2
  <2>4. E[n] \in Message
    BY <2>3, <1>4 DEF Message
  <2>5. IsTranscript(E)
    BY <1>3, <2>2, <2>4, FS_Singleton DEF IsTranscript
  <2>6. /\ \A o \in DOMAIN E : E[o].key = e.key
        /\ E[n].role = "agent"
    BY <2>2, <2>3
  <2>7. e.outcome = "summary"
    BY <1>1, <1>5
  <2> QED
    BY <1>3, <2>2, <2>5, <2>6, <2>7 DEF E, roles
<1>6. CASE roles \in {<<"user", "agent">>, <<"user", "system">>}
  <2>1. Len(roles) = 2 /\ roles # <<"agent">>
    <3>1. Len(roles) = 2 /\ Len(<<"agent">>) = 1
      BY <1>6
    <3> QED
      BY <3>1
  <2>2. n..(n + 2 - 1) = {n, n + 1}
    OBVIOUS
  <2>3. DOMAIN E = {n, n + 1}
    BY <1>3, <2>1, <2>2
  <2>4. roles[1] = "user" /\ roles[2] \in {"agent", "system"}
    BY <1>6
  <2>5. n - n + 1 = 1 /\ n + 1 - n + 1 = 2
    OBVIOUS
  <2>6. E[n] = [key |-> e.key, role |-> roles[1],
                about |-> IF roles[1] = "agent" THEN e.about ELSE 0]
    BY <1>2, <1>3, <2>3, <2>5
  <2>7. E[n + 1] = [key |-> e.key, role |-> roles[2],
                    about |-> IF roles[2] = "agent" THEN e.about ELSE 0]
    <3>1. \A o \in DOMAIN E : E[o] = [key |-> e.key, role |-> roles[o - n + 1],
                                    about |-> IF roles[o - n + 1] = "agent"
                                              THEN e.about ELSE 0]
      BY <1>2, <1>3
    <3>2. n + 1 \in DOMAIN E
      BY <2>3
    <3> QED
      BY <2>5, <3>1, <3>2
  <2>8. E[n] \in Message /\ E[n + 1] \in Message
    BY <2>4, <2>6, <2>7, <1>4 DEF Message
  <2>9. IsFiniteSet({n, n + 1})
    <3>1. IsFiniteSet({n}) /\ {n, n + 1} = {n} \cup {n + 1}
      BY FS_Singleton
    <3> QED
      BY <3>1, FS_AddElement
  <2>10. IsTranscript(E)
    <3>1. IsFiniteSet(DOMAIN E) /\ DOMAIN E \subseteq Nat
      BY <2>3, <2>9
    <3>2. \A o \in DOMAIN E : E[o] \in Message
      BY <2>3, <2>8
    <3> QED
      BY <1>3, <3>1, <3>2 DEF IsTranscript
  <2>11. /\ \A o \in DOMAIN E : E[o].key = e.key
         /\ E[n].role = "user" /\ E[n + 1].role # "user"
    BY <2>3, <2>4, <2>6, <2>7
  <2>12. e.outcome # "summary"
    BY <1>1, <2>1
  <2> QED
    BY <1>3, <2>3, <2>10, <2>11, <2>12 DEF E, roles
<1> QED
  BY <1>1, <1>5, <1>6

\* The rows found under a key are some messages.
LEMMA GroupShape ==
  ASSUME TypeOK, NEW i \in Investigations, NEW k
  PROVE  IsTranscript(GroupOf(i, k))
<1> DEFINE f == messages[i]
           S == {o \in DOMAIN f : f[o].key = k}
           g == [o \in S |-> f[o]]
<1>1. IsTranscript(f)
  BY DEF TypeOK
<1>2. S \subseteq DOMAIN f /\ DOMAIN g = S
  OBVIOUS
<1>3. IsFiniteSet(S)
  BY <1>1, <1>2, FS_Subset DEF IsTranscript
<1>4. IsTranscript(g)
  BY <1>1, <1>2, <1>3 DEF IsTranscript
<1> QED
  BY <1>4 DEF GroupOf, OrdinalsOf, Ordinals

LEMMA NoRows == IsTranscript(<<>>)
<1>1. DOMAIN <<>> = {} /\ <<>> = [o \in {} |-> <<>>[o]]
  OBVIOUS
<1> QED
  BY <1>1, FS_EmptySet DEF IsTranscript

-----------------------------------------------------------------------------
(* Calls that move outside a transaction *)

EntryWellFormed(e) ==
  /\ e.pc \notin {"idle", "done"} => e.inv \in Investigations /\ e.key \in AllKeys
  /\ e.pc \in {"lookup", "respond", "turn"} =>
       (e.op = "summary" <=> e.key \in SummaryKeys)
  /\ e.pc \in {"store", "insert"} =>
       /\ e.outcome # "none"
       /\ e.outcome = "summary" <=> e.key \in SummaryKeys

LEMMA IdleIsTyped == Idle \in Call /\ EntryWellFormed(Idle)
BY ConversationAssumption DEF Idle, Call, EntryWellFormed

CallPart ==
  /\ call \in [Calls -> Call]
  /\ rows = [c \in Calls |-> rows[c]]
  /\ \A c \in Calls : IsTranscript(rows[c])
  /\ writer \in Calls \cup {None}
  /\ CallsWellFormed /\ WriterIsInside

\* A call that moves to a point outside the transaction, leaving it if it was inside.
LEMMA CallMoves ==
  ASSUME IInv, NEW c \in Calls, NEW e \in Call, NEW group,
         EntryWellFormed(e), e.pc # "insert", IsTranscript(group),
         call' = [call EXCEPT ![c] = e], rows' = [rows EXCEPT ![c] = group],
         writer' = IF writer = c THEN None ELSE writer
  PROVE  /\ CallPart'
         /\ \A d \in Calls : writer' = d =>
              writer = d /\ call'[d] = call[d] /\ rows'[d] = rows[d]
<1>1. call' \in [Calls -> Call] /\ call'[c] = e /\ \A d \in Calls \ {c} : call'[d] = call[d]
  BY DEF IInv, TypeOK
<1>2. /\ rows' = [d \in Calls |-> rows'[d]] /\ rows'[c] = group
      /\ \A d \in Calls \ {c} : rows'[d] = rows[d]
  BY DEF IInv, TypeOK
<1>3. \A d \in Calls : IsTranscript(rows'[d])
  BY <1>2 DEF IInv, TypeOK
<1>4. writer' \in Calls \cup {None} /\ writer \in Calls \cup {None} /\ None \notin Calls
  BY ConversationAssumption DEF IInv, TypeOK
<1>5. CallsWellFormed'
  BY <1>1 DEF IInv, CallsWellFormed, EntryWellFormed
<1>6. WriterIsInside'
  BY <1>1, <1>4 DEF IInv, WriterIsInside, At
<1>7. \A d \in Calls : writer' = d => writer = d /\ d # c
  BY <1>4
<1> QED
  BY <1>1, <1>2, <1>3, <1>4, <1>5, <1>6, <1>7 DEF CallPart

\* Such a move keeps the invariant if it leaves the stored conversation alone.
LEMMA QuietMove ==
  ASSUME IInv, NEW c \in Calls, NEW e \in Call, NEW group,
         EntryWellFormed(e), e.pc # "insert", IsTranscript(group),
         call' = [call EXCEPT ![c] = e], rows' = [rows EXCEPT ![c] = group],
         writer' = IF writer = c THEN None ELSE writer,
         UNCHANGED <<present, current, messages, agent>>
  PROVE  IInv'
<1>1. /\ CallPart'
      /\ \A d \in Calls : writer' = d =>
           writer = d /\ call'[d] = call[d] /\ rows'[d] = rows[d]
  BY CallMoves
<1>2. TypeOK' /\ CallsWellFormed' /\ WriterIsInside'
  BY <1>1 DEF CallPart, IInv, TypeOK
<1>3. WriterIsCurrent'
  <2>1. ASSUME NEW d \in Calls, writer' = d
        PROVE  ReadsHold(d)'
    <3>1. call'[d] = call[d] /\ rows'[d] = rows[d] /\ ReadsHold(d)
      BY <1>1, <2>1 DEF IInv, WriterIsCurrent
    <3> QED
      BY <3>1 DEF ReadsHold, OrdinalsOf, Ordinals
  <2> QED
    BY <2>1 DEF WriterIsCurrent
<1>4. NoGapInTranscript' /\ GroupsAreWhole' /\ NoOrphanMessages'
  BY DEF IInv, NoGapInTranscript, GroupsAreWhole, NoOrphanMessages, OrdinalsOf, Ordinals
<1> QED
  BY <1>2, <1>3, <1>4 DEF IInv

-----------------------------------------------------------------------------
(* The actions of a call that store nothing *)

\* The facts about a call that its actions start from.
LEMMA CallFacts ==
  ASSUME IInv, NEW c \in Calls
  PROVE  /\ call[c] \in Call /\ EntryWellFormed(call[c]) /\ IsTranscript(rows[c])
         /\ rows = [rows EXCEPT ![c] = rows[c]]
         /\ call = [call EXCEPT ![c] = call[c]]
         /\ ~At(c, "insert") => writer # c
BY DEF IInv, TypeOK, CallsWellFormed, EntryWellFormed, WriterIsInside, At

LEMMA AskKeeps ==
  ASSUME IInv, NEW c \in Calls, NEW op \in {"submit", "stream"}, NEW i \in Investigations,
         NEW k \in Keys, Ask(c, op, i, k)
  PROVE  IInv'
<1> DEFINE asked == [Idle EXCEPT !.op = op, !.inv = i, !.key = k]
           e == IF ~agent THEN [asked EXCEPT !.pc = "store", !.outcome = "unavailable"]
                ELSE IF present[i] THEN [asked EXCEPT !.pc = "respond"]
                ELSE [asked EXCEPT !.pc = "done", !.reply = "not_found"]
<1>1. k \in AllKeys /\ k \notin SummaryKeys
  BY ConversationAssumption DEF AllKeys
<1>2. /\ asked \in Call
      /\ asked.op = op /\ asked.inv = i /\ asked.key = k
  BY <1>1, IdleIsTyped DEF Call
<1>3. e \in Call /\ EntryWellFormed(e) /\ e.pc # "insert"
  <2> HIDE DEF asked
  <2>1. CASE ~agent
    <3>1. e = [asked EXCEPT !.pc = "store", !.outcome = "unavailable"]
      BY <2>1
    <3> QED
      BY <1>1, <1>2, <3>1 DEF Call, EntryWellFormed
  <2>2. CASE agent /\ present[i]
    <3>1. e = [asked EXCEPT !.pc = "respond"]
      BY <2>2
    <3> QED
      BY <1>1, <1>2, <3>1 DEF Call, EntryWellFormed
  <2>3. CASE agent /\ ~present[i]
    <3>1. e = [asked EXCEPT !.pc = "done", !.reply = "not_found"]
      BY <2>3
    <3> QED
      BY <1>1, <1>2, <3>1 DEF Call, EntryWellFormed
  <2> QED
    BY <2>1, <2>2, <2>3
<1>4. call' = [call EXCEPT ![c] = e] /\ At(c, "idle")
      /\ UNCHANGED <<present, current, messages, rows, writer, agent>>
  BY DEF Ask
<1> HIDE DEF e
<1> QED
  BY <1>3, <1>4, CallFacts, QuietMove DEF At

LEMMA AskSummaryKeeps ==
  ASSUME IInv, NEW c \in Calls, NEW i \in Investigations, AskSummary(c, i)
  PROVE  IInv'
<1> DEFINE e == [Idle EXCEPT !.op = "summary", !.inv = i, !.pc = "lookup",
                             !.key = SummaryKey(current[i])]
<1>1. SummaryKey(current[i]) \in SummaryKeys /\ SummaryKey(current[i]) \in AllKeys
  BY ConversationAssumption DEF AskSummary, IInv, TypeOK, SummaryKeys, AllKeys
<1>2. e \in Call /\ EntryWellFormed(e) /\ e.pc # "insert"
  BY <1>1, IdleIsTyped DEF Call, EntryWellFormed
<1>3. call' = [call EXCEPT ![c] = e] /\ At(c, "idle")
      /\ UNCHANGED <<present, current, messages, rows, writer, agent>>
  BY DEF AskSummary
<1> HIDE DEF e
<1> QED
  BY <1>2, <1>3, CallFacts, QuietMove DEF At

Replies == {"none", "answered", "unavailable", "no_summary", "not_found", "internal", "db_error"}

\* A reply leaves the transaction, if the call is inside it, and changes nothing else.
LEMMA ReplyKeeps ==
  ASSUME IInv, NEW c \in Calls, NEW reply \in Replies, NEW group, IsTranscript(group),
         Reply(c, reply, group), writer' = IF writer = c THEN None ELSE writer,
         UNCHANGED <<present, current, messages, agent>>
  PROVE  IInv'
<1> DEFINE e == [call[c] EXCEPT !.pc = "done", !.reply = reply]
<1>1. call[c] \in Call
  BY CallFacts
<1>2. e \in Call /\ EntryWellFormed(e) /\ e.pc # "insert"
  BY <1>1 DEF Call, EntryWellFormed, Replies
<1>3. call' = [call EXCEPT ![c] = e] /\ rows' = [rows EXCEPT ![c] = group]
  BY DEF Reply
<1> HIDE DEF e
<1> QED
  BY <1>2, <1>3, QuietMove

LEMMA ReplyNotFoundKeeps ==
  ASSUME IInv, NEW c \in Calls, ~At(c, "insert"), ReplyNotFound(c),
         UNCHANGED <<present, current, messages, writer, agent>>
  PROVE  IInv'
BY ReplyKeeps, NoRows, CallFacts DEF ReplyNotFound, Replies

LEMMA FindSummaryKeeps ==
  ASSUME IInv, NEW c \in Calls, FindSummary(c)
  PROVE  IInv'
<1> DEFINE i == call[c].inv
           group == GroupOf(i, call[c].key)
<1>1. /\ At(c, "lookup") /\ ~At(c, "insert") /\ i \in Investigations /\ writer # c
      /\ UNCHANGED <<present, current, messages, writer, agent>>
  BY CallFacts DEF FindSummary, At, EntryWellFormed
<1>2. CASE ReplyNotFound(c)
  BY <1>1, <1>2, ReplyNotFoundKeeps
<1>3. CASE Reply(c, "answered", group)
  <2>1. IsTranscript(group)
    BY <1>1, GroupShape DEF IInv
  <2> QED
    BY <1>1, <1>3, <2>1, ReplyKeeps DEF Replies
<1>4. CASE GoTo(c, "respond")
  <2> DEFINE e == [call[c] EXCEPT !.pc = "respond"]
  <2>1. e \in Call /\ EntryWellFormed(e) /\ e.pc # "insert"
    BY <1>1, CallFacts DEF Call, EntryWellFormed, At
  <2>2. call' = [call EXCEPT ![c] = e] /\ UNCHANGED rows
    BY <1>4 DEF GoTo
  <2> HIDE DEF e
  <2> QED
    BY <1>1, <2>1, <2>2, CallFacts, QuietMove
<1> QED
  BY <1>2, <1>3, <1>4 DEF FindSummary

LEMMA ResolveScopeKeeps ==
  ASSUME IInv, NEW c \in Calls, ResolveScope(c)
  PROVE  IInv'
<1> DEFINE i == call[c].inv
           e == [call[c] EXCEPT !.pc = "turn", !.about = current[i]]
<1>1. /\ At(c, "respond") /\ ~At(c, "insert") /\ i \in Investigations /\ writer # c
      /\ UNCHANGED <<present, current, messages, writer, agent>>
  BY CallFacts DEF ResolveScope, At, EntryWellFormed
<1>2. CASE ReplyNotFound(c)
  BY <1>1, <1>2, ReplyNotFoundKeeps
<1>3. CASE call' = [call EXCEPT ![c] = e] /\ UNCHANGED rows
  <2>1. current[i] \in 0..LastDataset
    BY <1>1 DEF IInv, TypeOK
  <2>2. e \in Call /\ EntryWellFormed(e) /\ e.pc # "insert"
    BY <1>1, <2>1, CallFacts DEF Call, EntryWellFormed, At
  <2> HIDE DEF e
  <2> QED
    BY <1>1, <1>3, <2>2, CallFacts, QuietMove
<1> QED
  BY <1>2, <1>3 DEF ResolveScope

LEMMA DeltaKeeps ==
  ASSUME IInv, NEW c \in Calls, Delta(c)
  PROVE  IInv'
<1> DEFINE e == [call[c] EXCEPT !.started = TRUE]
<1>1. /\ At(c, "turn") /\ ~At(c, "insert") /\ call' = [call EXCEPT ![c] = e]
      /\ UNCHANGED <<present, current, messages, rows, writer, agent>>
  BY DEF Delta, At
<1>2. e \in Call /\ EntryWellFormed(e) /\ e.pc # "insert"
  BY <1>1, CallFacts DEF Call, EntryWellFormed, At
<1> HIDE DEF e
<1> QED
  BY <1>1, <1>2, CallFacts, QuietMove

LEMMA AnswerKeeps ==
  ASSUME IInv, NEW c \in Calls, Answer(c)
  PROVE  IInv'
<1> DEFINE e == [call[c] EXCEPT !.pc = "store",
                   !.outcome = IF call[c].op = "summary" THEN "summary" ELSE "answer"]
<1>1. /\ At(c, "turn") /\ ~At(c, "insert") /\ call' = [call EXCEPT ![c] = e]
      /\ UNCHANGED <<present, current, messages, rows, writer, agent>>
  BY DEF Answer, At
<1>2. e \in Call /\ EntryWellFormed(e) /\ e.pc # "insert"
  BY <1>1, CallFacts DEF Call, EntryWellFormed, At
<1> HIDE DEF e
<1> QED
  BY <1>1, <1>2, CallFacts, QuietMove

LEMMA TurnFailsKeeps ==
  ASSUME IInv, NEW c \in Calls, TurnFails(c)
  PROVE  IInv'
<1> DEFINE e == [call[c] EXCEPT !.pc = "store", !.outcome = "unavailable"]
<1>1. /\ At(c, "turn") \/ At(c, "respond")
      /\ ~At(c, "insert") /\ writer # c
      /\ UNCHANGED <<present, current, messages, writer, agent>>
  BY CallFacts DEF TurnFails, At
<1>2. CASE call[c].op = "summary"
  BY <1>1, <1>2, ReplyKeeps, NoRows DEF TurnFails, Replies
<1>3. CASE call[c].op # "summary"
  <2>1. call' = [call EXCEPT ![c] = e] /\ UNCHANGED rows
    BY <1>3 DEF TurnFails
  <2>2. e \in Call /\ EntryWellFormed(e) /\ e.pc # "insert"
    BY <1>1, <1>3, CallFacts DEF Call, EntryWellFormed, At
  <2> HIDE DEF e
  <2> QED
    BY <1>1, <2>1, <2>2, CallFacts, QuietMove
<1> QED
  BY <1>2, <1>3

LEMMA StatementFailsKeeps ==
  ASSUME IInv, NEW c \in Calls, StatementFails(c)
  PROVE  IInv'
<1>1. /\ Reply(c, "db_error", <<>>) \/ Reply(c, "internal", <<>>)
      /\ writer' = (IF writer = c THEN None ELSE writer)
      /\ UNCHANGED <<present, current, messages, agent>>
  BY DEF StatementFails
<1> QED
  BY <1>1, ReplyKeeps, NoRows DEF Replies

LEMMA ReturnKeeps ==
  ASSUME IInv, NEW c \in Calls, Return(c)
  PROVE  IInv'
<1>1. /\ ~At(c, "insert") /\ call' = [call EXCEPT ![c] = Idle] /\ rows' = [rows EXCEPT ![c] = <<>>]
      /\ UNCHANGED <<present, current, messages, writer, agent>>
  BY DEF Return, At
<1>2. Idle.pc # "insert"
  BY DEF Idle
<1> QED
  BY <1>1, <1>2, IdleIsTyped, NoRows, CallFacts, QuietMove

-----------------------------------------------------------------------------
(* The transaction *)

\* What a call about to write has in hand.
LEMMA WriterFacts ==
  ASSUME IInv, NEW c \in Calls, At(c, "store") \/ At(c, "insert")
  PROVE  /\ call[c] \in Call /\ call[c].inv \in Investigations /\ call[c].key \in AllKeys
         /\ call[c].outcome \in Outcomes
         /\ call[c].outcome = "summary" <=> call[c].key \in SummaryKeys
<1>1. call[c] \in Call /\ EntryWellFormed(call[c])
  BY CallFacts
<1>2. call[c].outcome \in Outcomes \cup {"none"}
  BY <1>1 DEF Call, Outcomes
<1> QED
  BY <1>1, <1>2 DEF At, EntryWellFormed

LEMMA BeginGroupKeeps ==
  ASSUME IInv, NEW c \in Calls, At(c, "store"), writer = None, present[call[c].inv],
         GroupOf(call[c].inv, call[c].key) = <<>>, BeginGroup(c),
         UNCHANGED <<present, current, messages, agent>>
  PROVE  IInv'
<1> DEFINE i == call[c].inv
           n == NextOrdinal(i)
           e == [call[c] EXCEPT !.pc = "insert"]
           group == Entries(call[c], n)
<1>1. /\ call[c] \in Call /\ i \in Investigations /\ call[c].key \in AllKeys
      /\ call[c].outcome \in Outcomes
      /\ (call[c].outcome = "summary" <=> call[c].key \in SummaryKeys)
  BY WriterFacts
<1>2. n \in Nat /\ n = Cardinality(Ordinals(i))
  BY <1>1, NextIsLength DEF IInv
<1>3. IsTranscript(group)
  BY <1>1, <1>2, EntriesShape
<1>4. call' = [call EXCEPT ![c] = e] /\ rows' = [rows EXCEPT ![c] = group] /\ writer' = c
  BY DEF BeginGroup
<1>5. /\ e \in Call /\ e.pc = "insert" /\ e.inv = i /\ e.key = call[c].key
      /\ e.outcome = call[c].outcome /\ e.about = call[c].about
  BY <1>1 DEF Call
<1>6. group = Entries(e, n)
  BY <1>5 DEF Entries
<1>7. OrdinalsOf(i, call[c].key) = {}
  <2>1. DOMAIN GroupOf(i, call[c].key) = OrdinalsOf(i, call[c].key)
    BY DEF GroupOf
  <2> QED
    BY <2>1
<1> HIDE DEF e, group
<1>8. call' \in [Calls -> Call] /\ call'[c] = e /\ \A d \in Calls \ {c} : call'[d] = call[d]
  BY <1>4, <1>5 DEF IInv, TypeOK
<1>9. /\ rows' = [d \in Calls |-> rows'[d]] /\ rows'[c] = group
      /\ \A d \in Calls \ {c} : rows'[d] = rows[d]
  BY <1>4 DEF IInv, TypeOK
<1>10. \A d \in Calls : IsTranscript(rows'[d])
  BY <1>3, <1>9 DEF IInv, TypeOK
<1>11. TypeOK'
  BY <1>4, <1>8, <1>9, <1>10 DEF IInv, TypeOK
<1>12. CallsWellFormed'
  BY <1>1, <1>5, <1>8, ConversationAssumption DEF IInv, CallsWellFormed, Outcomes
<1>13. WriterIsInside'
  <2>1. \A d \in Calls : ~At(d, "insert")
    BY ConversationAssumption DEF IInv, WriterIsInside
  <2> QED
    BY <1>4, <1>5, <1>8, <2>1 DEF WriterIsInside, At
<1>14. WriterIsCurrent'
  <2>1. ReadsHold(c)'
    BY <1>2, <1>5, <1>6, <1>7, <1>8, <1>9 DEF ReadsHold, OrdinalsOf, Ordinals
  <2> QED
    BY <1>4, <2>1 DEF WriterIsCurrent
<1>15. NoGapInTranscript' /\ GroupsAreWhole' /\ NoOrphanMessages'
  BY DEF IInv, NoGapInTranscript, GroupsAreWhole, NoOrphanMessages, OrdinalsOf, Ordinals
<1> QED
  BY <1>11, <1>12, <1>13, <1>14, <1>15 DEF IInv

LEMMA OpenTransactionKeeps ==
  ASSUME IInv, NEW c \in Calls, OpenTransaction(c)
  PROVE  IInv'
<1> DEFINE i == call[c].inv
           group == GroupOf(i, call[c].key)
<1>1. /\ At(c, "store") /\ ~At(c, "insert") /\ i \in Investigations
      /\ writer = None /\ writer # c
      /\ UNCHANGED <<present, current, messages, agent>>
  BY WriterFacts, ConversationAssumption DEF OpenTransaction, At
<1>2. CASE ReplyNotFound(c) /\ UNCHANGED writer
  BY <1>1, <1>2, ReplyNotFoundKeeps
<1>3. CASE present[i] /\ group = <<>> /\ BeginGroup(c)
  BY <1>1, <1>3, BeginGroupKeeps
<1>4. CASE Reply(c, Reported(c), group) /\ UNCHANGED writer
  <2>1. IsTranscript(group)
    BY <1>1, GroupShape DEF IInv
  <2>2. Reported(c) \in Replies
    BY DEF Reported, Replies
  <2> QED
    BY <1>1, <1>4, <2>1, <2>2, ReplyKeeps
<1>5. CASE Reply(c, "internal", <<>>) /\ UNCHANGED writer
  BY <1>1, <1>5, ReplyKeeps, NoRows DEF Replies
<1> QED
  BY <1>2, <1>3, <1>4, <1>5 DEF OpenTransaction

\* The transcript of an Investigation after its writer has committed.
LEMMA TranscriptExtended ==
  ASSUME IInv, NEW c \in Calls, At(c, "insert")
  PROVE  LET i == call[c].inv
             n == Cardinality(Ordinals(i))
             new == Merged(messages[i], rows[c])
             len == Len(Roles(call[c].outcome))
         IN
         /\ i \in Investigations /\ present[i] /\ n \in Nat
         /\ call[c].key \in AllKeys /\ call[c].outcome \in Outcomes
         /\ (call[c].outcome = "summary" <=> call[c].key \in SummaryKeys)
         /\ OrdinalsOf(i, call[c].key) = {}
         /\ rows[c] = Entries(call[c], n)
         /\ len \in Nat /\ Ordinals(i) = 0..(n - 1) /\ DOMAIN rows[c] = n..(n + len - 1)
         /\ IsTranscript(new)
         /\ DOMAIN new = 0..(n + len - 1) /\ Cardinality(DOMAIN new) = n + len
         /\ \A o \in Ordinals(i) : new[o] = messages[i][o]
         /\ \A o \in DOMAIN rows[c] : new[o] = rows[c][o]
<1> DEFINE i == call[c].inv
           n == Cardinality(Ordinals(i))
           new == Merged(messages[i], rows[c])
           len == Len(Roles(call[c].outcome))
<1>1. /\ call[c] \in Call /\ i \in Investigations /\ call[c].key \in AllKeys
      /\ call[c].outcome \in Outcomes
      /\ (call[c].outcome = "summary" <=> call[c].key \in SummaryKeys)
  BY WriterFacts
<1>2. present[i] /\ OrdinalsOf(i, call[c].key) = {} /\ rows[c] = Entries(call[c], n)
  BY DEF IInv, WriterIsInside, WriterIsCurrent, ReadsHold
<1>3. n \in Nat /\ Ordinals(i) = 0..(n - 1)
  BY <1>1, NextIsLength DEF IInv, NoGapInTranscript
<1>4. len \in Nat
  BY <1>1, RolesOf DEF Outcomes
<1>5. DOMAIN rows[c] = n..(n + len - 1) /\ IsTranscript(rows[c])
  BY <1>1, <1>2, <1>3, EntriesShape
<1>6. IsTranscript(messages[i])
  BY <1>1 DEF IInv, TypeOK
<1> HIDE DEF len, n
<1>7. DOMAIN new = 0..(n - 1) \cup n..(n + len - 1)
  BY <1>3, <1>5 DEF Merged, Ordinals
<1>8. DOMAIN new = 0..(n + len - 1) /\ Cardinality(DOMAIN new) = n + len /\ IsFiniteSet(DOMAIN new)
  BY <1>3, <1>4, <1>7, SegmentExtended
<1>9. /\ \A o \in Ordinals(i) : new[o] = messages[i][o]
      /\ \A o \in DOMAIN rows[c] : new[o] = rows[c][o]
  BY <1>3, <1>4, <1>5 DEF Merged, Ordinals
<1>10. new = [o \in DOMAIN new |-> new[o]]
  BY DEF Merged
<1>11. \A o \in DOMAIN new : new[o] \in Message
  BY <1>5, <1>6, <1>9 DEF IsTranscript, Merged, Ordinals
<1>12. IsTranscript(new)
  <2>1. DOMAIN new \subseteq Nat
    BY <1>3, <1>4, <1>8
  <2> HIDE DEF new
  <2> QED
    BY <1>8, <1>10, <1>11, <2>1 DEF IsTranscript
<1> QED
  BY <1>1, <1>2, <1>3, <1>4, <1>5, <1>8, <1>9, <1>12 DEF n, len

LEMMA StoreGroupKeeps ==
  ASSUME IInv, NEW c \in Calls, StoreGroup(c)
  PROVE  IInv'
<1> DEFINE i == call[c].inv
           n == Cardinality(Ordinals(i))
           key == call[c].key
           new == Merged(messages[i], rows[c])
           len == Len(Roles(call[c].outcome))
<1>1. At(c, "insert") /\ writer' = None /\ UNCHANGED <<present, current, agent>>
  BY DEF StoreGroup
<1>2. /\ i \in Investigations /\ present[i] /\ n \in Nat
      /\ key \in AllKeys /\ call[c].outcome \in Outcomes
      /\ (call[c].outcome = "summary" <=> key \in SummaryKeys)
      /\ OrdinalsOf(i, key) = {} /\ rows[c] = Entries(call[c], n)
      /\ len \in Nat /\ Ordinals(i) = 0..(n - 1) /\ DOMAIN rows[c] = n..(n + len - 1)
      /\ IsTranscript(new)
      /\ DOMAIN new = 0..(n + len - 1) /\ Cardinality(DOMAIN new) = n + len
      /\ \A o \in Ordinals(i) : new[o] = messages[i][o]
      /\ \A o \in DOMAIN rows[c] : new[o] = rows[c][o]
  BY <1>1, TranscriptExtended
<1> HIDE DEF new, n, len
<1>3. /\ messages' = [j \in Investigations |-> messages'[j]] /\ messages'[i] = new
      /\ \A j \in Investigations \ {i} : messages'[j] = messages[j]
  BY <1>2 DEF StoreGroup, IInv, TypeOK, new
<1>4. CallPart'
  <2>1. PICK reply, group :
         reply \in Replies /\ Reply(c, reply, group) /\ IsTranscript(group)
    <3>1. Reported(c) \in Replies
      BY DEF Reported, Replies
    <3> QED
      BY <3>1, CallFacts, NoRows DEF StoreGroup, Replies
  <2> DEFINE e == [call[c] EXCEPT !.pc = "done", !.reply = reply]
  <2>2. call[c] \in Call
    BY CallFacts
  <2>3. e \in Call /\ EntryWellFormed(e) /\ e.pc # "insert"
    BY <2>1, <2>2 DEF Call, EntryWellFormed, Replies
  <2>4. call' = [call EXCEPT ![c] = e] /\ rows' = [rows EXCEPT ![c] = group]
    BY <2>1 DEF Reply
  <2>5. writer = c
    BY <1>1 DEF IInv, WriterIsInside
  <2> HIDE DEF e
  <2> QED
    BY <1>1, <2>1, <2>3, <2>4, <2>5, CallMoves
<1>5. TypeOK'
  BY <1>1, <1>2, <1>3, <1>4 DEF IInv, TypeOK, CallPart
<1>6. CallsWellFormed' /\ WriterIsInside'
  BY <1>4 DEF CallPart
<1>7. WriterIsCurrent'
  BY <1>1, ConversationAssumption DEF WriterIsCurrent
<1>8. NoGapInTranscript'
  BY <1>2, <1>3 DEF IInv, NoGapInTranscript, Ordinals
<1>9. NoOrphanMessages'
  BY <1>1, <1>2, <1>3 DEF IInv, NoOrphanMessages
<1>10. GroupsAreWhole'
  <2> DEFINE Of(f, k) == {o \in DOMAIN f : f[o].key = k}
             Whole(f, o) == IF f[o].key \in Keys
                            THEN \E p \in {o, o - 1} :
                                   /\ Of(f, f[o].key) = {p, p + 1}
                                   /\ f[p].role = "user" /\ f[p + 1].role # "user"
                            ELSE Of(f, f[o].key) = {o} /\ f[o].role = "agent"
  <2>1. \A j \in Investigations : \A o \in DOMAIN messages[j] : Whole(messages[j], o)
    BY DEF IInv, GroupsAreWhole, OrdinalsOf, Ordinals
  <2>2. /\ \A o \in DOMAIN rows[c] : rows[c][o].key = key
        /\ call[c].outcome = "summary" => DOMAIN rows[c] = {n} /\ rows[c][n].role = "agent"
        /\ call[c].outcome # "summary" =>
             /\ DOMAIN rows[c] = {n, n + 1}
             /\ rows[c][n].role = "user" /\ rows[c][n + 1].role # "user"
    <3>1. call[c] \in Call
      BY CallFacts
    <3> HIDE DEF key
    <3>2. \A o \in DOMAIN Entries(call[c], n) : Entries(call[c], n)[o].key = call[c].key
      BY <1>2, <3>1, EntriesShape DEF key
    <3>3. call[c].outcome = "summary" =>
            /\ DOMAIN Entries(call[c], n) = {n} /\ Entries(call[c], n)[n].role = "agent"
      BY <1>2, <3>1, EntriesShape DEF key
    <3>4. call[c].outcome # "summary" =>
            /\ DOMAIN Entries(call[c], n) = {n, n + 1}
            /\ Entries(call[c], n)[n].role = "user" /\ Entries(call[c], n)[n + 1].role # "user"
      BY <1>2, <3>1, EntriesShape DEF key
    <3> QED
      BY <1>2, <3>2, <3>3, <3>4 DEF key
  <2>3. DOMAIN new = DOMAIN messages[i] \cup DOMAIN rows[c]
    BY DEF Merged, new
  <2>4. \A o \in DOMAIN messages[i] : new[o] = messages[i][o] /\ messages[i][o].key # key
    BY <1>2 DEF OrdinalsOf, Ordinals
  <2>5. ASSUME NEW o \in DOMAIN messages[i] PROVE Whole(new, o)
    <3> DEFINE k == messages[i][o].key
    <3>1. new[o].key = k /\ k # key
      BY <2>4
    <3>2. Of(new, k) = Of(messages[i], k)
      <4>1. \A p \in DOMAIN rows[c] : new[p].key # k
        BY <1>2, <2>2, <3>1
      <4>2. \A p \in DOMAIN messages[i] : new[p].key = messages[i][p].key
        BY <2>4
      <4> HIDE DEF k
      <4> QED
        BY <2>3, <4>1, <4>2
    <3>3. Whole(messages[i], o)
      BY <1>2, <2>1
    <3>4. CASE k \in Keys
      <4>1. PICK p \in {o, o - 1} :
              /\ Of(messages[i], k) = {p, p + 1}
              /\ messages[i][p].role = "user" /\ messages[i][p + 1].role # "user"
        BY <3>3, <3>4
      <4>2. p \in DOMAIN messages[i] /\ p + 1 \in DOMAIN messages[i]
        BY <4>1
      <4>3. new[p].role = "user" /\ new[p + 1].role # "user"
        BY <2>4, <4>1, <4>2
      <4> QED
        BY <3>1, <3>2, <3>4, <4>1, <4>3
    <3>5. CASE k \notin Keys
      BY <2>4, <3>1, <3>2, <3>3, <3>5
    <3> QED
      BY <3>4, <3>5
  <2>6. ASSUME NEW o \in DOMAIN rows[c] PROVE Whole(new, o)
    <3>1. new[o] = rows[c][o] /\ new[o].key = key
      BY <1>2, <2>2
    <3>2. Of(new, key) = DOMAIN rows[c]
      <4>1. \A p \in DOMAIN rows[c] : new[p].key = key
        BY <1>2, <2>2
      <4>2. \A p \in DOMAIN messages[i] : new[p].key # key
        BY <2>4
      <4> HIDE DEF key
      <4> QED
        BY <2>3, <4>1, <4>2
    <3>3. CASE call[c].outcome = "summary"
      <4>1. key \notin Keys
        BY <1>2, <3>3, ConversationAssumption
      <4> QED
        BY <1>2, <2>2, <3>1, <3>2, <3>3, <4>1
    <3>4. CASE call[c].outcome # "summary"
      <4>1. key \in Keys
        BY <1>2, <3>4 DEF AllKeys
      <4>2. new[n].role = "user" /\ new[n + 1].role # "user"
        BY <1>2, <2>2, <3>4
      <4>3. n \in {o, o - 1}
        BY <1>2, <2>2, <3>4
      <4>4. Of(new, key) = {n, n + 1}
        BY <2>2, <3>2, <3>4
      <4> QED
        BY <3>1, <4>1, <4>2, <4>3, <4>4
    <3> QED
      BY <3>3, <3>4
  <2>7. \A o \in DOMAIN new : Whole(new, o)
    BY <2>3, <2>5, <2>6
  <2>8. \A j \in Investigations : \A o \in DOMAIN messages'[j] : Whole(messages'[j], o)
    <3> HIDE DEF Whole
    <3> QED
      BY <1>3, <2>1, <2>7
  <2> QED
    BY <2>8 DEF GroupsAreWhole, OrdinalsOf, Ordinals
<1> QED
  BY <1>5, <1>6, <1>7, <1>8, <1>9, <1>10 DEF IInv

-----------------------------------------------------------------------------
(* What happens around the conversation *)

LEMMA PublishResultKeeps ==
  ASSUME IInv, NEW i \in Investigations, PublishResult(i)
  PROVE  IInv'
<1>1. current' \in [Investigations -> 0..LastDataset]
  BY ConversationAssumption DEF PublishResult, IInv, TypeOK
<1>2. UNCHANGED <<present, messages, call, rows, writer, agent>>
  BY DEF PublishResult
<1> QED
  BY <1>1, <1>2 DEF IInv, TypeOK, CallsWellFormed, WriterIsInside, WriterIsCurrent, ReadsHold,
     NoGapInTranscript, GroupsAreWhole, NoOrphanMessages, OrdinalsOf, Ordinals, At

LEMMA DeleteInvestigationKeeps ==
  ASSUME IInv, NEW i \in Investigations, DeleteInvestigation(i)
  PROVE  IInv'
<1>1. /\ present' \in [Investigations -> BOOLEAN] /\ ~present'[i]
      /\ \A j \in Investigations \ {i} : present'[j] = present[j]
      /\ UNCHANGED <<call, rows, writer, agent>>
  BY DEF DeleteInvestigation, IInv, TypeOK
<1>2. current' \in [Investigations -> 0..LastDataset]
  BY ConversationAssumption DEF DeleteInvestigation, IInv, TypeOK
<1>3. /\ messages' = [j \in Investigations |-> messages'[j]] /\ messages'[i] = <<>>
      /\ \A j \in Investigations \ {i} : messages'[j] = messages[j]
  BY DEF DeleteInvestigation, IInv, TypeOK
<1>4. TypeOK'
  BY <1>1, <1>2, <1>3, NoRows DEF IInv, TypeOK
<1>5. CallsWellFormed' /\ WriterIsInside'
  BY <1>1 DEF IInv, CallsWellFormed, WriterIsInside, At
<1>6. WriterIsCurrent'
  <2>1. ASSUME NEW c \in Calls, writer = c
        PROVE  ReadsHold(c)'
    <3>1. ReadsHold(c) /\ call[c].inv \in Investigations \ {i}
      BY <2>1, WriterFacts, ConversationAssumption
      DEF IInv, WriterIsInside, WriterIsCurrent, DeleteInvestigation, RowFree
    <3> QED
      BY <1>1, <1>3, <3>1 DEF ReadsHold, OrdinalsOf, Ordinals
  <2> QED
    BY <1>1, <2>1 DEF WriterIsCurrent
<1>7. DOMAIN messages'[i] = {}
  BY <1>3
<1>8. NoGapInTranscript'
  <2>1. Cardinality({}) = 0 /\ 0..(0 - 1) = {}
    BY FS_EmptySet
  <2> QED
    BY <1>3, <1>7, <2>1 DEF IInv, NoGapInTranscript, Ordinals
<1>9. GroupsAreWhole'
  BY <1>3, <1>7 DEF IInv, GroupsAreWhole, OrdinalsOf, Ordinals
<1>10. NoOrphanMessages'
  BY <1>1, <1>3 DEF IInv, NoOrphanMessages
<1> QED
  BY <1>4, <1>5, <1>6, <1>8, <1>9, <1>10 DEF IInv

LEMMA CrashKeeps ==
  ASSUME IInv, Crash
  PROVE  IInv'
<1>1. TypeOK'
  BY IdleIsTyped, NoRows DEF Crash, IInv, TypeOK
<1>2. CallsWellFormed' /\ WriterIsInside' /\ WriterIsCurrent'
  BY ConversationAssumption
  DEF Crash, CallsWellFormed, WriterIsInside, WriterIsCurrent, At, Idle
<1>3. NoGapInTranscript' /\ GroupsAreWhole' /\ NoOrphanMessages'
  BY DEF Crash, IInv, NoGapInTranscript, GroupsAreWhole, NoOrphanMessages, OrdinalsOf, Ordinals
<1> QED
  BY <1>1, <1>2, <1>3 DEF IInv

-----------------------------------------------------------------------------
(* Theorems *)

LEMMA InitHolds == Init => IInv
<1> SUFFICES ASSUME Init PROVE IInv
  OBVIOUS
<1>1. TypeOK
  BY IdleIsTyped, NoRows, ConversationAssumption DEF Init, TypeOK
<1>2. CallsWellFormed /\ WriterIsInside /\ WriterIsCurrent
  BY ConversationAssumption
  DEF Init, CallsWellFormed, WriterIsInside, WriterIsCurrent, At, Idle
<1>3. \A i \in Investigations : Ordinals(i) = {}
  BY DEF Init, Ordinals
<1>4. Cardinality({}) = 0 /\ 0..(0 - 1) = {}
  BY FS_EmptySet
<1>5. NoGapInTranscript
  BY <1>3, <1>4 DEF NoGapInTranscript
<1>6. GroupsAreWhole /\ NoOrphanMessages
  BY <1>3 DEF Init, GroupsAreWhole, NoOrphanMessages
<1> QED
  BY <1>1, <1>2, <1>5, <1>6 DEF IInv

LEMMA StutterKeeps == IInv /\ UNCHANGED vars => IInv'
BY DEF vars, IInv, TypeOK, CallsWellFormed, WriterIsInside, WriterIsCurrent, ReadsHold,
   NoGapInTranscript, GroupsAreWhole, NoOrphanMessages, OrdinalsOf, Ordinals, At

\* The inductive invariant holds whatever calls overlap, fail or are cut off.
THEOREM Invariance == Spec => []IInv
<1>1. ASSUME IInv, Next PROVE IInv'
  <2>1. ASSUME NEW c \in Calls, Arrival(c) \/ Progress(c) \/ StatementFails(c) \/ Delta(c)
        PROVE  IInv'
    <3>1. CASE Arrival(c)
      BY <1>1, <3>1, AskKeeps, AskSummaryKeeps DEF Arrival
    <3>2. CASE Progress(c)
      BY <1>1, <3>2, FindSummaryKeeps, ResolveScopeKeeps, AnswerKeeps, TurnFailsKeeps,
         OpenTransactionKeeps, StoreGroupKeeps, ReturnKeeps DEF Progress
    <3> QED
      BY <1>1, <2>1, <3>1, <3>2, StatementFailsKeeps, DeltaKeeps
  <2>2. ASSUME NEW i \in Investigations, PublishResult(i) \/ DeleteInvestigation(i)
        PROVE  IInv'
    BY <1>1, <2>2, PublishResultKeeps, DeleteInvestigationKeeps
  <2> QED
    BY <1>1, <2>1, <2>2, CrashKeeps DEF Next
<1>2. IInv /\ [Next]_vars => IInv'
  BY <1>1, StutterKeeps
<1> QED
  BY InitHolds, <1>2, PTL DEF Spec

\* Every variable keeps its type.
THEOREM TypeCorrect == Spec => []TypeOK
<1>1. IInv => TypeOK
  BY DEF IInv
<1> QED
  BY Invariance, <1>1, PTL

\* persistConversationGroup leaves no gap and no duplicate among the ordinals,
\* for any number of overlapping calls, keys and Investigations.
THEOREM TranscriptHasNoGap == Spec => []NoGapInTranscript
<1>1. IInv => NoGapInTranscript
  BY DEF IInv
<1> QED
  BY Invariance, <1>1, PTL

\* A stored question has exactly one stored outcome, right after it.
THEOREM QuestionsHaveOutcomes == Spec => []GroupsAreWhole
<1>1. IInv => GroupsAreWhole
  BY DEF IInv
<1> QED
  BY Invariance, <1>1, PTL

\* No call that is in progress can store a message for a deleted Investigation.
THEOREM DeletionLeavesNoMessages == Spec => []NoOrphanMessages
<1>1. IInv => NoOrphanMessages
  BY DEF IInv
<1> QED
  BY Invariance, <1>1, PTL

-----------------------------------------------------------------------------
(* The conversation implements a log *)

\* A commit appends the whole group under a key the log has not used.
LEMMA StoreGroupAppends ==
  ASSUME IInv, NEW c \in Calls, StoreGroup(c)
  PROVE  Log!AppendGroup(call[c].inv, call[c].key, Roles(call[c].outcome), call[c].about)
<1> DEFINE i == call[c].inv
           n == Cardinality(Ordinals(i))
           roles == Roles(call[c].outcome)
           new == Merged(messages[i], rows[c])
           ext == Log!Extended(i, n, call[c].key, roles, call[c].about)
<1>1. /\ present[i] /\ n \in Nat /\ call[c].outcome \in Outcomes
      /\ OrdinalsOf(i, call[c].key) = {} /\ rows[c] = Entries(call[c], n)
      /\ Len(roles) \in Nat /\ Ordinals(i) = 0..(n - 1)
      /\ DOMAIN rows[c] = n..(n + Len(roles) - 1)
      /\ IsTranscript(new) /\ DOMAIN new = 0..(n + Len(roles) - 1)
      /\ \A o \in Ordinals(i) : new[o] = messages[i][o]
      /\ \A o \in DOMAIN rows[c] : new[o] = rows[c][o]
  BY TranscriptExtended DEF StoreGroup
<1>2. n \in Log!Lengths(i)
  <2>1. Log!IsLength(i, n)
    BY <1>1 DEF Log!IsLength, Ordinals
  <2>2. n = 0 \/ n - 1 \in DOMAIN messages[i]
    BY <1>1 DEF Ordinals
  <2>3. n \in {0} \cup {o + 1 : o \in DOMAIN messages[i]}
    BY <1>1, <2>2
  <2> QED
    BY <2>1, <2>3 DEF Log!Lengths
<1>3. ext = [o \in 0..(n + Len(roles) - 1) |->
               IF o < n THEN messages[i][o]
               ELSE [key |-> call[c].key, role |-> roles[o - n + 1],
                     about |-> IF roles[o - n + 1] = "agent" THEN call[c].about ELSE 0]]
  BY DEF Log!Extended
<1>4. rows[c] = [o \in n..(n + Len(roles) - 1) |->
                   [key |-> call[c].key, role |-> roles[o - n + 1],
                    about |-> IF roles[o - n + 1] = "agent" THEN call[c].about ELSE 0]]
  BY <1>1 DEF Entries
<1>5. new = [o \in 0..(n + Len(roles) - 1) |-> new[o]]
  BY <1>1 DEF IsTranscript
<1> HIDE DEF new, roles, n
<1> HIDE DEF ext
<1>6. ASSUME NEW o \in 0..(n + Len(roles) - 1)
      PROVE  new[o] = ext[o]
  <2>1. CASE o < n
    <3>1. o \in Ordinals(i)
      BY <1>1, <2>1
    <3> QED
      BY <1>1, <1>3, <2>1, <3>1
  <2>2. CASE ~(o < n)
    <3>1. o \in n..(n + Len(roles) - 1)
      BY <1>1, <2>2
    <3>2. new[o] = rows[c][o]
      BY <1>1, <3>1
    <3> QED
      BY <1>3, <1>4, <2>2, <3>1, <3>2
  <2> QED
    BY <2>1, <2>2
<1>7. new = ext
  BY <1>3, <1>5, <1>6
<1>8. messages' = [messages EXCEPT ![i] = ext] /\ UNCHANGED present
  BY <1>7 DEF StoreGroup, new
<1>9. ~Log!Used(i, call[c].key)
  BY <1>1 DEF Log!Used, OrdinalsOf, Ordinals
<1> QED
  BY <1>1, <1>2, <1>8, <1>9 DEF Log!AppendGroup, ext, roles

\* Which the log allows.
LEMMA AppendIsAllowed ==
  ASSUME IInv, NEW c \in Calls, StoreGroup(c)
  PROVE  Log!Next
<1> DEFINE i == call[c].inv
           k == call[c].key
           about == call[c].about
<1>1. /\ call[c] \in Call /\ i \in Investigations /\ k \in AllKeys
      /\ call[c].outcome \in Outcomes
      /\ (call[c].outcome = "summary" <=> k \in SummaryKeys)
  BY WriterFacts DEF StoreGroup
<1>2. about \in 0..LastDataset
  BY <1>1 DEF Call
<1>3. Log!AppendGroup(i, k, Roles(call[c].outcome), about)
  BY StoreGroupAppends
<1>4. CASE call[c].outcome = "summary"
  <2>1. PICK d \in 1..LastDataset : k = <<"summary", d>>
    BY <1>1, <1>4 DEF SummaryKeys, SummaryKey
  <2>2. Log!AppendGroup(i, <<"summary", d>>, <<"agent">>, about)
    BY <1>3, <1>4, <2>1, RolesOf
  <2> QED
    BY <1>1, <1>2, <2>2 DEF Log!Next
<1>5. CASE call[c].outcome # "summary"
  <2>1. k \in Keys
    BY <1>1, <1>5 DEF AllKeys
  <2>2. \E outcome \in {"agent", "system"} : Roles(call[c].outcome) = <<"user", outcome>>
    BY <1>1, <1>5, RolesOf DEF Outcomes
  <2>3. PICK outcome \in {"agent", "system"} : Log!AppendGroup(i, k, <<"user", outcome>>, about)
    BY <1>3, <2>2
  <2> QED
    BY <1>1, <1>2, <2>1, <2>3 DEF Log!Next
<1> QED
  BY <1>4, <1>5

\* Each step of the handlers is a step of the log or leaves it as it is.
LEMMA StepRefines ==
  ASSUME IInv, [Next]_vars
  PROVE  [Log!Next]_(Log!logVars)
<1> USE DEF Log!logVars
<1>1. ASSUME NEW c \in Calls, Arrival(c) PROVE UNCHANGED <<present, messages>>
  BY <1>1 DEF Arrival, Ask, AskSummary
<1>2. ASSUME NEW c \in Calls, Progress(c), ~StoreGroup(c) PROVE UNCHANGED <<present, messages>>
  BY <1>2 DEF Progress, FindSummary, ResolveScope, Answer, TurnFails, OpenTransaction, Return
<1>3. ASSUME NEW c \in Calls, StatementFails(c) \/ Delta(c)
      PROVE  UNCHANGED <<present, messages>>
  BY <1>3 DEF StatementFails, Delta
<1>4. ASSUME NEW i \in Investigations, PublishResult(i) PROVE UNCHANGED <<present, messages>>
  BY <1>4 DEF PublishResult
<1>5. ASSUME NEW i \in Investigations, DeleteInvestigation(i) PROVE Log!Next
  <2>1. Log!Delete(i)
    BY <1>5 DEF DeleteInvestigation, Log!Delete
  <2> QED
    BY <2>1 DEF Log!Next
<1>6. ASSUME Crash PROVE UNCHANGED <<present, messages>>
  BY <1>6 DEF Crash
<1>7. ASSUME UNCHANGED vars PROVE UNCHANGED <<present, messages>>
  BY <1>7 DEF vars
<1> QED
  BY <1>1, <1>2, <1>3, <1>4, <1>5, <1>6, <1>7, AppendIsAllowed DEF Next

\* The handlers, with every interleaving and failure, implement a log that only
\* grows by whole groups under fresh keys and is only lost with its Investigation.
THEOREM Refinement == Spec => ImplementsLog
<1>1. Init => Log!Init
  BY DEF Init, Log!Init
<1>2. IInv /\ [Next]_vars => [Log!Next]_(Log!logVars)
  BY StepRefines
<1> QED
  BY Invariance, <1>1, <1>2, PTL DEF Spec, ImplementsLog, Log!Spec

-----------------------------------------------------------------------------
(* What a client is told *)

LEMMA GroupDomain ==
  ASSUME NEW i, NEW k
  PROVE  /\ DOMAIN GroupOf(i, k) = OrdinalsOf(i, k)
         /\ \A o \in OrdinalsOf(i, k) : GroupOf(i, k)[o] = messages[i][o]
         /\ GroupOf(i, k) # <<>> <=> OrdinalsOf(i, k) # {}
<1>1. DOMAIN <<>> = {}
  OBVIOUS
<1>2. GroupOf(i, k) = [o \in OrdinalsOf(i, k) |-> messages[i][o]]
  BY DEF GroupOf
<1>3. OrdinalsOf(i, k) = {} => GroupOf(i, k) = <<>>
  BY <1>2
<1> QED
  BY <1>1, <1>2, <1>3

\* A stored group has a system row just when it has the roles of an unavailable answer.
LEMMA MatchedRoles ==
  ASSUME IInv, NEW i \in Investigations, NEW k \in AllKeys, NEW outcome \in Outcomes,
         outcome = "summary" <=> k \in SummaryKeys,
         OrdinalsOf(i, k) # {}, MatchesEntryRoles(i, k, Roles(outcome))
  PROVE  outcome = "unavailable" <=> \E o \in OrdinalsOf(i, k) : messages[i][o].role = "system"
<1>1. PICK o \in OrdinalsOf(i, k) : TRUE
  OBVIOUS
<1>2. o \in Ordinals(i) /\ messages[i][o].key = k
  BY <1>1 DEF OrdinalsOf
<1>3. CASE outcome = "summary"
  <2>1. k \notin Keys
    BY <1>3, ConversationAssumption
  <2>2. OrdinalsOf(i, k) = {o} /\ messages[i][o].role = "agent"
    BY <1>2, <2>1 DEF IInv, GroupsAreWhole
  <2> QED
    BY <1>3, <2>2
<1>4. CASE outcome # "summary"
  <2>1. k \in Keys
    BY <1>4 DEF AllKeys
  <2>2. PICK p \in {o, o - 1} :
          OrdinalsOf(i, k) = {p, p + 1} /\ messages[i][p].role = "user"
    BY <1>2, <2>1 DEF IInv, GroupsAreWhole
  <2>3. p \in Nat
    <3>1. OrdinalsOf(i, k) \subseteq Nat
      BY DEF IInv, TypeOK, IsTranscript, OrdinalsOf, Ordinals
    <3> QED
      BY <2>2, <3>1
  <2>4. {q \in OrdinalsOf(i, k) : q < p + 1} = {p}
    BY <2>2, <2>3
  <2>5. Cardinality({p}) = 1
    BY FS_Singleton
  <2>6. messages[i][p + 1].role = Roles(outcome)[2]
    <3>1. p + 1 \in OrdinalsOf(i, k)
      BY <2>2
    <3>2. messages[i][p + 1].role =
            Roles(outcome)[Cardinality({q \in OrdinalsOf(i, k) : q < p + 1}) + 1]
      BY <3>1 DEF MatchesEntryRoles
    <3> QED
      BY <2>4, <2>5, <3>2
  <2>7. Roles(outcome)[2] = "system" <=> outcome = "unavailable"
    BY <1>4, RolesOf DEF Outcomes
  <2> QED
    BY <2>2, <2>6, <2>7
<1> QED
  BY <1>3, <1>4

\* The rows a call writes have a system row just when it reports unavailable.
LEMMA EntryRoles ==
  ASSUME NEW e \in Call, NEW n \in Nat, e.outcome \in Outcomes, e.key \in AllKeys
  PROVE  /\ e.outcome = "unavailable" <=>
              \E o \in DOMAIN Entries(e, n) : Entries(e, n)[o].role = "system"
         /\ DOMAIN Entries(e, n) # {}
<1> DEFINE roles == Roles(e.outcome)
           D == n..(n + Len(roles) - 1)
<1>1. /\ DOMAIN Entries(e, n) = D
      /\ \A o \in D : Entries(e, n)[o].role = roles[o - n + 1]
  BY DEF Entries
<1>2. CASE e.outcome = "summary"
  <2>1. DOMAIN Entries(e, n) = {n} /\ Entries(e, n)[n].role = "agent"
    BY <1>2, EntriesShape
  <2> QED
    BY <1>2, <2>1
<1>3. CASE e.outcome # "summary"
  <2>1. DOMAIN Entries(e, n) = {n, n + 1} /\ Entries(e, n)[n].role = "user"
    BY <1>3, EntriesShape
  <2>2. Entries(e, n)[n + 1].role = roles[2]
    <3> HIDE DEF roles, D
    <3>1. n + 1 \in D
      BY <1>1, <2>1
    <3>2. n + 1 - n + 1 = 2
      OBVIOUS
    <3> QED
      BY <1>1, <3>1, <3>2
  <2>3. roles[2] = "system" <=> e.outcome = "unavailable"
    BY <1>3, RolesOf DEF Outcomes
  <2> HIDE DEF roles
  <2> QED
    BY <2>1, <2>2, <2>3
<1> QED
  BY <1>2, <1>3

\* A reply changes its own call, and of it only where it is and what it holds.
LEMMA ReplyFields ==
  ASSUME IInv, NEW c \in Calls, NEW reply, NEW group, Reply(c, reply, group)
  PROVE  /\ call'[c].pc = "done" /\ call'[c].reply = reply /\ rows'[c] = group
         /\ call'[c].inv = call[c].inv /\ call'[c].key = call[c].key
         /\ call'[c].outcome = call[c].outcome
BY DEF Reply, IInv, TypeOK, Call

\* The commit of a group: its rows are the stored group of its key, and those of
\* the other keys are what they were.
LEMMA StoredGroup ==
  ASSUME IInv, NEW c \in Calls, StoreGroup(c), NEW i \in Investigations, NEW k
  PROVE  IF i = call[c].inv /\ k = call[c].key
         THEN GroupOf(i, k)' = rows[c]
         ELSE GroupOf(i, k)' = GroupOf(i, k) /\ OrdinalsOf(i, k)' = OrdinalsOf(i, k)
<1> DEFINE new == Merged(messages[call[c].inv], rows[c])
<1>1. At(c, "insert") /\ messages' = [messages EXCEPT ![call[c].inv] = new]
  BY DEF StoreGroup
<1>2. CASE i # call[c].inv
  <2>1. messages'[i] = messages[i]
    BY <1>1, <1>2 DEF IInv, TypeOK
  <2> QED
    BY <1>2, <2>1 DEF GroupOf, OrdinalsOf, Ordinals
<1>3. CASE i = call[c].inv
  <2> DEFINE n == Cardinality(Ordinals(i))
  <2>1. /\ n \in Nat /\ call[c].key \in AllKeys /\ call[c].outcome \in Outcomes
        /\ OrdinalsOf(i, call[c].key) = {} /\ rows[c] = Entries(call[c], n)
        /\ \A o \in Ordinals(i) : new[o] = messages[i][o]
        /\ \A o \in DOMAIN rows[c] : new[o] = rows[c][o]
    BY <1>1, <1>3, TranscriptExtended
  <2>2. messages'[i] = new /\ DOMAIN new = Ordinals(i) \cup DOMAIN rows[c]
    BY <1>1, <1>3 DEF IInv, TypeOK, Merged, Ordinals
  <2>3. /\ \A o \in DOMAIN rows[c] : rows[c][o].key = call[c].key
        /\ rows[c] = [o \in DOMAIN rows[c] |-> rows[c][o]]
    <3>1. call[c] \in Call
      BY CallFacts
    <3>2. \A o \in DOMAIN Entries(call[c], n) : Entries(call[c], n)[o].key = call[c].key
      BY <2>1, <3>1, EntriesShape
    <3> QED
      BY <2>1, <3>2, CallFacts DEF IsTranscript
  <2>4. \A o \in Ordinals(i) : messages[i][o].key # call[c].key
    BY <2>1 DEF OrdinalsOf
  <2> HIDE DEF new, n
  <2>5. OrdinalsOf(i, k)' = IF k = call[c].key THEN DOMAIN rows[c] ELSE OrdinalsOf(i, k)
    <3>1. OrdinalsOf(i, k)' = {o \in Ordinals(i) \cup DOMAIN rows[c] : new[o].key = k}
      BY <2>2 DEF OrdinalsOf, Ordinals
    <3>2. CASE k = call[c].key
      <4>1. \A o \in DOMAIN rows[c] : new[o].key = k
        BY <2>1, <2>3, <3>2
      <4>2. \A o \in Ordinals(i) : new[o].key # k
        BY <2>1, <2>4, <3>2
      <4> QED
        BY <3>1, <3>2, <4>1, <4>2
    <3>3. CASE k # call[c].key
      <4>1. {o \in Ordinals(i) \cup DOMAIN rows[c] : new[o].key = k} =
              {o \in Ordinals(i) : messages[i][o].key = k}
        BY <2>1, <2>3, <3>3
      <4> QED
        BY <3>1, <3>3, <4>1 DEF OrdinalsOf
    <3> QED
      BY <3>2, <3>3
  <2>6. CASE k = call[c].key
    <3>1. GroupOf(i, k)' = [o \in DOMAIN rows[c] |-> new[o]]
      BY <2>2, <2>5, <2>6 DEF GroupOf
    <3>2. [o \in DOMAIN rows[c] |-> new[o]] = [o \in DOMAIN rows[c] |-> rows[c][o]]
      BY <2>1
    <3> QED
      BY <1>3, <2>3, <2>6, <3>1, <3>2
  <2>7. CASE k # call[c].key
    <3>1. GroupOf(i, k)' = [o \in OrdinalsOf(i, k) |-> new[o]]
      BY <2>2, <2>5, <2>7 DEF GroupOf
    <3>2. [o \in OrdinalsOf(i, k) |-> new[o]] = [o \in OrdinalsOf(i, k) |-> messages[i][o]]
      BY <2>1 DEF OrdinalsOf
    <3> QED
      BY <2>5, <2>7, <3>1, <3>2 DEF GroupOf
  <2> QED
    BY <2>6, <2>7
<1> QED
  BY <1>2, <1>3

\* While an Investigation exists a group that is stored stays what it is.
LEMMA StoredKept ==
  ASSUME IInv, [Next]_vars, NEW i \in Investigations, present'[i], NEW k
  PROVE  /\ present[i]
         /\ OrdinalsOf(i, k) # {} =>
              GroupOf(i, k)' = GroupOf(i, k) /\ OrdinalsOf(i, k)' = OrdinalsOf(i, k)
<1>1. CASE UNCHANGED <<present, messages>>
  BY <1>1 DEF GroupOf, OrdinalsOf, Ordinals
<1>2. ASSUME NEW c \in Calls, StoreGroup(c)
      PROVE  /\ present[i]
             /\ OrdinalsOf(i, k) # {} =>
                  GroupOf(i, k)' = GroupOf(i, k) /\ OrdinalsOf(i, k)' = OrdinalsOf(i, k)
  <2>1. At(c, "insert") /\ present' = present
    BY <1>2 DEF StoreGroup
  <2>2. OrdinalsOf(call[c].inv, call[c].key) = {}
    BY <2>1, TranscriptExtended
  <2> QED
    BY <1>2, <2>1, <2>2, StoredGroup
<1>3. ASSUME NEW j \in Investigations, DeleteInvestigation(j)
      PROVE  present[i] /\ messages'[i] = messages[i]
  BY <1>3 DEF DeleteInvestigation, IInv, TypeOK
<1>4. ASSUME NEW c \in Calls, Arrival(c) \/ StatementFails(c) \/ Delta(c)
      PROVE  UNCHANGED <<present, messages>>
  BY <1>4 DEF Arrival, Ask, AskSummary, StatementFails, Delta
<1>5. ASSUME NEW c \in Calls, Progress(c), ~StoreGroup(c) PROVE UNCHANGED <<present, messages>>
  BY <1>5 DEF Progress, FindSummary, ResolveScope, Answer, TurnFails, OpenTransaction, Return
<1>6. ASSUME messages'[i] = messages[i]
      PROVE  GroupOf(i, k)' = GroupOf(i, k) /\ OrdinalsOf(i, k)' = OrdinalsOf(i, k)
  BY <1>6 DEF GroupOf, OrdinalsOf, Ordinals
<1> QED
  BY <1>1, <1>2, <1>3, <1>4, <1>5, <1>6 DEF Next, PublishResult, Crash, vars

\* What a client was told is stored, and with which outcome.
ToldStored(c) ==
  LET i == call[c].inv IN
  /\ i \in Investigations
  /\ present[i] =>
       /\ rows[c] = GroupOf(i, call[c].key) /\ rows[c] # <<>>
       /\ call[c].reply = "unavailable" <=>
            \E o \in DOMAIN rows[c] : rows[c][o].role = "system"

HadCause(c) ==
  /\ call[c].inv \in Investigations
  /\ ~present[call[c].inv] \/ OfAnotherOutcome(c)

ReplyHolds(c) ==
  /\ At(c, "lookup") => call[c].key \in SummaryKeys
  /\ At(c, "done") /\ call[c].reply \in {"answered", "unavailable"} => ToldStored(c)
  /\ At(c, "done") /\ call[c].reply = "internal" => HadCause(c)

\* A group that stays as it is stays another than the one a call would write.
LEMMA AnotherOutcomeKept ==
  ASSUME NEW c \in Calls, NEW i, NEW k, i = call[c].inv, k = call[c].key,
         OfAnotherOutcome(c), call'[c].inv = i, call'[c].key = k,
         call'[c].outcome = call[c].outcome,
         GroupOf(i, k)' = GroupOf(i, k), OrdinalsOf(i, k)' = OrdinalsOf(i, k)
  PROVE  OfAnotherOutcome(c)'
<1> DEFINE S == OrdinalsOf(i, k)
           roles == Roles(call[c].outcome)
<1>1. \A o \in S : messages'[i][o] = messages[i][o]
  <2>1. \A o \in S : GroupOf(i, k)[o] = messages[i][o]
    BY DEF GroupOf
  <2>2. \A o \in OrdinalsOf(i, k)' : GroupOf(i, k)'[o] = messages'[i][o]
    BY DEF GroupOf
  <2> QED
    BY <2>1, <2>2
<1>2. S # {} /\ ~MatchesEntryRoles(i, k, roles)
  BY DEF OfAnotherOutcome
<1>3. OrdinalsOf(i, k)' = S /\ Roles(call'[c].outcome) = roles
  OBVIOUS
<1>4. MatchesEntryRoles(i, k, roles)' <=> MatchesEntryRoles(i, k, roles)
  <2>1. MatchesEntryRoles(i, k, roles) <=>
          /\ Cardinality(S) = Len(roles)
          /\ \A o \in S : messages[i][o].role = roles[Cardinality({p \in S : p < o}) + 1]
    BY DEF MatchesEntryRoles
  <2>2. MatchesEntryRoles(i, k, roles)' <=>
          /\ Cardinality(S) = Len(roles)
          /\ \A o \in S : messages'[i][o].role = roles[Cardinality({p \in S : p < o}) + 1]
    BY <1>3 DEF MatchesEntryRoles
  <2> QED
    BY <1>1, <2>1, <2>2
<1> QED
  BY <1>2, <1>3, <1>4 DEF OfAnotherOutcome

LEMMA UnmovedCall ==
  ASSUME IInv, [Next]_vars, NEW c \in Calls, ReplyHolds(c),
         call'[c] = call[c], rows'[c] = rows[c]
  PROVE  ReplyHolds(c)'
<1>1. ASSUME ToldStored(c) PROVE ToldStored(c)'
  <2>1. PICK i \in Investigations, k \in {call[c].key} : i = call[c].inv
    BY <1>1 DEF ToldStored
  <2>2. i = call'[c].inv /\ k = call'[c].key
    BY <2>1
  <2>3. CASE present'[i]
    <3>1. present[i]
      BY <2>3, StoredKept
    <3>2. /\ rows[c] = GroupOf(i, k) /\ rows[c] # <<>>
          /\ call[c].reply = "unavailable" <=>
               \E o \in DOMAIN rows[c] : rows[c][o].role = "system"
      BY <1>1, <2>1, <3>1 DEF ToldStored
    <3>3. GroupOf(i, k)' = GroupOf(i, k)
      BY <2>3, <3>2, GroupDomain, StoredKept
    <3> QED
      BY <2>2, <3>2, <3>3 DEF ToldStored
  <2>4. CASE ~present'[i]
    BY <2>2, <2>4 DEF ToldStored
  <2> QED
    BY <2>3, <2>4
<1>2. ASSUME HadCause(c) PROVE HadCause(c)'
  <2>1. PICK i \in Investigations, k \in {call[c].key} : i = call[c].inv
    BY <1>2 DEF HadCause
  <2>2. i = call'[c].inv /\ k = call'[c].key
    BY <2>1
  <2>3. CASE present'[i]
    <3>1. present[i] /\ OfAnotherOutcome(c)
      BY <1>2, <2>1, <2>3, StoredKept DEF HadCause
    <3>2. OrdinalsOf(i, k) # {} /\ GroupOf(i, k) # <<>>
      BY <2>1, <3>1, GroupDomain DEF OfAnotherOutcome
    <3>3. GroupOf(i, k)' = GroupOf(i, k) /\ OrdinalsOf(i, k)' = OrdinalsOf(i, k)
      BY <2>3, <3>2, GroupDomain, StoredKept
    <3>4. OfAnotherOutcome(c)'
      BY <2>1, <3>1, <3>2, <3>3, AnotherOutcomeKept
    <3> QED
      BY <2>1, <3>4 DEF HadCause
  <2>4. CASE ~present'[i]
    BY <2>1, <2>2, <2>4 DEF HadCause
  <2> QED
    BY <2>3, <2>4
<1> QED
  BY <1>1, <1>2 DEF ReplyHolds, At

\* A call that stops short of a lookup or a reply has told nobody anything.
LEMMA SilentCall ==
  ASSUME NEW c \in Calls, call'[c].pc \notin {"lookup", "done"}
  PROVE  ReplyHolds(c)'
BY DEF ReplyHolds, At

\* Nor does a reply without a claim about the conversation.
LEMMA PlainReply ==
  ASSUME IInv, NEW c \in Calls, NEW reply, NEW group, Reply(c, reply, group),
         reply \notin {"answered", "unavailable", "internal"}
  PROVE  ReplyHolds(c)'
BY ReplyFields DEF ReplyHolds, At

\* A call whose Investigation is gone.
LEMMA NotFoundReply ==
  ASSUME IInv, NEW c \in Calls, call[c].inv \in Investigations, ~present[call[c].inv],
         ReplyNotFound(c), present' = present
  PROVE  ReplyHolds(c)'
<1>1. PICK reply \in {"internal", "not_found"} : Reply(c, reply, <<>>)
  BY DEF ReplyNotFound
<1>2. /\ call'[c].pc = "done" /\ call'[c].reply = reply
      /\ call'[c].inv = call[c].inv
  BY <1>1, ReplyFields
<1> QED
  BY <1>2 DEF ReplyHolds, HadCause, At

\* A call that finds the group of its key stored.
LEMMA FoundReply ==
  ASSUME IInv, NEW c \in Calls, NEW i \in Investigations, NEW k,
         i = call[c].inv, k = call[c].key, UNCHANGED messages,
         NEW reply \in {"answered", "unavailable"}, GroupOf(i, k) # <<>>,
         Reply(c, reply, GroupOf(i, k)),
         reply = "unavailable" <=> \E o \in OrdinalsOf(i, k) : messages[i][o].role = "system"
  PROVE  ReplyHolds(c)'
<1>1. /\ call'[c].pc = "done" /\ call'[c].reply = reply
      /\ call'[c].inv = i /\ call'[c].key = k /\ rows'[c] = GroupOf(i, k)
  BY ReplyFields
<1>2. GroupOf(i, k)' = GroupOf(i, k)
  BY DEF GroupOf, OrdinalsOf, Ordinals
<1>3. (\E o \in DOMAIN rows'[c] : rows'[c][o].role = "system") <=>
        \E o \in OrdinalsOf(i, k) : messages[i][o].role = "system"
  BY <1>1, GroupDomain
<1>4. ToldStored(c)'
  BY <1>1, <1>2, <1>3 DEF ToldStored
<1> QED
  BY <1>1, <1>4 DEF ReplyHolds, At

LEMMA FindSummaryTells ==
  ASSUME IInv, NEW c \in Calls, ReplyHolds(c), FindSummary(c)
  PROVE  ReplyHolds(c)'
<1>1. PICK i \in Investigations, k \in {call[c].key} : i = call[c].inv
  BY CallFacts DEF FindSummary, At, EntryWellFormed
<1>2. k \in SummaryKeys /\ UNCHANGED <<messages, present>>
  BY <1>1 DEF FindSummary, ReplyHolds
<1>3. CASE ~present[i]
  BY <1>1, <1>2, <1>3, NotFoundReply DEF FindSummary
<1>4. CASE present[i] /\ GroupOf(i, k) # <<>>
  <2>1. Reply(c, "answered", GroupOf(i, k))
    BY <1>1, <1>4 DEF FindSummary
  <2>2. \A o \in OrdinalsOf(i, k) : messages[i][o].role = "agent"
    BY <1>2, ConversationAssumption DEF IInv, GroupsAreWhole, OrdinalsOf
  <2> QED
    BY <1>1, <1>2, <1>4, <2>1, <2>2, FoundReply
<1>5. CASE present[i] /\ GroupOf(i, k) = <<>>
  <2>1. call' = [call EXCEPT ![c].pc = "respond"]
    BY <1>1, <1>5 DEF FindSummary, GoTo
  <2>2. call'[c].pc = "respond"
    BY <2>1 DEF IInv, TypeOK, Call
  <2> QED
    BY <2>2, SilentCall
<1> QED
  BY <1>3, <1>4, <1>5

LEMMA OpenTransactionTells ==
  ASSUME IInv, NEW c \in Calls, OpenTransaction(c)
  PROVE  ReplyHolds(c)'
<1>1. /\ call[c].inv \in Investigations /\ call[c].key \in AllKeys
      /\ call[c].outcome \in Outcomes
      /\ call[c].outcome = "summary" <=> call[c].key \in SummaryKeys
  BY WriterFacts DEF OpenTransaction
<1>2. PICK i \in Investigations, k \in AllKeys, outcome \in Outcomes :
        i = call[c].inv /\ k = call[c].key /\ outcome = call[c].outcome
  BY <1>1
<1>3. UNCHANGED <<messages, present>> /\ (outcome = "summary" <=> k \in SummaryKeys)
  BY <1>1, <1>2 DEF OpenTransaction
<1>4. CASE ~present[i]
  BY <1>2, <1>3, <1>4, NotFoundReply DEF OpenTransaction
<1>5. CASE present[i] /\ GroupOf(i, k) = <<>>
  <2>1. call' = [call EXCEPT ![c].pc = "insert"]
    BY <1>2, <1>5 DEF OpenTransaction, BeginGroup
  <2>2. call'[c].pc = "insert"
    BY <2>1 DEF IInv, TypeOK, Call
  <2> QED
    BY <2>2, SilentCall
<1>6. CASE present[i] /\ GroupOf(i, k) # <<>> /\ MatchesEntryRoles(i, k, Roles(outcome))
  <2>1. Reply(c, Reported(c), GroupOf(i, k))
    BY <1>2, <1>6 DEF OpenTransaction
  <2>2. /\ Reported(c) \in {"answered", "unavailable"}
        /\ Reported(c) = "unavailable" <=> outcome = "unavailable"
    BY <1>2 DEF Reported
  <2>3. outcome = "unavailable" <=> \E o \in OrdinalsOf(i, k) : messages[i][o].role = "system"
    BY <1>3, <1>6, GroupDomain, MatchedRoles
  <2> QED
    BY <1>2, <1>3, <1>6, <2>1, <2>2, <2>3, FoundReply
<1>7. CASE present[i] /\ GroupOf(i, k) # <<>> /\ ~MatchesEntryRoles(i, k, Roles(outcome))
  <2>1. Reply(c, "internal", <<>>)
    BY <1>2, <1>7 DEF OpenTransaction
  <2>2. /\ call'[c].pc = "done" /\ call'[c].reply = "internal" /\ call'[c].inv = i
        /\ call'[c].key = k /\ call'[c].outcome = call[c].outcome
    BY <1>2, <2>1, ReplyFields
  <2>3. OrdinalsOf(i, k)' = OrdinalsOf(i, k) /\ GroupOf(i, k)' = GroupOf(i, k)
    BY <1>3 DEF OrdinalsOf, Ordinals, GroupOf
  <2>4. OfAnotherOutcome(c)
    BY <1>2, <1>7, GroupDomain DEF OfAnotherOutcome
  <2>5. OfAnotherOutcome(c)'
    BY <1>2, <2>2, <2>3, <2>4, AnotherOutcomeKept
  <2> QED
    BY <2>2, <2>5 DEF ReplyHolds, HadCause, At
<1> QED
  BY <1>4, <1>5, <1>6, <1>7

LEMMA StoreGroupTells ==
  ASSUME IInv, NEW c \in Calls, StoreGroup(c)
  PROVE  ReplyHolds(c)'
<1>1. PICK i \in Investigations, k \in AllKeys, n \in Nat :
        /\ i = call[c].inv /\ k = call[c].key /\ rows[c] = Entries(call[c], n)
        /\ call[c] \in Call /\ call[c].outcome \in Outcomes
  BY TranscriptExtended, CallFacts DEF StoreGroup
<1>2. CASE Reply(c, Reported(c), rows[c])
  <2>1. /\ call'[c].pc = "done" /\ call'[c].inv = i /\ call'[c].key = k
        /\ call'[c].reply = Reported(c) /\ rows'[c] = rows[c]
    BY <1>1, <1>2, ReplyFields
  <2>2. GroupOf(i, k)' = rows[c]
    BY <1>1, StoredGroup
  <2>3. Reported(c) \in {"answered", "unavailable"}
    BY DEF Reported
  <2>4. /\ DOMAIN rows[c] # {}
        /\ Reported(c) = "unavailable" <=> \E o \in DOMAIN rows[c] : rows[c][o].role = "system"
    BY <1>1, EntryRoles DEF Reported
  <2>5. rows[c] # <<>>
    BY <2>4
  <2>6. ToldStored(c)'
    BY <2>1, <2>2, <2>4, <2>5 DEF ToldStored
  <2> QED
    BY <2>1, <2>3, <2>6 DEF ReplyHolds, At
<1>3. CASE Reply(c, "db_error", <<>>)
  BY <1>3, PlainReply
<1> QED
  BY <1>2, <1>3 DEF StoreGroup

\* No unique index refuses a row: the writer appends a fresh key at the end.
LEMMA WriterInserts ==
  ASSUME IInv, NEW c \in Calls, At(c, "insert")
  PROVE  Insertable(call[c].inv, rows[c])
<1> DEFINE i == call[c].inv
           n == Cardinality(Ordinals(i))
           len == Len(Roles(call[c].outcome))
<1>1. /\ OrdinalsOf(i, call[c].key) = {} /\ rows[c] = Entries(call[c], n)
      /\ n \in Nat /\ len \in Nat /\ Ordinals(i) = 0..(n - 1) /\ DOMAIN rows[c] = n..(n + len - 1)
      /\ call[c].key \in AllKeys /\ call[c].outcome \in Outcomes /\ call[c] \in Call
  BY TranscriptExtended, CallFacts
<1>2. \A o \in DOMAIN rows[c] : rows[c][o].key = call[c].key
  <2>1. \A o \in DOMAIN Entries(call[c], n) : Entries(call[c], n)[o].key = call[c].key
    BY <1>1, EntriesShape
  <2> QED
    BY <1>1, <2>1
<1>3. \A o \in Ordinals(i) : messages[i][o].key # call[c].key
  BY <1>1 DEF OrdinalsOf
<1> HIDE DEF n, len
<1>4. Ordinals(i) \cap DOMAIN rows[c] = {}
  BY <1>1
<1> QED
  BY <1>2, <1>3, <1>4 DEF Insertable

RepliesHold == \A c \in Calls : ReplyHolds(c)

\* Every action of a call: what it says of its own reply.
LEMMA MovedCall ==
  ASSUME IInv, NEW c \in Calls, ReplyHolds(c),
         Arrival(c) \/ Progress(c) \/ StatementFails(c) \/ Delta(c)
  PROVE  ReplyHolds(c)'
<1>1. call \in [Calls -> Call] /\ call[c] \in Call
  BY DEF IInv, TypeOK
<1>2. ASSUME NEW op \in {"submit", "stream"}, NEW i \in Investigations, NEW k \in Keys,
             Ask(c, op, i, k)
      PROVE  ReplyHolds(c)'
  <2>1. call'[c].pc \in {"store", "respond"} \/ call'[c].reply = "not_found"
    BY <1>1, <1>2 DEF Ask, Idle
  <2>2. call'[c].pc # "lookup"
    BY <1>1, <1>2 DEF Ask, Idle
  <2> QED
    BY <2>1, <2>2 DEF ReplyHolds, At
<1>3. ASSUME NEW i \in Investigations, AskSummary(c, i) PROVE ReplyHolds(c)'
  <2>1. call'[c].pc = "lookup" /\ call'[c].key = SummaryKey(current[i])
    BY <1>1, <1>3 DEF AskSummary, Idle
  <2>2. current[i] \in 1..LastDataset
    BY <1>3, ConversationAssumption DEF AskSummary, IInv, TypeOK
  <2> QED
    BY <2>1, <2>2 DEF ReplyHolds, At, SummaryKeys
<1>4. CASE ResolveScope(c)
  <2>1. CASE ReplyNotFound(c) /\ ~present[call[c].inv]
    BY <1>4, <2>1, CallFacts, NotFoundReply DEF ResolveScope, At, EntryWellFormed
  <2>2. CASE call'[c].pc = "turn"
    BY <2>2, SilentCall
  <2> QED
    BY <1>1, <1>4, <2>1, <2>2 DEF ResolveScope, Call
<1>5. CASE Answer(c) \/ Delta(c)
  <2>1. call'[c].pc \in {"store", "turn"}
    BY <1>1, <1>5 DEF Answer, Delta, At, Call
  <2> QED
    BY <2>1, SilentCall
<1>6. CASE TurnFails(c)
  <2>1. Reply(c, "no_summary", <<>>) \/ call'[c].pc = "store"
    BY <1>1, <1>6 DEF TurnFails, Call
  <2> QED
    BY <2>1, PlainReply, SilentCall
<1>7. CASE StatementFails(c)
  BY <1>7, PlainReply, WriterInserts DEF StatementFails
<1>8. CASE Return(c)
  <2>1. call'[c].pc = "idle"
    BY <1>1, <1>8 DEF Return, Idle
  <2> QED
    BY <2>1, SilentCall
<1> QED
  BY <1>2, <1>3, <1>4, <1>5, <1>6, <1>7, <1>8, FindSummaryTells, OpenTransactionTells,
     StoreGroupTells DEF Arrival, Progress

\* An action of one call leaves the others where they are.
LEMMA OtherCalls ==
  ASSUME IInv, NEW c \in Calls, NEW d \in Calls, d # c,
         Arrival(c) \/ Progress(c) \/ StatementFails(c) \/ Delta(c)
  PROVE  call'[d] = call[d] /\ rows'[d] = rows[d]
<1> USE DEF IInv, TypeOK
<1>1. CASE Arrival(c) \/ Delta(c)
  BY <1>1 DEF Arrival, Ask, AskSummary, Delta
<1>2. CASE StatementFails(c) \/ Return(c)
  BY <1>2 DEF StatementFails, Return, Reply
<1>3. CASE FindSummary(c) \/ ResolveScope(c) \/ Answer(c) \/ TurnFails(c)
  BY <1>3 DEF FindSummary, ResolveScope, Answer, TurnFails, ReplyNotFound, Reply, GoTo
<1>4. CASE OpenTransaction(c) \/ StoreGroup(c)
  BY <1>4 DEF OpenTransaction, StoreGroup, BeginGroup, ReplyNotFound, Reply
<1> QED
  BY <1>1, <1>2, <1>3, <1>4 DEF Progress

LEMMA RepliesHoldNext == IInv /\ RepliesHold /\ [Next]_vars => RepliesHold'
<1> SUFFICES ASSUME IInv, RepliesHold, [Next]_vars, NEW d \in Calls PROVE ReplyHolds(d)'
  BY DEF RepliesHold
<1>0. ReplyHolds(d)
  BY DEF RepliesHold
<1>1. ASSUME NEW c \in Calls, Arrival(c) \/ Progress(c) \/ StatementFails(c) \/ Delta(c)
      PROVE  ReplyHolds(d)'
  <2>1. CASE c = d
    BY <1>0, <1>1, <2>1, MovedCall
  <2>2. CASE c # d
    BY <1>0, <1>1, <2>2, OtherCalls, UnmovedCall
  <2> QED
    BY <2>1, <2>2
<1>2. CASE UNCHANGED <<call, rows>>
  BY <1>0, <1>2, UnmovedCall
<1>3. CASE Crash
  <2>1. call'[d].pc = "idle"
    BY <1>3 DEF Crash, Idle
  <2> QED
    BY <2>1, SilentCall
<1> QED
  BY <1>1, <1>2, <1>3 DEF Next, PublishResult, DeleteInvestigation, vars

LEMMA RepliesAlwaysHold == Spec => [](IInv /\ RepliesHold)
<1>1. Init => RepliesHold
  BY DEF Init, RepliesHold, ReplyHolds, At, Idle
<1> QED
  BY Invariance, RepliesHoldNext, <1>1, PTL DEF Spec

\* What a client is told was stored is stored, with the outcome it is told, as long
\* as the Investigation exists (persistConversationGroup and FindConversationGroup).
THEOREM RepliesTellTheTruth == Spec => []ReplyTellsStored
<1>1. IInv /\ RepliesHold => ReplyTellsStored
  BY DEF RepliesHold, ReplyHolds, ToldStored, ReplyTellsStored
<1> QED
  BY RepliesAlwaysHold, <1>1, PTL

\* An internal error that is not a failing statement tells of a stored group whose
\* roles are those of another outcome than the call's, or of an Investigation that is
\* gone: no unique index ever refuses a group (persistConversationGroup).
THEOREM InternalErrorsAreExplained == Spec => []InternalErrorHasCause
<1>1. IInv /\ RepliesHold => InternalErrorHasCause
  BY DEF RepliesHold, ReplyHolds, HadCause, InternalErrorHasCause
<1> QED
  BY RepliesAlwaysHold, <1>1, PTL
=============================================================================
