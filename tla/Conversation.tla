---------------------------- MODULE Conversation ----------------------------
(***************************************************************************)
(* The conversation of an Investigation: the messages of model/            *)
(* conversation.go and the handlers of controller/conversation.go and      *)
(* controller/agent.go that write them.                                    *)
(*                                                                         *)
(* A call asks a question, plainly or streamed, or asks for the summary    *)
(* of the current Analysis Dataset.  The Agent answers between the reads   *)
(* of a call and its transaction, so calls overlap; the transaction runs   *)
(* under conversationWriteMu and holds the row of its Investigation.  A    *)
(* client may repeat a request under the same key at any time, whether or  *)
(* not it saw the first answer.                                            *)
(***************************************************************************)
EXTENDS Integers, Sequences, FiniteSetsExt

CONSTANTS
  Investigations,  \* Investigation identifiers
  Keys,            \* idempotency keys of questions; their number bounds a conversation
  LastDataset,     \* Datasets of an Investigation are numbered 1..LastDataset
  Calls,           \* call slots: how many handlers run at once
  Faults,          \* the failures this instance admits
  None

FaultKinds ==
  {"crash",        \* the process dies and a new one takes its place
   "db_error",     \* a statement fails and its transaction rolls back
   "commit_lost"}  \* a transaction commits but its caller sees an error

SummaryKey(d) == <<"summary", d>>
SummaryKeys == {SummaryKey(d) : d \in 1..LastDataset}
AllKeys == Keys \cup SummaryKeys

\* A browser draws the keys of its questions at random: they are never summary keys.
ASSUME ConversationAssumption ==
  /\ LastDataset \in Nat
  /\ Faults \subseteq FaultKinds
  /\ None \notin Investigations \cup Calls \cup AllKeys
  /\ Keys \cap SummaryKeys = {}

VARIABLES
  present,   \* [Investigations -> whether its row exists]
  current,   \* [Investigations -> its current Dataset, 0 for none]
  messages,  \* [Investigations -> ordinal -> Message]
  call,      \* [Calls -> Call]
  rows,      \* [Calls -> the messages a call is writing, or replies with, by ordinal]
  writer,    \* the call that holds conversationWriteMu and its row, or None
  agent      \* whether this process has an Agent provider

vars == <<present, current, messages, call, rows, writer, agent>>

Idle == [op |-> "none", pc |-> "idle", inv |-> None, key |-> None, about |-> 0,
         outcome |-> "none", started |-> FALSE, reply |-> "none"]

Init ==
  /\ present  = [i \in Investigations |-> TRUE]
  /\ current  = [i \in Investigations |-> 0]
  /\ messages = [i \in Investigations |-> <<>>]
  /\ call     = [c \in Calls |-> Idle]
  /\ rows     = [c \in Calls |-> <<>>]
  /\ writer   = None
  /\ agent \in BOOLEAN

-----------------------------------------------------------------------------
(* The stored conversation *)

\* Mutant: a role the table does not know.
RolesWithErrorRole(outcome) ==
  CASE outcome = "answer"      -> <<"user", "agent">>
    [] outcome = "unavailable" -> <<"user", "error">>
    [] outcome = "summary"     -> <<"agent">>

\* The roles of the group that an outcome is stored as.
Roles(outcome) ==
  CASE outcome = "answer"      -> <<"user", "agent">>
    [] outcome = "unavailable" -> <<"user", "system">>
    [] outcome = "summary"     -> <<"agent">>

Message == [key : AllKeys, role : {"user", "agent", "system"}, about : 0..LastDataset]

Ordinals(i) == DOMAIN messages[i]

\* The ordinals of the rows under a key, and the rows.
OrdinalsOf(i, k) == {o \in Ordinals(i) : messages[i][o].key = k}
GroupOf(i, k) == [o \in OrdinalsOf(i, k) |-> messages[i][o]]

\* Mutant: a MAX over no row is taken for the ordinal 0.
NextOrdinalOfNull(i) == IF Ordinals(i) = {} THEN 1 ELSE Max(Ordinals(i)) + 1

\* nextConversationOrdinal: one more than MAX(ordinal).
NextOrdinal(i) == IF Ordinals(i) = {} THEN 0 ELSE Max(Ordinals(i)) + 1

\* The stored rows of a key have, in order, the roles the caller would write.
MatchesEntryRoles(i, k, roles) ==
  LET S == OrdinalsOf(i, k) IN
  /\ Cardinality(S) = Len(roles)
  /\ \A o \in S : messages[i][o].role = roles[Cardinality({p \in S : p < o}) + 1]

\* The rows a call e appends from an ordinal on.
Entries(e, first) ==
  LET roles == Roles(e.outcome) IN
  [o \in first..(first + Len(roles) - 1) |->
     [key |-> e.key, role |-> roles[o - first + 1],
      about |-> IF roles[o - first + 1] = "agent" THEN e.about ELSE 0]]

\* The unique indexes (investigation, ordinal) and (investigation, key, role).
Insertable(i, new) ==
  /\ Ordinals(i) \cap DOMAIN new = {}
  /\ \A o \in Ordinals(i), p \in DOMAIN new :
       messages[i][o].key = new[p].key => messages[i][o].role # new[p].role

Merged(f, g) == [o \in DOMAIN f \cup DOMAIN g |-> IF o \in DOMAIN f THEN f[o] ELSE g[o]]

-----------------------------------------------------------------------------
(* Calls *)

At(c, pc) == call[c].pc = pc
GoTo(c, pc) == call' = [call EXCEPT ![c].pc = pc] /\ UNCHANGED rows

\* The handler answers its client, with the messages of the group or without.
Reply(c, reply, group) ==
  /\ call' = [call EXCEPT ![c].pc = "done", ![c].reply = reply]
  /\ rows' = [rows EXCEPT ![c] = group]

\* A lookup that finds no row is a 404, unless the answer has begun to stream:
\* then it can only be an error frame.
ReplyNotFound(c) == Reply(c, IF call[c].started THEN "internal" ELSE "not_found", <<>>)

\* What a stored group is reported as.
Reported(c) == IF call[c].outcome = "unavailable" THEN "unavailable" ELSE "answered"

\* SubmitConversation and SubmitConversationStream: with an Agent the recent
\* history is loaded, without one the question is stored as unavailable.
Ask(c, op, i, k) ==
  /\ At(c, "idle")
  /\ call' = [call EXCEPT ![c] =
       LET asked == [Idle EXCEPT !.op = op, !.inv = i, !.key = k] IN
       IF ~agent THEN [asked EXCEPT !.pc = "store", !.outcome = "unavailable"]
       ELSE IF present[i] THEN [asked EXCEPT !.pc = "respond"]
       ELSE [asked EXCEPT !.pc = "done", !.reply = "not_found"]]
  /\ UNCHANGED <<present, current, messages, rows, writer, agent>>

\* GenerateSummary reads the current result, whose Dataset is the key; without an
\* Agent or a result it refuses at once.
AskSummary(c, i) ==
  /\ At(c, "idle") /\ agent /\ present[i] /\ current[i] # 0
  /\ call' = [call EXCEPT ![c] = [Idle EXCEPT !.op = "summary", !.inv = i, !.pc = "lookup",
                                              !.key = SummaryKey(current[i])]]
  /\ UNCHANGED <<present, current, messages, rows, writer, agent>>

\* FindConversationGroup: a summary that is already stored is returned.
FindSummary(c) ==
  LET i == call[c].inv
      group == GroupOf(i, call[c].key)
  IN
  /\ At(c, "lookup")
  /\ IF ~present[i] THEN ReplyNotFound(c)
     ELSE IF group # <<>> THEN Reply(c, "answered", group)
     ELSE GoTo(c, "respond")
  /\ UNCHANGED <<present, current, messages, writer, agent>>

\* Respond resolves its scope, and with it the Dataset it will speak about.
ResolveScope(c) ==
  LET i == call[c].inv IN
  /\ At(c, "respond")
  /\ IF ~present[i] THEN ReplyNotFound(c)
     ELSE /\ call' = [call EXCEPT ![c].pc = "turn", ![c].about = current[i]]
          /\ UNCHANGED rows
  /\ UNCHANGED <<present, current, messages, writer, agent>>

\* The first delta of a streamed answer goes out.
Delta(c) ==
  /\ At(c, "turn") /\ call[c].op = "stream" /\ ~call[c].started
  /\ call' = [call EXCEPT ![c].started = TRUE]
  /\ UNCHANGED <<present, current, messages, rows, writer, agent>>

Answer(c) ==
  /\ At(c, "turn")
  /\ call' = [call EXCEPT ![c].pc = "store",
                ![c].outcome = IF call[c].op = "summary" THEN "summary" ELSE "answer"]
  /\ UNCHANGED <<present, current, messages, rows, writer, agent>>

\* Mutant: a turn that fails is reported, but the question is not stored.
TurnFailsSilently(c) ==
  /\ \/ At(c, "turn")
     \/ At(c, "respond") /\ "db_error" \in Faults
  /\ Reply(c, "unavailable", <<>>)
  /\ UNCHANGED <<present, current, messages, writer, agent>>

\* The Agent fails, times out or its client has gone, or the scope could not be
\* read: a question is stored as unavailable, a summary is not stored at all.
TurnFails(c) ==
  /\ \/ At(c, "turn")
     \/ At(c, "respond") /\ "db_error" \in Faults
  /\ IF call[c].op = "summary"
     THEN Reply(c, "no_summary", <<>>)
     ELSE /\ call' = [call EXCEPT ![c].pc = "store", ![c].outcome = "unavailable"]
          /\ UNCHANGED rows
  /\ UNCHANGED <<present, current, messages, writer, agent>>

\* The group of the key is not stored yet: prepare its rows under the mutex.
BeginGroup(c) ==
  /\ writer' = c
  /\ call' = [call EXCEPT ![c].pc = "insert"]
  /\ rows' = [rows EXCEPT ![c] = Entries(call[c], NextOrdinal(call[c].inv))]

\* Mutant: the mutex is not taken.
OpenTransactionUnlocked(c) ==
  LET i == call[c].inv
      group == GroupOf(i, call[c].key)
  IN
  /\ At(c, "store")
  /\ IF ~present[i] THEN ReplyNotFound(c) /\ UNCHANGED writer
     ELSE IF group = <<>> THEN BeginGroup(c)
     ELSE /\ IF MatchesEntryRoles(i, call[c].key, Roles(call[c].outcome))
             THEN Reply(c, Reported(c), group)
             ELSE Reply(c, "internal", <<>>)
          /\ UNCHANGED writer
  /\ UNCHANGED <<present, current, messages, agent>>

\* Mutant: a group of other roles is replaced instead of refused.
OpenTransactionReplacing(c) ==
  LET i == call[c].inv
      group == GroupOf(i, call[c].key)
  IN
  /\ At(c, "store") /\ writer = None
  /\ IF ~present[i] THEN ReplyNotFound(c) /\ UNCHANGED <<messages, writer>>
     ELSE IF MatchesEntryRoles(i, call[c].key, Roles(call[c].outcome))
     THEN Reply(c, Reported(c), group) /\ UNCHANGED <<messages, writer>>
     ELSE /\ BeginGroup(c)
          /\ messages' = [messages EXCEPT ![i] = [o \in DOMAIN @ \ DOMAIN group |-> @[o]]]
  /\ UNCHANGED <<present, current, agent>>

\* persistConversationGroup up to its first insert: under the mutex the row of
\* the Investigation is locked and the group of the key is read.  A group that
\* is there is returned, if it has the roles the caller would have written.
OpenTransaction(c) ==
  LET i == call[c].inv
      group == GroupOf(i, call[c].key)
  IN
  /\ At(c, "store") /\ writer = None
  /\ IF ~present[i] THEN ReplyNotFound(c) /\ UNCHANGED writer
     ELSE IF group = <<>> THEN BeginGroup(c)
     ELSE /\ IF MatchesEntryRoles(i, call[c].key, Roles(call[c].outcome))
             THEN Reply(c, Reported(c), group)
             ELSE Reply(c, "internal", <<>>)
          /\ UNCHANGED writer
  /\ UNCHANGED <<present, current, messages, agent>>

\* Mutant: the rows are not written in one transaction.
StoreGroupPartly(c) ==
  LET i == call[c].inv IN
  /\ At(c, "insert") /\ Insertable(i, rows[c])
  /\ \/ /\ messages' = [messages EXCEPT ![i] = Merged(@, rows[c])]
        /\ Reply(c, Reported(c), rows[c])
     \/ /\ "commit_lost" \in Faults
        /\ messages' = [messages EXCEPT ![i] =
                          Merged(@, [o \in {NextOrdinal(i)} |-> rows[c][o]])]
        /\ Reply(c, "db_error", <<>>)
  /\ writer' = None
  /\ UNCHANGED <<present, current, agent>>

\* Mutant: the mutex is not released.
StoreGroupKeepingMutex(c) ==
  LET i == call[c].inv IN
  /\ At(c, "insert") /\ Insertable(i, rows[c])
  /\ messages' = [messages EXCEPT ![i] = Merged(@, rows[c])]
  /\ Reply(c, Reported(c), rows[c])
  /\ UNCHANGED <<present, current, writer, agent>>

\* appendConversationEntries and the commit: the group is written whole.
StoreGroup(c) ==
  LET i == call[c].inv IN
  /\ At(c, "insert") /\ Insertable(i, rows[c])
  /\ messages' = [messages EXCEPT ![i] = Merged(@, rows[c])]
  /\ \/ Reply(c, Reported(c), rows[c])
     \/ "commit_lost" \in Faults /\ Reply(c, "db_error", <<>>)
  /\ writer' = None
  /\ UNCHANGED <<present, current, agent>>

\* A statement fails, or a unique index refuses a row: nothing is written.  The
\* client sees the same status; the two are told apart here for the properties.
StatementFails(c) ==
  /\ \/ /\ "db_error" \in Faults
        /\ At(c, "lookup") \/ At(c, "insert") \/ (At(c, "store") /\ writer = None)
        /\ Reply(c, "db_error", <<>>)
     \/ /\ At(c, "insert") /\ ~Insertable(call[c].inv, rows[c])
        /\ Reply(c, "internal", <<>>)
  /\ writer' = IF writer = c THEN None ELSE writer
  /\ UNCHANGED <<present, current, messages, agent>>

\* The client has the reply, or has gone; the slot is free for another call.
Return(c) ==
  /\ At(c, "done")
  /\ call' = [call EXCEPT ![c] = Idle]
  /\ rows' = [rows EXCEPT ![c] = <<>>]
  /\ UNCHANGED <<present, current, messages, writer, agent>>

-----------------------------------------------------------------------------
(* What happens around the conversation *)

\* No transaction holds the row of the Investigation.
RowFree(i) == writer # None => call[writer].inv # i

\* A run publishes: when it gets the row, its Dataset becomes the current one.
PublishResult(i) ==
  /\ present[i] /\ RowFree(i) /\ current[i] < LastDataset
  /\ current' = [current EXCEPT ![i] = @ + 1]
  /\ UNCHANGED <<present, messages, call, rows, writer, agent>>

\* Mutant: the messages outlive their Investigation.
DeleteRowOnly(i) ==
  /\ present[i] /\ RowFree(i)
  /\ present' = [present EXCEPT ![i] = FALSE]
  /\ current' = [current EXCEPT ![i] = 0]
  /\ UNCHANGED <<messages, call, rows, writer, agent>>

\* DELETE /investigations/:id waits for the row and takes the messages with it.
DeleteInvestigation(i) ==
  /\ present[i] /\ RowFree(i)
  /\ present' = [present EXCEPT ![i] = FALSE]
  /\ current' = [current EXCEPT ![i] = 0]
  /\ messages' = [messages EXCEPT ![i] = <<>>]
  /\ UNCHANGED <<call, rows, writer, agent>>

\* The process dies and another takes its place, perhaps configured differently.
Crash ==
  /\ "crash" \in Faults
  /\ call' = [c \in Calls |-> Idle]
  /\ rows' = [c \in Calls |-> <<>>]
  /\ writer' = None
  /\ agent' \in BOOLEAN
  /\ UNCHANGED <<present, current, messages>>

Progress(c) ==
  \/ FindSummary(c) \/ ResolveScope(c) \/ Answer(c) \/ TurnFails(c)
  \/ OpenTransaction(c) \/ StoreGroup(c) \/ Return(c)

Arrival(c) ==
  \/ \E op \in {"submit", "stream"}, i \in Investigations, k \in Keys : Ask(c, op, i, k)
  \/ \E i \in Investigations : AskSummary(c, i)

Next ==
  \/ \E c \in Calls : Arrival(c) \/ Progress(c) \/ StatementFails(c) \/ Delta(c)
  \/ \E i \in Investigations : PublishResult(i) \/ DeleteInvestigation(i)
  \/ Crash

Spec == Init /\ [][Next]_vars

\* A turn has a timeout and a statement returns, so a call that has begun moves
\* on; no failure is needed for that.  sync.Mutex hands itself over to a goroutine that has waited for long:
\* whoever finds it free again and again gets it.
Fairness == \A c \in Calls : WF_vars(Progress(c)) /\ SF_vars(OpenTransaction(c))

FairSpec == Spec /\ Fairness
-----------------------------------------------------------------------------
(* Correctness *)

Call ==
  [op : {"none", "submit", "stream", "summary"},
   pc : {"idle", "lookup", "respond", "turn", "store", "insert", "done"},
   inv : Investigations \cup {None}, key : AllKeys \cup {None}, about : 0..LastDataset,
   outcome : {"none", "answer", "unavailable", "summary"}, started : BOOLEAN,
   reply : {"none", "answered", "unavailable", "no_summary", "not_found", "internal",
            "db_error"}]

\* Some messages by their ordinal.
IsTranscript(f) ==
  /\ f = [o \in DOMAIN f |-> f[o]]
  /\ IsFiniteSet(DOMAIN f) /\ DOMAIN f \subseteq Nat
  /\ \A o \in DOMAIN f : f[o] \in Message

\* The values every variable may take.
TypeOK ==
  /\ present \in [Investigations -> BOOLEAN]
  /\ current \in [Investigations -> 0..LastDataset]
  /\ messages = [i \in Investigations |-> messages[i]]
  /\ \A i \in Investigations : IsTranscript(messages[i])
  /\ call \in [Calls -> Call]
  /\ rows = [c \in Calls |-> rows[c]]
  /\ \A c \in Calls : IsTranscript(rows[c])
  /\ writer \in Calls \cup {None}
  /\ agent \in BOOLEAN

\* "... concurrent commands have a stable ordering" (issues/09): the ordinals of a
\* conversation are 0, 1, 2 and so on, whatever overlaps or fails.
NoGapInTranscript ==
  \A i \in Investigations : Ordinals(i) = 0..(Cardinality(Ordinals(i)) - 1)

\* A question is never stored without its outcome, nor an outcome twice: the rows
\* of a key are one whole group, one after the other.
GroupsAreWhole ==
  \A i \in Investigations : \A o \in Ordinals(i) :
    LET k == messages[i][o].key IN
    IF k \in Keys
    THEN \E p \in {o, o - 1} :
           /\ OrdinalsOf(i, k) = {p, p + 1}
           /\ messages[i][p].role = "user" /\ messages[i][p + 1].role # "user"
    ELSE OrdinalsOf(i, k) = {o} /\ messages[i][o].role = "agent"

\* What a client is told was stored is stored, for as long as the Investigation.
\* "The question is never silently dropped" (controller/conversation.go:344).
ReplyTellsStored ==
  \A c \in Calls :
    LET i == call[c].inv IN
    At(c, "done") /\ call[c].reply \in {"answered", "unavailable"} /\ present[i] =>
      /\ rows[c] = GroupOf(i, call[c].key) /\ rows[c] # <<>>
      /\ call[c].reply = "unavailable" <=>
           \E o \in DOMAIN rows[c] : rows[c][o].role = "system"

\* A deleted Investigation has no conversation, even if calls were in progress.
NoOrphanMessages == \A i \in Investigations : ~present[i] => messages[i] = <<>>

\* The key of a call names a stored group that is not the one it would write.
OfAnotherOutcome(c) ==
  LET i == call[c].inv
      k == call[c].key
  IN  OrdinalsOf(i, k) # {} /\ ~MatchesEntryRoles(i, k, Roles(call[c].outcome))

\* Unless a statement fails, a client meets an internal error only if its key
\* names a group with the roles of another outcome, or its Investigation went
\* during the stream.  A second write of the same group is never refused: it waits
\* for conversationWriteMu, finds the group and returns it.
InternalErrorHasCause ==
  \A c \in Calls :
    At(c, "done") /\ call[c].reply = "internal" =>
      ~present[call[c].inv] \/ OfAnotherOutcome(c)

\* "Replaying the same idempotency key returns the stored group untouched"
\* (model/conversation.go:82): a key that is stored is never an error.
ReplayReturnsGroup ==
  \A c \in Calls :
    At(c, "done") /\ call[c].reply = "internal" =>
      OrdinalsOf(call[c].inv, call[c].key) = {}

\* A summary's key is scoped "to the dataset it describes" (controller/agent.go:15).
SummaryDescribesItsDataset ==
  \A i \in Investigations : \A o \in Ordinals(i) : \A d \in 1..LastDataset :
    messages[i][o].key = SummaryKey(d) => messages[i][o].about = d

\* Every call ends, however many wait for the mutex.
EveryCallReturns == \A c \in Calls : ~At(c, "idle") ~> At(c, "idle")

\* A conversation only grows, by whole groups under fresh keys at its end.
Log == INSTANCE ConversationLog WITH log <- messages
ImplementsLog == Log!Spec
-----------------------------------------------------------------------------
(* The inductive invariant behind the safety properties *)

\* What a call has in hand when it resumes: a summary is stored under a summary
\* key and a question under a key of its own.
CallsWellFormed ==
  \A c \in Calls :
    /\ call[c].pc \notin {"idle", "done"} =>
         call[c].inv \in Investigations /\ call[c].key \in AllKeys
    /\ call[c].pc \in {"lookup", "respond", "turn"} =>
         (call[c].op = "summary" <=> call[c].key \in SummaryKeys)
    /\ call[c].pc \in {"store", "insert"} =>
         /\ call[c].outcome # "none"
         /\ call[c].outcome = "summary" <=> call[c].key \in SummaryKeys

\* The mutex: the one call inside its transaction is the writer.
WriterIsInside == \A c \in Calls : At(c, "insert") <=> writer = c

\* What the writer has read is still so: its Investigation exists, its key is
\* unused, and its rows continue the transcript.
ReadsHold(c) ==
  LET i == call[c].inv IN
  /\ present[i] /\ OrdinalsOf(i, call[c].key) = {}
  /\ rows[c] = Entries(call[c], Cardinality(Ordinals(i)))

WriterIsCurrent == \A c \in Calls : writer = c => ReadsHold(c)

IInv ==
  /\ TypeOK /\ CallsWellFormed /\ WriterIsInside /\ WriterIsCurrent
  /\ NoGapInTranscript /\ GroupsAreWhole /\ NoOrphanMessages
=============================================================================
