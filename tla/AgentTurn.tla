------------------------------ MODULE AgentTurn ------------------------------
(***************************************************************************)
(* Agent turns: the tool loop of the backend (agentclient/provider.go),    *)
(* the tools it executes (tools.go) and the sessions of the sidecar        *)
(* (agent/session.py, turn.py), over a network that may lose a request or  *)
(* deliver it after its turn has given up.                                 *)
(*                                                                         *)
(* The sidecar keeps one session per Investigation; a request that it has  *)
(* begun goes on with the session it took, even after the store has lost   *)
(* or replaced it.  Respond and RespondStream follow the same steps.       *)
(***************************************************************************)
EXTENDS Integers, Sequences, FiniteSets, SequencesExt

CONSTANTS
    Investigations,
    MaxToolCalls,       \* rounds of tool calls per turn (AGENT_MAX_TOOL_CALLS)
    MaxSessions,        \* sessions the sidecar holds (SESSION_MAX)
    LastDataset,        \* bound: Datasets published of each Investigation
    LastTurn            \* bound: turns, numbered as they begin

AgentTurnAssumption ==
    /\ MaxToolCalls \in Nat \ {0} /\ MaxSessions \in Nat \ {0}
    /\ LastDataset \in [Investigations -> Nat] /\ LastTurn \in Nat
ASSUME AgentTurnAssumption

Turns == 1..LastTurn

VARIABLES
    current,    \* the current Dataset of each Investigation, 0 before the first
    held,       \* sessions in the sidecar's store, least recently used first
    session,    \* what each session holds
    wire,       \* the request of each turn that is on its way
    leg,        \* the request of each turn the sidecar works on
    turn        \* the backend's side of each turn

vars == <<current, held, session, wire, leg, turn>>

\* A session is known by the turn that opened it and a number.
Sessions == Turns \X (1..(MaxToolCalls + 1))

\* Messages that make up a conversation with the model.
Opening(t)       == [kind |-> "opening", by |-> t, round |-> 0, dataset |-> {}]
Calls(t, k)      == [kind |-> "calls", by |-> t, round |-> k, dataset |-> {}]
Results(t, k, D) == [kind |-> "results", by |-> t, round |-> k, dataset |-> D]

Nothing   == [kind |-> "none", dataset |-> 0, round |-> 0, results |-> {}]
NoLeg     == [on |-> <<>>, round |-> 0, given |-> <<>>]
IdleTurn  == [step |-> "idle", of |-> "none", dataset |-> 0, round |-> 0, opened |-> 0, alone |-> TRUE]
Active    == {"waiting", "tools"}
Steps     == Active \cup {"idle", "ended"}

\* The turns at work on an Investigation: in the backend, on the network or in
\* the sidecar.
AtWork(i) ==
    {u \in Turns : /\ turn[u].of = i
                   /\ turn[u].step \in Active \/ wire[u] # Nothing \/ leg[u] # NoLeg}

----------------------------------------------------------------------------
(***************************************************************************)
(* The backend.                                                            *)
(***************************************************************************)
Publish(i) ==
    /\ current[i] < LastDataset[i]
    /\ current' = [current EXCEPT ![i] = @ + 1]
    /\ UNCHANGED <<held, session, wire, leg, turn>>

Open(d, k) == [kind |-> "open", dataset |-> d, round |-> k, results |-> {}]

\* A turn that has answered or failed.
Ended(t) == [turn[t] EXCEPT !.step = "ended", !.round = 0, !.alone = FALSE]

\* resolveScope, evidenceFor and the opening request.  The Dataset of the scope
\* stays that of the turn; no Dataset yet is number 0, a session key as well.
Begin(t, i) ==
    /\ turn[t].step = "idle" /\ \A u \in 1..(t - 1) : turn[u].step # "idle"
    /\ turn' = [u \in Turns |->
                  IF u = t
                    THEN [step |-> "waiting", of |-> i, dataset |-> current[i], round |-> 0,
                          opened |-> 0, alone |-> AtWork(i) = {}]
                    ELSE [turn[u] EXCEPT !.alone = @ /\ u \notin AtWork(i)]]
    /\ wire' = [wire EXCEPT ![t] = Open(current[i], 0)]
    /\ UNCHANGED <<current, held, session, leg>>

\* Which Dataset a tool's answer shows; none if it refuses.  The view of the
\* scope is in memory; a page of the graph is loaded, if its Dataset is current.
ReadView(t) == {turn[t].dataset} \ {0}

\* Mutant: the page of whatever Dataset is current.
ExpandCurrent(t) == IF turn[t].dataset = 0 THEN {} ELSE {current[turn[t].of]}

Expand(t) ==
    IF turn[t].dataset = 0 \/ current[turn[t].of] # turn[t].dataset THEN {}
    ELSE {current[turn[t].of]}

\* One round: every call of the reply is executed, then continueTurn.  The
\* results stand for all that the tools may show.
RunTools(t) ==
    /\ turn[t].step = "tools"
    /\ turn[t].round < MaxToolCalls
    /\ wire' = [wire EXCEPT ![t] =
                  [kind |-> "resume", dataset |-> turn[t].dataset,
                   round |-> turn[t].round + 1, results |-> ReadView(t) \cup Expand(t)]]
    /\ turn' = [turn EXCEPT ![t].step = "waiting", ![t].round = @ + 1]
    /\ UNCHANGED <<current, held, session, leg>>

\* The rounds are used up, or the deadline passed while tools ran: what text
\* there is is the answer, and none is an error.
LeaveLoop(t) ==
    /\ turn[t].step = "tools"
    /\ turn' = [turn EXCEPT ![t] = Ended(t)]
    /\ UNCHANGED <<current, held, session, wire, leg>>

\* The deadline of the turn or of the request: the call returns an error,
\* whatever the network and the sidecar go on to do with the request.
TimeOut(t) ==
    /\ turn[t].step = "waiting"
    /\ turn' = [turn EXCEPT ![t] = Ended(t)]
    /\ UNCHANGED <<current, held, session, wire, leg>>

\* A request that is no longer waited for may also get lost.
Lose(t) ==
    /\ turn[t].step \notin Active /\ wire[t] # Nothing
    /\ wire' = [wire EXCEPT ![t] = Nothing]
    /\ UNCHANGED <<current, held, session, leg, turn>>

----------------------------------------------------------------------------
(***************************************************************************)
(* The sidecar.                                                            *)
(***************************************************************************)
\* What there is of sessions: those in the store and in a request's hands.
Keep(content) ==
    session' = [s \in ToSet(held') \cup ({leg'[t].on : t \in Turns} \ {<<>>}) |-> content[s]]

\* The sessions of the store, without the one of an Investigation.
Without(store, i) ==
    LET places == {k \in DOMAIN store : turn[store[k][1]].of = i}
    IN  IF places = {} THEN store ELSE RemoveAt(store, CHOOSE k \in places : TRUE)

\* Mutant: one session too many.
EvictedLate(store) == SubSeq(store, Max({1, Len(store) - MaxSessions}), Len(store))

\* _evict: the least recently used go until the store is within its limit.
Evicted(store) == SubSeq(store, Max({1, Len(store) - MaxSessions + 1}), Len(store))

\* _open: a new session, in place of the one the Investigation had.
ReceiveOpening(t) ==
    LET s == <<t, turn[t].opened + 1>> IN
    /\ wire[t].kind = "open"
    /\ held' = Evicted(Append(Without(held, turn[t].of), s))
    /\ leg' = [leg EXCEPT ![t] = [on |-> s, round |-> wire[t].round, given |-> <<Opening(t)>>]]
    /\ Keep([r \in DOMAIN session \cup {s} |->
               IF r = s THEN [dataset |-> wire[t].dataset, pending |-> <<Opening(t)>>]
               ELSE session[r]])
    /\ turn' = [turn EXCEPT ![t].opened = @ + 1]
    /\ wire' = [wire EXCEPT ![t] = Nothing]
    /\ UNCHANGED current

\* Mutant: a session is taken whatever Dataset it was opened on.
MatchingInvestigation(t) == {s \in ToSet(held) : turn[s[1]].of = turn[t].of}

\* SessionStore.get: the session of the Investigation, on the Dataset asked for.
Matching(t) ==
    {s \in ToSet(held) : /\ turn[s[1]].of = turn[t].of
                         /\ session[s].dataset = wire[t].dataset}

\* Mutant: the session is used as it is found, without the results.
ResumeUnextended(t) ==
    /\ wire[t].kind = "resume"
    /\ \E s \in Matching(t) :
          /\ leg' = [leg EXCEPT ![t] = [on |-> s, round |-> wire[t].round, given |-> session[s].pending]]
          /\ held' = Append(Without(held, turn[t].of), s)
    /\ wire' = [wire EXCEPT ![t] = Nothing]
    /\ UNCHANGED <<current, session, turn>>

\* _resume: the results are added to the messages the model is given.
Resume(t) ==
    /\ wire[t].kind = "resume"
    /\ \E s \in Matching(t) :
          LET extended == Append(session[s].pending, Results(t, wire[t].round, wire[t].results)) IN
          /\ held' = Append(Without(held, turn[t].of), s)
          /\ leg' = [leg EXCEPT ![t] = [on |-> s, round |-> wire[t].round, given |-> extended]]
          /\ Keep([session EXCEPT ![s].pending = extended])
    /\ wire' = [wire EXCEPT ![t] = Nothing]
    /\ UNCHANGED <<current, turn>>

\* Mutant: the results are sent again, not the opening.
SessionExpiredResent(t) ==
    /\ wire[t].kind = "resume" /\ Matching(t) = {}
    /\ held' = Without(held, turn[t].of)
    /\ UNCHANGED <<current, session, wire, leg, turn>>

\* session_expired; a session on another Dataset is dropped.  A turn that still
\* waits is opened anew, with the payload it was opened with.
SessionExpired(t) ==
    /\ wire[t].kind = "resume" /\ Matching(t) = {}
    /\ held' = Without(held, turn[t].of)
    /\ wire' = [wire EXCEPT ![t] = IF turn[t].step = "waiting" THEN Open(turn[t].dataset, turn[t].round)
                                ELSE Nothing]
    /\ UNCHANGED <<current, leg, turn>>
    /\ Keep(session)

\* The model asks for tools, and _settle keeps its message for the results.
ModelCalls(t) ==
    /\ leg[t] # NoLeg
    /\ leg' = [leg EXCEPT ![t] = NoLeg]
    /\ turn' = [turn EXCEPT ![t].step = IF @ = "waiting" THEN "tools" ELSE @]
    /\ UNCHANGED <<current, held, wire>>
    /\ Keep([session EXCEPT ![leg[t].on].pending = Append(@, Calls(t, leg[t].round + 1))])

\* The model answers: _settle clears the messages, and the turn is over.
ModelAnswers(t) ==
    /\ leg[t] # NoLeg
    /\ leg' = [leg EXCEPT ![t] = NoLeg]
    /\ turn' = [turn EXCEPT ![t] = IF @.step = "waiting" THEN Ended(t) ELSE @]
    /\ UNCHANGED <<current, held, wire>>
    /\ Keep([session EXCEPT ![leg[t].on].pending = <<>>])

\* The adapter fails: nothing is settled.
ModelFails(t) ==
    /\ leg[t] # NoLeg
    /\ leg' = [leg EXCEPT ![t] = NoLeg]
    /\ turn' = [turn EXCEPT ![t] = IF @.step = "waiting" THEN Ended(t) ELSE @]
    /\ UNCHANGED <<current, held, wire>>
    /\ Keep(session)

\* The time to live of a session passes.
Expire(i) ==
    /\ held # Without(held, i)
    /\ held' = Without(held, i)
    /\ UNCHANGED <<current, wire, leg, turn>>
    /\ Keep(session)

\* The sidecar restarts: sessions and requests in progress are gone.
Restart ==
    /\ held # <<>> \/ \E t \in Turns : leg[t] # NoLeg
    /\ held' = <<>>
    /\ leg' = [t \in Turns |-> NoLeg]
    /\ turn' = [t \in Turns |-> IF leg[t] # NoLeg /\ turn[t].step = "waiting"
                                  THEN Ended(t) ELSE turn[t]]
    /\ UNCHANGED <<current, wire>>
    /\ Keep(session)

----------------------------------------------------------------------------
Init ==
    /\ current = [i \in Investigations |-> 0]
    /\ held = <<>>
    /\ session = <<>>
    /\ wire = [t \in Turns |-> Nothing]
    /\ leg = [t \in Turns |-> NoLeg]
    /\ turn = [t \in Turns |-> IdleTurn]

Receive(t) == ReceiveOpening(t) \/ Resume(t) \/ SessionExpired(t)
Reply(t)   == ModelCalls(t) \/ ModelAnswers(t) \/ ModelFails(t)
Go(t)      == RunTools(t) \/ LeaveLoop(t)

Next ==
    \/ \E i \in Investigations : Publish(i) \/ Expire(i)
    \/ \E t \in Turns, i \in Investigations : Begin(t, i)
    \/ \E t \in Turns : TimeOut(t) \/ Lose(t) \/ Receive(t) \/ Reply(t) \/ Go(t)
    \/ Restart

Spec == Init /\ [][Next]_vars

\* Requests arrive, the adapters answer or fail, and the loop goes on.  No
\* deadline is relied on.
FairSpec ==
    /\ Spec
    /\ \A t \in Turns : WF_vars(Receive(t) \/ Reply(t) \/ Go(t))

----------------------------------------------------------------------------
(***************************************************************************)
(* Properties.                                                             *)
(***************************************************************************)
\* The types; the store holds at most MaxSessions sessions, one for each
\* Investigation (agent/session.py:80-100), and a turn opens at most one
\* session for each round (continueTurn).
TypeOK ==
    /\ \A i \in Investigations : current[i] \in 0..LastDataset[i]
    /\ Len(held) <= MaxSessions /\ ToSet(held) \subseteq DOMAIN session
    /\ DOMAIN session \subseteq Sessions
    /\ \A j, k \in DOMAIN held :
          turn[held[j][1]].of = turn[held[k][1]].of => j = k
    /\ \A t \in Turns :
          /\ turn[t].step \in Steps
          /\ turn[t].round \in 0..MaxToolCalls
          /\ turn[t].opened \in 0..(MaxToolCalls + 1)
          /\ turn[t].step \in Active => turn[t].opened <= turn[t].round + 1
          /\ leg[t] = NoLeg \/ leg[t].on \in Sessions

\* Whatever turns share a session, and whatever is published while they run:
\* all that the model is given is of the Dataset its session was opened on,
\* which is that of the turn.
ModelSeesOneDataset ==
    \A t \in Turns : leg[t] # NoLeg =>
        /\ session[leg[t].on].dataset = turn[t].dataset
        /\ \A k \in DOMAIN leg[t].given : leg[t].given[k].dataset \subseteq {turn[t].dataset}

\* A turn that had its Investigation to itself continues its own conversation:
\* its opening, then each of its calls followed by the results of that call,
\* in order, though sessions were evicted, expired or lost in a restart.
AloneTurnIsCoherent ==
    \A t \in Turns : leg[t] # NoLeg /\ turn[t].alone /\ turn[t].step = "waiting" =>
        LET given == leg[t].given IN
        /\ given[1] = Opening(t)
        /\ Len(given) % 2 = 1
        /\ \A k \in 1..((Len(given) - 1) \div 2) :
              LET round == turn[t].round - (Len(given) - 1) \div 2 + k IN
              /\ given[2 * k] = Calls(t, round)
              /\ \E D \in SUBSET {turn[t].dataset} : given[2 * k + 1] = Results(t, round, D)

\* Every turn ends, if requests arrive and the model replies, without its
\* deadline: a lost session is opened anew, and the rounds are limited.
EveryTurnEnds == \A t \in Turns : turn[t].step \in Active ~> turn[t].step \notin Active
=============================================================================
