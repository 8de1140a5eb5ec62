--------------------------- MODULE AgentTurnProofs ---------------------------
(***************************************************************************)
(* What the model is given, for any number of Investigations, turns,       *)
(* rounds and sessions.                                                    *)
(*                                                                         *)
(*   Bound      everything on its way is tied to a Dataset: a request to   *)
(*              that of its turn, the messages of a session to that of the *)
(*              session, and a request that the sidecar works on to a      *)
(*              session of the same Dataset, whatever the store lost since;*)
(*   Stored     the store is within its limit, with one session for each   *)
(*              Investigation, and no turn beyond its rounds;              *)
(*   Coherence  a turn that is on its own finds its own conversation in    *)
(*              the store, or nothing.                                     *)
(***************************************************************************)
EXTENDS AgentTurn, SequenceTheorems, TLAPS

USE AgentTurnAssumption DEF AgentTurnAssumption

Message   == [kind : {"opening", "calls", "results"}, by : Turns, round : Nat, dataset : SUBSET Nat]
Request   == [kind : {"none", "open", "resume"}, dataset : Nat, round : Nat, results : SUBSET Nat]
Ids       == Turns \X Nat
TurnState == [step : Steps, of : Investigations \cup {"none"}, dataset : Nat, round : Nat,
              opened : Nat, alone : BOOLEAN]

\* Messages that show nothing but Dataset d.
OnlyOf(messages, d) ==
    messages \in Seq(Message) /\ \A k \in DOMAIN messages : messages[k].dataset \subseteq {d}

GoodTurn(t) ==
    /\ turn[t] \in TurnState
    /\ turn[t].step = "idle" => wire[t].kind = "none" /\ leg[t] = NoLeg /\ turn[t].opened = 0
    /\ turn[t].step # "idle" => turn[t].of \in Investigations

GoodRequest(t) ==
    /\ wire[t] \in Request
    /\ wire[t].kind # "none" => wire[t].dataset = turn[t].dataset /\ wire[t].results \subseteq {turn[t].dataset}

GoodLeg(t) ==
    leg[t] # NoLeg =>
        /\ leg[t].on \in DOMAIN session
        /\ leg[t].round \in Nat
        /\ session[leg[t].on].dataset = turn[t].dataset
        /\ OnlyOf(leg[t].given, turn[t].dataset)

\* A session, wherever it is kept, of a turn that has opened so many.
GoodSession(content, s) ==
    /\ s \in Ids
    /\ content[s].dataset \in Nat
    /\ content[s] = [dataset |-> content[s].dataset, pending |-> content[s].pending]
    /\ OnlyOf(content[s].pending, content[s].dataset)

Bound ==
    /\ current \in [Investigations -> Nat]
    /\ DOMAIN turn = Turns /\ DOMAIN wire = Turns /\ DOMAIN leg = Turns
    /\ turn = [t \in Turns |-> turn[t]] /\ wire = [t \in Turns |-> wire[t]] /\ leg = [t \in Turns |-> leg[t]]
    /\ \A t \in Turns : GoodTurn(t) /\ GoodRequest(t) /\ GoodLeg(t)
    /\ held \in Seq(DOMAIN session)
    /\ \A s \in DOMAIN session : GoodSession(session, s) /\ s[2] <= turn[s[1]].opened

----------------------------------------------------------------------------
\* What a step changes of a turn.

SameTurn(u, v) ==
    v \in TurnState /\ v.dataset = u.dataset /\ v.of = u.of /\ v.opened = u.opened

LEMMA Shared ==
    ASSUME NEW u \in TurnState, NEW P, P \in BOOLEAN
    PROVE  SameTurn(u, [u EXCEPT !.alone = @ /\ P]) /\ [u EXCEPT !.alone = @ /\ P].step = u.step
BY DEF TurnState, Steps, SameTurn

LEMMA Counted ==
    ASSUME NEW u \in TurnState, NEW n \in Nat
    PROVE  SameTurn(u, [u EXCEPT !.step = "waiting", !.round = n])
           /\ [u EXCEPT !.step = "waiting", !.round = n].step = "waiting"
BY DEF TurnState, Steps, Active, SameTurn

LEMMA EndedTurn ==
    ASSUME NEW t \in Turns, turn[t] \in TurnState
    PROVE  SameTurn(turn[t], Ended(t)) /\ Ended(t).step = "ended"
BY DEF Ended, TurnState, Steps, SameTurn

----------------------------------------------------------------------------
\* The store.

LEMMA WithoutType ==
    ASSUME NEW S, NEW store \in Seq(S), NEW i
    PROVE  Without(store, i) \in Seq(S)
<1> DEFINE places == {k \in DOMAIN store : turn[store[k][1]].of = i}
           k == CHOOSE k \in places : TRUE
<1>1. CASE places = {}
  BY <1>1 DEF Without
<1>2. CASE places # {}
  <2>1. k \in 1..Len(store)
    BY <1>2
  <2> HIDE DEF k
  <2>2. SubSeq(store, 1, k - 1) \in Seq(S) /\ SubSeq(store, k + 1, Len(store)) \in Seq(S)
    BY <2>1, SubSeqProperties
  <2>3. RemoveAt(store, k) \in Seq(S)
    BY <2>2, ConcatProperties DEF RemoveAt
  <2> QED BY <1>2, <2>3 DEF Without, k
<1> QED BY <1>1, <1>2

LEMMA EvictedType ==
    ASSUME NEW S, NEW store \in Seq(S)
    PROVE  Evicted(store) \in Seq(S)
<1> DEFINE first == Max({1, Len(store) - MaxSessions + 1})
<1>1. {1, Len(store) - MaxSessions + 1} \subseteq Int
  OBVIOUS
<1>2. \E x \in {1, Len(store) - MaxSessions + 1} : \A y \in {1, Len(store) - MaxSessions + 1} : x >= y
  BY <1>1
<1>3. first \in Int /\ first >= 1
  BY <1>1, <1>2 DEF Max
<1> HIDE DEF first
<1>4. SubSeq(store, first, Len(store)) \in Seq(S)
  BY <1>3, SubSeqProperties
<1> QED BY <1>4 DEF Evicted, first

LEMMA NoIdIsEmpty == ASSUME NEW s \in Ids PROVE s # <<>>
<1>1. PICK t \in Turns, n \in Nat : s = <<t, n>>
  BY DEF Ids
<1>2. Len(<<t, n>>) = 2 /\ Len(<<>>) = 0
  OBVIOUS
<1> QED BY <1>1, <1>2

\* What is kept of sessions is as it was in content.
LEMMA KeepType ==
    ASSUME NEW content, Keep(content), held' \in Seq(DOMAIN content),
           \A s \in DOMAIN content : s \in Ids,
           \A t \in Turns : leg'[t] # NoLeg => leg'[t].on \in DOMAIN content
    PROVE  /\ held' \in Seq(DOMAIN session')
           /\ DOMAIN session' \subseteq DOMAIN content
           /\ \A s \in DOMAIN session' : session'[s] = content[s]
           /\ \A t \in Turns : leg'[t] # NoLeg => leg'[t].on \in DOMAIN session'
<1> DEFINE kept == ToSet(held') \cup ({leg'[t].on : t \in Turns} \ {<<>>})
<1>1. session' = [s \in kept |-> content[s]]
  BY DEF Keep
<1>2. ToSet(held') \subseteq DOMAIN content
  BY DEF ToSet
<1>3. \A t \in Turns : leg'[t] = NoLeg => leg'[t].on = <<>>
  BY DEF NoLeg
<1>4. kept \subseteq DOMAIN content
  BY <1>2, <1>3
<1>5. held' \in Seq(kept)
  <2>1. \A j \in 1..Len(held') : held'[j] \in kept
    BY DEF ToSet
  <2> QED BY <2>1
<1>6. \A t \in Turns : leg'[t] # NoLeg => leg'[t].on \in kept
  BY NoIdIsEmpty
<1> QED BY <1>1, <1>4, <1>5, <1>6

----------------------------------------------------------------------------
\* Steps that leave the sessions as they are.

LEMMA Unkept ==
    ASSUME Bound, UNCHANGED <<current, held, session, leg>>,
           DOMAIN turn' = Turns, turn' = [t \in Turns |-> turn'[t]],
           DOMAIN wire' = Turns, wire' = [t \in Turns |-> wire'[t]],
           \A t \in Turns : /\ turn'[t] \in TurnState
                            /\ turn'[t].step = "idle" => turn[t].step = "idle" /\ wire'[t].kind = "none"
                            /\ turn'[t].step # "idle" => turn'[t].of \in Investigations
                            /\ turn[t].step # "idle" => turn'[t].dataset = turn[t].dataset
                            /\ turn'[t].opened = turn[t].opened
                            /\ wire'[t] \in Request
                            /\ wire'[t].kind # "none" => /\ wire'[t].dataset = turn'[t].dataset
                                                        /\ wire'[t].results \subseteq {turn'[t].dataset}
    PROVE  Bound'
<1>1. \A t \in Turns : GoodTurn(t)' /\ GoodRequest(t)'
  BY DEF Bound, GoodTurn, GoodRequest
<1>2. \A t \in Turns : GoodLeg(t)'
  BY DEF Bound, GoodTurn, GoodLeg, OnlyOf
<1>3. \A s \in DOMAIN session : s[1] \in Turns
  BY DEF Bound, GoodSession, Ids
<1>4. \A s \in DOMAIN session : (GoodSession(session, s) /\ s[2] <= turn[s[1]].opened)'
  BY <1>3 DEF Bound, GoodSession, OnlyOf
<1> QED BY <1>1, <1>2, <1>4 DEF Bound

LEMMA BeginBound ==
    ASSUME Bound, NEW t \in Turns, NEW i \in Investigations, Begin(t, i) PROVE Bound'
<1>1. current[i] \in Nat /\ turn[t].step = "idle" /\ wire[t].kind = "none"
  BY DEF Begin, Bound, GoodTurn
<1>2. \A u \in Turns : turn[u] \in TurnState
  BY DEF Bound, GoodTurn
<1>3. \A u \in Turns : wire'[u] = IF u = t THEN Open(current[i], 0) ELSE wire[u]
  BY DEF Begin, Bound
<1>4. Open(current[i], 0) \in Request
  BY <1>1 DEF Open, Request
<1>5. \A u \in Turns : u # t =>
          /\ turn'[u] \in TurnState
          /\ turn'[u].step = turn[u].step /\ turn'[u].of = turn[u].of
          /\ turn'[u].dataset = turn[u].dataset /\ turn'[u].opened = turn[u].opened
  <2> TAKE u \in Turns
  <2> HAVE u # t
  <2>1. turn'[u] = [turn[u] EXCEPT !.alone = @ /\ u \notin AtWork(i)]
    BY DEF Begin
  <2>2. (u \notin AtWork(i)) \in BOOLEAN
    OBVIOUS
  <2> QED BY <1>2, <2>1, <2>2, Shared DEF SameTurn
<1>6. /\ turn'[t].step = "waiting" /\ turn'[t].of = i /\ turn'[t].dataset = current[i]
      /\ turn'[t] \in TurnState
  BY <1>1 DEF Begin, TurnState, Steps, Active
<1>7. turn[t].opened = 0
  BY <1>1 DEF Bound, GoodTurn
<1>8. turn'[t].opened = 0
  BY DEF Begin
<1>9. /\ DOMAIN turn' = Turns /\ turn' = [u \in Turns |-> turn'[u]]
      /\ DOMAIN wire' = Turns /\ wire' = [u \in Turns |-> wire'[u]]
  BY DEF Begin, Bound
<1>10. Open(current[i], 0).dataset = current[i] /\ Open(current[i], 0).results = {}
  BY DEF Open
<1> DEFINE Fits(u) ==
      /\ turn'[u] \in TurnState
      /\ turn'[u].step = "idle" => turn[u].step = "idle" /\ wire'[u].kind = "none"
      /\ turn'[u].step # "idle" => turn'[u].of \in Investigations
      /\ turn[u].step # "idle" => turn'[u].dataset = turn[u].dataset
      /\ turn'[u].opened = turn[u].opened
      /\ wire'[u] \in Request
      /\ wire'[u].kind # "none" => /\ wire'[u].dataset = turn'[u].dataset
                                  /\ wire'[u].results \subseteq {turn'[u].dataset}
<1>11. Fits(t)
  BY <1>1, <1>3, <1>4, <1>6, <1>7, <1>8, <1>10
<1>12. ASSUME NEW u \in Turns, u # t PROVE Fits(u)
  <2>1. GoodTurn(u) /\ GoodRequest(u)
    BY DEF Bound
  <2>2. wire'[u] = wire[u]
    BY <1>3, <1>12
  <2> QED BY <1>5, <1>12, <2>1, <2>2 DEF GoodTurn, GoodRequest
<1>13. \A u \in Turns : Fits(u)
  BY <1>11, <1>12
<1>14. UNCHANGED <<current, held, session, leg>>
  BY DEF Begin
<1> QED BY <1>9, <1>13, <1>14, Unkept

\* A step of the backend that sends a request of its own Dataset, or none.
LEMMA BackendBound ==
    ASSUME Bound, NEW t \in Turns, NEW u, NEW w, u \in TurnState, w \in Request,
           turn[t].step # "idle", u.step # "idle",
           u.of = turn[t].of, u.dataset = turn[t].dataset, u.opened = turn[t].opened,
           w.kind # "none" => w.dataset = u.dataset /\ w.results \subseteq {u.dataset},
           turn' = [turn EXCEPT ![t] = u], wire' = [wire EXCEPT ![t] = w],
           UNCHANGED <<current, held, session, leg>>
    PROVE  Bound'
<1>1. \A v \in Turns : /\ turn'[v] = IF v = t THEN u ELSE turn[v]
                       /\ wire'[v] = IF v = t THEN w ELSE wire[v]
  BY DEF Bound
<1>2. \A v \in Turns : GoodTurn(v) /\ GoodRequest(v)
  BY DEF Bound
<1>3. /\ DOMAIN turn' = Turns /\ turn' = [v \in Turns |-> turn'[v]]
      /\ DOMAIN wire' = Turns /\ wire' = [v \in Turns |-> wire'[v]]
  BY DEF Bound
<1> QED BY <1>1, <1>2, <1>3, Unkept DEF GoodTurn, GoodRequest

LEMMA RunToolsBound == ASSUME Bound, NEW t \in Turns, RunTools(t) PROVE Bound'
<1> DEFINE n == turn[t].round + 1
           u == [turn[t] EXCEPT !.step = "waiting", !.round = n]
           w == [kind |-> "resume", dataset |-> turn[t].dataset, round |-> turn[t].round + 1,
                 results |-> ReadView(t) \cup Expand(t)]
<1>1. turn[t] \in TurnState /\ turn[t].step = "tools"
  BY DEF RunTools, Bound, GoodTurn
<1>2. ReadView(t) \subseteq {turn[t].dataset} /\ Expand(t) \subseteq {turn[t].dataset}
  BY DEF ReadView, Expand
<1>3. /\ u \in TurnState /\ u.step = "waiting" /\ u.of = turn[t].of
      /\ u.dataset = turn[t].dataset /\ u.opened = turn[t].opened
  <2>1. n \in Nat
    BY <1>1 DEF TurnState
  <2> HIDE DEF n
  <2> QED BY <1>1, <2>1, Counted DEF SameTurn
<1>4. w \in Request /\ w.kind = "resume" /\ w.dataset = turn[t].dataset /\ w.results \subseteq {turn[t].dataset}
  BY <1>1, <1>2 DEF TurnState, Request
<1>5. turn' = [turn EXCEPT ![t] = u] /\ wire' = [wire EXCEPT ![t] = w]
  BY DEF RunTools, Bound
<1>6. UNCHANGED <<current, held, session, leg>>
  BY DEF RunTools
<1> HIDE DEF u, w, n
<1> QED BY <1>1, <1>3, <1>4, <1>5, <1>6, BackendBound

LEMMA GiveUpBound ==
    ASSUME Bound, NEW t \in Turns, LeaveLoop(t) \/ TimeOut(t) PROVE Bound'
<1>1. turn[t] \in TurnState /\ turn[t].step # "idle" /\ GoodRequest(t)
  BY DEF LeaveLoop, TimeOut, Bound, GoodTurn
<1>2. wire' = [wire EXCEPT ![t] = wire[t]] /\ turn' = [turn EXCEPT ![t] = Ended(t)]
  BY DEF LeaveLoop, TimeOut, Bound
<1>3. UNCHANGED <<current, held, session, leg>>
  BY DEF LeaveLoop, TimeOut
<1>4. /\ Ended(t) \in TurnState /\ Ended(t).step # "idle" /\ Ended(t).of = turn[t].of
      /\ Ended(t).dataset = turn[t].dataset /\ Ended(t).opened = turn[t].opened
  BY <1>1, EndedTurn DEF SameTurn
<1>5. /\ wire[t] \in Request
      /\ wire[t].kind # "none" => /\ wire[t].dataset = Ended(t).dataset
                                 /\ wire[t].results \subseteq {Ended(t).dataset}
  BY <1>1, <1>4 DEF GoodRequest
<1> QED BY <1>1, <1>2, <1>3, <1>4, <1>5, BackendBound

LEMMA LoseBound == ASSUME Bound, NEW t \in Turns, Lose(t) PROVE Bound'
<1>1. Nothing \in Request /\ Nothing.kind = "none"
  BY DEF Nothing, Request
<1>2. \A v \in Turns : GoodTurn(v) /\ GoodRequest(v)
  BY DEF Bound
<1>3. \A v \in Turns : wire'[v] = IF v = t THEN Nothing ELSE wire[v]
  BY DEF Lose, Bound
<1>4. DOMAIN wire' = Turns /\ wire' = [v \in Turns |-> wire'[v]]
  BY DEF Lose, Bound
<1> QED BY <1>1, <1>2, <1>3, <1>4, Unkept DEF Lose, Bound, GoodTurn, GoodRequest

LEMMA PublishBound == ASSUME Bound, NEW i \in Investigations, Publish(i) PROVE Bound'
<1>1. current' \in [Investigations -> Nat] /\ UNCHANGED <<held, session, wire, leg, turn>>
  BY DEF Publish, Bound
<1>2. \A t \in Turns : GoodTurn(t)' /\ GoodRequest(t)' /\ GoodLeg(t)'
  BY <1>1 DEF Bound, GoodTurn, GoodRequest, GoodLeg, OnlyOf
<1>3. \A s \in DOMAIN session : (GoodSession(session, s) /\ s[2] <= turn[s[1]].opened)'
  BY <1>1 DEF Bound, GoodSession, OnlyOf
<1> QED BY <1>1, <1>2, <1>3 DEF Bound

----------------------------------------------------------------------------
\* Steps of the sidecar: content is what it knows of sessions, Keep what stays.

LEMMA Kept ==
    ASSUME NEW content, Keep(content), held' \in Seq(DOMAIN content),
           current' \in [Investigations -> Nat],
           DOMAIN turn' = Turns, turn' = [t \in Turns |-> turn'[t]],
           DOMAIN wire' = Turns, wire' = [t \in Turns |-> wire'[t]],
           DOMAIN leg' = Turns, leg' = [t \in Turns |-> leg'[t]],
           \A t \in Turns : GoodTurn(t)' /\ GoodRequest(t)',
           \A s \in DOMAIN content : GoodSession(content, s) /\ s[2] <= turn'[s[1]].opened,
           \A t \in Turns : leg'[t] # NoLeg =>
               /\ leg'[t].on \in DOMAIN content
               /\ leg'[t].round \in Nat
               /\ content[leg'[t].on].dataset = turn'[t].dataset
               /\ OnlyOf(leg'[t].given, turn'[t].dataset)
    PROVE  Bound'
<1>1. \A s \in DOMAIN content : s \in Ids
  BY DEF GoodSession
<1>2. /\ held' \in Seq(DOMAIN session')
      /\ DOMAIN session' \subseteq DOMAIN content
      /\ \A s \in DOMAIN session' : session'[s] = content[s]
      /\ \A t \in Turns : leg'[t] # NoLeg => leg'[t].on \in DOMAIN session'
  BY <1>1, KeepType
<1>3. \A t \in Turns : GoodLeg(t)'
  BY <1>2 DEF GoodLeg, OnlyOf
<1>4. \A s \in DOMAIN session' : (GoodSession(session, s) /\ s[2] <= turn[s[1]].opened)'
  BY <1>2 DEF GoodSession, OnlyOf
<1> QED BY <1>2, <1>3, <1>4 DEF Bound

\* A step for one turn.
LEMMA SidecarBound ==
    ASSUME Bound, NEW t \in Turns, NEW u \in TurnState, NEW w \in Request, NEW l, NEW content,
           turn[t].step # "idle", u.step # "idle",
           u.of = turn[t].of, u.dataset = turn[t].dataset, turn[t].opened <= u.opened,
           w.kind # "none" => w.dataset = u.dataset /\ w.results \subseteq {u.dataset},
           l # NoLeg => /\ l.on \in DOMAIN content
                        /\ l.round \in Nat
                        /\ content[l.on].dataset = u.dataset
                        /\ OnlyOf(l.given, u.dataset),
           turn' = [turn EXCEPT ![t] = u], wire' = [wire EXCEPT ![t] = w], leg' = [leg EXCEPT ![t] = l],
           current' = current, Keep(content), held' \in Seq(DOMAIN content),
           DOMAIN session \subseteq DOMAIN content,
           \A s \in DOMAIN session : content[s].dataset = session[s].dataset,
           \A s \in DOMAIN content : GoodSession(content, s) /\ s[2] <= turn'[s[1]].opened
    PROVE  Bound'
<1>1. \A v \in Turns : /\ turn'[v] = IF v = t THEN u ELSE turn[v]
                       /\ wire'[v] = IF v = t THEN w ELSE wire[v]
                       /\ leg'[v] = IF v = t THEN l ELSE leg[v]
  BY DEF Bound
<1>2. \A v \in Turns : GoodTurn(v) /\ GoodRequest(v) /\ GoodLeg(v)
  BY DEF Bound
<1>3. /\ DOMAIN turn' = Turns /\ turn' = [v \in Turns |-> turn'[v]]
      /\ DOMAIN wire' = Turns /\ wire' = [v \in Turns |-> wire'[v]]
      /\ DOMAIN leg' = Turns /\ leg' = [v \in Turns |-> leg'[v]]
      /\ current' \in [Investigations -> Nat]
  BY DEF Bound
<1>4. ASSUME NEW v \in Turns PROVE GoodTurn(v)' /\ GoodRequest(v)'
  <2>1. CASE v = t
    BY <1>1, <1>2, <2>1 DEF GoodTurn, GoodRequest
  <2>2. CASE v # t
    <3>1. turn'[v] = turn[v] /\ wire'[v] = wire[v] /\ leg'[v] = leg[v] /\ GoodTurn(v) /\ GoodRequest(v)
      BY <1>1, <1>2, <2>2
    <3> QED BY <3>1 DEF GoodTurn, GoodRequest
  <2> QED BY <2>1, <2>2
<1>5. ASSUME NEW v \in Turns, leg'[v] # NoLeg
      PROVE  /\ leg'[v].on \in DOMAIN content
             /\ leg'[v].round \in Nat
             /\ content[leg'[v].on].dataset = turn'[v].dataset
             /\ OnlyOf(leg'[v].given, turn'[v].dataset)
  <2>1. CASE v = t
    BY <1>1, <1>5, <2>1
  <2>2. CASE v # t
    <3>1. turn'[v] = turn[v] /\ leg'[v] = leg[v] /\ GoodLeg(v)
      BY <1>1, <1>2, <2>2
    <3> QED BY <1>5, <3>1 DEF GoodLeg
  <2> QED BY <2>1, <2>2
<1> QED BY <1>3, <1>4, <1>5, Kept

\* The sessions after the messages of one have changed.
LEMMA Settled ==
    ASSUME Bound, NEW s \in DOMAIN session, NEW messages, OnlyOf(messages, session[s].dataset)
    PROVE  LET content == [session EXCEPT ![s].pending = messages] IN
           /\ DOMAIN content = DOMAIN session
           /\ \A r \in DOMAIN session : content[r].dataset = session[r].dataset
           /\ \A r \in DOMAIN content : GoodSession(content, r) /\ r[2] <= turn[r[1]].opened
<1> DEFINE content == [session EXCEPT ![s].pending = messages]
           entry == [dataset |-> session[s].dataset, pending |-> messages]
<1>1. \A r \in DOMAIN session : GoodSession(session, r) /\ r[2] <= turn[r[1]].opened
  BY DEF Bound
<1>2. DOMAIN content = DOMAIN session /\ \A r \in DOMAIN session : r # s => content[r] = session[r]
  OBVIOUS
<1>3. content[s] = [session[s] EXCEPT !.pending = messages]
  OBVIOUS
<1>4. content[s] = entry
  BY <1>1, <1>3 DEF GoodSession
<1> HIDE DEF content
<1>5. GoodSession(content, s)
  BY <1>1, <1>4 DEF GoodSession
<1>6. \A r \in DOMAIN session : r # s => GoodSession(content, r)
  BY <1>1, <1>2 DEF GoodSession
<1>7. \A r \in DOMAIN session : content[r].dataset = session[r].dataset
  BY <1>2, <1>4
<1>8. /\ DOMAIN content = DOMAIN session
      /\ \A r \in DOMAIN session : content[r].dataset = session[r].dataset
      /\ \A r \in DOMAIN content : GoodSession(content, r) /\ r[2] <= turn[r[1]].opened
  BY <1>1, <1>2, <1>5, <1>6, <1>7
<1> QED BY <1>8 DEF content

----------------------------------------------------------------------------
\* What the model is given and what it says.

LEMMA OpeningIsOf ==
    ASSUME NEW t \in Turns, NEW d
    PROVE  Opening(t) \in Message /\ Opening(t).dataset \subseteq {d}
BY DEF Opening, Message

LEMMA CallsAreOf ==
    ASSUME NEW t \in Turns, NEW k \in Nat, NEW d
    PROVE  Calls(t, k) \in Message /\ Calls(t, k).dataset \subseteq {d}
BY DEF Calls, Message

LEMMA ResultsAreOf ==
    ASSUME NEW t \in Turns, NEW k \in Nat, NEW d \in Nat, NEW D, D \subseteq {d}
    PROVE  Results(t, k, D) \in Message /\ Results(t, k, D).dataset \subseteq {d}
<1>1. D \in SUBSET Nat
  OBVIOUS
<1> QED BY <1>1 DEF Results, Message

LEMMA Extended ==
    ASSUME NEW d, NEW messages, OnlyOf(messages, d), NEW m \in Message, m.dataset \subseteq {d}
    PROVE  OnlyOf(Append(messages, m), d)
<1>1. messages \in Seq(Message)
  BY DEF OnlyOf
<1>2. /\ Append(messages, m) \in Seq(Message) /\ Len(Append(messages, m)) = Len(messages) + 1
      /\ \A k \in 1..Len(messages) : Append(messages, m)[k] = messages[k]
      /\ Append(messages, m)[Len(messages) + 1] = m
  BY <1>1
<1> QED BY <1>1, <1>2 DEF OnlyOf

LEMMA Alone ==
    ASSUME NEW d, NEW m \in Message, m.dataset \subseteq {d}
    PROVE  OnlyOf(<<m>>, d) /\ OnlyOf(<<>>, d)
BY DEF OnlyOf

LEMMA OpenedTurn ==
    ASSUME NEW u \in TurnState, NEW n \in Nat
    PROVE  LET v == [u EXCEPT !.opened = n] IN
           v \in TurnState /\ v.dataset = u.dataset /\ v.of = u.of /\ v.step = u.step /\ v.opened = n
BY DEF TurnState, Steps

\* A turn that has asked for tools.
LEMMA AskedTurn ==
    ASSUME NEW u \in TurnState
    PROVE  SameTurn(u, [u EXCEPT !.step = "tools"]) /\ [u EXCEPT !.step = "tools"].step = "tools"
BY DEF TurnState, Steps, Active, SameTurn

----------------------------------------------------------------------------
LEMMA ReceiveOpeningBound ==
    ASSUME Bound, NEW t \in Turns, ReceiveOpening(t) PROVE Bound'
<1> DEFINE n == turn[t].opened + 1
           s == <<t, n>>
           u == [turn[t] EXCEPT !.opened = n]
           l == [on |-> s, round |-> wire[t].round, given |-> <<Opening(t)>>]
           entry == [dataset |-> wire[t].dataset, pending |-> <<Opening(t)>>]
           content == [r \in DOMAIN session \cup {s} |-> IF r = s THEN entry ELSE session[r]]
<1>1. GoodTurn(t) /\ GoodRequest(t) /\ wire[t].kind = "open"
  BY DEF Bound, ReceiveOpening
<1>2. /\ turn[t] \in TurnState /\ turn[t].step # "idle" /\ turn[t].dataset \in Nat /\ turn[t].opened \in Nat
      /\ wire[t].dataset = turn[t].dataset /\ wire[t].round \in Nat
  BY <1>1 DEF GoodTurn, GoodRequest, TurnState, Request
<1>3. n \in Nat /\ turn[t].opened <= n /\ s \in Ids /\ s[1] = t /\ s[2] = n
  BY <1>2 DEF Ids
<1>4. \A r \in DOMAIN session : GoodSession(session, r) /\ r[2] <= turn[r[1]].opened
  BY DEF Bound
<1>5. s \notin DOMAIN session
  BY <1>2, <1>3, <1>4
<1>6. /\ u \in TurnState /\ u.step = turn[t].step /\ u.of = turn[t].of
      /\ u.dataset = turn[t].dataset /\ u.opened = n
  <2> HIDE DEF n
  <2> QED BY <1>2, <1>3, OpenedTurn
<1>7. /\ DOMAIN content = {s} \cup DOMAIN session /\ content[s] = entry
      /\ \A r \in DOMAIN session : content[r] = session[r]
  <2> HIDE DEF s, entry
  <2> QED BY <1>5
<1>8. /\ turn' = [turn EXCEPT ![t] = u] /\ wire' = [wire EXCEPT ![t] = Nothing]
      /\ leg' = [leg EXCEPT ![t] = l] /\ current' = current /\ Keep(content)
      /\ held' = Evicted(Append(Without(held, turn[t].of), s))
  BY DEF ReceiveOpening, Bound
<1>9. OnlyOf(<<Opening(t)>>, turn[t].dataset)
  <2>1. Opening(t) \in Message /\ Opening(t).dataset \subseteq {turn[t].dataset}
    BY OpeningIsOf
  <2> QED BY <2>1, Alone
<1>10. GoodSession(content, s)
  BY <1>2, <1>3, <1>7, <1>9 DEF GoodSession
<1>11. l.on = s /\ l.round = wire[t].round /\ l.given = <<Opening(t)>>
  OBVIOUS
<1>12. entry.dataset = turn[t].dataset
  BY <1>2
<1>13. Nothing \in Request /\ Nothing.kind = "none"
  BY DEF Nothing, Request
<1> HIDE DEF u, l, content, entry, s, n
<1>14. held' \in Seq(DOMAIN content)
  <2>1. held \in Seq(DOMAIN content) /\ s \in DOMAIN content
    BY <1>7 DEF Bound
  <2>2. Append(Without(held, turn[t].of), s) \in Seq(DOMAIN content)
    BY <2>1, WithoutType
  <2> QED BY <1>8, <2>2, EvictedType
<1>15. \A r \in DOMAIN session : r[1] \in Turns /\ turn'[r[1]].opened >= turn[r[1]].opened
  <2>1. \A r \in DOMAIN session : r[1] \in Turns
    BY <1>4 DEF GoodSession, Ids
  <2>2. \A v \in Turns : turn'[v] = IF v = t THEN u ELSE turn[v]
    BY <1>8 DEF Bound
  <2>3. \A v \in Turns : turn[v].opened \in Nat
    BY DEF Bound, GoodTurn, TurnState
  <2> QED BY <1>3, <1>6, <2>1, <2>2, <2>3
<1>16. \A r \in DOMAIN session : GoodSession(content, r)
  BY <1>4, <1>7 DEF GoodSession
<1>17. turn'[t] = u
  BY <1>8 DEF Bound
<1>18. \A r \in DOMAIN session : r[2] \in Nat /\ r[2] <= turn[r[1]].opened /\ turn[r[1]].opened \in Nat /\ turn'[r[1]].opened \in Nat
  <2>1. \A v \in Turns : turn'[v] = IF v = t THEN u ELSE turn[v]
    BY <1>8 DEF Bound
  <2>2. \A v \in Turns : turn[v].opened \in Nat
    BY DEF Bound, GoodTurn, TurnState
  <2>3. \A r \in DOMAIN session : r[1] \in Turns /\ r[2] \in Nat
    BY <1>4 DEF GoodSession, Ids
  <2> QED BY <1>3, <1>4, <1>6, <2>1, <2>2, <2>3
<1>19. \A r \in DOMAIN content : GoodSession(content, r) /\ r[2] <= turn'[r[1]].opened
  <2>1. \A r \in DOMAIN session : r[2] <= turn'[r[1]].opened
    BY <1>15, <1>18
  <2>2. s[2] <= turn'[s[1]].opened
    BY <1>3, <1>6, <1>17
  <2> QED BY <1>7, <1>10, <1>16, <2>1, <2>2
<1>20. l.on \in DOMAIN content /\ content[l.on].dataset = u.dataset /\ OnlyOf(l.given, u.dataset)
  BY <1>6, <1>7, <1>9, <1>11, <1>12
<1> QED BY <1>2, <1>3, <1>6, <1>7, <1>8, <1>11, <1>13, <1>14, <1>19, <1>20, SidecarBound

LEMMA ResumeBound == ASSUME Bound, NEW t \in Turns, Resume(t) PROVE Bound'
<1>1. GoodTurn(t) /\ GoodRequest(t) /\ wire[t].kind = "resume"
  BY DEF Bound, Resume
<1>2. /\ turn[t] \in TurnState /\ turn[t].step # "idle" /\ turn[t].dataset \in Nat
      /\ wire[t].dataset = turn[t].dataset /\ wire[t].round \in Nat /\ wire[t].results \subseteq {turn[t].dataset}
  BY <1>1 DEF GoodTurn, GoodRequest, TurnState, Request
<1> DEFINE extended(r) == Append(session[r].pending, Results(t, wire[t].round, wire[t].results))
           leg_(r) == [on |-> r, round |-> wire[t].round, given |-> extended(r)]
           content(r) == [session EXCEPT ![r].pending = extended(r)]
<1>3. PICK s \in Matching(t) :
         /\ held' = Append(Without(held, turn[t].of), s)
         /\ leg' = [leg EXCEPT ![t] = leg_(s)]
         /\ Keep(content(s))
  BY DEF Resume
<1>4. s \in DOMAIN session /\ session[s].dataset = turn[t].dataset
  BY <1>2 DEF Matching, Bound, ToSet
<1>5. GoodSession(session, s)
  BY <1>4 DEF Bound
<1>6. OnlyOf(extended(s), turn[t].dataset)
  <2>1. Results(t, wire[t].round, wire[t].results) \in Message
        /\ Results(t, wire[t].round, wire[t].results).dataset \subseteq {turn[t].dataset}
    BY <1>2, ResultsAreOf
  <2> QED BY <1>4, <1>5, <2>1, Extended DEF GoodSession
<1>7. leg_(s).on = s /\ leg_(s).round = wire[t].round /\ leg_(s).given = extended(s)
  OBVIOUS
<1> HIDE DEF extended, leg_
<1>8. /\ DOMAIN content(s) = DOMAIN session
      /\ \A r \in DOMAIN session : content(s)[r].dataset = session[r].dataset
      /\ \A r \in DOMAIN content(s) : GoodSession(content(s), r) /\ r[2] <= turn[r[1]].opened
  BY <1>4, <1>6, Settled
<1> HIDE DEF content
<1>9. /\ turn' = [turn EXCEPT ![t] = turn[t]] /\ wire' = [wire EXCEPT ![t] = Nothing] /\ current' = current
      /\ turn' = turn
  BY DEF Resume, Bound
<1>10. Nothing \in Request /\ Nothing.kind = "none"
  BY DEF Nothing, Request
<1>11. held' \in Seq(DOMAIN content(s))
  <2>1. held \in Seq(DOMAIN session)
    BY DEF Bound
  <2> QED BY <1>3, <1>4, <1>8, <2>1, WithoutType
<1>12. turn[t].opened <= turn[t].opened
  BY <1>2 DEF TurnState
<1>13. \A r \in DOMAIN content(s) : GoodSession(content(s), r) /\ r[2] <= turn'[r[1]].opened
  BY <1>8, <1>9
<1> QED BY <1>2, <1>3, <1>4, <1>6, <1>7, <1>8, <1>9, <1>10, <1>11, <1>12, <1>13, SidecarBound

\* What Bound says of the sessions as they are.
LEMMA SessionsAsTheyAre ==
    ASSUME Bound
    PROVE  /\ \A r \in DOMAIN session : GoodSession(session, r) /\ r[2] <= turn[r[1]].opened
           /\ \A i : Without(held, i) \in Seq(DOMAIN session)
           /\ \A t \in Turns : GoodTurn(t) /\ GoodRequest(t) /\ GoodLeg(t)
BY WithoutType DEF Bound

LEMMA SessionExpiredBound ==
    ASSUME Bound, NEW t \in Turns, SessionExpired(t) PROVE Bound'
<1> DEFINE w == IF turn[t].step = "waiting" THEN Open(turn[t].dataset, turn[t].round) ELSE Nothing
<1>1. GoodTurn(t) /\ GoodRequest(t) /\ GoodLeg(t) /\ wire[t].kind = "resume"
  BY SessionsAsTheyAre DEF SessionExpired
<1>2. /\ turn[t] \in TurnState /\ turn[t].step # "idle" /\ turn[t].dataset \in Nat
      /\ turn[t].round \in Nat /\ turn[t].opened \in Nat
  BY <1>1 DEF GoodTurn, TurnState
<1>3. w \in Request /\ (w.kind # "none" => w.dataset = turn[t].dataset /\ w.results \subseteq {turn[t].dataset})
  <2>1. CASE turn[t].step = "waiting"
    BY <1>2, <2>1 DEF Open, Request
  <2>2. CASE turn[t].step # "waiting"
    BY <2>2 DEF Nothing, Request
  <2> QED BY <2>1, <2>2
<1>4. /\ turn' = turn /\ leg' = leg /\ current' = current /\ Keep(session)
      /\ wire' = [wire EXCEPT ![t] = w] /\ held' = Without(held, turn[t].of)
  BY DEF SessionExpired
<1>5. turn' = [turn EXCEPT ![t] = turn[t]] /\ leg' = [leg EXCEPT ![t] = leg[t]]
  BY <1>4 DEF Bound
<1>6. held' \in Seq(DOMAIN session)
  BY <1>4, SessionsAsTheyAre
<1>7. \A r \in DOMAIN session : GoodSession(session, r) /\ r[2] <= turn'[r[1]].opened
  BY <1>4, SessionsAsTheyAre
<1> HIDE DEF w
<1>8. leg[t] # NoLeg => /\ leg[t].on \in DOMAIN session
                        /\ leg[t].round \in Nat
                        /\ session[leg[t].on].dataset = turn[t].dataset
                        /\ OnlyOf(leg[t].given, turn[t].dataset)
  BY <1>1 DEF GoodLeg
<1>9. turn[t].opened <= turn[t].opened
  BY <1>2
<1> QED BY <1>2, <1>3, <1>4, <1>5, <1>6, <1>7, <1>8, <1>9, SidecarBound

\* The reply to a request ends its work there: its turn goes on as u.
LEMMA ReplyBound ==
    ASSUME Bound, NEW t \in Turns, leg[t] # NoLeg, NEW u, SameTurn(turn[t], u), u.step # "idle",
           NEW content, DOMAIN content = DOMAIN session,
           \A r \in DOMAIN session : content[r].dataset = session[r].dataset,
           \A r \in DOMAIN content : GoodSession(content, r) /\ r[2] <= turn[r[1]].opened,
           turn' = [turn EXCEPT ![t] = u], leg' = [leg EXCEPT ![t] = NoLeg],
           UNCHANGED <<current, held, wire>>, Keep(content)
    PROVE  Bound'
<1>1. GoodTurn(t) /\ GoodRequest(t) /\ GoodLeg(t)
  BY SessionsAsTheyAre
<1>2. turn[t] \in TurnState /\ turn[t].step # "idle" /\ turn[t].opened \in Nat
  BY <1>1 DEF GoodTurn, TurnState
<1>3. wire' = [wire EXCEPT ![t] = wire[t]] /\ current' = current /\ held' \in Seq(DOMAIN content)
  BY DEF Bound
<1>4. /\ u \in TurnState /\ u.of = turn[t].of /\ u.dataset = turn[t].dataset
      /\ u.opened = turn[t].opened /\ turn[t].opened <= u.opened
  BY <1>2 DEF SameTurn
<1>5. wire[t] \in Request
      /\ (wire[t].kind # "none" => wire[t].dataset = u.dataset /\ wire[t].results \subseteq {u.dataset})
  BY <1>1, <1>4 DEF GoodRequest
<1>6. \A r \in DOMAIN content : GoodSession(content, r) /\ r[2] <= turn'[r[1]].opened
  <2>1. \A r \in DOMAIN content : r[1] \in Turns
    BY DEF GoodSession, Ids
  <2>2. \A v \in Turns : turn'[v].opened = turn[v].opened
    BY <1>4 DEF Bound
  <2> QED BY <2>1, <2>2
<1> QED BY <1>2, <1>3, <1>4, <1>5, <1>6, SidecarBound

LEMMA NoMessagesAreOf == ASSUME NEW d PROVE OnlyOf(<<>>, d)
BY DEF OnlyOf

LEMMA ModelCallsBound == ASSUME Bound, NEW t \in Turns, ModelCalls(t) PROVE Bound'
<1> DEFINE u == [turn[t] EXCEPT !.step = IF @ = "waiting" THEN "tools" ELSE @]
           k == leg[t].round + 1
           messages == Append(session[leg[t].on].pending, Calls(t, k))
           content == [session EXCEPT ![leg[t].on].pending = messages]
<1>1. GoodTurn(t) /\ GoodLeg(t) /\ leg[t] # NoLeg
  BY SessionsAsTheyAre DEF ModelCalls
<1>2. turn[t] \in TurnState /\ turn[t].step # "idle"
  BY <1>1 DEF GoodTurn
<1>3. SameTurn(turn[t], u) /\ u.step # "idle"
  <2>1. CASE turn[t].step = "waiting"
    <3>1. u = [turn[t] EXCEPT !.step = "tools"]
      BY <2>1
    <3> QED BY <1>2, <3>1, AskedTurn
  <2>2. CASE turn[t].step # "waiting"
    <3>1. u = turn[t]
      BY <1>2, <2>2 DEF TurnState
    <3> QED BY <1>2, <3>1 DEF SameTurn
  <2> QED BY <2>1, <2>2
<1>4. leg[t].on \in DOMAIN session /\ session[leg[t].on].dataset = turn[t].dataset /\ k \in Nat
  BY <1>1 DEF GoodLeg
<1>5. GoodSession(session, leg[t].on)
  BY <1>4, SessionsAsTheyAre
<1>6. OnlyOf(messages, turn[t].dataset)
  <2>1. Calls(t, k) \in Message /\ Calls(t, k).dataset \subseteq {turn[t].dataset}
    <3> HIDE DEF k
    <3> QED BY <1>4, CallsAreOf
  <2> QED BY <1>4, <1>5, <2>1, Extended DEF GoodSession
<1>7. turn' = [turn EXCEPT ![t] = u] /\ leg' = [leg EXCEPT ![t] = NoLeg]
      /\ UNCHANGED <<current, held, wire>>
  BY DEF ModelCalls, Bound
<1>8. Keep(content)
  BY DEF ModelCalls
<1>9. /\ DOMAIN content = DOMAIN session
      /\ \A r \in DOMAIN session : content[r].dataset = session[r].dataset
      /\ \A r \in DOMAIN content : GoodSession(content, r) /\ r[2] <= turn[r[1]].opened
  <2> HIDE DEF messages
  <2> QED BY <1>4, <1>6, Settled
<1> HIDE DEF u, messages, content, k
<1> QED BY <1>1, <1>3, <1>7, <1>8, <1>9, ReplyBound

LEMMA ModelEndsBound ==
    ASSUME Bound, NEW t \in Turns, ModelAnswers(t) \/ ModelFails(t) PROVE Bound'
<1> DEFINE u == IF turn[t].step = "waiting" THEN Ended(t) ELSE turn[t]
<1>1. GoodTurn(t) /\ leg[t] # NoLeg
  BY SessionsAsTheyAre DEF ModelAnswers, ModelFails
<1>2. turn[t] \in TurnState /\ turn[t].step # "idle"
  BY <1>1 DEF GoodTurn
<1>3. SameTurn(turn[t], u) /\ u.step # "idle"
  <2>1. SameTurn(turn[t], turn[t])
    BY <1>2 DEF SameTurn
  <2> QED BY <1>2, <2>1, EndedTurn
<1>4. turn' = [turn EXCEPT ![t] = u] /\ leg' = [leg EXCEPT ![t] = NoLeg]
      /\ UNCHANGED <<current, held, wire>>
  BY DEF ModelAnswers, ModelFails, Bound
<1> HIDE DEF u
<1>5. CASE ModelAnswers(t)
  <2> DEFINE content == [session EXCEPT ![leg[t].on].pending = <<>>]
  <2>1. Keep(content)
    BY <1>5 DEF ModelAnswers
  <2>2. leg[t].on \in DOMAIN session /\ OnlyOf(<<>>, session[leg[t].on].dataset)
    BY <1>1, NoMessagesAreOf, SessionsAsTheyAre DEF GoodLeg
  <2>3. /\ DOMAIN content = DOMAIN session
        /\ \A r \in DOMAIN session : content[r].dataset = session[r].dataset
        /\ \A r \in DOMAIN content : GoodSession(content, r) /\ r[2] <= turn[r[1]].opened
    BY <2>2, Settled
  <2> HIDE DEF content
  <2> QED BY <1>1, <1>3, <1>4, <2>1, <2>3, ReplyBound
<1>6. CASE ModelFails(t)
  <2>1. Keep(session)
    BY <1>6 DEF ModelFails
  <2>2. \A r \in DOMAIN session : GoodSession(session, r) /\ r[2] <= turn[r[1]].opened
    BY SessionsAsTheyAre
  <2> QED BY <1>1, <1>3, <1>4, <2>1, <2>2, ReplyBound
<1> QED BY <1>5, <1>6

LEMMA ExpireBound == ASSUME Bound, NEW i \in Investigations, Expire(i) PROVE Bound'
<1>1. UNCHANGED <<current, wire, leg, turn>> /\ Keep(session) /\ held' \in Seq(DOMAIN session)
  BY SessionsAsTheyAre DEF Expire
<1>2. \A t \in Turns : GoodTurn(t)' /\ GoodRequest(t)'
  BY <1>1, SessionsAsTheyAre DEF GoodTurn, GoodRequest
<1>3. \A t \in Turns : leg'[t] # NoLeg =>
         /\ leg'[t].on \in DOMAIN session
         /\ leg'[t].round \in Nat
         /\ session[leg'[t].on].dataset = turn'[t].dataset
         /\ OnlyOf(leg'[t].given, turn'[t].dataset)
  BY <1>1, SessionsAsTheyAre DEF GoodLeg
<1>4. \A r \in DOMAIN session : GoodSession(session, r) /\ r[2] <= turn'[r[1]].opened
  BY <1>1, SessionsAsTheyAre
<1>5. /\ current' \in [Investigations -> Nat]
      /\ DOMAIN turn' = Turns /\ turn' = [t \in Turns |-> turn'[t]]
      /\ DOMAIN wire' = Turns /\ wire' = [t \in Turns |-> wire'[t]]
      /\ DOMAIN leg' = Turns /\ leg' = [t \in Turns |-> leg'[t]]
  BY <1>1 DEF Bound
<1> QED BY <1>1, <1>2, <1>3, <1>4, <1>5, Kept

LEMMA RestartBound == ASSUME Bound, Restart PROVE Bound'
<1>1. /\ UNCHANGED <<current, wire>> /\ Keep(session) /\ held' = <<>>
      /\ \A t \in Turns : leg'[t] = NoLeg
      /\ \A t \in Turns : turn'[t] = IF leg[t] # NoLeg /\ turn[t].step = "waiting"
                                       THEN Ended(t) ELSE turn[t]
  BY DEF Restart
<1>2. \A t \in Turns : /\ SameTurn(turn[t], turn'[t])
                       /\ turn'[t].step = "idle" <=> turn[t].step = "idle"
  <2> TAKE t \in Turns
  <2>1. turn[t] \in TurnState
    BY SessionsAsTheyAre DEF GoodTurn
  <2>2. SameTurn(turn[t], turn[t])
    BY <2>1 DEF SameTurn
  <2> QED BY <1>1, <2>1, <2>2, EndedTurn
<1>3. \A t \in Turns : GoodTurn(t)' /\ GoodRequest(t)'
  BY <1>1, <1>2, SessionsAsTheyAre DEF GoodTurn, GoodRequest, SameTurn
<1>4. \A r \in DOMAIN session : GoodSession(session, r) /\ r[2] <= turn'[r[1]].opened
  BY <1>2, SessionsAsTheyAre DEF SameTurn, GoodSession, Ids
<1>5. /\ current' \in [Investigations -> Nat]
      /\ DOMAIN turn' = Turns /\ turn' = [t \in Turns |-> turn'[t]]
      /\ DOMAIN wire' = Turns /\ wire' = [t \in Turns |-> wire'[t]]
      /\ DOMAIN leg' = Turns /\ leg' = [t \in Turns |-> leg'[t]]
  BY <1>1 DEF Restart, Bound
<1>6. held' \in Seq(DOMAIN session)
  BY <1>1
<1> QED BY <1>1, <1>3, <1>4, <1>5, <1>6, Kept

----------------------------------------------------------------------------
LEMMA InitBound == Init => Bound
<1> SUFFICES ASSUME Init PROVE Bound
  OBVIOUS
<1>1. current \in [Investigations -> Nat] /\ held \in Seq(DOMAIN session) /\ DOMAIN session = {}
  BY DEF Init
<1>2. ASSUME NEW t \in Turns PROVE GoodTurn(t) /\ GoodRequest(t) /\ GoodLeg(t)
  <2>1. turn[t] = IdleTurn /\ wire[t] = Nothing /\ leg[t] = NoLeg
    BY DEF Init
  <2>2. IdleTurn \in TurnState /\ IdleTurn.step = "idle" /\ IdleTurn.opened = 0
    BY DEF IdleTurn, TurnState, Steps
  <2>3. Nothing \in Request /\ Nothing.kind = "none"
    BY DEF Nothing, Request
  <2> QED BY <2>1, <2>2, <2>3 DEF GoodTurn, GoodRequest, GoodLeg
<1>3. /\ DOMAIN turn = Turns /\ DOMAIN wire = Turns /\ DOMAIN leg = Turns
      /\ turn = [t \in Turns |-> turn[t]] /\ wire = [t \in Turns |-> wire[t]] /\ leg = [t \in Turns |-> leg[t]]
  BY DEF Init
<1> QED BY <1>1, <1>2, <1>3 DEF Bound

LEMMA BoundStep == Bound /\ [Next]_vars => Bound'
<1> SUFFICES ASSUME Bound, [Next]_vars PROVE Bound'
  OBVIOUS
<1>1. CASE UNCHANGED vars
  <2>1. UNCHANGED <<current, held, session, wire, leg, turn>>
    BY <1>1 DEF vars
  <2> QED BY <2>1 DEF Bound, GoodTurn, GoodRequest, GoodLeg, GoodSession, OnlyOf
<1>2. ASSUME NEW i \in Investigations, Publish(i) \/ Expire(i) PROVE Bound'
  BY <1>2, PublishBound, ExpireBound
<1>3. ASSUME NEW t \in Turns, NEW i \in Investigations, Begin(t, i) PROVE Bound'
  BY <1>3, BeginBound
<1>4. ASSUME NEW t \in Turns, TimeOut(t) \/ Lose(t) \/ Go(t) PROVE Bound'
  BY <1>4, GiveUpBound, LoseBound, RunToolsBound DEF Go
<1>5. ASSUME NEW t \in Turns, Receive(t) PROVE Bound'
  BY <1>5, ReceiveOpeningBound, ResumeBound, SessionExpiredBound DEF Receive
<1>6. ASSUME NEW t \in Turns, Reply(t) PROVE Bound'
  BY <1>6, ModelCallsBound, ModelEndsBound DEF Reply
<1>7. CASE Restart
  BY <1>7, RestartBound
<1> QED BY <1>1, <1>2, <1>3, <1>4, <1>5, <1>6, <1>7 DEF Next

\* ModelSeesOneDataset: whatever turns share a session, and whatever is
\* published, evicted, expired or lost while they run, the messages and the tool
\* results that a model is given (agent/session.py, agentclient/tools.go) are of
\* the Dataset of its turn.
THEOREM OneDatasetPerTurn == Spec => []ModelSeesOneDataset
<1>1. Bound => ModelSeesOneDataset
  BY DEF Bound, GoodLeg, OnlyOf, ModelSeesOneDataset
<1> QED BY InitBound, BoundStep, <1>1, PTL DEF Spec

----------------------------------------------------------------------------
\* The store holds one session for each Investigation.

OneEach(store) ==
    \A j, k \in DOMAIN store : turn[store[j][1]].of = turn[store[k][1]].of => j = k

LEMMA Removed ==
    ASSUME NEW S, NEW store \in Seq(S), NEW k \in 1..Len(store)
    PROVE  LET rest == RemoveAt(store, k) IN
           /\ rest \in Seq(S) /\ Len(rest) = Len(store) - 1
           /\ \A j \in 1..Len(rest) : rest[j] = IF j < k THEN store[j] ELSE store[j + 1]
<1> DEFINE before == SubSeq(store, 1, k - 1)
           after  == SubSeq(store, k + 1, Len(store))
           rest   == before \o after
<1>1. /\ before \in Seq(S) /\ Len(before) = k - 1
      /\ \A j \in 1..(k - 1) : before[j] = store[j]
  <2>1. \A j \in 1..(k - 1) : store[j] \in S
    OBVIOUS
  <2> QED BY <2>1, SubSeqProperties
<1>2. /\ after \in Seq(S) /\ Len(after) = Len(store) - k
      /\ \A j \in 1..(Len(store) - k) : after[j] = store[k + j]
  <2>1. \A j \in (k + 1)..Len(store) : store[j] \in S
    OBVIOUS
  <2>2. /\ after \in Seq(S)
        /\ Len(after) = IF k + 1 <= Len(store) THEN Len(store) - (k + 1) + 1 ELSE 0
        /\ \A j \in 1..(Len(store) - (k + 1) + 1) : after[j] = store[k + 1 + j - 1]
    <3> HIDE DEF after
    <3> QED BY <2>1, SubSeqProperties DEF after
  <2> HIDE DEF after
  <2> QED BY <2>2
<1> HIDE DEF before, after
<1>3. /\ rest \in Seq(S) /\ Len(rest) = Len(before) + Len(after)
      /\ \A j \in 1..(Len(before) + Len(after)) :
            rest[j] = IF j <= Len(before) THEN before[j] ELSE after[j - Len(before)]
  BY <1>1, <1>2, ConcatProperties
<1> HIDE DEF rest
<1>4. Len(rest) = Len(store) - 1
  BY <1>1, <1>2, <1>3
<1>5. ASSUME NEW j \in 1..Len(rest) PROVE rest[j] = IF j < k THEN store[j] ELSE store[j + 1]
  <2>1. CASE j < k
    BY <1>1, <1>2, <1>3, <2>1
  <2>2. CASE ~(j < k)
    <3>1. j - (k - 1) \in 1..(Len(store) - k) /\ k + (j - (k - 1)) = j + 1
      BY <1>4, <2>2
    <3>2. rest[j] = after[j - (k - 1)]
      BY <1>1, <1>2, <1>3, <2>2
    <3> QED BY <1>2, <2>2, <3>1, <3>2
  <2> QED BY <2>1, <2>2
<1> QED BY <1>3, <1>4, <1>5 DEF RemoveAt, rest, before, after

\* The store without the session of an Investigation.
LEMMA WithoutOne ==
    ASSUME NEW S, NEW store \in Seq(S), OneEach(store), NEW i
    PROVE  LET rest == Without(store, i) IN
           /\ rest \in Seq(S) /\ OneEach(rest) /\ Len(rest) <= Len(store)
           /\ \A j \in DOMAIN rest : /\ turn[rest[j][1]].of # i
                                     /\ \E k \in DOMAIN store : rest[j] = store[k]
           /\ (\E k \in DOMAIN store : turn[store[k][1]].of = i) => Len(rest) = Len(store) - 1
<1> DEFINE places == {k \in DOMAIN store : turn[store[k][1]].of = i}
           rest == Without(store, i)
<1>1. CASE places = {}
  <2>1. rest = store
    BY <1>1 DEF Without
  <2> QED BY <1>1, <2>1
<1>2. CASE places # {}
  <2>1. PICK k \in 1..Len(store) : /\ turn[store[k][1]].of = i /\ rest = RemoveAt(store, k)
    <3> DEFINE c == CHOOSE k \in places : TRUE
    <3>1. c \in places
      BY <1>2
    <3>2. rest = RemoveAt(store, c)
      BY <1>2 DEF Without
    <3> HIDE DEF c, rest
    <3>3. c \in 1..Len(store) /\ turn[store[c][1]].of = i
      BY <3>1
    <3> QED BY <3>2, <3>3
  <2>2. /\ rest \in Seq(S) /\ Len(rest) = Len(store) - 1
        /\ \A j \in 1..Len(rest) : rest[j] = IF j < k THEN store[j] ELSE store[j + 1]
    BY <2>1, Removed
  <2> HIDE DEF rest
  <2> DEFINE at(j) == IF j < k THEN j ELSE j + 1
  <2>3. ASSUME NEW j \in DOMAIN rest PROVE at(j) \in DOMAIN store /\ at(j) # k /\ rest[j] = store[at(j)]
    BY <2>1, <2>2
  <2>4. \A j, l \in DOMAIN rest : at(j) = at(l) => j = l
    BY <2>2
  <2> HIDE DEF at
  <2>5. OneEach(rest)
    BY <2>3, <2>4 DEF OneEach
  <2>6. \A j \in DOMAIN rest : turn[rest[j][1]].of # i
    BY <2>1, <2>3 DEF OneEach
  <2> QED BY <2>2, <2>3, <2>5, <2>6 DEF rest
<1> QED BY <1>1, <1>2

\* A session put in the place of the one its Investigation had.
LEMMA Replaced ==
    ASSUME NEW S, NEW store \in Seq(S), OneEach(store), NEW s \in S
    PROVE  LET next == Append(Without(store, turn[s[1]].of), s) IN
           /\ next \in Seq(S) /\ OneEach(next)
           /\ \A j \in DOMAIN next : next[j] = s \/ \E k \in DOMAIN store : next[j] = store[k]
           /\ (\E k \in DOMAIN store : store[k] = s) => Len(next) = Len(store)
<1> DEFINE rest == Without(store, turn[s[1]].of)
           next == Append(rest, s)
<1>1. /\ rest \in Seq(S) /\ OneEach(rest)
      /\ \A j \in DOMAIN rest : /\ turn[rest[j][1]].of # turn[s[1]].of
                                /\ \E k \in DOMAIN store : rest[j] = store[k]
      /\ (\E k \in DOMAIN store : turn[store[k][1]].of = turn[s[1]].of) => Len(rest) = Len(store) - 1
  BY WithoutOne
<1> HIDE DEF rest
<1>2. /\ next \in Seq(S) /\ Len(next) = Len(rest) + 1
      /\ \A j \in 1..Len(rest) : next[j] = rest[j]
      /\ next[Len(rest) + 1] = s
  BY <1>1, AppendProperties
<1> HIDE DEF next
<1>3. \A j \in DOMAIN next : j = Len(rest) + 1 \/ j \in DOMAIN rest
  BY <1>1, <1>2
<1>4. OneEach(next)
  <2> SUFFICES ASSUME NEW j \in DOMAIN next, NEW k \in DOMAIN next,
                      turn[next[j][1]].of = turn[next[k][1]].of
               PROVE  j = k
    BY DEF OneEach
  <2>1. \A l \in DOMAIN rest : next[l] = rest[l] /\ turn[next[l][1]].of # turn[s[1]].of
    BY <1>1, <1>2
  <2>2. turn[next[Len(rest) + 1][1]].of = turn[s[1]].of
    BY <1>2
  <2>3. CASE j \in DOMAIN rest /\ k \in DOMAIN rest
    BY <1>1, <2>1, <2>3 DEF OneEach
  <2> QED BY <1>3, <2>1, <2>2, <2>3
<1>5. \A j \in DOMAIN next : next[j] = s \/ \E k \in DOMAIN store : next[j] = store[k]
  BY <1>1, <1>2, <1>3
<1>6. (\E k \in DOMAIN store : store[k] = s) => Len(next) = Len(store)
  BY <1>1, <1>2
<1> QED BY <1>2, <1>4, <1>5, <1>6 DEF next, rest

\* What is left of the store within its limit.
LEMMA EvictedOne ==
    ASSUME NEW S, NEW store \in Seq(S), OneEach(store)
    PROVE  LET rest == Evicted(store) IN
           /\ rest \in Seq(S) /\ OneEach(rest) /\ Len(rest) <= MaxSessions
           /\ \A j \in DOMAIN rest : \E k \in DOMAIN store : rest[j] = store[k]
<1> DEFINE bounds == {1, Len(store) - MaxSessions + 1}
           first == Max(bounds)
           rest == SubSeq(store, first, Len(store))
<1>1. bounds \subseteq Int
  OBVIOUS
<1>2. \E x \in bounds : \A y \in bounds : x >= y
  BY <1>1
<1>3. first \in Int /\ first >= 1 /\ first >= Len(store) - MaxSessions + 1
  BY <1>1, <1>2 DEF Max
<1> HIDE DEF first
<1>4. \A j \in first..Len(store) : store[j] \in S
  BY <1>3
<1>5. /\ rest \in Seq(S)
      /\ Len(rest) = IF first <= Len(store) THEN Len(store) - first + 1 ELSE 0
      /\ \A j \in 1..(Len(store) - first + 1) : rest[j] = store[first + j - 1]
  BY <1>3, <1>4, SubSeqProperties
<1> HIDE DEF rest
<1>6. \A j \in DOMAIN rest : first + j - 1 \in DOMAIN store /\ rest[j] = store[first + j - 1]
  <2> TAKE j \in DOMAIN rest
  <2>1. j \in 1..Len(rest) /\ Len(rest) = Len(store) - first + 1
    BY <1>3, <1>5
  <2>2. j \in Int /\ first + j - 1 \in 1..Len(store)
    BY <1>3, <2>1
  <2> QED BY <1>5, <2>1, <2>2
<1>7. OneEach(rest)
  <2> SUFFICES ASSUME NEW j \in DOMAIN rest, NEW k \in DOMAIN rest,
                      turn[rest[j][1]].of = turn[rest[k][1]].of
               PROVE  j = k
    BY DEF OneEach
  <2>1. first + j - 1 = first + k - 1
    BY <1>6 DEF OneEach
  <2> QED BY <1>3, <1>5, <2>1
<1>8. Len(rest) <= MaxSessions
  BY <1>3, <1>5
<1> QED BY <1>5, <1>6, <1>7, <1>8 DEF Evicted, rest, first

----------------------------------------------------------------------------
\* The rounds of a turn: no request is beyond them, and each opens one session
\* at most.

WithinRounds(t) ==
    /\ turn[t].round <= MaxToolCalls
    /\ turn[t].opened <= MaxToolCalls + 1
    /\ turn[t].step \in Active => turn[t].opened <= turn[t].round + 1
    /\ wire[t].kind # "none" => /\ turn[t].opened <= wire[t].round /\ wire[t].round <= MaxToolCalls
                                /\ turn[t].step \in Active => wire[t].round = turn[t].round

\* A step that neither starts a round nor sends or opens anything for a turn.
Quiet(t) ==
    /\ turn'[t].opened = turn[t].opened
    /\ turn'[t].step \in Active => turn[t].step \in Active /\ turn'[t].round = turn[t].round
    /\ turn'[t].round \in {turn[t].round, 0}
    /\ wire'[t] = wire[t] \/ wire'[t].kind = "none"

LEMMA QuietKeepsRounds ==
    ASSUME NEW t \in Turns, WithinRounds(t), Quiet(t) PROVE WithinRounds(t)'
BY DEF WithinRounds, Quiet

LEMMA Types ==
    ASSUME Bound, NEW t \in Turns
    PROVE  /\ turn[t].round \in Nat /\ turn[t].opened \in Nat /\ turn[t].step \in Steps
           /\ turn[t].dataset \in Nat
           /\ wire[t].round \in Nat /\ (turn[t].step = "idle" => turn[t].opened = 0)
           /\ (turn[t].step # "idle" => turn[t].of \in Investigations)
           /\ turn[t] = [step |-> turn[t].step, of |-> turn[t].of, dataset |-> turn[t].dataset,
                         round |-> turn[t].round, opened |-> turn[t].opened, alone |-> turn[t].alone]
BY DEF Bound, GoodTurn, GoodRequest, TurnState, Request

LEMMA Numbers ==
    ASSUME Bound, NEW t \in Turns
    PROVE  turn[t].round \in Nat /\ turn[t].opened \in Nat /\ wire[t].round \in Nat /\ MaxToolCalls \in Nat
BY Types

\* A turn that has ended, or whose step alone has changed.
LEMMA EndedIsQuiet ==
    ASSUME Bound, NEW t \in Turns
    PROVE  Ended(t).opened = turn[t].opened /\ Ended(t).step = "ended" /\ Ended(t).round = 0
           /\ Ended(t).of = turn[t].of
BY Types DEF Ended

\* Every step is quiet for every turn, but four for the turn they serve.
LEMMA QuietSteps ==
    ASSUME Bound, Next, NEW u \in Turns
    PROVE  \/ Quiet(u)
           \/ \E i \in Investigations : Begin(u, i)
           \/ RunTools(u) \/ ReceiveOpening(u) \/ SessionExpired(u)
<1>1. ASSUME NEW i \in Investigations, Publish(i) \/ Expire(i) PROVE Quiet(u)
  BY <1>1 DEF Publish, Expire, Quiet
<1>2. ASSUME NEW t \in Turns, NEW i \in Investigations, Begin(t, i), u # t PROVE Quiet(u)
  <2>1. wire'[u] = wire[u]
    BY <1>2 DEF Begin, Bound
  <2>2. turn'[u] = [turn[u] EXCEPT !.alone = @ /\ u \notin AtWork(i)]
    BY <1>2 DEF Begin
  <2>3. turn'[u].opened = turn[u].opened /\ turn'[u].step = turn[u].step /\ turn'[u].round = turn[u].round
    BY <2>2, Types
  <2> QED BY <2>1, <2>3 DEF Quiet
<1>3. ASSUME NEW t \in Turns, RunTools(t) \/ ReceiveOpening(t) \/ SessionExpired(t), u # t PROVE Quiet(u)
  <2>1. wire'[u] = wire[u] /\ turn'[u] = turn[u]
    BY <1>3 DEF RunTools, ReceiveOpening, SessionExpired, Bound
  <2> QED BY <2>1 DEF Quiet
<1>4. ASSUME NEW t \in Turns, TimeOut(t) \/ LeaveLoop(t) PROVE Quiet(u)
  <2>1. wire'[u] = wire[u] /\ turn'[u] = IF u = t THEN Ended(u) ELSE turn[u]
    BY <1>4 DEF TimeOut, LeaveLoop, Bound
  <2> QED BY <2>1, EndedIsQuiet DEF Quiet, Active
<1>5. ASSUME NEW t \in Turns, Lose(t) \/ Resume(t) PROVE Quiet(u)
  <2>1. wire'[u] = (IF u = t THEN Nothing ELSE wire[u]) /\ turn'[u] = turn[u]
    BY <1>5 DEF Lose, Resume, Bound
  <2> QED BY <2>1 DEF Quiet, Nothing
<1>6. ASSUME NEW t \in Turns, ModelAnswers(t) \/ ModelFails(t) PROVE Quiet(u)
  <2>1. wire'[u] = wire[u]
        /\ turn'[u] = IF u = t /\ turn[u].step = "waiting" THEN Ended(u) ELSE turn[u]
    BY <1>6 DEF ModelAnswers, ModelFails, Bound
  <2> QED BY <2>1, EndedIsQuiet DEF Quiet, Active
<1>7. ASSUME NEW t \in Turns, ModelCalls(t) PROVE Quiet(u)
  <2>1. wire'[u] = wire[u]
        /\ turn'[u] = IF u = t /\ turn[u].step = "waiting" THEN [turn[u] EXCEPT !.step = "tools"] ELSE turn[u]
    <3>1. turn[t] = [turn[t] EXCEPT !.step = turn[t].step]
      BY Types
    <3> QED BY <1>7, <3>1 DEF ModelCalls, Bound
  <2>2. CASE u = t /\ turn[u].step = "waiting"
    <3>1. turn'[u].opened = turn[u].opened /\ turn'[u].round = turn[u].round
      BY <2>1, <2>2, Types
    <3> QED BY <2>1, <2>2, <3>1 DEF Quiet, Active
  <2> QED BY <2>1, <2>2 DEF Quiet
<1>8. CASE Restart
  <2>1. wire'[u] = wire[u]
        /\ turn'[u] = IF leg[u] # NoLeg /\ turn[u].step = "waiting" THEN Ended(u) ELSE turn[u]
    BY <1>8 DEF Restart
  <2> QED BY <2>1, EndedIsQuiet DEF Quiet, Active
<1> QED BY <1>1, <1>2, <1>3, <1>4, <1>5, <1>6, <1>7, <1>8 DEF Next, Receive, Reply, Go

LEMMA RoundsStep ==
    ASSUME Bound, NEW t \in Turns, WithinRounds(t), Next PROVE WithinRounds(t)'
<1>1. CASE Quiet(t)
  BY <1>1, QuietKeepsRounds
<1>2. ASSUME NEW i \in Investigations, Begin(t, i) PROVE WithinRounds(t)'
  <2>1. turn'[t].round = 0 /\ turn'[t].opened = 0 /\ wire'[t].round = 0
    BY <1>2 DEF Begin, Bound, Open
  <2> QED BY <2>1 DEF WithinRounds
<1>3. CASE RunTools(t)
  <2>1. turn[t].step = "tools" /\ turn[t].round < MaxToolCalls
    BY <1>3 DEF RunTools
  <2>2. /\ turn'[t] = [turn[t] EXCEPT !.step = "waiting", !.round = @ + 1]
        /\ wire'[t].round = turn[t].round + 1
    BY <1>3 DEF RunTools, Bound
  <2>3. turn'[t].round = turn[t].round + 1 /\ turn'[t].opened = turn[t].opened
    BY <2>2, Types
  <2>4. turn[t].opened <= turn[t].round + 1
    BY <2>1 DEF WithinRounds, Active
  <2>5. turn[t].round + 1 <= MaxToolCalls
    BY <2>1, Numbers
  <2>6. turn[t].opened <= MaxToolCalls + 1 /\ turn[t].opened <= turn[t].round + 1 + 1
    BY <2>4, <2>5, Numbers
  <2> QED BY <2>2, <2>3, <2>4, <2>5, <2>6 DEF WithinRounds
<1>4. CASE ReceiveOpening(t)
  <2>1. wire[t].kind = "open" /\ wire'[t].kind = "none"
    BY <1>4 DEF ReceiveOpening, Bound, Nothing
  <2>2. turn'[t] = [turn[t] EXCEPT !.opened = @ + 1]
    BY <1>4 DEF ReceiveOpening, Bound
  <2>3. turn'[t].round = turn[t].round /\ turn'[t].opened = turn[t].opened + 1 /\ turn'[t].step = turn[t].step
    BY <2>2, Types
  <2>4. turn[t].opened <= wire[t].round /\ wire[t].round <= MaxToolCalls
        /\ (turn[t].step \in Active => wire[t].round = turn[t].round)
    BY <2>1 DEF WithinRounds
  <2>5. turn[t].opened + 1 <= MaxToolCalls + 1
    BY <2>4, Numbers
  <2>6. turn[t].step \in Active => turn[t].opened + 1 <= turn[t].round + 1
    BY <2>4, Numbers
  <2> QED BY <2>1, <2>3, <2>5, <2>6 DEF WithinRounds
<1>5. CASE SessionExpired(t)
  <2>1. /\ wire[t].kind = "resume" /\ turn' = turn
        /\ wire'[t] = IF turn[t].step = "waiting" THEN Open(turn[t].dataset, turn[t].round) ELSE Nothing
    BY <1>5 DEF SessionExpired, Bound
  <2> QED BY <2>1 DEF WithinRounds, Open, Nothing, Active
<1> QED BY <1>1, <1>2, <1>3, <1>4, <1>5, QuietSteps

----------------------------------------------------------------------------
\* What a step does to the store and to the sessions there are.

Fresh == {<<t, turn[t].opened + 1>> : t \in {u \in Turns : turn[u].step # "idle"}}

LEMMA OpenedIsFresh ==
    ASSUME Bound, NEW t \in Turns, ReceiveOpening(t) PROVE <<t, turn[t].opened + 1>> \in Fresh
<1>1. turn[t].step # "idle"
  BY DEF ReceiveOpening, Bound, GoodTurn
<1> QED BY <1>1 DEF Fresh

\* A store that the present one may become.
Successor(store) ==
    /\ OneEach(store) /\ Len(store) <= MaxSessions
    /\ store \in Seq(DOMAIN session \cup Fresh)

LEMMA StoreStep ==
    ASSUME Bound, OneEach(held), Len(held) <= MaxSessions, Next
    PROVE  \E store : held' = store /\ Successor(store)
<1>1. held \in Seq(DOMAIN session)
  BY DEF Bound
<1>2. Successor(held)
  BY <1>1 DEF Successor
<1>3. ASSUME NEW i PROVE Successor(Without(held, i))
  <2>1. PICK rest : rest = Without(held, i)
    OBVIOUS
  <2>2. rest \in Seq(DOMAIN session) /\ OneEach(rest) /\ Len(rest) <= Len(held)
    BY <1>1, <2>1, WithoutOne
  <2>3. Len(rest) <= MaxSessions
    BY <1>1, <2>2
  <2> QED BY <2>1, <2>2, <2>3 DEF Successor
<1>4. ASSUME NEW t \in Turns, ReceiveOpening(t) PROVE \E store : held' = store /\ Successor(store)
  <2>1. PICK S : S = DOMAIN session \cup Fresh
    OBVIOUS
  <2>2. PICK s : s = <<t, turn[t].opened + 1>>
    OBVIOUS
  <2>3. s \in S /\ s[1] = t /\ held \in Seq(S)
    BY <1>1, <1>4, <2>1, <2>2, OpenedIsFresh
  <2>4. PICK next : next = Append(Without(held, turn[s[1]].of), s)
    OBVIOUS
  <2>5. next \in Seq(S) /\ OneEach(next)
    BY <2>3, <2>4, Replaced
  <2>6. PICK rest : rest = Evicted(next)
    OBVIOUS
  <2>7. rest \in Seq(S) /\ OneEach(rest) /\ Len(rest) <= MaxSessions
    BY <2>5, <2>6, EvictedOne
  <2>8. held' = rest
    BY <1>4, <2>2, <2>3, <2>4, <2>6 DEF ReceiveOpening
  <2> QED BY <2>1, <2>7, <2>8 DEF Successor
<1>5. ASSUME NEW t \in Turns, Resume(t) PROVE \E store : held' = store /\ Successor(store)
  <2>1. PICK s \in Matching(t) : held' = Append(Without(held, turn[t].of), s)
    BY <1>5 DEF Resume
  <2>2. turn[s[1]].of = turn[t].of /\ s \in DOMAIN session /\ \E k \in DOMAIN held : held[k] = s
    BY <1>1 DEF Matching, ToSet
  <2>3. PICK next : next = Append(Without(held, turn[s[1]].of), s)
    OBVIOUS
  <2>4. PICK S : S = DOMAIN session \cup Fresh
    OBVIOUS
  <2>5. s \in S /\ held \in Seq(S)
    BY <1>1, <2>2, <2>4
  <2>6. next \in Seq(S) /\ OneEach(next) /\ Len(next) = Len(held)
    BY <2>2, <2>3, <2>5, Replaced
  <2>7. held' = next
    BY <2>1, <2>2, <2>3
  <2> QED BY <2>4, <2>6, <2>7 DEF Successor
<1>6. CASE Restart
  <2>1. held' = <<>>
    BY <1>6 DEF Restart
  <2>2. OneEach(<<>>)
    BY DEF OneEach
  <2>3. Len(<<>>) <= MaxSessions
    OBVIOUS
  <2>4. Successor(<<>>)
    BY <2>2, <2>3 DEF Successor
  <2> QED BY <2>1, <2>4
<1>7. ASSUME NEW t \in Turns, SessionExpired(t) PROVE \E store : held' = store /\ Successor(store)
  BY <1>3, <1>7 DEF SessionExpired
<1>8. ASSUME NEW i \in Investigations, Expire(i) PROVE \E store : held' = store /\ Successor(store)
  BY <1>3, <1>8 DEF Expire
<1>9. CASE held' = held
  BY <1>2, <1>9
<1>10. ASSUME NEW t \in Turns, NEW i \in Investigations,
             Publish(i) \/ Begin(t, i) \/ TimeOut(t) \/ Lose(t) \/ Reply(t) \/ Go(t)
       PROVE  held' = held
  BY <1>10 DEF Publish, Begin, TimeOut, Lose, Reply, ModelCalls, ModelAnswers, ModelFails,
               Go, RunTools, LeaveLoop
<1>11. ASSUME NEW i \in Investigations, Publish(i) PROVE held' = held
  BY <1>11 DEF Publish
<1>12. ASSUME NEW t \in Turns, TimeOut(t) \/ Lose(t) \/ Reply(t) \/ Go(t) PROVE held' = held
  BY <1>12 DEF TimeOut, Lose, Reply, ModelCalls, ModelAnswers, ModelFails, Go, RunTools, LeaveLoop
<1> QED BY <1>4, <1>5, <1>6, <1>7, <1>8, <1>9, <1>10, <1>11, <1>12 DEF Next, Receive

\* The requests of the sidecar are on a session there was, or a new one.
LEMMA LegStep ==
    ASSUME Bound, Next, NEW t \in Turns
    PROVE  leg'[t] = NoLeg \/ leg'[t].on \in DOMAIN session \cup Fresh
<1>1. CASE leg'[t] = leg[t]
  BY <1>1 DEF Bound, GoodLeg
<1>2. ASSUME NEW u \in Turns, ReceiveOpening(u) PROVE leg'[t] = leg[t] \/ leg'[t].on \in Fresh
  <2>1. leg'[t] = leg[t] \/ leg'[t].on = <<u, turn[u].opened + 1>>
    BY <1>2 DEF ReceiveOpening, Bound
  <2> QED BY <1>2, <2>1, OpenedIsFresh
<1>3. ASSUME NEW u \in Turns, Resume(u) PROVE leg'[t] = leg[t] \/ leg'[t].on \in DOMAIN session
  <2>1. PICK s \in Matching(u) : leg'[t] = leg[t] \/ leg'[t].on = s
    BY <1>3 DEF Resume, Bound
  <2>2. s \in DOMAIN session
    BY DEF Matching, ToSet, Bound
  <2> QED BY <2>1, <2>2
<1>4. ASSUME NEW u \in Turns, Reply(u) PROVE leg'[t] = leg[t] \/ leg'[t] = NoLeg
  BY <1>4 DEF Reply, ModelCalls, ModelAnswers, ModelFails, Bound
<1>5. CASE Restart
  BY <1>5 DEF Restart
<1>6. ASSUME NEW u \in Turns, TimeOut(u) \/ Lose(u) \/ SessionExpired(u) \/ Go(u) PROVE leg'[t] = leg[t]
  BY <1>6 DEF TimeOut, Lose, SessionExpired, Go, RunTools, LeaveLoop
<1>7. ASSUME NEW i \in Investigations, Publish(i) \/ Expire(i) PROVE leg'[t] = leg[t]
  BY <1>7 DEF Publish, Expire
<1>8. ASSUME NEW u \in Turns, NEW i \in Investigations, Begin(u, i) PROVE leg'[t] = leg[t]
  BY <1>8 DEF Begin
<1> QED BY <1>1, <1>2, <1>3, <1>4, <1>5, <1>6, <1>7, <1>8 DEF Next, Receive

LEMMA KeptSessions ==
    ASSUME NEW content, Keep(content), NEW s \in DOMAIN session'
    PROVE  s \in ToSet(held') \/ \E t \in Turns : s = leg'[t].on /\ leg'[t].on # <<>>
BY DEF Keep

LEMMA SessionsStep ==
    ASSUME Bound, OneEach(held), Len(held) <= MaxSessions, Next
    PROVE  DOMAIN session' \subseteq DOMAIN session \cup Fresh
<1>1. \/ session' = session
      \/ \E content : Keep(content)
  BY DEF Next, Publish, Expire, Begin, TimeOut, Lose, Receive, ReceiveOpening, Resume, SessionExpired,
         Reply, ModelCalls, ModelAnswers, ModelFails, Go, RunTools, LeaveLoop, Restart
<1>2. ASSUME NEW content, Keep(content), NEW s \in DOMAIN session'
      PROVE  s \in DOMAIN session \cup Fresh
  <2>1. CASE s \in ToSet(held')
    BY <2>1, StoreStep DEF Successor, ToSet
  <2>2. ASSUME NEW t \in Turns, s = leg'[t].on, leg'[t].on # <<>> PROVE s \in DOMAIN session \cup Fresh
    BY <2>2, LegStep DEF NoLeg
  <2> QED BY <1>2, <2>1, <2>2, KeptSessions
<1> QED BY <1>1, <1>2

\* A turn that has begun stays with its Investigation.
LEMMA OfKept ==
    ASSUME Bound, Next, NEW t \in Turns, turn[t].step # "idle"
    PROVE  turn'[t].of = turn[t].of
<1>1. ASSUME NEW u \in Turns, NEW i \in Investigations, Begin(u, i) PROVE turn'[t].of = turn[t].of
  <2>1. u # t
    BY <1>1 DEF Begin
  <2>2. turn'[t] = [turn[t] EXCEPT !.alone = @ /\ t \notin AtWork(i)]
    BY <1>1, <2>1 DEF Begin
  <2> QED BY <2>2, Types
<1>2. ASSUME NEW u \in Turns, TimeOut(u) \/ LeaveLoop(u) \/ ModelAnswers(u) \/ ModelFails(u)
      PROVE  turn'[t].of = turn[t].of
  <2>1. turn'[t] = turn[t] \/ turn'[t] = Ended(t)
    BY <1>2 DEF TimeOut, LeaveLoop, ModelAnswers, ModelFails, Bound
  <2> QED BY <2>1, EndedIsQuiet
<1>3. ASSUME NEW u \in Turns, RunTools(u) \/ ModelCalls(u) \/ ReceiveOpening(u)
      PROVE  turn'[t].of = turn[t].of
  <2>1. turn[t] = [step |-> turn[t].step, of |-> turn[t].of, dataset |-> turn[t].dataset,
                   round |-> turn[t].round, opened |-> turn[t].opened, alone |-> turn[t].alone]
    BY Types
  <2>2. CASE u # t
    BY <1>3, <2>2 DEF RunTools, ModelCalls, ReceiveOpening, Bound
  <2>3. CASE u = t
    <3>1. \/ turn'[t] = [turn[t] EXCEPT !.step = "waiting", !.round = @ + 1]
          \/ turn'[t] = [turn[t] EXCEPT !.step = IF @ = "waiting" THEN "tools" ELSE @]
          \/ turn'[t] = [turn[t] EXCEPT !.opened = @ + 1]
      BY <1>3, <2>3 DEF RunTools, ModelCalls, ReceiveOpening, Bound
    <3> QED BY <2>1, <3>1
  <2> QED BY <2>2, <2>3
<1>4. ASSUME NEW u \in Turns, Lose(u) \/ Resume(u) \/ SessionExpired(u) PROVE turn' = turn
  BY <1>4 DEF Lose, Resume, SessionExpired
<1>5. ASSUME NEW i \in Investigations, Publish(i) \/ Expire(i) PROVE turn' = turn
  BY <1>5 DEF Publish, Expire
<1>6. CASE Restart
  <2>1. turn'[t] = turn[t] \/ turn'[t] = Ended(t)
    BY <1>6 DEF Restart
  <2> QED BY <2>1, EndedIsQuiet
<1> QED BY <1>1, <1>2, <1>3, <1>4, <1>5, <1>6 DEF Next, Receive, Reply, Go

----------------------------------------------------------------------------
\* The store is bounded, with one session for each Investigation.

Stored ==
    /\ \A i \in Investigations : current[i] <= LastDataset[i]
    /\ \A t \in Turns : WithinRounds(t)
    /\ \A s \in DOMAIN session : s[2] >= 1
    /\ Len(held) <= MaxSessions /\ OneEach(held)

LEMMA SessionIsOfATurn ==
    ASSUME Bound, Stored, NEW s \in DOMAIN session
    PROVE  s[1] \in Turns /\ turn[s[1]].step # "idle"
<1>1. GoodSession(session, s) /\ s[2] <= turn[s[1]].opened /\ s[2] >= 1
  BY DEF Bound, Stored
<1>2. s[1] \in Turns /\ s[2] \in Nat
  BY <1>1 DEF GoodSession, Ids
<1>3. turn[s[1]].opened # 0
  BY <1>1, <1>2, Numbers
<1> QED BY <1>2, <1>3, Types

LEMMA StoredStep == Bound /\ Stored /\ Next => Stored'
<1> SUFFICES ASSUME Bound, Stored, Next PROVE Stored'
  OBVIOUS
<1>1. \A t \in Turns : WithinRounds(t)'
  BY RoundsStep DEF Stored
<1>2. \A i \in Investigations : current'[i] <= LastDataset[i]
  <2>1. ASSUME NEW j \in Investigations, Publish(j), NEW i \in Investigations
        PROVE  current'[i] <= LastDataset[i]
    <3>1. current[i] <= LastDataset[i] /\ current[i] \in Nat /\ LastDataset[i] \in Nat
      BY DEF Stored, Bound
    <3>2. current'[i] = IF i = j THEN current[i] + 1 ELSE current[i]
      BY <2>1 DEF Publish, Bound
    <3>3. i = j => current[i] < LastDataset[i]
      BY <2>1 DEF Publish
    <3> QED BY <3>1, <3>2, <3>3
  <2>2. (\E j \in Investigations : Publish(j)) \/ current' = current
    BY DEF Next, Expire, Begin, TimeOut, Lose, Receive, ReceiveOpening, Resume, SessionExpired, Reply,
           ModelCalls, ModelAnswers, ModelFails, Go, RunTools, LeaveLoop, Restart
  <2> QED BY <2>1, <2>2 DEF Stored
<1>3. PICK store : held' = store /\ Successor(store)
  BY StoreStep DEF Stored
<1>4. \A s \in DOMAIN session \cup Fresh : s[2] >= 1
  <2>1. \A s \in Fresh : s[2] >= 1
    <3> TAKE s \in Fresh
    <3>1. PICK t \in Turns : s = <<t, turn[t].opened + 1>>
      BY DEF Fresh
    <3>2. turn[t].opened \in Nat
      BY Numbers
    <3> QED BY <3>1, <3>2
  <2> QED BY <2>1 DEF Stored
<1>5. \A s \in DOMAIN session' : s[2] >= 1
  BY <1>4, SessionsStep DEF Stored
<1>6. OneEach(held)'
  <2>1. store \in Seq(DOMAIN session \cup Fresh) /\ OneEach(store)
    BY <1>3 DEF Successor
  <2>2. \A j \in DOMAIN store : turn'[store[j][1]].of = turn[store[j][1]].of
    <3> TAKE j \in DOMAIN store
    <3>1. CASE store[j] \in DOMAIN session
      BY <3>1, SessionIsOfATurn, OfKept
    <3>2. CASE store[j] \in Fresh
      <4>1. PICK t \in Turns : store[j] = <<t, turn[t].opened + 1>> /\ turn[t].step # "idle"
        BY <3>2 DEF Fresh
      <4> QED BY <4>1, OfKept
    <3> QED BY <2>1, <3>1, <3>2
  <2> QED BY <1>3, <2>1, <2>2 DEF OneEach
<1> QED BY <1>1, <1>2, <1>3, <1>5, <1>6 DEF Stored, Successor

LEMMA BoundedAlways == Spec => [](Bound /\ Stored)
<1>1. Init => Stored
  <2> SUFFICES ASSUME Init PROVE Stored
    OBVIOUS
  <2>1. \A t \in Turns : WithinRounds(t)
    BY DEF Init, WithinRounds, IdleTurn, Nothing, Active
  <2>2. \A i \in Investigations : current[i] <= LastDataset[i]
    BY DEF Init
  <2>3. held = <<>> /\ DOMAIN session = {}
    BY DEF Init
  <2>4. Len(held) <= MaxSessions /\ DOMAIN held = {}
    BY <2>3
  <2> QED BY <2>1, <2>2, <2>3, <2>4 DEF Stored, OneEach
<1>2. Bound /\ Stored /\ [Next]_vars => Stored'
  <2>1. Stored /\ UNCHANGED vars => Stored'
    BY DEF Stored, vars, WithinRounds, OneEach
  <2> QED BY <2>1, StoredStep
<1> QED BY InitBound, BoundStep, <1>1, <1>2, PTL DEF Spec

\* TypeOK: the sidecar holds MaxSessions sessions at most, one for each
\* Investigation (agent/session.py:80-100), whatever turns open, replace or
\* resume them; a turn goes round MaxToolCalls times at most and opens one
\* session at most for each round and its opening (agentclient/provider.go),
\* though its sessions are evicted, expired or lost in a restart.
THEOREM SessionsAreBounded == Spec => []TypeOK
<1>1. Bound /\ Stored => TypeOK
  <2> SUFFICES ASSUME Bound, Stored PROVE TypeOK
    OBVIOUS
  <2>1. \A i \in Investigations : current[i] \in 0..LastDataset[i]
    BY DEF Bound, Stored
  <2>2. ToSet(held) \subseteq DOMAIN session
    BY DEF Bound, ToSet
  <2>3. DOMAIN session \subseteq Sessions
    <3> SUFFICES ASSUME NEW s \in DOMAIN session PROVE s \in Sessions
      OBVIOUS
    <3>1. GoodSession(session, s) /\ s[2] <= turn[s[1]].opened /\ s[2] >= 1
      BY DEF Bound, Stored
    <3>2. PICK t \in Turns, n \in Nat : s = <<t, n>>
      BY <3>1 DEF GoodSession, Ids
    <3>3. turn[t].opened \in Nat /\ turn[t].opened <= MaxToolCalls + 1
      BY Numbers DEF Stored, WithinRounds
    <3>4. n \in 1..(MaxToolCalls + 1)
      BY <3>1, <3>2, <3>3, Numbers
    <3> QED BY <3>2, <3>4 DEF Sessions
  <2>4. ASSUME NEW t \in Turns
        PROVE  /\ turn[t].step \in Steps
               /\ turn[t].round \in 0..MaxToolCalls
               /\ turn[t].opened \in 0..(MaxToolCalls + 1)
               /\ turn[t].step \in Active => turn[t].opened <= turn[t].round + 1
               /\ leg[t] = NoLeg \/ leg[t].on \in Sessions
    <3>1. WithinRounds(t) /\ GoodLeg(t)
      BY DEF Bound, Stored
    <3>2. turn[t].round \in 0..MaxToolCalls /\ turn[t].opened \in 0..(MaxToolCalls + 1)
      BY <3>1, Numbers DEF WithinRounds
    <3> QED BY <2>3, <3>1, <3>2, Types DEF WithinRounds, GoodLeg
  <2> QED BY <2>1, <2>2, <2>3, <2>4 DEF TypeOK, Stored, OneEach
<1> QED BY BoundedAlways, <1>1, PTL

----------------------------------------------------------------------------
\* The conversation of a turn that has its Investigation to itself.

\* Messages up to the results of round r: an opening on Dataset d, and each of
\* the calls since then with the results of that call.
Talk(t, d, m, r) ==
    \E n \in Nat :
        /\ Len(m) = 2 * n + 1 /\ m[1] = Opening(t)
        /\ \A k \in 1..n : /\ m[2 * k] = Calls(t, r - n + k)
                           /\ \E D \in SUBSET {d} : m[2 * k + 1] = Results(t, r - n + k, D)

\* The same, and the calls of round r.
Asked(t, d, m, r) ==
    \E n \in Nat :
        /\ Len(m) = 2 * n + 2 /\ m[1] = Opening(t) /\ m[2 * n + 2] = Calls(t, r)
        /\ \A k \in 1..n : /\ m[2 * k] = Calls(t, r - 1 - n + k)
                           /\ \E D \in SUBSET {d} : m[2 * k + 1] = Results(t, r - 1 - n + k, D)

LEMMA TalkOpens == ASSUME NEW t, NEW d, NEW r PROVE Talk(t, d, <<Opening(t)>>, r)
<1>1. Len(<<Opening(t)>>) = 2 * 0 + 1 /\ <<Opening(t)>>[1] = Opening(t) /\ 1..0 = {} /\ 0 \in Nat
  OBVIOUS
<1> QED BY <1>1 DEF Talk

LEMMA TalkAsks ==
    ASSUME NEW t, NEW d, NEW S, NEW m \in Seq(S), NEW r \in Nat, Talk(t, d, m, r),
           Calls(t, r + 1) \in S
    PROVE  Asked(t, d, Append(m, Calls(t, r + 1)), r + 1)
<1> DEFINE asked == Append(m, Calls(t, r + 1))
<1>1. PICK n \in Nat :
        /\ Len(m) = 2 * n + 1 /\ m[1] = Opening(t)
        /\ \A k \in 1..n : /\ m[2 * k] = Calls(t, r - n + k)
                           /\ \E D \in SUBSET {d} : m[2 * k + 1] = Results(t, r - n + k, D)
  BY DEF Talk
<1>2. /\ Len(asked) = Len(m) + 1 /\ asked[Len(m) + 1] = Calls(t, r + 1)
      /\ \A k \in 1..Len(m) : asked[k] = m[k]
  BY AppendProperties
<1> HIDE DEF asked
<1>3. Len(asked) = 2 * n + 2 /\ asked[1] = Opening(t) /\ asked[2 * n + 2] = Calls(t, r + 1)
  BY <1>1, <1>2
<1>4. ASSUME NEW k \in 1..n
      PROVE  /\ asked[2 * k] = Calls(t, (r + 1) - 1 - n + k)
             /\ \E D \in SUBSET {d} : asked[2 * k + 1] = Results(t, (r + 1) - 1 - n + k, D)
  <2>1. 2 * k \in 1..Len(m) /\ 2 * k + 1 \in 1..Len(m) /\ (r + 1) - 1 - n + k = r - n + k
    BY <1>1
  <2>2. asked[2 * k] = m[2 * k] /\ asked[2 * k + 1] = m[2 * k + 1]
    BY <1>2, <2>1
  <2> QED BY <1>1, <2>1, <2>2
<1> QED BY <1>3, <1>4 DEF Asked, asked

LEMMA AskedIsAnswered ==
    ASSUME NEW t, NEW d, NEW S, NEW m \in Seq(S), NEW r \in Nat, Asked(t, d, m, r),
           NEW D \in SUBSET {d}, Results(t, r, D) \in S
    PROVE  Talk(t, d, Append(m, Results(t, r, D)), r)
<1> DEFINE talk == Append(m, Results(t, r, D))
<1>1. PICK n \in Nat :
        /\ Len(m) = 2 * n + 2 /\ m[1] = Opening(t) /\ m[2 * n + 2] = Calls(t, r)
        /\ \A k \in 1..n : /\ m[2 * k] = Calls(t, r - 1 - n + k)
                           /\ \E E \in SUBSET {d} : m[2 * k + 1] = Results(t, r - 1 - n + k, E)
  BY DEF Asked
<1>2. /\ Len(talk) = Len(m) + 1 /\ talk[Len(m) + 1] = Results(t, r, D)
      /\ \A k \in 1..Len(m) : talk[k] = m[k]
  BY AppendProperties
<1> HIDE DEF talk
<1>3. Len(talk) = 2 * (n + 1) + 1 /\ talk[1] = Opening(t) /\ n + 1 \in Nat
  <2>1. 1 \in 1..Len(m) /\ n + 1 \in Nat
    BY <1>1
  <2>2. talk[1] = Opening(t)
    BY <1>1, <1>2, <2>1
  <2>3. Len(talk) = 2 * (n + 1) + 1
    BY <1>1, <1>2
  <2> QED BY <2>1, <2>2, <2>3
<1>4. ASSUME NEW k \in 1..(n + 1)
      PROVE  /\ talk[2 * k] = Calls(t, r - (n + 1) + k)
             /\ \E E \in SUBSET {d} : talk[2 * k + 1] = Results(t, r - (n + 1) + k, E)
  <2>1. CASE k = n + 1
    <3>1. 2 * k = 2 * n + 2 /\ 2 * k + 1 = Len(m) + 1 /\ r - (n + 1) + k = r /\ 2 * n + 2 \in 1..Len(m)
      BY <1>1, <2>1
    <3>2. talk[2 * k] = Calls(t, r) /\ talk[2 * k + 1] = Results(t, r, D)
      BY <1>1, <1>2, <3>1
    <3> QED BY <3>1, <3>2
  <2>2. CASE k # n + 1
    <3>1. k \in 1..n /\ 2 * k \in 1..Len(m) /\ 2 * k + 1 \in 1..Len(m)
          /\ r - (n + 1) + k = r - 1 - n + k
      BY <1>1, <2>2
    <3>2. talk[2 * k] = m[2 * k] /\ talk[2 * k + 1] = m[2 * k + 1]
      BY <1>2, <3>1
    <3> QED BY <1>1, <3>1, <3>2
  <2> QED BY <2>1, <2>2
<1> QED BY <1>3, <1>4 DEF Talk, talk

\* Half of an odd number's predecessor.
LEMMA Halves == ASSUME NEW n \in Nat PROVE (2 * n + 1) % 2 = 1 /\ (2 * n + 1 - 1) \div 2 = n
OBVIOUS

OnItsOwn(t) == turn[t].alone /\ turn[t].step \in Active
Free(u)     == wire[u] = Nothing /\ leg[u] = NoLeg /\ turn[u].step \notin Active

\* The sessions in the store that requests of a turn may find.
Its(t) == {s \in ToSet(held) : turn[s[1]].of = turn[t].of}

Undisturbed(t) == \A u \in Turns : u # t /\ turn[u].of = turn[t].of => Free(u)

Thinking(t) == leg[t] # NoLeg =>
    /\ wire[t].kind = "none" /\ turn[t].step = "waiting"
    /\ leg[t].round = turn[t].round
    /\ Talk(t, turn[t].dataset, leg[t].given, turn[t].round)
    /\ session[leg[t].on].pending = leg[t].given
    /\ \A s \in Its(t) : s = leg[t].on

Resuming(t) == wire[t].kind = "resume" =>
    \A s \in Its(t) : Asked(t, turn[t].dataset, session[s].pending, turn[t].round)

Executing(t) == turn[t].step = "tools" =>
    /\ wire[t].kind = "none"
    /\ \A s \in Its(t) : Asked(t, turn[t].dataset, session[s].pending, turn[t].round + 1)

Coherent(t) == OnItsOwn(t) => Undisturbed(t) /\ Thinking(t) /\ Resuming(t) /\ Executing(t)

\* A request is worked on with a session of its own Investigation.
OnOwnSession(t) == leg[t] # NoLeg => turn[leg[t].on[1]].of = turn[t].of

Coherence == \A t \in Turns : Coherent(t) /\ OnOwnSession(t)

\* What a coherent turn promises.
LEMMA CoherenceIs == Coherence => AloneTurnIsCoherent
<1> SUFFICES ASSUME Coherence, NEW t \in Turns, leg[t] # NoLeg, turn[t].alone, turn[t].step = "waiting"
    PROVE  LET given == leg[t].given IN
           /\ given[1] = Opening(t)
           /\ Len(given) % 2 = 1
           /\ \A k \in 1..((Len(given) - 1) \div 2) :
                 LET round == turn[t].round - (Len(given) - 1) \div 2 + k IN
                 /\ given[2 * k] = Calls(t, round)
                 /\ \E D \in SUBSET {turn[t].dataset} : given[2 * k + 1] = Results(t, round, D)
  BY DEF AloneTurnIsCoherent
<1>1. Talk(t, turn[t].dataset, leg[t].given, turn[t].round)
  BY DEF Coherence, Coherent, OnItsOwn, Active, Thinking
<1>2. PICK given : given = leg[t].given
  OBVIOUS
<1>3. PICK n \in Nat :
        /\ Len(given) = 2 * n + 1 /\ given[1] = Opening(t)
        /\ \A k \in 1..n : /\ given[2 * k] = Calls(t, turn[t].round - n + k)
                           /\ \E D \in SUBSET {turn[t].dataset} :
                                 given[2 * k + 1] = Results(t, turn[t].round - n + k, D)
  BY <1>1, <1>2 DEF Talk
<1>4. Len(given) % 2 = 1 /\ (Len(given) - 1) \div 2 = n
  BY <1>3, Halves
<1> QED BY <1>2, <1>3, <1>4

----------------------------------------------------------------------------
\* What a step of another turn, or of nobody's, leaves of a conversation.

LEMMA Contents ==
    ASSUME NEW content, Keep(content), NEW s \in DOMAIN session' PROVE session'[s] = content[s]
BY DEF Keep

\* A store without the session of an Investigation.
LEMMA Dropped ==
    ASSUME Bound, Stored, NEW i
    PROVE  /\ Without(held, i) \in Seq(DOMAIN session)
           /\ \A s \in ToSet(Without(held, i)) : s \in ToSet(held) /\ turn[s[1]].of # i
<1>1. held \in Seq(DOMAIN session) /\ OneEach(held)
  BY DEF Bound, Stored
<1>2. PICK rest : rest = Without(held, i)
  OBVIOUS
<1>3. /\ rest \in Seq(DOMAIN session)
      /\ \A j \in DOMAIN rest : turn[rest[j][1]].of # i /\ \E k \in DOMAIN held : rest[j] = held[k]
  BY <1>1, <1>2, WithoutOne
<1> QED BY <1>2, <1>3 DEF ToSet

\* The same, with another session in its place.
LEMMA Changed ==
    ASSUME Bound, Stored, NEW i, NEW r, NEW s \in ToSet(Append(Without(held, i), r))
    PROVE  s = r \/ (s \in ToSet(held) /\ turn[s[1]].of # i)
<1>1. PICK rest : rest = Without(held, i)
  OBVIOUS
<1>2. rest \in Seq(DOMAIN session \cup {r}) /\ \A x \in ToSet(rest) : x \in ToSet(held) /\ turn[x[1]].of # i
  BY <1>1, Dropped
<1>3. PICK next : next = Append(rest, r)
  OBVIOUS
<1>4. /\ Len(next) = Len(rest) + 1 /\ next \in Seq(DOMAIN session \cup {r})
      /\ \A j \in 1..Len(rest) : next[j] = rest[j]
      /\ next[Len(rest) + 1] = r
  BY <1>2, <1>3, AppendProperties
<1>5. PICK j \in 1..Len(next) : next[j] = s
  BY <1>1, <1>3, <1>4 DEF ToSet
<1>6. CASE j = Len(rest) + 1
  BY <1>4, <1>5, <1>6
<1>7. CASE j # Len(rest) + 1
  <2>1. j \in 1..Len(rest)
    BY <1>2, <1>4, <1>5, <1>7
  <2>2. s \in ToSet(rest)
    BY <1>4, <1>5, <2>1 DEF ToSet
  <2> QED BY <1>2, <2>2
<1> QED BY <1>6, <1>7

LEMMA OpenedStore ==
    ASSUME Bound, Stored, NEW t \in Turns, ReceiveOpening(t), NEW s \in ToSet(held')
    PROVE  s = <<t, turn[t].opened + 1>> \/ (s \in ToSet(held) /\ turn[s[1]].of # turn[t].of)
<1>1. PICK r : r = <<t, turn[t].opened + 1>>
  OBVIOUS
<1>2. PICK S : S = DOMAIN session \cup {r}
  OBVIOUS
<1>3. r \in S /\ r[1] = t /\ held \in Seq(S) /\ OneEach(held)
  BY <1>1, <1>2 DEF Bound, Stored
<1>4. PICK next : next = Append(Without(held, turn[r[1]].of), r)
  OBVIOUS
<1>5. next \in Seq(S) /\ OneEach(next)
  BY <1>3, <1>4, Replaced
<1>6. PICK rest : rest = Evicted(next)
  OBVIOUS
<1>7. rest \in Seq(S) /\ \A j \in DOMAIN rest : \E k \in DOMAIN next : rest[j] = next[k]
  BY <1>5, <1>6, EvictedOne
<1>8. held' = rest
  BY <1>1, <1>3, <1>4, <1>6 DEF ReceiveOpening
<1>9. s \in ToSet(next)
  BY <1>7, <1>8 DEF ToSet
<1> QED BY <1>1, <1>3, <1>4, <1>9, Changed

\* A session in the store, and the turn it is of, after a step.
LEMMA HeldAfter ==
    ASSUME Bound, Stored, Next, NEW s \in ToSet(held'), s \in ToSet(held)
    PROVE  /\ s \in DOMAIN session /\ s \in DOMAIN session'
           /\ s[1] \in Turns /\ turn'[s[1]].of = turn[s[1]].of
<1>1. held \in Seq(DOMAIN session)
  BY DEF Bound
<1>2. Bound'
  BY BoundStep
<1>3. held' \in Seq(DOMAIN session')
  BY <1>2 DEF Bound
<1>4. s \in DOMAIN session /\ s \in DOMAIN session'
  BY <1>1, <1>3 DEF ToSet
<1> QED BY <1>4, SessionIsOfATurn, OfKept

\* Whoever moves, a turn whose Investigation is left alone goes on as it was.
LEMMA LeftAlone ==
    ASSUME Bound, Stored, Next, NEW t \in Turns, Coherent(t),
           /\ turn'[t].step = turn[t].step /\ turn'[t].of = turn[t].of
           /\ turn'[t].round = turn[t].round /\ turn'[t].dataset = turn[t].dataset
           /\ turn'[t].alone => turn[t].alone,
           wire'[t] = wire[t], leg'[t] = leg[t],
           OnItsOwn(t)' => Undisturbed(t)',
           \A s \in ToSet(held') : turn'[s[1]].of = turn[t].of => s \in ToSet(held),
           \A s \in DOMAIN session' : turn[s[1]].of = turn[t].of => session'[s] = session[s],
           OnOwnSession(t)
    PROVE  Coherent(t)'
<1> SUFFICES ASSUME OnItsOwn(t)' PROVE Undisturbed(t)' /\ Thinking(t)' /\ Resuming(t)' /\ Executing(t)'
  BY DEF Coherent
<1>1. OnItsOwn(t) /\ Thinking(t) /\ Resuming(t) /\ Executing(t)
  BY DEF OnItsOwn, Coherent
<1>2. \A s \in Its(t)' : s \in Its(t) /\ session'[s] = session[s]
  <2> SUFFICES ASSUME NEW s \in ToSet(held'), turn'[s[1]].of = turn'[t].of
               PROVE  s \in Its(t) /\ session'[s] = session[s]
    BY DEF Its
  <2>1. s \in ToSet(held)
    OBVIOUS
  <2>2. s \in DOMAIN session' /\ turn[s[1]].of = turn[t].of
    BY <2>1, HeldAfter
  <2> QED BY <2>1, <2>2 DEF Its
<1>3. Bound'
  BY BoundStep
<1>4. leg[t] # NoLeg => session'[leg[t].on] = session[leg[t].on]
  <2> HAVE leg[t] # NoLeg
  <2>1. leg'[t].on \in DOMAIN session'
    BY <1>3 DEF Bound, GoodLeg
  <2> QED BY <2>1 DEF OnOwnSession
<1>5. Thinking(t)'
  BY <1>1, <1>2, <1>4 DEF Thinking
<1>6. Resuming(t)'
  BY <1>1, <1>2 DEF Resuming
<1>7. Executing(t)'
  BY <1>1, <1>2 DEF Executing
<1> QED BY <1>5, <1>6, <1>7

\* A step that serves turn u.
Serves(u) == TimeOut(u) \/ Lose(u) \/ Receive(u) \/ Reply(u) \/ Go(u)

LEMMA ServedIsBusy ==
    ASSUME Bound, Next, NEW u \in Turns, Serves(u) PROVE ~Free(u) /\ turn'[u].of = turn[u].of
<1>1. turn[u].step = "idle" => wire[u].kind = "none" /\ leg[u] = NoLeg
  BY DEF Bound, GoodTurn
<1>2. CASE TimeOut(u) \/ Go(u)
  <2>1. turn[u].step \in Active
    BY <1>2 DEF TimeOut, Go, RunTools, LeaveLoop, Active
  <2> QED BY <2>1, OfKept DEF Free, Active
<1>3. CASE Receive(u)
  <2>1. wire[u].kind \in {"open", "resume"}
    BY <1>3 DEF Receive, ReceiveOpening, Resume, SessionExpired
  <2> QED BY <1>1, <2>1, OfKept DEF Free, Nothing
<1>4. CASE Reply(u)
  <2>1. leg[u] # NoLeg
    BY <1>4 DEF Reply, ModelCalls, ModelAnswers, ModelFails
  <2> QED BY <1>1, <2>1, OfKept DEF Free
<1>5. CASE Lose(u)
  BY <1>5 DEF Lose, Free
<1> QED BY <1>2, <1>3, <1>4, <1>5 DEF Serves

LEMMA ServedAlone ==
    ASSUME Bound, NEW u \in Turns, Serves(u), NEW t \in Turns, t # u
    PROVE  turn'[t] = turn[t] /\ wire'[t] = wire[t] /\ leg'[t] = leg[t]
BY DEF Serves, TimeOut, Lose, Receive, ReceiveOpening, Resume, SessionExpired, Reply, ModelCalls,
       ModelAnswers, ModelFails, Go, RunTools, LeaveLoop, Bound

\* It puts no session of another Investigation into the store.
LEMMA ServedStore ==
    ASSUME Bound, Stored, NEW u \in Turns, Serves(u), turn'[u].of = turn[u].of, NEW s \in ToSet(held')
    PROVE  s \in ToSet(held) \/ turn'[s[1]].of = turn[u].of
<1>1. CASE ReceiveOpening(u)
  <2>1. <<u, turn[u].opened + 1>>[1] = u
    OBVIOUS
  <2> QED BY <1>1, <2>1, OpenedStore
<1>2. CASE Resume(u)
  <2>1. PICK r \in Matching(u) : held' = Append(Without(held, turn[u].of), r)
    BY <1>2 DEF Resume
  <2>2. r \in ToSet(held)
    BY DEF Matching
  <2> QED BY <2>1, <2>2, Changed
<1>3. CASE SessionExpired(u)
  BY <1>3, Dropped DEF SessionExpired
<1>4. CASE held' = held
  BY <1>4
<1> QED BY <1>1, <1>2, <1>3, <1>4 DEF Serves, TimeOut, Lose, Receive, Reply, ModelCalls, ModelAnswers,
                                      ModelFails, Go, RunTools, LeaveLoop

\* It changes no session of another Investigation.
LEMMA ServedSessions ==
    ASSUME Bound, Stored, NEW u \in Turns, Serves(u), OnOwnSession(u),
           NEW s \in DOMAIN session', turn[s[1]].of # turn[u].of
    PROVE  session'[s] = session[s]
<1>1. CASE ReceiveOpening(u)
  <2>1. <<u, turn[u].opened + 1>>[1] = u
    OBVIOUS
  <2>2. s # <<u, turn[u].opened + 1>>
    BY <2>1
  <2>3. PICK r : r = <<u, turn[u].opened + 1>>
    OBVIOUS
  <2>4. PICK content : Keep(content)
          /\ content = [x \in DOMAIN session \cup {r} |->
                         IF x = r THEN [dataset |-> wire[u].dataset, pending |-> <<Opening(u)>>]
                         ELSE session[x]]
    BY <1>1, <2>3 DEF ReceiveOpening
  <2>5. session'[s] = content[s]
    BY <2>4, Contents
  <2>6. s \in DOMAIN session \cup {r}
    <3>1. CASE s \in ToSet(held')
      <4>1. s \in ToSet(held)
        BY <1>1, <2>2, <3>1, OpenedStore
      <4> QED BY <4>1 DEF ToSet, Bound
    <3>2. ASSUME NEW t \in Turns, s = leg'[t].on, leg'[t].on # <<>> PROVE s \in DOMAIN session \cup {r}
      <4>1. leg'[t] = leg[t] \/ leg'[t].on = r
        BY <1>1, <2>3 DEF ReceiveOpening, Bound
      <4>2. leg[t] # NoLeg => leg[t].on \in DOMAIN session
        BY DEF Bound, GoodLeg
      <4> QED BY <3>2, <4>1, <4>2 DEF NoLeg
    <3> QED BY <2>4, <3>1, <3>2, KeptSessions
  <2> QED BY <2>2, <2>3, <2>4, <2>5, <2>6
<1>2. CASE Resume(u)
  <2>1. PICK r \in Matching(u) : \E m : Keep([session EXCEPT ![r].pending = m])
    BY <1>2 DEF Resume
  <2>4. PICK m : Keep([session EXCEPT ![r].pending = m])
    BY <2>1
  <2>2. turn[r[1]].of = turn[u].of
    BY DEF Matching
  <2>3. session'[s] = [session EXCEPT ![r].pending = m][s]
    BY <2>4, Contents
  <2> QED BY <2>2, <2>3
<1>3. CASE ModelCalls(u) \/ ModelAnswers(u)
  <2>1. PICK m : Keep([session EXCEPT ![leg[u].on].pending = m])
    <3>1. CASE ModelCalls(u)
      BY <3>1 DEF ModelCalls
    <3>2. CASE ModelAnswers(u)
      BY <3>2 DEF ModelAnswers
    <3> QED BY <1>3, <3>1, <3>2
  <2>2. turn[leg[u].on[1]].of = turn[u].of
    BY <1>3 DEF OnOwnSession, ModelCalls, ModelAnswers
  <2>3. session'[s] = [session EXCEPT ![leg[u].on].pending = m][s]
    BY <2>1, Contents
  <2> QED BY <2>2, <2>3
<1>4. CASE SessionExpired(u) \/ ModelFails(u)
  <2>1. Keep(session)
    BY <1>4 DEF SessionExpired, ModelFails
  <2> QED BY <2>1, Contents
<1>5. CASE session' = session
  BY <1>5
<1> QED BY <1>1, <1>2, <1>3, <1>4, <1>5 DEF Serves, TimeOut, Lose, Receive, Reply, Go, RunTools, LeaveLoop

----------------------------------------------------------------------------
\* Every step, as one turn that is on its own sees it.

\* Another turn is served.
LEMMA ServedElsewhere ==
    ASSUME Bound, Stored, Coherence, Next, NEW u \in Turns, Serves(u), NEW t \in Turns, t # u
    PROVE  Coherent(t)'
<1>1. ~Free(u) /\ turn'[u].of = turn[u].of
  BY ServedIsBusy
<1>2. \A v \in Turns : v # u => turn'[v] = turn[v] /\ wire'[v] = wire[v] /\ leg'[v] = leg[v]
  BY ServedAlone
<1>3. SUFFICES ASSUME OnItsOwn(t)' PROVE Coherent(t)'
  BY DEF Coherent
<1>4. OnItsOwn(t) /\ Undisturbed(t)
  BY <1>2, <1>3 DEF OnItsOwn, Coherence, Coherent
<1>5. turn[u].of # turn[t].of
  BY <1>1, <1>4 DEF Undisturbed
<1>6. Undisturbed(t)'
  BY <1>1, <1>2, <1>4, <1>5 DEF Undisturbed, Free
<1>7. ASSUME NEW s \in ToSet(held'), turn'[s[1]].of = turn[t].of PROVE s \in ToSet(held)
  BY <1>1, <1>5, <1>7, ServedStore
<1>8. ASSUME NEW s \in DOMAIN session', turn[s[1]].of = turn[t].of PROVE session'[s] = session[s]
  <2>1. OnOwnSession(u)
    BY DEF Coherence
  <2> QED BY <1>5, <1>8, <2>1, ServedSessions
<1>9. Coherent(t) /\ OnOwnSession(t)
  BY DEF Coherence
<1> QED BY <1>2, <1>6, <1>7, <1>8, <1>9, LeftAlone

\* Nobody is served, and sessions at most are lost.
LEMMA SessionsLost ==
    ASSUME Bound, Stored, Coherence, Next, UNCHANGED <<wire, leg, turn>>,
           \A s \in ToSet(held') : s \in ToSet(held),
           \A s \in DOMAIN session' : session'[s] = session[s],
           NEW t \in Turns
    PROVE  Coherent(t)'
<1>1. Coherent(t) /\ OnOwnSession(t)
  BY DEF Coherence
<1>2. OnItsOwn(t)' => Undisturbed(t)'
  BY <1>1 DEF Coherent, OnItsOwn, Undisturbed, Free
<1> QED BY <1>1, <1>2, LeftAlone

LEMMA PublishedOrExpired ==
    ASSUME Bound, Stored, Coherence, Next, NEW i \in Investigations, Publish(i) \/ Expire(i), NEW t \in Turns
    PROVE  Coherent(t)'
<1>1. UNCHANGED <<wire, leg, turn>>
  BY DEF Publish, Expire
<1>2. \A s \in ToSet(held') : s \in ToSet(held)
  BY Dropped DEF Publish, Expire
<1>3. \A s \in DOMAIN session' : session'[s] = session[s]
  <2>1. session' = session \/ Keep(session)
    BY DEF Publish, Expire
  <2> QED BY <2>1, Contents
<1> QED BY <1>1, <1>2, <1>3, SessionsLost

\* Another turn begins, or the turn itself.
LEMMA BegunCoherent ==
    ASSUME Bound, Stored, Coherence, Next, NEW u \in Turns, NEW i \in Investigations, Begin(u, i), NEW t \in Turns
    PROVE  Coherent(t)'
<1>1. /\ \A v \in Turns : wire'[v] = IF v = u THEN Open(current[i], 0) ELSE wire[v]
      /\ leg' = leg /\ held' = held /\ session' = session
  BY DEF Begin, Bound
<1>2. ASSUME NEW v \in Turns, v # u
      PROVE  /\ turn'[v].step = turn[v].step /\ turn'[v].of = turn[v].of
             /\ turn'[v].round = turn[v].round /\ turn'[v].dataset = turn[v].dataset
             /\ turn'[v].alone => turn[v].alone /\ v \notin AtWork(i)
  <2>1. turn'[v] = [turn[v] EXCEPT !.alone = @ /\ v \notin AtWork(i)]
    BY <1>2 DEF Begin
  <2>2. turn[v] = [step |-> turn[v].step, of |-> turn[v].of, dataset |-> turn[v].dataset,
                   round |-> turn[v].round, opened |-> turn[v].opened, alone |-> turn[v].alone]
    BY Types
  <2> QED BY <2>1, <2>2
<1>3. turn'[u].of = i /\ turn'[u].step = "waiting" /\ (turn'[u].alone <=> AtWork(i) = {})
  BY DEF Begin
<1>4. CASE t = u
  <2> SUFFICES ASSUME OnItsOwn(u)'
               PROVE  Undisturbed(u)' /\ Thinking(u)' /\ Resuming(u)' /\ Executing(u)'
    BY <1>4 DEF Coherent
  <2>1. AtWork(i) = {}
    BY <1>3 DEF OnItsOwn
  <2>2. Undisturbed(u)'
    <3> SUFFICES ASSUME NEW v \in Turns, v # u, turn'[v].of = i PROVE Free(v)'
      BY <1>3 DEF Undisturbed
    <3>1. turn[v].of = i /\ v \notin AtWork(i)
      BY <1>2, <2>1
    <3>2. Free(v)
      BY <3>1 DEF AtWork, Free
    <3> QED BY <1>1, <1>2, <3>2 DEF Free
  <2>3. leg'[u] = NoLeg
    BY <1>1 DEF Begin, Bound, GoodTurn
  <2>4. wire'[u].kind = "open"
    BY <1>1 DEF Open
  <2> QED BY <1>3, <2>2, <2>3, <2>4 DEF Thinking, Resuming, Executing
<1>5. CASE t # u
  <2>1. Coherent(t) /\ OnOwnSession(t)
    BY DEF Coherence
  <2>2. ASSUME OnItsOwn(t)' PROVE Undisturbed(t)'
    <3>1. t \notin AtWork(i) /\ turn[t].step \in Active /\ OnItsOwn(t)
      BY <1>2, <1>5, <2>2 DEF OnItsOwn
    <3>2. turn[t].of # i
      BY <3>1 DEF AtWork
    <3>3. Undisturbed(t)
      BY <2>1, <3>1 DEF Coherent
    <3> SUFFICES ASSUME NEW v \in Turns, v # t, turn'[v].of = turn'[t].of PROVE Free(v)'
      BY DEF Undisturbed
    <3>4. v # u /\ turn[v].of = turn[t].of
      BY <1>2, <1>3, <1>5, <3>2
    <3>5. Free(v)
      BY <3>3, <3>4 DEF Undisturbed
    <3> QED BY <1>1, <1>2, <3>4, <3>5 DEF Free
  <2>3. wire'[t] = wire[t]
    BY <1>1, <1>5
  <2> QED BY <1>1, <1>2, <1>5, <2>1, <2>2, <2>3, LeftAlone
<1> QED BY <1>4, <1>5

LEMMA RestartedCoherent ==
    ASSUME Bound, Stored, Coherence, Restart, NEW t \in Turns
    PROVE  Coherent(t)'
<1>1. held' = <<>> /\ leg' = [u \in Turns |-> NoLeg] /\ wire' = wire
  BY DEF Restart
<1>2. Its(t)' = {}
  BY <1>1 DEF Its, ToSet
<1>3. ASSUME NEW u \in Turns PROVE turn'[u] = turn[u] \/ (turn'[u] = Ended(u) /\ turn'[u].of = turn[u].of
                                                         /\ turn'[u].step \notin Active)
  <2>1. turn'[u] = turn[u] \/ turn'[u] = Ended(u)
    BY DEF Restart
  <2> QED BY <2>1, EndedIsQuiet DEF Active
<1> SUFFICES ASSUME OnItsOwn(t)' PROVE Undisturbed(t)' /\ Thinking(t)' /\ Resuming(t)' /\ Executing(t)'
  BY DEF Coherent
<1>4. turn'[t] = turn[t] /\ OnItsOwn(t)
  BY <1>3 DEF OnItsOwn
<1>5. Undisturbed(t) /\ Executing(t)
  BY <1>4 DEF Coherence, Coherent
<1>6. Undisturbed(t)'
  BY <1>1, <1>3, <1>4, <1>5 DEF Undisturbed, Free
<1> QED BY <1>1, <1>2, <1>4, <1>5, <1>6 DEF Thinking, Resuming, Executing

----------------------------------------------------------------------------
\* The steps that serve the turn itself.

\* Nobody else of its Investigation moves.
LEMMA StillUndisturbed ==
    ASSUME Bound, Next, NEW t \in Turns, Serves(t), OnItsOwn(t), Coherent(t) PROVE Undisturbed(t)'
<1>1. Undisturbed(t) /\ turn'[t].of = turn[t].of
  BY ServedIsBusy DEF Coherent
<1>2. \A v \in Turns : v # t => turn'[v] = turn[v] /\ wire'[v] = wire[v] /\ leg'[v] = leg[v]
  BY ServedAlone
<1> QED BY <1>1, <1>2 DEF Undisturbed, Free

\* What a turn is, when it is served.
LEMMA ServedTurn ==
    ASSUME Bound, NEW t \in Turns
    PROVE  /\ TimeOut(t) \/ LeaveLoop(t) => turn'[t].step \notin Active
           /\ ModelAnswers(t) \/ ModelFails(t) => turn'[t].step # "waiting" /\ (turn'[t].step = "tools" => turn[t].step = "tools")
           /\ Resume(t) \/ SessionExpired(t) \/ Lose(t) => turn'[t] = turn[t]
           /\ ReceiveOpening(t) => /\ turn'[t].alone = turn[t].alone /\ turn'[t].step = turn[t].step
                                   /\ turn'[t].round = turn[t].round /\ turn'[t].of = turn[t].of
                                   /\ turn'[t].dataset = turn[t].dataset
           /\ RunTools(t) => /\ turn'[t].alone = turn[t].alone /\ turn'[t].step = "waiting"
                             /\ turn'[t].round = turn[t].round + 1 /\ turn'[t].of = turn[t].of
                             /\ turn'[t].dataset = turn[t].dataset
           /\ ModelCalls(t) => /\ turn'[t].alone = turn[t].alone /\ turn'[t].of = turn[t].of
                               /\ turn'[t].step = IF turn[t].step = "waiting" THEN "tools" ELSE turn[t].step
                               /\ turn'[t].round = turn[t].round /\ turn'[t].dataset = turn[t].dataset
<1>1. turn[t] = [step |-> turn[t].step, of |-> turn[t].of, dataset |-> turn[t].dataset,
                 round |-> turn[t].round, opened |-> turn[t].opened, alone |-> turn[t].alone]
  BY Types
<1>2. TimeOut(t) \/ LeaveLoop(t) => turn'[t].step \notin Active
  <2>1. TimeOut(t) \/ LeaveLoop(t) => turn'[t] = Ended(t)
    BY DEF TimeOut, LeaveLoop, Bound
  <2> QED BY <2>1, EndedIsQuiet DEF Active
<1>3. ModelAnswers(t) \/ ModelFails(t) => turn'[t].step # "waiting" /\ (turn'[t].step = "tools" => turn[t].step = "tools")
  <2>1. ModelAnswers(t) \/ ModelFails(t) => turn'[t] = IF turn[t].step = "waiting" THEN Ended(t) ELSE turn[t]
    BY DEF ModelAnswers, ModelFails, Bound
  <2> QED BY <2>1, EndedIsQuiet
<1>4. Resume(t) \/ SessionExpired(t) \/ Lose(t) => turn'[t] = turn[t]
  BY DEF Resume, SessionExpired, Lose
<1>5. ReceiveOpening(t) => turn'[t] = [turn[t] EXCEPT !.opened = @ + 1]
  BY DEF ReceiveOpening, Bound
<1>6. RunTools(t) => turn'[t] = [turn[t] EXCEPT !.step = "waiting", !.round = @ + 1]
  BY DEF RunTools, Bound
<1>7. ModelCalls(t) => turn'[t] = [turn[t] EXCEPT !.step = IF @ = "waiting" THEN "tools" ELSE @]
  BY DEF ModelCalls, Bound
<1>8. ReceiveOpening(t) => /\ turn'[t].alone = turn[t].alone /\ turn'[t].step = turn[t].step
                           /\ turn'[t].round = turn[t].round /\ turn'[t].of = turn[t].of
                           /\ turn'[t].dataset = turn[t].dataset
  BY <1>1, <1>5
<1>9. RunTools(t) => /\ turn'[t].alone = turn[t].alone /\ turn'[t].step = "waiting"
                     /\ turn'[t].round = turn[t].round + 1 /\ turn'[t].of = turn[t].of
                     /\ turn'[t].dataset = turn[t].dataset
  BY <1>1, <1>6
<1>10. ModelCalls(t) => /\ turn'[t].alone = turn[t].alone /\ turn'[t].of = turn[t].of
                        /\ turn'[t].step = IF turn[t].step = "waiting" THEN "tools" ELSE turn[t].step
                        /\ turn'[t].round = turn[t].round /\ turn'[t].dataset = turn[t].dataset
  BY <1>1, <1>7
<1> QED BY <1>2, <1>3, <1>4, <1>8, <1>9, <1>10

\* A request that opened a session has one.
LEMMA OpenedLeg ==
    ASSUME NEW t, NEW n, NEW r, NEW g PROVE [on |-> <<t, n>>, round |-> r, given |-> g] # NoLeg
<1>1. <<t, n>> # <<>>
  OBVIOUS
<1>2. [on |-> <<t, n>>, round |-> r, given |-> g].on = <<t, n>>
  OBVIOUS
<1>3. NoLeg.on = <<>>
  BY DEF NoLeg
<1> QED BY <1>1, <1>2, <1>3

\* A turn stays coherent when the service opens a session for it.
LEMMA OpeningCoherent ==
    ASSUME Bound, Stored, Next, NEW t \in Turns, Coherent(t), ReceiveOpening(t) PROVE Coherent(t)'
<1> SUFFICES ASSUME OnItsOwn(t)' PROVE Undisturbed(t)' /\ Thinking(t)' /\ Resuming(t)' /\ Executing(t)'
  BY DEF Coherent
<1>1. /\ turn'[t].step = turn[t].step /\ turn'[t].round = turn[t].round /\ turn'[t].of = turn[t].of
      /\ turn'[t].dataset = turn[t].dataset /\ OnItsOwn(t)
  BY ServedTurn DEF OnItsOwn
<1>2. wire[t].kind = "open" /\ wire'[t] = Nothing
  BY DEF ReceiveOpening, Bound
<1>3. turn[t].step = "waiting"
  BY <1>1, <1>2 DEF OnItsOwn, Active, Coherent, Executing
<1>4. PICK s : s = <<t, turn[t].opened + 1>>
  OBVIOUS
<1>5. leg'[t] = [on |-> s, round |-> wire[t].round, given |-> <<Opening(t)>>]
  BY <1>4 DEF ReceiveOpening, Bound
<1>6. wire[t].round = turn[t].round
  BY <1>2, <1>3 DEF Stored, WithinRounds, Active
<1>7. PICK content : Keep(content)
        /\ content = [x \in DOMAIN session \cup {s} |->
                       IF x = s THEN [dataset |-> wire[t].dataset, pending |-> <<Opening(t)>>]
                       ELSE session[x]]
  BY <1>4 DEF ReceiveOpening
<1>8. session'[s].pending = <<Opening(t)>>
  <2>1. leg'[t] # NoLeg
    BY <1>5, <1>4, OpenedLeg
  <2>5. GoodLeg(t)'
    BY BoundStep DEF Bound
  <2>2. s \in DOMAIN session'
    BY <1>5, <2>1, <2>5 DEF GoodLeg
  <2>3. session'[s] = content[s]
    BY <1>7, <2>2, Contents
  <2> QED BY <1>7, <2>3
<1>9. ASSUME NEW x \in Its(t)' PROVE x = s
  <2>1. x \in ToSet(held') /\ turn'[x[1]].of = turn[t].of
    BY <1>1, <1>9 DEF Its
  <2>2. CASE x \in ToSet(held) /\ turn[x[1]].of # turn[t].of
    BY <2>1, <2>2, HeldAfter
  <2> QED BY <1>4, <2>1, <2>2, OpenedStore
<1>10. Talk(t, turn'[t].dataset, leg'[t].given, turn'[t].round)
  BY <1>5, TalkOpens
<1>11. Thinking(t)'
  BY <1>1, <1>2, <1>3, <1>5, <1>6, <1>8, <1>9, <1>10 DEF Thinking, Nothing
<1>12. Undisturbed(t)'
  BY <1>1, StillUndisturbed DEF Serves, Receive
<1> QED BY <1>1, <1>2, <1>3, <1>11, <1>12 DEF Resuming, Executing, Nothing

\* The messages a session keeps, and the results that are added to them.
LEMMA PendingType ==
    ASSUME Bound, NEW s \in DOMAIN session PROVE session[s].pending \in Seq(Message)
BY DEF Bound, GoodSession, OnlyOf

LEMMA ResumeCoherent ==
    ASSUME Bound, Stored, Next, NEW t \in Turns, Coherent(t), Resume(t) PROVE Coherent(t)'
<1> SUFFICES ASSUME OnItsOwn(t)' PROVE Undisturbed(t)' /\ Thinking(t)' /\ Resuming(t)' /\ Executing(t)'
  BY DEF Coherent
<1>1. turn'[t] = turn[t] /\ OnItsOwn(t)
  BY ServedTurn DEF OnItsOwn
<1>2. wire[t].kind = "resume" /\ wire'[t] = Nothing
  BY DEF Resume, Bound
<1>3. turn[t].step = "waiting" /\ Resuming(t)
  BY <1>1, <1>2 DEF OnItsOwn, Active, Coherent, Executing
<1>4. wire[t].round = turn[t].round
  BY <1>2, <1>3 DEF Stored, WithinRounds, Active
<1>5. PICK s \in Matching(t) :
        LET extended == Append(session[s].pending, Results(t, wire[t].round, wire[t].results)) IN
        /\ held' = Append(Without(held, turn[t].of), s)
        /\ leg' = [leg EXCEPT ![t] = [on |-> s, round |-> wire[t].round, given |-> extended]]
        /\ Keep([session EXCEPT ![s].pending = extended])
  BY DEF Resume
<1>6. PICK extended : extended = Append(session[s].pending, Results(t, wire[t].round, wire[t].results))
  OBVIOUS
<1>7. leg'[t] = [on |-> s, round |-> wire[t].round, given |-> extended]
  BY <1>5, <1>6 DEF Bound
<1>8. s \in Its(t) /\ s \in DOMAIN session
  BY DEF Matching, Its, ToSet, Bound
<1>9. session'[s].pending = extended
  <2>1. leg'[t] # NoLeg
    <3>1. s \in Ids
      BY <1>8 DEF Bound, GoodSession
    <3> QED BY <1>7, <3>1, NoIdIsEmpty DEF NoLeg
  <2>6. GoodLeg(t)'
    BY BoundStep DEF Bound
  <2>2. s \in DOMAIN session'
    BY <1>7, <2>1, <2>6 DEF GoodLeg
  <2>3. session'[s] = [session EXCEPT ![s].pending = extended][s]
    BY <1>5, <1>6, <2>2, Contents
  <2>4. session[s] = [dataset |-> session[s].dataset, pending |-> session[s].pending]
    BY <1>8 DEF Bound, GoodSession
  <2>5. [session EXCEPT ![s].pending = extended][s] = [session[s] EXCEPT !.pending = extended]
    BY <1>8
  <2> QED BY <2>3, <2>4, <2>5
<1>10. ASSUME NEW x \in Its(t)' PROVE x = s
  <2>1. x \in ToSet(held') /\ turn'[x[1]].of = turn[t].of
    BY <1>1, <1>10 DEF Its
  <2>2. CASE x \in ToSet(held) /\ turn[x[1]].of # turn[t].of
    BY <2>1, <2>2, HeldAfter
  <2> QED BY <1>5, <2>1, <2>2, Changed
<1>11. Talk(t, turn[t].dataset, extended, turn[t].round)
  <2>1. Asked(t, turn[t].dataset, session[s].pending, turn[t].round)
    BY <1>2, <1>3, <1>8 DEF Resuming
  <2>2. wire[t].results \in SUBSET {turn[t].dataset}
    BY <1>2 DEF Bound, GoodRequest
  <2>3. session[s].pending \in Seq(Message \cup {Results(t, turn[t].round, wire[t].results)})
    BY <1>8, PendingType
  <2>4. turn[t].round \in Nat
    BY Numbers
  <2>5. PICK m : m = session[s].pending
    OBVIOUS
  <2>6. PICK S : S = Message \cup {Results(t, turn[t].round, wire[t].results)}
    OBVIOUS
  <2> QED BY <1>4, <1>6, <2>1, <2>2, <2>3, <2>4, <2>5, <2>6, AskedIsAnswered
<1>12. Thinking(t)'
  BY <1>1, <1>2, <1>3, <1>4, <1>7, <1>9, <1>10, <1>11 DEF Thinking, Nothing
<1>13. Undisturbed(t)'
  BY <1>1, StillUndisturbed DEF Serves, Receive
<1> QED BY <1>1, <1>2, <1>3, <1>12, <1>13 DEF Resuming, Executing, Nothing

LEMMA ModelCallsCoherent ==
    ASSUME Bound, Stored, Next, NEW t \in Turns, Coherent(t), ModelCalls(t) PROVE Coherent(t)'
<1> SUFFICES ASSUME OnItsOwn(t)' PROVE Undisturbed(t)' /\ Thinking(t)' /\ Resuming(t)' /\ Executing(t)'
  BY DEF Coherent
<1>1. /\ turn'[t].alone = turn[t].alone /\ turn'[t].of = turn[t].of
      /\ turn'[t].step = IF turn[t].step = "waiting" THEN "tools" ELSE turn[t].step
      /\ turn'[t].round = turn[t].round /\ turn'[t].dataset = turn[t].dataset
  BY ServedTurn
<1>2. OnItsOwn(t)
  BY <1>1 DEF OnItsOwn, Active
<1>3. leg[t] # NoLeg /\ leg'[t] = NoLeg /\ wire' = wire /\ held' = held
  BY DEF ModelCalls, Bound
<1>4. Thinking(t) /\ turn[t].step = "waiting" /\ wire[t].kind = "none"
  BY <1>2, <1>3 DEF Coherent, Thinking
<1>5. PICK s : s = leg[t].on
  OBVIOUS
<1>6. PICK m : m = session[s].pending
  OBVIOUS
<1>7. s \in DOMAIN session /\ m \in Seq(Message) /\ Talk(t, turn[t].dataset, m, turn[t].round)
      /\ leg[t].round = turn[t].round
  BY <1>3, <1>4, <1>5, <1>6, PendingType DEF Thinking, Bound, GoodLeg
<1>8. PICK asked : asked = Append(m, Calls(t, turn[t].round + 1))
  OBVIOUS
<1>9. Keep([session EXCEPT ![s].pending = asked])
  BY <1>5, <1>6, <1>7, <1>8 DEF ModelCalls
<1>10. Asked(t, turn[t].dataset, asked, turn[t].round + 1)
  <2>1. PICK S : S = Message \cup {Calls(t, turn[t].round + 1)}
    OBVIOUS
  <2>2. m \in Seq(S) /\ Calls(t, turn[t].round + 1) \in S
    BY <1>7, <2>1
  <2>3. turn[t].round \in Nat
    BY Numbers
  <2> QED BY <1>7, <1>8, <2>2, <2>3, TalkAsks
<1>11. ASSUME NEW x \in Its(t)' PROVE x = s /\ session'[x].pending = asked
  <2>1. x \in ToSet(held') /\ x \in ToSet(held) /\ turn'[x[1]].of = turn[t].of
    BY <1>1, <1>3, <1>11 DEF Its
  <2>2. x \in DOMAIN session' /\ turn[x[1]].of = turn[t].of
    BY <2>1, HeldAfter
  <2>3. x = s
    BY <1>3, <1>4, <1>5, <2>1, <2>2 DEF Its, Thinking
  <2>4. session'[x] = [session EXCEPT ![s].pending = asked][x]
    BY <1>9, <2>2, Contents
  <2>5. session[s] = [dataset |-> session[s].dataset, pending |-> session[s].pending]
    BY <1>7 DEF Bound, GoodSession
  <2>6. [session EXCEPT ![s].pending = asked][s] = [session[s] EXCEPT !.pending = asked]
    BY <1>7
  <2> QED BY <2>3, <2>4, <2>5, <2>6
<1>12. Executing(t)'
  BY <1>1, <1>3, <1>4, <1>10, <1>11 DEF Executing
<1>13. Undisturbed(t)'
  BY <1>2, StillUndisturbed DEF Serves, Reply
<1> QED BY <1>1, <1>3, <1>4, <1>12, <1>13 DEF Thinking, Resuming

LEMMA RunToolsCoherent ==
    ASSUME Bound, Stored, Next, NEW t \in Turns, Coherent(t), RunTools(t) PROVE Coherent(t)'
<1> SUFFICES ASSUME OnItsOwn(t)' PROVE Undisturbed(t)' /\ Thinking(t)' /\ Resuming(t)' /\ Executing(t)'
  BY DEF Coherent
<1>1. /\ turn'[t].alone = turn[t].alone /\ turn'[t].step = "waiting" /\ turn'[t].of = turn[t].of
      /\ turn'[t].round = turn[t].round + 1 /\ turn'[t].dataset = turn[t].dataset
  BY ServedTurn
<1>2. turn[t].step = "tools" /\ OnItsOwn(t) /\ held' = held /\ session' = session /\ leg' = leg
  BY <1>1 DEF RunTools, OnItsOwn, Active
<1>3. leg[t] = NoLeg /\ Executing(t)
  BY <1>2 DEF Coherent, Thinking
<1>4. ASSUME NEW x \in Its(t)'
      PROVE  Asked(t, turn'[t].dataset, session'[x].pending, turn'[t].round)
  <2>1. x \in ToSet(held') /\ x \in ToSet(held) /\ turn'[x[1]].of = turn[t].of
    BY <1>1, <1>2, <1>4 DEF Its
  <2>2. x \in Its(t)
    BY <2>1, HeldAfter DEF Its
  <2> QED BY <1>1, <1>2, <1>3, <2>2 DEF Executing
<1>5. Undisturbed(t)'
  BY <1>2, StillUndisturbed DEF Serves, Go
<1> QED BY <1>1, <1>2, <1>3, <1>4, <1>5 DEF Thinking, Resuming, Executing

LEMMA ExpiredCoherent ==
    ASSUME Bound, Stored, Next, NEW t \in Turns, Coherent(t), SessionExpired(t) PROVE Coherent(t)'
<1> SUFFICES ASSUME OnItsOwn(t)' PROVE Undisturbed(t)' /\ Thinking(t)' /\ Resuming(t)' /\ Executing(t)'
  BY DEF Coherent
<1>1. turn'[t] = turn[t] /\ OnItsOwn(t) /\ leg' = leg /\ wire[t].kind = "resume"
  BY ServedTurn DEF OnItsOwn, SessionExpired
<1>2. turn[t].step = "waiting" /\ leg[t] = NoLeg
  BY <1>1 DEF OnItsOwn, Active, Coherent, Executing, Thinking
<1>3. wire'[t].kind = "open"
  BY <1>2 DEF SessionExpired, Bound, Open
<1>4. Undisturbed(t)'
  BY <1>1, StillUndisturbed DEF Serves, Receive
<1> QED BY <1>1, <1>2, <1>3, <1>4 DEF Thinking, Resuming, Executing

\* A turn that gives up or has its answer promises nothing more.
LEMMA OverCoherent ==
    ASSUME Bound, NEW t \in Turns, Coherent(t),
           TimeOut(t) \/ LeaveLoop(t) \/ Lose(t) \/ ModelAnswers(t) \/ ModelFails(t)
    PROVE  Coherent(t)'
<1>1. CASE TimeOut(t) \/ LeaveLoop(t)
  BY <1>1, ServedTurn DEF Coherent, OnItsOwn
<1>2. CASE Lose(t)
  BY <1>2, ServedTurn DEF Coherent, OnItsOwn, Lose
<1>3. CASE ModelAnswers(t) \/ ModelFails(t)
  <2>1. turn'[t] = IF turn[t].step = "waiting" THEN Ended(t) ELSE turn[t]
    BY <1>3 DEF ModelAnswers, ModelFails, Bound
  <2>2. leg[t] # NoLeg
    BY <1>3 DEF ModelAnswers, ModelFails
  <2>3. ~OnItsOwn(t)'
    <3> SUFFICES ASSUME OnItsOwn(t)' PROVE FALSE
      OBVIOUS
    <3>1. turn[t].step # "waiting" /\ turn'[t] = turn[t]
      BY <2>1, EndedIsQuiet DEF OnItsOwn, Active
    <3>2. OnItsOwn(t)
      BY <3>1 DEF OnItsOwn
    <3> QED BY <2>2, <3>1, <3>2 DEF Coherent, Thinking
  <2> QED BY <2>3 DEF Coherent
<1> QED BY <1>1, <1>2, <1>3

LEMMA ServedCoherent ==
    ASSUME Bound, Stored, Next, NEW t \in Turns, Coherent(t), Serves(t) PROVE Coherent(t)'
BY OpeningCoherent, ResumeCoherent, ModelCallsCoherent, RunToolsCoherent, ExpiredCoherent, OverCoherent
   DEF Serves, Receive, Reply, Go

\* A request goes on with the session it took, of the Investigation of its turn.
LEMMA OnOwnSessionStep ==
    ASSUME Bound, Stored, Next, NEW t \in Turns, OnOwnSession(t) PROVE OnOwnSession(t)'
<1>1. CASE leg'[t] = leg[t]
  <2> SUFFICES ASSUME leg[t] # NoLeg PROVE turn'[leg[t].on[1]].of = turn'[t].of
    BY <1>1 DEF OnOwnSession
  <2>1. leg[t].on \in DOMAIN session /\ turn[t].step # "idle"
    BY DEF Bound, GoodLeg, GoodTurn
  <2>2. turn'[leg[t].on[1]].of = turn[leg[t].on[1]].of /\ turn'[t].of = turn[t].of
    BY <2>1, SessionIsOfATurn, OfKept
  <2> QED BY <2>2 DEF OnOwnSession
<1>2. CASE leg'[t] = NoLeg
  BY <1>2 DEF OnOwnSession
<1>3. CASE ReceiveOpening(t)
  <2>1. leg'[t].on = <<t, turn[t].opened + 1>>
    BY <1>3 DEF ReceiveOpening, Bound
  <2>2. leg'[t].on[1] = t
    BY <2>1
  <2> QED BY <2>2 DEF OnOwnSession
<1>4. CASE Resume(t)
  <2>1. PICK s \in Matching(t) : leg'[t].on = s
    BY <1>4 DEF Resume, Bound
  <2>2. turn' = turn /\ turn[s[1]].of = turn[t].of
    BY <1>4 DEF Resume, Matching
  <2> QED BY <2>1, <2>2 DEF OnOwnSession
<1>5. ASSUME NEW u \in Turns, Serves(u), u # t PROVE leg'[t] = leg[t]
  BY <1>5, ServedAlone
<1>6. Serves(t) => leg'[t] = leg[t] \/ leg'[t] = NoLeg \/ ReceiveOpening(t) \/ Resume(t)
  BY DEF Serves, TimeOut, Lose, Receive, SessionExpired, Reply, ModelCalls, ModelAnswers, ModelFails,
         Go, RunTools, LeaveLoop, Bound
<1>7. Restart => leg'[t] = NoLeg
  BY DEF Restart
<1>8. \A i \in Investigations, u \in Turns : Publish(i) \/ Expire(i) \/ Begin(u, i) => leg' = leg
  BY DEF Publish, Expire, Begin
<1>9. \/ \E i \in Investigations : Publish(i) \/ Expire(i)
      \/ \E u \in Turns, i \in Investigations : Begin(u, i)
      \/ \E u \in Turns : Serves(u)
      \/ Restart
  BY DEF Next, Serves
<1>10. leg'[t] = leg[t] \/ leg'[t] = NoLeg \/ ReceiveOpening(t) \/ Resume(t)
  BY <1>5, <1>6, <1>7, <1>8, <1>9
<1> QED BY <1>1, <1>2, <1>3, <1>4, <1>10

LEMMA CoherenceStep == Bound /\ Stored /\ Coherence /\ Next => Coherence'
<1> SUFFICES ASSUME Bound, Stored, Coherence, Next, NEW t \in Turns PROVE Coherent(t)' /\ OnOwnSession(t)'
  BY DEF Coherence
<1>1. Coherent(t) /\ OnOwnSession(t)
  BY DEF Coherence
<1>2. OnOwnSession(t)'
  BY <1>1, OnOwnSessionStep
<1>3. ASSUME NEW u \in Turns, Serves(u) PROVE Coherent(t)'
  <2>1. CASE u = t
    BY <1>1, <1>3, <2>1, ServedCoherent
  <2>2. CASE u # t
    BY <1>3, <2>2, ServedElsewhere
  <2> QED BY <2>1, <2>2
<1>4. ASSUME NEW i \in Investigations, Publish(i) \/ Expire(i) PROVE Coherent(t)'
  BY <1>4, PublishedOrExpired
<1>5. ASSUME NEW u \in Turns, NEW i \in Investigations, Begin(u, i) PROVE Coherent(t)'
  BY <1>5, BegunCoherent
<1>6. Restart => Coherent(t)'
  BY RestartedCoherent
<1> QED BY <1>2, <1>3, <1>4, <1>5, <1>6 DEF Next, Serves

\* AloneTurnIsCoherent: the session a turn comes back to is its own as long as no
\* other turn works on its Investigation, and what is evicted, expired or lost in
\* a restart is opened anew (agent/session.py:62-80, agent/turn.py).
THEOREM AloneTurnsAreCoherent == Spec => []AloneTurnIsCoherent
<1>1. Init => Coherence
  <2> SUFFICES ASSUME Init, NEW t \in Turns PROVE Coherent(t) /\ OnOwnSession(t)
    BY DEF Coherence
  <2>1. turn[t].step = "idle" /\ leg[t] = NoLeg
    BY DEF Init, IdleTurn
  <2> QED BY <2>1 DEF Coherent, OnItsOwn, Active, OnOwnSession
<1>2. Bound /\ Stored /\ Coherence /\ [Next]_vars => Coherence'
  <2>1. Coherence /\ UNCHANGED vars => Coherence'
    BY DEF Coherence, Coherent, OnOwnSession, OnItsOwn, Undisturbed, Free, Thinking, Resuming, Executing,
           Its, vars
  <2> QED BY <2>1, CoherenceStep
<1>3. Spec => [](Bound /\ Stored)
  BY BoundedAlways
<1> QED BY <1>1, <1>2, <1>3, CoherenceIs, PTL DEF Spec
=============================================================================
