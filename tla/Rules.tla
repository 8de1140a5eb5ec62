-------------------------------- MODULE Rules --------------------------------
(***************************************************************************)
(* The assessment of an Analysis Dataset: analysis/rules_v1.go and the     *)
(* Investigation Metrics of analysis/analysis.go, as functions of a set of *)
(* transfers.  A transfer is a record of its time, its identity (tx, log), *)
(* its addresses and its amount.  No rule depends on an order, though the  *)
(* code sorts before it evaluates.                                         *)
(***************************************************************************)
EXTENDS Integers, Sequences, FiniteSets, FiniteSetsExt, Functions

CONSTANTS
    FanOutRecipients, FanInSenders,     \* 10 and 10
    RapidForwardWindow,                 \* 60 minutes
    PathForwardWindow,                  \* 24 hours
    MaximumCycleHops                    \* 4

RulesAssumption ==
    /\ {FanOutRecipients, FanInSenders, MaximumCycleHops} \subseteq Nat \ {0}
    /\ {RapidForwardWindow, PathForwardWindow} \subseteq Nat
ASSUME RulesAssumption

Weight == [fan_out |-> 20, fan_in |-> 15, rapid_forwarding |-> 25,
           target_connected_forwarding |-> 25, circular_flow |-> 15]
Reasons == DOMAIN Weight

Amounts(T) == MapThenSumSet(LAMBDA t : t.amount, T)

\* atLeastRatio, in percent
AtLeast(percent, part, whole) == whole > 0 /\ 100 * part >= percent * whole

Within(t, first, window) == first.at <= t.at /\ t.at <= first.at + window

\* Who sent to whom; a transfer to oneself makes no edge.
EdgesOf(T) == {<<t.from, t.to>> : t \in {u \in T : u.from # u.to}}

FanOut(T) ==
    {a \in {t.from : t \in T} :
        Cardinality({e \in EdgesOf(T) : e[1] = a}) >= FanOutRecipients}

FanIn(T) ==
    {a \in {t.to : t \in T} :
        Cardinality({e \in EdgesOf(T) : e[2] = a}) >= FanInSenders}

\* Mutant: all that an address sent over all that it received.
RapidForwardingInAll(T) ==
    {a \in {t.to : t \in T} :
        AtLeast(80, Amounts({t \in T : t.from = a}), Amounts({t \in T : t.to = a}))}

\* What the recipient of r sent on, in all, within the window.
RapidForwarding(T) ==
    LET sentOn(r) == {s \in T \ {r} : s.from = r.to /\ Within(s, r, RapidForwardWindow)}
    IN  {r.to : r \in {u \in T : AtLeast(80, Amounts(sentOn(u)), u.amount)}}

TargetConnectedForwarding(target, T) ==
    LET first  == {f \in T : f.from = target /\ f.to # target}
        path(f) == {s \in T \ {f} : /\ s.from = f.to /\ s.to # f.to
                                    /\ Within(s, f, PathForwardWindow)
                                    /\ AtLeast(70, s.amount, f.amount)}
    IN  UNION {UNION {{target, f.to, s.to} : s \in path(f)} : f \in first}

\* Mutant: the last hop is not followed.
CircularFlowOneShort(T) ==
    LET edges == EdgesOf(T)
        longer(p) ==
            {Append(p, e[2]) : e \in {d \in edges : d[1] = p[Len(p)] /\ d[2] \notin Range(p)}}
        paths[n \in 1..MaximumCycleHops] ==
            IF n = 1 THEN {<<e[1]>> : e \in edges}
            ELSE paths[n - 1] \cup UNION {longer(p) : p \in paths[n - 1]}
        closed(p) == {k \in 1..(Len(p) - 1) : <<p[Len(p)], p[k]>> \in edges}
    IN  UNION {UNION {{p[i] : i \in k..Len(p)} : k \in closed(p)} : p \in paths[Max({1, MaximumCycleHops - 1})]}

\* rulesV1FindCycles: every path without a repetition is extended up to the
\* maximum; an edge back into the path closes a cycle of its last addresses.
CircularFlow(T) ==
    LET edges == EdgesOf(T)
        longer(p) ==
            {Append(p, e[2]) : e \in {d \in edges : d[1] = p[Len(p)] /\ d[2] \notin Range(p)}}
        paths[n \in 1..MaximumCycleHops] ==
            IF n = 1 THEN {<<e[1]>> : e \in edges}
            ELSE paths[n - 1] \cup UNION {longer(p) : p \in paths[n - 1]}
        closed(p) == {k \in 1..(Len(p) - 1) : <<p[Len(p)], p[k]>> \in edges}
    IN  UNION {UNION {{p[i] : i \in k..Len(p)} : k \in closed(p)} : p \in paths[MaximumCycleHops]}

Qualifying(target, T) ==
    [fan_out |-> FanOut(T), fan_in |-> FanIn(T), rapid_forwarding |-> RapidForwarding(T),
     target_connected_forwarding |-> TargetConnectedForwarding(target, T),
     circular_flow |-> CircularFlow(T)]

Score(reasons) == Min({100, MapThenSumSet(LAMBDA r : Weight[r], reasons)})

\* rulesV1Level
Level(score) ==
    CASE score >= 75 -> "critical"
      [] score >= 50 -> "high"
      [] score >= 25 -> "medium"
      [] OTHER       -> "low"

\* No evidence, no score: -1 stands for none.
NoEvidence == [score |-> -1, level |-> "", reasons |-> {}, nodes |-> <<>>]

Evaluate(target, T) ==
    LET signals    == Qualifying(target, T)
        fired      == {r \in Reasons : signals[r] # {}}
        reasons(a) == {r \in Reasons : a \in signals[r]}
    IN  IF T = {} THEN NoEvidence
        ELSE [score   |-> Score(fired),
              level   |-> Level(Score(fired)),
              reasons |-> fired,
              nodes   |-> [a \in UNION Range(signals) |->
                              [score |-> Score(reasons(a)), level |-> Level(Score(reasons(a))),
                               reasons |-> reasons(a)]]]

\* calculateMetrics
Metrics(target, T) ==
    [relatedNodes  |-> Cardinality((UNION {{t.from, t.to} : t \in T}) \ {target}),
     transferCount |-> Cardinality(T),
     totalFlow     |-> Amounts(T)]
=============================================================================
