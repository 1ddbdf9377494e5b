-------------------------- MODULE SelectionProofs --------------------------
(***************************************************************************)
(* What the choice of who serves a request promises, for every set of      *)
(* targets, keys and sessions, every two or more requests at once and every *)
(* bound of the runs.  The parts share no state that changes under them, so *)
(* that each one has an invariant of its own, kept by its actions and by    *)
(* the steps of the others:                                                *)
(*   - the bindings: the types, and that a request that looks for a target  *)
(*     anew (at "layers") has a cause to; a binding is written by such a    *)
(*     request or by one that stays with its target;                       *)
(*   - the scores: what a target has gathered is bounded by the samples there *)
(*     were, and what is on disk is no fresher than what is in memory;       *)
(*   - the plan and the key: the types alone.  Their properties relate the  *)
(*     answer of one function to the state it has looked at, and hold in    *)
(*     every state of the right type, reachable or not.                    *)
(***************************************************************************)
EXTENDS MCSelection, SubsequenceProofs

-----------------------------------------------------------------------------
(* Sticky bindings.                                                         *)

\* Why a request that is past its bound target, or has none, is there.
HasCause(q, from) ==
  \/ q.seen = None \/ from[q.key] = "prefix"
  \/ q.cause = "unfit"
  \/ q.seen.target \notin q.plan
  \/ from[q.key] = "session" /\ q.start - q.seen.used > ColdAfter
  \/ /\ q.cause = "escaped" /\ from[q.key] = "session"
     /\ S!Rewritten(q) \/ q.start - q.seen.migrated >= Cooldown

Caused == \A r \in Pair : req[r].pc = "layers" => HasCause(req[r], origin)

BindingsInv == S!TypeOK /\ Caused

\* Where a request may be, as a set without the record.
LEMMA RequestFields ==
  ASSUME NEW q \in S!InFlight
  PROVE  /\ q.pc \in {"read", "bound", "layers"} /\ q.key \in SessionKeys /\ q.bytes \in Sizes
         /\ q.start \in 0..MaxTime /\ q.seen \in S!Binding \cup {None}
         /\ q.cause \in {"none", "unfit", "escaped"} /\ q.plan \in SUBSET Targets
         /\ q # S!Idle
BY DEF S!InFlight, S!Idle

\* What an attempt writes is a binding, and it is written for its key only.
LEMMA BindWrites ==
  ASSUME S!TypeOK, NEW k \in SessionKeys, NEW t \in Targets, NEW at \in 0..MaxTime, NEW bytes \in Sizes,
         S!Bind(k, t, at, bytes)
  PROVE  /\ table' \in S!Tables
         /\ table'[k].target = t
         /\ \A j \in SessionKeys : j # k => table'[j] \in {None, table[j]}
<1> DEFINE b == [target |-> t, used |-> at, migrated |-> S!Anchor(table[k], t, at), bytes |-> bytes]
<1>1. table \in [SessionKeys -> S!Binding \cup {None}]
  BY DEF S!TypeOK, S!Tables
<1>2. S!Anchor(table[k], t, at) \in 0..MaxTime
  BY <1>1 DEF S!Anchor, S!Binding
<1>3. b \in S!Binding /\ b.target = t
  BY <1>2 DEF S!Binding
<1>4. PICK gone \in S!Evictions(k) :
        table' = [j \in SessionKeys |-> IF j = k THEN b ELSE IF j \in gone THEN None ELSE table[j]]
  BY DEF S!Bind
<1> HIDE DEF b
<1> QED
  BY <1>1, <1>3, <1>4 DEF S!Tables

\* Every step of a request keeps the types.
LEMMA StepTypes ==
  ASSUME S!TypeOK, NEW r \in Pair, S!Step(r) PROVE S!TypeOK'
<1>1. /\ table \in [SessionKeys -> S!Binding \cup {None}] /\ req \in [Pair -> {S!Idle} \cup S!InFlight]
      /\ now \in 0..MaxTime /\ live \subseteq Targets /\ origin \in [SessionKeys -> S!Origins]
  BY DEF S!TypeOK, S!Tables
<1> DEFINE Flights == {S!Idle} \cup S!InFlight
           Good == /\ table' \in S!Tables /\ req' \in [Pair -> Flights]
                   /\ UNCHANGED <<disk, saving, cleaning, origin, live, restarts, now>>
<1>2. Good => S!TypeOK'
  BY DEF S!TypeOK
<1>3. \A k \in SessionKeys : S!Clear(k) => table' \in S!Tables
  BY <1>1 DEF S!Clear, S!Tables
<1>4. table' = table => table' \in S!Tables
  BY <1>1 DEF S!Tables
<1>5. \A q \in Flights : req' = [req EXCEPT ![r] = q] => req' \in [Pair -> Flights]
  BY <1>1
<1>6. req[r].pc \in {"read", "bound", "layers"} => req[r] \in S!InFlight /\ req[r].key \in SessionKeys
  BY <1>1, RequestFields DEF S!Idle
<1>7. ASSUME NEW t \in Targets, req[r] \in S!InFlight, S!GoOn(r, t)
      PROVE  req' \in [Pair -> Flights]
  <2>1. [req[r] EXCEPT !.pc = "layers", !.plan = @ \ {t}] \in S!InFlight
    BY <1>7 DEF S!InFlight
  <2>2. (IF req[r].plan \subseteq {t} THEN S!Idle
         ELSE [req[r] EXCEPT !.pc = "layers", !.plan = @ \ {t}]) \in Flights
    BY <2>1
  <2> HIDE DEF Flights
  <2> QED
    BY <1>5, <1>7, <2>2 DEF S!GoOn
<1>8. ASSUME NEW k \in SessionKeys, NEW b \in Sizes, S!Arrive(r, k, b) PROVE Good
  <2> DEFINE q == [pc |-> "read", key |-> k, bytes |-> b, start |-> now,
                   seen |-> S!Lookup(k, now), cause |-> "none", plan |-> live]
  <2>1. S!Lookup(k, now) \in S!Binding \cup {None}
    BY <1>1 DEF S!Lookup
  <2>2. q \in Flights
    BY <1>1, <2>1 DEF S!InFlight
  <2>3. req' = [req EXCEPT ![r] = q] /\ UNCHANGED <<table, disk, saving, cleaning, origin, live, restarts, now>>
    BY <1>8 DEF S!Arrive
  <2> HIDE DEF q, Flights
  <2> QED
    BY <1>4, <1>5, <2>2, <2>3
<1>9. ASSUME NEW o \in {"none", "unfit", "escaped", "tilted", "pinned"}, S!Decide(r, o) PROVE Good
  <2> DEFINE q == [req[r] EXCEPT !.pc = IF o = "pinned" THEN "bound" ELSE "layers",
                                 !.cause = IF o \in {"unfit", "escaped"} THEN o ELSE "none"]
  <2>1. req[r] \in S!InFlight /\ req[r].key \in SessionKeys
    BY <1>6, <1>9 DEF S!Decide
  <2>2. q \in Flights
    BY <2>1 DEF S!InFlight
  <2>3. req' = [req EXCEPT ![r] = q] /\ UNCHANGED <<disk, saving, cleaning, origin, live, restarts, now>>
    BY <1>9 DEF S!Decide
  <2>4. table' \in S!Tables
    BY <1>3, <1>4, <1>9, <2>1 DEF S!Decide
  <2> HIDE DEF q, Flights
  <2> QED
    BY <1>5, <2>2, <2>3, <2>4
<1>10. ASSUME NEW t \in Targets, S!Succeed(r, t) PROVE Good
  <2>1. req[r] \in S!InFlight
    BY <1>6, <1>10 DEF S!Succeed
  <2>2. table' \in S!Tables
    BY <1>10, <2>1, RequestFields, BindWrites DEF S!Succeed
  <2>3. req' = [req EXCEPT ![r] = S!Idle] /\ S!Idle \in Flights
    BY <1>10 DEF S!Succeed
  <2> HIDE DEF Flights
  <2> QED
    BY <1>5, <1>10, <2>2, <2>3 DEF S!Succeed
<1>11. ASSUME NEW t \in Targets, S!Fail(r, t) PROVE Good
  BY <1>4, <1>6, <1>7, <1>11 DEF S!Fail
<1>12. ASSUME NEW t \in Targets, S!Refused(r, t) PROVE Good
  BY <1>3, <1>6, <1>7, <1>12 DEF S!Refused
<1>13. ASSUME S!GiveUp(r) PROVE Good
  <2>1. req' = [req EXCEPT ![r] = S!Idle] /\ S!Idle \in Flights
    BY <1>13 DEF S!GiveUp
  <2> HIDE DEF Flights
  <2> QED
    BY <1>4, <1>5, <1>13, <2>1 DEF S!GiveUp
<1> HIDE DEF Good
<1> QED
  BY <1>2, <1>8, <1>9, <1>10, <1>11, <1>12, <1>13 DEF S!Step

\* The jobs, the administrator and the process keep the types too.
LEMMA TableTypes ==
  ASSUME S!TypeOK, S!Jobs \/ (\E t \in Targets : S!DeleteTarget(t)) \/ S!Restart \/ S!Tick
  PROVE  S!TypeOK'
<1>1. /\ table \in S!Tables /\ disk \in S!Tables /\ saving \in S!Tables \cup {None} /\ cleaning \in BOOLEAN
      /\ req \in [Pair -> {S!Idle} \cup S!InFlight] /\ origin \in [SessionKeys -> S!Origins]
      /\ now \in 0..MaxTime /\ live \subseteq Targets /\ restarts \in 0..MaxRestarts
  BY DEF S!TypeOK
<1>2. \A t \in S!Tables : t \in [SessionKeys -> S!Binding \cup {None}]
  BY DEF S!Tables
<1>3. \A t \in [SessionKeys -> S!Binding \cup {None}] : t \in S!Tables
  BY DEF S!Tables
<1>4. ASSUME S!Export PROVE S!TypeOK'
  BY <1>1, <1>4 DEF S!Export, S!TypeOK
<1>5. ASSUME S!Save PROVE S!TypeOK'
  <2>1. saving \in S!Tables
    BY <1>1, <1>5 DEF S!Save
  <2>2. disk' \in S!Tables
    <3> DEFINE d == [k \in SessionKeys |-> IF saving[k] # None THEN saving[k] ELSE disk[k]]
    <3>1. d \in [SessionKeys -> S!Binding \cup {None}]
      BY <1>1, <1>2, <2>1
    <3>2. disk' = d \/ disk' = disk
      BY <1>5 DEF S!Save
    <3> HIDE DEF d
    <3> QED
      BY <1>1, <1>3, <3>1, <3>2
  <2> QED
    BY <1>1, <1>5, <2>2 DEF S!Save, S!TypeOK
<1>6. ASSUME S!PruneTable PROVE S!TypeOK'
  <2>1. table' \in S!Tables
    BY <1>1, <1>2, <1>6 DEF S!PruneTable, S!Pruned, S!Tables
  <2> QED
    BY <1>1, <1>6, <2>1 DEF S!PruneTable, S!TypeOK
<1>7. ASSUME S!PruneRows PROVE S!TypeOK'
  <2>1. disk' \in S!Tables
    BY <1>1, <1>2, <1>7 DEF S!PruneRows, S!Tables
  <2> QED
    BY <1>1, <1>7, <2>1 DEF S!PruneRows, S!TypeOK
<1>8. ASSUME NEW t \in Targets, S!DeleteTarget(t) PROVE S!TypeOK'
  BY <1>1, <1>8 DEF S!DeleteTarget, S!TypeOK
<1>9. ASSUME S!Restart PROVE S!TypeOK'
  <2>1. table' \in S!Tables
    BY <1>1, <1>2, <1>9 DEF S!Restart, S!Tables
  <2>2. restarts' \in 0..MaxRestarts
    BY <1>1, <1>9, SelectionAssumption DEF S!Restart
  <2>3. req' \in [Pair -> {S!Idle} \cup S!InFlight]
    BY <1>9 DEF S!Restart
  <2> QED
    BY <1>1, <1>9, <2>1, <2>2, <2>3 DEF S!Restart, S!TypeOK
<1>10. ASSUME S!Tick PROVE S!TypeOK'
  <2>1. now' \in 0..MaxTime
    BY <1>1, <1>10, SelectionAssumption DEF S!Tick
  <2> QED
    BY <1>1, <1>10, <2>1 DEF S!Tick, S!TypeOK
<1> QED
  BY <1>4, <1>5, <1>6, <1>7, <1>8, <1>9, <1>10 DEF S!Jobs

\* A request that is past its bound target has a cause; it keeps it.
LEMMA StepCaused ==
  ASSUME BindingsInv, NEW r \in Pair, S!Step(r) PROVE Caused'
<1>1. /\ req \in [Pair -> {S!Idle} \cup S!InFlight] /\ origin \in [SessionKeys -> S!Origins]
      /\ origin' = origin
  BY DEF BindingsInv, S!TypeOK, S!Step, S!Arrive, S!Decide, S!Succeed, S!Fail, S!Refused, S!GiveUp
<1>3. \A p \in Pair : req[p].pc = "layers" => HasCause(req[p], origin)
  BY DEF BindingsInv, Caused
<1>4. ASSUME NEW q, req' = [req EXCEPT ![r] = q], q.pc = "layers" => HasCause(q, origin)
      PROVE  Caused'
  <2> SUFFICES ASSUME NEW p \in Pair, req'[p].pc = "layers" PROVE HasCause(req'[p], origin)
    BY <1>1 DEF Caused
  <2> QED
    BY <1>1, <1>3, <1>4
<1>5. S!Idle.pc # "layers"
  BY DEF S!Idle
<1>6. req[r].pc \in {"read", "bound", "layers"} => req[r] \in S!InFlight
  BY <1>1 DEF S!Idle
<1>7. ASSUME NEW k \in SessionKeys, NEW b \in Sizes, S!Arrive(r, k, b) PROVE Caused'
  <2> DEFINE q == [pc |-> "read", key |-> k, bytes |-> b, start |-> now,
                   seen |-> S!Lookup(k, now), cause |-> "none", plan |-> live]
  <2>1. q.pc # "layers" /\ req' = [req EXCEPT ![r] = q]
    BY <1>7 DEF S!Arrive
  <2> HIDE DEF q
  <2> QED
    BY <1>4, <2>1
<1>8. ASSUME NEW o \in {"none", "unfit", "escaped", "tilted", "pinned"}, S!Decide(r, o) PROVE Caused'
  <2> DEFINE old == req[r]
             q == [old EXCEPT !.pc = IF o = "pinned" THEN "bound" ELSE "layers",
                              !.cause = IF o \in {"unfit", "escaped"} THEN o ELSE "none"]
  <2>1. old \in S!InFlight /\ o \in S!Outcomes(r) /\ req' = [req EXCEPT ![r] = q]
    BY <1>6, <1>8 DEF S!Decide
  <2>2. /\ q.seen = old.seen /\ q.key = old.key /\ q.plan = old.plan /\ q.start = old.start /\ q.bytes = old.bytes
        /\ q.pc = (IF o = "pinned" THEN "bound" ELSE "layers")
        /\ q.cause = (IF o \in {"unfit", "escaped"} THEN o ELSE "none")
    BY <2>1 DEF S!InFlight
  <2>3. origin[old.key] \in {"chain", "session", "prefix"}
    BY <1>1, <2>1 DEF S!Origins, S!InFlight
  <2>4. ASSUME q.pc = "layers" PROVE HasCause(q, origin)
    <3>1. o # "pinned"
      BY <2>2, <2>4
    <3>2. CASE o = "none"
      <4>1. ~S!Kept(r)
        BY <2>1, <3>2 DEF S!Outcomes
      <4>2. old.seen = None \/ (origin[old.key] # "chain" /\ old.start - old.seen.used > ColdAfter)
        BY <4>1 DEF S!Kept, S!Dropped
      <4> HIDE DEF old, q
      <4> QED
        BY <2>2, <2>3, <4>2 DEF HasCause
    <3>3. CASE o = "unfit"
      <4> HIDE DEF old, q
      <4> QED
        BY <2>2, <3>3 DEF HasCause
    <3>4. CASE o = "tilted"
      <4>1. origin[old.key] = "prefix"
        BY <2>1, <3>4 DEF S!Outcomes
      <4> HIDE DEF old, q
      <4> QED
        BY <2>2, <4>1 DEF HasCause
    <3>5. CASE o = "escaped"
      <4>1. S!Escapes(old)
        BY <2>1, <3>5 DEF S!Outcomes
      <4>2. origin[old.key] = "session" /\ (S!Rewritten(old) \/ old.start - old.seen.migrated >= Cooldown)
        BY <4>1 DEF S!Escapes
      <4> HIDE DEF old, q
      <4>3. S!Rewritten(old) => S!Rewritten(q)
        BY <2>2 DEF S!Rewritten
      <4> QED
        BY <2>2, <3>5, <4>2, <4>3 DEF HasCause
    <3> QED
      BY <3>1, <3>2, <3>3, <3>4, <3>5
  <2> HIDE DEF q
  <2> QED
    BY <1>4, <2>1, <2>4
<1>9. ASSUME NEW t \in Targets, req[r].pc \in {"bound", "layers"}, t \in S!Reach(r), S!GoOn(r, t) PROVE Caused'
  <2> DEFINE old == req[r]  q == [old EXCEPT !.pc = "layers", !.plan = @ \ {t}]
  <2>1. old \in S!InFlight
    BY <1>6, <1>9
  <2>2. /\ q.seen = old.seen /\ q.key = old.key /\ q.plan = old.plan \ {t} /\ q.start = old.start
        /\ q.bytes = old.bytes /\ q.cause = old.cause
    BY <2>1 DEF S!InFlight
  <2>3. CASE old.plan \subseteq {t}
    <3>1. req' = [req EXCEPT ![r] = S!Idle]
      BY <1>9, <2>3 DEF S!GoOn
    <3> QED
      BY <1>4, <1>5, <3>1
  <2>4. CASE ~(old.plan \subseteq {t})
    <3>1. req' = [req EXCEPT ![r] = q]
      BY <1>9, <2>4 DEF S!GoOn
    <3>2. HasCause(q, origin)
      <4>1. CASE old.pc = "bound"
        <5>1. t = old.seen.target
          BY <1>9, <4>1 DEF S!Reach
        <5> HIDE DEF old, q
        <5> QED
          BY <2>2, <5>1 DEF HasCause
      <4>2. CASE old.pc = "layers"
        <5>1. HasCause(old, origin)
          BY <1>3, <4>2
        <5> HIDE DEF old, q
        <5>2. S!Rewritten(old) => S!Rewritten(q)
          BY <2>2 DEF S!Rewritten
        <5> QED
          BY <2>2, <5>1, <5>2 DEF HasCause
      <4> QED
        BY <1>9, <4>1, <4>2
    <3> HIDE DEF q
    <3> QED
      BY <1>4, <3>1, <3>2
  <2> QED
    BY <2>3, <2>4
<1>10. ASSUME req' = [req EXCEPT ![r] = S!Idle] PROVE Caused'
  BY <1>4, <1>5, <1>10
<1> QED
  BY <1>7, <1>8, <1>9, <1>10 DEF S!Step, S!Succeed, S!Fail, S!Refused, S!GiveUp

\* Only a success moves a binding, and it knows why its request is there.
LEMMA StepMoves ==
  ASSUME BindingsInv, NEW r \in Pair, S!Step(r) PROVE S!MovesForCause
<1>1. /\ table \in [SessionKeys -> S!Binding \cup {None}] /\ req \in [Pair -> {S!Idle} \cup S!InFlight]
  BY DEF BindingsInv, S!TypeOK, S!Tables
<1>2. ASSUME \A k \in SessionKeys : table'[k] \in {None, table[k]} PROVE S!MovesForCause
  BY <1>2 DEF S!MovesForCause
<1>3. req[r].pc \in {"read", "bound", "layers"} => req[r] \in S!InFlight
  BY <1>1 DEF S!Idle
<1>4. \A k : S!Clear(k) => \A j \in SessionKeys : table'[j] \in {None, table[j]}
  BY <1>1 DEF S!Clear
<1>5. ASSUME NEW t \in Targets, S!Succeed(r, t) PROVE S!MovesForCause
  <2> DEFINE q == req[r]
  <2>1. /\ q.pc \in {"bound", "layers"} /\ t \in S!Reach(r) /\ S!Bind(q.key, t, q.start, q.bytes)
        /\ req' = [req EXCEPT ![r] = S!Idle] /\ q \in S!InFlight
    BY <1>3, <1>5 DEF S!Succeed
  <2>2. q # S!Idle /\ req'[r] = S!Idle /\ q.key \in SessionKeys
    BY <1>1, <2>1, RequestFields
  <2>3. table'[q.key].target = t /\ \A j \in SessionKeys : j # q.key => table'[j] \in {None, table[j]}
    <3>1. q.start \in 0..MaxTime /\ q.bytes \in Sizes
      BY <2>1, RequestFields
    <3> QED
      BY <2>1, <2>2, <3>1, BindWrites DEF BindingsInv
  <2>4. q.pc = "bound" => t = q.seen.target
    BY <2>1 DEF S!Reach
  <2>5. q.pc = "layers" => HasCause(q, origin)
    BY DEF BindingsInv, Caused
  <2>6. q.pc = "bound" \/ q.pc = "layers"
    BY <2>1
  <2> HIDE DEF q
  <2> SUFFICES ASSUME NEW k \in SessionKeys, table[k] # None, table'[k] # None,
                      table'[k].target # table[k].target
               PROVE  \E p \in Pair :
                        LET x == req[p] IN
                        /\ x # S!Idle /\ req'[p] = S!Idle /\ x.key = k
                        /\ \/ x.seen = None \/ origin[x.key] = "prefix"
                           \/ x.seen.target # table[k].target
                           \/ x.cause = "unfit"
                           \/ x.seen.target \notin x.plan
                           \/ origin[x.key] = "session" /\ x.start - x.seen.used > ColdAfter
                           \/ /\ x.cause = "escaped" /\ origin[x.key] = "session"
                              /\ S!Rewritten(x) \/ x.start - x.seen.migrated >= Cooldown
    BY DEF S!MovesForCause
  <2>7. k = q.key /\ t # table[k].target
    BY <2>3
  <2>8. HasCause(q, origin) \/ q.seen.target # table[k].target
    BY <2>4, <2>5, <2>6, <2>7
  <2> QED
    BY <2>2, <2>7, <2>8 DEF q, HasCause
<1>6. CASE table' = table
  BY <1>2, <1>6
<1>7. CASE \E k : S!Clear(k)
  BY <1>2, <1>4, <1>7
<1> QED
  BY <1>5, <1>6, <1>7 DEF S!Step, S!Arrive, S!Decide, S!Fail, S!Refused, S!GiveUp

\* What is not a request's step moves no binding, but for a restart.
LEMMA TableMoves ==
  ASSUME BindingsInv, S!Jobs \/ (\E t \in Targets : S!DeleteTarget(t)) \/ S!Restart \/ S!Tick
  PROVE  Caused' /\ S!MovesForCause
<1>1. /\ table \in [SessionKeys -> S!Binding \cup {None}] /\ req \in [Pair -> {S!Idle} \cup S!InFlight]
      /\ restarts \in 0..MaxRestarts /\ origin' = origin
  BY DEF BindingsInv, S!TypeOK, S!Tables, S!Jobs, S!Export, S!Save, S!PruneTable, S!PruneRows, S!DeleteTarget,
         S!Restart, S!Tick
<1>2. CASE S!Restart
  <2>1. restarts' # restarts
    BY <1>1, <1>2 DEF S!Restart
  <2>2. \A p \in Pair : req'[p].pc # "layers"
    BY <1>2 DEF S!Restart, S!Idle
  <2> QED
    BY <2>1, <2>2 DEF S!MovesForCause, Caused
<1>3. CASE ~S!Restart
  <2>1. req' = req
    BY <1>3 DEF S!Jobs, S!Export, S!Save, S!PruneTable, S!PruneRows, S!DeleteTarget, S!Tick
  <2>2. \A k \in SessionKeys : table'[k] \in {None, table[k]}
    BY <1>1, <1>3 DEF S!Jobs, S!Export, S!Save, S!PruneTable, S!Pruned, S!PruneRows, S!DeleteTarget, S!Tick
  <2>3. S!MovesForCause
    BY <2>2 DEF S!MovesForCause
  <2>4. Caused'
    BY <1>1, <2>1 DEF BindingsInv, Caused, HasCause, S!Rewritten
  <2> QED
    BY <2>3, <2>4
<1> QED
  BY <1>2, <1>3

\* A behaviour of bindings, and the scores that share its targets and restarts.
LEMMA BindingsStep ==
  ASSUME BindingsInv, [SelNext]_selVars PROVE BindingsInv' /\ [S!MovesForCause]_S!vars
<1>1. ASSUME NEW r \in Pair, S!Step(r) PROVE BindingsInv' /\ S!MovesForCause
  BY <1>1, StepTypes, StepCaused, StepMoves DEF BindingsInv
<1>2. ASSUME S!Jobs \/ (\E t \in Targets : S!DeleteTarget(t)) \/ S!Restart \/ S!Tick
      PROVE  BindingsInv' /\ S!MovesForCause
  BY <1>2, TableTypes, TableMoves DEF BindingsInv
<1>3. ASSUME UNCHANGED <<stickyVars, now>>, live' \subseteq Targets, restarts' \in 0..MaxRestarts
      PROVE  BindingsInv' /\ S!MovesForCause
  <2>1. UNCHANGED <<table, disk, saving, cleaning, origin, req, now>>
    BY <1>3 DEF stickyVars
  <2>2. S!TypeOK'
    BY <1>3, <2>1 DEF BindingsInv, S!TypeOK
  <2>3. Caused'
    BY <2>1 DEF BindingsInv, Caused, HasCause, S!Rewritten
  <2>4. S!MovesForCause
    BY <2>1 DEF S!MovesForCause
  <2> QED
    BY <2>2, <2>3, <2>4 DEF BindingsInv
<1>4. live \subseteq Targets /\ restarts \in 0..MaxRestarts
  BY DEF BindingsInv, S!TypeOK
<1>5. CASE Within("race", Race /\ Others(keyVars, planVars, scoreVars))
  BY <1>1, <1>2, <1>5 DEF Within, Race
<1>6. CASE Within("jobs", Jobs /\ Others(keyVars, planVars, scoreVars))
  BY <1>1, <1>2, <1>6, SelectionAssumption DEF Within, Jobs
<1>7. CASE UNCHANGED <<stickyVars, shared>>
  BY <1>3, <1>4, <1>7 DEF shared
<1>8. CASE Within("score", P!Next /\ Others(stickyVars, keyVars, planVars) /\ UNCHANGED <<arrivals, now>>)
  <2>1. P!Next /\ UNCHANGED <<stickyVars, now>>
    BY <1>8 DEF Within, Others
  <2>2. live' \subseteq Targets /\ restarts' \in 0..MaxRestarts
    BY <1>4, <2>1, SelectionAssumption
    DEF P!Next, P!Observe, P!Save, P!Clean, P!Restart, P!Tick, P!DeleteTarget
  <2> QED
    BY <1>3, <2>1, <2>2
<1> QED
  BY <1>5, <1>6, <1>7, <1>8 DEF SelNext, selVars, Within, Others

\* Nobody has asked yet.
LEMMA BindingsInit == SelInit => BindingsInv
<1> SUFFICES ASSUME SelInit PROVE BindingsInv
  OBVIOUS
<1>1. S!Init
  BY DEF SelInit
<1>2. S!TypeOK
  <2>1. /\ table = [k \in SessionKeys |-> None] /\ disk = table /\ saving = None /\ cleaning = FALSE
        /\ origin \in [SessionKeys -> S!Origins] /\ live = Targets /\ restarts = 0
        /\ req = [r \in Pair |-> S!Idle] /\ now = 0
    BY <1>1 DEF S!Init, S!Empty
  <2>2. table \in S!Tables /\ disk \in S!Tables
    BY <2>1 DEF S!Tables
  <2>3. req \in [Pair -> {S!Idle} \cup S!InFlight]
    BY <2>1
  <2>4. restarts \in 0..MaxRestarts /\ now \in 0..MaxTime
    BY <2>1, SelectionAssumption
  <2> QED
    BY <2>1, <2>2, <2>3, <2>4 DEF S!TypeOK
<1>3. Caused
  BY <1>1 DEF S!Init, Caused, S!Idle
<1> QED
  BY <1>2, <1>3 DEF BindingsInv

\* A conversation changes its target for a cause only, however many requests
\* share its key and whatever the jobs, the administrator and restarts do.
THEOREM MovesHaveCauses == SelSpec => MovedForCause
<1>1. BindingsInv /\ [SelNext]_selVars => BindingsInv' /\ [S!MovesForCause]_S!vars
  BY BindingsStep
<1>2. BindingsInv => S!TypeOK
  BY DEF BindingsInv
<1> QED
  BY <1>1, <1>2, BindingsInit, PTL DEF SelSpec, MovedForCause, S!MovedForCause

-----------------------------------------------------------------------------
(* The plan.                                                                *)

\* What may hold of a target, field by field.
Fields(f) ==
  /\ f.on \in BOOLEAN /\ f.price \in {"within", "over", "unknown"}
  /\ f.fit \in {"lossless", "doubted", "degraded", "no"} /\ f.account \in {"ok", "quota", "full"}
  /\ f.key \in {"free", "full", "invalid", "quota", "off"}
  /\ f.circuit \in {"closed", "cooling", "trial"} /\ f.room \in {"free", "full", "rate"}

PlanInv == R!TypeOK /\ DOMAIN fact = Targets

LEMMA FieldsTyped == ASSUME R!TypeOK, NEW t \in Targets PROVE Fields(fact[t])
<1>1. DOMAIN R!Values = {"on", "price", "fit", "account", "key", "circuit", "room"}
  BY DEF R!Values
<1>2. \A x \in {"on", "price", "fit", "account", "key", "circuit", "room"} : fact[t][x] \in R!Values[x]
  BY <1>1 DEF R!TypeOK
<1> QED
  BY <1>2 DEF Fields, R!Values

\* The facts change within their types.
LEMMA PlanTypes == PlanInv /\ R!Next => PlanInv'
<1> SUFFICES ASSUME PlanInv, R!Next PROVE PlanInv'
  OBVIOUS
<1>1. PICK t \in Targets, x \in DOMAIN R!Values : \E v \in R!Values[x] : fact' = [fact EXCEPT ![t][x] = v]
  BY DEF R!Next, R!Change
<1>2. PICK v \in R!Values[x] : fact' = [fact EXCEPT ![t][x] = v]
  BY <1>1
<1>3. request' = request /\ changes' \in 0..MaxChanges
  BY SelectionAssumption DEF PlanInv, R!TypeOK, R!Next, R!Change
<1>4. DOMAIN fact' = Targets
  BY <1>2 DEF PlanInv
<1>5. ASSUME NEW u \in Targets
      PROVE  DOMAIN fact'[u] = DOMAIN R!Values /\ \A y \in DOMAIN R!Values : fact'[u][y] \in R!Values[y]
  <2>1. DOMAIN fact[u] = DOMAIN R!Values /\ \A y \in DOMAIN R!Values : fact[u][y] \in R!Values[y]
    BY DEF PlanInv, R!TypeOK
  <2>2. fact'[u] = IF u = t THEN [fact[u] EXCEPT ![x] = v] ELSE fact[u]
    BY <1>2 DEF PlanInv
  <2> QED
    BY <1>2, <2>1, <2>2
<1> QED
  BY <1>3, <1>4, <1>5 DEF PlanInv, R!TypeOK

\* The gates, for a target that is planned.
LEMMA PlannedPass ==
  ASSUME NEW f, Fields(f), NEW q \in R!Requests,
         R!Verdict(f, q) = "ok" \/ (R!Verdict(f, q) \in R!Queueable /\ R!Expresses(f, q.degrade))
  PROVE  f.on /\ f.price = "within" /\ f.key \in {"free", "full"} /\ R!Expresses(f, q.degrade)
<1>1. f.on /\ f.price = "within"
  BY DEF R!Verdict, R!Queueable, Fields
<1>2. R!Checked(f) \in {"ok", "full", "rate"} => f.key \in {"free", "full"}
  BY DEF R!Checked, Fields
<1>3. R!Usable(f, q.bound) \in {"ok", "full", "rate"} => R!Checked(f) \in {"ok", "full", "rate"}
  BY DEF R!Usable
<1>4. q.bound \in BOOLEAN
  BY DEF R!Requests
<1>5. CASE (~q.bound \/ f.key = "off") /\ R!Usable(f, q.bound) # "ok"
  <2>1. R!Verdict(f, q) = R!Usable(f, q.bound)
    BY <1>1, <1>5 DEF R!Verdict
  <2> QED
    BY <1>1, <1>2, <1>3, <1>5, <2>1 DEF R!Queueable
<1>6. CASE ~((~q.bound \/ f.key = "off") /\ R!Usable(f, q.bound) # "ok")
  <2>1. R!Verdict(f, q) = IF ~R!Expresses(f, q.degrade) THEN "unsupported" ELSE R!Checked(f)
    BY <1>1, <1>6 DEF R!Verdict
  <2>2. R!Expresses(f, q.degrade)
    BY <2>1 DEF R!Queueable
  <2> QED
    BY <1>1, <1>2, <2>1, <2>2 DEF R!Queueable
<1> QED
  BY <1>5, <1>6

\* A target that would be planned if it were well is refused for what may get better.
LEMMA WellIsEnded ==
  ASSUME NEW f, Fields(f), NEW q \in R!Requests, NEW well, Fields(well),
         well.on = f.on, well.price = f.price, well.fit = f.fit,
         well.key = (IF f.key = "off" THEN "off" ELSE "free"),
         R!Verdict(well, q) = "ok",
         R!Verdict(f, q) # "ok", ~(R!Verdict(f, q) \in R!Queueable /\ R!Expresses(f, q.degrade))
  PROVE  R!Verdict(f, q) \in R!Ended
<1>1. f.on /\ f.price = "within" /\ well.key \in {"free", "full"} /\ R!Expresses(well, q.degrade)
  BY PlannedPass
<1>2. f.key # "off" /\ R!Expresses(f, q.degrade)
  BY <1>1 DEF R!Expresses
<1>3. R!Usable(f, q.bound) = R!Checked(f)
  BY <1>2 DEF R!Usable
<1>4. R!Verdict(f, q) = R!Checked(f)
  BY <1>1, <1>2, <1>3 DEF R!Verdict
<1>5. R!Checked(f) \in {"ok", "full", "rate", "quota", "invalid", "cooling"}
  BY <1>2 DEF R!Checked, Fields
<1> QED
  BY <1>2, <1>4, <1>5 DEF R!Ended, R!Queueable

\* A mixed failure in which something may get better is not told as final.
LEMMA MixedIsNotFinal ==
  ASSUME NEW q, q.model # "off", NEW r \in R!Reasons(q), r \in R!Ended
  PROVE  R!Codes(q) \cap (R!Priced \cup {"unsupported", "model_not_found"}) = {}
<1> DEFINE rs == R!Reasons(q)
           first == {x \in rs : \A s \in rs : R!Rank(x) <= R!Rank(s)}
           code(x) == CASE x \in R!Priced -> x [] x = "rate" -> "rate_limited" [] OTHER -> "none_eligible"
<1>1. r \notin R!Priced /\ r # "unsupported" /\ r # "price_over"
  BY DEF R!Ended, R!Priced
<1>2. R!Codes(q) = {code(x) : x \in first}
  BY <1>1 DEF R!Codes
<1>3. R!Rank(r) = 2
  <2>1. r = "invalid" \/ r = "quota" \/ r = "no_key" \/ r = "cooling"
    BY DEF R!Ended
  <2>2. r \notin R!Queueable /\ r \notin R!Priced
    BY <2>1 DEF R!Queueable, R!Priced
  <2> QED
    BY <1>1, <2>2 DEF R!Rank
<1>4. ASSUME NEW x \in R!Priced
      PROVE  R!Rank(x) = 4
  <2>1. x \notin R!Queueable /\ x \notin R!Ended /\ x # "unsupported"
    BY DEF R!Queueable, R!Priced, R!Ended
  <2> QED
    BY <2>1 DEF R!Rank
<1>5. \A x \in first : x \notin R!Priced
  BY <1>3, <1>4
<1>6. \A x \in first : code(x) \in {"rate_limited", "none_eligible"}
  BY <1>5
<1> HIDE DEF first, code
<1> QED
  BY <1>2, <1>6 DEF R!Priced

LEMMA GatesAndCodes == PlanInv => R!GatesHold /\ R!FinalIsFinal
<1> SUFFICES ASSUME PlanInv PROVE R!GatesHold /\ R!FinalIsFinal
  OBVIOUS
<1>1. request \in R!Requests /\ \A t \in Targets : Fields(fact[t])
  BY FieldsTyped DEF PlanInv, R!TypeOK
<1>2. R!GatesHold
  <2> SUFFICES ASSUME NEW t \in R!Planned(request)
               PROVE  /\ fact[t].on /\ fact[t].price = "within" /\ fact[t].key \in {"free", "full"}
                      /\ R!Expresses(fact[t], request.degrade)
    BY DEF R!GatesHold
  <2>1. /\ t \in Targets
        /\ \/ R!Verdict(fact[t], request) = "ok"
           \/ R!Verdict(fact[t], request) \in R!Queueable /\ R!Expresses(fact[t], request.degrade)
    BY DEF R!Planned
  <2> QED
    BY <1>1, <2>1, PlannedPass
<1>3. R!FinalIsFinal
  <2> DEFINE well == [t \in Targets |-> [fact[t] EXCEPT !.account = "ok", !.circuit = "closed",
                                          !.room = "free", !.key = IF @ = "off" THEN "off" ELSE "free"]]
  <2> SUFFICES ASSUME R!Planned(request) = {}, request.model # "off", NEW t \in Targets,
                      R!Verdict(well[t], request) = "ok"
               PROVE  R!Codes(request) \cap (R!Priced \cup {"unsupported", "model_not_found"}) = {}
    BY DEF R!FinalIsFinal
  <2>1. DOMAIN fact[t] = {"on", "price", "fit", "account", "key", "circuit", "room"}
    BY DEF PlanInv, R!TypeOK, R!Values
  <2> DEFINE f == fact[t]  w == well[t]
  <2>2. /\ w.on = f.on /\ w.price = f.price /\ w.fit = f.fit /\ w.account = "ok" /\ w.circuit = "closed"
        /\ w.room = "free" /\ w.key = (IF f.key = "off" THEN "off" ELSE "free")
    BY <2>1
  <2>3. R!Verdict(w, request) = "ok" /\ Fields(f)
    BY <1>1
  <2>4. R!Verdict(f, request) # "ok" /\ ~(R!Verdict(f, request) \in R!Queueable /\ R!Expresses(f, request.degrade))
    BY DEF R!Planned
  <2>5. R!Verdict(f, request) \in R!Reasons(request)
    BY <2>4 DEF R!Reasons
  <2> HIDE DEF f, w, well
  <2>6. Fields(w)
    BY <2>2, <2>3 DEF Fields
  <2>7. R!Verdict(f, request) \in R!Ended
    BY <1>1, <2>2, <2>3, <2>4, <2>6, WellIsEnded
  <2> QED
    BY <2>5, <2>7, MixedIsNotFinal
<1> QED
  BY <1>2, <1>3

\* No gate is passed by on the way of a target into the plan, busy or not, and a
\* client is told not to try again only if nothing could heal: whatever holds of any
\* number of targets.
THEOREM GatesAlwaysHold == SelSpec => []GatesHold
<1>1. SelInit => PlanInv
  <2> SUFFICES ASSUME SelInit PROVE PlanInv
    OBVIOUS
  <2>1. R!Init
    BY DEF SelInit
  <2>2. \A t \in Targets : fact[t] = R!Healthy
    BY <2>1 DEF R!Init
  <2>3. DOMAIN R!Healthy = DOMAIN R!Values /\ \A x \in DOMAIN R!Values : R!Healthy[x] \in R!Values[x]
    <3>1. DOMAIN R!Values = {"on", "price", "fit", "account", "key", "circuit", "room"}
      BY DEF R!Values
    <3>2. DOMAIN R!Healthy = {"on", "price", "fit", "account", "key", "circuit", "room"}
      BY DEF R!Healthy
    <3>3. \A x \in {"on", "price", "fit", "account", "key", "circuit", "room"} : R!Healthy[x] \in R!Values[x]
      <4>1. R!Healthy["on"] \in R!Values["on"]
        BY DEF R!Healthy, R!Values
      <4>2. R!Healthy["price"] \in R!Values["price"]
        BY DEF R!Healthy, R!Values
      <4>3. R!Healthy["fit"] \in R!Values["fit"]
        BY DEF R!Healthy, R!Values
      <4>4. R!Healthy["account"] \in R!Values["account"]
        BY DEF R!Healthy, R!Values
      <4>5. R!Healthy["key"] \in R!Values["key"]
        BY DEF R!Healthy, R!Values
      <4>6. R!Healthy["circuit"] \in R!Values["circuit"]
        BY DEF R!Healthy, R!Values
      <4>7. R!Healthy["room"] \in R!Values["room"]
        BY DEF R!Healthy, R!Values
      <4> QED
        BY <4>1, <4>2, <4>3, <4>4, <4>5, <4>6, <4>7
    <3> QED
      BY <3>1, <3>2, <3>3
  <2>4. DOMAIN fact = Targets /\ request \in R!Requests /\ changes \in 0..MaxChanges
    BY <2>1, SelectionAssumption DEF R!Init
  <2> QED
    BY <2>2, <2>3, <2>4 DEF PlanInv, R!TypeOK
<1>2. PlanInv /\ [SelNext]_selVars => PlanInv'
  <2> SUFFICES ASSUME PlanInv, [SelNext]_selVars PROVE PlanInv'
    OBVIOUS
  <2>1. CASE R!Next
    BY <2>1, PlanTypes
  <2>2. CASE UNCHANGED planVars
    BY <2>2 DEF planVars, PlanInv, R!TypeOK
  <2> QED
    BY <2>1, <2>2 DEF SelNext, selVars, Within, Others
<1>3. PlanInv => GatesHold
  BY GatesAndCodes DEF PlanInv, GatesHold
<1> QED
  BY <1>1, <1>2, <1>3, PTL DEF SelSpec

-----------------------------------------------------------------------------
(* The choice of a key.                                                     *)

\* The pool changes and calls are made within the states and keys that
\* select_key knows.
LEMMA KeyTypes == TypeOK /\ [Next]_vars => TypeOK'
<1> SUFFICES ASSUME TypeOK, [Next]_vars PROVE TypeOK'
  OBVIOUS
<1>1. ASSUME NEW k \in Keys, NEW s \in KeyStates, KeyChanges(k, s) PROVE TypeOK'
  BY <1>1 DEF TypeOK, KeyChanges
<1>2. ASSUME NEW p \in Keys \cup {None}, NEW b \in Keys \cup {None},
             NEW x \in Keys \cup {None}, Asks(p, b, x)
      PROVE  TypeOK'
  BY <1>2 DEF TypeOK, Asks
<1>3. CASE UNCHANGED vars
  BY <1>3 DEF TypeOK, vars
<1> QED
  BY <1>1, <1>2, <1>3 DEF Next

\* Every variable of the choice keeps its type, also while another part moves.
THEOREM Typing == SelSpec => []TypeOK
<1>1. SelInit => TypeOK
  BY DEF SelInit, Init, TypeOK, KeyStates
<1>2. [SelNext]_selVars => [Next]_vars
  BY DEF SelNext, selVars, Within, Others, keyVars
<1> QED
  BY <1>1, <1>2, KeyTypes, PTL DEF SelSpec

\* None is no key, so it is never among the keys of some state.
LEMMA NoneIsNoKey == \A s \in KeyStates : WithState(s) \subseteq Keys /\ None \notin WithState(s)
  BY KeyAssumption DEF WithState, Enabled

\* select_key answers with a bound key whenever that key can be used.
LEMMA PreferredIsKept ==
  ASSUME TypeOK,
         NEW first \in Enabled \ {excluded},
         state[first] \in {"free", "busy"},
         first = IF pinned # None THEN pinned ELSE sticky
  PROVE  Answers \subseteq {Ready(first), BoundBusy(first)}
<1>1. first \in WithState("free") \cup WithState("busy")
  BY DEF WithState
<1>2. first # None
  BY <1>1, NoneIsNoKey DEF KeyStates
<1>3. Preferred = first
  <2>1. CASE pinned # None
    BY <2>1, <1>1 DEF Preferred
  <2>2. CASE pinned = None
    BY <2>2, <1>1, NoneIsNoKey DEF Preferred, KeyStates
  <2> QED
    BY <2>1, <2>2
<1> QED
  BY <1>2, <1>3 DEF Answers

\* A bound key that is free or busy is never left for another one, for every
\* pool: the invariant B of select_key.
THEOREM BindingIsKept == SelSpec => []BindingKept
<1>1. TypeOK => BindingKept
  BY PreferredIsKept DEF BindingKept
<1> QED
  BY <1>1, Typing, PTL

\* The keys that an answer names are free and have not just failed; with
\* nothing bound every one of them can be named.
LEMMA DrawnAreFree ==
  ASSUME TypeOK
  PROVE  LET drawn == {a[2] : a \in Answers \cap {Ready(k) : k \in Keys}}
         IN  /\ drawn \subseteq WithState("free")
             /\ pinned = None /\ sticky = None => WithState("free") \subseteq drawn
<1> DEFINE ready == {Ready(k) : k \in Keys}
           drawn == {a[2] : a \in Answers \cap ready}
<1>1. \A k \in Keys : Ready(k)[2] = k /\ Ready(k) \in ready
  BY DEF Ready
<1>2. \A k \in Keys \cup {None} : BoundBusy(k) \notin ready /\ Busy \notin ready /\ NoKey \notin ready
  BY KeyAssumption DEF Ready, BoundBusy, Busy, NoKey
<1>3. Preferred \in Keys \cup {None}
  BY NoneIsNoKey DEF Preferred, KeyStates
<1>4. \A a \in Answers \cap ready : a[2] \in WithState("free")
  <2>1. CASE Preferred \in WithState("free")
    BY <2>1, <1>1, <1>3, NoneIsNoKey DEF Answers, KeyStates
  <2>2. CASE Preferred \notin WithState("free") /\ Preferred # None
    BY <2>2, <1>2, <1>3 DEF Answers
  <2>3. CASE Preferred = None /\ WithState("free") # {}
    BY <2>3, <1>1, NoneIsNoKey DEF Answers, KeyStates
  <2>4. CASE Preferred = None /\ WithState("free") = {}
    BY <2>4, <1>2 DEF Answers
  <2> QED
    BY <2>1, <2>2, <2>3, <2>4
<1>5. ASSUME pinned = None, sticky = None
      PROVE  WithState("free") \subseteq drawn
  <2>1. Preferred = None
    BY <1>5 DEF Preferred
  <2>2. None \notin WithState("free")
    BY NoneIsNoKey DEF KeyStates
  <2>3. \A k \in WithState("free") : Ready(k) \in Answers
    BY <2>1, <2>2 DEF Answers
  <2> QED
    BY <2>3, <1>1, NoneIsNoKey DEF KeyStates
<1> QED
  BY <1>4, <1>5

\* No key is used that is busy, bad, disabled or has just failed, and no free
\* one starves, for every pool.
THEOREM OnlyFreeDrawn == SelSpec => []DrawsFromTheFree
<1>1. TypeOK => DrawsFromTheFree
  <2> SUFFICES ASSUME TypeOK PROVE DrawsFromTheFree
    OBVIOUS
  <2>1. {k \in Keys : state[k] = "free" /\ k # excluded} = WithState("free")
    BY DEF WithState, Enabled
  <2> QED
    BY <2>1, DrawnAreFree DEF DrawsFromTheFree
<1> QED
  BY <1>1, Typing, PTL

-----------------------------------------------------------------------------
(* Scores.                                                                  *)

\* Halving is a function on the numbers: it exists, and so is what it says of itself.
LEMMA HalvedUnfolds ==
  ASSUME NEW w \in Nat
  PROVE  /\ P!Halved(w, 0) = w
         /\ \A n \in Nat : P!Halved(w, n) \in Nat /\ P!Halved(w, n + 1) = P!Halved(w, n) \div 2
<1> DEFINE Step(f, i) == IF i = 0 THEN w ELSE f[i - 1] \div 2
           Chain(n, g) == g \in [0..n -> Nat] /\ g[0] = w /\ \A i \in 0..n : i > 0 => g[i] = g[i - 1] \div 2
           Z == {n \in Nat : \E g : Chain(n, g)}
<1>1. \A n \in Nat : \E g : Chain(n, g)
  <2>1. 0 \in Z
    <3>1. Chain(0, [i \in 0..0 |-> w])
      OBVIOUS
    <3> QED
      BY <3>1
  <2>2. ASSUME NEW n \in Z PROVE n + 1 \in Z
    <3>1. PICK g : Chain(n, g)
      BY <2>2
    <3> DEFINE h == [i \in 0..(n + 1) |-> IF i <= n THEN g[i] ELSE g[n] \div 2]
    <3>2. n \in Nat /\ g[n] \div 2 \in Nat
      BY <2>2, <3>1
    <3>3. Chain(n + 1, h)
      <4>1. h \in [0..(n + 1) -> Nat] /\ h[0] = w
        BY <3>1, <3>2
      <4>2. ASSUME NEW i \in 0..(n + 1), i > 0 PROVE h[i] = h[i - 1] \div 2
        <5>1. CASE i <= n
          BY <3>1, <3>2, <4>2, <5>1
        <5>2. CASE i = n + 1
          BY <3>2, <5>2
        <5> QED
          BY <3>2, <4>2, <5>1, <5>2
      <4> QED
        BY <4>1, <4>2
    <3> HIDE DEF Chain, h
    <3> QED
      BY <3>2, <3>3
  <2> HIDE DEF Chain
  <2> QED
    BY <2>1, <2>2, Induction
<1>2. ASSUME NEW n \in Nat, NEW g, NEW h, Chain(n, g), Chain(n + 1, h) PROVE g[n] = h[n]
  <2> DEFINE Y == {i \in Nat : i <= n => g[i] = h[i]}
  <2>1. 0 \in Y
    BY <1>2
  <2>2. ASSUME NEW i \in Y PROVE i + 1 \in Y
    <3> SUFFICES ASSUME i + 1 <= n PROVE g[i + 1] = h[i + 1]
      OBVIOUS
    <3>1. g[i] = h[i] /\ i \in Nat
      BY <2>2
    <3>0. i \in Nat
      OBVIOUS
    <3>a. i + 1 \in 0..n /\ i + 1 \in 0..(n + 1) /\ i + 1 > 0
      BY <3>1
    <3>b. ASSUME NEW m \in 0..n, m > 0 PROVE g[m] = g[m - 1] \div 2
      BY <1>2, <3>b
    <3>c. ASSUME NEW m \in 0..(n + 1), m > 0 PROVE h[m] = h[m - 1] \div 2
      BY <1>2, <3>c
    <3> HIDE DEF Chain, Y
    <3>2. g[i + 1] = g[i + 1 - 1] \div 2 /\ h[i + 1] = h[i + 1 - 1] \div 2
      <4>1. g[i + 1] = g[i + 1 - 1] \div 2
        BY <3>0, <3>a, <3>b
      <4>2. h[i + 1] = h[i + 1 - 1] \div 2
        BY <3>0, <3>a, <3>c
      <4> QED
        BY <4>1, <4>2
    <3>3. i + 1 - 1 = i
      BY <3>1
    <3> QED
      BY <3>1, <3>2, <3>3
  <2>3. Y = Nat
    BY <2>1, <2>2, Induction
  <2> QED
    BY <2>3
<1> DEFINE f == [n \in Nat |-> (CHOOSE g : Chain(n, g))[n]]
<1>3. f[0] = w /\ \A n \in Nat : f[n] \in Nat /\ f[n + 1] = f[n] \div 2
  <2>1. ASSUME NEW n \in Nat PROVE Chain(n, CHOOSE g : Chain(n, g))
    <3> HIDE DEF Chain
    <3> QED
      BY <1>1
  <2>2. ASSUME NEW n \in Nat PROVE f[n] \in Nat /\ f[n + 1] = f[n] \div 2
    <3> DEFINE g == CHOOSE x : Chain(n, x)
               h == CHOOSE x : Chain(n + 1, x)
    <3>1. Chain(n, g) /\ Chain(n + 1, h) /\ f[n] = g[n] /\ f[n + 1] = h[n + 1]
      <4> HIDE DEF Chain
      <4> QED
        BY <2>1
    <3> HIDE DEF g, h, f
    <3>2. h[n + 1] = h[n + 1 - 1] \div 2 /\ n + 1 - 1 = n /\ g[n] \in Nat
      BY <3>1
    <3> HIDE DEF Chain
    <3> QED
      BY <1>2, <3>1, <3>2
  <2>3. f[0] = w
    <3> DEFINE g == CHOOSE x : Chain(0, x)
    <3>1. Chain(0, g) /\ f[0] = g[0]
      <4> HIDE DEF Chain
      <4> QED
        BY <2>1
    <3> HIDE DEF g, f
    <3> QED
      BY <3>1
  <2> HIDE DEF f
  <2> QED
    BY <2>2, <2>3
<1> HIDE DEF f
<1> DEFINE e == [n \in Nat |-> f[n]]
<1>4. e = [i \in Nat |-> Step(e, i)]
  <2>1. \A i \in Nat : e[i] = Step(e, i)
    <3> SUFFICES ASSUME NEW i \in Nat PROVE f[i] = IF i = 0 THEN w ELSE e[i - 1] \div 2
      OBVIOUS
    <3>1. CASE i = 0
      BY <1>3, <3>1
    <3>2. CASE i # 0
      <4>1. i - 1 \in Nat /\ i - 1 + 1 = i
        BY <3>2
      <4> QED
        BY <1>3, <3>2, <4>1
    <3> QED
      BY <3>1, <3>2
  <2> HIDE DEF Step
  <2> QED
    BY <2>1, Zenon
<1> DEFINE left == CHOOSE x : x = [i \in Nat |-> Step(x, i)]
<1>5. left = [i \in Nat |-> Step(left, i)]
  <2> HIDE DEF Step, e
  <2> QED
    BY <1>4
<1>6. \A n : P!Halved(w, n) = left[n]
  BY DEF P!Halved
<1>7. \A i \in Nat : left[i] = Step(left, i)
  <2> HIDE DEF left, Step
  <2> QED
    BY <1>5, Zenon
<1> HIDE DEF left
<1>8. left[0] = w /\ \A n \in Nat : left[n + 1] = left[n] \div 2
  <2>1. \A n \in Nat : n + 1 \in Nat /\ n + 1 # 0 /\ n + 1 - 1 = n
    OBVIOUS
  <2> QED
    BY <1>7, <2>1
<1>9. \A n \in Nat : left[n] \in Nat
  <2> DEFINE X == {n \in Nat : left[n] \in Nat}
  <2>1. 0 \in X /\ \A n \in X : n + 1 \in X
    BY <1>8
  <2>2. X = Nat
    BY <2>1, Induction
  <2> QED
    BY <2>2
<1> QED
  BY <1>6, <1>8, <1>9

\* What is left is a number, ...
LEMMA HalvedTyped ==
  \A w \in Nat : P!Halved(w, 0) = w /\ \A n \in Nat : P!Halved(w, n) \in Nat
BY HalvedUnfolds

\* ... more stays at least as much, ...
LEMMA HalvedMonotone ==
  ASSUME NEW v \in Nat, NEW w \in Nat, v <= w, NEW n \in Nat
  PROVE  P!Halved(v, n) <= P!Halved(w, n)
<1> DEFINE X == {i \in Nat : P!Halved(v, i) <= P!Halved(w, i)}
<1>1. 0 \in X
  BY HalvedUnfolds
<1>2. ASSUME NEW i \in X PROVE i + 1 \in X
  <2> DEFINE a == P!Halved(v, i)
             b == P!Halved(w, i)
  <2>1. a \in Nat /\ b \in Nat /\ a <= b /\ i \in Nat
    BY <1>2, HalvedUnfolds
  <2>2. P!Halved(v, i + 1) = a \div 2 /\ P!Halved(w, i + 1) = b \div 2
    BY <2>1, HalvedUnfolds
  <2> HIDE DEF a, b
  <2>3. a \div 2 <= b \div 2
    BY <2>1
  <2> QED
    BY <2>1, <2>2, <2>3
<1>3. X = Nat
  BY <1>1, <1>2, Induction
<1> QED
  BY <1>3

\* ... halving goes on where it was left, ...
LEMMA HalvedAdds ==
  ASSUME NEW w \in Nat, NEW m \in Nat, NEW n \in Nat
  PROVE  P!Halved(P!Halved(w, m), n) = P!Halved(w, m + n)
<1> DEFINE v == P!Halved(w, m)
           X == {i \in Nat : P!Halved(v, i) = P!Halved(w, m + i)}
<1>1. v \in Nat
  BY HalvedUnfolds
<1> HIDE DEF v
<1>2. 0 \in X
  <2>1. P!Halved(v, 0) = v /\ m + 0 = m
    BY <1>1, HalvedUnfolds
  <2> QED
    BY <2>1 DEF v
<1>3. ASSUME NEW i \in X PROVE i + 1 \in X
  <2>1. i \in Nat /\ m + i \in Nat /\ m + i + 1 = m + (i + 1) /\ P!Halved(v, i) = P!Halved(w, m + i)
    BY <1>3
  <2>2. P!Halved(v, i + 1) = P!Halved(v, i) \div 2
    BY <1>1, <2>1, HalvedUnfolds
  <2>3. P!Halved(w, m + i + 1) = P!Halved(w, m + i) \div 2
    BY <2>1, HalvedUnfolds
  <2>4. P!Halved(v, i + 1) = P!Halved(w, m + (i + 1))
    BY <2>1, <2>2, <2>3
  <2> QED
    BY <2>1, <2>4
<1>4. X = Nat
  BY <1>2, <1>3, Induction
<1> QED
  BY <1>4 DEF v

\* ... and never becomes more.
LEMMA HalvedShrinks ==
  ASSUME NEW w \in Nat, NEW m \in Nat, NEW n \in Nat, m <= n
  PROVE  P!Halved(w, n) <= P!Halved(w, m)
<1> DEFINE X == {i \in Nat : P!Halved(w, m + i) <= P!Halved(w, m)}
<1>0. P!Halved(w, m) \in Nat
  BY HalvedUnfolds
<1>1. 0 \in X
  <2>1. m + 0 = m
    OBVIOUS
  <2> QED
    BY <1>0, <2>1
<1>2. ASSUME NEW i \in X PROVE i + 1 \in X
  <2> DEFINE a == P!Halved(w, m + i)
  <2>1. i \in Nat /\ m + i \in Nat /\ m + i + 1 = m + (i + 1) /\ a <= P!Halved(w, m)
    BY <1>2
  <2>2. a \in Nat /\ P!Halved(w, m + i + 1) = a \div 2
    BY <2>1, HalvedUnfolds
  <2> HIDE DEF a
  <2>3. a \div 2 <= a
    BY <2>2
  <2>4. P!Halved(w, m + (i + 1)) <= P!Halved(w, m)
    <3>1. P!Halved(w, m + (i + 1)) = a \div 2 /\ a \div 2 \in Nat
      BY <2>1, <2>2
    <3> QED
      BY <1>0, <2>1, <2>2, <2>3, <3>1
  <2> QED
    BY <2>1, <2>4
<1>3. X = Nat
  BY <1>1, <1>2, Induction
<1>4. n - m \in Nat /\ m + (n - m) = n
  OBVIOUS
<1> QED
  BY <1>3, <1>4

\* A quotient is bounded by what the divisor goes into.
LEMMA QuotientBound ==
  ASSUME NEW a \in Nat, NEW b \in Nat \ {0}, NEW c \in Nat, a <= c * b
  PROVE  a \div b \in Nat /\ a \div b <= c
<1> DEFINE q == a \div b
<1>1. q \in Int /\ b * q <= a /\ a < b * (q + 1)
  OBVIOUS
<1> HIDE DEF q
<1>2. ASSUME q > c PROVE FALSE
  <2>1. PICK k \in Nat : q = c + 1 + k
    <3>1. q - c - 1 \in Nat /\ q = c + 1 + (q - c - 1)
      BY <1>1, <1>2
    <3> QED
      BY <3>1
  <2>2. b * q = c * b + b + b * k
    BY <2>1
  <2>3. b * k >= 0
    BY <2>1
  <2> QED
    BY <1>1, <2>2, <2>3
<1>3. ASSUME q < 0 PROVE FALSE
  <2>1. PICK k \in Nat : q + 1 = 0 - k
    <3>1. 0 - q - 1 \in Nat /\ q + 1 = 0 - (0 - q - 1)
      BY <1>1, <1>3
    <3> QED
      BY <3>1
  <2>2. b * (q + 1) = 0 - (b * k) /\ b * k >= 0
    BY <2>1
  <2> QED
    BY <1>1, <2>2
<1> QED
  BY <1>1, <1>2, <1>3 DEF q

\* What was gathered when is bounded: the samples by those of the run, the time by now.
Sound(s) == s.at <= halfLives /\ s.weight <= Unit * observed /\ s.hits <= observed

\* What is on disk is known in memory, and its evidence is no fresher than that there.
NoFresher(t) ==
  rows[t] # None =>
    /\ stats[t] # None /\ rows[t].at <= stats[t].at
    /\ P!Halved(rows[t].weight, stats[t].at - rows[t].at) <= stats[t].weight

ScoreInv ==
  /\ P!TypeOK
  /\ \A t \in Targets : /\ stats[t] # None => Sound(stats[t])
                        /\ rows[t] # None => Sound(rows[t])
                        /\ NoFresher(t)

\* The fields of the statistics, as facts of arithmetic.
LEMMA StatsFields ==
  ASSUME NEW s \in P!Stats
  PROVE  /\ {s.weight, s.at, s.hits, s.success, s.first, s.cache} \subseteq Nat
         /\ s.weight <= Unit * MaxSamples /\ s.hits <= MaxSamples /\ s.at <= MaxHalfLives
         /\ s.success <= 10 /\ s.first <= 10 /\ s.cache <= 10
<1>1. Unit \in Nat /\ MaxSamples \in Nat /\ MaxHalfLives \in Nat /\ Unit * MaxSamples \in Nat
  BY SelectionAssumption DEF P!ScoreAssumption
<1>2. s.weight \in 0..(Unit * MaxSamples) /\ s.hits \in 0..MaxSamples /\ s.at \in 0..MaxHalfLives
      /\ s.success \in 0..10 /\ s.first \in 0..10 /\ s.cache \in 0..10
  BY DEF P!Stats
<1> QED
  BY <1>1, <1>2

LEMMA StatsAreNot ==
  \A s \in P!Stats : s # None
BY SelectionAssumption

\* What is known of a target, or what is presumed of an unknown one.
LEMMA OfTyped ==
  ASSUME P!TypeOK, NEW t \in Targets
  PROVE  P!Of(t) \in P!Stats
<1>1. Unit * MaxSamples \in Nat /\ MaxSamples \in Nat /\ MaxHalfLives \in Nat
  BY SelectionAssumption DEF P!ScoreAssumption
<1>2. P!Default \in P!Stats
  BY <1>1 DEF P!Default, P!Stats
<1> QED
  BY <1>2 DEF P!TypeOK, P!Of

\* The evidence of a target as it weighs some time after the last sample.
LEMMA EffectiveFades ==
  ASSUME NEW s \in P!Stats, NEW n \in Nat, s.at <= n
  PROVE  /\ P!Effective(s, n) \in Nat /\ P!Effective(s, n) <= s.weight
         /\ n - s.at >= Faded => 8 * P!Effective(s, n) <= MinSamples * Unit
<1> DEFINE most == Unit * MaxSamples
<1>1. s.weight \in Nat /\ s.at \in Nat /\ s.weight <= most /\ n - s.at \in Nat /\ most \in Nat
      /\ Faded \in Nat
  BY StatsFields, SelectionAssumption DEF P!ScoreAssumption
<1>2. P!Effective(s, n) = P!Halved(s.weight, n - s.at)
  BY DEF P!Effective
<1> HIDE DEF most
<1>3. P!Effective(s, n) \in Nat
  BY <1>1, <1>2, HalvedTyped
<1>4. P!Effective(s, n) <= s.weight
  <2>1. P!Halved(s.weight, n - s.at) <= P!Halved(s.weight, 0)
    BY <1>1, HalvedShrinks
  <2> QED
    BY <2>1, <1>1, <1>2, HalvedUnfolds
<1>5. ASSUME n - s.at >= Faded PROVE 8 * P!Effective(s, n) <= MinSamples * Unit
  <2>1. P!Halved(s.weight, n - s.at) <= P!Halved(most, n - s.at)
    BY <1>1, HalvedMonotone
  <2>2. P!Halved(most, n - s.at) <= P!Halved(most, Faded)
    BY <1>1, <1>5, HalvedShrinks
  <2>3. 8 * P!Halved(most, Faded) <= MinSamples * Unit
    BY SelectionAssumption DEF P!FadedAssumption, most
  <2>4. P!Halved(most, n - s.at) \in Nat /\ P!Halved(most, Faded) \in Nat /\ MinSamples * Unit \in Nat
    <3>1. MinSamples \in Nat /\ Unit \in Nat
      BY SelectionAssumption DEF P!ScoreAssumption
    <3>2. MinSamples * Unit \in Nat
      BY <3>1
    <3> QED
      BY <3>2, <1>1, HalvedTyped
  <2> QED
    BY <2>1, <2>2, <2>3, <2>4, <1>2, <1>3
<1> QED
  BY <1>3, <1>4, <1>5

\* One more observation: the weight grows by a sample, the rates stay in their scale.
LEMMA ObservedSound ==
  ASSUME P!TypeOK, NEW s \in P!Stats, Sound(s), observed < MaxSamples,
         NEW kind \in P!Kinds, NEW latency \in Latencies, NEW hit \in Hits,
         NEW o, o = P!Observed(s, kind, latency, hit)
  PROVE  /\ o \in P!Stats /\ o.at <= halfLives /\ s.at <= o.at
         /\ o.weight <= Unit * (observed + 1) /\ o.hits <= observed + 1
         /\ P!Halved(s.weight, o.at - s.at) <= o.weight
<1> DEFINE w == P!Effective(s, halfLives)
<1>1. /\ Unit \in Nat /\ MaxSamples \in Nat /\ MaxHalfLives \in Nat /\ observed \in Nat
      /\ halfLives \in Nat /\ halfLives <= MaxHalfLives /\ latency \in 0..10 /\ hit \in 0..10
  BY SelectionAssumption DEF P!ScoreAssumption, P!TypeOK
<1>2. /\ s.weight \in Nat /\ s.at \in Nat /\ s.hits \in Nat /\ s.hits <= observed
      /\ s.success \in 0..10 /\ s.first \in 0..10 /\ s.cache \in 0..10
      /\ s.at <= halfLives /\ s.weight <= Unit * observed
  BY StatsFields DEF Sound
<1>3. w \in Nat /\ w <= s.weight /\ w = P!Halved(s.weight, halfLives - s.at)
  BY <1>1, <1>2, EffectiveFades DEF P!Effective
<1> HIDE DEF w
<1>4. /\ Unit * observed \in Nat /\ Unit * (observed + 1) = Unit * observed + Unit
      /\ Unit * (observed + 1) <= Unit * MaxSamples /\ Unit * MaxSamples \in Nat
  <2>1. PICK k \in Nat : MaxSamples = observed + 1 + k
    <3>1. MaxSamples - observed - 1 \in Nat /\ MaxSamples = observed + 1 + (MaxSamples - observed - 1)
      BY <1>1
    <3> QED
      BY <3>1
  <2>2. Unit * MaxSamples = Unit * (observed + 1) + Unit * k /\ Unit * k \in Nat
    BY <1>1, <2>1
  <2>3. Unit * observed \in Nat /\ Unit * (observed + 1) = Unit * observed + Unit
    BY <1>1
  <2> QED
    BY <2>2, <2>3, <1>1
<1>5. \A x, y \in 0..10 : P!Ewma(x, y) \in 0..10 /\ P!Seeded(x, y) \in 0..10
  BY DEF P!Ewma, P!Seeded
<1>6. CASE kind = "excluded"
  <2>1. o = s
    BY <1>6 DEF P!Observed
  <2>2. s.at - s.at = 0 /\ P!Halved(s.weight, 0) = s.weight
    <3>1. s.weight \in Nat /\ s.at \in Nat
      BY <1>2
    <3>2. P!Halved(s.weight, 0) = s.weight
      BY ONLY <3>1, HalvedTyped
    <3> QED
      BY <3>1, <3>2
  <2> QED
    BY <2>1, <2>2, <1>1, <1>2, <1>4
<1>7. CASE kind # "excluded"
  <2> DEFINE rate == CASE kind = "success" -> P!Ewma(s.success, 10)
                       [] kind = "failure" -> P!Ewma(s.success, 0)
                       [] OTHER -> s.success
             counted == [s EXCEPT !.weight = w + Unit, !.at = halfLives, !.success = rate]
  <2>1. rate \in 0..10
    BY <1>2, <1>5
  <2>2. o = IF kind = "failure" THEN counted
            ELSE [counted EXCEPT !.first = P!Seeded(@, latency),
                                 !.cache = IF s.hits = 0 THEN hit ELSE P!Ewma(@, hit),
                                 !.hits = @ + 1]
    BY <1>7 DEF P!Observed, w
  <2> HIDE DEF rate
  <2>3. w + Unit <= Unit * (observed + 1) /\ w + Unit \in 0..(Unit * MaxSamples)
    BY <1>1, <1>2, <1>3, <1>4
  <2>4. counted \in P!Stats /\ counted.at = halfLives /\ counted.weight = w + Unit
        /\ counted.hits = s.hits /\ counted.first = s.first /\ counted.cache = s.cache
    <3>1. counted \in P!Stats
      <4>1. halfLives \in 0..MaxHalfLives
        BY <1>1
      <4> DEFINE weight == w + Unit
      <4>2. weight \in 0..(Unit * MaxSamples)
        BY <2>3
      <4> HIDE DEF weight
      <4>3. counted = [s EXCEPT !.weight = weight, !.at = halfLives, !.success = rate]
        BY DEF weight
      <4> HIDE DEF counted
      <4> QED
        BY <4>1, <4>2, <4>3, <2>1 DEF P!Stats
    <3>2. /\ counted.at = halfLives /\ counted.weight = w + Unit
          /\ counted.hits = s.hits /\ counted.first = s.first /\ counted.cache = s.cache
      BY DEF P!Stats
    <3> QED
      BY <3>1, <3>2
  <2> HIDE DEF counted
  <2>5. o \in P!Stats /\ o.at = halfLives /\ o.weight = w + Unit /\ o.hits <= observed + 1
    <3>1. CASE kind = "failure"
      BY <3>1, <2>2, <2>4, <1>1, <1>2
    <3>2. CASE kind # "failure"
      <4> DEFINE first == P!Seeded(counted.first, latency)
                 cache == IF s.hits = 0 THEN hit ELSE P!Ewma(counted.cache, hit)
      <4>1. first \in 0..10 /\ cache \in 0..10 /\ s.hits + 1 \in 0..MaxSamples
        BY <2>4, <1>1, <1>2, <1>5
      <4>2. o = [counted EXCEPT !.first = first, !.cache = cache, !.hits = s.hits + 1]
        BY <3>2, <2>2, <2>4
      <4> HIDE DEF first, cache
      <4>3. o \in P!Stats /\ o.at = counted.at /\ o.weight = counted.weight /\ o.hits = s.hits + 1
        BY <4>1, <4>2, <2>4 DEF P!Stats
      <4> QED
        BY <4>3, <2>4, <1>1, <1>2
    <3> QED
      BY <3>1, <3>2
  <2> QED
    BY <2>3, <2>5, <1>1, <1>2, <1>3
<1> QED
  BY <1>6, <1>7

\* The states that the part of the scores is in.
LEMMA ScoreInit == SelInit => ScoreInv
<1> SUFFICES ASSUME SelInit PROVE ScoreInv
  OBVIOUS
<1>1. P!Init
  BY DEF SelInit
<1>2. /\ stats = [t \in Targets |-> None] /\ rows = stats /\ live = Targets
      /\ observed = 0 /\ restarts = 0 /\ halfLives = 0
  BY <1>1 DEF P!Init
<1>3. 0 \in 0..MaxSamples /\ 0 \in 0..MaxRestarts /\ 0 \in 0..MaxHalfLives
  BY SelectionAssumption DEF P!ScoreAssumption
<1>4. P!TypeOK
  BY <1>2, <1>3 DEF P!TypeOK
<1> QED
  BY <1>2, <1>4 DEF ScoreInv, NoFresher

LEMMA TimesGrows ==
  ASSUME NEW c \in Nat, NEW a \in Nat, NEW b \in Nat, a <= b
  PROVE  c * a <= c * b /\ c * a \in Nat /\ c * b \in Nat
<1>1. PICK k \in Nat : b = a + k
  <2>1. b - a \in Nat /\ b = a + (b - a)
    OBVIOUS
  <2> QED
    BY <2>1
<1>2. c * b = c * a + c * k /\ c * k \in Nat /\ c * a \in Nat
  BY <1>1
<1> QED
  BY <1>1, <1>2

\* Later, and with more samples, what was sound is.
LEMMA SoundStays ==
  ASSUME P!TypeOK, P!TypeOK', NEW s \in P!Stats, Sound(s), observed <= observed', halfLives <= halfLives'
  PROVE  /\ s.at <= halfLives' /\ s.weight <= Unit * observed' /\ s.hits <= observed'
<1>1. /\ s.weight \in Nat /\ s.at \in Nat /\ s.hits \in Nat
      /\ s.at <= halfLives /\ s.weight <= Unit * observed /\ s.hits <= observed
      /\ observed \in Nat /\ observed' \in Nat /\ Unit \in Nat /\ halfLives \in Nat /\ halfLives' \in Nat
  BY StatsFields, SelectionAssumption DEF Sound, P!TypeOK, P!ScoreAssumption
<1>2. Unit * observed <= Unit * observed' /\ Unit * observed \in Nat /\ Unit * observed' \in Nat
  BY <1>1, TimesGrows
<1> QED
  BY <1>1, <1>2

\* One observation of one target.
LEMMA ObserveKeeps ==
  ASSUME ScoreInv, NEW t \in Targets, NEW kind \in P!Kinds, NEW latency \in Latencies, NEW hit \in Hits,
         P!Observe(t, kind, latency, hit)
  PROVE  ScoreInv'
<1> DEFINE s == P!Of(t)
           o == P!Observed(s, kind, latency, hit)
<1>1. P!TypeOK /\ s \in P!Stats
  BY OfTyped DEF ScoreInv
<1>2. /\ observed < MaxSamples /\ observed' = observed + 1 /\ stats' = [stats EXCEPT ![t] = o]
      /\ UNCHANGED <<rows, live, restarts, halfLives>>
  BY DEF P!Observe
<1>3. /\ observed \in Nat /\ halfLives \in Nat /\ Unit \in Nat /\ MaxSamples \in Nat
      /\ stats \in [Targets -> P!Stats \cup {None}] /\ rows \in [Targets -> P!Stats \cup {None}]
  BY <1>1, SelectionAssumption DEF P!TypeOK, P!ScoreAssumption
<1>4. Sound(s)
  <2>1. CASE stats[t] = None
    <3>1. Unit * observed \in Nat
      BY <1>3
    <3> QED
      BY <2>1, <3>1, <1>3 DEF Sound, P!Of, P!Default
  <2>2. CASE stats[t] # None
    BY <2>2 DEF P!Of, ScoreInv
  <2> QED
    BY <2>1, <2>2
<1>5. /\ o \in P!Stats /\ o.at <= halfLives /\ s.at <= o.at
      /\ o.weight <= Unit * (observed + 1) /\ o.hits <= observed + 1
      /\ P!Halved(s.weight, o.at - s.at) <= o.weight
  BY <1>1, <1>2, <1>4, ObservedSound
<1> HIDE DEF o
<1>6. P!TypeOK'
  <2>1. observed' \in 0..MaxSamples
    BY <1>2, <1>3
  <2>2. stats' \in [Targets -> P!Stats \cup {None}]
    BY <1>2, <1>3, <1>5
  <2> QED
    BY <2>1, <2>2, <1>1, <1>2 DEF P!TypeOK
<1>7. ASSUME NEW u \in Targets
      PROVE  /\ (stats[u] # None => Sound(stats[u]))'
             /\ (rows[u] # None => Sound(rows[u]))'
             /\ NoFresher(u)'
  <2>1. ASSUME NEW x \in P!Stats, Sound(x)
        PROVE  x.at <= halfLives' /\ x.weight <= Unit * observed' /\ x.hits <= observed'
    <3>1. observed <= observed' /\ halfLives <= halfLives'
      BY <1>2, <1>3
    <3> QED
      BY <2>1, <3>1, <1>1, <1>6, SoundStays
  <2>2. (rows[u] # None => Sound(rows[u]))'
    BY <2>1, <1>2, <1>3 DEF ScoreInv, Sound
  <2>3. CASE u # t
    <3>1. stats'[u] = stats[u] /\ rows'[u] = rows[u]
      BY <2>3, <1>2, <1>3
    <3>2. (stats[u] # None => Sound(stats[u]))'
      BY <3>1, <2>1, <1>3 DEF ScoreInv, Sound
    <3>3. NoFresher(u)'
      BY <3>1 DEF ScoreInv, NoFresher
    <3> QED
      BY <2>2, <3>2, <3>3
  <2>4. CASE u = t
    <3>1. stats'[u] = o /\ rows'[u] = rows[u]
      BY <2>4, <1>2, <1>3
    <3>2. (stats[u] # None => Sound(stats[u]))'
      BY <3>1, <1>2, <1>5 DEF Sound
    <3>3. ASSUME rows[t] # None
          PROVE  o # None /\ rows[t].at <= o.at /\ P!Halved(rows[t].weight, o.at - rows[t].at) <= o.weight
      <4> DEFINE r == rows[t]
                 m == s.at - r.at
                 n == o.at - s.at
      <4>1. stats[t] # None /\ r.at <= stats[t].at /\ P!Halved(r.weight, stats[t].at - r.at) <= stats[t].weight
        BY <3>3 DEF ScoreInv, NoFresher
      <4>2. s = stats[t]
        BY <4>1 DEF P!Of
      <4>3. r \in P!Stats /\ r.weight \in Nat /\ r.at \in Nat
        BY <3>3, <1>3, StatsFields
      <4>4. s.weight \in Nat /\ s.at \in Nat /\ o.at \in Nat /\ o.weight \in Nat
        BY <1>1, <1>5, StatsFields
      <4>5. m \in Nat /\ n \in Nat /\ m + n = o.at - r.at /\ r.at <= o.at
        BY <4>1, <4>2, <4>3, <4>4, <1>5
      <4>6. P!Halved(r.weight, m) <= s.weight /\ P!Halved(s.weight, n) <= o.weight
        BY <4>1, <4>2, <1>5
      <4> HIDE DEF m, n, r, s
      <4>7. P!Halved(r.weight, m) \in Nat /\ P!Halved(s.weight, n) \in Nat
        BY <4>3, <4>4, <4>5, HalvedTyped
      <4>8. P!Halved(P!Halved(r.weight, m), n) <= P!Halved(s.weight, n)
        BY <4>4, <4>5, <4>6, <4>7, HalvedMonotone
      <4>9. P!Halved(P!Halved(r.weight, m), n) = P!Halved(r.weight, m + n)
            /\ P!Halved(P!Halved(r.weight, m), n) \in Nat
        <5>1. m + n \in Nat
          BY <4>5
        <5>2. P!Halved(P!Halved(r.weight, m), n) = P!Halved(r.weight, m + n)
          BY ONLY <4>3, <4>5, HalvedAdds
        <5>3. P!Halved(P!Halved(r.weight, m), n) \in Nat
          BY ONLY <4>5, <4>7, HalvedTyped
        <5> QED
          BY <5>2, <5>3
      <4>10. P!Halved(r.weight, m + n) <= o.weight
        BY <4>4, <4>6, <4>7, <4>8, <4>9
      <4> QED
        BY <4>5, <4>10, <1>5, StatsAreNot DEF r
    <3>4. NoFresher(u)'
      BY <3>1, <3>3, <2>4 DEF NoFresher
    <3> QED
      BY <2>2, <3>2, <3>4
  <2> QED
    BY <2>3, <2>4
<1> QED
  BY <1>6, <1>7 DEF ScoreInv

\* The jobs, a restart and the clock: each entry is one that there was.
LEMMA ScoreStep == ScoreInv /\ P!Next => ScoreInv'
<1> SUFFICES ASSUME ScoreInv, P!Next PROVE ScoreInv'
  OBVIOUS
<1>1. /\ P!TypeOK
      /\ stats \in [Targets -> P!Stats \cup {None}] /\ rows \in [Targets -> P!Stats \cup {None}]
      /\ observed \in Nat /\ halfLives \in Nat /\ restarts \in Nat
  BY SelectionAssumption DEF ScoreInv, P!TypeOK
<1>2. ASSUME P!TypeOK', observed <= observed', halfLives <= halfLives',
             \A t \in Targets :
               /\ stats'[t] \in {None, stats[t], rows[t]} /\ rows'[t] \in {None, stats[t], rows[t]}
               /\ \/ rows'[t] = None
                  \/ rows'[t] = stats'[t] /\ stats'[t] # None
                  \/ rows'[t] = rows[t] /\ stats'[t] = stats[t]
      PROVE  ScoreInv'
  <2> SUFFICES ASSUME NEW t \in Targets
               PROVE  /\ (stats[t] # None => Sound(stats[t]))'
                      /\ (rows[t] # None => Sound(rows[t]))'
                      /\ NoFresher(t)'
    BY <1>2 DEF ScoreInv
  <2>1. ASSUME NEW x, x \in {stats[t], rows[t]}, x # None
        PROVE  x.at <= halfLives' /\ x.weight <= Unit * observed' /\ x.hits <= observed'
    <3>1. x \in P!Stats /\ Sound(x)
      BY <2>1, <1>1 DEF ScoreInv
    <3> QED
      BY <3>1, <1>1, <1>2, SoundStays
  <2>2. (stats[t] # None => Sound(stats[t]))'
    BY <2>1, <1>2 DEF Sound
  <2>3. (rows[t] # None => Sound(rows[t]))'
    BY <2>1, <1>2 DEF Sound
  <2>4. NoFresher(t)'
    <3>1. CASE rows'[t] = None
      BY <3>1 DEF NoFresher
    <3>2. CASE rows'[t] = stats'[t] /\ stats'[t] # None
      <4> DEFINE y == stats'[t]
      <4>1. y \in P!Stats
        BY <3>2, <1>1, <1>2
      <4>2. y.weight \in Nat /\ y.at \in Nat
        BY <4>1, StatsFields
      <4>3. y.at - y.at = 0 /\ y.at <= y.at
        BY <4>2
      <4> HIDE DEF y
      <4>4. P!Halved(y.weight, 0) = y.weight
        BY ONLY <4>2, HalvedTyped
      <4>5. P!Halved(y.weight, y.at - y.at) <= y.weight
        BY <4>2, <4>3, <4>4
      <4> QED
        BY <3>2, <4>3, <4>5 DEF NoFresher, y
    <3>3. CASE rows'[t] = rows[t] /\ stats'[t] = stats[t]
      BY <3>3 DEF ScoreInv, NoFresher
    <3> QED
      BY <3>1, <3>2, <3>3, <1>2
  <2> QED
    BY <2>2, <2>3, <2>4
<1>3. ASSUME NEW t \in Targets, NEW k \in P!Kinds, NEW l \in Latencies, NEW h \in Hits, P!Observe(t, k, l, h)
      PROVE  ScoreInv'
  BY <1>3, ObserveKeeps
<1>4. CASE P!Save
  <2>1. /\ rows' = [t \in Targets |-> IF stats[t] # None THEN stats[t] ELSE rows[t]]
        /\ UNCHANGED <<stats, live, observed, restarts, halfLives>>
    BY <1>4 DEF P!Save
  <2>2. P!TypeOK'
    BY <2>1, <1>1 DEF P!TypeOK
  <2> QED
    BY <2>1, <2>2, <1>1, <1>2 DEF ScoreInv, NoFresher
<1>5. CASE P!Clean
  <2>1. /\ stats' = [t \in Targets |-> IF t \in live THEN stats[t] ELSE None]
        /\ rows' = [t \in Targets |-> IF t \in live THEN rows[t] ELSE None]
        /\ UNCHANGED <<live, observed, restarts, halfLives>>
    BY <1>5 DEF P!Clean
  <2>2. P!TypeOK'
    BY <2>1, <1>1 DEF P!TypeOK
  <2> QED
    BY <2>1, <2>2, <1>1, <1>2
<1>6. CASE P!Restart
  <2>1. /\ stats' = [t \in Targets |-> IF rows[t] = None THEN None ELSE rows[t]]
        /\ restarts < MaxRestarts /\ restarts' = restarts + 1
        /\ UNCHANGED <<rows, live, observed, halfLives>>
    BY <1>6 DEF P!Restart, P!Restored
  <2>2. P!TypeOK'
    <3>1. restarts' \in 0..MaxRestarts
      BY <2>1, <1>1, SelectionAssumption DEF P!ScoreAssumption
    <3> QED
      BY <3>1, <2>1, <1>1 DEF P!TypeOK
  <2> QED
    BY <2>1, <2>2, <1>1, <1>2
<1>7. CASE P!Tick
  <2>1. halfLives < MaxHalfLives /\ halfLives' = halfLives + 1
        /\ UNCHANGED <<stats, rows, live, observed, restarts>>
    BY <1>7 DEF P!Tick
  <2>2. P!TypeOK'
    <3>1. halfLives' \in 0..MaxHalfLives
      BY <2>1, <1>1, SelectionAssumption DEF P!ScoreAssumption
    <3> QED
      BY <3>1, <2>1, <1>1 DEF P!TypeOK
  <2>3. halfLives <= halfLives'
    BY <2>1, <1>1
  <2> QED
    BY <2>1, <2>2, <2>3, <1>1, <1>2
<1>8. ASSUME NEW t \in Targets, P!DeleteTarget(t) PROVE ScoreInv'
  <2>1. live' = live \ {t} /\ UNCHANGED <<stats, rows, observed, restarts, halfLives>>
    BY <1>8 DEF P!DeleteTarget
  <2>2. P!TypeOK'
    BY <2>1, <1>1 DEF P!TypeOK
  <2> QED
    BY <2>1, <2>2, <1>1, <1>2
<1> QED
  BY <1>3, <1>4, <1>5, <1>6, <1>7, <1>8 DEF P!Next

\* A restart brings back nothing fresher than what it replaces.
LEMMA RestartKeepsDoubt ==
  ASSUME ScoreInv, ScoreInv', P!Restart
  PROVE  \A t \in live : P!Effective(P!Of(t)', halfLives) <= P!Effective(P!Of(t), halfLives)
<1> SUFFICES ASSUME NEW t \in live
             PROVE  P!Effective(P!Of(t)', halfLives) <= P!Effective(P!Of(t), halfLives)
  OBVIOUS
<1>1. /\ t \in Targets /\ halfLives \in Nat
      /\ stats \in [Targets -> P!Stats \cup {None}] /\ rows \in [Targets -> P!Stats \cup {None}]
  BY DEF ScoreInv, P!TypeOK
<1>2. stats' = [u \in Targets |-> IF rows[u] = None THEN None ELSE rows[u]]
  BY DEF P!Restart, P!Restored
<1>3. P!Of(t) \in P!Stats /\ P!Of(t).weight \in Nat /\ P!Of(t).at \in Nat /\ P!Of(t).at <= halfLives
  <2>1. P!Of(t) \in P!Stats
    BY <1>1, OfTyped DEF ScoreInv
  <2>2. P!Of(t).at <= halfLives
    BY <1>1 DEF ScoreInv, Sound, P!Of, P!Default
  <2> QED
    BY <2>1, <2>2, StatsFields
<1>4. CASE rows[t] = None
  <2>1. P!Of(t)' = P!Default
    BY <1>1, <1>2, <1>4 DEF P!Of
  <2>2. P!Effective(P!Default, halfLives) = P!Halved(0, halfLives - 0)
    BY DEF P!Effective, P!Default
  <2>3. P!Halved(0, halfLives) <= P!Halved(0, 0) /\ P!Halved(0, 0) = 0
    BY <1>1, HalvedShrinks, HalvedTyped
  <2>4. P!Effective(P!Of(t), halfLives) \in Nat
    BY <1>1, <1>3, EffectiveFades
  <2>5. halfLives - 0 = halfLives /\ P!Halved(0, halfLives) \in Nat
    BY <1>1, HalvedTyped
  <2> QED
    BY <2>1, <2>2, <2>3, <2>4, <2>5
<1>5. CASE rows[t] # None
  <2> DEFINE r == rows[t]
             s == P!Of(t)
             m == s.at - r.at
             n == halfLives - s.at
  <2>1. P!Of(t)' = r
    BY <1>1, <1>2, <1>5 DEF P!Of
  <2>2. s = stats[t] /\ r.at <= s.at /\ P!Halved(r.weight, m) <= s.weight
    BY <1>1, <1>5 DEF ScoreInv, NoFresher, P!Of
  <2>3. r.weight \in Nat /\ r.at \in Nat
    BY <1>1, <1>5, StatsFields
  <2>4. m \in Nat /\ n \in Nat /\ m + n = halfLives - r.at
    BY <1>1, <1>3, <2>2, <2>3
  <2>5. P!Effective(r, halfLives) = P!Halved(r.weight, halfLives - r.at) /\ P!Effective(s, halfLives) = P!Halved(s.weight, n)
    BY DEF P!Effective
  <2> HIDE DEF m, n, r, s
  <2>6. P!Halved(r.weight, m) \in Nat
    BY ONLY <2>3, <2>4, HalvedTyped
  <2>7. s.weight \in Nat
    BY <1>3 DEF s
  <2>8. P!Halved(P!Halved(r.weight, m), n) <= P!Halved(s.weight, n)
    BY <2>2, <2>4, <2>6, <2>7, HalvedMonotone
  <2>9. P!Halved(P!Halved(r.weight, m), n) = P!Halved(r.weight, m + n)
    BY ONLY <2>3, <2>4, HalvedAdds
  <2> QED
    BY <2>1, <2>4, <2>5, <2>8, <2>9 DEF s
<1> QED
  BY <1>4, <1>5

\* The shares are those of small scores.
LEMMA EighthBound == \A x \in 0..10 : P!Eighth(x) \in Nat /\ P!Eighth(x) <= 100000000
<1>1. /\ P!Eighth(0) = 0 /\ P!Eighth(1) = 1 /\ P!Eighth(2) = 256 /\ P!Eighth(3) = 6561
      /\ P!Eighth(4) = 65536 /\ P!Eighth(5) = 390625 /\ P!Eighth(6) = 1679616
      /\ P!Eighth(7) = 5764801 /\ P!Eighth(8) = 16777216 /\ P!Eighth(9) = 43046721
      /\ P!Eighth(10) = 100000000
  BY SMT DEF P!Eighth
<1> QED
  BY SMT, <1>1

\* What a candidate of two weighs when the other one is cold.
LEMMA CandidateWeight ==
  ASSUME P!TypeOK, NEW t \in Targets, NEW u \in Targets, t # u,
         \A c \in {t, u} : P!Of(c).at <= halfLives,
         ~P!Warm(P!Of(t), halfLives)
  PROVE  P!Weight(u, {t, u}) \in Nat /\ P!Weight(u, {t, u}) <= 120000000
<1> DEFINE s == P!Of(u)
           e == P!Effective(s, halfLives)
           enough == MinSamples * Unit
<1>1. s \in P!Stats /\ halfLives \in Nat
  BY SMT, OfTyped DEF P!TypeOK
<1>2. e \in Nat
  BY SMT, <1>1, EffectiveFades
<1>3. enough \in Nat /\ enough > 0
  <2>1. MinSamples \in Nat \ {0} /\ Unit \in Nat \ {0}
    BY SMT, SelectionAssumption DEF P!ScoreAssumption
  <2>2. PICK j \in Nat, k \in Nat : MinSamples = j + 1 /\ Unit = k + 1
    <3>1. MinSamples - 1 \in Nat /\ Unit - 1 \in Nat /\ MinSamples = (MinSamples - 1) + 1 /\ Unit = (Unit - 1) + 1
      BY SMT, <2>1
    <3> QED
      BY SMT, <3>1
  <2>3. enough = j * k + j + k + 1 /\ j * k \in Nat
    BY SMT, <2>2
  <2> QED
    BY SMT, <2>2, <2>3
<1>4. P!Warm(s, halfLives) <=> e >= enough
  BY SMT DEF P!Warm
<1>5. P!Exploration(u) = IF e = 0 THEN 24000000
                         ELSE IF e >= enough THEN 3000000
                         ELSE IF enough >= 8 * e THEN 24000000
                         ELSE (3000000 * MinSamples * Unit) \div e
  BY SMT DEF P!Exploration
<1>6. P!Weight(u, {t, u}) = P!Eighth(P!Total(u, {t, u})) + P!Exploration(u)
  BY SMT DEF P!Weight
<1>7. CASE P!Warm(s, halfLives)
  <2>1. P!WarmOnes({t, u}) = {u}
    BY SMT, <1>7 DEF P!WarmOnes
  <2>2. P!Fastest({t, u}) = 0
    BY <2>1, Zenon DEF P!Fastest
  <2>3. P!Total(u, {t, u}) = (s.success + 6 + (IF s.hits = 0 THEN 6 ELSE s.cache)) \div 3
    BY SMT, <1>7, <2>2 DEF P!Total, P!Neutral
  <2>4. P!Total(u, {t, u}) \in 0..10
    <3>1. s.success \in 0..10 /\ s.cache \in 0..10
      BY SMT, <1>1 DEF P!Stats
    <3> HIDE DEF s
    <3> QED
      BY SMT, <2>3, <3>1
  <2>5. P!Eighth(P!Total(u, {t, u})) \in Nat /\ P!Eighth(P!Total(u, {t, u})) <= 100000000
    <3>1. ASSUME NEW x \in 0..10 PROVE P!Eighth(x) \in Nat /\ P!Eighth(x) <= 100000000
      BY SMT, EighthBound
    <3> QED
      BY ONLY SMT, <2>4, <3>1
  <2>6. P!Exploration(u) = 3000000
    BY SMT, <1>2, <1>3, <1>4, <1>5, <1>7
  <2> QED
    BY SMT, <1>6, <2>5, <2>6
<1>8. CASE ~P!Warm(s, halfLives)
  <2>1. P!Total(u, {t, u}) = 6
    BY SMT, <1>8 DEF P!Total, P!Neutral
  <2>2. P!Eighth(6) = 1679616
    BY SMT DEF P!Eighth
  <2>3. P!Exploration(u) \in Nat /\ P!Exploration(u) <= 24000000
    <3>1. CASE e = 0 \/ enough >= 8 * e
      BY SMT, <3>1, <1>2, <1>3, <1>4, <1>5, <1>8
    <3>2. CASE e # 0 /\ enough < 8 * e
      <4>1. P!Exploration(u) = (3000000 * MinSamples * Unit) \div e
        BY SMT, <3>2, <1>2, <1>3, <1>4, <1>5, <1>8
      <4>2. 3000000 * MinSamples * Unit = 3000000 * enough
        <5>1. MinSamples \in Nat /\ Unit \in Nat
          BY SMT, SelectionAssumption DEF P!ScoreAssumption
        <5> QED
          BY SMT, <5>1
      <4> HIDE DEF enough, e
      <4>3. 3000000 * enough \in Nat /\ 3000000 * enough <= 24000000 * e /\ e \in Nat \ {0}
        BY SMT, <3>2, <1>2, <1>3
      <4>4. (3000000 * enough) \div e \in Nat /\ (3000000 * enough) \div e <= 24000000
        BY ONLY SMT, <4>3, QuotientBound
      <4> QED
        BY SMT, <4>1, <4>2, <4>4
    <3> QED
      BY SMT, <1>2, <1>3, <3>1, <3>2
  <2> QED
    BY SMT, <1>6, <2>1, <2>2, <2>3
<1> QED
  BY SMT, <1>7, <1>8

\* A faded target has the largest floor there is.
LEMMA FadedShare == ScoreInv => P!FadedIsRetried
<1> SUFFICES ASSUME ScoreInv, NEW t \in live, NEW u \in live \ {t}, halfLives - P!Of(t).at >= Faded
             PROVE  6 * P!Weight(t, {t, u}) >= P!AllWeight(t, u)
  BY SMT DEF P!FadedIsRetried
<1> DEFINE e == P!Effective(P!Of(t), halfLives)
           enough == MinSamples * Unit
<1>1. P!TypeOK /\ t \in Targets /\ u \in Targets /\ t # u /\ halfLives \in Nat
  BY SMT DEF ScoreInv, P!TypeOK
<1>2. \A c \in Targets : P!Of(c) \in P!Stats /\ P!Of(c).at <= halfLives
  BY SMT, <1>1, OfTyped DEF ScoreInv, Sound, P!Of, P!Default
<1>3. e \in Nat /\ 8 * e <= enough
  BY SMT, <1>1, <1>2, EffectiveFades
<1>4. enough \in Nat /\ enough > 0
  <2>1. MinSamples \in Nat \ {0} /\ Unit \in Nat \ {0}
    BY SMT, SelectionAssumption DEF P!ScoreAssumption
  <2> QED
    BY SMT, <2>1, TimesGrows
<1>5. ~P!Warm(P!Of(t), halfLives)
  <2>1. P!Warm(P!Of(t), halfLives) <=> e >= enough
    BY SMT DEF P!Warm
  <2> HIDE DEF e, enough
  <2> QED
    BY SMT, <2>1, <1>3, <1>4
<1>6. P!Exploration(t) = 24000000
  <2>1. P!Exploration(t) = IF e = 0 THEN 24000000
                           ELSE IF e >= enough THEN 3000000
                           ELSE IF enough >= 8 * e THEN 24000000
                           ELSE (3000000 * MinSamples * Unit) \div e
    BY SMT DEF P!Exploration
  <2> HIDE DEF e, enough
  <2> QED
    BY SMT, <2>1, <1>3, <1>4
<1>7. P!Weight(t, {t, u}) = 1679616 + 24000000
  <2>1. P!Total(t, {t, u}) = 6
    BY SMT, <1>5 DEF P!Total, P!Neutral
  <2>2. P!Eighth(6) = 1679616
    BY SMT DEF P!Eighth
  <2> QED
    BY SMT, <2>1, <2>2, <1>6 DEF P!Weight
<1>8. P!Weight(u, {t, u}) \in Nat /\ P!Weight(u, {t, u}) <= 120000000
  BY SMT, <1>1, <1>2, <1>5, CandidateWeight
<1> QED
  BY SMT, <1>7, <1>8 DEF P!AllWeight

\* A target with no recent evidence is drawn at least once in six times, however
\* long ago it failed and however well the other one does, and a restart makes no
\* evidence look fresher than it was: for every number of targets and samples, and
\* any crashes and deletions between.  (effective_samples, base_weight, restore.)
THEOREM FadedTargetsComeBack == SelSpec => FadedIsRetried
<1> DEFINE Whitens == restarts' # restarts =>
                        \A t \in live : P!Effective(P!Of(t)', halfLives) <= P!Effective(P!Of(t), halfLives)
<1>1. ScoreInv /\ BindingsInv /\ [SelNext]_selVars => ScoreInv' /\ BindingsInv' /\ [Whitens]_(P!vars)
  <2> SUFFICES ASSUME ScoreInv, BindingsInv, [SelNext]_selVars
               PROVE  ScoreInv' /\ BindingsInv' /\ Whitens
    OBVIOUS
  <2>1. BindingsInv' /\ S!TypeOK'
    BY BindingsStep DEF BindingsInv
  <2>2. ASSUME UNCHANGED <<stats, rows, observed, halfLives>> PROVE ScoreInv' /\ Whitens
    <3>1. live' \subseteq Targets /\ restarts' \in 0..MaxRestarts
      BY <2>1 DEF S!TypeOK
    <3>2. P!TypeOK'
      BY <2>2, <3>1 DEF ScoreInv, P!TypeOK
    <3>3. ScoreInv'
      BY <2>2, <3>2 DEF ScoreInv, NoFresher, Sound
    <3>4. ASSUME NEW t \in live
          PROVE  P!Effective(P!Of(t)', halfLives) <= P!Effective(P!Of(t), halfLives)
      <4>1. P!Of(t)' = P!Of(t)
        BY <2>2 DEF P!Of
      <4>2. t \in Targets /\ halfLives \in Nat
        BY DEF ScoreInv, P!TypeOK
      <4>3. P!Of(t) \in P!Stats /\ P!Of(t).at <= halfLives
        BY <4>2, OfTyped DEF ScoreInv, Sound, P!Of, P!Default
      <4>4. P!Effective(P!Of(t), halfLives) \in Nat
        BY <4>2, <4>3, EffectiveFades
      <4> QED
        BY <4>1, <4>4
    <3> QED
      BY <3>3, <3>4
  <2>3. CASE P!Next
    <3>1. ScoreInv'
      BY <2>3, ScoreStep
    <3>2. CASE P!Restart
      BY <2>1, <3>1, <3>2, RestartKeepsDoubt
    <3>3. CASE ~P!Restart
      <4>1. restarts' = restarts
        BY <2>3, <3>3 DEF P!Next, P!Observe, P!Save, P!Clean, P!Tick, P!DeleteTarget
      <4> QED
        BY <2>1, <3>1, <4>1
    <3> QED
      BY <3>2, <3>3
  <2>4. P!Next \/ UNCHANGED <<stats, rows, observed, halfLives>>
    BY DEF SelNext, selVars, Within, Others, scoreVars
  <2> QED
    BY <2>1, <2>2, <2>3, <2>4
<1>2. ScoreInv => P!TypeOK /\ P!FadedIsRetried
  BY FadedShare DEF ScoreInv
<1> QED
  BY <1>1, <1>2, ScoreInit, BindingsInit, PTL DEF SelSpec, FadedIsRetried, P!RestartWhitensNobody
=============================================================================
