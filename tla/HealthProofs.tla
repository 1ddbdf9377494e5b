----------------------------- MODULE HealthProofs -----------------------------
(***************************************************************************)
(* Admission control for every number of requests, accounts, keys and      *)
(* targets, every limit and every outcome: types, no orphaned trial,       *)
(* permits are conserved, and a lowered limit takes what is idle.          *)
(***************************************************************************)
EXTENDS Health, FiniteSetTheorems, TLAPS

(* What the operators of Circuit preserve and what they do to the half-open *)
(* place.                                                                   *)

\* A new circuit is well formed and nobody tries it (Circuit::default).
LEMMA FreshType == Fresh \in CircuitType /\ ~Fresh.taken
BY CircuitAssumption DEF Fresh, CircuitType, CircuitFields

\* try_enter only marks the place.
LEMMA EnteredType ==
  ASSUME NEW c \in CircuitType
  PROVE  Entered(c) \in CircuitType /\ (c.taken => Entered(c).taken)
<1>1. c.taken \in BOOLEAN /\ c \in CircuitFields /\ c.failures <= c.totals
  BY DEF CircuitType, CircuitFields
<1>2. (c.taken \/ TakesTrial(c)) \in BOOLEAN
  OBVIOUS
<1> DEFINE b == c.taken \/ TakesTrial(c)
<1>3. Entered(c) = [c EXCEPT !.taken = b] /\ (c.taken => b)
  BY DEF Entered
<1> HIDE DEF b
<1>4. QED
  BY <1>1, <1>2, <1>3 DEF b, CircuitType, CircuitFields

\* undo_half_open and release_half_open only clear the place.
LEMMA UndoneType ==
  ASSUME NEW c \in CircuitType, NEW own \in BOOLEAN
  PROVE  /\ Undone(c, own) \in CircuitType
         /\ Undone(c, own).taken <=> c.taken /\ ~own
         /\ Undone(c, own).cooldown = c.cooldown
BY DEF Undone, CircuitType, CircuitFields

\* A sample keeps the window's counts in bounds, failures within totals.
LEMMA NotedType ==
  ASSUME NEW c \in CircuitType, NEW failed \in BOOLEAN
  PROVE  /\ Noted(c, failed) \in CircuitType
         /\ Noted(c, failed).taken = c.taken
         /\ Noted(c, failed).cooldown = c.cooldown
         /\ Noted(c, failed).level = c.level
<1>1. c \in CircuitFields /\ c.failures <= c.totals
  BY DEF CircuitType
<1>2. Noted(c, failed) \in CircuitFields
  <2> DEFINE f == IF c.totals = MaxSamples THEN 0 ELSE c.failures
             t == IF c.totals = MaxSamples THEN 0 ELSE c.totals
             g == IF failed THEN f + 1 ELSE f
  <2>1. t + 1 \in 0..MaxSamples /\ g \in 0..MaxSamples
    BY <1>1, CircuitAssumption DEF CircuitFields
  <2>2. Noted(c, failed) = [c EXCEPT !.totals = t + 1, !.failures = g]
    BY DEF Noted
  <2> HIDE DEF t, g
  <2>3. QED
    BY <1>1, <2>1, <2>2 DEF CircuitFields
<1>3. Noted(c, failed).failures <= Noted(c, failed).totals
  BY <1>1, CircuitAssumption DEF Noted, CircuitFields
<1>4. QED
  BY <1>1, <1>2, <1>3 DEF Noted, CircuitType, CircuitFields

\* on_success closes the circuit.
LEMMA OnSuccessType ==
  ASSUME NEW c \in CircuitType
  PROVE  /\ OnSuccess(c) \in CircuitType
         /\ ~OnSuccess(c).taken
         /\ OnSuccess(c).cooldown = "none"
<1>1. Noted(c, FALSE) \in CircuitType
  BY NotedType
<1>2. QED
  <2>1. OnSuccess(c) \in CircuitFields
    <3>1. 0 \in 0..MaxLevel /\ 0 \in 0..ConsecutiveTrip
      BY CircuitAssumption
    <3>2. QED
      BY <1>1, <3>1 DEF OnSuccess, CircuitType, CircuitFields
  <2>2. /\ OnSuccess(c).failures = Noted(c, FALSE).failures
        /\ OnSuccess(c).totals = Noted(c, FALSE).totals
        /\ ~OnSuccess(c).taken /\ OnSuccess(c).cooldown = "none"
    BY <1>1 DEF OnSuccess, CircuitType, CircuitFields
  <2>3. QED
    BY <1>1, <2>1, <2>2 DEF CircuitType

\* The backoff level saturates (backoff_for).
LEMMA EscalatedType ==
  ASSUME NEW level \in 0..MaxLevel
  PROVE  Escalated(level) \in 0..MaxLevel
BY CircuitAssumption DEF Escalated

\* trip starts a cooldown and ends any trial.
LEMMA TripType ==
  ASSUME NEW c \in CircuitType, NEW given \in BOOLEAN
  PROVE  /\ Trip(c, given) \in CircuitType
         /\ ~Trip(c, given).taken
         /\ Trip(c, given).cooldown = "running"
<1>1. Escalated(c.level) \in 0..MaxLevel
  BY EscalatedType DEF CircuitType, CircuitFields
<1>2. QED
  BY <1>1 DEF Trip, CircuitType, CircuitFields

\* on_fault never leaves the place taken, and a trial that fails starts a new
\* cooldown.
LEMMA OnFaultType ==
  ASSUME NEW c \in CircuitType
  PROVE  /\ OnFault(c) \in CircuitType
         /\ ~OnFault(c).taken
         /\ c.taken => OnFault(c).cooldown = "running"
<1> DEFINE noted == Noted(c, TRUE)
           inRow == c.consecutive + 1
           cooled == [noted EXCEPT !.cooldown = "running", !.taken = FALSE,
                                   !.level = Escalated(@)]
<1>1. noted \in CircuitType /\ noted.taken = c.taken
  BY NotedType
<1>2. cooled \in CircuitType /\ ~cooled.taken /\ cooled.cooldown = "running"
  <2>1. Escalated(noted.level) \in 0..MaxLevel
    BY <1>1, EscalatedType DEF CircuitType, CircuitFields
  <2>2. QED
    BY <1>1, <2>1 DEF CircuitType, CircuitFields
<1> HIDE DEF noted, cooled
<1>3. c.consecutive \in 0..ConsecutiveTrip /\ c.taken \in BOOLEAN
  BY DEF CircuitType, CircuitFields
<1>4. CASE c.taken
  <2>1. OnFault(c) = [cooled EXCEPT !.consecutive =
                        IF inRow > ConsecutiveTrip THEN ConsecutiveTrip ELSE inRow]
    BY <1>4 DEF OnFault, cooled, noted
  <2>2. QED
    BY <2>1, <1>2, <1>3, CircuitAssumption DEF CircuitType, CircuitFields
<1>5. CASE ~c.taken /\ (inRow >= ConsecutiveTrip \/ RatioTrips(noted))
  <2>1. OnFault(c) = [cooled EXCEPT !.consecutive = 0]
    BY <1>5 DEF OnFault, cooled, noted
  <2>2. QED
    BY <2>1, <1>2, <1>5, CircuitAssumption DEF CircuitType, CircuitFields
<1>6. CASE ~c.taken /\ ~(inRow >= ConsecutiveTrip \/ RatioTrips(noted))
  <2>1. OnFault(c) = [noted EXCEPT !.consecutive = inRow]
    BY <1>6 DEF OnFault, cooled, noted
  <2>2. QED
    BY <2>1, <1>1, <1>3, <1>6, CircuitAssumption DEF CircuitType, CircuitFields
<1>7. QED
  BY <1>3, <1>4, <1>5, <1>6

\* The clock starts no trial and ends none.
LEMMA ClockType ==
  ASSUME NEW c \in CircuitType
  PROVE  /\ Expired(c) \in CircuitType /\ Expired(c).taken = c.taken
         /\ Slid(c) \in CircuitType /\ Slid(c).taken = c.taken
         /\ Slid(c).cooldown = c.cooldown
<1>1. c \in CircuitFields /\ c.failures <= c.totals
  BY DEF CircuitType
<1>2. Expired(c) \in CircuitFields /\ Slid(c) \in CircuitFields
  <2>1. 0 \in 0..MaxSamples
    BY CircuitAssumption
  <2>2. QED
    BY <1>1, <2>1 DEF Expired, Slid, CircuitFields
<1>3. /\ Expired(c).failures = c.failures /\ Expired(c).totals = c.totals
      /\ Slid(c).failures = 0 /\ Slid(c).totals = 0
      /\ Expired(c).taken = c.taken /\ Slid(c).taken = c.taken
      /\ Slid(c).cooldown = c.cooldown
  BY <1>1 DEF Expired, Slid, CircuitFields
<1>4. QED
  BY <1>1, <1>2, <1>3 DEF CircuitType

-----------------------------------------------------------------------------
(* Budgets and the types of Health.                                         *)

\* A calibration keeps a budget a budget: only idle permits are forgotten, and
\* the capacity stays positive (Budget::reconcile_capacity).
LEMMA AdjustmentBounds ==
  ASSUME TypeOK, NEW o \in Objects, NEW wanted \in LimitType
  PROVE  /\ Adjustment(o, wanted) \in Int
         /\ avail[o] + Adjustment(o, wanted) \in Nat
         /\ capacity[o] + Adjustment(o, wanted) \in Nat \ {0}
<1> DEFINE a == avail[o]
           c == capacity[o]
<1>1. a \in Nat /\ c \in Nat \ {0}
  BY DEF TypeOK
<1>2. CASE wanted = None
  <2>1. Adjustment(o, wanted) = 0
    BY <1>2 DEF Adjustment
  <2>2. QED
    BY <1>1, <2>1
<1>3. CASE wanted # None
  <2>1. wanted \in Nat \ {0}
    BY <1>3 DEF LimitType
  <2>2. Adjustment(o, wanted) =
          IF wanted > c THEN wanted - c
          ELSE -(IF a < c - wanted THEN a ELSE c - wanted)
    BY <1>3 DEF Adjustment, Smaller
  <2> HIDE DEF a, c
  <2>3. /\ Adjustment(o, wanted) \in Int
        /\ a + Adjustment(o, wanted) \in Nat
        /\ c + Adjustment(o, wanted) \in Nat \ {0}
    BY <1>1, <2>1, <2>2
  <2>4. QED
    BY <2>3 DEF a, c
<1>4. QED
  BY <1>2, <1>3

\* restore_rate only adds permits.
LEMMA RestorationBounds ==
  ASSUME TypeOK, NEW o \in Objects, NEW wanted \in LimitType
  PROVE  Restoration(o, wanted) \in Nat
BY HealthAssumption DEF TypeOK, Restoration, LimitType

\* effective_limits yields a limit.
LEMMA EffectiveType ==
  ASSUME TypeOK, NEW o \in Objects, NEW wanted \in LimitType
  PROVE  Effective(o, wanted) \in LimitType
BY DEF TypeOK, Effective, Configured, LimitType

\* Settling a key or a target: the circuit stays well formed, and its place is
\* free or was taken by somebody else (Admission::settle).
LEMMA KeySettledType ==
  ASSUME TypeOK, NEW k \in Keys, NEW own \in BOOLEAN, NEW outcome \in Outcomes
  PROVE  /\ KeySettled(k, own, outcome) \in CircuitType
         /\ KeySettled(k, own, outcome).taken => circuit[k].taken /\ ~own
<1> DEFINE c == circuit[k]
<1>1. c \in CircuitType
  BY DEF TypeOK, Circuits
<1>2. /\ Undone(c, own) \in CircuitType
      /\ Undone(c, own).taken <=> c.taken /\ ~own
  BY <1>1, UndoneType
<1>3. /\ OnSuccess(c) \in CircuitType /\ ~OnSuccess(c).taken
  BY <1>1, OnSuccessType
<1>4. \A d \in CircuitType, given \in BOOLEAN :
        /\ Trip(d, given) \in CircuitType /\ ~Trip(d, given).taken
  BY TripType
<1>5. /\ OnFault(Undone(c, own)) \in CircuitType /\ ~OnFault(Undone(c, own)).taken
  BY <1>2, OnFaultType
<1> HIDE DEF c
<1>6. KeySettled(k, own, outcome) \in
        {OnSuccess(c), Trip(c, FALSE), Trip(c, TRUE), OnFault(Undone(c, own)),
         Trip(Undone(c, own), TRUE), Undone(c, own)}
  BY DEF KeySettled, c
<1>7. /\ KeySettled(k, own, outcome) \in CircuitType
      /\ KeySettled(k, own, outcome).taken => c.taken /\ ~own
  BY <1>1, <1>2, <1>3, <1>4, <1>5, <1>6
<1>8. QED
  BY <1>7 DEF c

LEMMA TargetSettledType ==
  ASSUME TypeOK, NEW t \in Targets, NEW own \in BOOLEAN, NEW outcome \in Outcomes
  PROVE  /\ TargetSettled(t, own, outcome) \in CircuitType
         /\ TargetSettled(t, own, outcome).taken => circuit[t].taken /\ ~own
<1> DEFINE c == circuit[t]
<1>1. c \in CircuitType
  BY DEF TypeOK, Circuits
<1>2. /\ Undone(c, own) \in CircuitType
      /\ Undone(c, own).taken <=> c.taken /\ ~own
  BY <1>1, UndoneType
<1>3. /\ OnSuccess(c) \in CircuitType /\ ~OnSuccess(c).taken
  BY <1>1, OnSuccessType
<1>4. /\ Trip(c, TRUE) \in CircuitType /\ ~Trip(c, TRUE).taken
  BY <1>1, TripType
<1>5. /\ OnFault(c) \in CircuitType /\ ~OnFault(c).taken
  BY <1>1, OnFaultType
<1> HIDE DEF c
<1>6. TargetSettled(t, own, outcome) \in
        {OnSuccess(c), Trip(c, TRUE), OnFault(c), Undone(c, own)}
  BY DEF TargetSettled, c
<1>7. /\ TargetSettled(t, own, outcome) \in CircuitType
      /\ TargetSettled(t, own, outcome).taken => c.taken /\ ~own
  BY <1>1, <1>2, <1>3, <1>4, <1>5, <1>6
<1>8. QED
  BY <1>7 DEF c

-----------------------------------------------------------------------------
(* Types.                                                                   *)

LEMMA ForgetTyped ==
  ASSUME TypeOK, NEW r \in Requests, Forget(r)
  PROVE  /\ pc' \in [Requests -> Steps]
         /\ path' \in [Requests -> SUBSET Objects]
         /\ refs' \in [Requests -> SUBSET Objects]
         /\ want' \in [Requests -> [Objects -> LimitType]]
         /\ trials' \in [Requests -> SUBSET Circuits]
         /\ held' \in [Requests -> SUBSET Objects]
         /\ probing' \in [Requests -> BOOLEAN]
<1>1. NoLimits \in [Objects -> LimitType]
  BY DEF NoLimits, LimitType
<1>2. QED
  BY <1>1 DEF TypeOK, Forget, Steps

LEMMA UndoTyped ==
  ASSUME TypeOK, NEW r \in Requests, UndoTrials(r)
  PROVE  circuit' \in [Circuits -> CircuitType]
<1>1. ASSUME NEW o \in Circuits
      PROVE  Undone(circuit[o], o \in trials[r]) \in CircuitType
  <2>1. circuit[o] \in CircuitType /\ (o \in trials[r]) \in BOOLEAN
    BY DEF TypeOK
  <2>2. QED
    BY <2>1, UndoneType, Zenon
<1>2. QED
  BY <1>1 DEF UndoTrials

LEMMA VacateTyped ==
  ASSUME TypeOK, Vacate
  PROVE  owner' \in [Circuits -> Requests \cup {None}]
BY DEF TypeOK, Vacate

LEMMA ReturnTyped ==
  ASSUME TypeOK, NEW r \in Requests, ReturnPermits(r)
  PROVE  avail' \in [Objects -> Nat]
BY DEF TypeOK, ReturnPermits

LEMMA RefusedTyped ==
  ASSUME TypeOK, NEW r \in Requests, Refused(r)
  PROVE  TypeOK'
<1>1. circuit' \in [Circuits -> CircuitType]
  BY UndoTyped DEF Refused
<1>2. avail' \in [Objects -> Nat]
  BY ReturnTyped DEF Refused
<1>3. QED
  BY <1>1, <1>2, ForgetTyped, VacateTyped DEF Refused, TypeOK, keyVars

LEMMA PassTyped ==
  ASSUME TypeOK, NEW r \in Requests, NEW o \in Circuits, NEW next \in Steps,
         Pass(r, o, next), probing' \in [Requests -> BOOLEAN]
  PROVE  TypeOK'
<1>1. circuit' \in [Circuits -> CircuitType] /\ trials' \in [Requests -> SUBSET Circuits]
  <2>1. circuit[o] \in CircuitType /\ circuit \in [Circuits -> CircuitType]
    BY DEF TypeOK
  <2>2. Entered(circuit[o]) \in CircuitType
    BY <2>1, EnteredType
  <2>3. trials[r] \cup {x \in {o} : TakesTrial(circuit[o])} \in SUBSET Circuits
    BY DEF TypeOK
  <2>4. CASE o \in refs[r]
    BY <2>1, <2>2, <2>3, <2>4 DEF TypeOK, Pass
  <2>5. CASE o \notin refs[r]
    BY <2>5 DEF TypeOK, Pass, circuitVars
  <2>6. QED
    BY <2>4, <2>5
<1>2. pc' \in [Requests -> Steps] /\ owner' \in [Circuits -> Requests \cup {None}]
  BY DEF TypeOK, Pass, circuitVars
<1>3. QED
  BY <1>1, <1>2 DEF TypeOK, Pass, keyVars, budgetVars

\* The objects a set of keys names are reset or dropped.
LEMMA ClearTyped ==
  ASSUME TypeOK, NEW ks, ClearFaults(ks)
  PROVE  TypeOK'
<1>1. circuit' \in [Circuits -> CircuitType]
  BY FreshType DEF TypeOK, ClearFaults
<1>2. confirmations' \in [Keys -> 0..Confirmations]
  <2>1. 0 \in 0..Confirmations
    BY HealthAssumption
  <2>2. QED
    BY <2>1 DEF TypeOK, ClearFaults
<1>3. invalid' \in [Keys -> {"no", "stopped", "probe"}]
  BY DEF TypeOK, ClearFaults
<1>4. QED
  BY <1>1, <1>2, <1>3, VacateTyped DEF TypeOK, ClearFaults, budgetVars, reqVars

LEMMA DiscardTyped ==
  ASSUME TypeOK, NEW os, Discard(os)
  PROVE  TypeOK'
<1>1. circuit' \in [Circuits -> CircuitType]
  BY FreshType DEF TypeOK, Discard
<1>2. confirmations' \in [Keys -> 0..Confirmations]
  <2>1. 0 \in 0..Confirmations
    BY HealthAssumption
  <2>2. QED
    BY <2>1 DEF TypeOK, Discard
<1>3. invalid' \in [Keys -> {"no", "stopped", "probe"}]
  BY DEF TypeOK, Discard
<1>4. capacity' \in [Objects -> Nat \ {0}] /\ avail' \in [Objects -> Nat]
  BY HealthAssumption DEF TypeOK, Discard
<1>5. /\ refs' \in [Requests -> SUBSET Objects]
      /\ trials' \in [Requests -> SUBSET Circuits]
      /\ held' \in [Requests -> SUBSET Objects]
  BY DEF TypeOK, Discard
<1>6. QED
  BY <1>1, <1>2, <1>3, <1>4, <1>5, VacateTyped DEF TypeOK, Discard

\* What settle does to the circuits, whatever is the outcome.
LEMMA SettleCircuits ==
  ASSUME TypeOK, NEW r \in Requests, NEW outcome \in Outcomes, Settle(r, outcome),
         NEW o \in Circuits
  PROVE  /\ circuit'[o] \in CircuitType
         /\ circuit'[o].taken => circuit[o].taken /\ o \notin path[r] \cap refs[r] \cap trials[r]
<1> DEFINE own == o \in trials[r]
<1>1. own \in BOOLEAN /\ circuit[o] \in CircuitType /\ circuit[o].taken \in BOOLEAN
  BY DEF TypeOK, CircuitType, CircuitFields
<1>2. CASE o \notin path[r] \cap refs[r]
  <2>1. circuit'[o] = circuit[o]
    BY <1>2 DEF Settle
  <2>2. QED
    BY <1>1, <1>2, <2>1
<1>3. CASE o \in path[r] \cap refs[r] /\ o \in Keys
  <2>1. circuit'[o] = KeySettled(o, own, outcome)
    BY <1>3 DEF Settle
  <2> HIDE DEF own
  <2>2. /\ KeySettled(o, own, outcome) \in CircuitType
        /\ KeySettled(o, own, outcome).taken => circuit[o].taken /\ ~own
    BY <1>1, <1>3, KeySettledType
  <2>3. QED
    BY <2>1, <2>2 DEF own
<1>4. CASE o \in path[r] \cap refs[r] /\ o \in Targets
  <2>1. circuit'[o] = TargetSettled(o, own, outcome)
    BY <1>4, HealthAssumption DEF Settle
  <2> HIDE DEF own
  <2>2. /\ TargetSettled(o, own, outcome) \in CircuitType
        /\ TargetSettled(o, own, outcome).taken => circuit[o].taken /\ ~own
    BY <1>1, <1>4, TargetSettledType
  <2>3. QED
    BY <2>1, <2>2 DEF own
<1>5. QED
  BY <1>2, <1>3, <1>4 DEF Circuits

LEMMA CountTyped ==
  ASSUME TypeOK, NEW r \in Requests, NEW outcome, Count(r, outcome)
  PROVE  TypeOK'
<1>1. PICK k \in path[r] \cap Keys : Count(r, outcome)!(k)
  BY DEF Count
<1> DEFINE counted == IF outcome = "success" THEN 0
                      ELSE IF confirmations[k] < Confirmations THEN confirmations[k] + 1
                      ELSE Confirmations
<1>2. counted \in 0..Confirmations
  <2>1. confirmations[k] \in 0..Confirmations /\ Confirmations \in Nat
    BY HealthAssumption DEF TypeOK
  <2>2. QED
    BY <2>1
<1>3. confirmations' \in [Keys -> 0..Confirmations]
  <2>1. confirmations' \in {confirmations, [confirmations EXCEPT ![k] = counted]}
    BY <1>1
  <2> HIDE DEF counted
  <2>2. QED
    BY <1>2, <2>1 DEF TypeOK
<1>4. pc' \in [Requests -> Steps]
  BY <1>1 DEF TypeOK, Steps
<1>5. QED
  BY <1>1, <1>3, <1>4 DEF TypeOK, budgetVars, circuitVars

LEMMA SettleTyped ==
  ASSUME TypeOK, NEW r \in Requests, NEW outcome \in Outcomes, Settle(r, outcome)
  PROVE  TypeOK'
<1>1. circuit' \in [Circuits -> CircuitType]
  <2>1. \A o \in Circuits : circuit'[o] \in CircuitType
    BY SettleCircuits
  <2> DEFINE settled(o) ==
        IF o \notin path[r] \cap refs[r] THEN circuit[o]
        ELSE IF o \in Keys THEN KeySettled(o, o \in trials[r], outcome)
        ELSE TargetSettled(o, o \in trials[r], outcome)
  <2>2. circuit' = [o \in Circuits |-> settled(o)]
    BY DEF Settle
  <2> HIDE DEF settled
  <2>3. QED
    BY <2>1, <2>2
<1>2. invalid' \in [Keys -> {"no", "stopped", "probe"}]
  BY DEF TypeOK, Settle, Marked
<1>3. avail' \in [Objects -> Nat]
  BY ReturnTyped DEF Settle
<1>4. QED
  BY <1>1, <1>2, <1>3, ForgetTyped, VacateTyped DEF TypeOK, Settle

LEMMA CalibrateTyped ==
  ASSUME TypeOK, NEW r \in Requests, Calibrate(r)
  PROVE  TypeOK'
<1> DEFINE wanted == [o \in Objects |->
                        IF o \in path[r] THEN Effective(o, want[r][o]) ELSE None]
<1>1. wanted \in [Objects -> LimitType]
  <2>1. want[r] \in [Objects -> LimitType] /\ None \in LimitType
    BY DEF TypeOK, LimitType
  <2>2. QED
    BY <2>1, EffectiveType
<1>2. /\ capacity' = [o \in Objects |-> capacity[o] + Adjustment(o, wanted[o])]
      /\ avail' = [o \in Objects |-> avail[o] + Adjustment(o, wanted[o])]
      /\ want' = [want EXCEPT ![r] = wanted]
  BY DEF Calibrate
<1> HIDE DEF wanted
<1>3. /\ capacity' \in [Objects -> Nat \ {0}]
      /\ avail' \in [Objects -> Nat]
  <2>1. \A o \in Objects : /\ capacity[o] + Adjustment(o, wanted[o]) \in Nat \ {0}
                           /\ avail[o] + Adjustment(o, wanted[o]) \in Nat
    BY <1>1, AdjustmentBounds
  <2>2. QED
    BY <1>2, <2>1
<1>4. want' \in [Requests -> [Objects -> LimitType]]
  BY <1>1, <1>2 DEF TypeOK
<1>5. pc' \in [Requests -> Steps] /\ refs' \in [Requests -> SUBSET Objects]
  BY DEF TypeOK, Calibrate, Steps
<1>6. QED
  BY <1>3, <1>4, <1>5 DEF TypeOK, Calibrate, keyVars, circuitVars

LEMMA CancelTyped ==
  ASSUME TypeOK, NEW r \in Requests, Cancel(r)
  PROVE  TypeOK'
<1> DEFINE change == [o \in Objects |->
                        IF o \in refs[r] THEN Restoration(o, want[r][o]) ELSE 0]
<1>1. change \in [Objects -> Nat]
  <2>1. want[r] \in [Objects -> LimitType]
    BY DEF TypeOK
  <2>2. QED
    BY <2>1, RestorationBounds
<1>2. /\ capacity' = [o \in Objects |-> capacity[o] + change[o]]
      /\ avail' = [o \in Objects |->
                     avail[o] + change[o] + (IF o \in held[r] THEN 1 ELSE 0)]
  BY DEF Cancel
<1> HIDE DEF change
<1>3. capacity' \in [Objects -> Nat \ {0}] /\ avail' \in [Objects -> Nat]
  BY <1>1, <1>2 DEF TypeOK
<1>4. circuit' \in [Circuits -> CircuitType]
  BY UndoTyped DEF Cancel
<1>5. QED
  BY <1>3, <1>4, ForgetTyped, VacateTyped DEF TypeOK, Cancel, keyVars

LEMMA PermitsTyped ==
  ASSUME TypeOK, NEW r \in Requests, TakePermits(r)
  PROVE  TypeOK'
<1> DEFINE live == Bounded(r) \cap refs[r]
<1>1. CASE Refused(r)
  BY <1>1, RefusedTyped
<1>2. CASE /\ \A o \in live : avail[o] > 0
           /\ pc' = [pc EXCEPT ![r] = "rate"]
           /\ avail' = [o \in Objects |-> IF o \in live THEN avail[o] - 1 ELSE avail[o]]
           /\ held' = [held EXCEPT ![r] = live]
           /\ UNCHANGED <<circuitVars, keyVars, limit, capacity, path, refs, want,
                          trials, probing>>
  <2>1. live \subseteq Objects
    BY DEF TypeOK
  <2> HIDE DEF live
  <2>2. avail' \in [Objects -> Nat]
    BY <1>2 DEF TypeOK
  <2>3. pc' \in [Requests -> Steps] /\ held' \in [Requests -> SUBSET Objects]
    BY <1>2, <2>1 DEF TypeOK, Steps
  <2>4. QED
    BY <1>2, <2>2, <2>3 DEF TypeOK, keyVars, circuitVars
<1>3. QED
  BY <1>1, <1>2 DEF TakePermits

LEMMA InitTyped == Init => TypeOK
<1> SUFFICES ASSUME Init PROVE TypeOK
  OBVIOUS
<1>1. limit \in [Objects -> LimitType]
  BY HealthAssumption DEF Init, LimitType
<1>2. circuit \in [Circuits -> CircuitType]
  BY FreshType DEF Init
<1>3. confirmations \in [Keys -> 0..Confirmations]
  <2>1. 0 \in 0..Confirmations
    BY HealthAssumption
  <2>2. QED
    BY <2>1 DEF Init
<1>4. want \in [Requests -> [Objects -> LimitType]]
  BY DEF Init, NoLimits, LimitType
<1>5. capacity \in [Objects -> Nat \ {0}] /\ avail \in [Objects -> Nat]
  BY HealthAssumption DEF Init
<1>6. QED
  BY <1>1, <1>2, <1>3, <1>4, <1>5 DEF Init, TypeOK, Steps

LEMMA NextTyped == TypeOK /\ [Next]_vars => TypeOK'
<1> SUFFICES ASSUME TypeOK, [Next]_vars PROVE TypeOK'
  OBVIOUS
<1>1. ASSUME NEW r \in Requests, NEW k \in Keys, NEW t \in Targets, Arrive(r, k, t)
      PROVE  TypeOK'
  <2>1. /\ pc' \in [Requests -> Steps]
        /\ path' \in [Requests -> SUBSET Objects]
        /\ want' \in [Requests -> [Objects -> LimitType]]
    BY <1>1, HealthAssumption DEF TypeOK, Arrive, Steps, Objects, LimitType
  <2>2. QED
    BY <1>1, <2>1 DEF TypeOK, Arrive, keyVars, budgetVars, circuitVars
<1>2. ASSUME NEW r \in Requests, Admit(r) PROVE TypeOK'
  <2>1. CASE Calibrate(r)
    BY <2>1, CalibrateTyped
  <2>2. CASE EnterKey(r)
    <3>1. CASE Refused(r)
      BY <3>1, RefusedTyped
    <3>2. ASSUME NEW k \in path[r] \cap Keys, Pass(r, k, "enterTarget"),
                 probing' = [probing EXCEPT ![r] = k \in refs[r] /\ invalid[k] = "probe"]
          PROVE  TypeOK'
      <4>1. k \in Circuits /\ "enterTarget" \in Steps
        BY DEF Circuits, Steps
      <4>2. probing' \in [Requests -> BOOLEAN]
        BY <3>2 DEF TypeOK
      <4>3. QED
        BY <3>2, <4>1, <4>2, PassTyped
    <3>3. QED
      BY <2>2, <3>1, <3>2 DEF EnterKey
  <2>3. CASE EnterTarget(r)
    <3>1. CASE Refused(r)
      BY <3>1, RefusedTyped
    <3>2. ASSUME NEW t \in path[r] \cap Targets, Pass(r, t, "permits"), UNCHANGED probing
          PROVE  TypeOK'
      <4>1. t \in Circuits /\ "permits" \in Steps
        BY DEF Circuits, Steps
      <4>2. probing' \in [Requests -> BOOLEAN]
        BY <3>2 DEF TypeOK
      <4>3. QED
        BY <3>2, <4>1, <4>2, PassTyped
    <3>3. QED
      BY <2>3, <3>1, <3>2 DEF EnterTarget
  <2>4. CASE TakePermits(r)
    BY <2>4, PermitsTyped
  <2>5. CASE ConsumeRate(r)
    <3>1. CASE Refused(r)
      BY <3>1, RefusedTyped
    <3>2. CASE ~Refused(r)
      BY <2>5, <3>2 DEF TypeOK, ConsumeRate, Steps, keyVars, budgetVars, circuitVars
    <3>3. QED
      BY <3>1, <3>2
  <2>6. QED
    BY <1>2, <2>1, <2>2, <2>3, <2>4, <2>5 DEF Admit
<1>3. ASSUME NEW r \in Requests, End(r) PROVE TypeOK'
  BY <1>3, HealthAssumption, CountTyped, SettleTyped, RefusedTyped, CancelTyped DEF End, Dropped
<1>4. ASSUME NEW o \in Objects, NEW n \in LimitChoices[o], SetLimit(o, n) PROVE TypeOK'
  <2>1. n \in LimitType
    BY HealthAssumption DEF LimitType
  <2>2. limit' \in [Objects -> LimitType]
    BY <1>4, <2>1 DEF TypeOK, SetLimit
  <2>3. QED
    BY <1>4, <2>2 DEF TypeOK, SetLimit, keyVars, reqVars, circuitVars
<1>5. ASSUME NEW ks, ClearFaults(ks) PROVE TypeOK'
  BY <1>5, ClearTyped
<1>6. ASSUME NEW os, Discard(os) PROVE TypeOK'
  BY <1>6, DiscardTyped
<1>7. ASSUME NEW k \in Keys, ProbeWindowOpens(k) PROVE TypeOK'
  BY <1>7 DEF TypeOK, ProbeWindowOpens, budgetVars, reqVars, circuitVars
<1>8. ASSUME NEW o \in Circuits, CooldownEnds(o) \/ WindowSlides(o) PROVE TypeOK'
  <2>1. circuit[o] \in CircuitType
    BY DEF TypeOK
  <2>2. Expired(circuit[o]) \in CircuitType /\ Slid(circuit[o]) \in CircuitType
    BY <2>1, ClockType
  <2>3. circuit' \in [Circuits -> CircuitType]
    BY <1>8, <2>2 DEF TypeOK, CooldownEnds, WindowSlides
  <2>4. QED
    BY <1>8, <2>3 DEF TypeOK, CooldownEnds, WindowSlides, keyVars, budgetVars, reqVars
<1>9. CASE UNCHANGED vars
  BY <1>9 DEF TypeOK, vars, keyVars, budgetVars, reqVars, circuitVars
<1>10. QED
  BY <1>1, <1>2, <1>3, <1>4, <1>5, <1>6, <1>7, <1>8, <1>9
     DEF Next, ClearKeyFaults, ClearAccountFaults, RetainDrops, ClearAll

\* Type correctness of the registry and of every admission in flight.
THEOREM Typing == Spec => []TypeOK
BY InitTyped, NextTyped, PTL DEF Spec

-----------------------------------------------------------------------------
(* The inductive invariant.  NoOrphanTrial alone is not inductive: a settle *)
(* frees the places of the objects the attempt is still attached to, so an  *)
(* attempt must own trials on those only; and a permit must not be taken    *)
(* twice, so nobody holds one before the step that takes them.              *)

Holding == {"rate", "admitted", "clearing", "counted", "stopping"}

Attached ==
  \A r \in Requests :
    /\ trials[r] \subseteq path[r] \cap refs[r]
    /\ pc[r] \in {"idle", "arrived"} => trials[r] = {}
    /\ pc[r] \in Holding \/ held[r] = {}

LEMMA ForgetAttached ==
  ASSUME TypeOK, Attached, NEW r \in Requests, Forget(r)
  PROVE  Attached'
BY DEF TypeOK, Attached, Holding, Forget

LEMMA PassAttached ==
  ASSUME TypeOK, Attached, NEW r \in Requests, NEW o \in path[r],
         NEW next \in {"enterTarget", "permits"}, Pass(r, o, next),
         pc[r] \in {"enterKey", "enterTarget"}
  PROVE  Attached'
<1> SUFFICES ASSUME NEW s \in Requests
             PROVE  /\ trials'[s] \subseteq path'[s] \cap refs'[s]
                    /\ pc'[s] \in {"idle", "arrived"} => trials'[s] = {}
                    /\ pc'[s] \in Holding \/ held'[s] = {}
  BY DEF Attached, Holding
<1>1. CASE s = r
  <2>1. trials'[r] \subseteq trials[r] \cup {x \in {o} : o \in refs[r]}
    BY DEF TypeOK, Pass
  <2>2. pc'[r] = next
    BY DEF TypeOK, Pass
  <2>3. QED
    BY <1>1, <2>1, <2>2 DEF Attached, Holding, Pass
<1>2. CASE s # r
  <2>1. trials'[s] = trials[s] /\ pc'[s] = pc[s]
    BY <1>2 DEF TypeOK, Pass
  <2>2. QED
    BY <1>2, <2>1 DEF Attached, Holding, Pass
<1>3. QED
  BY <1>1, <1>2

LEMMA NextAttached == TypeOK /\ Attached /\ [Next]_vars => Attached'
<1> SUFFICES ASSUME TypeOK, Attached, [Next]_vars PROVE Attached'
  OBVIOUS
<1>1. ASSUME NEW r \in Requests, NEW k \in Keys, NEW t \in Targets, Arrive(r, k, t)
      PROVE  Attached'
  BY <1>1 DEF TypeOK, Attached, Holding, Arrive
<1>2. ASSUME NEW r \in Requests, Forget(r) PROVE Attached'
  BY <1>2, ForgetAttached
<1>3. ASSUME NEW r \in Requests, Admit(r) PROVE Attached'
  <2>1. CASE Calibrate(r)
    BY <2>1 DEF TypeOK, Attached, Holding, Calibrate
  <2>2. CASE EnterKey(r)
    <3>1. ASSUME NEW k \in path[r] \cap Keys, pc[r] = "enterKey",
                 Pass(r, k, "enterTarget")
          PROVE  Attached'
      BY <3>1, PassAttached
    <3>2. QED
      BY <1>2, <2>2, <3>1 DEF EnterKey, Refused
  <2>3. CASE EnterTarget(r)
    <3>1. ASSUME NEW t \in path[r] \cap Targets, pc[r] = "enterTarget",
                 Pass(r, t, "permits")
          PROVE  Attached'
      BY <3>1, PassAttached
    <3>2. QED
      BY <1>2, <2>3, <3>1 DEF EnterTarget, Refused
  <2>4. CASE TakePermits(r)
    <3>1. CASE Forget(r)
      BY <1>2, <3>1
    <3>2. CASE ~Forget(r)
      BY <2>4, <3>2 DEF TypeOK, Attached, Holding, TakePermits, Refused
    <3>3. QED
      BY <3>1, <3>2
  <2>5. CASE ConsumeRate(r)
    <3>1. CASE Forget(r)
      BY <1>2, <3>1
    <3>2. CASE ~Forget(r)
      BY <2>5, <3>2 DEF TypeOK, Attached, Holding, ConsumeRate, Refused
    <3>3. QED
      BY <3>1, <3>2
  <2>6. QED
    BY <1>3, <2>1, <2>2, <2>3, <2>4, <2>5 DEF Admit
<1>4. ASSUME NEW r \in Requests, End(r) PROVE Attached'
  <2>1. CASE Forget(r)
    BY <1>2, <2>1
  <2>2. ASSUME NEW outcome, Count(r, outcome) PROVE Attached'
    BY <2>2 DEF TypeOK, Attached, Holding, Count
  <2>3. QED
    BY <1>4, <2>1, <2>2 DEF End, Settle, Dropped, Refused, Cancel
<1>5. ASSUME UNCHANGED reqVars PROVE Attached'
  BY <1>5 DEF Attached, Holding, reqVars
<1>6. ASSUME NEW os, Discard(os) PROVE Attached'
  BY <1>6 DEF TypeOK, Attached, Holding, Discard
<1>7. QED
  BY <1>1, <1>3, <1>4, <1>5, <1>6
     DEF Next, SetLimit, ClearKeyFaults, ClearAccountFaults, ClearFaults,
         RetainDrops, ClearAll, CooldownEnds, WindowSlides, ProbeWindowOpens, vars

-----------------------------------------------------------------------------
(* Trials.                                                                  *)

\* A place that is still taken keeps its owner.
LEMMA StillOwned ==
  ASSUME TypeOK, NoOrphanTrial, Vacate, NEW o \in Circuits, circuit[o].taken, circuit'[o].taken
  PROVE  owner'[o] = owner[o] /\ owner[o] \in Requests /\ o \in trials[owner[o]]
BY DEF NoOrphanTrial, Vacate

\* A request that undoes its trials leaves the others' alone.
LEMMA UndoNoOrphan ==
  ASSUME TypeOK, NoOrphanTrial, NEW r \in Requests, UndoTrials(r), Vacate,
         trials' = [trials EXCEPT ![r] = {}]
  PROVE  NoOrphanTrial'
<1> SUFFICES ASSUME NEW o \in Circuits, circuit'[o].taken
             PROVE  owner'[o] \in Requests /\ o \in trials'[owner'[o]]
  BY DEF NoOrphanTrial
<1>1. circuit[o].taken /\ o \notin trials[r]
  <2> DEFINE own == o \in trials[r]
  <2>1. circuit'[o] = Undone(circuit[o], own)
    BY DEF UndoTrials
  <2>2. circuit[o] \in CircuitType /\ own \in BOOLEAN
    BY DEF TypeOK
  <2> HIDE DEF own
  <2>3. Undone(circuit[o], own).taken <=> circuit[o].taken /\ ~own
    BY <2>2, UndoneType
  <2>4. QED
    BY <2>1, <2>3 DEF own
<1>2. owner'[o] = owner[o] /\ owner[o] \in Requests /\ o \in trials[owner[o]]
  BY <1>1, StillOwned
<1>3. trials'[owner[o]] = trials[owner[o]]
  BY <1>1, <1>2 DEF TypeOK
<1>4. QED
  BY <1>2, <1>3

LEMMA PassNoOrphan ==
  ASSUME TypeOK, NoOrphanTrial, NEW r \in Requests, NEW o \in Circuits, NEW next,
         Pass(r, o, next)
  PROVE  NoOrphanTrial'
<1> SUFFICES ASSUME NEW x \in Circuits, circuit'[x].taken
             PROVE  owner'[x] \in Requests /\ x \in trials'[owner'[x]]
  BY DEF NoOrphanTrial
<1>1. \A s \in Requests : trials[s] \subseteq trials'[s]
  <2> DEFINE mine == trials[r] \cup {y \in {o} : TakesTrial(circuit[o])}
  <2>1. trials' \in {trials, [trials EXCEPT ![r] = mine]}
    BY DEF Pass
  <2>2. trials[r] \subseteq mine
    OBVIOUS
  <2> HIDE DEF mine
  <2>3. QED
    BY <2>1, <2>2 DEF TypeOK
<1>2. CASE x = o /\ o \in refs[r] /\ TakesTrial(circuit[o])
  BY <1>2 DEF TypeOK, Pass
<1>3. CASE ~(x = o /\ o \in refs[r] /\ TakesTrial(circuit[o]))
  <2>1. circuit[x].taken
    BY <1>3 DEF TypeOK, Pass, circuitVars, Entered, CircuitType, CircuitFields
  <2>2. owner'[x] = owner[x]
    BY <1>3 DEF TypeOK, Pass, circuitVars
  <2>3. QED
    BY <1>1, <2>1, <2>2 DEF NoOrphanTrial
<1>4. QED
  BY <1>2, <1>3

LEMMA NextNoOrphan ==
  TypeOK /\ Attached /\ NoOrphanTrial /\ [Next]_vars => NoOrphanTrial'
<1> SUFFICES ASSUME TypeOK, Attached, NoOrphanTrial, [Next]_vars PROVE NoOrphanTrial'
  OBVIOUS
<1>1. ASSUME UNCHANGED <<circuitVars, trials>> PROVE NoOrphanTrial'
  BY <1>1 DEF NoOrphanTrial, circuitVars
<1>2. ASSUME NEW r \in Requests, Refused(r) PROVE NoOrphanTrial'
  BY <1>2, UndoNoOrphan DEF Refused, Forget
<1>3. ASSUME NEW r \in Requests, Admit(r) PROVE NoOrphanTrial'
  <2>1. CASE EnterKey(r)
    <3>1. ASSUME NEW k \in path[r] \cap Keys, Pass(r, k, "enterTarget")
          PROVE  NoOrphanTrial'
      BY <3>1, PassNoOrphan DEF Circuits
    <3>2. QED
      BY <1>2, <2>1, <3>1 DEF EnterKey
  <2>2. CASE EnterTarget(r)
    <3>1. ASSUME NEW t \in path[r] \cap Targets, Pass(r, t, "permits")
          PROVE  NoOrphanTrial'
      BY <3>1, PassNoOrphan DEF Circuits
    <3>2. QED
      BY <1>2, <2>2, <3>1 DEF EnterTarget
  <2>3. CASE Calibrate(r) \/ TakePermits(r) \/ ConsumeRate(r)
    BY <1>1, <1>2, <2>3 DEF Calibrate, TakePermits, ConsumeRate
  <2>4. QED
    BY <1>3, <2>1, <2>2, <2>3 DEF Admit
<1>4. ASSUME NEW r \in Requests, NEW outcome \in Outcomes, Settle(r, outcome)
      PROVE  NoOrphanTrial'
  <2> SUFFICES ASSUME NEW o \in Circuits, circuit'[o].taken
               PROVE  owner'[o] \in Requests /\ o \in trials'[owner'[o]]
    BY DEF NoOrphanTrial
  <2>1. circuit[o].taken /\ o \notin path[r] \cap refs[r] \cap trials[r]
    BY <1>4, SettleCircuits
  <2>2. o \notin trials[r]
    BY <2>1 DEF Attached, Holding
  <2>3. owner'[o] = owner[o] /\ owner[o] \in Requests /\ o \in trials[owner[o]]
    BY <1>4, <2>1, StillOwned DEF Settle
  <2>4. trials'[owner[o]] = trials[owner[o]]
    BY <1>4, <2>2, <2>3 DEF TypeOK, Settle, Forget
  <2>5. QED
    BY <2>3, <2>4
<1>5. ASSUME NEW r \in Requests, Cancel(r) PROVE NoOrphanTrial'
  BY <1>5, UndoNoOrphan DEF Cancel, Forget
<1>6. ASSUME NEW ks, ClearFaults(ks) PROVE NoOrphanTrial'
  <2> SUFFICES ASSUME NEW o \in Circuits, circuit'[o].taken
               PROVE  owner'[o] \in Requests /\ o \in trials'[owner'[o]]
    BY DEF NoOrphanTrial
  <2>1. circuit[o].taken
    BY <1>6, FreshType DEF ClearFaults
  <2>2. QED
    BY <1>6, <2>1, StillOwned DEF ClearFaults, reqVars
<1>7. ASSUME NEW os, Discard(os) PROVE NoOrphanTrial'
  <2> SUFFICES ASSUME NEW o \in Circuits, circuit'[o].taken
               PROVE  owner'[o] \in Requests /\ o \in trials'[owner'[o]]
    BY DEF NoOrphanTrial
  <2>1. circuit[o].taken /\ o \notin os
    BY <1>7, FreshType DEF Discard
  <2>2. QED
    BY <1>7, <2>1, StillOwned DEF Discard
<1>8. ASSUME NEW o \in Circuits, CooldownEnds(o) \/ WindowSlides(o) PROVE NoOrphanTrial'
  <2>1. circuit[o] \in CircuitType
    BY DEF TypeOK
  <2>2. Expired(circuit[o]).taken = circuit[o].taken /\ Slid(circuit[o]).taken = circuit[o].taken
    BY <2>1, ClockType
  <2>3. \A x \in Circuits : circuit'[x].taken = circuit[x].taken
    BY <1>8, <2>2 DEF TypeOK, CooldownEnds, WindowSlides
  <2>4. QED
    BY <1>8, <2>3 DEF NoOrphanTrial, CooldownEnds, WindowSlides, reqVars
<1>9. ASSUME NEW r \in Requests, NEW outcome, Count(r, outcome) PROVE NoOrphanTrial'
  BY <1>1, <1>9 DEF Count
<1>10. QED
  BY <1>1, <1>2, <1>3, <1>4, <1>5, <1>6, <1>7, <1>8, <1>9, HealthAssumption
     DEF Next, End, Arrive, Dropped, SetLimit, ClearKeyFaults, ClearAccountFaults,
         RetainDrops, ClearAll, ProbeWindowOpens, reqVars, vars

LEMMA InitTrials == Init => Attached /\ NoOrphanTrial
BY FreshType DEF Init, Attached, Holding, NoOrphanTrial

\* No circuit waits for a trial that is gone, whatever the number of requests
\* and however they are refused, settled, cancelled, dropped or orphaned: the
\* attempt that took a taken place is under way and knows that it did.
THEOREM TrialsHaveOwners == Spec => []NoOrphanTrial
<1> DEFINE IInv == TypeOK /\ Attached /\ NoOrphanTrial
<1>1. Init => IInv
  BY InitTyped, InitTrials
<1>2. IInv /\ [Next]_vars => IInv'
  BY NextTyped, NextAttached, NextNoOrphan
<1>3. QED
  BY <1>1, <1>2, PTL DEF Spec

-----------------------------------------------------------------------------
(* Permits.                                                                 *)

\* One more holder, one less, the same, or none.
LEMMA HolderAdded ==
  ASSUME NEW H, NEW J, NEW r \in Requests, H \subseteq Requests,
         r \notin H, J = H \cup {r}
  PROVE  Cardinality(H) \in Nat /\ Cardinality(J) = Cardinality(H) + 1
<1>1. IsFiniteSet(H)
  BY HealthAssumption, FS_Subset
<1>2. QED
  BY <1>1, FS_AddElement, FS_CardinalityType

LEMMA HolderRemoved ==
  ASSUME NEW H, NEW J, NEW r \in Requests, H \subseteq Requests,
         r \in H, J = H \ {r}
  PROVE  Cardinality(H) \in Nat /\ Cardinality(J) = Cardinality(H) - 1
<1>1. IsFiniteSet(H)
  BY HealthAssumption, FS_Subset
<1>2. QED
  BY <1>1, FS_RemoveElement, FS_CardinalityType

LEMMA HoldersFinite ==
  ASSUME NEW o
  PROVE  Cardinality(HoldersOf(o)) \in Nat
<1>1. HoldersOf(o) \subseteq Requests
  BY DEF HoldersOf
<1>2. IsFiniteSet(HoldersOf(o))
  BY <1>1, HealthAssumption, FS_Subset
<1>3. QED
  BY <1>2, FS_CardinalityType

\* A request that ends gives back what it holds, and nothing else.
LEMMA ReturnConserves ==
  ASSUME TypeOK, PermitsConserved, NEW r \in Requests, NEW o \in Objects,
         held' = [held EXCEPT ![r] = {}], NEW more \in Nat,
         capacity'[o] = capacity[o] + more,
         avail'[o] = avail[o] + more + (IF o \in held[r] THEN 1 ELSE 0)
  PROVE  avail'[o] + Cardinality(HoldersOf(o)') = capacity'[o]
<1>1. avail[o] + Cardinality(HoldersOf(o)) = capacity[o]
  BY DEF PermitsConserved
<1>2. /\ avail[o] \in Nat /\ capacity[o] \in Nat
      /\ Cardinality(HoldersOf(o)) \in Nat
  BY HoldersFinite DEF TypeOK
<1>3. CASE o \in held[r]
  <2>1. HoldersOf(o)' = HoldersOf(o) \ {r} /\ r \in HoldersOf(o)
    BY <1>3 DEF TypeOK, HoldersOf
  <2>2. HoldersOf(o) \subseteq Requests
    BY DEF HoldersOf
  <2>3. Cardinality(HoldersOf(o)') = Cardinality(HoldersOf(o)) - 1
    BY <2>1, <2>2, HolderRemoved
  <2>4. QED
    BY <1>1, <1>2, <1>3, <2>3
<1>4. CASE o \notin held[r]
  <2>1. HoldersOf(o)' = HoldersOf(o)
    BY <1>4 DEF TypeOK, HoldersOf
  <2>2. QED
    BY <1>1, <1>2, <1>4, <2>1
<1>5. QED
  BY <1>3, <1>4

LEMMA RefusedConserves ==
  ASSUME TypeOK, PermitsConserved, NEW r \in Requests, Refused(r)
  PROVE  PermitsConserved'
<1> SUFFICES ASSUME NEW o \in Objects
             PROVE  avail'[o] + Cardinality(HoldersOf(o)') = capacity'[o]
  BY DEF PermitsConserved, HoldersOf
<1>1. held' = [held EXCEPT ![r] = {}] /\ capacity'[o] = capacity[o] + 0
  BY DEF Refused, Forget, TypeOK
<1>2. avail'[o] = avail[o] + 0 + (IF o \in held[r] THEN 1 ELSE 0)
  BY DEF Refused, ReturnPermits, TypeOK
<1>3. QED
  BY <1>1, <1>2, ReturnConserves

LEMMA SettleConserves ==
  ASSUME TypeOK, PermitsConserved, NEW r \in Requests, NEW outcome, Settle(r, outcome)
  PROVE  PermitsConserved'
<1> SUFFICES ASSUME NEW o \in Objects
             PROVE  avail'[o] + Cardinality(HoldersOf(o)') = capacity'[o]
  BY DEF PermitsConserved, HoldersOf
<1>1. held' = [held EXCEPT ![r] = {}] /\ capacity'[o] = capacity[o] + 0
  BY DEF Settle, Forget, TypeOK
<1>2. avail'[o] = avail[o] + 0 + (IF o \in held[r] THEN 1 ELSE 0)
  BY DEF Settle, ReturnPermits, TypeOK
<1>3. QED
  BY <1>1, <1>2, ReturnConserves

LEMMA CancelConserves ==
  ASSUME TypeOK, PermitsConserved, NEW r \in Requests, Cancel(r)
  PROVE  PermitsConserved'
<1> SUFFICES ASSUME NEW o \in Objects
             PROVE  avail'[o] + Cardinality(HoldersOf(o)') = capacity'[o]
  BY DEF PermitsConserved, HoldersOf
<1> DEFINE more == IF o \in refs[r] THEN Restoration(o, want[r][o]) ELSE 0
<1>1. more \in Nat
  <2>1. want[r][o] \in LimitType
    BY DEF TypeOK
  <2>2. QED
    BY <2>1, RestorationBounds
<1>2. /\ held' = [held EXCEPT ![r] = {}]
      /\ capacity'[o] = capacity[o] + more
      /\ avail'[o] = avail[o] + more + (IF o \in held[r] THEN 1 ELSE 0)
  BY DEF Cancel, Forget
<1> HIDE DEF more
<1>3. QED
  BY <1>1, <1>2, ReturnConserves

LEMMA CalibrateConserves ==
  ASSUME TypeOK, PermitsConserved, NEW r \in Requests, Calibrate(r)
  PROVE  PermitsConserved'
<1> SUFFICES ASSUME NEW o \in Objects
             PROVE  avail'[o] + Cardinality(HoldersOf(o)') = capacity'[o]
  BY DEF PermitsConserved, HoldersOf
<1> DEFINE wanted == IF o \in path[r] THEN Effective(o, want[r][o]) ELSE None
           change == Adjustment(o, wanted)
<1>1. change \in Int
  <2>1. wanted \in LimitType
    BY EffectiveType DEF TypeOK, LimitType
  <2> HIDE DEF wanted
  <2>2. QED
    BY <2>1, AdjustmentBounds
<1>2. capacity'[o] = capacity[o] + change /\ avail'[o] = avail[o] + change
  BY DEF Calibrate
<1>3. HoldersOf(o)' = HoldersOf(o)
  BY DEF Calibrate, HoldersOf
<1>4. avail[o] + Cardinality(HoldersOf(o)) = capacity[o]
  BY DEF PermitsConserved
<1>5. avail[o] \in Nat /\ capacity[o] \in Nat /\ Cardinality(HoldersOf(o)) \in Nat
  BY HoldersFinite DEF TypeOK
<1> HIDE DEF change
<1>6. QED
  BY <1>1, <1>2, <1>3, <1>4, <1>5

LEMMA PermitsConserve ==
  ASSUME TypeOK, Attached, PermitsConserved, NEW r \in Requests, TakePermits(r)
  PROVE  PermitsConserved'
<1>1. CASE Refused(r)
  BY <1>1, RefusedConserves
<1>2. CASE ~Refused(r)
  <2> SUFFICES ASSUME NEW o \in Objects
               PROVE  avail'[o] + Cardinality(HoldersOf(o)') = capacity'[o]
    BY DEF PermitsConserved, HoldersOf
  <2> DEFINE live == Bounded(r) \cap refs[r]
  <2>1. /\ capacity'[o] = capacity[o]
        /\ avail'[o] = IF o \in live THEN avail[o] - 1 ELSE avail[o]
        /\ held' = [held EXCEPT ![r] = live]
        /\ pc[r] = "permits"
    BY <1>2 DEF TakePermits
  <2> HIDE DEF live
  <2>2. held[r] = {}
    BY <2>1 DEF Attached, Holding
  <2>3. avail[o] + Cardinality(HoldersOf(o)) = capacity[o]
    BY DEF PermitsConserved
  <2>4. /\ avail[o] \in Nat /\ capacity[o] \in Nat
        /\ Cardinality(HoldersOf(o)) \in Nat
    BY HoldersFinite DEF TypeOK
  <2>5. CASE o \in live
    <3>1. HoldersOf(o)' = HoldersOf(o) \cup {r} /\ r \notin HoldersOf(o)
      BY <2>1, <2>2, <2>5 DEF TypeOK, HoldersOf
    <3>2. HoldersOf(o) \subseteq Requests
      BY DEF HoldersOf
    <3>3. Cardinality(HoldersOf(o)') = Cardinality(HoldersOf(o)) + 1
      BY <3>1, <3>2, HolderAdded
    <3>4. QED
      BY <2>1, <2>3, <2>4, <2>5, <3>3
  <2>6. CASE o \notin live
    <3>1. HoldersOf(o)' = HoldersOf(o)
      BY <2>1, <2>2, <2>6 DEF TypeOK, HoldersOf
    <3>2. QED
      BY <2>1, <2>3, <2>6, <3>1
  <2>7. QED
    BY <2>5, <2>6
<1>3. QED
  BY <1>1, <1>2

\* A dropped object starts again with a full budget that nobody holds.
LEMMA DiscardConserves ==
  ASSUME TypeOK, PermitsConserved, NEW os, Discard(os)
  PROVE  PermitsConserved'
<1> SUFFICES ASSUME NEW o \in Objects
             PROVE  avail'[o] + Cardinality(HoldersOf(o)') = capacity'[o]
  BY DEF PermitsConserved, HoldersOf
<1>1. CASE o \in os
  <2>1. HoldersOf(o)' = {}
    BY <1>1 DEF Discard, HoldersOf
  <2>2. Cardinality(HoldersOf(o)') = 0
    BY <2>1, FS_EmptySet
  <2>3. avail'[o] = Unlimited /\ capacity'[o] = Unlimited /\ Unlimited \in Nat
    BY <1>1, HealthAssumption DEF Discard
  <2>4. QED
    BY <2>2, <2>3
<1>2. CASE o \notin os
  <2>1. HoldersOf(o)' = HoldersOf(o)
    BY <1>2 DEF TypeOK, Discard, HoldersOf
  <2>2. avail'[o] = avail[o] /\ capacity'[o] = capacity[o]
    BY <1>2 DEF Discard
  <2>3. QED
    BY <2>1, <2>2 DEF PermitsConserved
<1>3. QED
  BY <1>1, <1>2

LEMMA NextConserves ==
  TypeOK /\ Attached /\ PermitsConserved /\ [Next]_vars => PermitsConserved'
<1> SUFFICES ASSUME TypeOK, Attached, PermitsConserved, [Next]_vars
             PROVE  PermitsConserved'
  OBVIOUS
<1>1. ASSUME UNCHANGED <<capacity, avail, held>> PROVE PermitsConserved'
  BY <1>1 DEF PermitsConserved, HoldersOf
<1>2. ASSUME NEW r \in Requests, Admit(r) PROVE PermitsConserved'
  BY <1>1, <1>2, RefusedConserves, CalibrateConserves, PermitsConserve
     DEF Admit, EnterKey, EnterTarget, ConsumeRate, Pass, budgetVars
<1>3. ASSUME NEW r \in Requests, End(r) PROVE PermitsConserved'
  <2>1. ASSUME NEW outcome, Count(r, outcome) PROVE UNCHANGED <<capacity, avail, held>>
    BY <2>1 DEF Count, budgetVars
  <2>2. QED
    BY <1>1, <1>3, <2>1, SettleConserves, RefusedConserves, CancelConserves
       DEF End, Dropped
<1>4. ASSUME NEW os, Discard(os) PROVE PermitsConserved'
  BY <1>4, DiscardConserves
<1>5. QED
  BY <1>1, <1>2, <1>3, <1>4
     DEF Next, Arrive, SetLimit, ClearKeyFaults, ClearAccountFaults, ClearFaults,
         RetainDrops, ClearAll, CooldownEnds, WindowSlides, ProbeWindowOpens,
         vars, budgetVars, reqVars

\* At first every permit is idle.
LEMMA InitConserves == Init => PermitsConserved
<1> SUFFICES ASSUME Init, NEW o \in Objects
             PROVE  avail[o] + Cardinality(HoldersOf(o)) = capacity[o]
  BY DEF PermitsConserved
<1>1. HoldersOf(o) = {}
  BY DEF Init, HoldersOf
<1>2. QED
  BY <1>1, FS_EmptySet, HealthAssumption DEF Init

\* No permit is lost or minted, for any number of requests and any limits set
\* at any time.
THEOREM PermitsAreConserved == Spec => []PermitsConserved
<1> DEFINE IInv == TypeOK /\ Attached /\ PermitsConserved
<1>1. Init => IInv
  BY InitConserves, InitTyped, InitTrials
<1>2. IInv /\ [Next]_vars => IInv'
  BY NextTyped, NextAttached, NextConserves
<1>3. QED
  BY <1>1, <1>2, PTL DEF Spec

\* The head of admit is the only way from a request's arrival to its circuits.
LEMMA OnlyCalibration ==
  ASSUME TypeOK, [Next]_vars, NEW r \in Requests, pc[r] = "arrived", pc'[r] = "enterKey"
  PROVE  Calibrate(r)
<1> SUFFICES ASSUME ~Calibrate(r) PROVE FALSE
  OBVIOUS
<1>1. pc \in [Requests -> Steps]
  BY DEF TypeOK
<1>2. ASSUME NEW q \in Requests, Refused(q) \/ Forget(q) PROVE FALSE
  BY <1>1, <1>2 DEF Refused, Forget
<1>3. ASSUME NEW q \in Requests, NEW o, NEW next \in {"enterTarget", "permits"}, Pass(q, o, next)
      PROVE  FALSE
  BY <1>1, <1>3 DEF Pass
<1>4. ASSUME NEW q \in Requests, Admit(q) PROVE FALSE
  <2>1. CASE Calibrate(q)
    BY <1>1, <2>1 DEF Calibrate
  <2>2. CASE EnterKey(q) \/ EnterTarget(q)
    BY <1>2, <1>3, <2>2 DEF EnterKey, EnterTarget
  <2>3. CASE TakePermits(q) \/ ConsumeRate(q)
    BY <1>1, <1>2, <2>3 DEF TakePermits, ConsumeRate
  <2> QED
    BY <1>4, <2>1, <2>2, <2>3 DEF Admit
<1>5. ASSUME NEW q \in Requests, End(q) PROVE FALSE
  <2>1. ASSUME NEW outcome, Count(q, outcome) PROVE FALSE
    BY <1>1, <2>1 DEF Count
  <2> QED
    BY <1>2, <1>5, <2>1 DEF End, Settle, Dropped, Cancel
<1>6. ASSUME NEW q \in Requests, NEW k \in Keys, NEW t \in Targets, Arrive(q, k, t) PROVE FALSE
  BY <1>1, <1>6 DEF Arrive
<1>7. ASSUME UNCHANGED pc PROVE FALSE
  BY <1>7
<1>8. QED
  BY <1>4, <1>5, <1>6, <1>7
     DEF Next, SetLimit, ClearKeyFaults, ClearAccountFaults, ClearFaults, Discard, RetainDrops,
         ClearAll, CooldownEnds, WindowSlides, ProbeWindowOpens, vars, reqVars

\* A budget that is set to a limit has that limit, or more permits of which none
\* is idle.
LEMMA AdjustmentTakesIdle ==
  ASSUME TypeOK, NEW o \in Objects, NEW wanted \in LimitType, wanted # None
  PROVE  LET c == capacity[o] + Adjustment(o, wanted) IN
         c # wanted => c > wanted /\ avail[o] + Adjustment(o, wanted) = 0
BY DEF TypeOK, LimitType, Adjustment, Smaller

LEMMA NextNoIdleOver == TypeOK /\ [Next]_vars => NoIdleOver
<1> SUFFICES ASSUME TypeOK, [Next]_vars, NEW r \in Requests,
                    pc[r] = "arrived", pc'[r] = "enterKey", NEW o \in path[r],
                    want'[r][o] # None, capacity'[o] # want'[r][o]
             PROVE  capacity'[o] > want'[r][o] /\ avail'[o] = 0
  BY DEF NoIdleOver
<1>1. Calibrate(r)
  BY OnlyCalibration
<1>2. o \in Objects /\ want[r][o] \in LimitType
  BY DEF TypeOK
<1> DEFINE wanted == Effective(o, want[r][o])
<1>3. wanted \in LimitType
  BY <1>2, EffectiveType
<1>4. want'[r][o] = wanted
  BY <1>1, <1>2 DEF Calibrate, TypeOK
<1>5. /\ capacity'[o] = capacity[o] + Adjustment(o, wanted)
      /\ avail'[o] = avail[o] + Adjustment(o, wanted)
  BY <1>1, <1>2 DEF Calibrate
<1> HIDE DEF wanted
<1>6. QED
  BY <1>2, <1>3, <1>4, <1>5, AdjustmentTakesIdle

\* Lowering a limit takes every idle permit above it away at once, for any
\* number of requests in flight and any limits.
THEOREM LoweredLimitsBind == Spec => ShrinkLeavesNoIdle
<1>1. Init => TypeOK
  BY InitTyped
<1>2. TypeOK /\ [Next]_vars => TypeOK'
  BY NextTyped
<1>3. TypeOK /\ [Next]_vars => [NoIdleOver]_vars
  BY NextNoIdleOver
<1>4. QED
  BY <1>1, <1>2, <1>3, PTL DEF Spec, ShrinkLeavesNoIdle
=============================================================================
