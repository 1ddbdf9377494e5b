------------------------------- MODULE Health -------------------------------
(***************************************************************************)
(* Admission control: src/src/health/mod.rs (Registry, AccountState,       *)
(* KeyState, TargetState, Budget, Admission) and the admin calls on it.    *)
(*                                                                         *)
(* A request is admitted on three objects at once: an account, one of its  *)
(* keys, and a target.  Each object has a concurrency budget (a semaphore  *)
(* whose rated capacity follows the configured limit); keys and targets    *)
(* have a circuit.  `Registry::admit` takes the locks one after another,   *)
(* so it is modelled step by step, a step per lock, with the undo paths of *)
(* its failures; requests interleave between the steps.  A settle counts a *)
(* verdict on the key first and does the rest in a second step.            *)
(*                                                                         *)
(* The account's own circuit is not a variable: it trips only for an       *)
(* admission without a key, and every caller in src/ admits with one.      *)
(***************************************************************************)
EXTENDS Circuit, FiniteSets

CONSTANTS
  Requests, Accounts, Keys, Targets,
  KeyAccount, TargetAccount,   \* who owns a key, a target
  LimitChoices,                \* bound: the limits the admin sets, per object
  Unlimited,                   \* UNLIMITED: the capacity of an unset limit
  RateBound,                   \* the objects with an RPM or TPM limit
  Confirmations,               \* KEY_INVALID_CONFIRMATIONS
  Reported,                    \* bound: the outcomes the upstream produces
  None                         \* no limit, no object

\* Outcome; "Given" stands for `retry_after: Some(_)`.
Outcomes == {"neutral", "success", "keyInvalid", "quota", "quotaGiven",
             "limited", "limitedGiven", "fault"}

Objects  == Accounts \cup Keys \cup Targets
Circuits == Keys \cup Targets

ASSUME HealthAssumption ==
  /\ IsFiniteSet(Requests)
  /\ Accounts \cap Keys = {} /\ Accounts \cap Targets = {} /\ Keys \cap Targets = {}
  /\ KeyAccount \in [Keys -> Accounts] /\ TargetAccount \in [Targets -> Accounts]
  /\ Unlimited \in Nat \ {0}
  /\ None \notin Nat /\ None \notin Objects /\ None \notin Requests
  /\ LimitChoices \in [Objects -> SUBSET ((Nat \ {0}) \cup {None})]
  /\ \A o \in Objects : None \in LimitChoices[o]
  /\ RateBound \subseteq Objects
  /\ Confirmations \in Nat \ {0}
  /\ Reported \subseteq Outcomes

VARIABLES
  circuit,        \* [Circuits -> CircuitType]
  confirmations,  \* KeyState.invalid_confirmations
  invalid,        \* KeyState.invalid_since: "no", "stopped", "probe" (window over)
  limit,          \* the configured max_concurrency
  capacity,       \* Budget.capacity
  avail,          \* Budget.permits.available_permits()
  pc,             \* where a request is in Registry::admit
  path,           \* the objects of its Caller
  refs,           \* those whose live state its Arcs still point to
  want,           \* AdmissionLimits: the snapshot's, then the effective ones
  trials,         \* the half-open places it took: key_half_open, half_open
  held,           \* the permits of its CapacityPermit
  probing,        \* it was let past a hard stop whose window is over
  owner           \* history: who took a half-open place that is taken now

circuitVars == <<circuit, owner>>
budgetVars == <<limit, capacity, avail>>
keyVars    == <<confirmations, invalid>>
reqVars    == <<pc, path, refs, want, trials, held, probing>>
vars       == <<circuitVars, keyVars, budgetVars, reqVars>>

Steps == {"idle", "arrived", "enterKey", "enterTarget", "permits", "rate", "admitted",
          "clearing", "counted", "stopping"}

LimitType == (Nat \ {0}) \cup {None}
NoLimits  == [o \in Objects |-> None]

TypeOK ==
  /\ circuit \in [Circuits -> CircuitType]
  /\ confirmations \in [Keys -> 0..Confirmations]
  /\ invalid \in [Keys -> {"no", "stopped", "probe"}]
  /\ limit \in [Objects -> LimitType]
  /\ capacity \in [Objects -> Nat \ {0}]
  /\ avail \in [Objects -> Nat]
  /\ pc \in [Requests -> Steps]
  /\ path \in [Requests -> SUBSET Objects]
  /\ refs \in [Requests -> SUBSET Objects]
  /\ want \in [Requests -> [Objects -> LimitType]]
  /\ trials \in [Requests -> SUBSET Circuits]
  /\ held \in [Requests -> SUBSET Objects]
  /\ probing \in [Requests -> BOOLEAN]
  /\ owner \in [Circuits -> Requests \cup {None}]

Init ==
  /\ circuit = [o \in Circuits |-> Fresh]
  /\ confirmations = [k \in Keys |-> 0]
  /\ invalid = [k \in Keys |-> "no"]
  /\ limit \in {f \in [Objects -> UNION {LimitChoices[o] : o \in Objects}] :
                  \A o \in Objects : f[o] \in LimitChoices[o]}
  /\ capacity = [o \in Objects |-> Unlimited]
  /\ avail = [o \in Objects |-> Unlimited]
  /\ pc = [r \in Requests |-> "idle"]
  /\ path = [r \in Requests |-> {}]
  /\ refs = [r \in Requests |-> {}]
  /\ want = [r \in Requests |-> NoLimits]
  /\ trials = [r \in Requests |-> {}]
  /\ held = [r \in Requests |-> {}]
  /\ probing = [r \in Requests |-> FALSE]
  /\ owner = [o \in Circuits |-> None]

-----------------------------------------------------------------------------
(* Budgets.                                                                 *)

\* Budget::configured.
Configured(o) == IF capacity[o] = Unlimited THEN None ELSE capacity[o]

\* effective_limits: a caller with no opinion inherits the calibrated value.
Effective(o, wanted) == IF wanted = None THEN Configured(o) ELSE wanted

Smaller(m, n) == IF m < n THEN m ELSE n

\* Mutant: an existing budget ignores a smaller limit.
AdjustmentGrowsOnly(o, wanted) ==
  IF wanted = None \/ wanted <= capacity[o] THEN 0 ELSE wanted - capacity[o]

\* Budget::reconcile_capacity: how many permits it adds (or forgets, if < 0).
\* Only idle permits can be forgotten.
Adjustment(o, wanted) ==
  IF wanted = None THEN 0
  ELSE IF wanted > capacity[o] THEN wanted - capacity[o]
  ELSE -Smaller(avail[o], capacity[o] - wanted)

\* Budget::restore_rate never lowers the capacity.
Restoration(o, wanted) ==
  IF wanted = None \/ wanted <= capacity[o] THEN 0 ELSE wanted - capacity[o]

Bounded(r) == {o \in path[r] : want[r][o] # None}

-----------------------------------------------------------------------------
(* Registry::admit, lock by lock.                                           *)

\* A request reads the configuration snapshot: its caller and limits.  An
\* edit made later does not reach it.
Arrive(r, k, t) ==
  /\ pc[r] = "idle"
  /\ KeyAccount[k] = TargetAccount[t]
  /\ pc' = [pc EXCEPT ![r] = "arrived"]
  /\ path' = [path EXCEPT ![r] = {KeyAccount[k], k, t}]
  /\ want' = [want EXCEPT ![r] =
                [o \in Objects |-> IF o \in path'[r] THEN limit[o] ELSE None]]
  /\ UNCHANGED <<circuitVars, keyVars, budgetVars, refs, trials, held, probing>>

\* The head of admit: take the Arcs, merge the limits, calibrate each budget.
Calibrate(r) ==
  LET wanted == [o \in Objects |->
                   IF o \in path[r] THEN Effective(o, want[r][o]) ELSE None]
      change == [o \in Objects |-> Adjustment(o, wanted[o])]
  IN  /\ pc[r] = "arrived"
      /\ pc' = [pc EXCEPT ![r] = "enterKey"]
      /\ refs' = [refs EXCEPT ![r] = path[r]]
      /\ want' = [want EXCEPT ![r] = wanted]
      /\ capacity' = [o \in Objects |-> capacity[o] + change[o]]
      /\ avail' = [o \in Objects |-> avail[o] + change[o]]
      /\ UNCHANGED <<circuitVars, keyVars, limit, path, trials, held, probing>>

Forget(r) ==
  /\ pc' = [pc EXCEPT ![r] = "idle"]
  /\ path' = [path EXCEPT ![r] = {}]
  /\ refs' = [refs EXCEPT ![r] = {}]
  /\ want' = [want EXCEPT ![r] = NoLimits]
  /\ trials' = [trials EXCEPT ![r] = {}]
  /\ held' = [held EXCEPT ![r] = {}]
  /\ probing' = [probing EXCEPT ![r] = FALSE]

\* Mutant: an early return forgets the permits.
ReturnNothing(r) == avail' = avail

ReturnPermits(r) ==
  avail' = [o \in Objects |-> IF o \in held[r] THEN avail[o] + 1 ELSE avail[o]]

\* Mutant: an early return leaves the half-open place taken.
UndoNoTrial(r) == circuit' = circuit

UndoTrials(r) ==
  circuit' = [o \in Circuits |-> Undone(circuit[o], o \in trials[r])]

\* The code keeps no owner.  A place that is not taken any more has none.
Vacate == owner' = [o \in Circuits |-> IF circuit'[o].taken THEN owner[o] ELSE None]

\* An early return: what was taken so far is undone.
Refused(r) ==
  /\ UndoTrials(r)
  /\ Vacate
  /\ ReturnPermits(r)
  /\ Forget(r)
  /\ UNCHANGED <<keyVars, limit, capacity>>

\* try_enter of one circuit.  A circuit the registry has dropped since the
\* request took its Arc answers either way, and nobody else sees it.
Pass(r, o, next) ==
  /\ o \notin refs[r] \/ CanEnter(circuit[o])
  /\ pc' = [pc EXCEPT ![r] = next]
  /\ IF o \in refs[r]
       THEN /\ circuit' = [circuit EXCEPT ![o] = Entered(@)]
            /\ trials' = [trials EXCEPT ![r] =
                            @ \cup {x \in {o} : TakesTrial(circuit[o])}]
            /\ owner' = [owner EXCEPT ![o] = IF TakesTrial(circuit[o]) THEN r ELSE @]
       ELSE UNCHANGED <<circuitVars, trials>>
  /\ UNCHANGED <<keyVars, budgetVars, path, refs, want, held>>

EnterKey(r) ==
  \E k \in path[r] \cap Keys :
    /\ pc[r] = "enterKey"
    /\ \/ /\ k \notin refs[r] \/ invalid[k] # "stopped"
          /\ Pass(r, k, "enterTarget")
          /\ probing' = [probing EXCEPT ![r] = k \in refs[r] /\ invalid[k] = "probe"]
       \/ /\ k \notin refs[r] \/ invalid[k] = "stopped" \/ ~CanEnter(circuit[k])
          /\ Refused(r)

EnterTarget(r) ==
  \E t \in path[r] \cap Targets :
    /\ pc[r] = "enterTarget"
    /\ \/ Pass(r, t, "permits") /\ UNCHANGED probing
       \/ (t \notin refs[r] \/ ~CanEnter(circuit[t])) /\ Refused(r)

\* Capacity::try_acquire: all the bounded levels or none of them.
TakePermits(r) ==
  LET live == Bounded(r) \cap refs[r]
  IN  /\ pc[r] = "permits"
      /\ \/ /\ \A o \in live : avail[o] > 0
            /\ pc' = [pc EXCEPT ![r] = "rate"]
            /\ avail' = [o \in Objects |-> IF o \in live THEN avail[o] - 1 ELSE avail[o]]
            /\ held' = [held EXCEPT ![r] = live]
            /\ UNCHANGED <<circuitVars, keyVars, limit, capacity, path, refs, want,
                           trials, probing>>
         \/ /\ Bounded(r) \ live # {} \/ \E o \in live : avail[o] = 0
            /\ Refused(r)

\* consume_rate on each level.  Whether a window has room is RateWindow's
\* business: a level with a limit may refuse.
ConsumeRate(r) ==
  /\ pc[r] = "rate"
  /\ \/ /\ pc' = [pc EXCEPT ![r] = "admitted"]
        /\ UNCHANGED <<circuitVars, keyVars, budgetVars, path, refs, want, trials,
                       held, probing>>
     \/ path[r] \cap RateBound # {} /\ Refused(r)

-----------------------------------------------------------------------------
(* Admission: how an admitted attempt ends.                                 *)

\* with_shared_key: the account's pool has more than one key.
Shared(k) == \E other \in Keys \ {k} : KeyAccount[other] = KeyAccount[k]

KeySettled(k, own, outcome) ==
  LET c == circuit[k]
  IN  CASE outcome = "success"    -> OnSuccess(c)
        [] outcome = "quota"      -> Trip(c, FALSE)
        [] outcome = "quotaGiven" -> Trip(c, TRUE)
        [] outcome = "limited" /\ Shared(k)      -> OnFault(Undone(c, own))
        [] outcome = "limitedGiven" /\ Shared(k) -> Trip(Undone(c, own), TRUE)
        [] OTHER                  -> Undone(c, own)

TargetSettled(t, own, outcome) ==
  LET c == circuit[t]
  IN  CASE outcome = "success"             -> OnSuccess(c)
        [] outcome \in {"limited", "fault"} -> OnFault(c)
        [] outcome = "limitedGiven"        -> Trip(c, TRUE)
        [] OTHER                           -> Undone(c, own)

\* The first half of note_success and confirm_invalid: the atomic count.  The
\* mark is behind a lock of its own, and another settle may come in between.
Count(r, outcome) ==
  \E k \in path[r] \cap Keys :
    LET counted == IF outcome = "success" THEN 0
                   ELSE IF confirmations[k] < Confirmations THEN confirmations[k] + 1
                   ELSE Confirmations
    IN  /\ pc[r] = "admitted"
        /\ outcome \in {"success", "keyInvalid"}
        /\ pc' = [pc EXCEPT ![r] = IF outcome = "success" THEN "clearing"
                                   ELSE IF counted = Confirmations THEN "stopping"
                                   ELSE "counted"]
        /\ confirmations' = IF k \in refs[r] THEN [confirmations EXCEPT ![k] = counted]
                            ELSE confirmations
        /\ UNCHANGED <<circuitVars, invalid, budgetVars, path, refs, want, trials,
                       held, probing>>

\* Where a settle stands when only its locked part is left.
Counted(outcome) ==
  IF outcome = "success" THEN {"clearing"}
  ELSE IF outcome = "keyInvalid" THEN {"stopping", "counted"}
  ELSE {"admitted"}

Marked(r, k) ==
  IF pc[r] = "clearing" THEN "no"
  ELSE IF pc[r] = "stopping" THEN "stopped"
  ELSE invalid[k]

\* Admission::settle, then its Drop.
Settle(r, outcome) ==
  LET mine == path[r] \cap refs[r]
  IN  /\ pc[r] \in Counted(outcome)
      /\ circuit' = [o \in Circuits |->
                       IF o \notin mine THEN circuit[o]
                       ELSE IF o \in Keys THEN KeySettled(o, o \in trials[r], outcome)
                       ELSE TargetSettled(o, o \in trials[r], outcome)]
      /\ Vacate
      /\ invalid' = [k \in Keys |-> IF k \in mine THEN Marked(r, k) ELSE invalid[k]]
      /\ ReturnPermits(r)
      /\ Forget(r)
      /\ UNCHANGED <<confirmations, limit, capacity>>

\* Drop without a settle: the client went away, the task was cancelled.
Dropped(r) == pc[r] = "admitted" /\ Refused(r)

\* cancel_before_upstream: also puts the capacity back to this admission's
\* limits.
Cancel(r) ==
  LET change == [o \in Objects |-> IF o \in refs[r] THEN Restoration(o, want[r][o]) ELSE 0]
  IN  /\ pc[r] = "admitted"
      /\ UndoTrials(r)
      /\ Vacate
      /\ capacity' = [o \in Objects |-> capacity[o] + change[o]]
      /\ avail' = [o \in Objects |->
                     avail[o] + change[o] + (IF o \in held[r] THEN 1 ELSE 0)]
      /\ Forget(r)
      /\ UNCHANGED <<keyVars, limit>>

-----------------------------------------------------------------------------
(* The administrator and the clock.                                         *)

SetLimit(o, n) ==
  /\ n \in LimitChoices[o] \ {limit[o]}
  /\ limit' = [limit EXCEPT ![o] = n]
  /\ UNCHANGED <<circuitVars, keyVars, capacity, avail, reqVars>>

\* KeyState::reset for a set of keys: clear_key_faults, clear_account_faults.
ClearFaults(ks) ==
  /\ circuit' = [o \in Circuits |-> IF o \in ks THEN Fresh ELSE circuit[o]]
  /\ Vacate
  /\ confirmations' = [k \in Keys |-> IF k \in ks THEN 0 ELSE confirmations[k]]
  /\ invalid' = [k \in Keys |-> IF k \in ks THEN "no" ELSE invalid[k]]
  /\ UNCHANGED <<budgetVars, reqVars>>

ClearKeyFaults(k)     == ClearFaults({k})
ClearAccountFaults(a) == ClearFaults({k \in Keys : KeyAccount[k] = a})

\* retain_with_keys, clear_all or an eviction drops entries; the next access
\* makes new ones.  Requests keep the old Arcs.
Discard(os) ==
  /\ circuit' = [o \in Circuits |-> IF o \in os THEN Fresh ELSE circuit[o]]
  /\ Vacate
  /\ confirmations' = [k \in Keys |-> IF k \in os THEN 0 ELSE confirmations[k]]
  /\ invalid' = [k \in Keys |-> IF k \in os THEN "no" ELSE invalid[k]]
  /\ capacity' = [o \in Objects |-> IF o \in os THEN Unlimited ELSE capacity[o]]
  /\ avail' = [o \in Objects |-> IF o \in os THEN Unlimited ELSE avail[o]]
  /\ refs' = [r \in Requests |-> refs[r] \ os]
  /\ trials' = [r \in Requests |-> trials[r] \ os]
  /\ held' = [r \in Requests |-> held[r] \ os]
  /\ UNCHANGED <<limit, pc, path, want, probing>>

RetainDrops(o) == Discard({o})
ClearAll       == Discard(Objects)

CooldownEnds(o) ==
  /\ circuit[o].cooldown = "running"
  /\ circuit' = [circuit EXCEPT ![o] = Expired(@)]
  /\ UNCHANGED <<keyVars, budgetVars, reqVars, owner>>

WindowSlides(o) ==
  /\ circuit[o].totals > 0
  /\ circuit' = [circuit EXCEPT ![o] = Slid(@)]
  /\ UNCHANGED <<keyVars, budgetVars, reqVars, owner>>

\* KEY_INVALID_PROBE_AFTER has passed since the hard stop.
ProbeWindowOpens(k) ==
  /\ invalid[k] = "stopped"
  /\ invalid' = [invalid EXCEPT ![k] = "probe"]
  /\ UNCHANGED <<circuitVars, confirmations, budgetVars, reqVars>>

-----------------------------------------------------------------------------
Admit(r) ==
  \/ Calibrate(r) \/ EnterKey(r) \/ EnterTarget(r) \/ TakePermits(r) \/ ConsumeRate(r)

End(r) ==
  \/ \E outcome \in Reported : Count(r, outcome) \/ Settle(r, outcome)
  \/ Dropped(r) \/ Cancel(r)

Next ==
  \/ \E r \in Requests, k \in Keys, t \in Targets : Arrive(r, k, t)
  \/ \E r \in Requests : Admit(r) \/ End(r)
  \/ \E o \in Objects : \E n \in LimitChoices[o] : SetLimit(o, n)
  \/ \E k \in Keys : ClearKeyFaults(k) \/ ProbeWindowOpens(k)
  \/ \E a \in Accounts : ClearAccountFaults(a)
  \/ \E o \in Objects : RetainDrops(o)
  \/ ClearAll
  \/ \E o \in Circuits : CooldownEnds(o) \/ WindowSlides(o)

Spec == Init /\ [][Next]_vars

-----------------------------------------------------------------------------
(* Properties.                                                              *)

HoldersOf(o) == {r \in Requests : o \in held[r]}

\* Permits are neither lost nor minted, however calibrations, restorations,
\* admissions, refusals and discards interleave: the semaphore and the
\* recorded capacity of a budget always differ by exactly what is held.
\* (Budget::reconcile_capacity, restore_rate, CapacityPermit.)
PermitsConserved ==
  \A o \in Objects : avail[o] + Cardinality(HoldersOf(o)) = capacity[o]

\* A half-open place that is taken can still be given back: the attempt that took it is under
\* way and knows that it did.  No path through admit, settle, cancel or drop, and no verdict or
\* reset in between, leaves a circuit waiting for a trial that is gone, which would refuse the
\* key or the target for ever.  (That some other attempt has an old flag is not enough.)
NoOrphanTrial ==
  \A o \in Circuits :
    circuit[o].taken => owner[o] \in Requests /\ o \in trials[owner[o]]

\* The comment on confirm_invalid says that a key is stopped only when the
\* threshold is reached in a row: no success came since.
StoppedIsConfirmed ==
  \A k \in Keys : invalid[k] # "no" => confirmations[k] >= Confirmations

\* Admission::settle says that an attempt gives back only the place it took itself: a half-open
\* circuit loses its trial, without a verdict, only when the owner of the trial ends.
OnlyOwnTrialUndone ==
  [][\A o \in Circuits :
        /\ circuit[o].taken /\ ~circuit'[o].taken
        /\ circuit'[o].cooldown = "expired"
        => o \notin trials'[owner[o]]]_vars

\* A calibration leaves no idle permit above the limit it enforces: what is
\* still over the limit is in use, and comes back under it as it is returned.
NoIdleOver ==
  \A r \in Requests :
    pc[r] = "arrived" /\ pc'[r] = "enterKey"
    => \A o \in path[r] :
         want'[r][o] # None /\ capacity'[o] # want'[r][o]
         => capacity'[o] > want'[r][o] /\ avail'[o] = 0

ShrinkLeavesNoIdle == [][NoIdleOver]_vars

\* The README says of a tripped circuit that it lets one half-open request
\* through at a time.
OneTrialAtATime ==
  \A o \in Circuits : Cardinality({r \in Requests : o \in trials[r]}) <= 1

\* The README says that a hard-stopped key lets one request through to prove
\* itself once the window is over.
OneProbeAtATime ==
  \A k \in Keys : Cardinality({r \in Requests : probing[r] /\ k \in path[r]}) <= 1

\* The admin page says that a limit left empty means no limit: a request whose
\* snapshot has no limit for an object is held to none, at least while nobody
\* with another snapshot is about.
EmptyLimitIsNoLimit ==
  \A r \in Requests :
    pc[r] = "arrived" /\ (\A other \in Requests \ {r} : pc[other] = "idle")
    => \A o \in path[r] : want[r][o] = None => Effective(o, want[r][o]) = None

=============================================================================
