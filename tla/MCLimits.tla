------------------------------ MODULE MCLimits ------------------------------
(***************************************************************************)
(* The limits in one run: the group's queue under calibration, the permits *)
(* of an account whose limit the administrator moves, the rate windows,    *)
(* and attempts that are admitted at once or after a wait.  They share no  *)
(* state here, and a behaviour is of one of them: the other parts rest.    *)
(***************************************************************************)
EXTENDS Queue, TLC

CONSTANTS
  Requests, Span, RpmLimit, TpmLimit, Tokens, MaxTime, MaxLag,       \* RateWindow
  Pair,                                                              \* requests of the other two
  Accounts, Targets, TargetAccount,
  Keys, KeyAccount, LimitChoices, Most, RateLimited, Confirmations,
  Reported, ConsecutiveTrip, RatioMinSamples, MaxLevel, MaxSamples,  \* Health
  PoolKeys, KeysOf, Limit, RateBound, Plans, Bindings, QueueCapacity \* CapacityWait

VARIABLES
  part,                                          \* which one is on
  clock, window, req, charge,                    \* RateWindow
  circuit, confirmations, invalid, limit, capacity, budget,
  step, path, refs, wish, trials, held, probing,
  owner,                                         \* Health
  idle, shutdown, line, got, rateFull, walk      \* CapacityWait

Windows == INSTANCE RateWindow

\* HealthProofs is Health with what is proved of it.
Budgets == INSTANCE HealthProofs WITH
  Requests <- Pair, avail <- budget, pc <- step, want <- wish,
  Unlimited <- Most, RateBound <- RateLimited

Waits == INSTANCE CapacityWait WITH
  avail <- idle, queue <- line, req <- walk,
  Requests <- Pair, Keys <- PoolKeys, Account <- TargetAccount

ASSUME LimitsAssumption ==
  /\ Windows!RateAssumption
  /\ Budgets!CircuitAssumption /\ Budgets!HealthAssumption
  /\ Waits!WaitAssumption

windowVars == <<clock, window, req, charge>>
budgetVars == <<circuit, confirmations, invalid, limit, capacity, budget,
                step, path, refs, wish, trials, held, probing, owner>>
waitVars   == <<idle, line, got, rateFull, shutdown, walk>>

WindowsRest == clock = None /\ window = None /\ req = None /\ charge = None
BudgetsRest ==
  /\ circuit = None /\ confirmations = None /\ invalid = None /\ limit = None /\ capacity = None
  /\ budget = None /\ step = None /\ path = None /\ refs = None /\ wish = None /\ trials = None
  /\ held = None /\ probing = None /\ owner = None
WaitsRest ==
  idle = None /\ line = None /\ got = None /\ rateFull = None /\ shutdown = None /\ walk = None

LimitsInit ==
  /\ Init
  /\ \/ part = "queue" /\ WindowsRest /\ BudgetsRest /\ WaitsRest
     \/ part = "windows" /\ configured = Unlimited /\ Windows!Init /\ BudgetsRest /\ WaitsRest
     \/ part = "budgets" /\ configured = Unlimited /\ Budgets!Init /\ WindowsRest /\ WaitsRest
     \/ part = "waits" /\ configured = Unlimited /\ Waits!Init /\ WindowsRest /\ BudgetsRest

LimitsNext ==
  /\ UNCHANGED part
  /\ \/ part = "queue" /\ Next /\ UNCHANGED <<windowVars, budgetVars, waitVars>>
     \/ part = "windows" /\ Windows!Next /\ UNCHANGED <<vars, budgetVars, waitVars>>
     \/ part = "budgets" /\ Budgets!Next /\ UNCHANGED <<vars, windowVars, waitVars>>
     \/ part = "waits" /\ Waits!Next /\ UNCHANGED <<vars, windowVars, budgetVars>>

limitVars  == <<part, vars, windowVars, budgetVars, waitVars>>
LimitsSpec == LimitsInit /\ [][LimitsNext]_limitVars

-----------------------------------------------------------------------------
(* Finite instances: one account whose limit is switched between none, 1   *)
(* and 2; two keys with one place each, one of them with a rate, and a     *)
(* request that may be bound.                                              *)

CONSTANTS acc, t1, k1, k2

OneAccount   == {acc}
OneKey       == {k1}
OneTarget    == {t1}
TwoKeys      == {k1, k2}
OfKey        == [k \in OneKey |-> acc]
OfTarget     == [t \in OneTarget |-> acc]
BothKeys     == [a \in OneAccount |-> TwoKeys]
AccountMoves == [o \in {acc, k1, t1} |-> IF o = acc THEN {None, 1, 2} ELSE {None}]
KeysOfOne    == [o \in {acc, t1, k1, k2} |-> IF o \in TwoKeys THEN 1 ELSE None]
OnePlan      == {OneTarget}

Alike == Permutations(Callers) \cup Permutations(Slots) \cup Permutations(Requests) \cup Permutations(Pair)

-----------------------------------------------------------------------------
(* RateWindow: its types, no double rate at the boundary of two spans, and     *)
(* reading a window without moving it says the same.                           *)
SpreadAtBoundary ==
  part = "windows" => Windows!TypeOK /\ Windows!SpreadAtBoundary /\ Windows!PeekAgrees

(* Permits of an account, and of the keys and targets waited for, are conserved, *)
(* and both parts keep to their types.                                           *)
PermitsConserved ==
  /\ part = "budgets" => Budgets!TypeOK /\ Budgets!PermitsConserved
  /\ part = "waits" => Waits!TypeOK /\ Waits!PermitsConserved

(* Health.ShrinkLeavesNoIdle: a calibration that finds more permits than the   *)
(* limit takes every idle one away.                                            *)
ShrinkLeavesNoIdle == [][part = "budgets" => Budgets!NoIdleOver]_limitVars

(* CapacityWait.LimitsHold: attempts implement the abstract limits of Concurrency. *)
LimitsHold ==
  /\ part = "waits" => Waits!Attempts!Init
  /\ [][part = "waits" => Waits!Attempts!Next \/ UNCHANGED Waits!Running]_limitVars
=============================================================================
