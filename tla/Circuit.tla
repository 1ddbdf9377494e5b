------------------------------- MODULE Circuit -------------------------------
(***************************************************************************)
(* The cooldown / half-open state machine of src/src/health/mod.rs         *)
(* (`struct Circuit`), as operators on a record.  One circuit guards every *)
(* upstream key (its quota) and every target (its faults); Health.tla owns *)
(* the circuits as state and calls these operators.                        *)
(*                                                                         *)
(* Time is abstracted to what the code asks of it.  `cooldown_until` is    *)
(* "none", "running" (now < until) or "expired" (until <= now): the length *)
(* of a cooldown is never compared with anything else.  The two 60 s       *)
(* sliding windows are kept as sample counts that Slid may empty at any    *)
(* moment; RateWindow.tla models the window arithmetic itself.             *)
(***************************************************************************)
EXTENDS Integers

CONSTANTS
  ConsecutiveTrip,   \* CONSECUTIVE_TRIP: this many faults in a row trip
  RatioMinSamples,   \* RATIO_MIN_SAMPLES: below it the ratio is not looked at
  MaxLevel,          \* bound: backoff_for saturates (level.min(6))
  MaxSamples         \* bound: a window holding this many samples slides first

ASSUME CircuitAssumption ==
  /\ ConsecutiveTrip \in Nat \ {0}
  /\ RatioMinSamples \in Nat \ {0}
  /\ MaxLevel \in Nat \ {0}
  /\ MaxSamples \in Nat \ {0}

CircuitFields ==
  [cooldown: {"none", "running", "expired"}, taken: BOOLEAN,
   level: 0..MaxLevel, consecutive: 0..ConsecutiveTrip,
   failures: 0..MaxSamples, totals: 0..MaxSamples]

CircuitType == {c \in CircuitFields : c.failures <= c.totals}

\* Circuit::default, and what Circuit::reset returns to.
Fresh ==
  [cooldown |-> "none", taken |-> FALSE, level |-> 0, consecutive |-> 0,
   failures |-> 0, totals |-> 0]

Phase(c) ==
  CASE c.cooldown = "none"    -> "Closed"
    [] c.cooldown = "running" -> "Cooling"
    [] OTHER -> IF c.taken THEN "HalfOpenTaken" ELSE "HalfOpenAvailable"

-----------------------------------------------------------------------------
(* Entering and leaving.                                                    *)

CanEnter(c)   == Phase(c) \in {"Closed", "HalfOpenAvailable"}
TakesTrial(c) == Phase(c) = "HalfOpenAvailable"

\* Circuit::try_enter, for a circuit that CanEnter.
Entered(c) == [c EXCEPT !.taken = @ \/ TakesTrial(c)]

\* undo_half_open(taken) and release_half_open() under `if half_open`.
Undone(c, own) == [c EXCEPT !.taken = @ /\ ~own]

-----------------------------------------------------------------------------
(* Outcomes.                                                                *)

\* Mutant: the level does not saturate.
EscalatedForever(level) == level + 1

Escalated(level) == IF level < MaxLevel THEN level + 1 ELSE level

\* The window's contents with one more sample; a full window slides first.
Noted(c, failed) ==
  LET full == c.totals = MaxSamples
      f == IF full THEN 0 ELSE c.failures
      t == IF full THEN 0 ELSE c.totals
  IN  [c EXCEPT !.totals = t + 1, !.failures = IF failed THEN f + 1 ELSE f]

OnSuccess(c) ==
  [Noted(c, FALSE) EXCEPT !.cooldown = "none", !.taken = FALSE,
                          !.level = 0, !.consecutive = 0]

\* trip(retry_after): only a wait the circuit chose itself raises the level.
Trip(c, given) ==
  [c EXCEPT !.cooldown = "running", !.taken = FALSE,
            !.level = IF given THEN @ ELSE Escalated(@)]

RatioTrips(c) == c.totals >= RatioMinSamples /\ 2 * c.failures >= c.totals

\* on_fault: whoever reports it, a taken trial counts as failed.
OnFault(c) ==
  LET noted == Noted(c, TRUE)
      inRow == c.consecutive + 1
      cooled == [noted EXCEPT !.cooldown = "running", !.taken = FALSE,
                              !.level = Escalated(@)]
  IN  CASE c.taken -> [cooled EXCEPT !.consecutive =
                         IF inRow > ConsecutiveTrip THEN ConsecutiveTrip ELSE inRow]
        [] ~c.taken /\ (inRow >= ConsecutiveTrip \/ RatioTrips(noted)) ->
             [cooled EXCEPT !.consecutive = 0]
        [] OTHER -> [noted EXCEPT !.consecutive = inRow]

-----------------------------------------------------------------------------
(* The passage of time.                                                     *)

Expired(c) == [c EXCEPT !.cooldown = "expired"]
Slid(c)    == [c EXCEPT !.failures = 0, !.totals = 0]
=============================================================================
