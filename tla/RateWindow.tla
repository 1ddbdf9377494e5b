----------------------------- MODULE RateWindow -----------------------------
(***************************************************************************)
(* The RPM and TPM windows of one level (account, key or target):          *)
(* SlidingWindow, consume_rate and the rate part of Budget in              *)
(* src/src/health/mod.rs.                                                  *)
(*                                                                         *)
(* A window counts the charges of the current span and of the one before   *)
(* it, which weighs less the longer the current span lasts.  A request     *)
(* reads the clock once and then takes the lock of each window in turn, so *)
(* that it may charge a window with a time that is past for the others; it *)
(* gives back what it reserved when another level refuses it, when it is   *)
(* cancelled, or when the real usage is known.                             *)
(*                                                                         *)
(* Time is counted in ticks, Span ticks to the minute; the weighted        *)
(* estimate is kept multiplied by Span, as an integer.                     *)
(***************************************************************************)
EXTENDS Integers, FiniteSets, FiniteSetsExt

CONSTANTS
  Requests,
  Span,       \* RATE_WINDOW
  RpmLimit,
  TpmLimit,
  Tokens,     \* bound: estimates and real usages
  MaxTime,    \* bound of the clock
  MaxLag,     \* bound: how long a step between two locks can be held up
  None

\* What the instances of the module give it.
RateAssumption ==
  /\ IsFiniteSet(Requests)
  /\ Span \in Nat \ {0} /\ RpmLimit \in Nat /\ TpmLimit \in Nat /\ MaxTime \in Nat
  /\ MaxLag \in Nat
  /\ Tokens \subseteq Nat
  /\ None \notin Nat

VARIABLES
  clock,
  window,   \* rpm and tpm
  req,      \* the locals of a request
  charge    \* history: what a request has charged each window with, net

vars == <<clock, window, req, charge>>

Kinds   == {"rpm", "tpm"}
Windows == [start : Nat \cup {None}, current : Nat, previous : Nat]

TypeOK ==
  /\ clock \in 0..MaxTime
  /\ window \in [Kinds -> Windows]
  /\ req \in [Requests -> [pc : {"new", "rpm", "tpm", "undo", "held", "cancel_rpm", "cancel_tpm",
                                 "done"},
                           at : 0..MaxTime, now : 0..MaxTime, tokens : Tokens \cup {0}]]
  /\ charge \in [Requests -> [Kinds -> Nat]]

Init ==
  /\ clock = 0
  /\ window = [k \in Kinds |-> [start |-> None, current |-> 0, previous |-> 0]]
  /\ req = [r \in Requests |-> [pc |-> "new", at |-> 0, now |-> 0, tokens |-> 0]]
  /\ charge = [r \in Requests |-> [k \in Kinds |-> 0]]

-----------------------------------------------------------------------------
(* SlidingWindow.                                                           *)

\* Mutant: they do not.
Difference(a, b) == a - b

\* Subtractions of the code saturate.
Minus(a, b) == IF a > b THEN a - b ELSE 0

Carried(w, elapsed) == IF elapsed < 2 * Span THEN w.current ELSE 0

\* Starts the window, or moves it on when its span is over.
Roll(w, now) ==
  IF w.start = None THEN [w EXCEPT !.start = now]
  ELSE LET elapsed == Minus(now, w.start)
       IN  IF elapsed < Span THEN w
           ELSE [start |-> now - (elapsed % Span), current |-> 0, previous |-> Carried(w, elapsed)]

\* Mutant: the window is read as if its span were not over.
StaleEstimate(w, now) ==
  IF w.start = None THEN 0
  ELSE w.previous * Minus(Span, Minus(now, w.start)) + w.current * Span

\* The estimate, times Span, without moving the window.
Estimate(w, now) ==
  IF w.start = None THEN 0
  ELSE LET elapsed == Minus(now, w.start)
       IN  IF elapsed >= 2 * Span THEN 0
           ELSE IF elapsed >= Span THEN w.current * (2 * Span - elapsed)
           ELSE w.previous * (Span - elapsed) + w.current * Span

\* Mutant: the span before does not count.
CurrentFits(w, amount, limit, now) == Roll(w, now).current + amount <= limit

Fits(w, amount, limit, now) == Estimate(Roll(w, now), now) + amount * Span <= limit * Span

Consumed(w, amount, now) == [Roll(w, now) EXCEPT !.current = @ + amount]

Refunded(w, amount, now) == [Roll(w, now) EXCEPT !.current = Minus(@, amount)]

\* A refund comes off the span that was charged.
RefundedAt(w, amount, at, now) ==
  LET v == Roll(w, now)
  IN  IF at >= v.start THEN [v EXCEPT !.current = Minus(@, amount)]
      ELSE IF v.start - at <= Span THEN [v EXCEPT !.previous = Minus(@, amount)]
      ELSE v

-----------------------------------------------------------------------------
(* A request: consume_rate, Budget::cancel and Budget::settle.              *)

Step(r, from, to) == req[r].pc = from /\ req' = [req EXCEPT ![r].pc = to]

Charges(r, kind, w, amount) ==
  /\ window' = [window EXCEPT ![kind] = w]
  /\ charge' = [charge EXCEPT ![r][kind] = amount]

\* admit reads the clock, before it takes any lock.
Arrive(r, tokens) ==
  /\ req[r].pc = "new"
  /\ req' = [req EXCEPT ![r] = [pc |-> "rpm", at |-> clock, now |-> clock, tokens |-> tokens]]
  /\ UNCHANGED <<clock, window, charge>>

ConsumeRpm(r) ==
  LET w == window.rpm
      now == req[r].at
  IN  /\ IF Fits(w, 1, RpmLimit, now)
           THEN Step(r, "rpm", "tpm") /\ Charges(r, "rpm", Consumed(w, 1, now), 1)
           ELSE Step(r, "rpm", "done") /\ Charges(r, "rpm", Roll(w, now), 0)
      /\ UNCHANGED clock

ConsumeTpm(r) ==
  LET w == window.tpm
      now == req[r].at
      tokens == req[r].tokens
  IN  /\ IF Fits(w, tokens, TpmLimit, now)
           THEN Step(r, "tpm", "held") /\ Charges(r, "tpm", Consumed(w, tokens, now), tokens)
           ELSE Step(r, "tpm", "undo") /\ Charges(r, "tpm", Roll(w, now), 0)
      /\ UNCHANGED clock

\* The TPM window refuses: consume_rate gives the request back.
UndoRpm(r) ==
  /\ Step(r, "undo", "done")
  /\ Charges(r, "rpm", Refunded(window.rpm, 1, req[r].at), 0)
  /\ UNCHANGED clock

\* Another level refuses, with the time of admit; or the attempt is cancelled,
\* with the time of now.
Cancel(r, now) ==
  /\ req[r].pc = "held"
  /\ req' = [req EXCEPT ![r].pc = "cancel_rpm", ![r].now = now]
  /\ UNCHANGED <<clock, window, charge>>

CancelRpm(r) ==
  /\ Step(r, "cancel_rpm", "cancel_tpm")
  /\ Charges(r, "rpm", RefundedAt(window.rpm, 1, req[r].at, req[r].now), 0)
  /\ UNCHANGED clock

CancelTpm(r) ==
  /\ Step(r, "cancel_tpm", "done")
  /\ Charges(r, "tpm", RefundedAt(window.tpm, req[r].tokens, req[r].at, req[r].now), 0)
  /\ UNCHANGED clock

\* The real usage is known: the difference is refunded, or charged now.
Settle(r, actual) ==
  LET tokens == req[r].tokens
      w      == window.tpm
  IN  /\ Step(r, "held", "done")
      /\ IF actual < tokens
           THEN Charges(r, "tpm", RefundedAt(w, tokens - actual, req[r].at, clock), actual)
           ELSE Charges(r, "tpm", Consumed(w, actual - tokens, clock), tokens)
      /\ UNCHANGED clock

\* The usage stays unknown: the estimate stands.
SettleUnknown(r) ==
  /\ Step(r, "held", "done")
  /\ UNCHANGED <<clock, window, charge>>

\* Time passes; the steps under the locks never await, so that none falls
\* behind by more than MaxLag.
Prompt(r) ==
  /\ req[r].pc \in {"rpm", "tpm", "undo"} => clock < req[r].at + MaxLag
  /\ req[r].pc \in {"cancel_rpm", "cancel_tpm"} => clock < req[r].now + MaxLag

Tick ==
  /\ clock < MaxTime
  /\ \A r \in Requests : Prompt(r)
  /\ clock' = clock + 1
  /\ UNCHANGED <<window, req, charge>>

-----------------------------------------------------------------------------
Next ==
  \/ Tick
  \/ \E r \in Requests :
       \/ \E n \in Tokens : Arrive(r, n) \/ Settle(r, n)
       \/ ConsumeRpm(r) \/ ConsumeTpm(r) \/ UndoRpm(r)
       \/ \E now \in {req[r].at, clock} : clock <= now + MaxLag /\ Cancel(r, now)
       \/ CancelRpm(r) \/ CancelTpm(r) \/ SettleUnknown(r)

Spec == Init /\ [][Next]_vars

-----------------------------------------------------------------------------
(* Properties.                                                              *)

LimitOf(kind) == IF kind = "rpm" THEN RpmLimit ELSE TpmLimit

\* What was charged, net, by requests that came in some interval.
ChargedIn(kind, from, to) ==
  MapThenSumSet(LAMBDA r : charge[r][kind],
                             {r \in Requests : req[r].pc # "new" /\ req[r].at \in from..to})

\* The comment on SlidingWindow says that no double rate is let through at the
\* boundary of two spans: an interval of d ticks takes no more than the limit
\* and the share d / Span of it, wherever it lies.
SpreadAtBoundary ==
  \A kind \in Kinds : \A from \in 0..clock : \A d \in 0..Span :
    ChargedIn(kind, from, from + d) * Span <= LimitOf(kind) * (Span + d)

\* What check reads without moving a window is what admit finds after moving
\* it: a request is not held back, nor a candidate offered, by a reading that is
\* out of date.  (Budget::check, SlidingWindow::estimate and roll.)
PeekAgrees ==
  \A kind \in Kinds : \A now \in clock..(clock + 3 * Span) :
    Estimate(window[kind], now) = Estimate(Roll(window[kind], now), now)

\* When every request was refused or gave back what it took, nothing of it is
\* left in the windows.  (Test cancelling_before_upstream_refunds_rpm_and_tpm.)
RefundsAreComplete ==
  (\A r \in Requests : req[r].pc \in {"new", "done"} /\ \A k \in Kinds : charge[r][k] = 0)
  => \A k \in Kinds : Estimate(window[k], clock) = 0
=============================================================================
