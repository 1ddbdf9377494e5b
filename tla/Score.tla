------------------------------- MODULE Score -------------------------------
(***************************************************************************)
(* What the gateway knows of the performance of its targets, how it is     *)
(* scored, and the draw within a layer (src/src/routing/score.rs).         *)
(*                                                                         *)
(* The statistics are observed by requests as they end, exported by the    *)
(* snapshot job, and restored after a restart.  Evidence fades: its weight *)
(* halves with every half-life (24 hours) that passes without a request.   *)
(* The clock counts half-lives.  Rates and scores are in tenths, weights   *)
(* of samples in units of 1/Unit, draws in units of 10^-8.                 *)
(***************************************************************************)
EXTENDS Integers

CONSTANTS
  Targets,
  None,
  Latencies,   \* to the first token, of successful requests
  Hits,        \* rates of cache hits, in tenths
  MinSamples,  \* MIN_SAMPLES
  Faded,       \* half-lives after which at most an eighth of MinSamples is left
  Unit,
  MaxTime,     \* bound of the clock, in half-lives
  MaxSamples,  \* bound of the observations
  MaxRestarts  \* bound of crashes

\* A sample weighs something and some are needed; rates and latencies are in their scale.
ScoreAssumption ==
  /\ {MinSamples, Unit} \subseteq Nat \ {0}
  /\ {Faded, MaxSamples, MaxTime, MaxRestarts} \subseteq Nat
  /\ Latencies \subseteq 0..10 /\ Hits \subseteq 0..10

VARIABLES
  stats,     \* Registry.inner, or None for a target without an entry
  disk,      \* the rows of the snapshots
  live,      \* the targets of the configuration
  observed,  \* how many samples there were, to bound them
  restarts,
  now

vars == <<stats, disk, live, observed, restarts, now>>

\* at is None before the first sample; hits counts the samples of the cache.
Stats == [weight : 0..(Unit * MaxSamples), success : 0..10,
          first : 0..10, cache : 0..10, hits : 0..MaxSamples,
          at : 0..MaxTime]

Default == [weight |-> 0, success |-> 10, first |-> 0, cache |-> 0, hits |-> 0, at |-> 0]

TypeOK ==
  /\ stats \in [Targets -> Stats \cup {None}] /\ disk \in [Targets -> Stats \cup {None}]
  /\ live \subseteq Targets /\ observed \in 0..MaxSamples
  /\ restarts \in 0..MaxRestarts /\ now \in 0..MaxTime

Init ==
  /\ stats = [t \in Targets |-> None] /\ disk = stats
  /\ live = Targets
  /\ observed = 0 /\ restarts = 0 /\ now = 0

-----------------------------------------------------------------------------
(* The statistics of one target.                                            *)

\* Mutant: the weight does not fade.
WeightForEver(s, t) == s.weight

\* A number after n half-lives.
Halved(w, n) ==
  LET left[i \in Nat] == IF i = 0 THEN w ELSE left[i - 1] \div 2
  IN  left[n]

\* effective_samples: the weight after the half-lives since the last sample.
Effective(s, t) == Halved(s.weight, t - s.at)

Warm(s, t) == Effective(s, t) >= MinSamples * Unit

\* Mutant: the old value keeps all of its weight.
EwmaSum(old, new) == old + new \div 5

Ewma(old, new) == (4 * old + new) \div 5

\* A seed for what was never measured; a zero is a measure of the cache only.
Seeded(old, new) == IF old = 0 THEN new ELSE Ewma(old, new)

\* Samples of the test button and of broken streams do not count; a client that
\* left says nothing of the reliability; a failure nothing of the speed.
Kinds == {"success", "failure", "left", "excluded"}

Observed(s, kind, latency, hit) ==
  LET counted == [s EXCEPT !.weight = Effective(s, now) + Unit, !.at = now,
                           !.success = CASE kind = "success" -> Ewma(@, 10)
                                         [] kind = "failure" -> Ewma(@, 0)
                                         [] OTHER -> @]
  IN  IF kind = "excluded" THEN s
      ELSE IF kind = "failure" THEN counted
      ELSE [counted EXCEPT !.first = Seeded(@, latency),
                           !.cache = IF s.hits = 0 THEN hit ELSE Ewma(@, hit),
                           !.hits = @ + 1]

Of(t) == IF stats[t] = None THEN Default ELSE stats[t]

Observe(t, kind, latency, hit) ==
  /\ observed < MaxSamples /\ observed' = observed + 1
  /\ stats' = [stats EXCEPT ![t] = Observed(Of(t), kind, latency, hit)]
  /\ UNCHANGED <<disk, live, restarts, now>>

\* What Faded says of itself.
FadedAssumption == 8 * Halved(Unit * MaxSamples, Faded) <= MinSamples * Unit

-----------------------------------------------------------------------------
(* The jobs and the process.                                                *)

\* export, and INSERT OR REPLACE of what it found.
Save ==
  /\ disk' = [t \in Targets |-> IF stats[t] # None THEN stats[t] ELSE disk[t]]
  /\ UNCHANGED <<stats, live, observed, restarts, now>>

\* retain, and the rows of deleted targets.
Clean ==
  /\ stats' = [t \in Targets |-> IF t \in live THEN stats[t] ELSE None]
  /\ disk' = [t \in Targets |-> IF t \in live THEN disk[t] ELSE None]
  /\ UNCHANGED <<live, observed, restarts, now>>

DeleteTarget(t) ==
  /\ t \in live /\ live' = live \ {t}
  /\ UNCHANGED <<stats, disk, observed, restarts, now>>

\* Mutant: the time of the restart is taken for that of the last sample.
RestoredFresh(s) == [s EXCEPT !.at = now]

\* restore: with the weight and the time of the last sample as they were.
Restored(s) == s

Restart ==
  /\ restarts < MaxRestarts /\ restarts' = restarts + 1
  /\ stats' = [t \in Targets |-> IF disk[t] = None THEN None ELSE Restored(disk[t])]
  /\ UNCHANGED <<disk, live, observed, now>>

Tick ==
  /\ now < MaxTime /\ now' = now + 1
  /\ UNCHANGED <<stats, disk, live, observed, restarts>>

Next ==
  \/ \E t \in Targets, k \in Kinds, l \in Latencies, h \in Hits : Observe(t, k, l, h)
  \/ Save \/ Clean \/ Restart \/ Tick
  \/ \E t \in Targets : DeleteTarget(t)

Spec == Init /\ [][Next]_vars

-----------------------------------------------------------------------------
(* The score of a target among the candidates of a plan.                    *)

Neutral == 6

WarmOnes(cs) == {c \in cs : Warm(Of(c), now)}

\* Reference: two warm candidates are needed for a frame.
Fastest(cs) ==
  LET known == {Of(c).first : c \in WarmOnes(cs)} \ {0}
  IN  IF (\A c, d \in WarmOnes(cs) : c = d) \/ known = {} THEN 0
      ELSE CHOOSE x \in known : \A y \in known : x <= y

\* score_one: the mean of reliability, speed and cache; the price is a constant of
\* the account and the same for all here.  Cold targets score neutrally.
Total(c, cs) ==
  LET s == Of(c)
      first == IF s.first > 0 /\ Fastest(cs) > 0 THEN (10 * Fastest(cs)) \div s.first ELSE Neutral
      cache == IF s.hits = 0 THEN Neutral ELSE s.cache
  IN  IF Warm(s, now) THEN (s.success + first + cache) \div 3 ELSE Neutral

\* exploration_floor: 3 in a hundred, up to eight times of it with the evidence
\* that is missing; in units of 10^-8.
Exploration(c) ==
  LET e == Effective(Of(c), now)
      base == 3000000
  IN  IF e = 0 THEN 8 * base
      ELSE IF e >= MinSamples * Unit THEN base
      ELSE IF MinSamples * Unit >= 8 * e THEN 8 * base
      ELSE (base * MinSamples * Unit) \div e

\* POWER.
Eighth(x) ==
  LET fourth == x * x * x * x
  IN  fourth * fourth

\* base_weight: the floor is added outside the power.
Weight(c, cs) == Eighth(Total(c, cs)) + Exploration(c)

\* weighted_order: the weight of which a candidate of two has its share.
AllWeight(t, u) == Weight(t, {t, u}) + Weight(u, {t, u})

-----------------------------------------------------------------------------
(* Properties.                                                              *)

\* A target that nobody has heard of for long comes back: once its evidence has
\* faded it is drawn at least once in six times by a plan of two, however badly
\* it did and however well the other one does.  (effective_samples, base_weight.)
FadedIsRetried ==
  \A t \in live : \A u \in live \ {t} :
    now - Of(t).at >= Faded => 6 * Weight(t, {t, u}) >= AllWeight(t, u)

\* A restart makes no target look better known than it was: the evidence it brings
\* back is as old as the samples.  (export, restore.)
RestartWhitensNobody ==
  [][restarts' # restarts =>
       \A t \in live : Effective(Of(t)', now) <= Effective(Of(t), now)]_vars
=============================================================================
