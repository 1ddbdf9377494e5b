---------------------------- MODULE MCSelection ----------------------------
(***************************************************************************)
(* Finite instances of the modules that choose who serves a request:       *)
(* Sticky, KeyChoice, Routing and Score.  They share no state here and a   *)
(* behaviour is of one part, so that one run checks them all: the races of *)
(* two requests over a binding, the life of a binding under the jobs, the  *)
(* choice of a key, the plan, and the scores.                              *)
(***************************************************************************)
EXTENDS Integers, KeyChoice

CONSTANTS r1, r2, MaxArrivals,
  SessionKeys, Targets, Pair, TTL, ColdAfter, Cooldown, MaxBindings, EvictBatch,
  Sizes, MaxTime, MaxRestarts, MaxChanges, Latencies, Hits, MinSamples, Faded, Unit, MaxSamples,
  MaxHalfLives

VARIABLES part, arrivals,
  table, disk, saving, cleaning, origin, live, restarts, req, now,
  fact, request, changes,
  stats, rows, observed, halfLives

S == INSTANCE Sticky WITH Keys <- SessionKeys, Requests <- Pair
R == INSTANCE Routing
P == INSTANCE Score WITH disk <- rows, now <- halfLives, MaxTime <- MaxHalfLives

ASSUME SelectionAssumption ==
  /\ {MaxTime, MaxRestarts, MaxChanges} \subseteq Nat /\ r1 \in Pair
  /\ P!ScoreAssumption /\ P!FadedAssumption /\ None \notin P!Stats

stickyVars == <<table, disk, saving, cleaning, origin, req>>
keyVars    == vars
planVars   == <<fact, request, changes>>
scoreVars  == <<stats, rows, observed, halfLives>>
shared     == <<live, restarts, now>>
selVars == <<part, arrivals, stickyVars, keyVars, planVars, scoreVars, shared>>

Parts == {"race", "jobs", "keys", "plan", "score"}

SelInit ==
  /\ part \in Parts /\ arrivals = 0
  /\ S!Init /\ P!Init /\ R!Init /\ Init
  /\ part # "race" => origin = [k \in SessionKeys |-> "session"]
  /\ part # "keys" => state = [k \in Keys |-> "free"]
  /\ part # "plan" => request = [model |-> "on", degrade |-> TRUE, bound |-> FALSE]

\* Two requests and the clock; at most MaxArrivals requests in all.
Race ==
  /\ \/ \E r \in Pair : S!Step(r)
     \/ S!Tick
  /\ arrivals' = IF \E r \in Pair : req[r] = S!Idle /\ req'[r] # S!Idle
                 THEN arrivals + 1 ELSE arrivals
  /\ arrivals' <= MaxArrivals

\* One request with bodies of one size, and all that happens to the table around it.
Jobs ==
  /\ \/ S!Step(r1) /\ (req'[r1] # S!Idle => req'[r1].bytes = 1)
     \/ S!Jobs
     \/ \E t \in Targets : S!DeleteTarget(t)
     \/ S!Restart
     \/ S!Tick
  /\ UNCHANGED arrivals

Within(p, A) ==
  /\ part = p /\ UNCHANGED part
  /\ A

Others(v, w, x) == UNCHANGED <<v, w, x>>

SelNext ==
  \/ Within("race", Race /\ Others(keyVars, planVars, scoreVars))
  \/ Within("jobs", Jobs /\ Others(keyVars, planVars, scoreVars))
  \/ Within("keys", Next /\ Others(stickyVars, planVars, scoreVars) /\ UNCHANGED <<arrivals, shared>>)
  \/ Within("plan", R!Next /\ Others(stickyVars, keyVars, scoreVars) /\ UNCHANGED <<arrivals, shared>>)
  \/ Within("score", P!Next /\ Others(stickyVars, keyVars, planVars) /\ UNCHANGED <<arrivals, now>>)

Job(A) == Within("jobs", A /\ Others(keyVars, planVars, scoreVars) /\ UNCHANGED arrivals)

\* Sticky's fairness, for the part that has all of its actions.
Fairness ==
  /\ WF_selVars(Job(S!GiveUp(r1)))
  /\ WF_selVars(Job(S!PruneTable)) /\ WF_selVars(Job(S!PruneRows)) /\ WF_selVars(Job(S!Save))

SelSpec == SelInit /\ [][SelNext]_selVars /\ Fairness

-----------------------------------------------------------------------------
(* The properties of the parts, as their modules state and comment them.    *)

\* A conversation changes its target for a cause only (Sticky, with its types).
MovedForCause == []S!TypeOK /\ S!MovedForCause

\* What points to a deleted target is forgotten, in memory and on disk (Sticky).
DeadTargetsForgotten == S!DeadTargetsForgotten

\* No gate is passed by on the way of a busy target into the plan, and a client is
\* told not to try again only if nothing could heal (Routing, with its types).
GatesHold == R!TypeOK /\ R!GatesHold /\ R!FinalIsFinal

\* A target with no recent evidence gets its share of the draws, and a restart does
\* not make evidence look fresher (Score, with its types).
FadedIsRetried == [](P!TypeOK /\ P!FadedIsRetried) /\ P!RestartWhitensNobody
=============================================================================
