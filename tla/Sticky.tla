------------------------------- MODULE Sticky -------------------------------
(***************************************************************************)
(* The table of sticky bindings (src/src/routing/sticky.rs), the part of a *)
(* request that reads and writes it (forward_inner and run_attempt of      *)
(* src/src/gateway/passthrough.rs), and the jobs that save, restore and    *)
(* clean it (src/src/app/tasks.rs, app/mod.rs, storage/store.rs).          *)
(*                                                                         *)
(* A request reads its binding once, decides later whether the binding     *)
(* pins it, and writes the table when an attempt succeeds, with the time   *)
(* at which the request began.  What the plan says of the bound target is  *)
(* an input of the decision; which targets are configured is state.        *)
(***************************************************************************)
EXTENDS Integers, FiniteSets

CONSTANTS
  Keys,        \* sticky keys: group, model and what derive found in the request
  Targets,
  Requests,
  None,
  TTL,         \* a binding that was not used for so long is dead
  ColdAfter,   \* the upstream's prefix cache is gone (CACHE_COLD_AFTER_SECS)
  Cooldown,    \* between two migrations (MIGRATE_COOLDOWN)
  MaxBindings, \* MAX_BINDINGS
  EvictBatch,  \* EVICT_BATCH
  Sizes,       \* of request bodies
  MaxTime,     \* bound of the clock
  MaxRestarts  \* bound of crashes

VARIABLES
  table,     \* Bindings.inner: the binding of every key, or None
  disk,      \* the rows of sticky_bindings
  saving,    \* rows exported by the snapshot job and not yet written, or None
  cleaning,  \* the cleanup job has pruned the table and not yet the rows
  origin,    \* the level of derive that made a key; it is hashed into the key
  live,      \* the targets of the configuration
  restarts,
  req,       \* of every request: where it is and what it has read
  now

vars == <<table, disk, saving, cleaning, origin, live, restarts, req, now>>

Binding == [target : Targets, used : 0..MaxTime, migrated : 0..MaxTime, bytes : Sizes]
Tables  == [Keys -> Binding \cup {None}]

\* chain: the reference of a Responses request; session: a header or cache key;
\* prefix: the digest of system prompt and tools (derive's levels 1, 2-3, 4).
Origins == {"chain", "session", "prefix"}

Idle == [pc |-> "idle"]
InFlight ==
  [pc : {"read", "bound", "layers"}, key : Keys, bytes : Sizes,
   start : 0..MaxTime, seen : Binding \cup {None}, cause : {"none", "unfit", "escaped"},
   plan : SUBSET Targets]

TypeOK ==
  /\ table \in Tables /\ disk \in Tables
  /\ saving \in Tables \cup {None} /\ cleaning \in BOOLEAN
  /\ origin \in [Keys -> Origins]
  /\ live \subseteq Targets /\ restarts \in 0..MaxRestarts
  /\ req \in [Requests -> {Idle} \cup InFlight]
  /\ now \in 0..MaxTime

Empty == [k \in Keys |-> None]

Init ==
  /\ table = Empty /\ disk = Empty
  /\ saving = None /\ cleaning = FALSE
  /\ origin \in [Keys -> Origins]
  /\ live = Targets /\ restarts = 0
  /\ req = [r \in Requests |-> Idle]
  /\ now = 0

-----------------------------------------------------------------------------
(* The table.                                                               *)

Alive(b, t) == b # None /\ t - b.used < TTL

\* get: the live binding of a key; it changes nothing.
Lookup(k, t) == IF Alive(table[k], t) THEN table[k] ELSE None

Bound(tab) == {k \in Keys : tab[k] # None}

\* evict_oldest, called for a new key in a full table: any EvictBatch entries
\* such that none that stays was used before one that goes.
Evictions(k) ==
  IF Cardinality(Bound(table)) < MaxBindings \/ table[k] # None THEN {{}}
  ELSE {gone \in SUBSET Bound(table) :
          /\ Cardinality(gone) = EvictBatch
          /\ \A g \in gone, s \in Bound(table) \ gone : table[g].used <= table[s].used}

\* bind: the anchor moves when the target does, and when there is no binding.
Anchor(old, t, at) == IF old # None /\ old.target = t THEN old.migrated ELSE at

Bind(k, t, at, bytes) ==
  LET b == [target |-> t, used |-> at, migrated |-> Anchor(table[k], t, at), bytes |-> bytes]
  IN  \E gone \in Evictions(k) :
        table' = [j \in Keys |-> IF j = k THEN b ELSE IF j \in gone THEN None ELSE table[j]]

Clear(k) == table' = [table EXCEPT ![k] = None]

-----------------------------------------------------------------------------
(* A request.                                                               *)

\* Mutant: a chain is let go like the other bindings when the cache is cold.
ColdForAll(o, b, t) == t - b.used > ColdAfter

\* A cold binding is treated as none, but not that of a chain: it stands for
\* state that exists at one account only.
Dropped(o, b, t) == o # "chain" /\ t - b.used > ColdAfter

Kept(r) == LET q == req[r] IN q.seen # None /\ ~Dropped(origin[q.key], q.seen, q.start)

\* derive and get.
Arrive(r, k, bytes) ==
  /\ req[r] = Idle
  /\ req' = [req EXCEPT ![r] =
       [pc |-> "read", key |-> k, bytes |-> bytes, start |-> now,
        seen |-> Lookup(k, now), cause |-> "none", plan |-> live]]
  /\ UNCHANGED <<table, disk, saving, cleaning, origin, live, restarts, now>>

Rewritten(q) == 2 * q.bytes < q.seen.bytes

\* Mutant: the cooldown of migrations is not looked at.
EscapesHot(q) == origin[q.key] = "session"

\* The gate of pin_is_outpaced: a session may leave its target for one that is
\* ahead by the margin when the last migration is long ago or the context was
\* compacted.
Escapes(q) ==
  /\ origin[q.key] = "session"
  /\ Rewritten(q) \/ q.start - q.seen.migrated >= Cooldown

\* After the plan, which says whether the target is in its first layer, may be
\* called with the key of the binding and how far the best one is ahead: the
\* binding pins the request, or of a prefix tilts the draw; or it is left alone
\* for the better target; or it is unfit.  No or a cold binding is cleared too.
Outcomes(r) ==
  LET q == req[r]
  IN  IF ~Kept(r) THEN {"none"}
      ELSE {"unfit"} \cup (IF q.seen.target \in q.plan
                           THEN {IF origin[q.key] = "prefix" THEN "tilted" ELSE "pinned"}
                                \cup (IF Escapes(q) THEN {"escaped"} ELSE {})
                           ELSE {})

Decide(r, outcome) ==
  /\ req[r].pc = "read" /\ outcome \in Outcomes(r)
  /\ req' = [req EXCEPT ![r].pc = IF outcome = "pinned" THEN "bound" ELSE "layers",
                        ![r].cause = IF outcome \in {"unfit", "escaped"} THEN outcome ELSE "none"]
  /\ IF outcome \in {"none", "unfit"} THEN Clear(req[r].key) ELSE UNCHANGED table
  /\ UNCHANGED <<disk, saving, cleaning, origin, live, restarts, now>>

\* Where the request may be sent now: what the configuration it came with had and
\* it has not tried, though it may have been deleted since.
Reach(r) == IF req[r].pc = "bound" THEN {req[r].seen.target} ELSE req[r].plan

\* An attempt that reaches its first byte binds, with the start of the request.
Succeed(r, t) ==
  LET q == req[r]
  IN  /\ q.pc \in {"bound", "layers"} /\ t \in Reach(r)
      /\ Bind(q.key, t, q.start, q.bytes)
      /\ req' = [req EXCEPT ![r] = Idle]
      /\ UNCHANGED <<disk, saving, cleaning, origin, live, restarts, now>>

\* Any other failure, or the wait for the bound target is over: the layers are
\* next, or the request ends.
GoOn(r, t) ==
  req' = [req EXCEPT ![r] = IF req[r].plan \subseteq {t} THEN Idle
                            ELSE [req[r] EXCEPT !.pc = "layers", !.plan = @ \ {t}]]

Fail(r, t) ==
  /\ req[r].pc \in {"bound", "layers"} /\ t \in Reach(r)
  /\ GoOn(r, t)
  /\ UNCHANGED <<table, disk, saving, cleaning, origin, live, restarts, now>>

\* The content was filtered or the session cannot be routed: the binding goes.
Refused(r, t) ==
  /\ req[r].pc \in {"bound", "layers"} /\ t \in Reach(r)
  /\ Clear(req[r].key)
  /\ GoOn(r, t)
  /\ UNCHANGED <<disk, saving, cleaning, origin, live, restarts, now>>

\* The client is gone or nothing is left to try.
GiveUp(r) ==
  /\ req[r] # Idle
  /\ req' = [req EXCEPT ![r] = Idle]
  /\ UNCHANGED <<table, disk, saving, cleaning, origin, live, restarts, now>>

-----------------------------------------------------------------------------
(* The jobs, the administrator and the process.                             *)

\* flush_snapshots: export, then one transaction of INSERT OR REPLACE.
Export ==
  /\ saving = None /\ saving' = table
  /\ UNCHANGED <<table, disk, cleaning, origin, live, restarts, req, now>>

Save ==
  /\ saving # None
  /\ \/ disk' = [k \in Keys |-> IF saving[k] # None THEN saving[k] ELSE disk[k]]
     \/ UNCHANGED disk
  /\ saving' = None
  /\ UNCHANGED <<table, cleaning, origin, live, restarts, req, now>>

\* Mutant: only time removes a binding.
Expired(tab) == [k \in Keys |-> IF Alive(tab[k], now) THEN tab[k] ELSE None]

Pruned(tab) == [k \in Keys |-> IF Alive(tab[k], now) /\ tab[k].target \in live THEN tab[k] ELSE None]

\* cleanup: prune, then prune_sticky_bindings (older than the TTL, not as old).
PruneTable ==
  /\ ~cleaning /\ cleaning' = TRUE
  /\ table' = Pruned(table)
  /\ UNCHANGED <<disk, saving, origin, live, restarts, req, now>>

PruneRows ==
  /\ cleaning /\ cleaning' = FALSE
  /\ disk' = [k \in Keys |-> IF disk[k] # None /\ now - disk[k].used <= TTL /\ disk[k].target \in live
                             THEN disk[k] ELSE None]
  /\ UNCHANGED <<table, saving, origin, live, restarts, req, now>>

DeleteTarget(t) ==
  /\ t \in live /\ live' = live \ {t}
  /\ UNCHANGED <<table, disk, saving, cleaning, origin, restarts, req, now>>

\* A crash and the start after it: restore loads what is not older than the TTL.
Restart ==
  /\ restarts < MaxRestarts /\ restarts' = restarts + 1
  /\ table' = [k \in Keys |-> IF disk[k] # None /\ disk[k].used >= now - TTL THEN disk[k] ELSE None]
  /\ req' = [r \in Requests |-> Idle]
  /\ saving' = None /\ cleaning' = FALSE
  /\ UNCHANGED <<disk, origin, live, now>>

Tick ==
  /\ now < MaxTime /\ now' = now + 1
  /\ UNCHANGED <<table, disk, saving, cleaning, origin, live, restarts, req>>

Jobs == Export \/ Save \/ PruneTable \/ PruneRows

Step(r) ==
  \/ \E k \in Keys, b \in Sizes : Arrive(r, k, b)
  \/ \E o \in {"none", "unfit", "escaped", "tilted", "pinned"} : Decide(r, o)
  \/ \E t \in Targets : Succeed(r, t) \/ Fail(r, t) \/ Refused(r, t)
  \/ GiveUp(r)

Next ==
  \/ \E r \in Requests : Step(r)
  \/ Jobs
  \/ \E t \in Targets : DeleteTarget(t)
  \/ Restart
  \/ Tick

\* The timeout of requests ends them; the runtime runs the jobs.
Fairness ==
  /\ \A r \in Requests : WF_vars(GiveUp(r))
  /\ WF_vars(PruneTable) /\ WF_vars(PruneRows) /\ WF_vars(Save)

Spec == Init /\ [][Next]_vars /\ Fairness

-----------------------------------------------------------------------------
(* Properties.                                                              *)

\* A conversation changes its target for a cause only: the request that moves it
\* did not see this binding, or it found the target unfit, tried it and failed,
\* or let it go because the cache is cold (never a chain) or because another
\* target is ahead, after the cooldown or a compaction.  (forward_inner, bind.)
MovesForCause ==
  \A k \in Keys :
    /\ table[k] # None /\ table'[k] # None
    /\ table'[k].target # table[k].target
    => \/ restarts' # restarts
       \/ \E r \in Requests :
            LET q == req[r] IN
            /\ q # Idle /\ req'[r] = Idle /\ q.key = k
            /\ \/ q.seen = None \/ origin[q.key] = "prefix"
               \/ q.seen.target # table[k].target
               \/ q.cause = "unfit"
               \/ q.seen.target \notin q.plan
               \/ origin[q.key] = "session" /\ q.start - q.seen.used > ColdAfter
               \/ /\ q.cause = "escaped" /\ origin[q.key] = "session"
                  /\ Rewritten(q) \/ q.start - q.seen.migrated >= Cooldown

\* A conversation changes its target for a cause only.  (Bindings, forward_inner.)
MovedForCause == [][MovesForCause]_vars

\* What points to a deleted target is forgotten, in memory and on disk, although
\* requests that are older than the deletion bind to it and a snapshot taken
\* before is written after.  (prune, prune_sticky_bindings.)
DeadTargetsForgotten ==
  <>[](\A k \in Keys : \A b \in {table[k], disk[k]} : b # None => b.target \in live)

\* passthrough.rs says of the clear "the binding is still there but its target no
\* longer fits": then what is cleared is what was read.
ClearsWhatItRead ==
  [][\A r \in Requests :
       /\ req[r].pc = "read" /\ req'[r] # req[r] /\ req'[r] # Idle
       => \A k \in Keys : table[k] # None /\ table'[k] = None => req[r].seen = table[k]]_vars

\* A binding is cleared after a refusal so that the conversation is not sent there
\* again: it does not come back with a restart.
ClearsForGood ==
  [][restarts' # restarts => \A k \in Keys : table'[k] # None => table[k] # None]_vars
=============================================================================
