---------------------------- MODULE CapacityWait ----------------------------
(***************************************************************************)
(* Waiting for a place: Walk::wait_and_run in src/src/gateway/             *)
(* passthrough.rs, with Capacity::try_acquire and Capacity::acquire of     *)
(* src/src/health/mod.rs and wait_for_any_capacity of routing/queue.rs.    *)
(*                                                                         *)
(* A request has a list of candidate targets.  It scans them for one that  *)
(* admits it at once; if all are busy it takes a ticket of the group's     *)
(* queue and waits for the permits of any candidate, and when it is woken  *)
(* it checks everything again.  A candidate needs a permit of every        *)
(* bounded level: its target, the chosen key, and the account.  Permits    *)
(* are tokio semaphores: first come, first served, and a permit that is    *)
(* returned goes to the first waiter, if there is one.                     *)
(*                                                                         *)
(* Circuits and verdicts are in Health, ticket calibration in Queue, rate  *)
(* windows in RateWindow; here a candidate may turn out unavailable at any *)
(* check, and a rate window is full or not.                                *)
(***************************************************************************)
EXTENDS Integers, FiniteSets, Subsequence

CONSTANTS
  Requests, Targets, Accounts, Keys,
  Account,         \* the account of a target
  KeysOf,          \* the keys of an account's pool
  Limit,           \* max_concurrency of an account, key or target, or None
  RateBound,       \* those that have an RPM or TPM limit
  Plans,           \* bound: the candidate sets of a request
  Bindings,        \* bound: the key a request is bound to, or None
  QueueCapacity,   \* tickets of the group
  None

Pools   == Targets \cup Keys \cup Accounts
Bounded == {o \in Pools : Limit[o] # None}

ASSUME WaitAssumption ==
  /\ IsFiniteSet(Requests) /\ IsFiniteSet(Targets)
  /\ Targets \cap Keys = {} /\ Targets \cap Accounts = {} /\ Keys \cap Accounts = {}
  /\ Account \in [Targets -> Accounts]
  /\ KeysOf \in [Accounts -> SUBSET Keys]
  /\ None \notin Nat /\ None \notin Pools
  /\ Limit \in [Pools -> (Nat \ {0}) \cup {None}]
  /\ RateBound \subseteq Pools
  /\ Plans \subseteq SUBSET Targets
  /\ Bindings \subseteq Keys \cup {None}
  /\ QueueCapacity \in Nat

VARIABLES
  avail,      \* idle permits of every bounded level
  queue,      \* who waits for one: a sequence of <<request, candidate>>
  got,        \* the permits a wait has collected so far, per candidate
  rateFull,   \* the levels whose rate window has no room now
  shutdown,   \* the shutdown signal
  req         \* the locals of wait_and_run, per request

vars == <<avail, queue, got, rateFull, shutdown, req>>

Locals ==
  [pc      : {"new", "top", "scan", "admit", "run", "pause", "wait", "woken"},
   pending : SUBSET Targets,                 \* the candidates still considered
   left    : SUBSET Targets,                 \* those this pass has not looked at
   binding : Keys \cup {None},               \* `pinned` or `preferred`
   cand    : Targets \cup {None},            \* being admitted or running
   key     : Keys \cup {None},               \* chosen for it
   awaited : [Targets -> Keys \cup {None}],  \* whose permit a candidate waits for
   held    : SUBSET Bounded,                 \* the permits in hand
   woken   : BOOLEAN,                        \* the admission came out of a wait
   ticket  : BOOLEAN,                        \* holds a QueueTicket
   polling : BOOLEAN,                        \* waits for RATE_POLL_INTERVAL only
   retried : BOOLEAN]                        \* retried_after_429

Nobody   == [t \in Targets |-> None]
NoPermit == [t \in Targets |-> {}]

Unborn ==
  [pc |-> "new", pending |-> {}, left |-> {}, binding |-> None, cand |-> None, key |-> None,
   awaited |-> Nobody, held |-> {}, woken |-> FALSE, ticket |-> FALSE, polling |-> FALSE,
   retried |-> FALSE]

TypeOK ==
  /\ avail \in [Pools -> Nat]
  /\ queue \in [Pools -> Seq(Requests \X Targets)]
  /\ got \in [Requests -> [Targets -> SUBSET Bounded]]
  /\ rateFull \subseteq RateBound
  /\ shutdown \in BOOLEAN
  /\ req \in [Requests -> Locals]

Init ==
  /\ avail = [o \in Pools |-> IF o \in Bounded THEN Limit[o] ELSE 0]
  /\ queue = [o \in Pools |-> <<>>]
  /\ got = [r \in Requests |-> NoPermit]
  /\ rateFull = {}
  /\ shutdown = FALSE
  /\ req = [r \in Requests |-> Unborn]

-----------------------------------------------------------------------------
(* Semaphores.                                                              *)

\* The levels an attempt on target t with key k has to be admitted to.
Levels(t, k) == {t, k, Account[t]} \cap Pools
Needed(t, k) == Levels(t, k) \cap Bounded

\* Target first, then key, then account: a permit of the account is not held
\* while a busy target is waited for.
NextLevel(t, k, have) ==
  IF t \in Needed(t, k) \ have THEN t
  ELSE IF k \in Needed(t, k) \ have THEN k
  ELSE Account[t]

\* Mutant: one returned permit wakes everybody who waits for it.
WakesAll(m, n) == n

Smaller(m, n) == IF m < n THEN m ELSE n

\* The waits of the other requests.
Others(r) == (Requests \ {r}) \X Targets

\* Mutant: permits that were handed over while their waiter gave up are lost.
ReturnIdleOnly(r, count) ==
  /\ avail' = avail
  /\ queue' = [o \in Pools |-> Keep(queue[o], Others(r))]
  /\ got' = [got EXCEPT ![r] = NoPermit]

\* Request r stops waiting and drops count[o] permits of every level o: each
\* goes to the first of the others that wait for it, or becomes idle.
Return(r, count) ==
  LET others == [o \in Pools |-> Keep(queue[o], Others(r))]
      served == [o \in Pools |-> Smaller(count[o], Len(others[o]))]
      gets(q, t, o) == \E i \in 1..served[o] : others[o][i] = <<q, t>>
  IN  /\ avail' = [o \in Pools |-> avail[o] + count[o] - served[o]]
      /\ queue' = [o \in Pools |-> SubSeq(others[o], served[o] + 1, Len(others[o]))]
      /\ got' = [q \in Requests |-> [t \in Targets |->
                   IF q = r THEN {} ELSE got[q][t] \cup {o \in Pools : gets(q, t, o)}]]

\* What r collected for the candidates in ts, and what it holds already.
Collected(r, ts, o) == Cardinality({t \in ts : o \in got[r][t]})

ReturnAll(r) ==
  Return(r, [o \in Pools |->
               Collected(r, Targets, o) + (IF o \in req[r].held THEN 1 ELSE 0)])

-----------------------------------------------------------------------------
(* select_credential.                                                       *)

KeyBusy(k) == (k \in Bounded /\ avail[k] = 0) \/ k \in rateFull

Pool(t) == KeysOf[Account[t]]

\* The binding counts if its key is in the pool.
BoundKey(r, t) == req[r].binding \in Pool(t)

\* The keys it may answer with Ready; none if the answer is Busy or BoundBusy.
Selectable(r, t) ==
  {k \in Pool(t) : ~KeyBusy(k) /\ (BoundKey(r, t) => k = req[r].binding)}

\* capacity_any_key: the bounded key with an idle permit, or the largest limit.
Likeliest(t) ==
  LET bounded == Pool(t) \cap Bounded
      idle(k) == IF avail[k] > 0 THEN 1 ELSE 0
      beats(k, j) == \/ idle(k) > idle(j)
                     \/ idle(k) = idle(j) /\ Limit[k] > Limit[j]
                     \/ idle(k) = idle(j) /\ Limit[k] = Limit[j] /\ avail[k] >= avail[j]
  IN  IF bounded = {} THEN {None}
      ELSE {k \in bounded : \A j \in bounded : beats(k, j)}

\* Whose permit to wait for: the selected key, the busy binding, or any key.
Awaitable(r, t) ==
  IF Selectable(r, t) # {} THEN Selectable(r, t)
  ELSE IF BoundKey(r, t) THEN {req[r].binding}
  ELSE Likeliest(t)

-----------------------------------------------------------------------------
(* wait_and_run.                                                            *)

At(r, step) == req[r].pc = step

\* Request r goes on with these locals; the semaphores stay, or get back what
\* it has.
Becomes(r, locals) == req' = [req EXCEPT ![r] = locals]
Keeps(r, locals)   == Becomes(r, locals) /\ UNCHANGED <<avail, queue, got, rateFull, shutdown>>
Drops(r, locals) ==
  /\ Becomes(r, [locals EXCEPT !.held = {}])
  /\ ReturnAll(r)
  /\ UNCHANGED <<rateFull, shutdown>>

\* A request comes with its candidates and perhaps a key it is bound to.
Start(r, plan, b) ==
  /\ At(r, "new")
  /\ Keeps(r, [Unborn EXCEPT !.pc = "top", !.pending = plan, !.binding = b])

\* Leaving the function drops the ticket and every permit.
Leave(r) == Drops(r, Unborn)

\* Back to the head of the loop without the candidates in gone.
Again(r, gone) ==
  Drops(r, [req[r] EXCEPT !.pc = "top", !.pending = @ \ gone, !.awaited = Nobody,
                          !.polling = FALSE])

\* The head of the loop.
Top(r) ==
  /\ At(r, "top")
  /\ IF shutdown THEN Leave(r)
     ELSE Keeps(r, [req[r] EXCEPT !.pc = "scan", !.left = req[r].pending])

\* One candidate of a pass: not usable any more, busy, or worth an admission.
Scan(r, t) ==
  LET next == [req[r] EXCEPT !.left = @ \ {t}]
  IN  /\ At(r, "scan") /\ t \in req[r].left
      /\ \/ Keeps(r, [next EXCEPT !.pending = @ \ {t}])
         \/ Selectable(r, t) = {} /\ Keeps(r, next)
         \/ \E k \in Selectable(r, t) :
              Keeps(r, [next EXCEPT !.pc = "admit", !.cand = t, !.key = k, !.woken = FALSE])

Missing(r)  == Needed(req[r].cand, req[r].key) \ req[r].held
RateRoom(r) == Levels(req[r].cand, req[r].key) \cap rateFull = {}

\* Capacity::try_acquire, level by level; others see the permits in between.
TakeLevel(r) ==
  LET o == NextLevel(req[r].cand, req[r].key, req[r].held)
  IN  /\ At(r, "admit") /\ Missing(r) # {} /\ avail[o] > 0
      /\ avail' = [avail EXCEPT ![o] = @ - 1]
      /\ Becomes(r, [req[r] EXCEPT !.held = @ \cup {o}])
      /\ UNCHANGED <<queue, got, rateFull, shutdown>>

\* A scan goes on with its pass, a wake starts over.
Onward(r) == IF req[r].woken THEN "top" ELSE "scan"

\* Not admitted now: a level or a rate window is full.
NotNow(r) ==
  /\ At(r, "admit")
  /\ IF Missing(r) # {} THEN avail[NextLevel(req[r].cand, req[r].key, req[r].held)] = 0
     ELSE ~RateRoom(r)
  /\ Drops(r, [req[r] EXCEPT !.pc = Onward(r)])

\* A permanent refusal by a circuit.
TurnedAway(r) ==
  /\ At(r, "admit")
  /\ Drops(r, [req[r] EXCEPT !.pc = Onward(r), !.pending = @ \ {req[r].cand}])

\* Admitted: the attempt goes out with its permits, and with the ticket.
Run(r) ==
  /\ At(r, "admit") /\ Missing(r) = {} /\ RateRoom(r)
  /\ Keeps(r, [req[r] EXCEPT !.pc = "run", !.pending = @ \ {req[r].cand}])

\* The attempt answers the client, or fails and the next candidate is tried,
\* or a bound request gets a 429 that it waits out in the queue, once.
Finish(r) == At(r, "run") /\ Leave(r)
Fail(r)   == At(r, "run") /\ Drops(r, [req[r] EXCEPT !.pc = Onward(r)])

TicketsOut   == Cardinality({r \in Requests : req[r].ticket})
HasTicket(r) == req[r].ticket \/ TicketsOut < QueueCapacity

Pause(r) ==
  /\ At(r, "run") /\ ~req[r].woken /\ req[r].binding # None /\ ~req[r].retried
  /\ HasTicket(r)
  /\ Drops(r, [req[r] EXCEPT !.pc = "pause", !.ticket = TRUE, !.retried = TRUE])

\* The candidate goes back to its place in the pass.
Resume(r) ==
  /\ At(r, "pause")
  /\ Keeps(r, [req[r] EXCEPT !.pc = "scan", !.pending = @ \cup {req[r].cand},
                             !.left = @ \cup {req[r].cand}])

\* `check` answers RateLimited: the levels are looked at in this order, rate
\* before concurrency.
Full(o) == o \in Bounded /\ avail[o] = 0

CheckIsRate(t, k) ==
  \/ k \in rateFull
  \/ ~Full(k) /\ Account[t] \in rateFull
  \/ ~Full(k) /\ ~Full(Account[t]) /\ t \in rateFull

\* With the selected key, the busy binding, or no key.
Checked(r, t) ==
  IF Selectable(r, t) # {} THEN Selectable(r, t)
  ELSE IF BoundKey(r, t) THEN {req[r].binding}
  ELSE {None}

\* The pass is over and something is busy: take a ticket, choose whose permits
\* to wait for and for how long, and wait.
Wait(r) ==
  LET mine == req[r].pending
  IN  /\ At(r, "scan") /\ req[r].left = {} /\ mine # {} /\ HasTicket(r)
      /\ \E k, w \in [mine -> Keys \cup {None}] :
           /\ \A t \in mine : k[t] \in Checked(r, t) /\ w[t] \in Awaitable(r, t)
           /\ Keeps(r, [req[r] EXCEPT
                !.pc = "wait", !.ticket = TRUE,
                !.awaited = [t \in Targets |-> IF t \in mine THEN w[t] ELSE None],
                !.polling = \E t \in mine : CheckIsRate(t, k[t])])

\* Nothing left to wait for, no ticket (queue_full), or no budget.
GiveUp(r) == At(r, "scan") /\ req[r].left = {} /\ Leave(r)

Waiting(r, t, o) == \E i \in 1..Len(queue[o]) : queue[o][i] = <<r, t>>

\* One step of Capacity::acquire for one candidate: take the next permit or
\* line up for it.
Poll(r, t) ==
  LET k == req[r].awaited[t]
      o == NextLevel(t, k, got[r][t])
  IN  /\ At(r, "wait") /\ t \in req[r].pending
      /\ Needed(t, k) \ got[r][t] # {} /\ ~Waiting(r, t, o)
      /\ IF avail[o] > 0
           THEN /\ avail' = [avail EXCEPT ![o] = @ - 1]
                /\ got' = [got EXCEPT ![r][t] = @ \cup {o}]
                /\ UNCHANGED queue
           ELSE /\ queue' = [queue EXCEPT ![o] = Append(@, <<r, t>>)]
                /\ UNCHANGED <<avail, got>>
      /\ UNCHANGED <<rateFull, shutdown, req>>

\* select_all: the first candidate whose permits are complete wins, the other
\* waits are dropped with what they collected.
Ready(r, t) ==
  /\ At(r, "wait") /\ t \in req[r].pending
  /\ Needed(t, req[r].awaited[t]) \subseteq got[r][t]
  /\ Becomes(r, [req[r] EXCEPT !.pc = "woken", !.cand = t, !.held = got[r][t],
                               !.awaited = Nobody, !.polling = FALSE])
  /\ Return(r, [o \in Pools |-> Collected(r, Targets \ {t}, o)])
  /\ UNCHANGED <<rateFull, shutdown>>

\* The budget is over, or a slice of it: then the pass starts again.
Timeout(r) == At(r, "wait") /\ (Leave(r) \/ (req[r].polling /\ Again(r, {})))

\* Mutant: a wait that has collected a permit does not look at the signal.
IdleShuttingDown(r) ==
  At(r, "wait") /\ shutdown /\ got[r] = NoPermit /\ Leave(r)

ShuttingDown(r) == At(r, "wait") /\ shutdown /\ Leave(r)

\* Mutant: a woken request keeps its permits whatever the key.
AcceptsAnyKey(k) == TRUE

\* The permits collected may be used with this key.
AcceptsPermit(k) == k \notin Bounded

\* Woken with the permits of one candidate: choose the key again.  A request
\* that chooses a bounded key drops its permits and is admitted anew.
Wake(r) ==
  LET t == req[r].cand
  IN  /\ At(r, "woken")
      /\ \/ Again(r, {t})
         \/ Selectable(r, t) = {} /\ Again(r, {})
         \/ \E k \in Selectable(r, t) :
              LET chosen == [req[r] EXCEPT !.key = k, !.woken = TRUE]
              IN  \/ ~AcceptsPermit(k) /\ Drops(r, [chosen EXCEPT !.pc = "admit"])
                  \/ /\ AcceptsPermit(k) /\ Levels(t, k) \cap rateFull = {}
                     /\ Keeps(r, [chosen EXCEPT !.pc = "run", !.pending = @ \ {t}])
                  \/ /\ AcceptsPermit(k) /\ Levels(t, k) \cap rateFull # {}
                     /\ Drops(r, [chosen EXCEPT !.pc = "top"])

\* The client goes away at an await: the request's future is dropped.
Disconnect(r) == req[r].pc \in {"run", "pause", "wait"} /\ Leave(r)

-----------------------------------------------------------------------------
(* Rate windows and shutdown.                                               *)

RateFills(o) ==
  /\ o \in RateBound \ rateFull
  /\ rateFull' = rateFull \cup {o}
  /\ UNCHANGED <<avail, queue, got, shutdown, req>>

RateFrees(o) ==
  /\ o \in rateFull
  /\ rateFull' = rateFull \ {o}
  /\ UNCHANGED <<avail, queue, got, shutdown, req>>

Shutdown ==
  /\ ~shutdown
  /\ shutdown' = TRUE
  /\ UNCHANGED <<avail, queue, got, rateFull, req>>

-----------------------------------------------------------------------------
\* What the task of a request does by itself.
Proceed(r) ==
  \/ Top(r) \/ (\E t \in Targets : Scan(r, t) \/ Poll(r, t) \/ Ready(r, t))
  \/ TakeLevel(r) \/ NotNow(r) \/ Run(r) \/ TurnedAway(r)
  \/ Resume(r) \/ Wait(r) \/ GiveUp(r) \/ ShuttingDown(r) \/ Wake(r)

\* What the upstream does.
Answer(r) == Finish(r) \/ Fail(r) \/ Pause(r)

Next ==
  \/ \E r \in Requests, plan \in Plans, b \in Bindings : Start(r, plan, b)
  \/ \E r \in Requests : Proceed(r) \/ Answer(r) \/ Timeout(r) \/ Disconnect(r)
  \/ \E o \in RateBound : RateFills(o) \/ RateFrees(o)
  \/ Shutdown

Spec == Init /\ [][Next]_vars

-----------------------------------------------------------------------------
(* Properties.                                                              *)

HoldersOf(o)  == {r \in Requests : o \in req[r].held}
WaitersFor(o) == {w \in Requests \X Targets : o \in got[w[1]][w[2]]}

\* Permits are neither lost nor minted, wherever a request is interrupted: the
\* idle ones, those of admissions and those collected by waits that are not
\* complete add up to the limit.  (Capacity::acquire, select_all, Drop.)
PermitsConserved ==
  \A o \in Bounded :
    avail[o] + Cardinality(HoldersOf(o)) + Cardinality(WaitersFor(o)) = Limit[o]

\* The comment on waking says that the permit of a key serves requests sent
\* with that key: an attempt never blocks a place of a key it does not use.
PermitMatchesKey ==
  \A r \in Requests : At(r, "run") => req[r].held \cap Keys \subseteq {req[r].key}

\* The comment on the queue says that only who really waits takes up a ticket;
\* the console says that a request in the queue waits for a place.
OnlyWaitersHoldTickets == \A r \in Requests : req[r].ticket => ~At(r, "run")

\* The comment on rate windows says that they have no signal to wait for and
\* are polled: nobody is woken for a candidate none of whose keys has room.
RateWaitsArePolled ==
  [][\A r \in Requests :
       At(r, "wait") /\ req'[r].pc = "woken"
       => LET t == req'[r].cand IN \E k \in Pool(t) : Levels(t, k) \cap rateFull = {}]_vars

\* What concurrency limits promise, implemented by the permits.
Running == [r \in Requests |-> IF At(r, "run") THEN Needed(req[r].cand, req[r].key) ELSE {}]

Attempts == INSTANCE Concurrency WITH Pools <- Bounded, running <- Running

\* However requests are admitted, at once or after a wait, with the key they
\* waited for or another one, an attempt starts only if each of its target, key
\* and account is below its limit.  (Walk::wait_and_run, admit_with_permit.)
LimitsHold == Attempts!Spec

-----------------------------------------------------------------------------
(* Fairness: a task that can run runs; an upstream attempt ends.            *)

TasksRun == \A r \in Requests : WF_vars(Proceed(r))

FairSpec == Spec /\ TasksRun /\ \A r \in Requests : WF_vars(Answer(r))

\* While the service shuts down attempts may go on for long.
DrainSpec == Spec /\ TasksRun

\* A request that waits is given a place, or gives up: permits are handed to
\* it even without a timeout.  (Capacity::acquire, admit_with_permit.)
WaitsEnd == \A r \in Requests : At(r, "wait") ~> req[r].pc \in {"run", "new"}

\* The same when tasks are known to run only: if attempts end, so do waits.
WaitsServed == (\A r \in Requests : WF_vars(Answer(r))) => WaitsEnd

\* Shutdown does not wait for those who wait: they are sent away although the
\* attempts that hold their places go on.  (wait_for_any_capacity.)
ShutdownEndsWaits == shutdown ~> [](\A r \in Requests : ~At(r, "wait"))
=============================================================================
