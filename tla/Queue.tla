------------------------------- MODULE Queue -------------------------------
(***************************************************************************)
(* The total number of requests that may wait for a place in one group:    *)
(* src/src/routing/queue.rs (GroupQueues, QueueSlot, QueueTicket).         *)
(*                                                                         *)
(* The gate of a group is a semaphore in a slot that records the capacity  *)
(* the semaphore was last calibrated to.  Each caller brings the capacity  *)
(* of its own configuration snapshot and calibrates the slot to it, also   *)
(* the administration page that only shows how many wait.  Calibration is  *)
(* modelled lock by lock and callers interleave between the steps.         *)
(***************************************************************************)
EXTENDS Integers, FiniteSets

CONSTANTS
  Callers,          \* requests, and the page that shows the queue
  Slots,            \* QueueSlot objects; one nobody points to is used again
  CapacityChoices,  \* bound: the capacities the administrator sets
  Unlimited,        \* QUEUE_UNLIMITED
  MaxEdits,         \* bound: how often the administrator sets one
  None              \* no slot, nobody

ASSUME QueueAssumption ==
  /\ IsFiniteSet(Callers)
  /\ Unlimited \notin Nat
  /\ CapacityChoices \subseteq Nat \cup {Unlimited}
  /\ MaxEdits \in Nat
  /\ None \notin Slots /\ None \notin Callers

VARIABLES
  configured,   \* Group.queue_capacity
  edits,        \* how often it was set so far
  entry,        \* the group's slot in GroupQueues.inner, or None
  rated,        \* QueueSlot.capacity
  avail,        \* QueueSlot.semaphore.available_permits()
  lock,         \* who is inside QueueSlot.calibrating, or None
  readers,      \* who holds the read lock of GroupQueues.inner
  pc,           \* where a caller is
  job,          \* "enter" or "show"
  want,         \* the capacity in its snapshot
  at,           \* the slot it works on
  previous,     \* what its swap of QueueSlot.capacity returned
  ticket        \* the slot whose permit its QueueTicket holds, or None

slotVars == <<entry, rated, avail, lock, readers>>
callVars == <<pc, job, want, at, previous, ticket>>
vars     == <<configured, edits, slotVars, callVars>>

Steps == {"idle", "arrived", "create", "compare", "swap", "adjust", "acquire", "waiting"}

TypeOK ==
  /\ configured \in CapacityChoices
  /\ edits \in 0..MaxEdits
  /\ entry \in Slots \cup {None}
  /\ rated \in [Slots -> Nat]
  /\ avail \in [Slots -> Nat]
  /\ lock \in [Slots -> Callers \cup {None}]
  /\ readers \subseteq Callers
  /\ pc \in [Callers -> Steps]
  /\ job \in [Callers -> {"enter", "show"}]
  /\ want \in [Callers -> Nat \cup {Unlimited}]
  /\ at \in [Callers -> Slots \cup {None}]
  /\ previous \in [Callers -> Nat]
  /\ ticket \in [Callers -> Slots \cup {None}]

Init ==
  /\ configured \in CapacityChoices
  /\ edits = 0
  /\ entry = None
  /\ rated = [s \in Slots |-> 0]
  /\ avail = [s \in Slots |-> 0]
  /\ lock = [s \in Slots |-> None]
  /\ readers = {}
  /\ pc = [c \in Callers |-> "idle"]
  /\ job = [c \in Callers |-> "enter"]
  /\ want = [c \in Callers |-> 0]
  /\ at = [c \in Callers |-> None]
  /\ previous = [c \in Callers |-> 0]
  /\ ticket = [c \in Callers |-> None]

HoldersOf(s) == {c \in Callers : ticket[c] = s}

\* A slot that is in nobody's hands is freed, and its place is used again.
Freed(s) == entry # s /\ \A c \in Callers : at[c] # s /\ ticket[c] # s

-----------------------------------------------------------------------------
(* GroupQueues::enter and GroupQueues::waiting.                             *)

\* The caller's configuration snapshot is taken well before it comes here.
Arrive(c, j) ==
  /\ pc[c] = "idle"
  /\ pc' = [pc EXCEPT ![c] = "arrived"]
  /\ job' = [job EXCEPT ![c] = j]
  /\ want' = [want EXCEPT ![c] = configured]
  /\ UNCHANGED <<configured, edits, slotVars, at, previous, ticket>>

\* The early returns: nothing to calibrate.  An unlimited queue hands out a
\* ticket without a permit.
NeedsNoSlot(c) ==
  /\ pc[c] = "arrived"
  /\ \/ /\ want[c] = Unlimited /\ job[c] = "enter"
        /\ pc' = [pc EXCEPT ![c] = "waiting"]
     \/ /\ want[c] = Unlimited /\ job[c] = "show"
        /\ pc' = [pc EXCEPT ![c] = "idle"]
     \/ /\ want[c] = 0 /\ job[c] = "enter"
        /\ pc' = [pc EXCEPT ![c] = "idle"]
  /\ UNCHANGED <<configured, edits, slotVars, job, want, at, previous, ticket>>

\* The table is read; a slot found is calibrated under the read lock.
Find(c) ==
  /\ pc[c] = "arrived" /\ want[c] # Unlimited
  /\ want[c] > 0 \/ job[c] = "show"
  /\ IF entry = None
       THEN pc' = [pc EXCEPT ![c] = "create"] /\ UNCHANGED <<at, readers>>
       ELSE /\ pc' = [pc EXCEPT ![c] = "compare"]
            /\ at' = [at EXCEPT ![c] = entry]
            /\ readers' = readers \cup {c}
  /\ UNCHANGED <<configured, edits, entry, rated, avail, lock, job, want, previous, ticket>>

\* or_insert_with under the write lock: somebody else may have been first.
Create(c) ==
  /\ pc[c] = "create" /\ readers = {}
  /\ pc' = [pc EXCEPT ![c] = "compare"]
  /\ \/ /\ entry # None
        /\ at' = [at EXCEPT ![c] = entry]
        /\ UNCHANGED <<entry, rated, avail, lock>>
     \/ \E s \in Slots :
          /\ entry = None /\ Freed(s)
          /\ entry' = s
          /\ rated' = [rated EXCEPT ![s] = want[c]]
          /\ avail' = [avail EXCEPT ![s] = want[c]]
          /\ lock' = [lock EXCEPT ![s] = None]
          /\ at' = [at EXCEPT ![c] = s]
  /\ UNCHANGED <<configured, edits, readers, job, want, previous, ticket>>

\* What follows calibration: enter tries the semaphore, waiting() is done.
Calibrated(c) ==
  /\ readers' = readers \ {c}
  /\ IF job[c] = "enter"
       THEN pc' = [pc EXCEPT ![c] = "acquire"] /\ UNCHANGED at
       ELSE pc' = [pc EXCEPT ![c] = "idle"] /\ at' = [at EXCEPT ![c] = None]

\* The fast path of reconcile_permits.
Compare(c) ==
  /\ pc[c] = "compare"
  /\ IF rated[at[c]] = want[c]
       THEN Calibrated(c)
       ELSE pc' = [pc EXCEPT ![c] = "swap"] /\ UNCHANGED <<readers, at>>
  /\ UNCHANGED <<configured, edits, entry, rated, avail, lock, job, want, previous, ticket>>

\* Mutant: the new capacity is not recorded.
NotRecorded(c) == rated

Recorded(c) == [rated EXCEPT ![at[c]] = want[c]]

\* The calibration lock and the swap under it.
Swap(c) ==
  /\ pc[c] = "swap" /\ lock[at[c]] = None
  /\ pc' = [pc EXCEPT ![c] = "adjust"]
  /\ lock' = [lock EXCEPT ![at[c]] = c]
  /\ previous' = [previous EXCEPT ![c] = rated[at[c]]]
  /\ rated' = Recorded(c)
  /\ UNCHANGED <<configured, edits, entry, avail, readers, job, want, at, ticket>>

Smaller(m, n) == IF m < n THEN m ELSE n

\* Mutant: tickets in use are forgotten too.
ForgetsBusy(c) == want[c] - previous[c]

\* add_permits, or forget_permits, which forgets idle permits only.
Change(c) ==
  IF want[c] > previous[c] THEN want[c] - previous[c]
  ELSE -Smaller(avail[at[c]], previous[c] - want[c])

Adjust(c) ==
  /\ pc[c] = "adjust"
  /\ avail' = [avail EXCEPT ![at[c]] = @ + Change(c)]
  /\ lock' = [lock EXCEPT ![at[c]] = None]
  /\ Calibrated(c)
  /\ UNCHANGED <<configured, edits, entry, rated, job, want, previous, ticket>>

\* Mutant: the last place is kept back.
TakesButLast(s) == avail[s] > 1

CanTake(s) == avail[s] > 0

\* try_acquire_owned: a ticket, or queue_full.
Acquire(c) ==
  /\ pc[c] = "acquire"
  /\ at' = [at EXCEPT ![c] = None]
  /\ IF CanTake(at[c])
       THEN /\ pc' = [pc EXCEPT ![c] = "waiting"]
            /\ avail' = [avail EXCEPT ![at[c]] = @ - 1]
            /\ ticket' = [ticket EXCEPT ![c] = at[c]]
       ELSE pc' = [pc EXCEPT ![c] = "idle"] /\ UNCHANGED <<avail, ticket>>
  /\ UNCHANGED <<configured, edits, entry, rated, lock, readers, job, want, previous>>

\* Drop of a QueueTicket: it goes back to the semaphore it came from.
Leave(c) ==
  /\ pc[c] = "waiting"
  /\ pc' = [pc EXCEPT ![c] = "idle"]
  /\ ticket' = [ticket EXCEPT ![c] = None]
  /\ avail' = [s \in Slots |-> IF ticket[c] = s THEN avail[s] + 1 ELSE avail[s]]
  /\ UNCHANGED <<configured, edits, entry, rated, lock, readers, job, want, at, previous>>

-----------------------------------------------------------------------------
(* The administrator.                                                       *)

SetCapacity(n) ==
  /\ edits < MaxEdits /\ n # configured
  /\ edits' = edits + 1
  /\ configured' = n
  /\ UNCHANGED <<slotVars, callVars>>

\* GroupQueues::retain drops the slot of a group that is no longer configured.
\* Tickets keep the old semaphore; a request with an old snapshot makes a new
\* slot.
Retain ==
  /\ entry # None /\ readers = {}
  /\ entry' = None
  /\ UNCHANGED <<configured, edits, rated, avail, lock, readers, callVars>>

Next ==
  \/ \E c \in Callers, j \in {"enter", "show"} : Arrive(c, j)
  \/ \E c \in Callers :
       \/ NeedsNoSlot(c) \/ Find(c) \/ Create(c) \/ Compare(c) \/ Swap(c)
       \/ Adjust(c) \/ Acquire(c) \/ Leave(c)
  \/ \E n \in CapacityChoices : SetCapacity(n)
  \/ Retain

Spec == Init /\ [][Next]_vars

-----------------------------------------------------------------------------
(* Properties.                                                              *)

\* What a slot owes its callers: the capacity recorded, or the one before
\* while a calibration is between its swap and its change of the semaphore.
Promised(s) == IF lock[s] = None THEN rated[s] ELSE previous[lock[s]]

\* However calibrations with different snapshots interleave, no place gets
\* lost: idle permits and tickets always add up to the capacity promised.
\* (reconcile_permits and QueueSlot.calibrating.)
PlacesNeverLost == \A s \in Slots : avail[s] + Cardinality(HoldersOf(s)) >= Promised(s)

\* queue_full is never a false alarm: who is refused finds at least as many
\* tickets in use as the slot promises.  (GroupQueues::enter.)
RefusedOnlyWhenFull ==
  [][\A c \in Callers :
       pc[c] = "acquire" /\ pc'[c] = "idle"
       => Cardinality(HoldersOf(at[c])) >= Promised(at[c])]_vars

\* The comment on semaphore() says that a shrink always converges to the new
\* limit: a caller that finds the slot calibrated to its capacity, and nobody
\* else there, finds at most its capacity idle.
ConvergesToLimit ==
  \A c \in Callers :
    pc[c] = "acquire" /\ HoldersOf(at[c]) = {}
      /\ (\A other \in Callers \ {c} : at[other] # at[c])
      /\ rated[at[c]] = want[c]
    => avail[at[c]] <= want[c]

\* The module's header says that the group's capacity bounds the queue: no
\* queue grows beyond the largest capacity anybody ever configured.
BoundedByCapacity ==
  \A s \in Slots : \E n \in CapacityChoices :
    n # Unlimited /\ Cardinality(HoldersOf(s)) <= n
=============================================================================
