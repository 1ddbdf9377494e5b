----------------------------- MODULE LimitsProofs -----------------------------
(***************************************************************************)
(* The limits for every number of requests, levels and permits.  The gate  *)
(* of a group's queue: types, no place is lost however calibrations        *)
(* interleave, and queue_full is never a false alarm.  Waiting for         *)
(* capacity: permits are conserved wherever a request is interrupted, and  *)
(* attempts implement the abstract limits of Concurrency.                  *)
(***************************************************************************)
EXTENDS MCLimits, SubsequenceProofs, SequenceTheorems, FiniteSetTheorems, TLAPS

(* The queue.                                                               *)

Working == {"compare", "swap", "adjust", "acquire"}

\* Who works on a slot has a numeric capacity, a ticket is held only while
\* waiting, and the calibration lock belongs to the caller that has swapped
\* the capacity and not yet changed the semaphore.
AtWork(c) ==
  /\ pc[c] \in Working <=> at[c] \in Slots
  /\ pc[c] \in Working \cup {"create"} => want[c] \in Nat
  /\ ticket[c] # None => pc[c] = "waiting"
  /\ pc[c] = "adjust" => lock[at[c]] = c

Locked(s) ==
  lock[s] # None => /\ pc[lock[s]] = "adjust" /\ at[lock[s]] = s
                    /\ rated[s] = want[lock[s]]

Placed == (\A c \in Callers : AtWork(c)) /\ (\A s \in Slots : Locked(s))

\* The invariant that is inductive.
IInv == TypeOK /\ Placed /\ PlacesNeverLost

\* A calibration forgets idle permits only, so no semaphore goes negative.
LEMMA ChangeBounds ==
  ASSUME TypeOK, Placed, NEW c \in Callers, pc[c] = "adjust"
  PROVE  /\ at[c] \in Slots /\ want[c] \in Nat /\ previous[c] \in Nat
         /\ Change(c) \in Int
         /\ avail[at[c]] + Change(c) \in Nat
<1>1. at[c] \in Slots /\ want[c] \in Nat
  BY DEF Placed, AtWork, Working
<1> DEFINE a == avail[at[c]]
           w == want[c]
           p == previous[c]
<1>2. a \in Nat /\ w \in Nat /\ p \in Nat
  BY <1>1 DEF TypeOK
<1>3. Change(c) = IF w > p THEN w - p ELSE -(IF a < p - w THEN a ELSE p - w)
  BY DEF Change, Smaller
<1> HIDE DEF a, w, p
<1>4. Change(c) \in Int /\ a + Change(c) \in Nat
  BY <1>2, <1>3
<1>5. QED
  BY <1>1, <1>2, <1>4 DEF a, w, p

LEMMA InitPlaced == Init => TypeOK /\ Placed
<1> SUFFICES ASSUME Init PROVE TypeOK /\ Placed
  OBVIOUS
<1>1. TypeOK
  BY QueueAssumption DEF Init, TypeOK, Steps
<1>2. Placed
  BY QueueAssumption DEF Init, Placed, AtWork, Locked, Working
<1>3. QED
  BY <1>1, <1>2

\* Each step keeps the types.
LEMMA NextTyped == TypeOK /\ Placed /\ [Next]_vars => TypeOK'
<1> SUFFICES ASSUME TypeOK, Placed, [Next]_vars PROVE TypeOK'
  OBVIOUS
<1> USE DEF TypeOK, Steps, slotVars, callVars
<1>1. ASSUME NEW c \in Callers, NEW j \in {"enter", "show"}, Arrive(c, j) PROVE TypeOK'
  BY <1>1, QueueAssumption DEF Arrive
<1>2. ASSUME NEW c \in Callers, NeedsNoSlot(c) PROVE TypeOK'
  BY <1>2 DEF NeedsNoSlot
<1>3. ASSUME NEW c \in Callers, Find(c) PROVE TypeOK'
  BY <1>3 DEF Find
<1>4. ASSUME NEW c \in Callers, Create(c) PROVE TypeOK'
  <2>1. want[c] \in Nat
    BY <1>4 DEF Create, Placed, AtWork
  <2>2. QED
    BY <1>4, <2>1 DEF Create
<1>5. ASSUME NEW c \in Callers, Compare(c) PROVE TypeOK'
  BY <1>5 DEF Compare, Calibrated
<1>6. ASSUME NEW c \in Callers, Swap(c) PROVE TypeOK'
  <2>1. at[c] \in Slots /\ want[c] \in Nat
    BY <1>6 DEF Swap, Placed, AtWork, Working
  <2>2. QED
    BY <1>6, <2>1 DEF Swap, Recorded
<1>7. ASSUME NEW c \in Callers, Adjust(c) PROVE TypeOK'
  <2>1. at[c] \in Slots /\ avail[at[c]] + Change(c) \in Nat
    BY <1>7, ChangeBounds DEF Adjust
  <2>2. avail' \in [Slots -> Nat]
    BY <1>7, <2>1 DEF Adjust
  <2>3. QED
    BY <1>7, <2>2 DEF Adjust, Calibrated
<1>8. ASSUME NEW c \in Callers, Acquire(c) PROVE TypeOK'
  <2>1. at[c] \in Slots
    BY <1>8 DEF Acquire, Placed, AtWork, Working
  <2>2. avail' \in [Slots -> Nat]
    BY <1>8, <2>1 DEF Acquire, CanTake
  <2>3. QED
    BY <1>8, <2>1, <2>2 DEF Acquire
<1>9. ASSUME NEW c \in Callers, Leave(c) PROVE TypeOK'
  BY <1>9 DEF Leave
<1>10. ASSUME NEW n \in CapacityChoices, SetCapacity(n) PROVE TypeOK'
  BY <1>10, QueueAssumption DEF SetCapacity
<1>11. CASE Retain
  BY <1>11 DEF Retain
<1>12. CASE UNCHANGED vars
  BY <1>12 DEF vars
<1>13. QED
  BY <1>1, <1>2, <1>3, <1>4, <1>5, <1>6, <1>7, <1>8, <1>9, <1>10, <1>11, <1>12 DEF Next

\* Each step keeps the callers and the locks where they belong.
LEMMA NextPlaced == TypeOK /\ Placed /\ [Next]_vars => Placed'
<1> SUFFICES ASSUME TypeOK, Placed, [Next]_vars PROVE Placed'
  OBVIOUS
<1> USE QueueAssumption DEF TypeOK, Steps, Placed, AtWork, Locked, Working, slotVars, callVars
<1>1. ASSUME NEW c \in Callers, NEW j \in {"enter", "show"}, Arrive(c, j) PROVE Placed'
  BY <1>1 DEF Arrive
<1>2. ASSUME NEW c \in Callers, NeedsNoSlot(c) PROVE Placed'
  BY <1>2 DEF NeedsNoSlot
<1>3. ASSUME NEW c \in Callers, Find(c) PROVE Placed'
  BY <1>3 DEF Find
<1>4. ASSUME NEW c \in Callers, Create(c) PROVE Placed'
  BY <1>4 DEF Create, Freed
<1>5. ASSUME NEW c \in Callers, Compare(c) PROVE Placed'
  BY <1>5 DEF Compare, Calibrated
<1>6. ASSUME NEW c \in Callers, Swap(c) PROVE Placed'
  BY <1>6 DEF Swap, Recorded
<1>7. ASSUME NEW c \in Callers, Adjust(c) PROVE Placed'
  BY <1>7 DEF Adjust, Calibrated
<1>8. ASSUME NEW c \in Callers, Acquire(c) PROVE Placed'
  BY <1>8 DEF Acquire
<1>9. ASSUME NEW c \in Callers, Leave(c) PROVE Placed'
  BY <1>9 DEF Leave
<1>10. ASSUME NEW n \in CapacityChoices, SetCapacity(n) PROVE Placed'
  BY <1>10 DEF SetCapacity
<1>11. CASE Retain
  BY <1>11 DEF Retain
<1>12. CASE UNCHANGED vars
  BY <1>12 DEF vars
<1>13. QED
  BY <1>1, <1>2, <1>3, <1>4, <1>5, <1>6, <1>7, <1>8, <1>9, <1>10, <1>11, <1>12 DEF Next

\* Every semaphore, recorded capacity and ticket has its type, whatever the
\* configurations that callers bring (GroupQueues).
THEOREM Typing == Spec => []TypeOK
<1>1. Init => TypeOK /\ Placed
  BY InitPlaced
<1>2. TypeOK /\ Placed /\ [Next]_vars => (TypeOK /\ Placed)'
  BY NextTyped, NextPlaced
<1>3. QED
  BY <1>1, <1>2, PTL DEF Spec

-----------------------------------------------------------------------------
(* No place is lost.                                                        *)

LEMMA HoldersFinite ==
  ASSUME NEW s \in Slots
  PROVE  IsFiniteSet(HoldersOf(s)) /\ Cardinality(HoldersOf(s)) \in Nat
BY QueueAssumption, FS_Subset, FS_CardinalityType DEF HoldersOf

\* What a slot has and owes, one slot at a time.
Kept(s) == avail[s] + Cardinality(HoldersOf(s)) >= Promised(s)

\* A step that touches neither the slot nor its tickets keeps it.
LEMMA Untouched ==
  ASSUME NEW s \in Slots, Kept(s), HoldersOf(s)' = HoldersOf(s),
         avail'[s] = avail[s], Promised(s)' = Promised(s)
  PROVE  Kept(s)'
BY DEF Kept

\* The steps that leave tickets, semaphores and calibrations alone.
LEMMA SameSlots ==
  ASSUME Placed, PlacesNeverLost, UNCHANGED <<rated, avail, lock, previous, ticket>>
  PROVE  PlacesNeverLost'
<1> SUFFICES ASSUME NEW s \in Slots PROVE Kept(s)'
  BY DEF PlacesNeverLost, Kept
<1>1. Kept(s)
  BY DEF PlacesNeverLost, Kept
<1>2. HoldersOf(s)' = HoldersOf(s) /\ Promised(s)' = Promised(s)
  BY DEF HoldersOf, Promised
<1>3. QED
  BY <1>1, <1>2, Untouched

LEMMA CreateKeeps ==
  ASSUME TypeOK, Placed, PlacesNeverLost, NEW c \in Callers, Create(c)
  PROVE  PlacesNeverLost'
<1> SUFFICES ASSUME NEW s \in Slots PROVE Kept(s)'
  BY DEF PlacesNeverLost, Kept
<1>1. Kept(s)
  BY DEF PlacesNeverLost, Kept
<1>2. HoldersOf(s)' = HoldersOf(s)
  BY DEF Create, HoldersOf
<1>3. CASE rated' = rated /\ avail' = avail /\ lock' = lock
  <2>1. Promised(s)' = Promised(s)
    BY <1>3 DEF Create, Promised
  <2>2. QED
    BY <1>1, <1>2, <1>3, <2>1, Untouched
<1>4. ASSUME NEW fresh \in Slots, Freed(fresh),
             rated' = [rated EXCEPT ![fresh] = want[c]],
             avail' = [avail EXCEPT ![fresh] = want[c]],
             lock' = [lock EXCEPT ![fresh] = None]
      PROVE  Kept(s)'
  <2>1. CASE s = fresh
    <3>1. want[c] \in Nat
      BY DEF Create, Placed, AtWork
    <3>2. Promised(s)' = want[c] /\ avail'[s] = want[c]
      BY <1>4, <2>1 DEF TypeOK, Promised
    <3>3. Cardinality(HoldersOf(s)) \in Nat
      BY HoldersFinite
    <3>4. QED
      BY <1>2, <3>1, <3>2, <3>3 DEF Kept
  <2>2. CASE s # fresh
    <3>1. Promised(s)' = Promised(s) /\ avail'[s] = avail[s]
      BY <1>4, <2>2 DEF TypeOK, Create, Promised
    <3>2. QED
      BY <1>1, <1>2, <3>1, Untouched
  <2>3. QED
    BY <2>1, <2>2
<1>5. QED
  BY <1>3, <1>4 DEF Create

\* The swap keeps what was promised until the semaphore follows.
LEMMA SwapKeeps ==
  ASSUME TypeOK, Placed, PlacesNeverLost, NEW c \in Callers, Swap(c)
  PROVE  PlacesNeverLost'
<1> SUFFICES ASSUME NEW s \in Slots PROVE Kept(s)'
  BY DEF PlacesNeverLost, Kept
<1>1. Kept(s)
  BY DEF PlacesNeverLost, Kept
<1>2. HoldersOf(s)' = HoldersOf(s) /\ avail'[s] = avail[s]
  BY DEF Swap, HoldersOf
<1>3. at[c] \in Slots
  BY DEF Swap, Placed, AtWork, Working
<1>4. CASE s = at[c]
  <2>1. Promised(s) = rated[s]
    BY <1>4 DEF Swap, Promised
  <2>2. lock'[s] = c /\ previous'[c] = rated[s]
    BY <1>3, <1>4 DEF Swap, TypeOK
  <2>3. Promised(s)' = rated[s]
    BY <2>2, QueueAssumption DEF Promised
  <2>4. QED
    BY <1>1, <1>2, <2>1, <2>3, Untouched
<1>5. CASE s # at[c]
  <2>1. lock'[s] = lock[s] /\ rated'[s] = rated[s]
    BY <1>3, <1>5 DEF Swap, Recorded, TypeOK
  <2>2. lock[s] # None => lock[s] # c
    BY <1>5 DEF Placed, Locked
  <2>3. Promised(s)' = Promised(s)
    BY <2>1, <2>2, QueueAssumption DEF Swap, TypeOK, Promised
  <2>4. QED
    BY <1>1, <1>2, <2>3, Untouched
<1>6. QED
  BY <1>4, <1>5

\* The semaphore follows: what is forgotten was idle, and what is in use stays
\* above the new capacity.
LEMMA AdjustKeeps ==
  ASSUME TypeOK, Placed, PlacesNeverLost, NEW c \in Callers, Adjust(c)
  PROVE  PlacesNeverLost'
<1> SUFFICES ASSUME NEW s \in Slots PROVE Kept(s)'
  BY DEF PlacesNeverLost, Kept
<1>1. Kept(s)
  BY DEF PlacesNeverLost, Kept
<1>2. HoldersOf(s)' = HoldersOf(s)
  BY DEF Adjust, HoldersOf
<1>3. at[c] \in Slots /\ want[c] \in Nat /\ previous[c] \in Nat
  BY ChangeBounds DEF Adjust
<1>4. CASE s = at[c]
  <2> DEFINE a == avail[s]
             h == Cardinality(HoldersOf(s))
             w == want[c]
             p == previous[c]
  <2>1. lock[s] = c /\ rated[s] = w
    BY <1>4, QueueAssumption DEF Adjust, Placed, AtWork, Locked
  <2>2. a + h >= p
    BY <1>1, <2>1, QueueAssumption DEF Kept, Promised
  <2>3. a \in Nat /\ h \in Nat /\ w \in Nat /\ p \in Nat
    BY <1>3, HoldersFinite DEF TypeOK
  <2>4. avail'[s] = a + (IF w > p THEN w - p ELSE -(IF a < p - w THEN a ELSE p - w))
    BY <1>3, <1>4 DEF Adjust, Change, Smaller, TypeOK
  <2>5. Promised(s)' = w
    BY <1>3, <1>4, <2>1 DEF Adjust, Promised, TypeOK
  <2> HIDE DEF a, h, w, p
  <2>6. avail'[s] + h >= w
    BY <2>2, <2>3, <2>4
  <2>7. QED
    BY <1>2, <2>5, <2>6 DEF Kept, h
<1>5. CASE s # at[c]
  <2>1. lock'[s] = lock[s] /\ avail'[s] = avail[s]
    BY <1>3, <1>5 DEF Adjust, TypeOK
  <2>2. Promised(s)' = Promised(s)
    BY <2>1 DEF Adjust, Promised
  <2>3. QED
    BY <1>1, <1>2, <2>1, <2>2, Untouched
<1>6. QED
  BY <1>4, <1>5

\* A permit that is taken becomes a ticket.
LEMMA AcquireKeeps ==
  ASSUME TypeOK, Placed, PlacesNeverLost, NEW c \in Callers, Acquire(c)
  PROVE  PlacesNeverLost'
<1> SUFFICES ASSUME NEW s \in Slots PROVE Kept(s)'
  BY DEF PlacesNeverLost, Kept
<1>1. Kept(s)
  BY DEF PlacesNeverLost, Kept
<1>2. Promised(s)' = Promised(s)
  BY DEF Acquire, Promised
<1>3. at[c] \in Slots /\ ticket[c] = None
  BY DEF Acquire, Placed, AtWork, Working
<1>4. CASE CanTake(at[c]) /\ s = at[c]
  <2>1. HoldersOf(s)' = HoldersOf(s) \cup {c}
    BY <1>3, <1>4 DEF Acquire, HoldersOf, TypeOK
  <2>2. c \notin HoldersOf(s)
    BY <1>3, QueueAssumption DEF HoldersOf
  <2>3. Cardinality(HoldersOf(s)') = Cardinality(HoldersOf(s)) + 1
    BY <2>1, <2>2, HoldersFinite, FS_AddElement
  <2>4. avail'[s] = avail[s] - 1
    BY <1>3, <1>4 DEF Acquire, TypeOK
  <2>5. avail[s] \in Nat /\ Cardinality(HoldersOf(s)) \in Nat
    BY HoldersFinite DEF TypeOK
  <2>6. avail'[s] + Cardinality(HoldersOf(s)') = avail[s] + Cardinality(HoldersOf(s))
    BY <2>3, <2>4, <2>5
  <2>7. QED
    BY <1>1, <1>2, <2>6 DEF Kept
<1>5. CASE CanTake(at[c]) /\ s # at[c]
  <2>1. HoldersOf(s)' = HoldersOf(s)
    BY <1>3, <1>5, QueueAssumption DEF Acquire, HoldersOf, TypeOK
  <2>2. avail'[s] = avail[s]
    BY <1>3, <1>5 DEF Acquire, TypeOK
  <2>3. QED
    BY <1>1, <1>2, <2>1, <2>2, Untouched
<1>6. CASE ~CanTake(at[c])
  <2>1. HoldersOf(s)' = HoldersOf(s) /\ avail'[s] = avail[s]
    BY <1>6 DEF Acquire, HoldersOf
  <2>2. QED
    BY <1>1, <1>2, <2>1, Untouched
<1>7. QED
  BY <1>4, <1>5, <1>6

\* A ticket that is dropped becomes a permit of the semaphore it came from.
LEMMA LeaveKeeps ==
  ASSUME TypeOK, Placed, PlacesNeverLost, NEW c \in Callers, Leave(c)
  PROVE  PlacesNeverLost'
<1> SUFFICES ASSUME NEW s \in Slots PROVE Kept(s)'
  BY DEF PlacesNeverLost, Kept
<1>1. Kept(s)
  BY DEF PlacesNeverLost, Kept
<1>2. Promised(s)' = Promised(s)
  BY DEF Leave, Promised
<1>3. CASE ticket[c] = s
  <2>1. HoldersOf(s)' = HoldersOf(s) \ {c}
    BY <1>3, QueueAssumption DEF Leave, HoldersOf, TypeOK
  <2>2. c \in HoldersOf(s)
    BY <1>3 DEF HoldersOf
  <2>3. Cardinality(HoldersOf(s)') = Cardinality(HoldersOf(s)) - 1
    BY <2>1, <2>2, HoldersFinite, FS_RemoveElement
  <2>4. avail'[s] = avail[s] + 1
    BY <1>3 DEF Leave
  <2>5. avail[s] \in Nat /\ Cardinality(HoldersOf(s)) \in Nat
    BY HoldersFinite DEF TypeOK
  <2>6. avail'[s] + Cardinality(HoldersOf(s)') = avail[s] + Cardinality(HoldersOf(s))
    BY <2>3, <2>4, <2>5
  <2>7. QED
    BY <1>1, <1>2, <2>6 DEF Kept
<1>4. CASE ticket[c] # s
  <2>1. HoldersOf(s)' = HoldersOf(s) /\ avail'[s] = avail[s]
    BY <1>4, QueueAssumption DEF Leave, HoldersOf, TypeOK
  <2>2. QED
    BY <1>1, <1>2, <2>1, Untouched
<1>5. QED
  BY <1>3, <1>4

LEMMA NextKeeps ==
  TypeOK /\ Placed /\ PlacesNeverLost /\ [Next]_vars => PlacesNeverLost'
<1> SUFFICES ASSUME TypeOK, Placed, PlacesNeverLost, [Next]_vars PROVE PlacesNeverLost'
  OBVIOUS
<1> DEFINE Same == UNCHANGED <<rated, avail, lock, previous, ticket>>
<1>1. ASSUME NEW c \in Callers, NEW j \in {"enter", "show"}, Arrive(c, j) PROVE Same
  BY <1>1 DEF Arrive, slotVars
<1>2. ASSUME NEW c \in Callers, NeedsNoSlot(c) PROVE Same
  BY <1>2 DEF NeedsNoSlot, slotVars
<1>3. ASSUME NEW c \in Callers, Find(c) PROVE Same
  BY <1>3 DEF Find
<1>4. ASSUME NEW c \in Callers, Compare(c) PROVE Same
  BY <1>4 DEF Compare
<1>5. ASSUME NEW n \in CapacityChoices, SetCapacity(n) PROVE Same
  BY <1>5 DEF SetCapacity, slotVars, callVars
<1>6. CASE Retain
  <2>1. Same
    BY <1>6 DEF Retain, callVars
  <2>2. QED
    BY <2>1, SameSlots
<1>7. CASE UNCHANGED vars
  <2>1. Same
    BY <1>7 DEF vars, slotVars, callVars
  <2>2. QED
    BY <2>1, SameSlots
<1> HIDE DEF Same
<1>8. Same => PlacesNeverLost'
  BY SameSlots DEF Same
<1>9. QED
  BY <1>1, <1>2, <1>3, <1>4, <1>5, <1>6, <1>7, <1>8, CreateKeeps, SwapKeeps,
     AdjustKeeps, AcquireKeeps, LeaveKeeps DEF Next

LEMMA InitKeeps == Init => PlacesNeverLost
<1> SUFFICES ASSUME Init, NEW s \in Slots PROVE Kept(s)
  BY DEF PlacesNeverLost, Kept
<1>1. avail[s] = 0 /\ Promised(s) = 0
  BY DEF Init, Promised
<1>2. QED
  BY <1>1, HoldersFinite DEF Kept

\* However calibrations with different snapshots interleave, idle permits and
\* tickets add up to the capacity promised (reconcile_permits).
THEOREM NoPlaceIsLost == Spec => []PlacesNeverLost
<1>1. Init => IInv
  BY InitPlaced, InitKeeps DEF IInv
<1>2. IInv /\ [Next]_vars => IInv'
  BY NextTyped, NextPlaced, NextKeeps DEF IInv
<1>3. IInv => PlacesNeverLost
  BY DEF IInv
<1>4. QED
  BY <1>1, <1>2, <1>3, PTL DEF Spec

\* queue_full is never a false alarm: who is refused meets a semaphore without
\* an idle permit, so the places promised are all in use (GroupQueues::enter).
THEOREM OnlyFullRefuses == Spec => RefusedOnlyWhenFull
<1> DEFINE Fair(c) == pc[c] = "acquire" /\ pc'[c] = "idle"
                      => Cardinality(HoldersOf(at[c])) >= Promised(at[c])
<1>1. ASSUME TypeOK, Placed, PlacesNeverLost, Next, NEW c \in Callers,
             pc[c] = "acquire", pc'[c] = "idle"
      PROVE  Cardinality(HoldersOf(at[c])) >= Promised(at[c])
  <2>1. at[c] \in Slots
    BY <1>1 DEF Placed, AtWork, Working
  <2>2. Acquire(c)
    <3> USE DEF TypeOK, slotVars, callVars
    <3>1. \A d \in Callers, j \in {"enter", "show"} : ~Arrive(d, j)
      BY <1>1 DEF Arrive
    <3>2. \A d \in Callers : ~NeedsNoSlot(d) /\ ~Find(d) /\ ~Create(d)
      BY <1>1 DEF NeedsNoSlot, Find, Create
    <3>3. \A d \in Callers : ~Compare(d) /\ ~Swap(d) /\ ~Adjust(d) /\ ~Leave(d)
      BY <1>1 DEF Compare, Swap, Adjust, Leave, Calibrated
    <3>4. \A n \in CapacityChoices : ~SetCapacity(n)
      BY <1>1 DEF SetCapacity
    <3>5. ~Retain
      BY <1>1 DEF Retain
    <3>6. PICK d \in Callers : Acquire(d)
      BY <1>1, <3>1, <3>2, <3>3, <3>4, <3>5 DEF Next
    <3>7. d = c
      BY <1>1, <3>6 DEF Acquire
    <3>8. QED
      BY <3>6, <3>7
  <2>3. avail[at[c]] = 0
    BY <1>1, <2>1, <2>2 DEF Acquire, CanTake, TypeOK
  <2>4. avail[at[c]] + Cardinality(HoldersOf(at[c])) >= Promised(at[c])
    BY <1>1, <2>1 DEF PlacesNeverLost
  <2>5. QED
    BY <2>1, <2>3, <2>4, HoldersFinite
<1>2. IInv /\ [Next]_vars => [\A c \in Callers : Fair(c)]_vars
  BY <1>1 DEF IInv
<1>3. Init => IInv
  BY InitPlaced, InitKeeps DEF IInv
<1>4. IInv /\ [Next]_vars => IInv'
  BY NextTyped, NextPlaced, NextKeeps DEF IInv
<1>5. QED
  BY <1>2, <1>3, <1>4, PTL DEF Spec, RefusedOnlyWhenFull

-----------------------------------------------------------------------------
(* Waiting for capacity.  Every permit that is not idle is in the hands of  *)
(* an admission or of a wait; who lines up for a level has no permit of it, *)
(* and lines up once.                                                       *)

\* A line of waiters: nobody twice, nobody who has what the line is for.
InLine(o) ==
  /\ \A i, j \in DOMAIN line[o] : line[o][i] = line[o][j] => i = j
  /\ \A i \in DOMAIN line[o] : o \notin got[line[o][i][1]][line[o][i][2]]
  /\ o \notin Waits!Bounded => line[o] = <<>>

\* What a request has in hand where it is: nothing before it is admitted,
\* every permit of its levels when it runs, and when it is woken those of the
\* candidate whose key it chooses again.
InHand(l) ==
  /\ l.pc \in {"new", "top", "scan", "pause", "wait"} => l.held = {}
  /\ l.pc \in {"admit", "run", "woken", "pause"} => l.cand \in Targets
  /\ l.pc = "run" => Waits!Needed(l.cand, l.key) \subseteq l.held
  /\ l.pc = "woken" => {l.cand, TargetAccount[l.cand]} \cap Waits!Bounded \subseteq l.held

WaitInv ==
  /\ Waits!TypeOK
  /\ \A o \in Waits!Pools : InLine(o)
  /\ \A r \in Pair : InHand(walk[r])
  /\ Waits!PermitsConserved

\* The operators of the libraries are the same in the instances.
LEMMA SameOperators ==
  /\ \A s, S : Waits!Keep(s, S) = Keep(s, S)
  /\ \A S : Waits!IsFiniteSet(S) = IsFiniteSet(S)
  /\ \A S : Waits!Cardinality(S) = Cardinality(S)
<1>1. \A s, S : Waits!Keep(s, S) = Keep(s, S)
  BY DEF Waits!Keep, Keep
<1>2. \A S : Waits!IsFiniteSet(S) = IsFiniteSet(S)
  BY DEF Waits!IsFiniteSet, IsFiniteSet
<1>3. \A S : Waits!Cardinality(S) = Cardinality(S)
  BY DEF Waits!Cardinality, Cardinality
<1> QED
  BY <1>1, <1>2, <1>3

\* What the constants are.
LEMMA WaitConstants ==
  /\ IsFiniteSet(Pair) /\ IsFiniteSet(Targets)
  /\ TargetAccount \in [Targets -> Accounts]
  /\ KeysOf \in [Accounts -> SUBSET PoolKeys]
  /\ None \notin Nat /\ None \notin Waits!Pools
  /\ Limit \in [Waits!Pools -> (Nat \ {0}) \cup {None}]
  /\ Plans \subseteq SUBSET Targets
  /\ Bindings \subseteq PoolKeys \cup {None}
  /\ RateBound \subseteq Waits!Pools
BY LimitsAssumption, SameOperators DEF Waits!WaitAssumption

\* The waits and the admissions are finitely many.
LEMMA HandsFinite ==
  ASSUME NEW o
  PROVE  /\ IsFiniteSet(Waits!WaitersFor(o)) /\ Cardinality(Waits!WaitersFor(o)) \in Nat
         /\ IsFiniteSet(Waits!HoldersOf(o)) /\ Cardinality(Waits!HoldersOf(o)) \in Nat
<1>1. IsFiniteSet(Pair \X Targets)
  BY WaitConstants, FS_Product
<1>2. Waits!WaitersFor(o) \in SUBSET (Pair \X Targets) /\ Waits!HoldersOf(o) \in SUBSET Pair
  BY DEF Waits!WaitersFor, Waits!HoldersOf
<1>3. IsFiniteSet(Waits!WaitersFor(o)) /\ IsFiniteSet(Waits!HoldersOf(o))
  BY <1>1, <1>2, WaitConstants, FS_Subset
<1> QED
  BY <1>3, FS_CardinalityType

\* What a request collected for a level, counted among the waits for it.
LEMMA CollectedWaits ==
  ASSUME NEW r \in Pair, NEW ts \in SUBSET Targets, NEW o
  PROVE  /\ Waits!Collected(r, ts, o) \in Nat
         /\ IsFiniteSet(Waits!WaitersFor(o) \cap ({r} \X ts))
         /\ Cardinality(Waits!WaitersFor(o) \cap ({r} \X ts)) = Waits!Collected(r, ts, o)
<1> DEFINE A == {t \in ts : o \in got[r][t]}
           B == Waits!WaitersFor(o) \cap ({r} \X ts)
           f == [t \in A |-> <<r, t>>]
<1>1. IsFiniteSet(A)
  <2>1. A \in SUBSET Targets
    OBVIOUS
  <2> QED
    BY <2>1, WaitConstants, FS_Subset
<1>2. f \in Bijection(A, B)
  <2>1. \A t \in A : f[t] \in B
    BY DEF Waits!WaitersFor
  <2>2. \A w \in B : \E t \in A : f[t] = w
    BY DEF Waits!WaitersFor
  <2>3. \A t, u \in A : f[t] = f[u] => t = u
    OBVIOUS
  <2> QED
    BY <2>1, <2>2, <2>3 DEF Bijection, Injection, Surjection, IsInjective
<1>3. ExistsBijection(A, B)
  BY <1>2 DEF ExistsBijection
<1>4. Waits!Collected(r, ts, o) = Cardinality(A)
  BY SameOperators DEF Waits!Collected
<1> HIDE DEF A, B, f
<1>5. IsFiniteSet(B) /\ Cardinality(B) = Cardinality(A)
  BY <1>1, <1>3, FS_Bijection
<1>6. Cardinality(A) \in Nat
  BY <1>1, FS_CardinalityType
<1> QED
  BY <1>4, <1>5, <1>6 DEF B

\* The rest of a list behind its first m.
LEMMA Behind ==
  ASSUME NEW T, NEW s \in Seq(T), NEW m \in Nat, m <= Len(s),
         \A i, j \in DOMAIN s : s[i] = s[j] => i = j
  PROVE  LET k == SubSeq(s, m + 1, Len(s)) IN
         /\ k \in Seq(T)
         /\ \A i, j \in DOMAIN k : k[i] = k[j] => i = j
         /\ \A i \in DOMAIN k : m + i \in DOMAIN s /\ k[i] = s[m + i]
         /\ s = <<>> => k = <<>>
<1> DEFINE k == SubSeq(s, m + 1, Len(s))
<1>1. Len(s) \in Nat /\ DOMAIN s = 1..Len(s) /\ \A i \in (m + 1)..Len(s) : s[i] \in T
  OBVIOUS
<1>2. /\ k \in Seq(T)
      /\ Len(k) = IF m + 1 <= Len(s) THEN Len(s) - (m + 1) + 1 ELSE 0
      /\ \A i \in 1..(Len(s) - (m + 1) + 1) : k[i] = s[m + 1 + i - 1]
  BY <1>1, SubSeqProperties
<1> HIDE DEF k
<1>3. DOMAIN k = 1..(Len(s) - m)
  <2>1. DOMAIN k = 1..Len(k)
    BY <1>2
  <2>2. Len(k) = Len(s) - m
    <3> DEFINE n == Len(s)
               l == Len(k)
    <3>1. n \in Nat /\ m <= n /\ l = IF m + 1 <= n THEN n - (m + 1) + 1 ELSE 0
      BY <1>1, <1>2
    <3> HIDE DEF n, l
    <3>2. l = n - m
      BY <3>1
    <3> QED
      BY <3>2 DEF n, l
  <2> QED
    BY <2>1, <2>2
<1>4. \A i \in DOMAIN k : m + i \in DOMAIN s /\ k[i] = s[m + i]
  <2> SUFFICES ASSUME NEW i \in DOMAIN k PROVE m + i \in DOMAIN s /\ k[i] = s[m + i]
    OBVIOUS
  <2>1. i \in Int /\ 1 <= i /\ i <= Len(s) - m /\ Len(s) \in Nat
    BY <1>1, <1>3
  <2>2. i \in 1..(Len(s) - (m + 1) + 1) /\ m + 1 + i - 1 = m + i /\ m + i \in 1..Len(s)
    BY <2>1
  <2>3. k[i] = s[m + 1 + i - 1]
    BY <1>2, <2>2
  <2>4. k[i] = s[m + i]
    BY <2>2, <2>3
  <2> QED
    BY <1>1, <2>2, <2>4
<1>5. \A i, j \in DOMAIN k : k[i] = k[j] => i = j
  BY <1>3, <1>4
<1>6. s = <<>> => k = <<>>
  <2> SUFFICES ASSUME s = <<>> PROVE k = <<>>
    OBVIOUS
  <2>1. Len(s) = 0
    OBVIOUS
  <2>2. Len(k) = 0
    BY <1>2, <2>1
  <2> QED
    BY <1>2, <2>2
<1> QED
  BY <1>2, <1>4, <1>5, <1>6 DEF k

\* Permits that are given back: each goes to one that waits for it or becomes
\* idle, and the lines stay lines (CapacityPermit's drop, Semaphore).
LEMMA ReturnGives ==
  ASSUME Waits!TypeOK, \A o \in Waits!Pools : InLine(o), NEW r \in Pair,
         NEW count \in [Waits!Pools -> Nat], \A o \in Waits!Pools : o \notin Waits!Bounded => count[o] = 0,
         Waits!Return(r, count)
  PROVE  /\ idle' \in [Waits!Pools -> Nat]
         /\ line' \in [Waits!Pools -> Seq(Pair \X Targets)]
         /\ got' \in [Pair -> [Targets -> SUBSET Waits!Bounded]]
         /\ \A o \in Waits!Pools : InLine(o)'
         /\ \A o \in Waits!Bounded :
              idle'[o] + Cardinality(Waits!WaitersFor(o)')
                = idle[o] + count[o] + Cardinality(Waits!WaitersFor(o))
                    - Waits!Collected(r, Targets, o)
<1> DEFINE S == (Pair \ {r}) \X Targets
           others == [o \in Waits!Pools |-> Keep(line[o], S)]
           served == [o \in Waits!Pools |-> Waits!Smaller(count[o], Len(others[o]))]
           Served(o) == {others[o][i] : i \in 1..served[o]}
<1>1. ASSUME NEW o \in Waits!Pools
      PROVE  /\ others[o] \in Seq(Pair \X Targets)
             /\ \A i, j \in DOMAIN others[o] : others[o][i] = others[o][j] => i = j
             /\ \A i \in DOMAIN others[o] :
                  /\ others[o][i] \in S
                  /\ \E j \in DOMAIN line[o] : others[o][i] = line[o][j]
             /\ line[o] = <<>> => others[o] = <<>>
  <2>1. line[o] \in Seq(Pair \X Targets)
    BY DEF Waits!TypeOK
  <2>2. others[o] = Keep(line[o], S)
    OBVIOUS
  <2>3. \A i, j \in DOMAIN line[o] : line[o][i] = line[o][j] => i = j
    BY DEF InLine
  <2> HIDE DEF others, S
  <2>4. /\ others[o] \in Seq(Pair \X Targets)
        /\ Elements(others[o]) = Elements(line[o]) \cap S
        /\ \A i, j \in DOMAIN others[o] : others[o][i] = others[o][j] => i = j
    BY <2>1, <2>2, <2>3, KeepElements
  <2>5. \A i \in DOMAIN others[o] : others[o][i] \in Elements(others[o])
    BY DEF Elements
  <2>6. \A i \in DOMAIN others[o] : \E j \in DOMAIN line[o] : others[o][i] = line[o][j]
    BY <2>4, <2>5 DEF Elements
  <2>7. line[o] = <<>> => others[o] = <<>>
    <3> SUFFICES ASSUME line[o] = <<>> PROVE others[o] = <<>>
      OBVIOUS
    <3>1. DOMAIN line[o] = {}
      OBVIOUS
    <3>2. DOMAIN others[o] = 1..Len(others[o]) /\ Len(others[o]) \in Nat
      BY <2>4
    <3>3. Len(others[o]) = 0
      BY <3>1, <3>2, <2>6
    <3> QED
      BY <2>4, <3>3
  <2> QED
    BY <2>4, <2>5, <2>6, <2>7
<1>2. ASSUME NEW o \in Waits!Pools
      PROVE  /\ served[o] \in Nat /\ served[o] <= count[o] /\ served[o] <= Len(others[o])
             /\ count[o] \in Nat /\ Len(others[o]) \in Nat
             /\ DOMAIN others[o] = 1..Len(others[o])
  <2>1. Len(others[o]) \in Nat /\ DOMAIN others[o] = 1..Len(others[o])
    BY <1>1
  <2>2. served[o] = Waits!Smaller(count[o], Len(others[o]))
    OBVIOUS
  <2> HIDE DEF others, served
  <2> QED
    BY <2>1, <2>2 DEF Waits!Smaller
<1>3. /\ idle' = [o \in Waits!Pools |-> idle[o] + count[o] - served[o]]
      /\ line' = [o \in Waits!Pools |-> SubSeq(others[o], served[o] + 1, Len(others[o]))]
      /\ got' = [q \in Pair |-> [t \in Targets |->
                   IF q = r THEN {}
                   ELSE got[q][t] \cup
                        {o \in Waits!Pools : \E i \in 1..served[o] : others[o][i] = <<q, t>>}]]
  <2> DEFINE theirs == [o \in Waits!Pools |-> Waits!Keep(line[o], Waits!Others(r))]
             first  == [o \in Waits!Pools |-> Waits!Smaller(count[o], Len(theirs[o]))]
  <2>1. /\ idle' = [o \in Waits!Pools |-> idle[o] + count[o] - first[o]]
        /\ line' = [o \in Waits!Pools |-> SubSeq(theirs[o], first[o] + 1, Len(theirs[o]))]
        /\ got' = [q \in Pair |-> [t \in Targets |->
                     IF q = r THEN {}
                     ELSE got[q][t] \cup
                          {o \in Waits!Pools : \E i \in 1..first[o] : theirs[o][i] = <<q, t>>}]]
    BY DEF Waits!Return
  <2>2. \A o \in Waits!Pools : Waits!Keep(line[o], Waits!Others(r)) = Keep(line[o], S)
    BY SameOperators DEF Waits!Others
  <2>3. theirs = others
    BY <2>2
  <2>4. first = served
    <3> HIDE DEF theirs, others
    <3> QED
      BY <2>3
  <2> HIDE DEF theirs, others, first, served
  <2> QED
    BY <2>1, <2>3, <2>4
<1> HIDE DEF others, served
<1>4. idle' \in [Waits!Pools -> Nat]
  <2>1. \A o \in Waits!Pools : idle[o] \in Nat
    BY DEF Waits!TypeOK
  <2>2. \A o \in Waits!Pools : idle[o] + count[o] - served[o] \in Nat
    BY <2>1, <1>2
  <2> QED
    BY <1>3, <2>2
<1>5. ASSUME NEW o \in Waits!Pools
      PROVE  LET k == SubSeq(others[o], served[o] + 1, Len(others[o])) IN
             /\ k \in Seq(Pair \X Targets)
             /\ \A i, j \in DOMAIN k : k[i] = k[j] => i = j
             /\ \A i \in DOMAIN k :
                  served[o] + i \in DOMAIN others[o] /\ k[i] = others[o][served[o] + i]
             /\ others[o] = <<>> => k = <<>>
  <2>1. others[o] \in Seq(Pair \X Targets) /\ served[o] \in Nat /\ served[o] <= Len(others[o])
    BY <1>1, <1>2
  <2>2. \A i, j \in DOMAIN others[o] : others[o][i] = others[o][j] => i = j
    BY <1>1
  <2> QED
    BY <2>1, <2>2, Behind
<1>6. line' \in [Waits!Pools -> Seq(Pair \X Targets)]
  BY <1>3, <1>5
<1>7. \A o \in Waits!Pools : o \notin Waits!Bounded => served[o] = 0
  BY <1>2
<1>8. got' \in [Pair -> [Targets -> SUBSET Waits!Bounded]]
  <2>1. \A q \in Pair, t \in Targets : got[q][t] \in SUBSET Waits!Bounded
    BY DEF Waits!TypeOK
  <2>2. \A q \in Pair, t \in Targets :
          {o \in Waits!Pools : \E i \in 1..served[o] : others[o][i] = <<q, t>>} \in SUBSET Waits!Bounded
    BY <1>7
  <2> QED
    BY <1>3, <2>1, <2>2
<1>9. ASSUME NEW o \in Waits!Pools PROVE InLine(o)'
  <2> DEFINE k == SubSeq(others[o], served[o] + 1, Len(others[o]))
  <2>1. line'[o] = k
    BY <1>3
  <2>2. /\ \A i, j \in DOMAIN k : k[i] = k[j] => i = j
        /\ \A i \in DOMAIN k :
             served[o] + i \in DOMAIN others[o] /\ k[i] = others[o][served[o] + i]
        /\ others[o] = <<>> => k = <<>>
        /\ k \in Seq(Pair \X Targets)
    BY <1>5
  <2> HIDE DEF k
  <2>3. ASSUME NEW i \in DOMAIN k PROVE o \notin got'[k[i][1]][k[i][2]]
    <3>1. PICK j \in DOMAIN line[o] : others[o][served[o] + i] = line[o][j]
      BY <1>1, <2>2
    <3>2. k[i] = line[o][j] /\ k[i] \in S
      BY <1>1, <2>2, <3>1
    <3>3. PICK q \in Pair \ {r}, t \in Targets : k[i] = <<q, t>>
      BY <3>2
    <3>4. o \notin got[q][t]
      <4>1. o \notin got[line[o][j][1]][line[o][j][2]]
        BY DEF InLine
      <4>2. line[o][j] = <<q, t>>
        BY <3>2, <3>3
      <4> QED
        BY <4>1, <4>2
    <3>5. ~\E l \in 1..served[o] : others[o][l] = <<q, t>>
      <4> SUFFICES ASSUME NEW l \in 1..served[o], others[o][l] = <<q, t>> PROVE FALSE
        OBVIOUS
      <4>1. l \in DOMAIN others[o] /\ served[o] + i \in DOMAIN others[o]
        BY <1>2, <2>2
      <4>2. l = served[o] + i
        <5>1. others[o][l] = others[o][served[o] + i]
          BY <2>2, <3>3
        <5>2. \A a, b \in DOMAIN others[o] : others[o][a] = others[o][b] => a = b
          BY <1>1
        <5> QED
          BY <4>1, <5>1, <5>2
      <4>3. i \in 1..Len(k)
        BY <2>2
      <4> QED
        BY <4>2, <4>3, <1>2
    <3>6. got'[q][t] = got[q][t] \cup
            {p \in Waits!Pools : \E l \in 1..served[p] : others[p][l] = <<q, t>>}
      BY <1>3, <3>3
    <3> QED
      BY <3>3, <3>4, <3>5, <3>6
  <2>4. o \notin Waits!Bounded => line'[o] = <<>>
    BY <2>1, <2>2, <1>1 DEF InLine
  <2>5. (o \notin Waits!Bounded)' <=> o \notin Waits!Bounded
    BY DEF Waits!Bounded
  <2> QED
    BY <2>1, <2>2, <2>3, <2>4, <2>5 DEF InLine
<1>10. ASSUME NEW o \in Waits!Bounded
       PROVE  idle'[o] + Cardinality(Waits!WaitersFor(o)')
                = idle[o] + count[o] + Cardinality(Waits!WaitersFor(o))
                    - Waits!Collected(r, Targets, o)
  <2> DEFINE W == Waits!WaitersFor(o)
             M == W \cap ({r} \X Targets)
             F == Served(o)
             N == Waits!WaitersFor(o)'
  <2>1. o \in Waits!Pools
    BY DEF Waits!Bounded
  <2>2. N = (W \ M) \cup F
    <3>1. ASSUME NEW w \in N PROVE w \in (W \ M) \cup F
      <4>1. PICK q \in Pair, t \in Targets : w = <<q, t>> /\ o \in got'[q][t]
        BY DEF Waits!WaitersFor
      <4>2. q # r /\ (o \in got[q][t] \/ \E i \in 1..served[o] : others[o][i] = <<q, t>>)
        BY <4>1, <1>3
      <4> QED
        BY <4>1, <4>2 DEF Waits!WaitersFor
    <3>2. ASSUME NEW w \in W \ M PROVE w \in N
      <4>1. PICK q \in Pair, t \in Targets : w = <<q, t>> /\ o \in got[q][t] /\ q # r
        BY DEF Waits!WaitersFor
      <4>2. o \in got'[q][t]
        BY <4>1, <1>3
      <4> QED
        BY <4>1, <4>2 DEF Waits!WaitersFor
    <3>3. ASSUME NEW w \in F PROVE w \in N
      <4>1. PICK i \in 1..served[o] : w = others[o][i]
        OBVIOUS
      <4>2. w \in S
        BY <4>1, <2>1, <1>1, <1>2
      <4>3. PICK q \in Pair \ {r}, t \in Targets : w = <<q, t>>
        BY <4>2
      <4>4. o \in got'[q][t]
        BY <4>1, <4>3, <2>1, <1>3
      <4> QED
        BY <4>3, <4>4 DEF Waits!WaitersFor
    <3> HIDE DEF N, W, M, F
    <3> QED
      BY <3>1, <3>2, <3>3
  <2>3. W \cap F = {}
    <3> SUFFICES ASSUME NEW w \in F PROVE w \notin W
      OBVIOUS
    <3>1. PICK i \in 1..served[o] : w = others[o][i]
      OBVIOUS
    <3>2. PICK j \in DOMAIN line[o] : w = line[o][j]
      BY <3>1, <2>1, <1>1, <1>2
    <3>3. o \notin got[w[1]][w[2]]
      BY <3>2, <2>1 DEF InLine
    <3> QED
      BY <3>3 DEF Waits!WaitersFor
  <2>4. IsFiniteSet(F) /\ Cardinality(F) = served[o]
    <3>1. /\ others[o] \in Seq(Pair \X Targets) /\ served[o] \in Nat
          /\ served[o] <= Len(others[o])
      BY <2>1, <1>1, <1>2
    <3>2. \A i, j \in DOMAIN others[o] : others[o][i] = others[o][j] => i = j
      BY <2>1, <1>1
    <3> DEFINE s == others[o]
               n == served[o]
    <3> HIDE DEF s, n
    <3>3. s \in Seq(Pair \X Targets) /\ n \in Nat /\ n <= Len(s)
      BY <3>1 DEF s, n
    <3>4. \A i, j \in DOMAIN s : s[i] = s[j] => i = j
      BY <3>2 DEF s
    <3>5. IsFiniteSet({s[i] : i \in 1..n}) /\ Cardinality({s[i] : i \in 1..n}) = n
      BY <3>3, <3>4, FirstOnes
    <3> QED
      BY <3>5 DEF s, n
  <2>5. /\ IsFiniteSet(W) /\ Cardinality(W) \in Nat
        /\ IsFiniteSet(M) /\ Cardinality(M) = Waits!Collected(r, Targets, o)
        /\ Waits!Collected(r, Targets, o) \in Nat
    BY HandsFinite, CollectedWaits
  <2>6. M \subseteq W
    OBVIOUS
  <2>7. idle'[o] = idle[o] + count[o] - served[o] /\ idle[o] \in Nat
    BY <2>1, <1>3 DEF Waits!TypeOK
  <2>8. served[o] \in Nat /\ count[o] \in Nat
    BY <2>1, <1>2
  <2> HIDE DEF W, M, F, N
  <2>9. IsFiniteSet(W \ M) /\ Cardinality(W \ M) = Cardinality(W) - Cardinality(M)
    <3>1. (W \ M) \cup M = W /\ (W \ M) \cap M = {}
      BY <2>6
    <3>2. W \ M \in SUBSET W
      OBVIOUS
    <3>3. IsFiniteSet(W \ M) /\ Cardinality(W \ M) \in Nat
      BY <2>5, <3>2, FS_Subset, FS_CardinalityType
    <3>4. Cardinality(W) = Cardinality(W \ M) + Cardinality(M) - Cardinality({})
      BY <2>5, <3>1, <3>3, FS_Union
    <3> QED
      BY <2>5, <3>3, <3>4, FS_EmptySet
  <2>10. Cardinality(N) = Cardinality(W) - Cardinality(M) + served[o]
    <3>1. (W \ M) \cap F = {}
      BY <2>3
    <3>2. Cardinality(N) = Cardinality(W \ M) + Cardinality(F) - Cardinality({})
      BY <2>2, <2>4, <2>9, <3>1, FS_Union
    <3> QED
      BY <2>4, <2>5, <2>8, <2>9, <3>2, FS_EmptySet
  <2>11. idle'[o] + Cardinality(N) = idle[o] + count[o] + Cardinality(W) - Cardinality(M)
    BY <2>5, <2>7, <2>8, <2>10
  <2> QED
    BY <2>5, <2>11 DEF N, W
<1> QED
  BY <1>4, <1>6, <1>8, <1>9, <1>10

\* A request that moves and touches no permit.
LEMMA KeepsKeeps ==
  ASSUME WaitInv, NEW r \in Pair, NEW l \in Waits!Locals, l.held = walk[r].held, InHand(l),
         Waits!Keeps(r, l)
  PROVE  WaitInv'
<1>1. walk' = [walk EXCEPT ![r] = l] /\ UNCHANGED <<idle, line, got, rateFull, shutdown>>
  BY DEF Waits!Keeps, Waits!Becomes
<1>2. Waits!TypeOK'
  BY <1>1 DEF WaitInv, Waits!TypeOK
<1>3. \A o \in Waits!Pools : InLine(o)'
  BY <1>1 DEF WaitInv, InLine
<1>4. \A q \in Pair : walk'[q] = IF q = r THEN l ELSE walk[q]
  BY <1>1 DEF WaitInv, Waits!TypeOK
<1>5. \A q \in Pair : InHand(walk[q])'
  BY <1>4 DEF WaitInv, InHand
<1>6. ASSUME NEW o \in Waits!Bounded
      PROVE  Waits!HoldersOf(o)' = Waits!HoldersOf(o) /\ Waits!WaitersFor(o)' = Waits!WaitersFor(o)
  BY <1>1, <1>4 DEF Waits!HoldersOf, Waits!WaitersFor
<1>7. Waits!PermitsConserved'
  <2> SUFFICES ASSUME NEW o \in Waits!Bounded
               PROVE  (idle[o] + Waits!Cardinality(Waits!HoldersOf(o))
                         + Waits!Cardinality(Waits!WaitersFor(o)) = Limit[o])'
    BY DEF Waits!PermitsConserved
  <2>1. idle[o] + Waits!Cardinality(Waits!HoldersOf(o))
          + Waits!Cardinality(Waits!WaitersFor(o)) = Limit[o]
    BY DEF WaitInv, Waits!PermitsConserved
  <2> QED
    BY <1>1, <1>6, <2>1, SameOperators
<1> QED
  BY <1>2, <1>3, <1>5, <1>7 DEF WaitInv

\* A request that gives back all it has and goes on with nothing in hand.
LEMMA DropsKeeps ==
  ASSUME WaitInv, NEW r \in Pair, NEW l \in Waits!Locals,
         l.pc \in {"new", "top", "scan", "admit", "pause"},
         l.pc \in {"admit", "pause"} => l.cand \in Targets,
         Waits!Drops(r, l)
  PROVE  WaitInv'
<1> DEFINE mine(o) == IF o \in walk[r].held THEN 1 ELSE 0
           count == [o \in Waits!Pools |-> Waits!Collected(r, Targets, o) + mine(o)]
           new == [l EXCEPT !.held = {}]
<1>1. /\ walk' = [walk EXCEPT ![r] = new] /\ Waits!Return(r, count)
      /\ UNCHANGED <<rateFull, shutdown>>
  BY DEF Waits!Drops, Waits!Becomes, Waits!ReturnAll
<1>2. new \in Waits!Locals /\ new.held = {} /\ new.pc = l.pc /\ new.cand = l.cand
  BY DEF Waits!Locals
<1>3. \A o : Waits!Collected(r, Targets, o) \in Nat
  BY CollectedWaits
<1>4. count \in [Waits!Pools -> Nat]
  BY <1>3
<1>5. \A o \in Waits!Pools : o \notin Waits!Bounded => count[o] = 0
  <2> SUFFICES ASSUME NEW o \in Waits!Pools, o \notin Waits!Bounded PROVE count[o] = 0
    OBVIOUS
  <2>1. o \notin walk[r].held
    BY DEF WaitInv, Waits!TypeOK, Waits!Locals
  <2>2. {t \in Targets : o \in got[r][t]} = {}
    BY DEF WaitInv, Waits!TypeOK
  <2>3. Waits!Collected(r, Targets, o) = 0
    BY <2>2, SameOperators, FS_EmptySet DEF Waits!Collected
  <2> QED
    BY <2>1, <2>3
<1>6. /\ idle' \in [Waits!Pools -> Nat]
      /\ line' \in [Waits!Pools -> Seq(Pair \X Targets)]
      /\ got' \in [Pair -> [Targets -> SUBSET Waits!Bounded]]
      /\ \A o \in Waits!Pools : InLine(o)'
      /\ \A o \in Waits!Bounded :
           idle'[o] + Cardinality(Waits!WaitersFor(o)')
             = idle[o] + count[o] + Cardinality(Waits!WaitersFor(o))
                 - Waits!Collected(r, Targets, o)
  <2> HIDE DEF count
  <2> QED
    BY <1>1, <1>4, <1>5, ReturnGives DEF WaitInv
<1>7. Waits!TypeOK'
  <2> HIDE DEF new
  <2> QED
    BY <1>1, <1>2, <1>6 DEF WaitInv, Waits!TypeOK
<1>8. \A q \in Pair : walk'[q] = IF q = r THEN new ELSE walk[q]
  BY <1>1 DEF WaitInv, Waits!TypeOK
<1>9. \A q \in Pair : InHand(walk[q])'
  <2> HIDE DEF new
  <2> QED
    BY <1>2, <1>8 DEF WaitInv, InHand
<1>10. Waits!PermitsConserved'
  <2> SUFFICES ASSUME NEW o \in Waits!Bounded
               PROVE  (idle[o] + Waits!Cardinality(Waits!HoldersOf(o))
                         + Waits!Cardinality(Waits!WaitersFor(o)) = Limit[o])'
    BY DEF Waits!PermitsConserved
  <2>1. idle[o] + Cardinality(Waits!HoldersOf(o)) + Cardinality(Waits!WaitersFor(o)) = Limit[o]
    BY SameOperators DEF WaitInv, Waits!PermitsConserved
  <2>2. o \in Waits!Pools
    BY DEF Waits!Bounded
  <2>3. idle'[o] + Cardinality(Waits!WaitersFor(o)')
          = idle[o] + Cardinality(Waits!WaitersFor(o)) + mine(o)
    <3>1. /\ idle'[o] \in Nat /\ idle[o] \in Nat
          /\ Cardinality(Waits!WaitersFor(o)) \in Nat
          /\ Waits!Collected(r, Targets, o) \in Nat
          /\ count[o] = Waits!Collected(r, Targets, o) + mine(o)
      BY <2>2, <1>3, <1>6, HandsFinite DEF WaitInv, Waits!TypeOK
    <3>2. idle'[o] + Cardinality(Waits!WaitersFor(o)')
            = idle[o] + count[o] + Cardinality(Waits!WaitersFor(o))
                - Waits!Collected(r, Targets, o)
      BY <1>6
    <3>3. mine(o) \in Nat
      OBVIOUS
    <3> HIDE DEF mine, count
    <3> QED
      BY <3>1, <3>2, <3>3
  <2>4. Waits!HoldersOf(o)' = Waits!HoldersOf(o) \ {r}
    BY <1>2, <1>8 DEF Waits!HoldersOf
  <2>5. Cardinality(Waits!HoldersOf(o)') = Cardinality(Waits!HoldersOf(o)) - mine(o)
    <3>1. r \in Waits!HoldersOf(o) <=> o \in walk[r].held
      BY DEF Waits!HoldersOf
    <3>2. Cardinality(Waits!HoldersOf(o) \ {r})
            = IF r \in Waits!HoldersOf(o) THEN Cardinality(Waits!HoldersOf(o)) - 1
              ELSE Cardinality(Waits!HoldersOf(o))
      BY HandsFinite, FS_RemoveElement
    <3>3. Cardinality(Waits!HoldersOf(o)) \in Nat
      BY HandsFinite
    <3> QED
      BY <2>4, <3>1, <3>2, <3>3
  <2>6. /\ idle[o] \in Nat /\ idle'[o] \in Nat
        /\ Cardinality(Waits!HoldersOf(o)) \in Nat /\ Cardinality(Waits!WaitersFor(o)) \in Nat
        /\ IsFiniteSet(Waits!HoldersOf(o)) /\ IsFiniteSet(Waits!WaitersFor(o))
    BY <2>2, <1>6, HandsFinite DEF WaitInv, Waits!TypeOK
  <2>7. Cardinality(Waits!WaitersFor(o)') \in Nat
    <3>1. Waits!WaitersFor(o)' \in SUBSET (Pair \X Targets)
      BY DEF Waits!WaitersFor
    <3>2. IsFiniteSet(Pair \X Targets)
      BY WaitConstants, FS_Product
    <3> QED
      BY <3>1, <3>2, FS_Subset, FS_CardinalityType
  <2>8. mine(o) \in Nat
    OBVIOUS
  <2> HIDE DEF mine
  <2>9. idle'[o] + Cardinality(Waits!HoldersOf(o)') + Cardinality(Waits!WaitersFor(o)') = Limit[o]
    BY <2>1, <2>3, <2>5, <2>6, <2>7, <2>8
  <2> QED
    BY <2>9, SameOperators
<1> QED
  BY <1>6, <1>7, <1>9, <1>10 DEF WaitInv

\* Target, key and account in their order: the next level is one that is
\* missing (Capacity::acquire).
LEMMA NextMissing ==
  ASSUME NEW t \in Targets, NEW k, NEW have, Waits!Needed(t, k) \ have # {}
  PROVE  Waits!NextLevel(t, k, have) \in Waits!Needed(t, k) \ have
BY DEF Waits!NextLevel, Waits!Needed, Waits!Levels

\* One more in hand is one more.
LEMMA OneMore ==
  ASSUME NEW A, NEW x, IsFiniteSet(A), x \notin A
  PROVE  Cardinality(A \cup {x}) = Cardinality(A) + 1 /\ Cardinality(A) \in Nat
BY FS_AddElement, FS_CardinalityType

\* Capacity::try_acquire takes a permit of a level the admission has not got.
LEMMA TakeLevelKeeps ==
  ASSUME WaitInv, NEW r \in Pair, Waits!TakeLevel(r)
  PROVE  WaitInv'
<1> DEFINE l == walk[r]
           o == Waits!NextLevel(l.cand, l.key, l.held)
           new == [l EXCEPT !.held = l.held \cup {o}]
<1>1. l \in Waits!Locals /\ l.pc = "admit" /\ l.cand \in Targets
  BY DEF Waits!TakeLevel, Waits!At, WaitInv, Waits!TypeOK, InHand
<1>2. o \in Waits!Needed(l.cand, l.key) \ l.held /\ o \in Waits!Bounded
  BY <1>1, NextMissing DEF Waits!TakeLevel, Waits!Missing, Waits!Needed
<1>3. /\ idle[o] > 0 /\ idle' = [idle EXCEPT ![o] = idle[o] - 1]
      /\ walk' = [walk EXCEPT ![r] = new]
      /\ UNCHANGED <<line, got, rateFull, shutdown>>
  BY DEF Waits!TakeLevel, Waits!Becomes
<1> HIDE DEF o
<1>4. new \in Waits!Locals /\ new.held = l.held \cup {o} /\ new.pc = "admit" /\ new.cand = l.cand
  BY <1>1, <1>2 DEF Waits!Locals
<1> HIDE DEF new, l
<1>5. o \in Waits!Pools /\ idle \in [Waits!Pools -> Nat]
  BY <1>2 DEF Waits!Bounded, WaitInv, Waits!TypeOK
<1>6. Waits!TypeOK'
  BY <1>3, <1>4, <1>5 DEF WaitInv, Waits!TypeOK
<1>7. \A p \in Waits!Pools : InLine(p)'
  BY <1>3 DEF WaitInv, InLine
<1>8. \A q \in Pair : walk'[q] = IF q = r THEN new ELSE walk[q]
  BY <1>3 DEF WaitInv, Waits!TypeOK
<1>9. \A q \in Pair : InHand(walk[q])'
  BY <1>1, <1>4, <1>8 DEF WaitInv, InHand
<1>10. Waits!PermitsConserved'
  <2> SUFFICES ASSUME NEW p \in Waits!Bounded
               PROVE  (idle[p] + Waits!Cardinality(Waits!HoldersOf(p))
                         + Waits!Cardinality(Waits!WaitersFor(p)) = Limit[p])'
    BY DEF Waits!PermitsConserved
  <2>1. idle[p] + Cardinality(Waits!HoldersOf(p)) + Cardinality(Waits!WaitersFor(p)) = Limit[p]
    BY SameOperators DEF WaitInv, Waits!PermitsConserved
  <2>2. Waits!WaitersFor(p)' = Waits!WaitersFor(p)
    BY <1>3 DEF Waits!WaitersFor
  <2>3. CASE p = o
    <3>1. Waits!HoldersOf(p)' = Waits!HoldersOf(p) \cup {r} /\ r \notin Waits!HoldersOf(p)
      BY <1>2, <1>4, <1>8, <2>3 DEF Waits!HoldersOf, l
    <3>2. /\ Cardinality(Waits!HoldersOf(p)') = Cardinality(Waits!HoldersOf(p)) + 1
          /\ Cardinality(Waits!HoldersOf(p)) \in Nat
      BY <3>1, HandsFinite, OneMore
    <3>3. idle'[p] = idle[p] - 1 /\ idle[p] \in Nat /\ Cardinality(Waits!WaitersFor(p)) \in Nat
      BY <1>3, <1>5, <2>3, HandsFinite
    <3>4. idle'[p] + Cardinality(Waits!HoldersOf(p)') + Cardinality(Waits!WaitersFor(p)') = Limit[p]
      BY <2>1, <2>2, <3>2, <3>3
    <3> QED
      BY <3>4, SameOperators
  <2>4. CASE p # o
    <3>1. Waits!HoldersOf(p)' = Waits!HoldersOf(p)
      BY <1>4, <1>8, <2>4 DEF Waits!HoldersOf, l
    <3>2. idle'[p] = idle[p]
      BY <1>3, <1>5, <2>4 DEF Waits!Bounded
    <3> QED
      BY <2>1, <2>2, <3>1, <3>2, SameOperators
  <2> QED
    BY <2>3, <2>4
<1> QED
  BY <1>6, <1>7, <1>9, <1>10 DEF WaitInv

\* A wait that takes the permit it finds, or goes to the end of the line
\* (Capacity::acquire).
LEMMA PollKeeps ==
  ASSUME WaitInv, NEW r \in Pair, NEW t \in Targets, Waits!Poll(r, t)
  PROVE  WaitInv'
<1> DEFINE next == Waits!NextLevel(t, walk[r].awaited[t], got[r][t])
<1>0. next \in Waits!Bounded /\ next \notin got[r][t]
  BY NextMissing DEF Waits!Poll, Waits!Needed
<1> HIDE DEF next
<1>1. PICK o \in Waits!Bounded : o = next /\ o \notin got[r][t]
  BY <1>0
<1>2. /\ ~Waits!Waiting(r, t, o) /\ UNCHANGED <<rateFull, shutdown, walk>>
      /\ \/ /\ idle[o] > 0 /\ idle' = [idle EXCEPT ![o] = idle[o] - 1]
            /\ got' = [got EXCEPT ![r][t] = got[r][t] \cup {o}] /\ line' = line
         \/ line' = [line EXCEPT ![o] = Append(line[o], <<r, t>>)] /\ UNCHANGED <<idle, got>>
  BY <1>1 DEF Waits!Poll, next
<1>3. /\ o \in Waits!Pools /\ idle \in [Waits!Pools -> Nat]
      /\ line \in [Waits!Pools -> Seq(Pair \X Targets)]
      /\ got \in [Pair -> [Targets -> SUBSET Waits!Bounded]]
  BY <1>1 DEF Waits!Bounded, WaitInv, Waits!TypeOK
<1>4. ASSUME NEW i \in DOMAIN line[o] PROVE line[o][i] # <<r, t>>
  <2>1. line[o] \in Seq(Pair \X Targets)
    BY <1>3
  <2>2. i \in 1..Len(line[o])
    BY <2>1
  <2> QED
    BY <1>2, <2>2 DEF Waits!Waiting
<1>5. \A q \in Pair : InHand(walk[q])'
  BY <1>2 DEF WaitInv, InHand
<1>6. \A p : Waits!HoldersOf(p)' = Waits!HoldersOf(p)
  BY <1>2 DEF Waits!HoldersOf
<1>7. CASE /\ idle[o] > 0 /\ idle' = [idle EXCEPT ![o] = idle[o] - 1]
           /\ got' = [got EXCEPT ![r][t] = got[r][t] \cup {o}] /\ line' = line
  <2>1. got' \in [Pair -> [Targets -> SUBSET Waits!Bounded]]
    BY <1>1, <1>3, <1>7
  <2>2. \A q \in Pair, u \in Targets :
          got'[q][u] = IF q = r /\ u = t THEN got[q][u] \cup {o} ELSE got[q][u]
    BY <1>3, <1>7
  <2>3. Waits!TypeOK'
    BY <1>2, <1>3, <1>7, <2>1 DEF WaitInv, Waits!TypeOK
  <2>6. \A p, w : w \in Waits!WaitersFor(p)' <=>
                   w \in Waits!WaitersFor(p) \/ (p = o /\ w = <<r, t>>)
    <3> TAKE p, w
    <3>1. ASSUME NEW q \in Pair, NEW u \in Targets, w = <<q, u>>
          PROVE  p \in got'[w[1]][w[2]] <=>
                   p \in got[w[1]][w[2]] \/ (p = o /\ w = <<r, t>>)
      <4>1. got'[q][u] = IF q = r /\ u = t THEN got[q][u] \cup {o} ELSE got[q][u]
        BY <2>2
      <4>2. w[1] = q /\ w[2] = u
        BY <3>1
      <4>3. w = <<r, t>> <=> q = r /\ u = t
        BY <3>1
      <4> QED
        BY <4>1, <4>2, <4>3
    <3> QED
      BY <3>1 DEF Waits!WaitersFor
  <2>4. ASSUME NEW p \in Waits!Pools PROVE InLine(p)'
    <3>1. ASSUME NEW i \in DOMAIN line[p] PROVE p \notin got'[line[p][i][1]][line[p][i][2]]
      <4>1. line[p][i] \in Pair \X Targets
        BY <1>3
      <4>2. PICK q \in Pair, u \in Targets : line[p][i] = <<q, u>>
        BY <4>1
      <4>3. p \notin got[q][u]
        BY <4>2 DEF WaitInv, InLine
      <4>4. p = o => ~(q = r /\ u = t)
        BY <4>2, <1>4
      <4>5. got'[q][u] = IF q = r /\ u = t THEN got[q][u] \cup {o} ELSE got[q][u]
        BY <2>2
      <4>6. line[p][i][1] = q /\ line[p][i][2] = u
        BY <4>2
      <4>7. p \notin got'[q][u]
        BY <4>3, <4>4, <4>5
      <4> QED
        BY <4>6, <4>7
    <3> QED
      BY <3>1, <1>7 DEF WaitInv, InLine
  <2>5. ASSUME NEW p \in Waits!Bounded
        PROVE  (idle[p] + Waits!Cardinality(Waits!HoldersOf(p))
                  + Waits!Cardinality(Waits!WaitersFor(p)) = Limit[p])'
    <3>1. idle[p] + Cardinality(Waits!HoldersOf(p)) + Cardinality(Waits!WaitersFor(p)) = Limit[p]
      BY SameOperators DEF WaitInv, Waits!PermitsConserved
    <3>2. CASE p = o
      <4>1. Waits!WaitersFor(p)' = Waits!WaitersFor(p) \cup {<<r, t>>}
        BY <2>6, <3>2
      <4>2. <<r, t>> \notin Waits!WaitersFor(p)
        BY <1>1, <3>2 DEF Waits!WaitersFor
      <4>3. /\ Cardinality(Waits!WaitersFor(p)') = Cardinality(Waits!WaitersFor(p)) + 1
            /\ Cardinality(Waits!WaitersFor(p)) \in Nat
        BY <4>1, <4>2, HandsFinite, OneMore
      <4>4. idle'[p] = idle[p] - 1 /\ idle[p] \in Nat /\ Cardinality(Waits!HoldersOf(p)) \in Nat
        BY <1>3, <1>7, <3>2, HandsFinite
      <4>5. idle'[p] + Cardinality(Waits!HoldersOf(p)) + Cardinality(Waits!WaitersFor(p)')
              = Limit[p]
        BY <3>1, <4>3, <4>4
      <4> QED
        BY <4>5, <1>6, SameOperators
    <3>3. CASE p # o
      <4>1. Waits!WaitersFor(p)' = Waits!WaitersFor(p)
        <5>1. \A w : w \in Waits!WaitersFor(p)' <=> w \in Waits!WaitersFor(p)
          BY <2>6, <3>3, Zenon
        <5>2. /\ Waits!WaitersFor(p)' \subseteq Pair \X Targets
              /\ Waits!WaitersFor(p) \subseteq Pair \X Targets
          BY DEF Waits!WaitersFor
        <5> QED
          BY <5>1, <5>2
      <4>2. idle'[p] = idle[p]
        BY <1>3, <1>7, <3>3 DEF Waits!Bounded
      <4> QED
        BY <3>1, <4>1, <4>2, <1>6, SameOperators
    <3> QED
      BY <3>2, <3>3
  <2> QED
    BY <1>5, <2>3, <2>4, <2>5 DEF WaitInv, Waits!PermitsConserved
<1>8. CASE line' = [line EXCEPT ![o] = Append(line[o], <<r, t>>)] /\ UNCHANGED <<idle, got>>
  <2>1. line[o] \in Seq(Pair \X Targets) /\ <<r, t>> \in Pair \X Targets
    BY <1>3
  <2>2. /\ Append(line[o], <<r, t>>) \in Seq(Pair \X Targets)
        /\ DOMAIN Append(line[o], <<r, t>>) = 1..(Len(line[o]) + 1)
        /\ \A i \in 1..Len(line[o]) : Append(line[o], <<r, t>>)[i] = line[o][i]
        /\ Append(line[o], <<r, t>>)[Len(line[o]) + 1] = <<r, t>>
        /\ DOMAIN line[o] = 1..Len(line[o]) /\ Len(line[o]) \in Nat
    BY <2>1
  <2>3. \A p \in Waits!Pools :
          line'[p] = IF p = o THEN Append(line[o], <<r, t>>) ELSE line[p]
    BY <1>3, <1>8
  <2>4. Waits!TypeOK'
    BY <1>2, <1>3, <1>8, <2>2 DEF WaitInv, Waits!TypeOK
  <2>5. InLine(o)'
    <3> DEFINE a == Append(line[o], <<r, t>>)
    <3>1. line'[o] = a
      BY <2>3, <1>3
    <3>2. ASSUME NEW i \in DOMAIN a PROVE i \in DOMAIN line[o] \/ i = Len(line[o]) + 1
      BY <2>2
    <3>3. /\ \A i, j \in DOMAIN line[o] : line[o][i] = line[o][j] => i = j
          /\ \A i \in DOMAIN line[o] : o \notin got[line[o][i][1]][line[o][i][2]]
      BY <1>3 DEF WaitInv, InLine
    <3>4. /\ \A i \in DOMAIN line[o] : a[i] = line[o][i] /\ a[i] # <<r, t>>
          /\ a[Len(line[o]) + 1] = <<r, t>>
      BY <2>2, <1>4
    <3> HIDE DEF a
    <3>5. \A i, j \in DOMAIN a : a[i] = a[j] => i = j
      BY <3>2, <3>3, <3>4
    <3>6. \A i \in DOMAIN a : o \notin got[a[i][1]][a[i][2]]
      BY <3>2, <3>3, <3>4, <1>1
    <3> QED
      BY <3>1, <3>5, <3>6, <1>1, <1>8 DEF InLine
  <2>6. \A p \in Waits!Pools : p # o => InLine(p)'
    BY <2>3, <1>8 DEF WaitInv, InLine
  <2>7. \A p : Waits!WaitersFor(p)' = Waits!WaitersFor(p)
    BY <1>8 DEF Waits!WaitersFor
  <2>8. Waits!PermitsConserved'
    <3>1. \A p \in Waits!Bounded : idle'[p] = idle[p]
      BY <1>8
    <3> QED
      BY <3>1, <2>7, <1>6, SameOperators DEF WaitInv, Waits!PermitsConserved
  <2> QED
    BY <1>5, <2>4, <2>5, <2>6, <2>8 DEF WaitInv
<1> QED
  BY <1>2, <1>7, <1>8
\* What a wait collected for one candidate and for the others is all it collected.
LEMMA CollectedSplits ==
  ASSUME NEW r \in Pair, NEW t \in Targets, NEW o
  PROVE  Waits!Collected(r, Targets, o)
           = Waits!Collected(r, Targets \ {t}, o) + (IF o \in got[r][t] THEN 1 ELSE 0)
<1> DEFINE A == {u \in Targets : o \in got[r][u]}
           B == {u \in Targets \ {t} : o \in got[r][u]}
<1>1. IsFiniteSet(A) /\ IsFiniteSet(B)
  <2>1. A \in SUBSET Targets /\ B \in SUBSET Targets
    OBVIOUS
  <2> QED
    BY <2>1, WaitConstants, FS_Subset
<1>2. t \notin B /\ A = IF o \in got[r][t] THEN B \cup {t} ELSE B
  OBVIOUS
<1>3. Waits!Collected(r, Targets, o) = Cardinality(A)
  BY SameOperators DEF Waits!Collected
<1>4. Waits!Collected(r, Targets \ {t}, o) = Cardinality(B)
  BY SameOperators DEF Waits!Collected
<1> HIDE DEF A, B
<1>5. Cardinality(B \cup {t}) = Cardinality(B) + 1 /\ Cardinality(B) \in Nat
  BY <1>1, <1>2, OneMore
<1> QED
  BY <1>2, <1>3, <1>4, <1>5

\* The wait whose permits are complete wins: they go to the admission, what was
\* collected for other candidates goes back (select_all).
LEMMA ReadyKeeps ==
  ASSUME WaitInv, NEW r \in Pair, NEW t \in Targets, Waits!Ready(r, t)
  PROVE  WaitInv'
<1> DEFINE mine(o) == IF o \in got[r][t] THEN 1 ELSE 0
           count == [o \in Waits!Pools |-> Waits!Collected(r, Targets \ {t}, o)]
           new == [walk[r] EXCEPT !.pc = "woken", !.cand = t, !.held = got[r][t],
                                  !.awaited = Waits!Nobody, !.polling = FALSE]
<1>1. /\ walk' = [walk EXCEPT ![r] = new] /\ Waits!Return(r, count)
      /\ UNCHANGED <<rateFull, shutdown>>
      /\ Waits!Needed(t, walk[r].awaited[t]) \subseteq got[r][t]
      /\ walk[r].pc = "wait"
  BY DEF Waits!Ready, Waits!Becomes, Waits!At
<1>2. walk[r] \in Waits!Locals /\ walk[r].held = {} /\ got[r][t] \in SUBSET Waits!Bounded
  BY <1>1 DEF WaitInv, Waits!TypeOK, InHand
<1>3. /\ new \in Waits!Locals /\ new.held = got[r][t] /\ new.pc = "woken" /\ new.cand = t
  BY <1>2 DEF Waits!Locals, Waits!Nobody
<1>4. \A o : Waits!Collected(r, Targets \ {t}, o) \in Nat /\ Waits!Collected(r, Targets, o) \in Nat
  <2>1. Targets \ {t} \in SUBSET Targets /\ Targets \in SUBSET Targets
    OBVIOUS
  <2> QED
    BY <2>1, CollectedWaits
<1>5. count \in [Waits!Pools -> Nat]
  BY <1>4
<1>6. \A o \in Waits!Pools : o \notin Waits!Bounded => count[o] = 0
  <2> SUFFICES ASSUME NEW o \in Waits!Pools, o \notin Waits!Bounded PROVE count[o] = 0
    OBVIOUS
  <2>1. {u \in Targets \ {t} : o \in got[r][u]} = {}
    BY DEF WaitInv, Waits!TypeOK
  <2> QED
    BY <2>1, SameOperators, FS_EmptySet DEF Waits!Collected
<1>7. /\ idle' \in [Waits!Pools -> Nat]
      /\ line' \in [Waits!Pools -> Seq(Pair \X Targets)]
      /\ got' \in [Pair -> [Targets -> SUBSET Waits!Bounded]]
      /\ \A o \in Waits!Pools : InLine(o)'
      /\ \A o \in Waits!Bounded :
           idle'[o] + Cardinality(Waits!WaitersFor(o)')
             = idle[o] + count[o] + Cardinality(Waits!WaitersFor(o))
                 - Waits!Collected(r, Targets, o)
  <2> HIDE DEF count
  <2> QED
    BY <1>1, <1>5, <1>6, ReturnGives DEF WaitInv
<1> HIDE DEF new
<1>8. Waits!TypeOK'
  BY <1>1, <1>3, <1>7 DEF WaitInv, Waits!TypeOK
<1>9. \A q \in Pair : walk'[q] = IF q = r THEN new ELSE walk[q]
  BY <1>1 DEF WaitInv, Waits!TypeOK
<1>10. \A q \in Pair : InHand(walk[q])'
  <2>1. {t, TargetAccount[t]} \cap Waits!Bounded \subseteq got[r][t]
    BY <1>1 DEF Waits!Needed, Waits!Levels, Waits!Bounded
  <2> QED
    BY <1>3, <1>9, <2>1 DEF WaitInv, InHand
<1>11. Waits!PermitsConserved'
  <2> SUFFICES ASSUME NEW o \in Waits!Bounded
               PROVE  (idle[o] + Waits!Cardinality(Waits!HoldersOf(o))
                         + Waits!Cardinality(Waits!WaitersFor(o)) = Limit[o])'
    BY DEF Waits!PermitsConserved
  <2>1. idle[o] + Cardinality(Waits!HoldersOf(o)) + Cardinality(Waits!WaitersFor(o)) = Limit[o]
    BY SameOperators DEF WaitInv, Waits!PermitsConserved
  <2>2. o \in Waits!Pools
    BY DEF Waits!Bounded
  <2>3. /\ idle[o] \in Nat /\ idle'[o] \in Nat
        /\ Cardinality(Waits!HoldersOf(o)) \in Nat /\ Cardinality(Waits!WaitersFor(o)) \in Nat
        /\ IsFiniteSet(Waits!HoldersOf(o))
    BY <2>2, <1>7, HandsFinite DEF WaitInv, Waits!TypeOK
  <2>4. Cardinality(Waits!WaitersFor(o)') \in Nat
    <3>1. Waits!WaitersFor(o)' \in SUBSET (Pair \X Targets)
      BY DEF Waits!WaitersFor
    <3>2. IsFiniteSet(Pair \X Targets)
      BY WaitConstants, FS_Product
    <3> QED
      BY <3>1, <3>2, FS_Subset, FS_CardinalityType
  <2>5. r \notin Waits!HoldersOf(o)
    BY <1>2 DEF Waits!HoldersOf
  <2>6. Waits!HoldersOf(o)' = IF o \in got[r][t] THEN Waits!HoldersOf(o) \cup {r} ELSE Waits!HoldersOf(o)
    BY <1>2, <1>3, <1>9 DEF Waits!HoldersOf
  <2>7. Cardinality(Waits!HoldersOf(o)') = Cardinality(Waits!HoldersOf(o)) + mine(o)
    <3>1. Cardinality(Waits!HoldersOf(o) \cup {r}) = Cardinality(Waits!HoldersOf(o)) + 1
      BY <2>3, <2>5, OneMore
    <3> QED
      BY <2>3, <2>6, <3>1
  <2>8. /\ idle'[o] + Cardinality(Waits!WaitersFor(o)')
             = idle[o] + count[o] + Cardinality(Waits!WaitersFor(o)) - Waits!Collected(r, Targets, o)
        /\ count[o] = Waits!Collected(r, Targets \ {t}, o)
        /\ Waits!Collected(r, Targets, o) = Waits!Collected(r, Targets \ {t}, o) + mine(o)
    BY <1>7, <2>2, CollectedSplits
  <2>9. mine(o) \in Nat /\ Waits!Collected(r, Targets \ {t}, o) \in Nat
    BY <1>4
  <2> HIDE DEF mine, count
  <2>10. idle'[o] + Cardinality(Waits!HoldersOf(o)') + Cardinality(Waits!WaitersFor(o)') = Limit[o]
    BY <2>1, <2>3, <2>4, <2>7, <2>8, <2>9
  <2> QED
    BY <2>10, SameOperators
<1> QED
  BY <1>7, <1>8, <1>10, <1>11 DEF WaitInv

\* What a request does by itself keeps the permits in order.
LEMMA ProceedKeeps ==
  ASSUME WaitInv, NEW r \in Pair, Waits!Proceed(r)
  PROVE  WaitInv'
<1> DEFINE l == walk[r]
<1>1. /\ l \in Waits!Locals /\ InHand(l)
      /\ TargetAccount \in [Targets -> Accounts] /\ KeysOf \in [Accounts -> SUBSET PoolKeys]
  BY WaitConstants DEF WaitInv, Waits!TypeOK
<1>2. \A t \in Targets : Waits!Selectable(r, t) \subseteq PoolKeys
  BY <1>1 DEF Waits!Selectable, Waits!Pool
<1>3. CASE Waits!Top(r)
  <2>1. CASE Waits!Leave(r)
    <3>1. Waits!Unborn \in Waits!Locals /\ Waits!Unborn.pc = "new"
      BY DEF Waits!Unborn, Waits!Locals, Waits!Nobody
    <3> QED
      BY <2>1, <3>1, DropsKeeps DEF Waits!Leave
  <2>2. CASE ~Waits!Leave(r)
    <3> DEFINE new == [l EXCEPT !.pc = "scan", !.left = l.pending]
    <3>1. l.pc = "top" /\ Waits!Keeps(r, new)
      BY <1>3, <2>2 DEF Waits!Top, Waits!At
    <3>2. new \in Waits!Locals /\ new.held = l.held /\ InHand(new)
      BY <1>1, <3>1 DEF Waits!Locals, InHand
    <3> QED
      BY <3>1, <3>2, KeepsKeeps
  <2> QED
    BY <2>1, <2>2
<1>4. ASSUME NEW t \in Targets, Waits!Scan(r, t) PROVE WaitInv'
  <2> DEFINE next == [l EXCEPT !.left = l.left \ {t}]
             gone == [next EXCEPT !.pending = next.pending \ {t}]
             try(k) == [next EXCEPT !.pc = "admit", !.cand = t, !.key = k, !.woken = FALSE]
  <2>1. /\ l.pc = "scan"
        /\ \/ Waits!Keeps(r, gone)
           \/ Waits!Keeps(r, next)
           \/ \E k \in Waits!Selectable(r, t) : Waits!Keeps(r, try(k))
    BY <1>4 DEF Waits!Scan, Waits!At
  <2>2. /\ next \in Waits!Locals /\ next.held = l.held /\ next.pc = "scan"
        /\ gone \in Waits!Locals /\ gone.held = l.held /\ gone.pc = "scan"
    BY <1>1, <2>1 DEF Waits!Locals
  <2>3. InHand(next) /\ InHand(gone)
    BY <1>1, <2>1, <2>2 DEF InHand
  <2>4. ASSUME NEW k \in Waits!Selectable(r, t)
        PROVE  try(k) \in Waits!Locals /\ try(k).held = l.held /\ InHand(try(k))
    BY <1>1, <1>2, <2>1 DEF Waits!Locals, InHand
  <2> HIDE DEF next, gone, try
  <2>5. CASE Waits!Keeps(r, gone)
    BY <2>2, <2>3, <2>5, KeepsKeeps
  <2>6. CASE Waits!Keeps(r, next)
    BY <2>2, <2>3, <2>6, KeepsKeeps
  <2>7. ASSUME NEW k \in Waits!Selectable(r, t), Waits!Keeps(r, try(k)) PROVE WaitInv'
    BY <2>4, <2>7, KeepsKeeps
  <2> QED
    BY <2>1, <2>5, <2>6, <2>7
<1>5. ASSUME NEW t \in Targets, Waits!Poll(r, t) PROVE WaitInv'
  BY <1>5, PollKeeps
<1>6. ASSUME NEW t \in Targets, Waits!Ready(r, t) PROVE WaitInv'
  BY <1>6, ReadyKeeps
<1>7. CASE Waits!TakeLevel(r)
  BY <1>7, TakeLevelKeeps
<1>8. Waits!Onward(r) \in {"top", "scan"}
  BY DEF Waits!Onward
<1>9. CASE Waits!NotNow(r)
  <2> DEFINE new == [l EXCEPT !.pc = Waits!Onward(r)]
  <2>1. Waits!Drops(r, new)
    BY <1>9 DEF Waits!NotNow
  <2>2. new \in Waits!Locals /\ new.pc \in {"top", "scan"}
    BY <1>1, <1>8 DEF Waits!Locals
  <2> QED
    BY <2>1, <2>2, DropsKeeps
<1>10. CASE Waits!TurnedAway(r)
  <2> DEFINE new == [l EXCEPT !.pc = Waits!Onward(r), !.pending = l.pending \ {l.cand}]
  <2>1. Waits!Drops(r, new)
    BY <1>10 DEF Waits!TurnedAway
  <2>2. new \in Waits!Locals /\ new.pc \in {"top", "scan"}
    BY <1>1, <1>8 DEF Waits!Locals
  <2> QED
    BY <2>1, <2>2, DropsKeeps
<1>11. CASE Waits!Run(r)
  <2> DEFINE new == [l EXCEPT !.pc = "run", !.pending = l.pending \ {l.cand}]
  <2>1. /\ l.pc = "admit" /\ Waits!Needed(l.cand, l.key) \subseteq l.held
        /\ Waits!Keeps(r, new)
    BY <1>11 DEF Waits!Run, Waits!At, Waits!Missing
  <2>2. /\ new \in Waits!Locals /\ new.held = l.held /\ new.pc = "run"
        /\ new.cand = l.cand /\ new.key = l.key
    BY <1>1 DEF Waits!Locals
  <2>3. InHand(new)
    BY <1>1, <2>1, <2>2 DEF InHand
  <2> QED
    BY <2>1, <2>2, <2>3, KeepsKeeps
<1>12. CASE Waits!Resume(r)
  <2> DEFINE new == [l EXCEPT !.pc = "scan", !.pending = l.pending \cup {l.cand},
                              !.left = l.left \cup {l.cand}]
  <2>1. l.pc = "pause" /\ Waits!Keeps(r, new)
    BY <1>12 DEF Waits!Resume, Waits!At
  <2>2. l.cand \in Targets /\ l.held = {}
    BY <1>1, <2>1 DEF InHand
  <2>3. new \in Waits!Locals /\ new.held = l.held /\ new.pc = "scan"
    BY <1>1, <2>2 DEF Waits!Locals
  <2>4. InHand(new)
    BY <2>2, <2>3 DEF InHand
  <2> QED
    BY <2>1, <2>3, <2>4, KeepsKeeps
<1>13. CASE Waits!Wait(r)
  <2> DEFINE mine == l.pending
             new(k, w) == [l EXCEPT
               !.pc = "wait", !.ticket = TRUE,
               !.awaited = [t \in Targets |-> IF t \in mine THEN w[t] ELSE None],
               !.polling = \E t \in mine : Waits!CheckIsRate(t, k[t])]
  <2>1. PICK k \in [mine -> PoolKeys \cup {None}], w \in [mine -> PoolKeys \cup {None}] :
          l.pc = "scan" /\ Waits!Keeps(r, new(k, w))
    BY <1>13 DEF Waits!Wait, Waits!At
  <2>2. l.held = {}
    BY <1>1, <2>1 DEF InHand
  <2>3. /\ [t \in Targets |-> IF t \in mine THEN w[t] ELSE None] \in [Targets -> PoolKeys \cup {None}]
        /\ (\E t \in mine : Waits!CheckIsRate(t, k[t])) \in BOOLEAN
    OBVIOUS
  <2>4. new(k, w) \in Waits!Locals /\ new(k, w).held = l.held /\ new(k, w).pc = "wait"
    BY <1>1, <2>3 DEF Waits!Locals
  <2>5. InHand(new(k, w))
    BY <2>2, <2>4 DEF InHand
  <2> HIDE DEF new
  <2> QED
    BY <2>1, <2>4, <2>5, KeepsKeeps
<1>14. CASE Waits!Leave(r)
  <2>1. Waits!Unborn \in Waits!Locals /\ Waits!Unborn.pc = "new"
    BY DEF Waits!Unborn, Waits!Locals, Waits!Nobody
  <2> QED
    BY <1>14, <2>1, DropsKeeps DEF Waits!Leave
<1>15. ASSUME NEW gone \in SUBSET Targets, Waits!Again(r, gone) PROVE WaitInv'
  <2> DEFINE new == [l EXCEPT !.pc = "top", !.pending = l.pending \ gone,
                              !.awaited = Waits!Nobody, !.polling = FALSE]
  <2>1. Waits!Drops(r, new)
    BY <1>15 DEF Waits!Again
  <2>2. new \in Waits!Locals /\ new.pc = "top"
    BY <1>1 DEF Waits!Locals, Waits!Nobody
  <2> QED
    BY <2>1, <2>2, DropsKeeps
<1>16. CASE Waits!Wake(r)
  <2> DEFINE t == l.cand
             chosen(k) == [l EXCEPT !.key = k, !.woken = TRUE]
             tried(k) == [chosen(k) EXCEPT !.pc = "admit"]
             runs(k) == [chosen(k) EXCEPT !.pc = "run", !.pending = l.pending \ {t}]
             back(k) == [chosen(k) EXCEPT !.pc = "top"]
  <2>1. l.pc = "woken" /\ t \in Targets
    BY <1>1, <1>16 DEF Waits!Wake, Waits!At, InHand
  <2>2. \/ Waits!Again(r, {t})
        \/ Waits!Again(r, {})
        \/ \E k \in Waits!Selectable(r, t) :
             \/ Waits!Drops(r, tried(k))
             \/ Waits!AcceptsPermit(k) /\ Waits!Keeps(r, runs(k))
             \/ Waits!Drops(r, back(k))
    BY <1>16 DEF Waits!Wake
  <2>3. CASE Waits!Again(r, {t})
    BY <1>15, <2>1, <2>3
  <2>4. CASE Waits!Again(r, {})
    BY <1>15, <2>4
  <2>5. ASSUME NEW k \in Waits!Selectable(r, t),
               \/ Waits!Drops(r, tried(k))
               \/ Waits!AcceptsPermit(k) /\ Waits!Keeps(r, runs(k))
               \/ Waits!Drops(r, back(k))
        PROVE  WaitInv'
    <3>1. k \in PoolKeys
      BY <1>2, <2>1
    <3>2. /\ tried(k) \in Waits!Locals /\ tried(k).pc = "admit" /\ tried(k).cand = t
          /\ back(k) \in Waits!Locals /\ back(k).pc = "top"
          /\ runs(k) \in Waits!Locals /\ runs(k).pc = "run" /\ runs(k).cand = t
          /\ runs(k).key = k /\ runs(k).held = l.held
      BY <1>1, <3>1 DEF Waits!Locals
    <3>3. ASSUME Waits!AcceptsPermit(k) PROVE InHand(runs(k))
      <4>1. {t, TargetAccount[t]} \cap Waits!Bounded \subseteq l.held
        BY <1>1, <2>1 DEF InHand
      <4>2. Waits!Needed(t, k) \subseteq {t, TargetAccount[t]} \cap Waits!Bounded
        BY <3>3 DEF Waits!AcceptsPermit, Waits!Needed, Waits!Levels
      <4> QED
        BY <2>1, <3>2, <4>1, <4>2 DEF InHand
    <3> HIDE DEF tried, runs, back, t
    <3>4. CASE Waits!Drops(r, tried(k))
      BY <2>1, <3>2, <3>4, DropsKeeps
    <3>5. CASE Waits!AcceptsPermit(k) /\ Waits!Keeps(r, runs(k))
      BY <3>2, <3>3, <3>5, KeepsKeeps
    <3>6. CASE Waits!Drops(r, back(k))
      BY <3>2, <3>6, DropsKeeps
    <3> QED
      BY <2>5, <3>4, <3>5, <3>6
  <2> QED
    BY <2>2, <2>3, <2>4, <2>5
<1> QED
  BY <1>3, <1>4, <1>5, <1>6, <1>7, <1>9, <1>10, <1>11, <1>12, <1>13, <1>14, <1>16
  DEF Waits!Proceed, Waits!GiveUp, Waits!ShuttingDown

\* Neither does anything else disturb them: a request that comes, an answer, a
\* timeout, a client that goes away, a rate window, the signal to shut down.
LEMMA WaitsNext == WaitInv /\ [Waits!Next]_waitVars => WaitInv'
<1> SUFFICES ASSUME WaitInv, [Waits!Next]_waitVars PROVE WaitInv'
  OBVIOUS
<1>1. ASSUME NEW r \in Pair, Waits!Leave(r) PROVE WaitInv'
  <2>1. Waits!Unborn \in Waits!Locals /\ Waits!Unborn.pc = "new"
    BY DEF Waits!Unborn, Waits!Locals, Waits!Nobody
  <2> QED
    BY <1>1, <2>1, DropsKeeps DEF Waits!Leave
<1>2. ASSUME NEW r \in Pair, NEW plan \in Plans, NEW b \in Bindings, Waits!Start(r, plan, b)
      PROVE  WaitInv'
  <2> DEFINE new == [Waits!Unborn EXCEPT !.pc = "top", !.pending = plan, !.binding = b]
  <2>1. walk[r].held = {} /\ Waits!Keeps(r, new)
    BY <1>2 DEF Waits!Start, Waits!At, WaitInv, InHand
  <2>2. plan \in SUBSET Targets /\ b \in PoolKeys \cup {None}
    BY WaitConstants
  <2>3. new \in Waits!Locals /\ new.held = {} /\ new.pc = "top"
    BY <2>2 DEF Waits!Unborn, Waits!Locals, Waits!Nobody
  <2>4. InHand(new)
    BY <2>3 DEF InHand
  <2> QED
    BY <2>1, <2>3, <2>4, KeepsKeeps
<1>3. ASSUME NEW r \in Pair, Waits!Fail(r) PROVE WaitInv'
  <2> DEFINE new == [walk[r] EXCEPT !.pc = Waits!Onward(r)]
  <2>1. walk[r] \in Waits!Locals
    BY DEF WaitInv, Waits!TypeOK
  <2>2. new \in Waits!Locals /\ new.pc \in {"top", "scan"}
    BY <2>1 DEF Waits!Locals, Waits!Onward
  <2> QED
    BY <1>3, <2>2, DropsKeeps DEF Waits!Fail
<1>4. ASSUME NEW r \in Pair, Waits!Pause(r) PROVE WaitInv'
  <2> DEFINE new == [walk[r] EXCEPT !.pc = "pause", !.ticket = TRUE, !.retried = TRUE]
  <2>1. walk[r] \in Waits!Locals /\ walk[r].pc = "run" /\ walk[r].cand \in Targets
    BY <1>4 DEF WaitInv, Waits!TypeOK, InHand, Waits!Pause, Waits!At
  <2>2. new \in Waits!Locals /\ new.pc = "pause" /\ new.cand = walk[r].cand
    BY <2>1 DEF Waits!Locals
  <2> QED
    BY <1>4, <2>1, <2>2, DropsKeeps DEF Waits!Pause
<1>5. ASSUME NEW r \in Pair, Waits!Again(r, {}) PROVE WaitInv'
  <2> DEFINE new == [walk[r] EXCEPT !.pc = "top", !.pending = walk[r].pending \ {},
                                    !.awaited = Waits!Nobody, !.polling = FALSE]
  <2>1. walk[r] \in Waits!Locals
    BY DEF WaitInv, Waits!TypeOK
  <2>2. new \in Waits!Locals /\ new.pc = "top"
    BY <2>1 DEF Waits!Locals, Waits!Nobody
  <2> QED
    BY <1>5, <2>2, DropsKeeps DEF Waits!Again
<1>6. ASSUME NEW r \in Pair,
             Waits!Proceed(r) \/ Waits!Answer(r) \/ Waits!Timeout(r) \/ Waits!Disconnect(r)
      PROVE  WaitInv'
  BY <1>1, <1>3, <1>4, <1>5, <1>6, ProceedKeeps
  DEF Waits!Answer, Waits!Finish, Waits!Timeout, Waits!Disconnect
<1>7. ASSUME rateFull' \in SUBSET RateBound, shutdown' \in BOOLEAN, UNCHANGED <<idle, line, got, walk>>
      PROVE  WaitInv'
  <2>1. Waits!TypeOK'
    BY <1>7 DEF WaitInv, Waits!TypeOK
  <2>2. (\A o \in Waits!Pools : InLine(o)') /\ \A r \in Pair : InHand(walk[r])'
    BY <1>7 DEF WaitInv, InLine, InHand
  <2>3. Waits!PermitsConserved'
    BY <1>7 DEF WaitInv, Waits!PermitsConserved, Waits!HoldersOf, Waits!WaitersFor
  <2> QED
    BY <2>1, <2>2, <2>3 DEF WaitInv
<1>8. ASSUME NEW o \in RateBound, Waits!RateFills(o) \/ Waits!RateFrees(o) PROVE WaitInv'
  BY <1>7, <1>8 DEF Waits!RateFills, Waits!RateFrees, WaitInv, Waits!TypeOK
<1>9. CASE Waits!Shutdown
  BY <1>7, <1>9 DEF Waits!Shutdown, WaitInv, Waits!TypeOK
<1>10. CASE UNCHANGED waitVars
  BY <1>7, <1>10 DEF waitVars, WaitInv, Waits!TypeOK
<1> QED
  BY <1>2, <1>6, <1>8, <1>9, <1>10 DEF Waits!Next

\* At first every permit is idle.
LEMMA WaitsInit == Waits!Init => WaitInv
<1> SUFFICES ASSUME Waits!Init PROVE WaitInv
  OBVIOUS
<1>1. /\ idle = [o \in Waits!Pools |-> IF o \in Waits!Bounded THEN Limit[o] ELSE 0]
      /\ line = [o \in Waits!Pools |-> <<>>]
      /\ got = [r \in Pair |-> Waits!NoPermit]
      /\ rateFull = {} /\ shutdown = FALSE
      /\ walk = [r \in Pair |-> Waits!Unborn]
  BY DEF Waits!Init
<1>2. /\ Waits!Unborn \in Waits!Locals /\ Waits!Unborn.pc = "new" /\ Waits!Unborn.held = {}
      /\ Waits!NoPermit \in [Targets -> SUBSET Waits!Bounded]
      /\ \A t \in Targets : Waits!NoPermit[t] = {}
  BY DEF Waits!Unborn, Waits!Locals, Waits!Nobody, Waits!NoPermit
<1>3. \A o \in Waits!Bounded : o \in Waits!Pools /\ Limit[o] \in Nat /\ idle[o] = Limit[o]
  BY <1>1, WaitConstants DEF Waits!Bounded
<1>4. Waits!TypeOK
  <2>1. idle \in [Waits!Pools -> Nat]
    BY <1>1, <1>3
  <2>2. line \in [Waits!Pools -> Seq(Pair \X Targets)]
    BY <1>1
  <2> QED
    BY <1>1, <1>2, <2>1, <2>2 DEF Waits!TypeOK
<1>5. \A o \in Waits!Pools : InLine(o)
  <2> SUFFICES ASSUME NEW o \in Waits!Pools PROVE InLine(o)
    OBVIOUS
  <2>1. line[o] = <<>> /\ DOMAIN line[o] = {}
    BY <1>1
  <2> QED
    BY <2>1 DEF InLine
<1>6. \A r \in Pair : InHand(walk[r])
  BY <1>1, <1>2 DEF InHand
<1>7. Waits!PermitsConserved
  <2> SUFFICES ASSUME NEW o \in Waits!Bounded
               PROVE  idle[o] + Waits!Cardinality(Waits!HoldersOf(o))
                        + Waits!Cardinality(Waits!WaitersFor(o)) = Limit[o]
    BY DEF Waits!PermitsConserved
  <2>1. Waits!HoldersOf(o) = {} /\ Waits!WaitersFor(o) = {}
    BY <1>1, <1>2 DEF Waits!HoldersOf, Waits!WaitersFor
  <2>2. Cardinality({}) = 0
    BY FS_EmptySet
  <2> QED
    BY <1>3, <2>1, <2>2, SameOperators
<1> QED
  BY <1>4, <1>5, <1>6, <1>7 DEF WaitInv

\* The part that is on is one from the beginning.
LEMMA WaitsAlways == LimitsSpec => [](part = "waits" => WaitInv)
<1>1. LimitsInit => (part = "waits" => WaitInv)
  BY WaitsInit DEF LimitsInit
<1>2. (part = "waits" => WaitInv) /\ [LimitsNext]_limitVars => (part = "waits" => WaitInv)'
  <2> SUFFICES ASSUME part = "waits" => WaitInv, [LimitsNext]_limitVars, part' = "waits"
               PROVE  WaitInv'
    OBVIOUS
  <2>1. part = "waits" /\ [Waits!Next]_waitVars
    BY DEF LimitsNext, limitVars
  <2> QED
    BY <2>1, WaitsNext
<1> QED
  BY <1>1, <1>2, PTL DEF LimitsSpec

\* The budgets of an account, its keys and targets: what is proved of Health
\* holds of its instance.
LEMMA BudgetsAlways ==
  LimitsSpec => [](part = "budgets" =>
                     Budgets!TypeOK /\ Budgets!Attached /\ Budgets!PermitsConserved)
<1> DEFINE B == Budgets!TypeOK /\ Budgets!Attached /\ Budgets!PermitsConserved
<1>1. Budgets!Init => B
  BY LimitsAssumption, Budgets!InitTyped, Budgets!InitTrials, Budgets!InitConserves
  DEF Budgets!HealthAssumption, Budgets!CircuitAssumption
<1>2. B /\ [Budgets!Next]_budgetVars => B'
  <2>1. UNCHANGED budgetVars => UNCHANGED Budgets!vars
    BY DEF budgetVars, Budgets!vars, Budgets!circuitVars, Budgets!keyVars, Budgets!budgetVars,
       Budgets!reqVars
  <2> QED
    BY <2>1, LimitsAssumption, Budgets!NextTyped, Budgets!NextAttached, Budgets!NextConserves
    DEF Budgets!HealthAssumption, Budgets!CircuitAssumption
<1> HIDE DEF B
<1>3. LimitsInit => (part = "budgets" => B)
  BY <1>1 DEF LimitsInit
<1>4. (part = "budgets" => B) /\ [LimitsNext]_limitVars => (part = "budgets" => B)'
  <2> SUFFICES ASSUME part = "budgets" => B, [LimitsNext]_limitVars, part' = "budgets" PROVE B'
    OBVIOUS
  <2>1. part = "budgets" /\ [Budgets!Next]_budgetVars
    BY DEF LimitsNext, limitVars
  <2> QED
    BY <1>2, <2>1
<1>5. LimitsSpec => [](part = "budgets" => B)
  BY <1>3, <1>4, PTL DEF LimitsSpec
<1> QED
  BY <1>5 DEF B

\* Permits are neither lost nor minted, in the registry and in the waits, for
\* any numbers of requests, targets, keys and accounts and any limits: what is
\* idle, held and collected adds up at every step of every interleaving.
THEOREM PermitsStayConserved == LimitsSpec => []PermitsConserved
<1>1. (part = "waits" => WaitInv) => (part = "waits" => Waits!TypeOK /\ Waits!PermitsConserved)
  BY DEF WaitInv
<1>2. (part = "budgets" => Budgets!TypeOK /\ Budgets!Attached /\ Budgets!PermitsConserved)
        => (part = "budgets" => Budgets!TypeOK /\ Budgets!PermitsConserved)
  OBVIOUS
<1> QED
  BY <1>1, <1>2, WaitsAlways, BudgetsAlways, PTL DEF PermitsConserved

\* A calibration that finds more permits than the limit takes every idle one
\* away, whatever requests are under way.
THEOREM ShrinkingBinds == LimitsSpec => ShrinkLeavesNoIdle
<1>1. (part = "budgets" => Budgets!TypeOK /\ Budgets!Attached /\ Budgets!PermitsConserved)
        /\ [LimitsNext]_limitVars => [part = "budgets" => Budgets!NoIdleOver]_limitVars
  <2> SUFFICES ASSUME part = "budgets" => Budgets!TypeOK, LimitsNext, part = "budgets"
               PROVE  Budgets!NoIdleOver
    OBVIOUS
  <2>1. Budgets!Next
    BY DEF LimitsNext
  <2> QED
    BY <2>1, LimitsAssumption, Budgets!NextNoIdleOver
    DEF Budgets!HealthAssumption, Budgets!CircuitAssumption
<1> QED
  BY <1>1, BudgetsAlways, PTL DEF LimitsSpec, ShrinkLeavesNoIdle

\* A step is of one request, and an attempt that runs ends before another one
\* of the request begins.
LEMMA OneWalks ==
  ASSUME WaitInv, Waits!Next
  PROVE  \/ walk' = walk
         \/ \E r \in Pair, l \in Waits!Locals :
              /\ walk' = [walk EXCEPT ![r] = l]
              /\ walk[r].pc = "run" => l.pc # "run"
<1> DEFINE Moves(r) == \E l \in Waits!Locals :
                         /\ walk' = [walk EXCEPT ![r] = l]
                         /\ walk[r].pc = "run" => l.pc # "run"
<1>1. \A q \in Pair : walk'[q] \in Waits!Locals
  <2>1. WaitInv'
    BY WaitsNext
  <2> QED
    BY <2>1 DEF WaitInv, Waits!TypeOK
<1>2. walk \in [Pair -> Waits!Locals]
  BY DEF WaitInv, Waits!TypeOK
<1>3. ASSUME NEW r \in Pair, NEW l, walk' = [walk EXCEPT ![r] = l], walk[r].pc = "run" => l.pc # "run"
      PROVE  Moves(r)
  BY <1>1, <1>2, <1>3
<1> HIDE DEF Moves
<1>4. ASSUME NEW r \in Pair, NEW l, l.pc # "run" \/ walk[r].pc # "run",
             Waits!Keeps(r, l)
      PROVE  Moves(r)
  BY <1>3, <1>4 DEF Waits!Keeps, Waits!Becomes
<1>5. ASSUME NEW r \in Pair, NEW l \in Waits!Locals, l.pc # "run" \/ walk[r].pc # "run",
             Waits!Drops(r, l)
      PROVE  Moves(r)
  <2> DEFINE new == [l EXCEPT !.held = {}]
  <2>1. new.pc = l.pc /\ walk' = [walk EXCEPT ![r] = new]
    BY <1>5 DEF Waits!Drops, Waits!Becomes, Waits!Locals
  <2> HIDE DEF new
  <2> QED
    BY <1>3, <1>5, <2>1
<1>6. ASSUME NEW r \in Pair, Waits!Leave(r) PROVE Moves(r)
  <2>1. Waits!Unborn \in Waits!Locals /\ Waits!Unborn.pc = "new"
    BY DEF Waits!Unborn, Waits!Locals, Waits!Nobody
  <2> QED
    BY <1>5, <1>6, <2>1 DEF Waits!Leave
<1>7. ASSUME NEW r \in Pair, walk[r].pc # "run", NEW l,
             \/ Waits!Keeps(r, l) \/ Waits!Drops(r, l) \/ Waits!Becomes(r, l)
      PROVE  Moves(r)
  BY <1>3, <1>7 DEF Waits!Keeps, Waits!Drops, Waits!Becomes
<1>8. ASSUME NEW r \in Pair, NEW l, Waits!Drops(r, [walk[r] EXCEPT !.pc = l]), l # "run" PROVE Moves(r)
  <2> DEFINE new == [[walk[r] EXCEPT !.pc = l] EXCEPT !.held = {}]
  <2>1. new.pc = l /\ walk' = [walk EXCEPT ![r] = new]
    BY <1>2, <1>8 DEF Waits!Drops, Waits!Becomes, Waits!Locals
  <2> HIDE DEF new
  <2> QED
    BY <1>3, <1>8, <2>1
<1>9. ASSUME NEW r \in Pair, Waits!Answer(r) PROVE Moves(r)
  <2>1. CASE Waits!Finish(r)
    BY <1>6, <2>1 DEF Waits!Finish
  <2>2. CASE Waits!Fail(r)
    BY <1>8, <2>2 DEF Waits!Fail, Waits!Onward
  <2>3. CASE Waits!Pause(r)
    <3> DEFINE new == [walk[r] EXCEPT !.pc = "pause", !.ticket = TRUE, !.retried = TRUE]
    <3>1. new \in Waits!Locals /\ new.pc = "pause"
      BY <1>2 DEF Waits!Locals
    <3> QED
      BY <1>5, <2>3, <3>1 DEF Waits!Pause
  <2> QED
    BY <1>9, <2>1, <2>2, <2>3 DEF Waits!Answer
<1>10. ASSUME NEW r \in Pair, Waits!Proceed(r) PROVE Moves(r) \/ walk' = walk
  <2>1. CASE walk[r].pc = "run"
    BY <1>6, <1>10, <2>1
    DEF Waits!Proceed, Waits!Top, Waits!Scan, Waits!Poll, Waits!Ready, Waits!TakeLevel,
        Waits!NotNow, Waits!Run, Waits!TurnedAway, Waits!Resume, Waits!Wait, Waits!GiveUp,
        Waits!ShuttingDown, Waits!Wake, Waits!At
  <2>2. CASE walk[r].pc # "run"
    <3>1. ASSUME NEW t \in Targets, Waits!Poll(r, t) PROVE walk' = walk
      BY <3>1 DEF Waits!Poll
    <3>2. ASSUME NEW t \in Targets, Waits!Scan(r, t) \/ Waits!Ready(r, t) PROVE Moves(r)
      BY <1>7, <2>2, <3>2 DEF Waits!Scan, Waits!Ready
    <3>3. CASE Waits!Top(r) \/ Waits!TakeLevel(r) \/ Waits!NotNow(r)
      BY <1>6, <1>7, <2>2, <3>3 DEF Waits!Top, Waits!TakeLevel, Waits!NotNow
    <3>4. CASE Waits!Run(r) \/ Waits!TurnedAway(r) \/ Waits!Resume(r)
      BY <1>7, <2>2, <3>4 DEF Waits!Run, Waits!TurnedAway, Waits!Resume
    <3>5. CASE Waits!Wait(r) \/ Waits!GiveUp(r) \/ Waits!ShuttingDown(r)
      BY <1>6, <1>7, <2>2, <3>5 DEF Waits!Wait, Waits!GiveUp, Waits!ShuttingDown
    <3>6. CASE Waits!Wake(r)
      BY <1>7, <2>2, <3>6 DEF Waits!Wake, Waits!Again
    <3> QED
      BY <1>10, <3>1, <3>2, <3>3, <3>4, <3>5, <3>6 DEF Waits!Proceed
  <2> QED
    BY <2>1, <2>2
<1>11. ASSUME NEW r \in Pair, Waits!Timeout(r) \/ Waits!Disconnect(r) PROVE Moves(r)
  <2>1. CASE Waits!Leave(r)
    BY <1>6, <2>1
  <2>2. CASE walk[r].pc # "run" /\ Waits!Again(r, {})
    BY <1>7, <2>2 DEF Waits!Again
  <2> QED
    BY <1>11, <2>1, <2>2 DEF Waits!Timeout, Waits!Disconnect, Waits!At
<1>12. ASSUME NEW r \in Pair, NEW plan, NEW b, Waits!Start(r, plan, b) PROVE Moves(r)
  BY <1>7, <1>12 DEF Waits!Start, Waits!At
<1>13. (\E r \in Pair : Moves(r)) \/ walk' = walk
  BY <1>9, <1>10, <1>11, <1>12
  DEF Waits!Next, Waits!RateFills, Waits!RateFrees, Waits!Shutdown
<1> QED
  BY <1>13 DEF Moves

\* An attempt holds a permit of every bounded level it uses, so that as many
\* attempts run on a level as its limit allows (Walk::wait_and_run).
LEMMA RunsWithin ==
  ASSUME WaitInv, Waits!Next
  PROVE  Waits!Attempts!Next \/ UNCHANGED Waits!Running
<1> DEFINE Uses(l) == IF l.pc = "run" THEN Waits!Needed(l.cand, l.key) ELSE {}
<1>1. WaitInv'
  BY WaitsNext
<1>2. /\ Waits!Running = [q \in Pair |-> Uses(walk[q])]
      /\ Waits!Running' = [q \in Pair |-> Uses(walk'[q])]
  BY DEF Waits!Running, Waits!At
<1>3. \A l : Uses(l) \subseteq Waits!Bounded
  BY DEF Waits!Needed
<1>4. CASE walk' = walk
  BY <1>2, <1>4
<1>5. ASSUME NEW r \in Pair, NEW l \in Waits!Locals, walk' = [walk EXCEPT ![r] = l],
             walk[r].pc = "run" => l.pc # "run"
      PROVE  Waits!Attempts!Next \/ UNCHANGED Waits!Running
  <2>1. \A q \in Pair : walk'[q] = IF q = r THEN l ELSE walk[q]
    BY <1>5 DEF WaitInv, Waits!TypeOK
  <2>2. Waits!Running' = [Waits!Running EXCEPT ![r] = Uses(l)]
    <3> HIDE DEF Uses
    <3> QED
      BY <1>2, <2>1
  <2>3. Waits!Running[r] = Uses(walk[r])
    BY <1>2
  <2>4. CASE walk[r].pc = "run"
    <3>1. Uses(l) = {}
      BY <1>5, <2>4
    <3>2. CASE Uses(walk[r]) = {}
      <4> HIDE DEF Uses
      <4>1. \A q \in Pair : Uses(walk'[q]) = Uses(walk[q])
        BY <2>1, <3>1, <3>2
      <4> QED
        BY <1>2, <4>1
    <3>3. CASE Uses(walk[r]) # {}
      <4>1. Waits!Attempts!End(r)
        BY <2>2, <2>3, <3>1, <3>3 DEF Waits!Attempts!End
      <4> QED
        BY <4>1 DEF Waits!Attempts!Next
    <3> QED
      BY <3>2, <3>3
  <2>5. CASE walk[r].pc # "run"
    <3>1. Waits!Running[r] = {}
      BY <2>3, <2>5
    <3>2. ASSUME NEW o \in Uses(l)
          PROVE  Waits!Attempts!Cardinality(Waits!Attempts!Users(o)) < Limit[o]
      <4> DEFINE U == Waits!Attempts!Users(o)
                 H == {q \in Pair : o \in walk'[q].held}
                 W == Waits!WaitersFor(o)'
      <4>1. o \in Waits!Bounded /\ o \in Waits!Pools
        BY <1>3, <3>2 DEF Waits!Bounded
      <4>2. H = Waits!HoldersOf(o)'
        BY DEF Waits!HoldersOf
      <4>3. \A q \in Pair : Uses(walk'[q]) \subseteq walk'[q].held
        BY <1>1 DEF WaitInv, InHand
      <4>4. r \in H
        BY <2>1, <3>2, <4>3
      <4>5. U = {q \in Pair : o \in Uses(walk[q])}
        BY <1>2 DEF Waits!Attempts!Users
      <4>6. U \in SUBSET (H \ {r})
        <5> HIDE DEF Uses
        <5>1. \A q \in U : q # r
          BY <2>3, <3>1, <4>5
        <5>2. \A q \in U : q \in Pair /\ o \in Uses(walk'[q])
          BY <2>1, <4>5, <5>1
        <5> QED
          BY <4>3, <5>1, <5>2
      <4>7. /\ idle'[o] + Cardinality(H) + Cardinality(W) = Limit[o]
            /\ idle'[o] \in Nat
        BY <1>1, <4>1, <4>2, SameOperators DEF WaitInv, Waits!PermitsConserved, Waits!TypeOK
      <4>8. IsFiniteSet(H) /\ Cardinality(H) \in Nat
        <5>1. H \in SUBSET Pair
          OBVIOUS
        <5> QED
          BY <5>1, WaitConstants, FS_Subset, FS_CardinalityType
      <4>9. Cardinality(W) \in Nat
        <5>1. W \in SUBSET (Pair \X Targets) /\ IsFiniteSet(Pair \X Targets)
          BY WaitConstants, FS_Product DEF Waits!WaitersFor
        <5> QED
          BY <5>1, FS_Subset, FS_CardinalityType
      <4> HIDE DEF U, H, W
      <4>10. IsFiniteSet(H \ {r}) /\ Cardinality(H \ {r}) = Cardinality(H) - 1
        BY <4>4, <4>8, FS_RemoveElement
      <4>11. Cardinality(U) <= Cardinality(H) - 1 /\ Cardinality(U) \in Nat
        BY <4>6, <4>10, FS_Subset, FS_CardinalityType
      <4>12. Cardinality(U) < Limit[o]
        BY <4>7, <4>8, <4>9, <4>11
      <4>13. Waits!Attempts!Cardinality(U) = Cardinality(U)
        BY DEF Waits!Attempts!Cardinality, Cardinality
      <4> QED
        BY <4>12, <4>13 DEF U
    <3>3. Waits!Attempts!Begin(r, Uses(l))
      <4> HIDE DEF Uses
      <4> QED
        BY <2>2, <3>1, <3>2 DEF Waits!Attempts!Begin
    <3>4. Uses(l) \in SUBSET Waits!Bounded
      BY <1>3
    <3> HIDE DEF Uses
    <3> QED
      BY <3>3, <3>4 DEF Waits!Attempts!Next
  <2> QED
    BY <2>4, <2>5
<1> QED
  BY <1>4, <1>5, OneWalks

\* The permits implement what max_concurrency promises, for any numbers of
\* requests and levels and any limits: an attempt starts, at once or after a
\* wait, only when its target, key and account are below theirs.
THEOREM LimitsAreKept == LimitsSpec => LimitsHold
<1>1. LimitsInit => (part = "waits" => Waits!Attempts!Init)
  <2> SUFFICES ASSUME Waits!Init PROVE Waits!Attempts!Init
    BY DEF LimitsInit
  <2>1. \A r \in Pair : walk[r].pc = "new"
    BY DEF Waits!Init, Waits!Unborn
  <2> QED
    BY <2>1 DEF Waits!Attempts!Init, Waits!Running, Waits!At
<1>2. (part = "waits" => WaitInv) /\ [LimitsNext]_limitVars
        => [part = "waits" => Waits!Attempts!Next \/ UNCHANGED Waits!Running]_limitVars
  <2> SUFFICES ASSUME part = "waits" => WaitInv, LimitsNext, part = "waits"
               PROVE  Waits!Attempts!Next \/ UNCHANGED Waits!Running
    OBVIOUS
  <2>1. Waits!Next
    BY DEF LimitsNext
  <2> QED
    BY <2>1, RunsWithin
<1> QED
  BY <1>1, <1>2, WaitsAlways, PTL DEF LimitsSpec, LimitsHold
=============================================================================
