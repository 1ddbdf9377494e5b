--------------------------- MODULE RequestProofs ---------------------------
(***************************************************************************)
(* Proofs about a request (Walk, MCRequests): however its attempts, waits, *)
(* key switches and retries follow one another, the walk keeps its types,  *)
(* uses degraded candidates and lower layers only when what is better is   *)
(* settled, and sends a bounded number of attempts to a target.  The       *)
(* invariant says where a request may be, that what it still looks at,     *)
(* waits for and has sent to are apart, that no candidate is skipped, and  *)
(* what every target may have cost so far.                                 *)
(*                                                                         *)
(* Of the delivery (Delivery): it keeps its types, and the client hears    *)
(* one upstream and nothing after an error.  The invariant says that       *)
(* before the end nothing that is held or was given tells an error, and    *)
(* that nothing is given before the commitment.                            *)
(*                                                                         *)
(* And nothing is lost: at every moment there is a number c such that the  *)
(* client has what it is to get of the first c frames, and what is held    *)
(* and not yet given tells of the frames from c + 1 to those that have     *)
(* come whole.  A row is what a sequence of pieces or frames tells of a    *)
(* stretch of numbers; the lemmas say how rows follow each other through   *)
(* the buffer, the half frames, the filters and the settlement.            *)
(***************************************************************************)
EXTENDS MCRequests, SubsequenceProofs, SequenceTheorems

Going == pc \in {"try", "wait", "run"}
InLayers == Going /\ stage # "bound"

\* Where a request may be.
Places ==
  /\ pc = "plan" => attempted = <<>> /\ todo = <<>> /\ busy = {} /\ ~retried /\ bound = None
                    /\ stage = "bound"
  /\ pc = "try" => stage # "bound"
  /\ pc = "wait" \/ (pc = "run" /\ back = "wait") => todo = <<>>
  /\ pc = "run" => cand \in Targets /\ key \in Keys
  /\ pc = "run" /\ stage = "bound" => back = "wait" /\ cand = bound
  /\ Going /\ stage = "bound" => bound \in Targets /\ busy \subseteq {bound}
  /\ InLayers => layer \in DOMAIN plan
  /\ InLayers /\ stage = "lossless" => Elements(todo) \cup busy \subseteq Elements(plan[layer].lossless)
  /\ InLayers /\ stage = "degraded" => Elements(todo) \cup busy \subseteq Elements(plan[layer].degraded)

\* What is still to be looked at, what is waited for and what was sent to are apart.
Apart ==
  /\ Going => \A t \in busy : ~TriedBefore(t) /\ t \notin Elements(todo)
  /\ NoRepeats(todo)
  /\ pc = "run" => TriedBefore(cand) /\ cand \notin Elements(todo)
  /\ \A t \in Targets : TriedBefore(t) => seen[t] = "sent"

Rest(t) == t \in Elements(todo) \/ t \in busy

NoneSkipped ==
  InLayers =>
    /\ \A i \in 1..(layer - 1) : \A t \in Members(plan[i]) : Settled(t)
    /\ stage = "lossless" =>
         LimitReached \/ \A t \in Elements(plan[layer].lossless) : Settled(t) \/ Rest(t)
    /\ stage = "degraded" =>
         /\ \/ \A t \in Elements(plan[layer].lossless) : Settled(t)
            \/ LimitReached /\ pc = "try" /\ busy = {}
         /\ LimitReached \/ \A t \in Elements(plan[layer].degraded) : Settled(t) \/ Rest(t)

Base(t) == IF retried /\ t = bound THEN MaxSwitches + 1 ELSE 0
Spent(t) ==
  IF ~TriedBefore(t) THEN 0
  ELSE IF pc = "run" /\ t = cand THEN switches + 1 ELSE MaxSwitches + 1
Counted == \A t \in Targets : sends[t] <= Base(t) + Spent(t)

WalkInv == TypeOK /\ Places /\ Apart /\ NoneSkipped /\ Counted

\* The head and the rest of a sequence.
LEMMA OfTail ==
  ASSUME NEW T, NEW s \in Seq(T), s # <<>>
  PROVE  /\ Head(s) \in T /\ Tail(s) \in Seq(T)
         /\ Elements(s) = {Head(s)} \cup Elements(Tail(s))
         /\ NoRepeats(s) => NoRepeats(Tail(s)) /\ Head(s) \notin Elements(Tail(s))
<1>1. Len(s) \in Nat \ {0} /\ DOMAIN s = 1..Len(s) /\ Head(s) = s[1]
  OBVIOUS
<1>2. Tail(s) \in Seq(T) /\ DOMAIN Tail(s) = 1..(Len(s) - 1)
  OBVIOUS
<1>3. \A i \in 1..(Len(s) - 1) : Tail(s)[i] = s[i + 1] /\ i + 1 \in 1..Len(s)
  OBVIOUS
<1>4. \A i \in 1..Len(s) : i = 1 \/ (i - 1 \in 1..(Len(s) - 1) /\ Tail(s)[i - 1] = s[i])
  BY <1>1, <1>3
<1>5. Elements(s) = {Head(s)} \cup Elements(Tail(s))
  <2>1. \A x \in Elements(s) : x = Head(s) \/ x \in Elements(Tail(s))
    BY <1>1, <1>2, <1>4 DEF Elements
  <2>2. \A x \in Elements(Tail(s)) : x \in Elements(s)
    BY <1>1, <1>2, <1>3 DEF Elements
  <2>3. Head(s) \in Elements(s)
    BY <1>1 DEF Elements
  <2> QED
    BY <2>1, <2>2, <2>3
<1>6. ASSUME NoRepeats(s) PROVE NoRepeats(Tail(s)) /\ Head(s) \notin Elements(Tail(s))
  BY <1>1, <1>2, <1>3, <1>6 DEF Elements, NoRepeats
<1> QED
  BY <1>1, <1>2, <1>5, <1>6

\* Nothing is in the empty sequence.
LEMMA OfEmpty == Elements(<<>>) = {} /\ NoRepeats(<<>>)
  BY DEF Elements, NoRepeats

\* The targets that were sent to, when one is added or forgotten.
LEMMA TriedAppend ==
  ASSUME attempted \in Seq(Targets \X Keys), NEW t \in Targets, NEW k \in Keys,
         attempted' = Append(attempted, <<t, k>>)
  PROVE  /\ attempted' \in Seq(Targets \X Keys)
         /\ \A u : TriedBefore(u)' <=> (TriedBefore(u) \/ u = t)
         /\ LimitReached => LimitReached'
<1>1. /\ attempted' \in Seq(Targets \X Keys) /\ Len(attempted') = Len(attempted) + 1
      /\ DOMAIN attempted = 1..Len(attempted) /\ DOMAIN attempted' = 1..(Len(attempted) + 1)
      /\ Len(attempted) \in Nat
  OBVIOUS
<1>2. /\ \A i \in 1..Len(attempted) : attempted'[i] = attempted[i]
      /\ attempted'[Len(attempted) + 1] = <<t, k>>
  OBVIOUS
<1>3. \A u : TriedBefore(u)' <=> (TriedBefore(u) \/ u = t)
  BY <1>1, <1>2 DEF TriedBefore
<1>4. LimitReached => LimitReached'
  BY <1>1, WalkAssumption DEF LimitReached
<1> QED
  BY <1>1, <1>3, <1>4

\* forget_attempt: the pairs of one target go, the others stay.
LEMMA TriedForget ==
  ASSUME attempted \in Seq(Targets \X Keys), NEW t \in Targets,
         attempted' = Keep(attempted, (Targets \ {t}) \X Keys)
  PROVE  /\ attempted' \in Seq(Targets \X Keys)
         /\ \A u : TriedBefore(u)' <=> (TriedBefore(u) /\ u # t)
<1>1. /\ attempted' \in Seq(Targets \X Keys)
      /\ Elements(attempted') = Elements(attempted) \cap ((Targets \ {t}) \X Keys)
  BY KeepElements
<1>2. \A u : TriedBefore(u) <=> \E a \in Elements(attempted) : a[1] = u
  BY DEF TriedBefore, Elements
<1>3. \A u : TriedBefore(u)' <=> \E a \in Elements(attempted') : a[1] = u
  BY DEF TriedBefore, Elements
<1>4. Elements(attempted) \subseteq Targets \X Keys
  BY DEF Elements
<1>5. \A a \in Targets \X Keys : a \in (Targets \ {t}) \X Keys <=> a[1] # t
  OBVIOUS
<1> QED
  BY <1>1, <1>2, <1>3, <1>4, <1>5

\* The layers of a plan.
LEMMA OfPlan ==
  ASSUME TypeOK
  PROVE  /\ plan \in Seq(Layer) /\ Len(plan) \in Nat /\ DOMAIN plan = 1..Len(plan)
         /\ \A i \in DOMAIN plan :
              /\ plan[i].lossless \in Seq(Targets) /\ plan[i].degraded \in Seq(Targets)
              /\ NoRepeats(plan[i].lossless) /\ NoRepeats(plan[i].degraded)
              /\ Elements(plan[i].lossless) \cap Elements(plan[i].degraded) = {}
              /\ Members(plan[i]) = Elements(plan[i].lossless) \cup Elements(plan[i].degraded)
              /\ Members(plan[i]) \subseteq Targets
         /\ \A i, j \in DOMAIN plan : i # j => Members(plan[i]) \cap Members(plan[j]) = {}
<1>1. plan \in Seq(Layer) /\ EachOnce(plan)
  BY WalkAssumption DEF TypeOK
<1>2. \A i \in DOMAIN plan : plan[i] \in Layer
  BY <1>1
<1>3. \A i \in DOMAIN plan : plan[i].lossless \in Seq(Targets) /\ plan[i].degraded \in Seq(Targets)
  BY <1>2 DEF Layer
<1>4. \A s \in Seq(Targets) : Elements(s) \subseteq Targets
  BY DEF Elements
<1>5. \A i \in DOMAIN plan : Members(plan[i]) = Elements(plan[i].lossless) \cup Elements(plan[i].degraded)
  BY DEF Members
<1>6. \A i \in DOMAIN plan : Members(plan[i]) \subseteq Targets
  BY <1>3, <1>4, <1>5
<1>7. Len(plan) \in Nat /\ DOMAIN plan = 1..Len(plan)
  BY <1>1
<1> QED
  BY <1>1, <1>3, <1>5, <1>6, <1>7, Zenon DEF EachOnce

\* The keys of a target are keys.
LEMMA KeysAreKeys == \A t \in Targets : KeysOf[t] \subseteq Keys
  BY DEF Keys

\* A request starts with the invariant.
LEMMA WalkStarts == Init => WalkInv
<1> SUFFICES ASSUME Init PROVE WalkInv
  OBVIOUS
<1>1. TypeOK
  <2>1. {opaque, filtered, retryAfter, retried} \subseteq BOOLEAN
    BY DEF Init
  <2>2. attempted \in Seq(Targets \X Keys) /\ todo \in Seq(Targets) /\ plan \in Plans
    BY DEF Init
  <2>3. layer \in Nat /\ switches \in 0..MaxSwitches /\ opaques \in 0..MaxRejections /\ efforts \in 0..MaxRejections
    BY WalkAssumption DEF Init
  <2>4. seen \in [Targets -> {"new", "busy", "sent", "unusable"}] /\ sends \in [Targets -> Nat]
    BY DEF Init
  <2> QED
    BY <2>1, <2>2, <2>3, <2>4 DEF Init, TypeOK, Stages
<1>2. \A t : ~TriedBefore(t)
  BY DEF Init, TriedBefore
<1> QED
  BY <1>1, <1>2, OfEmpty
     DEF Init, WalkInv, Places, Apart, NoneSkipped, Counted, Base, Spent, InLayers, Going

\* The three parts of the type.
PlaceTyped ==
  /\ plan \in Plans /\ bound \in Targets \cup {None}
  /\ pc \in {"plan", "try", "wait", "run", "done"}
  /\ stage \in Stages /\ layer \in Nat
  /\ todo \in Seq(Targets) /\ busy \subseteq Targets
  /\ cand \in Targets \cup {None} /\ key \in Keys \cup {None} /\ back \in {"try", "wait"}
  /\ attempted \in Seq(Targets \X Keys) /\ switches \in 0..MaxSwitches
  /\ retried \in BOOLEAN /\ answer \in Answers \cup {None}

FailuresTyped ==
  /\ opaque \in BOOLEAN /\ filtered \in BOOLEAN /\ retryAfter \in BOOLEAN
  /\ opaques \in 0..MaxRejections /\ efforts \in 0..MaxRejections
  /\ last \in Causes \cup {None}

HistoryTyped ==
  /\ seen \in [Targets -> {"new", "busy", "sent", "unusable"}]
  /\ sends \in [Targets -> Nat]

\* The type is that of the place, of the failures and of the history.
LEMMA Parts == TypeOK <=> PlaceTyped /\ FailuresTyped /\ HistoryTyped
  BY DEF TypeOK, PlaceTyped, FailuresTyped, HistoryTyped

\* The same after a step.
LEMMA PartsNext == TypeOK' <=> PlaceTyped' /\ FailuresTyped' /\ HistoryTyped'
  BY DEF TypeOK, PlaceTyped, FailuresTyped, HistoryTyped

\* An answer keeps the types.
LEMMA ReplyTyped == ASSUME PlaceTyped, NEW a \in Answers, Reply(a) PROVE PlaceTyped'
  BY DEF PlaceTyped, Reply, place, Running

\* What is told in the end is an answer.
LEMMA VerdictTyped == ASSUME FailuresTyped PROVE Verdict \in Answers
  BY DEF FailuresTyped, Verdict, Answers

\* The step into a layer keeps the types.
LEMMA EnterLayerTyped ==
  ASSUME PlaceTyped, FailuresTyped, TypeOK, NEW n \in Nat \ {0}, EnterLayer(n) PROVE PlaceTyped'
<1>1. n <= Len(plan) => n \in DOMAIN plan
  BY OfPlan
<1>2. n \in DOMAIN plan => plan[n].lossless \in Seq(Targets)
  BY OfPlan
<1>3. Len(plan) \in Nat
  BY OfPlan
<1>4. <<>> \in Seq(Targets)
  OBVIOUS
<1>5. CASE n > Len(plan) \/ LimitReached
  BY <1>4, <1>5, VerdictTyped DEF PlaceTyped, EnterLayer, Running, Stages
<1>6. CASE ~(n > Len(plan) \/ LimitReached)
  BY <1>1, <1>2, <1>3, <1>6 DEF PlaceTyped, EnterLayer, Running, Stages
<1> QED
  BY <1>5, <1>6

\* The step to the degraded candidates keeps the types.
LEMMA EnterDegradedTyped ==
  ASSUME PlaceTyped, TypeOK, layer \in DOMAIN plan, EnterDegraded PROVE PlaceTyped'
<1>1. plan[layer].degraded \in Seq(Targets)
  BY OfPlan
<1> QED
  BY <1>1 DEF PlaceTyped, EnterDegraded, Running, Stages

\* The step to the next candidate keeps the types.
LEMMA GoOnTyped ==
  ASSUME PlaceTyped, pc = "run", cand \in Targets, NEW ra \in BOOLEAN, GoOn(ra)
  PROVE  PlaceTyped' /\ retryAfter' \in BOOLEAN
<1>1. UNCHANGED <<plan, bound, stage, layer, todo, cand, key, back, switches, answer>>
  BY DEF GoOn, place, Running
<1>2. busy' \subseteq Targets /\ retried' \in BOOLEAN /\ retryAfter' \in BOOLEAN
  BY DEF GoOn, PlaceTyped
<1>3. attempted' = attempted \/ attempted' = Keep(attempted, (Targets \ {cand}) \X Keys)
  BY DEF GoOn
<1>4. attempted' \in Seq(Targets \X Keys)
  BY <1>3, TriedForget DEF PlaceTyped
<1>5. pc' \in {"try", "wait"}
  BY DEF GoOn, PlaceTyped
<1> QED
  BY <1>1, <1>2, <1>4, <1>5 DEF PlaceTyped

\* Every step of the walk keeps the types.
LEMMA WalkTypes == TypeOK /\ Places /\ Next => TypeOK'
<1> SUFFICES ASSUME TypeOK, Places, Next PROVE TypeOK'
  OBVIOUS
<1>0. PlaceTyped /\ FailuresTyped /\ HistoryTyped
  BY Parts
<1>1. ASSUME PlanFails PROVE TypeOK'
  <2>1. PlaceTyped'
    BY <1>1, <1>0, ReplyTyped DEF PlanFails, Answers
  <2>2. FailuresTyped'
    BY <1>1, <1>0 DEF FailuresTyped, PlanFails, failures, Fields, Remember, Unusable, Send, Causes
  <2>3. HistoryTyped'
    BY <1>1, <1>0 DEF HistoryTyped, PlanFails, history, Unusable, Send, Places
  <2> QED
    BY <2>1, <2>2, <2>3, PartsNext
<1>2. ASSUME PlanStands PROVE TypeOK'
  <2>1. PlaceTyped'
    <3>1. CASE EnterLayer(1)
      BY <3>1, <1>0, EnterLayerTyped
    <3>2. ASSUME NEW t \in Members(plan[1]), bound' = t, busy' = {t}, pc' = "wait",
                 UNCHANGED <<plan, stage, layer, todo, Running, attempted, retried, answer>>
          PROVE  PlaceTyped'
      <4>1. plan # <<>>
        BY <1>2 DEF PlanStands
      <4>2. t \in Targets
        BY <4>1, OfPlan
      <4> QED
        BY <3>2, <4>2, <1>0 DEF PlaceTyped, Running
    <3> QED
      BY <1>2, <3>1, <3>2 DEF PlanStands
  <2>2. FailuresTyped'
    BY <1>2, <1>0 DEF FailuresTyped, PlanStands, failures, Fields, Remember, Unusable, Send, Causes
  <2>3. HistoryTyped'
    BY <1>2, <1>0 DEF HistoryTyped, PlanStands, history, Unusable, Send, Places
  <2> QED
    BY <2>1, <2>2, <2>3, PartsNext
<1>3. ASSUME PassEnds PROVE TypeOK'
  <2>1. PlaceTyped'
    <3>1. CASE EnterLayer(layer + 1)
      <4>1. layer + 1 \in Nat \ {0}
        BY <1>0 DEF PlaceTyped
      <4> QED
        BY <3>1, <4>1, <1>0, EnterLayerTyped
    <3>2. CASE EnterDegraded
      BY <3>2, <1>3, <1>0, EnterDegradedTyped DEF PassEnds, Places, InLayers, Going
    <3>3. CASE pc' = "wait" /\ todo' = <<>> /\ UNCHANGED <<place, busy, Running, attempted, retried, answer>>
      BY <3>3, <1>0 DEF PlaceTyped, place, Running
    <3> QED
      BY <1>3, <3>1, <3>2, <3>3 DEF PassEnds
  <2>2. FailuresTyped'
    BY <1>3, <1>0 DEF FailuresTyped, PassEnds, failures, Fields, Remember, Unusable, Send, Causes
  <2>3. HistoryTyped'
    BY <1>3, <1>0 DEF HistoryTyped, PassEnds, history, Unusable, Send, Places
  <2> QED
    BY <2>1, <2>2, <2>3, PartsNext
<1>4. ASSUME WaitEnds PROVE TypeOK'
  <2>1. PlaceTyped'
    <3>1. CASE EnterLayer(1)
      BY <3>1, <1>0, EnterLayerTyped
    <3>2. CASE stage = "lossless" /\ EnterDegraded
      BY <3>2, <1>4, <1>0, EnterDegradedTyped DEF WaitEnds, Places, InLayers, Going
    <3>3. CASE Reply("queue_timeout")
      BY <3>3, <1>0, ReplyTyped DEF Answers
    <3> QED
      BY <1>4, <3>1, <3>2, <3>3 DEF WaitEnds
  <2>2. FailuresTyped'
    BY <1>4, <1>0 DEF FailuresTyped, WaitEnds, failures, Fields, Remember, Unusable, Send, Causes
  <2>3. HistoryTyped'
    BY <1>4, <1>0 DEF HistoryTyped, WaitEnds, history, Unusable, Send, Places
  <2> QED
    BY <2>1, <2>2, <2>3, PartsNext
<1>5. ASSUME WaitExpires PROVE TypeOK'
  <2>1. PlaceTyped'
    <3>1. CASE EnterLayer(1)
      BY <3>1, <1>0, EnterLayerTyped
    <3>2. CASE Reply("queue_timeout")
      BY <3>2, <1>0, ReplyTyped DEF Answers
    <3> QED
      BY <1>5, <3>1, <3>2 DEF WaitExpires, WaitedInVain
  <2>2. FailuresTyped'
    BY <1>5, <1>0 DEF FailuresTyped, WaitExpires, failures, Fields, Remember, Unusable, Send, Causes
  <2>3. HistoryTyped'
    BY <1>5, <1>0 DEF HistoryTyped, WaitExpires, history, Unusable, Send, Places
  <2> QED
    BY <2>1, <2>2, <2>3, PartsNext
<1>6. ASSUME NEW t \in Targets, Skip(t) PROVE TypeOK'
  <2>1. PlaceTyped'
    BY <1>6, <1>0, OfTail, TriedAppend, KeysAreKeys
       DEF PlaceTyped, Skip, place, Running, Looking, Send, NotPending
  <2>2. FailuresTyped'
    BY <1>6, <1>0 DEF FailuresTyped, Skip, failures, Fields, Remember, Unusable, Send, Causes
  <2>3. HistoryTyped'
    BY <1>6, <1>0 DEF HistoryTyped, Skip, history, Unusable, Send, Places
  <2> QED
    BY <2>1, <2>2, <2>3, PartsNext
<1>7. ASSUME NEW t \in Targets, TotalTimeout(t) PROVE TypeOK'
  <2>1. PlaceTyped'
    BY <1>7, <1>0, ReplyTyped DEF TotalTimeout, Answers
  <2>2. FailuresTyped'
    BY <1>7, <1>0 DEF FailuresTyped, TotalTimeout, failures, Fields, Remember, Unusable, Send, Causes
  <2>3. HistoryTyped'
    BY <1>7, <1>0 DEF HistoryTyped, TotalTimeout, history, Unusable, Send, Places
  <2> QED
    BY <2>1, <2>2, <2>3, PartsNext
<1>8. ASSUME NEW t \in Targets, FoundBusy(t) PROVE TypeOK'
  <2>1. PlaceTyped'
    BY <1>8, <1>0, OfTail, TriedAppend, KeysAreKeys
       DEF PlaceTyped, FoundBusy, place, Running, Looking, Send, NotPending
  <2>2. FailuresTyped'
    BY <1>8, <1>0 DEF FailuresTyped, FoundBusy, failures, Fields, Remember, Unusable, Send, Causes
  <2>3. HistoryTyped'
    BY <1>8, <1>0 DEF HistoryTyped, FoundBusy, history, Unusable, Send, Places
  <2> QED
    BY <2>1, <2>2, <2>3, PartsNext
<1>9. ASSUME NEW t \in Targets, NEW c \in {"no_key", "refused", "multiplier"}, FoundUnusable(t, c) PROVE TypeOK'
  <2>1. PlaceTyped'
    BY <1>9, <1>0, OfTail, TriedAppend, KeysAreKeys
       DEF PlaceTyped, FoundUnusable, place, Running, Looking, Send, NotPending
  <2>2. FailuresTyped'
    BY <1>9, <1>0 DEF FailuresTyped, FoundUnusable, failures, Fields, Remember, Unusable, Send, Causes
  <2>3. HistoryTyped'
    BY <1>9, <1>0 DEF HistoryTyped, FoundUnusable, history, Unusable, Send, Places
  <2> QED
    BY <2>1, <2>2, <2>3, PartsNext
<1>10. ASSUME NEW t \in Targets, NEW c \in {"no_key", "refused", "multiplier"}, WaitUnusable(t, c) PROVE TypeOK'
  <2>1. PlaceTyped'
    BY <1>10, <1>0, OfTail, TriedAppend, KeysAreKeys
       DEF PlaceTyped, WaitUnusable, place, Running, Looking, Send, NotPending
  <2>2. FailuresTyped'
    BY <1>10, <1>0 DEF FailuresTyped, WaitUnusable, failures, Fields, Remember, Unusable, Send, Causes
  <2>3. HistoryTyped'
    BY <1>10, <1>0 DEF HistoryTyped, WaitUnusable, history, Unusable, Send, Places
  <2> QED
    BY <2>1, <2>2, <2>3, PartsNext
<1>11. ASSUME NEW t \in Targets, NEW k \in KeysOf[t], Try(t, k) PROVE TypeOK'
  <2>1. PlaceTyped'
    <3>1. k \in Keys /\ attempted' \in Seq(Targets \X Keys)
      BY <1>11, <1>0, TriedAppend, KeysAreKeys DEF Try, Send, PlaceTyped
    <3>2. Tail(todo) \in Seq(Targets)
      BY <1>11, <1>0, OfTail DEF Try, Looking, PlaceTyped
    <3> QED
      BY <1>11, <1>0, <3>1, <3>2, WalkAssumption DEF PlaceTyped, Try, place, Send
  <2>2. FailuresTyped'
    BY <1>11, <1>0 DEF FailuresTyped, Try, failures, Fields, Remember, Unusable, Send, Causes
  <2>3. HistoryTyped'
    BY <1>11, <1>0 DEF HistoryTyped, Try, history, Unusable, Send, Places
  <2> QED
    BY <2>1, <2>2, <2>3, PartsNext
<1>12. ASSUME NEW t \in Targets, NEW k \in KeysOf[t], WaitSend(t, k) PROVE TypeOK'
  <2>1. PlaceTyped'
    <3>1. k \in Keys /\ attempted' \in Seq(Targets \X Keys)
      BY <1>12, <1>0, TriedAppend, KeysAreKeys DEF WaitSend, Send, PlaceTyped
    <3> QED
      BY <1>12, <1>0, <3>1, WalkAssumption DEF PlaceTyped, WaitSend, place, Send
  <2>2. FailuresTyped'
    BY <1>12, <1>0 DEF FailuresTyped, WaitSend, failures, Fields, Remember, Unusable, Send, Causes
  <2>3. HistoryTyped'
    BY <1>12, <1>0 DEF HistoryTyped, WaitSend, history, Unusable, Send, Places
  <2> QED
    BY <2>1, <2>2, <2>3, PartsNext
<1>13. ASSUME NEW a \in {"queue_full", "shutdown"}, WaitRefused(a) PROVE TypeOK'
  <2>1. PlaceTyped'
    BY <1>13, <1>0, ReplyTyped DEF WaitRefused, Answers
  <2>2. FailuresTyped'
    BY <1>13, <1>0 DEF FailuresTyped, WaitRefused, failures, Fields, Remember, Unusable, Send, Causes
  <2>3. HistoryTyped'
    BY <1>13, <1>0 DEF HistoryTyped, WaitRefused, history, Unusable, Send, Places
  <2> QED
    BY <2>1, <2>2, <2>3, PartsNext
<1>14. ASSUME NEW a \in {"ok", "final"}, Concludes(a) PROVE TypeOK'
  <2>1. PlaceTyped'
    BY <1>14, <1>0, ReplyTyped DEF Concludes, Answers
  <2>2. FailuresTyped'
    BY <1>14, <1>0 DEF FailuresTyped, Concludes, failures, Fields, Remember, Unusable, Send, Causes
  <2>3. HistoryTyped'
    BY <1>14, <1>0 DEF HistoryTyped, Concludes, history, Unusable, Send, Places
  <2> QED
    BY <2>1, <2>2, <2>3, PartsNext
<1>15. ASSUME NEW ra \in BOOLEAN, FailsUpstream(ra) PROVE TypeOK'
  <2>1. PlaceTyped'
    BY <1>15, <1>0, GoOnTyped DEF FailsUpstream, Places, FailuresTyped
  <2>2. retryAfter' \in BOOLEAN
    BY <1>15, <1>0, GoOnTyped DEF FailsUpstream, Places, FailuresTyped
  <2>3. FailuresTyped'
    BY <1>15, <1>0, <2>2, WalkAssumption DEF FailuresTyped, FailsUpstream, Fields, Causes, OpaqueSpent
  <2>4. HistoryTyped'
    BY <1>15, <1>0 DEF HistoryTyped, FailsUpstream, history
  <2> QED
    BY <2>1, <2>3, <2>4, PartsNext
<1>16. ASSUME NEW ra \in BOOLEAN, LosesCredential(ra) PROVE TypeOK'
  <2>1. PlaceTyped'
    BY <1>16, <1>0, GoOnTyped DEF LosesCredential, Places, FailuresTyped
  <2>2. retryAfter' \in BOOLEAN
    BY <1>16, <1>0, GoOnTyped DEF LosesCredential, Places, FailuresTyped
  <2>3. FailuresTyped'
    BY <1>16, <1>0, <2>2, WalkAssumption DEF FailuresTyped, LosesCredential, Fields, Causes, OpaqueSpent
  <2>4. HistoryTyped'
    BY <1>16, <1>0 DEF HistoryTyped, LosesCredential, history
  <2> QED
    BY <2>1, <2>3, <2>4, PartsNext
<1>17. ASSUME NEW k \in Keys, NEW ra \in BOOLEAN, SwitchesKey(k, ra) PROVE TypeOK'
  <2>1. PlaceTyped'
    <3>1. cand \in Targets /\ k \in Keys
      BY <1>17 DEF SwitchesKey, Places
    <3>2. attempted' \in Seq(Targets \X Keys)
      BY <1>17, <1>0, <3>1, TriedAppend DEF SwitchesKey, PlaceTyped
    <3>3. switches' \in 0..MaxSwitches
      BY <1>17, <1>0, WalkAssumption DEF SwitchesKey, PlaceTyped
    <3> QED
      BY <1>17, <1>0, <3>1, <3>2, <3>3 DEF PlaceTyped, SwitchesKey, place
  <2>2. FailuresTyped'
    BY <1>17, <1>0 DEF FailuresTyped, SwitchesKey, failures, Fields, Remember, Unusable, Send, Causes
  <2>3. HistoryTyped'
    BY <1>17, <1>0 DEF HistoryTyped, SwitchesKey, history, Unusable, Send, Places
  <2> QED
    BY <2>1, <2>2, <2>3, PartsNext
<1>18. ASSUME RejectsOpaquely PROVE TypeOK'
  <2>1. PlaceTyped'
    <3>1. CASE Reply("opaque")
      BY <3>1, <1>0, ReplyTyped DEF Answers
    <3>2. CASE GoOn(retryAfter)
      BY <3>2, <1>18, <1>0, GoOnTyped DEF RejectsOpaquely, Places, FailuresTyped
    <3> QED
      BY <1>18, <3>1, <3>2 DEF RejectsOpaquely
  <2>2. retryAfter' \in BOOLEAN
    BY <1>18, <1>0, GoOnTyped DEF RejectsOpaquely, Places, FailuresTyped
  <2>3. FailuresTyped'
    BY <1>18, <1>0, <2>2, WalkAssumption DEF FailuresTyped, RejectsOpaquely, Fields, Causes, OpaqueSpent
  <2>4. HistoryTyped'
    BY <1>18, <1>0 DEF HistoryTyped, RejectsOpaquely, history
  <2> QED
    BY <2>1, <2>3, <2>4, PartsNext
<1>19. ASSUME RejectsEffort PROVE TypeOK'
  <2>1. PlaceTyped'
    <3>1. CASE Reply("opaque")
      BY <3>1, <1>0, ReplyTyped DEF Answers
    <3>2. CASE GoOn(retryAfter)
      BY <3>2, <1>19, <1>0, GoOnTyped DEF RejectsEffort, Places, FailuresTyped
    <3> QED
      BY <1>19, <3>1, <3>2 DEF RejectsEffort
  <2>2. retryAfter' \in BOOLEAN
    BY <1>19, <1>0, GoOnTyped DEF RejectsEffort, Places, FailuresTyped
  <2>3. FailuresTyped'
    BY <1>19, <1>0, <2>2, WalkAssumption DEF FailuresTyped, RejectsEffort, Fields, Causes, OpaqueSpent
  <2>4. HistoryTyped'
    BY <1>19, <1>0 DEF HistoryTyped, RejectsEffort, history
  <2> QED
    BY <2>1, <2>3, <2>4, PartsNext
<1>20. ASSUME Filters PROVE TypeOK'
  <2>1. PlaceTyped'
    <3>1. CASE Reply("filtered")
      BY <3>1, <1>0, ReplyTyped DEF Answers
    <3>2. CASE GoOn(retryAfter)
      BY <3>2, <1>20, <1>0, GoOnTyped DEF Filters, Places, FailuresTyped
    <3> QED
      BY <1>20, <3>1, <3>2 DEF Filters
  <2>2. retryAfter' \in BOOLEAN
    BY <1>20, <1>0, GoOnTyped DEF Filters, Places, FailuresTyped
  <2>3. FailuresTyped'
    BY <1>20, <1>0, <2>2, WalkAssumption DEF FailuresTyped, Filters, Fields, Causes, OpaqueSpent
  <2>4. HistoryTyped'
    BY <1>20, <1>0 DEF HistoryTyped, Filters, history
  <2> QED
    BY <2>1, <2>3, <2>4, PartsNext
<1>21. ASSUME Unroutable PROVE TypeOK'
  <2>1. PlaceTyped'
    BY <1>21, <1>0, GoOnTyped DEF Unroutable, Places, FailuresTyped
  <2>2. retryAfter' \in BOOLEAN
    BY <1>21, <1>0, GoOnTyped DEF Unroutable, Places, FailuresTyped
  <2>3. FailuresTyped'
    BY <1>21, <1>0, <2>2, WalkAssumption DEF FailuresTyped, Unroutable, Fields, Causes, OpaqueSpent
  <2>4. HistoryTyped'
    BY <1>21, <1>0 DEF HistoryTyped, Unroutable, history
  <2> QED
    BY <2>1, <2>3, <2>4, PartsNext
<1> QED
  BY <1>1, <1>2, <1>3, <1>4, <1>5, <1>6, <1>7, <1>8, <1>9, <1>10, <1>11, <1>12, <1>13, <1>14, <1>15, <1>16, <1>17, <1>18, <1>19, <1>20, <1>21 DEF Next

Kept == Places /\ Apart /\ NoneSkipped /\ Counted

\* A step that keeps what was sent and comes from no running attempt, or ends one.
LEMMA CountedKept ==
  ASSUME TypeOK, Counted, pc' # "run", UNCHANGED <<attempted, sends, retried>>, bound' = bound \/ ~retried
  PROVE  Counted'
<1> SUFFICES ASSUME NEW t \in Targets PROVE (sends[t] <= Base(t) + Spent(t))'
  BY DEF Counted
<1>1. sends[t] <= Base(t) + Spent(t) /\ sends[t] \in Nat /\ switches \in 0..MaxSwitches
  BY DEF Counted, TypeOK
<1>2. TriedBefore(t)' = TriedBefore(t)
  BY DEF TriedBefore
<1>3. Base(t)' = Base(t)
  BY DEF Base
<1>4. Spent(t) <= Spent(t)' /\ Spent(t) \in Nat /\ Spent(t)' \in Nat /\ Base(t) \in Nat
  BY <1>1, <1>2, WalkAssumption DEF Spent, Base
<1> QED
  BY <1>1, <1>3, <1>4

\* A request that is answered sends nothing more.
LEMMA DoneKeeps ==
  ASSUME TypeOK, Kept, pc' = "done", UNCHANGED <<bound, attempted, retried, seen, sends>>, NoRepeats(todo')
  PROVE  Kept'
<1>1. Places' /\ NoneSkipped'
  BY DEF Places, NoneSkipped, InLayers, Going
<1>2. Apart'
  BY DEF Kept, Apart, TriedBefore, Going
<1>3. Counted'
  BY CountedKept DEF Kept
<1> QED
  BY <1>1, <1>2, <1>3 DEF Kept

\* An answer keeps the invariant.
LEMMA ReplyKeeps ==
  ASSUME TypeOK, Kept, NEW a, Reply(a), UNCHANGED history PROVE Kept'
  BY DoneKeeps DEF Reply, place, Kept, Apart, history

\* A layer is entered when all of the higher ones is settled.
LEMMA EnterLayerKeeps ==
  ASSUME TypeOK, Kept, pc # "run", NEW n \in Nat \ {0}, EnterLayer(n), UNCHANGED history,
         n <= Len(plan) /\ ~LimitReached =>
           \A i \in 1..(n - 1) : \A t \in Members(plan[i]) : Settled(t)
  PROVE  Kept'
<1>1. CASE n > Len(plan) \/ LimitReached
  BY <1>1, OfEmpty, DoneKeeps DEF EnterLayer, history
<1>2. CASE ~(n > Len(plan) \/ LimitReached)
  <2>1. /\ pc' = "try" /\ stage' = "lossless" /\ layer' = n /\ busy' = {}
        /\ todo' = plan[n].lossless
        /\ UNCHANGED <<plan, bound, attempted, retried, seen, sends>>
    BY <1>2 DEF EnterLayer, history
  <2>2. n \in DOMAIN plan /\ NoRepeats(plan[n].lossless)
    BY <1>2, OfPlan
  <2>3. Places'
    BY <2>1, <2>2 DEF Places, InLayers, Going
  <2>4. Apart'
    BY <2>1, <2>2 DEF Kept, Apart, TriedBefore, Going
  <2>5. NoneSkipped'
    BY <1>2, <2>1 DEF NoneSkipped, InLayers, Going, Settled, Rest, LimitReached
  <2>6. Counted'
    BY <2>1, CountedKept DEF Kept
  <2> QED
    BY <2>3, <2>4, <2>5, <2>6 DEF Kept
<1> QED
  BY <1>1, <1>2

\* The degraded candidates come when the lossless ones are settled, or the request
\* has sent all that it may.
LEMMA EnterDegradedKeeps ==
  ASSUME TypeOK, Kept, pc \in {"try", "wait"}, stage = "lossless", EnterDegraded, UNCHANGED history,
         busy = {}, LimitReached \/ \A t \in Elements(plan[layer].lossless) : Settled(t)
  PROVE  Kept'
<1>1. /\ pc' = "try" /\ stage' = "degraded" /\ layer' = layer /\ busy' = {}
      /\ todo' = plan[layer].degraded
      /\ UNCHANGED <<plan, bound, attempted, retried, seen, sends>>
  BY DEF EnterDegraded, history
<1>2. layer \in DOMAIN plan /\ NoRepeats(plan[layer].degraded)
  BY OfPlan DEF Kept, Places, InLayers, Going
<1>3. Places'
  BY <1>1, <1>2 DEF Places, InLayers, Going
<1>4. Apart'
  BY <1>1, <1>2 DEF Kept, Apart, TriedBefore, Going
<1>5. NoneSkipped'
  BY <1>1 DEF Kept, NoneSkipped, InLayers, Going, Settled, Rest, LimitReached
<1>6. Counted'
  BY <1>1, CountedKept DEF Kept
<1> QED
  BY <1>3, <1>4, <1>5, <1>6 DEF Kept

\* A failed attempt is over; the target that is waited out once more is forgotten.
LEMMA GoOnKeeps ==
  ASSUME TypeOK, Kept, pc = "run", NEW ra, GoOn(ra), UNCHANGED history PROVE Kept'
<1>1. /\ UNCHANGED <<plan, bound, stage, layer, todo, cand, key, back, switches, seen, sends>>
      /\ pc' = back
  BY DEF GoOn, place, Running, history
<1>2. CASE UNCHANGED <<busy, attempted, retried>>
  <2>1. Places'
    BY <1>1, <1>2 DEF TypeOK, Kept, Places, InLayers, Going
  <2>2. Apart'
    BY <1>1, <1>2 DEF TypeOK, Kept, Apart, TriedBefore, Going
  <2>3. NoneSkipped'
    BY <1>1, <1>2 DEF TypeOK, Kept, NoneSkipped, InLayers, Going, Settled, Rest, LimitReached
  <2>4. Counted'
    BY <1>1, <1>2, CountedKept DEF Kept, TypeOK
  <2> QED
    BY <2>1, <2>2, <2>3, <2>4 DEF Kept
<1>3. CASE /\ stage = "bound" /\ ~retried /\ back = "wait" /\ retried' = TRUE
           /\ busy' = busy \cup {cand}
           /\ attempted' = Keep(attempted, (Targets \ {cand}) \X Keys)
  <2>1. cand \in Targets /\ cand = bound /\ busy \subseteq {bound} /\ todo = <<>>
    BY <1>3 DEF Kept, Places, Going
  <2>2. \A u : TriedBefore(u)' <=> (TriedBefore(u) /\ u # cand)
    BY <1>3, <2>1, TriedForget DEF TypeOK
  <2>3. Places'
    BY <1>1, <1>3, <2>1 DEF Kept, Places, InLayers, Going
  <2>4. Apart'
    BY <1>1, <1>3, <2>1, <2>2, OfEmpty DEF Kept, Apart, Going
  <2>5. NoneSkipped'
    BY <1>1, <1>3 DEF NoneSkipped, InLayers
  <2>6. Counted'
    <3> SUFFICES ASSUME NEW t \in Targets PROVE (sends[t] <= Base(t) + Spent(t))'
      BY DEF Counted
    <3>1. sends[t] <= Base(t) + Spent(t) /\ sends[t] \in Nat /\ switches \in 0..MaxSwitches
      BY DEF Kept, Counted, TypeOK
    <3>2. CASE t = cand
      BY <1>1, <1>3, <2>1, <2>2, <3>1, <3>2, WalkAssumption DEF Base, Spent
    <3>3. CASE t # cand
      BY <1>1, <1>3, <2>1, <2>2, <3>1, <3>3, WalkAssumption DEF Base, Spent
    <3> QED
      BY <3>2, <3>3
  <2> QED
    BY <2>3, <2>4, <2>5, <2>6 DEF Kept
<1> QED
  BY <1>2, <1>3 DEF GoOn, MayPause

\* A candidate is looked at, and nothing is sent.
LEMMA LookKeeps ==
  ASSUME TypeOK, Kept, NEW t \in Targets, Looking(t), todo' = Tail(todo),
         UNCHANGED <<place, pc, Running, attempted, retried, sends>>,
         \/ TriedBefore(t) /\ busy' = busy /\ seen' = seen
         \/ ~TriedBefore(t) /\ busy' = busy \cup {t} /\ seen' = [seen EXCEPT ![t] = "busy"]
         \/ ~TriedBefore(t) /\ busy' = busy /\ seen' = [seen EXCEPT ![t] = "unusable"]
  PROVE  Kept'
<1>1. /\ Elements(todo) = {t} \cup Elements(todo') /\ t \notin Elements(todo') /\ NoRepeats(todo')
      /\ pc = "try" /\ ~LimitReached
  BY OfTail DEF TypeOK, Kept, Apart, Looking
<1>2. /\ UNCHANGED <<plan, bound, stage, layer, cand, key, back, switches>>
      /\ \A u : TriedBefore(u)' = TriedBefore(u)
      /\ LimitReached' = LimitReached
  BY DEF place, Running, TriedBefore, LimitReached
<1>3. stage # "bound" /\ layer \in DOMAIN plan
  BY <1>1 DEF Kept, Places, InLayers, Going
<1>4. Places'
  BY <1>1, <1>2, <1>3 DEF Kept, Places, InLayers, Going
<1>5. \A u \in Targets : u # t => seen'[u] = seen[u]
  BY DEF TypeOK
<1>6. seen'[t] = "busy" => t \in busy'
  BY <1>1, <1>2 DEF TypeOK, Kept, Apart, Going
<1>7. seen'[t] = "unusable" \/ (TriedBefore(t) /\ seen'[t] = "sent") \/ t \in busy'
  BY DEF TypeOK, Kept, Apart
<1>8. Apart'
  BY <1>1, <1>2, <1>5 DEF TypeOK, Kept, Apart, Going
<1>9. NoneSkipped'
  <2>1. t \in Members(plan[layer]) /\ (stage = "lossless" => t \in Elements(plan[layer].lossless))
        /\ (stage = "degraded" => t \in Elements(plan[layer].degraded))
    BY <1>1, <1>3 DEF TypeOK, Stages, Kept, Places, InLayers, Going, Members
  <2>2. \A i \in 1..(layer - 1) : i \in DOMAIN plan /\ i # layer
    BY <1>3, OfPlan DEF TypeOK
  <2>3. \A i \in 1..(layer - 1) : \A u \in Members(plan[i]) : u # t /\ u \in Targets /\ Settled(u)'
    BY <1>1, <1>3, <1>5, <2>1, <2>2, OfPlan DEF Kept, NoneSkipped, InLayers, Going, Settled
  <2>4. ASSUME stage = "lossless", NEW u \in Elements(plan[layer].lossless)
        PROVE  (Settled(u) \/ Rest(u))'
    <3>1. u \in Targets /\ (Settled(u) \/ Rest(u))
      BY <1>1, <1>3, <2>4, OfPlan DEF Kept, NoneSkipped, InLayers, Going, Members
    <3>2. CASE u = t
      BY <3>2, <1>7 DEF Settled, Rest
    <3>3. CASE u # t
      BY <3>1, <3>3, <1>1, <1>5 DEF Settled, Rest
    <3> QED
      BY <3>2, <3>3
  <2>5. ASSUME stage = "degraded", NEW u \in Elements(plan[layer].degraded)
        PROVE  (Settled(u) \/ Rest(u))'
    <3>1. u \in Targets /\ (Settled(u) \/ Rest(u))
      BY <1>1, <1>3, <2>5, OfPlan DEF Kept, NoneSkipped, InLayers, Going, Members
    <3>2. CASE u = t
      BY <3>2, <1>7 DEF Settled, Rest
    <3>3. CASE u # t
      BY <3>1, <3>3, <1>1, <1>5 DEF Settled, Rest
    <3> QED
      BY <3>2, <3>3
  <2>6. ASSUME stage = "degraded", NEW u \in Elements(plan[layer].lossless) PROVE Settled(u)'
    <3>1. u \in Targets /\ u # t /\ Settled(u)
      BY <1>1, <1>3, <2>1, <2>6, OfPlan DEF Kept, NoneSkipped, InLayers, Going, Members
    <3> QED
      BY <3>1, <1>5 DEF Settled
  <2> QED
    BY <1>2, <2>3, <2>4, <2>5, <2>6 DEF NoneSkipped
<1>10. Counted'
  BY <1>1, <1>2, CountedKept DEF Kept
<1> QED
  BY <1>4, <1>8, <1>9, <1>10 DEF Kept

\* An attempt goes out: to the head of the candidates, or to one that was waited for.
LEMMA SendKeeps ==
  ASSUME TypeOK, Kept, NEW t \in Targets, NEW k \in KeysOf[t], NEW from, Send(t, k, from),
         \/ Looking(t) /\ ~TriedBefore(t) /\ from = "try" /\ todo' = Tail(todo) /\ busy' = busy
         \/ pc = "wait" /\ t \in busy /\ from = "wait" /\ todo' = todo /\ busy' = busy \ {t}
  PROVE  Kept'
<1>1. /\ k \in Keys /\ ~TriedBefore(t) /\ pc # "run"
      /\ Elements(todo) \cup busy = {t} \cup Elements(todo') \cup busy'
      /\ t \notin Elements(todo') /\ t \notin busy' /\ NoRepeats(todo') /\ busy' \subseteq busy
      /\ Elements(todo') \subseteq Elements(todo)
      /\ pc \in {"try", "wait"} /\ (pc = "wait" <=> from = "wait") /\ (pc = "wait" => todo' = <<>>)
  <2>1. CASE Looking(t) /\ ~TriedBefore(t) /\ from = "try" /\ todo' = Tail(todo) /\ busy' = busy
    <3>1. Elements(todo) = {t} \cup Elements(todo') /\ t \notin Elements(todo') /\ NoRepeats(todo')
      BY <2>1, OfTail DEF TypeOK, Kept, Apart, Looking
    <3>2. t \notin busy
      BY <2>1, <3>1 DEF Kept, Apart, Going, Looking
    <3> QED
      BY <2>1, <3>1, <3>2, KeysAreKeys DEF Looking
  <2>2. CASE pc = "wait" /\ t \in busy /\ from = "wait" /\ todo' = todo /\ busy' = busy \ {t}
    BY <2>2, KeysAreKeys DEF Kept, Apart, Places, Going
  <2> QED
    BY <2>1, <2>2
<1>2. /\ UNCHANGED <<plan, bound, stage, layer, retried>>
      /\ pc' = "run" /\ cand' = t /\ key' = k /\ back' = from /\ switches' = 0
      /\ attempted' = Append(attempted, <<t, k>>)
      /\ seen' = [seen EXCEPT ![t] = "sent"] /\ sends' = [sends EXCEPT ![t] = @ + 1]
  BY DEF Send, place
<1>3. /\ \A u : TriedBefore(u)' <=> (TriedBefore(u) \/ u = t)
      /\ LimitReached => LimitReached'
  BY <1>1, <1>2, TriedAppend DEF TypeOK
<1>4. \A u \in Targets : u # t => seen'[u] = seen[u] /\ sends'[u] = sends[u]
  BY <1>2 DEF TypeOK
<1>5. seen'[t] = "sent" /\ sends'[t] = sends[t] + 1
  BY <1>2 DEF TypeOK
<1>6. Settled(t)' /\ \A u \in Targets : Settled(u) => Settled(u)'
  BY <1>4, <1>5 DEF Settled
<1>7. \A u : Rest(u) => u = t \/ Rest(u)'
  BY <1>1 DEF Rest
<1>8. Places'
  BY <1>1, <1>2 DEF Kept, Places, InLayers, Going
<1>9. Apart'
  BY <1>1, <1>2, <1>3, <1>4, <1>5 DEF TypeOK, Kept, Apart, Going
<1>10. NoneSkipped'
  <2> SUFFICES ASSUME InLayers' PROVE NoneSkipped'
    BY DEF NoneSkipped
  <2>1. InLayers /\ layer \in DOMAIN plan
    BY <1>1, <1>2 DEF InLayers, Going, Kept, Places
  <2>2. \A i \in 1..(layer - 1) : i \in DOMAIN plan
    BY <2>1, OfPlan DEF TypeOK
  <2>3. \A i \in 1..(layer - 1) : \A u \in Members(plan[i]) : Settled(u)'
    BY <1>6, <2>1, <2>2, OfPlan DEF Kept, NoneSkipped
  <2>4. \A u \in Elements(plan[layer].lossless) : u \in Targets
    BY <2>1, OfPlan DEF Members
  <2>5. \A u \in Elements(plan[layer].degraded) : u \in Targets
    BY <2>1, OfPlan DEF Members
  <2>6. stage = "lossless" =>
          LimitReached' \/ \A u \in Elements(plan[layer].lossless) : Settled(u)' \/ Rest(u)'
    BY <1>3, <1>6, <1>7, <2>1, <2>4 DEF Kept, NoneSkipped
  <2>7. stage = "degraded" =>
          LimitReached' \/ \A u \in Elements(plan[layer].degraded) : Settled(u)' \/ Rest(u)'
    BY <1>3, <1>6, <1>7, <2>1, <2>5 DEF Kept, NoneSkipped
  <2>8. ~(LimitReached /\ pc = "try" /\ busy = {})
    <3>1. CASE pc = "wait"
      BY <3>1
    <3>2. CASE pc = "try"
      BY <3>2, <1>1 DEF Looking
    <3> QED
      BY <1>1, <3>1, <3>2
  <2>9. stage = "degraded" => \A u \in Elements(plan[layer].lossless) : Settled(u)'
    BY <1>6, <2>1, <2>4, <2>8 DEF Kept, NoneSkipped
  <2> QED
    BY <1>2, <2>3, <2>6, <2>7, <2>9 DEF NoneSkipped
<1>11. Counted'
  <2> SUFFICES ASSUME NEW u \in Targets PROVE (sends[u] <= Base(u) + Spent(u))'
    BY DEF Counted
  <2>1. sends[u] <= Base(u) + Spent(u) /\ sends[u] \in Nat
    BY DEF Kept, Counted, TypeOK
  <2>2. Base(u)' = Base(u) /\ Base(u) \in Nat
    BY <1>2, WalkAssumption DEF Base
  <2>3. CASE u = t
    BY <1>1, <1>2, <1>3, <1>5, <2>1, <2>2, <2>3 DEF Spent
  <2>4. CASE u # t
    BY <1>1, <1>2, <1>3, <1>4, <2>1, <2>2, <2>4 DEF Spent
  <2> QED
    BY <2>3, <2>4
<1> QED
  BY <1>8, <1>9, <1>10, <1>11 DEF Kept

\* A bound request waits for its target before the layers.
LEMMA BoundKeeps ==
  ASSUME TypeOK, Kept, pc = "plan", plan # <<>>, NEW t \in Members(plan[1]),
         bound' = t, busy' = {t}, pc' = "wait",
         UNCHANGED <<plan, stage, layer, todo, attempted, retried, history>>
  PROVE  Kept'
<1>1. t \in Targets /\ stage = "bound" /\ ~retried /\ attempted = <<>> /\ todo = <<>>
  BY OfPlan DEF Kept, Places
<1>2. \A u : ~TriedBefore(u)'
  BY <1>1 DEF TriedBefore
<1>3. Places' /\ NoneSkipped'
  BY <1>1 DEF Places, NoneSkipped, InLayers, Going
<1>4. Apart'
  BY <1>1, <1>2, OfEmpty DEF Apart, Going
<1>5. Counted'
  BY <1>1, CountedKept DEF Kept, history
<1> QED
  BY <1>3, <1>4, <1>5 DEF Kept

\* The busy candidates are waited for when the pass is over.
LEMMA PauseToWait ==
  ASSUME TypeOK, Kept, pc = "try", pc' = "wait", todo' = <<>>, todo = <<>> \/ LimitReached, busy # {},
         UNCHANGED <<place, busy, attempted, retried, history>>
  PROVE  Kept'
<1>1. /\ UNCHANGED <<plan, bound, stage, layer, seen, sends>>
      /\ \A u : TriedBefore(u)' = TriedBefore(u)
      /\ LimitReached' = LimitReached
  BY DEF place, history, TriedBefore, LimitReached
<1>2. Places'
  BY <1>1, OfEmpty DEF Kept, Places, InLayers, Going
<1>3. Apart'
  BY <1>1, OfEmpty DEF Kept, Apart, Going
<1>4. \A u : Rest(u) /\ ~LimitReached => Rest(u)'
  BY OfEmpty DEF Rest
<1>5. NoneSkipped'
  BY <1>1, <1>4 DEF Kept, NoneSkipped, InLayers, Going, Settled
<1>6. Counted'
  BY <1>1, CountedKept DEF Kept
<1> QED
  BY <1>2, <1>3, <1>5, <1>6 DEF Kept

\* A candidate that turns out to be unusable is settled and not waited for.
LEMMA WaitUnusableKeeps ==
  ASSUME TypeOK, Kept, pc = "wait", NEW t \in busy, busy' = busy \ {t},
         seen' = [seen EXCEPT ![t] = "unusable"],
         UNCHANGED <<place, pc, todo, Running, attempted, retried, sends>>
  PROVE  Kept'
<1>1. /\ UNCHANGED <<plan, bound, stage, layer, todo>> /\ pc' = "wait"
      /\ \A u : TriedBefore(u)' = TriedBefore(u)
      /\ LimitReached' = LimitReached /\ t \in Targets
  BY DEF place, TriedBefore, LimitReached, TypeOK
<1>2. \A u \in Targets : Settled(u) => Settled(u)'
  BY DEF Settled, TypeOK
<1>3. \A u : Rest(u) => u = t \/ Rest(u)'
  BY <1>1 DEF Rest
<1>4. Settled(t)'
  BY <1>1 DEF Settled, TypeOK
<1>5. Places'
  BY <1>1 DEF Kept, Places, InLayers, Going
<1>6. Apart'
  BY <1>1 DEF TypeOK, Kept, Apart, Going
<1>7. NoneSkipped'
  <2> SUFFICES ASSUME InLayers' PROVE NoneSkipped'
    BY DEF NoneSkipped
  <2>1. InLayers /\ layer \in DOMAIN plan
    BY <1>1 DEF InLayers, Going, Kept, Places
  <2>2. \A i \in 1..(layer - 1) : i \in DOMAIN plan
    BY <2>1, OfPlan DEF TypeOK
  <2>3. \A i \in DOMAIN plan : \A u \in Members(plan[i]) : u \in Targets
    BY OfPlan
  <2>4. Elements(plan[layer].lossless) \subseteq Targets /\ Elements(plan[layer].degraded) \subseteq Targets
    BY <2>1, OfPlan DEF Members
  <2>5. NoneSkipped
    BY DEF Kept
  <2> QED
    BY <1>1, <1>2, <1>3, <1>4, <2>1, <2>2, <2>3, <2>4, <2>5 DEF NoneSkipped
<1>8. Counted'
  BY <1>1, CountedKept DEF Kept
<1> QED
  BY <1>5, <1>6, <1>7, <1>8 DEF Kept

\* A key switch costs one more attempt of the same target.
LEMMA SwitchKeeps ==
  ASSUME TypeOK, Kept, NEW k \in Keys, NEW ra \in BOOLEAN, SwitchesKey(k, ra) PROVE Kept'
<1>1. cand \in Targets /\ pc = "run" /\ switches < MaxSwitches /\ TriedBefore(cand)
  BY DEF SwitchesKey, Kept, Places, Apart
<1>2. /\ UNCHANGED <<plan, bound, stage, layer, pc, todo, busy, cand, back, retried, seen>>
      /\ key' = k /\ switches' = switches + 1 /\ sends' = [sends EXCEPT ![cand] = @ + 1]
      /\ attempted' = Append(attempted, <<cand, k>>)
  BY DEF SwitchesKey, place
<1>3. /\ \A u : TriedBefore(u)' <=> TriedBefore(u)
      /\ LimitReached => LimitReached'
  <2>1. /\ \A u : TriedBefore(u)' <=> (TriedBefore(u) \/ u = cand)
        /\ LimitReached => LimitReached'
    BY <1>1, <1>2, TriedAppend DEF TypeOK
  <2> QED
    BY <1>1, <2>1
<1>4. Places'
  BY <1>1, <1>2 DEF Kept, Places, InLayers, Going
<1>5. Apart'
  BY <1>2, <1>3 DEF Kept, Apart, Going
<1>6. NoneSkipped'
  BY <1>1, <1>2, <1>3 DEF Kept, NoneSkipped, InLayers, Going, Settled, Rest
<1>7. Counted'
  <2> SUFFICES ASSUME NEW t \in Targets PROVE (sends[t] <= Base(t) + Spent(t))'
    BY DEF Counted
  <2>1. sends[t] <= Base(t) + Spent(t) /\ sends[t] \in Nat /\ switches \in Nat
    BY DEF Kept, Counted, TypeOK
  <2>2. Base(t)' = Base(t) /\ Base(t) \in Nat
    BY <1>2, WalkAssumption DEF Base
  <2>3. CASE t = cand
    <3>1. sends'[t] = sends[t] + 1
      BY <1>2, <2>3 DEF TypeOK
    <3>2. Spent(t) = switches + 1 /\ Spent(t)' = switches + 2
      BY <1>1, <1>2, <1>3, <2>1, <2>3 DEF Spent
    <3> QED
      BY <2>1, <2>2, <3>1, <3>2
  <2>4. CASE t # cand
    <3>1. sends'[t] = sends[t]
      BY <1>2, <2>4 DEF TypeOK
    <3>2. Spent(t)' = Spent(t)
      BY <1>1, <1>2, <1>3, <2>4 DEF Spent
    <3> QED
      BY <2>1, <2>2, <3>1, <3>2
  <2> QED
    BY <2>3, <2>4
<1> QED
  BY <1>4, <1>5, <1>6, <1>7 DEF Kept

\* Every step of the walk keeps the invariant.
LEMMA WalkSteps == TypeOK /\ Kept /\ Next => Kept'
<1> SUFFICES ASSUME TypeOK, Kept, Next PROVE Kept'
  OBVIOUS
<1>1. ASSUME PlanFails PROVE Kept'
  BY <1>1, ReplyKeeps DEF PlanFails
<1>2. ASSUME PlanStands PROVE Kept'
  <2>1. CASE EnterLayer(1)
    <3>1. \A i \in 1..(1 - 1) : FALSE
      OBVIOUS
    <3> QED
      BY <1>2, <2>1, <3>1, EnterLayerKeeps DEF PlanStands
  <2>2. CASE ~EnterLayer(1)
    <3>1. PICK t \in Members(plan[1]) :
            /\ bound' = t /\ busy' = {t} /\ pc' = "wait"
            /\ UNCHANGED <<plan, stage, layer, todo, Running, attempted, retried, answer>>
      BY <1>2, <2>2 DEF PlanStands
    <3> QED
      BY <1>2, <3>1, BoundKeeps DEF PlanStands
  <2> QED
    BY <2>1, <2>2
<1>3. ASSUME PassEnds PROVE Kept'
  <2>1. pc = "try" /\ stage # "bound" /\ layer \in DOMAIN plan /\ NoneSkipped
    BY <1>3 DEF PassEnds, Kept, Places, InLayers, Going
  <2>2. CASE busy = {} /\ stage = "lossless" /\ EnterDegraded
    <3>1. LimitReached \/ \A t \in Elements(plan[layer].lossless) : Settled(t)
      BY <1>3, <2>1, <2>2, OfEmpty DEF PassEnds, NoneSkipped, InLayers, Going, Rest
    <3> QED
      BY <1>3, <2>1, <2>2, <3>1, EnterDegradedKeeps DEF PassEnds
  <2>3. CASE busy = {} /\ stage = "degraded" /\ EnterLayer(layer + 1)
    <3>1. layer \in Nat /\ layer + 1 \in Nat \ {0}
      BY DEF TypeOK
    <3>2. ASSUME ~LimitReached, NEW i \in 1..layer, NEW t \in Members(plan[i]) PROVE Settled(t)
      <4>1. CASE i = layer
        BY <4>1, <1>3, <2>1, <2>3, <3>2, OfEmpty DEF PassEnds, NoneSkipped, InLayers, Going, Rest, Members
      <4>2. CASE i # layer
        <5>1. i \in 1..(layer - 1)
          BY <4>2, <3>1
        <5> QED
          BY <5>1, <2>1, <3>2 DEF NoneSkipped, InLayers, Going
      <4> QED
        BY <4>1, <4>2
    <3>3. (layer + 1) - 1 = layer
      BY <3>1
    <3> QED
      BY <1>3, <2>1, <2>3, <3>1, <3>2, <3>3, EnterLayerKeeps DEF PassEnds
  <2>4. CASE /\ busy # {} /\ pc' = "wait" /\ todo' = <<>>
             /\ UNCHANGED <<place, busy, Running, attempted, retried, answer>>
    BY <1>3, <2>4, PauseToWait DEF PassEnds
  <2> QED
    BY <1>3, <2>2, <2>3, <2>4 DEF PassEnds
<1>4. ASSUME WaitEnds PROVE Kept'
  <2>1. pc = "wait" /\ busy = {} /\ todo = <<>>
    BY <1>4 DEF WaitEnds, Kept, Places
  <2>2. CASE EnterLayer(1)
    <3>1. \A i \in 1..(1 - 1) : FALSE
      OBVIOUS
    <3> QED
      BY <1>4, <2>1, <2>2, <3>1, EnterLayerKeeps DEF WaitEnds
  <2>3. CASE stage = "lossless" /\ EnterDegraded
    <3>1. LimitReached \/ \A t \in Elements(plan[layer].lossless) : Settled(t)
      BY <2>1, <2>3, OfEmpty DEF Kept, NoneSkipped, InLayers, Going, Rest
    <3> QED
      BY <1>4, <2>1, <2>3, <3>1, EnterDegradedKeeps DEF WaitEnds
  <2>4. CASE Reply("queue_timeout")
    BY <1>4, <2>4, ReplyKeeps DEF WaitEnds
  <2> QED
    BY <1>4, <2>2, <2>3, <2>4 DEF WaitEnds
<1>5. ASSUME WaitExpires PROVE Kept'
  <2>1. CASE EnterLayer(1)
    <3>1. \A i \in 1..(1 - 1) : FALSE
      OBVIOUS
    <3> QED
      BY <1>5, <2>1, <3>1, EnterLayerKeeps DEF WaitExpires
  <2>2. CASE Reply("queue_timeout")
    BY <1>5, <2>2, ReplyKeeps DEF WaitExpires
  <2> QED
    BY <1>5, <2>1, <2>2 DEF WaitExpires, WaitedInVain
<1>6. ASSUME NEW t \in Targets, Skip(t) PROVE Kept'
  BY <1>6, LookKeeps DEF Skip, history
<1>7. ASSUME NEW t \in Targets, TotalTimeout(t) PROVE Kept'
  BY <1>7, ReplyKeeps DEF TotalTimeout
<1>8. ASSUME NEW t \in Targets, FoundBusy(t) PROVE Kept'
  BY <1>8, LookKeeps DEF FoundBusy
<1>9. ASSUME NEW t \in Targets, NEW c \in {"no_key", "refused", "multiplier"}, FoundUnusable(t, c)
      PROVE  Kept'
  BY <1>9, LookKeeps DEF FoundUnusable, Unusable
<1>10. ASSUME NEW t \in Targets, NEW c \in {"no_key", "refused", "multiplier"}, WaitUnusable(t, c)
       PROVE  Kept'
  BY <1>10, WaitUnusableKeeps DEF WaitUnusable, Unusable, NotPending
<1>11. ASSUME NEW t \in Targets, NEW k \in KeysOf[t], Try(t, k) PROVE Kept'
  BY <1>11, SendKeeps DEF Try
<1>12. ASSUME NEW t \in Targets, NEW k \in KeysOf[t], WaitSend(t, k) PROVE Kept'
  BY <1>12, SendKeeps DEF WaitSend
<1>13. ASSUME NEW a \in {"queue_full", "shutdown"}, WaitRefused(a) PROVE Kept'
  BY <1>13, ReplyKeeps DEF WaitRefused
<1>14. ASSUME NEW a \in {"ok", "final"}, Concludes(a) PROVE Kept'
  BY <1>14, ReplyKeeps DEF Concludes
<1>15. ASSUME NEW ra \in BOOLEAN, FailsUpstream(ra) PROVE Kept'
  BY <1>15, GoOnKeeps DEF FailsUpstream
<1>16. ASSUME NEW ra \in BOOLEAN, LosesCredential(ra) PROVE Kept'
  BY <1>16, GoOnKeeps DEF LosesCredential
<1>17. ASSUME NEW k \in Keys, NEW ra \in BOOLEAN, SwitchesKey(k, ra) PROVE Kept'
  BY <1>17, SwitchKeeps
<1>18. ASSUME RejectsOpaquely PROVE Kept'
  BY <1>18, ReplyKeeps, GoOnKeeps DEF RejectsOpaquely
<1>19. ASSUME RejectsEffort PROVE Kept'
  BY <1>19, ReplyKeeps, GoOnKeeps DEF RejectsEffort
<1>20. ASSUME Filters PROVE Kept'
  BY <1>20, ReplyKeeps, GoOnKeeps DEF Filters
<1>21. ASSUME Unroutable PROVE Kept'
  BY <1>21, GoOnKeeps DEF Unroutable
<1> QED
  BY <1>1, <1>2, <1>3, <1>4, <1>5, <1>6, <1>7, <1>8, <1>9, <1>10, <1>11, <1>12, <1>13, <1>14,
     <1>15, <1>16, <1>17, <1>18, <1>19, <1>20, <1>21 DEF Next

\* So does a step of something else.
LEMMA WalkStutters == TypeOK /\ Kept /\ UNCHANGED vars => TypeOK' /\ Kept'
<1> SUFFICES ASSUME TypeOK, Kept, UNCHANGED vars PROVE TypeOK' /\ Kept'
  OBVIOUS
<1> USE DEF vars, place, failures, history
<1>1. TypeOK'
  BY DEF TypeOK
<1>2. Places'
  BY DEF Kept, Places, InLayers, Going
<1>3. Apart'
  BY DEF Kept, Apart, Going, TriedBefore
<1>4. NoneSkipped'
  BY DEF Kept, NoneSkipped, InLayers, Going, Settled, Rest, LimitReached
<1>5. Counted'
  BY DEF Kept, Counted, Base, Spent, TriedBefore
<1> QED
  BY <1>1, <1>2, <1>3, <1>4, <1>5 DEF Kept

\* The invariant implies what the runs check of the walk.
LEMMA WalkOrdered == TypeOK /\ Kept => LosslessFirst /\ HigherLayersFirst /\ SendsBounded
<1> SUFFICES ASSUME TypeOK, Kept PROVE LosslessFirst /\ HigherLayersFirst /\ SendsBounded
  OBVIOUS
<1>1. LosslessFirst /\ HigherLayersFirst
  BY DEF Kept, NoneSkipped, LosslessFirst, HigherLayersFirst, InLayers, Going
<1>2. SendsBounded
  <2> SUFFICES ASSUME NEW t \in Targets
               PROVE  sends[t] <= (MaxSwitches + 1) * (IF t = bound THEN 2 ELSE 1)
    BY DEF SendsBounded
  <2>1. sends[t] \in Nat /\ MaxSwitches \in Nat /\ switches \in 0..MaxSwitches
        /\ sends[t] <= Base(t) + Spent(t)
    BY WalkAssumption DEF TypeOK, Kept, Counted
  <2>2. Spent(t) \in Nat /\ Spent(t) <= MaxSwitches + 1
    BY <2>1 DEF Spent
  <2>3. CASE t = bound
    BY <2>1, <2>2, <2>3 DEF Base
  <2>4. CASE t # bound
    BY <2>1, <2>2, <2>4 DEF Base
  <2> QED
    BY <2>3, <2>4
<1> QED
  BY <1>1, <1>2

-----------------------------------------------------------------------------
(* The walk as a part of a request's behaviour.                             *)

\* The invariant holds of a request that walks, and is kept by every step.
THEOREM WalkAlways == RequestSpec => [](part = "walk" => TypeOK /\ Kept)
<1>1. RequestInit => (part = "walk" => TypeOK /\ Kept)
  BY WalkStarts DEF RequestInit, WalkInv, Kept
<1>2. (part = "walk" => TypeOK /\ Kept) /\ [RequestNext]_requestVars => (part = "walk" => TypeOK /\ Kept)'
  <2> SUFFICES ASSUME part = "walk", part' = "walk", TypeOK /\ Kept, [RequestNext]_requestVars
               PROVE  TypeOK' /\ Kept'
    BY DEF RequestNext, requestVars
  <2>1. Next \/ UNCHANGED vars
    BY DEF RequestNext, requestVars
  <2> QED
    BY <2>1, WalkTypes, WalkSteps, WalkStutters DEF Kept
<1> QED
  BY <1>1, <1>2, PTL DEF RequestSpec

\* Degraded candidates and lower layers are used only when what is better was sent
\* to or cannot be used, and a target gets a bounded number of attempts, for all plans,
\* pools and limits.  (walk_layer, try_candidates, wait_and_run, already_tried.)
THEOREM WalkIsOrdered == RequestSpec => []Ordered
<1>1. (part = "walk" => TypeOK /\ Kept) => Ordered
  BY WalkOrdered DEF Ordered
<1> QED
  BY <1>1, WalkAlways, PTL

-----------------------------------------------------------------------------
(* The delivery: pieces, frames and what the client gets.                   *)

\* What the delivery takes of its constants.
StreamLimits ==
  /\ Interval \in Nat /\ Idle \in Nat /\ Grace \in Nat /\ Deadline \in Nat /\ MaxFrames \in Nat
  /\ Attempts \subseteq Nat /\ 1 \in Attempts /\ None \notin 1..MaxFrames

\* The constants are such.
LEMMA Limited == StreamLimits
  BY StreamAssumption DEF StreamLimits

\* The sequences of the delivery are those of the walk.
LEMMA SameKeep == \A s, S : Stream!Keep(s, S) = Keep(s, S) /\ Stream!Elements(s) = Elements(s)
  BY DEF Stream!Keep, Keep, Stream!Elements, Elements

\* The pieces are of the frames whose kinds are given.
OfFrames(pieces, kinds) ==
  /\ pieces \in Seq(Stream!Piece)
  /\ \A i \in DOMAIN pieces : pieces[i].n \in 1..Len(kinds)

\* An error event is at most at the end of them, or not there at all.
TellsError(p, kinds) == p.part # "head" /\ kinds[p.n] = "error"
ErrorLast(pieces, kinds) == \A i \in DOMAIN pieces : TellsError(pieces[i], kinds) => i = Len(pieces)
Quiet(pieces, kinds) == \A i \in DOMAIN pieces : ~TellsError(pieces[i], kinds)

\* What the client gets ends in an error, or has none.
IsError(f) == f.as = "error"
EndsInError(fs) == \A i \in DOMAIN fs : IsError(fs[i]) => i = Len(fs)
NoErrors(fs) == \A i \in DOMAIN fs : ~IsError(fs[i])

\* What is kept of it does the same.
LEMMA KeepErrors ==
  ASSUME NEW T, NEW fs \in Seq(T), NEW S
  PROVE  /\ EndsInError(fs) => EndsInError(Keep(fs, S))
         /\ NoErrors(fs) => NoErrors(Keep(fs, S))
<1> DEFINE k == Keep(fs, S)
<1>1. k \in Seq(T) /\ Picks(k, fs, S, Len(fs))
  BY KeepPicks
<1> HIDE DEF k
<1>2. PICK at \in [1..Len(k) -> 1..Len(fs)] :
        /\ \A i \in 1..Len(k) : k[i] = fs[at[i]]
        /\ \A i, j \in 1..Len(k) : i < j => at[i] < at[j]
  BY <1>1, Zenon DEF Picks
<1>3. /\ Len(k) \in Nat /\ DOMAIN k = 1..Len(k)
      /\ Len(fs) \in Nat /\ DOMAIN fs = 1..Len(fs)
  BY <1>1
<1>4. ASSUME NoErrors(fs) PROVE NoErrors(k)
  BY <1>2, <1>3, <1>4 DEF NoErrors
<1>5. ASSUME EndsInError(fs) PROVE EndsInError(k)
  <2> DEFINE m == Len(k)  n == Len(fs)
  <2>1. /\ m \in Nat /\ DOMAIN k = 1..m /\ n \in Nat /\ DOMAIN fs = 1..n /\ at \in [1..m -> 1..n]
        /\ \A i \in 1..m : k[i] = fs[at[i]]
        /\ \A i, j \in 1..m : i < j => at[i] < at[j]
        /\ \A i \in 1..n : IsError(fs[i]) => i = n
    BY <1>2, <1>3, <1>5, Zenon DEF EndsInError
  <2> HIDE DEF m, n
  <2>2. ASSUME NEW i \in 1..m, IsError(k[i]), i # m PROVE FALSE
    <3>1. i < m /\ m \in 1..m
      BY <2>1, <2>2
    <3>2. at[i] = n
      BY <2>1, <2>2
    <3>3. at[i] < at[m] /\ at[m] \in 1..n
      BY <2>1, <3>1
    <3> QED
      BY <2>1, <3>2, <3>3
  <2>3. \A i \in DOMAIN k : IsError(k[i]) => i = m
    BY <2>1, <2>2, Zenon
  <2> QED
    BY <2>3 DEF EndsInError, m
<1> QED
  BY <1>4, <1>5 DEF k

\* What is whole among the pieces.
LEMMA CompletedPieces ==
  ASSUME NEW kinds, NEW pieces, OfFrames(pieces, kinds)
  PROVE  /\ Stream!Completed(pieces) \in Seq(Stream!Piece)
         /\ \A i \in DOMAIN Stream!Completed(pieces) :
              \E j \in DOMAIN pieces : Stream!Completed(pieces)[i] = pieces[j] /\ pieces[j].part # "head"
         /\ \A j \in DOMAIN pieces : pieces[j].part # "head" =>
              pieces[j] \in Elements(Stream!Completed(pieces))
         /\ ErrorLast(pieces, kinds) =>
              \A i \in DOMAIN Stream!Completed(pieces) : kinds[Stream!Completed(pieces)[i].n] = "error" =>
                /\ i = Len(Stream!Completed(pieces))
                /\ pieces # <<>> /\ pieces[Len(pieces)].part # "head"
<1> DEFINE k == Stream!Completed(pieces)
           S == [n : 0..MaxFrames, part : {"whole", "tail"}]
<1>1. k = Keep(pieces, S) /\ pieces \in Seq(Stream!Piece)
  BY SameKeep DEF Stream!Completed, OfFrames
<1>2. k \in Seq(Stream!Piece) /\ Picks(k, pieces, S, Len(pieces))
  BY <1>1, KeepPicks
<1>3. PICK at \in [1..Len(k) -> 1..Len(pieces)] :
        /\ \A i \in 1..Len(k) : k[i] = pieces[at[i]] /\ k[i] \in S
        /\ \A i, j \in 1..Len(k) : i < j => at[i] < at[j]
        /\ \A p \in 1..Len(pieces) : pieces[p] \in S => \E i \in 1..Len(k) : at[i] = p
  BY <1>2, Zenon DEF Picks
<1>4. /\ Len(k) \in Nat /\ DOMAIN k = 1..Len(k)
      /\ Len(pieces) \in Nat /\ DOMAIN pieces = 1..Len(pieces)
  BY <1>1, <1>2
<1> HIDE DEF k
<1>5. \A i \in 1..Len(k) : pieces[at[i]].part # "head"
  BY <1>3
<1>6. ASSUME ErrorLast(pieces, kinds), NEW i \in 1..Len(k), kinds[k[i].n] = "error"
      PROVE  i = Len(k) /\ pieces # <<>> /\ pieces[Len(pieces)].part # "head"
  <2>1. at[i] \in 1..Len(pieces) /\ at[i] = Len(pieces)
    BY <1>3, <1>4, <1>5, <1>6 DEF ErrorLast, TellsError
  <2> DEFINE m == Len(k)  n == Len(pieces)
  <2>2. /\ m \in Nat /\ n \in Nat /\ at \in [1..m -> 1..n] /\ i \in 1..m
        /\ \A x, y \in 1..m : x < y => at[x] < at[y]
        /\ at[i] = n /\ at[i] \in 1..n
    BY <1>3, <1>4, <2>1, Zenon
  <2>3. pieces # <<>> /\ pieces[Len(pieces)].part # "head"
    BY <1>4, <1>5, <2>1
  <2> HIDE DEF m, n
  <2>4. ASSUME i # m PROVE FALSE
    <3>1. i < m /\ m \in 1..m
      BY <2>2, <2>4
    <3>2. at[i] < at[m] /\ at[m] \in 1..n
      BY <2>2, <3>1
    <3> QED
      BY <2>2, <3>2
  <2>5. i = m
    BY <2>4
  <2> QED
    BY <2>3, <2>5 DEF m
<1>7. ASSUME NEW j \in 1..Len(pieces), pieces[j].part # "head" PROVE pieces[j] \in Elements(k)
  <2>1. pieces[j] \in Stream!Piece
    BY <1>1, <1>4
  <2>2. pieces[j] \in S
    BY <1>7, <2>1 DEF Stream!Piece
  <2>3. PICK i \in 1..Len(k) : at[i] = j
    BY <1>3, <2>2, Zenon
  <2>4. k[i] = pieces[j] /\ i \in DOMAIN k
    BY <1>3, <1>4, <2>3
  <2> QED
    BY <2>4, Zenon DEF Elements
<1>8. \A i \in 1..Len(k) : \E j \in 1..Len(pieces) : k[i] = pieces[j] /\ pieces[j].part # "head"
  BY <1>3, <1>5
<1> QED
  BY <1>2, <1>4, <1>6, <1>7, <1>8 DEF k

\* Two sequences after each other.
LEMMA Joined ==
  ASSUME NEW T, NEW s \in Seq(T), NEW r \in Seq(T)
  PROVE  /\ s \o r \in Seq(T) /\ Len(s \o r) = Len(s) + Len(r) /\ Len(s) \in Nat /\ Len(r) \in Nat
         /\ DOMAIN s = 1..Len(s) /\ DOMAIN r = 1..Len(r) /\ DOMAIN (s \o r) = 1..(Len(s) + Len(r))
         /\ \A i \in 1..Len(s) : (s \o r)[i] = s[i]
         /\ \A i \in 1..(Len(s) + Len(r)) : i > Len(s) =>
              i - Len(s) \in 1..Len(r) /\ (s \o r)[i] = r[i - Len(s)]
  OBVIOUS

\* What an upstream has sent: an error event ends it, and there is something to cut.
SentOk ==
  /\ sent \in Seq(Stream!Kinds) /\ Len(sent) <= MaxFrames /\ cut \in BOOLEAN
  /\ \A i \in DOMAIN sent : sent[i] = "error" => i = Len(sent)
  /\ cut => sent # <<>>

\* A chunk begins two frames at the most, and an error event is the last one.
LEMMA NewFrames ==
  ASSUME NEW new \in Stream!Chunks
  PROVE  /\ new \in Seq(Stream!Kinds) /\ Len(new) \in 0..2 /\ DOMAIN new = 1..Len(new)
         /\ \A i \in 1..Len(new) : new[i] = "error" => i = Len(new)
<1>1. \/ new = <<>>
      \/ \E k \in Stream!Kinds : new = <<k>>
      \/ \E k \in Stream!Kinds \ {"error"}, l \in Stream!Kinds : new = <<k, l>>
  BY DEF Stream!Chunks
<1>2. CASE new = <<>>
  BY <1>2
<1>3. CASE \E k \in Stream!Kinds : new = <<k>>
  <2>1. PICK k \in Stream!Kinds : new = <<k>>
    BY <1>3
  <2>2. new \in Seq(Stream!Kinds) /\ Len(new) = 1 /\ DOMAIN new = 1..1
    BY <2>1
  <2> QED
    BY <2>2
<1>4. CASE \E k \in Stream!Kinds \ {"error"}, l \in Stream!Kinds : new = <<k, l>>
  <2>1. PICK k \in Stream!Kinds \ {"error"}, l \in Stream!Kinds : new = <<k, l>>
    BY <1>4
  <2>2. new \in Seq(Stream!Kinds) /\ Len(new) = 2 /\ DOMAIN new = 1..2 /\ new[1] # "error"
    BY <2>1
  <2> QED
    BY <2>2
<1> QED
  BY <1>1, <1>2, <1>3, <1>4

\* An error event comes last, and nothing but its own rest after it.
LEMMA SentAfter ==
  ASSUME SentOk, NEW new \in Stream!Chunks, NEW half \in BOOLEAN, Stream!Comes(new, half),
         NEW all, all = sent \o new
  PROVE  /\ all \in Seq(Stream!Kinds) /\ Len(all) = Len(sent) + Len(new) /\ Len(all) \in 0..MaxFrames
         /\ DOMAIN all = 1..Len(all)
         /\ \A i \in DOMAIN sent : all[i] = sent[i]
         /\ \A i \in DOMAIN all : all[i] = "error" => i = Len(all)
         /\ half => all # <<>>
<1> DEFINE L == Len(sent)  m == Len(new)
<1>1. new \in Seq(Stream!Kinds) /\ m \in 0..2 /\ DOMAIN new = 1..m
  BY NewFrames
<1>0. \A i \in 1..m : new[i] = "error" => i = m
  BY NewFrames
<1>2. /\ L \in Nat /\ DOMAIN sent = 1..L /\ MaxFrames \in Nat
      /\ all \in Seq(Stream!Kinds) /\ Len(all) = L + m /\ DOMAIN all = 1..(L + m)
      /\ \A i \in 1..L : all[i] = sent[i]
      /\ \A i \in 1..(L + m) : i > L => i - L \in 1..m /\ all[i] = new[i - L]
  <2>1. MaxFrames \in Nat /\ sent \in Seq(Stream!Kinds)
    BY Limited DEF SentOk, StreamLimits
  <2> QED
    BY <1>1, <2>1, Joined
<1>3. L + m <= MaxFrames /\ (half => m > 0)
  <2>1. L + m <= MaxFrames /\ (half => new # <<>>)
    BY DEF Stream!Comes
  <2>2. new # <<>> => m # 0
    BY <1>1
  <2> QED
    BY <1>1, <2>1, <2>2
<1>4. ASSUME NEW i \in 1..L, sent[i] = "error" PROVE m = 0 /\ i = L
  <2>1. Stream!Contains(sent, "error")
    BY <1>2, <1>4 DEF Stream!Contains
  <2> QED
    BY <1>1, <1>2, <1>4, <2>1 DEF Stream!Comes, SentOk
<1> HIDE DEF L, m
<1>5. ASSUME NEW i \in 1..(L + m), all[i] = "error" PROVE i = L + m
  <2>1. CASE i <= L
    <3>1. i \in 1..L
      BY <1>1, <1>2, <2>1
    <3>2. m = 0 /\ i = L
      BY <1>2, <1>4, <1>5, <3>1
    <3> QED
      BY <1>2, <3>2
  <2>2. CASE i > L
    BY <1>0, <1>1, <1>2, <1>5, <2>2
  <2> QED
    BY <1>1, <1>2, <2>1, <2>2
<1>6. half => all # <<>>
  BY <1>1, <1>2, <1>3
<1>7. Len(all) \in 0..MaxFrames
  BY <1>1, <1>2, <1>3
<1> QED
  BY <1>2, <1>5, <1>6, <1>7 DEF L, m

\* The pieces of a chunk are of the frames sent so far, an error event at their end.
LEMMA ChunkPieces ==
  ASSUME SentOk, NEW new \in Stream!Chunks, NEW half \in BOOLEAN, Stream!Comes(new, half)
  PROVE  /\ OfFrames(Stream!ChunkOf(new, half), sent \o new)
         /\ ErrorLast(Stream!ChunkOf(new, half), sent \o new)
<1> DEFINE L == Len(sent)  m == Len(new)  all == sent \o new  chunk == Stream!ChunkOf(new, half)
           t == IF cut THEN <<[n |-> L, part |-> "tail"]>> ELSE <<>>
           w == [i \in DOMAIN new |-> [n |-> L + i, part |-> IF half /\ i = Len(new) THEN "head" ELSE "whole"]]
<1>1. new \in Seq(Stream!Kinds) /\ m \in 0..2 /\ DOMAIN new = 1..m
  BY NewFrames
<1>2. /\ Len(all) = L + m /\ Len(all) \in 0..MaxFrames /\ DOMAIN all = 1..Len(all)
      /\ \A i \in DOMAIN all : all[i] = "error" => i = Len(all)
  BY SentAfter
<1>3. L \in Nat /\ MaxFrames \in Nat /\ (cut => L # 0)
  BY Limited DEF SentOk, StreamLimits
<1>4. chunk = t \o w
  BY DEF Stream!ChunkOf
<1>5. ASSUME cut
      PROVE  /\ t \in Seq(Stream!Piece) /\ Len(t) = 1
             /\ \A i \in 1..Len(t) : t[i].n = L /\ L \in 1..(L + m)
  <2> HIDE DEF L, m, all
  <2>1. L \in 1..(L + m) /\ L \in 0..MaxFrames
    BY <1>1, <1>2, <1>3, <1>5
  <2>2. [n |-> L, part |-> "tail"] \in Stream!Piece
    BY <2>1 DEF Stream!Piece
  <2>3. t = <<[n |-> L, part |-> "tail"]>>
    BY <1>5
  <2> QED
    BY <2>1, <2>2, <2>3
<1>6. ASSUME ~cut PROVE t = <<>> /\ t \in Seq(Stream!Piece) /\ Len(t) = 0
  BY <1>6
<1>7. w \in Seq(Stream!Piece) /\ Len(w) = m /\ \A i \in 1..m : w[i].n = L + i
  <2>1. \A i \in 1..m : L + i \in 0..MaxFrames
    <3> HIDE DEF L, m, all
    <3> QED
      BY <1>1, <1>2, <1>3
  <2>2. \A i \in 1..m : w[i] \in Stream!Piece
    BY <1>1, <2>1 DEF Stream!Piece
  <2>3. \A i \in 1..m : w[i].n = L + i
    BY <1>1
  <2>4. w \in Seq(Stream!Piece) /\ Len(w) = m
    <3>1. w = [i \in 1..m |-> w[i]] /\ m \in Nat
      BY <1>1
    <3> HIDE DEF w, m
    <3> QED
      BY <2>2, <3>1
  <2> QED
    BY <2>3, <2>4
<1> HIDE DEF t, w
<1>8. /\ t \in Seq(Stream!Piece) /\ Len(t) \in 0..1
      /\ \A i \in 1..Len(t) : t[i].n = L /\ L \in 1..(L + m)
  BY <1>5, <1>6
<1>9. /\ chunk \in Seq(Stream!Piece) /\ Len(chunk) = Len(t) + m /\ DOMAIN chunk = 1..(Len(t) + m)
      /\ \A i \in 1..Len(t) : chunk[i] = t[i]
      /\ \A i \in 1..(Len(t) + m) : i > Len(t) => i - Len(t) \in 1..m /\ chunk[i] = w[i - Len(t)]
  BY <1>4, <1>7, <1>8, Joined
<1> HIDE DEF L, m, all, chunk
<1>10. \A i \in 1..(Len(t) + m) :
         /\ chunk[i].n \in 1..(L + m)
         /\ chunk[i].n = L + m => i = Len(t) + m \/ (i <= Len(t) /\ m = 0)
  <2> SUFFICES ASSUME NEW i \in 1..(Len(t) + m)
               PROVE  /\ chunk[i].n \in 1..(L + m)
                      /\ chunk[i].n = L + m => i = Len(t) + m \/ (i <= Len(t) /\ m = 0)
    OBVIOUS
  <2>1. CASE i > Len(t)
    <3>1. chunk[i].n = L + (i - Len(t)) /\ i - Len(t) \in 1..m
      BY <1>7, <1>9, <2>1
    <3> QED
      BY <1>1, <1>3, <1>8, <3>1
  <2>2. CASE i <= Len(t)
    <3>1. chunk[i].n = L /\ L \in 1..(L + m)
      BY <1>1, <1>8, <1>9, <2>2
    <3> QED
      BY <1>1, <1>3, <1>8, <2>2, <3>1
  <2> QED
    BY <1>1, <1>8, <2>1, <2>2
<1>11. OfFrames(chunk, all)
  BY <1>2, <1>9, <1>10 DEF OfFrames
<1>12. ErrorLast(chunk, all)
  <2> SUFFICES ASSUME NEW i \in 1..(Len(t) + m), all[chunk[i].n] = "error" PROVE i = Len(t) + m
    BY <1>9 DEF ErrorLast, TellsError
  <2>1. chunk[i].n = L + m
    BY <1>2, <1>10
  <2> QED
    BY <1>1, <1>8, <1>10, <2>1
<1> QED
  BY <1>11, <1>12 DEF all, chunk

\* The frames that private_stream passes on.
Passing == [n : 0..MaxFrames, kind : Stream!Kinds \cup {"alive", "half"},
            as : {"whole", "alive", "error", "glued", "torn", "half"}]

OneBy(fs) == \A i \in DOMAIN fs : fs[i].by = attempt

\* What is given to the client after what it has.
LEMMA GivenFrames ==
  ASSUME NEW fs \in Seq(Passing), EndsInError(fs), attempt \in Attempts,
         out \in Seq(Stream!Frame), NoErrors(out), OneBy(out)
  PROVE  /\ Stream!Given(fs) \in Seq(Stream!Frame)
         /\ EndsInError(Stream!Given(fs)) /\ OneBy(Stream!Given(fs))
         /\ NoErrors(fs) => NoErrors(Stream!Given(fs))
<1> DEFINE S == {f \in Stream!Elements(fs) : ~(strip /\ f.as = "whole" /\ f.kind = "usage")}
           w == Keep(fs, S)
           r == [i \in DOMAIN w |-> Stream!AsFrame(w[i].n, w[i].as)]
<1>1. w \in Seq(Passing) /\ EndsInError(w) /\ (NoErrors(fs) => NoErrors(w))
  BY KeepErrors, KeepPicks
<1>2. Stream!Given(fs) = out \/ Stream!Given(fs) = out \o r
  BY SameKeep DEF Stream!Given
<1> HIDE DEF w
<1>3. Len(w) \in Nat /\ DOMAIN w = 1..Len(w) /\ \A i \in 1..Len(w) : w[i] \in Passing
  BY <1>1
<1>4. \A i \in 1..Len(w) : r[i] \in Stream!Frame /\ IsError(r[i]) = IsError(w[i]) /\ r[i].by = attempt
  BY <1>3 DEF Passing, Stream!Frame, Stream!AsFrame, IsError
<1>5. r \in Seq(Stream!Frame) /\ Len(r) = Len(w)
  <2>1. r = [i \in 1..Len(w) |-> r[i]]
    BY <1>3
  <2> HIDE DEF r
  <2> QED
    BY <1>3, <1>4, <2>1
<1> HIDE DEF r
<1>6. CASE Stream!Given(fs) = out
  BY <1>6 DEF EndsInError, NoErrors
<1>7. CASE Stream!Given(fs) = out \o r
  <2> DEFINE g == out \o r
  <2>1. /\ g \in Seq(Stream!Frame) /\ Len(g) = Len(out) + Len(w) /\ Len(out) \in Nat
        /\ DOMAIN out = 1..Len(out) /\ DOMAIN g = 1..(Len(out) + Len(w))
        /\ \A i \in 1..Len(out) : g[i] = out[i]
        /\ \A i \in 1..(Len(out) + Len(w)) : i > Len(out) =>
             i - Len(out) \in 1..Len(w) /\ g[i] = r[i - Len(out)]
    <3>1. out \in Seq(Stream!Frame) /\ r \in Seq(Stream!Frame)
      BY <1>5
    <3>2. /\ g \in Seq(Stream!Frame) /\ Len(g) = Len(out) + Len(r) /\ Len(out) \in Nat
          /\ DOMAIN out = 1..Len(out) /\ DOMAIN g = 1..(Len(out) + Len(r))
          /\ \A i \in 1..Len(out) : g[i] = out[i]
          /\ \A i \in 1..(Len(out) + Len(r)) : i > Len(out) =>
               i - Len(out) \in 1..Len(r) /\ g[i] = r[i - Len(out)]
      BY <3>1, Joined
    <3> QED
      BY <1>5, <3>2
  <2> HIDE DEF g
  <2>2. \A i \in 1..(Len(out) + Len(w)) : i <= Len(out) => i \in 1..Len(out)
    BY <1>3, <2>1
  <2>3. OneBy(g)
    <3> SUFFICES ASSUME NEW i \in 1..(Len(out) + Len(w)) PROVE g[i].by = attempt
      BY <2>1 DEF OneBy
    <3>1. CASE i <= Len(out)
      BY <2>1, <2>2, <3>1 DEF OneBy
    <3>2. CASE i > Len(out)
      BY <1>4, <2>1, <3>2
    <3> QED
      BY <2>1, <3>1, <3>2
  <2>4. ASSUME NEW i \in 1..(Len(out) + Len(w)), IsError(g[i])
        PROVE  i - Len(out) \in 1..Len(w) /\ IsError(w[i - Len(out)]) /\ i > Len(out)
    <3>1. CASE i <= Len(out)
      BY <2>1, <2>2, <2>4, <3>1 DEF NoErrors
    <3>2. CASE i > Len(out)
      BY <1>4, <2>1, <2>4, <3>2
    <3> QED
      BY <2>1, <3>1, <3>2
  <2>5. EndsInError(g)
    <3> SUFFICES ASSUME NEW i \in 1..(Len(out) + Len(w)), IsError(g[i]) PROVE i = Len(out) + Len(w)
      BY <2>1 DEF EndsInError
    <3>1. i - Len(out) = Len(w)
      BY <1>1, <1>3, <2>4 DEF EndsInError
    <3> QED
      BY <1>3, <2>1, <3>1
  <2>6. NoErrors(fs) => NoErrors(g)
    BY <1>1, <1>3, <2>1, <2>4 DEF NoErrors
  <2> QED
    BY <1>7, <2>1, <2>3, <2>5, <2>6 DEF g
<1> QED
  BY <1>2, <1>6, <1>7

\* The half frame after the pieces is a frame, or there is none.
LEMMA HalfFrame ==
  ASSUME NEW kinds, Len(kinds) \in 0..MaxFrames, NEW pieces, OfFrames(pieces, kinds),
         private \in (1..MaxFrames) \cup {None}
  PROVE  /\ Stream!HalfAfter(pieces) \in (1..MaxFrames) \cup {None}
         /\ pieces # <<>> /\ pieces[Len(pieces)].part # "head" => Stream!HalfAfter(pieces) = None
<1>1. ASSUME pieces # <<>> PROVE Len(pieces) \in DOMAIN pieces
  BY <1>1 DEF OfFrames
<1>2. ASSUME pieces # <<>> PROVE pieces[Len(pieces)].n \in 1..MaxFrames
  <2>1. pieces[Len(pieces)].n \in 1..Len(kinds) /\ MaxFrames \in Nat
    BY <1>1, <1>2, Limited DEF OfFrames, StreamLimits
  <2> QED
    BY <2>1
<1>3. CASE pieces = <<>>
  BY <1>3 DEF Stream!HalfAfter
<1>4. CASE pieces # <<>>
  BY <1>2, <1>4 DEF Stream!HalfAfter, Stream!Last
<1> QED
  BY <1>3, <1>4

\* Relay: what goes on keeps to the types and to the attempt, and an error is the end.
LEMMA RelayGives ==
  ASSUME NEW kinds \in Seq(Stream!Kinds), Len(kinds) \in 0..MaxFrames,
         NEW pieces, OfFrames(pieces, kinds), ErrorLast(pieces, kinds),
         NEW own \in {"none", "alive", "error"}, own # "none" => Quiet(pieces, kinds),
         NEW next \in {"alive", "relaying", "over"}, own = "error" => next = "over",
         private \in (1..MaxFrames) \cup {None}, attempt \in Attempts,
         out \in Seq(Stream!Frame), NoErrors(out), OneBy(out),
         noted \in [error : BOOLEAN, stop : BOOLEAN],
         timer \in [total : 0..Deadline, beat : 0..(Grace + Interval), idle : 0..Idle],
         Stream!Relay(pieces, kinds, own, next)
  PROVE  /\ out' \in Seq(Stream!Frame) /\ EndsInError(out') /\ \A i \in DOMAIN out' : out'[i].by = attempt
         /\ phase' \in {next, "over"}
         /\ phase' # "over" => NoErrors(out')
         /\ private' \in (1..MaxFrames) \cup {None}
         /\ noted' \in [error : BOOLEAN, stop : BOOLEAN]
         /\ timer' \in [total : 0..Deadline, beat : 0..(Grace + Interval), idle : 0..Idle]
<1> DEFINE whole == Stream!Completed(pieces)
           after == Stream!HalfAfter(pieces)
           ended == next = "over" \/ \E p \in Stream!Elements(whole) : kinds[p.n] = "error"
           half == IF own = "none" THEN after ELSE None
           mark == CASE after = None -> own
                     [] after # None /\ own = "alive" -> "torn"
                     [] after # None /\ own = "error" -> "glued"
                     [] OTHER -> "none"
           a == [i \in DOMAIN whole |->
                   [n |-> whole[i].n, kind |-> kinds[whole[i].n],
                    as |-> IF kinds[whole[i].n] = "error" THEN "error" ELSE "whole"]]
           b == IF own = "none" THEN <<>> ELSE <<[n |-> 0, kind |-> own, as |-> mark]>>
           c == IF ended /\ half # None THEN <<[n |-> half, kind |-> "half", as |-> "half"]>> ELSE <<>>
           fs == (a \o b) \o c
<1>1. /\ out' = Stream!Given(fs) /\ noted' = Stream!Accounted(fs)
      /\ timer' = [timer EXCEPT !.total = 0, !.beat = 0, !.idle = IF fs = <<>> THEN @ ELSE 0]
      /\ private' = IF ended THEN None ELSE half
      /\ phase' = IF ended THEN "over" ELSE next
  BY DEF Stream!Relay, Stream!Passed
<1>2. whole \in Seq(Stream!Piece) /\ Len(whole) \in Nat /\ DOMAIN whole = 1..Len(whole)
  BY CompletedPieces
<1> DEFINE Fatal(i) == kinds[whole[i].n] = "error"
<1>3. \A i \in 1..Len(whole) : whole[i].n \in 1..Len(kinds)
  <2> SUFFICES ASSUME NEW i \in DOMAIN whole PROVE whole[i].n \in 1..Len(kinds)
    BY <1>2
  <2>1. PICK j \in DOMAIN pieces : whole[i] = pieces[j]
    BY CompletedPieces
  <2> QED
    BY <2>1 DEF OfFrames
<1>4. after \in (1..MaxFrames) \cup {None}
  BY HalfFrame
<1>5. ASSUME NEW i \in 1..Len(whole), Fatal(i)
      PROVE  i = Len(whole) /\ ended /\ after = None /\ own = "none"
  <2>1. i \in DOMAIN whole
    BY <1>2
  <2>2. i = Len(whole) /\ pieces # <<>> /\ pieces[Len(pieces)].part # "head"
    BY <1>5, <2>1, CompletedPieces
  <2>3. after = None
    BY <2>2, HalfFrame
  <2>4. PICK j \in DOMAIN pieces : whole[i] = pieces[j] /\ pieces[j].part # "head"
    BY <2>1, CompletedPieces
  <2>5. own = "none"
    <3>1. TellsError(pieces[j], kinds)
      BY <1>5, <2>4 DEF TellsError
    <3> QED
      BY <2>4, <3>1, Zenon DEF Quiet
  <2>6. ended
    <3>1. whole[i] \in Stream!Elements(whole)
      BY <2>1, Zenon DEF Stream!Elements
    <3> QED
      BY <1>5, <3>1
  <2> QED
    BY <2>2, <2>3, <2>5, <2>6
<1> HIDE DEF whole, after, ended
<1>6. MaxFrames \in Nat
  BY Limited DEF StreamLimits
<1>7. \A i \in 1..Len(whole) : a[i] \in Passing /\ (IsError(a[i]) <=> Fatal(i))
  <2>1. \A i \in 1..Len(whole) : whole[i].n \in 0..MaxFrames /\ kinds[whole[i].n] \in Stream!Kinds
    BY <1>3, <1>6
  <2> QED
    BY <1>2, <2>1 DEF Passing, IsError
<1> HIDE DEF Fatal
<1>8. a \in Seq(Passing) /\ Len(a) = Len(whole)
  <2>1. a = [i \in 1..Len(whole) |-> a[i]]
    BY <1>2
  <2> HIDE DEF a
  <2> QED
    BY <1>2, <1>7, <2>1
<1>10. ASSUME own # "none"
       PROVE  b \in Seq(Passing) /\ Len(b) = 1 /\ (IsError(b[1]) => ended)
  <2>1. mark \in {"alive", "error", "glued", "torn"} /\ (mark = "error" => own = "error")
    BY <1>10
  <2>2. [n |-> 0, kind |-> own, as |-> mark] \in Passing
    BY <1>6, <1>10, <2>1 DEF Passing, Stream!Kinds
  <2>3. IsError([n |-> 0, kind |-> own, as |-> mark]) => ended
    BY <2>1 DEF IsError, ended
  <2> DEFINE f == [n |-> 0, kind |-> own, as |-> mark]
  <2>4. b = <<f>>
    BY <1>10
  <2> HIDE DEF f, b
  <2>5. f \in Passing /\ (IsError(f) => ended)
    BY <2>2, <2>3 DEF f
  <2> QED
    BY <2>4, <2>5
<1>11. c = <<>> \/ (own = "none" /\ after # None)
  OBVIOUS
<1>12. c \in Seq(Passing) /\ Len(c) \in 0..1 /\ \A i \in 1..Len(c) : ~IsError(c[i])
  <2>1. CASE ended /\ half # None
    <3> DEFINE f == [n |-> half, kind |-> "half", as |-> "half"]
    <3>1. f \in Passing /\ ~IsError(f)
      BY <1>4, <1>6, <2>1 DEF Passing, IsError
    <3>2. c = <<f>>
      BY <2>1
    <3> HIDE DEF f, c
    <3> QED
      BY <3>1, <3>2
  <2>2. CASE ~(ended /\ half # None)
    <3>1. c = <<>>
      BY <2>2
    <3> HIDE DEF c
    <3> QED
      BY <3>1
  <2> QED
    BY <2>1, <2>2
<1>13. half \in (1..MaxFrames) \cup {None}
  BY <1>4
<1> HIDE DEF a, b, c, half
<1>14. b \in Seq(Passing) /\ Len(b) \in 0..1
  <2>1. CASE own = "none"
    <3>1. b = <<>>
      BY <2>1 DEF b
    <3> QED
      BY <3>1
  <2>2. CASE own # "none"
    BY <1>10, <2>2
  <2> QED
    BY <2>1, <2>2
<1> DEFINE ab == a \o b
<1>15. /\ ab \in Seq(Passing) /\ Len(ab) = Len(a) + Len(b)
       /\ \A i \in 1..Len(a) : ab[i] = a[i]
       /\ \A i \in 1..(Len(a) + Len(b)) : i > Len(a) => i - Len(a) \in 1..Len(b) /\ ab[i] = b[i - Len(a)]
  <2>1. a \in Seq(Passing) /\ b \in Seq(Passing)
    BY <1>8, <1>14
  <2> QED
    BY <2>1, Joined
<1>16. fs = ab \o c
  OBVIOUS
<1> HIDE DEF ab, fs
<1>17. /\ fs \in Seq(Passing) /\ Len(fs) = Len(ab) + Len(c) /\ DOMAIN fs = 1..(Len(ab) + Len(c))
       /\ \A i \in 1..Len(ab) : fs[i] = ab[i]
       /\ \A i \in 1..(Len(ab) + Len(c)) : i > Len(ab) => i - Len(ab) \in 1..Len(c) /\ fs[i] = c[i - Len(ab)]
  <2>1. ab \in Seq(Passing) /\ c \in Seq(Passing)
    BY <1>12, <1>15
  <2> QED
    BY <1>16, <2>1, Joined
<1>18. ASSUME NEW i \in 1..Len(fs), IsError(fs[i]) PROVE i = Len(fs) /\ ended
  <2>1. i <= Len(ab)
    <3>1. Len(ab) \in Nat /\ Len(c) \in Nat
      BY <1>2, <1>8, <1>12, <1>14, <1>15
    <3>2. i > Len(ab) => i - Len(ab) \in 1..Len(c) /\ fs[i] = c[i - Len(ab)]
      BY <1>17
    <3> QED
      BY <1>12, <1>17, <1>18, <3>1, <3>2
  <2>2. i \in 1..Len(ab) /\ IsError(ab[i])
    BY <1>2, <1>8, <1>14, <1>15, <1>17, <1>18, <2>1
  <2>3. CASE i <= Len(a)
    <3>1. i \in 1..Len(whole) /\ IsError(a[i])
      BY <1>2, <1>8, <1>14, <1>15, <2>2, <2>3
    <3>2. i = Len(a) /\ after = None /\ own = "none" /\ ended
      BY <1>5, <1>7, <1>8, <3>1
    <3>3. b = <<>> /\ c = <<>>
      BY <1>11, <3>2 DEF b
    <3>4. i = Len(a) /\ ended
      BY <3>2
    <3>5. Len(b) = 0 /\ Len(c) = 0
      BY <3>3
    <3> QED
      BY <1>2, <1>8, <1>15, <1>17, <3>4, <3>5
  <2>4. CASE i > Len(a)
    <3>1. i - Len(a) \in 1..Len(b) /\ IsError(b[i - Len(a)])
      BY <1>2, <1>8, <1>14, <1>15, <2>2, <2>4
    <3>2. Len(b) = 1 /\ i - Len(a) = 1 /\ b # <<>>
      BY <1>14, <3>1
    <3>3. own # "none"
      BY <3>2 DEF b
    <3>4. ended /\ c = <<>>
      BY <1>10, <1>11, <3>1, <3>2, <3>3
    <3>5. ended /\ Len(c) = 0
      BY <3>4
    <3> QED
      BY <1>2, <1>8, <1>15, <1>17, <3>2, <3>5
  <2> QED
    BY <1>2, <1>8, <2>2, <2>3, <2>4
<1>19. EndsInError(fs) /\ (~ended => NoErrors(fs))
  BY <1>17, <1>18 DEF EndsInError, NoErrors
<1>20. out' \in Seq(Stream!Frame) /\ EndsInError(out') /\ (\A i \in DOMAIN out' : out'[i].by = attempt)
       /\ (~ended => NoErrors(out'))
  BY <1>1, <1>17, <1>19, GivenFrames DEF OneBy
<1>21. noted' \in [error : BOOLEAN, stop : BOOLEAN]
  BY <1>1 DEF Stream!Accounted
<1>22. timer' \in [total : 0..Deadline, beat : 0..(Grace + Interval), idle : 0..Idle]
  <2>1. 0 \in 0..Deadline /\ 0 \in 0..(Grace + Interval) /\ 0 \in 0..Idle
    BY Limited DEF StreamLimits
  <2> QED
    BY <1>1, <2>1
<1> QED
  BY <1>1, <1>13, <1>20, <1>21, <1>22

\* Pieces of frames stay so when more frames have come.
LEMMA MoreFrames ==
  ASSUME NEW kinds \in Seq(Stream!Kinds), NEW more \in Seq(Stream!Kinds), Len(kinds) <= Len(more),
         \A i \in DOMAIN kinds : more[i] = kinds[i],
         NEW pieces, OfFrames(pieces, kinds)
  PROVE  /\ OfFrames(pieces, more)
         /\ Quiet(pieces, kinds) => Quiet(pieces, more)
<1>1. Len(kinds) \in Nat /\ Len(more) \in Nat /\ DOMAIN kinds = 1..Len(kinds)
  OBVIOUS
<1>2. \A i \in DOMAIN pieces : pieces[i].n \in DOMAIN kinds
  BY <1>1 DEF OfFrames
<1>3. \A i \in DOMAIN pieces : pieces[i].n \in 1..Len(more)
  BY <1>1 DEF OfFrames
<1>4. \A i \in DOMAIN pieces : TellsError(pieces[i], more) <=> TellsError(pieces[i], kinds)
  BY <1>2 DEF TellsError
<1> QED
  BY <1>3, <1>4 DEF OfFrames, Quiet

\* A stretch of pieces.
LEMMA SomePieces ==
  ASSUME NEW kinds, NEW pieces, OfFrames(pieces, kinds), NEW m \in Nat \ {0}, NEW n \in 0..Len(pieces)
  PROVE  /\ OfFrames(SubSeq(pieces, m, n), kinds)
         /\ ErrorLast(pieces, kinds) => ErrorLast(SubSeq(pieces, m, n), kinds)
         /\ Quiet(pieces, kinds) => Quiet(SubSeq(pieces, m, n), kinds)
         /\ Len(SubSeq(pieces, m, n)) = IF m <= n THEN n - m + 1 ELSE 0
<1> DEFINE k == SubSeq(pieces, m, n)
<1>1. pieces \in Seq(Stream!Piece) /\ Len(pieces) \in Nat /\ DOMAIN pieces = 1..Len(pieces)
  BY DEF OfFrames
<1>2. \A i \in m..n : pieces[i] \in Stream!Piece
  BY <1>1
<1>3. /\ k \in Seq(Stream!Piece) /\ Len(k) = IF m <= n THEN n - m + 1 ELSE 0
      /\ \A i \in 1..(n - m + 1) : k[i] = pieces[m + i - 1]
  BY <1>1, <1>2, SubSeqProperties
<1> HIDE DEF k
<1>4. \A i \in DOMAIN k : k[i] = pieces[m + i - 1] /\ m + i - 1 \in DOMAIN pieces /\ i \in 1..Len(k)
  BY <1>1, <1>3
<1>5. OfFrames(k, kinds)
  BY <1>3, <1>4 DEF OfFrames
<1>6. Quiet(pieces, kinds) => Quiet(k, kinds)
  BY <1>4 DEF Quiet
<1>7. ASSUME ErrorLast(pieces, kinds) PROVE ErrorLast(k, kinds)
  <2> SUFFICES ASSUME NEW i \in DOMAIN k, TellsError(k[i], kinds) PROVE i = Len(k)
    BY DEF ErrorLast
  <2>1. m + i - 1 = Len(pieces)
    BY <1>4, <1>7 DEF ErrorLast
  <2> QED
    BY <1>1, <1>3, <1>4, <2>1
<1> QED
  BY <1>3, <1>5, <1>6, <1>7 DEF k

\* Pieces after pieces that told nothing.
LEMMA PiecesAfter ==
  ASSUME NEW kinds, NEW before, NEW pieces, OfFrames(before, kinds), OfFrames(pieces, kinds),
         Quiet(before, kinds), ErrorLast(pieces, kinds)
  PROVE  /\ OfFrames(before \o pieces, kinds) /\ ErrorLast(before \o pieces, kinds)
         /\ Quiet(pieces, kinds) => Quiet(before \o pieces, kinds)
<1> DEFINE all == before \o pieces
<1>1. before \in Seq(Stream!Piece) /\ pieces \in Seq(Stream!Piece)
  BY DEF OfFrames
<1>2. /\ all \in Seq(Stream!Piece) /\ Len(all) = Len(before) + Len(pieces)
      /\ Len(before) \in Nat /\ Len(pieces) \in Nat
      /\ DOMAIN before = 1..Len(before) /\ DOMAIN pieces = 1..Len(pieces)
      /\ DOMAIN all = 1..(Len(before) + Len(pieces))
      /\ \A i \in 1..Len(before) : all[i] = before[i]
      /\ \A i \in 1..(Len(before) + Len(pieces)) : i > Len(before) =>
           i - Len(before) \in 1..Len(pieces) /\ all[i] = pieces[i - Len(before)]
  BY <1>1, Joined
<1> HIDE DEF all
<1>3. ASSUME NEW i \in DOMAIN all
      PROVE  \/ i \in DOMAIN before /\ all[i] = before[i]
             \/ i - Len(before) \in DOMAIN pieces /\ all[i] = pieces[i - Len(before)]
  BY <1>2
<1>4. OfFrames(all, kinds)
  BY <1>2, <1>3 DEF OfFrames
<1>5. ErrorLast(all, kinds)
  <2> SUFFICES ASSUME NEW i \in DOMAIN all, TellsError(all[i], kinds) PROVE i = Len(all)
    BY DEF ErrorLast
  <2>1. i - Len(before) = Len(pieces)
    BY <1>3 DEF Quiet, ErrorLast
  <2> QED
    BY <1>2, <2>1
<1>6. Quiet(pieces, kinds) => Quiet(all, kinds)
  BY <1>3 DEF Quiet
<1> QED
  BY <1>4, <1>5, <1>6 DEF all

\* A chunk that the sniffer finds to be noise tells no error.
LEMMA NoiseIsQuiet ==
  ASSUME NEW kinds, NEW pieces, OfFrames(pieces, kinds), Stream!Verdict(pieces, kinds) = "pending"
  PROVE  Quiet(pieces, kinds)
<1> DEFINE whole == Stream!Completed(pieces)
           S == {p \in Stream!Elements(whole) : Stream!Meaning(kinds[p.n]) # "pending"}
           telling == Keep(whole, S)
<1>1. whole \in Seq(Stream!Piece)
  BY CompletedPieces
<1>2. telling \in Seq(Stream!Piece) /\ Elements(telling) = Elements(whole) \cap S
  BY <1>1, KeepElements
<1>3. IF telling = <<>> THEN TRUE ELSE Stream!Meaning(kinds[Head(telling).n]) = "pending"
  BY SameKeep DEF Stream!Verdict
<1> HIDE DEF telling
<1>4. telling = <<>>
  <2> SUFFICES ASSUME telling # <<>> PROVE FALSE
    OBVIOUS
  <2>1. Head(telling) \in Elements(telling)
    BY <1>2, OfTail
  <2>2. Head(telling) \in S
    BY <1>2, <2>1
  <2> QED
    BY <1>3, <2>2
<1>5. \A p \in Elements(whole) : Stream!Meaning(kinds[p.n]) = "pending"
  <2> SUFFICES ASSUME NEW p \in Elements(whole), Stream!Meaning(kinds[p.n]) # "pending" PROVE FALSE
    OBVIOUS
  <2>1. p \in S
    BY SameKeep
  <2> QED
    BY <1>2, <1>4, <2>1, OfEmpty
<1>6. \A p \in Elements(whole) : kinds[p.n] # "error"
  BY <1>5 DEF Stream!Meaning
<1> QED
  BY <1>6, CompletedPieces DEF Quiet, TellsError

\* How many pieces belong to whole frames.
LEMMA CompleteCount ==
  ASSUME NEW pieces \in Seq(Stream!Piece) PROVE Stream!Complete(pieces) \in 0..Len(pieces)
  BY DEF Stream!Complete

\* The last half of a chunk waits for its rest; what is whole is passed on.
LEMMA HalvesWait ==
  ASSUME NEW kinds, NEW pieces, OfFrames(pieces, kinds), ErrorLast(pieces, kinds)
  PROVE  /\ OfFrames(Stream!Waiting(pieces), kinds) /\ Quiet(Stream!Waiting(pieces), kinds)
         /\ OfFrames(Stream!Rejoined(pieces), kinds) /\ ErrorLast(Stream!Rejoined(pieces), kinds)
<1>1. OfFrames(Stream!Waiting(pieces), kinds) /\ Quiet(Stream!Waiting(pieces), kinds)
  <2>1. CASE pieces # <<>> /\ pieces[Len(pieces)].part = "head"
    <3> DEFINE p == pieces[Len(pieces)]
    <3>1. Stream!Waiting(pieces) = <<p>>
      BY <2>1 DEF Stream!Waiting, Stream!Last
    <3>2. Len(pieces) \in DOMAIN pieces
      BY <2>1 DEF OfFrames
    <3>3. p \in Stream!Piece /\ p.n \in 1..Len(kinds) /\ ~TellsError(p, kinds)
      BY <2>1, <3>2 DEF OfFrames, TellsError
    <3> HIDE DEF p
    <3> QED
      BY <3>1, <3>3 DEF OfFrames, Quiet
  <2>2. CASE ~(pieces # <<>> /\ pieces[Len(pieces)].part = "head")
    <3>1. Stream!Waiting(pieces) = <<>>
      BY <2>2 DEF Stream!Waiting, Stream!Last
    <3> QED
      BY <3>1 DEF OfFrames, Quiet
  <2> QED
    BY <2>1, <2>2
<1>2. OfFrames(Stream!Rejoined(pieces), kinds) /\ ErrorLast(Stream!Rejoined(pieces), kinds)
  <2> DEFINE whole == Stream!Completed(pieces)  k == Stream!Rejoined(pieces)
  <2>1. whole \in Seq(Stream!Piece) /\ Len(whole) \in Nat /\ DOMAIN whole = 1..Len(whole)
    BY CompletedPieces
  <2>2. k = [i \in 1..Len(whole) |-> [n |-> whole[i].n, part |-> "whole"]]
    BY <2>1 DEF Stream!Rejoined
  <2>3. ASSUME NEW i \in 1..Len(whole)
        PROVE  /\ whole[i].n \in 1..Len(kinds)
               /\ kinds[whole[i].n] = "error" => i = Len(whole)
    <3>1. i \in DOMAIN whole
      BY <2>1
    <3>2. PICK j \in DOMAIN pieces : whole[i] = pieces[j]
      BY <3>1, CompletedPieces
    <3>3. kinds[whole[i].n] = "error" => i = Len(whole)
      BY <3>1, CompletedPieces
    <3> QED
      BY <3>2, <3>3 DEF OfFrames
  <2>4. \A i \in 1..Len(whole) : whole[i] \in Stream!Piece
    BY <2>1
  <2>5. ASSUME NEW i \in 1..Len(whole)
        PROVE  /\ k[i] \in Stream!Piece /\ k[i].n \in 1..Len(kinds)
               /\ TellsError(k[i], kinds) => i = Len(whole)
    BY <2>2, <2>3, <2>4 DEF TellsError, Stream!Piece
  <2> HIDE DEF whole, k
  <2>6. k \in Seq(Stream!Piece) /\ Len(k) = Len(whole) /\ DOMAIN k = 1..Len(whole)
    <3>1. k = [i \in 1..Len(whole) |-> k[i]]
      BY <2>2
    <3> QED
      BY <2>1, <2>5, <3>1
  <2>7. OfFrames(k, kinds) /\ ErrorLast(k, kinds)
    BY <2>5, <2>6 DEF OfFrames, ErrorLast
  <2> QED
    BY <2>7 DEF k
<1> QED
  BY <1>1, <1>2

Open == {"sniffing", "alive", "relaying"}

\* Before the end nothing that is held or given tells an error, before the commitment
\* nothing is given, and what is given comes from the current attempt.
StreamKept ==
  /\ SentOk
  /\ OfFrames(held, sent)
  /\ phase \in Open => Quiet(held, sent) /\ NoErrors(out)
  /\ phase \in {"sniffing", "failed"} => out = <<>>
  /\ phase \in {"sniffing", "relaying"} => emitted = 0
  /\ EndsInError(out) /\ OneBy(out)

StreamInv == Stream!TypeOK /\ StreamKept

\* What is held and what has come, after each other.
LEMMA AllPieces ==
  ASSUME StreamInv, phase \in Open, NEW new \in Stream!Chunks, NEW half \in BOOLEAN,
         Stream!Comes(new, half), NEW kinds, kinds = sent \o new,
         NEW chunk, chunk = Stream!ChunkOf(new, half), NEW all, all = held \o chunk
  PROVE  /\ kinds \in Seq(Stream!Kinds) /\ Len(kinds) \in 0..MaxFrames
         /\ \A i \in DOMAIN kinds : kinds[i] = "error" => i = Len(kinds)
         /\ half => kinds # <<>>
         /\ OfFrames(held, kinds) /\ Quiet(held, kinds)
         /\ OfFrames(all, kinds) /\ ErrorLast(all, kinds)
         /\ Stream!Verdict(chunk, kinds) = "pending" => Quiet(all, kinds)
<1>1. /\ SentOk /\ OfFrames(held, sent) /\ Quiet(held, sent) /\ sent \in Seq(Stream!Kinds)
  BY DEF StreamInv, StreamKept, SentOk
<1>2. /\ kinds \in Seq(Stream!Kinds) /\ Len(kinds) = Len(sent) + Len(new) /\ Len(kinds) \in 0..MaxFrames
      /\ \A i \in DOMAIN sent : kinds[i] = sent[i]
      /\ half => kinds # <<>>
  BY <1>1, SentAfter
<1>3. \A i \in DOMAIN kinds : kinds[i] = "error" => i = Len(kinds)
  BY <1>1, SentAfter
<1>4. Len(sent) <= Len(kinds)
  <2>1. Len(sent) \in Nat /\ Len(new) \in Nat
    BY <1>1, NewFrames
  <2> QED
    BY <1>2, <2>1
<1>5. OfFrames(held, kinds) /\ Quiet(held, kinds)
  BY <1>1, <1>2, <1>4, MoreFrames
<1>6. OfFrames(chunk, kinds) /\ ErrorLast(chunk, kinds)
  BY <1>1, ChunkPieces
<1>7. /\ OfFrames(all, kinds) /\ ErrorLast(all, kinds)
      /\ Quiet(chunk, kinds) => Quiet(all, kinds)
  BY <1>5, <1>6, PiecesAfter
<1>8. Stream!Verdict(chunk, kinds) = "pending" => Quiet(chunk, kinds)
  BY <1>6, NoiseIsQuiet
<1> QED
  BY <1>2, <1>3, <1>5, <1>7, <1>8

\* A step that passes something on.
LEMMA RelayKeeps ==
  ASSUME StreamInv, phase \in Open, SentOk', OfFrames(held', sent'), Quiet(held', sent'),
         emitted' \in 0..Len(held'), phase' = "relaying" => emitted' = 0,
         up' \in {"open", "eof", "broken"}, UNCHANGED <<path, strip, attempt, verdict>>,
         NEW kinds \in Seq(Stream!Kinds), Len(kinds) \in 0..MaxFrames,
         NEW pieces, OfFrames(pieces, kinds), ErrorLast(pieces, kinds),
         NEW own \in {"none", "alive", "error"}, own # "none" => Quiet(pieces, kinds),
         NEW next \in {"alive", "relaying", "over"}, own = "error" => next = "over",
         Stream!Relay(pieces, kinds, own, next)
  PROVE  StreamInv'
<1>1. /\ private \in (1..MaxFrames) \cup {None} /\ attempt \in Attempts
      /\ out \in Seq(Stream!Frame) /\ NoErrors(out) /\ OneBy(out)
      /\ noted \in [error : BOOLEAN, stop : BOOLEAN]
      /\ timer \in [total : 0..Deadline, beat : 0..(Grace + Interval), idle : 0..Idle]
  BY DEF StreamInv, StreamKept, Stream!TypeOK
<1>3. /\ out' \in Seq(Stream!Frame) /\ EndsInError(out') /\ \A i \in DOMAIN out' : out'[i].by = attempt
      /\ phase' \in {next, "over"}
      /\ phase' # "over" => NoErrors(out')
      /\ private' \in (1..MaxFrames) \cup {None}
      /\ noted' \in [error : BOOLEAN, stop : BOOLEAN]
      /\ timer' \in [total : 0..Deadline, beat : 0..(Grace + Interval), idle : 0..Idle]
  BY <1>1, RelayGives
<1>4. Stream!TypeOK'
  <2>1. sent' \in Seq(Stream!Kinds) /\ Len(sent') <= MaxFrames /\ cut' \in BOOLEAN
    BY DEF SentOk
  <2>2. held' \in Seq(Stream!Piece)
    BY DEF OfFrames
  <2>3. phase' \in {"sniffing", "alive", "relaying", "over", "settled", "failed"}
    BY <1>3
  <2>4. /\ path' \in Paths /\ strip' \in BOOLEAN /\ (strip' => path' = "same") /\ attempt' \in Attempts
        /\ verdict' \in [Attempts -> {"success", "fault", "neutral", None}]
    BY DEF StreamInv, Stream!TypeOK
  <2> QED
    BY <1>3, <2>1, <2>2, <2>3, <2>4 DEF Stream!TypeOK
<1>5. StreamKept'
  <2>1. OneBy(out)'
    BY <1>3 DEF OneBy
  <2>2. phase' \in {"alive", "relaying", "over"}
    BY <1>3
  <2>3. EndsInError(out)' /\ (phase' # "over" => NoErrors(out)')
    BY <1>3 DEF EndsInError, NoErrors
  <2> QED
    BY <2>1, <2>2, <2>3 DEF StreamKept, Open, OfFrames, Quiet
<1> QED
  BY <1>4, <1>5 DEF StreamInv

\* A switch to another target, or the end before anything was given.
LEMMA FailKeeps ==
  ASSUME StreamInv, phase = "sniffing", NEW outcome \in {"fault", "neutral"}, NEW again \in BOOLEAN,
         Stream!FailAttempt(outcome, again)
  PROVE  StreamInv'
<1>1. /\ out = <<>> /\ UNCHANGED <<path, strip, out>>
      /\ verdict' = [verdict EXCEPT ![attempt] = outcome]
  BY DEF StreamInv, StreamKept, Stream!FailAttempt
<1>2. verdict' \in [Attempts -> {"success", "fault", "neutral", None}]
  BY <1>1 DEF StreamInv, Stream!TypeOK
<1>3. CASE again /\ Stream!Left
  <2>1. /\ attempt' = attempt + 1 /\ phase' = "sniffing" /\ up' = "open" /\ sent' = <<>> /\ cut' = FALSE
        /\ held' = <<>> /\ emitted' = 0 /\ private' = None /\ noted' = Stream!Nothing
        /\ timer' = [timer EXCEPT !.beat = 0, !.idle = 0]
    BY <1>3 DEF Stream!FailAttempt
  <2>2. attempt' \in Attempts
    BY <1>3, <2>1 DEF Stream!Left
  <2>3. timer' \in [total : 0..Deadline, beat : 0..(Grace + Interval), idle : 0..Idle]
    <3>1. 0 \in 0..(Grace + Interval) /\ 0 \in 0..Idle
      BY Limited DEF StreamLimits
    <3> QED
      BY <2>1, <3>1 DEF StreamInv, Stream!TypeOK
  <2>4. sent' \in Seq(Stream!Kinds) /\ Len(sent') <= MaxFrames /\ held' \in Seq(Stream!Piece)
        /\ emitted' \in 0..Len(held') /\ noted' \in [error : BOOLEAN, stop : BOOLEAN]
    BY <2>1, Limited DEF StreamLimits, Stream!Nothing
  <2>5. Stream!TypeOK'
    <3>1. path \in Paths /\ strip \in BOOLEAN /\ (strip => path = "same") /\ out \in Seq(Stream!Frame)
      BY DEF StreamInv, Stream!TypeOK
    <3>2. /\ phase' \in {"sniffing", "alive", "relaying", "over", "settled", "failed"}
          /\ up' \in {"open", "eof", "broken"} /\ cut' \in BOOLEAN
          /\ private' \in (1..MaxFrames) \cup {None}
      BY <2>1
    <3>3. path' \in Paths /\ strip' \in BOOLEAN /\ (strip' => path' = "same") /\ out' \in Seq(Stream!Frame)
      BY <1>1, <3>1
    <3> QED
      BY <1>2, <2>2, <2>3, <2>4, <3>2, <3>3, Zenon DEF Stream!TypeOK
  <2>6. SentOk' /\ OfFrames(held', sent') /\ Quiet(held', sent')
    <3>1. DOMAIN sent' = {} /\ DOMAIN held' = {} /\ ~cut'
      BY <2>1
    <3>2. sent' \in Seq(Stream!Kinds) /\ Len(sent') <= MaxFrames /\ held' \in Seq(Stream!Piece)
      BY <2>4
    <3>3. SentOk'
      BY <2>1, <3>1, <3>2, Zenon DEF SentOk
    <3>4. OfFrames(held', sent') /\ Quiet(held', sent')
      BY <3>1, <3>2, Zenon DEF OfFrames, Quiet
    <3> QED
      BY <3>3, <3>4
  <2>7. NoErrors(out)' /\ EndsInError(out)' /\ OneBy(out)'
    BY <1>1 DEF NoErrors, EndsInError, OneBy
  <2>8. StreamKept'
    BY <1>1, <2>1, <2>6, <2>7 DEF StreamKept, OfFrames, Quiet
  <2> QED
    BY <2>5, <2>8 DEF StreamInv
<1>4. CASE ~(again /\ Stream!Left)
  <2>1. phase' = "failed" /\ UNCHANGED <<attempt, up, sent, cut, held, emitted, private, noted, timer>>
    BY <1>4 DEF Stream!FailAttempt
  <2>2. Stream!TypeOK'
    BY <1>1, <1>2, <2>1 DEF StreamInv, Stream!TypeOK
  <2>3. StreamKept'
    BY <1>1, <2>1 DEF StreamInv, StreamKept, SentOk, Open, OneBy, EndsInError
  <2> QED
    BY <2>2, <2>3 DEF StreamInv
<1> QED
  BY <1>3, <1>4

\* A step that gives nothing more and takes nothing in.
LEMMA RestKeeps ==
  ASSUME StreamInv, phase' \in {phase, "settled"},
         verdict' \in [Attempts -> {"success", "fault", "neutral", None}],
         timer' \in [total : 0..Deadline, beat : 0..(Grace + Interval), idle : 0..Idle],
         UNCHANGED <<path, strip, attempt, up, sent, cut, held, emitted, private, out, noted>>
  PROVE  StreamInv'
<1>1. Stream!TypeOK'
  BY DEF StreamInv, Stream!TypeOK
<1>2. StreamKept'
  BY DEF StreamInv, StreamKept, SentOk, Open, OneBy, EndsInError
<1> QED
  BY <1>1, <1>2 DEF StreamInv

\* The stream starts with the invariant.
LEMMA StreamStarts == Stream!Init => StreamInv
<1> SUFFICES ASSUME Stream!Init PROVE StreamInv
  OBVIOUS
<1>1. /\ path \in Paths /\ strip \in BOOLEAN /\ (strip => path = "same") /\ attempt = 1
      /\ phase = "sniffing" /\ up = "open" /\ sent = <<>> /\ cut = FALSE /\ held = <<>> /\ emitted = 0
      /\ private = None /\ out = <<>> /\ noted = [error |-> FALSE, stop |-> FALSE]
      /\ timer = [total |-> 0, beat |-> 0, idle |-> 0] /\ verdict = [a \in Attempts |-> None]
  BY DEF Stream!Init, Stream!Nothing, Stream!Fresh
<1>2. 0 \in 0..Deadline /\ 0 \in 0..(Grace + Interval) /\ 0 \in 0..Idle /\ 1 \in Attempts /\ 0 <= MaxFrames
  BY Limited DEF StreamLimits
<1>3. sent \in Seq(Stream!Kinds) /\ Len(sent) = 0 /\ held \in Seq(Stream!Piece) /\ Len(held) = 0
      /\ out \in Seq(Stream!Frame) /\ DOMAIN sent = {} /\ DOMAIN held = {} /\ DOMAIN out = {}
  BY <1>1
<1>4. Stream!TypeOK
  <2>1. timer \in [total : 0..Deadline, beat : 0..(Grace + Interval), idle : 0..Idle]
    BY <1>1, <1>2
  <2>2. emitted \in 0..Len(held) /\ Len(sent) <= MaxFrames
    BY <1>1, <1>2, <1>3
  <2>3. verdict \in [Attempts -> {"success", "fault", "neutral", None}]
    BY <1>1
  <2>4. attempt \in Attempts /\ private \in (1..MaxFrames) \cup {None} /\ cut \in BOOLEAN
        /\ noted \in [error : BOOLEAN, stop : BOOLEAN]
    BY <1>1, <1>2
  <2> QED
    BY <1>1, <1>3, <2>1, <2>2, <2>3, <2>4, Zenon DEF Stream!TypeOK
<1>5. StreamKept
  BY <1>1, <1>2, <1>3 DEF StreamKept, SentOk, OfFrames, Quiet, NoErrors, EndsInError, OneBy
<1> QED
  BY <1>4, <1>5 DEF StreamInv

\* Every step of the delivery keeps the invariant.
LEMMA StreamSteps == StreamInv /\ Stream!Next => StreamInv'
<1> SUFFICES ASSUME StreamInv, Stream!Next PROVE StreamInv'
  OBVIOUS
<1>0. /\ SentOk /\ OfFrames(held, sent) /\ emitted \in 0..Len(held) /\ Len(held) \in Nat
      /\ attempt \in Attempts /\ up \in {"open", "eof", "broken"}
      /\ phase \in Open => Quiet(held, sent) /\ NoErrors(out)
      /\ phase \in {"sniffing", "relaying"} => emitted = 0
      /\ Stream!TypeOK
  BY DEF StreamInv, StreamKept, Stream!TypeOK
<1>a. \A kinds : OfFrames(<<>>, kinds) /\ Quiet(<<>>, kinds) /\ ErrorLast(<<>>, kinds)
  BY DEF OfFrames, Quiet, ErrorLast
<1>b. /\ Stream!Complete(held) \in 0..Len(held)
      /\ Quiet(held, sent) => ErrorLast(held, sent)
  BY <1>0, CompleteCount DEF OfFrames, Quiet, ErrorLast
<1>c. sent \in Seq(Stream!Kinds) /\ Len(sent) \in 0..MaxFrames
  <2>1. sent \in Seq(Stream!Kinds) /\ Len(sent) <= MaxFrames
    BY <1>0 DEF SentOk
  <2>2. Len(sent) \in Nat /\ MaxFrames \in Nat
    BY <2>1, Limited DEF StreamLimits
  <2> QED
    BY <2>1, <2>2
<1>1. ASSUME NEW new \in Stream!Chunks, NEW half \in BOOLEAN, Stream!Sniff(new, half) PROVE StreamInv'
  <2> DEFINE chunk == Stream!ChunkOf(new, half)  all == held \o chunk  kinds == sent \o new
  <2>1. phase = "sniffing" /\ phase \in Open /\ Stream!Comes(new, half) /\ emitted = 0
    BY <1>1, <1>0 DEF Stream!Sniff, Open
  <2>2. /\ kinds \in Seq(Stream!Kinds) /\ Len(kinds) \in 0..MaxFrames
        /\ half => kinds # <<>>
        /\ OfFrames(held, kinds) /\ Quiet(held, kinds)
        /\ OfFrames(all, kinds) /\ ErrorLast(all, kinds)
        /\ Stream!Verdict(chunk, kinds) = "pending" => Quiet(all, kinds)
    BY <2>1, AllPieces
  <2>3. \A i \in DOMAIN kinds : kinds[i] = "error" => i = Len(kinds)
    BY <2>1, AllPieces
  <2>4. CASE Stream!FailAttempt("fault", TRUE)
    BY <2>1, <2>4, FailKeeps
  <2>5. Stream!Receives(new, half) => SentOk'
    BY <2>2, <2>3 DEF Stream!Receives, SentOk
  <2>6. CASE /\ Stream!Verdict(chunk, kinds) = "pending" /\ Stream!Receives(new, half) /\ held' = all
             /\ UNCHANGED <<path, strip, attempt, phase, up, emitted, private, out, noted, timer, verdict>>
    <3>1. OfFrames(held', sent') /\ Quiet(held', sent')
      BY <2>2, <2>6 DEF Stream!Receives
    <3>2. held' \in Seq(Stream!Piece) /\ emitted' \in 0..Len(held')
      BY <2>1, <2>6, <3>1 DEF OfFrames
    <3>3. Stream!TypeOK'
      BY <1>0, <2>5, <2>6, <3>2 DEF Stream!TypeOK, SentOk
    <3>4. StreamKept'
      BY <2>1, <2>5, <2>6, <3>1 DEF StreamInv, StreamKept, OfFrames, Quiet, NoErrors, EndsInError, OneBy
    <3> QED
      BY <3>3, <3>4 DEF StreamInv
  <2>7. CASE /\ Stream!Receives(new, half)
             /\ held' = IF path = "same" THEN <<>> ELSE Stream!Waiting(all)
             /\ Stream!Relay(IF path = "same" THEN all ELSE Stream!Rejoined(all), kinds, "none", "relaying")
             /\ UNCHANGED <<path, strip, attempt, up, emitted, verdict>>
    <3> DEFINE pieces == IF path = "same" THEN all ELSE Stream!Rejoined(all)
    <3>1. sent' = kinds
      BY <2>7 DEF Stream!Receives
    <3>2. OfFrames(held', kinds) /\ Quiet(held', kinds) /\ OfFrames(pieces, kinds) /\ ErrorLast(pieces, kinds)
      BY <1>a, <2>2, <2>7, HalvesWait
    <3>3. emitted' = 0 /\ emitted' \in 0..Len(held')
      BY <2>1, <2>7, <3>2 DEF OfFrames
    <3> HIDE DEF kinds, pieces
    <3> QED
      BY <1>0, <2>1, <2>2, <2>5, <2>7, <3>1, <3>2, <3>3, RelayKeeps DEF pieces
  <2> QED
    BY <1>1, <2>4, <2>6, <2>7 DEF Stream!Sniff
<1>2. ASSUME NEW new \in Stream!Chunks, NEW half \in BOOLEAN, Stream!Listen(new, half) PROVE StreamInv'
  <2> DEFINE chunk == Stream!ChunkOf(new, half)  all == held \o chunk  kinds == sent \o new
  <2>1. phase = "alive" /\ phase \in Open /\ Stream!Comes(new, half) /\ Stream!Receives(new, half)
        /\ UNCHANGED <<path, strip, attempt, up, verdict>>
    BY <1>2 DEF Stream!Listen, Open
  <2>2. /\ kinds \in Seq(Stream!Kinds) /\ Len(kinds) \in 0..MaxFrames
        /\ half => kinds # <<>>
        /\ OfFrames(held, kinds) /\ Quiet(held, kinds)
        /\ OfFrames(all, kinds) /\ ErrorLast(all, kinds)
        /\ Stream!Verdict(chunk, kinds) = "pending" => Quiet(all, kinds)
    BY <2>1, AllPieces
  <2>3. \A i \in DOMAIN kinds : kinds[i] = "error" => i = Len(kinds)
    BY <2>1, AllPieces
  <2>4. SentOk' /\ sent' = kinds
    BY <2>1, <2>2, <2>3 DEF Stream!Receives, SentOk
  <2>5. Len(all) \in Nat /\ Len(held) <= Len(all) /\ Stream!Complete(all) \in 0..Len(all)
    <3>1. held \in Seq(Stream!Piece) /\ chunk \in Seq(Stream!Piece)
      BY <1>0, <2>1, ChunkPieces DEF OfFrames
    <3>2. all \in Seq(Stream!Piece) /\ Len(all) = Len(held) + Len(chunk) /\ Len(chunk) \in Nat
      BY <3>1, Joined
    <3>3. Stream!Complete(all) \in 0..Len(all)
      BY <3>2, CompleteCount
    <3> HIDE DEF all, chunk
    <3> QED
      BY <1>0, <3>2, <3>3
  <2>6. CASE /\ Stream!Verdict(chunk, kinds) = "pending" /\ held' = all /\ emitted' = Stream!Complete(all)
             /\ Stream!Relay(Stream!Ready(all, emitted), kinds, "none", "alive")
    <3> DEFINE pieces == Stream!Ready(all, emitted)
    <3>1. OfFrames(pieces, kinds) /\ ErrorLast(pieces, kinds)
      <4>1. emitted + 1 \in Nat \ {0}
        BY <1>0
      <4> HIDE DEF all, kinds
      <4> QED
        BY <2>2, <2>5, <4>1, SomePieces DEF Stream!Ready
    <3>2. phase' # "relaying"
      BY <2>6 DEF Stream!Relay
    <3> HIDE DEF kinds, pieces
    <3> QED
      BY <1>0, <2>1, <2>2, <2>4, <2>5, <2>6, <3>1, <3>2, RelayKeeps DEF pieces
  <2>7. CASE /\ held' = <<>> /\ emitted' = 0
             /\ Stream!Relay(Stream!Carry(all, emitted), kinds, "none", "relaying")
    <3> DEFINE pieces == Stream!Carry(all, emitted)
    <3>1. OfFrames(pieces, kinds) /\ ErrorLast(pieces, kinds)
      <4>1. emitted + 1 \in Nat \ {0} /\ Len(all) \in 0..Len(all)
        BY <1>0, <2>5
      <4> HIDE DEF all, kinds
      <4> QED
        BY <2>2, <4>1, SomePieces DEF Stream!Carry
    <3>2. emitted' \in 0..Len(held')
      BY <2>7
    <3> HIDE DEF kinds, pieces
    <3> QED
      BY <1>0, <1>a, <2>1, <2>2, <2>4, <2>7, <3>1, <3>2, RelayKeeps DEF pieces
  <2>8. CASE UNCHANGED <<held, emitted>> /\ Stream!Relay(<<>>, sent, "error", "over")
    <3>1. phase' # "relaying"
      BY <2>8 DEF Stream!Relay
    <3>2. emitted' \in 0..Len(held') /\ OfFrames(held', sent') /\ Quiet(held', sent')
      BY <1>0, <2>2, <2>4, <2>8
    <3> HIDE DEF kinds
    <3> QED
      BY <1>0, <1>a, <1>c, <2>1, <2>4, <2>8, <3>1, <3>2, RelayKeeps
  <2> QED
    BY <1>2, <2>6, <2>7, <2>8 DEF Stream!Listen
<1>3. ASSUME NEW new \in Stream!Chunks, NEW half \in BOOLEAN, Stream!Forward(new, half) PROVE StreamInv'
  <2> DEFINE all == held \o Stream!ChunkOf(new, half)  kinds == sent \o new
             pieces == IF path = "same" THEN all ELSE Stream!Rejoined(all)
  <2>1. /\ phase = "relaying" /\ phase \in Open /\ Stream!Comes(new, half) /\ Stream!Receives(new, half)
        /\ emitted = 0 /\ UNCHANGED <<path, strip, attempt, up, emitted, verdict>>
        /\ held' = IF path = "same" THEN <<>> ELSE Stream!Waiting(all)
        /\ Stream!Relay(pieces, kinds, "none", "relaying")
    BY <1>3, <1>0 DEF Stream!Forward, Open
  <2>2. /\ kinds \in Seq(Stream!Kinds) /\ Len(kinds) \in 0..MaxFrames
        /\ half => kinds # <<>>
        /\ OfFrames(all, kinds) /\ ErrorLast(all, kinds)
    BY <2>1, AllPieces
  <2>3. \A i \in DOMAIN kinds : kinds[i] = "error" => i = Len(kinds)
    BY <2>1, AllPieces
  <2>4. SentOk' /\ sent' = kinds
    BY <2>1, <2>2, <2>3 DEF Stream!Receives, SentOk
  <2>5. OfFrames(held', kinds) /\ Quiet(held', kinds) /\ OfFrames(pieces, kinds) /\ ErrorLast(pieces, kinds)
    BY <1>a, <2>1, <2>2, HalvesWait
  <2>6. emitted' = 0 /\ emitted' \in 0..Len(held')
    BY <2>1, <2>5 DEF OfFrames
  <2> HIDE DEF kinds, pieces
  <2> QED
    BY <1>0, <2>1, <2>2, <2>4, <2>5, <2>6, RelayKeeps
<1>4. ASSUME NEW how \in {"eof", "broken"}, Stream!UpstreamEnds(how) PROVE StreamInv'
  <2>1. CASE phase = "sniffing" /\ Stream!FailAttempt("fault", TRUE)
    BY <2>1, FailKeeps
  <2>2. CASE /\ phase = "alive" /\ up' = how
             /\ Stream!Relay(<<>>, sent, "error", "over")
             /\ UNCHANGED <<path, strip, attempt, sent, cut, held, emitted, verdict>>
    <3>1. phase' # "relaying"
      BY <2>2 DEF Stream!Relay
    <3>2. phase \in Open /\ Quiet(held, sent) /\ SentOk'
      BY <1>0, <2>2 DEF Open, SentOk
    <3> QED
      BY <1>0, <1>a, <1>c, <2>2, <3>1, <3>2, RelayKeeps
  <2>3. CASE /\ phase = "relaying" /\ up' = how
             /\ Stream!Relay(IF how = "eof" /\ path = "responses" THEN held ELSE <<>>,
                             sent, IF how = "broken" THEN "error" ELSE "none", "over")
             /\ held' = <<>>
             /\ UNCHANGED <<path, strip, attempt, sent, cut, emitted, verdict>>
    <3> DEFINE pieces == IF how = "eof" /\ path = "responses" THEN held ELSE <<>>
               own == IF how = "broken" THEN "error" ELSE "none"
    <3>1. phase \in Open /\ Quiet(held, sent) /\ SentOk' /\ emitted' = 0 /\ emitted' \in 0..Len(held')
      BY <1>0, <2>3 DEF Open, SentOk
    <3>2. /\ own \in {"none", "alive", "error"} /\ OfFrames(pieces, sent) /\ ErrorLast(pieces, sent)
          /\ Quiet(pieces, sent)
      BY <1>0, <1>a, <1>b, <3>1
    <3> HIDE DEF own, pieces
    <3> QED
      BY <1>a, <1>c, <2>3, <3>1, <3>2, RelayKeeps DEF own, pieces
  <2> QED
    BY <1>4, <2>1, <2>2, <2>3 DEF Stream!UpstreamEnds
<1>5. ASSUME Stream!GraceOver PROVE StreamInv'
  <2> DEFINE pieces == Stream!Ready(held, 0)  kept == Stream!Carry(held, Stream!Complete(held))
  <2>1. /\ phase = "sniffing" /\ phase \in Open /\ emitted = 0
        /\ Stream!Relay(pieces, sent, "none", "alive") /\ held' = kept
        /\ UNCHANGED <<path, strip, attempt, up, sent, cut, emitted, verdict>>
    BY <1>5, <1>0 DEF Stream!GraceOver, Open
  <2>2. Quiet(held, sent) /\ SentOk'
    BY <1>0, <2>1 DEF SentOk
  <2>3. OfFrames(pieces, sent) /\ ErrorLast(pieces, sent)
    BY <1>0, <1>b, <2>2, SomePieces DEF Stream!Ready
  <2>4. OfFrames(kept, sent) /\ Quiet(kept, sent)
    BY <1>0, <1>b, <2>2, SomePieces DEF Stream!Carry
  <2>5. emitted' \in 0..Len(held') /\ emitted' = 0
    BY <2>1, <2>4 DEF OfFrames
  <2> HIDE DEF pieces, kept
  <2> QED
    BY <1>0, <1>c, <2>1, <2>2, <2>3, <2>4, <2>5, RelayKeeps
<1>6. ASSUME Stream!TimeOver PROVE StreamInv'
  BY <1>6, FailKeeps DEF Stream!TimeOver
<1>7. ASSUME Stream!Beat PROVE StreamInv'
  <2> DEFINE pieces == Stream!Ready(held, emitted)
  <2>1. /\ phase = "alive" /\ phase \in Open /\ Stream!Relay(pieces, sent, "alive", "alive")
        /\ emitted' = Stream!Complete(held)
        /\ UNCHANGED <<path, strip, attempt, up, sent, cut, held, verdict>>
    BY <1>7 DEF Stream!Beat, Open
  <2>2. Quiet(held, sent) /\ SentOk'
    BY <1>0, <2>1 DEF SentOk
  <2>3. OfFrames(pieces, sent) /\ ErrorLast(pieces, sent) /\ Quiet(pieces, sent)
    BY <1>0, <1>b, <2>2, SomePieces DEF Stream!Ready
  <2>4. phase' # "relaying"
    BY <2>1 DEF Stream!Relay
  <2> HIDE DEF pieces
  <2> QED
    BY <1>0, <1>b, <1>c, <2>1, <2>2, <2>3, <2>4, RelayKeeps
<1>8. ASSUME Stream!Close PROVE StreamInv'
  <2>1. verdict' \in [Attempts -> {"success", "fault", "neutral", None}]
    BY <1>8, <1>0 DEF Stream!Close, Stream!Settle, Stream!TypeOK
  <2> QED
    BY <1>8, <1>0, <2>1, RestKeeps DEF Stream!Close, Stream!Settle, Stream!TypeOK
<1>9. ASSUME Stream!Leave PROVE StreamInv'
  <2>1. verdict' \in [Attempts -> {"success", "fault", "neutral", None}]
    BY <1>9, <1>0 DEF Stream!Leave, Stream!Settle, Stream!TypeOK
  <2> QED
    BY <1>9, <1>0, <2>1, RestKeeps DEF Stream!Leave, Stream!Settle, Stream!TypeOK
<1>10. ASSUME Stream!Tick PROVE StreamInv'
  <2>1. timer' \in [total : 0..Deadline, beat : 0..(Grace + Interval), idle : 0..Idle]
    <3>1. timer \in [total : 0..Deadline, beat : 0..(Grace + Interval), idle : 0..Idle]
      BY <1>0 DEF Stream!TypeOK
    <3>2. CASE phase = "sniffing"
      <4>1. /\ timer.total < Deadline /\ (path = "same" => timer.beat < Grace)
            /\ timer' = [timer EXCEPT !.total = @ + 1, !.beat = IF path = "same" THEN @ + 1 ELSE @]
        BY <1>10, <3>2 DEF Stream!Tick
      <4>2. timer.total + 1 \in 0..Deadline
            /\ (IF path = "same" THEN timer.beat + 1 ELSE timer.beat) \in 0..(Grace + Interval)
        BY <3>1, <4>1, Limited DEF StreamLimits
      <4> QED
        BY <3>1, <4>1, <4>2
    <3>3. CASE phase = "alive"
      <4>1. /\ timer.beat < Interval /\ timer.idle < Idle
            /\ timer' = [timer EXCEPT !.beat = @ + 1, !.idle = @ + 1]
        BY <1>10, <3>3 DEF Stream!Tick
      <4>2. timer.beat + 1 \in 0..(Grace + Interval) /\ timer.idle + 1 \in 0..Idle
        BY <3>1, <4>1, Limited DEF StreamLimits
      <4> QED
        BY <3>1, <4>1, <4>2
    <3>4. CASE phase = "relaying"
      <4>1. timer.idle < Idle /\ timer' = [timer EXCEPT !.idle = @ + 1]
        BY <1>10, <3>4 DEF Stream!Tick
      <4>2. timer.idle + 1 \in 0..Idle
        BY <3>1, <4>1, Limited DEF StreamLimits
      <4> QED
        BY <3>1, <4>1, <4>2
    <3> QED
      BY <1>10, <3>2, <3>3, <3>4 DEF Stream!Tick
  <2> QED
    BY <1>10, <1>0, <2>1, RestKeeps DEF Stream!Tick, Stream!TypeOK
<1>11. ASSUME Stream!IdleOver PROVE StreamInv'
  <2>1. /\ phase \in Open /\ phase \in {"alive", "relaying"} /\ phase' = "settled"
        /\ verdict' = [verdict EXCEPT ![attempt] = "neutral"]
        /\ out' = Append(out, [n |-> 0, as |-> "error", by |-> attempt])
        /\ UNCHANGED <<path, strip, attempt, up, sent, cut, held, emitted, private, noted, timer>>
    BY <1>11 DEF Stream!IdleOver, Stream!IdleDue, Stream!Settle, Stream!AsFrame, Open
  <2> DEFINE f == [n |-> 0, as |-> "error", by |-> attempt]
  <2>2. out \in Seq(Stream!Frame) /\ f \in Stream!Frame /\ f.by = attempt
    BY <1>0, Limited DEF Stream!TypeOK, Stream!Frame, StreamLimits
  <2> HIDE DEF f
  <2>3. /\ out' \in Seq(Stream!Frame) /\ Len(out') = Len(out) + 1 /\ DOMAIN out' = 1..(Len(out) + 1)
        /\ Len(out) \in Nat /\ DOMAIN out = 1..Len(out)
        /\ \A i \in 1..Len(out) : out'[i] = out[i]
        /\ out'[Len(out) + 1] = f
    BY <2>1, <2>2 DEF f
  <2>4. EndsInError(out)' /\ OneBy(out)'
    BY <1>0, <2>1, <2>2, <2>3 DEF StreamInv, StreamKept, NoErrors, EndsInError, OneBy
  <2>5. Stream!TypeOK'
    BY <1>0, <2>1, <2>3 DEF Stream!TypeOK
  <2>6. StreamKept'
    BY <1>0, <2>1, <2>4 DEF StreamKept, SentOk, Open
  <2> QED
    BY <2>5, <2>6 DEF StreamInv
<1> QED
  BY <1>1, <1>2, <1>3, <1>4, <1>5, <1>6, <1>7, <1>8, <1>9, <1>10, <1>11 DEF Stream!Next

\* So does a step of something else.
LEMMA StreamStutters == StreamInv /\ UNCHANGED streamVars => StreamInv'
<1> SUFFICES ASSUME StreamInv, UNCHANGED streamVars PROVE StreamInv'
  OBVIOUS
<1>1. Stream!TypeOK'
  BY DEF StreamInv, streamVars, Stream!TypeOK
<1>2. StreamKept'
  BY DEF StreamInv, streamVars, StreamKept, SentOk, Open, OneBy
<1> QED
  BY <1>1, <1>2 DEF StreamInv

-----------------------------------------------------------------------------
(* The delivery as a part of a request's behaviour.                         *)

\* The invariant holds of a stream, and is kept by every step.
THEOREM StreamAlways == RequestSpec => [](part = "stream" => StreamInv)
<1>1. RequestInit => (part = "stream" => StreamInv)
  BY StreamStarts DEF RequestInit
<1>2. (part = "stream" => StreamInv) /\ [RequestNext]_requestVars => (part = "stream" => StreamInv)'
  BY StreamSteps, StreamStutters DEF RequestNext, requestVars
<1> QED
  BY <1>1, <1>2, PTL DEF RequestSpec

\* Both parts keep to their types.
THEOREM RequestsTyped == RequestSpec => []Typed
<1>1. (part = "walk" => TypeOK /\ Kept) /\ (part = "stream" => StreamInv) => Typed
  BY DEF Typed, StreamInv
<1> QED
  BY <1>1, WalkAlways, StreamAlways, PTL

\* The client hears one upstream only, and nothing after an error: once a byte is out no
\* other target is asked.
THEOREM StreamsHaveOneVoice == RequestSpec => []OneVoice
<1>1. (part = "stream" => StreamInv) => OneVoice
  BY DEF OneVoice, Stream!OneVoice, StreamInv, StreamKept, EndsInError, OneBy, IsError
<1> QED
  BY <1>1, StreamAlways, PTL

-----------------------------------------------------------------------------
(* Rows: what pieces and frames tell of the numbers c + 1 to d.             *)

\* The members of S in the sequence s, after its first k places, bear the numbers of W
\* from c + 1 to d, in this order and each once.
Row(s, k, S, W, c, d) ==
  /\ \A i \in DOMAIN s : i > k /\ s[i] \in S => s[i].n \in (c + 1)..d /\ s[i].n \in W
  /\ \A i, j \in DOMAIN s : k < i /\ i < j /\ s[i] \in S /\ s[j] \in S => s[i].n < s[j].n
  /\ \A n \in (c + 1)..d : n \in W => \E i \in DOMAIN s : i > k /\ s[i] \in S /\ s[i].n = n

\* A row without members tells nothing.
LEMMA RowOfNone ==
  ASSUME NEW s, NEW k, NEW S, NEW W, NEW c \in Nat, \A i \in DOMAIN s : i > k => s[i] \notin S
  PROVE  Row(s, k, S, W, c, c)
BY DEF Row

\* What tells of nobody ends where it begins.
LEMMA NoneOfRow ==
  ASSUME NEW s, NEW k, NEW S, NEW c \in Nat, NEW d \in Nat, c <= d, Row(s, k, S, Nat, c, d),
         \A i \in DOMAIN s : i > k => s[i] \notin S
  PROVE  c = d
<1> SUFFICES ASSUME c # d PROVE FALSE
  OBVIOUS
<1>1. d \in (c + 1)..d
  OBVIOUS
<1> QED
  BY <1>1 DEF Row

\* A row of other elements with the same numbers.
LEMMA RowOfLike ==
  ASSUME NEW s, NEW k, NEW S, NEW W, NEW c \in Nat, NEW d \in Nat, Row(s, k, S, W, c, d),
         NEW t, NEW T, DOMAIN t = DOMAIN s,
         \A i \in DOMAIN s : t[i].n = s[i].n /\ (t[i] \in T <=> s[i] \in S)
  PROVE  Row(t, k, T, W, c, d)
BY DEF Row

\* Only the numbers between c and d matter.
LEMMA RowOfWanted ==
  ASSUME NEW s, NEW k, NEW S, NEW W, NEW c \in Nat, NEW d \in Nat, Row(s, k, S, W, c, d),
         NEW V, \A n \in (c + 1)..d : n \in V <=> n \in W
  PROVE  Row(s, k, S, V, c, d)
BY DEF Row

\* One row after the other.
LEMMA RowOfBoth ==
  ASSUME NEW T, NEW s \in Seq(T), NEW r \in Seq(T), NEW k \in 0..Len(s), NEW S, NEW W,
         NEW c \in Nat, NEW d \in Nat, NEW e \in Nat, c <= d, d <= e,
         Row(s, k, S, W, c, d), Row(r, 0, S, W, d, e)
  PROVE  Row(s \o r, k, S, W, c, e)
<1> DEFINE u == s \o r  m == Len(s)  n == Len(r)
<1>1. /\ u \in Seq(T) /\ m \in Nat /\ n \in Nat /\ k \in 0..m
      /\ DOMAIN s = 1..m /\ DOMAIN r = 1..n /\ DOMAIN u = 1..(m + n)
      /\ \A i \in 1..m : u[i] = s[i]
      /\ \A i \in 1..(m + n) : i > m => i - m \in 1..n /\ u[i] = r[i - m]
  BY Joined
<1> HIDE DEF u, m, n
<1>2. ASSUME NEW i \in DOMAIN u
      PROVE  \/ i \in DOMAIN s /\ u[i] = s[i] /\ i <= m
             \/ i - m \in DOMAIN r /\ u[i] = r[i - m] /\ i > m
  BY <1>1
<1>3. ASSUME NEW i \in DOMAIN u, i > k, u[i] \in S PROVE u[i].n \in (c + 1)..e /\ u[i].n \in W
  <2>1. CASE i \in DOMAIN s /\ u[i] = s[i]
    BY <2>1, <1>3 DEF Row
  <2>2. CASE i - m \in DOMAIN r /\ u[i] = r[i - m] /\ i > m
    <3>1. i - m > 0
      BY <1>1, <2>2
    <3> QED
      BY <2>2, <3>1, <1>3 DEF Row
  <2> QED
    BY <1>2, <2>1, <2>2
<1>4. ASSUME NEW i \in DOMAIN u, NEW j \in DOMAIN u, k < i, i < j, u[i] \in S, u[j] \in S
      PROVE  u[i].n < u[j].n
  <2>1. CASE i <= m /\ j <= m
    <3>1. i \in DOMAIN s /\ u[i] = s[i] /\ j \in DOMAIN s /\ u[j] = s[j]
      BY <1>1, <1>2, <2>1
    <3> QED
      BY <1>4, <3>1 DEF Row
  <2>2. CASE i <= m /\ j > m
    <3>1. i \in DOMAIN s /\ u[i] = s[i] /\ j - m \in DOMAIN r /\ u[j] = r[j - m] /\ j - m > 0
      BY <1>1, <1>2, <2>2
    <3>2. u[i].n \in (c + 1)..d /\ u[j].n \in (d + 1)..e
      BY <1>4, <3>1 DEF Row
    <3> QED
      BY <3>2
  <2>3. CASE i > m /\ j > m
    <3>1. i - m \in DOMAIN r /\ u[i] = r[i - m] /\ j - m \in DOMAIN r /\ u[j] = r[j - m]
      BY <1>1, <1>2, <2>3
    <3>2. i - m < j - m /\ 0 < i - m
      BY <1>1, <1>4, <2>3
    <3> QED
      BY <1>4, <3>1, <3>2 DEF Row
  <2> QED
    BY <1>1, <1>4, <2>1, <2>2, <2>3
<1>5. ASSUME NEW x \in (c + 1)..e, x \in W
      PROVE  \E i \in DOMAIN u : i > k /\ u[i] \in S /\ u[i].n = x
  <2>1. CASE x <= d
    <3>1. PICK i \in DOMAIN s : i > k /\ s[i] \in S /\ s[i].n = x
      BY <1>5, <2>1 DEF Row
    <3>2. i \in DOMAIN u /\ u[i] = s[i]
      BY <1>1
    <3> QED
      BY <3>1, <3>2
  <2>2. CASE x > d
    <3>1. PICK i \in DOMAIN r : r[i] \in S /\ r[i].n = x
      BY <1>5, <2>2 DEF Row
    <3>2. m + i \in DOMAIN u /\ m + i > m /\ (m + i) - m = i /\ m + i > k
      BY <1>1
    <3>3. u[m + i] = r[i]
      BY <1>1, <3>2
    <3> QED
      BY <3>1, <3>2, <3>3
  <2> QED
    BY <2>1, <2>2
<1>6. Row(u, k, S, W, c, e)
  BY <1>3, <1>4, <1>5 DEF Row
<1> QED
  BY <1>6 DEF u

\* A stretch of a sequence without members of S on its right.
LEMMA RowOfFirst ==
  ASSUME NEW T, NEW s \in Seq(T), NEW S, NEW W, NEW c \in Nat, NEW d \in Nat,
         NEW k \in Nat, NEW n \in 0..Len(s),
         Row(s, k, S, W, c, d), \A i \in DOMAIN s : i > n => s[i] \notin S
  PROVE  Row(SubSeq(s, k + 1, n), 0, S, W, c, d)
<1> DEFINE v == SubSeq(s, k + 1, n)
<1>1. Len(s) \in Nat /\ n \in Nat /\ n <= Len(s) /\ DOMAIN s = 1..Len(s)
  OBVIOUS
<1>2. /\ DOMAIN v = 1..Len(v) /\ Len(v) \in Nat /\ Len(v) = IF k + 1 <= n THEN n - k ELSE 0
      /\ \A i \in 1..Len(v) : v[i] = s[k + i]
  <2>1. k + 1 \in Nat \ {0} /\ \A i \in (k + 1)..n : s[i] \in T
    BY <1>1
  <2>2. /\ v \in Seq(T)
        /\ Len(v) = IF k + 1 <= n THEN n - (k + 1) + 1 ELSE 0
        /\ \A i \in 1..(n - (k + 1) + 1) : v[i] = s[(k + 1) + i - 1]
    BY <2>1, SubSeqProperties
  <2> HIDE DEF v
  <2>3. DOMAIN v = 1..Len(v) /\ Len(v) \in Nat
    BY <2>2
  <2>4. \A i \in 1..Len(v) : i \in 1..(n - (k + 1) + 1) /\ (k + 1) + i - 1 = k + i
    BY <1>1, <2>2, <2>3
  <2>5. Len(v) = IF k + 1 <= n THEN n - k ELSE 0
    BY <1>1, <2>2
  <2>6. \A i \in 1..Len(v) : v[i] = s[k + i]
    BY <2>2, <2>4
  <2> QED
    BY <2>3, <2>5, <2>6
<1> HIDE DEF v
<1>3. \A i \in DOMAIN v : k + i \in DOMAIN s /\ k + i > k /\ v[i] = s[k + i]
  BY <1>1, <1>2
<1>4. ASSUME NEW j \in DOMAIN s, j > k, s[j] \in S
      PROVE  j - k \in DOMAIN v /\ j - k > 0 /\ v[j - k] = s[j]
  <2>1. j <= n
    BY <1>1, <1>4
  <2>2. j - k \in 1..Len(v) /\ k + (j - k) = j
    BY <1>1, <1>2, <1>4, <2>1
  <2> QED
    BY <1>2, <2>2
<1>5. \A i \in DOMAIN v : v[i] \in S => v[i].n \in (c + 1)..d /\ v[i].n \in W
  BY <1>3 DEF Row
<1>6. ASSUME NEW i \in DOMAIN v, NEW j \in DOMAIN v, i < j, v[i] \in S, v[j] \in S
      PROVE  v[i].n < v[j].n
  <2>1. k + i < k + j
    BY <1>2, <1>6
  <2> QED
    BY <1>3, <1>6, <2>1 DEF Row
<1>7. ASSUME NEW x \in (c + 1)..d, x \in W PROVE \E i \in DOMAIN v : i > 0 /\ v[i] \in S /\ v[i].n = x
  <2>1. PICK j \in DOMAIN s : j > k /\ s[j] \in S /\ s[j].n = x
    BY <1>7 DEF Row
  <2> QED
    BY <1>4, <2>1
<1>8. Row(v, 0, S, W, c, d)
  BY <1>5, <1>6, <1>7 DEF Row
<1> QED
  BY <1>8 DEF v

\* What is kept of a row.
LEMMA RowOfKept ==
  ASSUME NEW T, NEW s \in Seq(T), NEW S, NEW W, NEW c \in Nat, NEW d \in Nat, Row(s, 0, S, W, c, d),
         NEW K, NEW V, \A i \in DOMAIN s : s[i] \in S => (s[i] \in K <=> s[i].n \in V)
  PROVE  Row(Keep(s, K), 0, S, W \cap V, c, d)
<1> DEFINE u == Keep(s, K)
<1>1. u \in Seq(T) /\ Picks(u, s, K, Len(s))
  BY KeepPicks
<1>2. /\ DOMAIN u = 1..Len(u) /\ DOMAIN s = 1..Len(s)
      /\ Len(u) \in Nat /\ Len(s) \in Nat
  BY <1>1
<1> HIDE DEF u
<1>3. PICK at \in [1..Len(u) -> 1..Len(s)] :
        /\ \A i \in 1..Len(u) : u[i] = s[at[i]] /\ u[i] \in K
        /\ \A i, j \in 1..Len(u) : i < j => at[i] < at[j]
        /\ \A p \in 1..Len(s) : s[p] \in K => \E i \in 1..Len(u) : at[i] = p
  BY <1>1, Zenon DEF Picks
<1>4. \A i \in 1..Len(u) : at[i] \in DOMAIN s /\ at[i] > 0
  BY <1>2
<1>5. \A i \in DOMAIN u : u[i] \in S => u[i].n \in (c + 1)..d /\ u[i].n \in W \cap V
  BY <1>2, <1>3, <1>4 DEF Row
<1>6. \A i, j \in DOMAIN u : i < j /\ u[i] \in S /\ u[j] \in S => u[i].n < u[j].n
  BY <1>2, <1>3, <1>4 DEF Row
<1>7. ASSUME NEW x \in (c + 1)..d, x \in W \cap V
      PROVE  \E i \in DOMAIN u : i > 0 /\ u[i] \in S /\ u[i].n = x
  <2>1. PICK p \in DOMAIN s : s[p] \in S /\ s[p].n = x
    BY <1>7 DEF Row
  <2>2. s[p] \in K
    BY <1>7, <2>1
  <2>3. PICK i \in 1..Len(u) : at[i] = p
    BY <1>2, <1>3, <2>2
  <2> QED
    BY <1>2, <1>3, <2>1, <2>3
<1>8. Row(u, 0, S, W \cap V, c, d)
  BY <1>5, <1>6, <1>7 DEF Row
<1> QED
  BY <1>8 DEF u

\* Of two rising sequences, the one with the smaller numbers of the other begins it.
Rising(a) == \A i, j \in DOMAIN a : i < j => a[i] < a[j]

LEMMA RisingPrefix ==
  ASSUME NEW a \in Seq(Nat), NEW b \in Seq(Nat), Rising(a), Rising(b), NEW c \in Nat,
         Elements(a) = {n \in Elements(b) : n <= c}
  PROVE  /\ Len(a) <= Len(b) /\ \A i \in DOMAIN a : a[i] = b[i]
         /\ Elements(a) = Elements(b) => Len(a) = Len(b)
<1>1. /\ Len(a) \in Nat /\ DOMAIN a = 1..Len(a) /\ Len(b) \in Nat /\ DOMAIN b = 1..Len(b)
      /\ \A i \in 1..Len(a) : a[i] \in Nat
      /\ \A i \in 1..Len(b) : b[i] \in Nat
  OBVIOUS
<1> DEFINE Agree(n) == n <= Len(a) => n <= Len(b) /\ \A i \in 1..n : a[i] = b[i]
           Z == {n \in Nat : Agree(n)}
<1>2. 0 \in Z
  BY <1>1
<1>3. ASSUME NEW n \in Z PROVE n + 1 \in Z
  <2> SUFFICES ASSUME n + 1 <= Len(a) PROVE n + 1 <= Len(b) /\ \A i \in 1..(n + 1) : a[i] = b[i]
    BY <1>3
  <2>1. n \in Nat /\ n <= Len(b) /\ (\A i \in 1..n : a[i] = b[i]) /\ n + 1 \in 1..Len(a)
    BY <1>1, <1>3
  <2> HIDE DEF Agree, Z
  <2>2. PICK j \in 1..Len(b) : b[j] = a[n + 1] /\ a[n + 1] <= c
    BY <1>1, <2>1 DEF Elements
  <2>3. j > n
    <3> SUFFICES ASSUME j <= n PROVE FALSE
      BY <1>1, <2>1
    <3>1. j \in 1..n /\ j \in 1..Len(a) /\ j < n + 1
      BY <1>1, <2>1
    <3>2. a[j] < a[n + 1]
      BY <1>1, <2>1, <3>1 DEF Rising
    <3> QED
      BY <1>1, <2>1, <2>2, <3>1, <3>2
  <2>4. n + 1 \in 1..Len(b) /\ (j = n + 1 \/ n + 1 < j)
    BY <1>1, <2>1, <2>3
  <2>5. b[n + 1] <= b[j] /\ b[n + 1] \in Nat /\ b[j] \in Nat
    <3>1. n + 1 < j => b[n + 1] < b[j]
      BY <1>1, <2>4, Zenon DEF Rising
    <3>2. b[n + 1] \in Nat /\ b[j] \in Nat
      BY <1>1, <2>4, Zenon
    <3> QED
      BY <2>4, <3>1, <3>2
  <2>6. PICK k \in 1..Len(a) : a[k] = b[n + 1]
    <3>1. b[n + 1] \in Elements(b)
      BY <1>1, <2>4, Zenon DEF Elements
    <3>2. b[n + 1] <= c
      BY <2>2, <2>5
    <3>3. b[n + 1] \in Elements(a)
      BY <3>1, <3>2
    <3> QED
      BY <1>1, <3>3, Zenon DEF Elements
  <2>7. k > n
    <3> SUFFICES ASSUME k <= n PROVE FALSE
      BY <1>1, <2>1
    <3>1. k \in 1..n /\ k \in 1..Len(b) /\ k < n + 1
      BY <1>1, <2>1
    <3>2. b[k] < b[n + 1]
      BY <1>1, <2>4, <3>1 DEF Rising
    <3> QED
      BY <1>1, <2>1, <2>6, <3>1, <3>2
  <2>8. k = n + 1 \/ n + 1 < k
    BY <1>1, <2>1, <2>7
  <2>9. a[n + 1] <= a[k] /\ a[n + 1] \in Nat
    <3>1. n + 1 < k => a[n + 1] < a[k]
      BY <1>1, <2>1, Zenon DEF Rising
    <3>2. a[n + 1] \in Nat /\ a[k] \in Nat
      BY <1>1, <2>1, Zenon
    <3> QED
      BY <2>8, <3>1, <3>2
  <2>10. a[n + 1] = b[n + 1]
    BY <1>1, <2>1, <2>2, <2>5, <2>6, <2>9
  <2>11. \A i \in 1..(n + 1) : i \in 1..n \/ i = n + 1
    BY <2>1
  <2> QED
    BY <2>1, <2>4, <2>10, <2>11
<1>4. Len(a) \in Z
  <2> HIDE DEF Agree
  <2>1. Z \in SUBSET Nat
    OBVIOUS
  <2> HIDE DEF Z
  <2> QED
    BY <1>1, <1>2, <1>3, <2>1, Induction
<1>5. Len(a) <= Len(b) /\ \A i \in 1..Len(a) : a[i] = b[i]
  BY <1>1, <1>4
<1> HIDE DEF Agree, Z
<1>6. ASSUME Elements(a) = Elements(b), Len(a) # Len(b) PROVE FALSE
  <2> DEFINE m == Len(a) + 1
  <2>0. Len(a) <= Len(b) /\ Len(a) # Len(b)
    BY <1>5, <1>6
  <2>1. m \in 1..Len(b)
    <3> DEFINE x == Len(a)  y == Len(b)
    <3>1. x \in Nat /\ y \in Nat /\ x <= y /\ x # y
      BY <1>1, <2>0
    <3> HIDE DEF x, y
    <3>2. x + 1 \in 1..y
      BY <3>1
    <3> QED
      BY <3>2 DEF x, y
  <2>2. PICK k \in 1..Len(a) : a[k] = b[m]
    BY <1>1, <1>6, <2>1 DEF Elements
  <2>3. k \in 1..Len(b) /\ k < m /\ b[k] = b[m]
    BY <1>1, <1>5, <2>1, <2>2
  <2> HIDE DEF m
  <2>4. b[k] < b[m] /\ b[m] \in Nat
    BY <1>1, <2>1, <2>3, Zenon DEF Rising
  <2> QED
    BY <2>3, <2>4
<1> QED
  BY <1>1, <1>5, <1>6

\* Other elements for some of the numbers.
LEMMA RowOfSome ==
  ASSUME NEW s, NEW k, NEW S, NEW W, NEW c \in Nat, NEW d \in Nat, Row(s, k, S, W, c, d),
         NEW V, NEW t, NEW T, DOMAIN t = DOMAIN s,
         \A i \in DOMAIN s : t[i].n = s[i].n /\ (t[i] \in T <=> s[i] \in S /\ s[i].n \in V)
  PROVE  Row(t, k, T, W \cap V, c, d)
BY DEF Row

\* Numbers that nobody wants may follow.
LEMMA RowOfMore ==
  ASSUME NEW s, NEW k, NEW S, NEW W, NEW c \in Nat, NEW d \in Nat, Row(s, k, S, W, c, d),
         NEW e \in Nat, d <= e, \A n \in (d + 1)..e : n \notin W
  PROVE  Row(s, k, S, W, c, e)
<1>1. \A n \in (c + 1)..e : n \in (c + 1)..d \/ n \in (d + 1)..e
  OBVIOUS
<1>2. \A n \in (c + 1)..d : n \in (c + 1)..e
  OBVIOUS
<1> QED
  BY <1>1, <1>2 DEF Row

-----------------------------------------------------------------------------
(* What the pieces and the frames of a delivery tell.                       *)

\* A frame comes whole with its last piece.
WholePieces == {p \in Stream!Piece : p.part # "head"}
PassWhole   == {f \in Passing : f.as = "whole"}
GivenWhole  == {f \in Stream!Frame : f.as = "whole"}

\* The frames that the client is to get, and how many have come.
Told(kinds) == {n \in Nat : ~(strip /\ kinds[n] = "usage") /\ kinds[n] # "error"}
Whole == Len(sent) - (IF cut THEN 1 ELSE 0)

\* The pieces of a chunk continue those that came before.
LEMMA ChunkRow ==
  ASSUME SentOk, NEW new \in Stream!Chunks, NEW half \in BOOLEAN, Stream!Comes(new, half),
         NEW chunk, chunk = Stream!ChunkOf(new, half)
  PROVE  /\ Whole \in Nat /\ Len(sent) + Len(new) - (IF half THEN 1 ELSE 0) \in Nat
         /\ Whole <= Len(sent) + Len(new) - (IF half THEN 1 ELSE 0)
         /\ Row(chunk, 0, WholePieces, Nat, Whole, Len(sent) + Len(new) - (IF half THEN 1 ELSE 0))
         /\ chunk \in Seq(Stream!Piece) /\ chunk # <<>>
         /\ \A i \in DOMAIN chunk : chunk[i].part = "head" => i = Len(chunk) /\ half
         /\ cut => chunk[1].part # "head"
<1> DEFINE L == Len(sent)  m == Len(new)  D == L + m - (IF half THEN 1 ELSE 0)  A == Whole
           t == IF cut THEN <<[n |-> L, part |-> "tail"]>> ELSE <<>>
           w == [i \in DOMAIN new |-> [n |-> L + i, part |-> IF half /\ i = Len(new) THEN "head" ELSE "whole"]]
<1>1. new \in Seq(Stream!Kinds) /\ m \in 0..2 /\ DOMAIN new = 1..m
  BY NewFrames
<1>2. L \in Nat /\ MaxFrames \in Nat /\ (cut => L # 0) /\ L + m <= MaxFrames
  BY Limited DEF SentOk, StreamLimits, Stream!Comes
<1>3. (half => m # 0) /\ (cut \/ m # 0)
  BY <1>1 DEF Stream!Comes
<1>4. A = L - (IF cut THEN 1 ELSE 0) /\ A \in Nat /\ D \in Nat /\ L <= D /\ A <= L
  <2>1. A = L - (IF cut THEN 1 ELSE 0)
    BY DEF Whole
  <2> HIDE DEF L, m, A
  <2> QED
    BY <1>1, <1>2, <1>3, <2>1
<1>5. chunk = t \o w
  BY DEF Stream!ChunkOf
<1>6. /\ t \in Seq(Stream!Piece) /\ Len(t) = IF cut THEN 1 ELSE 0
      /\ \A i \in DOMAIN t : cut /\ t[i] \in WholePieces /\ t[i].n = L /\ t[i].part # "head"
  <2>1. CASE cut
    <3> DEFINE p == [n |-> L, part |-> "tail"]
    <3>1. t = <<p>>
      BY <2>1
    <3>2. p \in WholePieces /\ p \in Stream!Piece /\ p.n = L /\ p.part # "head"
      <4> HIDE DEF L, m
      <4> QED
        BY <1>1, <1>2 DEF WholePieces, Stream!Piece
    <3> HIDE DEF p, t
    <3> QED
      BY <2>1, <3>1, <3>2
  <2>2. CASE ~cut
    <3>1. t = <<>>
      BY <2>2
    <3> HIDE DEF t
    <3> QED
      BY <2>2, <3>1
  <2> QED
    BY <2>1, <2>2
<1>7. /\ w \in Seq(Stream!Piece) /\ Len(w) = m /\ DOMAIN w = 1..m
      /\ \A i \in 1..m : /\ w[i].n = L + i /\ w[i].part \in {"head", "whole"}
                         /\ w[i].part = "head" <=> (half /\ i = m)
                         /\ w[i] \in WholePieces <=> ~(half /\ i = m)
  <2>1. \A i \in 1..m : L + i \in 0..MaxFrames
    <3> HIDE DEF L, m
    <3> QED
      BY <1>1, <1>2
  <2>2. \A i \in 1..m : w[i] = [n |-> L + i, part |-> IF half /\ i = m THEN "head" ELSE "whole"]
    BY <1>1
  <2>3. w = [i \in 1..m |-> w[i]] /\ m \in Nat /\ DOMAIN w = 1..m
    BY <1>1
  <2> HIDE DEF L, m, w
  <2>4. ASSUME NEW i \in 1..m
        PROVE  /\ w[i] \in Stream!Piece /\ w[i].n = L + i
               /\ w[i].part \in {"head", "whole"}
               /\ w[i].part = "head" <=> (half /\ i = m)
    <3>1. CASE half /\ i = m
      <4>1. w[i] = [n |-> L + i, part |-> "head"] /\ L + i \in 0..MaxFrames
        BY <2>1, <2>2, <3>1
      <4> QED
        BY <3>1, <4>1 DEF Stream!Piece
    <3>2. CASE ~(half /\ i = m)
      <4>1. w[i] = [n |-> L + i, part |-> "whole"] /\ L + i \in 0..MaxFrames
        BY <2>1, <2>2, <3>2
      <4> QED
        BY <3>2, <4>1 DEF Stream!Piece
    <3> QED
      BY <3>1, <3>2
  <2>5. w \in Seq(Stream!Piece) /\ Len(w) = m
    BY <2>3, <2>4
  <2>6. ASSUME NEW i \in 1..m PROVE w[i] \in WholePieces <=> ~(half /\ i = m)
    BY <2>4 DEF WholePieces
  <2> QED
    BY <2>3, <2>4, <2>5, <2>6
<1> HIDE DEF L, m, D, A, t, w
<1>8. Row(t, 0, WholePieces, Nat, A, L)
  <2>1. CASE cut
    <3>1. Len(t) = 1 /\ DOMAIN t = 1..1 /\ A = L - 1 /\ L \in Nat /\ L # 0
      BY <1>2, <1>4, <1>6, <2>1
    <3>2. t[1] \in WholePieces /\ t[1].n = L
      BY <1>6, <3>1
    <3>3. (A + 1)..L = {L}
      BY <3>1
    <3> HIDE DEF WholePieces
    <3> QED
      BY <3>1, <3>2, <3>3 DEF Row
  <2>2. CASE ~cut
    <3>1. A = L /\ \A i \in DOMAIN t : FALSE
      BY <1>2, <1>4, <1>6, <2>2
    <3> QED
      BY <1>4, <3>1, RowOfNone
  <2> QED
    BY <2>1, <2>2
<1>9. Row(w, 0, WholePieces, Nat, L, D)
  <2>1. D = L + m - (IF half THEN 1 ELSE 0)
    BY DEF D
  <2>2. \A i \in 1..m : ~(half /\ i = m) => L + i \in (L + 1)..D
    BY <1>1, <1>2, <2>1
  <2>3. \A n \in (L + 1)..D : n - L \in 1..m /\ ~(half /\ n - L = m) /\ L + (n - L) = n /\ n - L > 0
    BY <1>1, <1>2, <2>1
  <2>4. \A i, j \in 1..m : i < j => L + i < L + j
    BY <1>1, <1>2
  <2>5. \A i \in DOMAIN w : i > 0 /\ w[i] \in WholePieces => w[i].n \in (L + 1)..D /\ w[i].n \in Nat
    BY <1>1, <1>2, <1>7, <2>2
  <2>6. \A i, j \in DOMAIN w : 0 < i /\ i < j /\ w[i] \in WholePieces /\ w[j] \in WholePieces
                                => w[i].n < w[j].n
    BY <1>7, <2>4
  <2>7. \A n \in (L + 1)..D : n \in Nat => \E i \in DOMAIN w : i > 0 /\ w[i] \in WholePieces /\ w[i].n = n
    BY <1>7, <2>3
  <2> QED
    BY <2>5, <2>6, <2>7 DEF Row
<1>10. Row(chunk, 0, WholePieces, Nat, A, D)
  <2>1. 0 \in 0..Len(t)
    BY <1>6
  <2> QED
    BY <1>2, <1>4, <1>5, <1>6, <1>7, <1>8, <1>9, <2>1, RowOfBoth
<1>11. /\ chunk \in Seq(Stream!Piece) /\ Len(chunk) = Len(t) + m /\ Len(t) \in Nat
       /\ DOMAIN chunk = 1..(Len(t) + m) /\ DOMAIN t = 1..Len(t)
       /\ \A i \in 1..Len(t) : chunk[i] = t[i]
       /\ \A i \in 1..(Len(t) + m) : i > Len(t) => i - Len(t) \in 1..m /\ chunk[i] = w[i - Len(t)]
  <2>1. t \in Seq(Stream!Piece) /\ w \in Seq(Stream!Piece) /\ Len(w) = m
    BY <1>6, <1>7
  <2>2. /\ chunk \in Seq(Stream!Piece) /\ Len(chunk) = Len(t) + Len(w) /\ Len(t) \in Nat
        /\ DOMAIN chunk = 1..(Len(t) + Len(w)) /\ DOMAIN t = 1..Len(t)
        /\ \A i \in 1..Len(t) : chunk[i] = t[i]
        /\ \A i \in 1..(Len(t) + Len(w)) : i > Len(t) =>
             i - Len(t) \in 1..Len(w) /\ chunk[i] = w[i - Len(t)]
    <3>1. \A x, y \in Seq(Stream!Piece) :
            /\ x \o y \in Seq(Stream!Piece) /\ Len(x \o y) = Len(x) + Len(y) /\ Len(x) \in Nat
            /\ DOMAIN (x \o y) = 1..(Len(x) + Len(y)) /\ DOMAIN x = 1..Len(x)
            /\ \A i \in 1..Len(x) : (x \o y)[i] = x[i]
            /\ \A i \in 1..(Len(x) + Len(y)) : i > Len(x) =>
                 i - Len(x) \in 1..Len(y) /\ (x \o y)[i] = y[i - Len(x)]
      BY Joined
    <3>2. /\ t \o w \in Seq(Stream!Piece) /\ Len(t \o w) = Len(t) + Len(w) /\ Len(t) \in Nat
          /\ DOMAIN (t \o w) = 1..(Len(t) + Len(w)) /\ DOMAIN t = 1..Len(t)
          /\ \A i \in 1..Len(t) : (t \o w)[i] = t[i]
          /\ \A i \in 1..(Len(t) + Len(w)) : i > Len(t) =>
               i - Len(t) \in 1..Len(w) /\ (t \o w)[i] = w[i - Len(t)]
      <4>1. t \in Seq(Stream!Piece) /\ w \in Seq(Stream!Piece)
        BY <2>1
      <4> QED
        BY <3>1, <4>1, Zenon
    <3>3. t \o w = chunk
      BY <1>5
    <3> QED
      BY <3>2, <3>3, Zenon
  <2> QED
    BY <2>1, <2>2
<1>12. chunk # <<>>
  <2>1. Len(t) = (IF cut THEN 1 ELSE 0) /\ Len(chunk) = Len(t) + m
    BY <1>6, <1>11
  <2>2. Len(chunk) # 0
    BY <1>1, <1>3, <2>1
  <2> QED
    BY <2>2
<1>13. ASSUME NEW i \in DOMAIN chunk, chunk[i].part = "head" PROVE i = Len(chunk) /\ half
  <2>1. i > Len(t)
    BY <1>6, <1>11, <1>13
  <2>2. i - Len(t) \in 1..m /\ w[i - Len(t)].part = "head"
    BY <1>11, <1>13, <2>1
  <2>3. half /\ i - Len(t) = m
    BY <1>7, <2>2
  <2> QED
    BY <1>1, <1>11, <2>3
<1>14. ASSUME cut PROVE chunk[1].part # "head"
  <2>1. 1 \in 1..Len(t)
    BY <1>6, <1>14
  <2> QED
    BY <1>6, <1>11, <2>1
<1> QED
  BY <1>4, <1>10, <1>11, <1>12, <1>13, <1>14 DEF A, L, m, D

\* Rejoined pieces tell the same.
LEMMA WholeRow ==
  ASSUME NEW kinds, NEW pieces, OfFrames(pieces, kinds), NEW c \in Nat, NEW d \in Nat,
         Row(pieces, 0, WholePieces, Nat, c, d)
  PROVE  /\ Row(Stream!Completed(pieces), 0, WholePieces, Nat, c, d)
         /\ \A i \in DOMAIN Stream!Completed(pieces) : Stream!Completed(pieces)[i] \in WholePieces
         /\ Row(Stream!Rejoined(pieces), 0, WholePieces, Nat, c, d)
         /\ \A i \in DOMAIN Stream!Rejoined(pieces) : Stream!Rejoined(pieces)[i].part = "whole"
<1> DEFINE whole == Stream!Completed(pieces)
           S == [n : 0..MaxFrames, part : {"whole", "tail"}]
           k == [i \in DOMAIN whole |-> [n |-> whole[i].n, part |-> "whole"]]
<1>1. pieces \in Seq(Stream!Piece) /\ whole = Keep(pieces, S)
  BY SameKeep DEF Stream!Completed, OfFrames
<1>2. \A p \in WholePieces : p \in S /\ p.n \in Nat
  BY Limited DEF WholePieces, Stream!Piece, StreamLimits
<1>3. \A i \in DOMAIN pieces : pieces[i] \in WholePieces => (pieces[i] \in S <=> pieces[i].n \in Nat)
  BY <1>2
<1>4. Row(whole, 0, WholePieces, Nat \cap Nat, c, d)
  <2> HIDE DEF whole, S
  <2>1. Row(Keep(pieces, S), 0, WholePieces, Nat \cap Nat, c, d)
    BY <1>1, <1>3, RowOfKept
  <2> QED
    BY <1>1, <2>1
<1>5. Nat \cap Nat = Nat
  OBVIOUS
<1>6. whole \in Seq(Stream!Piece)
  BY CompletedPieces
<1>7. ASSUME NEW i \in DOMAIN whole PROVE whole[i] \in WholePieces
  <2>1. whole[i] \in Stream!Piece
    BY <1>6, <1>7
  <2>2. PICK j \in DOMAIN pieces : whole[i] = pieces[j] /\ pieces[j].part # "head"
    BY <1>7, CompletedPieces
  <2> QED
    BY <2>1, <2>2 DEF WholePieces
<1> HIDE DEF whole
<1>8. Row(whole, 0, WholePieces, Nat, c, d)
  BY <1>4, <1>5
<1>9. \A i \in DOMAIN whole : k[i].n = whole[i].n /\ k[i].part = "whole" /\ k[i] \in WholePieces
  BY <1>7 DEF WholePieces, Stream!Piece
<1>10. Row(k, 0, WholePieces, Nat, c, d)
  <2>1. DOMAIN k = DOMAIN whole
    OBVIOUS
  <2> HIDE DEF k
  <2> QED
    BY <1>7, <1>8, <1>9, <2>1, RowOfLike
<1>11. k = Stream!Rejoined(pieces) /\ DOMAIN k = DOMAIN whole
  BY DEF Stream!Rejoined, whole
<1> HIDE DEF k
<1> QED
  BY <1>7, <1>8, <1>9, <1>10, <1>11 DEF whole

\* What the client is given of the frames that go on.
LEMMA GivenRow ==
  ASSUME NEW kinds, NEW fs \in Seq(Passing), NEW c \in Nat, NEW d \in Nat, c <= d,
         attempt \in Attempts, out \in Seq(Stream!Frame),
         Row(fs, 0, PassWhole, {n \in Nat : kinds[n] # "error"}, c, d),
         \A i \in DOMAIN fs : fs[i].as = "whole" => fs[i].kind = kinds[fs[i].n],
         \A i \in DOMAIN fs : fs[i].as # "torn",
         Row(out, 0, GivenWhole, Told(kinds), 0, c), \A i \in DOMAIN out : out[i].as # "torn"
  PROVE  /\ Row(Stream!Given(fs), 0, GivenWhole, Told(kinds), 0, d)
         /\ \A i \in DOMAIN Stream!Given(fs) : Stream!Given(fs)[i].as # "torn"
<1> DEFINE S == {f \in Stream!Elements(fs) : ~(strip /\ f.as = "whole" /\ f.kind = "usage")}
           w == Keep(fs, S)
           r == [i \in DOMAIN w |-> Stream!AsFrame(w[i].n, w[i].as)]
           again == Len(w) = 1 /\ Head(w).as = "alive" /\ out # <<>> /\ Stream!Last(out).as = "alive"
           V == {n \in Nat : kinds[n] # "error"}
           U == {n \in Nat : ~(strip /\ kinds[n] = "usage")}
<1>1. Stream!Given(fs) = IF again THEN out ELSE out \o r
  BY SameKeep DEF Stream!Given
<1>2. w \in Seq(Passing) /\ Elements(w) = Elements(fs) \cap S
  BY KeepElements
<1>3. ASSUME NEW i \in DOMAIN fs, fs[i] \in PassWhole PROVE fs[i] \in S <=> fs[i].n \in U
  <2>1. fs[i] \in Stream!Elements(fs)
    BY <1>3, Zenon DEF Stream!Elements
  <2>2. fs[i].as = "whole" /\ fs[i].n \in Nat
    BY <1>3, Limited DEF PassWhole, Passing, StreamLimits
  <2>3. fs[i].kind = kinds[fs[i].n]
    BY <1>3, <2>2
  <2> QED
    BY <2>1, <2>2, <2>3
<1>4. Row(w, 0, PassWhole, V \cap U, c, d)
  <2> HIDE DEF S, U, V
  <2>1. Row(fs, 0, PassWhole, V, c, d)
    BY DEF V
  <2> QED
    BY <1>3, <2>1, RowOfKept
<1>5. V \cap U = Told(kinds)
  BY DEF Told
<1>6. \A i \in DOMAIN w : w[i] \in Passing /\ w[i].as # "torn"
  <2> SUFFICES ASSUME NEW i \in DOMAIN w PROVE w[i] \in Passing /\ w[i].as # "torn"
    OBVIOUS
  <2> HIDE DEF S, w
  <2>1. w[i] \in Elements(w)
    BY Zenon DEF Elements
  <2>2. w[i] \in Elements(fs)
    BY <1>2, <2>1
  <2>3. PICK j \in DOMAIN fs : w[i] = fs[j]
    BY <2>2, Zenon DEF Elements
  <2> QED
    BY <2>3
<1> HIDE DEF S, w, U, V
<1>7. Row(w, 0, PassWhole, Told(kinds), c, d)
  BY <1>4, <1>5
<1>8. \A i \in DOMAIN w : /\ r[i] \in Stream!Frame /\ r[i].n = w[i].n /\ r[i].as = w[i].as
                          /\ (r[i] \in GivenWhole <=> w[i] \in PassWhole)
  BY <1>6 DEF Passing, PassWhole, GivenWhole, Stream!Frame, Stream!AsFrame
<1>9. CASE again
  <2>1. \A i \in DOMAIN w : w[i] \notin PassWhole
    <3>1. Len(w) = 1 /\ Head(w).as = "alive"
      BY <1>9
    <3>2. DOMAIN w = {1} /\ Head(w) = w[1]
      BY <1>2, <3>1
    <3> QED
      BY <3>1, <3>2 DEF PassWhole
  <2>2. \A n \in (c + 1)..d : n \notin Told(kinds)
    BY <1>7, <2>1 DEF Row
  <2>3. Row(out, 0, GivenWhole, Told(kinds), 0, d)
    BY <2>2, RowOfMore
  <2> QED
    BY <1>1, <1>9, <2>3
<1>10. CASE ~again
  <2> DEFINE g == out \o r
  <2>1. Stream!Given(fs) = g
    BY <1>1, <1>10
  <2>2. DOMAIN r = DOMAIN w /\ r \in Seq(Stream!Frame)
    <3>1. DOMAIN w = 1..Len(w) /\ Len(w) \in Nat /\ r = [i \in 1..Len(w) |-> r[i]] /\ DOMAIN r = DOMAIN w
      BY <1>2
    <3> HIDE DEF r
    <3> QED
      BY <1>8, <3>1
  <2> HIDE DEF r, again
  <2>3. Row(r, 0, GivenWhole, Told(kinds), c, d)
    BY <1>7, <1>8, <2>2, RowOfLike
  <2>4. Row(g, 0, GivenWhole, Told(kinds), 0, d)
    <3>1. 0 \in 0..Len(out) /\ 0 <= c /\ 0 \in Nat
      OBVIOUS
    <3> QED
      BY <2>2, <2>3, <3>1, RowOfBoth
  <2>5. ASSUME NEW i \in DOMAIN g PROVE g[i].as # "torn"
    <3>1. /\ DOMAIN out = 1..Len(out) /\ DOMAIN r = 1..Len(r) /\ DOMAIN g = 1..(Len(out) + Len(r))
          /\ Len(out) \in Nat /\ Len(r) \in Nat
          /\ \A j \in 1..Len(out) : g[j] = out[j]
          /\ \A j \in 1..(Len(out) + Len(r)) : j > Len(out) => j - Len(out) \in 1..Len(r) /\ g[j] = r[j - Len(out)]
      BY <2>2, Joined
    <3> HIDE DEF g
    <3>2. CASE i <= Len(out)
      <4>1. i \in 1..Len(out)
        BY <2>5, <3>1, <3>2
      <4> QED
        BY <3>1, <4>1
    <3>3. CASE i > Len(out)
      <4>1. i - Len(out) \in DOMAIN w /\ g[i] = r[i - Len(out)]
        BY <2>2, <2>5, <3>1, <3>3
      <4> QED
        BY <1>6, <1>8, <4>1
    <3> QED
      BY <2>5, <3>1, <3>2, <3>3
  <2> QED
    BY <2>1, <2>4, <2>5
<1> QED
  BY <1>9, <1>10

\* A short row may be put after a long one.
LEMMA RowOfRest ==
  ASSUME NEW T, NEW s \in Seq(T), NEW r \in Seq(T), NEW S, NEW W, NEW c \in Nat, NEW d \in Nat, c <= d,
         Row(s, 0, S, W, c, d), \A i \in DOMAIN r : r[i] \notin S
  PROVE  Row(s \o r, 0, S, W, c, d)
<1>1. Row(r, 0, S, W, d, d)
  BY RowOfNone
<1>2. 0 \in 0..Len(s) /\ d <= d
  OBVIOUS
<1> QED
  BY <1>1, <1>2, RowOfBoth

\* What goes on tells the client what the pieces told.
LEMMA RelayRow ==
  ASSUME NEW kinds \in Seq(Stream!Kinds), Len(kinds) \in 0..MaxFrames,
         NEW pieces, OfFrames(pieces, kinds),
         NEW own \in {"none", "alive", "error"}, NEW next,
         private \in (1..MaxFrames) \cup {None}, attempt \in Attempts, out \in Seq(Stream!Frame),
         noted \in [error : BOOLEAN, stop : BOOLEAN],
         NEW c \in Nat, NEW d \in Nat, c <= d, Row(pieces, 0, WholePieces, Nat, c, d),
         Row(out, 0, GivenWhole, Told(kinds), 0, c), \A i \in DOMAIN out : out[i].as # "torn",
         own = "alive" => Stream!HalfAfter(pieces) = None,
         Stream!Relay(pieces, kinds, own, next)
  PROVE  /\ Row(out', 0, GivenWhole, Told(kinds), 0, d)
         /\ \A i \in DOMAIN out' : out'[i].as # "torn"
         /\ phase' \in {next, "over"}
         /\ phase' # "over" => \A n \in (c + 1)..d : kinds[n] # "error"
         /\ Stream!HalfAfter(pieces) = None => private' = None /\ (own = "error" => noted'.error)
<1> DEFINE whole == Stream!Completed(pieces)
           after == Stream!HalfAfter(pieces)
           ended == next = "over" \/ \E p \in Stream!Elements(whole) : kinds[p.n] = "error"
           half == IF own = "none" THEN after ELSE None
           mark == CASE after = None -> own
                     [] after # None /\ own = "alive" -> "torn"
                     [] after # None /\ own = "error" -> "glued"
                     [] OTHER -> "none"
           a == [i \in DOMAIN whole |->
                   [n |-> whole[i].n, kind |-> kinds[whole[i].n],
                    as |-> IF kinds[whole[i].n] = "error" THEN "error" ELSE "whole"]]
           b == IF own = "none" THEN <<>> ELSE <<[n |-> 0, kind |-> own, as |-> mark]>>
           t == IF ended /\ half # None THEN <<[n |-> half, kind |-> "half", as |-> "half"]>> ELSE <<>>
           fs == (a \o b) \o t
           V == {n \in Nat : kinds[n] # "error"}
<1>1. /\ out' = Stream!Given(fs) /\ noted' = Stream!Accounted(fs)
      /\ private' = IF ended THEN None ELSE half
      /\ phase' = IF ended THEN "over" ELSE next
  BY DEF Stream!Relay, Stream!Passed
<1>2. whole \in Seq(Stream!Piece) /\ Len(whole) \in Nat /\ DOMAIN whole = 1..Len(whole)
  BY CompletedPieces
<1>3. /\ Row(whole, 0, WholePieces, Nat, c, d)
      /\ \A i \in DOMAIN whole : whole[i] \in WholePieces
  BY WholeRow
<1>4. \A i \in 1..Len(whole) : whole[i].n \in 1..Len(kinds)
  <2> SUFFICES ASSUME NEW i \in DOMAIN whole PROVE whole[i].n \in 1..Len(kinds)
    BY <1>2
  <2>1. PICK j \in DOMAIN pieces : whole[i] = pieces[j]
    BY CompletedPieces
  <2> QED
    BY <2>1 DEF OfFrames
<1>5. after \in (1..MaxFrames) \cup {None}
  BY HalfFrame
<1>a. own = "alive" => after = None
  OBVIOUS
<1>6. ASSUME ~ended, NEW n \in (c + 1)..d PROVE kinds[n] # "error"
  <2>1. PICK i \in DOMAIN whole : whole[i] \in WholePieces /\ whole[i].n = n
    <3>1. n \in Nat
      BY <1>6
    <3> QED
      BY <1>3, <3>1, Zenon DEF Row
  <2>2. whole[i] \in Stream!Elements(whole)
    BY <2>1, Zenon DEF Stream!Elements
  <2> QED
    BY <1>6, <2>1, <2>2
<1> HIDE DEF whole, after, ended
<1>7. MaxFrames \in Nat
  BY Limited DEF StreamLimits
<1>8. \A i \in 1..Len(whole) : /\ a[i] \in Passing /\ a[i].n = whole[i].n /\ a[i].kind = kinds[a[i].n]
                               /\ a[i].as \in {"whole", "error"}
                               /\ a[i].as = "whole" <=> kinds[whole[i].n] # "error"
  <2>1. \A i \in 1..Len(whole) : whole[i].n \in 0..MaxFrames /\ kinds[whole[i].n] \in Stream!Kinds
    BY <1>4, <1>7
  <2> QED
    BY <1>2, <2>1 DEF Passing
<1>9. a \in Seq(Passing) /\ Len(a) = Len(whole) /\ DOMAIN a = DOMAIN whole
  <2>1. a = [i \in 1..Len(whole) |-> a[i]] /\ DOMAIN a = DOMAIN whole
    BY <1>2
  <2> HIDE DEF a
  <2> QED
    BY <1>2, <1>8, <2>1
<1>10. /\ b \in Seq(Passing) /\ Len(b) \in 0..1
       /\ \A i \in DOMAIN b : b[i].as = mark /\ own # "none"
       /\ own # "none" => Len(b) = 1 /\ DOMAIN b = {1}
  <2>1. CASE own = "none"
    <3>1. b = <<>>
      BY <2>1
    <3> HIDE DEF b
    <3> QED
      BY <2>1, <3>1
  <2>2. CASE own # "none"
    <3> DEFINE f == [n |-> 0, kind |-> own, as |-> mark]
    <3>1. mark \in {"alive", "error", "glued", "torn"}
      BY <2>2
    <3>2. f \in Passing /\ f.as = mark
      BY <1>7, <2>2, <3>1 DEF Passing, Stream!Kinds
    <3>3. b = <<f>>
      BY <2>2
    <3> HIDE DEF f, b, mark
    <3> QED
      BY <2>2, <3>2, <3>3
  <2> QED
    BY <2>1, <2>2
<1>11. own # "none" => mark \in {"alive", "error", "glued"}
  BY <1>a
<1>12. own = "error" /\ after = None => mark = "error"
  OBVIOUS
<1>13. t \in Seq(Passing) /\ Len(t) \in 0..1 /\ \A i \in DOMAIN t : t[i].as = "half"
  <2>1. CASE ended /\ half # None
    <3> DEFINE f == [n |-> half, kind |-> "half", as |-> "half"]
    <3>1. f \in Passing /\ f.as = "half"
      BY <1>5, <1>7, <2>1 DEF Passing
    <3>2. t = <<f>>
      BY <2>1
    <3> HIDE DEF f, t
    <3> QED
      BY <3>1, <3>2
  <2>2. CASE ~(ended /\ half # None)
    <3>1. t = <<>>
      BY <2>2
    <3> HIDE DEF t
    <3> QED
      BY <3>1
  <2> QED
    BY <2>1, <2>2
<1>14. after = None => private' = None
  BY <1>1
<1> HIDE DEF a, b, t, half, mark
<1>15. Row(a, 0, PassWhole, V, c, d)
  <2>1. \A i \in DOMAIN whole : a[i].n = whole[i].n /\ (a[i] \in PassWhole <=> whole[i] \in WholePieces /\ whole[i].n \in V)
    BY <1>2, <1>3, <1>4, <1>8 DEF PassWhole
  <2> HIDE DEF V
  <2>2. Row(a, 0, PassWhole, Nat \cap V, c, d)
    BY <1>3, <1>9, <2>1, RowOfSome
  <2>3. Nat \cap V = V
    BY DEF V
  <2> QED
    BY <2>2, <2>3
<1> DEFINE ab == a \o b
<1>16. Row(ab, 0, PassWhole, V, c, d)
  <2>1. \A i \in DOMAIN b : b[i] \notin PassWhole
    BY <1>10, <1>11 DEF PassWhole
  <2> HIDE DEF V
  <2> QED
    BY <1>9, <1>10, <1>15, <2>1, RowOfRest
<1>17. /\ ab \in Seq(Passing) /\ Len(ab) = Len(a) + Len(b) /\ DOMAIN ab = 1..(Len(a) + Len(b))
       /\ \A i \in 1..Len(a) : ab[i] = a[i]
       /\ \A i \in 1..(Len(a) + Len(b)) : i > Len(a) => i - Len(a) \in 1..Len(b) /\ ab[i] = b[i - Len(a)]
  <2>1. a \in Seq(Passing) /\ b \in Seq(Passing)
    BY <1>9, <1>10
  <2> QED
    BY <2>1, Joined
<1>18. fs = ab \o t
  OBVIOUS
<1> HIDE DEF ab, fs
<1>19. /\ fs \in Seq(Passing) /\ DOMAIN fs = 1..(Len(ab) + Len(t))
       /\ \A i \in 1..Len(ab) : fs[i] = ab[i]
       /\ \A i \in 1..(Len(ab) + Len(t)) : i > Len(ab) => i - Len(ab) \in 1..Len(t) /\ fs[i] = t[i - Len(ab)]
  <2>1. ab \in Seq(Passing) /\ t \in Seq(Passing)
    BY <1>13, <1>17
  <2> QED
    BY <1>18, <2>1, Joined
<1>20. Row(fs, 0, PassWhole, V, c, d)
  <2>1. \A i \in DOMAIN t : t[i] \notin PassWhole
    BY <1>13 DEF PassWhole
  <2> HIDE DEF V
  <2> QED
    BY <1>13, <1>16, <1>17, <1>18, <2>1, RowOfRest
<1>21. ASSUME NEW i \in DOMAIN fs
       PROVE  \/ i \in 1..Len(a) /\ fs[i] = a[i]
              \/ i - Len(a) \in DOMAIN b /\ fs[i] = b[i - Len(a)]
              \/ i - Len(ab) \in DOMAIN t /\ fs[i] = t[i - Len(ab)]
  <2> DEFINE x == Len(a)  y == Len(b)  z == Len(t)
  <2>1. x \in Nat /\ y \in Nat /\ z \in Nat /\ Len(ab) = x + y /\ i \in 1..(x + y + z)
        /\ DOMAIN b = 1..y /\ DOMAIN t = 1..z
    BY <1>2, <1>9, <1>10, <1>13, <1>17, <1>19, <1>21
  <2> HIDE DEF x, y, z
  <2>2. \/ i \in 1..x /\ i \in 1..(x + y)
        \/ i \in 1..(x + y) /\ i > x /\ i - x \in 1..y
        \/ i > x + y /\ i - (x + y) \in 1..z
    BY <2>1
  <2>3. CASE i \in 1..x /\ i \in 1..(x + y)
    BY <1>17, <1>19, <2>1, <2>3 DEF x, y
  <2>4. CASE i \in 1..(x + y) /\ i > x /\ i - x \in 1..y
    BY <1>17, <1>19, <2>1, <2>4 DEF x, y
  <2>5. CASE i > x + y /\ i - (x + y) \in 1..z
    <3>1. fs[i] = t[i - Len(ab)] /\ i - Len(ab) \in DOMAIN t
      BY <1>19, <1>21, <2>1, <2>5 DEF z
    <3> QED
      BY <3>1
  <2> QED
    BY <2>2, <2>3, <2>4, <2>5
<1>22. \A i \in DOMAIN fs : /\ fs[i].as = "whole" => fs[i].kind = kinds[fs[i].n]
                            /\ fs[i].as # "torn"
  <2> SUFFICES ASSUME NEW i \in DOMAIN fs
               PROVE  (fs[i].as = "whole" => fs[i].kind = kinds[fs[i].n]) /\ fs[i].as # "torn"
    OBVIOUS
  <2>1. CASE i \in 1..Len(a) /\ fs[i] = a[i]
    BY <1>8, <1>9, <2>1
  <2>2. CASE i - Len(a) \in DOMAIN b /\ fs[i] = b[i - Len(a)]
    BY <1>10, <1>11, <2>2
  <2>3. CASE i - Len(ab) \in DOMAIN t /\ fs[i] = t[i - Len(ab)]
    BY <1>13, <2>3
  <2> QED
    BY <1>21, <2>1, <2>2, <2>3
<1>23. /\ Row(out', 0, GivenWhole, Told(kinds), 0, d)
       /\ \A i \in DOMAIN out' : out'[i].as # "torn"
  <2>1. \A i \in DOMAIN fs : fs[i].as = "whole" => fs[i].kind = kinds[fs[i].n]
    BY <1>22
  <2>2. \A i \in DOMAIN fs : fs[i].as # "torn"
    BY <1>22
  <2>3. fs \in Seq(Passing)
    BY <1>19
  <2>4. /\ Row(Stream!Given(fs), 0, GivenWhole, Told(kinds), 0, d)
        /\ \A i \in DOMAIN Stream!Given(fs) : Stream!Given(fs)[i].as # "torn"
    BY <1>20, <2>1, <2>2, <2>3, GivenRow
  <2> QED
    BY <1>1, <2>4, Zenon
<1>24. ASSUME own = "error", after = None PROVE noted'.error
  <2>1. Len(b) = 1 /\ 1 \in DOMAIN b /\ b[1].as = "error"
    BY <1>10, <1>12, <1>24
  <2>2. Len(a) + 1 \in DOMAIN fs /\ fs[Len(a) + 1] = b[1]
    <3> DEFINE x == Len(a)  z == Len(t)
    <3>1. x \in Nat /\ z \in Nat /\ Len(ab) = x + 1 /\ DOMAIN fs = 1..(x + 1 + z)
      BY <1>2, <1>9, <1>13, <1>17, <1>19, <2>1
    <3> HIDE DEF x, z
    <3>2. x + 1 \in 1..(x + 1) /\ x + 1 > x /\ (x + 1) - x = 1 /\ x + 1 \in 1..(x + 1 + z)
      BY <3>1
    <3>3. fs[x + 1] = ab[x + 1]
      BY <1>19, <3>1, <3>2
    <3>4. ab[x + 1] = b[1]
      BY <1>17, <2>1, <3>2 DEF x
    <3> QED
      BY <3>1, <3>2, <3>3, <3>4 DEF x
  <2>3. noted'.error = (noted.error \/ \E i \in DOMAIN fs : fs[i].as = "error")
    BY <1>1 DEF Stream!Accounted
  <2> QED
    BY <2>1, <2>2, <2>3
<1> QED
  BY <1>1, <1>6, <1>14, <1>23, <1>24 DEF after

-----------------------------------------------------------------------------
(* Nothing is lost, doubled or out of order.                                *)

\* A head is followed by its rest; and a head may be the last piece.
Followed(s) == \A i \in DOMAIN s : s[i].part = "head" /\ i < Len(s) => s[i + 1].part # "head"
HeadLast(s) == s # <<>> /\ s[Len(s)].part = "head"

\* The client has what it is to get of the first c frames, the rest is held; and an
\* upstream that has ended left nothing out, unless an error was told.
GivenUpTo(c) ==
  /\ Row(out, 0, GivenWhole, Told(sent), 0, c)
  /\ phase \in Open =>
       Row(held, emitted, WholePieces, Nat, c, Whole) /\ \A n \in 1..c : sent[n] # "error"
  /\ up = "eof" => noted.error \/ (c = Whole /\ \A n \in 1..c : sent[n] # "error")

Untorn == \A i \in DOMAIN out : out[i].as # "torn"

\* Until content flows, half a frame waits in the buffer of the sniffer.
Halves ==
  /\ phase \in {"sniffing", "alive"} => private = None /\ Followed(held) /\ (HeadLast(held) => cut)
  /\ phase = "relaying" => \A i \in DOMAIN held : held[i].part = "head"

Delivered ==
  /\ \E c \in 0..Whole : GivenUpTo(c)
  /\ Untorn /\ Halves
  /\ phase \in Open => up = "open"
  /\ phase = "settled" /\ verdict[attempt] = "success" => ~noted.error

\* A step that passes something on.
LEMMA RelayDelivers ==
  ASSUME StreamInv, Untorn, NEW c \in Nat, Row(out, 0, GivenWhole, Told(sent), 0, c),
         \A n \in 1..c : sent[n] # "error",
         Whole' \in Nat, strip' = strip,
         NEW kinds \in Seq(Stream!Kinds), Len(kinds) \in 0..MaxFrames,
         NEW pieces, OfFrames(pieces, kinds),
         NEW own \in {"none", "alive", "error"}, NEW next \in {"alive", "relaying", "over"},
         NEW d \in 0..Whole', c <= d, Row(pieces, 0, WholePieces, Nat, c, d),
         \A n \in 1..c : kinds[n] = sent[n], \A n \in 1..d : kinds[n] = sent'[n],
         next # "over" => Row(held', emitted', WholePieces, Nat, d, Whole') /\ up' = "open",
         next = "alive" => /\ Stream!HalfAfter(pieces) = None
                           /\ Followed(held') /\ (HeadLast(held') => cut'),
         next = "relaying" => \A i \in DOMAIN held' : held'[i].part = "head",
         up' = "eof" => \/ own = "error" /\ Stream!HalfAfter(pieces) = None
                        \/ d = Whole' /\ \A n \in 1..d : kinds[n] # "error",
         own = "alive" => Stream!HalfAfter(pieces) = None,
         Stream!Relay(pieces, kinds, own, next)
  PROVE  Delivered'
<1>1. /\ private \in (1..MaxFrames) \cup {None} /\ attempt \in Attempts
      /\ out \in Seq(Stream!Frame) /\ noted \in [error : BOOLEAN, stop : BOOLEAN]
  BY DEF StreamInv, Stream!TypeOK
<1>2. d \in Nat /\ \A n \in (0 + 1)..c : n \in 1..c /\ n \in 1..d
  OBVIOUS
<1>3. Row(out, 0, GivenWhole, Told(kinds), 0, c)
  <2>1. \A n \in (0 + 1)..c : n \in Told(kinds) <=> n \in Told(sent)
    BY <1>2 DEF Told
  <2> QED
    BY <2>1, RowOfWanted
<1>4. /\ Row(out', 0, GivenWhole, Told(kinds), 0, d)
      /\ \A i \in DOMAIN out' : out'[i].as # "torn"
      /\ phase' \in {next, "over"}
      /\ phase' # "over" => \A n \in (c + 1)..d : kinds[n] # "error"
      /\ Stream!HalfAfter(pieces) = None => private' = None /\ (own = "error" => noted'.error)
  BY <1>1, <1>2, <1>3, RelayRow DEF Untorn
<1>5. Row(out', 0, GivenWhole, Told(sent)', 0, d)
  <2> DEFINE W == Told(sent)'
  <2>1. \A n \in (0 + 1)..d : n \in W <=> n \in Told(kinds)
    <3>1. \A n \in (0 + 1)..d : n \in 1..d
      OBVIOUS
    <3> QED
      BY <3>1 DEF Told
  <2> HIDE DEF W
  <2>2. Row(out', 0, GivenWhole, W, 0, d)
    BY <1>2, <1>4, <2>1, RowOfWanted
  <2> QED
    BY <2>2 DEF W
<1>6. ASSUME phase' # "over" PROVE \A n \in 1..d : sent'[n] # "error"
  <2> SUFFICES ASSUME NEW n \in 1..d PROVE kinds[n] # "error"
    OBVIOUS
  <2>1. n \in 1..c \/ n \in (c + 1)..d
    OBVIOUS
  <2>2. CASE n \in 1..c
    BY <2>2
  <2>3. CASE n \in (c + 1)..d
    BY <1>4, <1>6, <2>3
  <2> QED
    BY <2>1, <2>2, <2>3
<1>7. GivenUpTo(d)'
  <2>1. Row(out, 0, GivenWhole, Told(sent), 0, d)'
    BY <1>5 DEF Row, GivenWhole, Stream!Frame
  <2>2. phase' \in Open => /\ Row(held, emitted, WholePieces, Nat, d, Whole)'
                           /\ \A n \in 1..d : sent'[n] # "error"
    <3> SUFFICES ASSUME phase' \in Open
                 PROVE  /\ Row(held, emitted, WholePieces, Nat, d, Whole)'
                        /\ \A n \in 1..d : sent'[n] # "error"
      OBVIOUS
    <3>1. phase' # "over" /\ next # "over"
      BY <1>4 DEF Open
    <3>2. Row(held', emitted', WholePieces, Nat, d, Whole')
      BY <3>1
    <3> QED
      BY <1>6, <3>1, <3>2 DEF Row, WholePieces, Stream!Piece
  <2>3. up' = "eof" => noted'.error \/ (d = Whole' /\ \A n \in 1..d : sent'[n] # "error")
    <3>1. \A n \in 1..d : kinds[n] # "error" => sent'[n] # "error"
      OBVIOUS
    <3> QED
      BY <1>4, <3>1
  <2> QED
    BY <2>1, <2>2, <2>3 DEF GivenUpTo
<1>8. Untorn' /\ Halves' /\ (phase' \in Open => up' = "open")
  <2>1. phase' \in {"alive", "relaying", "over"} /\ (phase' # "over" => phase' = next)
    BY <1>4
  <2> QED
    BY <1>4, <2>1 DEF Untorn, Halves, Open, Followed, HeadLast
<1>9. phase' # "settled"
  BY <1>4
<1> QED
  BY <1>7, <1>8, <1>9 DEF Delivered

\* What is held and what has come, after each other.
LEMMA ComesRow ==
  ASSUME StreamInv, phase \in Open, NEW c \in 0..Whole, Row(held, emitted, WholePieces, Nat, c, Whole),
         NEW new \in Stream!Chunks, NEW half \in BOOLEAN, Stream!Comes(new, half), Stream!Receives(new, half),
         NEW chunk, chunk = Stream!ChunkOf(new, half), NEW all, all = held \o chunk
  PROVE  /\ Whole \in Nat /\ Whole' \in Nat /\ Whole <= Whole' /\ c \in 0..Whole' /\ c \in Nat
         /\ Row(all, emitted, WholePieces, Nat, c, Whole')
         /\ \A n \in 1..c : sent'[n] = sent[n]
<1>1. SentOk /\ held \in Seq(Stream!Piece) /\ emitted \in 0..Len(held)
  BY DEF StreamInv, StreamKept, Stream!TypeOK
<1> DEFINE W == Len(sent) + Len(new) - (IF half THEN 1 ELSE 0)
<1>2. /\ Whole \in Nat /\ W \in Nat /\ Whole <= W /\ Row(chunk, 0, WholePieces, Nat, Whole, W)
      /\ chunk \in Seq(Stream!Piece)
  BY <1>1, ChunkRow
<1>3. sent' = sent \o new /\ cut' = half
  BY DEF Stream!Receives
<1>4. Len(sent') = Len(sent) + Len(new) /\ \A i \in DOMAIN sent : sent'[i] = sent[i]
  <2> DEFINE kinds == sent \o new
  <2>1. kinds = sent \o new
    OBVIOUS
  <2> HIDE DEF kinds
  <2>2. Len(kinds) = Len(sent) + Len(new) /\ \A i \in DOMAIN sent : kinds[i] = sent[i]
    BY <1>1, <2>1, SentAfter
  <2> QED
    BY <1>3, <2>1, <2>2
<1>5. Whole' = W
  BY <1>3, <1>4 DEF Whole
<1>6. \A n \in 1..c : n \in DOMAIN sent
  <2>1. sent \in Seq(Stream!Kinds) /\ Whole <= Len(sent)
    BY <1>1 DEF SentOk, Whole
  <2> QED
    BY <1>2, <2>1
<1> HIDE DEF W
<1>7. c \in Nat /\ c <= Whole /\ c \in 0..W
  <2> DEFINE x == Whole
  <2>1. x \in Nat /\ c \in 0..x /\ W \in Nat /\ x <= W
    BY <1>2
  <2> HIDE DEF x
  <2>2. c \in Nat /\ c <= x /\ c \in 0..W
    BY <2>1
  <2> QED
    BY <2>2 DEF x
<1>8. Row(all, emitted, WholePieces, Nat, c, W)
  BY <1>1, <1>2, <1>7, RowOfBoth
<1> QED
  BY <1>2, <1>4, <1>5, <1>6, <1>7, <1>8

\* The rest of a frame comes with the next chunk.
LEMMA RestComes ==
  ASSUME SentOk, held \in Seq(Stream!Piece), Followed(held), HeadLast(held) => cut,
         NEW new \in Stream!Chunks, NEW half \in BOOLEAN, Stream!Comes(new, half),
         NEW chunk, chunk = Stream!ChunkOf(new, half), NEW all, all = held \o chunk
  PROVE  all \in Seq(Stream!Piece) /\ Followed(all) /\ (HeadLast(all) => half)
<1>1. /\ chunk \in Seq(Stream!Piece) /\ chunk # <<>>
      /\ \A i \in DOMAIN chunk : chunk[i].part = "head" => i = Len(chunk) /\ half
      /\ cut => chunk[1].part # "head"
  BY ChunkRow
<1> DEFINE m == Len(held)  k == Len(chunk)
<1>2. /\ all \in Seq(Stream!Piece) /\ Len(all) = m + k /\ m \in Nat /\ k \in Nat /\ k # 0
      /\ DOMAIN held = 1..m /\ DOMAIN chunk = 1..k /\ DOMAIN all = 1..(m + k)
      /\ \A i \in 1..m : all[i] = held[i]
      /\ \A i \in 1..(m + k) : i > m => i - m \in 1..k /\ all[i] = chunk[i - m]
  BY <1>1, Joined
<1>3. \A i \in 1..k : chunk[i].part = "head" => i = k /\ half
  BY <1>1, <1>2
<1>4. \A i \in 1..m : held[i].part = "head" /\ i < m => held[i + 1].part # "head"
  BY <1>2 DEF Followed
<1>5. m # 0 /\ held[m].part = "head" => cut
  BY <1>2 DEF HeadLast
<1> HIDE DEF m, k
<1>6. ASSUME NEW i \in 1..(m + k), all[i].part = "head", i < m + k PROVE all[i + 1].part # "head"
  <2>1. CASE i > m
    <3>1. i - m \in 1..k /\ chunk[i - m].part = "head" /\ i - m # k
      BY <1>2, <1>6, <2>1
    <3> QED
      BY <1>3, <3>1
  <2>2. CASE i = m
    <3>1. all[i] = held[m] /\ m # 0
      BY <1>2, <2>2
    <3>2. cut
      BY <1>5, <1>6, <3>1
    <3>3. i + 1 \in 1..(m + k) /\ i + 1 > m /\ (i + 1) - m = 1
      BY <1>2, <1>6, <2>2
    <3>4. all[i + 1] = chunk[1]
      BY <1>2, <3>3
    <3> QED
      BY <1>1, <3>2, <3>4
  <2>3. CASE i < m
    <3>1. i \in 1..m /\ i + 1 \in 1..m
      BY <1>2, <1>6, <2>3
    <3>2. all[i] = held[i] /\ all[i + 1] = held[i + 1]
      BY <1>2, <3>1
    <3> QED
      BY <1>4, <1>6, <2>3, <3>1, <3>2
  <2> QED
    BY <1>2, <1>6, <2>1, <2>2, <2>3
<1>7. ASSUME all[m + k].part = "head" PROVE half
  <2>1. m + k \in 1..(m + k) /\ m + k > m /\ (m + k) - m = k /\ k \in 1..k
    BY <1>2
  <2>2. all[m + k] = chunk[k]
    BY <1>2, <2>1
  <2> QED
    BY <1>3, <1>7, <2>1, <2>2
<1> QED
  BY <1>2, <1>6, <1>7 DEF Followed, HeadLast

\* What is whole of followed pieces ends with a whole frame, the rest is a head.
LEMMA WholeFirst ==
  ASSUME NEW pieces \in Seq(Stream!Piece), Followed(pieces), private = None, NEW k \in Nat
  PROVE  /\ Stream!Complete(pieces) \in 0..Len(pieces)
         /\ \A i \in DOMAIN pieces : i > Stream!Complete(pieces) => pieces[i] \notin WholePieces
         /\ Stream!HalfAfter(Stream!Ready(pieces, k)) = None
<1> DEFINE n == Stream!Complete(pieces)  m == Len(pieces)  s == Stream!Ready(pieces, k)
<1>1. m \in Nat /\ DOMAIN pieces = 1..m /\ (pieces # <<>> <=> m # 0)
  OBVIOUS
<1>2. n = IF m # 0 /\ pieces[m].part = "head" THEN m - 1 ELSE m
  BY <1>1 DEF Stream!Complete, Stream!Last
<1>3. \A i \in 1..m : pieces[i].part = "head" /\ i < m => pieces[i + 1].part # "head"
  BY <1>1 DEF Followed
<1>4. s = SubSeq(pieces, k + 1, n)
  BY DEF Stream!Ready
<1> HIDE DEF n, m, s
<1>5. n \in 0..m
  BY <1>1, <1>2
<1>6. ASSUME NEW i \in 1..m, i > n PROVE pieces[i].part = "head"
  <2>1. i = m /\ m # 0 /\ pieces[m].part = "head"
    BY <1>1, <1>2, <1>6
  <2> QED
    BY <2>1
<1>7. ASSUME n # 0 PROVE pieces[n].part # "head"
  <2>1. CASE m # 0 /\ pieces[m].part = "head"
    <3>1. n = m - 1 /\ n \in 1..m /\ n < m /\ n + 1 = m
      BY <1>1, <1>2, <1>7, <2>1
    <3>2. pieces[n + 1].part = "head"
      BY <2>1, <3>1
    <3> QED
      BY <1>3, <3>1, <3>2
  <2>2. CASE ~(m # 0 /\ pieces[m].part = "head")
    BY <1>2, <1>7, <2>2
  <2> QED
    BY <2>1, <2>2
<1>8. Stream!HalfAfter(s) = None
  <2>1. /\ s \in Seq(Stream!Piece) /\ Len(s) = IF k + 1 <= n THEN n - (k + 1) + 1 ELSE 0
        /\ \A i \in 1..(n - (k + 1) + 1) : s[i] = pieces[(k + 1) + i - 1]
    <3>1. k + 1 \in Nat \ {0} /\ \A i \in (k + 1)..n : pieces[i] \in Stream!Piece
      BY <1>1, <1>5
    <3>2. n \in Nat
      BY <1>1, <1>5
    <3> QED
      BY <1>4, <3>1, <3>2, SubSeqProperties
  <2>2. CASE s = <<>>
    BY <2>2 DEF Stream!HalfAfter
  <2>3. CASE s # <<>>
    <3>1. Len(s) # 0
      BY <2>1, <2>3
    <3>2. k + 1 <= n /\ Len(s) = n - (k + 1) + 1 /\ n # 0
      BY <1>1, <1>5, <2>1, <3>1
    <3>3. Len(s) \in 1..(n - (k + 1) + 1) /\ (k + 1) + Len(s) - 1 = n
      BY <1>1, <1>5, <3>2
    <3>4. s[Len(s)] = pieces[n]
      BY <2>1, <3>3
    <3>5. s[Len(s)].part # "head"
      BY <1>7, <3>2, <3>4
    <3> QED
      BY <2>3, <3>5 DEF Stream!HalfAfter, Stream!Last
  <2> QED
    BY <2>2, <2>3
<1> QED
  BY <1>1, <1>5, <1>6, <1>8 DEF n, m, s, WholePieces

\* What is carried over is a head, if anything.
LEMMA CarriedHead ==
  ASSUME NEW pieces \in Seq(Stream!Piece), Followed(pieces), NEW d \in Nat,
         NEW kept, kept = Stream!Carry(pieces, Stream!Complete(pieces))
  PROVE  /\ kept \in Seq(Stream!Piece) /\ Followed(kept) /\ (HeadLast(kept) => HeadLast(pieces))
         /\ Row(kept, 0, WholePieces, Nat, d, d)
<1> DEFINE n == Stream!Complete(pieces)  m == Len(pieces)
<1>1. m \in Nat /\ DOMAIN pieces = 1..m /\ (pieces # <<>> <=> m # 0)
  OBVIOUS
<1>2. n = IF m # 0 /\ pieces[m].part = "head" THEN m - 1 ELSE m
  BY <1>1 DEF Stream!Complete, Stream!Last
<1>3. kept = SubSeq(pieces, n + 1, m)
  BY DEF Stream!Carry
<1> HIDE DEF n, m
<1>4. n \in 0..m
  BY <1>1, <1>2
<1>5. /\ kept \in Seq(Stream!Piece) /\ Len(kept) = IF n + 1 <= m THEN m - (n + 1) + 1 ELSE 0
      /\ \A i \in 1..(m - (n + 1) + 1) : kept[i] = pieces[(n + 1) + i - 1]
  <2>1. n + 1 \in Nat \ {0} /\ \A i \in (n + 1)..m : pieces[i] \in Stream!Piece
    BY <1>1, <1>4
  <2> QED
    BY <1>1, <1>3, <2>1, SubSeqProperties
<1>6. CASE n = m
  <2>1. Len(kept) = 0
    BY <1>1, <1>5, <1>6
  <2>2. kept = <<>> /\ DOMAIN kept = {}
    BY <1>5, <2>1
  <2> QED
    BY <1>5, <2>2, RowOfNone DEF Followed, HeadLast
<1>7. CASE n # m
  <2>1. n = m - 1 /\ m # 0 /\ pieces[m].part = "head"
    BY <1>2, <1>7
  <2>2. Len(kept) = 1 /\ m - (n + 1) + 1 = 1 /\ (n + 1) + 1 - 1 = m
    BY <1>1, <1>5, <2>1
  <2>3. kept[1] = pieces[m] /\ DOMAIN kept = {1}
    BY <1>5, <2>2
  <2>4. \A i \in DOMAIN kept : kept[i].part = "head" /\ ~(i < Len(kept))
    <3> SUFFICES ASSUME NEW i \in DOMAIN kept PROVE kept[i].part = "head" /\ ~(i < Len(kept))
      OBVIOUS
    <3>1. i = 1
      BY <2>3
    <3>2. kept[i].part = "head"
      BY <2>1, <2>3, <3>1
    <3>3. ~(i < Len(kept))
      BY <2>2, <3>1
    <3> QED
      BY <3>2, <3>3
  <2>5. HeadLast(pieces)
    BY <1>1, <2>1 DEF HeadLast, m
  <2>6. Row(kept, 0, WholePieces, Nat, d, d)
    BY <2>4, RowOfNone DEF WholePieces
  <2> QED
    BY <1>5, <2>4, <2>5, <2>6 DEF Followed
<1> QED
  BY <1>6, <1>7

\* What a step has to show of what was given.
LEMMA GivenNext ==
  ASSUME NEW c \in 0..Whole', Row(out', 0, GivenWhole, Told(sent)', 0, c),
         phase' \in Open => /\ Row(held', emitted', WholePieces, Nat, c, Whole')
                            /\ \A n \in 1..c : sent'[n] # "error"
                            /\ up' = "open",
         up' = "eof" => noted'.error \/ (c = Whole' /\ \A n \in 1..c : sent'[n] # "error"),
         Untorn', Halves', phase' = "settled" /\ verdict'[attempt'] = "success" => ~noted'.error
  PROVE  Delivered'
<1>1. Row(out, 0, GivenWhole, Told(sent), 0, c)'
  BY DEF Row, GivenWhole, Stream!Frame
<1>2. phase' \in Open => Row(held, emitted, WholePieces, Nat, c, Whole)'
  BY DEF Row, WholePieces, Stream!Piece
<1>3. GivenUpTo(c)'
  BY <1>1, <1>2 DEF GivenUpTo
<1> QED
  BY <1>3 DEF Delivered

\* A switch to another target, or the end before anything was given.
LEMMA FailDelivers ==
  ASSUME StreamInv, Delivered, phase = "sniffing", NEW outcome \in {"fault", "neutral"}, NEW again \in BOOLEAN,
         Stream!FailAttempt(outcome, again)
  PROVE  Delivered'
<1>1. out' = <<>> /\ up = "open" /\ SentOk
  BY DEF StreamInv, StreamKept, Stream!FailAttempt, Delivered, Open
<1>2. DOMAIN out' = {} /\ Untorn'
  BY <1>1 DEF Untorn
<1>3. Row(out', 0, GivenWhole, Told(sent)', 0, 0)
  <2> DEFINE W == Told(sent)'  u == out'
  <2>1. \A i \in DOMAIN u : i > 0 => u[i] \notin GivenWhole
    BY <1>2
  <2> HIDE DEF W, u
  <2>2. Row(u, 0, GivenWhole, W, 0, 0)
    BY <2>1, RowOfNone
  <2> QED
    BY <2>2 DEF W, u
<1>4. \A n \in 1..0 : sent'[n] # "error"
  OBVIOUS
<1>5. CASE again /\ Stream!Left
  <2>1. /\ phase' = "sniffing" /\ up' = "open" /\ sent' = <<>> /\ cut' = FALSE /\ held' = <<>> /\ private' = None
    BY <1>5 DEF Stream!FailAttempt
  <2>2. Whole' = 0 /\ 0 \in 0..Whole'
    BY <2>1 DEF Whole
  <2>3. Row(held', emitted', WholePieces, Nat, 0, Whole')
    <3> DEFINE h == held'  k == emitted'
    <3>1. \A i \in DOMAIN h : i > k => h[i] \notin WholePieces
      BY <2>1
    <3> HIDE DEF h, k
    <3>2. Row(h, k, WholePieces, Nat, 0, 0)
      BY <3>1, RowOfNone
    <3> QED
      BY <2>2, <3>2 DEF h, k
  <2>4. Halves'
    BY <2>1 DEF Halves, Followed, HeadLast
  <2> QED
    BY <1>2, <1>3, <1>4, <2>1, <2>2, <2>3, <2>4, GivenNext
<1>6. CASE ~(again /\ Stream!Left)
  <2>1. phase' = "failed" /\ UNCHANGED <<up, sent, cut>>
    BY <1>6 DEF Stream!FailAttempt
  <2>2. 0 \in 0..Whole'
    <3>1. Whole \in Nat
      BY <1>1 DEF Whole, SentOk
    <3>2. Whole' = Whole
      BY <2>1 DEF Whole
    <3> QED
      BY <3>1, <3>2
  <2>3. Halves' /\ phase' \notin Open
    BY <2>1 DEF Halves, Open
  <2> QED
    BY <1>1, <1>2, <1>3, <2>1, <2>2, <2>3, GivenNext
<1> QED
  BY <1>5, <1>6

\* A step that gives nothing more and takes nothing in.
LEMMA RestDelivers ==
  ASSUME StreamInv, Delivered, phase' \in {phase, "settled"},
         phase' = "settled" /\ verdict'[attempt] = "success" => ~noted.error,
         UNCHANGED <<path, strip, attempt, up, sent, cut, held, emitted, private, out, noted>>
  PROVE  Delivered'
<1>1. PICK c \in 0..Whole : GivenUpTo(c)
  BY DEF Delivered
<1>2. Whole' = Whole
  BY DEF Whole
<1>3. Row(out', 0, GivenWhole, Told(sent)', 0, c)
  <2>1. Told(sent)' = Told(sent)
    BY DEF Told
  <2> QED
    BY <1>1, <2>1 DEF GivenUpTo
<1>4. phase' \in Open => phase \in Open
  BY DEF Open
<1>5. phase' \in Open => /\ Row(held', emitted', WholePieces, Nat, c, Whole')
                         /\ \A n \in 1..c : sent'[n] # "error"
                         /\ up' = "open"
  BY <1>1, <1>2, <1>4 DEF GivenUpTo, Delivered
<1>6. up' = "eof" => noted'.error \/ (c = Whole' /\ \A n \in 1..c : sent'[n] # "error")
  BY <1>1, <1>2 DEF GivenUpTo
<1>7. Untorn' /\ Halves'
  BY DEF Delivered, Untorn, Halves, Followed, HeadLast
<1> QED
  BY <1>1, <1>2, <1>3, <1>5, <1>6, <1>7, GivenNext

\* Noise before the commitment is held.
LEMMA HoldDelivers ==
  ASSUME StreamInv, Delivered, phase = "sniffing", NEW new \in Stream!Chunks, NEW half \in BOOLEAN,
         Stream!Comes(new, half), Stream!Receives(new, half), held' = held \o Stream!ChunkOf(new, half),
         UNCHANGED <<path, strip, attempt, phase, up, emitted, private, out, noted, timer, verdict>>
  PROVE  Delivered'
<1> DEFINE chunk == Stream!ChunkOf(new, half)  all == held \o chunk
<1>1. phase \in Open /\ phase # "settled" /\ up = "open" /\ phase # "relaying"
  BY DEF Open, Delivered
<1>2. PICK c \in 0..Whole : GivenUpTo(c)
  BY DEF Delivered
<1>3. /\ Row(held, emitted, WholePieces, Nat, c, Whole) /\ Row(out, 0, GivenWhole, Told(sent), 0, c)
      /\ \A n \in 1..c : sent[n] # "error"
  BY <1>1, <1>2 DEF GivenUpTo
<1>4. /\ c \in 0..Whole' /\ c \in Nat /\ Row(all, emitted, WholePieces, Nat, c, Whole')
      /\ \A n \in 1..c : sent'[n] = sent[n]
  BY <1>1, <1>3, ComesRow
<1>5. Followed(all) /\ (HeadLast(all) => half)
  <2>1. SentOk /\ held \in Seq(Stream!Piece) /\ Followed(held) /\ (HeadLast(held) => cut)
    BY DEF StreamInv, StreamKept, Stream!TypeOK, Delivered, Halves
  <2> QED
    BY <2>1, RestComes
<1> HIDE DEF all
<1>6. held' = all /\ cut' = half
  BY DEF all, Stream!Receives
<1>7. Row(out', 0, GivenWhole, Told(sent)', 0, c)
  <2> DEFINE W == Told(sent)'
  <2>1. \A n \in (0 + 1)..c : n \in W <=> n \in Told(sent)
    BY <1>4 DEF Told
  <2> HIDE DEF W
  <2>2. Row(out, 0, GivenWhole, W, 0, c)
    BY <1>3, <1>4, <2>1, RowOfWanted
  <2> QED
    BY <2>2 DEF W
<1>8. Halves'
  <2>1. private = None
    BY DEF Delivered, Halves
  <2> QED
    BY <1>1, <1>5, <1>6, <2>1 DEF Halves, Followed, HeadLast
<1>9. Untorn'
  BY DEF Delivered, Untorn
<1> QED
  BY <1>1, <1>3, <1>4, <1>6, <1>7, <1>8, <1>9, GivenNext

\* Content flows: all that was held and has come goes on, but for the last half.
LEMMA FlowDelivers ==
  ASSUME StreamInv, Delivered, phase \in {"sniffing", "relaying"}, NEW new \in Stream!Chunks, NEW half \in BOOLEAN,
         Stream!Comes(new, half), Stream!Receives(new, half),
         NEW all, all = held \o Stream!ChunkOf(new, half),
         held' = IF path = "same" THEN <<>> ELSE Stream!Waiting(all),
         Stream!Relay(IF path = "same" THEN all ELSE Stream!Rejoined(all), sent \o new, "none", "relaying"),
         UNCHANGED <<path, strip, attempt, up, emitted, verdict>>
  PROVE  Delivered'
<1> DEFINE kinds == sent \o new  pieces == IF path = "same" THEN all ELSE Stream!Rejoined(all)
<1>1. phase \in Open /\ up = "open" /\ emitted = 0 /\ Untorn
  BY DEF Open, Delivered, StreamInv, StreamKept
<1>2. PICK c \in 0..Whole : GivenUpTo(c)
  BY DEF Delivered
<1>3. /\ Row(held, emitted, WholePieces, Nat, c, Whole) /\ Row(out, 0, GivenWhole, Told(sent), 0, c)
      /\ \A n \in 1..c : sent[n] # "error"
  BY <1>1, <1>2 DEF GivenUpTo
<1>4. /\ c \in 0..Whole' /\ c \in Nat /\ Whole' \in Nat /\ Row(all, 0, WholePieces, Nat, c, Whole')
      /\ \A n \in 1..c : sent'[n] = sent[n]
  BY <1>1, <1>3, ComesRow
<1>5. /\ kinds \in Seq(Stream!Kinds) /\ Len(kinds) \in 0..MaxFrames
      /\ OfFrames(all, kinds) /\ ErrorLast(all, kinds)
  BY <1>1, AllPieces
<1>6. sent' = kinds
  BY DEF Stream!Receives
<1> HIDE DEF kinds
<1>7. OfFrames(pieces, kinds) /\ Row(pieces, 0, WholePieces, Nat, c, Whole')
  <2>1. OfFrames(Stream!Rejoined(all), kinds)
    BY <1>5, HalvesWait
  <2>2. Row(Stream!Rejoined(all), 0, WholePieces, Nat, c, Whole')
    BY <1>4, <1>5, WholeRow
  <2> QED
    BY <1>4, <1>5, <2>1, <2>2
<1>8. \A i \in DOMAIN held' : held'[i].part = "head"
  <2>1. DOMAIN <<>> = {}
    OBVIOUS
  <2>2. \A i \in DOMAIN Stream!Waiting(all) : Stream!Waiting(all)[i].part = "head"
    BY DEF Stream!Waiting, Stream!Last
  <2> QED
    BY <2>1, <2>2
<1>9. Row(held', emitted', WholePieces, Nat, Whole', Whole')
  <2> DEFINE h == held'  k == emitted'  d == Whole'
  <2>1. \A i \in DOMAIN h : i > k => h[i] \notin WholePieces
    BY <1>8 DEF WholePieces
  <2>2. d \in Nat
    BY <1>4
  <2> HIDE DEF h, k, d
  <2>3. Row(h, k, WholePieces, Nat, d, d)
    BY <2>1, <2>2, RowOfNone
  <2> QED
    BY <2>3 DEF h, k, d
<1> DEFINE d == Whole'
<1>10. /\ d \in 0..Whole' /\ c <= d /\ Row(pieces, 0, WholePieces, Nat, c, d)
       /\ Row(held', emitted', WholePieces, Nat, d, Whole')
  BY <1>4, <1>7, <1>9
<1>11. (\A n \in 1..c : kinds[n] = sent[n]) /\ (\A n \in 1..d : kinds[n] = sent'[n])
  BY <1>4, <1>6
<1>12. Stream!Relay(pieces, kinds, "none", "relaying") /\ up' = "open" /\ strip' = strip
  BY <1>1 DEF kinds
<1> HIDE DEF d, pieces
<1> QED
  BY <1>1, <1>3, <1>4, <1>5, <1>7, <1>8, <1>10, <1>11, <1>12, RelayDelivers

\* Noise after the commitment: what is whole goes on, the rest is held.
LEMMA NoiseDelivers ==
  ASSUME StreamInv, Delivered, phase = "alive", NEW new \in Stream!Chunks, NEW half \in BOOLEAN,
         Stream!Comes(new, half), Stream!Receives(new, half),
         NEW all, all = held \o Stream!ChunkOf(new, half),
         held' = all, emitted' = Stream!Complete(all),
         Stream!Relay(Stream!Ready(all, emitted), sent \o new, "none", "alive"),
         UNCHANGED <<path, strip, attempt, up, verdict>>
  PROVE  Delivered'
<1> DEFINE kinds == sent \o new  n == Stream!Complete(all)  pieces == Stream!Ready(all, emitted)  d == Whole'
<1>1. /\ phase \in Open /\ up = "open" /\ private = None /\ Untorn /\ SentOk
      /\ held \in Seq(Stream!Piece) /\ Followed(held) /\ (HeadLast(held) => cut) /\ emitted \in Nat
  <2>1. emitted \in 0..Len(held) /\ held \in Seq(Stream!Piece)
    BY DEF StreamInv, Stream!TypeOK
  <2> QED
    BY <2>1 DEF Open, Delivered, Halves, StreamInv, StreamKept
<1>2. PICK c \in 0..Whole : GivenUpTo(c)
  BY DEF Delivered
<1>3. /\ Row(held, emitted, WholePieces, Nat, c, Whole) /\ Row(out, 0, GivenWhole, Told(sent), 0, c)
      /\ \A i \in 1..c : sent[i] # "error"
  BY <1>1, <1>2 DEF GivenUpTo
<1>4. /\ c \in 0..d /\ c \in Nat /\ d \in Nat /\ Row(all, emitted, WholePieces, Nat, c, d)
      /\ \A i \in 1..c : sent'[i] = sent[i]
  BY <1>1, <1>3, ComesRow
<1>5. kinds \in Seq(Stream!Kinds) /\ Len(kinds) \in 0..MaxFrames /\ OfFrames(all, kinds)
  BY <1>1, AllPieces
<1>6. sent' = kinds /\ cut' = half
  BY DEF Stream!Receives
<1>7. all \in Seq(Stream!Piece) /\ Followed(all) /\ (HeadLast(all) => half)
  BY <1>1, RestComes
<1>8. /\ n \in 0..Len(all) /\ Stream!HalfAfter(pieces) = None
      /\ \A i \in DOMAIN all : i > n => all[i] \notin WholePieces
  BY <1>1, <1>7, WholeFirst
<1>9. pieces = SubSeq(all, emitted + 1, n)
  BY DEF Stream!Ready
<1> HIDE DEF kinds, n, pieces, d
<1>10. Row(pieces, 0, WholePieces, Nat, c, d)
  BY <1>1, <1>4, <1>7, <1>8, <1>9, RowOfFirst
<1>11. OfFrames(pieces, kinds)
  <2>1. emitted + 1 \in Nat \ {0}
    BY <1>1
  <2> QED
    BY <1>5, <1>8, <1>9, <2>1, SomePieces
<1>12. Row(all, n, WholePieces, Nat, d, d)
  BY <1>4, <1>8, RowOfNone
<1>13. held' = all /\ emitted' = n /\ d = Whole' /\ d \in 0..Whole' /\ c <= d
  BY <1>4 DEF n, d
<1>14. Row(held', emitted', WholePieces, Nat, d, Whole')
  BY <1>12, <1>13
<1>15. (\A i \in 1..c : kinds[i] = sent[i]) /\ (\A i \in 1..d : kinds[i] = sent'[i])
  BY <1>4, <1>6
<1>16. Stream!Relay(pieces, kinds, "none", "alive") /\ up' = "open" /\ strip' = strip
  BY <1>1 DEF kinds, pieces
<1>17. Followed(held') /\ (HeadLast(held') => cut')
  BY <1>6, <1>7
<1>18. Whole' \in Nat
  BY <1>4 DEF d
<1> QED
  BY <1>1, <1>3, <1>4, <1>5, <1>8, <1>10, <1>11, <1>13, <1>14, <1>15, <1>16, <1>17, <1>18, RelayDelivers

\* Content after the commitment: what was not given goes first.
LEMMA ContentDelivers ==
  ASSUME StreamInv, Delivered, phase = "alive", NEW new \in Stream!Chunks, NEW half \in BOOLEAN,
         Stream!Comes(new, half), Stream!Receives(new, half),
         NEW all, all = held \o Stream!ChunkOf(new, half),
         held' = <<>>, emitted' = 0,
         Stream!Relay(Stream!Carry(all, emitted), sent \o new, "none", "relaying"),
         UNCHANGED <<path, strip, attempt, up, verdict>>
  PROVE  Delivered'
<1> DEFINE kinds == sent \o new  n == Len(all)  pieces == Stream!Carry(all, emitted)  d == Whole'
<1>1. phase \in Open /\ up = "open" /\ Untorn /\ SentOk /\ held \in Seq(Stream!Piece) /\ emitted \in Nat
  <2>1. emitted \in 0..Len(held) /\ held \in Seq(Stream!Piece)
    BY DEF StreamInv, Stream!TypeOK
  <2> QED
    BY <2>1 DEF Open, Delivered, StreamInv, StreamKept
<1>2. PICK c \in 0..Whole : GivenUpTo(c)
  BY DEF Delivered
<1>3. /\ Row(held, emitted, WholePieces, Nat, c, Whole) /\ Row(out, 0, GivenWhole, Told(sent), 0, c)
      /\ \A i \in 1..c : sent[i] # "error"
  BY <1>1, <1>2 DEF GivenUpTo
<1>4. /\ c \in 0..d /\ c \in Nat /\ d \in Nat /\ Row(all, emitted, WholePieces, Nat, c, d)
      /\ \A i \in 1..c : sent'[i] = sent[i]
  BY <1>1, <1>3, ComesRow
<1>5. kinds \in Seq(Stream!Kinds) /\ Len(kinds) \in 0..MaxFrames /\ OfFrames(all, kinds)
  BY <1>1, AllPieces
<1>6. sent' = kinds
  BY DEF Stream!Receives
<1>7. all \in Seq(Stream!Piece)
  BY <1>5 DEF OfFrames
<1>8. n \in 0..Len(all) /\ \A i \in DOMAIN all : i > n => all[i] \notin WholePieces
  BY <1>7
<1>9. pieces = SubSeq(all, emitted + 1, n)
  BY DEF Stream!Carry
<1> HIDE DEF kinds, n, pieces, d
<1>10. Row(pieces, 0, WholePieces, Nat, c, d)
  BY <1>1, <1>4, <1>7, <1>8, <1>9, RowOfFirst
<1>11. OfFrames(pieces, kinds)
  <2>1. emitted + 1 \in Nat \ {0}
    BY <1>1
  <2> QED
    BY <1>5, <1>8, <1>9, <2>1, SomePieces
<1>12. d = Whole' /\ d \in 0..Whole' /\ c <= d
  BY <1>4 DEF d
<1>13. DOMAIN held' = {}
  OBVIOUS
<1>14. Row(held', emitted', WholePieces, Nat, d, Whole')
  <2> DEFINE h == held'  k == emitted'
  <2>1. \A i \in DOMAIN h : i > k => h[i] \notin WholePieces
    BY <1>13
  <2> HIDE DEF h, k
  <2>2. Row(h, k, WholePieces, Nat, d, d)
    BY <1>4, <2>1, RowOfNone
  <2> QED
    BY <1>12, <2>2 DEF h, k
<1>15. (\A i \in 1..c : kinds[i] = sent[i]) /\ (\A i \in 1..d : kinds[i] = sent'[i])
  BY <1>4, <1>6
<1>16. Stream!Relay(pieces, kinds, "none", "relaying") /\ up' = "open" /\ strip' = strip
  BY <1>1 DEF kinds, pieces
<1>17. \A i \in DOMAIN held' : held'[i].part = "head"
  BY <1>13
<1>18. Whole' \in Nat
  BY <1>4 DEF d
<1> QED
  BY <1>1, <1>3, <1>4, <1>5, <1>10, <1>11, <1>12, <1>14, <1>15, <1>16, <1>17, <1>18, RelayDelivers

\* The stream ends: what has come is all that is to be given, or an error is told.
LEMMA EndDelivers ==
  ASSUME StreamInv, Delivered, phase \in Open, NEW c \in 0..Whole, GivenUpTo(c),
         Whole' \in Nat, Whole <= Whole', \A n \in 1..c : sent'[n] = sent[n], strip' = strip,
         NEW pieces, OfFrames(pieces, sent), \A i \in DOMAIN pieces : pieces[i].part = "head",
         NEW own \in {"none", "error"},
         up' = "eof" => \/ own = "error" /\ Stream!HalfAfter(pieces) = None
                        \/ c = Whole',
         Stream!Relay(pieces, sent, own, "over")
  PROVE  Delivered'
<1>1. SentOk /\ Untorn
  BY DEF StreamInv, StreamKept, Delivered
<1>2. sent \in Seq(Stream!Kinds) /\ Len(sent) \in 0..MaxFrames
  <2>1. sent \in Seq(Stream!Kinds) /\ Len(sent) <= MaxFrames
    BY <1>1 DEF SentOk
  <2>2. Len(sent) \in Nat /\ MaxFrames \in Nat
    BY <2>1, Limited DEF StreamLimits
  <2> QED
    BY <2>1, <2>2
<1>3. c \in Nat /\ c \in 0..Whole' /\ c <= c
  <2>1. Whole \in Nat
    BY <1>1 DEF Whole, SentOk
  <2> DEFINE x == Whole  y == Whole'
  <2>2. x \in Nat /\ y \in Nat /\ x <= y /\ c \in 0..x
    BY <2>1
  <2> HIDE DEF x, y
  <2>3. c \in Nat /\ c \in 0..y /\ c <= c
    BY <2>2
  <2> QED
    BY <2>3 DEF y
<1>4. Row(out, 0, GivenWhole, Told(sent), 0, c) /\ \A n \in 1..c : sent[n] # "error"
  BY DEF GivenUpTo
<1>5. Row(pieces, 0, WholePieces, Nat, c, c)
  <2>1. \A i \in DOMAIN pieces : i > 0 => pieces[i] \notin WholePieces
    BY DEF WholePieces
  <2> QED
    BY <1>3, <2>1, RowOfNone
<1> QED
  BY <1>1, <1>2, <1>3, <1>4, <1>5, RelayDelivers

\* The time for a switch is over.
LEMMA GraceDelivers == ASSUME StreamInv, Delivered, Stream!GraceOver PROVE Delivered'
<1> DEFINE n == Stream!Complete(held)  pieces == Stream!Ready(held, 0)  kept == Stream!Carry(held, n)  d == Whole'
<1>1. /\ phase = "sniffing" /\ Stream!Relay(pieces, sent, "none", "alive") /\ held' = kept
      /\ UNCHANGED <<path, strip, attempt, up, sent, cut, emitted, verdict>>
  BY DEF Stream!GraceOver
<1>2. /\ phase \in Open /\ up = "open" /\ private = None /\ Untorn /\ SentOk /\ emitted = 0
      /\ held \in Seq(Stream!Piece) /\ Followed(held) /\ (HeadLast(held) => cut) /\ OfFrames(held, sent)
  BY <1>1 DEF Open, Delivered, Halves, StreamInv, StreamKept, Stream!TypeOK
<1>3. PICK c \in 0..Whole : GivenUpTo(c)
  BY DEF Delivered
<1>4. /\ Row(held, 0, WholePieces, Nat, c, Whole) /\ Row(out, 0, GivenWhole, Told(sent), 0, c)
      /\ \A i \in 1..c : sent[i] # "error"
  BY <1>2, <1>3 DEF GivenUpTo
<1>5. Whole' = Whole /\ Whole \in Nat
  BY <1>1, <1>2 DEF Whole, SentOk
<1>6. sent \in Seq(Stream!Kinds) /\ Len(sent) \in 0..MaxFrames
  <2>1. sent \in Seq(Stream!Kinds) /\ Len(sent) <= MaxFrames
    BY <1>2 DEF SentOk
  <2>2. Len(sent) \in Nat /\ MaxFrames \in Nat
    BY <2>1, Limited DEF StreamLimits
  <2> QED
    BY <2>1, <2>2
<1>7. /\ n \in 0..Len(held) /\ Stream!HalfAfter(pieces) = None
      /\ \A i \in DOMAIN held : i > n => held[i] \notin WholePieces
  BY <1>2, WholeFirst
<1>8. pieces = SubSeq(held, 0 + 1, n)
  BY DEF Stream!Ready
<1>9. c \in Nat /\ d \in Nat /\ c <= d /\ d \in 0..Whole' /\ d = Whole' /\ Row(held, 0, WholePieces, Nat, c, d)
  <2> DEFINE x == Whole
  <2>1. x \in Nat /\ c \in 0..x
    BY <1>5
  <2>2. d = x /\ d = Whole' /\ Row(held, 0, WholePieces, Nat, c, x)
    BY <1>4, <1>5
  <2> HIDE DEF x, d
  <2> QED
    BY <2>1, <2>2
<1>10. /\ Followed(kept) /\ (HeadLast(kept) => HeadLast(held))
       /\ Row(kept, 0, WholePieces, Nat, d, d)
  BY <1>2, <1>9, CarriedHead
<1>11. Row(held', emitted', WholePieces, Nat, d, Whole') /\ Followed(held') /\ (HeadLast(held') => cut')
  BY <1>1, <1>2, <1>9, <1>10
<1> HIDE DEF n, pieces, kept, d
<1>12. Row(pieces, 0, WholePieces, Nat, c, d)
  BY <1>2, <1>7, <1>8, <1>9, RowOfFirst
<1>13. OfFrames(pieces, sent)
  <2>1. 0 + 1 \in Nat \ {0}
    OBVIOUS
  <2> QED
    BY <1>2, <1>7, <1>8, <2>1, SomePieces
<1>14. (\A i \in 1..c : sent[i] = sent[i]) /\ (\A i \in 1..d : sent[i] = sent'[i])
  BY <1>1
<1>15. up' = "open" /\ strip' = strip
  BY <1>1, <1>2
<1> QED
  BY <1>1, <1>2, <1>4, <1>6, <1>7, <1>9, <1>11, <1>12, <1>13, <1>14, <1>15, RelayDelivers

\* A beat stands between whole frames.
LEMMA BeatDelivers == ASSUME StreamInv, Delivered, Stream!Beat PROVE Delivered'
<1> DEFINE n == Stream!Complete(held)  pieces == Stream!Ready(held, emitted)  d == Whole'
<1>1. /\ phase = "alive" /\ Stream!Relay(pieces, sent, "alive", "alive") /\ emitted' = n
      /\ UNCHANGED <<path, strip, attempt, up, sent, cut, held, verdict>>
  BY DEF Stream!Beat
<1>2. /\ phase \in Open /\ up = "open" /\ private = None /\ Untorn /\ SentOk /\ emitted \in Nat
      /\ held \in Seq(Stream!Piece) /\ Followed(held) /\ (HeadLast(held) => cut) /\ OfFrames(held, sent)
  <2>1. emitted \in 0..Len(held) /\ held \in Seq(Stream!Piece)
    BY DEF StreamInv, Stream!TypeOK
  <2> QED
    BY <1>1, <2>1 DEF Open, Delivered, Halves, StreamInv, StreamKept
<1>3. PICK c \in 0..Whole : GivenUpTo(c)
  BY DEF Delivered
<1>4. /\ Row(held, emitted, WholePieces, Nat, c, Whole) /\ Row(out, 0, GivenWhole, Told(sent), 0, c)
      /\ \A i \in 1..c : sent[i] # "error"
  BY <1>2, <1>3 DEF GivenUpTo
<1>5. Whole' = Whole /\ Whole \in Nat
  BY <1>1, <1>2 DEF Whole, SentOk
<1>6. sent \in Seq(Stream!Kinds) /\ Len(sent) \in 0..MaxFrames
  <2>1. sent \in Seq(Stream!Kinds) /\ Len(sent) <= MaxFrames
    BY <1>2 DEF SentOk
  <2>2. Len(sent) \in Nat /\ MaxFrames \in Nat
    BY <2>1, Limited DEF StreamLimits
  <2> QED
    BY <2>1, <2>2
<1>7. /\ n \in 0..Len(held) /\ Stream!HalfAfter(pieces) = None
      /\ \A i \in DOMAIN held : i > n => held[i] \notin WholePieces
  BY <1>2, WholeFirst
<1>8. pieces = SubSeq(held, emitted + 1, n)
  BY DEF Stream!Ready
<1>9. c \in Nat /\ d \in Nat /\ c <= d /\ d \in 0..Whole' /\ d = Whole'
      /\ Row(held, emitted, WholePieces, Nat, c, d)
  <2> DEFINE x == Whole
  <2>1. x \in Nat /\ c \in 0..x
    BY <1>5
  <2>2. d = x /\ d = Whole' /\ Row(held, emitted, WholePieces, Nat, c, x)
    BY <1>4, <1>5
  <2> HIDE DEF x, d
  <2> QED
    BY <2>1, <2>2
<1>10. Followed(held') /\ (HeadLast(held') => cut')
  BY <1>1, <1>2
<1> HIDE DEF n, pieces, d
<1>11. Row(held', emitted', WholePieces, Nat, d, Whole')
  <2>1. Row(held, n, WholePieces, Nat, d, d)
    BY <1>7, <1>9, RowOfNone
  <2> QED
    BY <1>1, <1>9, <2>1
<1>12. Row(pieces, 0, WholePieces, Nat, c, d)
  BY <1>2, <1>7, <1>8, <1>9, RowOfFirst
<1>13. OfFrames(pieces, sent)
  <2>1. emitted + 1 \in Nat \ {0}
    BY <1>2
  <2> QED
    BY <1>2, <1>7, <1>8, <2>1, SomePieces
<1>14. (\A i \in 1..c : sent[i] = sent[i]) /\ (\A i \in 1..d : sent[i] = sent'[i])
  BY <1>1
<1>15. up' = "open" /\ strip' = strip
  BY <1>1, <1>2
<1> QED
  BY <1>1, <1>2, <1>4, <1>6, <1>7, <1>9, <1>10, <1>11, <1>12, <1>13, <1>14, <1>15, RelayDelivers

\* The upstream ends its stream, or the connection breaks.
LEMMA UpstreamEndDelivers ==
  ASSUME StreamInv, Delivered, NEW how \in {"eof", "broken"}, Stream!UpstreamEnds(how) PROVE Delivered'
<1>1. PICK c \in 0..Whole : GivenUpTo(c)
  BY DEF Delivered
<1>2. SentOk /\ Whole \in Nat /\ OfFrames(held, sent) /\ held \in Seq(Stream!Piece)
  BY DEF StreamInv, StreamKept, Stream!TypeOK, SentOk, Whole
<1>3. OfFrames(<<>>, sent) /\ \A i \in DOMAIN <<>> : <<>>[i].part = "head"
  BY DEF OfFrames
<1>4. CASE phase = "sniffing" /\ Stream!FailAttempt("fault", TRUE)
  BY <1>4, FailDelivers
<1>5. CASE /\ phase = "alive" /\ up' = how
           /\ Stream!Relay(<<>>, sent, "error", "over")
           /\ UNCHANGED <<path, strip, attempt, sent, cut, held, emitted, verdict>>
  <2>1. phase \in Open /\ private = None
    BY <1>5 DEF Open, Delivered, Halves
  <2>2. Stream!HalfAfter(<<>>) = None
    BY <2>1 DEF Stream!HalfAfter
  <2>3. Whole' = Whole /\ Whole' \in Nat /\ Whole <= Whole'
    BY <1>2, <1>5 DEF Whole, SentOk
  <2> QED
    BY <1>1, <1>3, <1>5, <2>1, <2>2, <2>3, EndDelivers
<1>6. CASE /\ phase = "relaying" /\ up' = how
           /\ Stream!Relay(IF how = "eof" /\ path = "responses" THEN held ELSE <<>>,
                           sent, IF how = "broken" THEN "error" ELSE "none", "over")
           /\ held' = <<>>
           /\ UNCHANGED <<path, strip, attempt, sent, cut, emitted, verdict>>
  <2> DEFINE pieces == IF how = "eof" /\ path = "responses" THEN held ELSE <<>>
             own == IF how = "broken" THEN "error" ELSE "none"
  <2>1. phase \in Open /\ \A i \in DOMAIN held : held[i].part = "head"
    BY <1>6 DEF Open, Delivered, Halves
  <2>2. c = Whole
    <3> DEFINE x == Whole
    <3>1. Row(held, emitted, WholePieces, Nat, c, x) /\ x \in Nat /\ c \in 0..x
      BY <1>1, <1>2, <2>1 DEF GivenUpTo
    <3>2. \A i \in DOMAIN held : i > emitted => held[i] \notin WholePieces
      BY <2>1 DEF WholePieces
    <3> HIDE DEF x
    <3>3. c \in Nat /\ c <= x
      BY <3>1
    <3>4. c = x
      BY <3>1, <3>2, <3>3, NoneOfRow
    <3> QED
      BY <3>4 DEF x
  <2>3. Whole' = Whole /\ Whole' \in Nat /\ Whole <= Whole'
    BY <1>2, <1>6 DEF Whole, SentOk
  <2>4. OfFrames(pieces, sent) /\ (\A i \in DOMAIN pieces : pieces[i].part = "head") /\ own \in {"none", "error"}
    BY <1>2, <1>3, <2>1
  <2> HIDE DEF pieces, own
  <2>5. Stream!Relay(pieces, sent, own, "over")
    BY <1>6 DEF pieces, own
  <2> QED
    BY <1>1, <1>6, <2>1, <2>2, <2>3, <2>4, <2>5, EndDelivers
<1> QED
  BY <1>4, <1>5, <1>6 DEF Stream!UpstreamEnds

\* Nothing came for too long: an error of the gateway's own ends the answer.
LEMMA IdleDelivers == ASSUME StreamInv, Delivered, Stream!IdleOver PROVE Delivered'
<1> DEFINE f == [n |-> 0, as |-> "error", by |-> attempt]  r == <<f>>  o == out \o r
<1>1. /\ phase \in Open /\ phase' = "settled" /\ verdict' = [verdict EXCEPT ![attempt] = "neutral"]
      /\ out' = Append(out, f)
      /\ UNCHANGED <<path, strip, attempt, up, sent, cut, held, emitted, private, noted>>
  BY DEF Stream!IdleOver, Stream!IdleDue, Stream!Settle, Stream!AsFrame, Open
<1>2. /\ up = "open" /\ Untorn /\ out \in Seq(Stream!Frame) /\ attempt \in Attempts /\ SentOk
      /\ verdict \in [Attempts -> {"success", "fault", "neutral", None}]
  BY <1>1 DEF Delivered, StreamInv, StreamKept, Stream!TypeOK
<1>3. f \in Stream!Frame /\ f.as = "error"
  BY <1>2, Limited DEF Stream!Frame, StreamLimits
<1>4. PICK c \in 0..Whole : GivenUpTo(c)
  BY DEF Delivered
<1>5. Row(out, 0, GivenWhole, Told(sent), 0, c)
  BY <1>4 DEF GivenUpTo
<1>6. Whole' = Whole /\ Whole \in Nat
  BY <1>1, <1>2 DEF Whole, SentOk
<1>7. c \in Nat /\ 0 <= c /\ 0 \in Nat
  <2> DEFINE x == Whole
  <2>1. x \in Nat /\ c \in 0..x
    BY <1>6
  <2> HIDE DEF x
  <2> QED
    BY <2>1
<1> HIDE DEF f
<1>8. r \in Seq(Stream!Frame) /\ DOMAIN r = {1} /\ r[1] = f
  BY <1>3
<1>9. out' = o
  BY <1>1, <1>2, <1>3
<1> HIDE DEF r
<1>10. \A i \in DOMAIN o : o[i].as # "torn"
  <2>1. /\ DOMAIN out = 1..Len(out) /\ DOMAIN r = 1..Len(r) /\ DOMAIN o = 1..(Len(out) + Len(r))
        /\ \A i \in 1..Len(out) : o[i] = out[i]
        /\ \A i \in 1..(Len(out) + Len(r)) : i > Len(out) => i - Len(out) \in 1..Len(r) /\ o[i] = r[i - Len(out)]
        /\ Len(out) \in Nat /\ Len(r) \in Nat
    <3>1. \A x, y \in Seq(Stream!Frame) :
            /\ DOMAIN x = 1..Len(x) /\ DOMAIN y = 1..Len(y) /\ DOMAIN (x \o y) = 1..(Len(x) + Len(y))
            /\ \A i \in 1..Len(x) : (x \o y)[i] = x[i]
            /\ \A i \in 1..(Len(x) + Len(y)) : i > Len(x) => i - Len(x) \in 1..Len(y) /\ (x \o y)[i] = y[i - Len(x)]
            /\ Len(x) \in Nat /\ Len(y) \in Nat
      BY Joined
    <3> QED
      BY <1>2, <1>8, <3>1, Zenon
  <2> HIDE DEF o
  <2> SUFFICES ASSUME NEW i \in DOMAIN o PROVE o[i].as # "torn"
    OBVIOUS
  <2>2. CASE i \in DOMAIN out
    <3>1. o[i] = out[i]
      BY <2>1, <2>2
    <3> QED
      BY <1>2, <2>2, <3>1 DEF Untorn
  <2>3. CASE i \notin DOMAIN out
    <3>1. i - Len(out) \in DOMAIN r /\ o[i] = r[i - Len(out)]
      BY <2>1, <2>3
    <3>2. o[i] = f
      BY <1>8, <3>1
    <3> QED
      BY <1>3, <3>2
  <2> QED
    BY <2>2, <2>3
<1>11. Row(o, 0, GivenWhole, Told(sent), 0, c)
  <2>1. \A i \in DOMAIN r : r[i] \notin GivenWhole
    BY <1>3, <1>8 DEF GivenWhole
  <2> QED
    BY <1>2, <1>5, <1>7, <1>8, <2>1, RowOfRest
<1> HIDE DEF o
<1>12. Row(out', 0, GivenWhole, Told(sent)', 0, c)
  <2>1. Told(sent)' = Told(sent)
    BY <1>1 DEF Told
  <2> QED
    BY <1>9, <1>11, <2>1
<1>13. Untorn'
  BY <1>9, <1>10 DEF Untorn
<1>14. Halves' /\ phase' \notin Open
  BY <1>1 DEF Halves, Open
<1>15. verdict'[attempt'] # "success" /\ up' = "open" /\ c \in 0..Whole'
  BY <1>1, <1>2, <1>4, <1>6
<1> QED
  BY <1>12, <1>13, <1>14, <1>15, GivenNext

\* Every step of the delivery keeps what was delivered.
LEMMA DeliveredSteps == StreamInv /\ Delivered /\ Stream!Next => Delivered'
<1> SUFFICES ASSUME StreamInv, Delivered, Stream!Next PROVE Delivered'
  OBVIOUS
<1>1. ASSUME NEW new \in Stream!Chunks, NEW half \in BOOLEAN, Stream!Sniff(new, half) PROVE Delivered'
  <2> DEFINE chunk == Stream!ChunkOf(new, half)  all == held \o chunk  kinds == sent \o new
  <2>1. phase = "sniffing" /\ Stream!Comes(new, half)
    BY <1>1 DEF Stream!Sniff
  <2>2. CASE Stream!FailAttempt("fault", TRUE)
    BY <2>1, <2>2, FailDelivers
  <2>3. CASE /\ Stream!Receives(new, half) /\ held' = all
             /\ UNCHANGED <<path, strip, attempt, phase, up, emitted, private, out, noted, timer, verdict>>
    BY <2>1, <2>3, HoldDelivers
  <2>4. CASE /\ Stream!Receives(new, half)
             /\ held' = IF path = "same" THEN <<>> ELSE Stream!Waiting(all)
             /\ Stream!Relay(IF path = "same" THEN all ELSE Stream!Rejoined(all), kinds, "none", "relaying")
             /\ UNCHANGED <<path, strip, attempt, up, emitted, verdict>>
    BY <2>1, <2>4, FlowDelivers
  <2> QED
    BY <1>1, <2>2, <2>3, <2>4 DEF Stream!Sniff
<1>2. ASSUME NEW new \in Stream!Chunks, NEW half \in BOOLEAN, Stream!Listen(new, half) PROVE Delivered'
  <2> DEFINE all == held \o Stream!ChunkOf(new, half)  kinds == sent \o new
  <2>1. /\ phase = "alive" /\ Stream!Comes(new, half) /\ Stream!Receives(new, half)
        /\ UNCHANGED <<path, strip, attempt, up, verdict>>
    BY <1>2 DEF Stream!Listen
  <2>2. CASE /\ held' = all /\ emitted' = Stream!Complete(all)
             /\ Stream!Relay(Stream!Ready(all, emitted), kinds, "none", "alive")
    BY <2>1, <2>2, NoiseDelivers
  <2>3. CASE /\ held' = <<>> /\ emitted' = 0
             /\ Stream!Relay(Stream!Carry(all, emitted), kinds, "none", "relaying")
    BY <2>1, <2>3, ContentDelivers
  <2>4. CASE Stream!Relay(<<>>, sent, "error", "over")
    <3>1. phase \in Open /\ up' = "open"
      BY <2>1 DEF Open, Delivered
    <3>2. PICK c \in 0..Whole : GivenUpTo(c)
      BY DEF Delivered
    <3>3. Row(held, emitted, WholePieces, Nat, c, Whole)
      BY <3>1, <3>2 DEF GivenUpTo
    <3>4. Whole' \in Nat /\ Whole <= Whole' /\ \A n \in 1..c : sent'[n] = sent[n]
      BY <2>1, <3>1, <3>3, ComesRow
    <3>5. OfFrames(<<>>, sent) /\ \A i \in DOMAIN <<>> : <<>>[i].part = "head"
      BY DEF OfFrames
    <3> QED
      BY <2>1, <2>4, <3>1, <3>2, <3>4, <3>5, EndDelivers
  <2> QED
    BY <1>2, <2>2, <2>3, <2>4 DEF Stream!Listen
<1>3. ASSUME NEW new \in Stream!Chunks, NEW half \in BOOLEAN, Stream!Forward(new, half) PROVE Delivered'
  BY <1>3, FlowDelivers DEF Stream!Forward
<1>4. ASSUME Stream!TimeOver PROVE Delivered'
  BY <1>4, FailDelivers DEF Stream!TimeOver
<1>5. ASSUME Stream!Close PROVE Delivered'
  <2>1. /\ phase' = "settled" /\ verdict' = [verdict EXCEPT ![attempt] = IF noted.error THEN "fault" ELSE "success"]
        /\ UNCHANGED <<path, strip, attempt, up, sent, cut, held, emitted, private, out, noted>>
    BY <1>5 DEF Stream!Close, Stream!Settle
  <2>2. verdict' [attempt] = "success" => ~noted.error
    BY <2>1 DEF StreamInv, Stream!TypeOK
  <2> QED
    BY <2>1, <2>2, RestDelivers
<1>6. ASSUME Stream!Leave PROVE Delivered'
  <2>1. /\ phase' = "settled" /\ verdict' = [verdict EXCEPT ![attempt] = "neutral"]
        /\ UNCHANGED <<path, strip, attempt, up, sent, cut, held, emitted, private, out, noted>>
    BY <1>6 DEF Stream!Leave, Stream!Settle
  <2>2. verdict' [attempt] # "success"
    BY <2>1 DEF StreamInv, Stream!TypeOK
  <2> QED
    BY <2>1, <2>2, RestDelivers
<1>7. ASSUME Stream!Tick PROVE Delivered'
  <2>1. UNCHANGED <<path, strip, attempt, phase, up, sent, cut, held, emitted, private, out, noted, verdict>>
    BY <1>7 DEF Stream!Tick
  <2>2. phase # "settled"
    BY <1>7 DEF Stream!Tick
  <2> QED
    BY <2>1, <2>2, RestDelivers
<1> QED
  BY <1>1, <1>2, <1>3, <1>4, <1>5, <1>6, <1>7, GraceDelivers, BeatDelivers, UpstreamEndDelivers, IdleDelivers
     DEF Stream!Next

\* A step of something else changes nothing of it, and it holds at the start.
LEMMA DeliveredStutters == StreamInv /\ Delivered /\ UNCHANGED streamVars => Delivered'
<1> SUFFICES ASSUME StreamInv, Delivered, UNCHANGED streamVars PROVE Delivered'
  OBVIOUS
<1>1. UNCHANGED <<path, strip, attempt, phase, up, sent, cut, held, emitted, private, out, noted, verdict>>
  BY DEF streamVars
<1>2. phase' = "settled" /\ verdict'[attempt] = "success" => ~noted.error
  BY <1>1 DEF Delivered
<1> QED
  BY <1>1, <1>2, RestDelivers

LEMMA DeliveredStarts == Stream!Init => Delivered
<1> SUFFICES ASSUME Stream!Init PROVE Delivered
  OBVIOUS
<1>1. /\ phase = "sniffing" /\ up = "open" /\ sent = <<>> /\ cut = FALSE /\ held = <<>> /\ emitted = 0
      /\ private = None /\ out = <<>>
  BY DEF Stream!Init
<1>2. Whole = 0 /\ 0 \in 0..Whole /\ DOMAIN out = {} /\ DOMAIN held = {}
  BY <1>1 DEF Whole
<1>3. Row(out, 0, GivenWhole, Told(sent), 0, 0) /\ Row(held, emitted, WholePieces, Nat, 0, 0)
  BY <1>2, RowOfNone
<1>4. GivenUpTo(0)
  BY <1>1, <1>2, <1>3 DEF GivenUpTo
<1>5. Untorn /\ Halves
  BY <1>1, <1>2 DEF Untorn, Halves, Followed, HeadLast
<1> QED
  BY <1>1, <1>2, <1>4, <1>5 DEF Delivered

\* The numbers that the client is to get, in their order.
LEMMA WantedNumbers ==
  ASSUME SentOk, NEW S, S = {n \in DOMAIN sent : ~(strip /\ sent[n] = "usage")},
         NEW wanted, wanted = Keep([n \in DOMAIN sent |-> n], S)
  PROVE  wanted \in Seq(Nat) /\ Rising(wanted) /\ Elements(wanted) = S
<1> DEFINE id == [n \in DOMAIN sent |-> n]
<1>1. Len(sent) \in Nat /\ DOMAIN sent = 1..Len(sent)
  BY DEF SentOk
<1>2. id \in Seq(Nat) /\ Len(id) = Len(sent) /\ DOMAIN id = 1..Len(sent) /\ \A n \in 1..Len(sent) : id[n] = n
  BY <1>1
<1>3. wanted = Keep(id, S)
  OBVIOUS
<1> HIDE DEF id
<1>4. wanted \in Seq(Nat) /\ Picks(wanted, id, S, Len(sent)) /\ Elements(wanted) = Elements(id) \cap S
  <2>1. Keep(id, S) \in Seq(Nat) /\ Picks(Keep(id, S), id, S, Len(id))
    BY <1>2, KeepPicks
  <2>2. Elements(Keep(id, S)) = Elements(id) \cap S
    BY <1>2, KeepElements
  <2> QED
    BY <1>2, <1>3, <2>1, <2>2
<1>5. Elements(id) = DOMAIN sent
  BY <1>1, <1>2 DEF Elements
<1>6. PICK at \in [1..Len(wanted) -> 1..Len(sent)] :
        /\ \A i \in 1..Len(wanted) : wanted[i] = id[at[i]] /\ wanted[i] \in S
        /\ \A i, j \in 1..Len(wanted) : i < j => at[i] < at[j]
  BY <1>4, Zenon DEF Picks
<1>7. \A i \in 1..Len(wanted) : wanted[i] = at[i]
  BY <1>2, <1>6
<1>8. DOMAIN wanted = 1..Len(wanted)
  BY <1>4
<1>9. Rising(wanted)
  BY <1>6, <1>7, <1>8 DEF Rising
<1> QED
  BY <1>4, <1>5, <1>9

\* The numbers that the client got, in their order.
LEMMA GotNumbers ==
  ASSUME out \in Seq(Stream!Frame), NEW c \in Nat, Row(out, 0, GivenWhole, Told(sent), 0, c),
         NEW K, K = {f \in Elements(out) : f.as = "whole"}, NEW got, got = Keep(out, K),
         NEW numbers, numbers = [i \in DOMAIN got |-> got[i].n]
  PROVE  /\ numbers \in Seq(Nat) /\ Len(numbers) = Len(got) /\ Rising(numbers)
         /\ Elements(numbers) = {n \in 1..c : n \in Told(sent)}
<1>1. got \in Seq(Stream!Frame) /\ Elements(got) = Elements(out) \cap K
  BY KeepElements
<1>2. Len(got) \in Nat /\ DOMAIN got = 1..Len(got)
  BY <1>1
<1>3. \A f \in Stream!Frame : f.n \in Nat
  BY Limited DEF Stream!Frame, StreamLimits
<1>4. \A i \in DOMAIN got : got[i] \in GivenWhole /\ got[i].n \in Nat
  <2> SUFFICES ASSUME NEW i \in DOMAIN got PROVE got[i] \in GivenWhole /\ got[i].n \in Nat
    OBVIOUS
  <2>1. got[i] \in Stream!Frame
    BY <1>1
  <2>2. got[i] \in K
    <3>1. got[i] \in Elements(got)
      BY Zenon DEF Elements
    <3> QED
      BY <1>1, <3>1
  <2> QED
    BY <1>3, <2>1, <2>2 DEF GivenWhole
<1>5. \A i \in DOMAIN out : out[i] \in GivenWhole => (out[i] \in K <=> out[i].n \in Nat)
  <2> SUFFICES ASSUME NEW i \in DOMAIN out, out[i] \in GivenWhole PROVE out[i] \in K /\ out[i].n \in Nat
    OBVIOUS
  <2>1. out[i] \in Elements(out)
    BY Zenon DEF Elements
  <2> QED
    BY <1>3, <2>1 DEF GivenWhole
<1>6. Row(got, 0, GivenWhole, Told(sent) \cap Nat, 0, c)
  <2>1. 0 \in Nat
    OBVIOUS
  <2> QED
    BY <1>5, <2>1, RowOfKept
<1>7. DOMAIN numbers = 1..Len(got) /\ \A i \in 1..Len(got) : numbers[i] = got[i].n
  BY <1>2
<1>8. numbers \in Seq(Nat) /\ Len(numbers) = Len(got)
  <2>1. \A i \in 1..Len(got) : got[i].n \in Nat
    BY <1>2, <1>4
  <2> QED
    BY <1>2, <2>1
<1>9. Rising(numbers)
  <2> SUFFICES ASSUME NEW i \in DOMAIN numbers, NEW j \in DOMAIN numbers, i < j PROVE numbers[i] < numbers[j]
    BY Zenon DEF Rising
  <2>0. i \in 1..Len(got) /\ j \in 1..Len(got)
    BY <1>7
  <2>1. 0 < i /\ i \in DOMAIN got /\ j \in DOMAIN got /\ got[i] \in GivenWhole /\ got[j] \in GivenWhole
    BY <1>2, <1>4, <2>0
  <2>2. got[i].n < got[j].n
    BY <1>6, <2>1, Zenon DEF Row
  <2> QED
    BY <1>7, <2>0, <2>2
<1>10. \A n \in Elements(numbers) : n \in 1..c /\ n \in Told(sent)
  BY <1>2, <1>4, <1>6, <1>7 DEF Row, Elements
<1>11. ASSUME NEW n \in 1..c, n \in Told(sent) PROVE n \in Elements(numbers)
  <2>1. n \in (0 + 1)..c /\ n \in Told(sent) \cap Nat
    BY <1>11 DEF Told
  <2>2. PICK i \in DOMAIN got : got[i].n = n
    BY <1>6, <2>1 DEF Row
  <2> QED
    BY <1>2, <1>7, <2>2 DEF Elements
<1> QED
  BY <1>8, <1>9, <1>10, <1>11

\* What the client got begins what it is to get, and is all of it when the stream ended well.
LEMMA DeliveredIsAll == StreamInv /\ Delivered => Stream!NothingLost
<1> SUFFICES ASSUME StreamInv, Delivered PROVE Stream!NothingLost
  OBVIOUS
<1> DEFINE S == {n \in DOMAIN sent : ~(strip /\ sent[n] = "usage")}
           K == {f \in Stream!Elements(out) : f.as = "whole"}
           wanted == Stream!Keep([n \in DOMAIN sent |-> n], S)
           got == Stream!Keep(out, K)
           numbers == [i \in DOMAIN got |-> got[i].n]
<1>1. SentOk /\ out \in Seq(Stream!Frame) /\ cut \in BOOLEAN
  BY DEF StreamInv, StreamKept, Stream!TypeOK
<1>2. PICK c \in 0..Whole : GivenUpTo(c)
  BY DEF Delivered
<1>3. /\ Len(sent) \in Nat /\ DOMAIN sent = 1..Len(sent) /\ c \in Nat /\ c <= Len(sent)
      /\ \A n \in 1..Len(sent) : sent[n] = "error" => n = Len(sent)
      /\ ~cut => Whole = Len(sent)
  <2>1. Len(sent) \in Nat /\ DOMAIN sent = 1..Len(sent) /\ (cut => Len(sent) # 0)
        /\ \A n \in 1..Len(sent) : sent[n] = "error" => n = Len(sent)
    BY <1>1 DEF SentOk
  <2> DEFINE l == Len(sent)  e == IF cut THEN 1 ELSE 0  w == Whole
  <2>2. w = l - e /\ l \in Nat /\ (cut => l # 0) /\ c \in 0..w
    BY <1>2, <2>1 DEF Whole
  <2>3. e \in {0, 1} /\ (~cut => e = 0) /\ (cut => e = 1)
    BY <1>1
  <2> HIDE DEF l, e, w
  <2>4. c \in Nat /\ c <= l /\ (~cut => w = l)
    BY <1>1, <2>2, <2>3
  <2> QED
    BY <2>1, <2>4 DEF l, w
<1>4. wanted \in Seq(Nat) /\ Rising(wanted) /\ Elements(wanted) = S
  BY <1>1, SameKeep, WantedNumbers
<1>5. /\ numbers \in Seq(Nat) /\ Len(numbers) = Len(got) /\ Rising(numbers)
      /\ Elements(numbers) = {n \in 1..c : n \in Told(sent)}
  <2>1. Row(out, 0, GivenWhole, Told(sent), 0, c) /\ c \in Nat
    BY <1>2, <1>3 DEF GivenUpTo
  <2>2. K = {f \in Elements(out) : f.as = "whole"} /\ got = Keep(out, K)
    BY SameKeep
  <2> HIDE DEF K, got
  <2>3. numbers = [i \in DOMAIN got |-> got[i].n]
    OBVIOUS
  <2> HIDE DEF numbers
  <2> QED
    BY <1>1, <2>1, <2>2, <2>3, GotNumbers
<1>6. \A n \in S : n \in 1..Len(sent)
  <2>1. DOMAIN sent = 1..Len(sent)
    BY <1>3
  <2> QED
    BY <2>1
<1>7. \A n \in 1..Len(sent) : n \in Told(sent) <=> (n \in S /\ sent[n] # "error")
  <2> HIDE DEF S
  <2>0. DOMAIN sent = 1..Len(sent)
    BY <1>3
  <2>1. \A n \in 1..Len(sent) : n \in DOMAIN sent /\ n \in Nat
    BY <2>0
  <2> SUFFICES ASSUME NEW n \in 1..Len(sent) PROVE n \in Told(sent) <=> (n \in S /\ sent[n] # "error")
    OBVIOUS
  <2>2. n \in Told(sent) <=> (~(strip /\ sent[n] = "usage") /\ sent[n] # "error")
    BY <2>1, Zenon DEF Told
  <2>3. n \in S <=> ~(strip /\ sent[n] = "usage")
    <3>1. n \in DOMAIN sent
      BY <2>1
    <3> QED
      BY <3>1, Zenon DEF S
  <2> QED
    BY <2>2, <2>3
<1> DEFINE told == IF c # 0 /\ sent[c] = "error" THEN c - 1 ELSE c
<1> HIDE DEF S, K, wanted, got, numbers
<1>8. told \in Nat /\ Elements(numbers) = {n \in Elements(wanted) : n <= told}
  <2> DEFINE l == Len(sent)
  <2>1. /\ l \in Nat /\ c \in Nat /\ c <= l /\ \A n \in 1..l : sent[n] = "error" => n = l
        /\ \A n \in S : n \in 1..l
        /\ \A n \in 1..l : n \in Told(sent) <=> (n \in S /\ sent[n] # "error")
    BY <1>3, <1>6, <1>7
  <2> HIDE DEF l
  <2>2. ASSUME NEW n \in 1..c, n \in Told(sent) PROVE n \in S /\ n <= told
    <3>1. n \in 1..l /\ sent[n] # "error" /\ n \in S
      BY <2>1, <2>2
    <3>2. c # 0 /\ sent[c] = "error" => n # c
      BY <3>1
    <3> QED
      BY <2>1, <2>2, <3>1, <3>2
  <2>3. ASSUME NEW n \in S, n <= told PROVE n \in 1..c /\ n \in Told(sent)
    <3>1. n \in 1..l /\ n \in 1..c
      BY <2>1, <2>3
    <3>2. sent[n] # "error"
      <4> SUFFICES ASSUME sent[n] = "error" PROVE FALSE
        OBVIOUS
      <4>1. n = l /\ n = c
        BY <2>1, <3>1
      <4>2. c # 0 /\ sent[c] = "error"
        BY <2>1, <3>1, <4>1
      <4>3. told = c - 1
        BY <4>2
      <4> QED
        BY <2>1, <2>3, <4>1, <4>3
    <3> QED
      BY <2>1, <3>1, <3>2
  <2>4. told \in Nat
    BY <2>1
  <2> HIDE DEF told
  <2> QED
    BY <1>4, <1>5, <2>2, <2>3, <2>4
<1> HIDE DEF told
<1>9. /\ Len(numbers) <= Len(wanted) /\ \A i \in DOMAIN numbers : numbers[i] = wanted[i]
      /\ Elements(numbers) = Elements(wanted) => Len(numbers) = Len(wanted)
  BY <1>4, <1>5, <1>8, RisingPrefix
<1>10. Stream!IsPrefix(numbers, wanted)
  <2> DEFINE k == Len(numbers)
  <2>1. SubSeq(numbers, 1, k) = SubSeq(wanted, 1, k)
    BY <1>4, <1>5, <1>9
  <2> QED
    BY <1>9, <2>1 DEF Stream!IsPrefix
<1>11. ASSUME phase = "settled", up = "eof", verdict[attempt] = "success", ~cut
       PROVE  Len(got) = Len(wanted)
  <2>1. ~noted.error /\ c = Whole /\ \A n \in 1..c : sent[n] # "error"
    BY <1>2, <1>11 DEF Delivered, GivenUpTo
  <2>2. c = Len(sent)
    BY <1>3, <1>11, <2>1
  <2>3. \A n \in S : n \in 1..c /\ n \in Told(sent)
    BY <1>6, <1>7, <2>1, <2>2
  <2>4. \A n \in 1..c : n \in Told(sent) => n \in S
    BY <1>7, <2>2
  <2>5. Elements(numbers) = Elements(wanted)
    BY <1>4, <1>5, <2>3, <2>4
  <2> QED
    BY <1>5, <1>9, <2>5
<1>12. \A i \in DOMAIN out : out[i].as # "torn"
  BY DEF Delivered, Untorn
<1> QED
  BY <1>10, <1>11, <1>12 DEF Stream!NothingLost, S, K, wanted, got, numbers

\* What the client gets are the upstream's frames in their order, each once, except the
\* usage that it did not ask for; a beat stands between frames; and a stream that ended
\* well was given completely.
THEOREM StreamsLoseNothing == RequestSpec => []NothingLost
<1> DEFINE I == part = "stream" => StreamInv /\ Delivered
<1>1. RequestInit => I
  BY StreamStarts, DeliveredStarts DEF RequestInit
<1>2. I /\ [RequestNext]_requestVars => I'
  BY StreamSteps, StreamStutters, DeliveredSteps, DeliveredStutters DEF RequestNext, requestVars
<1>3. I => NothingLost
  BY DeliveredIsAll DEF NothingLost
<1> QED
  BY <1>1, <1>2, <1>3, PTL DEF RequestSpec
=============================================================================
