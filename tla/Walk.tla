-------------------------------- MODULE Walk --------------------------------
(***************************************************************************)
(* The walk of one request over its targets: forward_inner, Walk::         *)
(* walk_layer, try_candidates, wait_and_run, run and run_attempt of        *)
(* src/src/gateway/passthrough.rs.                                         *)
(*                                                                         *)
(* A plan is a list of layers, best first; a layer has lossless and        *)
(* degraded candidates.  A request may be bound to a target of the first   *)
(* layer, which it tries, and waits for, before the layers.  In a layer    *)
(* the lossless candidates are tried in turn, the busy ones among them are *)
(* waited for, and only then come the degraded ones.  A target that        *)
(* refuses the key is tried again with other keys.  What the walk keeps    *)
(* about failures decides what the client is told in the end.              *)
(*                                                                         *)
(* What a candidate is at a check (free, busy or unusable) is open here:   *)
(* Health and KeyChoice say when; waiting for permits is in CapacityWait.  *)
(***************************************************************************)
EXTENDS Naturals, Sequences, FiniteSets, Subsequence

CONSTANTS
  Targets,
  KeysOf,         \* the keys of a target's account
  Plans,          \* bound: the layers, sequences of [lossless, degraded]
  MaxAttempts,    \* routing::MAX_TARGET_ATTEMPTS
  MaxSwitches,    \* MAX_KEY_SWITCHES_PER_TARGET
  MaxRejections,  \* MAX_OPAQUE_REJECTION_RETRIES
  None

Keys == UNION {KeysOf[t] : t \in Targets}

Layer == [lossless : Seq(Targets), degraded : Seq(Targets)]

\* routing::plan makes one candidate of every target, in one layer.
Members(l) == Elements(l.lossless) \cup Elements(l.degraded)

NoRepeats(s) == \A i, j \in DOMAIN s : s[i] = s[j] => i = j

EachOnce(p) ==
  /\ \A i \in DOMAIN p :
       /\ NoRepeats(p[i].lossless) /\ NoRepeats(p[i].degraded)
       /\ Elements(p[i].lossless) \cap Elements(p[i].degraded) = {}
  /\ \A i, j \in DOMAIN p : i # j => Members(p[i]) \cap Members(p[j]) = {}

ASSUME WalkAssumption ==
  /\ IsFiniteSet(Targets) /\ None \notin Targets
  /\ \A t \in Targets : IsFiniteSet(KeysOf[t])
  /\ Plans \subseteq Seq(Layer) /\ \A p \in Plans : EachOnce(p)
  /\ MaxAttempts \in Nat /\ MaxSwitches \in Nat /\ MaxRejections \in Nat
  /\ None \notin Keys

VARIABLES
  plan,       \* the layers
  bound,      \* the target of the sticky binding, or None
  pc,         \* "plan", "try", "wait", "run", "done"
  stage,      \* "bound", "lossless", "degraded"
  layer,      \* which one
  todo,       \* what try_candidates has still to look at
  busy,       \* `busy` of try_candidates, `pending` of wait_and_run
  cand,       \* the candidate that is running
  key,        \* and its key
  back,       \* where it came from: "try" or "wait"
  attempted,  \* Walk.attempted
  switches,   \* keys switched on this candidate
  opaque,     \* last_opaque is there
  filtered,   \* content_filtered
  opaques,    \* opaque_rejection_retries
  efforts,    \* effort_exhausted_retries
  retryAfter, \* last_retry_after is there
  retried,    \* retried_after_429
  answer,     \* what the client is told, or None
  last,       \* history: the kind of the latest failure (Walk.last)
  seen,       \* history: what the request knows of every target
  sends       \* history: attempts sent to every target

place    == <<plan, bound, stage, layer>>
failures == <<opaque, filtered, opaques, efforts, retryAfter, last>>
history  == <<seen, sends>>
vars == <<place, pc, todo, busy, cand, key, back, attempted, switches, failures, retried,
          answer, history>>

Stages  == {"bound", "lossless", "degraded"}
Causes  == {"no_key", "refused", "multiplier", "credential", "opaque", "effort", "filtered",
            "unroutable", "upstream"}
Answers == {"ok", "final", "deadline", "queue_timeout", "queue_full", "shutdown", "opaque",
            "filtered", "no_target"} \cup Causes

TypeOK ==
  /\ plan \in Plans
  /\ bound \in Targets \cup {None}
  /\ pc \in {"plan", "try", "wait", "run", "done"}
  /\ stage \in Stages
  /\ layer \in Nat
  /\ todo \in Seq(Targets)
  /\ busy \subseteq Targets
  /\ cand \in Targets \cup {None}
  /\ key \in Keys \cup {None}
  /\ back \in {"try", "wait"}
  /\ attempted \in Seq(Targets \X Keys)
  /\ switches \in 0..MaxSwitches
  /\ {opaque, filtered, retryAfter, retried} \subseteq BOOLEAN
  /\ opaques \in 0..MaxRejections
  /\ efforts \in 0..MaxRejections
  /\ answer \in Answers \cup {None}
  /\ last \in Causes \cup {None}
  /\ seen \in [Targets -> {"new", "busy", "sent", "unusable"}]
  /\ sends \in [Targets -> Nat]

Init ==
  /\ plan \in Plans
  /\ bound = None
  /\ pc = "plan" /\ stage = "bound" /\ layer = 0
  /\ todo = <<>> /\ busy = {}
  /\ cand = None /\ key = None /\ back = "try"
  /\ attempted = <<>> /\ switches = 0
  /\ opaque = FALSE /\ filtered = FALSE /\ retryAfter = FALSE /\ retried = FALSE
  /\ opaques = 0 /\ efforts = 0
  /\ answer = None /\ last = None
  /\ seen = [t \in Targets |-> "new"]
  /\ sends = [t \in Targets |-> 0]

-----------------------------------------------------------------------------
(* Helpers.                                                                 *)

TriedBefore(t) == \E i \in DOMAIN attempted : attempted[i][1] = t
LimitReached  == Len(attempted) >= MaxAttempts

Running == <<cand, key, back, switches>>

\* The client is answered.
Reply(a) ==
  /\ pc' = "done" /\ answer' = a
  /\ UNCHANGED <<place, todo, busy, Running, attempted, retried>>

\* What the client is told when no candidate is left: a content filter that
\* spoke last, an opaque 400, or the latest failure.
Verdict ==
  IF last = "filtered" THEN "filtered"
  ELSE IF opaque THEN "opaque"
  ELSE IF last = None THEN "no_target" ELSE last

\* The failure fields after a failure of some kind.
Fields(o, cause) == opaque' = o /\ last' = cause
Remember(o, cause) == Fields(o, cause) /\ UNCHANGED <<filtered, opaques, efforts, retryAfter>>

-----------------------------------------------------------------------------
(* forward_inner: the plan, the bound target, the layers.                   *)

\* No eligible target; if some cool down the request may wait and plan again.
PlanFails ==
  /\ pc = "plan"
  /\ Reply("no_target")
  /\ UNCHANGED <<failures, history>>

\* Go to the first candidates of layer n, or answer.
EnterLayer(n) ==
  /\ busy' = {} /\ stage' = "lossless" /\ layer' = n
  /\ IF n > Len(plan) \/ LimitReached
       THEN pc' = "done" /\ answer' = Verdict /\ todo' = <<>>
       ELSE pc' = "try" /\ answer' = answer /\ todo' = plan[n].lossless
  /\ UNCHANGED <<plan, bound, attempted, Running, retried>>

\* The plan stands: the request is bound to a target of the first layer, or not.
PlanStands ==
  /\ pc = "plan" /\ plan # <<>>
  /\ \/ EnterLayer(1)
     \/ \E t \in Members(plan[1]) :
          /\ bound' = t /\ busy' = {t} /\ pc' = "wait"
          /\ UNCHANGED <<plan, stage, layer, todo, Running, attempted, retried, answer>>
  /\ UNCHANGED <<failures, history>>

\* The degraded candidates of this layer.
EnterDegraded ==
  /\ stage' = "degraded" /\ pc' = "try"
  /\ todo' = plan[layer].degraded /\ busy' = {}
  /\ UNCHANGED <<plan, bound, layer, Running, attempted, retried, answer>>

-----------------------------------------------------------------------------
(* try_candidates.                                                          *)

\* The pass is over, or the request has sent enough: wait for the busy ones.
PassEnds ==
  /\ pc = "try" /\ (todo = <<>> \/ LimitReached)
  /\ \/ /\ busy # {}
        /\ pc' = "wait" /\ todo' = <<>>
        /\ UNCHANGED <<place, busy, Running, attempted, retried, answer>>
     \/ busy = {} /\ stage = "lossless" /\ EnterDegraded
     \/ busy = {} /\ stage = "degraded" /\ EnterLayer(layer + 1)
  /\ UNCHANGED <<failures, history>>

Looking(t) == pc = "try" /\ todo # <<>> /\ ~LimitReached /\ t = Head(todo)

Skip(t) ==
  /\ Looking(t) /\ TriedBefore(t)
  /\ todo' = Tail(todo)
  /\ UNCHANGED <<place, pc, busy, Running, attempted, failures, retried, answer, history>>

TotalTimeout(t) ==
  /\ Looking(t) /\ ~TriedBefore(t)
  /\ Reply("deadline")
  /\ UNCHANGED <<failures, history>>

FoundBusy(t) ==
  /\ Looking(t) /\ ~TriedBefore(t)
  /\ todo' = Tail(todo) /\ busy' = busy \cup {t}
  /\ seen' = [seen EXCEPT ![t] = "busy"]
  /\ UNCHANGED <<place, pc, Running, attempted, failures, retried, answer, sends>>

\* No key of the account can be used, or a circuit refuses.
Unusable(t, cause) ==
  /\ seen' = [seen EXCEPT ![t] = "unusable"]
  /\ Remember(IF cause = "no_key" THEN opaque ELSE FALSE, cause)

FoundUnusable(t, cause) ==
  /\ Looking(t) /\ ~TriedBefore(t)
  /\ todo' = Tail(todo)
  /\ Unusable(t, cause)
  /\ UNCHANGED <<place, pc, busy, Running, attempted, retried, answer, sends>>

\* Admitted and past the last look at the multiplier: the attempt goes out.
Send(t, k, from) ==
  /\ pc' = "run" /\ cand' = t /\ key' = k /\ back' = from /\ switches' = 0
  /\ attempted' = Append(attempted, <<t, k>>)
  /\ seen' = [seen EXCEPT ![t] = "sent"]
  /\ sends' = [sends EXCEPT ![t] = @ + 1]
  /\ UNCHANGED <<place, failures, retried, answer>>

Try(t, k) ==
  /\ Looking(t) /\ ~TriedBefore(t)
  /\ todo' = Tail(todo)
  /\ Send(t, k, "try")
  /\ UNCHANGED busy

-----------------------------------------------------------------------------
(* wait_and_run: a scan or a wake-up finds one of the pending candidates.   *)

WaitSend(t, k) ==
  /\ pc = "wait" /\ t \in busy
  /\ busy' = busy \ {t}
  /\ Send(t, k, "wait")
  /\ UNCHANGED todo

\* Mutant: a pending candidate that cannot be used stays pending.
StaysPending(t) == busy

NotPending(t) == busy \ {t}

WaitUnusable(t, cause) ==
  /\ pc = "wait" /\ t \in busy
  /\ busy' = NotPending(t)
  /\ Unusable(t, cause)
  /\ UNCHANGED <<place, pc, todo, Running, attempted, retried, answer, sends>>

\* Every pending candidate has been tried.
WaitEnds ==
  /\ pc = "wait" /\ busy = {}
  /\ \/ stage = "bound" /\ EnterLayer(1)
     \/ stage = "lossless" /\ EnterDegraded
     \/ stage = "degraded" /\ Reply("queue_timeout")
  /\ UNCHANGED <<failures, history>>

\* Mutants: who has waited in vain goes on to the degraded candidates; or down
\* to the next layer.
SettlesForDegraded == EnterDegraded
SinksALayer        == EnterLayer(layer + 1)

WaitedInVain == Reply("queue_timeout")

\* The budget is over.
WaitExpires ==
  /\ pc = "wait" /\ busy # {}
  /\ \/ stage = "bound" /\ EnterLayer(1)
     \/ stage # "bound" /\ WaitedInVain
  /\ UNCHANGED <<failures, history>>

\* The group's queue is full, or the service shuts down.
WaitRefused(a) ==
  /\ pc = "wait"
  /\ a = "queue_full" => busy # {}
  /\ Reply(a)
  /\ UNCHANGED <<failures, history>>

-----------------------------------------------------------------------------
(* run and run_attempt: how an attempt ends.                                *)

\* Mutant: a bound target is waited out again and again.
MayAlwaysPause == stage = "bound"

MayPause == stage = "bound" /\ ~retried

\* The next candidate, after a failure that leaves a Retry-After or none.  A
\* bound request may wait it out and try the same target again.
GoOn(ra) ==
  /\ pc' = back
  /\ \/ /\ ~(back = "wait" /\ MayPause)
        /\ retryAfter' = ra
        /\ UNCHANGED <<busy, attempted, retried, answer>>
     \/ /\ back = "wait" /\ MayPause
        /\ retryAfter' = FALSE
        /\ \/ UNCHANGED <<busy, attempted, retried>>
           \/ /\ ra /\ retried' = TRUE
              /\ busy' = busy \cup {cand}
              /\ attempted' = Keep(attempted, (Targets \ {cand}) \X Keys)
        /\ UNCHANGED answer
  /\ UNCHANGED <<place, todo, Running>>

\* The answer of the upstream is the client's: success, an error of the request
\* itself, or an accepted job that failed and must not be ordered again.
Concludes(a) ==
  /\ pc = "run" /\ Reply(a)
  /\ UNCHANGED <<failures, history>>

\* Timeouts, 429, 5xx, connection errors.
FailsUpstream(ra) ==
  /\ pc = "run"
  /\ Fields(FALSE, "upstream") /\ GoOn(ra)
  /\ UNCHANGED <<filtered, opaques, efforts, history>>

\* The session lives on another channel.
Unroutable ==
  /\ pc = "run"
  /\ Fields(FALSE, "unroutable") /\ GoOn(retryAfter)
  /\ UNCHANGED <<filtered, opaques, efforts, history>>

\* Mutant: one rejection too many.
OpaqueOverspent == opaques > MaxRejections

OpaqueSpent == opaques >= MaxRejections

\* A 400 that cannot be blamed on the request: a few other targets are tried.
RejectsOpaquely ==
  /\ pc = "run"
  /\ Fields(TRUE, "opaque")
  /\ IF OpaqueSpent
       THEN Reply("opaque") /\ UNCHANGED <<opaques, retryAfter>>
       ELSE opaques' = opaques + 1 /\ GoOn(retryAfter)
  /\ UNCHANGED <<filtered, efforts, history>>

\* The thinking effort is refused at every step of the ladder.
RejectsEffort ==
  /\ pc = "run"
  /\ Fields(TRUE, "effort")
  /\ IF efforts >= MaxRejections
       THEN Reply("opaque") /\ UNCHANGED <<efforts, retryAfter>>
       ELSE efforts' = efforts + 1 /\ GoOn(retryAfter)
  /\ UNCHANGED <<filtered, opaques, history>>

\* The content filter of an account speaks: one other channel is tried.
Filters ==
  /\ pc = "run"
  /\ Fields(FALSE, "filtered")
  /\ IF filtered
       THEN Reply("filtered") /\ UNCHANGED <<filtered, retryAfter>>
       ELSE filtered' = TRUE /\ GoOn(retryAfter)
  /\ UNCHANGED <<opaques, efforts, history>>

\* The key is refused: another key of the account, if one is free.  A key that
\* was refused once is not stopped yet and may come back.
SwitchesKey(k, ra) ==
  /\ pc = "run" /\ switches < MaxSwitches
  /\ k \in KeysOf[cand] \ {key}
  /\ Fields(opaque, "credential") /\ retryAfter' = ra
  /\ key' = k /\ switches' = switches + 1
  /\ attempted' = Append(attempted, <<cand, k>>)
  /\ sends' = [sends EXCEPT ![cand] = @ + 1]
  /\ UNCHANGED <<place, pc, todo, busy, cand, back, filtered, opaques, efforts, retried,
                 answer, seen>>

LosesCredential(ra) ==
  /\ pc = "run"
  /\ Fields(opaque, "credential") /\ GoOn(ra)
  /\ UNCHANGED <<filtered, opaques, efforts, history>>

-----------------------------------------------------------------------------
Next ==
  \/ PlanFails \/ PlanStands \/ PassEnds \/ WaitEnds \/ WaitExpires
  \/ \E t \in Targets :
       \/ Skip(t) \/ TotalTimeout(t) \/ FoundBusy(t)
       \/ \E cause \in {"no_key", "refused", "multiplier"} :
            FoundUnusable(t, cause) \/ WaitUnusable(t, cause)
       \/ \E k \in KeysOf[t] : Try(t, k) \/ WaitSend(t, k)
  \/ \E a \in {"queue_full", "shutdown"} : WaitRefused(a)
  \/ \E a \in {"ok", "final"} : Concludes(a)
  \/ \E ra \in BOOLEAN : FailsUpstream(ra) \/ LosesCredential(ra)
  \/ \E k \in Keys, ra \in BOOLEAN : SwitchesKey(k, ra)
  \/ RejectsOpaquely \/ RejectsEffort \/ Filters \/ Unroutable

Spec == Init /\ [][Next]_vars

\* Every await of the walk is under the request's deadline.
FairSpec == Spec /\ WF_vars(Next)

-----------------------------------------------------------------------------
(* Properties.                                                              *)

Settled(t) == seen[t] \in {"sent", "unusable"}

\* A degraded candidate is used only when no lossless one of its layer is
\* left: each was sent to or cannot be used; one that is only busy is waited
\* for.  (walk_layer; README: "all of them failed".)
LosslessFirst ==
  pc = "run" /\ stage = "degraded" => \A t \in Elements(plan[layer].lossless) : Settled(t)

\* A lower layer is used only when nothing of the higher ones is left: busy
\* candidates hold the request in their layer.  (forward_inner, walk_layer.)
HigherLayersFirst ==
  pc = "run" /\ stage # "bound"
  => \A i \in 1..(layer - 1) :
       \A t \in Members(plan[i]) : Settled(t)

\* However failures, waits, key switches and the retry after a 429 follow one
\* another, a target gets no more attempts of one request than its key switches
\* allow, and the bound target twice that.  (run, already_tried, forget_attempt.)
SendsBounded ==
  \A t \in Targets : sends[t] <= (MaxSwitches + 1) * (IF t = bound THEN 2 ELSE 1)

\* Every request is answered in the end.
Answered == <>(answer # None)

\* The comment on last_opaque says that another failure after an opaque 400
\* takes its place as the reason that is reported.
OpaqueIsLatest == answer = "opaque" => last \in {"opaque", "effort"}

\* The comment on wait_and_run says that Exhausted means that candidates are
\* still busy when the budget is over: nobody is told so who waited for none.
TimeoutIsReal == answer = "queue_timeout" => busy # {}

\* The comment on MAX_TARGET_ATTEMPTS says that a request tries no more targets
\* than that.
AtMostMaxTargets == Cardinality({t \in Targets : sends[t] > 0}) <= MaxAttempts

\* The design of the key pool says that switching keys is cheap and does not
\* count against the limit: the walk gives up with untried targets only when it
\* has tried as many as the limit says.
SwitchesAreCheap ==
  answer \in Causes /\ (\E t \in Targets : seen[t] = "new")
  => Cardinality({t \in Targets : sends[t] > 0}) >= MaxAttempts

\* The comment on Walk.attempted says that a pair of target and key is sent to
\* only once.
PairOnce == \A i, j \in DOMAIN attempted : i # j => attempted[i] # attempted[j]
=============================================================================
