------------------------------ MODULE Routing ------------------------------
(***************************************************************************)
(* The plan of a request (src/src/routing/mod.rs): which targets of the    *)
(* logical model may serve it, in which order, and with which error the    *)
(* request ends when none may.  The facts about the targets come from the  *)
(* configuration, the multipliers, the key pool and the health registry,   *)
(* and change under the requests; plan reads them once, in this order.     *)
(***************************************************************************)
EXTENDS Integers, FiniteSets

CONSTANTS
  Targets,
  None,
  MaxChanges   \* bound of the facts that differ from a healthy configuration

VARIABLES
  fact,    \* what holds of every target
  request, \* whether a key is bound, what the group allows, the model's state
  changes

vars == <<fact, request, changes>>

\* The account of a target has the key k1 that its own state tells about, and a
\* request that brings a bound key may find it gone from the pool.
Values ==
  [on      |-> {TRUE, FALSE},                              \* target and account enabled
   price   |-> {"within", "over", "unknown"},              \* multipliers.effective
   fit     |-> {"lossless", "doubted", "degraded", "no"},  \* endpoints::choices
   account |-> {"ok", "quota", "full"},                    \* AccountState and its budget
   key     |-> {"free", "full", "invalid", "quota", "off"},
   circuit |-> {"closed", "cooling", "trial"},             \* of the target
   room    |-> {"free", "full", "rate"}]                   \* the target's budget

Healthy == [on |-> TRUE, price |-> "within", fit |-> "lossless", account |-> "ok",
            key |-> "free", circuit |-> "closed", room |-> "free"]

Requests == [model : {"on", "off"}, degrade : BOOLEAN, bound : BOOLEAN]

TypeOK ==
  /\ \A t \in Targets : DOMAIN fact[t] = DOMAIN Values
                        /\ \A x \in DOMAIN Values : fact[t][x] \in Values[x]
  /\ request \in Requests /\ changes \in 0..MaxChanges

Init ==
  /\ fact = [t \in Targets |-> Healthy]
  /\ request \in Requests
  /\ changes = 0

Change ==
  /\ changes < MaxChanges /\ changes' = changes + 1
  /\ \E t \in Targets : \E x \in DOMAIN Values : \E v \in Values[x] :
       v # fact[t][x] /\ fact' = [fact EXCEPT ![t][x] = v]
  /\ UNCHANGED request

Next == Change
Spec == Init /\ [][Next]_vars

-----------------------------------------------------------------------------
(* check_eligibility, resolve_key and health's check.                       *)

\* Reasons for which waiting in the queue helps (is_queueable).
Queueable == {"full", "rate"}

\* health.check: account, key with its budget, circuit, and the budgets of
\* account and target; the first one that refuses is the reason.
Checked(f) ==
  IF f.account = "quota" THEN "quota"
  ELSE IF f.key # "free" THEN f.key
  ELSE IF f.circuit # "closed" THEN "cooling"
  ELSE IF f.account = "full" THEN "full"
  ELSE IF f.room = "free" THEN "ok" ELSE f.room

\* resolve_key: without an enabled key there is none, and a bound one is invalid.
Usable(f, bound) ==
  IF f.key = "off" THEN IF bound THEN "invalid" ELSE "no_key" ELSE Checked(f)

Expresses(f, degrade) == f.fit \in {"lossless", "doubted"} \cup (IF degrade THEN {"degraded"} ELSE {})

\* Mutant: whether the key is busy is asked before the price.
BusyFirst(f, q) ==
  IF ~f.on THEN "disabled"
  ELSE IF Usable(f, q.bound) \in Queueable THEN Usable(f, q.bound)
  ELSE IF f.price = "unknown" THEN "price_unknown"
  ELSE IF f.price = "over" THEN "price_over"
  ELSE IF Usable(f, q.bound) # "ok" THEN Usable(f, q.bound)
  ELSE IF Expresses(f, q.degrade) THEN "ok" ELSE "unsupported"

\* The gates in their order; with no bound key, a key that is refused stops the
\* check before the endpoints are looked at, and so does a bound key that is gone,
\* while a bound key's own state is asked after them.
Verdict(f, q) ==
  IF ~f.on THEN "disabled"
  ELSE IF f.price = "unknown" THEN "price_unknown"
  ELSE IF f.price = "over" THEN "price_over"
  ELSE IF (~q.bound \/ f.key = "off") /\ Usable(f, q.bound) # "ok" THEN Usable(f, q.bound)
  ELSE IF ~Expresses(f, q.degrade) THEN "unsupported"
  ELSE Checked(f)

-----------------------------------------------------------------------------
(* plan.                                                                    *)

Reasons(q) == {Verdict(fact[t], q) : t \in Targets} \ {"ok"}

\* A busy target is planned as well, if it can express the request.
Planned(q) ==
  IF q.model = "off" THEN {}
  ELSE {t \in Targets :
          \/ Verdict(fact[t], q) = "ok"
          \/ Verdict(fact[t], q) \in Queueable /\ Expresses(fact[t], q.degrade)}

-----------------------------------------------------------------------------
(* failure: no target is planned.                                           *)

Priced == {"price_over", "price_unknown"}
Ended  == {"invalid", "quota", "no_key", "cooling"}

\* Mutant: the price is reported before what may get better.
RankPriceFirst(r) ==
  CASE r \in Queueable -> 0 [] r \in Priced -> 1 [] r \in Ended -> 2
    [] r = "unsupported" -> 3 [] OTHER -> 5

Rank(r) ==
  CASE r \in Queueable -> 0 [] r \in Ended -> 2
    [] r = "unsupported" -> 3 [] r \in Priced -> 4 [] OTHER -> 5

\* The reason that may end soonest names the code of a mixed failure; that no
\* target can express the request is said only if that is so of every one.
Codes(q) ==
  LET rs == Reasons(q)
      first == {r \in rs : \A s \in rs : Rank(r) <= Rank(s)}
      code(r) == CASE r \in Priced -> r [] r = "rate" -> "rate_limited" [] OTHER -> "none_eligible"
  IN  IF q.model = "off" THEN {"model_not_found"}
      ELSE IF rs = {"unsupported"} THEN {"unsupported"}
      ELSE IF rs = {"price_over"} THEN {"price_over"}
      ELSE IF rs # {} /\ rs \subseteq Priced THEN {"price_unknown"}
      ELSE IF rs = {} THEN {"none_eligible"}
      ELSE {code(r) : r \in first}

\* Only a cooldown is waited for: await_recovery sleeps until the first one ends,
\* and plan is asked again.  A trial that is running has no time to wait for.
Awaits(q) ==
  /\ Planned(q) = {} /\ q.model = "on"
  /\ ~Reasons(q) \subseteq Priced /\ Reasons(q) # {"unsupported"}
  /\ \E t \in Targets : Verdict(fact[t], q) = "cooling" /\ fact[t].circuit = "cooling"

-----------------------------------------------------------------------------
(* Properties.                                                              *)

\* What costs more than the group's limit, or nobody knows how much, is not called,
\* neither is what is disabled, has no key that counts, or cannot express the
\* request: also not by the way in which a busy target comes into the plan.
GatesHold ==
  \A t \in Planned(request) :
    /\ fact[t].on /\ fact[t].price = "within" /\ fact[t].key \in {"free", "full"}
    /\ Expresses(fact[t], request.degrade)

\* A client is told not to try again only if no answer of the health registry
\* could have given it a plan.  (failure, ErrorCode's statuses.)
FinalIsFinal ==
  LET well == [t \in Targets |-> [fact[t] EXCEPT !.account = "ok", !.circuit = "closed",
                                   !.room = "free", !.key = IF @ = "off" THEN "off" ELSE "free"]]
  IN  /\ Planned(request) = {}
      /\ Codes(request) \cap (Priced \cup {"unsupported", "model_not_found"}) # {}
      => request.model = "off" \/ \A t \in Targets : Verdict(well[t], request) # "ok"

\* health/mod.rs:697 says of the order of the checks that what is bad goes before
\* what is busy: a target that is cooling is not queued for.
CoolingIsNotQueued ==
  \A t \in Planned(request) : fact[t].circuit = "closed"

\* routing/mod.rs:821 says that a request that no target can express fails at once
\* as such.
UnsupportedIsSaid ==
  request.model = "on" /\ (\A t \in Targets : fact[t].on /\ fact[t].price = "within"
                              /\ ~Expresses(fact[t], request.degrade))
  => Codes(request) = {"unsupported"}
=============================================================================
