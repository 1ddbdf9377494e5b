------------------------------ MODULE Attempt ------------------------------
(***************************************************************************)
(* One attempt on one target: which endpoint of the account is asked, in   *)
(* which shape, and what is learnt from the answer (walk_endpoints and     *)
(* classify_upstream_error of src/src/gateway/passthrough.rs, endpoints.rs *)
(* and evidence.rs of src/src/upstream/, align_thinking of protocol/       *)
(* anthropic.rs).  Several requests share what is known about the account  *)
(* and its model.                                                          *)
(*                                                                         *)
(* A shape is the thinking of a body: a level, Omit (adaptive thinking     *)
(* without a level) or Plain (anything else).  Lifetimes are what is left  *)
(* of them.                                                                *)
(***************************************************************************)
EXTENDS Integers, Sequences, FiniteSets, SequencesExt, Subsequence

CONSTANTS
  Requests,
  MaxLevel,    \* Effort: the levels are 0..MaxLevel
  Omit, Plain,
  Setups,      \* the account, the group, the request, what the upstream takes
  Life,        \* evidence::TTL
  MaxRetries,  \* MAX_EFFORT_RETRIES
  MaxEndpoints \* MAX_ENDPOINTS_PER_TARGET

Levels == 0..MaxLevel
XHigh == MaxLevel - 1
Shapes == Levels \cup {Omit, Plain}

\* Endpoint::INFERENCE in its order, and an endpoint that nothing can stand in for.
Inference == <<"chat", "responses", "messages">>
Endpoints == ToSet(Inference) \cup {"count"}

Fidelity == [Endpoints -> {"lossless", "degraded", "none"}]
Setup == [preferred : ToSet(Inference), adaptive : BOOLEAN, degrade : BOOLEAN, xhigh : BOOLEAN,
          down : Endpoints, asks : Shapes, fidelity : Fidelity, served : SUBSET Endpoints,
          takes : [Levels \cup {Omit} -> {"yes", "no", "maybe"}]]

ASSUME AttemptAssumption ==
  /\ MaxLevel \in Nat \ {0} /\ {Omit, Plain} \cap Int = {} /\ Omit # Plain
  /\ Setups \subseteq Setup
  /\ {Life, MaxRetries, MaxEndpoints} \subseteq Nat \ {0}
  /\ MaxLevel < MaxRetries   \* a retry for every level

VARIABLES
  setup,
  supported,  \* Evidence.supported: the lifetimes
  fit,        \* Evidence.effort_fit of the account's model
  req,        \* of every request: where it is and what it has tried
  ended       \* what the last step ended, if it ended an attempt

vars == <<setup, supported, fit, req, ended>>

Unknown == [accepted |-> {}, rejected |-> {}, omitted |-> FALSE, yes |-> 0, no |-> 0]

\* shapes: sent to the endpoint (sent_shapes); refused: endpoints; lost: history, facts
\* were forgotten while it ran.
Idle == [pc |-> "idle", endpoint |-> "none", shapes |-> <<>>, refused |-> {}, lost |-> FALSE]

None == [result |-> "none", outcome |-> "none", endpoint |-> "none", shape |-> Plain, lost |-> FALSE]

\* late: a level was refused and no time is left for another try (EffortExhausted too).
Results ==
  {"ok", "effort", "late", "switch", "opaque", "filtered", "unroutable", "final", "timeout"}

TypeOK ==
  /\ setup \in Setup
  /\ supported \in [Endpoints -> 0..Life]
  /\ fit.accepted \cup fit.rejected \subseteq Levels /\ fit.omitted \in BOOLEAN
  /\ fit.accepted \cap fit.rejected = {}
  /\ {fit.yes, fit.no} \subseteq 0..Life
  /\ \A r \in Requests :
       /\ req[r].pc \in {"idle", "planned", "sent", "refused", "missing"}
       /\ req[r].endpoint \in Endpoints \cup {"none"} /\ req[r].refused \subseteq Endpoints
       /\ req[r].shapes \in Seq(Shapes) /\ Len(req[r].shapes) <= MaxRetries + 1
       /\ req[r].lost \in BOOLEAN
  /\ ended.result \in Results \cup {"none"}

Init ==
  /\ setup \in Setups
  /\ supported = [e \in Endpoints |-> 0] /\ fit = Unknown
  /\ req = [r \in Requests |-> Idle] /\ ended = None

-----------------------------------------------------------------------------
(* endpoints.rs: the endpoints to ask, best first.                          *)

\* Mutant: the preferred endpoint comes first though it may lose a part.
TierPreferred(e) ==
  IF e = setup.preferred THEN 3
  ELSE IF e # setup.down /\ setup.fidelity[e] = "degraded" THEN 6 ELSE 5

Tier(e) ==
  IF e # setup.down /\ setup.fidelity[e] = "degraded" THEN 6
  ELSE IF e = setup.down THEN (IF supported[e] > 0 THEN 1 ELSE 2)
  ELSE IF e = setup.preferred THEN 3
  ELSE IF supported[e] > 0 THEN 4 ELSE 5

Ordered ==
  IF ~setup.adaptive THEN <<setup.preferred>>
  ELSE <<setup.down>>
       \o Keep(<<setup.preferred>>, Endpoints \ {setup.down})
       \o Keep(Inference, Endpoints \ {setup.down, setup.preferred})

Expresses(e) ==
  setup.fidelity[e] = "lossless" \/ (setup.fidelity[e] = "degraded" /\ setup.degrade)

\* The messages account also counts tokens.
Plausible == setup.adaptive \/ setup.preferred = "messages"

\* The endpoint of the request's own protocol makes the ones behind it unnecessary.
EndpointChoices(refused) ==
  IF setup.down = "count"
  THEN IF Plausible /\ "count" \notin refused THEN <<"count">> ELSE <<>>
  ELSE LET left == Keep(Ordered, Endpoints \ refused)
           upto == SelectInSeq(left, LAMBDA e : e = setup.down)
           near == IF upto = 0 THEN left ELSE SubSeq(left, 1, upto)
           able == Keep(near, {e \in Endpoints : e = setup.down \/ Expresses(e)})
           of(t) == Keep(able, {e \in Endpoints : Tier(e) = t})
           best == of(1) \o of(2) \o of(3) \o of(4) \o of(5) \o of(6)
       IN  SubSeq(best, 1, IF Len(best) < MaxEndpoints THEN Len(best) ELSE MaxEndpoints)

\* may_try_other_endpoint.
Speculative(e) == e # setup.preferred

-----------------------------------------------------------------------------
(* evidence.rs: the ladder of levels.                                       *)

\* EffortFit::live.
Facts(f) ==
  [accepted |-> IF f.yes > 0 THEN f.accepted ELSE {},
   rejected |-> IF f.no > 0 THEN f.rejected ELSE {},
   omitted  |-> f.no > 0 /\ f.omitted]

Above(l, S) == {h \in S : h > l}
Below(l, S) == {h \in S : h < l}
Lowest(S)  == CHOOSE l \in S : \A h \in S : l <= h
Highest(S) == CHOOSE l \in S : \A h \in S : l >= h

\* Mutant: the upstream's default comes before the levels that were not tried.
PlanModest(facts, l) ==
  IF l \notin facts.rejected THEN l
  ELSE IF Above(l, facts.accepted) # {} THEN Lowest(Above(l, facts.accepted)) ELSE Omit

\* EffortFacts::plan: what is sent for the level l.
Plan(facts, l) ==
  LET untried == Levels \ facts.rejected
  IN  CASE l \in untried -> l
        [] l \notin untried /\ Above(l, facts.accepted) # {} -> Lowest(Above(l, facts.accepted))
        [] l \notin untried /\ Above(l, facts.accepted) = {} /\ Above(l, untried) # {}
             -> Lowest(Above(l, untried))
        [] OTHER ->
             CASE ~facts.omitted -> Omit
               [] facts.omitted /\ Below(l, facts.accepted) # {} -> Highest(Below(l, facts.accepted))
               [] facts.omitted /\ Below(l, facts.accepted) = {} /\ Below(l, untried) # {}
                    -> Highest(Below(l, untried))
               [] OTHER -> Omit

\* A level that the model's contract lacks is folded into the strongest one.
Folded(l) == IF l = XHigh /\ ~setup.xhigh THEN MaxLevel ELSE l

\* align_thinking: the shape of a body for the endpoint e.
ShapeFor(e, f) ==
  CASE e # "messages" -> Plain
    [] e = "messages" /\ setup.asks \in Levels -> Plan(Facts(f), Folded(setup.asks))
    [] OTHER -> setup.asks

Accepted(f, l) == [f EXCEPT !.accepted = @ \cup {l}, !.rejected = @ \ {l}, !.yes = Life]

Rejected(f, l) == [f EXCEPT !.rejected = @ \cup {l}, !.accepted = @ \ {l}, !.no = Life]

-----------------------------------------------------------------------------
(* walk_endpoints.                                                          *)

Shape(r) == Last(req[r].shapes)

Goes(r, new) == req' = [req EXCEPT ![r] = new] /\ ended' = None

\* The attempt is over; outcome is what health is told.
Ends(r, result, outcome) ==
  /\ req' = [req EXCEPT ![r] = Idle]
  /\ ended' = [result |-> result, outcome |-> outcome, endpoint |-> req[r].endpoint,
               shape |-> IF req[r].shapes = <<>> THEN Plain ELSE Shape(r), lost |-> req[r].lost]

To(r, plan) == [req[r] EXCEPT !.pc = "planned", !.endpoint = Head(plan), !.shapes = <<>>]

\* A request reaches the target with the endpoints of its plan.
Start(r) ==
  /\ req[r].pc = "idle"
  /\ LET plan == EndpointChoices({})
     IN  plan # <<>> /\ Goes(r, To(r, plan))
  /\ UNCHANGED <<setup, supported, fit>>

\* prepare: the facts of this moment.
Prepare(r) ==
  /\ req[r].pc = "planned"
  /\ Goes(r, [req[r] EXCEPT !.pc = "sent", !.shapes = <<ShapeFor(req[r].endpoint, fit)>>])
  /\ UNCHANGED <<setup, supported, fit>>

Serves(r) == req[r].pc = "sent" /\ req[r].endpoint \in setup.served

\* The upstream's say on a shape.
Takes(s) == s # Plain => setup.takes[s] \in {"yes", "maybe"}
Refuses(s) == s # Plain /\ setup.takes[s] \in {"no", "maybe"}

\* note_attempt of a success: the endpoint is there and the level is taken.
Succeeds(r) ==
  /\ Serves(r) /\ Takes(Shape(r))
  /\ supported' = [supported EXCEPT ![req[r].endpoint] = Life]
  /\ fit' = IF Shape(r) \in Levels THEN Accepted(fit, Shape(r)) ELSE fit
  /\ Ends(r, "ok", "success")
  /\ UNCHANGED setup

\* Mutant: what is refused is taken for a ceiling.
NotedCeiling(r) == [fit EXCEPT !.rejected = @ \cup Shape(r)..MaxLevel,
                               !.accepted = @ \ (Shape(r)..MaxLevel), !.no = Life]

Noted(r) == Rejected(fit, Shape(r))

\* classify_upstream_error: the upstream refuses the level.
RefusesLevel(r) ==
  /\ Serves(r) /\ Shape(r) \in Levels /\ Refuses(Shape(r))
  /\ fit' = Noted(r)
  /\ Goes(r, [req[r] EXCEPT !.pc = "refused"])
  /\ UNCHANGED <<setup, supported>>

\* Mutant: the next shape is compared with the last one only.
SentLast(r, s) == s = Shape(r)

SentBefore(r, s) == \E i \in DOMAIN req[r].shapes : req[r].shapes[i] = s

\* prepare_with_reject notes it once more; a shape that went out before does not
\* go out again.
Retry(r) ==
  /\ req[r].pc = "refused"
  /\ IF Len(req[r].shapes) > MaxRetries
     THEN Ends(r, "effort", "neutral") /\ UNCHANGED fit
     ELSE LET next == ShapeFor(req[r].endpoint, Noted(r))
          IN  /\ fit' = Noted(r)
              /\ IF SentBefore(r, next) THEN Ends(r, "effort", "neutral")
                 ELSE Goes(r, [req[r] EXCEPT !.pc = "sent", !.shapes = Append(@, next)])
  /\ UNCHANGED <<setup, supported>>

\* The upstream refuses to think without a level, too.  What is meant to note it asks
\* for a level and for none at once.
RefusesOmission(r) ==
  /\ Serves(r) /\ Shape(r) = Omit /\ Refuses(Omit)
  /\ Ends(r, "effort", "neutral")
  /\ UNCHANGED <<setup, supported, fit>>

\* attempt_inner: 404 or 405 for an endpoint that is only guessed.
EndpointRefused(r) ==
  /\ req[r].pc = "sent" /\ req[r].endpoint \notin setup.served /\ Speculative(req[r].endpoint)
  /\ IF req[r].endpoint = "count" THEN Ends(r, "final", "neutral")
     ELSE Goes(r, [req[r] EXCEPT !.pc = "missing", !.refused = @ \cup {req[r].endpoint}])
  /\ UNCHANGED <<setup, supported, fit>>

\* Mutant: a guess that failed counts against the target.
BlamesGuess == "fault"

\* classify_outcome of a 404 or 405.
Missing == "neutral"

\* endpoint_plan: the plan without what was refused.
Replan(r) ==
  /\ req[r].pc = "missing"
  /\ LET plan == EndpointChoices(req[r].refused)
     IN  IF plan = <<>> \/ Cardinality(req[r].refused) = MaxEndpoints
         THEN Ends(r, "switch", Missing)
         ELSE Goes(r, To(r, plan))
  /\ UNCHANGED <<setup, supported, fit>>

\* The preferred endpoint is missing: 404 may be switched, 405 is the client's.
PreferredMissing(r, status) ==
  /\ req[r].pc = "sent" /\ req[r].endpoint \notin setup.served /\ ~Speculative(req[r].endpoint)
  /\ IF status = "404" THEN Ends(r, "switch", Missing) ELSE Ends(r, "final", "neutral")
  /\ UNCHANGED <<setup, supported, fit>>

\* The other refusals of classify_upstream_error, with what health is told.
Refusals ==
  [server |-> <<"switch", "fault">>, key |-> <<"switch", "key_invalid">>,
   quota |-> <<"switch", "quota">>, limit |-> <<"switch", "rate_limited">>,
   slow |-> <<"timeout", "neutral">>, body |-> <<"switch", "fault">>,
   filter |-> <<"filtered", "neutral">>, session |-> <<"unroutable", "neutral">>,
   signature |-> <<"opaque", "neutral">>, vague |-> <<"opaque", "neutral">>,
   request |-> <<"final", "neutral">>]

Fails(r, how) ==
  /\ Serves(r)
  /\ Ends(r, Refusals[how][1], Refusals[how][2])
  /\ UNCHANGED <<setup, supported, fit>>

\* The deadline of the request: between two tries, or while one is out.
TimeOver(r) ==
  /\ req[r].pc \in {"sent", "refused", "missing"}
  /\ CASE req[r].pc = "sent" -> Ends(r, "timeout", "neutral")
       [] req[r].pc = "refused" -> Ends(r, "late", "neutral")
       [] req[r].pc = "missing" -> Ends(r, "switch", Missing)
  /\ UNCHANGED <<setup, supported, fit>>

Active(r) == req[r].pc # "idle"

\* The requests, when facts are forgotten or not.
Losing(loss) == [r \in Requests |-> IF Active(r) /\ loss THEN [req[r] EXCEPT !.lost = TRUE] ELSE req[r]]

\* Facts grow old, each kind by itself.
Ages ==
  /\ \/ fit.yes + fit.no > 0
     \/ \E e \in Endpoints : supported[e] > 0
  /\ supported' = [e \in Endpoints |-> IF supported[e] = 0 THEN 0 ELSE supported[e] - 1]
  /\ fit' = [fit EXCEPT !.yes = IF @ = 0 THEN 0 ELSE @ - 1, !.no = IF @ = 0 THEN 0 ELSE @ - 1]
  /\ req' = Losing(1 \in {fit.yes, fit.no})
  /\ ended' = None /\ UNCHANGED setup

\* Evidence::clear, when an account is changed.
Clear ==
  /\ supported' = [e \in Endpoints |-> 0] /\ fit' = Unknown
  /\ req' = Losing(TRUE) /\ ended' = None
  /\ UNCHANGED setup

Next ==
  \/ \E r \in Requests :
       \/ Start(r) \/ Prepare(r) \/ Succeeds(r) \/ RefusesLevel(r) \/ Retry(r)
       \/ RefusesOmission(r) \/ EndpointRefused(r) \/ Replan(r) \/ TimeOver(r)
       \/ \E status \in {"404", "405"} : PreferredMissing(r, status)
       \/ \E how \in DOMAIN Refusals : Fails(r, how)
  \/ Ages \/ Clear

Spec == Init /\ [][Next]_vars

-----------------------------------------------------------------------------
(* Properties.                                                              *)

\* A level that the upstream always takes is never held for refused, whatever was
\* asked for and sent around it.  (EffortFacts::reject: the facts are of the shape.)
TakenIsNotRefused ==
  \A l \in Levels : setup.takes[l] = "yes" => l \notin Facts(fit).rejected

\* A request gives up on its level only when the upstream takes neither that one nor
\* a stronger one, nor none, unless facts are forgotten under it.
\* (EffortFacts::plan.)
TakenIsFound ==
  /\ ended.result = "effort" /\ ended.outcome = "neutral" /\ ~ended.lost
  /\ setup.asks \in Levels /\ \A l \in Levels : setup.takes[l] # "maybe"
  => /\ \A l \in Levels : l >= Folded(setup.asks) => setup.takes[l] = "no"
     /\ setup.takes[Omit] # "yes"

\* However the facts change meanwhile, a shape goes to an endpoint once.
\* (sent_shapes: A, B, A was seen in production.)
ShapesDiffer ==
  \A r \in Requests :
    \A i, j \in DOMAIN req[r].shapes : req[r].shapes[i] = req[r].shapes[j] => i = j

\* An endpoint that loses a part of the request is asked only when those that lose
\* nothing have refused.  (tier.)
DegradedLast ==
  \A r \in Requests :
    /\ req[r].pc = "sent" /\ req[r].endpoint # setup.down
    /\ setup.fidelity[req[r].endpoint] = "degraded"
    => \A e \in ToSet(Ordered) :
         (e = setup.down \/ setup.fidelity[e] = "lossless") => e \in req[r].refused

\* A guessed endpoint that is not there is nobody's fault.  (classify_outcome.)
GuessIsFree ==
  ended.result # "none" /\ ended.endpoint \notin setup.served
  => ended.outcome \notin {"fault", "key_invalid"}

\* That the upstream refused to think without a level is remembered, so that the
\* next request comes down a level (passthrough.rs:3829).
OmissionRemembered ==
  ended.result = "effort" /\ ended.outcome = "neutral" /\ ended.shape = Omit
  => Facts(fit).omitted

\* A refusal that has grown old does not come back (evidence.rs:42).
OldStaysOld ==
  [][\A l \in Levels :
       l \in Facts(fit)'.rejected /\ l \notin Facts(fit).rejected
       => \E r \in Requests : req[r].pc \in {"sent", "refused"} /\ Shape(r) = l]_vars

\* A level that the contract of the model lacks is never sent (anthropic.rs:1141).
ContractKept ==
  \A r \in Requests : setup.xhigh \/ \A i \in DOMAIN req[r].shapes : req[r].shapes[i] # XHigh
=============================================================================
