----------------------------- MODULE MCAttempt -----------------------------
(***************************************************************************)
(* Finite instances of Attempt: the upstreams that a request may meet.     *)
(***************************************************************************)
EXTENDS Attempt

Takes3(a, b, c, o) == (0 :> a) @@ (1 :> b) @@ (2 :> c) @@ (Omit :> o)

Fits ==
  << [chat |-> "lossless", responses |-> "lossless", messages |-> "lossless", count |-> "none"],
     [chat |-> "degraded", responses |-> "lossless", messages |-> "degraded", count |-> "none"],
     [chat |-> "lossless", responses |-> "degraded", messages |-> "none", count |-> "none"] >>

Ways == {"yes", "no", "maybe"}

\* At most one level is taken now and then, and then none is needed.
Mixes ==
  {t \in Ways \X Ways \X Ways \X {"yes", "no"} :
     LET now == {i \in 1..3 : t[i] = "maybe"}
     IN  Cardinality(now) = 0 \/ (Cardinality(now) = 1 /\ t[4] = "yes")}

\* An account of Messages: all the ways to take the levels.
Ladders ==
  {[preferred |-> "messages", adaptive |-> FALSE, degrade |-> FALSE, xhigh |-> FALSE,
    down |-> "messages", asks |-> a, served |-> {"messages"}, fidelity |-> Fits[1],
    takes |-> Takes3(t[1], t[2], t[3], t[4])] :
     a \in {0, 1}, t \in Mixes}

\* The accounts and what they serve, for a body without thinking.
Roads ==
  {[preferred |-> p, adaptive |-> a, degrade |-> TRUE, xhigh |-> TRUE,
    down |-> d, asks |-> Plain, served |-> s, fidelity |-> f, takes |-> Takes3("yes", "yes", "yes", "yes")] :
     p \in {"chat", "messages"}, a \in BOOLEAN, d \in {"chat", "responses", "count"},
     f \in ToSet(Fits), s \in {{}, {"chat"}, {"responses", "messages"}}}

MCSetups == Ladders \cup Roads

\* Requests are alike.
Alike == Permutations(Requests)

(* Attempt, with its types: however the facts change meanwhile, a shape goes to *)
(* an endpoint once.                                                            *)
SentOnce == TypeOK /\ ShapesDiffer

(* Attempt: an endpoint that loses a part of the request is asked only when     *)
(* those that lose nothing have refused, and a guessed endpoint that is not     *)
(* there is nobody's fault.                                                     *)
EndpointsInOrder == DegradedLast /\ GuessIsFree
=============================================================================
