----------------------------- MODULE MCRequests -----------------------------
(***************************************************************************)
(* A request from the plan to the end of its answer, in one run: the walk  *)
(* over the targets until an attempt concludes, and the delivery of a      *)
(* streamed answer.  They share no state here, and a behaviour is of one   *)
(* of them: the other part rests.                                          *)
(***************************************************************************)
EXTENDS Walk

CONSTANTS
  t1, t2, t3, k1, k2, k3, k4,
  Paths, Interval, Idle, Grace, Deadline, Attempts, MaxFrames   \* Delivery

ASSUME StreamAssumption ==
  /\ {Interval, Idle, Grace, Deadline, MaxFrames} \subseteq Nat
  /\ Attempts \subseteq Nat /\ 1 \in Attempts
  /\ None \notin 1..MaxFrames

VARIABLES
  part,                                            \* "walk" or "stream"
  path, strip, attempt, phase, up, sent, cut, held, emitted, private, out, noted,
  timer, verdict                                   \* Delivery

\* The account of t1 has two keys.
PoolOfTwo == [t \in Targets |-> IF t = t1 THEN {k1, k2} ELSE IF t = t2 THEN {k3} ELSE {k4}]

\* Two layers; the first one has a lossless and a degraded candidate.
Ladder ==
  {<<[lossless |-> <<t1>>, degraded |-> <<t2>>], [lossless |-> <<t3>>, degraded |-> <<>>]>>}

\* One layer of lossless candidates.
Flat == {<<[lossless |-> <<t1, t2, t3>>, degraded |-> <<>>]>>}

BothPlans == Ladder \cup Flat

Stream == INSTANCE Delivery WITH seen <- noted

streamVars == <<path, strip, attempt, phase, up, sent, cut, held, emitted, private, out, noted,
                timer, verdict>>

StreamRests ==
  /\ path = None /\ strip = None /\ attempt = None /\ phase = None /\ up = None /\ sent = None
  /\ cut = None /\ held = None /\ emitted = None /\ private = None /\ out = None
  /\ noted = None /\ timer = None /\ verdict = None

WalkRests ==
  /\ plan = None /\ bound = None /\ pc = None /\ stage = None /\ layer = None /\ todo = None
  /\ busy = None /\ cand = None /\ key = None /\ back = None /\ attempted = None
  /\ switches = None /\ opaque = None /\ filtered = None /\ opaques = None /\ efforts = None
  /\ retryAfter = None /\ retried = None /\ answer = None /\ last = None /\ seen = None
  /\ sends = None

RequestInit ==
  \/ part = "walk" /\ Init /\ StreamRests
  \/ part = "stream" /\ Stream!Init /\ WalkRests

RequestNext ==
  /\ UNCHANGED part
  /\ \/ part = "walk" /\ Next /\ UNCHANGED streamVars
     \/ part = "stream" /\ Stream!Next /\ UNCHANGED vars

requestVars == <<part, vars, streamVars>>

RequestSpec == RequestInit /\ [][RequestNext]_requestVars /\ WF_vars(Next) /\ Stream!Fairness

(* Both parts keep to their types. *)
Typed ==
  /\ part = "walk" => TypeOK
  /\ part = "stream" => Stream!TypeOK

(* Walk: degraded candidates and lower layers are used only when what is       *)
(* better was sent to or cannot be used, however failures, waits and retries   *)
(* follow one another; and a target gets a bounded number of attempts.         *)
Ordered == part = "walk" => LosslessFirst /\ HigherLayersFirst /\ SendsBounded

(* Delivery.OneVoice: the client hears one upstream only, and nothing after an *)
(* error.                                                                      *)
OneVoice == part = "stream" => Stream!OneVoice

(* Delivery.NothingLost: the client gets the upstream's frames in their order, *)
(* each once, and all of them when the stream ended well.                      *)
NothingLost == part = "stream" => Stream!NothingLost

(* Every request gets its answer, and a stream that flows is settled.          *)
Ends == (part = "walk" ~> answer # None) /\ Stream!RelayEnds
=============================================================================
