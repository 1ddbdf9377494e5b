------------------------------- MODULE MCJobs -------------------------------
(***************************************************************************)
(* What the gateway keeps between requests: the tasks that it runs for a   *)
(* client, the conversations that go on from a stored response, and the    *)
(* refreshes of the prices.  They share no state, and a behaviour is of    *)
(* one of them: the other parts rest.                                      *)
(***************************************************************************)
EXTENDS Background

CONSTANTS
  Accounts, Modes, Prices, Peaks, Initial, Peak, PeakHours, Interval, Backoff, LowGrace,
  MediumGrace, SystemicGrace, SystemicWindow, SystemicMin, Slow, MaxTime, MaxEvents,
  Hosts,        \* the accounts of ResponseChain
  Keys, KeysOf, Native, Deleters, MaxTurns,
  StreamModes,  \* its Modes
  Areas         \* the parts that a run looks at

VARIABLES
  part,      \* "tasks", "chains" or "prices"
  now, mode, entry, systemic, rows, due, failures, round, work, editor, events, lost,
  stored, turn, deleter, slips

Market == INSTANCE Multiplier
Chains == INSTANCE ResponseChain
            WITH Accounts <- Hosts, Modes <- StreamModes, row <- stored, faults <- slips

ASSUME JobsAssumption == Market!PriceAssumption /\ Chains!ChainAssumption

\* A cfg cannot write a sequence or a function.
Ladder == <<1, 2>>
OneKey == [a \in Hosts |-> Keys]

priceVars == <<now, mode, entry, systemic, rows, due, failures, round, work, editor, events, lost>>
chainVars == <<stored, turn, deleter, slips>>

PricesRest ==
  /\ now = None /\ mode = None /\ entry = None /\ systemic = None /\ rows = None /\ due = None
  /\ failures = None /\ round = None /\ work = None /\ editor = None /\ events = None
  /\ lost = None

JobsInit ==
  /\ Init
  /\ Chains!Init
  /\ part \in Areas
  /\ \/ part \in {"tasks", "chains"} /\ PricesRest
     \/ part = "prices" /\ Market!Init

JobsNext ==
  /\ UNCHANGED part
  /\ \/ part = "tasks" /\ Next /\ UNCHANGED <<priceVars, chainVars>>
     \/ part = "chains" /\ Chains!Next /\ UNCHANGED <<vars, priceVars>>
     \/ part = "prices" /\ Market!Next /\ UNCHANGED <<vars, chainVars>>

jobVars == <<part, vars, priceVars, chainVars>>

\* The runtime polls the tasks that were spawned, those that settle a stream among them.
Polled == Fairness /\ \A t \in Chains!Turns : WF_chainVars(Chains!Settle(t))

JobsSpec == JobsInit /\ [][JobsNext]_jobVars /\ Polled

(* Multiplier: its types, and a price that cannot be confirmed is not used     *)
(* beyond the longest grace period.                                            *)
GraceEnds == part = "prices" => Market!TypeOK /\ Market!GraceEnds

(* ResponseChain: a turn that goes on from an earlier one is never sent as the *)
(* first turn of a conversation.                                               *)
NeverAsNew == Chains!NeverAsNew

(* ResponseChain: an upstream id is sent to no account but the one that made   *)
(* the response.                                                               *)
HomeOnly == Chains!HomeOnly

(* ResponseChain: the row of a response was written before the client saw its  *)
(* id, or its statement failed.                                                *)
RecordedFirst == Chains!RecordedFirst

(* ResponseChain: a stream that broke ceases to be something to go on from.    *)
BrokenIsGone == Chains!BrokenIsGone
=============================================================================
