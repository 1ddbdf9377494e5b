---------------------------- MODULE ResponseChain ----------------------------
(***************************************************************************)
(* Conversations over /v1/responses: gateway/responses.rs, with the places *)
(* of gateway/passthrough.rs and gateway/settle.rs that record a response. *)
(*                                                                         *)
(* A turn of a conversation refers to the response of an earlier turn by   *)
(* the id the gateway gave it.  A row of response_states says where that   *)
(* response was made and, if it may be stored, what was said, so that the  *)
(* turn can go on where the response is known or be replayed elsewhere.    *)
(*                                                                         *)
(* What was said is a set of parts: what a turn asked and what it was      *)
(* answered.  Every attempt that gets an answer draws an id for it, writes *)
(* the row and then, in a step of its own, lets the client see the id.     *)
(* The row of a stream has no answer then, and a spawned task writes or    *)
(* deletes it when the stream is over.  Between any two awaits other       *)
(* turns, deletes, expiry and a crash may come.                            *)
(***************************************************************************)
EXTENDS Naturals

CONSTANTS
  Keys,
  MaxTurns,    \* bound: turns, numbered in the order in which they begin
  Accounts,    \* each with one endpoint
  KeysOf,      \* the keys of each account
  Native,      \* the accounts that speak the Responses protocol themselves
  Modes,       \* does a turn stream: BOOLEAN, or one of its members
  Deleters,    \* bound: requests to delete a response
  MaxFaults,   \* bound: statements that fail and deaths of the process
  None

ChainAssumption ==
  /\ MaxTurns \in Nat /\ MaxFaults \in Nat
  /\ KeysOf \in [Accounts -> SUBSET Keys]
  /\ Native \subseteq Accounts
  /\ Modes \subseteq BOOLEAN
  /\ None \notin Accounts /\ None \notin Keys /\ None \notin Nat

VARIABLES
  row,      \* response_states, under the ids that a client has or may yet get
  turn,     \* the requests
  deleter,  \* [pc, of] of a DELETE
  faults

vars == <<row, turn, deleter, faults>>

-----------------------------------------------------------------------------
Turns == 1..MaxTurns

Asked(t)    == <<"ask", t>>
Answered(t) == <<"answer", t>>
Parts       == {"ask", "answer"} \X Turns

\* native: is there an upstream id.  parts: the sealed body, empty if there is none.
Rows == [owner : Accounts, key : Keys, native : BOOLEAN, parts : SUBSET Parts,
         is : {"live", "expired"}]

\* There is no row: there was none yet, its statement failed, or it was deleted.
Absences  == {"never", "failed", "removed"}
Lacks(is) == [owner |-> None, key |-> None, native |-> FALSE, parts |-> {}, is |-> is]
Gaps      == {Lacks(is) : is \in Absences}
NoRow     == Lacks("never")

\* lookup finds rows that have not expired.
Found(t) == row[t].is = "live"

\* Before the answer goes out; in the stream, or the task spawned after it; done.  A stream that
\* broke, and was settled so, is "broken".
Early   == {"walk", "called", "record", "answer"}
Late    == {"stream", "final", "saving", "deleting"}
Done    == {"answered", "over", "broken", "failed", "gone"}

\* ref: the turn it goes on from.  pinned, replay: where that was made, and what was said.
\* blamed: the accounts charged with a failure that was none.  at, with: the account and the
\* key last called.  ctx: what was said to it.  named: its answer has an id of its own.
Plans == [pc      : {"idle"} \cup Early \cup Late \cup Done,
          ref     : Turns \cup {None},
          keeps   : BOOLEAN,
          streams : BOOLEAN,
          pinned  : Native \cup {None},
          replay  : SUBSET Parts,
          blamed  : SUBSET Accounts,
          at      : Accounts \cup {None},
          with    : Keys \cup {None},
          ctx     : SUBSET Parts,
          named   : BOOLEAN]

Unborn == [pc |-> "idle", ref |-> None, keeps |-> FALSE, streams |-> FALSE, pinned |-> None,
           replay |-> {}, blamed |-> {}, at |-> None, with |-> None, ctx |-> {},
           named |-> FALSE]

\* A DELETE that has not come, or that ended without an answer.
Idle == [pc |-> "idle", of |-> None]

TypeOK ==
  /\ row \in [Turns -> Rows \cup Gaps]
  /\ turn \in [Turns -> Plans]
  /\ deleter \in [Deleters -> [pc : {"idle", "upstream", "local", "done"},
                               of : Turns \cup {None}]]
  /\ faults \in 0..MaxFaults

Init ==
  /\ row = [t \in Turns |-> NoRow]
  /\ turn = [t \in Turns |-> Unborn]
  /\ deleter = [d \in Deleters |-> Idle]
  /\ faults = 0

Fails == faults < MaxFaults /\ faults' = faults + 1

-----------------------------------------------------------------------------
(* Forms of the definitions below with a bug in them *)

\* A turn without its history goes out all the same.
HasHistoryAlways(t, a) == TRUE

\* The upstream id goes to every account that speaks the protocol.
GoesOnAnywhere(t, a) == turn[t].pinned # None /\ a \in Native

\* store: false is overlooked.
SealsAlways(t, parts) == parts

\* The answer is sent while its row is being written.
GoesOutEarly == {"record", "answer"}

\* The id of a converted response is taken for one of the upstream's.
HomeOfAny(r) == row[r].owner

\* A stream that broke leaves its row.
BreaksLeaving(t) == row

-----------------------------------------------------------------------------
(* The parts of a request *)

\* The client has the id of the response.
Shown(t) == turn[t].pc \in Late \cup {"answered", "over", "broken"}

\* prepare_inner: the reference goes out as the upstream's own id ...
GoesOn(t, a) == turn[t].pinned = a /\ a \in Native

\* ... or what was said goes out with it; a turn that can have neither is expired.
HasHistory(t, a) == turn[t].ref = None \/ GoesOn(t, a) \/ turn[t].replay # {}

\* What the upstream is told.  Of a response of its own it knows all.
Context(t, a) ==
  {Asked(t)} \cup IF turn[t].ref # None /\ GoesOn(t, a)
                    THEN turn[turn[t].ref].ctx \cup {Answered(turn[t].ref)}
                    ELSE turn[t].replay

\* should_store and stored_body
Seals(t, parts) == IF turn[t].keeps THEN parts ELSE {}

\* record_state
Record(t, parts) ==
  [row EXCEPT ![t] = [owner |-> turn[t].at, key |-> turn[t].with,
                      native |-> turn[t].named,
                      parts |-> Seals(t, parts), is |-> "live"]]

At(t, from, to) == turn[t].pc = from /\ turn' = [turn EXCEPT ![t].pc = to]

\* The handler is left, with or without a response; the plan of the walk is dropped.
Left(t, to) ==
  IF to \in {"failed", "gone"}
    THEN [Unborn EXCEPT !.pc = to]
    ELSE [turn[t] EXCEPT !.pc = to, !.pinned = None, !.replay = {}, !.blamed = {}]

Leaves(t, from, to) == turn[t].pc = from /\ turn' = [turn EXCEPT ![t] = Left(t, to)]

-----------------------------------------------------------------------------
(* resolve_request *)

Begins(t) == turn[t].pc = "idle" /\ \A u \in 1..(t - 1) : turn[u].pc # "idle"

\* The first turn of a conversation.
Opens(t, keeps, streams) ==
  /\ Begins(t)
  /\ turn' = [turn EXCEPT ![t] =
       [Unborn EXCEPT !.pc = "walk", !.keeps = keeps, !.streams = streams]]
  /\ UNCHANGED <<row, deleter, faults>>

\* The account that goes on from r, if there is one.
Home(r) == IF row[r].native THEN row[r].owner ELSE None

Continues(t, r, keeps, streams) ==
  /\ Begins(t)
  /\ Shown(r) /\ Found(r)
  /\ turn' = [turn EXCEPT ![t] =
       IF Home(r) = None /\ row[r].parts = {}
         THEN Left(t, "failed")
         ELSE [Unborn EXCEPT !.pc = "walk", !.ref = r, !.keeps = keeps, !.streams = streams,
                             !.pinned = Home(r), !.replay = row[r].parts]]
  /\ UNCHANGED <<row, deleter, faults>>

\* An id that is not found, or has expired, ends the request.
Unknown(t, r) ==
  /\ Begins(t)
  /\ Shown(r) /\ ~Found(r)
  /\ turn' = [turn EXCEPT ![t] = Left(t, "failed")]
  /\ UNCHANGED <<row, deleter, faults>>

-----------------------------------------------------------------------------
(* The walk over the candidates *)

Call(t, a, k) ==
  /\ turn[t].pc = "walk"
  /\ k \in KeysOf[a]
  /\ HasHistory(t, a)
  /\ turn' = [turn EXCEPT ![t].pc = "called", ![t].at = a, ![t].with = k,
                          ![t].ctx = Context(t, a)]
  /\ UNCHANGED <<row, deleter, faults>>

\* An account of the other protocols is no candidate then; one of the same protocol is, and the
\* attempt fails before it is sent.  It counts as a fault of the account.
Refuse(t, a) ==
  /\ turn[t].pc = "walk"
  /\ ~HasHistory(t, a) /\ a \in Native
  /\ turn' = [turn EXCEPT ![t].blamed = @ \cup {a}]
  /\ UNCHANGED <<row, deleter, faults>>

\* An upstream that has lost the response it is to go on from refuses too.
CallFails(t) ==
  /\ At(t, "called", "walk")
  /\ UNCHANGED <<row, deleter, faults>>

\* A whole answer, or the first of a stream.  Only a Responses upstream gives it an id, and the
\* gateway may not find that one (first_response_id).
Answers(t, named) ==
  /\ turn[t].pc = "called"
  /\ named => turn[t].at \in Native
  /\ turn' = [turn EXCEPT ![t].pc = "record", ![t].named = named]
  /\ UNCHANGED <<row, deleter, faults>>

\* record_response_state is awaited: a whole answer is written, of a stream what was asked.
Recorded(t) ==
  /\ At(t, "record", "answer")
  /\ row' = Record(t, IF turn[t].streams THEN {Asked(t)} ELSE {Asked(t), Answered(t)})
  /\ UNCHANGED <<deleter, faults>>

\* A row that cannot be written is logged.
RecordFails(t) ==
  /\ At(t, "record", "answer")
  /\ row' = [row EXCEPT ![t] = Lacks("failed")]
  /\ Fails
  /\ UNCHANGED deleter

\* The head of a stream of another protocol is recorded before its first content has come.  If
\* none does, the walk goes on and the next attempt draws another id.  The row stays, as it does
\* when the client leaves or the process dies here, but nobody can name it.
HeadFails(t) ==
  /\ turn[t].streams /\ turn[t].at \notin Native
  /\ At(t, "answer", "walk")
  /\ row' = [row EXCEPT ![t] = NoRow]
  /\ UNCHANGED <<deleter, faults>>

\* Where the code gives the response, or the head of the stream, to the client.
GoesOut == {"answer"}

\* The client sees the id.
Answer(t) ==
  /\ \E from \in GoesOut : Leaves(t, from, IF turn[t].streams THEN "stream" ELSE "answered")
  /\ UNCHANGED <<row, deleter, faults>>

GiveUp(t) ==
  /\ Leaves(t, "walk", "failed")
  /\ UNCHANGED <<row, deleter, faults>>

\* The client disconnects, and its handler is dropped.
Leave(t) ==
  /\ \E from \in Early : Leaves(t, from, "gone")
  /\ row' = [row EXCEPT ![t] = NoRow]
  /\ UNCHANGED <<deleter, faults>>

-----------------------------------------------------------------------------
(* The stream and its settlement *)

\* The final object, with all of the answer, has come and was passed on.
Finishes(t) ==
  /\ At(t, "stream", "final")
  /\ UNCHANGED <<row, deleter, faults>>

\* settle_one: the stream ends, or its client leaves, after the final object ...
EndsWell(t) ==
  /\ At(t, "final", "saving")
  /\ UNCHANGED <<row, deleter, faults>>

\* ... or before it; an error, or a timeout, counts also after it.
Breaks(t) ==
  /\ \E from \in {"stream", "final"} : At(t, from, "deleting")
  /\ UNCHANGED <<row, deleter, faults>>

\* The spawned tasks
Save(t) ==
  /\ At(t, "saving", "over")
  /\ row' = Record(t, {Asked(t), Answered(t)})
  /\ UNCHANGED <<deleter, faults>>

Broken(t) == [row EXCEPT ![t] = Lacks("removed")]

Drop(t) ==
  /\ At(t, "deleting", "broken")
  /\ row' = Broken(t)
  /\ UNCHANGED <<deleter, faults>>

SettleFails(t) ==
  /\ \E from \in {"saving", "deleting"} : At(t, from, "over")
  /\ Fails
  /\ UNCHANGED <<row, deleter>>

-----------------------------------------------------------------------------
(* destroy *)

DeleteFinds(d, r) ==
  /\ deleter[d].pc = "idle"
  /\ Shown(r) /\ Found(r)
  /\ deleter' = [deleter EXCEPT ![d] = [pc |-> IF row[r].native THEN "upstream" ELSE "local",
                                        of |-> r]]
  /\ UNCHANGED <<row, turn, faults>>

DeleterAt(d, from, to) ==
  deleter[d].pc = from /\ deleter' = [deleter EXCEPT ![d].pc = to]

\* A delete that fails upstream is logged.  (What the upstream still has shows in CallFails.)
DeleteUpstream(d) ==
  /\ DeleterAt(d, "upstream", "local")
  /\ UNCHANGED <<row, turn, faults>>

DeleteLocal(d) ==
  /\ DeleterAt(d, "local", "done")
  /\ row' = [row EXCEPT ![deleter[d].of] = Lacks("removed")]
  /\ UNCHANGED <<turn, faults>>

DeleteFails(d) ==
  /\ deleter[d].pc = "local"
  /\ deleter' = [deleter EXCEPT ![d] = Idle]
  /\ Fails
  /\ UNCHANGED <<row, turn>>

DeleterLeaves(d) ==
  /\ deleter[d].pc \in {"upstream", "local"}
  /\ deleter' = [deleter EXCEPT ![d] = Idle]
  /\ UNCHANGED <<row, turn, faults>>

-----------------------------------------------------------------------------
(* Expiry, and the death of the process *)

\* The retention may be 0 days: a row may expire at once.
Expire(t) ==
  /\ Found(t)
  /\ row' = [row EXCEPT ![t].is = "expired"]
  /\ UNCHANGED <<turn, deleter, faults>>

Prune(t) ==
  /\ row[t].is = "expired"
  /\ row' = [row EXCEPT ![t] = Lacks("removed")]
  /\ UNCHANGED <<turn, deleter, faults>>

Crash ==
  /\ Fails
  /\ turn' = [t \in Turns |->
       CASE turn[t].pc \in Early -> Left(t, "gone")
         [] turn[t].pc \in Late  -> Left(t, "over")
         [] OTHER                -> turn[t]]
  /\ row' = [t \in Turns |-> IF turn[t].pc \in Early THEN NoRow ELSE row[t]]
  /\ deleter' = [d \in Deleters |-> IF deleter[d].pc = "done" THEN deleter[d] ELSE Idle]

-----------------------------------------------------------------------------
Resolve(t) ==
  \/ \E keeps \in BOOLEAN, streams \in Modes :
       \/ Opens(t, keeps, streams)
       \/ \E r \in Turns : Continues(t, r, keeps, streams)
  \/ \E r \in Turns : Unknown(t, r)

Walk(t) ==
  \/ \E a \in Accounts : Refuse(t, a) \/ \E k \in Keys : Call(t, a, k)
  \/ CallFails(t) \/ \E named \in BOOLEAN : Answers(t, named)
  \/ Recorded(t) \/ RecordFails(t) \/ HeadFails(t) \/ Answer(t)
  \/ GiveUp(t) \/ Leave(t)

Settle(t) == Save(t) \/ Drop(t) \/ SettleFails(t)

Stream(t) == Finishes(t) \/ EndsWell(t) \/ Breaks(t)

Delete(d) ==
  \/ \E r \in Turns : DeleteFinds(d, r)
  \/ DeleteUpstream(d) \/ DeleteLocal(d) \/ DeleteFails(d) \/ DeleterLeaves(d)

Next ==
  \/ \E t \in Turns : \/ Resolve(t) \/ Walk(t) \/ Stream(t) \/ Settle(t)
                      \/ Expire(t) \/ Prune(t)
  \/ \E d \in Deleters : Delete(d)
  \/ Crash

\* The runtime polls the tasks that were spawned.
Spec == Init /\ [][Next]_vars /\ \A t \in Turns : WF_vars(Settle(t))

-----------------------------------------------------------------------------
(* Properties *)

\* A turn that goes on from an earlier one is never sent as the first turn of a conversation,
\* whatever became of the row and whichever account it goes to.
NeverAsNew ==
  \A t \in Turns :
    turn[t].ref # None /\ turn[t].ctx # {} => Asked(turn[t].ref) \in turn[t].ctx

\* An upstream id is sent to no account but the one that made the response.
HomeOnly ==
  \A t \in Turns :
    turn[t].pc = "called" /\ turn[t].ref # None /\ GoesOn(t, turn[t].at)
      => turn[t].at = turn[turn[t].ref].at

\* What is said in a turn with store: false is not stored, neither with the turn nor later.
NotStored ==
  \A r \in Turns, t \in Turns :
    Asked(t) \in row[r].parts \/ Answered(t) \in row[r].parts => turn[t].keeps

\* record_response_state is awaited before the response is returned, so that a client that goes
\* on from it at once finds it: whoever sees the id of a response, its row was written before,
\* unless its own statement failed.  Attempts that fail after their row, clients that leave and
\* a crash between the row and the answer do not change that.
RecordedFirst == \A t \in Turns : Shown(t) => row[t].is # "never"

\* A stream that broke ceases to be something to go on from: time and again there is none that
\* is to be deleted, or was, and has its row.  (Breaking is final, so that each loses its row for
\* good.)
BrokenIsGone ==
  []<>(\A t \in Turns :
         turn[t].pc \in {"deleting", "broken"} => row[t].is \in Absences \/ faults > 0)

\* An upstream id is sent with the key that the response was made with.
OwnKey ==
  \A t \in Turns :
    turn[t].pc = "called" /\ turn[t].ref # None /\ GoesOn(t, turn[t].at)
      => turn[t].with = turn[turn[t].ref].with

\* The turns that led to t
Before[t \in Turns] ==
  IF turn[t].ref = None THEN {} ELSE {turn[t].ref} \cup Before[turn[t].ref]

\* A turn goes out with all that was said, and may be stored, before it.
WholeHistory ==
  \A t \in Turns : turn[t].ctx # {} =>
    \A u \in Before[t] : turn[u].keeps => {Asked(u), Answered(u)} \subseteq turn[t].ctx

\* A turn that goes on from a response is never sent without that response.
AnswerIncluded ==
  \A t \in Turns :
    turn[t].ref # None /\ turn[t].ctx # {} => Answered(turn[t].ref) \in turn[t].ctx

\* A response whose delete was answered is not there any more.
DeletedStaysDeleted ==
  [][\A d \in Deleters : deleter[d].pc = "done" => row'[deleter[d].of].is \in Absences]_vars

\* An account has no fault on its record for a call that was not made.
BlamedWereCalled == \A t \in Turns : turn[t].blamed = {}

\* sticky.rs, derive: the turns of a conversation have the same sticky key.
StickyAnchor(t) == turn[t].ref

OneAnchor ==
  \A t \in Turns : \A u \in Before[t] :
    turn[u].ref # None => StickyAnchor(t) = StickyAnchor(u)
=============================================================================
