------------------------------- MODULE Translate -------------------------------
(***************************************************************************)
(* A streamed answer on a path between two protocols.  The frames of the   *)
(* upstream become canonical events (protocol/mod.rs, StreamParser), the   *)
(* events become frames of the downstream (StreamEmitter), and             *)
(* gateway/translate.rs carries them: commit_stream until the first event  *)
(* with content, continue_stream from there to the end.                    *)
(*                                                                         *)
(* A fragment of the answer is known by its owner, the item that the       *)
(* upstream meant it for: the text, the thinking or one call.  The client  *)
(* is the reader that the downstream protocol prescribes; it notes in      *)
(* `breaches` each frame that this protocol forbids where it comes, and in *)
(* `misplaced` each fragment that it finds in another item.                *)
(***************************************************************************)
EXTENDS Integers, Sequences, Subsequence

CONSTANTS Roads,       \* pairs of protocols: upstream and downstream
          MaxPieces,   \* fragments that the upstream sends
          MaxItems     \* calls of a Chat upstream, items of the others

Protocols == {"chat", "messages", "responses"}

Kinds == {"Thinking", "Text", "ToolCall"}
\* Calls are told apart; all text is one owner's, and so is all thinking.
Owner(k, i) == <<k, IF k = "ToolCall" THEN i ELSE 0>>
Someone == Owner("Text", 0)

None == -1

ASSUME TranslationAssumption ==
  /\ Roads # {} /\ Roads \subseteq {r \in Protocols \X Protocols : r[1] # r[2]}
  /\ MaxPieces \in Nat /\ MaxItems \in Nat

VARIABLES road,      \* <<upstream, downstream>>
          up,        \* how far the upstream is
          arrived,   \* its frames in the chunk that was read, not yet parsed
          parser,    \* protocol::StreamParser
          events,    \* canonical events on their way to the emitter
          emitter,   \* protocol::StreamEmitter
          wire,      \* frames on their way to the client
          client,    \* what the client has read
          phase      \* "sniff": commit_stream; "open": continue_stream

vars == <<road, up, arrived, parser, events, emitter, wire, client, phase>>

(* --------------------------- the upstream's frames --------------------- *)

Sends(f) == [f |-> f, i |-> 0, k |-> "Text", usage |-> FALSE]
Piece(k, i) == [Sends("piece") EXCEPT !.k = k, !.i = i]
Opens(k, i) == [Sends("open") EXCEPT !.k = k, !.i = i]
Shuts(i) == [Sends("shut") EXCEPT !.i = i]
Stops(u) == [Sends("stop") EXCEPT !.usage = u]

(* ---------------------------- canonical events ------------------------- *)

Happens(e) == [e |-> e, i |-> 0, k |-> "Text", o |-> Someone]
ItemStart(i, k, o) == [e |-> "ItemStart", i |-> i, k |-> k, o |-> o]
Delta(i, k, o) == [e |-> "Delta", i |-> i, k |-> k, o |-> o]
ItemEnd(i) == [Happens("ItemEnd") EXCEPT !.i = i]
Usage(yes) == IF yes THEN <<Happens("Usage")>> ELSE <<>>

Semantic(event) == event.e \in {"ItemStart", "Delta"}

(* ------------------------------- the parser ---------------------------- *)
(* started .. told: what a Chat parser knows; finished, done: the guard.   *)

NewParser ==
  [started |-> FALSE, textOpen |-> FALSE, tools |-> [s \in 0 .. MaxItems - 1 |-> None],
   next |-> 0, told |-> FALSE, finished |-> FALSE, done |-> FALSE]

Result(p, evs) == [parser |-> p, events |-> evs]

\* open_text and open_thinking: one item serves both.
OpenText(p, k) ==
  IF p.textOpen THEN Result(p, <<Delta(p.next - 1, k, Owner(k, 0))>>)
  ELSE Result([p EXCEPT !.textOpen = TRUE, !.next = @ + 1],
              <<ItemStart(p.next, k, Owner(k, 0)), Delta(p.next, k, Owner(k, 0))>>)

NewestIndex(p, s) == IF p.tools[s] = None THEN None ELSE p.next - 1
\* The index of a call of the answer: the one its slot was given.
ToolIndex(p, s) == p.tools[s]

PushToolCall(p, s) ==
  LET o == Owner("ToolCall", s) IN
  IF ToolIndex(p, s) # None THEN Result(p, <<Delta(ToolIndex(p, s), "ToolCall", o)>>)
  ELSE Result([p EXCEPT !.tools[s] = p.next, !.next = @ + 1],
              <<ItemStart(p.next, "ToolCall", o), Delta(p.next, "ToolCall", o)>>)

\* The indices of the open calls, in order: slots come in the order of their first piece.
ToolEnds(p) ==
  LET open == Keep([n \in 1 .. MaxItems |-> p.tools[n - 1]], Nat)
  IN [n \in 1 .. Len(open) |-> ItemEnd(open[n])]

CloseAll(p) ==
  Result([p EXCEPT !.textOpen = FALSE, !.tools = NewParser.tools],
         (IF p.textOpen THEN <<ItemEnd(0)>> ELSE <<>>) \o ToolEnds(p))

ChatPiece(p, frame) ==
  CASE frame.f = "piece" /\ frame.k = "ToolCall" -> PushToolCall(p, frame.i)
    [] frame.f = "piece" /\ frame.k # "ToolCall" -> OpenText(p, frame.k)
    [] frame.f = "stop" ->
         LET closed == CloseAll(p)
         IN Result([closed.parser EXCEPT !.told = TRUE],
                   closed.events \o Usage(frame.usage) \o <<Happens("Finish")>>)
    [] frame.f = "usage" -> Result(p, Usage(TRUE))
    [] OTHER -> Result(p, <<>>)

ChatPush(p, frame) ==
  LET r == ChatPiece([p EXCEPT !.started = TRUE], frame)
  IN [r EXCEPT !.events = (IF p.started THEN <<>> ELSE <<Happens("Start")>>) \o @]

ChatFinish(p) ==
  IF ~p.started THEN Result(p, <<>>)
  ELSE IF p.told THEN Result(p, <<Happens("Done")>>)
  ELSE LET closed == CloseAll(p)
       IN [closed EXCEPT !.events = @ \o <<Happens("Finish"), Happens("Done")>>]

MessagesEvents(frame) ==
  CASE frame.f = "begin" -> <<Happens("Start")>> \o Usage(frame.usage)
    [] frame.f = "open" -> <<ItemStart(frame.i, frame.k, Owner(frame.k, frame.i))>>
    [] frame.f = "piece" -> <<Delta(frame.i, frame.k, Owner(frame.k, frame.i))>>
    [] frame.f = "shut" -> <<ItemEnd(frame.i)>>
    [] frame.f = "stop" -> Usage(frame.usage) \o <<Happens("Finish")>>
    [] frame.f = "mark" -> <<Happens("Done")>>
    [] OTHER -> <<>>

\* response.failed is no event of the parser.
ResponsesEvents(frame) ==
  CASE frame.f \in {"begin", "progress"} -> <<Happens("Start")>>
    [] frame.f = "open" -> <<ItemStart(frame.i, frame.k, Owner(frame.k, frame.i))>>
    [] frame.f = "piece" -> <<Delta(frame.i, frame.k, Owner(frame.k, frame.i))>>
    [] frame.f = "shut" -> <<ItemEnd(frame.i)>>
    [] frame.f = "stop" -> Usage(frame.usage) \o <<Happens("Finish"), Happens("Done")>>
    [] OTHER -> <<>>

\* Done comes once, and after a Finish; nothing comes after it.
UpTo(evs) ==
  LET ends == {n \in 1 .. Len(evs) : evs[n].e = "Done"}
  IN IF ends = {} THEN evs ELSE SubSeq(evs, 1, (CHOOSE n \in ends : \A m \in ends : n <= m) - 1)

Tells(evs, e) == \E n \in 1 .. Len(evs) : evs[n].e = e

Guard(r) ==
  LET finished == r.parser.finished \/ Tells(UpTo(r.events), "Finish")
      done     == Tells(r.events, "Done")
      missing  == IF done /\ ~finished THEN <<Happens("Finish")>> ELSE <<>>
  IN IF r.parser.done THEN Result(r.parser, <<>>)
     ELSE Result([r.parser EXCEPT !.finished = finished \/ done, !.done = done],
                 UpTo(r.events) \o missing \o (IF done THEN <<Happens("Done")>> ELSE <<>>))

Finished == Guard(IF road[1] = "chat" THEN ChatFinish(parser) ELSE Result(parser, <<>>))

Parsed(frame) ==
  CASE road[1] = "chat" /\ frame.f = "mark" -> Finished
    [] road[1] = "chat" /\ frame.f # "mark" -> Guard(ChatPush(parser, frame))
    [] road[1] = "messages" -> Guard(Result(parser, MessagesEvents(frame)))
    [] road[1] = "responses" -> Guard(Result(parser, ResponsesEvents(frame)))

(* ------------------------------ the emitters --------------------------- *)
(* open: the index of the item that is open; kept: the text that the       *)
(* Responses emitter collects for it; slots: the calls of the Chat emitter *)

Nothing == [pieces |-> 0, owners |-> {}]

NewEmitter ==
  [open |-> None, kind |-> "Text", owner |-> Someone, kept |-> Nothing,
   slots |-> <<>>, usage |-> FALSE]

Frame(f) == [f |-> f, i |-> None, k |-> "Text", o |-> Someone, kept |-> Nothing, usage |-> FALSE]
About(f, event) == [Frame(f) EXCEPT !.i = event.i, !.k = event.k, !.o = event.o]

Emits(m, frames) == [emitter |-> m, frames |-> frames]

\* The place of a call in the list of calls; 0 when it is not there.
SlotOf(m, i) ==
  IF i \in Elements(m.slots) THEN (CHOOSE s \in 1 .. Len(m.slots) : m.slots[s] = i) - 1 ELSE 0

EmitChat(m, event) ==
  CASE event.e = "Start" -> Emits(m, <<Frame("begin")>>)
    [] event.e = "ItemStart" /\ event.k = "ToolCall" ->
         Emits([m EXCEPT !.slots = Append(@, event.i)],
               <<[About("open", event) EXCEPT !.i = Len(m.slots)]>>)
    [] event.e = "Delta" /\ event.k = "ToolCall" ->
         Emits(m, <<[About("delta", event) EXCEPT !.i = SlotOf(m, event.i)]>>)
    [] event.e = "Delta" /\ event.k # "ToolCall" ->
         Emits(m, <<[About("delta", event) EXCEPT !.i = None]>>)
    [] event.e = "Usage" -> Emits([m EXCEPT !.usage = TRUE], <<>>)
    [] event.e = "Finish" -> Emits(m, <<Frame("why")>>)
    [] event.e = "Done" ->
         Emits(m, IF m.usage THEN <<[Frame("usage") EXCEPT !.usage = TRUE]>> ELSE <<>>)
    [] OTHER -> Emits(m, <<>>)

\* close_open_block, close_open: the frames that end the item which is open.
Forgets(m) == <<>>
ClosesOpen(m) ==
  IF m.open = None THEN <<>>
  ELSE <<[Frame("shut") EXCEPT !.i = m.open, !.k = m.kind, !.o = m.owner, !.kept = m.kept]>>
Closed(m) == [m EXCEPT !.open = None, !.kept = Nothing]

Opened(m, event) ==
  Emits([Closed(m) EXCEPT !.open = event.i, !.kind = event.k, !.owner = event.o],
        Append(ClosesOpen(m), About("open", event)))

EmitMessages(m, event) ==
  CASE event.e = "Start" -> Emits(m, <<Frame("begin")>>)
    [] event.e = "ItemStart" -> Opened(m, event)
    [] event.e = "Delta" -> Emits(m, <<About("delta", event)>>)
    [] event.e = "ItemEnd" -> Emits(Closed(m), <<About("shut", event)>>)
    [] event.e = "Usage" -> Emits([m EXCEPT !.usage = TRUE], <<>>)
    [] event.e = "Finish" ->
         Emits(Closed(m), Append(ClosesOpen(m), [Frame("why") EXCEPT !.usage = m.usage]))
    [] event.e = "Done" -> Emits(m, <<Frame("end")>>)

\* A delta goes into the text of the item that is open, whichever it is for.
Collect(m, o) ==
  IF m.open = None THEN m
  ELSE [m EXCEPT !.kept = [pieces |-> @.pieces + 1, owners |-> @.owners \cup {o}]]

EmitResponses(m, event) ==
  CASE event.e = "Start" -> Emits(m, <<Frame("begin"), Frame("progress")>>)
    [] event.e = "ItemStart" -> Opened(m, event)
    [] event.e = "Delta" -> Emits(Collect(m, event.o), <<About("delta", event)>>)
    [] event.e = "ItemEnd" -> Emits(Closed(m), ClosesOpen(m))
    [] event.e = "Usage" -> Emits([m EXCEPT !.usage = TRUE], <<>>)
    [] event.e = "Finish" -> Emits(Closed(m), Append(ClosesOpen(m), Frame("noted")))
    [] event.e = "Done" ->
         Emits(Closed(m), Append(ClosesOpen(m), [Frame("end") EXCEPT !.usage = m.usage]))

Emitted(event) ==
  CASE road[2] = "chat" -> EmitChat(emitter, event)
    [] road[2] = "messages" -> EmitMessages(emitter, event)
    [] road[2] = "responses" -> EmitResponses(emitter, event)

\* StreamEmitter::done
Trailer == IF road[2] = "chat" THEN <<Frame("end")>> ELSE <<>>

(* ------------------------------- the client ---------------------------- *)
(* items: what it believes an index to be; final: what the closing frames  *)
(* of the items hold, which is all that a client of Responses may look at. *)

NewClient ==
  [begun |-> FALSE, items |-> [i \in {} |-> Someone], block |-> None, got |-> 0,
   final |-> 0, reasons |-> 0, ends |-> 0, errors |-> 0, usage |-> FALSE,
   misplaced |-> {}, spoilt |-> {}, breaches |-> {}]

\* The owner that the client takes a delta for.
Place(frame) ==
  IF frame.i \in DOMAIN client.items THEN client.items[frame.i] ELSE Owner(frame.k, 0)

Misread(place, owners) == {<<place, o>> : o \in owners \ {place}}

\* What the downstream protocol forbids at this point.
Breach(frame) ==
  (IF client.ends + client.errors > 0 THEN {"after the end"} ELSE {})
  \cup (IF frame.f = "begin" /\ client.begun THEN {"begun twice"} ELSE {})
  \cup (IF frame.f = "why" /\ client.reasons > 0 THEN {"two reasons"} ELSE {})
  \cup (IF road[2] = "chat" THEN {} ELSE
          (IF frame.f = "open" /\ client.block # None THEN {"nested items"} ELSE {})
          \cup (IF frame.f = "delta" /\ client.block # frame.i THEN {"outside its item"} ELSE {})
          \cup (IF frame.f = "shut" /\ client.block # frame.i THEN {"shut again"} ELSE {})
          \cup (IF frame.f = "delta" /\ client.block = frame.i /\ Place(frame) # frame.o
                THEN {"another kind"} ELSE {})
          \cup (IF frame.f = "end" /\ client.block # None THEN {"left open"} ELSE {}))

Reads(frame) ==
  LET c == [client EXCEPT !.breaches = @ \cup Breach(frame)] IN
  CASE frame.f = "begin" -> [c EXCEPT !.begun = TRUE]
    [] frame.f = "open" ->
         [c EXCEPT !.block = frame.i,
                   !.items = [i \in DOMAIN @ \cup {frame.i} |->
                                IF i = frame.i THEN frame.o ELSE @[i]]]
    [] frame.f = "delta" ->
         [c EXCEPT !.got = @ + 1, !.misplaced = @ \cup Misread(Place(frame), {frame.o})]
    [] frame.f = "shut" ->
         [c EXCEPT !.block = IF @ = frame.i THEN None ELSE @,
                   !.final = @ + frame.kept.pieces,
                   !.spoilt = @ \cup Misread(frame.o, frame.kept.owners)]
    [] frame.f \in {"why", "noted"} ->
         [c EXCEPT !.reasons = @ + 1, !.usage = @ \/ frame.usage]
    [] frame.f = "usage" -> [c EXCEPT !.usage = TRUE]
    [] frame.f = "end" -> [c EXCEPT !.ends = @ + 1, !.usage = @ \/ frame.usage]
    [] frame.f = "error" -> [c EXCEPT !.errors = @ + 1]
    [] OTHER -> c

(* ------------------------------ the upstream --------------------------- *)
(* `orderly` stays TRUE while the upstream does what each of the tests     *)
(* does: one item after the other, no return to an older one, one frame    *)
(* that begins, nothing after the end.                                     *)

NewUpstream ==
  [begun |-> FALSE, sent |-> 0, items |-> <<>>, open |-> FALSE, text |-> "none",
   stopped |-> FALSE, used |-> FALSE, marked |-> FALSE, over |-> "no",
   orderly |-> TRUE, failed |-> FALSE]

Idle == events = <<>> /\ wire = <<>>

\* A chunk holds one frame or two.
Says(frame, u) ==
  /\ Idle /\ Len(arrived) < 2 /\ up.over = "no" /\ phase \in {"sniff", "open"}
  /\ arrived' = Append(arrived, frame)
  /\ up' = [u EXCEPT !.orderly = @ /\ ~up.marked /\ ~up.failed]
  /\ UNCHANGED <<road, parser, events, emitter, wire, client, phase>>

Newest == Len(up.items) - 1
Sent == [up EXCEPT !.begun = TRUE, !.sent = @ + 1]

\* Chat: text, thinking and pieces of calls in any order; a slot is used in its turn.
ChatText ==
  /\ road[1] = "chat" /\ ~up.stopped /\ up.sent < MaxPieces
  /\ \E k \in {"Thinking", "Text"} :
       Says(Piece(k, 0),
            [Sent EXCEPT !.text = k,
                         !.orderly = @ /\ up.items = <<>> /\ up.text \in {"none", k}])

ChatCall ==
  /\ road[1] = "chat" /\ ~up.stopped /\ up.sent < MaxPieces
  /\ \E s \in 0 .. Newest + 1 :
       /\ s < MaxItems
       /\ Says(Piece("ToolCall", s),
               [Sent EXCEPT !.items = IF s > Newest THEN Append(@, "ToolCall") ELSE @,
                            !.orderly = @ /\ s >= Newest])

\* Messages and Responses: a frame that begins, then items, each with its pieces.
Begins ==
  /\ road[1] # "chat"
  /\ \/ ~up.begun /\ Says(Sends("begin"), [up EXCEPT !.begun = TRUE])
     \/ /\ road[1] = "responses" /\ up.begun /\ up.items = <<>> /\ ~up.stopped /\ up.orderly
        /\ Says(Sends("progress"), [up EXCEPT !.orderly = FALSE])
     \/ /\ road[1] = "messages" /\ ~up.begun
        /\ Says([Sends("begin") EXCEPT !.usage = TRUE], [up EXCEPT !.begun = TRUE])

Item ==
  /\ road[1] # "chat" /\ up.begun /\ ~up.stopped /\ Len(up.items) < MaxItems
  /\ \E k \in Kinds :
       Says(Opens(k, Newest + 1), [up EXCEPT !.items = Append(@, k), !.open = TRUE])

ItemPiece ==
  /\ road[1] # "chat" /\ up.open /\ ~up.stopped /\ up.sent < MaxPieces
  /\ Says(Piece(up.items[Newest + 1], Newest), Sent)

ItemShut ==
  /\ road[1] # "chat" /\ up.open /\ ~up.stopped
  /\ Says(Shuts(Newest), [up EXCEPT !.open = FALSE])

\* Why it stopped, and what it used: with the reason, or, from Chat, in a frame of its own.
Stop ==
  /\ up.begun /\ ~up.stopped
  /\ \E u \in BOOLEAN :
       Says(Stops(u), [up EXCEPT !.stopped = TRUE, !.open = FALSE, !.used = u,
                                 !.marked = road[1] = "responses"])

LateUsage ==
  /\ road[1] = "chat" /\ up.stopped /\ ~up.used
  /\ Says(Sends("usage"), [up EXCEPT !.used = TRUE])

Mark ==
  /\ road[1] # "responses" /\ up.begun /\ ~up.marked
  /\ Says(Sends("mark"), [up EXCEPT !.marked = TRUE, !.stopped = TRUE])

Errs ==
  /\ ~up.failed
  /\ \/ Says(Sends("error"), [up EXCEPT !.failed = TRUE, !.orderly = @ /\ ~up.marked])
     \/ road[1] = "responses" /\ ~up.marked
        /\ Says(Sends("failed"), [up EXCEPT !.failed = TRUE, !.stopped = TRUE])

\* It closes, also in the middle, also with an error that no empty line ends; or it breaks.
Leaves ==
  /\ Idle /\ up.over = "no" /\ phase \in {"sniff", "open"}
  /\ \/ up' = [up EXCEPT !.over = "closed"]
     \/ ~up.failed /\ up' = [up EXCEPT !.over = "closed", !.failed = TRUE]
     \/ up' = [up EXCEPT !.over = "broken", !.orderly = @ /\ ~up.marked]
  /\ UNCHANGED <<road, arrived, parser, events, emitter, wire, client, phase>>

(* ------------------------- commit and continuation --------------------- *)

Error == <<Frame("error")>>

\* Before the first event with content nothing was shown: another target may answer.
Switch ==
  /\ phase' = "switched"
  /\ client' = NewClient /\ wire' = <<>> /\ events' = <<>> /\ arrived' = <<>>
  /\ UNCHANGED <<road, up, parser, emitter>>

Takes(evs) == IF \E n \in 1 .. Len(evs) : Semantic(evs[n]) THEN "open" ELSE phase

\* What is left of the chunk when the stream is committed.
Pending(frames) == frames

Take ==
  /\ Idle /\ arrived # <<>> /\ phase \in {"sniff", "open"}
  /\ \/ Head(arrived).f = "error" /\ phase = "sniff" /\ Switch
     \/ /\ Head(arrived).f = "error" /\ phase = "open"
        /\ wire' = Error /\ phase' = "ended" /\ arrived' = <<>>
        /\ UNCHANGED <<road, up, parser, events, emitter, client>>
     \/ /\ Head(arrived).f # "error"
        /\ LET r == Parsed(Head(arrived)) IN
             /\ parser' = r.parser /\ events' = r.events
             /\ phase' = Takes(r.events)
             /\ arrived' = IF Takes(r.events) # phase THEN Pending(Tail(arrived)) ELSE Tail(arrived)
        /\ UNCHANGED <<road, up, emitter, wire, client>>

\* The prefix is full: it goes out although it has no content.
Full ==
  /\ Idle /\ phase = "sniff" /\ up.begun /\ phase' = "open"
  /\ UNCHANGED <<road, up, arrived, parser, events, emitter, wire, client>>

Emit ==
  /\ events # <<>> /\ wire = <<>>
  /\ LET r == Emitted(Head(events)) IN emitter' = r.emitter /\ wire' = r.frames
  /\ events' = Tail(events)
  /\ UNCHANGED <<road, up, arrived, parser, client, phase>>

Read ==
  /\ wire # <<>>
  /\ client' = Reads(Head(wire)) /\ wire' = Tail(wire)
  /\ UNCHANGED <<road, up, arrived, parser, events, emitter, phase>>

\* The chunks are over.  parser.finish() first, and then the trailer of the downstream.
Over ==
  /\ Idle /\ arrived = <<>> /\ up.over # "no"
  /\ \/ phase = "sniff" /\ Switch
     \/ /\ phase = "open" /\ up.over = "broken"
        /\ wire' = Error /\ phase' = "ended"
        /\ UNCHANGED <<road, up, arrived, parser, events, emitter, client>>
     \/ /\ phase = "open" /\ up.over = "closed"
        /\ parser' = Finished.parser /\ events' = Finished.events /\ phase' = "closing"
        /\ UNCHANGED <<road, up, arrived, emitter, wire, client>>
     \/ /\ phase = "closing"
        /\ wire' = Trailer /\ phase' = "ended"
        /\ UNCHANGED <<road, up, arrived, parser, events, emitter, client>>

Init ==
  /\ road \in Roads
  /\ up = NewUpstream /\ arrived = <<>> /\ parser = NewParser /\ events = <<>>
  /\ emitter = NewEmitter /\ wire = <<>> /\ client = NewClient /\ phase = "sniff"

Next ==
  \/ ChatText \/ ChatCall \/ Begins \/ Item \/ ItemPiece \/ ItemShut
  \/ Stop \/ LateUsage \/ Mark \/ Errs \/ Leaves
  \/ Take \/ Full \/ Emit \/ Read \/ Over

Spec == Init /\ [][Next]_vars

(* ------------------------------- properties ---------------------------- *)

TypeOK ==
  /\ road \in Roads
  /\ up.sent \in 0 .. MaxPieces /\ Len(up.items) <= MaxItems
  /\ up.over \in {"no", "closed", "broken"}
  /\ Len(arrived) <= 2
  /\ parser.next \in 0 .. MaxItems + 1
  /\ road[1] = "chat" => parser.next <= Len(up.items) + 1
  /\ emitter.open \in {None} \cup 0 .. MaxItems
  /\ client.got \in 0 .. MaxPieces
  /\ phase \in {"sniff", "open", "closing", "switched", "ended"}

Shown == phase \in {"open", "closing", "ended"} /\ Idle

\* Every fragment that the upstream sent before it failed is read by the client, also those
\* that came in the chunk which committed the stream (translate.rs:115, `pending`).
NothingVanishes ==
  (Shown /\ arrived = <<>> /\ ~up.failed /\ ~up.marked) => client.got = up.sent

\* A fragment of a call's arguments reaches that call, however the upstream mixes its calls
\* (openai_chat.rs:757: the index of a slot is not the index of an item).
CallsIntact ==
  \A m \in client.misplaced : m[2][1] # "ToolCall"

\* The end is told once, whether the upstream marks it, closes, or does both, and a
\* Messages or Responses client knows the reason by then (mod.rs:251, guard).
EndsOnce ==
  /\ client.ends <= 1
  /\ (client.ends = 1 /\ road[2] # "chat") => client.reasons = 1

\* An upstream that goes through its items one by one is read as its client's protocol
\* wants it: items that do not nest, pieces inside their item, each item closed, nothing
\* after the end; also when it forgets to close an item (anthropic.rs:871).  That an item
\* may be closed again is left to AlwaysNested.
Nested == up.orderly => client.breaches \subseteq {"shut again"}

\* What the closing frames of the items hold is what their pieces held: a Responses client
\* that only reads the final items has the whole answer of an orderly upstream.
FinalIsWhole ==
  (road[2] = "responses" /\ up.orderly /\ client.ends = 1 /\ wire = <<>>)
    => client.final = client.got /\ client.spoilt = client.misplaced

\* Whatever the mixture of fragments: what the upstream says reaches the client somewhere,
\* until it fails or marks the end; no piece of a call's arguments gets into another item;
\* and what an orderly upstream said is whole in the final items of a Responses client.
\* Which item a piece of text lands in is not said here: see AllInPlace.
FragmentsKept == NothingVanishes /\ CallsIntact /\ FinalIsWhole

\* The client's stream has its frames where its protocol wants them and one end;
\* with the types.
WellFormed == TypeOK /\ EndsOnce /\ Nested

(* What the sources say and the code does not do: see the README. *)

\* canonical.rs:480: the usage comes before the finish, so it is never too late to tell it.
UsageArrives ==
  (phase = "ended" /\ Idle /\ up.used /\ client.ends = 1 /\ client.errors = 0) => client.usage

\* canonical.rs:478: each fragment keeps its item.
AllInPlace == client.misplaced = {}

\* anthropic.rs:752: the strict nesting of a Messages stream.
AlwaysNested == client.breaches = {}

\* mod.rs:166: there is a reason before the end, also for Chat.
ReasonGiven == client.ends = 1 => client.reasons >= 1

\* translate.rs:273: an error of the upstream is said, and never made a normal end.
ErrorIsSaid ==
  (phase = "ended" /\ Idle /\ up.failed) => client.errors > 0
================================================================================
