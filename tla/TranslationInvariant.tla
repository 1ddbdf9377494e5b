------------------------ MODULE TranslationInvariant ------------------------
(***************************************************************************)
(* What holds of a translated stream in every reachable state, and what    *)
(* each of its steps does to the records of upstream, parser, emitter and  *)
(* client.                                                                 *)
(*                                                                         *)
(* The inductive invariant, TranslationInv, has two halves.  StreamInv     *)
(* holds of every stream: Told (the order of events and frames, the one    *)
(* end), Counted (each fragment is somewhere on its way), Numbered and     *)
(* Numbers (which item an index belongs to, for an upstream that numbers   *)
(* its items and for Chat).  Neat holds while the upstream is orderly: one *)
(* item is open at a time, here and with the client, and it is the one of  *)
(* which the upstream speaks.  OneStep describes each step by what it      *)
(* leaves of the records.                                                  *)
(***************************************************************************)
EXTENDS Translate

(* ------------------------------- the types ----------------------------- *)

FrameNames == {"begin", "progress", "piece", "open", "shut", "stop", "usage", "mark", "error", "failed"}
EventNames == {"Start", "ItemStart", "Delta", "ItemEnd", "Usage", "Finish", "Done"}
WireNames == {"begin", "progress", "open", "delta", "shut", "why", "noted", "usage", "end", "error"}

OwnersOf == Kinds \X Nat
UpFrames == [f : FrameNames, i : Nat, k : Kinds, usage : BOOLEAN]
EventsOf == [e : EventNames, i : Nat, k : Kinds, o : OwnersOf]
KeptOf == [pieces : Nat, owners : SUBSET OwnersOf]
WireFrames == [f : WireNames, i : Int, k : Kinds, o : OwnersOf, kept : KeptOf, usage : BOOLEAN]

Slots == 0 .. MaxItems - 1

IsParser(p) ==
  /\ DOMAIN p = {"started", "textOpen", "tools", "next", "told", "finished", "done"}
  /\ p.started \in BOOLEAN /\ p.textOpen \in BOOLEAN /\ p.told \in BOOLEAN
  /\ p.finished \in BOOLEAN /\ p.done \in BOOLEAN
  /\ p.tools \in [Slots -> Nat \cup {None}]
  /\ p.next \in Nat /\ (p.textOpen => p.next > 0)

IsEmitter(m) ==
  /\ DOMAIN m = {"open", "kind", "owner", "kept", "slots", "usage"}
  /\ m.open \in Nat \cup {None} /\ m.kind \in Kinds /\ m.owner \in OwnersOf
  /\ m.kept \in KeptOf /\ m.slots \in Seq(Nat) /\ m.usage \in BOOLEAN

IsUp(u) ==
  /\ DOMAIN u = {"begun", "sent", "items", "open", "text", "stopped", "used", "marked",
                 "over", "orderly", "failed"}
  /\ u.sent \in 0 .. MaxPieces /\ u.items \in Seq(Kinds) /\ Len(u.items) <= MaxItems
  /\ u.over \in {"no", "closed", "broken"}
  /\ u.begun \in BOOLEAN /\ u.open \in BOOLEAN /\ u.stopped \in BOOLEAN /\ u.marked \in BOOLEAN
  /\ u.orderly \in BOOLEAN /\ u.failed \in BOOLEAN
  /\ (u.open => Len(u.items) > 0) /\ (u.marked => u.stopped)

IsClient(c) ==
  /\ DOMAIN c = {"begun", "items", "block", "got", "final", "reasons", "ends", "errors",
                 "usage", "misplaced", "spoilt", "breaches"}
  /\ c.got \in Nat /\ c.final \in Nat /\ c.reasons \in Nat /\ c.ends \in Nat /\ c.errors \in Nat
  /\ c.block \in Int /\ c.begun \in BOOLEAN /\ c.usage \in BOOLEAN

\* The frames that each upstream sends.
Speaks ==
  \A n \in DOMAIN arrived :
    /\ road[1] = "chat" => arrived[n].f \in {"piece", "stop", "usage", "mark", "error"}
    /\ road[1] # "chat" => arrived[n].f # "usage"
    /\ road[1] # "responses" => arrived[n].f \notin {"progress", "failed"}
    /\ road[1] = "responses" => arrived[n].f # "mark"
    /\ road[1] = "chat" /\ arrived[n].f = "piece" /\ arrived[n].k = "ToolCall" => arrived[n].i \in Slots

Typed ==
  /\ road \in Roads /\ IsUp(up)
  /\ arrived \in Seq(UpFrames) /\ Len(arrived) <= 2 /\ Speaks
  /\ IsParser(parser) /\ events \in Seq(EventsOf)
  /\ IsEmitter(emitter) /\ wire \in Seq(WireFrames) /\ IsClient(client)
  /\ phase \in {"sniff", "open", "closing", "switched", "ended"}

(* -------------------------- the order of things ------------------------ *)

One(b) == IF b THEN 1 ELSE 0
Live == phase \in {"sniff", "open"}

\* What may follow what in the events of one frame.
Order ==
  ({"Start"} \X {"ItemStart", "Delta", "ItemEnd", "Usage", "Finish", "Done"})
  \cup {<<"ItemStart", "Delta">>}
  \cup ({"ItemEnd"} \X {"ItemEnd", "Usage", "Finish", "Done"})
  \cup ({"Usage"} \X {"Finish", "Done"}) \cup {<<"Finish", "Done">>}
InOrder(s) == \A m, n \in DOMAIN s : m < n => <<s[m].e, s[n].e>> \in Order

Coming(s, e) == \E n \in DOMAIN s : s[n].e = e
Shows(w, fs) == \E n \in DOMAIN w : w[n].f \in fs
Reason == {"why", "noted"}

(* --------------------------- what the steps do ------------------------- *)
(* Each kind of step, with what it leaves of the records it changes.       *)

Rests == up'.sent = up.sent /\ up'.items = up.items /\ up'.text = up.text

\* The upstream says something: which frame, and what is known of the upstream then.
Text1(frame) ==
  /\ road[1] = "chat" /\ ~up.stopped
  /\ frame.f = "piece" /\ frame.k # "ToolCall"
  /\ up'.sent = up.sent + 1 /\ up'.items = up.items /\ up'.text = frame.k
  /\ up'.begun /\ up'.open = up.open /\ up'.stopped = up.stopped /\ up'.marked = up.marked
  /\ (up'.orderly => up.items = <<>> /\ up.text \in {"none", frame.k})
Call1(frame) ==
  /\ road[1] = "chat" /\ ~up.stopped
  /\ frame.f = "piece" /\ frame.k = "ToolCall" /\ frame.i \in Slots /\ frame.i <= Len(up.items)
  /\ up'.sent = up.sent + 1 /\ up'.text = up.text
  /\ up'.items = IF frame.i >= Len(up.items) THEN Append(up.items, "ToolCall") ELSE up.items
  /\ up'.begun /\ up'.open = up.open /\ up'.stopped = up.stopped /\ up'.marked = up.marked
  /\ (up'.orderly => frame.i >= Len(up.items) - 1)
Begins1(frame) ==
  /\ road[1] # "chat" /\ frame.f \in {"begin", "progress"}
  /\ (frame.f = "begin" => ~up.begun)
  /\ (frame.f = "progress" => road[1] = "responses" /\ ~up'.orderly)
  /\ Rests /\ up'.begun /\ up'.open = up.open /\ up'.stopped = up.stopped /\ up'.marked = up.marked
Item1(frame) ==
  /\ road[1] # "chat" /\ up.begun /\ ~up.stopped
  /\ frame.f = "open" /\ frame.i = Len(up.items)
  /\ up'.items = Append(up.items, frame.k) /\ up'.sent = up.sent /\ up'.text = up.text
  /\ up'.begun /\ up'.open /\ up'.stopped = up.stopped /\ up'.marked = up.marked
Piece1(frame) ==
  /\ road[1] # "chat" /\ up.open /\ ~up.stopped
  /\ frame.f = "piece" /\ frame.i = Len(up.items) - 1 /\ frame.k = up.items[Len(up.items)]
  /\ up'.sent = up.sent + 1 /\ up'.items = up.items /\ up'.text = up.text
  /\ up'.begun /\ up'.open = up.open /\ up'.stopped = up.stopped /\ up'.marked = up.marked
Shut1(frame) ==
  /\ road[1] # "chat" /\ up.open /\ ~up.stopped /\ frame.f = "shut" /\ frame.i = Len(up.items) - 1
  /\ Rests /\ up'.begun = up.begun /\ ~up'.open /\ up'.stopped = up.stopped /\ up'.marked = up.marked
Stop1(frame) ==
  /\ up.begun /\ ~up.stopped /\ frame.f = "stop"
  /\ Rests /\ up'.begun = up.begun /\ ~up'.open /\ up'.stopped
  /\ up'.marked = (road[1] = "responses")
Other1(frame) ==
  /\ \/ road[1] = "chat" /\ frame.f = "usage" /\ up.stopped
     \/ road[1] # "responses" /\ frame.f = "mark" /\ up.begun /\ ~up.marked /\ up'.marked /\ up'.stopped
     \/ frame.f = "error"
     \/ road[1] = "responses" /\ frame.f = "failed" /\ up'.stopped
  /\ (frame.f # "mark" => up'.marked = up.marked)
  /\ (frame.f \notin {"mark", "failed"} => up'.stopped = up.stopped)
  /\ (frame.f \in {"error", "failed"} => up'.failed)
  /\ (frame.f = "error" /\ up'.orderly => ~up.marked)
  /\ (up.stopped => up'.stopped)
  /\ Rests /\ up'.begun = up.begun /\ up'.open = up.open

Talks(frame) ==
  /\ Idle /\ Len(arrived) < 2 /\ up.over = "no" /\ Live
  /\ frame \in UpFrames /\ arrived' = Append(arrived, frame) /\ IsUp(up')
  /\ UNCHANGED <<road, parser, events, emitter, wire, client, phase>>
  /\ up'.over = "no" /\ (up'.orderly => up.orderly /\ ~up.marked /\ ~up.failed)
  /\ (frame.f \notin {"error", "failed"} => up'.failed = up.failed)
  /\ \/ Text1(frame) \/ Call1(frame) \/ Begins1(frame) \/ Item1(frame) \/ Piece1(frame)
     \/ Shut1(frame) \/ Stop1(frame) \/ Other1(frame)

Speaking ==
  ChatText \/ ChatCall \/ Begins \/ Item \/ ItemPiece \/ ItemShut \/ Stop \/ LateUsage \/ Mark \/ Errs

Quits ==
  /\ Idle /\ up.over = "no" /\ Live
  /\ IsUp(up') /\ up'.over \in {"closed", "broken"} /\ (up'.orderly => up.orderly)
  /\ (up'.over = "broken" /\ up'.orderly => ~up.marked)
  /\ (~up'.failed => ~up.failed) /\ Rests
  /\ up'.begun = up.begun /\ up'.open = up.open /\ up'.stopped = up.stopped /\ up'.marked = up.marked
  /\ UNCHANGED <<road, arrived, parser, events, emitter, wire, client, phase>>

(* ------------------------------- the parser ---------------------------- *)

OnlyOf(s, es) == \A n \in DOMAIN s : s[n].e \in es

SameFields(q, p) ==
  /\ IsParser(q) /\ q.started = p.started /\ q.textOpen = p.textOpen /\ q.tools = p.tools
  /\ q.next = p.next /\ q.told = p.told
Passed(q, p, es) == SameFields(q, p) /\ ~q.done /\ (q.finished <=> (p.finished \/ Coming(es, "Finish")))
Ended(q, p) == SameFields(q, p) /\ q.done /\ q.finished

SameParts ==
  /\ parser'.finished = parser.finished /\ parser'.done = parser.done /\ parser'.next = parser.next
  /\ parser'.told = parser.told /\ parser'.tools = parser.tools /\ parser'.textOpen = parser.textOpen
Emptied == parser'.tools = NewParser.tools /\ parser'.textOpen = FALSE

\* A Start comes first and once.
StartsBy(frame) ==
  /\ (parser.started => parser'.started)
  /\ (Coming(events', "Start") =>
        IF road[1] = "chat" THEN ~parser.started /\ parser'.started ELSE frame.f \in {"begin", "progress"})

Silent ==
  /\ events' = <<>> /\ (parser.started => parser'.started)
  /\ parser'.finished = parser.finished /\ parser'.done = parser.done /\ parser'.next = parser.next
  /\ parser'.told = parser.told
  /\ \/ parser'.tools = parser.tools /\ parser'.textOpen = parser.textOpen
     \/ parser.done /\ Emptied
Quietly(frame) ==
  /\ frame.f \notin {"piece", "open", "shut", "stop"} /\ ~parser.done
  /\ OnlyOf(events', {"Start", "Usage"}) /\ InOrder(events') /\ SameParts /\ StartsBy(frame)

StartOf(d) == [d EXCEPT !.e = "ItemStart"]
\* A delta, perhaps behind the start of its item, perhaps behind the Start.
Lists(d, opens) ==
  events' \in IF opens THEN {<<StartOf(d), d>>, <<Happens("Start"), StartOf(d), d>>}
              ELSE {<<d>>, <<Happens("Start"), d>>}
TextGoesOn(frame) ==
  /\ road[1] = "chat" /\ frame.f = "piece" /\ frame.k # "ToolCall" /\ parser.textOpen
  /\ SameParts /\ StartsBy(frame)
  /\ Lists(Delta(parser.next - 1, frame.k, Owner(frame.k, 0)), FALSE)
TextOpens(frame) ==
  /\ road[1] = "chat" /\ frame.f = "piece" /\ frame.k # "ToolCall" /\ ~parser.textOpen
  /\ parser'.finished = parser.finished /\ parser'.done = parser.done /\ parser'.next = parser.next + 1
  /\ parser'.told = parser.told /\ parser'.tools = parser.tools /\ parser'.textOpen /\ StartsBy(frame)
  /\ Lists(Delta(parser.next, frame.k, Owner(frame.k, 0)), TRUE)
CallGoesOn(frame) ==
  /\ road[1] = "chat" /\ frame.f = "piece" /\ frame.k = "ToolCall" /\ frame.i \in Slots
  /\ parser.tools[frame.i] # None /\ SameParts /\ StartsBy(frame)
  /\ Lists(Delta(parser.tools[frame.i], "ToolCall", Owner("ToolCall", frame.i)), FALSE)
CallOpens(frame) ==
  /\ road[1] = "chat" /\ frame.f = "piece" /\ frame.k = "ToolCall" /\ frame.i \in Slots
  /\ parser.tools[frame.i] = None
  /\ parser'.finished = parser.finished /\ parser'.done = parser.done /\ parser'.next = parser.next + 1
  /\ parser'.told = parser.told /\ parser'.tools = [parser.tools EXCEPT ![frame.i] = parser.next]
  /\ parser'.textOpen = parser.textOpen /\ StartsBy(frame)
  /\ Lists(Delta(parser.next, "ToolCall", Owner("ToolCall", frame.i)), TRUE)
Numbered1(frame) ==
  /\ road[1] # "chat" /\ frame.f \in {"piece", "open", "shut"} /\ SameParts /\ parser'.started = parser.started
  /\ events' = CASE frame.f = "piece" -> <<Delta(frame.i, frame.k, Owner(frame.k, frame.i))>>
                 [] frame.f = "open" -> <<ItemStart(frame.i, frame.k, Owner(frame.k, frame.i))>>
                 [] frame.f = "shut" -> <<ItemEnd(frame.i)>>
\* The reason, the end, or both.
Finishes(frame) ==
  /\ frame.f \in {"stop", "mark"} /\ StartsBy(frame) /\ ~parser.done
  /\ OnlyOf(events', {"Start", "ItemEnd", "Usage", "Finish", "Done"}) /\ InOrder(events')
  /\ parser'.finished /\ parser'.next = parser.next
  /\ (Coming(events', "Finish") <=> ~parser.finished)
  /\ (parser'.done <=> Coming(events', "Done"))
  /\ (frame.f = "stop" => ~parser.finished)
  /\ (road[1] = "chat" => parser'.told \/ parser'.done)
  /\ (frame.f = "stop" /\ road[1] # "responses" => ~parser'.done)
  /\ (frame.f = "mark" => parser'.done)
  /\ IF road[1] = "chat" /\ ~parser.finished
       THEN /\ Emptied
            /\ (parser.textOpen => \E n \in DOMAIN events' : events'[n].e = "ItemEnd" /\ events'[n].i = 0)
            /\ \A s \in Slots : parser.tools[s] # None =>
                 \E n \in DOMAIN events' : events'[n].e = "ItemEnd" /\ events'[n].i = parser.tools[s]
       ELSE /\ parser'.tools = parser.tools /\ parser'.textOpen = parser.textOpen
            /\ ~Coming(events', "ItemEnd")

Outcome(frame) ==
  \/ Silent /\ frame.f \notin {"piece", "open", "shut", "stop"}
  \/ Quietly(frame) \/ TextGoesOn(frame) \/ TextOpens(frame) \/ CallGoesOn(frame)
  \/ CallOpens(frame) \/ Numbered1(frame) \/ Finishes(frame)

\* What Told keeps of a Chat parser, for the lemmas on one step.
Knows ==
  /\ (parser.done => parser.finished)
  /\ (road[1] = "chat" => (parser.told => parser.finished) /\ (parser.finished => parser.told \/ parser.done))

Good(s, es) == s \in Seq(EventsOf) /\ OnlyOf(s, es) /\ InOrder(s)

Prefixes(q, st) == [q EXCEPT !.events = st \o @]

\* A list without an end, given to the guard of a parser that is not done.
Passes(p, es) == events' = es /\ Passed(parser', p, es)

(* ------------------------------ the emitter ---------------------------- *)

\* What one event becomes: the frame, perhaps behind the one that closes an item.
ClosesFirst(x) ==
  \/ wire' = <<x>> /\ emitter.open = None
  \/ emitter.open # None /\ \E y \in WireFrames :
       /\ wire' = <<y, x>> /\ y.f = "shut" /\ y.i = emitter.open /\ y.o = emitter.owner /\ y.kept = emitter.kept
AllShut == emitter'.open = None /\ emitter'.kept = Nothing /\ emitter'.slots = emitter.slots
SameBlock ==
  /\ emitter'.open = emitter.open /\ emitter'.owner = emitter.owner /\ emitter'.kept = emitter.kept
  /\ emitter'.slots = emitter.slots
IsFrame(x, f) == x \in WireFrames /\ x.f = f
IsAbout(x, f, event) ==
  /\ x \in WireFrames /\ x.f = f /\ x.i = event.i /\ x.o = event.o /\ x.k = event.k /\ x.kept = Nothing

EmitsStart(event) ==
  /\ event.e = "Start" /\ SameBlock
  /\ \E x \in WireFrames : /\ x.f = "begin"
                           /\ \/ wire' = <<x>>
                              \/ \E y \in WireFrames : y.f = "progress" /\ wire' = <<x, y>>
EmitsItem(event) ==
  /\ event.e = "ItemStart" /\ road[2] # "chat"
  /\ emitter'.open = event.i /\ emitter'.owner = event.o /\ emitter'.kept = Nothing
  /\ emitter'.slots = emitter.slots
  /\ \E x : IsAbout(x, "open", event) /\ ClosesFirst(x)
EmitsCall(event) ==
  /\ event.e = "ItemStart" /\ event.k = "ToolCall" /\ road[2] = "chat"
  /\ emitter'.open = emitter.open /\ emitter'.owner = emitter.owner /\ emitter'.kept = emitter.kept
  /\ emitter'.slots = Append(emitter.slots, event.i)
  /\ \E x \in WireFrames : x.f = "open" /\ x.i = Len(emitter.slots) /\ x.o = event.o /\ wire' = <<x>>
EmitsDelta(event) ==
  /\ event.e = "Delta" /\ emitter'.open = emitter.open /\ emitter'.owner = emitter.owner
  /\ emitter'.slots = emitter.slots
  /\ emitter'.kept = (IF road[2] = "responses" /\ emitter.open # None
                        THEN [pieces |-> emitter.kept.pieces + 1, owners |-> emitter.kept.owners \cup {event.o}]
                        ELSE emitter.kept)
  /\ \E x \in WireFrames :
       /\ x.f = "delta" /\ x.o = event.o /\ x.k = event.k /\ wire' = <<x>>
       /\ x.i = (IF road[2] # "chat" THEN event.i
                 ELSE IF event.k = "ToolCall" THEN SlotOf(emitter, event.i) ELSE None)
EmitsEnd(event) ==
  /\ event.e = "ItemEnd" /\ road[2] # "chat" /\ AllShut
  /\ \/ /\ road[2] = "messages"
        /\ \E x : IsAbout(x, "shut", event) /\ wire' = <<x>>
     \/ /\ road[2] = "responses" /\ emitter.open = None /\ wire' = <<>>
     \/ /\ road[2] = "responses" /\ emitter.open # None
        /\ \E y \in WireFrames :
             wire' = <<y>> /\ y.f = "shut" /\ y.i = emitter.open /\ y.o = emitter.owner /\ y.kept = emitter.kept
EmitsNothing(event) ==
  /\ wire' = <<>> /\ SameBlock
  /\ event.e = "Usage" \/ (road[2] = "chat" /\ (event.e = "ItemEnd" \/ (event.e = "ItemStart" /\ event.k # "ToolCall")))
EmitsReason(event) ==
  /\ event.e = "Finish"
  /\ \E x \in WireFrames : /\ x.f \in Reason
                           /\ IF road[2] = "chat" THEN SameBlock /\ wire' = <<x>>
                              ELSE AllShut /\ ClosesFirst(x)
EmitsDone(event) ==
  /\ event.e = "Done"
  /\ \/ /\ road[2] = "chat" /\ SameBlock
        /\ wire' = <<>> \/ \E x \in WireFrames : x.f = "usage" /\ wire' = <<x>>
     \/ /\ road[2] = "messages" /\ SameBlock
        /\ \E x \in WireFrames : x.f = "end" /\ wire' = <<x>>
     \/ /\ road[2] = "responses" /\ AllShut
        /\ \E x \in WireFrames : x.f = "end" /\ ClosesFirst(x)

Emission(event) ==
  \/ EmitsStart(event) \/ EmitsItem(event) \/ EmitsCall(event) \/ EmitsDelta(event)
  \/ EmitsEnd(event) \/ EmitsNothing(event) \/ EmitsReason(event) \/ EmitsDone(event)

(* ------------------------------- the client ---------------------------- *)

Reading(frame) ==
  /\ (client'.begun <=> (client.begun \/ frame.f = "begin"))
  /\ client'.items = (IF frame.f # "open" THEN client.items
                      ELSE [i \in DOMAIN client.items \cup {frame.i} |->
                              IF i = frame.i THEN frame.o ELSE client.items[i]])
  /\ client'.block = (IF frame.f = "open" THEN frame.i
                      ELSE IF frame.f = "shut" /\ client.block = frame.i THEN None ELSE client.block)
  /\ client'.got = client.got + One(frame.f = "delta")
  /\ client'.final = client.final + (IF frame.f = "shut" THEN frame.kept.pieces ELSE 0)
  /\ client'.reasons = client.reasons + One(frame.f \in Reason)
  /\ client'.ends = client.ends + One(frame.f = "end")
  /\ client'.errors = client.errors + One(frame.f = "error")
  /\ client'.misplaced = client.misplaced \cup (IF frame.f = "delta" THEN Misread(Place(frame), {frame.o}) ELSE {})
  /\ client'.spoilt = client.spoilt \cup (IF frame.f = "shut" THEN Misread(frame.o, frame.kept.owners) ELSE {})
  /\ client'.breaches = client.breaches \cup Breach(frame)

(* ------------------------------ every step ----------------------------- *)

Parses(frame) ==
  /\ Idle /\ Live /\ arrived # <<>> /\ frame = arrived[1] /\ frame.f # "error"
  /\ arrived' = Tail(arrived) /\ Outcome(frame) /\ IsParser(parser') /\ events' \in Seq(EventsOf)
  /\ phase' \in {phase, "open"}
  /\ UNCHANGED <<road, up, emitter, wire, client>>
Fails ==
  /\ Idle /\ phase = "open" /\ phase' = "ended"
  /\ \/ arrived # <<>> /\ arrived[1].f = "error"
     \/ arrived = <<>> /\ up.over = "broken"
  /\ arrived' = <<>> /\ wire' \in Seq(WireFrames)
  /\ \E x \in WireFrames : x.f = "error" /\ wire' = <<x>>
  /\ UNCHANGED <<road, up, parser, events, emitter, client>>
EmitsOne(event) ==
  /\ events # <<>> /\ wire = <<>> /\ event = Head(events) /\ events' = Tail(events)
  /\ Emission(event) /\ IsEmitter(emitter') /\ wire' \in Seq(WireFrames)
  /\ UNCHANGED <<road, up, arrived, parser, client, phase>>
ReadsOne(frame) ==
  /\ wire # <<>> /\ frame = Head(wire) /\ wire' = Tail(wire) /\ wire' \in Seq(WireFrames)
  /\ Reading(frame) /\ IsClient(client')
  /\ UNCHANGED <<road, up, arrived, parser, events, emitter, phase>>
Closes ==
  /\ Idle /\ arrived = <<>> /\ phase = "open" /\ up.over = "closed" /\ phase' = "closing"
  /\ Silent \/ (road[1] = "chat" /\ Finishes(Sends("mark")))
  /\ IsParser(parser') /\ events' \in Seq(EventsOf)
  /\ UNCHANGED <<road, up, arrived, emitter, wire, client>>
Trails ==
  /\ Idle /\ arrived = <<>> /\ phase = "closing" /\ phase' = "ended"
  /\ wire' \in Seq(WireFrames)
  /\ IF road[2] = "chat" THEN \E x \in WireFrames : x.f = "end" /\ wire' = <<x>> ELSE wire' = <<>>
  /\ UNCHANGED <<road, up, arrived, parser, events, emitter, client>>

OneStep ==
  \/ \E frame \in UpFrames : Talks(frame) \/ Parses(frame)
  \/ Quits \/ Fails \/ Switch \/ Full \/ Closes \/ Trails
  \/ \E event \in EventsOf : EmitsOne(event)
  \/ \E frame \in WireFrames : ReadsOne(frame)

\* A parser that is finished has no content in front of it.
Ready == \A n \in DOMAIN arrived : arrived[n].f \in {"stop", "piece", "open", "shut"} => ~parser.finished

(* ----------------------- the end is told once -------------------------- *)

\* At most two frames, the first of which begins the message or closes an item.
Chain(w) ==
  \A m, n \in DOMAIN w : m < n => /\ w[m].f \in {"begin", "shut"}
                                  /\ w[n].f \in {"progress", "open", "why", "noted", "end"}

\* What is still on its way, and what the client has, is what the guard let through.
Sums ==
  /\ client.reasons + One(Shows(wire, Reason)) + One(Coming(events, "Finish")) = One(parser.finished)
  /\ (road[2] # "chat" =>
        client.ends + One(Shows(wire, {"end"})) + One(Coming(events, "Done")) = One(parser.done))
  /\ (road[2] = "chat" => client.ends + One(Shows(wire, {"end"})) <= One(phase = "ended"))
  /\ (road[2] # "chat" /\ (client.ends = 1 \/ Shows(wire, {"end"})) => events = <<>> /\ ~Shows(wire, Reason))

Content == {"stop", "piece", "open", "shut"}
Arrivals ==
  /\ \A n \in DOMAIN arrived :
       /\ (arrived[n].f \in {"stop", "mark", "failed"} => up.stopped)
       /\ (arrived[n].f = "mark" => up.marked)
       /\ (arrived[n].f = "stop" /\ road[1] = "responses" => up.marked)
       /\ (arrived[n].f = "error" => up.failed)
       /\ (arrived[n].f \in Content => ~parser.finished)
  /\ \A m, n \in DOMAIN arrived :
       m < n /\ arrived[m].f \in {"stop", "mark", "failed"} => arrived[n].f \notin Content
  /\ (phase = "ended" => arrived = <<>> /\ events = <<>>)
  /\ (phase = "closing" => arrived = <<>>)
  /\ (Live /\ parser.done => up.marked)
  /\ (Live /\ parser.finished => up.stopped)

Told == InOrder(events) /\ Chain(wire) /\ Knows /\ Sums /\ Arrivals

(* ----------------------- every fragment is counted --------------------- *)

Due(n) == One(n \in DOMAIN arrived /\ arrived[n].f = "piece")
Underway == client.got + One(Shows(wire, {"delta"})) + One(Coming(events, "Delta")) + Due(1) + Due(2)
\* What the upstream sent is with the client or on its way to it.
Counted ==
  /\ Underway <= up.sent
  /\ (~up.failed /\ ~up.marked => Underway = up.sent)

(* -------------------------- items and their owners --------------------- *)

Fresh(i) == i \notin DOMAIN client.items
InEvents(i, o) == \E n \in DOMAIN events : events[n].e = "ItemStart" /\ events[n].i = i /\ events[n].o = o
InWire(i, o) == \E n \in DOMAIN wire : wire[n].f = "open" /\ wire[n].i = i /\ wire[n].o = o
InClient(i, o) == i \in DOMAIN client.items /\ client.items[i] = o
\* The client has the item, or it is on its way.
Given(i, o) == InEvents(i, o) \/ InWire(i, o) \/ InClient(i, o)

Known(i) == i \in 0 .. Len(up.items) - 1
OwnerOf(i) == Owner(up.items[i + 1], i)

\* A step that is neither of the emitter nor of the client.
Resting ==
  /\ Idle /\ UNCHANGED <<road, client, emitter>>
  /\ ~Shows(wire', {"open"}) /\ ~Shows(wire', {"delta"})

(* ------------------ an upstream that numbers its items ----------------- *)

\* The event is of the owner that its kind has at some number.
Made(event) == \E n \in Nat : event.o = Owner(event.k, n)
Brings(i, o) == \E n \in DOMAIN wire : wire[n].f = "delta" /\ wire[n].i = i /\ wire[n].o = o
\* A piece of a call that goes out is for an item that the client has as this call.
DeltasOwned ==
  /\ \A n \in DOMAIN events : events[n].e = "Delta" => Made(events[n])
  /\ \A i, o : Brings(i, o) /\ o[1] = "ToolCall" => InClient(i, o)

Names(i, k) == Known(i) /\ k = up.items[i + 1]
\* What a delta for the item finds: a Chat client has only calls, each in its slot.
There(i) ==
  IF road[2] # "chat" THEN Given(i, OwnerOf(i))
  ELSE up.items[i + 1] = "ToolCall" => InEvents(i, OwnerOf(i)) \/ i \in Elements(emitter.slots)
Has(i, o) == InWire(i, o) \/ InClient(i, o)
InSlots ==
  /\ \A s \in DOMAIN emitter.slots : \A i : emitter.slots[s] = i =>
       Known(i) /\ \E o : o = OwnerOf(i) /\ Has(s - 1, o)
  /\ \A j, o : InWire(j, o) =>
       /\ Len(emitter.slots) > 0 /\ j = Len(emitter.slots) - 1
       /\ \A i : emitter.slots[Len(emitter.slots)] = i => o = OwnerOf(i)
InPlace == \A i, o : Has(i, o) => Known(i) /\ o = OwnerOf(i)

Opening(i) == \E n \in DOMAIN arrived : arrived[n].f = "open" /\ arrived[n].i = i
Asks(i, k) == \E n \in DOMAIN arrived : arrived[n].f \in {"piece", "open"} /\ arrived[n].i = i /\ arrived[n].k = k
NumberedChunk ==
  /\ \A i, k : Asks(i, k) => Names(i, k)
  /\ \A m, n \in DOMAIN arrived :
       m < n /\ arrived[m].f = "piece" /\ arrived[n].f = "open" => arrived[m].i # arrived[n].i
Event(e, i, k, o) == \E n \in DOMAIN events : events[n].e = e /\ events[n].i = i /\ events[n].k = k /\ events[n].o = o
NumberedEvents ==
  /\ \A i, k, o : Event("ItemStart", i, k, o) => Names(i, k) /\ o = OwnerOf(i)
  /\ \A i, k, o : Event("Delta", i, k, o) => Names(i, k) /\ o = OwnerOf(i) /\ There(i)
NoneMissed == Live => \A i : Known(i) => Opening(i) \/ There(i)

Numbered ==
  road[1] # "chat" =>
    /\ NumberedChunk /\ NumberedEvents /\ NoneMissed
    /\ IF road[2] # "chat" THEN InPlace ELSE InSlots
    /\ parser.next = 0

(* ------------------- a Chat upstream, numbered by its parser ----------- *)

Call(n, s) == arrived[n].f = "piece" /\ arrived[n].k = "ToolCall" /\ arrived[n].i = s
\* The slots fill up one after the other, and each has the number that was next.
Prefix ==
  \E k \in 0 .. Len(up.items) :
    /\ \A s \in Slots : parser.tools[s] # None <=> s < k
    /\ parser.next = k + One(parser.textOpen)
SlotsGiven ==
  \A s \in Slots : \A i : parser.tools[s] = i /\ i # None => i < parser.next /\ Given(i, Owner("ToolCall", s))
Fed(s) == parser.tools[s] # None \/ \E n \in DOMAIN arrived : Call(n, s)
SlotsFed == Live => \A s \in Slots : s < Len(up.items) => Fed(s)
InTurn ==
  \A n \in DOMAIN arrived : \A s \in Slots : Call(n, s) =>
    /\ s < Len(up.items)
    /\ \A t \in Slots : t < s => parser.tools[t] # None \/ \E m \in DOMAIN arrived : m < n /\ Call(m, t)
Slotting == ~parser.finished => Prefix /\ SlotsGiven /\ SlotsFed /\ InTurn

Traffic ==
  /\ parser.next <= Len(up.items) + 1
  /\ \A i, o : Has(i, o) => i \in Int /\ i < parser.next
  /\ \A i, o : InWire(i, o) => Fresh(i)
  /\ \A i, o : InEvents(i, o) => i \in Int /\ i < parser.next /\ Fresh(i)
  /\ (Coming(events, "ItemStart") => ~Shows(wire, {"open"}))
  /\ \A i, o : Event("Delta", i, "ToolCall", o) => Given(i, o)

Numbers == road[1] = "chat" => Slotting /\ Traffic

\* What a frame makes of a Chat parser that is at work, and of the numbers.
Goes(frame) ==
  /\ parser'.next = parser.next /\ parser'.tools = parser.tools /\ (parser'.textOpen <=> parser.textOpen)
  /\ ~(frame.f = "piece" /\ frame.k = "ToolCall" /\ parser.tools[frame.i] = None)
  /\ \A j, q : ~InEvents(j, q)'
  /\ ~Coming(events', "ItemStart")
  /\ \A j, q : Event("Delta", j, "ToolCall", q)' =>
       /\ frame.f = "piece" /\ frame.k = "ToolCall" /\ frame.i \in Slots
       /\ j = parser.tools[frame.i] /\ j # None /\ q = Owner("ToolCall", frame.i)
OpensText ==
  /\ parser'.next = parser.next + 1 /\ parser'.tools = parser.tools /\ parser'.textOpen /\ ~parser.textOpen
  /\ \A j, q : InEvents(j, q)' => j = parser.next
  /\ \A j, q : ~Event("Delta", j, "ToolCall", q)'
OpensCall(frame) ==
  /\ frame.f = "piece" /\ frame.k = "ToolCall" /\ frame.i \in Slots /\ parser.tools[frame.i] = None
  /\ parser'.next = parser.next + 1 /\ parser'.tools = [parser.tools EXCEPT ![frame.i] = parser.next]
  /\ (parser'.textOpen <=> parser.textOpen)
  /\ \A j, q : InEvents(j, q)' <=> j = parser.next /\ q = Owner("ToolCall", frame.i)
  /\ \A j, q : Event("Delta", j, "ToolCall", q)' => j = parser.next /\ q = Owner("ToolCall", frame.i)

(* ----------------------------- the invariant --------------------------- *)

\* The number of the item that is open.
Bounded == emitter.open <= MaxItems

\* A stream that another target takes over: nothing of it was shown.
Frozen == events = <<>> /\ wire = <<>> /\ arrived = <<>> /\ client = NewClient

Streaming == Told /\ Counted /\ DeltasOwned /\ Numbered /\ Numbers /\ Bounded /\ CallsIntact

\* The parser numbers no more items than the upstream has, and the one of text.
NextBound == parser.next <= Len(up.items) + 1

StreamInv ==
  Typed /\ NextBound /\ Bounded /\ IF phase = "switched" THEN Frozen ELSE Streaming

(* ------------------------- one beginning, one end ---------------------- *)
(* From here on the upstream is orderly: one item after the other and      *)
(* nothing after the end.                                                  *)

Starts(s) == Coming(s, "Start")
\* The client began, or is about to.
Begun == client.begun \/ Shows(wire, {"begin"}) \/ Starts(events)

BeginsOnce ==
  /\ (Shows(wire, {"begin"}) => ~client.begun /\ ~Starts(events))
  /\ (Starts(events) => ~client.begun)
  /\ (road[1] = "chat" /\ ~parser.started => ~Begun)
  /\ (road[1] # "chat" /\ ~up.begun => ~Begun)
  /\ (road[1] # "chat" => \A n \in DOMAIN arrived : arrived[n].f = "begin" =>
        up.begun /\ ~Begun /\ \A m \in DOMAIN arrived : arrived[m].f = "begin" => m = n)
  /\ \A n \in DOMAIN arrived : arrived[n].f # "progress"

EndsLast ==
  /\ (client.ends + client.errors > 0 => wire = <<>> /\ events = <<>>)
  /\ (client.errors > 0 \/ Shows(wire, {"error"}) => phase = "ended")
  /\ (Shows(wire, {"error"}) => client.ends = 0)
  /\ (up.over = "broken" => ~up.marked)
  /\ \A n \in DOMAIN arrived : arrived[n].f = "error" => ~up.marked

Single == BeginsOnce /\ EndsLast

(* -------------------- items one after the other ------------------------ *)

Ends(i) == \E n \in DOMAIN events : events[n].e = "ItemEnd" /\ events[n].i = i
StartsOnly(i) == \A n \in DOMAIN events : events[n].e = "ItemStart" => events[n].i = i

\* The item that is open, and that it is `i` once the events are emitted.
Opened1(i, o) == emitter.open = i /\ emitter.owner = o
IsNow(i) ==
  IF Coming(events, "ItemStart") THEN StartsOnly(i)
  ELSE IF Coming(events, "ItemEnd") \/ Coming(events, "Finish") THEN i = None
  ELSE emitter.open = i

LastShut == parser.finished /\ ~Coming(events, "Finish") => emitter.open = None
OpensEarly == Coming(events, "ItemStart") => ~parser.finished

\* The first frame on the wire closes an item; the item that the client has open is about to be closed.
Shuts1 == wire # <<>> /\ Head(wire).f = "shut"
ToEnd(i) == road[2] = "messages" /\ Ends(i)

\* The frame that opens an item finds no other open, or one that the frame before it closes.
Entering ==
  \A i, o : InWire(i, o) =>
    Opened1(i, o) /\ IF Shuts1 THEN Head(wire).i = client.block ELSE client.block = None
\* Otherwise the client has open what the emitter has, or what will be closed.
Within ==
  ~Shows(wire, {"open"}) => \A b : client.block = b =>
    IF Shuts1 THEN emitter.open = None /\ (b = None \/ Head(wire).i = b \/ ToEnd(b))
    ELSE emitter.open = b \/ (emitter.open = None /\ ToEnd(b))
EndsOpen == Coming(events, "ItemEnd") => \A i : emitter.open = i => i = None \/ Ends(i)
OpenGiven == \A i, o : Opened1(i, o) /\ i # None => Has(i, o)

(* ----------------- which item the upstream is speaking of -------------- *)

Ending == {"open", "shut", "stop"}
\* The item `i` is open when `n` more frames are parsed.
Current(n, i) ==
  \/ \E m \in 1 .. n : /\ arrived[m].f = "open" /\ arrived[m].i = i
                       /\ \A l \in m + 1 .. n : arrived[l].f \notin Ending
  \/ (\A l \in 1 .. n : arrived[l].f \notin Ending) /\ IsNow(i)
\* An upstream that numbers its items speaks of the one that is open.
ByNumber ==
  road[1] # "chat" /\ Live =>
    /\ \A n \in DOMAIN arrived : \A i :
         arrived[n].f \in {"piece", "shut"} /\ arrived[n].i = i => Current(n - 1, i)
    /\ \A n, i : up.open /\ ~up.stopped /\ n = Len(arrived) /\ i = Len(up.items) - 1 => Current(n, i)

NoCalls == \A s \in Slots : parser.tools[s] = None
Newest1(s) == parser.tools[s] # None /\ \A t \in Slots : t > s => parser.tools[t] = None
NewestNow == \A s \in Slots : \A i : Newest1(s) /\ i = parser.tools[s] => IsNow(i)
TextNow == NoCalls => IF parser.textOpen THEN IsNow(0) ELSE IsNow(None)
TextGiven == parser.textOpen => up.text # "none" /\ \A o : o = Owner(up.text, 0) => Given(0, o)
Prose(n) == arrived[n].f = "piece" /\ arrived[n].k # "ToolCall"
TextFirst ==
  \A n \in DOMAIN arrived : Prose(n) =>
    arrived[n].k = up.text /\ NoCalls /\ \A m \in DOMAIN arrived : \A s : m < n => ~Call(m, s)
CallsLast ==
  \A n \in DOMAIN arrived : \A s \in Slots : Call(n, s) =>
    /\ \A t \in Slots : parser.tools[t] # None => t <= s
    /\ \A m \in DOMAIN arrived : \A t : m < n /\ Call(m, t) => t <= s
Spoken1 == NewestNow /\ TextNow /\ TextGiven /\ TextFirst /\ CallsLast
BySlot == road[1] = "chat" /\ ~parser.finished => Spoken1

(* ------------------- a piece is for the item that is open -------------- *)

DeltasNow == \A i, k, o : Event("Delta", i, k, o) => IsNow(i) /\ Given(i, o)

(* -------------- what the closing frames hold, and where pieces go ------ *)

\* The pieces in the closing frame that is on its way, behind which is no other.
Held == IF Shuts1 THEN Head(wire).kept.pieces ELSE 0

EmptyKept == emitter.open = None => emitter.kept = Nothing
OwnKept == emitter.kept.owners \subseteq {emitter.owner}
ShutKept == \A n \in DOMAIN wire : wire[n].f = "shut" => wire[n].kept.owners \subseteq {wire[n].o}
Placed == \A i, o : Brings(i, o) => client.block = i /\ InClient(i, o)
Clean == client.misplaced = {} /\ client.spoilt = {}
Balance ==
  road[2] = "responses" =>
    client.final + Held + emitter.kept.pieces = client.got + One(Shows(wire, {"delta"}))
Whole == EmptyKept /\ OwnKept /\ ShutKept /\ Placed /\ Clean /\ Balance

(* ------------------- the stream of an orderly upstream ----------------- *)

Sane ==
  /\ LastShut /\ OpensEarly /\ Entering /\ Within /\ EndsOpen /\ OpenGiven
  /\ DeltasNow /\ ByNumber /\ BySlot /\ Whole
Neat ==
  up.orderly => Single /\ client.breaches \subseteq {"shut again"} /\ (road[2] # "chat" => Sane)

\* The inductive invariant: of every stream, and, while the upstream is orderly, of a neat one.
TranslationInv == StreamInv /\ (phase # "switched" => Neat)
=============================================================================
