------------------------------ MODULE Delivery ------------------------------
(***************************************************************************)
(* The delivery of a streamed answer: one upstream after the other is      *)
(* sniffed until its stream has meaning, then its bytes are relayed to the *)
(* client through the layers that hold back half frames and errors, and    *)
(* the request is settled when the stream ends (src/src/gateway/stream.rs, *)
(* translate.rs, error.rs, settle.rs and commit_stream of passthrough.rs). *)
(*                                                                         *)
(* A frame is known by its number and its kind; TCP may cut it in two      *)
(* pieces, and a chunk holds one or several pieces.  Time is urgent: it    *)
(* does not pass beyond a timer that is due.                               *)
(***************************************************************************)
EXTENDS Integers, Sequences, FiniteSets, SequencesExt, Subsequence

CONSTANTS
  Paths,      \* "same": Chat or Messages passed through, "responses": Responses
              \* passed through, "cross": translated to another protocol
  None,
  Interval,   \* keep_alive_interval
  Idle,       \* stream_idle_timeout
  Grace,      \* first_content_grace
  Deadline,   \* what is left of request_timeout
  Attempts,   \* 1..n: the targets that the walk may try
  MaxFrames   \* bound of the frames of an upstream

VARIABLES
  path,
  strip,     \* the client did not ask for the usage frame
  attempt,   \* the current one
  phase,     \* "sniffing", "alive", "relaying", "over" (no more input), "settled", "failed"
  up,        \* the connection to the upstream
  sent,      \* the kinds of the frames that it has begun to send
  cut,       \* of the last one only the head is there
  held,      \* pieces in the buffer of the sniffer, or of the layer that waits for
             \* whole frames on the other two paths
  emitted,   \* how many of them have gone on (the cursor of flush_*)
  private,   \* the half frame in private_stream, or None
  out,       \* what the client was given: frames with the attempt they are from
  seen,      \* what StreamAccounting has seen
  timer,     \* ticks since: the request began; the answer began or the last chunk or
             \* beat came; the last output
  verdict    \* the outcome that settled the admission of each attempt

vars == <<path, strip, attempt, phase, up, sent, cut, held, emitted, private, out, seen, timer, verdict>>

\* "open": start marks, comments, pings; "text": content; "usage": the last frame of
\* Chat, with no choices; "stop": the end of the answer; "error": an error event.
Kinds == {"open", "text", "usage", "stop", "error"}

Piece == [n : 0..MaxFrames, part : {"whole", "head", "tail"}]

Frame == [n : 0..MaxFrames, as : {"whole", "alive", "error", "glued", "torn", "half"}, by : Attempts]

Nothing == [error |-> FALSE, stop |-> FALSE]

TypeOK ==
  /\ path \in Paths /\ strip \in BOOLEAN /\ (strip => path = "same")
  /\ attempt \in Attempts
  /\ phase \in {"sniffing", "alive", "relaying", "over", "settled", "failed"}
  /\ up \in {"open", "eof", "broken"}
  /\ sent \in Seq(Kinds) /\ Len(sent) <= MaxFrames /\ cut \in BOOLEAN
  /\ held \in Seq(Piece) /\ emitted \in 0..Len(held)
  /\ private \in (1..MaxFrames) \cup {None}
  /\ out \in Seq(Frame)
  /\ seen \in [error : BOOLEAN, stop : BOOLEAN]
  /\ timer \in [total : 0..Deadline, beat : 0..(Grace + Interval), idle : 0..Idle]
  /\ verdict \in [Attempts -> {"success", "fault", "neutral", None}]

Fresh == [total |-> 0, beat |-> 0, idle |-> 0]

Init ==
  /\ path \in Paths /\ strip \in {s \in BOOLEAN : s => path = "same"}
  /\ attempt = 1 /\ phase = "sniffing"
  /\ up = "open" /\ sent = <<>> /\ cut = FALSE
  /\ held = <<>> /\ emitted = 0 /\ private = None /\ out = <<>>
  /\ seen = Nothing /\ timer = Fresh
  /\ verdict = [a \in Attempts |-> None]

-----------------------------------------------------------------------------
(* Frames and pieces.                                                       *)

\* The frames that a chunk may begin, and whether the last one is cut.
Chunks == {<<>>} \cup {<<k>> : k \in Kinds} \cup {<<k, l>> : k \in Kinds \ {"error"}, l \in Kinds}

\* The pieces of a chunk with the frames new, the last one cut or not.
ChunkOf(new, half) ==
  (IF cut THEN <<[n |-> Len(sent), part |-> "tail"]>> ELSE <<>>) \o
  [i \in DOMAIN new |-> [n |-> Len(sent) + i,
                         part |-> IF half /\ i = Len(new) THEN "head" ELSE "whole"]]

Completed(pieces) == Keep(pieces, [n : 0..MaxFrames, part : {"whole", "tail"}])

\* find_frame_end, from the front: how many pieces belong to whole frames.
Complete(pieces) ==
  IF pieces # <<>> /\ Last(pieces).part = "head" THEN Len(pieces) - 1 ELSE Len(pieces)

\* classify: the verdict of the sniffer on a frame (the three protocols).
Meaning(kind) ==
  CASE kind = "open" -> "pending"
    [] kind = "usage" -> "pending"
    [] kind = "error" -> "error"
    [] OTHER -> "semantic"

\* Sniffer::push: the first frame of the chunk that is not noise decides.
Verdict(chunk, kinds) ==
  LET whole == Completed(chunk)
      telling == Keep(whole, {p \in Elements(whole) : Meaning(kinds[p.n]) # "pending"})
  IN  IF telling = <<>> THEN "pending" ELSE Meaning(kinds[Head(telling).n])

\* passthrough_responses_stream and the reader of the translation wait for whole frames.
Rejoined(pieces) ==
  LET whole == Completed(pieces)
  IN  [i \in DOMAIN whole |-> [n |-> whole[i].n, part |-> "whole"]]

AsFrame(n, as) == [n |-> n, as |-> as, by |-> attempt]

\* What goes on to the client: UnrequestedUsageFilter, after the accounting.  Beats
\* that follow each other are shown as one.
Given(fs) ==
  LET wanted == Keep(fs, {f \in Elements(fs) : ~(strip /\ f.as = "whole" /\ f.kind = "usage")})
      again == Len(wanted) = 1 /\ Head(wanted).as = "alive" /\ out # <<>> /\ Last(out).as = "alive"
  IN  IF again THEN out ELSE out \o [i \in DOMAIN wanted |-> AsFrame(wanted[i].n, wanted[i].as)]

\* observe of StreamAccounting: a frame that cannot be parsed tells nothing.
Accounted(fs) ==
  [error |-> seen.error \/ \E i \in DOMAIN fs : fs[i].as = "error",
   stop  |-> seen.stop \/ \E i \in DOMAIN fs : fs[i].as = "whole" /\ fs[i].kind = "stop"]

\* The half frame that private_stream holds after the pieces.
HalfAfter(pieces) ==
  IF pieces = <<>> THEN private
  ELSE IF Last(pieces).part = "head" THEN Last(pieces).n ELSE None

\* The frames that private_stream passes on: an error event ends the stream, and what
\* the gateway puts in after half a frame becomes a part of it.
Passed(pieces, kinds, own) ==
  LET whole == Completed(pieces)
      half == HalfAfter(pieces)
      mark == CASE half = None -> own
                [] half # None /\ own = "alive" -> "torn"
                [] half # None /\ own = "error" -> "glued"
                [] OTHER -> "none"
  IN  [i \in DOMAIN whole |->
         [n |-> whole[i].n, kind |-> kinds[whole[i].n],
          as |-> IF kinds[whole[i].n] = "error" THEN "error" ELSE "whole"]]
      \o (IF own = "none" THEN <<>> ELSE <<[n |-> 0, kind |-> own, as |-> mark]>>)

\* Pieces, and a frame of the gateway's own after them, go through private_stream to
\* the settlement and the client.  next is the phase if no error event ends the
\* stream; at the end the half frame is given as it is.
Relay(pieces, kinds, own, next) ==
  LET ended == next = "over" \/ \E p \in Elements(Completed(pieces)) : kinds[p.n] = "error"
      half == IF own = "none" THEN HalfAfter(pieces) ELSE None
      rest == IF ended /\ half # None THEN <<[n |-> half, kind |-> "half", as |-> "half"]>> ELSE <<>>
  IN  /\ \E fs \in {Passed(pieces, kinds, own) \o rest} :
           /\ out' = Given(fs) /\ seen' = Accounted(fs)
           /\ timer' = [timer EXCEPT !.total = 0, !.beat = 0, !.idle = IF fs = <<>> THEN @ ELSE 0]
      /\ private' = IF ended THEN None ELSE half
      /\ phase' = IF ended THEN "over" ELSE next

-----------------------------------------------------------------------------
(* Before the commitment.                                                   *)

\* Mutant: one target too many.
LeftOneMore == attempt \in Attempts

Left == attempt + 1 \in Attempts

\* A failure that may be switched: the walk goes on with another target.
FailAttempt(outcome, again) ==
  /\ verdict' = [verdict EXCEPT ![attempt] = outcome]
  /\ IF again /\ Left
     THEN /\ attempt' = attempt + 1 /\ phase' = "sniffing"
          /\ up' = "open" /\ sent' = <<>> /\ cut' = FALSE
          /\ held' = <<>> /\ emitted' = 0 /\ private' = None /\ seen' = Nothing
          /\ timer' = [timer EXCEPT !.beat = 0, !.idle = 0]
     ELSE /\ phase' = "failed"
          /\ UNCHANGED <<attempt, up, sent, cut, held, emitted, private, seen, timer>>
  /\ UNCHANGED <<path, strip, out>>

\* A chunk continues what was cut; nothing but its own rest comes after an error event.
Comes(new, half) ==
  /\ up = "open" /\ (cut \/ new # <<>>) /\ (half => new # <<>>)
  /\ Len(sent) + Len(new) <= MaxFrames
  /\ Contains(sent, "error") => new = <<>>

Receives(new, half) == sent' = sent \o new /\ cut' = half

Waiting(pieces) == IF pieces # <<>> /\ Last(pieces).part = "head" THEN <<Last(pieces)>> ELSE <<>>

\* commit_stream: noise is kept, an error switches, meaning commits.  All that was
\* held goes first.
Sniff(new, half) ==
  LET chunk == ChunkOf(new, half)
      all == held \o chunk
      told == Verdict(chunk, sent \o new)
  IN  /\ phase = "sniffing" /\ Comes(new, half)
      /\ \/ /\ told = "error"
            /\ FailAttempt("fault", TRUE)
         \/ /\ told = "pending" /\ Receives(new, half)
            /\ held' = all
            /\ UNCHANGED <<path, strip, attempt, phase, up, emitted, private, out, seen, timer, verdict>>
         \/ /\ told = "semantic" /\ Receives(new, half)
            /\ held' = IF path = "same" THEN <<>> ELSE Waiting(all)
            /\ Relay(IF path = "same" THEN all ELSE Rejoined(all), sent \o new, "none", "relaying")
            /\ UNCHANGED <<path, strip, attempt, up, emitted, verdict>>

\* Mutant: what was already given goes with the carry once more.
CarryAll(pieces, given) == pieces

\* flush_unemitted: what is in the buffer and was not given.
Carry(pieces, given) == SubSeq(pieces, given + 1, Len(pieces))

\* flush_complete_frames: whole frames that were not given.
Ready(pieces, given) == SubSeq(pieces, given + 1, Complete(pieces))

\* The time for a switch is over: the response goes out with what is whole, the half
\* frame is carried into a sniffer of its own.
GraceOver ==
  /\ phase = "sniffing" /\ path = "same" /\ timer.beat = Grace
  /\ Relay(Ready(held, 0), sent, "none", "alive")
  /\ held' = Carry(held, Complete(held))
  /\ UNCHANGED <<path, strip, attempt, up, sent, cut, emitted, verdict>>

\* attempt: the request's time is over; nothing is said of the target, and nothing
\* is left for another one.
TimeOver ==
  /\ phase = "sniffing" /\ timer.total = Deadline
  /\ FailAttempt("neutral", FALSE)

-----------------------------------------------------------------------------
(* After the commitment.                                                    *)

\* passthrough_stream_with_keepalive: sniffing goes on between the beats.
Listen(new, half) ==
  LET chunk == ChunkOf(new, half)
      all == held \o chunk
      told == Verdict(chunk, sent \o new)
  IN  /\ phase = "alive" /\ Comes(new, half) /\ Receives(new, half)
      /\ \/ /\ told = "pending"
            /\ held' = all /\ emitted' = Complete(all)
            /\ Relay(Ready(all, emitted), sent \o new, "none", "alive")
         \/ /\ told = "semantic"
            /\ held' = <<>> /\ emitted' = 0
            /\ Relay(Carry(all, emitted), sent \o new, "none", "relaying")
         \/ /\ told = "error"
            /\ UNCHANGED <<held, emitted>>
            /\ Relay(<<>>, sent, "error", "over")
      /\ UNCHANGED <<path, strip, attempt, up, verdict>>

\* A comment of the gateway keeps the connection alive; it stands between frames.
Beat ==
  /\ phase = "alive" /\ timer.beat = Interval
  /\ Relay(Ready(held, emitted), sent, "alive", "alive")
  /\ emitted' = Complete(held)
  /\ UNCHANGED <<path, strip, attempt, up, sent, cut, held, verdict>>

\* passthrough_stream, passthrough_responses_stream, continue_stream.
Forward(new, half) ==
  LET all == held \o ChunkOf(new, half)
  IN  /\ phase = "relaying" /\ Comes(new, half) /\ Receives(new, half)
      /\ held' = IF path = "same" THEN <<>> ELSE Waiting(all)
      /\ Relay(IF path = "same" THEN all ELSE Rejoined(all), sent \o new, "none", "relaying")
      /\ UNCHANGED <<path, strip, attempt, up, emitted, verdict>>

\* Mutant: a stream that was opened for the beats only still counts as uncommitted.
UpstreamEndsSwitched(how) ==
  /\ up = "open" /\ phase \in {"sniffing", "alive"}
  /\ FailAttempt("fault", TRUE)

\* The upstream closes its stream, or the connection breaks.
UpstreamEnds(how) ==
  /\ up = "open"
  /\ \/ /\ phase = "sniffing"
        /\ FailAttempt("fault", TRUE)
     \/ /\ phase = "alive"
        /\ up' = how
        /\ Relay(<<>>, sent, "error", "over")
        /\ UNCHANGED <<path, strip, attempt, sent, cut, held, emitted, verdict>>
     \/ /\ phase = "relaying"
        /\ up' = how
        /\ Relay(IF how = "eof" /\ path = "responses" THEN held ELSE <<>>,
                 sent, IF how = "broken" THEN "error" ELSE "none", "over")
        /\ held' = <<>>
        /\ UNCHANGED <<path, strip, attempt, sent, cut, emitted, verdict>>

-----------------------------------------------------------------------------
(* The settlement: settle_stream and its guard.                             *)

Settle(outcome) ==
  /\ phase' = "settled"
  /\ verdict' = [verdict EXCEPT ![attempt] = outcome]

\* The stream ended by itself: an error event in it makes it a failure.
Close ==
  /\ phase = "over"
  /\ Settle(IF seen.error THEN "fault" ELSE "success")
  /\ UNCHANGED <<path, strip, attempt, up, sent, cut, held, emitted, private, out, seen, timer>>

\* Mutant: the timer runs before the first content only.
IdleEarly == phase = "alive" /\ timer.idle = Idle

IdleDue == phase \in {"alive", "relaying"} /\ timer.idle = Idle

\* Nothing came for too long: the request ends, nobody is blamed.
IdleOver ==
  /\ IdleDue
  /\ Settle("neutral")
  /\ out' = Append(out, AsFrame(0, "error"))
  /\ UNCHANGED <<path, strip, attempt, up, sent, cut, held, emitted, private, seen, timer>>

\* The client goes: the guard is dropped with the body.
Leave ==
  /\ phase \in {"alive", "relaying", "over"}
  /\ Settle("neutral")
  /\ UNCHANGED <<path, strip, attempt, up, sent, cut, held, emitted, private, out, seen, timer>>

\* Time does not pass beyond a timer that is due.
Tick ==
  /\ CASE phase = "sniffing" -> /\ timer.total < Deadline
                                /\ path = "same" => timer.beat < Grace
                                /\ timer' = [timer EXCEPT !.total = @ + 1,
                                                          !.beat = IF path = "same" THEN @ + 1 ELSE @]
       [] phase = "alive"    -> /\ timer.beat < Interval /\ timer.idle < Idle
                                /\ timer' = [timer EXCEPT !.beat = @ + 1, !.idle = @ + 1]
       [] phase = "relaying" -> /\ timer.idle < Idle
                                /\ timer' = [timer EXCEPT !.idle = @ + 1]
       [] OTHER -> FALSE
  /\ UNCHANGED <<path, strip, attempt, phase, up, sent, cut, held, emitted, private, out, seen, verdict>>

Next ==
  \/ \E new \in Chunks, half \in BOOLEAN :
       Sniff(new, half) \/ Listen(new, half) \/ Forward(new, half)
  \/ \E how \in {"eof", "broken"} : UpstreamEnds(how)
  \/ GraceOver \/ TimeOver \/ Beat \/ Close \/ IdleOver \/ Leave \/ Tick

\* The timers of the runtime go off and an ended body is polled once more.  The
\* upstream need not say anything and the client need not go.
Fairness == WF_vars(Tick) /\ WF_vars(GraceOver \/ TimeOver \/ Beat \/ IdleOver) /\ WF_vars(Close)

Spec == Init /\ [][Next]_vars

FairSpec == Spec /\ Fairness

-----------------------------------------------------------------------------
(* Properties.                                                              *)

\* The client hears one upstream only, and nothing after an error: once a byte is out
\* no other target is asked.  (commit_stream, private_stream.)
OneVoice ==
  /\ \A i \in DOMAIN out : out[i].by = attempt
  /\ \A i \in DOMAIN out : out[i].as = "error" => i = Len(out)

\* What the client gets are the upstream's frames in their order, each once, except
\* the usage that it did not ask for; a beat stands between frames; a stream that
\* ended well was given completely.  (Sniffer::flush_*, keep-alive, filters.)
NothingLost ==
  LET wanted == Keep([n \in DOMAIN sent |-> n], {n \in DOMAIN sent : ~(strip /\ sent[n] = "usage")})
      got == Keep(out, {f \in Elements(out) : f.as = "whole"})
  IN  /\ IsPrefix([i \in DOMAIN got |-> got[i].n], wanted)
      /\ \A i \in DOMAIN out : out[i].as # "torn"
      /\ phase = "settled" /\ up = "eof" /\ verdict[attempt] = "success" /\ ~cut
           => Len(got) = Len(wanted)

\* Once content flows a silent upstream cannot keep the request: it is settled.
\* (stream_idle_timeout.)
RelayEnds == phase = "relaying" ~> phase = "settled"

\* A stream that broke off is not counted as a success (settle.rs:8).
BrokenIsFailed == up = "broken" => verdict[attempt] # "success"

\* A response that is out with beats alone is ended by the idle timeout too, when the
\* upstream says nothing (README.md:296).
SilentEnds == phase = "alive" ~> phase # "alive"
=============================================================================
