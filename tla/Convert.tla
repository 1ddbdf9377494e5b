-------------------------------- MODULE Convert --------------------------------
(***************************************************************************)
(* Request and response bodies between two protocols: parse_request into   *)
(* the canonical form and emit_request out of it, parse_response and       *)
(* emit_response (protocol/*.rs).  Three questions are asked apart: the    *)
(* conversation with its calls and results, the options beside it, and the *)
(* answer with its reason and usage.                                       *)
(*                                                                         *)
(* A body of any protocol is a sequence of entries [role, parts].  Chat    *)
(* has an entry of the role "tool" for each result; Responses has entries  *)
(* "call", "output" and "reasoning" beside its messages, and one of the    *)
(* role "system" for its instructions, as Messages has for its system.     *)
(***************************************************************************)
EXTENDS Integers, Sequences, SequencesExt, FiniteSets

CONSTANTS MaxEntries,   \* entries of the conversation that is built
          MaxCalls      \* calls in it

Protocols == {"chat", "messages", "responses"}

VARIABLE task

(* ------------------------------ the parts ------------------------------ *)
(* mark: a thinking block is plain, signed (Messages) or sealed (encrypted,*)
(* Responses); a result is plain or rich, when it holds an image.          *)

Part(p, id, mark) == [p |-> p, id |-> id, mark |-> mark]
Text == Part("text", 0, "plain")
Image == Part("image", 0, "plain")
Refusal == Part("refusal", 0, "plain")
Thinking(mark) == Part("thinking", 0, mark)
Call(c) == Part("call", c, "plain")
ResultOf(c, mark) == Part("result", c, mark)

Entry(role, parts) == [role |-> role, parts |-> parts]
Only(parts, ps) == SelectSeq(parts, LAMBDA x : x.p \in ps)
Has(parts, p) == \E n \in 1 .. Len(parts) : parts[n].p = p

(* ------------------------------- parsing ------------------------------- *)

\* A part goes to the last message when that has the role, else into a new one.
AppendPart(messages, role, parts) ==
  IF messages # <<>> /\ Last(messages).role = role
    THEN [messages EXCEPT ![Len(messages)].parts = @ \o parts]
    ELSE Append(messages, Entry(role, parts))

ParseChat(messages, entry) ==
  IF entry.role = "tool" THEN AppendPart(messages, "user", entry.parts)
  ELSE Append(messages, entry)

ParseMessages(messages, entry) == Append(messages, entry)

ParseResponses(messages, entry) ==
  CASE entry.role \in {"call", "reasoning"} -> AppendPart(messages, "assistant", entry.parts)
    [] entry.role = "output" -> AppendPart(messages, "user", entry.parts)
    [] OTHER -> Append(messages, entry)

Parse(from, body) ==
  CASE from = "chat" -> FoldLeft(ParseChat, <<>>, body)
    [] from = "messages" -> FoldLeft(ParseMessages, <<>>, body)
    [] from = "responses" -> FoldLeft(ParseResponses, <<>>, body)

(* ------------------------------- emission ------------------------------ *)

NewBody == [body |-> <<>>, held |-> <<>>, degraded |-> {}]

\* flush: what was collected of a message becomes an entry, and nothing does not.
\* Chat lists the calls of a message after its content.
Flushed(b, role) ==
  IF b.held = <<>> THEN b
  ELSE [b EXCEPT !.body = Append(@, Entry(role, b.held)), !.held = <<>>]

ChatHeld(parts) == Only(parts, {"text", "image"}) \o Only(parts, {"refusal"}) \o Only(parts, {"call"})

\* A result is an entry of its own, and what came before it is another, before it.
ResultAlone(b, role, entry) == [Flushed(b, role) EXCEPT !.body = Append(@, entry)]
ResultFirst(b, role, entry) == [b EXCEPT !.body = Append(@, entry)]
OwnEntry(b, role, entry) == ResultAlone(b, role, entry)

EmitChatMessage(b, message) ==
  LET Take(acc, part) ==
        CASE part.p = "result" ->
               OwnEntry(acc, message.role,
                        Entry("tool", <<[part EXCEPT !.mark = "plain"]>>))
          [] part.p = "thinking" -> [acc EXCEPT !.degraded = @ \cup {"thinking"}]
          [] OTHER -> [acc EXCEPT !.held = ChatHeld(Append(@, part))]
  IN Flushed(FoldLeft(Take, b, message.parts), message.role)

EmitResponsesMessage(b, message) ==
  LET Take(acc, part) ==
        CASE part.p = "call" -> OwnEntry(acc, message.role, Entry("call", <<part>>))
          [] part.p = "result" -> OwnEntry(acc, message.role, Entry("output", <<part>>))
          [] part.p = "thinking" /\ part.mark = "sealed" ->
               OwnEntry(acc, message.role, Entry("reasoning", <<part>>))
          [] part.p = "thinking" /\ part.mark # "sealed" ->
               [acc EXCEPT !.degraded = @ \cup {"thinking"}]
          [] OTHER -> [acc EXCEPT !.held = Append(@, part)]
  IN Flushed(FoldLeft(Take, b, message.parts), message.role)

\* The texts of the system become the instructions, which stand before everything.
Instructs(b, parts) ==
  IF ~Has(parts, "text") THEN b
  ELSE IF b.body # <<>> /\ Head(b.body).role = "system"
    THEN [b EXCEPT !.body = [@ EXCEPT ![1].parts = @ \o Only(parts, {"text"})]]
    ELSE [b EXCEPT !.body = <<Entry("system", Only(parts, {"text"}))>> \o @]

OfSystem(entry) == entry.role \in {"system", "developer"}

EmitResponsesEntry(b, message) ==
  IF ~OfSystem(message) THEN EmitResponsesMessage(b, message)
  ELSE LET others == SelectSeq(message.parts, LAMBDA x : x.p # "text")
           told == Instructs(b, message.parts)
       IN IF others = <<>> THEN told
          ELSE [told EXCEPT !.body = Append(@, Entry("developer", others))]

\* A block of thinking stays where it has a signature and the assistant speaks.
Signed(role, part) == role = "assistant" /\ part.mark = "signed"

MergeTurn(body, role, blocks) == AppendPart(body, role, blocks)
PushTurn(body, role, blocks) == Append(body, Entry(role, blocks))
PushMessage(body, role, blocks) == MergeTurn(body, role, blocks)

EmitMessagesEntry(b, message) ==
  LET kept == SelectSeq(message.parts,
                        LAMBDA x : x.p # "thinking" \/ Signed(message.role, x))
      blocks == [n \in 1 .. Len(kept) |-> IF kept[n].p = "refusal" THEN Text ELSE kept[n]]
      noted == IF Len(kept) < Len(message.parts)
               THEN [b EXCEPT !.degraded = @ \cup {"thinking"}] ELSE b
  IN CASE blocks = <<>> -> noted
       [] blocks # <<>> /\ OfSystem(message) ->
            IF b.body # <<>> /\ Head(b.body).role = "system"
              THEN [noted EXCEPT !.body = [@ EXCEPT ![1].parts = @ \o blocks]]
              ELSE [noted EXCEPT !.body = <<Entry("system", blocks)>> \o @]
       [] OTHER -> [noted EXCEPT !.body = PushMessage(@, message.role, blocks)]

Emit(to, messages) ==
  CASE to = "chat" -> FoldLeft(EmitChatMessage, NewBody, messages)
    [] to = "messages" -> FoldLeft(EmitMessagesEntry, NewBody, messages)
    [] to = "responses" -> FoldLeft(EmitResponsesEntry, NewBody, messages)

Converted(from, to, body) == Emit(to, Parse(from, body))

(* ---------------------- what each protocol accepts --------------------- *)

CallsOf(entry) == {entry.parts[n].id : n \in {m \in 1 .. Len(entry.parts) : entry.parts[m].p = "call"}}
ResultsOf(entry) ==
  {entry.parts[n].id : n \in {m \in 1 .. Len(entry.parts) : entry.parts[m].p = "result"}}

\* The entries of the role "tool" that follow entry n.
Following(body, n) ==
  {m \in n + 1 .. Len(body) : \A k \in n + 1 .. m : body[k].role = "tool"}

\* Chat: the results stand directly behind the message with the calls, one for each.
ChatAccepts(body) ==
  \A n \in 1 .. Len(body) :
    /\ body[n].role = "assistant" =>
         CallsOf(body[n]) = UNION {ResultsOf(body[m]) : m \in Following(body, n)}
    /\ body[n].role = "tool" =>
         \E m \in 1 .. n - 1 : body[m].role = "assistant" /\ n \in Following(body, m)

\* Messages: the speakers alternate, and the turn after one with calls holds their results.
MessagesAccept(body) ==
  \A n \in 1 .. Len(body) :
    /\ body[n].role = "system" => n = 1
    /\ n > 1 => body[n].role # body[n - 1].role
    /\ body[n].role = "assistant" /\ CallsOf(body[n]) # {} =>
         n < Len(body) /\ ResultsOf(body[n + 1]) = CallsOf(body[n])
    /\ ResultsOf(body[n]) # {} => n > 1 /\ CallsOf(body[n - 1]) = ResultsOf(body[n])

\* Responses: a result comes after its call, and once.
ResponsesAccept(body) ==
  \A n \in 1 .. Len(body) :
    body[n].role = "output" =>
      /\ \E m \in 1 .. n - 1 : body[m].role = "call" /\ CallsOf(body[m]) = ResultsOf(body[n])
      /\ \A m \in 1 .. n - 1 : body[m].role = "output" => ResultsOf(body[m]) # ResultsOf(body[n])

Accepts(to, body) ==
  CASE to = "chat" -> ChatAccepts(body)
    [] to = "messages" -> MessagesAccept(body)
    [] to = "responses" -> ResponsesAccept(body)

(* --------------------- the conversation that is built ------------------ *)

Made(body) == UNION {CallsOf(body[n]) : n \in 1 .. Len(body)}
Open(body) == Made(body) \ UNION {ResultsOf(body[n]) : n \in 1 .. Len(body)}

\* What an assistant says in one message: perhaps thinking, perhaps text, then calls.
Speeches(body, mark) ==
  LET first == Cardinality(Made(body))
      Wanted(n) == [k \in 1 .. n |-> Call(first + k)]
  IN {th \o tx \o Wanted(n) :
        th \in {<<>>, <<Thinking(mark)>>}, tx \in {<<>>, <<Text>>} \cup (IF mark = "signed" THEN {} ELSE {<<Refusal>>}),
        n \in 0 .. MaxCalls - first} \ {<<>>}

Questions == {<<Text>>, <<Text, Image>>}
Marks == {"plain", "rich"}

ChatEntries(body) ==
  IF Open(body) = {}
    THEN {Entry(role, <<Text>>) : role \in {"system", "developer"}}
         \cup {Entry("user", q) : q \in Questions}
         \cup {Entry("assistant", sp) : sp \in Speeches(body, "plain")}
    ELSE {Entry("tool", <<ResultOf(c, "plain")>>) : c \in Open(body)}

\* The results of all the calls come in one turn, in their order, and text may follow.
Results(body, mark) ==
  [k \in 1 .. Cardinality(Open(body)) |->
     ResultOf(Cardinality(Made(body)) - Cardinality(Open(body)) + k, mark)]

MessagesEntries(body) ==
  IF body # <<>> /\ Last(body).role = "user"
    THEN {Entry("assistant", sp) : sp \in Speeches(body, "signed")}
    ELSE IF Open(body) # {}
      THEN {Entry("user", Results(body, mark) \o tx) : mark \in Marks, tx \in {<<>>, <<Text>>}}
      ELSE {Entry("user", q) : q \in Questions}
           \cup {Entry("system", <<Text>>) : x \in IF body = <<>> THEN {1} ELSE {}}

ResponsesEntries(body) ==
  {Entry("system", <<Text>>) : x \in IF body = <<>> THEN {1} ELSE {}}
  \cup (IF Open(body) = {}
          THEN {Entry("developer", <<Text>>)} \cup {Entry("user", q) : q \in Questions}
               \cup {Entry("reasoning", <<Thinking(m)>>) : m \in {"plain", "sealed"}}
          ELSE {Entry("output", <<ResultOf(c, m)>>) : c \in Open(body), m \in Marks})
  \cup {Entry("assistant", <<said>>) : said \in {Text, Refusal}}
  \cup (IF Cardinality(Made(body)) < MaxCalls /\ (body = <<>> \/ Last(body).role # "output" \/ Open(body) = {})
          THEN {Entry("call", <<Call(Cardinality(Made(body)) + 1)>>)} ELSE {})

Entries(from, body) ==
  CASE from = "chat" -> ChatEntries(body)
    [] from = "messages" -> MessagesEntries(body)
    [] from = "responses" -> ResponsesEntries(body)

(* -------------------------------- options ------------------------------ *)

Sampling(protocol) ==
  CASE protocol = "chat" -> {"temperature", "seed", "top_logprobs"}
    [] protocol = "messages" -> {"temperature", "top_k"}
    [] protocol = "responses" -> {"temperature", "top_logprobs", "truncation"}

\* parse_request of each: what a body can say beside the conversation.
ChatOptions ==
  [tools : {"none", "plain", "strict"}, choice : {"none", "auto", "named"}, parallel : BOOLEAN,
   schema : BOOLEAN, thinking : {"unsaid", "off", "high", "max"}, stop : BOOLEAN,
   sampling : SUBSET Sampling("chat"), foreign : {"none", "unknown field", "vendor tool"}]

\* No schema and no strict tools.
MessagesOptions ==
  {[o EXCEPT !.sampling = s] :
     o \in {x \in ChatOptions : ~x.schema /\ x.tools # "strict" /\ x.sampling = {}},
     s \in SUBSET Sampling("messages")}

\* No stop sequences.
ResponsesOptions ==
  {[o EXCEPT !.sampling = s] :
     o \in {x \in ChatOptions : ~x.stop /\ x.sampling = {}}, s \in SUBSET Sampling("responses")}

Options(from) ==
  CASE from = "chat" -> ChatOptions
    [] from = "messages" -> MessagesOptions
    [] from = "responses" -> ResponsesOptions

\* reject_inexpressible, and the schema that Messages cannot say.
Rejected(to, o) == o.foreign # "none" \/ (to = "messages" /\ o.schema)
OnlyForeign(to, o) == o.foreign # "none"
Refused(to, o) == Rejected(to, o)

\* emit_request of each: what is left of the options in its body.  Both OpenAI protocols
\* fold the highest effort.
Folded(o) == [o EXCEPT !.thinking = IF @ = "max" THEN "high" ELSE @]

ChatBody(o) == [Folded(o) EXCEPT !.sampling = @ \cap Sampling("chat")]

\* ThinkingContract::of: what the model behind a Messages upstream takes.  A strict one
\* takes no sampling, and neither it nor an adaptive one can be told not to think.
Contracts == {"manual", "adaptive", "strict"}
Sampled(model) == IF model = "strict" THEN {} ELSE Sampling("messages")
Unthinking(model, o) == model # "manual" /\ o.thinking = "off"

Stripped(model, o) ==
  [o EXCEPT !.sampling = @ \cap Sampled(model),
            !.thinking = IF Unthinking(model, o) THEN "unsaid" ELSE @]

\* The ban of parallel calls travels in the choice, when there is one.
MessagesBody(model, o) ==
  [Stripped(model, o) EXCEPT !.tools = IF @ = "strict" THEN "plain" ELSE @,
                             !.parallel = @ \/ o.choice = "none", !.schema = FALSE]

ResponsesBody(o) ==
  [Folded(o) EXCEPT !.stop = FALSE, !.sampling = @ \cap Sampling("responses")]

Carried(to, model, o) ==
  CASE to = "chat" -> ChatBody(o)
    [] to = "messages" -> MessagesBody(model, o)
    [] to = "responses" -> ResponsesBody(o)

Degraded(to, model, o) ==
  (o.sampling \ (IF to = "messages" THEN Sampled(model) ELSE Sampling(to)))
  \cup (IF o.stop /\ to = "responses" THEN {"stop"} ELSE {})
  \cup (IF to = "messages" /\ Unthinking(model, o) THEN {"thinking"} ELSE {})

(* --------------------------------- answer ------------------------------ *)

Reasons == {"EndTurn", "MaxTokens", "StopSequence", "ToolUse", "ContentFilter", "Refusal"}

\* What the output says of its end where the upstream does not.
Derived(a) == IF a.calls THEN "ToolUse" ELSE IF a.refusal THEN "Refusal" ELSE "EndTurn"

Among(names, said, else) == IF said \in DOMAIN names THEN names[said] ELSE else

ReadsChatStop(a) ==
  Among([length |-> "MaxTokens", tool_calls |-> "ToolUse", content_filter |-> "ContentFilter"],
        a.said, Derived(a))
ReadsMessagesStop(a) ==
  Among([max_tokens |-> "MaxTokens", stop_sequence |-> "StopSequence", tool_use |-> "ToolUse",
         refusal |-> "Refusal"], a.said, "EndTurn")
ReadsResponsesStop(a) ==
  Among([max_output_tokens |-> "MaxTokens", content_filter |-> "ContentFilter"],
        a.said, Derived(a))

ReadsStop(from, a) ==
  CASE from = "chat" -> ReadsChatStop(a)
    [] from = "messages" -> ReadsMessagesStop(a)
    [] from = "responses" -> ReadsResponsesStop(a)

SaysChatStop(stop) ==
  Among([MaxTokens |-> "length", ToolUse |-> "tool_calls", ContentFilter |-> "content_filter"],
        stop, "stop")
SaysMessagesStop(stop) ==
  Among([MaxTokens |-> "max_tokens", StopSequence |-> "stop_sequence", ToolUse |-> "tool_use",
         Refusal |-> "refusal"], stop, "end_turn")
SaysResponsesStop(stop) ==
  Among([MaxTokens |-> "max_output_tokens", ContentFilter |-> "content_filter"],
        stop, "completed")

SaysStop(to, stop) ==
  CASE to = "chat" -> SaysChatStop(stop)
    [] to = "messages" -> SaysMessagesStop(stop)
    [] to = "responses" -> SaysResponsesStop(stop)

\* What an upstream that means `stop` says; only Responses leaves it to the output.
Upstreams(from) ==
  LET Said(stop) == SaysStop(from, stop)
  IN {[calls |-> stop = "ToolUse" \/ c, refusal |-> stop = "Refusal", said |-> Said(stop),
       meant |-> stop] :
        stop \in Reasons \ {IF from = "messages" THEN "ContentFilter" ELSE "StopSequence"},
        c \in {FALSE}}
     \cup {[calls |-> TRUE, refusal |-> FALSE, said |-> Said("MaxTokens"), meant |-> "MaxTokens"]}
     \cup (IF from = "chat"
             THEN {[calls |-> TRUE, refusal |-> FALSE, said |-> "stop", meant |-> "ToolUse"]} ELSE {})

\* input is the whole input here; Messages reports it without what the cache had.
Tokens == [input : {3, 4}, output : {1}, read : 0 .. 2, write : 0 .. 1]

Reported(from, u) ==
  IF from = "messages" THEN [u EXCEPT !.input = @ - u.read - u.write]
  ELSE [u EXCEPT !.write = 0]

ReadsAsSaid(from, w) == IF from = "messages" THEN w ELSE [w EXCEPT !.write = 0]
ReadsUsage(from, w) ==
  IF from = "messages" THEN [w EXCEPT !.input = @ + w.read + w.write] ELSE [w EXCEPT !.write = 0]

SaysUsage(to, u) ==
  IF to # "messages" THEN u
  ELSE [u EXCEPT !.input = IF u.read + u.write > @ THEN 0 ELSE @ - u.read - u.write]

(* --------------------------------- steps ------------------------------- *)

Conversation(from, body, orderly) ==
  [about |-> "conversation", from |-> from, body |-> body, orderly |-> orderly]

Init ==
  \/ \E from \in Protocols : task = Conversation(from, <<>>, TRUE)
  \/ \E from \in Protocols : \E o \in Options(from) :
       task = [about |-> "options", from |-> from, options |-> o]
  \/ \E from \in Protocols : \E a \in Upstreams(from), u \in Tokens :
       task = [about |-> "answer", from |-> from, answer |-> a, usage |-> u]

\* The conversation grows by one entry.  A message between a call and its output, which
\* only Responses can hold, is not orderly.
Grow ==
  /\ task.about = "conversation" /\ Len(task.body) < MaxEntries
  /\ \E e \in Entries(task.from, task.body) :
       task' = Conversation(task.from, Append(task.body, e),
                            task.orderly /\ (e.role = "assistant" => Open(task.body) = {}))

Next == Grow

Spec == Init /\ [][Next]_task

(* ------------------------------- properties ---------------------------- *)

Others == Protocols \ {task.from}

TypeOK ==
  /\ task.from \in Protocols
  /\ task.about = "conversation" => Len(task.body) <= MaxEntries
  /\ task.about = "answer" => ReadsStop(task.from, task.answer) \in Reasons

\* The parts that carry the conversation: a refusal is text in Messages.
Plain(part) == IF part.p = "refusal" THEN Text ELSE [part EXCEPT !.mark = "plain"]
Story(body) ==
  LET Add(acc, entry) ==
        IF OfSystem(entry) THEN acc
        ELSE LET said == SelectSeq(entry.parts, LAMBDA x : x.p # "thinking")
             IN acc \o [n \in 1 .. Len(said) |-> Plain(said[n])]
  IN FoldLeft(Add, <<>>, body)

Thoughts(body) == {n \in 1 .. Len(body) : Has(body[n].parts, "thinking")}

\* A conversation whose calls are all answered is, in each of the six directions, a body
\* that the target accepts, with each result where the target looks for it, the parts in
\* their order, and thinking lost only where `degraded` says so (mod.rs:562, degrade.rs).
ConversationKept ==
  (task.about = "conversation" /\ task.orderly /\ Open(task.body) = {}) =>
    \A to \in Others :
      LET r == Converted(task.from, to, task.body) IN
      /\ Accepts(to, r.body)
      /\ Story(r.body) = Story(task.body)
      /\ (Thoughts(task.body) # {} /\ Thoughts(r.body) = {}) => "thinking" \in r.degraded

\* What cannot work without an option fails or keeps it, and what may go is named
\* (degrade.rs:3): schema, foreign fields and tools, the choice, stop, sampling, and the
\* wish not to think, which some models behind a Messages upstream refuse.
OptionsKept ==
  task.about = "options" =>
    \A to \in Others, model \in Contracts :
      ~Refused(to, task.options) =>
        LET c == Carried(to, model, task.options)
            named == Degraded(to, model, task.options)
        IN /\ task.options.foreign = "none"
           /\ c.schema = task.options.schema /\ c.choice = task.options.choice
           /\ (c.tools = "none") = (task.options.tools = "none")
           /\ c.stop = task.options.stop \/ "stop" \in named
           /\ task.options.sampling \ c.sampling \subseteq named
           /\ (task.options.thinking = "off" /\ c.thinking # "off") => "thinking" \in named

\* A client of any protocol learns that the answer was cut, or that a call waits for it,
\* and it is told the same number of tokens, whatever each protocol counts as input.
AnswerKept ==
  task.about = "answer" =>
    \A to \in Others :
      LET stop == ReadsStop(task.from, task.answer)
          seen == ReadsStop(to, [task.answer EXCEPT !.said = SaysStop(to, stop)])
          read == ReadsUsage(task.from, Reported(task.from, task.usage))
          told == ReadsUsage(to, SaysUsage(to, read))
      IN /\ task.answer.meant \in {"MaxTokens", "ToolUse"} => seen = task.answer.meant
         /\ told.input = task.usage.input /\ told.output = task.usage.output
         /\ told.read = task.usage.read

(* What the sources say and the code does not do: see the README. *)

\* degrade.rs:9: an image is never dropped; a result of Chat keeps only its texts.
ImagesKept ==
  (task.about = "conversation" /\ task.orderly /\ Open(task.body) = {}) =>
    \A to \in Others :
      LET r == Converted(task.from, to, task.body)
          Rich(body) == {n \in 1 .. Len(body) : \E k \in 1 .. Len(body[n].parts) :
                           body[n].parts[k].mark = "rich"}
      IN Rich(task.body) # {} => Rich(r.body) # {}

\* degrade.rs:16: what is lost is said: the strict of a tool and the ban of parallel calls are not.
AllOptionsKept ==
  task.about = "options" =>
    \A to \in Others :
      ~Refused(to, task.options) =>
        LET c == Carried(to, "manual", task.options)
        IN c.tools = task.options.tools /\ c.parallel = task.options.parallel

\* The same for a conversation in which a message stands between a call and its result.
AlwaysAccepted ==
  (task.about = "conversation" /\ Open(task.body) = {}) =>
    \A to \in Others : Accepts(to, Converted(task.from, to, task.body).body)
================================================================================
