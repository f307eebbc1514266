----------------------------- MODULE LlmStream -----------------------------
(***************************************************************************)
(* One request to a model and its reply: the three backends (llm/openai.rs *)
(* and the two of llm/deepseek.rs) and the loop of the agent that puts a   *)
(* streamed reply together (run_turn_streaming).                           *)
(*                                                                         *)
(* A reply comes as lines, one per event, cut anywhere into reads.  Two    *)
(* backends keep the start of a line until its end has come, and turn each *)
(* read into characters on its own; the third takes every read for whole   *)
(* lines.  The chat backend keeps the fragments of tool calls until a line *)
(* says that the reply is complete, the other DeepSeek one keeps the last  *)
(* call, and the OpenAI one hands every fragment on.                       *)
(*                                                                         *)
(* The names and arguments of calls are sequences of numbered fragments, 0 *)
(* for one that was cut inside a character; a text is a sequence of words. *)
(* An error of the body is an item of the stream like any other: the loop  *)
(* logs it and asks for the next one.  Reasoning, which no message keeps, *)
(* and lines that carry nothing ([DONE], comments) are left out.           *)
(***************************************************************************)
EXTENDS Naturals, Sequences, SequencesExt, FiniteSets

CONSTANTS
    Histories,      \* the conversations a request may be about
    Words,          \* the texts a line may carry
    Garbled,        \* a text that was cut inside a character
    TotalLimit,     \* the timeout of the client, from the request to the last byte
    IdleLimit,      \* STREAM_IDLE_TIMEOUT, from one read to the next
    MaxText,        \* bound: words of a reply
    MaxCalls,       \* bound: tool calls of a reply
    MaxFragments,   \* bound: fragments of the arguments of a call
    MaxParts        \* bound: words and calls of a reply together

\* A message: the ids of the calls of an assistant, the one id of the call a tool answers.
Messages == {m \in [role : {"system", "user", "assistant", "tool"}, ids : Seq(STRING)] :
                 m.role = "tool" => Len(m.ids) = 1}

ASSUME LlmAssumption ==
    /\ {TotalLimit, IdleLimit, MaxText, MaxCalls, MaxFragments, MaxParts} \subseteq Nat
    /\ Garbled \notin Words
    /\ \A history \in Histories : history \in Seq(Messages)

VARIABLES
    llmBackend,     \* "chat" and "responses" of DeepSeek, "openai"
    llmPhase,       \* "new", "asked", "reading", "failing" (the body), "expired" (the
                    \* client's time), "ended", "failed" (the request)
    llmWhy,         \* how a reply ended: "closed", "error", "time", "abort"
    llmSaid,        \* what the model has said so far
    llmHeld,        \* a line of which the start has been read
    llmBuffer,      \* the tool calls a backend keeps
    llmReply,       \* what the agent loop has put together
    llmAbort,       \* the abort channel of the turn
    llmSpoilt,      \* history: what reads have cut: "line", "text", "call"
    llmTotal, llmSilent     \* time since the request, and since the last read

llmVars == <<llmBackend, llmPhase, llmWhy, llmSaid, llmHeld, llmBuffer,
             llmReply, llmAbort, llmSpoilt, llmTotal, llmSilent>>

NoIndex == 0
ToolCall(index, name, args) == [index |-> index, name |-> name, args |-> args]

\* usage: the token counts come "with" the line that ends the reply, "after" it, or not.
Nothing == [text |-> <<>>, calls |-> <<>>, usage |-> "none", finished |-> FALSE]

\* A line: words of text, fragments of calls, whether it ends the reply and counts tokens.
SseLine(text, calls, finish, usage) == [text |-> text, calls |-> calls, finish |-> finish, usage |-> usage]
NoSseLine == SseLine(<<>>, <<>>, FALSE, FALSE)

LlmInit ==
    /\ llmBackend \in {"chat", "responses", "openai"}
    /\ llmPhase = "new" /\ llmWhy = "none"
    /\ llmSaid = Nothing /\ llmHeld = NoSseLine /\ llmBuffer = <<>>
    /\ llmReply = [text |-> <<>>, calls |-> <<>>, usage |-> FALSE]
    /\ llmAbort = FALSE /\ llmSpoilt = {} /\ llmTotal = 0 /\ llmSilent = 0

(***************************************************************************)
(* The request: what the backends make of a conversation.                  *)
(***************************************************************************)
Item(type, id) == [type |-> type, id |-> id]
CallItems(ids) == [i \in DOMAIN ids |-> Item("call", ids[i])]

\* convert_messages of OpenAI and the chat backend's: message by message.
Converted(message) ==
    CASE message.role = "assistant" -> <<Item("said", "")>> \o CallItems(message.ids)
      [] message.role = "tool" -> <<Item("output", message.ids[1])>>
      [] OTHER -> <<Item(message.role, "")>>

\* The Responses backend: the calls of an assistant wait for the next assistant, or for
\* the end; its text goes only with no calls, a system message only as the instructions.
Waiting(input, pending) == [input |-> input, pending |-> pending]

AddItem(state, message) ==
    CASE message.role = "assistant" ->
           LET input == state.input \o state.pending
           IN  IF message.ids = <<>> THEN Waiting(Append(input, Item("said", "")), <<>>)
               ELSE Waiting(input, CallItems(message.ids))
      [] message.role = "tool" ->
           Waiting(Append(state.input, Item("output", message.ids[1])), state.pending)
      [] message.role = "user" -> Waiting(Append(state.input, Item("user", "")), state.pending)
      [] OTHER -> state

\* A mutant: the calls that wait at the end are forgotten.
ResponsesInputUnflushed(history) == FoldLeft(AddItem, Waiting(<<>>, <<>>), history).input

ResponsesInput(history) ==
    LET end == FoldLeft(AddItem, Waiting(<<>>, <<>>), history) IN end.input \o end.pending

RequestItems(backend, history) ==
    IF backend = "responses" THEN ResponsesInput(history)
    ELSE FlattenSeq([i \in DOMAIN history |-> Converted(history[i])])

\* An effort that DeepSeek does not know is an error before anything is sent.
Ask ==
    /\ llmPhase = "new"
    /\ \/ llmPhase' = "asked"
       \/ llmBackend # "openai" /\ llmPhase' = "failed"
    /\ UNCHANGED <<llmBackend, llmWhy, llmSaid, llmHeld, llmBuffer, llmReply,
                   llmAbort, llmSpoilt, llmTotal, llmSilent>>

\* The status is good and the body is to be read as a stream, or it is an error.
Respond ==
    /\ llmPhase = "asked" /\ llmPhase' \in {"reading", "failed"} /\ llmSilent' = 0
    /\ UNCHANGED <<llmBackend, llmWhy, llmSaid, llmHeld, llmBuffer, llmReply,
                   llmAbort, llmSpoilt, llmTotal>>

\* complete: the whole answer in one body; the first choice of a chat, all output items
\* of a response.
Fragments(n) == [i \in 1..n |-> i]
Answers ==
    [text : {<<>>} \cup {<<w>> : w \in Words},
     calls : {[i \in 1..n |-> ToolCall(i, Fragments(1), Fragments(MaxFragments))] : n \in 0..MaxCalls},
     usage : {"none", "with"}, finished : {TRUE}]

Complete ==
    /\ llmPhase = "asked" /\ llmPhase' = "ended" /\ llmWhy' = "closed"
    /\ llmSaid' \in Answers
    /\ llmReply' = [text |-> llmSaid'.text, calls |-> llmSaid'.calls, usage |-> llmSaid'.usage = "with"]
    /\ UNCHANGED <<llmBackend, llmHeld, llmBuffer, llmAbort, llmSpoilt, llmTotal, llmSilent>>

(***************************************************************************)
(* The model and its service: text, then calls one after the other, then   *)
(* the end, and the token counts with the end or after it.                 *)
(***************************************************************************)
Opened == Len(llmSaid.calls)
Current == llmSaid.calls[Opened]
Fragment(name, args) == SseLine(<<>>, <<ToolCall(Opened, name, args)>>, FALSE, FALSE)

Utters(said) == ~llmSaid.finished /\ llmHeld = NoSseLine /\ llmSaid' = said

SaysText(line) ==
    \E w \in Words :
        /\ Opened = 0 /\ Len(llmSaid.text) < MaxText
        /\ line = SseLine(<<w>>, <<>>, FALSE, FALSE)
        /\ Utters([llmSaid EXCEPT !.text = Append(@, w)])

OpensCall(line) ==
    /\ Opened < MaxCalls /\ Opened + Len(llmSaid.text) < MaxParts
    /\ line = SseLine(<<>>, <<ToolCall(Opened + 1, <<1>>, <<>>)>>, FALSE, FALSE)
    /\ Utters([llmSaid EXCEPT !.calls = Append(@, ToolCall(Opened + 1, <<1>>, <<>>))])

\* The chat service may cut the name of a function, and every service its arguments.
ExtendsCall(line) ==
    /\ Opened > 0
    /\ \/ /\ llmBackend = "chat" /\ Current.args = <<>> /\ Len(Current.name) = 1
          /\ line = Fragment(<<2>>, <<>>)
          /\ Utters([llmSaid EXCEPT !.calls[Opened].name = <<1, 2>>])
       \/ LET n == Len(Current.args) + 1 IN
          /\ n <= MaxFragments
          /\ line = Fragment(<<>>, <<n>>)
          /\ Utters([llmSaid EXCEPT !.calls[Opened].args = Append(@, n)])

EndsReply(line) ==
    \E usage \in BOOLEAN :
        /\ line = SseLine(<<>>, <<>>, TRUE, usage)
        /\ Utters([llmSaid EXCEPT !.finished = TRUE, !.usage = IF usage THEN "with" ELSE "none"])

CountsTokens(line) ==
    /\ llmSaid.finished /\ llmSaid.usage = "none" /\ llmHeld = NoSseLine
    /\ llmBackend # "responses"
    /\ line = SseLine(<<>>, <<>>, FALSE, TRUE)
    /\ llmSaid' = [llmSaid EXCEPT !.usage = "after"]

(***************************************************************************)
(* The backends: what they keep of a line, and the chunk they yield.       *)
(***************************************************************************)
\* Mutants: the last fragment of a name replaces it; a fragment starts a call of its own.
GatherLastName(buffer, call) ==
    IF \E i \in DOMAIN buffer : buffer[i].index = call.index
    THEN [i \in DOMAIN buffer |->
            IF buffer[i].index = call.index
            THEN ToolCall(call.index, IF call.name = <<>> THEN buffer[i].name ELSE call.name,
                          buffer[i].args \o call.args)
            ELSE buffer[i]]
    ELSE Append(buffer, call)
\* Fragments of the same call are put together, its name too.
Gather(buffer, call) ==
    IF \E i \in DOMAIN buffer : buffer[i].index = call.index
    THEN [i \in DOMAIN buffer |->
            IF buffer[i].index = call.index
            THEN ToolCall(call.index, buffer[i].name \o call.name, buffer[i].args \o call.args)
            ELSE buffer[i]]
    ELSE Append(buffer, call)

\* One call is open at a time: the next one takes its place.
Open(buffer, call) ==
    IF call.name # <<>> THEN <<ToolCall(NoIndex, call.name, call.args)>>
    ELSE [i \in DOMAIN buffer |-> [buffer[i] EXCEPT !.args = @ \o call.args]]

Buffered(line) ==
    CASE llmBackend = "chat" -> FoldLeft(Gather, llmBuffer, line.calls)
      [] llmBackend = "responses" -> FoldLeft(Open, llmBuffer, line.calls)
      [] OTHER -> <<>>

\* A line of text is a chunk of its own.  The kept calls go with each line that says the
\* reply is complete: to the chat backend that is its end, and its token counts.
Terminal(line) == line.finish \/ line.usage

Chunk(text, calls, usage) == [text |-> text, calls |-> calls, usage |-> usage]
Yielded(line) ==
    IF llmBackend = "openai"
    THEN IF line.usage /\ ~line.finish THEN <<>> ELSE <<Chunk(line.text, line.calls, FALSE)>>
    ELSE IF line.text # <<>> THEN <<Chunk(line.text, <<>>, FALSE)>>
    ELSE IF Terminal(line) THEN <<Chunk(<<>>, Buffered(line), line.usage)>>
    ELSE <<>>

(***************************************************************************)
(* The agent loop.                                                         *)
(***************************************************************************)
\* Fragments with one index are one call: the name is replaced, the arguments go on.
Merge(calls, call) ==
    IF \E i \in DOMAIN calls : calls[i].index = call.index
    THEN LET i == CHOOSE j \in DOMAIN calls : calls[j].index = call.index
         IN  [calls EXCEPT ![i].name = IF call.name = <<>> THEN @ ELSE call.name,
                           ![i].args = @ \o call.args]
    ELSE Append(calls, call)

\* A chunk with a text like the one before it is taken for a repetition and skipped, with
\* whatever else is in it.
RepeatsText(text, more) == more # <<>> /\ text # <<>> /\ Last(text) = more[1]

Consume(reply, chunk) ==
    IF RepeatsText(reply.text, chunk.text) THEN reply
    ELSE [text |-> reply.text \o chunk.text,
          calls |-> FoldLeft(Merge, reply.calls, chunk.calls),
          usage |-> reply.usage \/ chunk.usage]

\* A chunk that comes after an abort is not looked at any more.
Process(line) ==
    LET chunks == Yielded(line) IN
    /\ llmBuffer' = Buffered(line)
    /\ IF llmAbort /\ chunks # <<>>
       THEN llmPhase' = "ended" /\ llmWhy' = "abort" /\ UNCHANGED llmReply
       ELSE UNCHANGED <<llmPhase, llmWhy>> /\ llmReply' = FoldLeft(Consume, llmReply, chunks)

(***************************************************************************)
(* The reads of the body.                                                  *)
(***************************************************************************)
Says(line) ==
    SaysText(line) \/ OpensCall(line) \/ ExtendsCall(line) \/ EndsReply(line) \/ CountsTokens(line)

\* The lines a service may send; all of them are tried by the reads below.
SseLines ==
    {SseLine(<<w>>, <<>>, FALSE, FALSE) : w \in Words}
        \cup {SseLine(<<>>, <<ToolCall(i, name, args)>>, FALSE, FALSE) :
                i \in 1..MaxCalls, name \in {<<>>, <<1>>, <<2>>},
                args \in {<<>>} \cup {<<n>> : n \in 1..MaxFragments}}
        \cup {SseLine(<<>>, <<>>, finish, usage) : finish, usage \in BOOLEAN}

ReadEvent(line) ==
    /\ llmPhase = "reading" /\ Says(line)
    /\ Process(line)
    /\ llmSilent' = 0
    /\ UNCHANGED <<llmBackend, llmHeld, llmAbort, llmSpoilt, llmTotal>>

\* from_utf8_lossy of the two parts of a line that was cut inside a character.
CutFragment(fragments) == IF fragments = <<>> THEN <<>> ELSE <<0>>
CutLine(line) ==
    [line EXCEPT !.text = IF @ = <<>> THEN <<>> ELSE <<Garbled>>,
                 !.calls = [i \in DOMAIN @ |-> ToolCall(@[i].index, CutFragment(@[i].name), CutFragment(@[i].args))]]

\* A read ends within the line, maybe inside a character of its text or of its call: the
\* part before the cut and the part after it are turned into characters each on its own.
ReadStart(line) ==
    /\ llmPhase = "reading" /\ Says(line)
    /\ \/ llmHeld' = line /\ llmSpoilt' = llmSpoilt \cup {"line"}
       \/ /\ line.text # <<>> \/ line.calls # <<>>
          /\ llmHeld' = CutLine(line)
          /\ llmSpoilt' = llmSpoilt \cup {"line", IF line.text # <<>> THEN "text" ELSE "call"}
    /\ llmSilent' = 0
    /\ UNCHANGED <<llmBackend, llmPhase, llmWhy, llmBuffer, llmReply, llmAbort, llmTotal>>

\* The rest of it; to the Responses backend neither part was a line.
ReadRest ==
    /\ llmPhase = "reading" /\ llmHeld # NoSseLine
    /\ llmHeld' = NoSseLine
    /\ IF llmBackend = "responses" THEN UNCHANGED <<llmPhase, llmWhy, llmBuffer, llmReply>>
       ELSE Process(llmHeld)
    /\ llmSilent' = 0
    /\ UNCHANGED <<llmBackend, llmSaid, llmAbort, llmSpoilt, llmTotal>>

\* A mutant: what a backend has kept goes out when the body is over.
BodyEndsFlushing ==
    /\ llmPhase \in {"reading", "failing"} /\ llmPhase' = "ended"
    /\ llmWhy' = IF llmPhase = "failing" THEN "error" ELSE "closed"
    /\ llmReply' = Consume(llmReply, Chunk(<<>>, IF llmReply.calls = <<>> THEN llmBuffer ELSE <<>>, FALSE))
    /\ UNCHANGED <<llmBackend, llmSaid, llmHeld, llmBuffer, llmAbort, llmSpoilt, llmTotal, llmSilent>>

\* None: the body is over, and what came before is the reply.
BodyEnds ==
    /\ llmPhase \in {"reading", "failing"} /\ llmPhase' = "ended"
    /\ llmWhy' = IF llmPhase = "failing" THEN "error" ELSE "closed"
    /\ UNCHANGED <<llmBackend, llmSaid, llmHeld, llmBuffer, llmReply, llmAbort, llmSpoilt,
                   llmTotal, llmSilent>>

\* An item without a chunk is an error.  It is logged and the stream is polled again; an
\* abort is looked at before.
YieldError(phase) ==
    IF llmAbort THEN llmPhase' = "ended" /\ llmWhy' = "abort"
    ELSE llmPhase' = phase /\ UNCHANGED llmWhy

\* The body fails: a connection that is reset, a frame that is broken.
BodyFails ==
    /\ llmPhase = "reading" /\ YieldError("failing")
    /\ UNCHANGED <<llmBackend, llmSaid, llmHeld, llmBuffer, llmReply, llmAbort, llmSpoilt,
                   llmTotal, llmSilent>>

\* One error after the other: what a poll of a body that has failed may give, and every
\* poll of one whose time is over gives.
YieldsAgain(phase) ==
    /\ llmPhase = phase /\ llmAbort /\ YieldError(phase)
    /\ UNCHANGED <<llmBackend, llmSaid, llmHeld, llmBuffer, llmReply, llmAbort, llmSpoilt,
                   llmTotal, llmSilent>>

Body == {"reading", "failing"}
TotalExpired == llmTotal >= TotalLimit
IdleExpired == llmBackend # "openai" /\ llmPhase \in Body /\ llmSilent >= IdleLimit
Expired == TotalExpired \/ IdleExpired

\* A mutant: only reads have a timeout.
ExpireReads ==
    /\ llmPhase \in Body /\ Expired /\ YieldError("expired")
    /\ UNCHANGED <<llmBackend, llmSaid, llmHeld, llmBuffer, llmReply, llmAbort, llmSpoilt,
                   llmTotal, llmSilent>>

\* The client's timeout fails the request, or every poll of its body from then on; the idle
\* one ends the stream.
Expire ==
    /\ llmPhase \in {"asked"} \cup Body /\ Expired
    /\ CASE llmPhase = "asked" -> llmPhase' = "failed" /\ UNCHANGED llmWhy
         [] llmPhase # "asked" /\ TotalExpired -> YieldError("expired")
         [] OTHER -> llmPhase' = "ended" /\ llmWhy' = IF llmAbort THEN "abort" ELSE "time"
    /\ UNCHANGED <<llmBackend, llmSaid, llmHeld, llmBuffer, llmReply, llmAbort, llmSpoilt,
                   llmTotal, llmSilent>>

Tick ==
    /\ llmPhase \in {"asked"} \cup Body /\ ~Expired
    /\ llmTotal' = llmTotal + 1 /\ llmSilent' = llmSilent + 1
    /\ UNCHANGED <<llmBackend, llmPhase, llmWhy, llmSaid, llmHeld, llmBuffer,
                   llmReply, llmAbort, llmSpoilt>>

AbortTurn ==
    /\ llmPhase \in {"asked", "expired"} \cup Body /\ ~llmAbort /\ llmAbort' = TRUE
    /\ UNCHANGED <<llmBackend, llmPhase, llmWhy, llmSaid, llmHeld, llmBuffer,
                   llmReply, llmSpoilt, llmTotal, llmSilent>>

LlmNext ==
    \/ Ask \/ Respond \/ Complete \/ ReadRest \/ BodyEnds \/ BodyFails \/ Expire \/ Tick \/ AbortTurn
    \/ \E phase \in {"failing", "expired"} : YieldsAgain(phase)
    \/ \E line \in SseLines : ReadEvent(line) \/ ReadStart(line)

\* Time passes, the timers of the runtime fire, and a stream that has an item is polled.
LlmSpec ==
    /\ LlmInit /\ [][LlmNext]_llmVars
    /\ WF_llmVars(Tick) /\ WF_llmVars(Expire) /\ WF_llmVars(YieldsAgain("expired"))

-----------------------------------------------------------------------------
LlmTypeOK ==
    /\ llmPhase \in {"new", "asked", "reading", "failing", "expired", "ended", "failed"}
    /\ llmReply.text \in Seq(Words \cup {Garbled}) /\ llmSaid.text \in Seq(Words)
    /\ \A calls \in {llmReply.calls, llmSaid.calls, llmBuffer} :
           \A i, j \in DOMAIN calls :
               /\ calls[i].index \in 0..MaxCalls
               /\ calls[i].index = calls[j].index => i = j
    /\ llmTotal <= TotalLimit /\ llmSilent <= llmTotal

Told(calls) == [i \in DOMAIN calls |-> <<calls[i].name, calls[i].args>>]
Repeats == \E i \in DOMAIN llmSaid.text : i > 1 /\ llmSaid.text[i] = llmSaid.text[i - 1]

\* The reads that cost a backend a part of the reply.
TornLines == llmBackend = "responses" /\ "line" \in llmSpoilt
CutWords == "text" \in llmSpoilt
CutCalls == "call" \in llmSpoilt

\* What a backend is not made for: token counts that come after the end, for the chat
\* backend; a second call, for the Responses one.
LateCounts == llmBackend = "chat" /\ llmSaid.usage = "after"
SecondCall == llmBackend = "responses" /\ llmReply.calls # <<>> /\ Opened > 1

\* The last line of the reply was read to its end, whatever became of the body after it.
ReplyIsOver == llmPhase = "ended" /\ llmWhy # "abort" /\ llmSaid.finished /\ llmHeld = NoSseLine

\* However its lines are cut into reads, a reply that was read to its end is the reply of
\* the model: its text, but for words it says twice in a row, the names and arguments of
\* all its calls, and, from DeepSeek, its token counts.  (A read that ends inside a character
\* spoils the text, or the call, it ends in.)
ReplyIsExact ==
    ReplyIsOver /\ ~TornLines =>
        /\ ~CutWords /\ ~Repeats => llmReply.text = llmSaid.text
        /\ ~CutCalls /\ ~LateCounts /\ ~SecondCall => Told(llmReply.calls) = Told(llmSaid.calls)
        /\ llmBackend # "openai" => (llmReply.usage <=> llmSaid.usage # "none")

\* Whenever and however a reply breaks off, no call of a DeepSeek reply runs with a part
\* of its name or arguments, and none of OpenAI's with anything but their beginning: unless
\* a read ended inside a character of a call.
NoCallIsHalf ==
    ~TornLines /\ ~CutCalls /\ ~LateCounts =>
        \A i \in DOMAIN llmReply.calls : \E j \in DOMAIN llmSaid.calls :
            LET got == llmReply.calls[i]
                said == llmSaid.calls[j]
            IN  IF llmBackend = "openai" THEN IsPrefix(got.args, said.args) /\ got.name = said.name
                ELSE got.args = said.args /\ got.name = said.name

\* The ids of the items of a type, and those of the messages of a role.
IdsOf(type, items) ==
    FlattenSeq([i \in DOMAIN items |-> IF items[i].type = type THEN <<items[i].id>> ELSE <<>>])
IdsBy(role, history) ==
    FlattenSeq([i \in DOMAIN history |-> IF history[i].role = role THEN history[i].ids ELSE <<>>])

\* A request keeps every call of the conversation and every result, each once and in the
\* order of its kind.
RequestIsWhole ==
    llmPhase = "asked" => \A history \in Histories :
        LET items == RequestItems(llmBackend, history)
        IN  /\ IdsOf("call", items) = IdsBy("assistant", history)
            /\ IdsOf("output", items) = IdsBy("tool", history)

\* A request that is made comes to an end, answered or not, though the abort of a turn is only looked
\* at when an item comes and a service may go silent for good; but for one whose reply was
\* still being read when the client's time was over: its polls give errors until an abort.
ReplyEnds ==
    \/ []<>(llmPhase \in {"new", "ended", "failed"})
    \/ <>[](llmPhase = "expired" /\ ~llmAbort)
=============================================================================
