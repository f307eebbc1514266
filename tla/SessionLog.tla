----------------------------- MODULE SessionLog -----------------------------
(***************************************************************************)
(* The append-only event log of a session and its projections: pure        *)
(* operators over sequences of events, from session/event.rs and           *)
(* session/store.rs.  An event keeps what the projections look at: its     *)
(* kind, a number (the turn of a marker, the end of a compacted range, the *)
(* write behind a tool result), the id of a tool call, and why a turn      *)
(* ended.                                                                  *)
(***************************************************************************)
EXTENDS Naturals, Sequences, SequencesExt, FiniteSetsExt

CONSTANT MinCompactionRange   \* MIN_COMPACTION_RANGE: 2 in the code
ASSUME RangeAssumption == MinCompactionRange \in Nat

(* A tool call id: what the model sent, or one of the two texts the agent  *)
(* loop makes up when it sent none.                                        *)
NoId == <<"none", 0>>
SentId(n) == <<"sent", n>>
IndexedId(index) == <<"call-index", index>>
GenericId == <<"call", 0>>

Event(kind, n, id, why) == [kind |-> kind, n |-> n, id |-> id, why |-> why]

TurnStart(turn) == Event("TurnStart", turn, NoId, "")
TurnEnd(turn, why) == Event("TurnEnd", turn, NoId, why)
UserMessage == Event("UserMessage", 0, NoId, "")
AssistantMessage == Event("AssistantMessage", 0, NoId, "")
ToolCall(id) == Event("ToolCall", 0, id, "")
ToolResult(id, write) == Event("ToolResult", write, id, "")
Compaction(replacedTo) == Event("Compaction", replacedTo, NoId, "")
TurnStats == Event("TurnStats", 0, NoId, "")

Kinds == {"TurnStart", "TurnEnd", "UserMessage", "AssistantMessage", "ToolCall",
          "ToolResult", "Compaction", "TurnStats"}
IdKinds == {"none", "sent", "call-index", "call", "old"}   \* old: in a log to resume
LogEvents == [kind : Kinds, n : Nat, id : IdKinds \X Nat,
              why : {"", "completed", "aborted", "error"}]

(* Events that stand for a message; the others are log-only metadata. *)
Surfaced == {"UserMessage", "AssistantMessage", "ToolCall", "ToolResult", "Compaction"}

-----------------------------------------------------------------------------
(* derive_messages *)

(* The events a compaction replaces, wherever its marker sits. *)
Suppressed(log) ==
    {i \in 1 .. Len(log) :
       \E j \in 1 .. Len(log) : /\ log[j].kind = "Compaction"
                                /\ log[j].n >= MinCompactionRange
                                /\ i <= log[j].n}

(* ev_to_message: who speaks, the calls it carries, the call it answers.   *)
Role(kind) ==
    CASE kind = "UserMessage" -> "user"
      [] kind \in {"AssistantMessage", "ToolCall"} -> "assistant"
      [] kind = "ToolResult" -> "tool"
      [] kind = "Compaction" -> "system"
Message(ev) ==
    [role |-> Role(ev.kind),
     calls |-> IF ev.kind = "ToolCall" THEN <<ev.id>> ELSE <<>>,
     id |-> IF ev.kind = "ToolResult" THEN ev.id ELSE NoId]

(* The messages at the places that are kept. *)
Filtered(messages, kept) ==
    FlattenSeq([i \in 1 .. Len(messages) |-> IF i \in kept THEN <<messages[i]>> ELSE <<>>])

Items(log) ==
    LET suppressed == Suppressed(log)
    IN  FlattenSeq([i \in 1 .. Len(log) |->
            IF i \notin suppressed /\ log[i].kind \in Surfaced THEN <<Message(log[i])>> ELSE <<>>])

(* Two bugs: the naive 1:1 projection, and fragments merged across the     *)
(* answers between them.                                                   *)
CoalescedApart(items) == items
CoalescedAcross(items) ==
    LET Owner(done) == Max({0} \cup {i \in 1 .. Len(done) : done[i].role = "assistant"})
        upTo[i \in 0 .. Len(items)] ==
          IF i = 0 THEN <<>>
          ELSE IF items[i].role = "assistant" /\ Owner(upTo[i - 1]) > 0
          THEN [upTo[i - 1] EXCEPT ![Owner(upTo[i - 1])].calls = @ \o items[i].calls]
          ELSE Append(upTo[i - 1], items[i])
    IN  upTo[Len(items)]

(* Pass 1: adjacent assistant fragments become one message that carries    *)
(* the calls of all of them.                                               *)
Coalesced(items) ==
    LET upTo[i \in 0 .. Len(items)] ==
          IF i = 0 THEN <<>>
          ELSE LET done == upTo[i - 1]
                   n == Len(done)
                   item == items[i]
               IN  IF n > 0 /\ item.role = "assistant" /\ done[n].role = "assistant"
                   THEN [done EXCEPT ![n].calls = @ \o item.calls]
                   ELSE Append(done, item)
    IN  upTo[Len(items)]

(* Pass 2: a tool message stays only if the nearest assistant message      *)
(* before it carries the call it answers.                                  *)
Anchored(messages, i) ==
    \E a \in 1 .. i - 1 :
      /\ messages[a].role = "assistant"
      /\ \A k \in a + 1 .. i - 1 : messages[k].role # "assistant"
      /\ \E c \in 1 .. Len(messages[a].calls) : messages[a].calls[c] = messages[i].id

DeriveMessages(log) ==
    LET messages == Coalesced(Items(log))
    IN  Filtered(messages, {i \in 1 .. Len(messages) :
                              messages[i].role = "tool" => Anchored(messages, i)})

(* What a request carries: both turn functions filter system messages out. *)
Request(log) ==
    LET messages == DeriveMessages(log)
    IN  Filtered(messages, {i \in 1 .. Len(messages) : messages[i].role # "system"})

-----------------------------------------------------------------------------
(* undo_last_turn: everything after the last user message goes.            *)

Positions(log, kinds) == {i \in 1 .. Len(log) : log[i].kind \in kinds}
UndoLastTurn(log) == SubSeq(log, 1, Max({0} \cup Positions(log, {"UserMessage"})))

(* event.rs: "every ToolResult has a matching earlier ToolCall with the    *)
(* same id"; and that call is of the same turn and answered only once.     *)
Paired(log) ==
    \A j \in Positions(log, {"ToolResult"}) :
      \E i \in Positions(log, {"ToolCall"}) \cap 1 .. j :
        /\ log[i].id = log[j].id
        /\ Positions(log, {"TurnStart", "TurnEnd"}) \cap i .. j = {}
        /\ {k \in Positions(log, {"ToolResult"}) : log[k].id = log[i].id} = {j}

-----------------------------------------------------------------------------
(* compact_context *)

(* tool_pair_safe_cut: back to just after a user message or a tool result. *)
ToolPairSafeCut(log, cut) ==
    Max({0} \cup (Positions(log, {"UserMessage", "ToolResult"}) \cap 1 .. cut))

(* The latest 16 % of the events are kept, rounded, but all except two at  *)
(* most.                                                                   *)
RetainedEvents(total) ==
    LET share == (total * 16 + 50) \div 100
    IN  IF total < 2 THEN 0 ELSE Min({share, total - 2})
CompactionCut(log) == ToolPairSafeCut(log, Len(log) - RetainedEvents(Len(log)))

(* derive_messages_range(0, cut) maps every event that is not skipped      *)
(* through ev_to_message, whose arm for turn markers is unreachable!().    *)
RangePanics(log, cut) == Positions(log, {"TurnStart", "TurnEnd"}) \cap 1 .. cut # {}

(* What compacting a log can lead to: nothing worth doing, a panic, an     *)
(* error of the summarising request, a summary not smaller than what it    *)
(* replaces, or a new Compaction event.                                    *)
CompactionOutcomes(log) ==
    LET cut == CompactionCut(log)
        Outcome(l, r) == [log |-> l, result |-> r]
    IN  IF Len(log) <= 1 \/ cut < 2 THEN {Outcome(log, "ok")}
        ELSE IF RangePanics(log, cut) THEN {Outcome(log, "panic")}
        ELSE {Outcome(log, "ok"), Outcome(log, "error"),
              Outcome(Append(log, Compaction(cut)), "ok")}
=============================================================================
