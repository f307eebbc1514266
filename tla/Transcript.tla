----------------------------- MODULE Transcript -----------------------------
(***************************************************************************)
(* What a user is shown of a session: the transcript that                  *)
(* derive_ui_messages (session/store.rs) projects from the event log, the  *)
(* view of one turn (session/query.rs), and the timeline a window builds   *)
(* while a turn runs, from the broadcast events the host maps to messages  *)
(* (map_event_ui of host.rs, appendUiMessage of the webview).              *)
(*                                                                         *)
(* A message keeps its role, the number of its text, and for a tool card   *)
(* the call whose name and arguments it shows and the call whose result it *)
(* shows.                                                                  *)
(***************************************************************************)
EXTENDS SessionLog, SequencesExt

Ui(role, n, call, result) == [role |-> role, n |-> n, call |-> call, result |-> result]
ToolCard(call, result) == Ui("tool", 0, call, result)

-----------------------------------------------------------------------------
(* derive_ui_messages.  Text arrives whole in the log: no code appends an  *)
(* AssistantChunk.                                                         *)

UiRole(kind) ==
    CASE kind = "UserMessage" -> "user"
      [] kind = "AssistantMessage" -> "assistant"
      [] kind = "TurnStats" -> "stats"
      [] kind \in {"Compaction", "Command"} -> "system"

(* One slot holds the call whose result is awaited: the next call takes    *)
(* its place, a result of another call pushes it out as it is.             *)
Projected(st, ev) ==
    CASE ev.kind \in {"TurnStart", "TurnEnd"} -> st
      [] ev.kind = "ToolCall" -> [st EXCEPT !.pending = ev.id]
      [] ev.kind = "ToolResult" ->
           [out |-> IF st.pending = NoId THEN Append(st.out, ToolCard(NoId, ev.id))
                    ELSE IF st.pending = ev.id THEN Append(st.out, ToolCard(ev.id, ev.id))
                    ELSE st.out \o <<ToolCard(st.pending, NoId), ToolCard(NoId, ev.id)>>,
            pending |-> NoId]
      [] OTHER -> [st EXCEPT !.out = Append(@, Ui(UiRole(ev.kind), ev.n, NoId, NoId))]

(* The loop over the events, past those a compaction has replaced. *)
Projection(log) ==
    LET gone == Suppressed(log)
        upTo[i \in 0 .. Len(log)] ==
          IF i = 0 THEN [out |-> <<>>, pending |-> NoId]
          ELSE IF i \in gone THEN upTo[i - 1] ELSE Projected(upTo[i - 1], log[i])
    IN  upTo[Len(log)]

DeriveUi(log) ==
    LET end == Projection(log)
    IN  IF end.pending = NoId THEN end.out ELSE Append(end.out, ToolCard(end.pending, NoId))

-----------------------------------------------------------------------------
(* get_turn_window: from a user message to the next one, projected as a    *)
(* log of its own; and the last stats in it (0: none).                     *)

UserIndices(log) ==
    FlattenSeq([i \in 1 .. Len(log) |-> IF log[i].kind = "UserMessage" THEN <<i>> ELSE <<>>])
CountTurns(log) == Len(UserIndices(log))

(* A bug: the message of the next turn is counted in.                      *)
WindowWithNext(log, turn) ==
    LET users == UserIndices(log)
    IN  SubSeq(log, users[turn], IF turn < Len(users) THEN users[turn + 1] ELSE Len(log))

Window(log, turn) ==
    LET users == UserIndices(log)
    IN  SubSeq(log, users[turn], IF turn < Len(users) THEN users[turn + 1] - 1 ELSE Len(log))

TurnView(log, turn) ==
    LET window == Window(log, turn)
        last == Max({0} \cup Positions(window, {"TurnStats"}))
    IN  [messages |-> DeriveUi(window), stats |-> IF last = 0 THEN 0 ELSE window[last].n]

-----------------------------------------------------------------------------
(* The live timeline *)

(* map_event_ui: the text is told as it arrives, so the whole reply that   *)
(* comes at the end of the turn is not told again.                         *)
MapEventUiTwice(ev) ==
    CASE ev.kind \in {"AssistantText", "Assistant"} -> <<Ui("assistant", ev.n, NoId, NoId)>>
      [] ev.kind = "UserMessage" -> <<Ui("user", ev.n, NoId, NoId)>>
      [] ev.kind = "ToolCall" -> <<ToolCard(ev.id, NoId)>>
      [] ev.kind = "ToolResult" -> <<ToolCard(ev.id, ev.id)>>
      [] ev.kind = "TurnStats" -> <<Ui("stats", ev.n, NoId, NoId)>>

MapEventUi(ev) ==
    CASE ev.kind = "Assistant" -> <<>>
      [] ev.kind = "AssistantText" -> <<Ui("assistant", ev.n, NoId, NoId)>>
      [] ev.kind = "UserMessage" -> <<Ui("user", ev.n, NoId, NoId)>>
      [] ev.kind = "ToolCall" -> <<ToolCard(ev.id, NoId)>>
      [] ev.kind = "ToolResult" -> <<ToolCard(ev.id, ev.id)>>
      [] ev.kind = "TurnStats" -> <<Ui("stats", ev.n, NoId, NoId)>>

(* appendUiMessage: the window has put the user's line there itself; text  *)
(* goes on in the reply at the end; a call and its result share a card.    *)
CardsOf(shown, call) == {i \in 1 .. Len(shown) : shown[i].role = "tool" /\ shown[i].call = call}
Merged(shown, m) ==
    CASE m.role = "user" -> shown
      [] m.role = "assistant" ->
           IF shown # <<>> /\ Last(shown).role = "assistant" THEN shown ELSE Append(shown, m)
      [] m.role = "tool" ->
           IF CardsOf(shown, m.call) # {}
           THEN [shown EXCEPT ![Max(CardsOf(shown, m.call))].result = m.result]
           ELSE IF m.result = NoId THEN Append(shown, m) ELSE shown
      [] OTHER -> Append(shown, m)

Shown(timeline, ev) ==
    LET told == MapEventUi(ev)
    IN  IF told = <<>> THEN timeline ELSE Merged(timeline, Head(told))

(* What a transcript tells: everything but a card without a result and the *)
(* lines of the system.                                                    *)
Tells(m) == m.role # "system" /\ (m.role = "tool" => m.result # NoId)
Line(m) == <<m.role, m.n, m.result>>
Told(messages) ==
    LET upTo[i \in 0 .. Len(messages)] ==
          IF i = 0 THEN <<>>
          ELSE IF Tells(messages[i]) THEN Append(upTo[i - 1], Line(messages[i]))
          ELSE upTo[i - 1]
    IN  upTo[Len(messages)]
=============================================================================
