---------------------------- MODULE AgentSession ----------------------------
(***************************************************************************)
(* A session as the VS Code host drives it (AgentSession of                *)
(* agent/session.rs): what its turns cost (AgentStats, finalize_turn_stats,*)
(* TurnStats), what the middlewares decide before a turn                   *)
(* (agent/middleware.rs), which tools a request offers (in_bootstrap), the *)
(* log of the turns and the timeline the user sees meanwhile.  Module      *)
(* AgentLoop has the same turns with the steps left out here: hooks,       *)
(* permissions, injected messages and files.                               *)
(*                                                                         *)
(* A reply costs one token, if the backend reports any.                    *)
(***************************************************************************)
EXTENDS Transcript, FiniteSets

CONSTANTS
    OpenedLogs,       \* the logs a session is opened with
    TurnLimit,        \* config.max_turns
    Threshold,        \* context_tokens from which the context is compacted
    SummarySize,      \* context_tokens after a compaction
    MaxSaid,          \* bound: texts ever said, and turns
    MaxAsked,         \* bound: tool calls ever made
    MaxAtOnce,        \* bound: tool calls of a reply
    MaxSummaries      \* bound: compactions in the log

ASSUME SessionBounds ==
    {TurnLimit, Threshold, SummarySize, MaxSaid, MaxAsked, MaxAtOnce, MaxSummaries}
        \subseteq Nat

(* What a log holds.  No backend repeats the id of a call: those to come   *)
(* are not in the logs that are opened, and the results of a call are not  *)
(* in a later turn, since a turn logs its results before the next one.     *)
SessionEvents ==
    [kind : Kinds \cup {"Command"}, n : Nat, id : IdKinds \X Nat,
     why : {"", "completed", "aborted", "error"}]
OwnResults(log) ==
    \A i, u, j \in 1 .. Len(log) :
        /\ i < u /\ u < j
        /\ log[i].kind = "ToolCall" /\ log[u].kind = "UserMessage" /\ log[j].kind = "ToolResult"
        => log[j].id # log[i].id
ASSUME OpenedAssumption ==
    /\ OpenedLogs \subseteq Seq(SessionEvents)
    /\ \A log \in OpenedLogs :
           OwnResults(log) /\ \A i \in 1 .. Len(log) : log[i].id[1] # "sent"

VARIABLES
    asLog,            \* the event log
    asShown,          \* the timeline of the window
    asPc,             \* where the turn is
    asCalls,          \* calls of the reply not yet answered
    asTurn,           \* current_turn, also stats.steps
    asTotal,          \* session_prompt_tokens + session_completion_tokens
    asBase,           \* turn_base_stats: the total when the turn began
    asContext,        \* stats.context_tokens
    asOffered,        \* the tools the request being answered offered
    asUndo,           \* a checkpoint is there
    asNext,           \* numbers of the next text and the next call
    asSpent,          \* history: tokens recorded since the turn began
    asApart           \* history: an undo or a panic set log and timeline apart

asCost == <<asTotal, asBase, asContext>>
asSeen == <<asUndo, asNext, asApart>>
asVars == <<asLog, asShown, asPc, asCalls, asTurn, asOffered, asSpent, asCost, asSeen>>

Said(kind) == Event(kind, asNext.text, NoId, "")

SessionInit ==
    /\ asLog \in OpenedLogs
    /\ asShown = DeriveUi(asLog)
    /\ asPc = "idle" /\ asCalls = <<>> /\ asTurn = 0
    /\ asTotal = 0 /\ asBase = 0 /\ asContext = 0 /\ asSpent = 0
    /\ asOffered = "none" /\ asUndo = FALSE /\ asApart = FALSE
    /\ asNext = [text |-> 1, call |-> 1]

LeaveTurn ==
    /\ asPc' = "idle" /\ asCalls' = <<>>
    /\ asOffered' = "none" /\ asSpent' = 0
    /\ UNCHANGED asTurn
Closed(why) == Event("TurnEnd", asTurn, NoId, why)

-----------------------------------------------------------------------------
(* A turn *)

AsBegin ==
    /\ asPc = "idle" /\ asNext.text <= MaxSaid
    /\ asTurn' = asTurn + 1
    /\ asBase' = asTotal /\ asSpent' = 0
    /\ asUndo' = TRUE
    /\ asLog' = asLog \o <<TurnStart(asTurn + 1), Said("UserMessage")>>
    /\ asShown' = Append(asShown, Ui("user", asNext.text, NoId, NoId))
    /\ asNext' = [asNext EXCEPT !.text = @ + 1]
    /\ asPc' = "before"
    /\ UNCHANGED <<asCalls, asTotal, asContext, asOffered, asApart>>

(* run_before_turn: the first middleware that does not continue decides.   *)
(* The limit on the price never does: nothing sets the prices.  A warning  *)
(* is a system message, kept out of the log and of the requests.           *)
BeforeTurn ==
    IF asTurn >= TurnLimit THEN "stop"
    ELSE IF Threshold > 0 /\ asContext >= Threshold THEN "compact"
    ELSE "continue"

AsRefuse ==
    /\ asPc = "before" /\ BeforeTurn = "stop"
    /\ LeaveTurn
    /\ UNCHANGED <<asLog, asShown, asCost, asSeen>>

AsProceed ==
    /\ asPc = "before" /\ BeforeTurn = "continue"
    /\ asPc' = "head"
    /\ UNCHANGED <<asLog, asShown, asCalls, asTurn, asOffered, asSpent, asCost, asSeen>>

Compactions(log) ==
    {c \in CompactionOutcomes(log) :
       Cardinality(Positions(c.log, {"Compaction"})) <= MaxSummaries}

(* compact_context sets context_tokens; nothing else does.                 *)
Compacting(c) == asContext' = IF c.log # asLog THEN SummarySize ELSE asContext

AsCompactFirst ==
    /\ asPc = "before" /\ BeforeTurn = "compact"
    /\ \E c \in Compactions(asLog) :
         /\ Compacting(c)
         /\ \/ c.result = "ok" /\ asLog' = c.log /\ asPc' = "head"
               /\ UNCHANGED <<asCalls, asTurn, asOffered, asSpent>>
            \/ c.result = "error" /\ asLog' = Append(asLog, Closed("error")) /\ LeaveTurn
            \/ c.result = "panic" /\ LeaveTurn /\ UNCHANGED asLog
    /\ UNCHANGED <<asShown, asTotal, asBase, asSeen>>

AsStop ==
    /\ asPc = "head"
    /\ asLog' = Append(asLog, Closed("aborted"))
    /\ LeaveTurn
    /\ UNCHANGED <<asShown, asCost, asSeen>>

(* A bug: the phase is taken from what the model is shown.                 *)
InBootstrapOfMessages(log) ==
    \A i \in 1 .. Len(DeriveMessages(log)) : DeriveMessages(log)[i].role # "assistant"

(* in_bootstrap: no event of the whole log, suppressed ones included, is a *)
(* reply.                                                                  *)
InBootstrap(log) == Positions(log, {"ToolCall", "AssistantMessage"}) = {}

AsAsk ==
    /\ asPc = "head"
    /\ asOffered' = IF InBootstrap(asLog) THEN "minimal" ELSE "all"
    /\ asPc' = "llm"
    /\ UNCHANGED <<asLog, asShown, asCalls, asTurn, asSpent, asCost, asSeen>>

AsFail ==
    /\ asPc = "llm"
    /\ asLog' = Append(asLog, Closed("error"))
    /\ LeaveTurn
    /\ UNCHANGED <<asShown, asCost, asSeen>>

(* The reply: its text is broadcast as it comes in; its usage is recorded; *)
(* one that was cut off for its length compacts the context; then text and *)
(* calls are logged.                                                       *)
AsReply(speaks, n, reported, cut) ==
    /\ asPc = "llm"
    /\ speaks => asNext.text <= MaxSaid
    /\ asNext.call + n <= MaxAsked + 1
    /\ asShown' = IF speaks THEN Shown(asShown, Said("AssistantText")) ELSE asShown
    /\ LET tokens == IF reported THEN 1 ELSE 0
           ids == [k \in 1 .. n |-> SentId(asNext.call + k - 1)]
           text == IF speaks THEN <<Said("AssistantMessage")>> ELSE <<>>
       IN  /\ asTotal' = asTotal + tokens
           /\ \E c \in IF cut THEN Compactions(asLog) ELSE {[log |-> asLog, result |-> "ok"]} :
             /\ Compacting(c)
             /\ \/ /\ c.result # "panic"
                   /\ asLog' = c.log \o text \o [k \in 1 .. n |-> ToolCall(ids[k])]
                   /\ asCalls' = ids
                   /\ asPc' = IF n = 0 THEN "finish" ELSE "tool"
                   /\ asSpent' = asSpent + tokens
                   /\ asOffered' = "none"
                   /\ UNCHANGED <<asTurn, asApart>>
                \/ c.result = "panic" /\ LeaveTurn /\ UNCHANGED asLog /\ asApart' = TRUE
    /\ asNext' = [text |-> IF speaks THEN asNext.text + 1 ELSE asNext.text, call |-> asNext.call + n]
    /\ UNCHANGED <<asBase, asUndo>>

(* A call is broadcast before it is made, its result after it was logged.  *)
AsAnswer ==
    /\ asPc = "tool"
    /\ LET id == Head(asCalls)
       IN  /\ asLog' = Append(asLog, ToolResult(id, 0))
           /\ asShown' = Shown(Shown(asShown, ToolCall(id)), ToolResult(id, 0))
    /\ asCalls' = Tail(asCalls)
    /\ asPc' = IF Len(asCalls) = 1 THEN "head" ELSE "tool"
    /\ UNCHANGED <<asTurn, asOffered, asSpent, asCost, asSeen>>

(* A bug: the stats are the totals of the session. *)
AsFinishTotals ==
    /\ asPc = "finish"
    /\ LET stats == Event("TurnStats", asTotal, NoId, "")
       IN  /\ asLog' = asLog \o <<stats, Closed("completed")>>
           /\ asShown' = Shown(Shown(Shown(asShown, UserMessage), Said("Assistant")), stats)
    /\ LeaveTurn
    /\ asBase' = 0
    /\ UNCHANGED <<asTotal, asContext, asSeen>>

(* publish_events, then finalize_turn_stats. *)
AsFinish ==
    /\ asPc = "finish"
    /\ LET stats == Event("TurnStats", asTotal - asBase, NoId, "")
       IN  /\ asLog' = asLog \o <<stats, Closed("completed")>>
           /\ asShown' = Shown(Shown(Shown(asShown, UserMessage), Said("Assistant")), stats)
    /\ LeaveTurn
    /\ asBase' = 0
    /\ UNCHANGED <<asTotal, asContext, asSeen>>

-----------------------------------------------------------------------------
(* The host between two turns *)

(* undo_last_turn takes the only checkpoint there is.  The window goes on  *)
(* showing the turn.                                                       *)
UndoneOf(log) ==
    IF Positions(log, {"UserMessage"}) # {} /\ asUndo
    THEN asLog' = UndoLastTurn(log) /\ asUndo' = FALSE /\ asApart' = TRUE
    ELSE asLog' = log /\ UNCHANGED <<asUndo, asApart>>

AsUndo ==
    /\ asPc = "idle"
    /\ UndoneOf(asLog)
    /\ UNCHANGED <<asShown, asPc, asCalls, asTurn, asCost, asOffered, asSpent, asNext>>

AsCompact ==
    /\ asPc = "idle"
    /\ \E c \in Compactions(asLog) : asLog' = c.log /\ Compacting(c)
    /\ UNCHANGED <<asShown, asPc, asCalls, asTurn, asTotal, asBase, asSpent, asOffered, asSeen>>

(* send_structured: a command is recorded, then carried out.               *)
AsCommand(name) ==
    /\ asPc = "idle" /\ asNext.text <= MaxSaid
    /\ LET recorded == Append(asLog, Said("Command"))
       IN  \/ name = "undo" /\ UndoneOf(recorded) /\ UNCHANGED asContext
           \/ /\ name = "compact"
              /\ \E c \in Compactions(recorded) :
                   /\ asLog' = c.log
                   /\ asContext' = IF c.log # recorded THEN SummarySize ELSE asContext
              /\ UNCHANGED <<asUndo, asApart>>
           \/ name = "other" /\ asLog' = recorded /\ UNCHANGED <<asContext, asUndo, asApart>>
    /\ asNext' = [asNext EXCEPT !.text = @ + 1]
    /\ UNCHANGED <<asShown, asPc, asCalls, asTurn, asTotal, asBase, asSpent, asOffered>>

(* The process ends, in whatever it was doing, and the session is opened   *)
(* again: only the log survives, and the window shows what replay_messages *)
(* sends.                                                                  *)
AsReopen ==
    /\ asShown' = DeriveUi(asLog)
    /\ asPc' = "idle" /\ asCalls' = <<>> /\ asTurn' = 0
    /\ asTotal' = 0 /\ asBase' = 0 /\ asContext' = 0 /\ asSpent' = 0
    /\ asOffered' = "none" /\ asUndo' = FALSE /\ asApart' = FALSE
    /\ UNCHANGED <<asLog, asNext>>

SessionNext ==
    \/ AsBegin \/ AsRefuse \/ AsProceed \/ AsCompactFirst \/ AsStop \/ AsAsk \/ AsFail
    \/ \E speaks, reported, cut \in BOOLEAN, n \in 0 .. MaxAtOnce : AsReply(speaks, n, reported, cut)
    \/ AsAnswer \/ AsFinish
    \/ AsUndo \/ AsCompact \/ AsReopen
    \/ \E name \in {"undo", "compact", "other"} : AsCommand(name)

SessionSpec == SessionInit /\ [][SessionNext]_asVars
-----------------------------------------------------------------------------
(* Properties *)

(* TurnStats: "Tokens consumed this turn".  Whatever became of the turns   *)
(* before it, stopped, failed or refused, the stats of a turn count the    *)
(* replies recorded in it and no other, and the log and the timeline are   *)
(* told the same.                                                          *)
StatsAreTheTurns ==
    [][AsFinish => /\ asLog'[Len(asLog) + 1].n = asSpent
                   /\ Last(asShown').n = asSpent]_asVars

(* in_bootstrap: a session that "already has a tool call or assistant      *)
(* message is never re-bootstrapped": a request with a reply in its        *)
(* conversation, or in what a summary has replaced, offers all the tools.  *)
WorkKeepsTheTools ==
    [][AsAsk /\ (\/ Suppressed(asLog) \cap Positions(asLog, {"ToolCall", "AssistantMessage"}) # {}
                 \/ \E i \in 1 .. Len(Request(asLog)) : Request(asLog)[i].role = "assistant") =>
         asOffered' = "all"]_asVars

(* "The same wire shape": between two turns a window that has watched the  *)
(* session shows what one that opens it now is sent, the same texts,       *)
(* results and stats in the same order, unless a compaction has replaced   *)
(* some, or an undo or a panic has taken from the log what was shown.      *)
ReplayIsLive ==
    asPc = "idle" /\ ~asApart /\ Positions(asLog, {"Compaction"}) = {} =>
        Told(DeriveUi(asLog)) = Told(asShown)

Answered(log) ==
    \A i \in Positions(log, {"ToolCall"}) : \E j \in i .. Len(log) :
        log[j].kind = "ToolResult" /\ log[j].id = log[i].id

(* get_turn_window: the views of the turns, one after the other, are the   *)
(* transcript, where no compaction and no unanswered call is in the way;   *)
(* and the stats of a view are those of its own turn.                      *)
WindowsTile ==
    asPc = "idle" /\ Positions(asLog, {"Compaction"}) = {} /\ Answered(asLog) =>
        LET users == UserIndices(asLog)
            views == [t \in 1 .. Len(users) |-> TurnView(asLog, t)]
        IN  users # <<>> =>
              /\ FlattenSeq([t \in 1 .. Len(users) |-> views[t].messages])
                   = DeriveUi(SubSeq(asLog, users[1], Len(asLog)))
              /\ \A t \in 1 .. Len(users) : views[t].stats > 0 =>
                   \E i \in 1 .. Len(views[t].messages) :
                     views[t].messages[i] = Ui("stats", views[t].stats, NoId, NoId)

=============================================================================
