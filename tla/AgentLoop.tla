------------------------------ MODULE AgentLoop ------------------------------
(***************************************************************************)
(* A session's agent loop: AgentLoop of agent/agent_loop.rs with the event *)
(* log it writes (session/store.rs), the requests it projects from it, the *)
(* checkpoints of its turns (core/rewind.rs) and the two drivers that can  *)
(* disturb a turn: the VS Code host, which asks it to stop, and the        *)
(* terminal UI, which drops its task.  A step is what happens between two  *)
(* await points of run_turn; run_turn_streaming, the one the user          *)
(* interfaces use, takes the same steps (module AgentSession has what it   *)
(* tells a window and what it counts).                                     *)
(*                                                                         *)
(* Files: every tool call that writes makes one numbered write, announced  *)
(* to the checkpointer; module FileCheckpointer has the files themselves.  *)
(***************************************************************************)
EXTENDS SessionLog, FiniteSets, SequencesExt

CONSTANTS
    Drivers,          \* what may disturb a turn, see DriverOf
    MissingIds,       \* the backend may leave the ids of tool calls out
    InitialLogs,      \* the logs a session is opened with
    MaxTurns,         \* bound: turns and user messages in the log, turns of a process
    MaxCompactions,   \* bound: compactions in the log
    MaxParallel,      \* bound: tool calls in one reply
    MaxCalls,         \* bound: tool calls the model ever asks for
    MaxInjected       \* bound: injected messages waiting

ASSUME FlagsAssumption ==
    MissingIds \in BOOLEAN
ASSUME BoundsAssumption ==
    {MaxTurns, MaxCompactions, MaxParallel, MaxCalls, MaxInjected} \subseteq Nat

(* A log to resume is a new one, or one of a version without turn markers. *)
(* Its ids are none of those to come, its writes are not counted.          *)
ASSUME LogsAssumption ==
    \A old \in InitialLogs :
      /\ old \in Seq(LogEvents) /\ Paired(old)
      /\ Positions(old, {"TurnStart", "TurnEnd"}) = {}
      /\ \A i \in 1 .. Len(old) : old[i].id[1] # "sent" /\ old[i].n = 0

(* A driver stops turns through the abort channel, or drops their future   *)
(* (the terminal UI aborts the task, a process dies); and it may inject    *)
(* messages of some roles.                                                 *)
DriverOf == [stops : BOOLEAN, drops : BOOLEAN, injects : SUBSET {"user", "system"}]
ASSUME DriversAssumption == Drivers \subseteq DriverOf

VARIABLES
    driver,           \* the driver of the session
    log,              \* session_store.events, on disk as soon as appended
    queue,            \* injection_queue: the roles of the waiting messages
    turn,             \* current_turn
    pc,               \* where the turn is awaiting
    calls,            \* tool calls not yet answered: [id, write]
    stop,             \* abort_rx: a stop of this turn was requested
    checkpoints,      \* file_checkpointer: [index, base], base the writes then
    writes,           \* writes of tools that are on the disk
    acted,            \* the write of the tool being invoked; 0: none yet
    issued            \* tool calls the model has asked for so far

turnVars == <<turn, pc, calls, stop, acted, issued>>
fileVars == <<checkpoints, writes>>
vars == <<driver, log, queue, turnVars, fileVars>>

Running == {"before", "head", "llm", "tool", "confirm", "invoke", "stopping"}

Init ==
    /\ driver \in Drivers
    /\ log \in InitialLogs
    /\ queue = <<>> /\ calls = <<>> /\ checkpoints = <<>>
    /\ turn = 0 /\ acted = 0 /\ issued = 0
    /\ pc = "idle"
    /\ stop = FALSE
    /\ writes = {}

(* The turn is over, or its future was dropped; a stop dies with the turn  *)
(* it was for.                                                             *)
Leave ==
    /\ pc' = "idle"
    /\ calls' = <<>>
    /\ acted' = 0 /\ stop' = FALSE
    /\ UNCHANGED <<turn, issued>>

End(why) == log' = Append(log, TurnEnd(turn, why)) /\ Leave

-----------------------------------------------------------------------------
(* run_turn, run_turn_streaming *)

(* Checkpoint, markers and the user's message, up to the first await.      *)
BeginTurn ==
    /\ pc = "idle"
    /\ turn < MaxTurns
    /\ \A kind \in {"TurnStart", "UserMessage"} :
         Cardinality(Positions(log, {kind})) < MaxTurns
    /\ checkpoints' = Append(checkpoints, [index |-> 0, base |-> writes])
    /\ turn' = turn + 1
    /\ log' = log \o <<TurnStart(turn + 1), UserMessage>>
    /\ pc' = "before"
    /\ UNCHANGED <<queue, calls, stop, acted, issued, writes>>

(* A limit on turns, price or tokens stops the turn, or no model is        *)
(* configured: an early return that closes nothing.                        *)
Refuse ==
    /\ pc = "before"
    /\ Leave
    /\ UNCHANGED <<log, queue, fileVars>>

Proceed ==
    /\ pc = "before"
    /\ pc' = "head"
    /\ UNCHANGED <<log, queue, fileVars, turn, calls, stop, acted, issued>>

Compactions ==
    {c \in CompactionOutcomes(log) :
       Cardinality(Positions(c.log, {"Compaction"})) <= MaxCompactions}

(* AutoCompactMiddleware asks for a compaction before the first request.   *)
CompactFirst ==
    /\ pc = "before"
    /\ \E c \in Compactions :
         \/ /\ c.result = "ok"
            /\ log' = c.log
            /\ pc' = "head"
            /\ UNCHANGED <<turn, calls, stop, acted, issued>>
         \/ c.result = "error" /\ End("error")
         \/ c.result = "panic" /\ Leave /\ UNCHANGED log
    /\ UNCHANGED <<queue, fileVars>>

(* A bug: the turn goes on after it was closed. *)
HeadStopGoesOn ==
    /\ pc = "head" /\ stop
    /\ log' = Append(log, TurnEnd(turn, "aborted"))
    /\ pc' = "llm"
    /\ UNCHANGED <<queue, turn, calls, stop, acted, issued, fileVars>>

(* The head of the loop: a requested stop ends the turn. *)
HeadStop ==
    /\ pc = "head" /\ stop
    /\ End("aborted")
    /\ UNCHANGED <<queue, fileVars>>

(* A bug: system messages are logged like the user's. *)
DrainedAll == [i \in 1 .. Len(queue) |-> UserMessage]

(* drain_injections: push_message keeps a system message out of the log.   *)
Drained ==
    [i \in 1 .. Cardinality({k \in 1 .. Len(queue) : queue[k] # "system"}) |-> UserMessage]

SendRequest ==
    /\ pc = "head" /\ ~stop
    /\ log' = log \o Drained
    /\ queue' = <<>>
    /\ pc' = "llm"
    /\ UNCHANGED <<fileVars, turn, calls, stop, acted, issued>>

FailRequest ==
    /\ pc = "llm"
    /\ End("error")
    /\ UNCHANGED <<queue, fileVars>>

(* (CallsOfByIndex is a bug: every result gets an indexed id.)             *)
(* A call keeps the id it came with in the log (llm_message_to_events) and *)
(* gets an indexed one for its result when it came without.                *)
CallsOfByIndex(n, sent) ==
    [k \in 1 .. n |-> [id |-> IndexedId(k - 1), write |-> issued + k]]
CallsOf(n, sent) ==
    [k \in 1 .. n |->
       [id |-> IF sent THEN SentId(issued + k) ELSE IndexedId(k - 1), write |-> issued + k]]
CallEvents(n, sent) ==
    [k \in 1 .. n |-> ToolCall(IF sent THEN SentId(issued + k) ELSE GenericId)]

(* The reply, after a compaction if the model stopped for its length.  The *)
(* token loop of the streaming turn may break off on a stop: the rest of   *)
(* the function then runs on what has come in by then.                     *)
Reply(n, sent) ==
    /\ pc = "llm"
    /\ issued + n <= MaxCalls
    /\ \E c \in {[log |-> log, result |-> "ok"]} \cup Compactions,
          said \in {<<>>, <<AssistantMessage>>} :
         \/ /\ c.result # "panic"
            /\ log' = c.log \o said \o CallEvents(n, sent)
            /\ calls' = CallsOf(n, sent)
            /\ issued' = issued + n
            /\ pc' = IF n = 0 THEN "stopping" ELSE "tool"
            /\ UNCHANGED <<turn, stop, acted>>
         \/ c.result = "panic" /\ Leave /\ UNCHANGED log
    /\ UNCHANGED <<queue, fileVars>>

(* The result of the first pending call is logged. *)
Answer(write) ==
    /\ log' = Append(log, ToolResult(Head(calls).id, write))
    /\ calls' = Tail(calls)
    /\ pc' = IF Len(calls) = 1 THEN "head" ELSE "tool"
    /\ acted' = 0
    /\ UNCHANGED <<queue, turn, stop, issued, fileVars>>

Advance(from, to) ==
    /\ pc = from /\ pc' = to
    /\ UNCHANGED <<log, queue, turn, calls, stop, acted, issued, fileVars>>

(* Malformed arguments, an unknown tool, a hook's answer, or a denial.     *)
AnswerWithout == pc = "tool" /\ Answer(0)
AskPermission == Advance("tool", "confirm")
Invoke == Advance("tool", "invoke")
Approve == Advance("confirm", "invoke")
Disapprove == pc = "confirm" /\ Answer(0)

(* The tool writes its file, snapshotted by snapshot_tool_targets before;  *)
(* then, or without a write, it returns.                                   *)
ToolWrites ==
    /\ pc = "invoke" /\ acted = 0
    /\ acted' = Head(calls).write
    /\ writes' = writes \cup {Head(calls).write}
    /\ UNCHANGED <<log, queue, turn, pc, calls, stop, issued, checkpoints>>
ToolReturns == pc = "invoke" /\ Answer(acted)

(* No built-in middleware overrides on_turn_stopping: finalize_turn_stats. *)
Finish ==
    /\ pc = "stopping"
    /\ log' = log \o <<TurnStats, TurnEnd(turn, "completed")>>
    /\ Leave
    /\ UNCHANGED <<queue, fileVars>>

-----------------------------------------------------------------------------
(* The drivers.  The lock, or &mut self, that a turn holds keeps every     *)
(* operation but a stop and a cancel out while it runs.                    *)

RequestStop ==
    /\ driver.stops /\ pc \in Running /\ ~stop
    /\ stop' = TRUE
    /\ UNCHANGED <<log, queue, turn, pc, calls, acted, issued, fileVars>>

(* current_task.abort(): the future is dropped at the await it is at.      *)
Cancel ==
    /\ driver.drops /\ pc \in Running \ {"head"}
    /\ Leave
    /\ UNCHANGED <<log, queue, fileVars>>

(* flush() truncates events.jsonl and writes all of it again, line by      *)
(* line: a process that dies on the way leaves a shorter log that loads.   *)
Surviving == {SubSeq(log, 1, n) : n \in 0 .. Len(log)}

(* The process ends and the session is resumed: only the log and the disk  *)
(* survive.                                                                *)
Restart ==
    /\ \/ pc = "idle" /\ UNCHANGED log
       \/ pc # "idle" /\ driver.drops /\ log' \in Surviving
    /\ pc' = "idle"
    /\ queue' = <<>> /\ calls' = <<>> /\ checkpoints' = <<>>
    /\ turn' = 0 /\ acted' = 0
    /\ stop' = FALSE
    /\ UNCHANGED <<writes, issued>>

(* A bug: the checkpoints of older turns are kept, while the log is not    *)
(* cut back to their user messages.                                        *)
RetainedAll(index) == Front(checkpoints)

(* retain(|c| c.message_index < cp.message_index): the indices never       *)
(* decrease up the stack, so that a prefix is kept.                        *)
Retained(index) ==
    SubSeq(checkpoints, 1, Cardinality({i \in 1 .. Len(checkpoints) - 1 : checkpoints[i].index < index}))

(* undo_last_turn: with no checkpoint left it fails before the log.        *)
Undo ==
    /\ pc = "idle"
    /\ Positions(log, {"UserMessage"}) # {}
    /\ checkpoints # <<>>
    /\ writes' = Last(checkpoints).base
    /\ checkpoints' = Retained(Last(checkpoints).index)
    /\ log' = UndoLastTurn(log)
    /\ UNCHANGED <<queue, turnVars>>

(* The pending-changes panel: one file of the latest checkpoint goes back. *)
RestoreFile(w) ==
    /\ pc = "idle" /\ checkpoints # <<>>
    /\ w \in writes \ Last(checkpoints).base
    /\ writes' = writes \ {w}
    /\ UNCHANGED <<log, queue, turnVars, checkpoints>>

Clear ==
    /\ pc = "idle"
    /\ log' = <<>> /\ checkpoints' = <<>>
    /\ UNCHANGED <<queue, turnVars, writes>>

Inject(role) ==
    /\ pc = "idle" /\ Len(queue) < MaxInjected
    /\ queue' = Append(queue, role)
    /\ UNCHANGED <<log, turnVars, fileVars>>

(* /compact *)
Compact ==
    /\ pc = "idle"
    /\ \E c \in Compactions : log' = c.log
    /\ UNCHANGED <<queue, turnVars, fileVars>>

-----------------------------------------------------------------------------
Turn ==
    \/ BeginTurn \/ Refuse \/ Proceed \/ CompactFirst
    \/ HeadStop \/ SendRequest \/ FailRequest
    \/ \E n \in 0 .. MaxParallel, sent \in {TRUE, ~MissingIds} : Reply(n, sent)
    \/ AnswerWithout \/ AskPermission \/ Invoke \/ Approve \/ Disapprove
    \/ ToolWrites \/ ToolReturns
    \/ Finish

Driver ==
    \/ RequestStop \/ Cancel \/ Restart
    \/ Undo \/ Clear \/ Compact
    \/ \E w \in writes : RestoreFile(w)
    \/ \E role \in driver.injects : Inject(role)

Next == (Turn \/ Driver) /\ UNCHANGED driver
Spec == Init /\ [][Next]_vars
-----------------------------------------------------------------------------
(* Properties *)

TypeOK ==
    /\ log \in Seq(LogEvents)
    /\ \A i \in 1 .. Len(queue) : queue[i] \in driver.injects
    /\ turn \in 0 .. MaxTurns
    /\ pc \in {"idle"} \cup Running
    /\ calls # <<>> <=> pc \in {"tool", "confirm", "invoke"}
    /\ stop \in BOOLEAN
    /\ \A i \in 1 .. Len(checkpoints) :
         checkpoints[i].index = 0 /\ checkpoints[i].base \subseteq 1 .. MaxCalls
    /\ writes \subseteq 1 .. MaxCalls
    /\ acted \in 0 .. MaxCalls /\ issued \in 0 .. MaxCalls

Markers(i, j) == Positions(log, {"TurnStart", "TurnEnd"}) \cap i .. j
Results(id) == {j \in Positions(log, {"ToolResult"}) : log[j].id = id}

(* Every result answers a call of its own turn, and is the only one that   *)
(* does, whatever was undone, cancelled or compacted in between.           *)
ResultsAnswerCalls == Paired(log)

(* A TurnEnd closes the turn whose TurnStart is the marker before it, and  *)
(* a turn that has one answered every tool call it logged: only a turn     *)
(* that was dropped or undone is left open.                                *)
ClosedTurnsAreWhole ==
    \A e \in Positions(log, {"TurnEnd"}) :
      \E s \in Positions(log, {"TurnStart"}) \cap 1 .. e :
        /\ Markers(s, e) = {s, e}
        /\ log[s].n = log[e].n
        /\ \A i \in Positions(log, {"ToolCall"}) \cap s .. e :
             Results(log[i].id) \cap i .. e # {}

(* The messages after the i-th, up to the next that is not a tool message. *)
AnswersTo(request, i) ==
    {request[j].id : j \in {j \in i + 1 .. Len(request) :
                              \A k \in i + 1 .. j : request[k].role = "tool"}}

(* The rule of the chat APIs that derive_messages exists for: an assistant *)
(* message with tool calls is followed by the answers to all of them, in   *)
(* every request, ...                                                      *)
PairsCalls(request) ==
    \A i \in 1 .. Len(request) : Range(request[i].calls) \subseteq AnswersTo(request, i)
RequestsPairCalls == [][SendRequest => PairsCalls(Request(log'))]_vars

(* ... and in those of a session whose turns are only ever stopped.        *)
StoppedTurnsPairCalls == [][SendRequest /\ ~driver.drops => PairsCalls(Request(log'))]_vars

(* What the model has been sent stays as it was sent, request after        *)
(* request, until a compaction replaces it: a request that has just been   *)
(* sent extends the projection of every earlier log that ended where a     *)
(* request could be sent.                                                  *)
RequestsOnlyGrow ==
    pc = "llm" =>
      LET request == Request(log)
      IN  \A i \in Positions(log, {"UserMessage", "ToolResult"}) :
            Positions(log, {"Compaction"}) \cap i .. Len(log) = {} =>
              IsPrefix(Request(SubSeq(log, 1, i)), request)

(* Undoing a turn takes back exactly the writes whose tool results it      *)
(* forgets: what the log still tells of is still on the disk.              *)
UndoAligned ==
    [][Undo =>
         \A j \in Positions(log, {"ToolResult"}) :
           log[j].n \in writes => (log[j].n \in writes' <=> j <= Len(log'))]_vars

(* ev_to_message: reaching the arm of the log-only events "means a caller  *)
(* tried to project them directly - which is a bug".                       *)
CompactionTakesMessagesOnly ==
    pc \in {"idle", "before"} /\ Len(log) > 1 /\ CompactionCut(log) >= 2 =>
      ~RangePanics(log, CompactionCut(log))

(* event.rs: the compacted events "are logically replaced by summary when  *)
(* projecting": a request that leaves events out carries a summary.        *)
SummaryStandsIn ==
    [][SendRequest /\ Suppressed(log') # {} =>
         \E i \in 1 .. Len(Request(log')) : Request(log')[i].role = "system"]_vars

(* inject_message: the messages of the user that were queued while a turn  *)
(* ran are in the upcoming request, each once, behind all that was said    *)
(* before; nothing else of the user gets into it.                          *)
InjectedReachTheModel ==
    [][SendRequest =>
         LET said == Request(log)
             request == Request(log')
         IN  /\ IsPrefix(said, request)
             /\ Cardinality({i \in Len(said) + 1 .. Len(request) : request[i].role = "user"})
                  = Cardinality({k \in 1 .. Len(queue) : queue[k] = "user"})]_vars

(* inject_message and inject_system_message: an injected message is        *)
(* consumed "so the upcoming LLM call sees it", a hint like any other.     *)
InjectedHintsReachTheModel ==
    [][SendRequest /\ "system" \in Range(queue) =>
         \E i \in 1 .. Len(Request(log')) : Request(log')[i].role = "system"]_vars
=============================================================================
