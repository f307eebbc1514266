-------------------------------- MODULE Todos --------------------------------
(***************************************************************************)
(* The todo list the model keeps (tools/builtins/todo.rs), the snapshots   *)
(* of it in the event log (agent/agent_loop.rs, session/store.rs) and the  *)
(* tasks handed to sub-agents (tools/builtins/task.rs, core/task.rs).      *)
(*                                                                         *)
(* The list is shared: the session's own loop logs it after every call of  *)
(* the todo tool, a sub-agent's loop calls the same tool and logs nothing, *)
(* and the user interface sets a status between turns.  Only the loop the  *)
(* VS Code host builds is given the list, though: the loops of the         *)
(* terminal and of the programmatic run are not, and log and restore       *)
(* nothing of it.                                                          *)
(***************************************************************************)
EXTENDS Naturals, Sequences, FiniteSetsExt, SequencesExt

CONSTANTS
    TodoIds,        \* bound: the ids of the items the list and the log hold
    MaxTurnsLogged, \* bound: turns in the log
    MaxTasks,       \* bound: tasks in the graph
    MaxTodoWrites   \* bound: snapshots in the log

VARIABLES
    tdWired,        \* whether the session's loop was given the list (with_todo_state)
    tdItems,        \* TodoState.items: [id, status]
    tdLog,          \* the event log: where turns begin, and the snapshots between them
    tdTurn,         \* who works: nobody, the session's loop, a sub-agent
    tdTasks,        \* statuses of the tasks in the graph, in the order they were added
    tdAhead         \* history: what left the list ahead of, or behind, the log

tdVars == <<tdWired, tdItems, tdLog, tdTurn, tdTasks, tdAhead>>

Statuses == {"pending", "inprogress", "completed"}
EveryStatus == "every"
TurnMark == [kind |-> "turn", todos |-> <<>>]
TodoWrite(todos) == [kind |-> "write", todos |-> todos]

TodoInit ==
    /\ tdWired \in BOOLEAN
    /\ tdItems = <<>> /\ tdLog = <<>> /\ tdTurn = "none"
    /\ tdTasks = <<>> /\ tdAhead = {}

(***************************************************************************)
(* The operations of the list.                                             *)
(***************************************************************************)
Ids(items) == {items[i].id : i \in DOMAIN items}
AddTodo(items, id) == Append(items, [id |-> id, status |-> "pending"])
SetStatus(items, id, status) ==
    [i \in DOMAIN items |-> IF items[i].id = id THEN [items[i] EXCEPT !.status = status] ELSE items[i]]
Retain(items, places) ==
    FlattenSeq([i \in 1 .. Len(items) |-> IF i \in places THEN <<items[i]>> ELSE <<>>])
RemoveTodo(items, id) == Retain(items, {i \in DOMAIN items : items[i].id # id})
ClearTodos(items, status) ==
    Retain(items, {i \in DOMAIN items : status # EveryStatus /\ items[i].status # status})

\* derive_todos: the last snapshot, or nothing.
Snapshots(events) == {i \in DOMAIN events : events[i].kind = "write"}
DeriveTodos(events) == IF Snapshots(events) = {} THEN <<>> ELSE events[Max(Snapshots(events))].todos

\* persist_todo_snapshot does nothing in a loop that was not given the list.
PersistTodoSnapshot(items) ==
    IF tdWired
    THEN /\ Cardinality(Snapshots(tdLog)) < MaxTodoWrites
         /\ tdLog' = Append(tdLog, TodoWrite(items))
         /\ tdAhead' = {}
    ELSE UNCHANGED <<tdLog, tdAhead>>

(***************************************************************************)
(* Calls of the todo tool.                                                 *)
(***************************************************************************)
\* A uuid is one that occurs nowhere.
UsedIds == Ids(tdItems) \cup UNION {Ids(tdLog[i].todos) : i \in Snapshots(tdLog)}

\* What a call can make of the list; an item nobody has, or a list only read, leaves it.
Invoked(items) ==
    {AddTodo(items, id) : id \in TodoIds \ UsedIds}
    \cup {SetStatus(items, id, status) : id \in TodoIds, status \in Statuses}
    \cup {RemoveTodo(items, id) : id \in TodoIds}
    \cup {ClearTodos(items, status) : status \in Statuses \cup {EveryStatus}}

\* push_tool_result of the session's loop logs the list whatever the call did to it.
InvokeTodo ==
    /\ tdTurn = "own"
    /\ \E after \in Invoked(tdItems) : tdItems' = after /\ PersistTodoSnapshot(after)
    /\ UNCHANGED <<tdWired, tdTurn, tdTasks>>

\* The loop of a sub-agent has no todo state of its own to log.
SubAgentInvokesTodo ==
    /\ tdTurn = "sub"
    /\ tdItems' \in Invoked(tdItems)
    /\ tdAhead' = tdAhead \cup {"sub-agent"}
    /\ UNCHANGED <<tdWired, tdLog, tdTurn, tdTasks>>

(***************************************************************************)
(* Turns, tasks, and what the user does between turns.                     *)
(***************************************************************************)
StartTurn ==
    /\ tdTurn = "none" /\ Len(tdLog) - Cardinality(Snapshots(tdLog)) < MaxTurnsLogged
    /\ tdTurn' = "own" /\ tdLog' = Append(tdLog, TurnMark)
    /\ UNCHANGED <<tdWired, tdItems, tdTasks, tdAhead>>

\* A turn ends, or its task is dropped: with it the sub-agent, whose task stays pending.
EndTurn ==
    /\ tdTurn # "none" /\ tdTurn' = "none"
    /\ UNCHANGED <<tdWired, tdItems, tdLog, tdTasks, tdAhead>>

StartTask ==
    /\ tdTurn = "own" /\ Len(tdTasks) < MaxTasks
    /\ tdTurn' = "sub" /\ tdTasks' = Append(tdTasks, "pending")
    /\ UNCHANGED <<tdWired, tdItems, tdLog, tdAhead>>

EndTask ==
    /\ tdTurn = "sub" /\ tdTurn' = "own"
    /\ \E status \in {"completed", "failed"} : tdTasks' = [tdTasks EXCEPT ![Len(tdTasks)] = status]
    /\ UNCHANGED <<tdWired, tdItems, tdLog, tdAhead>>

\* A bug: a status the user sets is not logged.
SetTodoStatusUnlogged(id, status) ==
    /\ tdWired /\ tdTurn = "none" /\ id \in Ids(tdItems)
    /\ tdItems' = SetStatus(tdItems, id, status)
    /\ UNCHANGED <<tdWired, tdLog, tdTurn, tdTasks, tdAhead>>

\* set_todo_status: an id nobody has changes nothing and logs nothing, nor does a loop that
\* was not given the list.
SetTodoStatus(id, status) ==
    /\ tdWired /\ tdTurn = "none" /\ id \in Ids(tdItems)
    /\ tdItems' = SetStatus(tdItems, id, status)
    /\ PersistTodoSnapshot(SetStatus(tdItems, id, status))
    /\ UNCHANGED <<tdWired, tdTurn, tdTasks>>

\* The log goes back to before the last user message; the list stays as it is.
UndoTurn ==
    LET turns == {i \in DOMAIN tdLog : tdLog[i].kind = "turn"} IN
    /\ tdTurn = "none" /\ turns # {}
    /\ tdLog' = SubSeq(tdLog, 1, Max(turns) - 1)
    /\ tdAhead' = tdAhead \cup {"undo"}
    /\ UNCHANGED <<tdWired, tdItems, tdTurn, tdTasks>>

\* clear_messages (the terminal's /clear): the log is reset; the list stays as it is.
ClearMessages ==
    /\ tdTurn = "none" /\ tdLog' = <<>>
    /\ tdAhead' = tdAhead \cup {"clear"}
    /\ UNCHANGED <<tdWired, tdItems, tdTurn, tdTasks>>

\* The session is opened again: with_session_logger restores the list from the log, if the
\* loop was given it; else the todo tool begins with an empty one.
Reopen ==
    /\ tdTurn = "none"
    /\ tdItems' = (IF tdWired THEN DeriveTodos(tdLog) ELSE <<>>) /\ tdTasks' = <<>> /\ tdAhead' = {}
    /\ UNCHANGED <<tdWired, tdLog, tdTurn>>

TodoNext ==
    \/ InvokeTodo \/ SubAgentInvokesTodo
    \/ StartTurn \/ EndTurn \/ StartTask \/ EndTask \/ UndoTurn \/ ClearMessages \/ Reopen
    \/ \E id \in TodoIds, status \in Statuses : SetTodoStatus(id, status)

-----------------------------------------------------------------------------
\* The last conjunct: no two items share an id, so that the first one found is the only one.
TodoTypeOK ==
    /\ tdWired \in BOOLEAN
    /\ tdTurn \in {"none", "own", "sub"}
    /\ \A i \in DOMAIN tdTasks : tdTasks[i] \in {"pending", "completed", "failed"}
    /\ \A i \in DOMAIN tdItems : tdItems[i].id \in TodoIds /\ tdItems[i].status \in Statuses
    /\ \A i, j \in DOMAIN tdItems : tdItems[i].id = tdItems[j].id => i = j

\* agent_loop.rs:509, of a loop that was given the list: the list and the last snapshot in
\* the log are the same, but for an undo or a clearing of the conversation, which leave the
\* list as it is, and for what a sub-agent did to it since.  (Of a loop that was not given
\* the list it says nothing: there the log has no snapshot at all.)
LogHasTheList == tdWired /\ tdAhead = {} => DeriveTodos(tdLog) = tdItems
=============================================================================
