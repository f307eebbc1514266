--------------------------------- MODULE Tui ---------------------------------
(***************************************************************************)
(* The terminal UI of crates/arrow-coder-cli/src/tui/app.rs: one loop that *)
(* drains the events of the agent, takes at most one permission request,   *)
(* runs a queued slash command and handles one event of the user; and the  *)
(* tasks it spawns, one per submitted turn, on other threads.  Both share  *)
(* two channels, the mutex around the agent, and the answers to requests.  *)
(*                                                                         *)
(* What a turn does to the log is module AgentLoop; the text on the screen *)
(* is left out.                                                            *)
(***************************************************************************)
EXTENDS Naturals, Sequences

CONSTANTS
    MaxTurns,     \* bound: turns the user submits
    SlowTail      \* the user can be quicker than a task after its last await

ASSUME TurnsAssumption == MaxTurns \in Nat
ASSUME TailAssumption == SlowTail \in BOOLEAN

VARIABLES
    at,           \* where App::run is in its loop
    state,        \* App.state
    running,      \* agent_running
    current,      \* current_task: the turn it runs; 0: None
    shown,        \* pending_permission: the turn that asks; 0: None
    typed,        \* the input is not blank
    command,      \* pending_command is a command that locks the agent
    events,       \* event channel: what is in it that ends a turn
    requests,     \* permission channel: the turns that ask
    submitted,    \* turns submitted so far
    task,         \* turn -> what its task is doing
    aborted,      \* turns whose task was told to abort
    holder,       \* who has the agent's mutex: a turn; 0: nobody
    answered,     \* turns whose response channel holds an answer, or was dropped
    model         \* the session has a model

screen == <<state, running, current, shown, typed, command>>
channels == <<events, requests, answered>>
tasks == <<submitted, task, aborted, holder>>
vars == <<at, screen, channels, tasks, model>>

Turns == 1 .. MaxTurns

Init ==
    /\ at = "drain" /\ state = "Running"
    /\ running = FALSE /\ typed = FALSE /\ command = FALSE
    /\ current = 0 /\ shown = 0 /\ submitted = 0 /\ holder = 0
    /\ events = <<>> /\ requests = <<>>
    /\ task = [t \in Turns |-> "none"]
    /\ aborted = {} /\ answered = {}
    /\ model \in BOOLEAN

-----------------------------------------------------------------------------
(* The loop *)

(* TurnComplete and Error do the same to the state, whoever sent them.     *)
ProcessAgentEvents ==
    /\ at = "drain" /\ at' = "prompt"
    /\ events' = <<>>
    /\ IF events = <<>> THEN UNCHANGED <<running, state, current>>
       ELSE running' = FALSE /\ state' = "Running" /\ current' = 0
    /\ UNCHANGED <<shown, typed, command, requests, answered, tasks, model>>

(* One request at a time.  The one that was pending goes, and with it the  *)
(* sender its turn may still wait for.                                     *)
ProcessPermissionRequests ==
    /\ at = "prompt" /\ at' = "command"
    /\ IF requests = <<>> THEN UNCHANGED <<requests, shown, state, answered>>
       ELSE /\ requests' = Tail(requests)
            /\ shown' = Head(requests)
            /\ state' = "Confirming"
            /\ answered' = answered \cup ({shown} \ {0})
    /\ UNCHANGED <<running, current, typed, command, events, tasks, model>>

(* /clear and /undo wait for the agent, in the loop itself.                *)
HandleSlashCommand ==
    /\ at = "command" /\ at' = "event"
    /\ command => holder = 0
    /\ command' = FALSE
    /\ UNCHANGED <<state, running, current, shown, typed, channels, tasks, model>>

(* No user is quicker than the few sends between the last await of a task  *)
(* and its end, or than the await an aborted task gets to, unless SlowTail.*)
Settled ==
    \/ SlowTail
    \/ \A t \in Turns : /\ task[t] # "failed"
                        /\ t \in aborted => task[t] = "ended"

(* 50 ms without an event, or an event that changes nothing.               *)
Pass ==
    /\ at = "event" /\ at' = "drain"
    /\ UNCHANGED <<screen, channels, tasks, model>>

(* A bug: the dialog closes without an answer.                             *)
DialogClosesOnly ==
    /\ at = "event" /\ state = "Confirming" /\ Settled
    /\ at' = "drain" /\ shown' = 0 /\ state' = "Processing"
    /\ UNCHANGED <<running, current, typed, command, channels, tasks, model>>
(* A key that answers the request on the screen.                           *)
HandlePermissionResponse ==
    /\ at = "event" /\ state = "Confirming" /\ Settled
    /\ at' = "drain"
    /\ answered' = answered \cup ({shown} \ {0})
    /\ shown' = 0
    /\ state' = "Processing"
    /\ UNCHANGED <<running, current, typed, command, events, requests, tasks, model>>

(* While a request is shown every other event is ignored, Ctrl+C included. *)
Event == at = "event" /\ state # "Confirming" /\ Settled /\ at' = "drain"
Key == Event /\ ~running

Type ==
    /\ Key
    /\ typed' \in BOOLEAN
    /\ UNCHANGED <<state, running, current, shown, command, channels, tasks, model>>

(* A bug: the input is taken while a turn runs. *)
SubmitAnyTime ==
    /\ Event /\ typed /\ submitted < MaxTurns
    /\ submitted' = submitted + 1
    /\ running' = TRUE /\ state' = "Processing" /\ current' = submitted + 1
    /\ task' = [task EXCEPT ![submitted + 1] = "locking"]
    /\ UNCHANGED <<shown, typed, command, channels, aborted, holder, model>>

Submit ==
    /\ Key /\ typed /\ submitted < MaxTurns
    /\ typed' = FALSE
    /\ submitted' = submitted + 1
    /\ running' = TRUE /\ state' = "Processing" /\ current' = submitted + 1
    /\ task' = [task EXCEPT ![submitted + 1] = "locking"]
    /\ UNCHANGED <<shown, command, channels, aborted, holder, model>>

SubmitCommand ==
    /\ Key /\ typed
    /\ typed' = FALSE /\ command' = TRUE
    /\ UNCHANGED <<state, running, current, shown, channels, tasks, model>>

(* A bug: the handle is dropped, which detaches the task.                  *)
CancelDetaches ==
    /\ Event /\ current # 0
    /\ running' = FALSE /\ state' = "Running" /\ current' = 0
    /\ UNCHANGED <<shown, typed, command, channels, tasks, model>>

Cancel ==
    /\ Event /\ current # 0
    /\ aborted' = aborted \cup {current}
    /\ running' = FALSE /\ state' = "Running" /\ current' = 0
    /\ UNCHANGED <<shown, typed, command, channels, submitted, task, holder, model>>

(* Leaving the loop ends the process, and every task with it.              *)
Quit ==
    /\ at = "event" /\ state # "Confirming" /\ at' = "quit"
    /\ state' = "Quitting"
    /\ task' = [t \in Turns |-> "ended"] /\ holder' = 0
    /\ UNCHANGED <<running, current, shown, typed, command, channels, submitted, aborted, model>>

-----------------------------------------------------------------------------
(* The task of a turn *)

Become(t, from, to) == task[t] = from /\ task' = [task EXCEPT ![t] = to]
Send(kind) == events' = Append(events, kind)

(* The agent is locked; without a model that is all.                       *)
Lock(t) ==
    /\ holder = 0 /\ Become(t, "locking", IF model THEN "working" ELSE "ended")
    /\ IF model THEN holder' = t /\ UNCHANGED events
       ELSE Send("Error") /\ UNCHANGED holder
    /\ UNCHANGED <<at, screen, requests, answered, submitted, aborted, model>>

(* The callback of get_permission_confirm_callback, and its await.         *)
Ask(t) ==
    /\ Become(t, "working", "asking")
    /\ requests' = Append(requests, t)
    /\ answered' = answered \ {t}
    /\ UNCHANGED <<at, screen, events, submitted, aborted, holder, model>>

TakeAnswer(t) ==
    /\ t \in answered /\ Become(t, "asking", "working")
    /\ answered' = answered \ {t}
    /\ UNCHANGED <<at, screen, events, requests, submitted, aborted, holder, model>>

(* act_streaming returned Ok: the guard of the mutex goes with the task.   *)
Succeed(t) ==
    /\ Become(t, "working", "ended") /\ Send("TurnComplete")
    /\ holder' = 0
    /\ UNCHANGED <<at, screen, requests, answered, submitted, aborted, model>>

(* act_streaming returned Err: an Error, and then a TurnComplete as well.  *)
Fail(t) ==
    /\ Become(t, "working", "failed") /\ Send("Error")
    /\ UNCHANGED <<at, screen, requests, answered, submitted, aborted, holder, model>>
FailEnd(t) ==
    /\ Become(t, "failed", "ended") /\ Send("TurnComplete")
    /\ holder' = 0
    /\ UNCHANGED <<at, screen, requests, answered, submitted, aborted, model>>

(* A panic of the agent unwinds the task and sends nothing.                *)
Panic(t) ==
    /\ Become(t, "working", "panicked")
    /\ holder' = 0
    /\ UNCHANGED <<at, screen, channels, submitted, aborted, model>>

(* An aborted task ends at the next await it gets to.                      *)
Abort(t) ==
    /\ t \in aborted /\ task[t] \in {"locking", "working", "asking"}
    /\ task' = [task EXCEPT ![t] = "ended"]
    /\ holder' = IF holder = t THEN 0 ELSE holder
    /\ UNCHANGED <<at, screen, channels, submitted, aborted, model>>

Loop == ProcessAgentEvents \/ ProcessPermissionRequests \/ HandleSlashCommand \/ Pass
User == HandlePermissionResponse \/ Type \/ Submit \/ SubmitCommand \/ Cancel \/ Quit
Advance(t) == Lock(t) \/ Succeed(t) \/ Fail(t) \/ FailEnd(t) \/ Panic(t)
Step(t) == Advance(t) \/ Ask(t) \/ TakeAnswer(t) \/ Abort(t)

Next == Loop \/ User \/ \E t \in Turns : Step(t)
Spec == Init /\ [][Next]_vars

(* The loop turns, tasks are scheduled and in the end return rather than   *)
(* ask for ever, and a user who is asked often enough answers.             *)
Fairness ==
    /\ WF_vars(Loop) /\ SF_vars(HandlePermissionResponse)
    /\ \A t \in Turns : SF_vars(Advance(t)) /\ WF_vars(TakeAnswer(t)) /\ WF_vars(Abort(t))
FairSpec == Spec /\ Fairness
-----------------------------------------------------------------------------
(* Properties *)

(* The last two conjuncts: fields that are set and taken together.         *)
TypeOK ==
    /\ at \in {"drain", "prompt", "command", "event", "quit"}
    /\ state \in {"Running", "Processing", "Confirming", "Quitting"}
    /\ {running, typed, command, model} \subseteq BOOLEAN
    /\ {current, shown, holder, submitted} \subseteq 0 .. MaxTurns
    /\ task \in [Turns -> {"none", "locking", "working", "asking", "failed",
                           "panicked", "ended"}]
    /\ aborted \cup answered \subseteq Turns
    /\ running <=> current # 0
    /\ state = "Confirming" <=> shown # 0

Alive(t) == task[t] \in {"locking", "working", "asking"} /\ t \notin aborted
InChannel(t) == \E i \in 1 .. Len(requests) : requests[i] = t

(* A turn that waits for an answer has its request in the channel or on    *)
(* the screen: no request is lost, though stale ones of cancelled turns    *)
(* pass through the same channel and the same field.                       *)
LiveRequestsSurvive ==
    \A t \in Turns :
      Alive(t) /\ task[t] = "asking" => t \in answered \/ shown = t \/ InChannel(t)

(* The comment on current_task, "Handle to the currently running agent     *)
(* task (for Ctrl+C cancellation)": a turn that runs can be cancelled.     *)
CancelReachesTurn == \A t \in Turns : Alive(t) => current = t

(* The input always comes back.  A slash command gets the agent: the loop  *)
(* that waits for the mutex is never the one the holder of the mutex waits *)
(* for; and a turn gives the input back to the user, unless it panics.     *)
InputReturns ==
    /\ command ~> ~command
    /\ \A t \in Turns : current = t ~> current # t \/ task[t] = "panicked" \/ at = "quit"
=============================================================================
