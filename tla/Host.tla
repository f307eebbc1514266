-------------------------------- MODULE Host --------------------------------
(***************************************************************************)
(* The host process of the VS Code extension (vscode/host.rs, main.rs): a  *)
(* loop that reads one request after the other, a task for each prompt,    *)
(* and a printer for each task.  They share the session behind a lock, the *)
(* running flag, the abort channels and the tables of requests the user    *)
(* has to answer.                                                          *)
(*                                                                         *)
(* The lock is handed over in the order of the waiting: it is a sequence,  *)
(* the holder first.  The turn itself is AgentLoop; here it prints, asks,  *)
(* looks at the abort channel it was given, and ends.  The host starts     *)
(* with a session: how it fails to get one is in Config.                   *)
(***************************************************************************)
EXTENDS Naturals, Sequences, SequencesExt, FiniteSets

CONSTANTS
    ChannelSize,    \* events a session keeps for a subscriber that has not read them
    MaxPrompts,     \* bound: prompts that are accepted
    MaxEvents,      \* bound: events a turn emits
    MaxAsks,        \* bound: permissions and questions of a turn
    MaxSessions     \* bound: sessions that take the place of the first

ASSUME HostAssumption ==
    {MaxPrompts, MaxEvents, MaxAsks, MaxSessions} \subseteq Nat /\ ChannelSize \in Nat \ {0}

VARIABLES
    hoLoop,         \* what the read loop does: "reading", or the request it is in
    hoLock,         \* the lock of the session: its holder, then who waits
    hoRunning,      \* the running flag
    hoCancels,      \* abort_tx: the prompt whose channel session/cancel writes to
    hoAborted,      \* the channels that were written to
    hoSession,      \* the session: its number, and the channel its turns look at
    hoTurns,        \* the task of each prompt
    hoAsked         \* pending_permissions and pending_questions

hostVars == <<hoLoop, hoLock, hoRunning, hoCancels, hoAborted, hoSession, hoTurns, hoAsked>>

Turns == 1..MaxPrompts
Loop == 0           \* the read loop, as a party of the lock
NoTurn == 0
NewSession(n) == [number |-> n, channel |-> NoTurn]

\* of: the session it subscribed to; backlog: events of it that its printer has not printed;
\* lagged: an event was dropped before the printer had read it, and it has not been told.
\* History: crossed: another prompt or session came before it had the session;
\* unheard: it has emitted an event its printer will never see.
NewTurn(of, crossed) ==
    [at |-> "spawned", of |-> of, events |-> 0, backlog |-> 0, asks |-> 0,
     lagged |-> FALSE, crossed |-> crossed, unheard |-> FALSE]
NotYet == [NewTurn(0, FALSE) EXCEPT !.at = "none"]

HostInit ==
    /\ hoLoop = "reading" /\ hoLock = <<>> /\ hoRunning = FALSE
    /\ hoCancels = NoTurn /\ hoAborted = {}
    /\ hoSession = NewSession(0)
    /\ hoTurns = [i \in Turns |-> NotYet]
    /\ hoAsked = {}

Holds(x) == hoLock # <<>> /\ Head(hoLock) = x
Wait(x) == hoLock' = Append(hoLock, x)
Release == hoLock' = Tail(hoLock)
At(i, at) == hoTurns[i].at = at
Goes(i, at) == hoTurns' = [hoTurns EXCEPT ![i].at = at]

(***************************************************************************)
(* The requests.  One that needs the session waits for it in the loop.     *)
(***************************************************************************)
\* Between its prompt and the session.
Starting == {i \in Turns : hoTurns[i].at \in {"spawned", "wiring", "wired", "queued"}}
Crossed == [i \in Turns |-> IF i \in Starting THEN [hoTurns[i] EXCEPT !.crossed = TRUE] ELSE hoTurns[i]]

Next1 == Cardinality({i \in Turns : ~At(i, "none")}) + 1

\* What the loop does before it waits.
Begin(request) ==
    /\ hoLoop = "reading" /\ hoLoop' = request
    /\ Wait(Loop)
    /\ UNCHANGED <<hoRunning, hoCancels, hoAborted, hoSession, hoTurns, hoAsked>>

\* A prompt is the only one of them that looks at the running flag.
BeginPrompt == ~hoRunning /\ Next1 \in Turns /\ Begin("prompt")
BeginInject == Begin("inject")

\* A session to create or open needs a model that was chosen since the last prompt (Config).
BeginCreate == hoSession.number < MaxSessions /\ Begin("create")
OpenSession == hoSession.number < MaxSessions /\ Begin("open")

\* session/prompt: it subscribes, makes the abort channel, and leaves the rest to a task.
Prompt ==
    /\ hoLoop = "prompt" /\ Holds(Loop)
    /\ hoLoop' = "reading" /\ Release
    /\ hoCancels' = Next1
    /\ hoTurns' = [Crossed EXCEPT ![Next1] = NewTurn(hoSession.number, Starting # {})]
    /\ UNCHANGED <<hoRunning, hoAborted, hoSession, hoAsked>>

\* session/create, workspace/openSession and session/new: the new session takes the place
\* of the old one, whose subscribers hear nothing any more.
Swap ==
    /\ hoLoop \in {"create", "open"} /\ Holds(Loop)
    /\ hoLoop' = "reading" /\ Release
    /\ hoSession' = NewSession(hoSession.number + 1)
    /\ hoTurns' = Crossed
    /\ UNCHANGED <<hoRunning, hoCancels, hoAborted, hoAsked>>

\* Only session/create gives up waiting.
CreateTimesOut ==
    /\ hoLoop = "create"
    /\ hoLoop' = "reading"
    /\ \E place \in DOMAIN hoLock : hoLock[place] = Loop /\ hoLock' = RemoveAt(hoLock, place)
    /\ UNCHANGED <<hoRunning, hoCancels, hoAborted, hoSession, hoTurns, hoAsked>>

\* session/inject: the message is with the session, for its next request to the model.
Inject ==
    /\ hoLoop = "inject" /\ Holds(Loop)
    /\ hoLoop' = "reading" /\ Release
    /\ UNCHANGED <<hoRunning, hoCancels, hoAborted, hoSession, hoTurns, hoAsked>>

\* Slash commands and session/compact run in the loop, and only if nobody has the session
\* or waits for it.  So do undo, restoreFile and todo/update, at once.
Free == hoLock = <<>>

BeginCommand ==
    /\ hoLoop = "reading" /\ ~hoRunning /\ Free
    /\ hoLoop' = "command" /\ Wait(Loop)
    /\ UNCHANGED <<hoRunning, hoCancels, hoAborted, hoSession, hoTurns, hoAsked>>

EndCommand ==
    /\ hoLoop = "command"
    /\ hoLoop' = "reading" /\ Release
    /\ UNCHANGED <<hoRunning, hoCancels, hoAborted, hoSession, hoTurns, hoAsked>>

Cancel ==
    /\ hoLoop = "reading" /\ hoCancels # NoTurn
    /\ hoAborted' = hoAborted \cup {hoCancels}
    /\ UNCHANGED <<hoLoop, hoLock, hoRunning, hoCancels, hoSession, hoTurns, hoAsked>>

\* session/approve and session/user_answer: an answer to a request that nobody waits for
\* any more is taken as well.
Answer(i, ask) ==
    /\ hoLoop = "reading" /\ <<i, ask>> \in hoAsked
    /\ hoAsked' = hoAsked \ {<<i, ask>>}
    /\ IF hoTurns[i].asks = ask /\ hoTurns[i].at \in {"permission", "question"}
       THEN Goes(i, "sending") ELSE UNCHANGED hoTurns
    /\ UNCHANGED <<hoLoop, hoLock, hoRunning, hoCancels, hoAborted, hoSession>>

LoopStep == Prompt \/ Swap \/ CreateTimesOut \/ Inject \/ EndCommand

(***************************************************************************)
(* The task of a prompt.                                                   *)
(***************************************************************************)
SetRunning(i) ==
    /\ At(i, "spawned") /\ Goes(i, "wiring")
    /\ hoRunning' = TRUE /\ Wait(i)
    /\ UNCHANGED <<hoLoop, hoCancels, hoAborted, hoSession, hoAsked>>

\* A mutant: the session keeps the channel it has.
WireOnce(i) ==
    /\ At(i, "wiring") /\ Holds(i) /\ Goes(i, "wired")
    /\ hoSession' = IF hoSession.channel = NoTurn THEN [hoSession EXCEPT !.channel = i] ELSE hoSession
    /\ Release
    /\ UNCHANGED <<hoLoop, hoRunning, hoCancels, hoAborted, hoAsked>>

\* The chosen model and the abort channel; then the session is free for a moment.
Wire(i) ==
    /\ At(i, "wiring") /\ Holds(i) /\ Goes(i, "wired")
    /\ hoSession' = [hoSession EXCEPT !.channel = i]
    /\ Release
    /\ UNCHANGED <<hoLoop, hoRunning, hoCancels, hoAborted, hoAsked>>

Queue(i) ==
    /\ \/ At(i, "wired") /\ Goes(i, "queued")
       \/ At(i, "idle") /\ Goes(i, "changes")
    /\ Wait(i)
    /\ UNCHANGED <<hoLoop, hoRunning, hoCancels, hoAborted, hoSession, hoAsked>>

Send(i) ==
    /\ At(i, "queued") /\ Holds(i) /\ Goes(i, "sending")
    /\ UNCHANGED <<hoLoop, hoLock, hoRunning, hoCancels, hoAborted, hoSession, hoAsked>>

Stopped == hoSession.channel \in hoAborted

\* A subscriber that is a whole channel behind loses the oldest event.
Hears(turn) ==
    IF turn.backlog < ChannelSize THEN [turn EXCEPT !.backlog = @ + 1] ELSE [turn EXCEPT !.lagged = TRUE]

\* Everyone who has subscribed to this session and has not ended hears of an event.
Emit(i) ==
    /\ At(i, "sending") /\ ~Stopped /\ hoTurns[i].events < MaxEvents
    /\ hoTurns' = [j \in Turns |->
           LET turn == IF hoTurns[j].of = hoSession.number /\ hoTurns[j].at \notin {"none", "over"}
                       THEN Hears(hoTurns[j])
                       ELSE [hoTurns[j] EXCEPT !.unheard = @ \/ j = i]
           IN  IF j = i THEN [turn EXCEPT !.events = @ + 1] ELSE turn]
    /\ UNCHANGED <<hoLoop, hoLock, hoRunning, hoCancels, hoAborted, hoSession, hoAsked>>

\* The callbacks: the answer has its place in the table before the webview is asked.
Ask(i, how) ==
    /\ At(i, "sending") /\ ~Stopped /\ hoTurns[i].asks < MaxAsks
    /\ hoTurns' = [hoTurns EXCEPT ![i].at = how, ![i].asks = @ + 1]
    /\ hoAsked' = hoAsked \cup {<<i, hoTurns[i].asks + 1>>}
    /\ UNCHANGED <<hoLoop, hoLock, hoRunning, hoCancels, hoAborted, hoSession>>

\* A mutant: questions time out, permissions do not.
AskTimesOutQuestion(i) ==
    /\ At(i, "question") /\ Goes(i, "sending")
    /\ UNCHANGED <<hoLoop, hoLock, hoRunning, hoCancels, hoAborted, hoSession, hoAsked>>

\* A permission is denied after 300 seconds; its place in the table stays.
AskTimesOut(i) ==
    /\ At(i, "permission") /\ Goes(i, "sending")
    /\ UNCHANGED <<hoLoop, hoLock, hoRunning, hoCancels, hoAborted, hoSession, hoAsked>>

\* (How many events it has emitted only bounds the emitting.)
EndTurn(i) ==
    /\ At(i, "sending") /\ Release
    /\ hoTurns' = [hoTurns EXCEPT ![i].at = "ended", ![i].events = 0]
    /\ UNCHANGED <<hoLoop, hoRunning, hoCancels, hoAborted, hoSession, hoAsked>>

ClearRunning(i) ==
    /\ At(i, "ended") /\ Goes(i, "idle") /\ hoRunning' = FALSE
    /\ UNCHANGED <<hoLoop, hoLock, hoCancels, hoAborted, hoSession, hoAsked>>

\* The file changes and the checkpoints of whatever session there is now; then agent/done
\* goes out, and the printer is told to finish.
ReportChanges(i) ==
    /\ At(i, "changes") /\ Holds(i) /\ Goes(i, "done") /\ Release
    /\ UNCHANGED <<hoLoop, hoRunning, hoCancels, hoAborted, hoSession, hoAsked>>

TurnStep(i) ==
    \/ SetRunning(i) \/ Wire(i) \/ Queue(i) \/ Send(i) \/ Emit(i) \/ EndTurn(i)
    \/ ClearRunning(i) \/ ReportChanges(i)
    \/ \E how \in {"permission", "question"} : Ask(i, how)

\* What was dropped is skipped; then the oldest event there is.
PrintEvent(i) ==
    /\ hoTurns[i].backlog > 0 /\ ~At(i, "over")
    /\ hoTurns' = IF hoTurns[i].lagged THEN [hoTurns EXCEPT ![i].lagged = FALSE]
                  ELSE [hoTurns EXCEPT ![i].backlog = @ - 1]
    /\ UNCHANGED <<hoLoop, hoLock, hoRunning, hoCancels, hoAborted, hoSession, hoAsked>>

\* A mutant: it stops when it is told to.
PrinterEndsAtOnce(i) ==
    /\ At(i, "done") /\ Goes(i, "over")
    /\ UNCHANGED <<hoLoop, hoLock, hoRunning, hoCancels, hoAborted, hoSession, hoAsked>>

\* The printer ends when it is told to and has printed what there is, up to a dropped event.
PrinterEnds(i) ==
    /\ At(i, "done") /\ (hoTurns[i].lagged \/ hoTurns[i].backlog = 0) /\ Goes(i, "over")
    /\ UNCHANGED <<hoLoop, hoLock, hoRunning, hoCancels, hoAborted, hoSession, hoAsked>>

HostNext ==
    \/ BeginPrompt \/ BeginInject \/ BeginCreate \/ OpenSession
    \/ LoopStep \/ BeginCommand \/ Cancel
    \/ \E i \in Turns :
        \/ TurnStep(i) \/ AskTimesOut(i) \/ PrintEvent(i) \/ PrinterEnds(i)
        \/ \E ask \in 1..MaxAsks : Answer(i, ask)

\* The tasks of the runtime are polled and the timers fire.  The user answers nothing.
HostFairness ==
    /\ WF_hostVars(LoopStep)
    /\ \A i \in Turns : /\ WF_hostVars(TurnStep(i)) /\ WF_hostVars(AskTimesOut(i))
                        /\ WF_hostVars(PrintEvent(i)) /\ WF_hostVars(PrinterEnds(i))

HostSpec == HostInit /\ [][HostNext]_hostVars /\ HostFairness

-----------------------------------------------------------------------------
\* The lock has one place for each party, and whoever uses the session has it.
HostTypeOK ==
    /\ hoLoop \in {"reading", "prompt", "inject", "create", "open", "command"}
    /\ hoLock \in Seq(Turns \cup {Loop}) /\ IsInjective(hoLock)
    /\ hoLoop # "reading" <=> Loop \in Range(hoLock)
    /\ \A i \in Turns :
        /\ hoTurns[i].at \in {"sending", "permission", "question"} => Holds(i)
        /\ i \in Range(hoLock) <=> hoTurns[i].at \in {"wiring", "queued", "sending", "permission",
                                                       "question", "changes"}
    /\ hoAsked \subseteq Turns \X (1..MaxAsks)

\* A turn runs in the session its prompt was typed in, and session/cancel stops it and not
\* another, unless a prompt or a session got between its prompt and its session.
TurnIsItsOwn ==
    \A i \in Turns :
        hoTurns[i].at \in {"sending", "permission", "question"} /\ ~hoTurns[i].crossed =>
            hoSession = [number |-> hoTurns[i].of, channel |-> i]

\* Every event of a turn that its session still has is printed before its task is over, though
\* the done event of the turn overtakes them: unless the printer was told to end when it was a
\* whole channel behind, and had not been told.  (What is dropped from the channel before the
\* printer has read it is never printed.)
EventsArePrinted ==
    \A i \in Turns :
        /\ At(i, "over") /\ ~hoTurns[i].lagged => hoTurns[i].backlog = 0
        /\ ~hoTurns[i].crossed => ~hoTurns[i].unheard

\* The loop reads the next request some time, and every prompt is over some time, though a
\* request may wait in the loop for a turn that itself waits for an answer which only the
\* loop could read; no more than a question, which has no timeout, can keep them.
Questioned == \E i \in Turns : At(i, "question")
HostGoesOn ==
    \/ []<>(hoLoop = "reading") /\ \A i \in Turns : []<>(hoTurns[i].at \in {"none", "over"})
    \/ <>[]Questioned
=============================================================================
