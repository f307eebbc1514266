------------------------------- MODULE Shell -------------------------------
(***************************************************************************)
(* The shell tools: bash (tools/builtins/bash.rs), which starts a shell    *)
(* for a command, and bash_session (tools/builtins/bash_session.rs), which *)
(* does the same in the directory and with the exports of a named session. *)
(*                                                                         *)
(* A call waits for three things at once: the command, the abort channel   *)
(* of the turn and a timeout.  Waiting for the command means reading its   *)
(* two outputs line by line, to their end or to a line that is no UTF-8,   *)
(* and then, with the handle of the process taken out of the slot it       *)
(* shares with the other two, for the shell to exit.                       *)
(* The command is the environment: it prints, closes its outputs, leaves   *)
(* helpers behind in the background, exits, or runs for ever.              *)
(***************************************************************************)
EXTENDS Naturals

CONSTANTS
    SessionIds,     \* the ids the model gives its shell sessions
    Places,         \* paths a command may run in or cd to
    Dirs,           \* those that are directories
    Files,          \* those that are not; the others do not exist
    Here,           \* the working directory of the program
    ExportNames,    \* environment variables a session may export
    Unset,          \* no session, no place
    MaxLines        \* bound: lines a command prints

ASSUME ShellAssumption ==
    /\ Here \in Dirs /\ Dirs \cup Files \subseteq Places /\ Dirs \cap Files = {}
    /\ Unset \notin Places \cup SessionIds /\ MaxLines \in Nat

VARIABLES
    shSessions,     \* the static map of sessions
    shCall,         \* the call in progress, and how the last one ended
    shProc,         \* the command: its shell, its helpers, its outputs
    shAbort         \* the abort channel of the turn

shVars == <<shSessions, shCall, shProc, shAbort>>

NoSession == [cwd |-> Unset, exports |-> {}]
NoProc == [shell |-> FALSE, shellOut |-> FALSE, helper |-> FALSE, helperOut |-> FALSE,
           killed |-> FALSE, printed |-> 0, read |-> 0, deaf |-> FALSE]
NoRun == [tool |-> "bash", at |-> "idle", session |-> Unset, cd |-> Unset,
           slot |-> FALSE, reported |-> 0, outcome |-> "none"]

\* The terminal has no abort channel: it drops the task of the turn instead.
ShInit ==
    /\ shSessions = [id \in SessionIds |-> NoSession]
    /\ shCall = NoRun /\ shProc = NoProc
    /\ shAbort \in {"none", "quiet"}

Exists(id) == shSessions[id].cwd # Unset
Active == shCall.at # "idle"
Writers == (shProc.shell /\ shProc.shellOut) \/ (shProc.helper /\ shProc.helperOut)
Finish(outcome) == [shCall EXCEPT !.at = "idle", !.outcome = outcome, !.reported = shProc.read]

(***************************************************************************)
(* The sessions.                                                           *)
(***************************************************************************)
Create(id, dir, exports) ==
    /\ ~Active /\ ~Exists(id)
    /\ shSessions' = [shSessions EXCEPT ![id] = [cwd |-> dir, exports |-> exports]]
    /\ UNCHANGED <<shCall, shProc, shAbort>>

Close(id) ==
    /\ ~Active /\ Exists(id)
    /\ shSessions' = [shSessions EXCEPT ![id] = NoSession]
    /\ UNCHANGED <<shCall, shProc, shAbort>>

Export(id, exports) ==
    /\ ~Active /\ Exists(id)
    /\ shSessions' = [shSessions EXCEPT ![id].exports = @ \cup exports]
    /\ UNCHANGED <<shCall, shProc, shAbort>>

(***************************************************************************)
(* A run.                                                                  *)
(***************************************************************************)
\* The shell starts in its directory or not at all.
Spawn(call, dir) ==
    IF dir \in Dirs
    THEN /\ shCall' = [call EXCEPT !.at = "reading", !.slot = TRUE]
         /\ shProc' = [NoProc EXCEPT !.shell = TRUE, !.shellOut = TRUE]
    ELSE shCall' = [call EXCEPT !.outcome = "error"] /\ shProc' = NoProc

Bash(dir) ==
    /\ ~Active /\ Spawn(NoRun, dir)
    /\ UNCHANGED <<shSessions, shAbort>>

\* A session that does not exist is made first, also for a command that is then refused.
RunSession(id, cd, dangerous) ==
    LET session == IF Exists(id) THEN shSessions[id] ELSE [NoSession EXCEPT !.cwd = Here]
        call == [NoRun EXCEPT !.tool = "bash_session", !.session = id, !.cd = cd]
    IN  /\ ~Active
        /\ shSessions' = [shSessions EXCEPT ![id] = session]
        /\ IF dangerous THEN shCall' = [call EXCEPT !.outcome = "error"] /\ shProc' = NoProc
                        ELSE Spawn(call, session.cwd)
        /\ UNCHANGED shAbort

\* The two reader tasks, while let Ok(Some(line)): each reads its output to the end, or to a
\* line that is no UTF-8, which ends it like the end of the output.
ReadOutput ==
    /\ shCall.at = "reading" /\ shProc.read + (IF shProc.deaf THEN 1 ELSE 0) < shProc.printed
    /\ shProc' = [shProc EXCEPT !.read = @ + 1]
    /\ UNCHANGED <<shSessions, shCall, shAbort>>

ReadsNoUtf8 ==
    /\ shCall.at = "reading" /\ shProc.read < shProc.printed
    /\ shProc' = [shProc EXCEPT !.deaf = TRUE]
    /\ UNCHANGED <<shSessions, shCall, shAbort>>

\* A bug: the shell is waited for, its outputs are not.
OutputsEndWithShell ==
    /\ shCall.at = "reading" /\ ~shProc.shell
    /\ shCall' = [shCall EXCEPT !.at = "waiting", !.slot = FALSE]
    /\ UNCHANGED <<shSessions, shProc, shAbort>>

\* Both readers have ended: surely with all writers gone and all lines read, and after a
\* line no reader could read perhaps (the other output may be closed, or as unreadable).
\* The handle of the process is taken from its slot.
AllRead == ~Writers /\ shProc.read = shProc.printed
OutputsEnd ==
    /\ shCall.at = "reading" /\ (AllRead \/ shProc.deaf)
    /\ shCall' = [shCall EXCEPT !.at = "waiting", !.slot = FALSE]
    /\ UNCHANGED <<shSessions, shProc, shAbort>>

\* The exit status; a session follows a cd at the start of the command, whatever
\* became of the command, if the path resolves.
Exited ==
    /\ shCall.at = "waiting" /\ ~shProc.shell
    /\ shCall' = Finish("exit")
    /\ shSessions' = IF shCall.cd \in Dirs \cup Files
                     THEN [shSessions EXCEPT ![shCall.session].cwd = shCall.cd] ELSE shSessions
    /\ UNCHANGED <<shProc, shAbort>>

\* When the abort is looked at: bash all the time the outputs are read, bash_session
\* once, when its readers have ended.
HearsAbort == shCall.tool = "bash" \/ AllRead

\* child.kill() signals the shell itself.
Kill(call) ==
    /\ shCall' = [call EXCEPT !.slot = FALSE]
    /\ shProc' = [shProc EXCEPT !.killed = TRUE]

Aborted ==
    /\ shCall.at = "reading" /\ shAbort = "sent" /\ (HearsAbort \/ shProc.deaf)
    /\ Kill([shCall EXCEPT !.at = "killing"])
    /\ UNCHANGED <<shSessions, shAbort>>

\* Two bugs: a timeout that leaves the process running, and one over the outputs only.
TimedOutLeaves ==
    /\ shCall.at \in {"reading", "waiting", "killing"}
    /\ shCall' = Finish("timeout")
    /\ UNCHANGED <<shSessions, shProc, shAbort>>
TimedOutReading ==
    /\ shCall.at = "reading" /\ ~(shAbort = "sent" /\ HearsAbort)
    /\ Kill([shCall EXCEPT !.at = "late"])
    /\ UNCHANGED <<shSessions, shAbort>>

\* The timeout drops everything above, with the handle when it was taken; what is still
\* in the slot is killed.  An abort that is sure to be heard is looked at before the clock.
TimedOut ==
    /\ shCall.at \in {"reading", "waiting", "killing"}
    /\ ~(shCall.slot /\ shAbort = "sent" /\ HearsAbort)
    /\ IF shCall.slot THEN Kill([shCall EXCEPT !.at = "late"])
                      ELSE shCall' = Finish("timeout") /\ UNCHANGED shProc
    /\ UNCHANGED <<shSessions, shAbort>>

Killed ==
    /\ shCall.at \in {"killing", "late"} /\ ~shProc.shell
    /\ shCall' = Finish(IF shCall.at = "late" THEN "timeout" ELSE "cancelled")
    /\ UNCHANGED <<shSessions, shProc, shAbort>>

\* The task of the turn is dropped, and the handle with it: nothing is killed.
Dropped ==
    /\ Active /\ shAbort = "none"
    /\ shCall' = Finish("dropped")
    /\ UNCHANGED <<shSessions, shProc, shAbort>>

SendAbort ==
    /\ shAbort = "quiet" /\ shAbort' = "sent"
    /\ UNCHANGED <<shSessions, shCall, shProc>>

NewTurn ==
    /\ ~Active /\ shAbort = "sent" /\ shAbort' = "quiet"
    /\ UNCHANGED <<shSessions, shCall, shProc>>

(***************************************************************************)
(* The command.                                                            *)
(***************************************************************************)
PrintLine ==
    /\ Writers /\ shProc.printed < MaxLines
    /\ shProc' = [shProc EXCEPT !.printed = @ + 1]

CloseOutputs ==
    /\ shProc.shell /\ shProc.shellOut
    /\ shProc' = [shProc EXCEPT !.shellOut = FALSE]

LeaveHelper(out) ==
    /\ shProc.shell /\ ~shProc.helper
    /\ shProc' = [shProc EXCEPT !.helper = TRUE, !.helperOut = out /\ shProc.shellOut]

ShellExits == shProc.shell /\ shProc' = [shProc EXCEPT !.shell = FALSE]
HelperExits == shProc.helper /\ shProc' = [shProc EXCEPT !.helper = FALSE]

Command ==
    /\ Active
    /\ PrintLine \/ CloseOutputs \/ ShellExits \/ HelperExits \/ \E out \in BOOLEAN : LeaveHelper(out)
    /\ UNCHANGED <<shSessions, shCall, shAbort>>

\* A killed shell does exit.
Dies == Active /\ shProc.killed /\ ShellExits /\ UNCHANGED <<shSessions, shCall, shAbort>>

ShellNext ==
    \/ \E id \in SessionIds :
        \/ \E dir \in Places, exports \in SUBSET ExportNames : Create(id, dir, exports)
        \/ Close(id)
        \/ \E exports \in SUBSET ExportNames : Export(id, exports)
        \/ \E cd \in Places \cup {Unset}, dangerous \in BOOLEAN : RunSession(id, cd, dangerous)
    \/ \E dir \in Places : Bash(dir)
    \/ ReadOutput \/ ReadsNoUtf8 \/ OutputsEnd \/ Exited \/ Aborted \/ TimedOut \/ Killed \/ Dropped
    \/ SendAbort \/ NewTurn \/ Command

ShellSpec == ShInit /\ [][ShellNext]_shVars
-----------------------------------------------------------------------------
ShellTypeOK ==
    /\ shSessions \in [SessionIds ->
           [cwd : Places \cup {Unset}, exports : SUBSET ExportNames]]
    /\ shCall.at \in {"idle", "reading", "waiting", "killing", "late"}
    /\ shProc.read \in 0..shProc.printed /\ shProc.printed \in 0..MaxLines /\ shProc.deaf \in BOOLEAN
    /\ shAbort \in {"none", "quiet", "sent"}

\* A call that ended by an abort leaves no shell behind, and one that ended by its timeout
\* only a shell whose handle was taken by then: one that had closed its outputs before, or
\* printed a line that is no UTF-8 and went on.
EndedCallsLeaveNoShell ==
    ~Active /\ shProc.shell /\ ~shProc.killed =>
        \/ shCall.outcome = "dropped"
        \/ shCall.outcome = "timeout" /\ (~Writers \/ shProc.deaf)

\* The result with the exit status has everything the command printed, its background
\* helpers included (the outputs are read to their end before the process is waited for),
\* unless a line was no UTF-8: then it has a part, and nothing in it says so.
ExitReportsAll ==
    ~Active /\ shCall.outcome = "exit" /\ ~shProc.deaf =>
        shCall.reported = shProc.printed /\ ~Writers

\* Whatever the command does, and whenever the abort comes, the call comes to an end.
RunsEnd == []<>~Active

=============================================================================
