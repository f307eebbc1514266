-------------------------------- MODULE Tools --------------------------------
(***************************************************************************)
(* The tools of a session: the way of a call to its tool (ToolCalls) and   *)
(* the tools that keep a state of their own, the shells (Shell), the files *)
(* (FileTools), the todo list and its tasks (Todos).  The agent loop runs  *)
(* one call at a time and none of the four touches the state of another,   *)
(* so that a behaviour follows one of them from all its initial states.    *)
(***************************************************************************)
EXTENDS ToolCalls, Shell, FileTools, Todos

VARIABLE part       \* which of the four the behaviour follows
toolsVars == <<part, tcVars, shVars, ftVars, tdVars>>

ToolsInit ==
    /\ part \in {"calls", "shell", "files", "todos"}
    /\ CallInit /\ ShInit /\ FileInit /\ TodoInit
    /\ part # "calls" => tcPolicy = CHOOSE p \in Policies : TRUE
    /\ part # "shell" => shAbort = "none"
    /\ part # "todos" => tdWired
    /\ part # "files" => ftDisk = Gone

Calling(step) == part = "calls" /\ step /\ UNCHANGED <<part, shVars, ftVars, tdVars>>
Shelling(step) == part = "shell" /\ step /\ UNCHANGED <<part, tcVars, ftVars, tdVars>>
Filing(step) == part = "files" /\ step /\ UNCHANGED <<part, tcVars, shVars, tdVars>>
Listing(step) == part = "todos" /\ step /\ UNCHANGED <<part, tcVars, shVars, ftVars>>

ToolsNext == Calling(CallNext) \/ Shelling(ShellNext) \/ Filing(FileNext) \/ Listing(TodoNext)

\* The tasks of the runtime are run: the agent loop goes on with a call that does not wait
\* for the user, and a tool whose own waits all have an end returns (ToolReturns of an
\* endless tool is under no fairness); the timer and the abort branch of a run are polled,
\* and a killed process dies.
ToolsFairness ==
    /\ WF_toolsVars(Calling(CallStep))
    /\ WF_toolsVars(Shelling(Aborted)) /\ WF_toolsVars(Shelling(TimedOut))
    /\ WF_toolsVars(Shelling(Killed)) /\ WF_toolsVars(Shelling(Dies))

ToolsSpec == ToolsInit /\ [][ToolsNext]_toolsVars /\ ToolsFairness

ToolsTypeOK == CallTypeOK /\ ShellTypeOK /\ FileTypeOK /\ TodoTypeOK
=============================================================================
