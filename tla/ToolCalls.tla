------------------------------ MODULE ToolCalls ------------------------------
(***************************************************************************)
(* One tool call after the other, from the model's reply to its result:    *)
(* the hooks around a call (tools/pipeline.rs), the permission check       *)
(* (tools/permission_checker.rs, tools/permissions.rs), the question to    *)
(* the user and the invocation (run_turn and run_turn_streaming of         *)
(* agent/agent_loop.rs).                                                   *)
(*                                                                         *)
(* A path argument is what the checks tell apart: whether its text begins  *)
(* with the working directory, and where it really leads.                  *)
(***************************************************************************)
EXTENDS Naturals, FiniteSets, SequencesExt

CONSTANTS
    ToolSet,            \* the tools of the session
    PermissionOf,       \* default_config().permission of each tool
    Denylist,           \* per tool, the paths its denylist patterns match
    Allowlist,          \* per tool, the sets of paths of its allowlist patterns
    ArgPaths,           \* paths a call may name
    NoPath,             \* a call without a path argument
    UnderWorkDir,       \* absolute paths whose text begins with the working directory
    WithinWorkDir,      \* paths that lead into the working directory
    WithinSession,      \* paths that lead into the session directory
    Dangerous,          \* command arguments with a dangerous pattern in them
    Harmless,           \* any other command argument, or none
    GlobOf,             \* per dangerous command, the commands its text matches as a pattern
    Policies,           \* the sessions looked at: see Policy
    Endless             \* tools with a wait of their own that may have no end: an answer of
                        \* the user, the body of a server's reply

ASSUME ToolAssumption ==
    /\ PermissionOf \in [ToolSet -> {"always", "never", "ask", "sessiononly", "workingdironly"}]
    /\ NoPath \notin ArgPaths /\ Harmless \notin Dangerous
    /\ \A c \in Dangerous : c \in GlobOf[c]
    /\ ToolSet # {} /\ Endless \subseteq ToolSet

VARIABLES
    tcPolicy,           \* configuration, hooks and user interface of the session
    tcApproved,         \* PermissionStore.approved_tools
    tcRules,            \* PermissionStore.rules
    tcCall,             \* the call in progress
    tcResult,           \* what the last call left in the log
    tcGranted           \* history: the tools the user allowed for the session

tcVars == <<tcPolicy, tcApproved, tcRules, tcCall, tcResult, tcGranted>>

\* enabled_tools and disabled_tools of the configuration, what the hooks say of each tool,
\* auto_approve, whether there is someone to ask, and whether the loop was given a permission
\* checker at all: those of the terminal and of the VS Code host are, with their sub-agents,
\* that of the programmatic run is not.
Policy == [enabled : SUBSET ToolSet, disabled : SUBSET ToolSet,
           hook : [ToolSet -> {"continue", "allow", "deny"}],
           auto : BOOLEAN, asks : BOOLEAN, sessionDir : BOOLEAN, checker : BOOLEAN]
ASSUME PoliciesAssumption == Policies \subseteq Policy

NoCall == [at |-> "idle", tool |-> CHOOSE t \in ToolSet : TRUE, path |-> NoPath,
           command |-> Harmless, confirmed |-> FALSE]
NoResult == "none"

CallInit ==
    /\ tcPolicy \in Policies
    /\ tcApproved = {} /\ tcRules = {} /\ tcGranted = {}
    /\ tcCall = NoCall /\ tcResult = NoResult

(***************************************************************************)
(* check_permission                                                        *)
(***************************************************************************)
PathDenied(call) ==
    LET permission == PermissionOf[call.tool] IN
    \/ permission = "sessiononly" /\ tcPolicy.sessionDir /\ call.path \notin WithinSession
    \/ permission = "workingdironly" /\ call.path \notin WithinWorkDir

PatternDenied(call) ==
    \/ call.path \in Denylist[call.tool]
    \/ Allowlist[call.tool] # {} /\ call.path \notin UNION Allowlist[call.tool]

Forbidden(call) ==
    \/ call.tool \notin tcPolicy.enabled \ tcPolicy.disabled
    \/ PermissionOf[call.tool] = "never"
    \/ call.path # NoPath /\ (PathDenied(call) \/ PatternDenied(call))

\* What a call needs a rule or a confirmation for; nothing when it names no path.
Required(call) ==
    IF call.path = NoPath THEN {}
    ELSE (IF call.path \in UnderWorkDir THEN {} ELSE {[scope |-> "outside", what |-> call.path]})
         \cup (IF call.command = Harmless THEN {} ELSE {[scope |-> "command", what |-> call.command]})

\* The rule a grant adds for it: everything under the working directory, or the command
\* read as a pattern.
RuleFor(call, need) ==
    [tool |-> call.tool, scope |-> need.scope,
     matches |-> IF need.scope = "outside" THEN UnderWorkDir ELSE GlobOf[need.what]]
\* A bug: the rules of one tool cover the calls of all.
CoversAnyTool(call, need) ==
    \E rule \in tcRules : rule.scope = need.scope /\ need.what \in rule.matches
Covers(call, need) ==
    \E rule \in tcRules :
        rule.tool = call.tool /\ rule.scope = need.scope /\ need.what \in rule.matches

\* check_tool_permission: a loop without a checker allows everything.
Verdict(call) ==
    CASE tcPolicy.checker /\ Forbidden(call) -> "deny"
      [] tcPolicy.checker /\ ~Forbidden(call) /\ PermissionOf[call.tool] = "ask" /\ call.tool \notin tcApproved
         /\ (\E need \in Required(call) : ~Covers(call, need)) -> "confirm"
      [] OTHER -> "allow"

(***************************************************************************)
(* A call.                                                                 *)
(***************************************************************************)
CallAt(at) == tcCall.at = at
Records(kind) ==
    /\ tcResult' = kind
    /\ tcCall' = NoCall

\* Arguments that are no JSON, or a tool nobody knows.
MalformedCall ==
    /\ CallAt("idle") /\ Records("error")
    /\ UNCHANGED <<tcPolicy, tcApproved, tcRules, tcGranted>>

BeginCall(t, path, command) ==
    /\ CallAt("idle")
    /\ tcCall' = [NoCall EXCEPT !.at = "hooks", !.tool = t, !.path = path, !.command = command]
    /\ tcResult' = NoResult
    /\ UNCHANGED <<tcPolicy, tcApproved, tcRules, tcGranted>>

\* The first hook that does not pass the call on decides it; what it answers goes through
\* the hooks after the call, and the permission check is not reached.
RunPre ==
    /\ CallAt("hooks")
    /\ CASE tcPolicy.hook[tcCall.tool] = "deny" -> Records("error")
         [] tcPolicy.hook[tcCall.tool] = "allow" -> Records("hook")
         [] OTHER -> tcCall' = [tcCall EXCEPT !.at = "check"] /\ UNCHANGED tcResult
    /\ UNCHANGED <<tcPolicy, tcApproved, tcRules, tcGranted>>

CheckPermission ==
    /\ CallAt("check")
    /\ CASE Verdict(tcCall) = "deny" -> Records("error")
         [] Verdict(tcCall) = "allow" -> tcCall' = [tcCall EXCEPT !.at = "running"] /\ UNCHANGED tcResult
         [] Verdict(tcCall) = "confirm" -> tcCall' = [tcCall EXCEPT !.at = "confirm"] /\ UNCHANGED tcResult
    /\ UNCHANGED <<tcPolicy, tcApproved, tcRules, tcGranted>>

\* "Session" and "always" approve the tool, and add a rule for everything the call needed.
Grant ==
    /\ tcApproved' = tcApproved \cup {tcCall.tool}
    /\ tcRules' = tcRules \cup {RuleFor(tcCall, need) : need \in Required(tcCall)}

Confirmed == tcCall' = [tcCall EXCEPT !.at = "running", !.confirmed = TRUE] /\ UNCHANGED tcResult

\* A bug: without a user interface nobody answers.
AnswersItselfOnlyYes ==
    /\ CallAt("confirm") /\ tcPolicy.auto /\ Confirmed
    /\ UNCHANGED <<tcPolicy, tcApproved, tcRules, tcGranted>>

\* handle_permission_confirm without a question: yes by auto_approve, else no.
AnswersItself ==
    /\ CallAt("confirm")
    /\ \/ tcPolicy.auto /\ Confirmed
       \/ ~tcPolicy.auto /\ ~tcPolicy.asks /\ Records("error")
    /\ UNCHANGED <<tcPolicy, tcApproved, tcRules, tcGranted>>

UserAnswers(response, type) ==
    /\ CallAt("confirm") /\ ~tcPolicy.auto /\ tcPolicy.asks
    /\ IF response = "yes" THEN Confirmed ELSE Records("error")
    /\ IF response = "yes" /\ type # "once"
       THEN Grant /\ tcGranted' = tcGranted \cup {tcCall.tool}
       ELSE UNCHANGED <<tcApproved, tcRules, tcGranted>>
    /\ UNCHANGED tcPolicy

\* The tool returns.  Its value goes through the hooks after the call, except in the
\* streaming loop when the call was confirmed, its error does not; they may rewrite it, and
\* what it says is not kept.
ToolReturns(tools) ==
    /\ CallAt("running") /\ tcCall.tool \in tools
    /\ \/ Records("value")
       \/ Records("error")
    /\ UNCHANGED <<tcPolicy, tcApproved, tcRules, tcGranted>>

\* The terminal UI drops the task of the turn at an await; nothing is logged.
DropTurn ==
    /\ tcCall.at \in {"hooks", "confirm", "running"}
    /\ tcCall' = NoCall /\ tcResult' = NoResult
    /\ UNCHANGED <<tcPolicy, tcApproved, tcRules, tcGranted>>

\* What goes on by itself.  The question may stay open for as long as the user likes, and so
\* may a call of an endless tool.
CallStep == RunPre \/ CheckPermission \/ AnswersItself \/ ToolReturns(ToolSet \ Endless)

CallNext ==
    \/ MalformedCall \/ CallStep \/ ToolReturns(Endless) \/ DropTurn
    \/ \E t \in ToolSet, path \in ArgPaths \cup {NoPath}, command \in Dangerous \cup {Harmless} :
           BeginCall(t, path, command)
    \/ \E response \in {"yes", "no"}, type \in {"once", "session", "always"} :
           UserAnswers(response, type)

CallSpec == CallInit /\ [][CallNext]_tcVars
-----------------------------------------------------------------------------
CallTypeOK ==
    /\ tcPolicy \in Policy
    /\ tcApproved \subseteq ToolSet /\ tcGranted \subseteq ToolSet
    /\ tcCall.at \in {"idle", "hooks", "check", "confirm", "running"}
    /\ tcResult \in {"none", "value", "hook", "error"}

\* What runs under a permission checker has the right to.  The configuration does not forbid
\* it, whatever the user confirmed or granted before, for this tool or another; and a call of
\* an asking tool that reaches out of the working directory, or names a path and a dangerous
\* command, has a yes to this very call or a grant of this very tool: no grant carries over
\* to another tool, and no yes to one call to the next.
RunsByRight ==
    tcPolicy.checker /\ CallAt("running") =>
        /\ ~Forbidden(tcCall)
        /\ PermissionOf[tcCall.tool] = "ask" /\ Required(tcCall) # {} =>
               tcCall.confirmed \/ tcCall.tool \in tcGranted

\* Every call comes to its result, unless a user who is asked never answers, or a tool that
\* waits without a timeout (for the answer to its question, for the body of a server's
\* reply) waits for ever.
CallsAnswered ==
    \/ []<>CallAt("idle")
    \/ <>[](CallAt("confirm") /\ tcPolicy.asks /\ ~tcPolicy.auto)
    \/ <>[](CallAt("running") /\ tcCall.tool \in Endless)

=============================================================================
