---------------------------- MODULE MCAgentLoop ----------------------------
(* Instances of AgentLoop for TLC. *)
EXTENDS AgentLoop

(* The VS Code host stops turns and injects messages; the terminal UI      *)
(* drops them.                                                             *)
Host == [stops |-> TRUE, drops |-> FALSE, injects |-> {"user", "system"}]
Terminal == [stops |-> FALSE, drops |-> TRUE, injects |-> {}]
HostOnly == {Host}
TerminalOnly == {Terminal}
BothDrivers == {Host, Terminal}

(* A new session, and one resumed from a log written before turns had      *)
(* markers (SessionStore::load_from_dir still reads those).                *)
NewSession == {<<>>}
OldId(n) == <<"old", n>>
OldSession ==
    {<<UserMessage, ToolCall(OldId(1)), ToolCall(OldId(2)),
       ToolResult(OldId(1), 0), ToolResult(OldId(2), 0)>>,
     <<UserMessage, ToolCall(OldId(1)), ToolResult(OldId(1), 0), AssistantMessage>>}
AnySession == NewSession \cup OldSession
=============================================================================
