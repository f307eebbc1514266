------------------------------- MODULE MCTools -------------------------------
(* Tools with the values TLC checks it with. *)
EXTENDS Tools

\* A tool that asks, a second one with a denylist, one that never asks, one for each
\* permission of the configuration; a question to the user, which may wait for ever.
MCToolSet == {"bash", "edit", "view", "session", "workdir", "never", "question"}
MCEndless == {"question"}
MCPermissionOf ==
    [t \in ToolSet |-> CASE t \in {"bash", "edit"} -> "ask" [] t \in {"view", "question"} -> "always"
                         [] t = "session" -> "sessiononly" [] t = "workdir" -> "workingdironly"
                         [] t = "never" -> "never"]
MCDenylist == [t \in ToolSet |-> IF t = "edit" THEN {"secret"} ELSE {}]
MCAllowlist == [t \in ToolSet |-> IF t = "view" THEN {{"in", "out"}} ELSE {}]
MCGlobOf == [c \in Dangerous |-> IF c = "rm*" THEN Dangerous ELSE {c}]

\* Hooks that decide for one tool; a tool disabled, or not among the enabled ones.
MCHooks == {[t \in ToolSet |-> IF t = "bash" THEN flow ELSE "continue"] : flow \in {"continue", "allow", "deny"}}
\* A loop without a checker asks nobody.
MCPolicies ==
    {p \in [enabled : {ToolSet, {"bash", "edit"}}, disabled : {{}, {"edit"}}, hook : MCHooks,
            auto : BOOLEAN, asks : BOOLEAN, sessionDir : BOOLEAN, checker : BOOLEAN] :
         p.checker \/ ~(p.auto \/ p.asks \/ p.sessionDir)}

\* A file with the text to find never, once, twice, and overlapping itself.
MCTexts == {<<>>, <<"n">>, <<"a">>, <<"n", "a">>, <<"a", "a">>, <<"a", "a", "a">>}
MCParts == {<<>>, <<"a">>, <<"a", "a">>}
MCSaves == {<<"u">>}
=============================================================================
