------------------------------ MODULE Services ------------------------------
(***************************************************************************)
(* What a session takes from outside: the tools of the MCP servers (Mcp),  *)
(* the replies of the model (LlmStream), the configuration (Config).  None *)
(* of the three touches the state of another, so that a behaviour follows  *)
(* one of them from all its initial states.                                *)
(***************************************************************************)
EXTENDS Mcp, LlmStream, Config

VARIABLE follows    \* which of the three the behaviour follows
servicesVars == <<follows, mcpVars, llmVars, cfgVars>>

ServicesInit ==
    /\ follows \in {"mcp", "llm", "config"}
    /\ McpInit /\ LlmInit /\ ConfigInit
    /\ follows # "mcp" => mcpHttp = {}
    /\ follows # "llm" => llmBackend = "chat"
    /\ follows # "config" => /\ cfgEnv = "unset" /\ cfgUser = Absent /\ cfgModels = Absent
                             /\ cfgProject = Absent

OfMcp(step) == follows = "mcp" /\ step /\ UNCHANGED <<follows, llmVars, cfgVars>>
OfLlm(step) == follows = "llm" /\ step /\ UNCHANGED <<follows, mcpVars, cfgVars>>
OfConfig(step) == follows = "config" /\ step /\ UNCHANGED <<follows, mcpVars, llmVars>>

ServicesNext == OfMcp(McpNext) \/ OfLlm(LlmNext) \/ OfConfig(ConfigNext)

\* The tasks of the runtime are run, and its timers fire.  The lock of the transports is
\* handed over in the order of the waiting calls, so that none is passed over for ever.
ServicesFairness ==
    /\ WF_servicesVars(OfLlm(Tick)) /\ WF_servicesVars(OfLlm(Expire))
    /\ WF_servicesVars(OfLlm(YieldsAgain("expired")))
    /\ \A a \in Actors : WF_servicesVars(OfMcp(Talk(a)))
    /\ \A c \in Callers : SF_servicesVars(OfMcp(Acquire(c))) /\ WF_servicesVars(OfMcp(ReturnCall(c)))

ServicesSpec == ServicesInit /\ [][ServicesNext]_servicesVars /\ ServicesFairness

ServicesTypeOK == McpTypeOK /\ LlmTypeOK /\ ConfigTypeOK
=============================================================================
