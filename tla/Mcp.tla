-------------------------------- MODULE Mcp --------------------------------
(***************************************************************************)
(* The MCP client: the registry of servers (mcp/registry.rs) and the       *)
(* transports it talks through (mcp/transport.rs).                         *)
(*                                                                         *)
(* A stdio transport writes one line per request and takes the next line   *)
(* the server prints for its answer: ids are sent and never compared.  An  *)
(* answer is read with a timeout; the request stays with the server when   *)
(* it strikes, or when the task of the call is dropped.  Every call holds  *)
(* the lock of all transports until it returns.                            *)
(*                                                                         *)
(* The locks let one request at a time wait for a process, so a line only  *)
(* has to say whether it belongs to the request that waits now.  The       *)
(* servers are the environment: they answer in order, late, or never,      *)
(* print notices, and die.                                                 *)
(***************************************************************************)
EXTENDS Naturals, Sequences, SequencesExt, FiniteSets

CONSTANTS
    McpOrder,       \* the enabled [[mcp_servers]] entries, in the order of the configuration
    Lists,          \* Lists[s]: the names of the tools server s reports
    Disabled,       \* Disabled[s]: its disabled_tools
    Callers,        \* tool calls that may run at the same time
    Manager,        \* the one who discovers, refreshes and clears
    Nobody,         \* no lock holder, no server, no answer
    PipeSize,       \* requests a stdin pipe holds before a write blocks
    MaxSaid         \* bound: lines printed and not read

Servers == {McpOrder[i] : i \in DOMAIN McpOrder}
ToolNames == UNION {Lists[s] : s \in Servers}
Enabled(s) == Lists[s] \ Disabled[s]

ASSUME McpAssumption ==
    /\ McpOrder \in Seq(Servers)
    /\ {PipeSize, MaxSaid} \subseteq Nat \ {0}
    /\ Manager \notin Callers \cup Servers
    /\ Nobody \notin Callers \cup Servers

VARIABLES
    mcpHttp,        \* the servers configured with an HTTP transport
    mcpCache,       \* servers with a cached tool list
    mcpConns,       \* the transport of each server, and the one being discovered
    mcpActors,      \* the callers and the manager: where each is in its request
    mcpLock,        \* who holds the lock of the transports
    mcpTodo,        \* the manager's operation: the servers left to discover, by their
                    \* places in McpOrder, and the tools found so far
    mcpOffered      \* the server behind each tool name of the last list handed out

mcpVars == <<mcpHttp, mcpCache, mcpConns, mcpActors, mcpLock, mcpTodo, mcpOffered>>

Actors == Callers \cup {Manager}
Slots == Servers \cup {Manager}

\* A request in the pipe, or its answer: of the one who waits now, of a tool call nobody
\* waits for any more, or something no tool call takes for its result: a notice, the end
\* of a line whose start was dropped, an answer to the initialized notification.
Line == {"own", "stale", "junk"}

\* A transport with a running process: the requests it has not read, the lines it has
\* printed, and, a history, whether its reader was ever in for a line of no request: a
\* request was given up that the server could still answer, or it printed unasked.
NewConn == [up |-> TRUE, alive |-> TRUE, asked |-> <<>>, said |-> <<>>, upset |-> FALSE]
NoConn == [NewConn EXCEPT !.up = FALSE, !.alive = FALSE]
NoTools == [t \in ToolNames |-> Nobody]
Idle == [at |-> "idle", server |-> Nobody, method |-> "tools/call", got |-> Nobody]
Resting == [op |-> "none", servers |-> {}, found |-> NoTools]

McpInit ==
    /\ mcpHttp \in SUBSET Servers
    /\ mcpCache = {} /\ mcpOffered = NoTools
    /\ mcpConns = [x \in Slots |-> NoConn]
    /\ mcpActors = [a \in Actors |-> Idle]
    /\ mcpLock = Nobody /\ mcpTodo = Resting

(***************************************************************************)
(* A request of an actor.                                                  *)
(***************************************************************************)
Slot(a) == IF a = Manager THEN Manager ELSE mcpActors[a].server
Conn(a) == mcpConns[Slot(a)]
At(a, at) == mcpActors[a].at = at
Http(a) == mcpActors[a].server \in mcpHttp
Hears(a, line) == mcpActors' = [mcpActors EXCEPT ![a].at = "heard", ![a].got = line]

\* ensure_started has run; the line goes into the pipe if the pipe takes it.
WriteRequest(a) ==
    /\ At(a, "write") /\ Conn(a).alive
    /\ ~Http(a) => Len(Conn(a).asked) < PipeSize
    /\ mcpActors' = [mcpActors EXCEPT ![a].at = "read"]
    /\ mcpConns' = IF Http(a) THEN mcpConns ELSE [mcpConns EXCEPT
           ![Slot(a)].asked = Append(@, "own")]
    /\ UNCHANGED <<mcpHttp, mcpCache, mcpLock, mcpTodo, mcpOffered>>

\* What a reader of its own leaves in the pipe when it is dropped after one line:
\* it may have buffered any part of what the server had printed.
LeftInPipe(said) ==
    LET rest == Tail(said)
        from(k) == SubSeq(rest, k, Len(rest))
    IN  {from(k) : k \in 1..Len(rest) + 1}
        \cup {<<"junk">> \o from(k + 1) : k \in 1..Len(rest)}

\* A request is over: what is still on its way belongs to nobody.
Over(a, said) ==
    LET left == IF mcpActors[a].method = "tools/call" THEN "stale" ELSE "junk"
        disown(lines) == [i \in DOMAIN lines |-> IF lines[i] = "own" THEN left ELSE lines[i]]
    IN  [mcpConns EXCEPT ![Slot(a)].asked = disown(@), ![Slot(a)].said = disown(said)]

GivenUp(a) ==
    [Over(a, Conn(a).said) EXCEPT ![Slot(a)].upset =
        @ \/ "own" \in Range(Conn(a).asked) \cup Range(Conn(a).said)]

\* reader.next_line(): the first line there is.
ReadLine(a) ==
    /\ At(a, "read") /\ ~Http(a) /\ Conn(a).said # <<>>
    /\ Hears(a, Head(Conn(a).said))
    /\ \E left \in LeftInPipe(Conn(a).said) : mcpConns' = Over(a, left)
    /\ UNCHANGED <<mcpHttp, mcpCache, mcpLock, mcpTodo, mcpOffered>>

\* The connection of an HTTP request carries its own response, headers first.
HttpResponse(a) ==
    /\ Http(a)
    /\ \/ At(a, "read") /\ mcpActors' = [mcpActors EXCEPT ![a].at = "body"]
       \/ At(a, "body") /\ Hears(a, "own")
    /\ UNCHANGED <<mcpHttp, mcpCache, mcpConns, mcpLock, mcpTodo, mcpOffered>>

\* A dead process is never started again: the transport keeps its handle.
RequestFails(a) ==
    /\ At(a, "write") \/ At(a, "read")
    /\ ~Http(a) /\ ~Conn(a).alive
    /\ At(a, "read") => Conn(a).said = <<>>
    /\ Hears(a, Nobody)
    /\ UNCHANGED <<mcpHttp, mcpCache, mcpConns, mcpLock, mcpTodo, mcpOffered>>

\* Only the wait for a line, or for HTTP headers, has a timeout; the server keeps the request.
Timeout(a) ==
    /\ At(a, "read") /\ Conn(a).said = <<>>
    /\ Hears(a, Nobody)
    /\ mcpConns' = GivenUp(a)
    /\ UNCHANGED <<mcpHttp, mcpCache, mcpLock, mcpTodo, mcpOffered>>

(***************************************************************************)
(* The servers behind stdio transports.                                    *)
(***************************************************************************)
Answer(x) ==
    LET conn == mcpConns[x] IN
    /\ conn.alive /\ conn.asked # <<>> /\ Len(conn.said) < MaxSaid
    /\ \E said \in {conn.said, Append(conn.said, Head(conn.asked))} :
           mcpConns' = [mcpConns EXCEPT ![x] = [conn EXCEPT !.asked = Tail(@), !.said = said]]

PrintNotice(x) ==
    /\ mcpConns[x].alive /\ Len(mcpConns[x].said) < MaxSaid
    /\ mcpConns' = [mcpConns EXCEPT ![x].said = Append(@, "junk"), ![x].upset = TRUE]

Die(x) == mcpConns[x].alive /\ mcpConns' = [mcpConns EXCEPT ![x].alive = FALSE]

ServerStep ==
    /\ \E x \in Slots \ mcpHttp :
           /\ x = Manager => ~Http(Manager)
           /\ Answer(x) \/ PrintNotice(x) \/ Die(x)
    /\ UNCHANGED <<mcpHttp, mcpCache, mcpActors, mcpLock, mcpTodo, mcpOffered>>

(***************************************************************************)
(* Tool calls.                                                             *)
(***************************************************************************)
\* discover_tool_wrappers: a wrapper for every tool found that its server has enabled.
Wrappers(found) == {t \in ToolNames : found[t] # Nobody /\ t \notin Disabled[found[t]]}

Call(c, t) ==
    /\ At(c, "idle") /\ t \in Wrappers(mcpOffered)
    /\ mcpActors' = [mcpActors EXCEPT ![c] = [Idle EXCEPT !.at = "lock", !.server = mcpOffered[t]]]
    /\ UNCHANGED <<mcpHttp, mcpCache, mcpConns, mcpLock, mcpTodo, mcpOffered>>

\* A mutant: callers do not wait for each other.
AcquireUnlocked(c) ==
    /\ At(c, "lock") /\ Conn(c).up
    /\ mcpActors' = [mcpActors EXCEPT ![c].at = "write"] /\ mcpLock' = c
    /\ UNCHANGED <<mcpHttp, mcpCache, mcpConns, mcpTodo, mcpOffered>>

\* The lock, then the transport of the server, or the end of the call.
Acquire(c) ==
    /\ At(c, "lock") /\ mcpLock = Nobody
    /\ \/ /\ ~Conn(c).up
          /\ mcpActors' = [mcpActors EXCEPT ![c] = Idle] /\ UNCHANGED mcpLock
       \/ /\ Conn(c).up
          /\ mcpActors' = [mcpActors EXCEPT ![c].at = "write"] /\ mcpLock' = c
    /\ UNCHANGED <<mcpHttp, mcpCache, mcpConns, mcpTodo, mcpOffered>>

\* A mutant: the lock is kept after an error.
ReturnCallLocked(c) ==
    /\ At(c, "heard")
    /\ mcpActors' = [mcpActors EXCEPT ![c] = Idle]
    /\ mcpLock' = IF mcpActors[c].got = Nobody THEN mcpLock ELSE Nobody
    /\ UNCHANGED <<mcpHttp, mcpCache, mcpConns, mcpTodo, mcpOffered>>

\* A line that is no CallToolResult is an error; either way the lock is given back.
ReturnCall(c) ==
    /\ At(c, "heard")
    /\ mcpActors' = [mcpActors EXCEPT ![c] = Idle]
    /\ mcpLock' = Nobody
    /\ UNCHANGED <<mcpHttp, mcpCache, mcpConns, mcpTodo, mcpOffered>>

\* The task of the turn is aborted at an await of the call: its guards are dropped.
Abort(c) ==
    /\ mcpActors[c].at \in {"lock", "write", "read", "body"}
    /\ mcpActors' = [mcpActors EXCEPT ![c] = Idle]
    /\ mcpLock' = IF At(c, "lock") THEN mcpLock ELSE Nobody
    /\ mcpConns' = IF At(c, "read") THEN GivenUp(c) ELSE mcpConns
    /\ UNCHANGED <<mcpHttp, mcpCache, mcpTodo, mcpOffered>>

(***************************************************************************)
(* Discovery, refresh and clear: one operation at a time.                  *)
(***************************************************************************)
Become(op, servers, found) == mcpTodo' = [op |-> op, servers |-> servers, found |-> found]

\* Cached lists are merged by tool name, the later server over the earlier.
CachedTools ==
    [t \in ToolNames |->
        LET at == {i \in DOMAIN McpOrder : McpOrder[i] \in mcpCache /\ t \in Enabled(McpOrder[i])}
        IN  IF at = {} THEN Nobody ELSE McpOrder[Max(at)]]

GetTools ==
    /\ mcpTodo.op = "none"
    /\ Become("get", {i \in DOMAIN McpOrder : McpOrder[i] \notin mcpCache}, CachedTools)
    /\ UNCHANGED <<mcpHttp, mcpCache, mcpConns, mcpActors, mcpLock, mcpOffered>>

\* refresh_server drops the cached list and the transport; its discovery is not cached.
RefreshServer(i) ==
    /\ mcpTodo.op = "none" /\ mcpLock = Nobody
    /\ mcpCache' = mcpCache \ {McpOrder[i]}
    /\ mcpConns' = [mcpConns EXCEPT ![McpOrder[i]] = NoConn]
    /\ Become("refresh", {i}, NoTools)
    /\ UNCHANGED <<mcpHttp, mcpActors, mcpLock, mcpOffered>>

Clear ==
    /\ mcpTodo.op = "none" /\ mcpLock = Nobody
    /\ mcpCache' = {}
    /\ mcpConns' = [x \in Slots |-> NoConn]
    /\ UNCHANGED <<mcpHttp, mcpActors, mcpLock, mcpTodo, mcpOffered>>

\* create_transport and the start of initialize; the process may not start at all.
Discover ==
    /\ mcpTodo.servers # {} /\ At(Manager, "idle")
    /\ mcpConns' = [mcpConns EXCEPT ![Manager] = NewConn]
    /\ mcpActors' = [mcpActors EXCEPT ![Manager] =
           [Idle EXCEPT !.at = "write", !.server = McpOrder[Min(mcpTodo.servers)], !.method = "initialize"]]
    /\ UNCHANGED <<mcpHttp, mcpCache, mcpLock, mcpTodo, mcpOffered>>

Heard(method) == At(Manager, "heard") /\ mcpActors[Manager].method = method
Sends(method) ==
    /\ mcpActors' = [mcpActors EXCEPT ![Manager].at = "write", ![Manager].method = method,
                                      ![Manager].got = Nobody]
    /\ UNCHANGED <<mcpHttp, mcpCache, mcpConns, mcpLock, mcpTodo, mcpOffered>>

\* The notification goes out as a request and waits for an answer like one.
Initialized == Heard("initialize") /\ mcpActors[Manager].got = "own" /\ Sends("notifications/initialized")
ListTools == Heard("notifications/initialized") /\ Sends("tools/list")

\* The discovery of one server is over, and with it the transport it used.
Discovered(conns) ==
    /\ mcpConns' = [conns EXCEPT ![Manager] = NoConn]
    /\ mcpActors' = [mcpActors EXCEPT ![Manager] = Idle]
    /\ UNCHANGED <<mcpHttp, mcpLock, mcpOffered>>

ServersLeft == mcpTodo.servers \ {Min(mcpTodo.servers)}

\* The transport is kept under the server's name; get_tools also caches the list.
Store ==
    LET s == mcpActors[Manager].server IN
    /\ Heard("tools/list") /\ mcpActors[Manager].got = "own" /\ mcpLock = Nobody
    /\ mcpCache' = IF mcpTodo.op = "get" THEN mcpCache \cup {s} ELSE mcpCache
    /\ Become(mcpTodo.op, ServersLeft,
              [t \in ToolNames |-> IF t \in Lists[s] THEN s ELSE mcpTodo.found[t]])
    /\ Discovered([mcpConns EXCEPT ![s] = mcpConns[Manager]])

\* An error answer, a line that does not parse, a timeout: the server is skipped.
DiscoveryFails ==
    /\ Heard("initialize") \/ Heard("tools/list")
    /\ Become(mcpTodo.op, ServersLeft, mcpTodo.found)
    /\ Discovered(mcpConns)
    /\ UNCHANGED mcpCache

Finish ==
    /\ mcpTodo.op # "none" /\ mcpTodo.servers = {} /\ At(Manager, "idle")
    /\ mcpOffered' = IF mcpTodo.op = "get" THEN mcpTodo.found ELSE mcpOffered
    /\ mcpTodo' = Resting
    /\ UNCHANGED <<mcpHttp, mcpCache, mcpConns, mcpActors, mcpLock>>

Talk(a) == WriteRequest(a) \/ ReadLine(a) \/ HttpResponse(a) \/ RequestFails(a) \/ Timeout(a)

ManagerStep ==
    \/ GetTools \/ Clear \/ Discover \/ Initialized \/ ListTools \/ Store \/ DiscoveryFails \/ Finish
    \/ \E i \in DOMAIN McpOrder : RefreshServer(i)

McpNext ==
    \/ \E a \in Actors : Talk(a)
    \/ \E c \in Callers : \/ Acquire(c) \/ ReturnCall(c) \/ Abort(c)
                        \/ \E t \in ToolNames : Call(c, t)
    \/ ServerStep \/ ManagerStep

-----------------------------------------------------------------------------
McpTypeOK ==
    /\ mcpCache \subseteq Servers
    /\ \A x \in Slots : mcpConns[x].asked \in Seq(Line) /\ mcpConns[x].said \in Seq(Line)
    /\ \A a \in Actors : mcpActors[a].got \in Line \cup {Nobody}
    /\ mcpLock \in Callers \cup {Nobody}
    /\ mcpOffered \in [ToolNames -> Servers \cup {Nobody}]

\* Answers are taken in the order of the requests, without a look at their ids: a
\* request hears its own answer, or none, as long as no request before it was given up
\* while its server could still answer it and the server prints nothing unasked.
AnswersAreOwn ==
    \A a \in Actors :
        At(a, "heard") /\ mcpActors[a].got # Nobody =>
            mcpActors[a].got = "own" \/ Conn(a).upset

\* A server that stopped reading with its pipe full, or one that sent the headers of a
\* response and not its body: the two waits without a timeout.
Clogged ==
    \E a \in Actors :
        At(a, "body") \/ (At(a, "write") /\ ~Http(a) /\ Len(Conn(a).asked) >= PipeSize)

\* Every tool call comes to an end, though all of them queue for one lock that is held
\* while a server is asked; only a wait without a timeout that never ends can keep it.
CallsReturn ==
    \A c \in Callers : []<>At(c, "idle") \/ <>[]Clogged
=============================================================================
