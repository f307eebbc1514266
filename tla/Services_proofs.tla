--------------------------- MODULE Services_proofs ---------------------------
(***************************************************************************)
(* Theorems about Services: the MCP client, the configuration and the      *)
(* streams of replies, each with an inductive invariant of its own, under  *)
(* the specification that composes them.                                   *)
(***************************************************************************)
EXTENDS Services, Lemmas, SequenceTheorems

(***************************************************************************)
(* The MCP client.  AnswersAreOwn holds because a quiet pipe, one that is  *)
(* not upset, has nothing in it but the request of the one actor that      *)
(* waits for it, or its answer; and one actor waits because the callers    *)
(* share a lock and the manager has a pipe of its own.                     *)
(***************************************************************************)
\* Where an actor is while its request is made.
Busy == {"write", "read", "body", "heard"}
Methods == {"tools/call", "initialize", "notifications/initialized", "tools/list"}

\* What the state of the client is made of.
McpConn == [up : BOOLEAN, alive : BOOLEAN, asked : Seq(Line), said : Seq(Line), upset : BOOLEAN]
McpActor == [at : Busy \cup {"idle", "lock"}, server : Servers \cup {Nobody},
             method : Methods, got : Line \cup {Nobody}]
Found == [ToolNames -> Servers \cup {Nobody}]
McpOperation == [op : {"none", "get", "refresh"}, servers : SUBSET DOMAIN McpOrder, found : Found]

McpTyping ==
    /\ mcpHttp \subseteq Servers /\ mcpCache \subseteq Servers
    /\ mcpConns \in [Slots -> McpConn]
    /\ mcpActors \in [Actors -> McpActor]
    /\ mcpLock \in Callers \cup {Nobody}
    /\ mcpTodo \in McpOperation
    /\ mcpOffered \in Found

\* The lock is held by the caller that is in a request; the manager's operations have
\* servers left while one of them is being discovered.
McpLocking ==
    /\ \A c \in Callers : (mcpActors[c].at \in Busy) <=> (mcpLock = c)
    /\ \A a \in Actors : mcpActors[a].at # "idle" => mcpActors[a].server \in Servers
    /\ mcpActors[Manager].at # "lock"
    /\ mcpActors[Manager].at # "idle" => mcpTodo.op # "none" /\ mcpTodo.servers # {}
    /\ mcpTodo.op = "none" => mcpTodo.servers = {}

\* Somebody waits for a line of the pipe x.
Reader(x) == \E a \in Actors : At(a, "read") /\ ~Http(a) /\ Slot(a) = x
Quiet(x) ==
    LET conn == mcpConns[x] IN
    /\ conn.said \in {<<>>, <<"own">>}
    /\ conn.said # <<>> => Reader(x)
    /\ conn.alive => \/ conn.asked = <<>>
                     \/ conn.asked = <<"own">> /\ conn.said = <<>> /\ Reader(x)
Pipes == \A x \in Slots : ~mcpConns[x].upset => Quiet(x)

McpInv == McpTyping /\ McpLocking /\ Pipes /\ AnswersAreOwn

-----------------------------------------------------------------------------
\* Whoever is in a request has a slot, and has it alone.
LEMMA SlotOfActor ==
    ASSUME McpTyping, McpLocking, NEW a \in Actors, mcpActors[a].at # "idle"
    PROVE  Slot(a) \in Slots
  BY DEF McpLocking, Slot, Slots

LEMMA OneAtASlot ==
    ASSUME McpTyping, McpLocking, NEW a \in Actors, NEW b \in Actors,
           mcpActors[a].at \in Busy, mcpActors[b].at \in Busy, Slot(a) = Slot(b)
    PROVE  a = b
  <1>1. \A c \in Actors : c # Manager /\ mcpActors[c].at \in Busy => Slot(c) # Manager
    BY McpAssumption DEF McpLocking, Slot, Busy
  <1> QED
    BY <1>1, McpAssumption DEF McpLocking, Slot, Actors

\* The lines of a pipe stay lines.
LEMMA DisownedLines ==
    ASSUME NEW lines \in Seq(Line), NEW left \in Line
    PROVE  [i \in DOMAIN lines |-> IF lines[i] = "own" THEN left ELSE lines[i]] \in Seq(Line)
  OBVIOUS

LEMMA LeftLines ==
    ASSUME NEW said \in Seq(Line), said # <<>>, NEW left \in LeftInPipe(said)
    PROVE  /\ left \in Seq(Line)
           /\ said = <<"own">> => left = <<>>
  <1> DEFINE rest == Tail(said)
  <1>1. rest \in Seq(Line) /\ Len(rest) \in Nat
    OBVIOUS
  <1>2. \A k \in 1 .. Len(rest) + 1 : SubSeq(rest, k, Len(rest)) \in Seq(Line)
    <2> HIDE DEF rest
    <2> QED
      BY <1>1
  <1>3. \A k \in 1 .. Len(rest) : <<"junk">> \o SubSeq(rest, k + 1, Len(rest)) \in Seq(Line)
    <2> HIDE DEF rest
    <2>1. \A k \in 1 .. Len(rest) : k + 1 \in 1 .. Len(rest) + 1
      BY <1>1
    <2>2. <<"junk">> \in Seq(Line)
      BY DEF Line
    <2> QED
      BY <1>2, <2>1, <2>2
  <1>4. left \in Seq(Line)
    BY <1>2, <1>3 DEF LeftInPipe
  <1>5. ASSUME said = <<"own">> PROVE left = <<>>
    <2>1. rest = <<>> /\ Len(rest) = 0
      BY <1>5
    <2>2. \A k \in 1 .. Len(rest) + 1 : SubSeq(rest, k, Len(rest)) = <<>>
      <3> HIDE DEF rest
      <3> QED
        BY <2>1
    <2>3. 1 .. Len(rest) = {}
      <3> HIDE DEF rest
      <3> QED
        BY <2>1
    <2> QED
      BY <2>2, <2>3 DEF LeftInPipe
  <1> QED
    BY <1>4, <1>5

-----------------------------------------------------------------------------
LEMMA McpStarts ==
    ASSUME McpInit
    PROVE  McpInv
  <1> USE DEF McpInit
  <1>1. NoConn \in McpConn /\ Idle \in McpActor /\ NoTools \in Found /\ Resting \in McpOperation
    <2>1. NewConn \in McpConn
      BY DEF NewConn, McpConn
    <2>2. NoConn \in McpConn
      <3> DEFINE C == NewConn
      <3>1. C \in McpConn
        BY <2>1
      <3> HIDE DEF C
      <3>2. [C EXCEPT !.up = FALSE, !.alive = FALSE] \in McpConn
        BY <3>1 DEF McpConn
      <3> QED
        BY <3>2 DEF C, NoConn
    <2>3. Idle \in McpActor
      BY DEF Idle, McpActor, Methods
    <2>4. NoTools \in Found
      BY DEF NoTools, Found
    <2>5. Resting \in McpOperation
      BY <2>4 DEF Resting, McpOperation
    <2> QED
      BY <2>2, <2>3, <2>4, <2>5
  <1>2. McpTyping
    BY <1>1 DEF McpTyping
  <1>3. McpLocking
    BY McpAssumption DEF McpLocking, Idle, Busy, Actors, Resting
  <1>4. Pipes
    BY DEF Pipes, Quiet, NoConn, NewConn
  <1>5. AnswersAreOwn
    BY DEF AnswersAreOwn, At, Idle
  <1> QED
    BY <1>2, <1>3, <1>4, <1>5 DEF McpInv

-----------------------------------------------------------------------------
\* A reader whose own state and slot stay is a reader still.
LEMMA ReaderStays ==
    ASSUME NEW x, Reader(x), mcpHttp' = mcpHttp,
           \A b \in Actors : At(b, "read") /\ ~Http(b) /\ Slot(b) = x => mcpActors'[b] = mcpActors[b]
    PROVE  Reader(x)'
  <1>1. PICK b \in Actors : At(b, "read") /\ ~Http(b) /\ Slot(b) = x
    BY DEF Reader
  <1>2. mcpActors'[b] = mcpActors[b]
    BY <1>1
  <1> QED
    BY <1>1, <1>2 DEF Reader, At, Http, Slot

\* A pipe is quiet as before if neither it nor its reader moved.
LEMMA PipeStays ==
    ASSUME McpInv, NEW x \in Slots, mcpConns'[x] = mcpConns[x], mcpHttp' = mcpHttp,
           ~mcpConns'[x].upset,
           \A b \in Actors : At(b, "read") /\ ~Http(b) /\ Slot(b) = x => mcpActors'[b] = mcpActors[b]
    PROVE  Quiet(x)'
  <1>1. Quiet(x)
    BY DEF McpInv, Pipes
  <1>2. Reader(x) => Reader(x)'
    BY ReaderStays
  <1> QED
    BY <1>1, <1>2 DEF Quiet

\* An answer heard before is its own, or its pipe is still upset.
LEMMA AnswerStays ==
    ASSUME McpInv, NEW b \in Actors, At(b, "heard"), mcpActors[b].got # Nobody,
           mcpActors'[b] = mcpActors[b],
           mcpConns[Slot(b)].upset => mcpConns'[Slot(b)].upset
    PROVE  (mcpActors[b].got = "own" \/ Conn(b).upset)'
  <1>1. mcpActors[b].got = "own" \/ Conn(b).upset
    BY DEF McpInv, AnswersAreOwn
  <1> QED
    BY <1>1 DEF Conn, Slot

\* An actor that goes on with its request holds what it held.
LEMMA LockingStays ==
    ASSUME McpTyping, McpLocking, NEW a \in Actors, mcpActors[a].at \in Busy, NEW actor \in McpActor,
           actor.at \in Busy, actor.server = mcpActors[a].server,
           mcpActors' = [mcpActors EXCEPT ![a] = actor],
           mcpLock' = mcpLock, mcpTodo' = mcpTodo
    PROVE  McpLocking'
  <1>1. mcpActors'[a] = actor /\ \A b \in Actors : b # a => mcpActors'[b] = mcpActors[b]
    BY DEF McpTyping
  <1>2. \A c \in Callers : (mcpActors'[c].at \in Busy) <=> (mcpActors[c].at \in Busy)
    BY <1>1 DEF Actors
  <1>3. \A b \in Actors : mcpActors'[b].at # "idle" => mcpActors'[b].server \in Servers
    BY <1>1 DEF McpLocking, Busy
  <1>4. mcpActors'[Manager].at # "lock"
    BY <1>1 DEF McpLocking, Busy, Actors
  <1>5. mcpActors'[Manager].at # "idle" => mcpTodo.op # "none" /\ mcpTodo.servers # {}
    BY <1>1 DEF McpLocking, Busy, Actors
  <1> QED
    BY <1>2, <1>3, <1>4, <1>5 DEF McpLocking

\* What is left of a request that is over: nothing of its own.
LEMMA OverIsTyped ==
    ASSUME McpInv, NEW a \in Actors, At(a, "read"), NEW said \in Seq(Line)
    PROVE  /\ Over(a, said) \in [Slots -> McpConn]
           /\ \A x \in Slots : x # Slot(a) => Over(a, said)[x] = mcpConns[x]
           /\ LET over == Over(a, said)[Slot(a)]
                  conn == mcpConns[Slot(a)]
              IN  /\ over.upset = conn.upset /\ over.alive = conn.alive /\ over.up = conn.up
                  /\ said = <<>> => over.said = <<>>
                  /\ conn.asked = <<>> => over.asked = <<>>
  <1> USE DEF McpInv
  <1> DEFINE left == IF mcpActors[a].method = "tools/call" THEN "stale" ELSE "junk"
             disown(lines) == [i \in DOMAIN lines |-> IF lines[i] = "own" THEN left ELSE lines[i]]
             conn == mcpConns[Slot(a)]
  <1>1. Slot(a) \in Slots
    BY SlotOfActor DEF At
  <1>2. conn \in McpConn /\ mcpConns \in [Slots -> McpConn]
    BY <1>1 DEF McpTyping
  <1>3. conn.asked \in Seq(Line)
    BY <1>2 DEF McpConn
  <1>4. left \in Line
    BY DEF Line
  <1>5. disown(conn.asked) \in Seq(Line) /\ disown(said) \in Seq(Line)
    <2> HIDE DEF left
    <2> QED
      BY <1>3, <1>4, DisownedLines
  <1>6. /\ said = <<>> => disown(said) = <<>>
        /\ conn.asked = <<>> => disown(conn.asked) = <<>>
    OBVIOUS
  <1>7. Over(a, said) = [mcpConns EXCEPT ![Slot(a)].asked = disown(conn.asked), ![Slot(a)].said = disown(said)]
    BY <1>1, <1>2 DEF Over
  <1> HIDE DEF disown, conn
  <1>8. Over(a, said) \in [Slots -> McpConn]
    <2> DEFINE asked == [mcpConns EXCEPT ![Slot(a)] = [mcpConns[Slot(a)] EXCEPT !.asked = disown(conn.asked)]]
    <2>1. \A c \in McpConn, lines \in Seq(Line) :
             [c EXCEPT !.asked = lines] \in McpConn /\ [c EXCEPT !.said = lines] \in McpConn
      BY DEF McpConn
    <2>2. mcpConns[Slot(a)] \in McpConn
      BY <1>1, <1>2
    <2>3. [mcpConns[Slot(a)] EXCEPT !.asked = disown(conn.asked)] \in McpConn
      BY <1>5, <2>1, <2>2, Zenon
    <2>4. asked \in [Slots -> McpConn] /\ asked[Slot(a)] \in McpConn
      BY <1>1, <1>2, <2>3
    <2>5. Over(a, said) = [asked EXCEPT ![Slot(a)] = [asked[Slot(a)] EXCEPT !.said = disown(said)]]
      BY <1>1, <1>2, <1>7
    <2> HIDE DEF asked
    <2>6. [asked[Slot(a)] EXCEPT !.said = disown(said)] \in McpConn
      BY <1>5, <2>1, <2>4, Zenon
    <2> QED
      BY <1>1, <2>4, <2>5, <2>6
  <1>9. \A x \in Slots : x # Slot(a) => Over(a, said)[x] = mcpConns[x]
    BY <1>2, <1>7
  <1>10. Over(a, said)[Slot(a)] = [conn EXCEPT !.asked = disown(conn.asked), !.said = disown(said)]
    BY <1>1, <1>2, <1>7 DEF conn
  <1> QED
    BY <1>2, <1>6, <1>8, <1>9, <1>10 DEF McpConn, conn

LEMMA RequestIsWritten ==
    ASSUME McpInv, NEW a \in Actors, WriteRequest(a)
    PROVE  McpInv'
  <1> USE DEF McpInv
  <1>0. /\ mcpActors[a].at = "write" /\ mcpActors[a] \in McpActor
        /\ Slot(a) \in Slots
        /\ mcpActors' = [mcpActors EXCEPT ![a].at = "read"]
        /\ mcpConns' = IF Http(a) THEN mcpConns ELSE [mcpConns EXCEPT
               ![Slot(a)].asked = Append(@, "own")]
        /\ UNCHANGED <<mcpHttp, mcpCache, mcpLock, mcpTodo, mcpOffered>>
    BY SlotOfActor DEF WriteRequest, At, McpTyping
  <1>1. McpTyping'
    <2>1. mcpActors' \in [Actors -> McpActor]
      BY <1>0 DEF McpTyping, McpActor, Busy
    <2>2. mcpConns' \in [Slots -> McpConn]
      <3>1. mcpConns[Slot(a)] \in McpConn
        BY <1>0 DEF McpTyping
      <3>2. Append(mcpConns[Slot(a)].asked, "own") \in Seq(Line)
        BY <3>1 DEF McpConn, Line
      <3> QED
        BY <1>0, <3>1, <3>2 DEF McpTyping, McpConn
    <2> QED
      BY <1>0, <2>1, <2>2 DEF McpTyping
  <1>2. McpLocking'
    BY <1>0 DEF McpLocking, Busy, McpTyping
  <1>3. Pipes'
    <2> SUFFICES ASSUME NEW x \in Slots, ~mcpConns'[x].upset PROVE Quiet(x)'
      BY DEF Pipes
    <2>1. mcpConns[x] \in McpConn /\ ~mcpConns[x].upset /\ Quiet(x)
      BY <1>0 DEF McpTyping, Pipes
    <2>2. Reader(x) => Reader(x)'
      BY <1>0, ReaderStays DEF At, McpTyping
    <2>3. CASE ~Http(a) /\ Slot(a) = x
      <3>1. ~Reader(x)
        BY <1>0, <2>3, OneAtASlot DEF Reader, At, Busy
      <3>2. mcpConns[x].said = <<>> /\ mcpConns[x].asked = <<>>
        BY <1>0, <2>1, <2>3, <3>1 DEF Quiet, WriteRequest, Conn
      <3>3. mcpConns'[x].said = <<>> /\ mcpConns'[x].asked = <<"own">>
        BY <1>0, <2>3, <3>2 DEF McpTyping
      <3>4. Reader(x)'
        BY <1>0, <2>3 DEF Reader, At, Http, Slot, McpTyping
      <3> QED
        BY <3>3, <3>4 DEF Quiet
    <2>4. CASE ~(~Http(a) /\ Slot(a) = x)
      <3>1. mcpConns'[x] = mcpConns[x]
        BY <1>0, <2>4 DEF McpTyping
      <3> QED
        BY <2>1, <2>2, <3>1 DEF Quiet
    <2> QED
      BY <2>3, <2>4
  <1>4. AnswersAreOwn'
    <2> SUFFICES ASSUME NEW b \in Actors, At(b, "heard")', (mcpActors[b].got # Nobody)'
                 PROVE  (mcpActors[b].got = "own" \/ Conn(b).upset)'
      BY DEF AnswersAreOwn
    <2>1. b # a /\ mcpActors'[b] = mcpActors[b]
      BY <1>0 DEF At, McpTyping
    <2>2. mcpActors[b].got = "own" \/ Conn(b).upset
      BY <2>1 DEF AnswersAreOwn, At
    <2>3. Slot(b) \in Slots /\ Slot(b)' = Slot(b)
      BY <2>1, SlotOfActor DEF At, Slot
    <2>4. mcpConns'[Slot(b)].upset = mcpConns[Slot(b)].upset
      BY <1>0, <2>3 DEF McpTyping
    <2> QED
      BY <2>1, <2>2, <2>3, <2>4 DEF Conn
  <1> QED
    BY <1>1, <1>2, <1>3, <1>4

\* A line is read: its own, unless the pipe is upset.
LEMMA LineIsRead ==
    ASSUME McpInv, NEW a \in Actors, ReadLine(a)
    PROVE  McpInv'
  <1> USE DEF McpInv
  <1> DEFINE conn == mcpConns[Slot(a)]
  <1>0. /\ At(a, "read") /\ ~Http(a) /\ conn.said # <<>> /\ Slot(a) \in Slots
        /\ mcpActors[a] \in McpActor /\ conn \in McpConn
        /\ mcpActors' = [mcpActors EXCEPT ![a].at = "heard", ![a].got = Head(conn.said)]
        /\ UNCHANGED <<mcpHttp, mcpCache, mcpLock, mcpTodo, mcpOffered>>
    BY SlotOfActor DEF ReadLine, At, McpTyping, Conn, Hears
  <1>a. conn.said \in Seq(Line)
    BY <1>0 DEF McpConn
  <1>b. PICK left \in LeftInPipe(conn.said) : mcpConns' = Over(a, left)
    BY DEF ReadLine, Conn
  <1>c. /\ left \in Seq(Line)
        /\ conn.said = <<"own">> => left = <<>>
    <2> HIDE DEF conn
    <2> QED
      BY <1>0, <1>a, <1>b, LeftLines
  <1>d. /\ mcpConns' \in [Slots -> McpConn]
        /\ \A x \in Slots : x # Slot(a) => mcpConns'[x] = mcpConns[x]
        /\ LET over == mcpConns'[Slot(a)]
           IN  /\ over.upset = conn.upset /\ over.alive = conn.alive
               /\ left = <<>> => over.said = <<>>
               /\ conn.asked = <<>> => over.asked = <<>>
    BY <1>0, <1>b, <1>c, OverIsTyped
  <1>e. ~conn.upset => conn.said = <<"own">> /\ (conn.alive => conn.asked = <<>>)
    BY <1>0 DEF Pipes, Quiet
  <1>1. McpTyping'
    <2>1. Head(conn.said) \in Line
      <3> HIDE DEF conn
      <3> QED
        BY <1>0, <1>a
    <2>2. mcpActors' \in [Actors -> McpActor]
      BY <1>0, <2>1 DEF McpTyping, McpActor, Busy
    <2> QED
      BY <1>0, <1>d, <2>2 DEF McpTyping
  <1>2. McpLocking'
    <2> DEFINE actor == [mcpActors[a] EXCEPT !.at = "heard", !.got = Head(conn.said)]
    <2>1. actor \in McpActor /\ actor.at \in Busy /\ actor.server = mcpActors[a].server
      <3>1. Head(conn.said) \in Line
        <4> HIDE DEF conn
        <4> QED
          BY <1>0, <1>a
      <3> QED
        BY <1>0, <3>1 DEF McpActor, Busy
    <2>2. mcpActors' = [mcpActors EXCEPT ![a] = actor] /\ mcpActors[a].at \in Busy
      BY <1>0 DEF At, Busy
    <2> HIDE DEF actor
    <2> QED
      BY <1>0, <2>1, <2>2, LockingStays
  <1>3. Pipes'
    <2> SUFFICES ASSUME NEW x \in Slots, ~mcpConns'[x].upset PROVE Quiet(x)'
      BY DEF Pipes
    <2>1. CASE x = Slot(a)
      <3>1. ~conn.upset
        BY <1>d, <2>1
      <3>2. mcpConns'[x].said = <<>> /\ (mcpConns'[x].alive => mcpConns'[x].asked = <<>>)
        BY <1>c, <1>d, <1>e, <2>1, <3>1
      <3> QED
        BY <3>2 DEF Quiet
    <2>2. CASE x # Slot(a)
      <3>1. mcpConns'[x] = mcpConns[x]
        BY <1>d, <2>2
      <3>2. \A b \in Actors : At(b, "read") /\ ~Http(b) /\ Slot(b) = x => mcpActors'[b] = mcpActors[b]
        BY <1>0, <2>2 DEF McpTyping
      <3> QED
        BY <1>0, <3>1, <3>2, PipeStays
    <2> QED
      BY <2>1, <2>2
  <1>4. AnswersAreOwn'
    <2> SUFFICES ASSUME NEW b \in Actors, At(b, "heard")', (mcpActors[b].got # Nobody)'
                 PROVE  (mcpActors[b].got = "own" \/ Conn(b).upset)'
      BY DEF AnswersAreOwn
    <2>1. CASE b = a
      <3>1. mcpActors'[b].got = Head(conn.said) /\ Slot(b)' = Slot(a)
        BY <1>0, <2>1 DEF McpTyping, Slot
      <3>2. conn.upset => mcpConns'[Slot(b)'].upset
        BY <1>d, <3>1
      <3>3. ~conn.upset => Head(conn.said) = "own"
        BY <1>e
      <3> QED
        BY <3>1, <3>2, <3>3 DEF Conn
    <2>2. CASE b # a
      <3>1. mcpActors'[b] = mcpActors[b]
        BY <1>0, <2>2 DEF McpTyping
      <3>2. At(b, "heard") /\ mcpActors[b].got # Nobody /\ Slot(b) \in Slots
        BY <3>1, SlotOfActor DEF At
      <3>3. mcpConns[Slot(b)].upset => mcpConns'[Slot(b)].upset
        BY <1>d, <3>2
      <3> QED
        BY <3>1, <3>2, <3>3, AnswerStays
    <2> QED
      BY <2>1, <2>2
  <1> QED
    BY <1>1, <1>2, <1>3, <1>4

\* An HTTP request hears its own response.
LEMMA HttpAnswers ==
    ASSUME McpInv, NEW a \in Actors, HttpResponse(a)
    PROVE  McpInv'
  <1> USE DEF McpInv
  <1>0. /\ Http(a) /\ mcpActors[a] \in McpActor
        /\ UNCHANGED <<mcpHttp, mcpCache, mcpConns, mcpLock, mcpTodo, mcpOffered>>
    BY DEF HttpResponse, McpTyping
  <1>a. \/ mcpActors[a].at = "read" /\ mcpActors' = [mcpActors EXCEPT ![a].at = "body"]
        \/ mcpActors[a].at = "body" /\ mcpActors' = [mcpActors EXCEPT ![a].at = "heard", ![a].got = "own"]
    BY DEF HttpResponse, Hears, At
  <1>1. McpTyping'
    <2>1. mcpActors' \in [Actors -> McpActor]
      BY <1>0, <1>a DEF McpTyping, McpActor, Busy, Line
    <2> QED
      BY <1>0, <2>1 DEF McpTyping
  <1>2. McpLocking'
    <2>1. PICK actor \in McpActor : /\ actor.at \in Busy /\ actor.server = mcpActors[a].server
                                    /\ mcpActors' = [mcpActors EXCEPT ![a] = actor]
      <3>1. [mcpActors[a] EXCEPT !.at = "body"] \in McpActor
        BY <1>0 DEF McpActor, Busy
      <3>2. [mcpActors[a] EXCEPT !.at = "heard", !.got = "own"] \in McpActor
        BY <1>0 DEF McpActor, Busy, Line
      <3> QED
        BY <1>0, <1>a, <3>1, <3>2 DEF McpActor, Busy
    <2>2. mcpActors[a].at \in Busy
      BY <1>a DEF Busy
    <2> QED
      BY <1>0, <2>1, <2>2, LockingStays
  <1>3. Pipes'
    <2> SUFFICES ASSUME NEW x \in Slots, ~mcpConns'[x].upset PROVE Quiet(x)'
      BY DEF Pipes
    <2>1. \A b \in Actors : At(b, "read") /\ ~Http(b) /\ Slot(b) = x => mcpActors'[b] = mcpActors[b]
      BY <1>0, <1>a DEF McpTyping
    <2> QED
      BY <1>0, <2>1, PipeStays
  <1>4. AnswersAreOwn'
    <2> SUFFICES ASSUME NEW b \in Actors, At(b, "heard")', (mcpActors[b].got # Nobody)'
                 PROVE  (mcpActors[b].got = "own" \/ Conn(b).upset)'
      BY DEF AnswersAreOwn
    <2>1. CASE b = a
      <3>1. mcpActors'[a].at = "heard"
        BY <2>1 DEF At
      <3>2. mcpActors' # [mcpActors EXCEPT ![a].at = "body"]
        BY <1>0, <3>1 DEF McpTyping, McpActor
      <3>3. mcpActors'[a].got = "own"
        BY <1>0, <1>a, <3>2 DEF McpTyping, McpActor
      <3> QED
        BY <2>1, <3>3
    <2>2. CASE b # a
      <3>1. mcpActors'[b] = mcpActors[b]
        BY <1>a, <2>2 DEF McpTyping
      <3> QED
        BY <1>0, <3>1, AnswerStays DEF At
    <2> QED
      BY <2>1, <2>2
  <1> QED
    BY <1>1, <1>2, <1>3, <1>4

\* A request to a process that is gone hears nothing.
LEMMA RequestOfTheDeadFails ==
    ASSUME McpInv, NEW a \in Actors, RequestFails(a)
    PROVE  McpInv'
  <1> USE DEF McpInv
  <1>0. /\ mcpActors[a].at \in {"write", "read"} /\ mcpActors[a] \in McpActor
        /\ Slot(a) \in Slots /\ ~mcpConns[Slot(a)].alive
        /\ mcpActors[a].at = "read" => mcpConns[Slot(a)].said = <<>>
        /\ mcpActors' = [mcpActors EXCEPT ![a].at = "heard", ![a].got = Nobody]
        /\ UNCHANGED <<mcpHttp, mcpCache, mcpConns, mcpLock, mcpTodo, mcpOffered>>
    BY SlotOfActor DEF RequestFails, McpTyping, Hears, At, Conn
  <1>1. McpTyping'
    <2>1. mcpActors' \in [Actors -> McpActor]
      BY <1>0 DEF McpTyping, McpActor, Busy
    <2> QED
      BY <1>0, <2>1 DEF McpTyping
  <1>2. McpLocking'
    <2> DEFINE actor == [mcpActors[a] EXCEPT !.at = "heard", !.got = Nobody]
    <2>1. actor \in McpActor /\ actor.at \in Busy /\ actor.server = mcpActors[a].server
      BY <1>0 DEF McpActor, Busy
    <2>2. mcpActors' = [mcpActors EXCEPT ![a] = actor] /\ mcpActors[a].at \in Busy
      BY <1>0 DEF Busy
    <2> HIDE DEF actor
    <2> QED
      BY <1>0, <2>1, <2>2, LockingStays
  <1>3. Pipes'
    <2> SUFFICES ASSUME NEW x \in Slots, ~mcpConns'[x].upset PROVE Quiet(x)'
      BY DEF Pipes
    <2>1. CASE x = Slot(a)
      <3>1. Quiet(x)
        BY <1>0 DEF Pipes
      <3>2. mcpActors[a].at = "write" => ~Reader(x)
        BY <1>0, <2>1, OneAtASlot DEF Reader, At, Busy
      <3>3. mcpConns[x].said = <<>>
        BY <1>0, <2>1, <3>1, <3>2 DEF Quiet
      <3> QED
        BY <1>0, <2>1, <3>3 DEF Quiet
    <2>2. CASE x # Slot(a)
      <3>1. \A b \in Actors : At(b, "read") /\ ~Http(b) /\ Slot(b) = x => mcpActors'[b] = mcpActors[b]
        BY <1>0, <2>2 DEF McpTyping
      <3> QED
        BY <1>0, <3>1, PipeStays
    <2> QED
      BY <2>1, <2>2
  <1>4. AnswersAreOwn'
    <2> SUFFICES ASSUME NEW b \in Actors, At(b, "heard")', (mcpActors[b].got # Nobody)'
                 PROVE  (mcpActors[b].got = "own" \/ Conn(b).upset)'
      BY DEF AnswersAreOwn
    <2>1. b # a
      BY <1>0 DEF McpTyping
    <2>2. mcpActors'[b] = mcpActors[b]
      BY <1>0, <2>1 DEF McpTyping
    <2> QED
      BY <1>0, <2>2, AnswerStays DEF At
  <1> QED
    BY <1>1, <1>2, <1>3, <1>4

\* A request that is given up upsets its pipe, unless nothing of it is left.
LEMMA GivenUpUpsets ==
    ASSUME McpInv, NEW a \in Actors, At(a, "read")
    PROVE  /\ GivenUp(a) \in [Slots -> McpConn]
           /\ \A x \in Slots : x # Slot(a) => GivenUp(a)[x] = mcpConns[x]
           /\ LET given == GivenUp(a)[Slot(a)]
              IN  /\ mcpConns[Slot(a)].upset => given.upset
                  /\ ~given.upset => given.said = <<>> /\ (given.alive => given.asked = <<>>)
  <1> DEFINE conn == mcpConns[Slot(a)]
             over == Over(a, conn.said)
             owns == "own" \in Range(conn.asked) \cup Range(conn.said)
             given == GivenUp(a)[Slot(a)]
  <1>1. Slot(a) \in Slots /\ conn \in McpConn
    BY SlotOfActor DEF At, McpInv, McpTyping
  <1>2. conn.said \in Seq(Line) /\ conn.asked \in Seq(Line)
    BY <1>1 DEF McpConn
  <1>3. /\ over \in [Slots -> McpConn]
        /\ \A x \in Slots : x # Slot(a) => over[x] = mcpConns[x]
        /\ over[Slot(a)].upset = conn.upset /\ over[Slot(a)].alive = conn.alive
        /\ conn.said = <<>> => over[Slot(a)].said = <<>>
        /\ conn.asked = <<>> => over[Slot(a)].asked = <<>>
    BY <1>2, OverIsTyped
  <1>4. GivenUp(a) = [over EXCEPT ![Slot(a)].upset = over[Slot(a)].upset \/ owns]
    BY <1>1, <1>3 DEF GivenUp, Conn
  <1>5. ~conn.upset => Quiet(Slot(a))
    BY <1>1 DEF McpInv, Pipes
  <1>6. ~conn.upset /\ ~owns => conn.said = <<>> /\ (conn.alive => conn.asked = <<>>)
    <2>1. conn.said = <<"own">> \/ conn.asked = <<"own">> => owns
      <3>1. conn.said = <<"own">> => conn.said[1] = "own" /\ 1 \in DOMAIN conn.said
        OBVIOUS
      <3>2. conn.asked = <<"own">> => conn.asked[1] = "own" /\ 1 \in DOMAIN conn.asked
        OBVIOUS
      <3> QED
        BY <3>1, <3>2 DEF Range
    <2> QED
      BY <1>5, <2>1 DEF Quiet
  <1> HIDE DEF conn, over, owns
  <1>7. over[Slot(a)] \in McpConn
    BY <1>1, <1>3
  <1>8. given = [over[Slot(a)] EXCEPT !.upset = over[Slot(a)].upset \/ owns]
    BY <1>1, <1>3, <1>4
  <1>9. GivenUp(a) \in [Slots -> McpConn]
    <2>1. (over[Slot(a)].upset \/ owns) \in BOOLEAN
      OBVIOUS
    <2>2. \A c \in McpConn, upset \in BOOLEAN : [c EXCEPT !.upset = upset] \in McpConn
      BY DEF McpConn
    <2>3. [over[Slot(a)] EXCEPT !.upset = over[Slot(a)].upset \/ owns] \in McpConn
      BY <1>7, <2>1, <2>2, Zenon
    <2> QED
      BY <1>1, <1>3, <1>4, <2>3
  <1>10. /\ given.said = over[Slot(a)].said /\ given.asked = over[Slot(a)].asked
         /\ given.alive = over[Slot(a)].alive
    BY <1>7, <1>8 DEF McpConn
  <1>11. given.upset = (over[Slot(a)].upset \/ owns)
    BY <1>7, <1>8 DEF McpConn
  <1>12. \A x \in Slots : x # Slot(a) => GivenUp(a)[x] = mcpConns[x]
    BY <1>3, <1>4
  <1> QED
    BY <1>3, <1>6, <1>9, <1>10, <1>11, <1>12 DEF conn

\* A timeout upsets the pipe unless the server has dropped the request.
LEMMA RequestTimesOut ==
    ASSUME McpInv, NEW a \in Actors, Timeout(a)
    PROVE  McpInv'
  <1> USE DEF McpInv
  <1>0. /\ At(a, "read") /\ mcpActors[a] \in McpActor /\ Slot(a) \in Slots
        /\ mcpActors' = [mcpActors EXCEPT ![a].at = "heard", ![a].got = Nobody]
        /\ mcpConns' = GivenUp(a)
        /\ UNCHANGED <<mcpHttp, mcpCache, mcpLock, mcpTodo, mcpOffered>>
    BY SlotOfActor DEF Timeout, McpTyping, Hears, At
  <1>a. /\ mcpConns' \in [Slots -> McpConn]
        /\ \A x \in Slots : x # Slot(a) => mcpConns'[x] = mcpConns[x]
        /\ mcpConns[Slot(a)].upset => mcpConns'[Slot(a)].upset
        /\ LET given == mcpConns'[Slot(a)]
           IN  ~given.upset => given.said = <<>> /\ (given.alive => given.asked = <<>>)
    BY <1>0, GivenUpUpsets
  <1>1. McpTyping'
    <2>1. mcpActors' \in [Actors -> McpActor]
      BY <1>0 DEF McpTyping, McpActor, Busy
    <2> QED
      BY <1>0, <1>a, <2>1 DEF McpTyping
  <1>2. McpLocking'
    <2> DEFINE actor == [mcpActors[a] EXCEPT !.at = "heard", !.got = Nobody]
    <2>1. actor \in McpActor /\ actor.at \in Busy /\ actor.server = mcpActors[a].server
      BY <1>0 DEF McpActor, Busy
    <2>2. mcpActors' = [mcpActors EXCEPT ![a] = actor] /\ mcpActors[a].at \in Busy
      BY <1>0 DEF Busy, At
    <2> HIDE DEF actor
    <2> QED
      BY <1>0, <2>1, <2>2, LockingStays
  <1>3. Pipes'
    <2> SUFFICES ASSUME NEW x \in Slots, ~mcpConns'[x].upset PROVE Quiet(x)'
      BY DEF Pipes
    <2>1. CASE x = Slot(a)
      BY <1>a, <2>1 DEF Quiet
    <2>2. CASE x # Slot(a)
      <3>1. \A b \in Actors : At(b, "read") /\ ~Http(b) /\ Slot(b) = x => mcpActors'[b] = mcpActors[b]
        BY <1>0, <2>2 DEF McpTyping
      <3> QED
        BY <1>0, <1>a, <2>2, <3>1, PipeStays
    <2> QED
      BY <2>1, <2>2
  <1>4. AnswersAreOwn'
    <2> SUFFICES ASSUME NEW b \in Actors, At(b, "heard")', (mcpActors[b].got # Nobody)'
                 PROVE  (mcpActors[b].got = "own" \/ Conn(b).upset)'
      BY DEF AnswersAreOwn
    <2>1. b # a
      BY <1>0 DEF McpTyping
    <2>2. mcpActors'[b] = mcpActors[b]
      BY <1>0, <2>1 DEF McpTyping
    <2>3. At(b, "heard") /\ mcpActors[b].got # Nobody /\ Slot(b) \in Slots
      BY <2>2, SlotOfActor DEF At
    <2>4. mcpConns[Slot(b)].upset => mcpConns'[Slot(b)].upset
      BY <1>a, <2>3
    <2> QED
      BY <2>2, <2>3, <2>4, AnswerStays
  <1> QED
    BY <1>1, <1>2, <1>3, <1>4

\* A server answers or drops a request, prints a line of its own, or dies.
LEMMA ServerActs ==
    ASSUME McpInv, ServerStep
    PROVE  McpInv'
  <1> USE DEF McpInv
  <1>0. UNCHANGED <<mcpHttp, mcpCache, mcpActors, mcpLock, mcpTodo, mcpOffered>>
    BY DEF ServerStep
  <1>a. PICK y \in Slots : Answer(y) \/ PrintNotice(y) \/ Die(y)
    BY DEF ServerStep
  <1> DEFINE conn == mcpConns[y]
  <1>b. conn \in McpConn /\ mcpConns \in [Slots -> McpConn]
    BY DEF McpTyping
  <1>c. conn.asked \in Seq(Line) /\ conn.said \in Seq(Line)
    BY <1>b DEF McpConn
  <1>d. ASSUME Answer(y) PROVE
          \E said \in {conn.said, Append(conn.said, Head(conn.asked))} :
              /\ mcpConns' = [mcpConns EXCEPT ![y] = [conn EXCEPT !.asked = Tail(conn.asked), !.said = said]]
              /\ said \in Seq(Line) /\ Tail(conn.asked) \in Seq(Line)
              /\ conn.asked # <<>> /\ conn.alive
    <2>1. conn.asked # <<>> /\ conn.alive
      BY <1>d DEF Answer
    <2>2. PICK said \in {conn.said, Append(conn.said, Head(conn.asked))} :
              mcpConns' = [mcpConns EXCEPT ![y] = [conn EXCEPT !.asked = Tail(conn.asked), !.said = said]]
      BY <1>b, <1>d DEF Answer, McpConn
    <2>3. Head(conn.asked) \in Line /\ Tail(conn.asked) \in Seq(Line)
      <3> HIDE DEF conn
      <3> QED
        BY <1>c, <2>1
    <2>4. Append(conn.said, Head(conn.asked)) \in Seq(Line)
      <3> DEFINE more == Head(conn.asked)
                 heard == conn.said
      <3>1. heard \in Seq(Line) /\ more \in Line
        BY <1>c, <2>3
      <3> HIDE DEF conn, more, heard
      <3>2. Append(heard, more) \in Seq(Line)
        BY <3>1
      <3> QED
        BY <3>2 DEF more, heard
    <2>5. said \in Seq(Line)
      <3> HIDE DEF conn
      <3> QED
        BY <1>c, <2>4
    <2> QED
      BY <2>1, <2>2, <2>3, <2>5
  <1>e. \E c \in McpConn :
          /\ mcpConns' = [mcpConns EXCEPT ![y] = c]
          /\ conn.upset => c.upset
          /\ ~c.upset /\ Quiet(y) => /\ c.said \in {<<>>, <<"own">>}
                                     /\ c.said # <<>> => Reader(y)
                                     /\ c.alive => \/ c.asked = <<>>
                                                   \/ c.asked = <<"own">> /\ c.said = <<>> /\ Reader(y)
    <2>1. CASE Answer(y)
      <3>1. PICK said \in {conn.said, Append(conn.said, Head(conn.asked))} :
              /\ mcpConns' = [mcpConns EXCEPT ![y] = [conn EXCEPT !.asked = Tail(conn.asked), !.said = said]]
              /\ said \in Seq(Line) /\ Tail(conn.asked) \in Seq(Line)
              /\ conn.asked # <<>> /\ conn.alive
        BY <1>d, <2>1
      <3> DEFINE c == [conn EXCEPT !.asked = Tail(conn.asked), !.said = said]
      <3>2. c \in McpConn /\ c.upset = conn.upset /\ c.asked = Tail(conn.asked) /\ c.said = said
        <4> HIDE DEF conn
        <4> QED
          BY <1>b, <3>1 DEF McpConn
      <3>3. Quiet(y) => conn.asked = <<"own">> /\ conn.said = <<>> /\ Reader(y)
        BY <3>1 DEF Quiet
      <3>4. conn.asked = <<"own">> /\ conn.said = <<>> => c.asked = <<>> /\ c.said \in {<<>>, <<"own">>}
        <4>1. ASSUME conn.asked = <<"own">>, conn.said = <<>>
              PROVE  Tail(conn.asked) = <<>> /\ Append(conn.said, Head(conn.asked)) = <<"own">>
          BY <4>1
        <4> HIDE DEF conn, c
        <4> QED
          BY <3>1, <3>2, <4>1
      <3>5. mcpConns' = [mcpConns EXCEPT ![y] = c]
        BY <3>1
      <3> HIDE DEF conn, c
      <3> QED
        BY <3>2, <3>3, <3>4, <3>5
    <2>2. CASE PrintNotice(y)
      <3> DEFINE c == [conn EXCEPT !.said = Append(conn.said, "junk"), !.upset = TRUE]
      <3>1. Append(conn.said, "junk") \in Seq(Line)
        <4> HIDE DEF conn
        <4> QED
          BY <1>c DEF Line
      <3>2. c \in McpConn /\ c.upset
        <4> HIDE DEF conn
        <4> QED
          BY <1>b, <3>1 DEF McpConn
      <3>3. mcpConns' = [mcpConns EXCEPT ![y] = c]
        BY <1>b, <2>2 DEF PrintNotice
      <3> HIDE DEF conn, c
      <3> QED
        BY <3>2, <3>3
    <2>3. CASE Die(y)
      <3> DEFINE c == [conn EXCEPT !.alive = FALSE]
      <3>1. c \in McpConn /\ c.upset = conn.upset /\ c.said = conn.said /\ ~c.alive
        <4> HIDE DEF conn
        <4> QED
          BY <1>b DEF McpConn
      <3>2. mcpConns' = [mcpConns EXCEPT ![y] = c]
        BY <1>b, <2>3 DEF Die
      <3>3. Quiet(y) => conn.said \in {<<>>, <<"own">>} /\ (conn.said # <<>> => Reader(y))
        BY DEF Quiet
      <3> HIDE DEF conn, c
      <3> QED
        BY <3>1, <3>2, <3>3
    <2> QED
      BY <1>a, <2>1, <2>2, <2>3
  <1>1. McpTyping'
    BY <1>0, <1>e DEF McpTyping
  <1>2. McpLocking'
    BY <1>0 DEF McpLocking
  <1>f. \A x : Reader(x) => Reader(x)'
    BY <1>0 DEF Reader, At, Http, Slot
  <1>3. Pipes'
    <2> SUFFICES ASSUME NEW x \in Slots, ~mcpConns'[x].upset PROVE Quiet(x)'
      BY DEF Pipes
    <2>1. CASE x = y
      <3>1. ~conn.upset
        BY <1>b, <1>e, <2>1
      <3>2. Quiet(y)
        BY <3>1 DEF Pipes
      <3> QED
        BY <1>b, <1>e, <1>f, <2>1, <3>2 DEF Quiet
    <2>2. CASE x # y
      <3>1. mcpConns'[x] = mcpConns[x]
        BY <1>b, <1>e, <2>2
      <3> QED
        BY <1>0, <3>1, PipeStays
    <2> QED
      BY <2>1, <2>2
  <1>4. AnswersAreOwn'
    <2> SUFFICES ASSUME NEW b \in Actors, At(b, "heard")', (mcpActors[b].got # Nobody)'
                 PROVE  (mcpActors[b].got = "own" \/ Conn(b).upset)'
      BY DEF AnswersAreOwn
    <2>1. At(b, "heard") /\ mcpActors[b].got # Nobody /\ Slot(b) \in Slots
      BY <1>0, SlotOfActor DEF At
    <2>2. mcpConns[Slot(b)].upset => mcpConns'[Slot(b)].upset
      BY <1>b, <1>e, <2>1
    <2> QED
      BY <1>0, <2>1, <2>2, AnswerStays
  <1> QED
    BY <1>1, <1>2, <1>3, <1>4

\* A tool call starts with the server its tool was offered for.
LEMMA CallStarts ==
    ASSUME McpInv, NEW c \in Callers, NEW t \in ToolNames, Call(c, t)
    PROVE  McpInv'
  <1> USE DEF McpInv
  <1> DEFINE actor == [Idle EXCEPT !.at = "lock", !.server = mcpOffered[t]]
  <1>0. /\ c \in Actors /\ c # Manager /\ mcpActors[c].at = "idle" /\ mcpActors[c] \in McpActor
        /\ mcpActors' = [mcpActors EXCEPT ![c] = actor]
        /\ actor \in McpActor /\ actor.at = "lock" /\ actor.server \in Servers
        /\ UNCHANGED <<mcpHttp, mcpCache, mcpConns, mcpLock, mcpTodo, mcpOffered>>
    <2>1. mcpOffered[t] \in Servers
      BY DEF Call, Wrappers, McpTyping, Found
    <2>2. Idle = [at |-> "idle", server |-> Nobody, method |-> "tools/call", got |-> Nobody]
      BY DEF Idle
    <2>3. actor \in McpActor /\ actor.at = "lock" /\ actor.server \in Servers
      BY <2>1, <2>2 DEF McpActor, Methods
    <2> QED
      BY <2>3, McpAssumption DEF Call, At, McpTyping, Actors
  <1> HIDE DEF actor
  <1>1. McpTyping'
    BY <1>0 DEF McpTyping
  <1>2. McpLocking'
    <2>1. mcpActors'[c] = actor /\ \A b \in Actors : b # c => mcpActors'[b] = mcpActors[b]
      BY <1>0 DEF McpTyping
    <2> QED
      BY <1>0, <2>1 DEF McpLocking, Busy, Actors
  <1>3. Pipes'
    <2> SUFFICES ASSUME NEW x \in Slots, ~mcpConns'[x].upset PROVE Quiet(x)'
      BY DEF Pipes
    <2>1. \A b \in Actors : At(b, "read") /\ ~Http(b) /\ Slot(b) = x => mcpActors'[b] = mcpActors[b]
      BY <1>0 DEF McpTyping, At
    <2> QED
      BY <1>0, <2>1, PipeStays
  <1>4. AnswersAreOwn'
    <2> SUFFICES ASSUME NEW b \in Actors, At(b, "heard")', (mcpActors[b].got # Nobody)'
                 PROVE  (mcpActors[b].got = "own" \/ Conn(b).upset)'
      BY DEF AnswersAreOwn
    <2>0. b # c
      BY <1>0 DEF McpTyping, At
    <2>1. mcpActors'[b] = mcpActors[b]
      BY <1>0, <2>0 DEF McpTyping
    <2> QED
      BY <1>0, <2>1, AnswerStays DEF At
  <1> QED
    BY <1>1, <1>2, <1>3, <1>4

\* A call gets the lock and the transport of its server, or is over.
LEMMA LockIsAcquired ==
    ASSUME McpInv, NEW c \in Callers, Acquire(c)
    PROVE  McpInv'
  <1> USE DEF McpInv
  <1>0. /\ c \in Actors /\ c # Manager /\ mcpActors[c].at = "lock" /\ mcpActors[c] \in McpActor
        /\ mcpLock = Nobody /\ c # Nobody
        /\ UNCHANGED <<mcpHttp, mcpCache, mcpConns, mcpTodo, mcpOffered>>
    BY McpAssumption DEF Acquire, At, McpTyping, Actors
  <1>a. PICK actor \in McpActor :
          /\ mcpActors' = [mcpActors EXCEPT ![c] = actor]
          /\ \/ actor.at = "idle" /\ mcpLock' = Nobody
             \/ actor.at = "write" /\ mcpLock' = c /\ actor.server = mcpActors[c].server
    <2>1. Idle \in McpActor /\ Idle.at = "idle"
      BY DEF Idle, McpActor, Methods
    <2>2. LET actor == [mcpActors[c] EXCEPT !.at = "write"]
          IN  actor \in McpActor /\ actor.at = "write" /\ actor.server = mcpActors[c].server
      BY <1>0 DEF McpActor, Busy
    <2> QED
      BY <1>0, <2>1, <2>2 DEF Acquire
  <1>b. mcpActors'[c] = actor /\ \A b \in Actors : b # c => mcpActors'[b] = mcpActors[b]
    BY <1>0, <1>a DEF McpTyping
  <1>1. McpTyping'
    BY <1>0, <1>a DEF McpTyping
  <1>2. McpLocking'
    <2>1. \A d \in Callers : d # Nobody
      BY McpAssumption
    <2>2. \A d \in Callers : mcpActors[d].at \notin Busy
      BY <1>0, <2>1 DEF McpLocking
    <2>3. \A d \in Callers : (mcpActors'[d].at \in Busy) <=> (mcpLock' = d)
      BY <1>a, <1>b, <2>1, <2>2 DEF Busy, Actors
    <2> QED
      BY <1>0, <1>a, <1>b, <2>3 DEF McpLocking, Actors
  <1>3. Pipes'
    <2> SUFFICES ASSUME NEW x \in Slots, ~mcpConns'[x].upset PROVE Quiet(x)'
      BY DEF Pipes
    <2>1. \A b \in Actors : At(b, "read") /\ ~Http(b) /\ Slot(b) = x => mcpActors'[b] = mcpActors[b]
      BY <1>0, <1>b DEF At
    <2> QED
      BY <1>0, <2>1, PipeStays
  <1>4. AnswersAreOwn'
    <2> SUFFICES ASSUME NEW b \in Actors, At(b, "heard")', (mcpActors[b].got # Nobody)'
                 PROVE  (mcpActors[b].got = "own" \/ Conn(b).upset)'
      BY DEF AnswersAreOwn
    <2>0. b # c
      BY <1>a, <1>b DEF At
    <2> QED
      BY <1>0, <1>b, <2>0, AnswerStays DEF At
  <1> QED
    BY <1>1, <1>2, <1>3, <1>4

\* A call that has heard returns and gives the lock back.
LEMMA CallReturns ==
    ASSUME McpInv, NEW c \in Callers, ReturnCall(c)
    PROVE  McpInv'
  <1> USE DEF McpInv
  <1>0. /\ c \in Actors /\ c # Manager /\ mcpActors[c].at = "heard"
        /\ mcpActors' = [mcpActors EXCEPT ![c] = Idle] /\ mcpLock' = Nobody
        /\ UNCHANGED <<mcpHttp, mcpCache, mcpConns, mcpTodo, mcpOffered>>
        /\ Idle \in McpActor /\ Idle.at = "idle"
    BY McpAssumption DEF ReturnCall, At, Actors, Idle, McpActor, Methods
  <1>b. mcpActors'[c] = Idle /\ \A b \in Actors : b # c => mcpActors'[b] = mcpActors[b]
    BY <1>0 DEF McpTyping
  <1>1. McpTyping'
    BY <1>0 DEF McpTyping
  <1>2. McpLocking'
    BY <1>0, <1>b, McpAssumption DEF McpLocking, Busy, Actors
  <1>3. Pipes'
    <2> SUFFICES ASSUME NEW x \in Slots, ~mcpConns'[x].upset PROVE Quiet(x)'
      BY DEF Pipes
    <2>1. \A b \in Actors : At(b, "read") /\ ~Http(b) /\ Slot(b) = x => mcpActors'[b] = mcpActors[b]
      BY <1>0, <1>b DEF At
    <2> QED
      BY <1>0, <2>1, PipeStays
  <1>4. AnswersAreOwn'
    <2> SUFFICES ASSUME NEW b \in Actors, At(b, "heard")', (mcpActors[b].got # Nobody)'
                 PROVE  (mcpActors[b].got = "own" \/ Conn(b).upset)'
      BY DEF AnswersAreOwn
    <2>0. b # c
      BY <1>0, <1>b DEF At
    <2> QED
      BY <1>0, <1>b, <2>0, AnswerStays DEF At
  <1> QED
    BY <1>1, <1>2, <1>3, <1>4

\* The task of a call is dropped: what it had asked upsets the pipe.
LEMMA CallIsAborted ==
    ASSUME McpInv, NEW c \in Callers, Abort(c)
    PROVE  McpInv'
  <1> USE DEF McpInv
  <1>0. /\ c \in Actors /\ c # Manager /\ mcpActors[c].at \in {"lock", "write", "read", "body"}
        /\ mcpActors' = [mcpActors EXCEPT ![c] = Idle]
        /\ mcpLock' = (IF At(c, "lock") THEN mcpLock ELSE Nobody)
        /\ mcpConns' = (IF At(c, "read") THEN GivenUp(c) ELSE mcpConns)
        /\ UNCHANGED <<mcpHttp, mcpCache, mcpTodo, mcpOffered>>
        /\ Idle \in McpActor /\ Idle.at = "idle" /\ Slot(c) \in Slots
    BY McpAssumption, SlotOfActor DEF Abort, Actors, Idle, McpActor, Methods
  <1>a. mcpActors'[c] = Idle /\ \A b \in Actors : b # c => mcpActors'[b] = mcpActors[b]
    BY <1>0 DEF McpTyping
  <1>b. /\ mcpConns' \in [Slots -> McpConn]
        /\ \A x \in Slots : x # Slot(c) => mcpConns'[x] = mcpConns[x]
        /\ mcpConns[Slot(c)].upset => mcpConns'[Slot(c)].upset
        /\ At(c, "read") => LET given == mcpConns'[Slot(c)]
                            IN  ~given.upset => given.said = <<>> /\ (given.alive => given.asked = <<>>)
    <2>1. CASE At(c, "read")
      <3>1. mcpConns' = GivenUp(c)
        BY <1>0, <2>1
      <3> QED
        BY <1>0, <2>1, <3>1, GivenUpUpsets
    <2>2. CASE ~At(c, "read")
      BY <1>0, <2>2 DEF McpTyping
    <2> QED
      BY <2>1, <2>2
  <1>1. McpTyping'
    BY <1>0, <1>b DEF McpTyping
  <1>2. McpLocking'
    <2>1. \A d \in Callers : d # Nobody
      BY McpAssumption
    <2>2. \A d \in Callers : (mcpActors'[d].at \in Busy) <=> (mcpLock' = d)
      <3>1. CASE At(c, "lock")
        BY <1>0, <1>a, <2>1, <3>1 DEF McpLocking, Busy, Actors, At
      <3>2. CASE ~At(c, "lock")
        <4>1. mcpLock = c /\ mcpLock' = Nobody
          BY <1>0, <3>2 DEF McpLocking, Busy, At
        <4> QED
          BY <1>0, <1>a, <2>1, <4>1 DEF McpLocking, Busy, Actors
      <3> QED
        BY <3>1, <3>2
    <2>3. \A b \in Actors : mcpActors'[b].at # "idle" => mcpActors'[b].server \in Servers
      BY <1>0, <1>a DEF McpLocking
    <2> QED
      BY <1>0, <1>a, <2>2, <2>3 DEF McpLocking, Actors
  <1>3. Pipes'
    <2> SUFFICES ASSUME NEW x \in Slots, ~mcpConns'[x].upset PROVE Quiet(x)'
      BY DEF Pipes
    <2>1. CASE x = Slot(c) /\ At(c, "read")
      BY <1>b, <2>1 DEF Quiet
    <2>2. CASE ~(x = Slot(c) /\ At(c, "read"))
      <3>1. mcpConns'[x] = mcpConns[x]
        BY <1>0, <1>b, <2>2
      <3>2. \A b \in Actors : At(b, "read") /\ ~Http(b) /\ Slot(b) = x => mcpActors'[b] = mcpActors[b]
        BY <1>a, <2>2
      <3> QED
        BY <1>0, <3>1, <3>2, PipeStays
    <2> QED
      BY <2>1, <2>2
  <1>4. AnswersAreOwn'
    <2> SUFFICES ASSUME NEW b \in Actors, At(b, "heard")', (mcpActors[b].got # Nobody)'
                 PROVE  (mcpActors[b].got = "own" \/ Conn(b).upset)'
      BY DEF AnswersAreOwn
    <2>1. mcpActors'[b] = mcpActors[b]
      BY <1>0, <1>a DEF At
    <2>2. At(b, "heard") /\ mcpActors[b].got # Nobody /\ Slot(b) \in Slots
      BY <2>1, SlotOfActor DEF At
    <2>3. mcpConns[Slot(b)].upset => mcpConns'[Slot(b)].upset
      BY <1>b, <2>2
    <2> QED
      BY <2>1, <2>2, <2>3, AnswerStays
  <1> QED
    BY <1>1, <1>2, <1>3, <1>4

\* The transports that are empty are quiet.
LEMMA EmptyIsQuiet ==
    /\ NoConn \in McpConn /\ NewConn \in McpConn
    /\ \A conn \in {NoConn, NewConn} : conn.said = <<>> /\ conn.asked = <<>>
    /\ ~NoConn.alive
  <1>1. NewConn \in McpConn /\ NewConn.said = <<>> /\ NewConn.asked = <<>>
    BY DEF NewConn, McpConn
  <1> DEFINE C == NewConn
  <1>2. C \in McpConn
    BY <1>1
  <1> HIDE DEF C
  <1>3. LET n == [C EXCEPT !.up = FALSE, !.alive = FALSE]
        IN  n \in McpConn /\ ~n.alive /\ n.said = C.said /\ n.asked = C.asked
    BY <1>2 DEF McpConn
  <1> QED
    BY <1>1, <1>3 DEF C, NoConn

\* Nobody is in a request when the manager rests and nobody has the lock.
LEMMA NobodyAsks ==
    ASSUME McpTyping, McpLocking, mcpLock = Nobody, NEW b \in Actors,
           b = Manager => mcpTodo.op = "none"
    PROVE  mcpActors[b].at \notin Busy
  BY McpAssumption DEF McpLocking, Actors, Busy

LEMMA OldListsAreFound == ASSUME McpTyping PROVE CachedTools \in Found
  <1> SUFFICES ASSUME NEW t \in ToolNames PROVE CachedTools[t] \in Servers \cup {Nobody}
    BY DEF CachedTools, Found
  <1> DEFINE at == {i \in DOMAIN McpOrder : McpOrder[i] \in mcpCache /\ t \in Enabled(McpOrder[i])}
  <1>1. CachedTools[t] = IF at = {} THEN Nobody ELSE McpOrder[Max(at)]
    BY DEF CachedTools
  <1>2. DOMAIN McpOrder = 1 .. Len(McpOrder) /\ Len(McpOrder) \in Nat
    BY McpAssumption
  <1>3. at # {} => Max(at) \in at
    <2>1. at \in SUBSET (1 .. Len(McpOrder))
      BY <1>2
    <2> HIDE DEF at
    <2> QED
      BY <1>2, <2>1, MaxOfSome
  <1>4. at # {} => Max(at) \in DOMAIN McpOrder
    BY <1>3
  <1> QED
    BY <1>1, <1>4 DEF Servers

\* A new operation begins with the cached lists.
LEMMA ToolsAreAsked ==
    ASSUME McpInv, GetTools
    PROVE  McpInv'
  <1> USE DEF McpInv
  <1>0. UNCHANGED <<mcpHttp, mcpCache, mcpConns, mcpActors, mcpLock, mcpOffered>>
    BY DEF GetTools
  <1>1. McpTyping'
    <2>1. mcpTodo' \in McpOperation
      BY OldListsAreFound DEF GetTools, Become, McpOperation
    <2> QED
      BY <1>0, <2>1 DEF McpTyping
  <1>2. McpLocking'
    <2>1. mcpActors[Manager].at = "idle"
      BY DEF McpLocking, GetTools
    <2>2. mcpTodo'.op = "get"
      BY DEF GetTools, Become
    <2> QED
      BY <1>0, <2>1, <2>2 DEF McpLocking
  <1>3. Pipes'
    <2> SUFFICES ASSUME NEW x \in Slots, ~mcpConns'[x].upset PROVE Quiet(x)'
      BY DEF Pipes
    <2>1. \A b \in Actors : At(b, "read") /\ ~Http(b) /\ Slot(b) = x => mcpActors'[b] = mcpActors[b]
      BY <1>0 DEF McpTyping, At
    <2> QED
      BY <1>0, <2>1, PipeStays
  <1>4. AnswersAreOwn'
    <2> SUFFICES ASSUME NEW b \in Actors, At(b, "heard")', (mcpActors[b].got # Nobody)'
                 PROVE  (mcpActors[b].got = "own" \/ Conn(b).upset)'
      BY DEF AnswersAreOwn
    <2> QED
      BY <1>0, AnswerStays DEF At
  <1> QED
    BY <1>1, <1>2, <1>3, <1>4

\* The transport of a server that is refreshed is dropped, and nobody uses it.
LEMMA ServerIsRefreshed ==
    ASSUME McpInv, NEW i \in DOMAIN McpOrder, RefreshServer(i)
    PROVE  McpInv'
  <1> USE DEF McpInv
  <1>0. /\ mcpTodo.op = "none" /\ mcpLock = Nobody /\ McpOrder[i] \in Servers
        /\ mcpConns' = [mcpConns EXCEPT ![McpOrder[i]] = NoConn]
        /\ mcpCache' \subseteq mcpCache
        /\ UNCHANGED <<mcpHttp, mcpActors, mcpLock, mcpOffered>>
    BY DEF RefreshServer, Servers
  <1>a. \A b \in Actors : mcpActors[b].at \notin Busy
    BY <1>0, NobodyAsks
  <1>1. McpTyping'
    <2>1. mcpTodo' \in McpOperation
      BY DEF RefreshServer, Become, McpOperation, NoTools, Found
    <2> QED
      BY <1>0, <2>1, EmptyIsQuiet DEF McpTyping
  <1>2. McpLocking'
    <2>1. mcpActors[Manager].at = "idle"
      BY <1>0 DEF McpLocking
    <2>2. mcpTodo'.op = "refresh"
      BY DEF RefreshServer, Become
    <2> QED
      BY <1>0, <2>1, <2>2 DEF McpLocking
  <1>3. Pipes'
    <2> SUFFICES ASSUME NEW x \in Slots, ~mcpConns'[x].upset PROVE Quiet(x)'
      BY DEF Pipes
    <2>1. CASE x = McpOrder[i]
      <3>1. mcpConns'[x] = NoConn
        BY <1>0, <2>1 DEF McpTyping
      <3> QED
        BY <3>1, EmptyIsQuiet DEF Quiet
    <2>2. CASE x # McpOrder[i]
      <3>1. mcpConns'[x] = mcpConns[x]
        BY <1>0, <2>2 DEF McpTyping
      <3> QED
        BY <1>0, <3>1, PipeStays
    <2> QED
      BY <2>1, <2>2
  <1>4. AnswersAreOwn'
    <2> SUFFICES ASSUME NEW b \in Actors, At(b, "heard")', (mcpActors[b].got # Nobody)'
                 PROVE  (mcpActors[b].got = "own" \/ Conn(b).upset)'
      BY DEF AnswersAreOwn
    <2> QED
      BY <1>0, <1>a DEF At, Busy
  <1> QED
    BY <1>1, <1>2, <1>3, <1>4

\* All transports are dropped, and nobody uses one.
LEMMA AllIsCleared ==
    ASSUME McpInv, Clear
    PROVE  McpInv'
  <1> USE DEF McpInv
  <1>0. /\ mcpTodo.op = "none" /\ mcpLock = Nobody
        /\ mcpConns' = [x \in Slots |-> NoConn] /\ mcpCache' = {}
        /\ UNCHANGED <<mcpHttp, mcpActors, mcpLock, mcpTodo, mcpOffered>>
    BY DEF Clear
  <1>a. \A b \in Actors : mcpActors[b].at \notin Busy
    BY <1>0, NobodyAsks
  <1>1. McpTyping'
    BY <1>0, EmptyIsQuiet DEF McpTyping
  <1>2. McpLocking'
    BY <1>0 DEF McpLocking
  <1>3. Pipes'
    <2> SUFFICES ASSUME NEW x \in Slots, ~mcpConns'[x].upset PROVE Quiet(x)'
      BY DEF Pipes
    <2>1. mcpConns'[x] = NoConn
      BY <1>0
    <2> QED
      BY <2>1, EmptyIsQuiet DEF Quiet
  <1>4. AnswersAreOwn'
    <2> SUFFICES ASSUME NEW b \in Actors, At(b, "heard")', (mcpActors[b].got # Nobody)'
                 PROVE  (mcpActors[b].got = "own" \/ Conn(b).upset)'
      BY DEF AnswersAreOwn
    <2> QED
      BY <1>0, <1>a DEF At, Busy
  <1> QED
    BY <1>1, <1>2, <1>3, <1>4

\* The discovery of a server starts with an empty pipe.
LEMMA DiscoveryStarts ==
    ASSUME McpInv, Discover
    PROVE  McpInv'
  <1> USE DEF McpInv
  <1> DEFINE actor == [Idle EXCEPT !.at = "write", !.server = McpOrder[Min(mcpTodo.servers)],
                                   !.method = "initialize"]
  <1>0. /\ mcpActors[Manager].at = "idle" /\ mcpTodo.servers # {}
        /\ mcpConns' = [mcpConns EXCEPT ![Manager] = NewConn]
        /\ mcpActors' = [mcpActors EXCEPT ![Manager] = actor]
        /\ UNCHANGED <<mcpHttp, mcpCache, mcpLock, mcpTodo, mcpOffered>>
        /\ Manager \in Actors /\ Manager \in Slots
    BY DEF Discover, At, Actors, Slots
  <1>a. McpOrder[Min(mcpTodo.servers)] \in Servers
    <2>1. mcpTodo.servers \in SUBSET DOMAIN McpOrder /\ DOMAIN McpOrder \subseteq Nat
      BY McpAssumption DEF McpTyping, McpOperation
    <2>2. Min(mcpTodo.servers) \in mcpTodo.servers
      BY <1>0, <2>1, MinOfPlaces
    <2> QED
      BY <2>1, <2>2 DEF Servers
  <1>b. actor \in McpActor /\ actor.at = "write" /\ actor.server \in Servers
    <2>1. Idle = [at |-> "idle", server |-> Nobody, method |-> "tools/call", got |-> Nobody]
      BY DEF Idle
    <2> HIDE DEF Idle
    <2> QED
      BY <1>a, <2>1 DEF McpActor, Busy, Methods
  <1> HIDE DEF actor
  <1>c. mcpActors'[Manager] = actor /\ \A b \in Actors : b # Manager => mcpActors'[b] = mcpActors[b]
    BY <1>0 DEF McpTyping
  <1>1. McpTyping'
    BY <1>0, <1>b, EmptyIsQuiet DEF McpTyping
  <1>2. McpLocking'
    <2>1. mcpTodo.op # "none"
      BY <1>0 DEF McpLocking
    <2> QED
      BY <1>0, <1>b, <1>c, <2>1, McpAssumption DEF McpLocking, Actors
  <1>3. Pipes'
    <2> SUFFICES ASSUME NEW x \in Slots, ~mcpConns'[x].upset PROVE Quiet(x)'
      BY DEF Pipes
    <2>1. CASE x = Manager
      <3>1. mcpConns'[x] = NewConn
        BY <1>0, <2>1 DEF McpTyping
      <3> QED
        BY <3>1, EmptyIsQuiet DEF Quiet
    <2>2. CASE x # Manager
      <3>1. mcpConns'[x] = mcpConns[x]
        BY <1>0, <2>2 DEF McpTyping
      <3>2. \A b \in Actors : At(b, "read") /\ ~Http(b) /\ Slot(b) = x => mcpActors'[b] = mcpActors[b]
        BY <1>0, <1>c DEF At
      <3> QED
        BY <1>0, <3>1, <3>2, PipeStays
    <2> QED
      BY <2>1, <2>2
  <1>4. AnswersAreOwn'
    <2> SUFFICES ASSUME NEW b \in Actors, At(b, "heard")', (mcpActors[b].got # Nobody)'
                 PROVE  (mcpActors[b].got = "own" \/ Conn(b).upset)'
      BY DEF AnswersAreOwn
    <2>1. b # Manager /\ mcpActors'[b] = mcpActors[b]
      BY <1>b, <1>c DEF At
    <2>2. At(b, "heard") /\ mcpActors[b].got # Nobody
      BY <2>1 DEF At
    <2>3. Slot(b) \in Slots /\ Slot(b) # Manager
      BY <2>1, <2>2, SlotOfActor, McpAssumption DEF Slot, At, McpLocking
    <2>4. mcpConns'[Slot(b)] = mcpConns[Slot(b)]
      BY <1>0, <2>3 DEF McpTyping
    <2> QED
      BY <2>1, <2>2, <2>4, AnswerStays
  <1> QED
    BY <1>1, <1>2, <1>3, <1>4

\* The next request of a discovery.
LEMMA DiscoveryGoesOn ==
    ASSUME McpInv, NEW method \in Methods, mcpActors[Manager].at = "heard", Sends(method)
    PROVE  McpInv'
  <1> USE DEF McpInv
  <1> DEFINE actor == [mcpActors[Manager] EXCEPT !.at = "write", !.method = method, !.got = Nobody]
  <1>0. /\ Manager \in Actors /\ mcpActors[Manager] \in McpActor
        /\ mcpActors' = [mcpActors EXCEPT ![Manager] = actor]
        /\ UNCHANGED <<mcpHttp, mcpCache, mcpConns, mcpLock, mcpTodo, mcpOffered>>
    BY DEF Sends, Actors, McpTyping
  <1>a. actor \in McpActor /\ actor.at = "write" /\ actor.server = mcpActors[Manager].server
    BY <1>0 DEF McpActor, Busy
  <1> HIDE DEF actor
  <1>b. mcpActors'[Manager] = actor /\ \A b \in Actors : b # Manager => mcpActors'[b] = mcpActors[b]
    BY <1>0 DEF McpTyping
  <1>1. McpTyping'
    BY <1>0, <1>a DEF McpTyping
  <1>2. McpLocking'
    BY <1>0, <1>a, LockingStays DEF Busy
  <1>3. Pipes'
    <2> SUFFICES ASSUME NEW x \in Slots, ~mcpConns'[x].upset PROVE Quiet(x)'
      BY DEF Pipes
    <2>1. \A b \in Actors : At(b, "read") /\ ~Http(b) /\ Slot(b) = x => mcpActors'[b] = mcpActors[b]
      BY <1>b DEF At
    <2> QED
      BY <1>0, <2>1, PipeStays
  <1>4. AnswersAreOwn'
    <2> SUFFICES ASSUME NEW b \in Actors, At(b, "heard")', (mcpActors[b].got # Nobody)'
                 PROVE  (mcpActors[b].got = "own" \/ Conn(b).upset)'
      BY DEF AnswersAreOwn
    <2>1. b # Manager
      BY <1>a, <1>b DEF At
    <2> QED
      BY <1>0, <1>b, <2>1, AnswerStays DEF At
  <1> QED
    BY <1>1, <1>2, <1>3, <1>4

\* A discovery ends well: its transport is kept under the name of the server.
LEMMA TransportIsStored ==
    ASSUME McpInv, Store
    PROVE  McpInv'
  <1> USE DEF McpInv
  <1> DEFINE s == mcpActors[Manager].server
  <1>0. /\ Manager \in Actors /\ Manager \in Slots /\ s \in Servers /\ s \in Slots /\ s # Manager
        /\ mcpActors[Manager].at = "heard" /\ mcpLock = Nobody
        /\ mcpConns' = [[mcpConns EXCEPT ![s] = mcpConns[Manager]] EXCEPT ![Manager] = NoConn]
        /\ mcpActors' = [mcpActors EXCEPT ![Manager] = Idle]
        /\ mcpCache' \subseteq mcpCache \cup {s}
        /\ mcpTodo' = [op |-> mcpTodo.op, servers |-> mcpTodo.servers \ {Min(mcpTodo.servers)},
                       found |-> [t \in ToolNames |-> IF t \in Lists[s] THEN s ELSE mcpTodo.found[t]]]
        /\ UNCHANGED <<mcpHttp, mcpLock, mcpOffered>>
    BY McpAssumption DEF Store, Discovered, Heard, At, Become, ServersLeft, Actors, Slots, McpLocking
  <1> HIDE DEF s
  <1>a. \A b \in Actors : b # Manager => mcpActors[b].at \notin Busy
    BY <1>0, NobodyAsks
  <1>b. Idle \in McpActor /\ Idle.at = "idle"
    BY DEF Idle, McpActor, Methods
  <1>c. mcpActors'[Manager] = Idle /\ \A b \in Actors : b # Manager => mcpActors'[b] = mcpActors[b]
    BY <1>0 DEF McpTyping
  <1>d. /\ mcpConns'[Manager] = NoConn /\ mcpConns'[s] = mcpConns[Manager]
        /\ \A x \in Slots : x \notin {s, Manager} => mcpConns'[x] = mcpConns[x]
        /\ mcpConns' \in [Slots -> McpConn]
    BY <1>0, EmptyIsQuiet DEF McpTyping
  <1>1. McpTyping'
    <2>1. mcpTodo' \in McpOperation
      BY <1>0 DEF McpTyping, McpOperation, Found
    <2> QED
      BY <1>0, <1>b, <1>d, <2>1 DEF McpTyping
  <1>2. McpLocking'
    <2>1. mcpTodo.op # "none" /\ mcpTodo'.op = mcpTodo.op
      BY <1>0 DEF McpLocking
    <2> QED
      BY <1>0, <1>b, <1>c, <2>1, McpAssumption DEF McpLocking, Actors
  <1>3. Pipes'
    <2> SUFFICES ASSUME NEW x \in Slots, ~mcpConns'[x].upset PROVE Quiet(x)'
      BY DEF Pipes
    <2>1. CASE x = Manager
      BY <1>d, <2>1, EmptyIsQuiet DEF Quiet
    <2>2. CASE x = s
      <3>1. ~mcpConns[Manager].upset => Quiet(Manager)
        BY <1>0 DEF Pipes
      <3>2. ~Reader(Manager)
        BY <1>0, <1>a DEF Reader, At, Busy
      <3> QED
        BY <1>d, <2>2, <3>1, <3>2 DEF Quiet
    <2>3. CASE x \notin {s, Manager}
      <3>1. mcpConns'[x] = mcpConns[x]
        BY <1>d, <2>3
      <3>2. \A b \in Actors : At(b, "read") /\ ~Http(b) /\ Slot(b) = x => mcpActors'[b] = mcpActors[b]
        BY <1>c, <1>0 DEF At
      <3> QED
        BY <1>0, <3>1, <3>2, PipeStays
    <2> QED
      BY <2>1, <2>2, <2>3
  <1>4. AnswersAreOwn'
    <2> SUFFICES ASSUME NEW b \in Actors, At(b, "heard")', (mcpActors[b].got # Nobody)'
                 PROVE  (mcpActors[b].got = "own" \/ Conn(b).upset)'
      BY DEF AnswersAreOwn
    <2> QED
      BY <1>a, <1>b, <1>c DEF At, Busy
  <1> QED
    BY <1>1, <1>2, <1>3, <1>4

\* A discovery fails: its transport is dropped, the others stay.
LEMMA DiscoveryIsSkipped ==
    ASSUME McpInv, DiscoveryFails
    PROVE  McpInv'
  <1> USE DEF McpInv
  <1>0. /\ Manager \in Actors /\ Manager \in Slots /\ mcpActors[Manager].at = "heard"
        /\ mcpConns' = [mcpConns EXCEPT ![Manager] = NoConn]
        /\ mcpActors' = [mcpActors EXCEPT ![Manager] = Idle]
        /\ mcpTodo' = [op |-> mcpTodo.op, servers |-> mcpTodo.servers \ {Min(mcpTodo.servers)},
                       found |-> mcpTodo.found]
        /\ UNCHANGED <<mcpHttp, mcpCache, mcpLock, mcpOffered>>
    BY DEF DiscoveryFails, Discovered, Heard, At, Become, ServersLeft, Actors, Slots
  <1>b. Idle \in McpActor /\ Idle.at = "idle"
    BY DEF Idle, McpActor, Methods
  <1>c. mcpActors'[Manager] = Idle /\ \A b \in Actors : b # Manager => mcpActors'[b] = mcpActors[b]
    BY <1>0 DEF McpTyping
  <1>1. McpTyping'
    <2>1. mcpTodo' \in McpOperation
      BY <1>0 DEF McpTyping, McpOperation
    <2> QED
      BY <1>0, <1>b, <2>1, EmptyIsQuiet DEF McpTyping
  <1>2. McpLocking'
    <2>1. mcpTodo.op # "none" /\ mcpTodo'.op = mcpTodo.op
      BY <1>0 DEF McpLocking
    <2> QED
      BY <1>0, <1>b, <1>c, <2>1, McpAssumption DEF McpLocking, Actors
  <1>3. Pipes'
    <2> SUFFICES ASSUME NEW x \in Slots, ~mcpConns'[x].upset PROVE Quiet(x)'
      BY DEF Pipes
    <2>1. CASE x = Manager
      <3>1. mcpConns'[x] = NoConn
        BY <1>0, <2>1 DEF McpTyping
      <3> QED
        BY <3>1, EmptyIsQuiet DEF Quiet
    <2>2. CASE x # Manager
      <3>1. mcpConns'[x] = mcpConns[x]
        BY <1>0, <2>2 DEF McpTyping
      <3>2. \A b \in Actors : At(b, "read") /\ ~Http(b) /\ Slot(b) = x => mcpActors'[b] = mcpActors[b]
        BY <1>0, <1>c DEF At
      <3> QED
        BY <1>0, <3>1, <3>2, PipeStays
    <2> QED
      BY <2>1, <2>2
  <1>4. AnswersAreOwn'
    <2> SUFFICES ASSUME NEW b \in Actors, At(b, "heard")', (mcpActors[b].got # Nobody)'
                 PROVE  (mcpActors[b].got = "own" \/ Conn(b).upset)'
      BY DEF AnswersAreOwn
    <2>1. b # Manager /\ mcpActors'[b] = mcpActors[b]
      BY <1>b, <1>c DEF At
    <2>2. At(b, "heard") /\ mcpActors[b].got # Nobody
      BY <2>1 DEF At
    <2>3. Slot(b) \in Slots /\ Slot(b) # Manager
      BY <2>1, <2>2, SlotOfActor, McpAssumption DEF Slot, At, McpLocking
    <2>4. mcpConns'[Slot(b)] = mcpConns[Slot(b)]
      BY <1>0, <2>3 DEF McpTyping
    <2> QED
      BY <2>1, <2>2, <2>4, AnswerStays
  <1> QED
    BY <1>1, <1>2, <1>3, <1>4

\* The list of tools is handed out.
LEMMA OperationEnds ==
    ASSUME McpInv, Finish
    PROVE  McpInv'
  <1> USE DEF McpInv
  <1>0. /\ UNCHANGED <<mcpHttp, mcpCache, mcpConns, mcpActors, mcpLock>>
        /\ mcpOffered' \in {mcpOffered, mcpTodo.found} /\ mcpTodo' = Resting
        /\ mcpActors[Manager].at = "idle"
    BY DEF Finish, At
  <1>1. McpTyping'
    BY <1>0 DEF McpTyping, McpOperation, Resting, NoTools, Found
  <1>2. McpLocking'
    BY <1>0 DEF McpLocking, Resting
  <1>3. Pipes'
    <2> SUFFICES ASSUME NEW x \in Slots, ~mcpConns'[x].upset PROVE Quiet(x)'
      BY DEF Pipes
    <2> QED
      BY <1>0, PipeStays
  <1>4. AnswersAreOwn'
    <2> SUFFICES ASSUME NEW b \in Actors, At(b, "heard")', (mcpActors[b].got # Nobody)'
                 PROVE  (mcpActors[b].got = "own" \/ Conn(b).upset)'
      BY DEF AnswersAreOwn
    <2> QED
      BY <1>0, AnswerStays DEF At
  <1> QED
    BY <1>1, <1>2, <1>3, <1>4

LEMMA McpStepKeeps ==
    ASSUME McpInv, [McpNext]_mcpVars
    PROVE  McpInv'
  <1>1. ASSUME NEW a \in Actors, Talk(a) PROVE McpInv'
    BY <1>1, RequestIsWritten, LineIsRead, HttpAnswers, RequestOfTheDeadFails, RequestTimesOut DEF Talk
  <1>2. ASSUME NEW c \in Callers, Acquire(c) \/ ReturnCall(c) \/ Abort(c) PROVE McpInv'
    BY <1>2, LockIsAcquired, CallReturns, CallIsAborted
  <1>3. ASSUME NEW c \in Callers, NEW t \in ToolNames, Call(c, t) PROVE McpInv'
    BY <1>3, CallStarts
  <1>4. CASE ServerStep
    BY <1>4, ServerActs
  <1>5. CASE ManagerStep
    <2>1. CASE Initialized \/ ListTools
      BY <2>1, DiscoveryGoesOn DEF Initialized, ListTools, Heard, At, Methods
    <2>2. ASSUME NEW i \in DOMAIN McpOrder, RefreshServer(i) PROVE McpInv'
      BY <2>2, ServerIsRefreshed
    <2> QED
      BY <1>5, <2>1, <2>2, ToolsAreAsked, AllIsCleared, DiscoveryStarts, TransportIsStored,
         DiscoveryIsSkipped, OperationEnds DEF ManagerStep
  <1>6. CASE UNCHANGED mcpVars
    <2>1. UNCHANGED <<mcpHttp, mcpCache, mcpConns, mcpActors, mcpLock, mcpTodo, mcpOffered>>
      BY <1>6 DEF mcpVars
    <2>2. \A x : Reader(x)' = Reader(x)
      BY <2>1 DEF Reader, At, Http, Slot
    <2> QED
      BY <2>1, <2>2 DEF McpInv, McpTyping, McpLocking, Pipes, Quiet, AnswersAreOwn, At, Conn, Slot
  <1> QED
    BY <1>1, <1>2, <1>3, <1>4, <1>5, <1>6 DEF McpNext

\* The state of the client has its type.
THEOREM McpIsTyped == ServicesSpec => []McpTypeOK
  <1>1. ServicesInit => McpInv
    BY McpStarts DEF ServicesInit
  <1>2. McpInv /\ [ServicesNext]_servicesVars => McpInv'
    BY McpStepKeeps DEF ServicesNext, OfMcp, OfLlm, OfConfig, servicesVars
  <1>3. McpInv => McpTypeOK
    BY DEF McpInv, McpTyping, McpTypeOK, McpConn, McpActor, Found
  <1> QED
    BY <1>1, <1>2, <1>3, PTL DEF ServicesSpec

\* A call hears its own answer, or none, unless its pipe was upset before: the ids of
\* requests, which StdioTransport::send_request never compares, are not needed as long as
\* no request is given up and no server speaks unasked.
THEOREM AnswersComeHome == ServicesSpec => []AnswersAreOwn
  <1>1. ServicesInit => McpInv
    BY McpStarts DEF ServicesInit
  <1>2. McpInv /\ [ServicesNext]_servicesVars => McpInv'
    BY McpStepKeeps DEF ServicesNext, OfMcp, OfLlm, OfConfig, servicesVars
  <1>3. McpInv => AnswersAreOwn
    BY DEF McpInv
  <1> QED
    BY <1>1, <1>2, <1>3, PTL DEF ServicesSpec

-----------------------------------------------------------------------------
(***************************************************************************)
(* The configuration.  SavedIsLoaded and KeptModelsLoad hold because the   *)
(* files say at each moment of a save which part of the list they have,    *)
(* as long as no other host writes: a complete save has both, one that has *)
(* not touched the configuration has left its models where they were.     *)
(***************************************************************************)
ConfigHost ==
    [up : BOOLEAN, loaded : BOOLEAN, mem : Configuration, shown : Models, initialized : BOOLEAN,
     pending : ModelNames \cup {NoModel},
     answer : {"none", "done", "no model selected", "unknown model", "not initialized",
               "no config loaded", "failed to save models"},
     todo : {<<>>, <<"config">>, <<"models", "config">>}, open : BOOLEAN,
     saved : BOOLEAN, before : Models, alone : BOOLEAN, chosen : BOOLEAN]

ConfigTyping ==
    /\ cfgUser \in ConfigFile /\ cfgModels \in ConfigFile /\ cfgProject \in ConfigFile
    /\ cfgHosts \in [Hosts -> ConfigHost]

\* What the files hold of a configuration that is saved, and of its models before it is.
ModelsWritten(config) == cfgModels = File([Default EXCEPT !.models = config.models])
Written(config) ==
    IF config.split THEN ModelsWritten(config) /\ cfgUser = File([config EXCEPT !.models = NoModels])
    ELSE cfgUser = File(config)

\* A save that is complete or under way, and what it has written.
SaveOf(host) ==
    /\ host.open => host.todo # <<>>
    /\ host.saved => host.todo = <<>>
    /\ host.saved /\ host.alone => Written(host.mem)
    /\ host.todo = <<"models", "config">> => host.mem.split
    /\ host.alone /\ host.mem.split /\ host.todo = <<"config">> => ModelsWritten(host.mem)

\* A save that has not touched the configuration yet: the models it keeps are in the
\* layers it does not write, or in the models file it has written or will write.
Untouched(host) == host.todo = <<"models", "config">> \/ (host.todo = <<"config">> /\ ~host.open)
ModelsUntouched(host) == ~host.open /\ (host.mem.split => host.todo = <<"models", "config">>)
KeepsModel(host, m) ==
    LET before == host.before[m]
        project == cfgProject.content.models[m]
    IN  /\ cfgUser.kind # "broken" /\ cfgProject.kind # "broken"
        /\ project \in {NoModel, before}
        /\ ~cfgUser.content.split /\ project = NoModel => cfgUser.content.models[m] = before
        /\ ModelsUntouched(host) => LoadResolved.models[m] = before
KeepsModels(host) ==
    host.alone /\ Untouched(host) =>
        \A m \in ModelNames : host.before[m] = host.mem.models[m] /\ host.before[m] # NoModel => KeepsModel(host, m)

ConfigInv ==
    /\ ConfigTyping
    /\ \A h \in Hosts : SaveOf(cfgHosts[h]) /\ KeepsModels(cfgHosts[h])

-----------------------------------------------------------------------------
LEMMA DefaultTyped ==
    /\ NoModels \in Models /\ Default \in Configuration /\ WithDefaults \in Configuration
    /\ NoHost \in ConfigHost
    /\ \A kind \in {"absent", "broken", "file"}, content \in Configuration :
           [kind |-> kind, content |-> content] \in ConfigFile
  <1>1. NoModels \in Models
    BY DEF NoModels, Models
  <1>2. Default \in Configuration
    BY <1>1 DEF Default, Configuration
  <1>3. WithDefaults \in Configuration
    BY <1>2, ConfigAssumption DEF WithDefaults, Configuration
  <1>4. NoHost \in ConfigHost
    BY <1>1, <1>2 DEF NoHost, ConfigHost
  <1>5. \A kind \in {"absent", "broken", "file"}, content \in Configuration :
           [kind |-> kind, content |-> content] \in ConfigFile
    BY DEF ConfigFile
  <1> QED
    BY <1>1, <1>2, <1>3, <1>4, <1>5

LEMMA OverriddenTyped ==
    ASSUME NEW base \in Models, NEW models \in Models
    PROVE  /\ Overridden(base, models) \in Models
           /\ \A m \in ModelNames :
                  Overridden(base, models)[m] = IF models[m] = NoModel THEN base[m] ELSE models[m]
  BY DEF Overridden, Models

LEMMA MergedTyped ==
    ASSUME NEW base \in Configuration, NEW config \in Configuration
    PROVE  /\ Merged(base, config) \in Configuration
           /\ WithEnv(base) \in Configuration /\ WithEnv(base).models = base.models
  <1>1. Overridden(base.models, config.models) \in Models
    BY OverriddenTyped DEF Configuration
  <1>2. Merged(base, config) \in Configuration
    BY <1>1 DEF Merged, Configuration
  <1>3. WithEnv(base) \in Configuration /\ WithEnv(base).models = base.models
    BY ConfigAssumption DEF WithEnv, Configuration
  <1> QED
    BY <1>2, <1>3

LEMMA UserConfigTyped ==
    ASSUME ConfigTyping
    PROVE  /\ UserConfig \in Configuration
           /\ UserConfig.settings = cfgUser.content.settings /\ UserConfig.split = cfgUser.content.split
           /\ UserConfig.models = IF cfgUser.content.split
                                  THEN Overridden(cfgUser.content.models, cfgModels.content.models)
                                  ELSE cfgUser.content.models
  <1>1. cfgUser.content \in Configuration /\ cfgModels.content \in Configuration
    BY DEF ConfigTyping, ConfigFile
  <1>2. Overridden(cfgUser.content.models, cfgModels.content.models) \in Models
    BY <1>1, OverriddenTyped DEF Configuration
  <1> QED
    BY <1>1, <1>2 DEF UserConfig, Configuration

LEMMA LoadResolvedTyped == ASSUME ConfigTyping PROVE LoadResolved \in Configuration
  <1>1. cfgProject.content \in Configuration
    BY DEF ConfigTyping, ConfigFile
  <1>2. Merged(UserConfig, cfgProject.content) \in Configuration
    BY <1>1, UserConfigTyped, MergedTyped
  <1>3. WithEnv(Merged(UserConfig, cfgProject.content)) \in Configuration
    BY <1>2, MergedTyped
  <1> QED
    BY <1>3, DefaultTyped DEF LoadResolved

\* A model that a start loads comes from the last layer that defines it.
LEMMA ModelLoaded ==
    ASSUME ConfigTyping, Loads, NEW m \in ModelNames
    PROVE  LoadResolved.models[m] =
             IF cfgProject.content.models[m] # NoModel THEN cfgProject.content.models[m]
             ELSE IF cfgUser.content.split /\ cfgModels.content.models[m] # NoModel
             THEN cfgModels.content.models[m]
             ELSE cfgUser.content.models[m]
  <1>1. /\ cfgProject.content \in Configuration /\ cfgUser.content \in Configuration
        /\ cfgModels.content \in Configuration
    BY DEF ConfigTyping, ConfigFile
  <1>2. UserConfig \in Configuration
    BY UserConfigTyped
  <1>3. Merged(UserConfig, cfgProject.content) \in Configuration
    BY <1>1, <1>2, MergedTyped
  <1>4. LoadResolved.models = Merged(UserConfig, cfgProject.content).models
    BY <1>3, MergedTyped DEF LoadResolved
  <1>5. LoadResolved.models = Overridden(UserConfig.models, cfgProject.content.models)
    BY <1>4 DEF Merged
  <1>6. UserConfig.models \in Models /\ cfgProject.content.models \in Models
         /\ cfgUser.content.models \in Models /\ cfgModels.content.models \in Models
    BY <1>1, <1>2 DEF Configuration
  <1>7. LoadResolved.models[m] = IF cfgProject.content.models[m] = NoModel THEN UserConfig.models[m]
                                 ELSE cfgProject.content.models[m]
    BY <1>5, <1>6, OverriddenTyped
  <1>8. UserConfig.models[m] = IF cfgUser.content.split /\ cfgModels.content.models[m] # NoModel
                               THEN cfgModels.content.models[m] ELSE cfgUser.content.models[m]
    BY <1>6, UserConfigTyped, OverriddenTyped
  <1> QED
    BY <1>7, <1>8

LEMMA SavedLoads ==
    ASSUME ConfigTyping, NEW config \in Configuration, Written(config), cfgProject.kind # "broken"
    PROVE  LoadResolved = WithEnv(Merged(config, cfgProject.content))
  <1>1. Loads
    BY DEF Written, ModelsWritten, Loads, UserLoads, File, Configuration
  <1>2. UserConfig = config
    <2>1. CASE config.split
      <3>1. cfgUser.content = [config EXCEPT !.models = NoModels] /\ cfgModels.content.models = config.models
        BY <2>1 DEF Written, ModelsWritten, File, Default
      <3>2. config.models \in Models /\ NoModels \in Models
        BY DefaultTyped DEF Configuration
      <3>3. Overridden(NoModels, config.models) = config.models
        BY <3>2 DEF Overridden, NoModels, Models
      <3>4. cfgUser.content.models = NoModels /\ cfgUser.content.split
        BY <2>1, <3>1 DEF Configuration
      <3>5. UserConfig.models = config.models
        BY <3>1, <3>3, <3>4, UserConfigTyped
      <3>6. UserConfig.settings = config.settings /\ UserConfig.split = config.split
        BY <3>1, UserConfigTyped DEF Configuration
      <3> QED
        BY <3>5, <3>6, UserConfigTyped DEF Configuration
    <2>2. CASE ~config.split
      <3>1. cfgUser.content = config
        BY <2>2 DEF Written, File
      <3> QED
        BY <2>2, <3>1, UserConfigTyped DEF Configuration
    <2> QED
      BY <2>1, <2>2
  <1> QED
    BY <1>1, <1>2 DEF LoadResolved

-----------------------------------------------------------------------------
\* A request that writes nothing leaves the saves of the other hosts as they are.
LEMMA NothingWritten ==
    ASSUME ConfigInv, NEW h \in Hosts, NEW host \in ConfigHost,
           cfgHosts' = [cfgHosts EXCEPT ![h] = host], UNCHANGED OnDisk,
           SaveOf(host), KeepsModels(host)
    PROVE  ConfigInv'
  <1>0. cfgUser' = cfgUser /\ cfgModels' = cfgModels /\ cfgProject' = cfgProject /\ cfgEnv' = cfgEnv
    BY DEF OnDisk
  <1>1. ConfigTyping'
    BY <1>0 DEF ConfigInv, ConfigTyping
  <1>2. LoadResolved' = LoadResolved
    BY <1>0 DEF LoadResolved, Loads, UserLoads, UserConfig, WithEnv, Merged
  <1>3. \A g \in Hosts : cfgHosts'[g] \in {host, cfgHosts[g]}
    BY DEF ConfigInv, ConfigTyping
  <1>4. \A g \in Hosts : SaveOf(cfgHosts'[g]) /\ KeepsModels(cfgHosts'[g])
    BY <1>3 DEF ConfigInv
  <1>5. \A g \in Hosts : SaveOf(cfgHosts[g])' /\ KeepsModels(cfgHosts[g])'
    BY <1>0, <1>2, <1>4 DEF SaveOf, Written, ModelsWritten, KeepsModels, KeepsModel, Untouched, ModelsUntouched
  <1> QED
    BY <1>1, <1>5 DEF ConfigInv

\* A write of a host is one the others did not do: what theirs had written may be gone.
LEMMA SomethingWritten ==
    ASSUME ConfigInv, NEW h \in Hosts, NEW host \in ConfigHost, Wrote(h, host),
           cfgUser' \in ConfigFile, cfgModels' \in ConfigFile, cfgProject' = cfgProject,
           SaveOf(host)', KeepsModels(host)'
    PROVE  ConfigInv'
  <1>1. /\ cfgHosts' \in [Hosts -> ConfigHost] /\ cfgHosts'[h] = host
        /\ \A g \in Hosts : g # h => cfgHosts'[g] = [cfgHosts[g] EXCEPT !.alone = FALSE]
    <2>1. \A g \in Hosts : [cfgHosts[g] EXCEPT !.alone = FALSE] \in ConfigHost
      <3>1. \A old \in ConfigHost : [old EXCEPT !.alone = FALSE] \in ConfigHost
        BY DEF ConfigHost
      <3> QED
        BY <3>1 DEF ConfigInv, ConfigTyping
    <2> QED
      BY <2>1 DEF Wrote
  <1>2. ConfigTyping'
    BY <1>1 DEF ConfigInv, ConfigTyping
  <1>3. SaveOf(cfgHosts[h])' /\ KeepsModels(cfgHosts[h])'
    BY <1>1 DEF SaveOf, Written, ModelsWritten, KeepsModels, KeepsModel, Untouched, ModelsUntouched
  <1>4. ASSUME NEW g \in Hosts, g # h PROVE SaveOf(cfgHosts[g])' /\ KeepsModels(cfgHosts[g])'
    <2>1. /\ ~cfgHosts'[g].alone /\ cfgHosts'[g].open = cfgHosts[g].open
          /\ cfgHosts'[g].todo = cfgHosts[g].todo /\ cfgHosts'[g].saved = cfgHosts[g].saved
          /\ cfgHosts'[g].mem = cfgHosts[g].mem
      <3>1. cfgHosts[g] \in ConfigHost
        BY DEF ConfigInv, ConfigTyping
      <3>2. \A old \in ConfigHost :
              LET other == [old EXCEPT !.alone = FALSE]
              IN  /\ ~other.alone /\ other.open = old.open /\ other.todo = old.todo
                  /\ other.saved = old.saved /\ other.mem = old.mem
        BY DEF ConfigHost
      <3>3. cfgHosts'[g] = [cfgHosts[g] EXCEPT !.alone = FALSE]
        BY <1>1, <1>4
      <3> QED
        BY <3>1, <3>2, <3>3, Zenon
    <2>2. SaveOf(cfgHosts[g])
      BY DEF ConfigInv
    <2> QED
      BY <2>1, <2>2 DEF SaveOf, KeepsModels
  <1> QED
    BY <1>2, <1>3, <1>4 DEF ConfigInv

-----------------------------------------------------------------------------
LEMMA ConfigStarts == ASSUME ConfigInit PROVE ConfigInv
  <1>1. ConfigTyping
    BY ConfigAssumption, DefaultTyped DEF ConfigInit, ConfigTyping
  <1>2. NoHost.todo = <<>> /\ ~NoHost.open /\ ~NoHost.saved
    BY DEF NoHost
  <1>3. SaveOf(NoHost) /\ KeepsModels(NoHost)
    BY <1>2 DEF SaveOf, KeepsModels, Untouched
  <1> QED
    BY <1>1, <1>3 DEF ConfigInv, ConfigInit

\* A host that is between saves has nothing to keep, but what the last one has written.
LEMMA BetweenSaves ==
    ASSUME NEW host, host.todo = <<>>, ~host.open, host.saved /\ host.alone => Written(host.mem)
    PROVE  SaveOf(host) /\ KeepsModels(host)
  BY DEF SaveOf, KeepsModels, Untouched

LEMMA ProcessComesOrGoes == ASSUME ConfigInv, NEW h \in Hosts, Start(h) \/ Exit(h) PROVE ConfigInv'
  <1>1. PICK host \in ConfigHost :
          /\ cfgHosts' = [cfgHosts EXCEPT ![h] = host] /\ UNCHANGED OnDisk
          /\ host.todo = <<>> /\ ~host.open /\ ~host.saved
    <2>1. cfgHosts[h].chosen \in BOOLEAN
      BY DEF ConfigInv, ConfigTyping, ConfigHost
    <2>2. \A up, chosen \in BOOLEAN :
            LET host == [NoHost EXCEPT !.up = up, !.chosen = chosen]
            IN  host \in ConfigHost /\ host.todo = <<>> /\ ~host.open /\ ~host.saved
      <3>1. NoHost \in ConfigHost /\ NoHost.todo = <<>> /\ ~NoHost.open /\ ~NoHost.saved
        BY DefaultTyped DEF NoHost
      <3> QED
        BY <3>1 DEF ConfigHost
    <2>3. \A chosen \in BOOLEAN :
            LET host == [NoHost EXCEPT !.chosen = chosen]
            IN  host \in ConfigHost /\ host.todo = <<>> /\ ~host.open /\ ~host.saved
      <3>1. NoHost \in ConfigHost /\ NoHost.todo = <<>> /\ ~NoHost.open /\ ~NoHost.saved
        BY DefaultTyped DEF NoHost
      <3> QED
        BY <3>1 DEF ConfigHost
    <2> QED
      BY <2>1, <2>2, <2>3 DEF Start, Exit, Becomes, OnDisk
  <1> QED
    BY <1>1, BetweenSaves, NothingWritten

\* A request that neither saves nor touches a save: the answer, and what goes with it.
LEMMA RequestAnswered ==
    ASSUME ConfigInv, NEW h \in Hosts, Takes(h), UNCHANGED OnDisk, NEW host \in ConfigHost,
           cfgHosts' = [cfgHosts EXCEPT ![h] = host], host.todo = <<>>, ~host.open,
           host.saved => cfgHosts[h].saved /\ host.mem = cfgHosts[h].mem /\ host.alone = cfgHosts[h].alone
    PROVE  ConfigInv'
  <1>1. SaveOf(cfgHosts[h])
    BY DEF ConfigInv
  <1>2. host.saved /\ host.alone => Written(host.mem)
    BY <1>1 DEF SaveOf
  <1> QED
    BY <1>2, BetweenSaves, NothingWritten

LEMMA IdleHost ==
    ASSUME ConfigInv, NEW h \in Hosts, Takes(h)
    PROVE  cfgHosts[h] \in ConfigHost /\ cfgHosts[h].todo = <<>> /\ ~cfgHosts[h].open
  BY DEF ConfigInv, ConfigTyping, Takes, SaveOf

LEMMA SessionIsCreated == ASSUME ConfigInv, NEW h \in Hosts, Create(h) PROVE ConfigInv'
  <1> DEFINE config == LoadResolved
             old == cfgHosts[h]
             host == [old EXCEPT !.loaded = TRUE, !.mem = config, !.saved = FALSE]
             new == IF host.pending = NoModel THEN [host EXCEPT !.answer = "no model selected"]
                    ELSE IF config.models[host.pending] = NoModel
                    THEN [host EXCEPT !.answer = "unknown model"]
                    ELSE [host EXCEPT !.answer = "done", !.initialized = TRUE, !.shown = config.models]
  <1>1. Takes(h) /\ UNCHANGED OnDisk /\ cfgHosts' = [cfgHosts EXCEPT ![h] = new]
    BY DEF Create, Becomes
  <1>2. config \in Configuration /\ config.models \in Models
    BY LoadResolvedTyped DEF ConfigInv, Configuration
  <1>3. old \in ConfigHost /\ old.todo = <<>> /\ ~old.open
    BY <1>1, IdleHost
  <1> HIDE DEF config, old
  <1>4. host \in ConfigHost /\ host.todo = <<>> /\ ~host.open /\ ~host.saved
    BY <1>2, <1>3 DEF ConfigHost
  <1> HIDE DEF host
  <1>5. new \in ConfigHost /\ new.todo = <<>> /\ ~new.open /\ ~new.saved
    BY <1>2, <1>4 DEF ConfigHost
  <1> HIDE DEF new
  <1> QED
    BY <1>1, <1>5, RequestAnswered

LEMMA ModelIsChosen ==
    ASSUME ConfigInv, NEW h \in Hosts, NEW m \in ModelNames, Reconfigure(h, m)
    PROVE  ConfigInv'
  <1> DEFINE old == cfgHosts[h]
             host == [old EXCEPT !.chosen = old.chosen \/ LoadResolved.models[m] # NoModel]
             new == IF ~host.initialized THEN [host EXCEPT !.answer = "not initialized"]
                    ELSE IF host.mem.models[m] = NoModel THEN [host EXCEPT !.answer = "unknown model"]
                    ELSE [host EXCEPT !.answer = "done", !.pending = m, !.shown = host.mem.models]
  <1>1. Takes(h) /\ UNCHANGED OnDisk /\ cfgHosts' = [cfgHosts EXCEPT ![h] = new]
    BY DEF Reconfigure, Becomes
  <1>2. old \in ConfigHost /\ old.todo = <<>> /\ ~old.open
    BY <1>1, IdleHost
  <1>3. (old.chosen \/ LoadResolved.models[m] # NoModel) \in BOOLEAN
    OBVIOUS
  <1> HIDE DEF old
  <1>4. /\ host \in ConfigHost /\ host.todo = <<>> /\ ~host.open
        /\ host.saved = old.saved /\ host.mem = old.mem /\ host.alone = old.alone
    BY <1>2, <1>3 DEF ConfigHost
  <1>5. host.mem.models \in Models
    BY <1>4 DEF ConfigHost, Configuration
  <1> HIDE DEF host
  <1>6. /\ new \in ConfigHost /\ new.todo = <<>> /\ ~new.open
        /\ new.saved = old.saved /\ new.mem = old.mem /\ new.alone = old.alone
    BY <1>4, <1>5 DEF ConfigHost
  <1> HIDE DEF new
  <1> QED
    BY <1>1, <1>6, RequestAnswered DEF old

LEMMA ModelsAreShown == ASSUME ConfigInv, NEW h \in Hosts, ConfigModels(h) PROVE ConfigInv'
  <1> DEFINE old == cfgHosts[h]
             new == IF old.loaded THEN [old EXCEPT !.answer = "done", !.shown = old.mem.models]
                    ELSE [NoHost EXCEPT !.chosen = old.chosen]
  <1>1. Takes(h) /\ UNCHANGED OnDisk /\ cfgHosts' = [cfgHosts EXCEPT ![h] = new]
    BY DEF ConfigModels, Becomes
  <1>2. old \in ConfigHost /\ old.todo = <<>> /\ ~old.open
    BY <1>1, IdleHost
  <1>3. old.mem.models \in Models
    BY <1>2 DEF ConfigHost, Configuration
  <1>4. NoHost \in ConfigHost /\ NoHost.todo = <<>> /\ ~NoHost.open /\ ~NoHost.saved
    BY DefaultTyped DEF NoHost
  <1> HIDE DEF old
  <1>5. /\ new \in ConfigHost /\ new.todo = <<>> /\ ~new.open
        /\ new.saved => old.saved /\ new.mem = old.mem /\ new.alone = old.alone
    BY <1>2, <1>3, <1>4 DEF ConfigHost
  <1> HIDE DEF new
  <1> QED
    BY <1>1, <1>5, RequestAnswered DEF old

\* The two orders of a save.
LEMMA SaveOrders ==
    /\ <<"models", "config">> # <<"config">> /\ <<"models", "config">> # <<>> /\ <<"config">> # <<>>
    /\ Head(<<"models", "config">>) = "models" /\ Tail(<<"models", "config">>) = <<"config">>
    /\ Head(<<"config">>) = "config" /\ Tail(<<"config">>) = <<>>
  <1>1. Len(<<"models", "config">>) = 2 /\ Len(<<"config">>) = 1 /\ Len(<<>>) = 0
    OBVIOUS
  <1>2. Tail(<<"config">>) = <<>>
    OBVIOUS
  <1>3. Tail(<<"models", "config">>) = <<"config">>
    OBVIOUS
  <1>4. Head(<<"models", "config">>) = "models" /\ Head(<<"config">>) = "config"
    OBVIOUS
  <1> QED
    BY <1>1, <1>2, <1>3, <1>4

LEMMA SaveBegins ==
    ASSUME ConfigInv, NEW h \in Hosts, NEW m \in ModelNames, NEW definition \in Definitions \cup {NoModel},
           ConfigUpdate(h, m, definition)
    PROVE  ConfigInv'
  <1> DEFINE old == cfgHosts[h]
             listed == [old.shown EXCEPT ![m] = definition]
             found == IF Loads THEN LoadResolved.models ELSE NoModels
             new == [old EXCEPT !.mem.models = listed, !.todo = SaveOrder(old.mem.split), !.saved = FALSE,
                                !.before = found, !.alone = TRUE]
  <1>1. Takes(h) /\ UNCHANGED OnDisk
    BY DEF ConfigUpdate
  <1>2. old \in ConfigHost /\ old.todo = <<>> /\ ~old.open
    BY <1>1, IdleHost
  <1>3. CASE ~old.loaded
    <2> DEFINE refused == [old EXCEPT !.answer = "no config loaded"]
    <2>1. cfgHosts' = [cfgHosts EXCEPT ![h] = refused]
      BY <1>3 DEF ConfigUpdate, Reply, Becomes
    <2> HIDE DEF old
    <2>2. /\ refused \in ConfigHost /\ refused.todo = <<>> /\ ~refused.open
          /\ refused.saved = old.saved /\ refused.mem = old.mem /\ refused.alone = old.alone
      BY <1>2 DEF ConfigHost
    <2> HIDE DEF refused
    <2> QED
      BY <1>1, <2>1, <2>2, RequestAnswered DEF old
  <1>4. CASE old.loaded
    <2>1. cfgHosts' = [cfgHosts EXCEPT ![h] = new]
      BY <1>4 DEF ConfigUpdate, Becomes
    <2>2. old.shown \in Models /\ old.mem \in Configuration /\ old.mem.split \in BOOLEAN
      BY <1>2 DEF ConfigHost, Configuration
    <2>3. listed \in Models
      BY <2>2 DEF Models
    <2>4. found \in Models
      BY LoadResolvedTyped, DefaultTyped DEF ConfigInv, Configuration
    <2>5. SaveOrder(old.mem.split) = IF old.mem.split THEN <<"models", "config">> ELSE <<"config">>
      BY DEF SaveOrder
    <2>6. SaveOrder(old.mem.split) \in {<<>>, <<"config">>, <<"models", "config">>}
      BY <2>5
    <2> HIDE DEF old, listed, found
    <2>7. /\ new \in ConfigHost /\ ~new.open /\ ~new.saved /\ new.todo = SaveOrder(old.mem.split)
          /\ new.before = found /\ new.mem.split = old.mem.split /\ new.alone
      <3>1. [old.mem EXCEPT !.models = listed] \in Configuration
        BY <2>2, <2>3 DEF Configuration
      <3>2. [old.mem EXCEPT !.models = listed].split = old.mem.split
        BY <2>2 DEF Configuration
      <3> DEFINE mem == [old.mem EXCEPT !.models = listed]
      <3>3. new = [old EXCEPT !.mem = mem, !.todo = SaveOrder(old.mem.split), !.saved = FALSE,
                              !.before = found, !.alone = TRUE]
        BY <1>2 DEF ConfigHost
      <3> HIDE DEF mem, new
      <3>4. mem \in Configuration /\ mem.split = old.mem.split
        BY <3>1, <3>2 DEF mem
      <3> QED
        BY <1>2, <2>4, <2>6, <3>3, <3>4 DEF ConfigHost
    <2> HIDE DEF new
    <2>8. SaveOf(new)
      BY <2>5, <2>7, SaveOrders DEF SaveOf
    <2>9. KeepsModels(new)
      <3> SUFFICES ASSUME NEW k \in ModelNames, new.before[k] # NoModel PROVE KeepsModel(new, k)
        BY DEF KeepsModels
      <3>1. Loads /\ new.before[k] = LoadResolved.models[k]
        BY <2>7 DEF found, NoModels
      <3>2. cfgUser.kind # "broken" /\ cfgProject.kind # "broken"
        BY <3>1 DEF Loads, UserLoads
      <3> QED
        BY <3>1, <3>2, ModelLoaded DEF KeepsModel, ConfigInv
    <2> QED
      BY <1>1, <2>1, <2>7, <2>8, <2>9, NothingWritten
  <1> QED
    BY <1>3, <1>4

\* A host in the middle of a save: what it has still to write.
LEMMA SavingHost ==
    ASSUME ConfigInv, NEW h \in Hosts, cfgHosts[h].todo # <<>>
    PROVE  LET host == cfgHosts[h] IN
           /\ host \in ConfigHost /\ host.mem \in Configuration /\ ~host.saved
           /\ \/ host.todo = <<"models", "config">> /\ Head(host.todo) = "models" /\ host.mem.split
                 /\ Tail(host.todo) = <<"config">>
              \/ host.todo = <<"config">> /\ Head(host.todo) = "config" /\ Tail(host.todo) = <<>>
  <1>1. cfgHosts[h] \in ConfigHost
    BY DEF ConfigInv, ConfigTyping
  <1>2. SaveOf(cfgHosts[h])
    BY DEF ConfigInv
  <1>3. cfgHosts[h].mem \in Configuration
    BY <1>1 DEF ConfigHost
  <1>4. cfgHosts[h].todo \in {<<"config">>, <<"models", "config">>}
    BY <1>1 DEF ConfigHost
  <1> QED
    BY <1>1, <1>2, <1>3, <1>4, SaveOrders DEF SaveOf

\* What KeepsModels says of a host stays true as long as the configuration is not touched.
LEMMA KeptWithModels ==
    ASSUME ConfigInv, NEW h \in Hosts, NEW host \in ConfigHost, KeepsModels(cfgHosts[h]),
           Untouched(cfgHosts[h]), cfgUser' = cfgUser, cfgProject' = cfgProject,
           host.alone => cfgHosts[h].alone, host.before = cfgHosts[h].before,
           host.mem = cfgHosts[h].mem, ~ModelsUntouched(host)
    PROVE  KeepsModels(host)'
  BY DEF KeepsModels, KeepsModel, ModelsUntouched

LEMMA FileIsOpened == ASSUME ConfigInv, NEW h \in Hosts, OpenFile(h) PROVE ConfigInv'
  <1> DEFINE old == cfgHosts[h]
             new == [old EXCEPT !.open = TRUE]
  <1>1. /\ old.todo # <<>> /\ ~old.open /\ Put(Head(old.todo), File(Default)) /\ Wrote(h, new)
        /\ cfgProject' = cfgProject
    BY DEF OpenFile
  <1>2. /\ old \in ConfigHost /\ old.mem \in Configuration /\ ~old.saved
        /\ \/ old.todo = <<"models", "config">> /\ Head(old.todo) = "models" /\ old.mem.split
           \/ old.todo = <<"config">> /\ Head(old.todo) = "config"
    BY <1>1, SavingHost
  <1>3. SaveOf(old) /\ KeepsModels(old)
    BY DEF ConfigInv
  <1>4. cfgUser' \in ConfigFile /\ cfgModels' \in ConfigFile
    BY <1>1, DefaultTyped DEF Put, File, ConfigInv, ConfigTyping
  <1>5. PICK host \in ConfigHost :
          /\ host = new /\ host.open /\ host.todo = old.todo /\ host.saved = old.saved
          /\ host.mem = old.mem /\ host.alone = old.alone /\ host.before = old.before
    <2> HIDE DEF old
    <2>1. new \in ConfigHost
      BY <1>2 DEF ConfigHost
    <2>2. /\ new.open /\ new.todo = old.todo /\ new.saved = old.saved
          /\ new.mem = old.mem /\ new.alone = old.alone /\ new.before = old.before
      BY <1>2 DEF ConfigHost
    <2> HIDE DEF new
    <2> QED
      BY <2>1, <2>2
  <1>6. SaveOf(host)'
    BY <1>1, <1>2, <1>3, <1>5, SaveOrders DEF SaveOf, Put, ModelsWritten
  <1>7. KeepsModels(host)'
    <2>1. CASE old.todo = <<"models", "config">>
      <3>1. cfgUser' = cfgUser
        BY <1>1, <1>2, <2>1, SaveOrders DEF Put
      <3> QED
        BY <1>1, <1>3, <1>5, <2>1, <3>1, KeptWithModels DEF Untouched, ModelsUntouched
    <2>2. CASE old.todo = <<"config">>
      BY <1>5, <2>2, SaveOrders DEF KeepsModels, Untouched
    <2> QED
      BY <1>2, <2>1, <2>2
  <1> QED
    BY <1>1, <1>4, <1>5, <1>6, <1>7, SomethingWritten

LEMMA FileIsFilled == ASSUME ConfigInv, NEW h \in Hosts, FillFile(h) PROVE ConfigInv'
  <1> DEFINE old == cfgHosts[h]
             content == Content(Head(old.todo), old.mem)
             left == Tail(old.todo)
             new == IF left # <<>> THEN [old EXCEPT !.todo = left, !.open = FALSE]
                    ELSE [old EXCEPT !.todo = left, !.open = FALSE, !.saved = TRUE,
                                     !.answer = "done", !.shown = old.mem.models]
  <1>1. old.open /\ Put(Head(old.todo), File(content)) /\ Wrote(h, new) /\ cfgProject' = cfgProject
    BY DEF FillFile
  <1>2. SaveOf(old) /\ KeepsModels(old) /\ old.todo # <<>>
    BY <1>1 DEF ConfigInv, SaveOf
  <1>3. /\ old \in ConfigHost /\ old.mem \in Configuration /\ ~old.saved
        /\ \/ old.todo = <<"models", "config">> /\ Head(old.todo) = "models" /\ old.mem.split
              /\ left = <<"config">>
           \/ old.todo = <<"config">> /\ Head(old.todo) = "config" /\ left = <<>>
    BY <1>2, SavingHost
  <1>4. content \in Configuration
    <2>1. old.mem.models \in Models
      BY <1>3 DEF Configuration
    <2> HIDE DEF old
    <2> QED
      BY <1>3, <2>1, DefaultTyped DEF Content, Configuration
  <1>5. cfgUser' \in ConfigFile /\ cfgModels' \in ConfigFile
    <2>1. File(content) \in ConfigFile
      BY <1>4, DefaultTyped DEF File
    <2> HIDE DEF content
    <2> QED
      BY <1>1, <2>1 DEF Put, ConfigInv, ConfigTyping
  <1>6. new \in ConfigHost
    <2>1. old.mem.models \in Models
      BY <1>3 DEF Configuration
    <2>2. left \in {<<>>, <<"config">>, <<"models", "config">>}
      BY <1>3
    <2> HIDE DEF old, left
    <2> QED
      BY <1>3, <2>1, <2>2 DEF ConfigHost
  <1>7. PICK host \in ConfigHost :
          /\ host = new /\ ~host.open /\ host.todo = left /\ (host.saved <=> left = <<>>)
          /\ host.mem = old.mem /\ host.alone = old.alone /\ host.before = old.before
    <2> HIDE DEF old, left
    <2> QED
      BY <1>3, <1>6 DEF ConfigHost
  <1>8. CASE old.todo = <<"models", "config">>
    <2>1. cfgUser' = cfgUser /\ cfgModels' = File([Default EXCEPT !.models = old.mem.models])
      BY <1>1, <1>3, <1>8, SaveOrders DEF Put, Content
    <2>2. SaveOf(host)'
      BY <1>3, <1>7, <1>8, <2>1, SaveOrders DEF SaveOf, ModelsWritten
    <2>3. KeepsModels(host)'
      BY <1>1, <1>2, <1>3, <1>7, <1>8, <2>1, SaveOrders, KeptWithModels DEF Untouched, ModelsUntouched
    <2> QED
      BY <1>1, <1>5, <1>7, <2>2, <2>3, SomethingWritten
  <1>9. CASE old.todo = <<"config">>
    <2>1. cfgModels' = cfgModels /\ cfgUser' = File(Content("config", old.mem))
      BY <1>1, <1>3, <1>9, SaveOrders DEF Put
    <2>2. old.alone /\ old.mem.split => ModelsWritten(old.mem)
      BY <1>2, <1>9 DEF SaveOf
    <2>3. host.alone => Written(host.mem)'
      <3>1. cfgUser' = File(Content("config", host.mem))
        BY <1>7, <2>1
      <3>2. host.alone /\ host.mem.split => ModelsWritten(host.mem)
        BY <1>7, <2>2
      <3>3. Content("config", host.mem) = IF host.mem.split THEN [host.mem EXCEPT !.models = NoModels] ELSE host.mem
        BY DEF Content
      <3> QED
        BY <2>1, <3>1, <3>2, <3>3 DEF Written, ModelsWritten
    <2>4. SaveOf(host)'
      BY <1>3, <1>7, <1>9, <2>3, SaveOrders DEF SaveOf
    <2>5. KeepsModels(host)'
      BY <1>3, <1>7, <1>9, SaveOrders DEF KeepsModels, Untouched
    <2> QED
      BY <1>1, <1>5, <1>7, <2>4, <2>5, SomethingWritten
  <1> QED
    BY <1>3, <1>8, <1>9

LEMMA SaveFails == ASSUME ConfigInv, NEW h \in Hosts, WriteFails(h) PROVE ConfigInv'
  <1> DEFINE old == cfgHosts[h]
             new == [old EXCEPT !.todo = <<>>, !.open = FALSE, !.answer = "failed to save models"]
  <1>1. /\ old.todo # <<>> /\ Wrote(h, new) /\ cfgProject' = cfgProject
        /\ Put(Head(old.todo), Broken) \/ UNCHANGED <<cfgUser, cfgModels>>
    BY DEF WriteFails
  <1>2. old \in ConfigHost /\ ~old.saved
    BY <1>1, SavingHost
  <1>3. cfgUser' \in ConfigFile /\ cfgModels' \in ConfigFile
    BY <1>1, DefaultTyped DEF Put, Broken, ConfigInv, ConfigTyping
  <1>4. PICK host \in ConfigHost : host = new /\ host.todo = <<>> /\ ~host.open /\ ~host.saved
    <2> HIDE DEF old
    <2>1. new \in ConfigHost
      BY <1>2 DEF ConfigHost
    <2>2. new.todo = <<>> /\ ~new.open /\ ~new.saved
      BY <1>2 DEF ConfigHost
    <2> HIDE DEF new
    <2> QED
      BY <2>1, <2>2
  <1>5. SaveOf(host)' /\ KeepsModels(host)'
    BY <1>4, SaveOrders DEF SaveOf, KeepsModels, Untouched
  <1> QED
    BY <1>1, <1>3, <1>4, <1>5, SomethingWritten

LEMMA ConfigStepKeeps ==
    ASSUME ConfigInv, [ConfigNext]_cfgVars
    PROVE  ConfigInv'
  <1>1. ASSUME NEW h \in Hosts, Start(h) \/ Exit(h) \/ Create(h) \/ ConfigModels(h)
                                \/ OpenFile(h) \/ FillFile(h) \/ WriteFails(h)
        PROVE  ConfigInv'
    BY <1>1, ProcessComesOrGoes, SessionIsCreated, ModelsAreShown, FileIsOpened, FileIsFilled, SaveFails
  <1>2. ASSUME NEW h \in Hosts, NEW m \in ModelNames, Reconfigure(h, m) PROVE ConfigInv'
    BY <1>2, ModelIsChosen
  <1>3. ASSUME NEW h \in Hosts, NEW m \in ModelNames, NEW definition \in Definitions \cup {NoModel},
               ConfigUpdate(h, m, definition)
        PROVE  ConfigInv'
    BY <1>3, SaveBegins
  <1>4. CASE UNCHANGED cfgVars
    <2>1. /\ cfgUser' = cfgUser /\ cfgModels' = cfgModels /\ cfgProject' = cfgProject
          /\ cfgEnv' = cfgEnv /\ cfgHosts' = cfgHosts
      BY <1>4 DEF cfgVars
    <2>2. LoadResolved' = LoadResolved
      BY <2>1 DEF LoadResolved, Loads, UserLoads, UserConfig, WithEnv, Merged
    <2> QED
      BY <2>1, <2>2 DEF ConfigInv, ConfigTyping, SaveOf, Written, ModelsWritten, KeepsModels, KeepsModel,
                        Untouched, ModelsUntouched
  <1> QED
    BY <1>1, <1>2, <1>3, <1>4 DEF ConfigNext

\* What a complete save has written is what a start loads.
LEMMA SavesAreLoaded == ASSUME ConfigInv PROVE SavedIsLoaded
  <1> SUFFICES ASSUME NEW h \in Hosts, cfgHosts[h].saved, cfgHosts[h].alone, cfgProject.kind # "broken"
               PROVE  LoadResolved = WithEnv(Merged(cfgHosts[h].mem, cfgProject.content))
    BY DEF SavedIsLoaded
  <1>1. Written(cfgHosts[h].mem) /\ cfgHosts[h].mem \in Configuration
    BY DEF ConfigInv, SaveOf, ConfigTyping, ConfigHost
  <1> QED
    BY <1>1, SavedLoads DEF ConfigInv

\* Between its two writes a save keeps the models that were there and are to stay.
LEMMA ModelsAreKept == ASSUME ConfigInv PROVE KeptModelsLoad
  <1> SUFFICES ASSUME NEW h \in Hosts, cfgHosts[h].todo # <<>>, ~cfgHosts[h].open, cfgHosts[h].alone,
                      NEW m \in ModelNames, cfgHosts[h].before[m] = cfgHosts[h].mem.models[m],
                      cfgHosts[h].before[m] # NoModel
               PROVE  LoadResolved.models[m] = cfgHosts[h].before[m]
    BY DEF KeptModelsLoad
  <1> DEFINE host == cfgHosts[h]
  <1>1. SaveOf(host) /\ KeepsModels(host)
    BY DEF ConfigInv
  <1>2. /\ host.mem \in Configuration
        /\ \/ host.todo = <<"models", "config">> /\ host.mem.split
           \/ host.todo = <<"config">>
    BY SavingHost
  <1>3. KeepsModel(host, m)
    BY <1>1, <1>2 DEF KeepsModels, Untouched
  <1>4. CASE ModelsUntouched(host)
    BY <1>3, <1>4 DEF KeepsModel
  <1>5. CASE ~ModelsUntouched(host)
    <2>1. ModelsWritten(host.mem)
      BY <1>1, <1>2, <1>5 DEF SaveOf, ModelsUntouched
    <2>2. cfgModels.kind = "file" /\ cfgModels.content.models = host.mem.models
      BY <2>1, DefaultTyped DEF ModelsWritten, File, Configuration
    <2>3. Loads
      BY <1>3, <2>2 DEF KeepsModel, Loads, UserLoads
    <2> QED
      BY <1>3, <2>2, <2>3, ModelLoaded DEF KeepsModel, ConfigInv
  <1> QED
    BY <1>4, <1>5

\* The files and the hosts have their types: what a start reads is a configuration again,
\* whatever a save that broke off has left.
THEOREM ConfigIsTyped == ServicesSpec => []ConfigTypeOK
  <1>1. ServicesInit => ConfigInv
    BY ConfigStarts DEF ServicesInit
  <1>2. ConfigInv /\ [ServicesNext]_servicesVars => ConfigInv'
    BY ConfigStepKeeps DEF ServicesNext, OfMcp, OfLlm, OfConfig, servicesVars
  <1>3. ConfigInv => ConfigTypeOK
    BY DEF ConfigInv, ConfigTyping, ConfigTypeOK, ConfigHost, SaveOf
  <1> QED
    BY <1>1, <1>2, <1>3, PTL DEF ServicesSpec

\* A save that ends is what the next start loads: save_split and load_resolved agree on
\* where the models are, for one file and for two.
THEOREM SavesComeBack == ServicesSpec => []SavedIsLoaded
  <1>1. ServicesInit => ConfigInv
    BY ConfigStarts DEF ServicesInit
  <1>2. ConfigInv /\ [ServicesNext]_servicesVars => ConfigInv'
    BY ConfigStepKeeps DEF ServicesNext, OfMcp, OfLlm, OfConfig, servicesVars
  <1> QED
    BY <1>1, <1>2, SavesAreLoaded, PTL DEF ServicesSpec

\* A process that dies between the two files of a save loses no model that was to stay.
THEOREM SavesLoseNoModel == ServicesSpec => []KeptModelsLoad
  <1>1. ServicesInit => ConfigInv
    BY ConfigStarts DEF ServicesInit
  <1>2. ConfigInv /\ [ServicesNext]_servicesVars => ConfigInv'
    BY ConfigStepKeeps DEF ServicesNext, OfMcp, OfLlm, OfConfig, servicesVars
  <1> QED
    BY <1>1, <1>2, ModelsAreKept, PTL DEF ServicesSpec

(***************************************************************************)
(* The streams.  While a reply is read, what the model has said is what    *)
(* the backend and the agent loop have of it, and the line of which only   *)
(* the start has been read.                                                *)
(***************************************************************************)
CallSet == [index : 0 .. MaxCalls, name : Seq(Nat), args : Seq(Nat)]
Texts == Seq(Words \cup {Garbled})
LineTexts == {<<>>} \cup {<<w>> : w \in Words \cup {Garbled}}
LineCalls == {<<>>} \cup {<<c>> : c \in CallSet}
LineSet ==
    {line \in [text : LineTexts, calls : LineCalls, finish : BOOLEAN, usage : BOOLEAN] :
        /\ line.text # <<>> => line.calls = <<>> /\ ~line.finish /\ ~line.usage
        /\ line.calls # <<>> => ~line.finish /\ ~line.usage}

SaidSet == [text : Seq(Words), calls : Seq(CallSet), usage : {"none", "with", "after"}, finished : BOOLEAN]
ReplySet == [text : Texts, calls : Seq(CallSet), usage : BOOLEAN]
Distinct(calls) == \A i, j \in 1 .. Len(calls) : calls[i].index = calls[j].index => i = j
DistinctLists == {calls \in Seq(CallSet) : Distinct(calls)}

StreamTyped ==
    /\ llmBackend \in {"chat", "responses", "openai"}
    /\ llmPhase \in {"new", "asked", "reading", "failing", "expired", "ended", "failed"}
    /\ llmSaid \in SaidSet /\ llmSaid.calls \in DistinctLists /\ llmHeld \in LineSet
    /\ llmReply \in ReplySet /\ llmReply.calls \in DistinctLists
    /\ llmBuffer \in DistinctLists
    /\ llmTotal \in 0 .. TotalLimit /\ llmSilent \in 0 .. llmTotal

\* The model numbers its calls; a name is told at once, but for the chat service.
Numbered(said) ==
    /\ \A i \in 1 .. Len(said.calls) : said.calls[i].index = i /\ said.calls[i].name \in {<<1>>, <<1, 2>>}
    /\ said.usage # "none" => said.finished

\* A line that is held is the last the model has said.
LastSaid(said, line) ==
    /\ line.calls # <<>> => ~said.finished
    /\ line.finish => said.finished
    /\ line.usage => said.usage # "none" /\ (line.finish \/ said.usage = "after")

Doubled(text) == \E i \in DOMAIN text : i > 1 /\ text[i] = text[i - 1]
TextFollows(said, line, reply) == ~Doubled(said.text) => said.text = reply.text \o line.text

\* The Responses backend keeps the last call, without its number.
LastCall(calls) ==
    IF calls = <<>> THEN <<>>
    ELSE <<ToolCall(NoIndex, calls[Len(calls)].name, calls[Len(calls)].args)>>
CallsFollow(backend, said, line, buffer, reply) ==
    LET over == said.finished /\ ~line.finish IN
    /\ backend = "openai" => FoldLeft(Merge, reply.calls, line.calls) = said.calls
    /\ backend = "chat" =>
         /\ FoldLeft(Gather, buffer, line.calls) = said.calls
         /\ said.usage # "after" => reply.calls = IF over THEN said.calls ELSE <<>>
    /\ backend = "responses" =>
         /\ FoldLeft(Open, buffer, line.calls) = LastCall(said.calls)
         /\ said.usage # "after"
         /\ reply.calls = IF over THEN LastCall(said.calls) ELSE <<>>

\* OpenAI's calls are known as far as they have been read.
PartsFollow(backend, said, reply) ==
    backend = "openai" =>
        /\ Len(reply.calls) <= Len(said.calls)
        /\ \A i \in 1 .. Len(reply.calls) :
               /\ reply.calls[i].name = said.calls[i].name
               /\ IsPrefix(reply.calls[i].args, said.calls[i].args)

UsageFollows(backend, said, line, reply) ==
    backend # "openai" => (reply.usage <=> said.usage # "none" /\ ~line.usage)

Follows(backend, said, line, buffer, reply, spoilt) ==
    /\ LastSaid(said, line)
    /\ ~(backend = "responses" /\ "line" \in spoilt) =>
         /\ "text" \notin spoilt => TextFollows(said, line, reply)
         /\ "call" \notin spoilt =>
              CallsFollow(backend, said, line, buffer, reply) /\ PartsFollow(backend, said, reply)
         /\ UsageFollows(backend, said, line, reply)

Fresh ==
    /\ llmSaid = Nothing /\ llmHeld = NoSseLine /\ llmBuffer = <<>>
    /\ llmReply = [text |-> <<>>, calls |-> <<>>, usage |-> FALSE]

StreamInv ==
    /\ StreamTyped
    /\ llmPhase \in {"new", "asked"} => Fresh
    /\ llmPhase \in Body =>
         /\ Numbered(llmSaid)
         /\ llmHeld # NoSseLine => "line" \in llmSpoilt
         /\ Follows(llmBackend, llmSaid, llmHeld, llmBuffer, llmReply, llmSpoilt)
    /\ NoCallIsHalf /\ ReplyIsExact

-----------------------------------------------------------------------------
\* What a fold makes of no element, of one, and of several.
LEMMA FoldNoneMerge ==
    ASSUME NEW base
    PROVE  FoldLeft(Merge, base, <<>>) = base
  <1> DEFINE s == <<>>
             Scan(f) == f = [T \in SUBSET DOMAIN s |->
                               IF T = {} THEN base ELSE Merge(f[T \ {Max(T)}], s[Max(T)])]
             found == CHOOSE f : Scan(f)
             f0 == [T \in SUBSET DOMAIN s |-> base]
  <1>1. DOMAIN s = {}
    OBVIOUS
  <1>2. FoldLeft(Merge, base, <<>>) = found[DOMAIN s]
    <2> HIDE DEF Max, Merge
    <2> QED
      BY DEF FoldLeft, MapThenFoldSet
  <1>3. Scan(f0)
    <2> HIDE DEF Max, Merge, s
    <2> QED
      BY <1>1
  <1>4. Scan(found)
    <2> HIDE DEF Scan, f0
    <2> QED
      BY <1>3
  <1> HIDE DEF found, s, Max, Merge
  <1> QED
    BY <1>1, <1>2, <1>4

LEMMA FoldOneMerge ==
    ASSUME NEW base, NEW x
    PROVE  FoldLeft(Merge, base, <<x>>) = Merge(base, x)
  <1> DEFINE s == <<x>>
             Scan(f) == f = [T \in SUBSET DOMAIN s |->
                               IF T = {} THEN base ELSE Merge(f[T \ {Max(T)}], s[Max(T)])]
             found == CHOOSE f : Scan(f)
             f1 == [T \in SUBSET DOMAIN s |-> IF T = {} THEN base ELSE Merge(base, x)]
  <1>1. DOMAIN s = {1} /\ s[1] = x
    OBVIOUS
  <1>2. FoldLeft(Merge, base, <<x>>) = found[DOMAIN s]
    <2> HIDE DEF Max, Merge
    <2> QED
      BY DEF FoldLeft, MapThenFoldSet
  <1>3. \A T \in SUBSET {1} : T # {} => T = {1} /\ Max(T) = 1 /\ T \ {1} = {}
    <2>1. Max({1}) = 1
      <3>1. {1} \in SUBSET (1 .. 1) /\ {1} # {} /\ 1 \in Nat
        OBVIOUS
      <3> QED
        BY <3>1, MaxOfSome
    <2> HIDE DEF Max
    <2> QED
      BY <2>1
  <1>4. Scan(f1)
    <2>1. f1[{}] = base
      BY <1>1
    <2>2. ASSUME NEW T \in SUBSET DOMAIN s
          PROVE  (IF T = {} THEN base ELSE Merge(base, x))
                   = IF T = {} THEN base ELSE Merge(f1[T \ {Max(T)}], s[Max(T)])
      <3> HIDE DEF Max, Merge, s, f1
      <3> QED
        BY <1>1, <1>3, <2>1
    <2> HIDE DEF Max, Merge, s
    <2> QED
      BY <2>2
  <1>5. Scan(found)
    <2> HIDE DEF Scan, f1
    <2> QED
      BY <1>4
  <1> HIDE DEF found, s, Max, Merge
  <1>6. found[{}] = base /\ found[{1}] = Merge(found[{1} \ {Max({1})}], s[Max({1})])
    BY <1>1, <1>5
  <1> QED
    BY <1>1, <1>2, <1>3, <1>6

LEMMA FoldNoneGather ==
    ASSUME NEW base
    PROVE  FoldLeft(Gather, base, <<>>) = base
  <1> DEFINE s == <<>>
             Scan(f) == f = [T \in SUBSET DOMAIN s |->
                               IF T = {} THEN base ELSE Gather(f[T \ {Max(T)}], s[Max(T)])]
             found == CHOOSE f : Scan(f)
             f0 == [T \in SUBSET DOMAIN s |-> base]
  <1>1. DOMAIN s = {}
    OBVIOUS
  <1>2. FoldLeft(Gather, base, <<>>) = found[DOMAIN s]
    <2> HIDE DEF Max, Gather
    <2> QED
      BY DEF FoldLeft, MapThenFoldSet
  <1>3. Scan(f0)
    <2> HIDE DEF Max, Gather, s
    <2> QED
      BY <1>1
  <1>4. Scan(found)
    <2> HIDE DEF Scan, f0
    <2> QED
      BY <1>3
  <1> HIDE DEF found, s, Max, Gather
  <1> QED
    BY <1>1, <1>2, <1>4

LEMMA FoldOneGather ==
    ASSUME NEW base, NEW x
    PROVE  FoldLeft(Gather, base, <<x>>) = Gather(base, x)
  <1> DEFINE s == <<x>>
             Scan(f) == f = [T \in SUBSET DOMAIN s |->
                               IF T = {} THEN base ELSE Gather(f[T \ {Max(T)}], s[Max(T)])]
             found == CHOOSE f : Scan(f)
             f1 == [T \in SUBSET DOMAIN s |-> IF T = {} THEN base ELSE Gather(base, x)]
  <1>1. DOMAIN s = {1} /\ s[1] = x
    OBVIOUS
  <1>2. FoldLeft(Gather, base, <<x>>) = found[DOMAIN s]
    <2> HIDE DEF Max, Gather
    <2> QED
      BY DEF FoldLeft, MapThenFoldSet
  <1>3. \A T \in SUBSET {1} : T # {} => T = {1} /\ Max(T) = 1 /\ T \ {1} = {}
    <2>1. Max({1}) = 1
      <3>1. {1} \in SUBSET (1 .. 1) /\ {1} # {} /\ 1 \in Nat
        OBVIOUS
      <3> QED
        BY <3>1, MaxOfSome
    <2> HIDE DEF Max
    <2> QED
      BY <2>1
  <1>4. Scan(f1)
    <2>1. f1[{}] = base
      BY <1>1
    <2>2. ASSUME NEW T \in SUBSET DOMAIN s
          PROVE  (IF T = {} THEN base ELSE Gather(base, x))
                   = IF T = {} THEN base ELSE Gather(f1[T \ {Max(T)}], s[Max(T)])
      <3> HIDE DEF Max, Gather, s, f1
      <3> QED
        BY <1>1, <1>3, <2>1
    <2> HIDE DEF Max, Gather, s
    <2> QED
      BY <2>2
  <1>5. Scan(found)
    <2> HIDE DEF Scan, f1
    <2> QED
      BY <1>4
  <1> HIDE DEF found, s, Max, Gather
  <1>6. found[{}] = base /\ found[{1}] = Gather(found[{1} \ {Max({1})}], s[Max({1})])
    BY <1>1, <1>5
  <1> QED
    BY <1>1, <1>2, <1>3, <1>6

LEMMA FoldNoneOpen ==
    ASSUME NEW base
    PROVE  FoldLeft(Open, base, <<>>) = base
  <1> DEFINE s == <<>>
             Scan(f) == f = [T \in SUBSET DOMAIN s |->
                               IF T = {} THEN base ELSE Open(f[T \ {Max(T)}], s[Max(T)])]
             found == CHOOSE f : Scan(f)
             f0 == [T \in SUBSET DOMAIN s |-> base]
  <1>1. DOMAIN s = {}
    OBVIOUS
  <1>2. FoldLeft(Open, base, <<>>) = found[DOMAIN s]
    <2> HIDE DEF Max, Open
    <2> QED
      BY DEF FoldLeft, MapThenFoldSet
  <1>3. Scan(f0)
    <2> HIDE DEF Max, Open, s
    <2> QED
      BY <1>1
  <1>4. Scan(found)
    <2> HIDE DEF Scan, f0
    <2> QED
      BY <1>3
  <1> HIDE DEF found, s, Max, Open
  <1> QED
    BY <1>1, <1>2, <1>4

LEMMA FoldOneOpen ==
    ASSUME NEW base, NEW x
    PROVE  FoldLeft(Open, base, <<x>>) = Open(base, x)
  <1> DEFINE s == <<x>>
             Scan(f) == f = [T \in SUBSET DOMAIN s |->
                               IF T = {} THEN base ELSE Open(f[T \ {Max(T)}], s[Max(T)])]
             found == CHOOSE f : Scan(f)
             f1 == [T \in SUBSET DOMAIN s |-> IF T = {} THEN base ELSE Open(base, x)]
  <1>1. DOMAIN s = {1} /\ s[1] = x
    OBVIOUS
  <1>2. FoldLeft(Open, base, <<x>>) = found[DOMAIN s]
    <2> HIDE DEF Max, Open
    <2> QED
      BY DEF FoldLeft, MapThenFoldSet
  <1>3. \A T \in SUBSET {1} : T # {} => T = {1} /\ Max(T) = 1 /\ T \ {1} = {}
    <2>1. Max({1}) = 1
      <3>1. {1} \in SUBSET (1 .. 1) /\ {1} # {} /\ 1 \in Nat
        OBVIOUS
      <3> QED
        BY <3>1, MaxOfSome
    <2> HIDE DEF Max
    <2> QED
      BY <2>1
  <1>4. Scan(f1)
    <2>1. f1[{}] = base
      BY <1>1
    <2>2. ASSUME NEW T \in SUBSET DOMAIN s
          PROVE  (IF T = {} THEN base ELSE Open(base, x))
                   = IF T = {} THEN base ELSE Open(f1[T \ {Max(T)}], s[Max(T)])
      <3> HIDE DEF Max, Open, s, f1
      <3> QED
        BY <1>1, <1>3, <2>1
    <2> HIDE DEF Max, Open, s
    <2> QED
      BY <2>2
  <1>5. Scan(found)
    <2> HIDE DEF Scan, f1
    <2> QED
      BY <1>4
  <1> HIDE DEF found, s, Max, Open
  <1>6. found[{}] = base /\ found[{1}] = Open(found[{1} \ {Max({1})}], s[Max({1})])
    BY <1>1, <1>5
  <1> QED
    BY <1>1, <1>2, <1>3, <1>6

LEMMA FoldNoneConsume ==
    ASSUME NEW base
    PROVE  FoldLeft(Consume, base, <<>>) = base
  <1> DEFINE s == <<>>
             Scan(f) == f = [T \in SUBSET DOMAIN s |->
                               IF T = {} THEN base ELSE Consume(f[T \ {Max(T)}], s[Max(T)])]
             found == CHOOSE f : Scan(f)
             f0 == [T \in SUBSET DOMAIN s |-> base]
  <1>1. DOMAIN s = {}
    OBVIOUS
  <1>2. FoldLeft(Consume, base, <<>>) = found[DOMAIN s]
    <2> HIDE DEF Max, Consume
    <2> QED
      BY DEF FoldLeft, MapThenFoldSet
  <1>3. Scan(f0)
    <2> HIDE DEF Max, Consume, s
    <2> QED
      BY <1>1
  <1>4. Scan(found)
    <2> HIDE DEF Scan, f0
    <2> QED
      BY <1>3
  <1> HIDE DEF found, s, Max, Consume
  <1> QED
    BY <1>1, <1>2, <1>4

LEMMA FoldOneConsume ==
    ASSUME NEW base, NEW x
    PROVE  FoldLeft(Consume, base, <<x>>) = Consume(base, x)
  <1> DEFINE s == <<x>>
             Scan(f) == f = [T \in SUBSET DOMAIN s |->
                               IF T = {} THEN base ELSE Consume(f[T \ {Max(T)}], s[Max(T)])]
             found == CHOOSE f : Scan(f)
             f1 == [T \in SUBSET DOMAIN s |-> IF T = {} THEN base ELSE Consume(base, x)]
  <1>1. DOMAIN s = {1} /\ s[1] = x
    OBVIOUS
  <1>2. FoldLeft(Consume, base, <<x>>) = found[DOMAIN s]
    <2> HIDE DEF Max, Consume
    <2> QED
      BY DEF FoldLeft, MapThenFoldSet
  <1>3. \A T \in SUBSET {1} : T # {} => T = {1} /\ Max(T) = 1 /\ T \ {1} = {}
    <2>1. Max({1}) = 1
      <3>1. {1} \in SUBSET (1 .. 1) /\ {1} # {} /\ 1 \in Nat
        OBVIOUS
      <3> QED
        BY <3>1, MaxOfSome
    <2> HIDE DEF Max
    <2> QED
      BY <2>1
  <1>4. Scan(f1)
    <2>1. f1[{}] = base
      BY <1>1
    <2>2. ASSUME NEW T \in SUBSET DOMAIN s
          PROVE  (IF T = {} THEN base ELSE Consume(base, x))
                   = IF T = {} THEN base ELSE Consume(f1[T \ {Max(T)}], s[Max(T)])
      <3> HIDE DEF Max, Consume, s, f1
      <3> QED
        BY <1>1, <1>3, <2>1
    <2> HIDE DEF Max, Consume, s
    <2> QED
      BY <2>2
  <1>5. Scan(found)
    <2> HIDE DEF Scan, f1
    <2> QED
      BY <1>4
  <1> HIDE DEF found, s, Max, Consume
  <1>6. found[{}] = base /\ found[{1}] = Consume(found[{1} \ {Max({1})}], s[Max({1})])
    BY <1>1, <1>5
  <1> QED
    BY <1>1, <1>2, <1>3, <1>6

Folded(h, op(_, _), base, s) ==
    /\ h[0] = base
    /\ \A k \in 1 .. Len(s) : h[k] = op(h[k - 1], s[k])
    /\ FoldLeft(op, base, s) = h[Len(s)]

LEMMA FoldOfMerge ==
    ASSUME NEW X, NEW S, \A calls \in X, c \in S : Merge(calls, c) \in X,
           NEW base \in X, NEW s \in Seq(S)
    PROVE  \E h \in [0 .. Len(s) -> X] : Folded(h, Merge, base, s)
  <1> DEFINE n == Len(s)
             step == [k \in 1 .. n |-> [calls \in X |-> Merge(calls, s[k])]]
             Scan(f) == f = [T \in SUBSET DOMAIN s |->
                               IF T = {} THEN base ELSE Merge(f[T \ {Max(T)}], s[Max(T)])]
  <1>1. n \in Nat /\ DOMAIN s = 1 .. n /\ \A k \in 1 .. n : s[k] \in S
    OBVIOUS
  <1>2. PICK f \in [SUBSET (1 .. n) -> X] : FromSets(f, n, base, step)
    <2>1. step \in [1 .. n -> [X -> X]]
      BY <1>1
    <2> HIDE DEF n, step
    <2> QED
      BY <1>1, <2>1, FoldExists
  <1>3. Scan(f)
    <2>1. ASSUME NEW T \in SUBSET (1 .. n)
          PROVE  f[T] = IF T = {} THEN base ELSE Merge(f[T \ {Max(T)}], s[Max(T)])
      <3>1. CASE T = {}
        BY <1>2, <3>1 DEF FromSets
      <3>2. CASE T # {}
        <4>1. Max(T) \in 1 .. n /\ T \ {Max(T)} \in SUBSET (1 .. n)
          BY <1>1, <3>2, MaxOfSome
        <4>2. f[T \ {Max(T)}] \in X
          BY <4>1
        <4>3. step[Max(T)][f[T \ {Max(T)}]] = Merge(f[T \ {Max(T)}], s[Max(T)])
          BY <4>1, <4>2
        <4> HIDE DEF step
        <4> QED
          BY <1>2, <3>2, <4>3 DEF FromSets
      <3> QED
        BY <3>1, <3>2
    <2>2. f = [T \in SUBSET (1 .. n) |-> f[T]]
      OBVIOUS
    <2> HIDE DEF n
    <2> QED
      BY <1>1, <2>1, <2>2
  <1>4. PICK g : Scan(g) /\ FoldLeft(Merge, base, s) = g[DOMAIN s]
    <2> DEFINE found == CHOOSE g : Scan(g)
    <2>1. FoldLeft(Merge, base, s) = found[DOMAIN s]
      <3> HIDE DEF Max, Merge
      <3> QED
        BY DEF FoldLeft, MapThenFoldSet
    <2>2. Scan(found)
      <3> HIDE DEF Scan
      <3> QED
        BY <1>3
    <2> HIDE DEF found, Scan
    <2> QED
      BY <2>1, <2>2
  <1> DEFINE h == [k \in 0 .. n |-> g[1 .. k]]
  <1>5. /\ h[0] = base
        /\ \A k \in 1 .. n : h[k] = Merge(h[k - 1], s[k])
        /\ FoldLeft(Merge, base, s) = h[n]
    <2>1. /\ 1 .. 0 = {} /\ {} \in SUBSET (1 .. n) /\ 0 \in 0 .. n /\ n \in 0 .. n
          /\ \A k \in 1 .. n : /\ 1 .. k \in SUBSET (1 .. n) /\ 1 .. k # {} /\ k \in 0 .. n /\ k - 1 \in 0 .. n
                               /\ Max(1 .. k) = k /\ (1 .. k) \ {k} = 1 .. k - 1
      BY <1>1, FoldedPlaces
    <2>2. \A T \in SUBSET (1 .. n) : g[T] = IF T = {} THEN base ELSE Merge(g[T \ {Max(T)}], s[Max(T)])
      <3> HIDE DEF n
      <3> QED
        BY <1>1, <1>4
    <2> HIDE DEF n
    <2>3. h[0] = base
      BY <2>1, <2>2
    <2>4. ASSUME NEW k \in 1 .. n PROVE h[k] = Merge(h[k - 1], s[k])
      <3>1. g[1 .. k] = Merge(g[(1 .. k) \ {Max(1 .. k)}], s[Max(1 .. k)])
        BY <2>1, <2>2
      <3>2. g[1 .. k] = Merge(g[1 .. k - 1], s[k])
        BY <2>1, <3>1
      <3>3. h[k] = g[1 .. k] /\ h[k - 1] = g[1 .. k - 1]
        BY <2>1
      <3> QED
        BY <3>2, <3>3
    <2> QED
      BY <1>1, <1>4, <2>1, <2>3, <2>4
  <1>6. \A k \in 0 .. n : h[k] \in X
    <2> DEFINE Good == {k \in 0 .. n : h[k] \in X}
    <2> HIDE DEF h, n
    <2>1. 0 \in Good
      BY <1>1, <1>5
    <2>2. ASSUME NEW k \in 1 .. n, \A j \in 0 .. k - 1 : j \in Good PROVE k \in Good
      <3>1. k - 1 \in 0 .. k - 1 /\ k \in 0 .. n
        BY <1>1
      <3>2. h[k - 1] \in X
        BY <2>2, <3>1
      <3>3. s[k] \in S /\ h[k] = Merge(h[k - 1], s[k])
        BY <1>1, <1>5
      <3>4. Merge(h[k - 1], s[k]) \in X
        BY <3>2, <3>3, Zenon
      <3> QED
        BY <3>1, <3>3, <3>4
    <2> HIDE DEF Good
    <2>3. 0 .. n \subseteq Good
      BY <1>1, <2>1, <2>2, ForwardInduction
    <2> QED
      BY <2>3 DEF Good
  <1>7. h \in [0 .. n -> X]
    BY <1>6
  <1> HIDE DEF h
  <1> QED
    BY <1>5, <1>7 DEF Folded

-----------------------------------------------------------------------------
\* Lists of calls.
LEMMA CallFields ==
    ASSUME NEW c \in CallSet
    PROVE  /\ c = ToolCall(c.index, c.name, c.args)
           /\ c.index \in 0 .. MaxCalls /\ c.name \in Seq(Nat) /\ c.args \in Seq(Nat)
  BY DEF CallSet, ToolCall

LEMMA CallChanged ==
    ASSUME NEW call \in CallSet, NEW name \in Seq(Nat), NEW args \in Seq(Nat)
    PROVE  [[call EXCEPT !.name = name] EXCEPT !.args = args] = ToolCall(call.index, name, args)
  <1> DEFINE named == [call EXCEPT !.name = name]
             both == [named EXCEPT !.args = args]
  <1>1. named \in CallSet /\ named.index = call.index /\ named.name = name
    BY DEF CallSet
  <1>2. both \in CallSet /\ both.index = named.index /\ both.name = named.name /\ both.args = args
    <2> HIDE DEF named
    <2> QED
      BY <1>1 DEF CallSet
  <1>3. both = ToolCall(both.index, both.name, both.args)
    <2> HIDE DEF both
    <2> QED
      BY <1>2, CallFields
  <1> HIDE DEF both, named
  <1>4. both = ToolCall(call.index, name, args)
    BY <1>1, <1>2, <1>3
  <1> QED
    BY <1>4 DEF both, named

LEMMA ToolCallIn ==
    ASSUME NEW i \in 0 .. MaxCalls, NEW name \in Seq(Nat), NEW args \in Seq(Nat)
    PROVE  /\ ToolCall(i, name, args) \in CallSet /\ ToolCall(i, name, args).index = i
           /\ ToolCall(i, name, args).name = name /\ ToolCall(i, name, args).args = args
  BY DEF CallSet, ToolCall

\* The list with another call at the place i.
Replaced(calls, i, call) == [j \in 1 .. Len(calls) |-> IF j = i THEN call ELSE calls[j]]

LEMMA ReplacedIn ==
    ASSUME NEW calls \in Seq(CallSet), NEW i \in 1 .. Len(calls), NEW c \in CallSet
    PROVE  /\ Replaced(calls, i, c) \in Seq(CallSet) /\ Len(Replaced(calls, i, c)) = Len(calls)
           /\ \A j \in 1 .. Len(calls) : Replaced(calls, i, c)[j] = IF j = i THEN c ELSE calls[j]
  <1>1. Len(calls) \in Nat /\ \A j \in 1 .. Len(calls) : calls[j] \in CallSet
    OBVIOUS
  <1>2. Replaced(calls, i, c) \in [1 .. Len(calls) -> CallSet]
    <2> HIDE DEF CallSet
    <2> QED
      BY <1>1 DEF Replaced
  <1> HIDE DEF CallSet
  <1> QED
    BY <1>1, <1>2 DEF Replaced

LEMMA ReplacedDistinct ==
    ASSUME NEW calls \in Seq(CallSet), NEW i \in 1 .. Len(calls), NEW c \in CallSet,
           c.index = calls[i].index, Distinct(calls)
    PROVE  Distinct(Replaced(calls, i, c))
  <1> DEFINE t == Replaced(calls, i, c)
  <1>0. Len(t) = Len(calls) /\ \A j \in 1 .. Len(calls) : t[j] = IF j = i THEN c ELSE calls[j]
    BY ReplacedIn
  <1> HIDE DEF t
  <1>1. Len(t) = Len(calls) /\ \A j \in 1 .. Len(calls) : t[j].index = calls[j].index
    BY <1>0
  <1>2. Distinct(t)
    BY <1>1 DEF Distinct
  <1> QED
    BY <1>2 DEF t

LEMMA AppendDistinct ==
    ASSUME NEW calls \in Seq(CallSet), NEW c \in CallSet, Distinct(calls),
           \A i \in 1 .. Len(calls) : calls[i].index # c.index
    PROVE  Append(calls, c) \in Seq(CallSet) /\ Distinct(Append(calls, c))
  <1> DEFINE t == Append(calls, c)
             n == Len(calls)
  <1>1. /\ t \in Seq(CallSet) /\ n \in Nat /\ Len(t) = n + 1 /\ t[n + 1] = c
        /\ \A i \in 1 .. n : t[i] = calls[i]
    BY AppendProperties, LenProperties
  <1> HIDE DEF t, CallSet
  <1>2. \A i \in 1 .. n + 1 : i \in 1 .. n \/ i = n + 1
    BY <1>1
  <1>3. Distinct(t)
    <2> HIDE DEF n
    <2>1. \A i, j \in 1 .. n : calls[i].index = calls[j].index => i = j
      BY DEF Distinct, n
    <2>2. \A i \in 1 .. n : calls[i].index # c.index
      BY DEF n
    <2>3. ASSUME NEW i \in 1 .. n + 1, NEW j \in 1 .. n + 1, t[i].index = t[j].index PROVE i = j
      <3>1. CASE i \in 1 .. n /\ j \in 1 .. n
        BY <1>1, <2>1, <2>3, <3>1, Zenon
      <3>2. CASE i \in 1 .. n /\ j = n + 1
        BY <1>1, <2>2, <2>3, <3>2, Zenon
      <3>3. CASE i = n + 1 /\ j \in 1 .. n
        BY <1>1, <2>2, <2>3, <3>3, Zenon
      <3> QED
        BY <1>2, <3>1, <3>2, <3>3, Zenon
    <2> QED
      BY <1>1, <2>3 DEF Distinct
  <1> QED
    BY <1>1, <1>3 DEF t

\* A fragment of a new call, and of one that is in the list.
LEMMA MergeNew ==
    ASSUME NEW calls \in Seq(CallSet), NEW c \in CallSet,
           \A i \in 1 .. Len(calls) : calls[i].index # c.index
    PROVE  Merge(calls, c) = Append(calls, c) /\ Gather(calls, c) = Append(calls, c)
  <1>1. DOMAIN calls = 1 .. Len(calls)
    BY LenProperties
  <1> QED
    BY <1>1, Zenon DEF Merge, Gather

LEMMA MergeOld ==
    ASSUME NEW calls \in Seq(CallSet), NEW c \in CallSet, Distinct(calls),
           NEW i \in 1 .. Len(calls), calls[i].index = c.index
    PROVE  Merge(calls, c) = Replaced(calls, i, ToolCall(c.index, IF c.name = <<>> THEN calls[i].name ELSE c.name,
                                                    calls[i].args \o c.args))
  <1> DEFINE n == Len(calls)
             k == CHOOSE j \in DOMAIN calls : calls[j].index = c.index
             name == IF c.name = <<>> THEN calls[i].name ELSE c.name
             args == calls[i].args \o c.args
             merged == [calls EXCEPT ![i].name = IF c.name = <<>> THEN @ ELSE c.name, ![i].args = @ \o c.args]
  <1>1. n \in Nat /\ DOMAIN calls = 1 .. n /\ calls \in [1 .. n -> CallSet]
    BY LenProperties
  <1>2. k = i
    <2>1. k \in 1 .. n /\ calls[k].index = c.index
      BY <1>1
    <2> HIDE DEF k
    <2> QED
      BY <2>1 DEF Distinct
  <1>3. Merge(calls, c) = merged
    <2>1. \E j \in DOMAIN calls : calls[j].index = c.index
      BY <1>1
    <2>2. Merge(calls, c) = [calls EXCEPT ![k].name = IF c.name = <<>> THEN @ ELSE c.name, ![k].args = @ \o c.args]
      BY <2>1 DEF Merge
    <2> HIDE DEF k
    <2> QED
      BY <1>2, <2>2
  <1>4. calls[i] = [index |-> calls[i].index, name |-> calls[i].name, args |-> calls[i].args]
    BY <1>1, CallFields DEF ToolCall
  <1>5. [[calls[i] EXCEPT !.name = name] EXCEPT !.args = args] = ToolCall(c.index, name, args)
    <2> DEFINE call == calls[i]
    <2>1. call \in CallSet /\ call.index = c.index
      BY ElementOfSeq
    <2>2. name \in Seq(Nat) /\ args \in Seq(Nat)
      <3>1. call.name \in Seq(Nat) /\ call.args \in Seq(Nat) /\ c.name \in Seq(Nat) /\ c.args \in Seq(Nat)
        BY <2>1, CallFields
      <3> QED
        BY <3>1, ConcatProperties
    <2> HIDE DEF name, args, call
    <2>3. [[call EXCEPT !.name = name] EXCEPT !.args = args] = ToolCall(call.index, name, args)
      BY <2>1, <2>2, CallChanged, Zenon
    <2>4. [[call EXCEPT !.name = name] EXCEPT !.args = args] = ToolCall(c.index, name, args)
      BY <2>1, <2>3
    <2> QED
      BY <2>4 DEF call
  <1>6. merged = [j \in 1 .. n |-> IF j = i THEN [[calls[i] EXCEPT !.name = name] EXCEPT !.args = args] ELSE calls[j]]
    <2> HIDE DEF CallSet
    <2>1. calls[i].args = [calls[i] EXCEPT !.name = name].args
      BY <1>4
    <2> QED
      BY <1>1, <1>4, <2>1
  <1> HIDE DEF merged, name, args
  <1> QED
    BY <1>3, <1>5, <1>6 DEF Replaced, name, args

LEMMA GatherOld ==
    ASSUME NEW calls \in Seq(CallSet), NEW c \in CallSet, Distinct(calls),
           NEW i \in 1 .. Len(calls), calls[i].index = c.index
    PROVE  Gather(calls, c) = Replaced(calls, i, ToolCall(c.index, calls[i].name \o c.name, calls[i].args \o c.args))
  <1>1. Len(calls) \in Nat /\ DOMAIN calls = 1 .. Len(calls)
    BY LenProperties
  <1>2. \A j \in 1 .. Len(calls) : calls[j].index = c.index <=> j = i
    BY Zenon DEF Distinct
  <1>3. Gather(calls, c) = [j \in DOMAIN calls |->
            IF calls[j].index = c.index
            THEN ToolCall(c.index, calls[j].name \o c.name, calls[j].args \o c.args)
            ELSE calls[j]]
    BY <1>1, Zenon DEF Gather
  <1> HIDE DEF ToolCall
  <1> QED
    BY <1>1, <1>2, <1>3 DEF Replaced

LEMMA MergeKeeps ==
    ASSUME NEW calls \in Seq(CallSet), NEW c \in CallSet, Distinct(calls)
    PROVE  /\ Merge(calls, c) \in Seq(CallSet) /\ Distinct(Merge(calls, c))
           /\ Gather(calls, c) \in Seq(CallSet) /\ Distinct(Gather(calls, c))
  <1>1. CASE \A i \in 1 .. Len(calls) : calls[i].index # c.index
    BY <1>1, MergeNew, AppendDistinct
  <1>2. CASE \E i \in 1 .. Len(calls) : calls[i].index = c.index
    <2>1. PICK i \in 1 .. Len(calls) : calls[i].index = c.index
      BY <1>2
    <2> DEFINE merged == ToolCall(c.index, IF c.name = <<>> THEN calls[i].name ELSE c.name, calls[i].args \o c.args)
               gathered == ToolCall(c.index, calls[i].name \o c.name, calls[i].args \o c.args)
    <2>2. calls[i] \in CallSet
      BY ElementOfSeq
    <2>3. merged \in CallSet /\ gathered \in CallSet /\ merged.index = c.index /\ gathered.index = c.index
      <3>1. calls[i].name \o c.name \in Seq(Nat) /\ calls[i].args \o c.args \in Seq(Nat)
        BY <2>2, CallFields, ConcatProperties
      <3>2. c.index \in 0 .. MaxCalls /\ c.name \in Seq(Nat) /\ calls[i].name \in Seq(Nat)
        BY <2>2, CallFields
      <3>3. (IF c.name = <<>> THEN calls[i].name ELSE c.name) \in Seq(Nat)
        BY <3>2
      <3> DEFINE name == IF c.name = <<>> THEN calls[i].name ELSE c.name
                 both == calls[i].name \o c.name
                 args == calls[i].args \o c.args
      <3>4. name \in Seq(Nat) /\ both \in Seq(Nat) /\ args \in Seq(Nat)
        BY <3>1, <3>3
      <3>5. merged = ToolCall(c.index, name, args) /\ gathered = ToolCall(c.index, both, args)
        OBVIOUS
      <3> HIDE DEF name, both, args, merged, gathered
      <3>6. ToolCall(c.index, name, args) \in CallSet /\ ToolCall(c.index, name, args).index = c.index
        BY <3>2, <3>4, ToolCallIn
      <3>7. ToolCall(c.index, both, args) \in CallSet /\ ToolCall(c.index, both, args).index = c.index
        BY <3>2, <3>4, ToolCallIn
      <3> QED
        BY <3>5, <3>6, <3>7
    <2>4. Merge(calls, c) = Replaced(calls, i, merged) /\ Gather(calls, c) = Replaced(calls, i, gathered)
      BY <2>1, MergeOld, GatherOld
    <2> HIDE DEF merged, gathered
    <2>5. Replaced(calls, i, merged) \in Seq(CallSet) /\ Distinct(Replaced(calls, i, merged))
      BY <2>1, <2>3, ReplacedIn, ReplacedDistinct
    <2>6. Replaced(calls, i, gathered) \in Seq(CallSet) /\ Distinct(Replaced(calls, i, gathered))
      BY <2>1, <2>3, ReplacedIn, ReplacedDistinct
    <2> QED
      BY <2>4, <2>5, <2>6
  <1> QED
    BY <1>1, <1>2

LEMMA OpenKeeps ==
    ASSUME NEW calls \in Seq(CallSet), NEW c \in CallSet, Distinct(calls)
    PROVE  Open(calls, c) \in Seq(CallSet) /\ Distinct(Open(calls, c))
  <1>1. CASE c.name # <<>>
    <2> DEFINE x == ToolCall(NoIndex, c.name, c.args)
    <2>1. x \in CallSet
      <3>1. NoIndex \in 0 .. MaxCalls
        BY LlmAssumption DEF NoIndex
      <3>2. c.name \in Seq(Nat) /\ c.args \in Seq(Nat)
        BY CallFields
      <3> QED
        BY <3>1, <3>2, ToolCallIn
    <2>2. Open(calls, c) = <<x>>
      BY <1>1 DEF Open
    <2> HIDE DEF x, CallSet
    <2> QED
      BY <2>1, <2>2 DEF Distinct
  <1>2. CASE c.name = <<>>
    <2> DEFINE x == [i \in 1 .. Len(calls) |-> [calls[i] EXCEPT !.args = @ \o c.args]]
    <2>1. Len(calls) \in Nat /\ DOMAIN calls = 1 .. Len(calls) /\ \A i \in 1 .. Len(calls) : calls[i] \in CallSet
      BY LenProperties
    <2>2. \A d \in CallSet : /\ [d EXCEPT !.args = @ \o c.args] \in CallSet
                             /\ [d EXCEPT !.args = @ \o c.args].index = d.index
      <3>1. \A d \in CallSet : d.args \o c.args \in Seq(Nat)
        BY CallFields, ConcatProperties
      <3> QED
        BY <3>1 DEF CallSet
    <2>3. x \in Seq(CallSet) /\ Len(x) = Len(calls) /\ \A i \in 1 .. Len(calls) : x[i].index = calls[i].index
      <3> HIDE DEF CallSet
      <3>1. x \in [1 .. Len(calls) -> CallSet]
        BY <2>1, <2>2
      <3>2. \A i \in 1 .. Len(calls) : x[i].index = calls[i].index
        BY <2>1, <2>2
      <3> HIDE DEF x
      <3>3. x \in Seq(CallSet) /\ Len(x) = Len(calls)
        BY <2>1, <3>1
      <3> QED
        BY <3>2, <3>3
    <2>4. Open(calls, c) = x
      BY <1>2, <2>1 DEF Open
    <2> HIDE DEF x, CallSet
    <2> QED
      BY <2>3, <2>4 DEF Distinct
  <1> QED
    BY <1>1, <1>2

\* A list whose calls are all different is merged into nothing as it is.
LEMMA MergeAll ==
    ASSUME NEW calls \in DistinctLists, NEW base \in DistinctLists
    PROVE  /\ FoldLeft(Merge, base, calls) \in DistinctLists
           /\ base = <<>> => FoldLeft(Merge, base, calls) = calls
  <1> DEFINE n == Len(calls)
  <1>1. calls \in Seq(CallSet) /\ Distinct(calls) /\ n \in Nat /\ n \in 0 .. n
    BY LenProperties DEF DistinctLists
  <1>2. PICK h \in [0 .. n -> DistinctLists] : Folded(h, Merge, base, calls)
    <2>1. \A x \in DistinctLists, c \in CallSet : Merge(x, c) \in DistinctLists
      BY MergeKeeps DEF DistinctLists
    <2> HIDE DEF DistinctLists, CallSet
    <2> QED
      BY <1>1, <2>1, FoldOfMerge
  <1>3. /\ h[0] = base /\ FoldLeft(Merge, base, calls) = h[n]
        /\ \A k \in 1 .. n : h[k] = Merge(h[k - 1], calls[k])
    BY <1>2 DEF Folded
  <1>4. ASSUME base = <<>> PROVE h[n] = calls
    <2> DEFINE Good == {k \in 0 .. n : h[k] = SubSeq(calls, 1, k)}
    <2>1. 0 \in Good
      <3>1. SubSeq(calls, 1, 0) = <<>>
        BY SubSeqEmpty
      <3> QED
        BY <1>1, <1>3, <1>4, <3>1
    <2>2. ASSUME NEW k \in 1 .. n, \A j \in 0 .. k - 1 : j \in Good PROVE k \in Good
      <3> DEFINE before == SubSeq(calls, 1, k - 1)
                 c == calls[k]
      <3>1. k - 1 \in 0 .. k - 1 /\ k \in 0 .. n /\ k - 1 \in Nat
        BY <1>1
      <3>2. h[k - 1] = before
        BY <2>2, <3>1
      <3>3. /\ before \in Seq(CallSet) /\ Len(before) = k - 1
            /\ \A i \in 1 .. k - 1 : before[i] = calls[i]
        <4>1. \A i \in 1 .. k - 1 : calls[i] \in CallSet
          BY <1>1, ElementOfSeq
        <4>2. 1 \in Int /\ k - 1 \in Int
          BY <3>1
        <4> HIDE DEF CallSet
        <4> QED
          BY <3>1, <4>1, <4>2, SubSeqProperties
      <3>4. c \in CallSet
        BY <1>1, ElementOfSeq
      <3>5. \A i \in 1 .. Len(before) : before[i].index # c.index
        <4>1. \A i \in 1 .. k - 1 : i \in 1 .. n /\ i # k
          BY <1>1
        <4> HIDE DEF before
        <4> QED
          BY <1>1, <3>1, <3>3, <4>1 DEF Distinct
      <3>6. Merge(before, c) = Append(before, c)
        <4> HIDE DEF before, c
        <4> QED
          BY <3>3, <3>4, <3>5, MergeNew
      <3>7. Append(before, c) = SubSeq(calls, 1, k)
        <4>1. SubSeq(calls, 1, k) = before \o <<c>>
          <5>1. 1 \in 1 .. n /\ k \in 1 .. n
            BY <1>1
          <5> HIDE DEF n, CallSet
          <5> QED
            BY <1>1, <5>1, SubSeqRecursiveSecond DEF n
        <4> HIDE DEF before, c, CallSet
        <4> QED
          BY <3>3, <3>4, <4>1, AppendIsConcat
      <3>8. h[k] = SubSeq(calls, 1, k)
        BY <1>3, <3>2, <3>6, <3>7
      <3> QED
        BY <3>1, <3>8
    <2> HIDE DEF Good
    <2>3. n \in Good
      BY <1>1, <2>1, <2>2, ForwardInduction
    <2> QED
      BY <1>1, <2>3, SubSeqFull DEF Good
  <1> HIDE DEF DistinctLists
  <1> QED
    BY <1>1, <1>2, <1>3, <1>4

-----------------------------------------------------------------------------
\* Lines.
LEMMA LineFields ==
    ASSUME NEW line \in LineSet
    PROVE  /\ line.text = <<>> \/ \E w \in Words \cup {Garbled} : line.text = <<w>>
           /\ line.calls = <<>> \/ \E c \in CallSet : line.calls = <<c>>
           /\ line.finish \in BOOLEAN /\ line.usage \in BOOLEAN
           /\ line.text # <<>> => line.calls = <<>> /\ ~line.finish /\ ~line.usage
           /\ line.calls # <<>> => line.text = <<>> /\ ~line.finish /\ ~line.usage
  <1> HIDE DEF CallSet
  <1> QED
    BY DEF LineSet, LineTexts, LineCalls

LEMMA WordLine ==
    ASSUME NEW w \in Words \cup {Garbled}, NEW line, line = SseLine(<<w>>, <<>>, FALSE, FALSE)
    PROVE  /\ line \in LineSet /\ line.text = <<w>> /\ line.calls = <<>>
           /\ line.finish = FALSE /\ line.usage = FALSE
  <1>1. <<w>> \in LineTexts /\ <<>> \in LineCalls
    BY DEF LineTexts, LineCalls
  <1>2. line.text = <<w>> /\ line.calls = <<>> /\ line.finish = FALSE /\ line.usage = FALSE
    BY DEF SseLine
  <1>3. line \in [text : LineTexts, calls : LineCalls, finish : BOOLEAN, usage : BOOLEAN]
    BY <1>1 DEF SseLine
  <1> QED
    BY <1>2, <1>3 DEF LineSet

LEMMA CallLine ==
    ASSUME NEW c \in CallSet, NEW line, line = SseLine(<<>>, <<c>>, FALSE, FALSE)
    PROVE  /\ line \in LineSet /\ line.text = <<>> /\ line.calls = <<c>>
           /\ line.finish = FALSE /\ line.usage = FALSE
  <1>1. <<>> \in LineTexts /\ <<c>> \in LineCalls
    BY DEF LineTexts, LineCalls
  <1>2. line.text = <<>> /\ line.calls = <<c>> /\ line.finish = FALSE /\ line.usage = FALSE
    BY DEF SseLine
  <1>3. line \in [text : LineTexts, calls : LineCalls, finish : BOOLEAN, usage : BOOLEAN]
    BY <1>1 DEF SseLine
  <1> QED
    BY <1>2, <1>3 DEF LineSet

LEMMA EndLine ==
    ASSUME NEW finish \in BOOLEAN, NEW usage \in BOOLEAN, NEW line, line = SseLine(<<>>, <<>>, finish, usage)
    PROVE  /\ line \in LineSet /\ line.text = <<>> /\ line.calls = <<>>
           /\ line.finish = finish /\ line.usage = usage
  <1>1. <<>> \in LineTexts /\ <<>> \in LineCalls
    BY DEF LineTexts, LineCalls
  <1>2. line.text = <<>> /\ line.calls = <<>> /\ line.finish = finish /\ line.usage = usage
    BY DEF SseLine
  <1>3. line \in [text : LineTexts, calls : LineCalls, finish : BOOLEAN, usage : BOOLEAN]
    BY <1>1 DEF SseLine
  <1> QED
    BY <1>2, <1>3 DEF LineSet

LEMMA NoLine ==
    /\ NoSseLine \in LineSet /\ NoSseLine.text = <<>> /\ NoSseLine.calls = <<>>
    /\ NoSseLine.finish = FALSE /\ NoSseLine.usage = FALSE
  <1>1. FALSE \in BOOLEAN
    OBVIOUS
  <1> QED
    BY <1>1, EndLine DEF NoSseLine

\* What follows of the calls, when no call is held and when one is.
CallsRest(backend, said, over, buffer, reply) ==
    /\ backend = "openai" => reply.calls = said.calls
    /\ backend = "chat" =>
         /\ buffer = said.calls
         /\ said.usage # "after" => reply.calls = IF over THEN said.calls ELSE <<>>
    /\ backend = "responses" =>
         /\ buffer = LastCall(said.calls)
         /\ said.usage # "after"
         /\ reply.calls = IF over THEN LastCall(said.calls) ELSE <<>>

LEMMA NoCallHeld ==
    ASSUME NEW backend, NEW said, NEW line, NEW buffer, NEW reply, line.calls = <<>>
    PROVE  CallsFollow(backend, said, line, buffer, reply)
             <=> CallsRest(backend, said, said.finished /\ ~line.finish, buffer, reply)
  <1>1. /\ FoldLeft(Merge, reply.calls, line.calls) = reply.calls
        /\ FoldLeft(Gather, buffer, line.calls) = buffer
        /\ FoldLeft(Open, buffer, line.calls) = buffer
    BY FoldNoneMerge, FoldNoneGather, FoldNoneOpen
  <1> QED
    BY <1>1 DEF CallsFollow, CallsRest

LEMMA CallHeld ==
    ASSUME NEW backend, NEW said, NEW line, NEW buffer, NEW reply, NEW c, line.calls = <<c>>, ~said.finished
    PROVE  CallsFollow(backend, said, line, buffer, reply) <=>
             /\ backend = "openai" => Merge(reply.calls, c) = said.calls
             /\ backend = "chat" =>
                  /\ Gather(buffer, c) = said.calls
                  /\ said.usage # "after" => reply.calls = <<>>
             /\ backend = "responses" =>
                  /\ Open(buffer, c) = LastCall(said.calls)
                  /\ said.usage # "after" /\ reply.calls = <<>>
  <1>1. /\ FoldLeft(Merge, reply.calls, line.calls) = Merge(reply.calls, c)
        /\ FoldLeft(Gather, buffer, line.calls) = Gather(buffer, c)
        /\ FoldLeft(Open, buffer, line.calls) = Open(buffer, c)
    BY FoldOneMerge, FoldOneGather, FoldOneOpen
  <1> QED
    BY <1>1 DEF CallsFollow

-----------------------------------------------------------------------------
\* The model says another line.
LEMMA NotDoubled ==
    ASSUME NEW text \in Texts, NEW w, ~Doubled(Append(text, w))
    PROVE  ~Doubled(text)
  <1> DEFINE longer == Append(text, w)
  <1>1. /\ Len(text) \in Nat /\ DOMAIN text = 1 .. Len(text)
        /\ DOMAIN longer = 1 .. Len(text) + 1 /\ \A i \in 1 .. Len(text) : longer[i] = text[i]
    BY DEF Texts
  <1> HIDE DEF longer
  <1>2. \A i \in 1 .. Len(text) : i > 1 => i - 1 \in 1 .. Len(text)
    BY <1>1
  <1>3. ~Doubled(longer)
    BY DEF longer
  <1> QED
    BY <1>1, <1>2, <1>3 DEF Doubled

LEMMA SaysWord ==
    ASSUME NEW backend, NEW said \in SaidSet, NEW buffer, NEW reply \in ReplySet, NEW spoilt, NEW w \in Words,
           Numbered(said), ~said.finished, Follows(backend, said, NoSseLine, buffer, reply, spoilt)
    PROVE  LET next == [said EXCEPT !.text = Append(@, w)]
               line == SseLine(<<w>>, <<>>, FALSE, FALSE)
           IN  /\ next \in SaidSet /\ line \in LineSet /\ Numbered(next)
               /\ Follows(backend, next, line, buffer, reply, spoilt)
  <1> DEFINE next == [said EXCEPT !.text = Append(@, w)]
             line == SseLine(<<w>>, <<>>, FALSE, FALSE)
  <1>1. /\ next \in SaidSet /\ next.text = Append(said.text, w) /\ next.calls = said.calls
        /\ next.usage = said.usage /\ next.finished = said.finished
    <2>1. Append(said.text, w) \in Seq(Words)
      BY AppendProperties DEF SaidSet
    <2> HIDE DEF CallSet
    <2> QED
      BY <2>1 DEF SaidSet
  <1>2. line \in LineSet /\ line.text = <<w>> /\ line.calls = <<>> /\ line.finish = FALSE /\ line.usage = FALSE
    BY WordLine
  <1> HIDE DEF next, line
  <1>3. Numbered(next) /\ LastSaid(next, line)
    BY <1>1, <1>2 DEF Numbered, LastSaid
  <1>4. ASSUME TextFollows(said, NoSseLine, reply) PROVE TextFollows(next, line, reply)
    <2>1. SUFFICES ASSUME ~Doubled(next.text) PROVE next.text = reply.text \o line.text
      BY DEF TextFollows
    <2>2. said.text \in Texts /\ said.text \in Seq(Words)
      BY SeqMonotonic DEF SaidSet, Texts
    <2>3. ~Doubled(said.text)
      BY <1>1, <2>1, <2>2, NotDoubled
    <2>4. said.text = reply.text \o <<>>
      BY <1>4, <2>3, NoLine DEF TextFollows
    <2>5. said.text = reply.text
      BY <2>4, ConcatEmptySeq DEF ReplySet, Texts
    <2>6. Append(said.text, w) = said.text \o <<w>>
      BY <2>2, AppendIsConcat
    <2> QED
      BY <1>1, <1>2, <2>5, <2>6
  <1>5. ASSUME CallsFollow(backend, said, NoSseLine, buffer, reply)
        PROVE  CallsFollow(backend, next, line, buffer, reply)
    BY <1>1, <1>2, <1>5, NoLine, NoCallHeld DEF CallsRest
  <1>6. /\ PartsFollow(backend, said, reply) => PartsFollow(backend, next, reply)
        /\ UsageFollows(backend, said, NoSseLine, reply) => UsageFollows(backend, next, line, reply)
    BY <1>1, <1>2, NoLine DEF PartsFollow, UsageFollows
  <1>7. Follows(backend, next, line, buffer, reply, spoilt)
    BY <1>3, <1>4, <1>5, <1>6 DEF Follows
  <1> QED
    BY <1>1, <1>2, <1>3, <1>7 DEF next, line

\* The line that ends the reply, and the token counts after it.
LEMMA SaysEnd ==
    ASSUME NEW backend, NEW said \in SaidSet, NEW buffer, NEW reply \in ReplySet, NEW spoilt, NEW usage \in BOOLEAN,
           Numbered(said), ~said.finished, Follows(backend, said, NoSseLine, buffer, reply, spoilt)
    PROVE  LET next == [said EXCEPT !.finished = TRUE, !.usage = IF usage THEN "with" ELSE "none"]
               line == SseLine(<<>>, <<>>, TRUE, usage)
           IN  /\ next \in SaidSet /\ line \in LineSet /\ Numbered(next)
               /\ Follows(backend, next, line, buffer, reply, spoilt)
  <1> DEFINE next == [said EXCEPT !.finished = TRUE, !.usage = IF usage THEN "with" ELSE "none"]
             line == SseLine(<<>>, <<>>, TRUE, usage)
  <1>1. /\ next \in SaidSet /\ next.text = said.text /\ next.calls = said.calls
        /\ next.usage = (IF usage THEN "with" ELSE "none") /\ next.finished = TRUE
    <2> HIDE DEF CallSet
    <2> QED
      BY DEF SaidSet
  <1>2. line \in LineSet /\ line.text = <<>> /\ line.calls = <<>> /\ line.finish = TRUE /\ line.usage = usage
    BY EndLine
  <1>0. said.usage = "none" /\ said.finished = FALSE
    BY DEF Numbered, SaidSet
  <1> HIDE DEF next, line
  <1>3. Numbered(next) /\ LastSaid(next, line)
    BY <1>1, <1>2 DEF Numbered, LastSaid
  <1>4. TextFollows(said, NoSseLine, reply) => TextFollows(next, line, reply)
    BY <1>1, <1>2, NoLine DEF TextFollows
  <1>5. ASSUME CallsFollow(backend, said, NoSseLine, buffer, reply)
        PROVE  CallsFollow(backend, next, line, buffer, reply)
    <2>1. CallsRest(backend, said, FALSE, buffer, reply)
      BY <1>0, <1>5, NoLine, NoCallHeld DEF CallsRest
    <2>2. CallsRest(backend, next, next.finished /\ ~line.finish, buffer, reply)
      BY <1>0, <1>1, <1>2, <2>1 DEF CallsRest
    <2> QED
      BY <1>2, <2>2, NoCallHeld
  <1>6. /\ PartsFollow(backend, said, reply) => PartsFollow(backend, next, reply)
        /\ UsageFollows(backend, said, NoSseLine, reply) => UsageFollows(backend, next, line, reply)
    BY <1>0, <1>1, <1>2, NoLine DEF PartsFollow, UsageFollows
  <1>7. Follows(backend, next, line, buffer, reply, spoilt)
    BY <1>3, <1>4, <1>5, <1>6 DEF Follows
  <1> QED
    BY <1>1, <1>2, <1>3, <1>7 DEF next, line

LEMMA SaysCounts ==
    ASSUME NEW backend, NEW said \in SaidSet, NEW buffer, NEW reply \in ReplySet, NEW spoilt,
           Numbered(said), said.finished, said.usage = "none", backend # "responses",
           Follows(backend, said, NoSseLine, buffer, reply, spoilt)
    PROVE  LET next == [said EXCEPT !.usage = "after"]
               line == SseLine(<<>>, <<>>, FALSE, TRUE)
           IN  /\ next \in SaidSet /\ line \in LineSet /\ Numbered(next)
               /\ Follows(backend, next, line, buffer, reply, spoilt)
  <1> DEFINE next == [said EXCEPT !.usage = "after"]
             line == SseLine(<<>>, <<>>, FALSE, TRUE)
  <1>1. /\ next \in SaidSet /\ next.text = said.text /\ next.calls = said.calls
        /\ next.usage = "after" /\ next.finished = TRUE
    <2> HIDE DEF CallSet
    <2> QED
      BY DEF SaidSet
  <1>2. line \in LineSet /\ line.text = <<>> /\ line.calls = <<>> /\ line.finish = FALSE /\ line.usage = TRUE
    BY EndLine
  <1> HIDE DEF next, line
  <1>3. Numbered(next) /\ LastSaid(next, line)
    BY <1>1, <1>2 DEF Numbered, LastSaid
  <1>4. TextFollows(said, NoSseLine, reply) => TextFollows(next, line, reply)
    BY <1>1, <1>2, NoLine DEF TextFollows
  <1>5. ASSUME CallsFollow(backend, said, NoSseLine, buffer, reply)
        PROVE  CallsFollow(backend, next, line, buffer, reply)
    <2>1. CallsRest(backend, said, TRUE, buffer, reply)
      BY <1>5, NoLine, NoCallHeld DEF CallsRest
    <2>2. CallsRest(backend, next, next.finished /\ ~line.finish, buffer, reply)
      BY <1>1, <1>2, <2>1 DEF CallsRest
    <2> QED
      BY <1>2, <2>2, NoCallHeld
  <1>6. /\ PartsFollow(backend, said, reply) => PartsFollow(backend, next, reply)
        /\ UsageFollows(backend, said, NoSseLine, reply) => UsageFollows(backend, next, line, reply)
    BY <1>1, <1>2, NoLine DEF PartsFollow, UsageFollows
  <1>7. Follows(backend, next, line, buffer, reply, spoilt)
    BY <1>3, <1>4, <1>5, <1>6 DEF Follows
  <1> QED
    BY <1>1, <1>2, <1>3, <1>7 DEF next, line

\* The first fragment of a call.
LEMMA SaysOpen ==
    ASSUME NEW backend, NEW said \in SaidSet, NEW buffer, NEW reply \in ReplySet, NEW spoilt,
           Numbered(said), ~said.finished, Len(said.calls) < MaxCalls,
           Follows(backend, said, NoSseLine, buffer, reply, spoilt)
    PROVE  LET c == ToolCall(Len(said.calls) + 1, <<1>>, <<>>)
               next == [said EXCEPT !.calls = Append(@, c)]
               line == SseLine(<<>>, <<c>>, FALSE, FALSE)
           IN  /\ next \in SaidSet /\ line \in LineSet /\ Numbered(next)
               /\ Follows(backend, next, line, buffer, reply, spoilt)
  <1> DEFINE n == Len(said.calls)
             c == ToolCall(n + 1, <<1>>, <<>>)
             next == [said EXCEPT !.calls = Append(@, c)]
             line == SseLine(<<>>, <<c>>, FALSE, FALSE)
  <1>1. said.calls \in Seq(CallSet) /\ n \in Nat /\ n + 1 \in 0 .. MaxCalls
    <2>1. said.calls \in Seq(CallSet)
      BY DEF SaidSet
    <2>2. n \in Nat
      BY <2>1, LenProperties
    <2> HIDE DEF CallSet
    <2> QED
      BY <2>1, <2>2, LlmAssumption
  <1>2. c \in CallSet /\ c.index = n + 1 /\ c.name = <<1>> /\ c.args = <<>>
    <2> DEFINE first == <<1>>
               none == <<>>
    <2>1. first \in Seq(Nat) /\ none \in Seq(Nat)
      OBVIOUS
    <2> DEFINE m == n + 1
    <2>2. c = ToolCall(m, first, none) /\ m \in 0 .. MaxCalls
      BY <1>1
    <2> HIDE DEF n, m, first, none, c
    <2>3. c \in CallSet /\ c.index = m /\ c.name = first /\ c.args = none
      BY <2>1, <2>2, ToolCallIn
    <2> QED
      BY <2>3 DEF first, none, m
  <1>3. /\ next \in SaidSet /\ next.text = said.text /\ next.calls = Append(said.calls, c)
        /\ next.usage = said.usage /\ next.finished = said.finished
    <2>1. Append(said.calls, c) \in Seq(CallSet)
      BY <1>1, <1>2, AppendProperties
    <2> HIDE DEF CallSet, c
    <2> QED
      BY <2>1 DEF SaidSet
  <1>4. line \in LineSet /\ line.text = <<>> /\ line.calls = <<c>> /\ line.finish = FALSE /\ line.usage = FALSE
    <2> HIDE DEF c
    <2> QED
      BY <1>2, CallLine
  <1>5. /\ Len(next.calls) = n + 1 /\ next.calls[n + 1] = c /\ next.calls # <<>>
        /\ \A i \in 1 .. n : next.calls[i] = said.calls[i]
    <2> HIDE DEF next, c
    <2> QED
      BY <1>1, <1>2, <1>3, AppendProperties
  <1>6. \A i \in 1 .. Len(said.calls) : said.calls[i].index # n + 1
    BY <1>1 DEF Numbered
  <1>7. LastCall(next.calls) = <<ToolCall(NoIndex, <<1>>, <<>>)>>
    <2> HIDE DEF next, c
    <2> QED
      BY <1>2, <1>5 DEF LastCall
  <1>8. \A b : Open(b, c) = <<ToolCall(NoIndex, <<1>>, <<>>)>>
    <2>1. <<1>> # <<>>
      OBVIOUS
    <2> HIDE DEF c
    <2> QED
      BY <1>2, <2>1 DEF Open
  <1> HIDE DEF next, line, c
  <1>9. Numbered(next) /\ LastSaid(next, line)
    <2>1. \A i \in 1 .. n + 1 : i \in 1 .. n \/ i = n + 1
      BY <1>1
    <2>2. \A i \in 1 .. n + 1 : next.calls[i].index = i /\ next.calls[i].name \in {<<1>>, <<1, 2>>}
      BY <1>2, <1>5, <2>1 DEF Numbered
    <2>3. Numbered(next)
      BY <1>3, <1>5, <2>2 DEF Numbered
    <2>4. LastSaid(next, line)
      BY <1>3, <1>4 DEF LastSaid
    <2> QED
      BY <2>3, <2>4
  <1>10. TextFollows(said, NoSseLine, reply) => TextFollows(next, line, reply)
    BY <1>3, <1>4, NoLine DEF TextFollows
  <1>11. ASSUME CallsFollow(backend, said, NoSseLine, buffer, reply)
         PROVE  CallsFollow(backend, next, line, buffer, reply)
    <2>1. CallsRest(backend, said, FALSE, buffer, reply)
      BY <1>11, NoLine, NoCallHeld DEF CallsRest
    <2>2. Merge(said.calls, c) = next.calls /\ Gather(said.calls, c) = next.calls
      BY <1>1, <1>2, <1>3, <1>6, MergeNew
    <2>3. Open(buffer, c) = LastCall(next.calls)
      BY <1>7, <1>8
    <2>4. /\ backend = "openai" => Merge(reply.calls, c) = next.calls
          /\ backend = "chat" =>
               /\ Gather(buffer, c) = next.calls
               /\ next.usage # "after" => reply.calls = <<>>
          /\ backend = "responses" =>
               /\ Open(buffer, c) = LastCall(next.calls)
               /\ next.usage # "after" /\ reply.calls = <<>>
      BY <1>3, <2>1, <2>2, <2>3 DEF CallsRest
    <2> QED
      BY <1>3, <1>4, <2>4, CallHeld
  <1>12. /\ PartsFollow(backend, said, reply) => PartsFollow(backend, next, reply)
         /\ UsageFollows(backend, said, NoSseLine, reply) => UsageFollows(backend, next, line, reply)
    <2>1. Len(reply.calls) \in Nat
      BY LenProperties DEF ReplySet
    <2>2. Len(reply.calls) <= n => Len(reply.calls) <= n + 1 /\ \A i \in 1 .. Len(reply.calls) : i \in 1 .. n
      BY <1>1, <2>1
    <2> QED
      BY <1>3, <1>4, <1>5, <2>2, NoLine DEF PartsFollow, UsageFollows
  <1>13. Follows(backend, next, line, buffer, reply, spoilt)
    BY <1>9, <1>10, <1>11, <1>12 DEF Follows
  <1> QED
    BY <1>3, <1>4, <1>9, <1>13 DEF next, line, c

LEMMA PrefixOfLonger ==
    ASSUME NEW s \in Seq(Nat), NEW t \in Seq(Nat)
    PROVE  IsPrefix(s, s \o t) /\ IsPrefix(s, s)
  <1>1. Len(s) \in Nat /\ Len(s \o t) = Len(s) + Len(t) /\ Len(t) \in Nat
    BY ConcatProperties, LenProperties
  <1>2. SubSeq(s \o t, 1, Len(s)) = SubSeq(s, 1, Len(s))
    <2>1. CASE s = <<>>
      BY <1>1, <2>1, SubSeqEmpty
    <2>2. CASE s # <<>>
      <3>1. 1 \in 1 .. Len(s) /\ Len(s) \in 1 .. Len(s)
        BY <2>2, EmptySeq
      <3> QED
        BY <3>1, SubSeqOfConcat1
    <2> QED
      BY <2>1, <2>2
  <1> QED
    BY <1>1, <1>2 DEF IsPrefix

LEMMA NumberedDistinct ==
    ASSUME NEW said, Numbered(said)
    PROVE  Distinct(said.calls)
  BY DEF Numbered, Distinct

\* Another fragment of the call that is open, of its name or of its arguments.
LEMMA SaysMore ==
    ASSUME NEW backend, NEW said \in SaidSet, NEW buffer, NEW reply \in ReplySet, NEW spoilt, NEW next \in SaidSet,
           NEW n \in Nat, n = Len(said.calls), n > 0, NEW x \in Seq(Nat), NEW y \in Seq(Nat),
           x = <<>> \/ backend = "chat", said.calls[n].name \o x \in {<< 1 >>, << 1, 2 >>},
           next.text = said.text, next.usage = said.usage, next.finished = said.finished,
           next.calls = Replaced(said.calls, n, ToolCall(n, said.calls[n].name \o x, said.calls[n].args \o y)),
           Numbered(said), ~said.finished, Follows(backend, said, NoSseLine, buffer, reply, spoilt)
    PROVE  LET line == SseLine(<<>>, <<ToolCall(n, x, y)>>, FALSE, FALSE)
           IN  /\ line \in LineSet /\ Numbered(next)
               /\ Follows(backend, next, line, buffer, reply, spoilt)
  <1> DEFINE c == ToolCall(n, x, y)
             cur == said.calls[n]
             new == ToolCall(n, cur.name \o x, cur.args \o y)
             line == SseLine(<<>>, <<c>>, FALSE, FALSE)
  <1>1. said.calls \in Seq(CallSet) /\ n \in 1 .. Len(said.calls)
    BY DEF SaidSet
  <1>2. /\ cur \in CallSet /\ cur.index = n /\ n \in 0 .. MaxCalls
        /\ cur.name \in Seq(Nat) /\ cur.args \in Seq(Nat)
    <2>1. cur \in CallSet /\ cur.index = n
      BY <1>1, ElementOfSeq DEF Numbered
    <2> HIDE DEF cur
    <2> QED
      BY <2>1, CallFields
  <1>3. c \in CallSet /\ c.index = n /\ c.name = x /\ c.args = y
    BY <1>2, ToolCallIn
  <1>4. new \in CallSet /\ new.index = n /\ new.name = cur.name \o x /\ new.args = cur.args \o y
    <2> DEFINE name == cur.name \o x
               args == cur.args \o y
    <2>1. name \in Seq(Nat) /\ args \in Seq(Nat)
      BY <1>2, ConcatProperties
    <2>2. new = ToolCall(n, name, args)
      OBVIOUS
    <2> HIDE DEF new, name, args
    <2>3. new \in CallSet /\ new.index = n /\ new.name = name /\ new.args = args
      BY <1>2, <2>1, <2>2, ToolCallIn
    <2> QED
      BY <2>3 DEF name, args
  <1>5. line \in LineSet /\ line.text = <<>> /\ line.calls = <<c>> /\ line.finish = FALSE /\ line.usage = FALSE
    <2> HIDE DEF c
    <2> QED
      BY <1>3, CallLine
  <1>6. /\ Len(next.calls) = n /\ next.calls # <<>> /\ next.calls[n] = new
        /\ \A i \in 1 .. n : next.calls[i] = IF i = n THEN new ELSE said.calls[i]
    <2>1. next.calls = Replaced(said.calls, n, new)
      OBVIOUS
    <2> HIDE DEF new
    <2>2. /\ Len(next.calls) = n
          /\ \A i \in 1 .. n : next.calls[i] = IF i = n THEN new ELSE said.calls[i]
      <3> DEFINE put == Replaced(said.calls, n, new)
      <3>1. \A calls \in Seq(CallSet) : \A k \in 1 .. Len(calls) :
               /\ Len(Replaced(calls, k, new)) = Len(calls)
               /\ \A i \in 1 .. Len(calls) : Replaced(calls, k, new)[i] = IF i = k THEN new ELSE calls[i]
        BY <1>4, ReplacedIn
      <3>3. /\ Len(put) = Len(said.calls)
            /\ \A i \in 1 .. Len(said.calls) : put[i] = IF i = n THEN new ELSE said.calls[i]
        BY <1>1, <3>1, Zenon
      <3> HIDE DEF put
      <3>2. next.calls = put
        BY <2>1 DEF put
      <3> QED
        BY <3>2, <3>3
    <2>3. Len(next.calls) # 0 /\ n \in 1 .. n
      BY <2>2
    <2> QED
      BY <2>2, <2>3
  <1>7. (IF c.name = <<>> THEN cur.name ELSE c.name) = cur.name \o x \/ backend = "chat"
    <2>1. x = <<>> => cur.name \o x = cur.name
      <3> HIDE DEF cur
      <3> QED
        BY <1>2, ConcatEmptySeq
    <2> QED
      BY <1>3, <2>1, Zenon
  <1>8. LastCall(next.calls) = <<ToolCall(NoIndex, cur.name \o x, cur.args \o y)>>
        /\ LastCall(said.calls) = <<ToolCall(NoIndex, cur.name, cur.args)>>
    <2>1. said.calls # <<>>
      BY <1>1
    <2> HIDE DEF new
    <2> QED
      BY <1>4, <1>6, <2>1, Zenon DEF LastCall
  <1>9. ASSUME x = <<>> PROVE Open(LastCall(said.calls), c) = LastCall(next.calls)
    <2> DEFINE kept == ToolCall(NoIndex, cur.name, cur.args)
               args == cur.args \o y
    <2>1. cur.name \o x = cur.name
      BY <1>2, <1>9, ConcatEmptySeq
    <2>2. kept \in CallSet /\ kept.index = NoIndex /\ kept.args = cur.args /\ kept.name = cur.name
      <3>1. NoIndex \in 0 .. MaxCalls
        BY LlmAssumption DEF NoIndex
      <3> HIDE DEF cur
      <3> QED
        BY <1>2, <3>1, ToolCallIn
    <2>3. [kept EXCEPT !.args = @ \o c.args] = ToolCall(NoIndex, cur.name, args)
      <3>1. args \in Seq(Nat) /\ args = kept.args \o c.args
        BY <1>2, <1>3, <2>2, ConcatProperties
      <3> DEFINE longer == [kept EXCEPT !.args = args]
      <3>2. longer \in CallSet /\ longer.index = NoIndex /\ longer.name = cur.name /\ longer.args = args
        <4> HIDE DEF kept, args, cur
        <4> QED
          BY <2>2, <3>1 DEF CallSet
      <3> HIDE DEF longer, args, cur, kept
      <3>3. longer = ToolCall(NoIndex, cur.name, args)
        BY <3>2, CallFields
      <3> QED
        BY <3>1, <3>3 DEF longer
    <2>4. Open(<<kept>>, c) = <<[kept EXCEPT !.args = @ \o c.args]>>
      <3> DEFINE b == <<kept>>
      <3>1. DOMAIN b = {1} /\ b[1] = kept
        OBVIOUS
      <3>2. Open(b, c) = [i \in {1} |-> [b[i] EXCEPT !.args = @ \o c.args]]
        <4> HIDE DEF b, c
        <4> QED
          BY <1>3, <1>9, <3>1 DEF Open
      <3>3. \A v : [i \in {1} |-> v] = <<v>>
        OBVIOUS
      <3>4. Open(b, c) = [i \in {1} |-> [kept EXCEPT !.args = @ \o c.args]]
        <4> HIDE DEF kept, c, b
        <4> QED
          BY <3>1, <3>2
      <3> HIDE DEF kept, c
      <3> QED
        BY <3>3, <3>4
    <2> QED
      BY <1>8, <2>1, <2>3, <2>4, Zenon
  <1> HIDE DEF line, c, new, cur
  <1>10. Numbered(next) /\ LastSaid(next, line)
    <2>1. \A i \in 1 .. n : next.calls[i].index = i /\ next.calls[i].name \in {<<1>>, <<1, 2>>}
      BY <1>4, <1>6 DEF Numbered, cur
    <2>2. Numbered(next)
      BY <1>6, <2>1, Zenon DEF Numbered
    <2>3. LastSaid(next, line)
      BY <1>5 DEF LastSaid
    <2> QED
      BY <2>2, <2>3
  <1>11. TextFollows(said, NoSseLine, reply) => TextFollows(next, line, reply)
    BY <1>5, NoLine DEF TextFollows
  <1>12. ASSUME CallsFollow(backend, said, NoSseLine, buffer, reply)
         PROVE  /\ CallsFollow(backend, next, line, buffer, reply)
                /\ CallsRest(backend, said, FALSE, buffer, reply)
    <2>1. CallsRest(backend, said, FALSE, buffer, reply)
      BY <1>12, NoLine, NoCallHeld DEF CallsRest
    <2>2. backend # "chat" => Merge(said.calls, c) = next.calls
      <3>1. Merge(said.calls, c) = Replaced(said.calls, n, ToolCall(c.index, IF c.name = <<>> THEN cur.name ELSE c.name,
                                                    cur.args \o c.args))
        BY <1>1, <1>2, <1>3, NumberedDistinct, MergeOld DEF cur
      <3> QED
        BY <1>3, <1>7, <3>1 DEF cur, new
    <2>3. Gather(said.calls, c) = next.calls
      <3>1. Gather(said.calls, c) = Replaced(said.calls, n, ToolCall(c.index, cur.name \o c.name, cur.args \o c.args))
        BY <1>1, <1>2, <1>3, NumberedDistinct, GatherOld DEF cur
      <3> QED
        BY <1>3, <3>1 DEF cur
    <2> QED
      BY <1>5, <1>9, <2>1, <2>2, <2>3, CallHeld DEF CallsRest
  <1>13. ASSUME CallsRest(backend, said, FALSE, buffer, reply)
         PROVE  PartsFollow(backend, next, reply)
    <2>1. SUFFICES ASSUME backend = "openai" PROVE PartsFollow(backend, next, reply)
      BY DEF PartsFollow
    <2>2. reply.calls = said.calls
      BY <1>13, <2>1 DEF CallsRest
    <2>3. ASSUME NEW i \in 1 .. n
          PROVE  said.calls[i].name = next.calls[i].name /\ IsPrefix(said.calls[i].args, next.calls[i].args)
      <3>1. CASE i = n
        <4>1. IsPrefix(cur.args, cur.args \o y)
          BY <1>2, PrefixOfLonger
        <4>2. cur.name = new.name
          BY <1>2, <1>4, <2>1, ConcatEmptySeq
        <4> QED
          BY <1>4, <1>6, <3>1, <4>1, <4>2, Zenon DEF cur
      <3>2. CASE i # n
        <4>1. said.calls[i].args \in Seq(Nat)
          BY <1>1, ElementOfSeq, CallFields
        <4> QED
          BY <1>6, <3>2, <4>1, PrefixOfLonger
      <3> QED
        BY <3>1, <3>2, Zenon
    <2>4. Len(reply.calls) = n /\ Len(next.calls) = n /\ n <= n
      BY <1>6, <2>2
    <2> QED
      BY <2>2, <2>3, <2>4 DEF PartsFollow
  <1>14. UsageFollows(backend, said, NoSseLine, reply) => UsageFollows(backend, next, line, reply)
    BY <1>5, NoLine DEF UsageFollows
  <1>15. Follows(backend, next, line, buffer, reply, spoilt)
    BY <1>10, <1>11, <1>12, <1>13, <1>14 DEF Follows
  <1> QED
    BY <1>5, <1>10, <1>15 DEF line, c

-----------------------------------------------------------------------------
\* What the backend keeps of a line, and the agent loop of the chunk.
LEMMA KeptFolds ==
    ASSUME NEW base \in DistinctLists, NEW line \in LineSet
    PROVE  /\ FoldLeft(Merge, base, line.calls) \in DistinctLists
           /\ FoldLeft(Gather, base, line.calls) \in DistinctLists
           /\ FoldLeft(Open, base, line.calls) \in DistinctLists
  <1>1. CASE line.calls = <<>>
    <2>1. /\ FoldLeft(Merge, base, line.calls) = base /\ FoldLeft(Gather, base, line.calls) = base
          /\ FoldLeft(Open, base, line.calls) = base
      BY <1>1, FoldNoneMerge, FoldNoneGather, FoldNoneOpen
    <2> QED
      BY <2>1
  <1>2. CASE line.calls # <<>>
    <2>1. PICK c \in CallSet : line.calls = <<c>>
      BY <1>2, LineFields
    <2>2. /\ FoldLeft(Merge, base, line.calls) = Merge(base, c) /\ FoldLeft(Gather, base, line.calls) = Gather(base, c)
          /\ FoldLeft(Open, base, line.calls) = Open(base, c)
      BY <2>1, FoldOneMerge, FoldOneGather, FoldOneOpen
    <2>3. base \in Seq(CallSet) /\ Distinct(base)
      BY DEF DistinctLists
    <2>4. /\ Merge(base, c) \in DistinctLists /\ Gather(base, c) \in DistinctLists
          /\ Open(base, c) \in DistinctLists
      BY <2>3, MergeKeeps, OpenKeeps DEF DistinctLists
    <2> QED
      BY <2>2, <2>4
  <1> QED
    BY <1>1, <1>2

LEMMA EmptyList == <<>> \in DistinctLists
  <1> HIDE DEF CallSet
  <1> QED
    BY DEF DistinctLists, Distinct

LEMMA BufferedKept ==
    ASSUME StreamTyped, NEW line \in LineSet
    PROVE  /\ Buffered(line) \in DistinctLists
           /\ llmBackend = "chat" => Buffered(line) = FoldLeft(Gather, llmBuffer, line.calls)
           /\ llmBackend = "responses" => Buffered(line) = FoldLeft(Open, llmBuffer, line.calls)
  <1>1. llmBuffer \in DistinctLists /\ llmBackend \in {"chat", "responses", "openai"}
    BY DEF StreamTyped
  <1> QED
    BY <1>1, KeptFolds, EmptyList DEF Buffered

Digested(line) == FoldLeft(Consume, llmReply, Yielded(line))

\* The text of a reply and one more word of it, unless the word is taken for a repetition.
AppendText(text, more) == IF RepeatsText(text, more) THEN text ELSE text \o more

\* A chunk with a text carries nothing else, so that nothing else is skipped with it.
LEMMA Consumed ==
    ASSUME NEW reply \in ReplySet, NEW text, NEW calls, NEW usage,
           text # <<>> => calls = <<>> /\ usage = FALSE
    PROVE  Consume(reply, Chunk(text, calls, usage)) =
             [text |-> AppendText(reply.text, text), calls |-> FoldLeft(Merge, reply.calls, calls),
              usage |-> reply.usage \/ usage]
  <1>1. /\ Chunk(text, calls, usage).text = text /\ Chunk(text, calls, usage).calls = calls
        /\ Chunk(text, calls, usage).usage = usage
    BY DEF Chunk
  <1>2. CASE RepeatsText(reply.text, text)
    <2>1. calls = <<>> /\ usage = FALSE
      BY <1>2 DEF RepeatsText
    <2>2. FoldLeft(Merge, reply.calls, calls) = reply.calls
      BY <2>1, FoldNoneMerge
    <2>3. /\ reply = [text |-> reply.text, calls |-> reply.calls, usage |-> reply.usage]
          /\ (reply.usage \/ usage) = reply.usage
      BY <2>1 DEF ReplySet
    <2>4. Consume(reply, Chunk(text, calls, usage)) = reply
      BY <1>1, <1>2 DEF Consume
    <2> QED
      BY <1>2, <2>2, <2>3, <2>4 DEF AppendText
  <1>3. CASE ~RepeatsText(reply.text, text)
    BY <1>1, <1>3 DEF Consume, AppendText
  <1> QED
    BY <1>2, <1>3

\* The reply once the chunk of a line is consumed.
LEMMA DigestedFields ==
    ASSUME StreamTyped, NEW line \in LineSet
    PROVE  Digested(line) =
             [text |-> AppendText(llmReply.text, line.text),
              calls |-> IF llmBackend = "openai" THEN FoldLeft(Merge, llmReply.calls, line.calls)
                        ELSE IF Terminal(line) THEN FoldLeft(Merge, llmReply.calls, Buffered(line))
                        ELSE llmReply.calls,
              usage |-> llmReply.usage \/ (llmBackend # "openai" /\ line.usage)]
  <1> DEFINE reply == llmReply
  <1>1. /\ reply = [text |-> reply.text, calls |-> reply.calls, usage |-> reply.usage] /\ reply.usage \in BOOLEAN
        /\ reply \in ReplySet
    BY DEF StreamTyped, ReplySet
  <1>2. AppendText(reply.text, <<>>) = reply.text /\ FoldLeft(Merge, reply.calls, <<>>) = reply.calls
    <2>1. reply.text \o <<>> = reply.text
      BY <1>1, ConcatEmptySeq DEF ReplySet, Texts
    <2> QED
      BY <2>1, FoldNoneMerge DEF AppendText, RepeatsText
  <1>3. /\ FoldLeft(Consume, reply, <<>>) = reply
        /\ \A chunk : FoldLeft(Consume, reply, <<chunk>>) = Consume(reply, chunk)
    BY FoldNoneConsume, FoldOneConsume
  <1>4. /\ line.finish \in BOOLEAN /\ line.usage \in BOOLEAN
        /\ line.text # <<>> => line.calls = <<>> /\ ~line.finish /\ ~line.usage
        /\ line.calls # <<>> => line.text = <<>> /\ ~line.finish /\ ~line.usage
    BY LineFields
  <1> HIDE DEF reply
  <1>5. CASE llmBackend = "openai"
    <2>1. CASE line.usage /\ ~line.finish
      <3>1. Yielded(line) = <<>>
        BY <1>5, <2>1 DEF Yielded
      <3>2. line.text = <<>> /\ line.calls = <<>>
        BY <1>4, <2>1
      <3> QED
        BY <1>1, <1>2, <1>3, <1>5, <3>1, <3>2 DEF Digested, reply
    <2>2. CASE ~(line.usage /\ ~line.finish)
      <3>1. Yielded(line) = <<Chunk(line.text, line.calls, FALSE)>>
        BY <1>5, <2>2 DEF Yielded
      <3>2. Digested(line) = Consume(reply, Chunk(line.text, line.calls, FALSE))
        BY <1>3, <3>1 DEF Digested, reply
      <3>3. Consume(reply, Chunk(line.text, line.calls, FALSE))
              = [text |-> AppendText(reply.text, line.text),
                 calls |-> FoldLeft(Merge, reply.calls, line.calls), usage |-> reply.usage \/ FALSE]
        BY <1>1, <1>4, Consumed
      <3>4. (reply.usage \/ FALSE) = (reply.usage \/ (llmBackend # "openai" /\ line.usage))
        BY <1>5
      <3> QED
        BY <1>5, <3>2, <3>3, <3>4 DEF reply
    <2> QED
      BY <2>1, <2>2
  <1>6. CASE llmBackend # "openai" /\ line.text # <<>>
    <2>1. Yielded(line) = <<Chunk(line.text, <<>>, FALSE)>>
      BY <1>6 DEF Yielded
    <2>2. Digested(line) = Consume(reply, Chunk(line.text, <<>>, FALSE))
      BY <1>3, <2>1 DEF Digested, reply
    <2>3. ~Terminal(line) /\ ~line.usage
      BY <1>4, <1>6 DEF Terminal
    <2>4. Consume(reply, Chunk(line.text, <<>>, FALSE))
            = [text |-> AppendText(reply.text, line.text),
               calls |-> FoldLeft(Merge, reply.calls, <<>>), usage |-> reply.usage \/ FALSE]
      BY <1>1, Consumed
    <2>5. (reply.usage \/ FALSE) = (reply.usage \/ (llmBackend # "openai" /\ line.usage))
      BY <2>3
    <2> QED
      BY <1>2, <1>6, <2>2, <2>3, <2>4, <2>5 DEF reply
  <1>7. CASE llmBackend # "openai" /\ line.text = <<>> /\ Terminal(line)
    <2>1. Yielded(line) = <<Chunk(<<>>, Buffered(line), line.usage)>>
      BY <1>7 DEF Yielded
    <2>2. Digested(line) = Consume(reply, Chunk(<<>>, Buffered(line), line.usage))
      BY <1>3, <2>1 DEF Digested, reply
    <2>3. Consume(reply, Chunk(<<>>, Buffered(line), line.usage))
            = [text |-> AppendText(reply.text, <<>>),
               calls |-> FoldLeft(Merge, reply.calls, Buffered(line)), usage |-> reply.usage \/ line.usage]
      BY <1>1, Consumed
    <2>4. (reply.usage \/ line.usage) = (reply.usage \/ (llmBackend # "openai" /\ line.usage))
      BY <1>1, <1>4, <1>7
    <2> QED
      BY <1>7, <2>2, <2>3, <2>4 DEF reply
  <1>8. CASE llmBackend # "openai" /\ line.text = <<>> /\ ~Terminal(line)
    <2>1. Yielded(line) = <<>>
      BY <1>8 DEF Yielded
    <2>2. ~line.usage
      BY <1>8 DEF Terminal
    <2> QED
      BY <1>1, <1>2, <1>3, <1>8, <2>1, <2>2 DEF Digested, reply
  <1> QED
    BY <1>5, <1>6, <1>7, <1>8

LEMMA AppendTextIn ==
    ASSUME NEW text \in Texts, NEW line \in LineSet
    PROVE  AppendText(text, line.text) \in Texts
  <1>1. CASE line.text = <<>>
    BY <1>1, ConcatEmptySeq DEF AppendText, RepeatsText, Texts
  <1>2. CASE line.text # <<>>
    <2>1. PICK w \in Words \cup {Garbled} : line.text = <<w>>
      BY <1>2, LineFields
    <2>2. line.text \in Texts
      BY <2>1 DEF Texts
    <2> QED
      BY <2>2, ConcatProperties DEF AppendText, Texts
  <1> QED
    BY <1>1, <1>2

LEMMA DigestedIn ==
    ASSUME StreamTyped, NEW line \in LineSet
    PROVE  Digested(line) \in ReplySet /\ Digested(line).calls \in DistinctLists
  <1>1. /\ llmReply.text \in Texts /\ llmReply.calls \in DistinctLists /\ llmReply.usage \in BOOLEAN
    BY DEF StreamTyped, ReplySet
  <1>2. AppendText(llmReply.text, line.text) \in Texts
    BY <1>1, AppendTextIn
  <1>3. /\ FoldLeft(Merge, llmReply.calls, line.calls) \in DistinctLists
        /\ FoldLeft(Merge, llmReply.calls, Buffered(line)) \in DistinctLists
    BY <1>1, KeptFolds, BufferedKept, MergeAll
  <1>4. DistinctLists \subseteq Seq(CallSet)
    BY DEF DistinctLists
  <1>5. line.usage \in BOOLEAN
    BY LineFields
  <1> DEFINE calls == IF llmBackend = "openai" THEN FoldLeft(Merge, llmReply.calls, line.calls)
                      ELSE IF Terminal(line) THEN FoldLeft(Merge, llmReply.calls, Buffered(line))
                      ELSE llmReply.calls
             usage == llmReply.usage \/ (llmBackend # "openai" /\ line.usage)
             text == AppendText(llmReply.text, line.text)
  <1>6. calls \in DistinctLists /\ usage \in BOOLEAN /\ text \in Texts
    BY <1>1, <1>2, <1>3, <1>5
  <1>7. Digested(line) = [text |-> text, calls |-> calls, usage |-> usage]
    BY DigestedFields
  <1> HIDE DEF calls, usage, text, CallSet
  <1> QED
    BY <1>4, <1>6, <1>7 DEF ReplySet

LEMMA AppendTextFollows ==
    ASSUME NEW text \in Texts, NEW line \in LineSet, ~Doubled(text \o line.text)
    PROVE  AppendText(text, line.text) = text \o line.text
  <1>1. CASE line.text = <<>>
    BY <1>1 DEF AppendText, RepeatsText
  <1>2. CASE line.text # <<>>
    <2>1. PICK w \in Words \cup {Garbled} : line.text = <<w>>
      BY <1>2, LineFields
    <2> DEFINE longer == text \o <<w>>
               n == Len(text)
    <2>2. /\ n \in Nat /\ DOMAIN longer = 1 .. n + 1
          /\ \A i \in 1 .. n : longer[i] = text[i]
          /\ longer[n + 1] = w
      <3>1. <<w>> \in Texts /\ Len(<<w>>) = 1 /\ <<w>>[1] = w
        BY DEF Texts
      <3>2. longer \in Texts /\ Len(longer) = n + 1
        BY <3>1, ConcatProperties DEF Texts
      <3> QED
        BY <3>1, <3>2, ConcatProperties, LenProperties DEF Texts
    <2>3. ~(text # <<>> /\ Last(text) = w)
      <3>1. SUFFICES ASSUME text # <<>>, Last(text) = w PROVE Doubled(longer)
        BY <2>1
      <3>2. n # 0
        BY <3>1 DEF Texts
      <3>3. n + 1 \in DOMAIN longer /\ n + 1 > 1 /\ n + 1 - 1 = n /\ n \in 1 .. n
        BY <2>2, <3>2
      <3>4. longer[n + 1] = longer[n + 1 - 1]
        BY <2>2, <3>1, <3>3 DEF Last
      <3> HIDE DEF longer, n
      <3> QED
        BY <3>3, <3>4 DEF Doubled
    <2>4. line.text[1] = w
      BY <2>1
    <2> QED
      BY <1>2, <2>3, <2>4 DEF AppendText, RepeatsText
  <1> QED
    BY <1>1, <1>2

\* Nothing is lost and nothing comes twice.
LEMMA Digest ==
    ASSUME StreamTyped, NEW said \in SaidSet, NEW line \in LineSet, NEW spoilt,
           Follows(llmBackend, said, line, llmBuffer, llmReply, spoilt)
    PROVE  Follows(llmBackend, said, NoSseLine, Buffered(line), Digested(line), spoilt)
  <1> DEFINE kept == Buffered(line)
             reply == Digested(line)
  <1>1. /\ reply.text = AppendText(llmReply.text, line.text)
        /\ llmBackend = "openai" => reply.calls = FoldLeft(Merge, llmReply.calls, line.calls)
        /\ llmBackend # "openai" => reply.calls = IF Terminal(line) THEN FoldLeft(Merge, llmReply.calls, kept)
                                                  ELSE llmReply.calls
        /\ reply.usage <=> llmReply.usage \/ (llmBackend # "openai" /\ line.usage)
    <2> DEFINE calls == IF llmBackend = "openai" THEN FoldLeft(Merge, llmReply.calls, line.calls)
                        ELSE IF Terminal(line) THEN FoldLeft(Merge, llmReply.calls, kept)
                        ELSE llmReply.calls
               usage == llmReply.usage \/ (llmBackend # "openai" /\ line.usage)
               text == AppendText(llmReply.text, line.text)
    <2>1. reply = [text |-> text, calls |-> calls, usage |-> usage]
      BY DigestedFields
    <2>2. reply.text = text /\ reply.calls = calls /\ reply.usage = usage
      <3> HIDE DEF reply, text, calls, usage
      <3> QED
        BY <2>1
    <2> HIDE DEF reply, kept
    <2> QED
      BY <2>2
  <1>2. /\ kept \in DistinctLists
        /\ llmBackend = "chat" => kept = FoldLeft(Gather, llmBuffer, line.calls)
        /\ llmBackend = "responses" => kept = FoldLeft(Open, llmBuffer, line.calls)
    BY BufferedKept
  <1>3. /\ llmReply \in ReplySet /\ llmReply.text \in Texts /\ reply \in ReplySet /\ reply.text \in Texts
        /\ llmBackend \in {"chat", "responses", "openai"}
    BY DigestedIn DEF StreamTyped, ReplySet
  <1>4. FoldLeft(Merge, <<>>, kept) = kept
    BY <1>2, EmptyList, MergeAll
  <1>5. LastSaid(said, line)
    BY DEF Follows
  <1> HIDE DEF kept, reply
  <1>6. LastSaid(said, NoSseLine)
    BY NoLine DEF LastSaid
  <1>7. ASSUME TextFollows(said, line, llmReply) PROVE TextFollows(said, NoSseLine, reply)
    <2>1. SUFFICES ASSUME ~Doubled(said.text) PROVE said.text = reply.text \o <<>>
      BY NoLine DEF TextFollows
    <2>2. said.text = llmReply.text \o line.text
      BY <1>7, <2>1 DEF TextFollows
    <2>3. reply.text = said.text
      BY <1>1, <1>3, <2>1, <2>2, AppendTextFollows
    <2> QED
      BY <1>3, <2>3, ConcatEmptySeq DEF Texts
  <1>8. ASSUME CallsFollow(llmBackend, said, line, llmBuffer, llmReply)
        PROVE  CallsRest(llmBackend, said, said.finished, kept, reply)
    <2>1. CASE llmBackend = "openai"
      BY <1>1, <1>8, <2>1 DEF CallsFollow, CallsRest
    <2>2. said.usage # "after" => (Terminal(line) <=> line.finish)
      BY <1>5 DEF Terminal, LastSaid
    <2>3. line.finish => said.finished
      BY <1>5 DEF LastSaid
    <2>4. CASE llmBackend = "chat"
      <3>1. kept = said.calls
        BY <1>2, <1>8, <2>4 DEF CallsFollow
      <3>2. ASSUME said.usage # "after" PROVE reply.calls = IF said.finished THEN said.calls ELSE <<>>
        <4>1. llmReply.calls = IF said.finished /\ ~line.finish THEN said.calls ELSE <<>>
          BY <1>8, <2>4, <3>2 DEF CallsFollow
        <4>2. reply.calls = IF line.finish THEN FoldLeft(Merge, llmReply.calls, kept) ELSE llmReply.calls
          BY <1>1, <2>2, <2>4, <3>2
        <4>3. CASE line.finish
          BY <1>4, <2>3, <3>1, <4>1, <4>2, <4>3
        <4>4. CASE ~line.finish
          BY <4>1, <4>2, <4>4
        <4> QED
          BY <4>3, <4>4
      <3> QED
        BY <2>4, <3>1, <3>2 DEF CallsRest
    <2>5. CASE llmBackend = "responses"
      <3>1. kept = LastCall(said.calls) /\ said.usage # "after"
        BY <1>2, <1>8, <2>5 DEF CallsFollow
      <3>2. reply.calls = IF said.finished THEN LastCall(said.calls) ELSE <<>>
        <4>1. llmReply.calls = IF said.finished /\ ~line.finish THEN LastCall(said.calls) ELSE <<>>
          BY <1>8, <2>5 DEF CallsFollow
        <4>2. reply.calls = IF line.finish THEN FoldLeft(Merge, llmReply.calls, kept) ELSE llmReply.calls
          BY <1>1, <2>2, <2>5, <3>1
        <4>3. CASE line.finish
          BY <1>4, <2>3, <3>1, <4>1, <4>2, <4>3
        <4>4. CASE ~line.finish
          BY <4>1, <4>2, <4>4
        <4> QED
          BY <4>3, <4>4
      <3> QED
        BY <2>5, <3>1, <3>2 DEF CallsRest
    <2> QED
      BY <1>3, <2>1, <2>4, <2>5
  <1>9. CallsRest(llmBackend, said, said.finished, kept, reply)
          => /\ CallsFollow(llmBackend, said, NoSseLine, kept, reply)
             /\ PartsFollow(llmBackend, said, reply)
    <2>1. SUFFICES ASSUME CallsRest(llmBackend, said, said.finished, kept, reply)
                   PROVE  /\ CallsFollow(llmBackend, said, NoSseLine, kept, reply)
                          /\ PartsFollow(llmBackend, said, reply)
      OBVIOUS
    <2>2. said.finished \in BOOLEAN /\ said.calls \in Seq(CallSet)
      BY DEF SaidSet
    <2>3. CallsRest(llmBackend, said, said.finished /\ ~NoSseLine.finish, kept, reply)
      BY <2>1, <2>2, NoLine DEF CallsRest
    <2>4. CallsFollow(llmBackend, said, NoSseLine, kept, reply)
      BY <2>3, NoLine, NoCallHeld
    <2>5. \A i \in 1 .. Len(said.calls) : IsPrefix(said.calls[i].args, said.calls[i].args)
      <3>1. \A i \in 1 .. Len(said.calls) : said.calls[i].args \in Seq(Nat)
        BY <2>2, ElementOfSeq, CallFields
      <3> QED
        BY <3>1, PrefixOfLonger
    <2>6. Len(said.calls) \in Nat
      BY <2>2, LenProperties
    <2>7. PartsFollow(llmBackend, said, reply)
      BY <2>1, <2>5, <2>6 DEF CallsRest, PartsFollow
    <2> QED
      BY <2>4, <2>7
  <1>10. UsageFollows(llmBackend, said, line, llmReply) => UsageFollows(llmBackend, said, NoSseLine, reply)
    BY <1>1, <1>5, NoLine DEF UsageFollows, LastSaid
  <1>11. Follows(llmBackend, said, NoSseLine, kept, reply, spoilt)
    BY <1>6, <1>7, <1>8, <1>9, <1>10 DEF Follows
  <1> QED
    BY <1>11 DEF kept, reply

-----------------------------------------------------------------------------
\* What no call is half and the reply is exact say, of a reply that is not the present one.
NoneIsHalf(backend, said, reply, spoilt) ==
    ~(backend = "responses" /\ "line" \in spoilt) /\ "call" \notin spoilt
      /\ ~(backend = "chat" /\ said.usage = "after") =>
        \A i \in DOMAIN reply.calls : \E j \in DOMAIN said.calls :
            IF backend = "openai"
            THEN IsPrefix(reply.calls[i].args, said.calls[j].args) /\ reply.calls[i].name = said.calls[j].name
            ELSE reply.calls[i].args = said.calls[j].args /\ reply.calls[i].name = said.calls[j].name

IsExact(backend, said, reply, spoilt) ==
    ~(backend = "responses" /\ "line" \in spoilt) =>
        /\ "text" \notin spoilt /\ ~Doubled(said.text) => reply.text = said.text
        /\ "call" \notin spoilt /\ ~(backend = "chat" /\ said.usage = "after")
           /\ ~(backend = "responses" /\ reply.calls # <<>> /\ Len(said.calls) > 1)
              => Told(reply.calls) = Told(said.calls)
        /\ backend # "openai" => (reply.usage <=> said.usage # "none")

LEMMA HalfThen == /\ NoCallIsHalf <=> NoneIsHalf(llmBackend, llmSaid, llmReply, llmSpoilt)
                  /\ NoCallIsHalf' <=> NoneIsHalf(llmBackend', llmSaid', llmReply', llmSpoilt')
  BY DEF NoCallIsHalf, NoneIsHalf, TornLines, CutCalls, LateCounts

LEMMA ExactThen ==
    /\ IsExact(llmBackend, llmSaid, llmReply, llmSpoilt) => ReplyIsExact
    /\ IsExact(llmBackend', llmSaid', llmReply', llmSpoilt') => ReplyIsExact'
    /\ ~ReplyIsOver' => ReplyIsExact'
  BY DEF ReplyIsExact, IsExact, TornLines, LateCounts, CutWords, CutCalls, Repeats, Doubled, SecondCall, Opened

LEMMA LastCallOf ==
    ASSUME NEW calls \in Seq(CallSet)
    PROVE  \/ calls = <<>> /\ LastCall(calls) = <<>>
           \/ /\ calls # <<>> /\ Len(calls) \in 1 .. Len(calls) /\ DOMAIN LastCall(calls) = {1}
              /\ LastCall(calls)[1].name = calls[Len(calls)].name
              /\ LastCall(calls)[1].args = calls[Len(calls)].args
  <1>1. CASE calls = <<>>
    BY <1>1 DEF LastCall
  <1>2. CASE calls # <<>>
    <2>1. Len(calls) \in 1 .. Len(calls)
      BY <1>2, EmptySeq, LenProperties
    <2> DEFINE c == ToolCall(NoIndex, calls[Len(calls)].name, calls[Len(calls)].args)
    <2>2. c.name = calls[Len(calls)].name /\ c.args = calls[Len(calls)].args
      BY DEF ToolCall
    <2>3. LastCall(calls) = <<c>>
      BY <1>2 DEF LastCall
    <2> HIDE DEF c
    <2>4. DOMAIN <<c>> = {1} /\ <<c>>[1] = c
      OBVIOUS
    <2> QED
      BY <1>2, <2>1, <2>2, <2>3, <2>4
  <1> QED
    BY <1>1, <1>2

LEMMA SaidCalls ==
    ASSUME NEW said \in SaidSet
    PROVE  /\ said.calls \in Seq(CallSet) /\ DOMAIN said.calls = 1 .. Len(said.calls) /\ Len(said.calls) \in Nat
           /\ said.text \in Seq(Words) /\ said.finished \in BOOLEAN
           /\ \A i \in 1 .. Len(said.calls) : said.calls[i] \in CallSet /\ said.calls[i].args \in Seq(Nat)
  <1>1. said.calls \in Seq(CallSet) /\ said.text \in Seq(Words) /\ said.finished \in BOOLEAN
    BY DEF SaidSet
  <1>2. DOMAIN said.calls = 1 .. Len(said.calls) /\ Len(said.calls) \in Nat
    BY <1>1, LenProperties
  <1>3. \A i \in 1 .. Len(said.calls) : said.calls[i] \in CallSet
    BY <1>1, ElementOfSeq
  <1> QED
    BY <1>1, <1>2, <1>3, CallFields

\* The calls of a reply that is still read are whole.
LEMMA NoneIsHalfYet ==
    ASSUME NEW backend \in {"chat", "responses", "openai"}, NEW said \in SaidSet, NEW line \in LineSet,
           NEW buffer, NEW reply \in ReplySet, NEW spoilt, Follows(backend, said, line, buffer, reply, spoilt)
    PROVE  NoneIsHalf(backend, said, reply, spoilt)
  <1>1. SUFFICES ASSUME ~(backend = "responses" /\ "line" \in spoilt), "call" \notin spoilt,
                        ~(backend = "chat" /\ said.usage = "after"), NEW i \in DOMAIN reply.calls
                 PROVE  \E j \in DOMAIN said.calls :
                            IF backend = "openai"
                            THEN IsPrefix(reply.calls[i].args, said.calls[j].args)
                                 /\ reply.calls[i].name = said.calls[j].name
                            ELSE reply.calls[i].args = said.calls[j].args /\ reply.calls[i].name = said.calls[j].name
    BY DEF NoneIsHalf
  <1>2. CallsFollow(backend, said, line, buffer, reply) /\ PartsFollow(backend, said, reply)
    BY <1>1 DEF Follows
  <1>3. DOMAIN reply.calls = 1 .. Len(reply.calls) /\ Len(reply.calls) \in Nat
    BY LenProperties DEF ReplySet
  <1>4. DOMAIN said.calls = 1 .. Len(said.calls) /\ Len(said.calls) \in Nat /\ said.calls \in Seq(CallSet)
    BY SaidCalls
  <1>5. CASE backend = "openai"
    <2>1. i \in 1 .. Len(reply.calls) /\ i \in DOMAIN said.calls
      BY <1>2, <1>3, <1>4, <1>5 DEF PartsFollow
    <2> QED
      BY <1>2, <1>5, <2>1 DEF PartsFollow
  <1>6. CASE backend = "chat"
    <2>1. reply.calls = said.calls \/ reply.calls = <<>>
      BY <1>1, <1>2, <1>6 DEF CallsFollow
    <2>2. DOMAIN <<>> = {}
      OBVIOUS
    <2>3. reply.calls = said.calls
      BY <2>1, <2>2
    <2> QED
      BY <1>6, <2>3
  <1>7. CASE backend = "responses"
    <2>1. reply.calls = LastCall(said.calls) \/ reply.calls = <<>>
      BY <1>2, <1>7 DEF CallsFollow
    <2>2. DOMAIN <<>> = {}
      OBVIOUS
    <2>3. reply.calls = LastCall(said.calls) /\ reply.calls # <<>>
      BY <2>1, <2>2
    <2>4. /\ Len(said.calls) \in DOMAIN said.calls /\ DOMAIN reply.calls = {1}
          /\ reply.calls[1].name = said.calls[Len(said.calls)].name
          /\ reply.calls[1].args = said.calls[Len(said.calls)].args
      BY <1>4, <2>3, LastCallOf
    <2>5. i = 1
      BY <2>4
    <2> QED
      BY <1>7, <2>4, <2>5
  <1> QED
    BY <1>5, <1>6, <1>7

\* A reply whose last line has been read to its end is the reply of the model.
LEMMA ExactAtEnd ==
    ASSUME NEW backend \in {"chat", "responses", "openai"}, NEW said \in SaidSet, said.finished,
           NEW buffer, NEW reply \in ReplySet, NEW spoilt, Follows(backend, said, NoSseLine, buffer, reply, spoilt)
    PROVE  IsExact(backend, said, reply, spoilt)
  <1>1. SUFFICES ASSUME ~(backend = "responses" /\ "line" \in spoilt)
                 PROVE  /\ "text" \notin spoilt /\ ~Doubled(said.text) => reply.text = said.text
                        /\ "call" \notin spoilt /\ ~(backend = "chat" /\ said.usage = "after")
                           /\ ~(backend = "responses" /\ reply.calls # <<>> /\ Len(said.calls) > 1)
                              => Told(reply.calls) = Told(said.calls)
                        /\ backend # "openai" => (reply.usage <=> said.usage # "none")
    BY DEF IsExact
  <1>2. /\ "text" \notin spoilt => TextFollows(said, NoSseLine, reply)
        /\ "call" \notin spoilt => CallsFollow(backend, said, NoSseLine, buffer, reply)
        /\ UsageFollows(backend, said, NoSseLine, reply)
    BY <1>1 DEF Follows
  <1>3. "call" \notin spoilt => CallsRest(backend, said, said.finished /\ ~NoSseLine.finish, buffer, reply)
    BY <1>2, NoLine, NoCallHeld
  <1>4. ~NoSseLine.finish /\ ~NoSseLine.usage /\ NoSseLine.text = <<>>
    BY NoLine
  <1>5. ASSUME "text" \notin spoilt, ~Doubled(said.text) PROVE reply.text = said.text
    <2>1. said.text = reply.text \o <<>>
      BY <1>2, <1>4, <1>5 DEF TextFollows
    <2>2. reply.text \in Texts
      BY DEF ReplySet
    <2> QED
      BY <2>1, <2>2, ConcatEmptySeq DEF Texts
  <1>6. ASSUME "call" \notin spoilt, ~(backend = "chat" /\ said.usage = "after"),
               ~(backend = "responses" /\ reply.calls # <<>> /\ Len(said.calls) > 1)
        PROVE  Told(reply.calls) = Told(said.calls)
    <2>1. CASE backend = "openai"
      BY <1>3, <1>6, <2>1 DEF CallsRest
    <2>2. CASE backend = "chat"
      BY <1>3, <1>4, <1>6, <2>2 DEF CallsRest
    <2>3. CASE backend = "responses"
      <3>1. reply.calls = LastCall(said.calls)
        BY <1>3, <1>4, <1>6, <2>3 DEF CallsRest
      <3>2. said.calls \in Seq(CallSet) /\ DOMAIN said.calls = 1 .. Len(said.calls) /\ Len(said.calls) \in Nat
        BY SaidCalls
      <3>3. CASE said.calls = <<>>
        BY <3>1, <3>2, <3>3, LastCallOf
      <3>4. CASE said.calls # <<>>
        <4>1. /\ Len(said.calls) \in 1 .. Len(said.calls) /\ DOMAIN reply.calls = {1}
              /\ reply.calls[1].name = said.calls[Len(said.calls)].name
              /\ reply.calls[1].args = said.calls[Len(said.calls)].args
          BY <3>1, <3>2, <3>4, LastCallOf
        <4>2. reply.calls # <<>>
          BY <4>1
        <4>3. Len(said.calls) = 1
          <5>1. ~(Len(said.calls) > 1)
            BY <1>6, <2>3, <4>2
          <5>2. \A n \in Nat : n \in 1 .. n /\ ~(n > 1) => n = 1
            OBVIOUS
          <5> QED
            BY <3>2, <4>1, <5>1, <5>2, Zenon
        <4>4. DOMAIN said.calls = {1}
          BY <3>2, <4>3
        <4> QED
          BY <4>1, <4>3, <4>4 DEF Told
      <3> QED
        BY <3>3, <3>4
    <2> QED
      BY <2>1, <2>2, <2>3
  <1>7. backend # "openai" => (reply.usage <=> said.usage # "none")
    BY <1>2, <1>4 DEF UsageFollows
  <1> QED
    BY <1>5, <1>6, <1>7

\* A cut is never claimed less, and of a word or a call that was cut nothing is claimed.
LEMMA CutsOnlySpoil ==
    ASSUME NEW backend, NEW said, NEW line, NEW buffer, NEW reply, NEW spoilt, NEW more,
           Follows(backend, said, line, buffer, reply, spoilt)
    PROVE  Follows(backend, said, line, buffer, reply, spoilt \cup more)
  BY DEF Follows

LEMMA CutIsALine ==
    ASSUME NEW line \in LineSet
    PROVE  /\ CutLine(line) \in LineSet
           /\ CutLine(line).finish = line.finish /\ CutLine(line).usage = line.usage
           /\ line.text = <<>> => CutLine(line).text = <<>>
           /\ CutLine(line).calls = <<>> <=> line.calls = <<>>
  <1> DEFINE cut == CutLine(line)
             text == IF line.text = <<>> THEN <<>> ELSE <<Garbled>>
             calls == [i \in DOMAIN line.calls |->
                         ToolCall(line.calls[i].index, CutFragment(line.calls[i].name),
                                  CutFragment(line.calls[i].args))]
  <1>1. /\ cut.text = text /\ cut.calls = calls /\ cut.finish = line.finish /\ cut.usage = line.usage
        /\ cut = [text |-> text, calls |-> calls, finish |-> line.finish, usage |-> line.usage]
    <2>1. cut = [line EXCEPT !.text = text, !.calls = calls]
      BY DEF CutLine
    <2>2. line = [text |-> line.text, calls |-> line.calls, finish |-> line.finish, usage |-> line.usage]
      BY DEF LineSet
    <2> HIDE DEF text, calls, cut
    <2>3. [line EXCEPT !.text = text] = [text |-> text, calls |-> line.calls, finish |-> line.finish, usage |-> line.usage]
      BY <2>2
    <2>4. cut = [text |-> text, calls |-> calls, finish |-> line.finish, usage |-> line.usage]
      BY <2>1, <2>3
    <2> QED
      BY <2>4
  <1>2. text \in LineTexts
    BY DEF LineTexts
  <1>3. calls \in LineCalls /\ (calls = <<>> <=> line.calls = <<>>)
    <2>1. CASE line.calls = <<>>
      <3>1. calls = <<>>
        BY <2>1
      <3> QED
        BY <2>1, <3>1 DEF LineCalls
    <2>2. CASE line.calls # <<>>
      <3>1. PICK c \in CallSet : line.calls = <<c>>
        BY <2>2, LineFields
      <3> DEFINE name == CutFragment(c.name)
                 args == CutFragment(c.args)
                 d == ToolCall(c.index, name, args)
      <3>2. name \in Seq(Nat) /\ args \in Seq(Nat)
        BY DEF CutFragment
      <3>3. d \in CallSet
        <4> HIDE DEF name, args
        <4> QED
          BY <3>2, CallFields, ToolCallIn
      <3>4. DOMAIN line.calls = {1} /\ line.calls[1] = c
        BY <3>1
      <3>5. calls = [i \in {1} |-> d]
        BY <3>4
      <3>6. \A v : [i \in {1} |-> v] = <<v>> /\ <<v>> # <<>>
        OBVIOUS
      <3> HIDE DEF calls, d
      <3>7. calls = <<d>> /\ calls # <<>>
        BY <3>5, <3>6
      <3> QED
        BY <2>2, <3>3, <3>7 DEF LineCalls
    <2> QED
      BY <2>1, <2>2
  <1>4. line.text # <<>> => line.calls = <<>> /\ ~line.finish /\ ~line.usage
    BY LineFields
  <1>5. line.calls # <<>> => ~line.finish /\ ~line.usage
    BY LineFields
  <1>6. line.finish \in BOOLEAN /\ line.usage \in BOOLEAN
    BY LineFields
  <1>7. text # <<>> <=> line.text # <<>>
    OBVIOUS
  <1> HIDE DEF text, calls, cut
  <1>8. cut \in LineSet
    BY <1>1, <1>2, <1>3, <1>4, <1>5, <1>6, <1>7 DEF LineSet
  <1> QED
    BY <1>1, <1>3, <1>7, <1>8 DEF cut

LEMMA CutFollows ==
    ASSUME NEW backend, NEW said, NEW line \in LineSet, NEW buffer, NEW reply, NEW spoilt,
           IF line.text # <<>> THEN "text" \in spoilt ELSE "call" \in spoilt,
           Follows(backend, said, line, buffer, reply, spoilt)
    PROVE  Follows(backend, said, CutLine(line), buffer, reply, spoilt)
  <1> DEFINE cut == CutLine(line)
  <1>1. /\ cut.finish = line.finish /\ cut.usage = line.usage
        /\ line.text = <<>> => cut.text = <<>>
        /\ cut.calls = <<>> <=> line.calls = <<>>
    BY CutIsALine
  <1> HIDE DEF cut
  <1>2. LastSaid(said, line) => LastSaid(said, cut)
    BY <1>1 DEF LastSaid
  <1>3. UsageFollows(backend, said, line, reply) => UsageFollows(backend, said, cut, reply)
    BY <1>1 DEF UsageFollows
  <1>4. CASE line.text # <<>>
    <2>1. cut.calls = line.calls
      BY <1>1, <1>4, LineFields
    <2>2. CallsFollow(backend, said, line, buffer, reply) => CallsFollow(backend, said, cut, buffer, reply)
      BY <1>1, <2>1 DEF CallsFollow
    <2>3. Follows(backend, said, cut, buffer, reply, spoilt)
      BY <1>2, <1>3, <1>4, <2>2 DEF Follows
    <2> QED
      BY <2>3 DEF cut
  <1>5. CASE line.text = <<>>
    <2>1. TextFollows(said, line, reply) => TextFollows(said, cut, reply)
      BY <1>1, <1>5 DEF TextFollows
    <2>2. Follows(backend, said, cut, buffer, reply, spoilt)
      BY <1>2, <1>3, <1>5, <2>1 DEF Follows
    <2> QED
      BY <2>2 DEF cut
  <1> QED
    BY <1>4, <1>5

-----------------------------------------------------------------------------
\* The steps of a reply.
LEMMA TwoParts == <<1>> \o <<2>> = <<1, 2>>
  <1> DEFINE s == <<1>>
             t == <<2>>
             st == s \o t
  <1>1. s \in Seq(Nat) /\ t \in Seq(Nat) /\ Len(s) = 1 /\ Len(t) = 1 /\ s[1] = 1 /\ t[1] = 2
    OBVIOUS
  <1> HIDE DEF s, t
  <1>2. st \in Seq(Nat) /\ Len(st) = 2 /\ st[1] = 1 /\ st[2] = 2
    <2>1. st \in Seq(Nat) /\ Len(st) = Len(s) + Len(t)
      BY <1>1, ConcatProperties
    <2>2. \A i \in 1 .. Len(s) + Len(t) : st[i] = IF i <= Len(s) THEN s[i] ELSE t[i - Len(s)]
      BY <1>1, ConcatProperties
    <2> QED
      BY <1>1, <2>1, <2>2
  <1> HIDE DEF st
  <1>3. st = <<1, 2>>
    <2>1. DOMAIN st = 1 .. 2
      BY <1>2
    <2>2. st = [i \in 1 .. 2 |-> st[i]]
      BY <1>2, <2>1
    <2>3. <<1, 2>> = [i \in 1 .. 2 |-> <<1, 2>>[i]]
      OBVIOUS
    <2> QED
      BY <1>2, <2>2, <2>3
  <1> QED
    BY <1>3 DEF s, t, st

LEMMA LinesAfterLines ==
    ASSUME StreamTyped, Numbered(llmSaid), NEW line, Says(line),
           Follows(llmBackend, llmSaid, llmHeld, llmBuffer, llmReply, llmSpoilt)
    PROVE  /\ llmHeld = NoSseLine /\ line \in LineSet
           /\ llmSaid' \in SaidSet /\ Numbered(llmSaid')
           /\ Follows(llmBackend, llmSaid', line, llmBuffer, llmReply, llmSpoilt)
  <1>1. /\ llmSaid \in SaidSet /\ llmReply \in ReplySet
        /\ MaxCalls \in Nat
    <2>1. MaxCalls \in Nat
      BY LlmAssumption
    <2> QED
      BY <2>1 DEF StreamTyped
  <1>2. llmHeld = NoSseLine
    BY Zenon DEF Says, SaysText, OpensCall, ExtendsCall, EndsReply, CountsTokens, Utters
  <1>3. Follows(llmBackend, llmSaid, NoSseLine, llmBuffer, llmReply, llmSpoilt)
    BY <1>2
  <1>4. /\ llmSaid.calls \in Seq(CallSet) /\ Opened = Len(llmSaid.calls) /\ Opened \in Nat
        /\ \A i \in 1 .. Opened : llmSaid.calls[i] \in CallSet
    BY <1>1, SaidCalls DEF Opened
  <1>5. CASE SaysText(line)
    <2>1. PICK w \in Words : /\ line = SseLine(<<w>>, <<>>, FALSE, FALSE)
                             /\ Utters([llmSaid EXCEPT !.text = Append(@, w)])
      BY <1>5 DEF SaysText
    <2>2. ~llmSaid.finished /\ llmSaid' = [llmSaid EXCEPT !.text = Append(@, w)]
      BY <2>1 DEF Utters
    <2> QED
      BY <1>1, <1>2, <1>3, <2>1, <2>2, SaysWord
  <1>6. CASE OpensCall(line)
    <2>1. ~llmSaid.finished /\ Len(llmSaid.calls) < MaxCalls
      BY <1>4, <1>6 DEF OpensCall, Utters
    <2>2. /\ line = SseLine(<<>>, <<ToolCall(Len(llmSaid.calls) + 1, <<1>>, <<>>)>>, FALSE, FALSE)
          /\ llmSaid' = [llmSaid EXCEPT !.calls = Append(@, ToolCall(Len(llmSaid.calls) + 1, <<1>>, <<>>))]
      BY <1>6 DEF OpensCall, Utters, Opened
    <2> QED
      BY <1>1, <1>2, <1>3, <2>1, <2>2, SaysOpen
  <1>7. CASE ExtendsCall(line)
    <2> DEFINE n == Len(llmSaid.calls)
               cur == llmSaid.calls[n]
    <2>1. /\ n \in Nat /\ n > 0 /\ n \in 1 .. n /\ Opened = n /\ Current = cur /\ ~llmSaid.finished
          /\ cur \in CallSet /\ cur.index = n /\ cur = ToolCall(n, cur.name, cur.args)
          /\ cur.name \in Seq(Nat) /\ cur.args \in Seq(Nat) /\ cur.name \in {<<1>>, <<1, 2>>}
      <3>1. n \in Nat /\ n > 0 /\ n \in 1 .. n /\ Opened = n
        BY <1>4, <1>7 DEF ExtendsCall
      <3>2. cur \in CallSet
        BY <1>4, <3>1
      <3>3. cur.index = n /\ cur.name \in {<<1>>, <<1, 2>>}
        BY <3>1 DEF Numbered
      <3> QED
        BY <1>7, <3>1, <3>2, <3>3, CallFields DEF ExtendsCall, Utters, Current
    <2>2. ASSUME NEW x \in Seq(Nat), NEW y \in Seq(Nat), x = <<>> \/ llmBackend = "chat",
                 cur.name \o x \in {<< 1 >>, << 1, 2 >>},
                 line = SseLine(<<>>, <<ToolCall(n, x, y)>>, FALSE, FALSE), llmSaid' \in SaidSet,
                 llmSaid'.text = llmSaid.text, llmSaid'.usage = llmSaid.usage, llmSaid'.finished = llmSaid.finished,
                 llmSaid'.calls = Replaced(llmSaid.calls, n, ToolCall(n, cur.name \o x, cur.args \o y))
          PROVE  /\ line \in LineSet /\ Numbered(llmSaid')
                 /\ Follows(llmBackend, llmSaid', line, llmBuffer, llmReply, llmSpoilt)
      BY <1>1, <1>3, <2>1, <2>2, SaysMore
    <2>3. ASSUME NEW call \in CallSet, llmSaid' = [llmSaid EXCEPT !.calls = [@ EXCEPT ![n] = call]]
          PROVE  /\ llmSaid' \in SaidSet
                 /\ llmSaid'.text = llmSaid.text /\ llmSaid'.usage = llmSaid.usage
                 /\ llmSaid'.finished = llmSaid.finished
                 /\ llmSaid'.calls = Replaced(llmSaid.calls, n, call)
      <3> DEFINE calls == [llmSaid.calls EXCEPT ![n] = call]
      <3>1. calls = Replaced(llmSaid.calls, n, call)
        BY <1>1, <2>1, SaidCalls DEF Replaced
      <3>2. calls \in Seq(CallSet)
        BY <1>4, <2>1, <3>1, ReplacedIn
      <3>3. llmSaid' = [llmSaid EXCEPT !.calls = calls]
        BY <2>3
      <3> HIDE DEF calls
      <3> QED
        BY <1>1, <3>1, <3>2, <3>3 DEF SaidSet
    <2>4. CASE /\ llmBackend = "chat" /\ Current.args = <<>> /\ Len(Current.name) = 1
               /\ line = Fragment(<<2>>, <<>>)
               /\ Utters([llmSaid EXCEPT !.calls[Opened].name = <<1, 2>>])
      <3> DEFINE x == <<2>>
                 y == <<>>
                 call == ToolCall(n, <<1, 2>>, cur.args)
      <3>1. x \in Seq(Nat) /\ y \in Seq(Nat) /\ <<1, 2>> \in Seq(Nat)
        OBVIOUS
      <3>2. cur.name = <<1>>
        BY <2>1, <2>4
      <3>3. cur.name \o x = <<1, 2>>
        <4>1. <<1>> \o <<2>> = <<1, 2>>
          BY TwoParts
        <4> HIDE DEF cur
        <4> QED
          BY <3>2, <4>1
      <3>4. cur.args \o y = cur.args
        BY <2>1, ConcatEmptySeq
      <3>5. call \in CallSet
        <4>1. n \in 0 .. MaxCalls
          BY <2>1 DEF CallSet
        <4> QED
          BY <2>1, <3>1, <4>1, ToolCallIn
      <3>6. [cur EXCEPT !.name = <<1, 2>>] = call
        BY <2>1 DEF CallSet, ToolCall
      <3>7. llmSaid' = [llmSaid EXCEPT !.calls = [@ EXCEPT ![n] = call]]
        BY <2>1, <2>4, <3>6 DEF Utters
      <3>8. line = SseLine(<<>>, <<ToolCall(n, x, y)>>, FALSE, FALSE)
        BY <2>1, <2>4 DEF Fragment
      <3> HIDE DEF x, y
      <3>9. call = ToolCall(n, cur.name \o x, cur.args \o y)
        BY <3>3, <3>4
      <3>10. /\ llmSaid' \in SaidSet
             /\ llmSaid'.text = llmSaid.text /\ llmSaid'.usage = llmSaid.usage
             /\ llmSaid'.finished = llmSaid.finished
             /\ llmSaid'.calls = Replaced(llmSaid.calls, n, call)
        BY <2>3, <3>5, <3>7
      <3> HIDE DEF call, n, cur
      <3> QED
        BY <1>2, <2>2, <2>4, <3>1, <3>3, <3>8, <3>9, <3>10
    <2>5. CASE LET m == Len(Current.args) + 1 IN
               /\ m <= MaxFragments
               /\ line = Fragment(<<>>, <<m>>)
               /\ Utters([llmSaid EXCEPT !.calls[Opened].args = Append(@, m)])
      <3> DEFINE m == Len(cur.args) + 1
                 x == <<>>
                 y == <<m>>
                 call == ToolCall(n, cur.name, cur.args \o y)
      <3>1. m \in Nat
        BY <2>1, LenProperties
      <3>2. x \in Seq(Nat) /\ y \in Seq(Nat)
        BY <3>1
      <3>3. cur.name \o x = cur.name
        BY <2>1, ConcatEmptySeq
      <3>4. cur.args \o y = Append(cur.args, m) /\ cur.args \o y \in Seq(Nat)
        <4> DEFINE args == cur.args
        <4>1. args \in Seq(Nat)
          BY <2>1
        <4> HIDE DEF m, args
        <4>2. Append(args, m) = args \o <<m>> /\ Append(args, m) \in Seq(Nat)
          BY <3>1, <4>1, AppendIsConcat, AppendProperties
        <4> QED
          BY <4>2 DEF args
      <3>5. call \in CallSet
        <4>1. n \in 0 .. MaxCalls
          BY <2>1 DEF CallSet
        <4> QED
          BY <2>1, <3>4, <4>1, ToolCallIn
      <3>6. [cur EXCEPT !.args = Append(@, m)] = call
        <4> DEFINE args == Append(cur.args, m)
        <4>1. [cur EXCEPT !.args = args] = ToolCall(n, cur.name, args)
          <5> HIDE DEF args
          <5> QED
            BY <2>1 DEF CallSet, ToolCall
        <4> QED
          BY <3>4, <4>1
      <3>7. llmSaid' = [llmSaid EXCEPT !.calls = [@ EXCEPT ![n] = call]]
        BY <2>1, <2>5, <3>6 DEF Utters
      <3>8. line = SseLine(<<>>, <<ToolCall(n, x, y)>>, FALSE, FALSE)
        BY <2>1, <2>5 DEF Fragment
      <3> HIDE DEF x, y, m
      <3>9. call = ToolCall(n, cur.name \o x, cur.args \o y)
        BY <3>3
      <3>10. /\ llmSaid' \in SaidSet
             /\ llmSaid'.text = llmSaid.text /\ llmSaid'.usage = llmSaid.usage
             /\ llmSaid'.finished = llmSaid.finished
             /\ llmSaid'.calls = Replaced(llmSaid.calls, n, call)
        BY <2>3, <3>5, <3>7
      <3>11. x = <<>>
        BY DEF x
      <3> HIDE DEF call, n, cur
      <3> QED
        BY <1>2, <2>1, <2>2, <3>2, <3>3, <3>8, <3>9, <3>10, <3>11
    <2> QED
      BY <1>7, <2>4, <2>5, <1>2, <2>3 DEF ExtendsCall
  <1>8. CASE EndsReply(line)
    <2>1. PICK usage \in BOOLEAN : /\ line = SseLine(<<>>, <<>>, TRUE, usage)
                                   /\ Utters([llmSaid EXCEPT !.finished = TRUE, !.usage = IF usage THEN "with" ELSE "none"])
      BY <1>8, Zenon DEF EndsReply
    <2>2. /\ ~llmSaid.finished
          /\ llmSaid' = [llmSaid EXCEPT !.finished = TRUE, !.usage = IF usage THEN "with" ELSE "none"]
      BY <2>1 DEF Utters
    <2> QED
      BY <1>1, <1>2, <1>3, <2>1, <2>2, SaysEnd, Zenon
  <1>9. CASE CountsTokens(line)
    <2>1. /\ llmSaid.finished /\ llmSaid.usage = "none" /\ llmBackend # "responses"
          /\ line = SseLine(<<>>, <<>>, FALSE, TRUE) /\ llmSaid' = [llmSaid EXCEPT !.usage = "after"]
      BY <1>9 DEF CountsTokens
    <2> QED
      BY <1>1, <1>2, <1>3, <2>1, SaysCounts
  <1> QED
    BY <1>5, <1>6, <1>7, <1>8, <1>9 DEF Says

\* A line whose end has been read.
LEMMA LinesAreProcessed ==
    ASSUME StreamTyped, llmPhase = "reading", NEW line \in LineSet, Process(line),
           llmSaid' \in SaidSet, Numbered(llmSaid'),
           Follows(llmBackend, llmSaid', line, llmBuffer, llmReply, llmSpoilt),
           llmHeld' = NoSseLine, llmSilent' = 0, UNCHANGED <<llmBackend, llmSpoilt, llmTotal>>
    PROVE  StreamInv'
  <1>1. /\ llmBackend \in {"chat", "responses", "openai"} /\ llmReply \in ReplySet
        /\ llmReply.calls \in DistinctLists /\ llmTotal \in 0 .. TotalLimit /\ TotalLimit \in Nat
    BY LlmAssumption DEF StreamTyped
  <1>2. llmBuffer' = Buffered(line) /\ Buffered(line) \in DistinctLists
    BY BufferedKept DEF Process
  <1>3. llmSaid'.calls \in DistinctLists
    BY NumberedDistinct, SaidCalls DEF DistinctLists
  <1>4. NoSseLine \in LineSet
    BY NoLine
  <1>5. CASE llmAbort /\ Yielded(line) # <<>>
    <2>1. llmPhase' = "ended" /\ llmWhy' = "abort" /\ llmReply' = llmReply
      BY <1>5 DEF Process
    <2>2. StreamTyped'
      BY <1>1, <1>2, <1>3, <1>4, <2>1 DEF StreamTyped
    <2>3. NoneIsHalf(llmBackend', llmSaid', llmReply', llmSpoilt')
      BY <1>1, <2>1, NoneIsHalfYet
    <2>4. NoCallIsHalf' /\ ReplyIsExact'
      BY <2>1, <2>3, HalfThen, ExactThen DEF ReplyIsOver
    <2> QED
      BY <2>1, <2>2, <2>4 DEF StreamInv, Body
  <1>6. CASE ~(llmAbort /\ Yielded(line) # <<>>)
    <2>1. llmPhase' = "reading" /\ llmReply' = Digested(line)
      BY <1>6 DEF Process, Digested
    <2>2. llmReply' \in ReplySet /\ llmReply'.calls \in DistinctLists
      BY <2>1, DigestedIn
    <2>3. StreamTyped'
      BY <1>1, <1>2, <1>3, <1>4, <2>1, <2>2 DEF StreamTyped
    <2>4. Follows(llmBackend', llmSaid', llmHeld', llmBuffer', llmReply', llmSpoilt')
      BY <1>2, <2>1, Digest
    <2>5. NoneIsHalf(llmBackend', llmSaid', llmReply', llmSpoilt')
      BY <1>1, <1>4, <2>2, <2>4, NoneIsHalfYet
    <2>6. NoCallIsHalf' /\ ReplyIsExact'
      BY <2>1, <2>5, HalfThen, ExactThen DEF ReplyIsOver
    <2> QED
      BY <2>1, <2>3, <2>4, <2>6 DEF StreamInv, Body
  <1> QED
    BY <1>5, <1>6

LEMMA FreshFollows ==
    ASSUME NEW backend, NEW spoilt, NEW reply, reply = [text |-> <<>>, calls |-> <<>>, usage |-> FALSE]
    PROVE  /\ Nothing \in SaidSet /\ Nothing.calls \in DistinctLists /\ <<>> \in DistinctLists
           /\ reply \in ReplySet /\ reply.calls = <<>> /\ Numbered(Nothing)
           /\ Follows(backend, Nothing, NoSseLine, <<>>, reply, spoilt)
  <1>1. /\ Nothing.text = <<>> /\ Nothing.calls = <<>> /\ Nothing.usage = "none" /\ Nothing.finished = FALSE
        /\ reply.text = <<>> /\ reply.calls = <<>> /\ reply.usage = FALSE
    BY DEF Nothing
  <1>2. Nothing \in SaidSet /\ reply \in ReplySet
    <2>1. <<>> \in Seq(Words) /\ <<>> \in Texts /\ <<>> \in Seq(CallSet)
      <3> HIDE DEF CallSet
      <3> QED
        BY DEF Texts
    <2> QED
      BY <2>1 DEF SaidSet, ReplySet, Nothing
  <1>3. Len(<<>>) = 0 /\ 1 .. 0 = {}
    OBVIOUS
  <1>4. Numbered(Nothing)
    BY <1>1, <1>3 DEF Numbered
  <1>5. LastSaid(Nothing, NoSseLine)
    BY <1>1, NoLine DEF LastSaid
  <1>6. TextFollows(Nothing, NoSseLine, reply)
    <2>1. <<>> \o <<>> = <<>>
      OBVIOUS
    <2> QED
      BY <1>1, <2>1, NoLine DEF TextFollows
  <1>7. CallsFollow(backend, Nothing, NoSseLine, <<>>, reply)
    <2> DEFINE none == <<>>
    <2>1. LastCall(none) = none
      BY DEF LastCall
    <2>2. Nothing.calls = none /\ reply.calls = none
      BY <1>1
    <2> HIDE DEF none
    <2>3. CallsRest(backend, Nothing, Nothing.finished /\ ~NoSseLine.finish, none, reply)
      BY <1>1, <2>1, <2>2 DEF CallsRest, none
    <2>4. CallsFollow(backend, Nothing, NoSseLine, none, reply)
      BY <2>3, NoLine, NoCallHeld
    <2> QED
      BY <2>4 DEF none
  <1>8. PartsFollow(backend, Nothing, reply)
    BY <1>1, <1>3 DEF PartsFollow
  <1>9. UsageFollows(backend, Nothing, NoSseLine, reply)
    BY <1>1, NoLine DEF UsageFollows
  <1>10. Follows(backend, Nothing, NoSseLine, <<>>, reply, spoilt)
    BY <1>5, <1>6, <1>7, <1>8, <1>9 DEF Follows
  <1> QED
    BY <1>1, <1>2, <1>4, <1>10, EmptyList

LEMMA AnswersAreWhole ==
    ASSUME NEW said \in Answers, NEW reply,
           reply = [text |-> said.text, calls |-> said.calls, usage |-> said.usage = "with"],
           NEW backend, NEW spoilt
    PROVE  /\ said \in SaidSet /\ said.calls \in DistinctLists
           /\ reply \in ReplySet /\ reply.calls \in DistinctLists
           /\ NoneIsHalf(backend, said, reply, spoilt) /\ IsExact(backend, said, reply, spoilt)
  <1>1. MaxCalls \in Nat /\ MaxFragments \in Nat
    BY LlmAssumption
  <1>2. /\ Fragments(1) \in Seq(Nat) /\ Fragments(MaxFragments) \in Seq(Nat)
    BY <1>1 DEF Fragments
  <1> DEFINE answered(n) == [i \in 1..n |-> ToolCall(i, Fragments(1), Fragments(MaxFragments))]
  <1>3. PICK n \in 0 .. MaxCalls : said.calls = answered(n)
    BY DEF Answers
  <1>4. /\ said.text = <<>> \/ \E w \in Words : said.text = <<w>>
        /\ said.usage \in {"none", "with"} /\ said.finished = TRUE
        /\ said = [text |-> said.text, calls |-> said.calls, usage |-> said.usage, finished |-> said.finished]
    BY DEF Answers
  <1>5. \A i \in 1 .. n : /\ answered(n)[i] \in CallSet /\ answered(n)[i].index = i
                          /\ answered(n)[i].args = Fragments(MaxFragments)
    BY <1>1, <1>2, <1>3, ToolCallIn
  <1>6. answered(n) \in Seq(CallSet) /\ Len(answered(n)) = n /\ DOMAIN answered(n) = 1 .. n
    <2> HIDE DEF CallSet
    <2>1. \A i \in 1 .. n : ToolCall(i, Fragments(1), Fragments(MaxFragments)) \in CallSet
      BY <1>5
    <2> QED
      BY <1>1, <1>3, <2>1
  <1>7. said.calls \in Seq(CallSet) /\ DOMAIN said.calls = 1 .. n /\ Len(said.calls) = n
        /\ \A i \in 1 .. n : said.calls[i].index = i /\ said.calls[i].args \in Seq(Nat)
    BY <1>2, <1>3, <1>5, <1>6
  <1>8. said.text \in Seq(Words) /\ said.text \in Texts
    <2>1. CASE said.text = <<>>
      BY <2>1 DEF Texts
    <2>2. ASSUME NEW w \in Words, said.text = <<w>> PROVE said.text \in Seq(Words) /\ said.text \in Texts
      BY <2>2 DEF Texts
    <2> QED
      BY <1>4, <2>1, <2>2
  <1>9. reply.text = said.text /\ reply.calls = said.calls /\ reply.usage = (said.usage = "with")
    OBVIOUS
  <1>10. said \in SaidSet /\ reply \in ReplySet
    <2> HIDE DEF CallSet, answered
    <2> QED
      BY <1>4, <1>7, <1>8 DEF SaidSet, ReplySet
  <1>11. said.calls \in DistinctLists
    BY <1>7 DEF DistinctLists, Distinct
  <1>12. \A i \in 1 .. n : IsPrefix(said.calls[i].args, said.calls[i].args)
    BY <1>7, PrefixOfLonger
  <1>13. NoneIsHalf(backend, said, reply, spoilt)
    BY <1>7, <1>9, <1>12 DEF NoneIsHalf
  <1>14. IsExact(backend, said, reply, spoilt)
    BY <1>4, <1>9 DEF IsExact
  <1> QED
    BY <1>9, <1>10, <1>11, <1>13, <1>14

LEMMA StreamInit == LlmInit => StreamInv
  <1> SUFFICES ASSUME LlmInit PROVE StreamInv
    OBVIOUS
  <1>1. /\ llmBackend \in {"chat", "responses", "openai"} /\ llmPhase = "new"
        /\ llmSaid = Nothing /\ llmHeld = NoSseLine /\ llmBuffer = <<>>
        /\ llmReply = [text |-> <<>>, calls |-> <<>>, usage |-> FALSE]
        /\ llmTotal = 0 /\ llmSilent = 0 /\ TotalLimit \in Nat
    BY LlmAssumption DEF LlmInit
  <1>2. /\ Nothing \in SaidSet /\ Nothing.calls \in DistinctLists /\ <<>> \in DistinctLists
        /\ llmReply \in ReplySet /\ llmReply.calls = <<>> /\ NoSseLine \in LineSet
        /\ Follows(llmBackend, llmSaid, NoSseLine, llmBuffer, llmReply, llmSpoilt)
    BY <1>1, FreshFollows, NoLine
  <1>3. StreamTyped
    BY <1>1, <1>2 DEF StreamTyped
  <1>4. NoneIsHalf(llmBackend, llmSaid, llmReply, llmSpoilt)
    BY <1>1, <1>2, NoneIsHalfYet
  <1>5. NoCallIsHalf /\ ReplyIsExact
    BY <1>1, <1>4, HalfThen DEF ReplyIsExact, ReplyIsOver
  <1> QED
    BY <1>1, <1>3, <1>5 DEF StreamInv, Fresh, Body

LEMMA StreamStep ==
    ASSUME StreamInv, LlmNext
    PROVE  StreamInv'
  <1>1. /\ StreamTyped /\ NoCallIsHalf /\ ReplyIsExact
        /\ llmBackend \in {"chat", "responses", "openai"} /\ llmSaid \in SaidSet /\ llmReply \in ReplySet
        /\ llmReply.calls \in DistinctLists /\ llmBuffer \in DistinctLists /\ llmSaid.calls \in DistinctLists
        /\ llmHeld \in LineSet /\ llmTotal \in 0 .. TotalLimit /\ llmSilent \in 0 .. llmTotal
        /\ TotalLimit \in Nat
    BY LlmAssumption DEF StreamInv, StreamTyped, Body
  <1>2. CASE Ask
    <2>1. /\ llmPhase = "new" /\ llmPhase' \in {"asked", "failed"}
          /\ UNCHANGED <<llmBackend, llmSaid, llmHeld, llmBuffer, llmReply, llmSpoilt, llmTotal, llmSilent>>
      BY <1>2 DEF Ask
    <2>2. NoCallIsHalf'
      BY <1>1, <2>1, HalfThen
    <2>3. ReplyIsExact'
      BY <2>1, ExactThen DEF ReplyIsOver
    <2>4. StreamTyped'
      BY <1>1, <2>1 DEF StreamTyped
    <2>5. Fresh'
      BY <2>1 DEF StreamInv, Fresh, Body
    <2> QED
      BY <2>1, <2>2, <2>3, <2>4, <2>5 DEF StreamInv, Body
  <1>3. CASE Respond
    <2>1. /\ llmPhase = "asked" /\ llmPhase' \in {"reading", "failed"} /\ llmSilent' = 0
          /\ UNCHANGED <<llmBackend, llmSaid, llmHeld, llmBuffer, llmReply, llmSpoilt, llmTotal>>
      BY <1>3 DEF Respond
    <2>2. NoCallIsHalf'
      BY <1>1, <2>1, HalfThen
    <2>3. ReplyIsExact'
      BY <2>1, ExactThen DEF ReplyIsOver
    <2>4. StreamTyped'
      BY <1>1, <2>1 DEF StreamTyped
    <2>5. Fresh
      BY <2>1 DEF StreamInv, Body
    <2>6. Numbered(llmSaid') /\ Follows(llmBackend', llmSaid', llmHeld', llmBuffer', llmReply', llmSpoilt')
      BY <2>1, <2>5, FreshFollows DEF Fresh
    <2> QED
      BY <2>1, <2>2, <2>3, <2>4, <2>5, <2>6 DEF StreamInv, Fresh, Body
  <1>4. CASE Complete
    <2>1. /\ llmPhase' = "ended" /\ llmSaid' \in Answers
          /\ llmReply' = [text |-> llmSaid'.text, calls |-> llmSaid'.calls, usage |-> llmSaid'.usage = "with"]
          /\ UNCHANGED <<llmBackend, llmHeld, llmBuffer, llmSpoilt, llmTotal, llmSilent>>
      BY <1>4 DEF Complete
    <2>2. /\ llmSaid' \in SaidSet /\ llmSaid'.calls \in DistinctLists
          /\ llmReply' \in ReplySet /\ llmReply'.calls \in DistinctLists
          /\ NoneIsHalf(llmBackend', llmSaid', llmReply', llmSpoilt')
          /\ IsExact(llmBackend', llmSaid', llmReply', llmSpoilt')
      BY <2>1, AnswersAreWhole
    <2>3. NoCallIsHalf' /\ ReplyIsExact'
      BY <2>2, HalfThen, ExactThen
    <2>4. StreamTyped'
      BY <1>1, <2>1, <2>2 DEF StreamTyped
    <2> QED
      BY <2>1, <2>3, <2>4 DEF StreamInv, Body
  <1>5. ASSUME llmPhase \in Body
        PROVE  /\ Numbered(llmSaid)
               /\ Follows(llmBackend, llmSaid, llmHeld, llmBuffer, llmReply, llmSpoilt)
               /\ llmHeld # NoSseLine => "line" \in llmSpoilt
    BY <1>5 DEF StreamInv, Body
  <1>6. ASSUME NEW line \in SseLines, ReadEvent(line) PROVE StreamInv'
    <2>1. /\ llmPhase = "reading" /\ Says(line) /\ Process(line) /\ llmSilent' = 0
          /\ llmHeld' = llmHeld /\ UNCHANGED <<llmBackend, llmSpoilt, llmTotal>>
      BY <1>6 DEF ReadEvent
    <2>2. /\ llmHeld = NoSseLine /\ line \in LineSet /\ llmSaid' \in SaidSet /\ Numbered(llmSaid')
          /\ Follows(llmBackend, llmSaid', line, llmBuffer, llmReply, llmSpoilt)
      BY <1>1, <1>5, <2>1, LinesAfterLines DEF Body
    <2> QED
      BY <1>1, <2>1, <2>2, LinesAreProcessed
  <1>7. ASSUME NEW line \in SseLines, ReadStart(line) PROVE StreamInv'
    <2>1. /\ llmPhase = "reading" /\ Says(line) /\ llmPhase' = "reading" /\ llmSilent' = 0
          /\ \/ llmHeld' = line /\ llmSpoilt' = llmSpoilt \cup {"line"}
             \/ /\ llmHeld' = CutLine(line)
                /\ llmSpoilt' = llmSpoilt \cup {"line", IF line.text # <<>> THEN "text" ELSE "call"}
          /\ UNCHANGED <<llmBackend, llmBuffer, llmReply, llmTotal>>
      BY <1>7 DEF ReadStart
    <2>2. /\ line \in LineSet /\ llmSaid' \in SaidSet /\ Numbered(llmSaid')
          /\ Follows(llmBackend, llmSaid', line, llmBuffer, llmReply, llmSpoilt)
      BY <1>1, <1>5, <2>1, LinesAfterLines DEF Body
    <2>3. llmHeld' \in LineSet /\ Follows(llmBackend', llmSaid', llmHeld', llmBuffer', llmReply', llmSpoilt')
      <3>1. CASE llmHeld' = line /\ llmSpoilt' = llmSpoilt \cup {"line"}
        BY <2>1, <2>2, <3>1, CutsOnlySpoil
      <3>2. CASE /\ llmHeld' = CutLine(line)
                 /\ llmSpoilt' = llmSpoilt \cup {"line", IF line.text # <<>> THEN "text" ELSE "call"}
        <4>1. /\ Follows(llmBackend, llmSaid', line, llmBuffer, llmReply, llmSpoilt')
              /\ IF line.text # <<>> THEN "text" \in llmSpoilt' ELSE "call" \in llmSpoilt'
          BY <2>2, <3>2, CutsOnlySpoil
        <4> QED
          BY <2>1, <2>2, <3>2, <4>1, CutFollows, CutIsALine
      <3> QED
        BY <2>1, <3>1, <3>2
    <2>4. "line" \in llmSpoilt'
      BY <2>1
    <2>5. llmSaid'.calls \in DistinctLists
      BY <2>2, NumberedDistinct, SaidCalls DEF DistinctLists
    <2>6. StreamTyped'
      BY <1>1, <2>1, <2>2, <2>3, <2>5 DEF StreamTyped
    <2>7. NoneIsHalf(llmBackend', llmSaid', llmReply', llmSpoilt')
      BY <1>1, <2>1, <2>2, <2>3, NoneIsHalfYet
    <2>8. NoCallIsHalf' /\ ReplyIsExact'
      BY <2>1, <2>7, HalfThen, ExactThen DEF ReplyIsOver
    <2> QED
      BY <2>1, <2>2, <2>3, <2>4, <2>6, <2>8 DEF StreamInv, Body
  <1>8. CASE ReadRest
    <2>1. /\ llmPhase = "reading" /\ llmHeld # NoSseLine /\ llmHeld' = NoSseLine /\ llmSilent' = 0
          /\ UNCHANGED <<llmBackend, llmSaid, llmSpoilt, llmTotal>>
      BY <1>8 DEF ReadRest
    <2>2. /\ Numbered(llmSaid) /\ "line" \in llmSpoilt
          /\ Follows(llmBackend, llmSaid, llmHeld, llmBuffer, llmReply, llmSpoilt)
      BY <1>5, <2>1 DEF Body
    <2>3. CASE llmBackend = "responses"
      <3>1. UNCHANGED <<llmPhase, llmBuffer, llmReply>>
        BY <1>8, <2>3 DEF ReadRest
      <3>2. NoSseLine \in LineSet
        BY NoLine
      <3>3. StreamTyped'
        BY <1>1, <2>1, <3>1, <3>2 DEF StreamTyped
      <3>4. LastSaid(llmSaid', NoSseLine)
        BY NoLine DEF LastSaid
      <3>5. Follows(llmBackend', llmSaid', llmHeld', llmBuffer', llmReply', llmSpoilt')
        BY <2>1, <2>2, <2>3, <3>4 DEF Follows
      <3>6. NoCallIsHalf'
        BY <1>1, <2>1, <3>1, HalfThen
      <3>7. ReplyIsExact'
        BY <2>1, <3>1, ExactThen DEF ReplyIsOver
      <3> QED
        BY <2>1, <2>2, <3>1, <3>3, <3>5, <3>6, <3>7 DEF StreamInv, Body
    <2>4. CASE llmBackend # "responses"
      <3>1. Process(llmHeld)
        BY <1>8, <2>4 DEF ReadRest
      <3>2. /\ llmSaid' \in SaidSet /\ Numbered(llmSaid')
            /\ Follows(llmBackend, llmSaid', llmHeld, llmBuffer, llmReply, llmSpoilt)
        BY <1>1, <2>1, <2>2
      <3> QED
        BY <1>1, <2>1, <3>1, <3>2, LinesAreProcessed
    <2> QED
      BY <2>3, <2>4
  <1>9. ASSUME llmPhase \in Body, llmPhase' \in {"ended", "expired", "failing"},
               UNCHANGED <<llmBackend, llmSaid, llmHeld, llmBuffer, llmReply, llmSpoilt, llmTotal, llmSilent>>
        PROVE  StreamInv'
    <2>1. StreamTyped'
      BY <1>1, <1>9 DEF StreamTyped
    <2>2. NoCallIsHalf'
      BY <1>1, <1>9, HalfThen
    <2>3. ReplyIsExact'
      <3>1. SUFFICES ASSUME ReplyIsOver' PROVE ReplyIsExact'
        BY ExactThen
      <3>2. llmSaid'.finished /\ llmHeld' = NoSseLine
        BY <3>1 DEF ReplyIsOver
      <3>3. Follows(llmBackend, llmSaid, NoSseLine, llmBuffer, llmReply, llmSpoilt) /\ llmSaid.finished
        BY <1>5, <1>9, <3>2
      <3>4. IsExact(llmBackend, llmSaid, llmReply, llmSpoilt)
        BY <1>1, <3>3, ExactAtEnd
      <3> QED
        BY <1>9, <3>4, ExactThen
    <2> QED
      BY <1>5, <1>9, <2>1, <2>2, <2>3 DEF StreamInv, Body
  <1>10. ASSUME llmPhase \in {"failing", "expired"}, llmPhase' = "ended" /\ llmWhy' = "abort",
                UNCHANGED <<llmBackend, llmSaid, llmHeld, llmBuffer, llmReply, llmSpoilt, llmTotal, llmSilent>>
         PROVE  StreamInv'
    <2>1. StreamTyped'
      BY <1>1, <1>10 DEF StreamTyped
    <2>2. NoCallIsHalf' /\ ReplyIsExact'
      BY <1>1, <1>10, HalfThen, ExactThen DEF ReplyIsOver
    <2> QED
      BY <1>10, <2>1, <2>2 DEF StreamInv, Body
  <1>11. CASE BodyEnds
    <2>1. /\ llmPhase \in Body /\ llmPhase' = "ended"
          /\ UNCHANGED <<llmBackend, llmSaid, llmHeld, llmBuffer, llmReply, llmSpoilt, llmTotal, llmSilent>>
      BY <1>11 DEF BodyEnds, Body
    <2> QED
      BY <1>9, <2>1
  <1>12. CASE BodyFails
    BY <1>9, <1>12 DEF BodyFails, YieldError, Body
  <1>13. ASSUME NEW phase \in {"failing", "expired"}, YieldsAgain(phase) PROVE StreamInv'
    BY <1>10, <1>13 DEF YieldsAgain, YieldError
  <1>14. CASE Expire
    <2>1. CASE llmPhase \in Body
      <3>1. /\ llmPhase' \in {"ended", "expired"}
            /\ UNCHANGED <<llmBackend, llmSaid, llmHeld, llmBuffer, llmReply, llmSpoilt, llmTotal, llmSilent>>
        BY <1>14, <2>1 DEF Expire, YieldError, Body
      <3> QED
        BY <1>9, <2>1, <3>1
    <2>2. CASE llmPhase = "asked"
      <3>1. /\ llmPhase' = "failed"
            /\ UNCHANGED <<llmBackend, llmSaid, llmHeld, llmBuffer, llmReply, llmSpoilt, llmTotal, llmSilent>>
        BY <1>14, <2>2 DEF Expire
      <3>2. StreamTyped'
        BY <1>1, <3>1 DEF StreamTyped
      <3>3. NoCallIsHalf' /\ ReplyIsExact'
        BY <1>1, <3>1, HalfThen, ExactThen DEF ReplyIsOver
      <3> QED
        BY <3>1, <3>2, <3>3 DEF StreamInv, Body
    <2> QED
      BY <1>14, <2>1, <2>2 DEF Expire
  <1>15. CASE Tick \/ AbortTurn
    <2>1. /\ llmPhase \in {"asked", "expired"} \cup Body /\ llmPhase' = llmPhase
          /\ UNCHANGED <<llmBackend, llmSaid, llmHeld, llmBuffer, llmReply, llmSpoilt>>
      BY <1>15 DEF Tick, AbortTurn
    <2>2. llmTotal' \in 0 .. TotalLimit /\ llmSilent' \in 0 .. llmTotal'
      BY <1>1, <1>15 DEF Tick, AbortTurn, Expired, TotalExpired
    <2>3. StreamTyped'
      BY <1>1, <2>1, <2>2 DEF StreamTyped
    <2>4. NoCallIsHalf' /\ ReplyIsExact'
      BY <1>1, <2>1, HalfThen, ExactThen DEF ReplyIsOver, Body
    <2>5. Fresh => Fresh'
      BY <2>1 DEF Fresh
    <2>6. llmPhase \in Body =>
               /\ Numbered(llmSaid')
               /\ Follows(llmBackend', llmSaid', llmHeld', llmBuffer', llmReply', llmSpoilt')
               /\ llmHeld' # NoSseLine => "line" \in llmSpoilt'
      BY <1>5, <2>1
    <2> QED
      BY <2>1, <2>3, <2>4, <2>5, <2>6 DEF StreamInv, Body
  <1> QED
    BY <1>2, <1>3, <1>4, <1>6, <1>7, <1>8, <1>11, <1>12, <1>13, <1>14, <1>15 DEF LlmNext

LEMMA StreamStutter == StreamInv /\ UNCHANGED llmVars => StreamInv'
  <1> SUFFICES ASSUME StreamInv, UNCHANGED llmVars PROVE StreamInv'
    OBVIOUS
  <1>1. UNCHANGED <<llmBackend, llmPhase, llmWhy, llmSaid, llmHeld, llmBuffer, llmReply, llmAbort, llmSpoilt,
                    llmTotal, llmSilent>>
    BY DEF llmVars
  <1>2. StreamTyped /\ (Fresh => Fresh') /\ (NoCallIsHalf => NoCallIsHalf')
    BY <1>1, HalfThen DEF StreamInv, Fresh, Body
  <1>3. StreamTyped'
    BY <1>1, <1>2 DEF StreamTyped
  <1>4. ReplyIsExact => ReplyIsExact'
    BY <1>1 DEF ReplyIsExact, ReplyIsOver, TornLines, CutWords, CutCalls, Repeats, LateCounts, SecondCall, Opened
  <1> QED
    BY <1>1, <1>2, <1>3, <1>4 DEF StreamInv, Body

LEMMA StreamTypes == StreamInv => LlmTypeOK
  <1> SUFFICES ASSUME StreamInv PROVE LlmTypeOK
    OBVIOUS
  <1>1. /\ llmPhase \in {"new", "asked", "reading", "failing", "expired", "ended", "failed"}
        /\ llmReply.text \in Texts /\ llmSaid.text \in Seq(Words)
        /\ llmReply.calls \in DistinctLists /\ llmSaid.calls \in DistinctLists /\ llmBuffer \in DistinctLists
        /\ llmTotal \in 0 .. TotalLimit /\ llmSilent \in 0 .. llmTotal /\ TotalLimit \in Nat
    BY LlmAssumption DEF StreamInv, StreamTyped, SaidSet, ReplySet
  <1>2. ASSUME NEW calls \in DistinctLists, NEW i \in DOMAIN calls, NEW j \in DOMAIN calls
        PROVE  calls[i].index \in 0..MaxCalls /\ (calls[i].index = calls[j].index => i = j)
    <2>1. DOMAIN calls = 1 .. Len(calls) /\ calls \in Seq(CallSet) /\ Distinct(calls)
      BY LenProperties DEF DistinctLists
    <2>2. calls[i] \in CallSet
      BY <2>1, ElementOfSeq
    <2> QED
      BY <2>1, <2>2, CallFields DEF Distinct
  <1> QED
    BY <1>1, <1>2 DEF LlmTypeOK, Texts

LEMMA StreamsAlways == ServicesSpec => []StreamInv
  <1>1. ServicesInit => StreamInv
    BY StreamInit DEF ServicesInit
  <1>2. StreamInv /\ [ServicesNext]_servicesVars => StreamInv'
    <2> SUFFICES ASSUME StreamInv, [ServicesNext]_servicesVars PROVE StreamInv'
      OBVIOUS
    <2>1. CASE OfLlm(LlmNext)
      BY <2>1, StreamStep DEF OfLlm
    <2>2. CASE UNCHANGED llmVars
      BY <2>2, StreamStutter
    <2> QED
      BY <2>1, <2>2 DEF ServicesNext, OfMcp, OfConfig, servicesVars
  <1> QED
    BY <1>1, <1>2, PTL DEF ServicesSpec

\* The texts of replies are made of words and of what is left of a word that was cut, no
\* list has two calls with one index, and no clock passes the timeout of the client
\* (the reading loops of openai.rs and deepseek.rs, merge_tool_call of agent_loop.rs).
THEOREM StreamIsTyped == ServicesSpec => []LlmTypeOK
  BY StreamsAlways, StreamTypes, PTL

\* Whenever and however a reply breaks off, the calls the agent loop has of it are whole
\* for the DeepSeek backends, and for OpenAI's have their name and the beginning of their
\* arguments; but for lines cut by a read, and token counts after the end
\* (run_turn_streaming, and the buffers of deepseek.rs).
THEOREM CallsComeWhole == ServicesSpec => []NoCallIsHalf
  <1>1. StreamInv => NoCallIsHalf
    BY DEF StreamInv
  <1> QED
    BY <1>1, StreamsAlways, PTL

\* A reply whose last line was read to its end is what the model said, in whatever reads
\* its lines came: the text, the names and arguments of its calls, its token counts
\* (convert_stream_chunk, the line buffers of deepseek.rs, run_turn_streaming).
THEOREM RepliesAreExact == ServicesSpec => []ReplyIsExact
  <1>1. StreamInv => ReplyIsExact
    BY DEF StreamInv
  <1> QED
    BY <1>1, StreamsAlways, PTL

-----------------------------------------------------------------------------
(***************************************************************************)
(* Requests: the ids of the calls and of the results in what the backends  *)
(* make of a conversation.                                                 *)
(***************************************************************************)
\* Calls have ids of their own, and other items the empty one.
CallIds == STRING \cup {""}
Items == [type : {"call", "output", "said", "user", "system"}, id : CallIds]
Kinds == {"call", "output"}
IdOf(type, x) == IF x.type = type THEN <<x.id>> ELSE <<>>
Ids(type, items) == [k \in 1 .. Len(items) |-> IdOf(type, items[k])]

LEMMA IdsAreFlattened ==
    ASSUME NEW type, NEW items \in Seq(Items)
    PROVE  /\ IdsOf(type, items) = FlattenSeq(Ids(type, items)) /\ Len(items) \in Nat
           /\ Ids(type, items) \in [1 .. Len(items) -> Seq(CallIds)]
           /\ IdsOf(type, items) \in Seq(CallIds)
  <1>1. DOMAIN items = 1 .. Len(items) /\ Len(items) \in Nat /\ \A k \in 1 .. Len(items) : items[k].id \in CallIds
    <2>1. DOMAIN items = 1 .. Len(items) /\ Len(items) \in Nat /\ \A k \in 1 .. Len(items) : items[k] \in Items
      <3> HIDE DEF Items
      <3> QED
        OBVIOUS
    <2> QED
      BY <2>1 DEF Items
  <1>2. IdsOf(type, items) = FlattenSeq(Ids(type, items))
    BY <1>1 DEF IdsOf, Ids, IdOf
  <1>3. Ids(type, items) \in [1 .. Len(items) -> Seq(CallIds)]
    <2>1. ASSUME NEW k \in 1 .. Len(items) PROVE IdOf(type, items[k]) \in Seq(CallIds)
      <3> DEFINE a == items[k].id
      <3>1. a \in CallIds
        BY <1>1
      <3> HIDE DEF a
      <3>2. <<a>> \in Seq(CallIds) /\ <<>> \in Seq(CallIds)
        BY <3>1
      <3> QED
        BY <3>2 DEF IdOf, a
    <2> QED
      BY <2>1 DEF Ids
  <1>4. FlattenSeq(Ids(type, items)) \in Seq(CallIds)
    <2> DEFINE s == Ids(type, items)
               n == Len(items)
    <2>1. n \in Nat /\ s \in [1 .. n -> Seq(CallIds)]
      BY <1>1, <1>3
    <2> HIDE DEF s, n
    <2>2. FlattenSeq(s) \in Seq(CallIds)
      BY <2>1, FlattenedTyped
    <2> QED
      BY <2>2 DEF s
  <1> QED
    BY <1>1, <1>2, <1>3, <1>4

LEMMA IdsOfBoth ==
    ASSUME NEW type, NEW x \in Seq(Items), NEW y \in Seq(Items)
    PROVE  IdsOf(type, x \o y) = IdsOf(type, x) \o IdsOf(type, y)
  <1> DEFINE n == Len(x)
             m == Len(y)
             s == Ids(type, x)
             u == Ids(type, y)
             z == x \o y
             w == Ids(type, z)
  <1>1. /\ z \in Seq(Items) /\ n \in Nat /\ m \in Nat /\ Len(z) = n + m
        /\ \A k \in 1 .. n : k \in 1 .. n + m /\ z[k] = x[k]
        /\ \A k \in 1 .. m : n + k \in 1 .. n + m /\ z[n + k] = y[k]
    <2> HIDE DEF Items
    <2> QED
      OBVIOUS
  <1>2. s \in [1 .. n -> Seq(CallIds)] /\ u \in [1 .. m -> Seq(CallIds)]
    BY IdsAreFlattened
  <1> HIDE DEF z
  <1>3. w \in [1 .. n + m -> Seq(CallIds)] /\ IdsOf(type, z) = FlattenSeq(w)
    BY <1>1, IdsAreFlattened
  <1>4. \A k \in 1 .. n : s[k] = w[k]
    BY <1>1 DEF Ids
  <1>5. \A k \in 1 .. m : w[n + k] = u[k]
    BY <1>1 DEF Ids
  <1>6. IdsOf(type, x) = FlattenSeq(s) /\ IdsOf(type, y) = FlattenSeq(u)
    BY IdsAreFlattened
  <1> HIDE DEF n, m, s, u, w
  <1>7. InTwo(CallIds, n, m, s, u, w)
    BY <1>1, <1>2, <1>3, <1>4, <1>5 DEF InTwo, Agree
  <1>8. FlattenSeq(w) = FlattenSeq(s) \o FlattenSeq(u)
    BY <1>7, FlattenedBoth
  <1> QED
    BY <1>3, <1>6, <1>8 DEF z

LEMMA IdsOfNone ==
    ASSUME NEW type
    PROVE  << >> \in Seq(Items) /\ IdsOf(type, << >>) = << >>
  <1> DEFINE none == <<>>
             s == [i \in DOMAIN none |-> IF none[i].type = type THEN <<none[i].id>> ELSE <<>>]
  <1>1. s = <<>> /\ Len(s) = 0
    OBVIOUS
  <1>2. FlattenSeq(s) = s
    BY <1>1 DEF FlattenSeq
  <1> QED
    BY <1>1, <1>2 DEF IdsOf

LEMMA IdsOfOne ==
    ASSUME NEW type, NEW x \in Items
    PROVE  << x >> \in Seq(Items) /\ IdsOf(type, << x >>) = IdOf(type, x)
  <1> DEFINE v == <<x>>
             t == Ids(type, v)
             a == IdOf(type, x)
             g == [k \in 0 .. 1 |-> IF k = 0 THEN <<>> ELSE a]
  <1>1. v \in Seq(Items) /\ Len(v) = 1 /\ v[1] = x
    <2> HIDE DEF Items
    <2> QED
      OBVIOUS
  <1> HIDE DEF v
  <1>2. IdsOf(type, v) = FlattenSeq(t) /\ t \in [1 .. 1 -> Seq(CallIds)]
    BY <1>1, IdsAreFlattened
  <1>3. t[1] = a
    BY <1>1 DEF Ids
  <1> HIDE DEF t
  <1>4. 1 \in Nat
    OBVIOUS
  <1>5. PICK f \in [0 .. 1 -> Seq(CallIds)] : Flattens(f, 1, t)
    BY <1>2, <1>4, Flattened
  <1>6. f[0] = <<>> /\ f[1] = FlattenSeq(t) /\ f[1] = Cat(f[0], t[1])
    BY <1>5 DEF Flattens
  <1>7. t[1] \in Seq(CallIds)
    BY <1>2
  <1>8. Cat(<<>>, t[1]) = t[1]
    BY <1>7, Concatenated
  <1> QED
    BY <1>1, <1>2, <1>3, <1>6, <1>8 DEF v

LEMMA IdsOfCalls ==
    ASSUME NEW ids \in Seq(CallIds)
    PROVE  /\ CallItems(ids) \in Seq(Items)
           /\ IdsOf("call", CallItems(ids)) = ids /\ IdsOf("output", CallItems(ids)) = <<>>
  <1> DEFINE v == CallItems(ids)
             n == Len(ids)
             t == Ids("call", v)
             z == Ids("output", v)
  <1>1. n \in Nat /\ DOMAIN ids = 1 .. n /\ n = Len(ids) /\ \A k \in 1 .. n : ids[k] \in CallIds
    OBVIOUS
  <1>2. v \in Seq(Items) /\ Len(v) = n /\ \A k \in 1 .. n : v[k].type = "call" /\ v[k].id = ids[k]
    <2> HIDE DEF n
    <2>1. v = [k \in 1 .. n |-> Item("call", ids[k])]
      BY <1>1 DEF CallItems
    <2> HIDE DEF v
    <2>3. \A k \in 1 .. n : v[k] = Item("call", ids[k])
      BY <2>1
    <2>4. \A k \in 1 .. n : Item("call", ids[k]) \in Items
      BY <1>1 DEF Item, Items
    <2>5. v \in [1 .. n -> Items]
      BY <2>1, <2>4
    <2>2. v \in Seq(Items) /\ Len(v) = n
      <3> HIDE DEF Items
      <3> QED
        BY <1>1, <2>5
    <2> QED
      BY <2>2, <2>3 DEF Item
  <1> HIDE DEF v
  <1>3. /\ IdsOf("call", v) = FlattenSeq(t) /\ t \in [1 .. n -> Seq(CallIds)]
        /\ IdsOf("output", v) = FlattenSeq(z) /\ z \in [1 .. n -> Seq(CallIds)]
    BY <1>2, IdsAreFlattened
  <1>4. \A k \in 1 .. n : t[k] = <<ids[k]>> /\ z[k] = <<>>
    BY <1>2 DEF Ids, IdOf
  <1> HIDE DEF n, t, z
  <1>5. FlattenSeq(z) = <<>>
    BY <1>1, <1>3, <1>4, FlattenedNone
  <1>6. FlattenSeq(t) = ids
    <2> DEFINE s == <<>>
               m == 0
    <2>1. m \in Nat /\ s \in [1 .. m -> Seq(CallIds)] /\ Len(s) = 0
      OBVIOUS
    <2>2. FlattenSeq(s) = <<>>
      BY <2>1 DEF FlattenSeq
    <2>3. m = 0
      OBVIOUS
    <2> HIDE DEF s, m
    <2>4. ExtendedBy(CallIds, m, n, s, t, ids)
      BY <1>1, <1>3, <1>4, <2>1, <2>3 DEF ExtendedBy, Extended, Agree, OneByOne
    <2>5. FlattenSeq(t) = FlattenSeq(s) \o ids
      BY <2>4, FlattenedMore
    <2> QED
      BY <2>2, <2>5
  <1> QED
    BY <1>2, <1>3, <1>5, <1>6 DEF v

-----------------------------------------------------------------------------
RoleOf(type) == IF type = "call" THEN "assistant" ELSE "tool"
Part(type, m) == IF m.role = RoleOf(type) THEN m.ids ELSE <<>>
Parts(type, history) == [k \in 1 .. Len(history) |-> Part(type, history[k])]

LEMMA MessageFields ==
    ASSUME NEW m \in Messages
    PROVE  /\ m.role \in {"system", "user", "assistant", "tool"} /\ m.ids \in Seq(CallIds)
           /\ m.role = "tool" => m.ids[1] \in CallIds /\ m.ids = << m.ids[1] >>
           /\ \A type \in Kinds : Part(type, m) \in Seq(CallIds)
  <1>1. /\ m.role \in {"system", "user", "assistant", "tool"} /\ m.ids \in Seq(CallIds)
        /\ m.role = "tool" => Len(m.ids) = 1
    <2>1. m.ids \in Seq(STRING) /\ m.role \in {"system", "user", "assistant", "tool"}
      BY DEF Messages
    <2>2. STRING \subseteq CallIds
      BY DEF CallIds
    <2>3. m.ids \in Seq(CallIds)
      <3> DEFINE ids == m.ids
                 n == Len(ids)
      <3>1. ids \in Seq(STRING)
        BY <2>1
      <3> HIDE DEF ids
      <3>2. n \in Nat /\ ids \in [1 .. n -> STRING]
        BY <3>1
      <3> HIDE DEF n
      <3>3. ids \in [1 .. n -> CallIds]
        BY <2>2, <3>2
      <3>4. ids \in Seq(CallIds)
        BY <3>2, <3>3
      <3> QED
        BY <3>4 DEF ids
    <2> QED
      BY <2>1, <2>3 DEF Messages
  <1>2. m.role = "tool" => m.ids[1] \in CallIds /\ m.ids = <<m.ids[1]>>
    <2> DEFINE ids == m.ids
    <2>1. ids \in Seq(CallIds)
      BY <1>1
    <2> HIDE DEF ids
    <2>2. ASSUME Len(ids) = 1 PROVE ids[1] \in CallIds /\ ids = <<ids[1]>>
      BY <2>1, <2>2
    <2> QED
      BY <1>1, <2>2 DEF ids
  <1>3. ASSUME NEW type \in Kinds PROVE Part(type, m) \in Seq(CallIds)
    BY <1>1 DEF Part
  <1> QED
    BY <1>1, <1>2, <1>3

LEMMA IdsByFlattened ==
    ASSUME NEW type \in Kinds, NEW history \in Seq(Messages)
    PROVE  /\ IdsBy(RoleOf(type), history) = FlattenSeq(Parts(type, history)) /\ Len(history) \in Nat
           /\ Parts(type, history) \in [1 .. Len(history) -> Seq(CallIds)]
           /\ \A k \in 1 .. Len(history) : history[k] \in Messages
  <1>1. /\ DOMAIN history = 1 .. Len(history) /\ Len(history) \in Nat
        /\ \A k \in 1 .. Len(history) : history[k] \in Messages
    <2> HIDE DEF Messages
    <2> QED
      OBVIOUS
  <1>2. IdsBy(RoleOf(type), history) = FlattenSeq(Parts(type, history))
    BY <1>1 DEF IdsBy, Parts, Part
  <1>3. \A k \in 1 .. Len(history) : Part(type, history[k]) \in Seq(CallIds)
    BY <1>1, MessageFields
  <1> QED
    BY <1>1, <1>2, <1>3 DEF Parts

LEMMA EmptyId == "" \in CallIds
  BY DEF CallIds

\* Items that are neither calls nor results.
LEMMA IdsOfOther ==
    ASSUME NEW kind \in {"said", "user", "system"}, NEW type \in Kinds
    PROVE  << Item(kind, "") >> \in Seq(Items) /\ IdsOf(type, << Item(kind, "") >>) = << >>
  <1> DEFINE x == Item(kind, "")
  <1>1. x \in Items /\ IdOf(type, x) = <<>>
    <2>1. "" \in CallIds
      BY EmptyId
    <2>2. x \in Items /\ x.type = kind
      BY <2>1 DEF Item, Items
    <2> QED
      BY <2>2 DEF IdOf, Kinds
  <1> HIDE DEF x
  <1>2. <<x>> \in Seq(Items) /\ IdsOf(type, <<x>>) = IdOf(type, x)
    BY <1>1, IdsOfOne
  <1> QED
    BY <1>1, <1>2 DEF x

LEMMA IdsOfOutput ==
    ASSUME NEW id \in CallIds
    PROVE  /\ << Item("output", id) >> \in Seq(Items)
           /\ IdsOf("call", << Item("output", id) >>) = << >>
           /\ IdsOf("output", << Item("output", id) >>) = << id >>
  <1> DEFINE x == Item("output", id)
  <1>1. x \in Items /\ IdOf("call", x) = <<>> /\ IdOf("output", x) = <<id>>
    BY DEF Item, Items, IdOf
  <1> HIDE DEF x
  <1>2. <<x>> \in Seq(Items) /\ \A type \in Kinds : IdsOf(type, <<x>>) = IdOf(type, x)
    BY <1>1, IdsOfOne
  <1> QED
    BY <1>1, <1>2 DEF x, Kinds

\* Of a message the chat and the OpenAI backends keep the calls or the result.
LEMMA ConvertedKeeps ==
    ASSUME NEW m \in Messages, NEW type \in Kinds
    PROVE  Converted(m) \in Seq(Items) /\ IdsOf(type, Converted(m)) = Part(type, m)
  <1>1. /\ m.role \in {"system", "user", "assistant", "tool"} /\ m.ids \in Seq(CallIds)
        /\ m.role = "tool" => m.ids[1] \in CallIds /\ m.ids = <<m.ids[1]>>
    BY MessageFields
  <1>2. CASE m.role = "assistant"
    <2> DEFINE x == <<Item("said", "")>>
               y == CallItems(m.ids)
    <2>1. Converted(m) = x \o y
      BY <1>2 DEF Converted
    <2>2. x \in Seq(Items) /\ IdsOf(type, x) = <<>>
      BY IdsOfOther
    <2>3. y \in Seq(Items) /\ IdsOf("call", y) = m.ids /\ IdsOf("output", y) = <<>>
      BY <1>1, IdsOfCalls
    <2>4. IdsOf(type, y) = Part(type, m)
      BY <1>2, <2>3 DEF Part, RoleOf, Kinds
    <2>5. Part(type, m) \in Seq(CallIds)
      BY MessageFields
    <2> HIDE DEF x, y
    <2>6. IdsOf(type, x \o y) = IdsOf(type, x) \o IdsOf(type, y)
      BY <2>2, <2>3, IdsOfBoth
    <2>7. x \o y \in Seq(Items)
      <3> HIDE DEF Items
      <3> QED
        BY <2>2, <2>3
    <2> DEFINE part == Part(type, m)
    <2> HIDE DEF part
    <2>8. part \in Seq(CallIds) => <<>> \o part = part
      OBVIOUS
    <2> QED
      BY <2>1, <2>2, <2>4, <2>5, <2>6, <2>7, <2>8 DEF part
  <1>3. CASE m.role = "tool"
    <2>1. Converted(m) = <<Item("output", m.ids[1])>>
      BY <1>3 DEF Converted
    <2>2. /\ <<Item("output", m.ids[1])>> \in Seq(Items)
          /\ IdsOf("call", <<Item("output", m.ids[1])>>) = <<>>
          /\ IdsOf("output", <<Item("output", m.ids[1])>>) = <<m.ids[1]>>
      BY <1>1, <1>3, IdsOfOutput
    <2>3. Part("call", m) = <<>> /\ Part("output", m) = <<m.ids[1]>>
      BY <1>1, <1>3 DEF Part, RoleOf
    <2> QED
      BY <2>1, <2>2, <2>3 DEF Kinds
  <1>4. CASE m.role \in {"user", "system"}
    <2>1. Converted(m) = <<Item(m.role, "")>> /\ Part(type, m) = <<>>
      BY <1>4 DEF Converted, Part, RoleOf, Kinds
    <2>2. <<Item(m.role, "")>> \in Seq(Items) /\ IdsOf(type, <<Item(m.role, "")>>) = <<>>
      BY <1>4, IdsOfOther
    <2> QED
      BY <2>1, <2>2
  <1> QED
    BY <1>1, <1>2, <1>3, <1>4

\* A conversation is converted message by message, ...
LEMMA ConvertedIsWhole ==
    ASSUME NEW type \in Kinds, NEW history \in Seq(Messages)
    PROVE  IdsOf(type, FlattenSeq([i \in DOMAIN history |-> Converted(history[i])])) = IdsBy(RoleOf(type), history)
  <1> DEFINE n == Len(history)
             s == [k \in 1 .. n |-> Converted(history[k])]
             parts == Parts(type, history)
  <1>1. /\ n \in Nat /\ parts \in [1 .. n -> Seq(CallIds)] /\ \A k \in 1 .. n : history[k] \in Messages
        /\ IdsBy(RoleOf(type), history) = FlattenSeq(parts)
    BY IdsByFlattened
  <1>2. DOMAIN history = 1 .. n
    OBVIOUS
  <1>3. \A k \in 1 .. n : parts[k] = Part(type, history[k])
    BY DEF Parts
  <1> HIDE DEF n, parts
  <1>4. s \in [1 .. n -> Seq(Items)] /\ \A k \in 1 .. n : s[k] \in Seq(Items) /\ IdsOf(type, s[k]) = parts[k]
    BY <1>1, <1>3, ConvertedKeeps
  <1>5. FlattenSeq([i \in DOMAIN history |-> Converted(history[i])]) = FlattenSeq(s)
    BY <1>2
  <1> HIDE DEF s
  <1>6. PICK f \in [0 .. n -> Seq(Items)] : Flattens(f, n, s)
    BY <1>1, <1>4, Flattened
  <1>7. PICK g \in [0 .. n -> Seq(CallIds)] : Flattens(g, n, parts)
    BY <1>1, Flattened
  <1> DEFINE Same == {k \in 0 .. n : IdsOf(type, f[k]) = g[k]}
  <1>8. 0 \in Same
    <2>1. f[0] = <<>> /\ g[0] = <<>>
      BY <1>6, <1>7 DEF Flattens
    <2> QED
      BY <1>1, <2>1, IdsOfNone
  <1>9. ASSUME NEW k \in 1 .. n, \A j \in 0 .. k - 1 : j \in Same PROVE k \in Same
    <2> DEFINE x == f[k - 1]
               y == s[k]
    <2>1. x \in Seq(Items) /\ y \in Seq(Items) /\ IdsOf(type, y) = parts[k]
      BY <1>1, <1>4
    <2>2. f[k] = Cat(x, y) /\ g[k] = Cat(g[k - 1], parts[k])
      BY <1>6, <1>7 DEF Flattens
    <2>3. IdsOf(type, x) = g[k - 1]
      BY <1>1, <1>9
    <2> HIDE DEF x, y
    <2>4. IdsOf(type, x \o y) = IdsOf(type, x) \o IdsOf(type, y)
      BY <2>1, IdsOfBoth
    <2>5. IdsOf(type, f[k]) = g[k]
      BY <2>1, <2>2, <2>3, <2>4 DEF Cat
    <2> QED
      BY <2>5
  <1>10. 0 .. n \subseteq Same
    <2> HIDE DEF Same
    <2> QED
      BY <1>1, <1>8, <1>9, ForwardInduction
  <1>11. IdsOf(type, f[n]) = g[n]
    BY <1>1, <1>10
  <1> QED
    BY <1>1, <1>5, <1>6, <1>7, <1>11 DEF Flattens

\* ... or the calls of a message wait in the input for a later one.
LEMMA FoldOfAddItem ==
    ASSUME NEW X, NEW S, \A state \in X, c \in S : AddItem(state, c) \in X,
           NEW base \in X, NEW s \in Seq(S)
    PROVE  \E h \in [0 .. Len(s) -> X] : Folded(h, AddItem, base, s)
  <1> DEFINE n == Len(s)
             step == [k \in 1 .. n |-> [state \in X |-> AddItem(state, s[k])]]
             Scan(f) == f = [T \in SUBSET DOMAIN s |->
                               IF T = {} THEN base ELSE AddItem(f[T \ {Max(T)}], s[Max(T)])]
  <1>1. n \in Nat /\ DOMAIN s = 1 .. n /\ \A k \in 1 .. n : s[k] \in S
    OBVIOUS
  <1>2. PICK f \in [SUBSET (1 .. n) -> X] : FromSets(f, n, base, step)
    <2>1. step \in [1 .. n -> [X -> X]]
      BY <1>1
    <2> HIDE DEF n, step
    <2> QED
      BY <1>1, <2>1, FoldExists
  <1>3. Scan(f)
    <2>1. ASSUME NEW T \in SUBSET (1 .. n)
          PROVE  f[T] = IF T = {} THEN base ELSE AddItem(f[T \ {Max(T)}], s[Max(T)])
      <3>1. CASE T = {}
        BY <1>2, <3>1 DEF FromSets
      <3>2. CASE T # {}
        <4>1. Max(T) \in 1 .. n /\ T \ {Max(T)} \in SUBSET (1 .. n)
          BY <1>1, <3>2, MaxOfSome
        <4>2. f[T \ {Max(T)}] \in X
          BY <4>1
        <4>3. step[Max(T)][f[T \ {Max(T)}]] = AddItem(f[T \ {Max(T)}], s[Max(T)])
          BY <4>1, <4>2
        <4> HIDE DEF step
        <4> QED
          BY <1>2, <3>2, <4>3 DEF FromSets
      <3> QED
        BY <3>1, <3>2
    <2>2. f = [T \in SUBSET (1 .. n) |-> f[T]]
      OBVIOUS
    <2> HIDE DEF n
    <2> QED
      BY <1>1, <2>1, <2>2
  <1>4. PICK g : Scan(g) /\ FoldLeft(AddItem, base, s) = g[DOMAIN s]
    <2> DEFINE found == CHOOSE g : Scan(g)
    <2>1. FoldLeft(AddItem, base, s) = found[DOMAIN s]
      <3> HIDE DEF Max, AddItem
      <3> QED
        BY DEF FoldLeft, MapThenFoldSet
    <2>2. Scan(found)
      <3> HIDE DEF Scan
      <3> QED
        BY <1>3
    <2> HIDE DEF found, Scan
    <2> QED
      BY <2>1, <2>2
  <1> DEFINE h == [k \in 0 .. n |-> g[1 .. k]]
  <1>5. /\ h[0] = base
        /\ \A k \in 1 .. n : h[k] = AddItem(h[k - 1], s[k])
        /\ FoldLeft(AddItem, base, s) = h[n]
    <2>1. /\ 1 .. 0 = {} /\ {} \in SUBSET (1 .. n) /\ 0 \in 0 .. n /\ n \in 0 .. n
          /\ \A k \in 1 .. n : /\ 1 .. k \in SUBSET (1 .. n) /\ 1 .. k # {} /\ k \in 0 .. n /\ k - 1 \in 0 .. n
                               /\ Max(1 .. k) = k /\ (1 .. k) \ {k} = 1 .. k - 1
      BY <1>1, FoldedPlaces
    <2>2. \A T \in SUBSET (1 .. n) : g[T] = IF T = {} THEN base ELSE AddItem(g[T \ {Max(T)}], s[Max(T)])
      <3> HIDE DEF n
      <3> QED
        BY <1>1, <1>4
    <2> HIDE DEF n
    <2>3. h[0] = base
      BY <2>1, <2>2
    <2>4. ASSUME NEW k \in 1 .. n PROVE h[k] = AddItem(h[k - 1], s[k])
      <3>1. g[1 .. k] = AddItem(g[(1 .. k) \ {Max(1 .. k)}], s[Max(1 .. k)])
        BY <2>1, <2>2
      <3>2. g[1 .. k] = AddItem(g[1 .. k - 1], s[k])
        BY <2>1, <3>1
      <3>3. h[k] = g[1 .. k] /\ h[k - 1] = g[1 .. k - 1]
        BY <2>1
      <3> QED
        BY <3>2, <3>3
    <2> QED
      BY <1>1, <1>4, <2>1, <2>3, <2>4
  <1>6. \A k \in 0 .. n : h[k] \in X
    <2> DEFINE Good == {k \in 0 .. n : h[k] \in X}
    <2> HIDE DEF h, n
    <2>1. 0 \in Good
      BY <1>1, <1>5
    <2>2. ASSUME NEW k \in 1 .. n, \A j \in 0 .. k - 1 : j \in Good PROVE k \in Good
      <3>1. k - 1 \in 0 .. k - 1 /\ k \in 0 .. n
        BY <1>1
      <3>2. h[k - 1] \in X
        BY <2>2, <3>1
      <3>3. s[k] \in S /\ h[k] = AddItem(h[k - 1], s[k])
        BY <1>1, <1>5
      <3>4. AddItem(h[k - 1], s[k]) \in X
        BY <3>2, <3>3, Zenon
      <3> QED
        BY <3>1, <3>3, <3>4
    <2> HIDE DEF Good
    <2>3. 0 .. n \subseteq Good
      BY <1>1, <2>1, <2>2, ForwardInduction
    <2> QED
      BY <2>3 DEF Good
  <1>7. h \in [0 .. n -> X]
    BY <1>6
  <1> HIDE DEF h
  <1> QED
    BY <1>5, <1>7 DEF Folded

LEMMA AppendedOne ==
    ASSUME NEW S, NEW s \in Seq(S), NEW x
    PROVE  Append(s, x) = Cat(s, << x >>)
  BY DEF Cat

Waitings == [input : Seq(Items), pending : Seq(Items)]
Carried(type, state) == Cat(IdsOf(type, state.input), IdsOf(type, state.pending))
Carries(state) == state \in Waitings /\ IdsOf("output", state.pending) = <<>>

LEMMA AddItemCarries ==
    ASSUME NEW state, NEW m \in Messages, NEW type \in Kinds, Carries(state)
    PROVE  /\ Carries(AddItem(state, m)) /\ Carried(type, AddItem(state, m)) \in Seq(CallIds)
           /\ Carried(type, AddItem(state, m)) = Cat(Carried(type, state), Part(type, m))
  <1> DEFINE in == state.input
             wait == state.pending
             a == IdsOf(type, in)
             b == IdsOf(type, wait)
             part == Part(type, m)
             none == <<>>
             next == AddItem(state, m)
  <1>1. in \in Seq(Items) /\ wait \in Seq(Items) /\ IdsOf("output", wait) = none
    BY DEF Carries, Waitings
  <1>2. a \in Seq(CallIds) /\ b \in Seq(CallIds) /\ part \in Seq(CallIds) /\ none \in Seq(CallIds)
    BY <1>1, IdsAreFlattened, MessageFields
  <1>3. /\ \A x \in Seq(Items) : IdsOf(type, Cat(in, x)) = Cat(a, IdsOf(type, x)) /\ Cat(in, x) \in Seq(Items)
        /\ IdsOf(type, Cat(in, wait)) = Cat(a, b) /\ Cat(in, wait) \in Seq(Items)
        /\ none \in Seq(Items) /\ IdsOf(type, none) = none /\ IdsOf("output", none) = none
    <2>1. ASSUME NEW x \in Seq(Items) PROVE IdsOf(type, Cat(in, x)) = Cat(a, IdsOf(type, x)) /\ Cat(in, x) \in Seq(Items)
      <3>1. IdsOf(type, in \o x) = IdsOf(type, in) \o IdsOf(type, x)
        BY <1>1, IdsOfBoth
      <3> QED
        BY <1>1, <3>1, Concatenated DEF Cat
    <2> QED
      BY <1>1, <2>1, IdsOfNone
  <1>4. /\ m.role \in {"system", "user", "assistant", "tool"} /\ m.ids \in Seq(CallIds)
        /\ m.role = "tool" => m.ids[1] \in CallIds /\ m.ids = <<m.ids[1]>>
    BY MessageFields
  <1>5. Carried(type, state) = Cat(a, b) /\ Cat(a, b) \in Seq(CallIds)
    BY <1>2, Concatenated DEF Carried
  <1>6. \A x, y \in Seq(Items) : /\ Waiting(x, y) \in Waitings
                                 /\ Waiting(x, y).input = x /\ Waiting(x, y).pending = y
    BY DEF Waiting, Waitings
  <1> HIDE DEF in, wait, a, b, part, none
  <1>7. \A u \in Seq(CallIds) : Cat(u, none) = u /\ Cat(none, u) = u
    BY Concatenated DEF none
  <1>8. ASSUME m.role = "assistant", m.ids = <<>>
        PROVE  /\ Carries(next) /\ Carried(type, next) = Cat(Carried(type, state), part)
    <2> DEFINE x == <<Item("said", "")>>
               all == Cat(in, wait)
    <2>1. x \in Seq(Items) /\ IdsOf(type, x) = none
      BY IdsOfOther DEF none
    <2>2. next = Waiting(Cat(all, x), none) /\ part = none
      <3>1. AddItem(state, m) = Waiting(Append(all, Item("said", "")), none)
        BY <1>8 DEF AddItem, Cat, in, wait, none
      <3>2. Append(all, Item("said", "")) = Cat(all, x)
        BY <1>3, AppendedOne
      <3>3. part = none
        BY <1>8 DEF part, Part, none
      <3> QED
        BY <3>1, <3>2, <3>3
    <2> HIDE DEF x, all, next
    <2>3. all \in Seq(Items) /\ IdsOf(type, all) = Cat(a, b)
      BY <1>3 DEF all
    <2>4. IdsOf(type, all \o x) = IdsOf(type, all) \o IdsOf(type, x)
      BY <2>1, <2>3, IdsOfBoth
    <2>5. Cat(all, x) \in Seq(Items)
      BY <2>1, <2>3, Concatenated
    <2>6. IdsOf(type, Cat(all, x)) = Cat(a, b)
      <3>1. IdsOf(type, Cat(all, x)) = Cat(Cat(a, b), none)
        BY <2>1, <2>3, <2>4 DEF Cat
      <3> QED
        BY <1>5, <1>7, <3>1
    <2>7. Carries(next) /\ next.input = Cat(all, x) /\ next.pending = none
      BY <1>3, <1>6, <2>2, <2>5 DEF Carries, none
    <2>8. Carried(type, next) = Cat(Cat(a, b), none)
      BY <1>3, <2>6, <2>7 DEF Carried
    <2> QED
      BY <1>5, <2>2, <2>7, <2>8
  <1>9. ASSUME m.role = "assistant", m.ids # <<>>
        PROVE  /\ Carries(next) /\ Carried(type, next) = Cat(Carried(type, state), part)
    <2> DEFINE x == CallItems(m.ids)
               all == Cat(in, wait)
    <2>1. x \in Seq(Items) /\ IdsOf("call", x) = m.ids /\ IdsOf("output", x) = none
      BY <1>4, IdsOfCalls DEF none
    <2>2. next = Waiting(all, x)
      BY <1>9 DEF AddItem, Cat, in, wait
    <2>3. IdsOf(type, x) = part
      BY <1>9, <2>1 DEF part, Part, RoleOf, Kinds, none
    <2> HIDE DEF x, all, next
    <2>4. all \in Seq(Items) /\ IdsOf(type, all) = Cat(a, b)
      BY <1>3 DEF all
    <2>5. Carries(next) /\ next.input = all /\ next.pending = x
      BY <1>6, <2>1, <2>2, <2>4 DEF Carries, none
    <2> QED
      BY <1>5, <2>3, <2>4, <2>5 DEF Carried
  <1>10. ASSUME NEW x \in Seq(Items), next = Waiting(Cat(in, x), wait), IdsOf(type, x) = part,
                part = none \/ b = none
         PROVE  /\ Carries(next) /\ Carried(type, next) = Cat(Carried(type, state), part)
    <2> HIDE DEF next
    <2>1. Carries(next) /\ next.input = Cat(in, x) /\ next.pending = wait
      BY <1>1, <1>3, <1>6, <1>10 DEF Carries, none
    <2>2. Carried(type, next) = Cat(Cat(a, part), b)
      BY <1>3, <1>10, <2>1 DEF Carried, b
    <2>3. Cat(Cat(a, part), b) = Cat(Cat(a, b), part)
      <3>1. CASE part = none
        BY <1>2, <1>5, <1>7, <3>1
      <3>2. CASE b = none
        <4>1. Cat(a, part) \in Seq(CallIds)
          BY <1>2, Concatenated
        <4> QED
          BY <1>2, <1>7, <3>2, <4>1
      <3> QED
        BY <1>10, <3>1, <3>2
    <2> QED
      BY <1>5, <2>1, <2>2, <2>3
  <1>11. ASSUME m.role = "tool"
         PROVE  /\ Carries(next) /\ Carried(type, next) = Cat(Carried(type, state), part)
    <2> DEFINE id == m.ids[1]
               x == <<Item("output", id)>>
    <2>1. id \in CallIds /\ m.ids = <<id>>
      BY <1>4, <1>11
    <2>2. next = Waiting(Cat(in, x), wait)
      <3>1. Append(in, Item("output", id)) = Cat(in, x)
        BY <1>1, AppendedOne
      <3>2. AddItem(state, m) = Waiting(Append(in, Item("output", id)), wait)
        BY <1>11 DEF AddItem, in, wait
      <3> QED
        BY <3>1, <3>2
    <2> HIDE DEF id
    <2>3. x \in Seq(Items) /\ IdsOf("call", x) = <<>> /\ IdsOf("output", x) = <<id>>
      BY <2>1, IdsOfOutput
    <2>4. type = "call" => IdsOf(type, x) = part /\ part = none
      BY <1>11, <2>3 DEF part, Part, RoleOf, none
    <2>5. type = "output" => IdsOf(type, x) = part /\ b = none
      BY <1>1, <1>11, <2>1, <2>3 DEF part, Part, RoleOf, none, b
    <2> HIDE DEF x, next
    <2> QED
      BY <1>10, <2>2, <2>3, <2>4, <2>5 DEF Kinds
  <1>12. ASSUME m.role = "user"
         PROVE  /\ Carries(next) /\ Carried(type, next) = Cat(Carried(type, state), part)
    <2> DEFINE x == <<Item("user", "")>>
    <2>1. next = Waiting(Cat(in, x), wait)
      <3>1. Append(in, Item("user", "")) = Cat(in, x)
        BY <1>1, AppendedOne
      <3>2. AddItem(state, m) = Waiting(Append(in, Item("user", "")), wait)
        BY <1>12 DEF AddItem, in, wait
      <3> QED
        BY <3>1, <3>2
    <2>2. x \in Seq(Items) /\ IdsOf(type, x) = none /\ part = none
      BY <1>12, IdsOfOther DEF none, part, Part, RoleOf
    <2> HIDE DEF x, next
    <2> QED
      BY <1>10, <2>1, <2>2
  <1>13. ASSUME m.role = "system"
         PROVE  /\ Carries(next) /\ Carried(type, next) = Cat(Carried(type, state), part)
    <2>1. next = state /\ part = none
      BY <1>13 DEF AddItem, part, Part, RoleOf, none
    <2> QED
      BY <1>5, <1>7, <2>1
  <1>14. Carries(next) /\ Carried(type, next) = Cat(Carried(type, state), part)
    BY <1>4, <1>8, <1>9, <1>11, <1>12, <1>13
  <1>15. Cat(Cat(a, b), part) \in Seq(CallIds)
    BY <1>2, <1>5, Concatenated
  <1> QED
    BY <1>5, <1>14, <1>15 DEF part

LEMMA ResponsesIsWhole ==
    ASSUME NEW type \in Kinds, NEW history \in Seq(Messages)
    PROVE  IdsOf(type, ResponsesInput(history)) = IdsBy(RoleOf(type), history)
  <1> DEFINE n == Len(history)
             parts == Parts(type, history)
             none == <<>>
             base == Waiting(none, none)
             X == {state \in Waitings : Carries(state)}
             end == FoldLeft(AddItem, base, history)
  <1>1. /\ n \in Nat /\ parts \in [1 .. n -> Seq(CallIds)]
        /\ \A k \in 1 .. n : history[k] \in Messages /\ parts[k] = Part(type, history[k])
        /\ IdsBy(RoleOf(type), history) = FlattenSeq(parts)
    BY IdsByFlattened DEF Parts
  <1>2. none \in Seq(Items) /\ IdsOf(type, none) = none /\ IdsOf("output", none) = none
    BY IdsOfNone
  <1>3. /\ base \in X /\ Carried(type, base) = none
    <2>1. base.input = none /\ base.pending = none /\ base \in Waitings
      <3> HIDE DEF none
      <3> QED
        BY <1>2 DEF Waiting, Waitings
    <2>2. Cat(none, none) = none
      BY Concatenated
    <2> HIDE DEF base
    <2> QED
      BY <1>2, <2>1, <2>2 DEF Carries, Carried
  <1>4. \A state \in X, m \in Messages : AddItem(state, m) \in X
    <2>1. ASSUME NEW state \in X, NEW m \in Messages PROVE AddItem(state, m) \in X
      <3>1. Carries(state)
        OBVIOUS
      <3>2. Carries(AddItem(state, m))
        BY <3>1, AddItemCarries
      <3> QED
        BY <3>2 DEF Carries
    <2> QED
      BY <2>1
  <1>5. \A state \in X : Carries(state)
    OBVIOUS
  <1>6. PICK h \in [0 .. n -> X] : Folded(h, AddItem, base, history)
    <2> HIDE DEF X, base
    <2> QED
      BY <1>3, <1>4, FoldOfAddItem
  <1>7. h[0] = base /\ h[n] = end /\ \A k \in 1 .. n : h[k] = AddItem(h[k - 1], history[k])
    BY <1>6 DEF Folded
  <1> HIDE DEF X, base, end, parts, n
  <1>8. PICK g \in [0 .. n -> Seq(CallIds)] : Flattens(g, n, parts)
    BY <1>1, Flattened
  <1>9. g[0] = none /\ g[n] = FlattenSeq(parts) /\ \A k \in 1 .. n : g[k] = Cat(g[k - 1], parts[k])
    BY <1>8 DEF Flattens
  <1> DEFINE Same == {k \in 0 .. n : Carried(type, h[k]) = g[k]}
  <1>10. 0 \in Same
    BY <1>1, <1>3, <1>7, <1>9
  <1>11. ASSUME NEW k \in 1 .. n, \A j \in 0 .. k - 1 : j \in Same PROVE k \in Same
    <2> DEFINE state == h[k - 1]
               m == history[k]
    <2>1. state \in X /\ m \in Messages /\ Carried(type, state) = g[k - 1]
      BY <1>1, <1>11
    <2>2. h[k] = AddItem(state, m) /\ g[k] = Cat(g[k - 1], Part(type, m))
      BY <1>1, <1>7, <1>9
    <2> HIDE DEF state, m
    <2>3. Carried(type, AddItem(state, m)) = Cat(Carried(type, state), Part(type, m))
      BY <1>5, <2>1, AddItemCarries
    <2>4. Carried(type, h[k]) = g[k]
      BY <2>1, <2>2, <2>3
    <2> QED
      BY <2>4
  <1>12. 0 .. n \subseteq Same
    <2> HIDE DEF Same
    <2> QED
      BY <1>1, <1>10, <1>11, ForwardInduction
  <1>13. Carried(type, end) = FlattenSeq(parts) /\ end \in X
    BY <1>1, <1>7, <1>9, <1>12
  <1>14. IdsOf(type, end.input \o end.pending) = Carried(type, end)
    <2>1. end.input \in Seq(Items) /\ end.pending \in Seq(Items)
      BY <1>5, <1>13 DEF Carries, Waitings
    <2> QED
      BY <2>1, IdsOfBoth DEF Carried, Cat
  <1>15. ResponsesInput(history) = end.input \o end.pending
    BY DEF ResponsesInput, end, base, none
  <1> QED
    BY <1>1, <1>13, <1>14, <1>15

LEMMA RequestsKeepAll == RequestIsWhole
  <1> SUFFICES ASSUME NEW history \in Histories
               PROVE  LET items == RequestItems(llmBackend, history)
                      IN  /\ IdsOf("call", items) = IdsBy("assistant", history)
                          /\ IdsOf("output", items) = IdsBy("tool", history)
    BY DEF RequestIsWhole
  <1>1. history \in Seq(Messages)
    BY LlmAssumption
  <1>2. ASSUME NEW type \in Kinds
        PROVE  IdsOf(type, RequestItems(llmBackend, history)) = IdsBy(RoleOf(type), history)
    <2>1. CASE llmBackend = "responses"
      BY <1>1, <2>1, ResponsesIsWhole DEF RequestItems
    <2>2. CASE llmBackend # "responses"
      BY <1>1, <2>2, ConvertedIsWhole DEF RequestItems
    <2> QED
      BY <2>1, <2>2
  <1>3. /\ "call" \in Kinds /\ RoleOf("call") = "assistant"
        /\ "output" \in Kinds /\ RoleOf("output") = "tool"
    BY DEF Kinds, RoleOf
  <1> QED
    BY <1>2, <1>3

\* Whatever the conversation, and whichever backend is asked, the request has every call
\* and every result of it, each once and in the order of its kind: also the calls the
\* Responses backend holds back until a later message (convert_messages, build_request).
THEOREM RequestsAreWhole == ServicesSpec => []RequestIsWhole
  BY RequestsKeepAll, PTL
=============================================================================
