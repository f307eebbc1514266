-------------------------- MODULE AgentLoop_proofs --------------------------
(***************************************************************************)
(* Theorems about AgentLoop, for any logs to resume, any drivers and any   *)
(* number of turns, calls, compactions and injections: if the backend      *)
(* sends the ids of its calls, a turn with a TurnEnd is whole, a result    *)
(* answers one call of its turn, and undo takes back of the files what it  *)
(* cuts off the log, and turns that are only ever stopped have every call  *)
(* of every request followed by its answer; and with or without ids,       *)
(* requests only grow and have every injected message of the user once,    *)
(* and the log, the queue and the fields of the loop keep their types.     *)
(*                                                                         *)
(* A log that is whole, or whose results are paired, stays so when it is   *)
(* cut back, which covers undo, clear and a process that dies while it     *)
(* writes.  What remains is to show that a TurnEnd is only appended when   *)
(* nothing is unanswered: the calls the log has without a result since the *)
(* last TurnStart are the pending ones of the turn (OpenTurn), and none is *)
(* pending where a turn ends.  The others have sections of their own.      *)
(***************************************************************************)
EXTENDS AgentLoop, Lemmas, FiniteSetTheorems

Marks == {"TurnStart", "TurnEnd"}

\* The call at i has its answer among the events up to e.
AnsweredBy(l, i, e) == \E j \in i .. e : l[j].kind = "ToolResult" /\ l[j].id = l[i].id

\* The marker s opens the stretch up to e: no other marker follows it.
Opens(l, s, e) == /\ s \in 1 .. e /\ l[s].kind = "TurnStart"
                  /\ \A k \in s + 1 .. e : l[k].kind \notin Marks

\* ClosedTurnsAreWhole of any log.
Whole(l) ==
    \A e \in 1 .. Len(l) : l[e].kind = "TurnEnd" =>
        \E s \in 1 .. e - 1 :
            /\ Opens(l, s, e - 1) /\ l[s].n = l[e].n
            /\ \A i \in s .. e : l[i].kind = "ToolCall" => AnsweredBy(l, i, e)

\* The last marker opens turn n, and only the calls of pending are unanswered in it.
OpenTurn(l, n, pending) ==
    \E s \in 1 .. Len(l) :
        /\ Opens(l, s, Len(l)) /\ l[s].n = n
        /\ \A i \in s .. Len(l) :
             l[i].kind = "ToolCall" => AnsweredBy(l, i, Len(l)) \/ l[i].id \in pending

-----------------------------------------------------------------------------
(* Sequences and sets of numbers. *)

LEMMA PrefixOf ==
    ASSUME NEW S, NEW l \in Seq(S), NEW k \in 0 .. Len(l)
    PROVE  /\ SubSeq(l, 1, k) \in Seq(S) /\ Len(SubSeq(l, 1, k)) = k
           /\ \A i \in 1 .. k : SubSeq(l, 1, k)[i] = l[i]
  OBVIOUS

LEMMA Joined ==
    ASSUME NEW S, NEW l \in Seq(S), NEW m \in Seq(S)
    PROVE  /\ l \o m \in Seq(S) /\ Len(l \o m) = Len(l) + Len(m)
           /\ \A i \in 1 .. Len(l) : (l \o m)[i] = l[i]
           /\ \A i \in Len(l) + 1 .. Len(l) + Len(m) : (l \o m)[i] = m[i - Len(l)]
  OBVIOUS

LEMMA Appended ==
    ASSUME NEW S, NEW l \in Seq(S), NEW x \in S
    PROVE  /\ Append(l, x) = l \o <<x>>
           /\ <<x>> \in Seq(S) /\ Len(<<x>>) = 1 /\ <<x>>[1] = x
  OBVIOUS

LEMMA IdsTyped ==
    /\ NoId \in IdKinds \X Nat
    /\ \A n \in Nat : SentId(n) \in IdKinds \X Nat
  BY DEF NoId, SentId, IdKinds

\* What the events of a turn are.
LEMMA MarkerEvents ==
    /\ \A n \in Nat : /\ TurnStart(n) \in LogEvents /\ TurnStart(n).kind = "TurnStart"
                      /\ TurnStart(n).n = n
    /\ \A n \in Nat, why \in {"completed", "aborted", "error"} :
          /\ TurnEnd(n, why) \in LogEvents /\ TurnEnd(n, why).kind = "TurnEnd"
          /\ TurnEnd(n, why).n = n
  <1>1. ASSUME NEW n \in Nat
        PROVE  TurnStart(n) \in LogEvents /\ TurnStart(n).kind = "TurnStart" /\ TurnStart(n).n = n
    BY IdsTyped DEF TurnStart, Event, LogEvents, Kinds
  <1>2. ASSUME NEW n \in Nat, NEW why \in {"completed", "aborted", "error"}
        PROVE  /\ TurnEnd(n, why) \in LogEvents /\ TurnEnd(n, why).kind = "TurnEnd"
               /\ TurnEnd(n, why).n = n
    BY IdsTyped DEF TurnEnd, Event, LogEvents, Kinds
  <1> QED
    BY <1>1, <1>2

LEMMA PlainEvents ==
    /\ UserMessage \in LogEvents /\ UserMessage.kind = "UserMessage"
    /\ AssistantMessage \in LogEvents /\ AssistantMessage.kind = "AssistantMessage"
    /\ TurnStats \in LogEvents /\ TurnStats.kind = "TurnStats"
  BY IdsTyped DEF UserMessage, AssistantMessage, TurnStats, Event, LogEvents, Kinds

LEMMA ToolEvents ==
    ASSUME NEW id \in IdKinds \X Nat, NEW n \in Nat
    PROVE  /\ ToolCall(id) \in LogEvents /\ ToolCall(id).kind = "ToolCall" /\ ToolCall(id).id = id
           /\ ToolResult(id, n) \in LogEvents /\ ToolResult(id, n).kind = "ToolResult"
           /\ ToolResult(id, n).id = id
           /\ Compaction(n) \in LogEvents /\ Compaction(n).kind = "Compaction"
  <1>1. ToolCall(id) \in LogEvents /\ ToolCall(id).kind = "ToolCall" /\ ToolCall(id).id = id
    BY DEF ToolCall, Event, LogEvents, Kinds
  <1>2. /\ ToolResult(id, n) \in LogEvents /\ ToolResult(id, n).kind = "ToolResult"
        /\ ToolResult(id, n).id = id
    BY DEF ToolResult, Event, LogEvents, Kinds
  <1>3. Compaction(n) \in LogEvents /\ Compaction(n).kind = "Compaction"
    BY IdsTyped DEF Compaction, Event, LogEvents, Kinds
  <1> QED
    BY <1>1, <1>2, <1>3

-----------------------------------------------------------------------------
(* Whole logs and open turns. *)

LEMMA EmptyIsWhole == Whole(<<>>)
  BY DEF Whole

LEMMA OldIsWhole ==
    ASSUME NEW l \in Seq(LogEvents), Positions(l, Marks) = {}
    PROVE  Whole(l)
  BY DEF Whole, Positions, Marks

LEMMA PrefixIsWhole ==
    ASSUME NEW l \in Seq(LogEvents), Whole(l), NEW k \in 0 .. Len(l)
    PROVE  Whole(SubSeq(l, 1, k))
  <1> DEFINE p == SubSeq(l, 1, k)
  <1>1. p \in Seq(LogEvents) /\ Len(p) = k /\ \A i \in 1 .. k : p[i] = l[i]
    BY PrefixOf
  <1> HIDE DEF p
  <1> SUFFICES ASSUME NEW e \in 1 .. k, p[e].kind = "TurnEnd"
               PROVE  \E s \in 1 .. e - 1 :
                        /\ Opens(p, s, e - 1) /\ p[s].n = p[e].n
                        /\ \A i \in s .. e : p[i].kind = "ToolCall" => AnsweredBy(p, i, e)
    BY <1>1 DEF Whole, p
  <1>2. PICK s \in 1 .. e - 1 :
          /\ Opens(l, s, e - 1) /\ l[s].n = l[e].n
          /\ \A i \in s .. e : l[i].kind = "ToolCall" => AnsweredBy(l, i, e)
    BY <1>1 DEF Whole
  <1>3. Opens(p, s, e - 1)
    BY <1>1, <1>2 DEF Opens
  <1>4. ASSUME NEW i \in s .. e, p[i].kind = "ToolCall" PROVE AnsweredBy(p, i, e)
    BY <1>1, <1>2, <1>4 DEF AnsweredBy
  <1> QED
    BY <1>1, <1>2, <1>3, <1>4

\* What is appended has no TurnEnd.
LEMMA LongerIsWhole ==
    ASSUME NEW l \in Seq(LogEvents), Whole(l), NEW m \in Seq(LogEvents),
           \A i \in 1 .. Len(m) : m[i].kind # "TurnEnd"
    PROVE  Whole(l \o m)
  <1> DEFINE p == l \o m
  <1>1. /\ p \in Seq(LogEvents) /\ Len(p) = Len(l) + Len(m) /\ Len(l) \in Nat /\ Len(m) \in Nat
        /\ \A i \in 1 .. Len(l) : p[i] = l[i]
        /\ \A i \in Len(l) + 1 .. Len(l) + Len(m) : p[i] = m[i - Len(l)]
    BY Joined
  <1> HIDE DEF p
  <1> SUFFICES ASSUME NEW e \in 1 .. Len(p), p[e].kind = "TurnEnd"
               PROVE  \E s \in 1 .. e - 1 :
                        /\ Opens(p, s, e - 1) /\ p[s].n = p[e].n
                        /\ \A i \in s .. e : p[i].kind = "ToolCall" => AnsweredBy(p, i, e)
    BY DEF Whole, p
  <1>2. e \in 1 .. Len(l)
    <2>1. SUFFICES ASSUME e > Len(l) PROVE FALSE
      BY <1>1
    <2>2. e - Len(l) \in 1 .. Len(m) /\ p[e] = m[e - Len(l)]
      BY <1>1, <2>1
    <2> QED
      BY <2>2
  <1>3. PICK s \in 1 .. e - 1 :
          /\ Opens(l, s, e - 1) /\ l[s].n = l[e].n
          /\ \A i \in s .. e : l[i].kind = "ToolCall" => AnsweredBy(l, i, e)
    BY <1>1, <1>2 DEF Whole
  <1>a. e \in Nat /\ \A i \in 1 .. e : p[i] = l[i]
    BY <1>1, <1>2
  <1>4. Opens(p, s, e - 1)
    BY <1>2, <1>3, <1>a DEF Opens
  <1>5. ASSUME NEW i \in s .. e, p[i].kind = "ToolCall" PROVE AnsweredBy(p, i, e)
    <2>1. i \in 1 .. e /\ l[i].kind = "ToolCall"
      BY <1>3, <1>5, <1>a
    <2>2. PICK j \in i .. e : l[j].kind = "ToolResult" /\ l[j].id = l[i].id
      BY <1>3, <2>1 DEF AnsweredBy
    <2>3. j \in 1 .. e
      BY <1>a, <2>1, <2>2
    <2> QED
      BY <1>a, <2>1, <2>2, <2>3 DEF AnsweredBy
  <1> QED
    BY <1>2, <1>3, <1>4, <1>5, <1>a

\* An open turn without unanswered calls is closed.
LEMMA ClosingIsWhole ==
    ASSUME NEW l \in Seq(LogEvents), Whole(l), NEW n \in Nat, OpenTurn(l, n, {}),
           NEW end \in LogEvents, end.kind = "TurnEnd", end.n = n
    PROVE  Whole(Append(l, end))
  <1> DEFINE p == Append(l, end)
  <1>1. /\ p \in Seq(LogEvents) /\ Len(p) = Len(l) + 1 /\ Len(l) \in Nat
        /\ \A i \in 1 .. Len(l) : p[i] = l[i]
        /\ p[Len(l) + 1] = end
    OBVIOUS
  <1> HIDE DEF p
  <1> SUFFICES ASSUME NEW e \in 1 .. Len(p), p[e].kind = "TurnEnd"
               PROVE  \E s \in 1 .. e - 1 :
                        /\ Opens(p, s, e - 1) /\ p[s].n = p[e].n
                        /\ \A i \in s .. e : p[i].kind = "ToolCall" => AnsweredBy(p, i, e)
    BY DEF Whole, p
  <1>2. CASE e \in 1 .. Len(l)
    <2>1. PICK s \in 1 .. e - 1 :
            /\ Opens(l, s, e - 1) /\ l[s].n = l[e].n
            /\ \A i \in s .. e : l[i].kind = "ToolCall" => AnsweredBy(l, i, e)
      BY <1>1, <1>2 DEF Whole
    <2>2. Opens(p, s, e - 1)
      BY <1>1, <1>2, <2>1 DEF Opens
    <2>3. ASSUME NEW i \in s .. e, p[i].kind = "ToolCall" PROVE AnsweredBy(p, i, e)
      <3>1. \A j \in s .. e : p[j] = l[j]
        BY <1>1, <1>2
      <3>2. PICK j \in i .. e : l[j].kind = "ToolResult" /\ l[j].id = l[i].id
        BY <2>1, <2>3, <3>1 DEF AnsweredBy
      <3>3. j \in s .. e
        BY <1>2
      <3> QED
        BY <3>1, <3>2, <3>3, Zenon DEF AnsweredBy
    <2> QED
      BY <1>1, <1>2, <2>1, <2>2, <2>3
  <1>3. CASE e = Len(l) + 1
    <2>1. PICK s \in 1 .. Len(l) :
            /\ Opens(l, s, Len(l)) /\ l[s].n = n
            /\ \A i \in s .. Len(l) : l[i].kind = "ToolCall" => AnsweredBy(l, i, Len(l))
      BY DEF OpenTurn
    <2>2. Opens(p, s, e - 1)
      BY <1>1, <1>3, <2>1 DEF Opens
    <2>3. ASSUME NEW i \in s .. e, p[i].kind = "ToolCall" PROVE AnsweredBy(p, i, e)
      <3>1. i \in s .. Len(l) /\ l[i].kind = "ToolCall"
        BY <1>1, <1>3, <2>3
      <3>2. PICK j \in i .. Len(l) : l[j].kind = "ToolResult" /\ l[j].id = l[i].id
        BY <2>1, <3>1 DEF AnsweredBy
      <3> QED
        BY <1>1, <1>3, <3>1, <3>2 DEF AnsweredBy
    <2> QED
      BY <1>1, <1>3, <2>1, <2>2, <2>3
  <1> QED
    BY <1>1, <1>2, <1>3

\* The turn goes on: its new calls are pending, the answered one is so no more.
LEMMA TurnGoesOn ==
    ASSUME NEW l \in Seq(LogEvents), NEW n, NEW before, OpenTurn(l, n, before),
           NEW m \in Seq(LogEvents), NEW after,
           \A k \in 1 .. Len(m) : m[k].kind \notin Marks,
           \A k \in 1 .. Len(m) : m[k].kind = "ToolCall" => m[k].id \in after,
           \A id \in before : \/ id \in after
                              \/ \E k \in 1 .. Len(m) : m[k].kind = "ToolResult" /\ m[k].id = id
    PROVE  OpenTurn(l \o m, n, after)
  <1> DEFINE p == l \o m
  <1>1. /\ p \in Seq(LogEvents) /\ Len(p) = Len(l) + Len(m) /\ Len(l) \in Nat /\ Len(m) \in Nat
        /\ \A i \in 1 .. Len(l) : p[i] = l[i]
        /\ \A i \in Len(l) + 1 .. Len(l) + Len(m) : p[i] = m[i - Len(l)]
    BY Joined
  <1> HIDE DEF p
  <1>2. PICK s \in 1 .. Len(l) :
          /\ Opens(l, s, Len(l)) /\ l[s].n = n
          /\ \A i \in s .. Len(l) :
               l[i].kind = "ToolCall" => AnsweredBy(l, i, Len(l)) \/ l[i].id \in before
    BY DEF OpenTurn
  <1>3. ASSUME NEW i \in Len(l) + 1 .. Len(p)
        PROVE  i - Len(l) \in 1 .. Len(m) /\ p[i] = m[i - Len(l)]
    BY <1>1, <1>3
  <1>4. Opens(p, s, Len(p))
    <2>1. ASSUME NEW k \in s + 1 .. Len(p) PROVE p[k].kind \notin Marks
      <3>1. CASE k \in 1 .. Len(l)
        BY <1>1, <1>2, <2>1, <3>1 DEF Opens
      <3>2. CASE k \in Len(l) + 1 .. Len(p)
        BY <1>3, <3>2
      <3> QED
        BY <1>1, <1>2, <3>1, <3>2
    <2> QED
      BY <1>1, <1>2, <2>1 DEF Opens
  <1>5. ASSUME NEW i \in s .. Len(p), p[i].kind = "ToolCall"
        PROVE  AnsweredBy(p, i, Len(p)) \/ p[i].id \in after
    <2>1. CASE i \in Len(l) + 1 .. Len(p)
      BY <1>3, <1>5, <2>1
    <2>2. CASE i \in s .. Len(l)
      <3>1. p[i] = l[i]
        BY <1>1, <1>2, <2>2
      <3>2. CASE AnsweredBy(l, i, Len(l))
        <4>1. PICK j \in i .. Len(l) : l[j].kind = "ToolResult" /\ l[j].id = l[i].id
          BY <3>2 DEF AnsweredBy
        <4>2. j \in i .. Len(p) /\ p[j] = l[j]
          BY <1>1, <1>2, <2>2, <4>1
        <4> QED
          BY <3>1, <4>1, <4>2 DEF AnsweredBy
      <3>3. CASE l[i].id \in before /\ l[i].id \notin after
        <4>1. PICK k \in 1 .. Len(m) : m[k].kind = "ToolResult" /\ m[k].id = l[i].id
          BY <3>3
        <4>2. Len(l) + k \in Len(l) + 1 .. Len(p) /\ (Len(l) + k) - Len(l) = k
          BY <1>1
        <4>3. p[Len(l) + k] = m[k]
          BY <1>3, <4>2
        <4>4. Len(l) + k \in i .. Len(p)
          BY <1>1, <2>2
        <4> QED
          BY <3>1, <4>1, <4>3, <4>4 DEF AnsweredBy
      <3> QED
        BY <1>2, <1>5, <2>2, <3>1, <3>2, <3>3
    <2> QED
      BY <1>1, <1>2, <1>5, <2>1, <2>2
  <1>6. s \in 1 .. Len(p) /\ p[s].n = n
    BY <1>1, <1>2
  <1> QED
    BY <1>4, <1>5, <1>6 DEF OpenTurn, p

LEMMA TurnBegins ==
    ASSUME NEW l \in Seq(LogEvents), NEW n \in Nat
    PROVE  OpenTurn(l \o <<TurnStart(n), UserMessage>>, n, {})
  <1> DEFINE m == <<TurnStart(n), UserMessage>>
             p == l \o m
  <1>1. /\ m \in Seq(LogEvents) /\ Len(m) = 2 /\ m[1].kind = "TurnStart" /\ m[1].n = n
        /\ m[2].kind = "UserMessage"
    BY MarkerEvents, PlainEvents
  <1>2. Len(p) = Len(l) + 2 /\ p[Len(l) + 1] = m[1] /\ p[Len(l) + 2] = m[2] /\ Len(l) \in Nat
    BY <1>1
  <1> HIDE DEF m, p
  <1>3. Opens(p, Len(l) + 1, Len(p))
    BY <1>1, <1>2 DEF Opens, Marks
  <1>4. \A i \in Len(l) + 1 .. Len(p) : p[i].kind # "ToolCall"
    BY <1>1, <1>2
  <1> QED
    BY <1>1, <1>2, <1>3, <1>4 DEF OpenTurn, m, p

-----------------------------------------------------------------------------
(* The invariant. *)

Pending(cs) == {cs[k].id : k \in 1 .. Len(cs)}
Answering == {"tool", "confirm", "invoke"}
CallsSet == [id : IdKinds \X Nat, write : Nat]

Typed ==
    /\ log \in Seq(LogEvents) /\ calls \in Seq(CallsSet)
    /\ turn \in Nat /\ issued \in Nat /\ acted \in Nat
    /\ pc \in {"idle"} \cup Running

WholeInv ==
    /\ Typed /\ Whole(log)
    /\ pc \in Running => OpenTurn(log, turn, Pending(calls))
    /\ calls # <<>> <=> pc \in Answering

LEMMA WholeIsClosed == log \in Seq(LogEvents) /\ Whole(log) => ClosedTurnsAreWhole
  <1> SUFFICES ASSUME log \in Seq(LogEvents), Whole(log), NEW e \in Positions(log, {"TurnEnd"})
               PROVE  \E s \in Positions(log, {"TurnStart"}) \cap 1 .. e :
                        /\ Markers(s, e) = {s, e}
                        /\ log[s].n = log[e].n
                        /\ \A i \in Positions(log, {"ToolCall"}) \cap s .. e :
                             Results(log[i].id) \cap i .. e # {}
    BY DEF ClosedTurnsAreWhole
  <1>1. e \in 1 .. Len(log) /\ log[e].kind = "TurnEnd" /\ Len(log) \in Nat
    BY DEF Positions
  <1>2. PICK s \in 1 .. e - 1 :
          /\ Opens(log, s, e - 1) /\ log[s].n = log[e].n
          /\ \A i \in s .. e : log[i].kind = "ToolCall" => AnsweredBy(log, i, e)
    BY <1>1 DEF Whole
  <1>3. Markers(s, e) = {s, e}
    BY <1>1, <1>2 DEF Markers, Positions, Opens, Marks
  <1>4. ASSUME NEW i \in Positions(log, {"ToolCall"}) \cap s .. e
        PROVE  Results(log[i].id) \cap i .. e # {}
    <2>1. PICK j \in i .. e : log[j].kind = "ToolResult" /\ log[j].id = log[i].id
      BY <1>2 DEF Positions, AnsweredBy
    <2>2. j \in 1 .. Len(log)
      BY <1>1, <1>2, <2>1
    <2> QED
      BY <2>1, <2>2 DEF Results, Positions
  <1>5. s \in Positions(log, {"TurnStart"}) \cap 1 .. e
    BY <1>1, <1>2 DEF Opens, Positions
  <1> QED
    BY <1>2, <1>3, <1>4, <1>5

LEMMA CutTyped ==
    ASSUME NEW l \in Seq(LogEvents)
    PROVE  CompactionCut(l) \in Nat /\ CompactionCut(l) \in 0 .. Len(l)
  <1> DEFINE T == {0} \cup (Positions(l, {"UserMessage", "ToolResult"})
                              \cap 1 .. (Len(l) - RetainedEvents(Len(l))))
  <1>1. T \in SUBSET (0 .. Len(l)) /\ T # {} /\ Len(l) \in Nat
    BY DEF Positions
  <1>2. CompactionCut(l) = Max(T)
    BY DEF CompactionCut, ToolPairSafeCut
  <1> HIDE DEF T
  <1>3. Max(T) \in T
    BY <1>1, MaxOfPlaces
  <1>4. Max(T) \in 0 .. Len(l)
    BY <1>1, <1>3
  <1> QED
    BY <1>1, <1>2, <1>4

\* A compaction appends an event that is neither a marker nor a call, or nothing.
LEMMA CompactionAppends ==
    ASSUME NEW l \in Seq(LogEvents), NEW c \in CompactionOutcomes(l)
    PROVE  \E m \in Seq(LogEvents) :
             c.log = l \o m /\ \A k \in 1 .. Len(m) : m[k].kind = "Compaction"
  <1>1. CompactionCut(l) \in Nat
    BY CutTyped
  <1>2. c.log = l \/ c.log = Append(l, Compaction(CompactionCut(l)))
    BY DEF CompactionOutcomes
  <1>3. CASE c.log = l
    <2> DEFINE m == <<>>
    <2>1. l = l \o m /\ m \in Seq(LogEvents)
      OBVIOUS
    <2>2. \A k \in 1 .. Len(m) : m[k].kind = "Compaction"
      OBVIOUS
    <2> HIDE DEF m
    <2> QED
      BY <1>3, <2>1, <2>2
  <1>4. CASE c.log = Append(l, Compaction(CompactionCut(l)))
    <2> DEFINE ev == Compaction(CompactionCut(l))
               m == <<ev>>
    <2>1. ev \in LogEvents /\ ev.kind = "Compaction"
      BY <1>1, IdsTyped, ToolEvents
    <2> HIDE DEF ev
    <2>2. c.log = l \o m /\ m \in Seq(LogEvents) /\ Len(m) = 1 /\ m[1] = ev
      BY <1>4, <2>1, Appended DEF ev
    <2> HIDE DEF m
    <2>3. \A k \in 1 .. Len(m) : m[k].kind = "Compaction"
      BY <2>1, <2>2
    <2> QED
      BY <2>2, <2>3
  <1> QED
    BY <1>2, <1>3, <1>4

LEMMA Compacted ==
    ASSUME WholeInv, NEW c \in CompactionOutcomes(log)
    PROVE  /\ c.log \in Seq(LogEvents) /\ Whole(c.log)
           /\ pc \in Running => OpenTurn(c.log, turn, Pending(calls))
  <1>1. PICK m \in Seq(LogEvents) :
          c.log = log \o m /\ \A k \in 1 .. Len(m) : m[k].kind = "Compaction"
    BY CompactionAppends DEF WholeInv, Typed
  <1>2. log \in Seq(LogEvents)
    BY DEF WholeInv, Typed
  <1>3. Whole(c.log)
    BY <1>1, <1>2, LongerIsWhole DEF WholeInv
  <1>4. pc \in Running => OpenTurn(c.log, turn, Pending(calls))
    BY <1>1, <1>2, TurnGoesOn DEF WholeInv, Marks
  <1> QED
    BY <1>1, <1>2, <1>3, <1>4

LEMMA Start == Init => WholeInv
  <1> SUFFICES ASSUME Init PROVE WholeInv
    OBVIOUS
  <1>1. Typed
    BY LogsAssumption DEF Init, Typed
  <1>2. Whole(log)
    BY LogsAssumption, OldIsWhole DEF Init, Marks
  <1> QED
    BY <1>1, <1>2 DEF Init, WholeInv, Running, Answering

-----------------------------------------------------------------------------
(* The steps. *)

\* A turn that is left, whatever was made of its log.
LEMMA Leaves ==
    ASSUME WholeInv, Leave, log' \in Seq(LogEvents), Whole(log')
    PROVE  WholeInv'
  BY DEF WholeInv, Typed, Leave, Running, Answering

LEMMA Ends ==
    ASSUME WholeInv, pc \in Running \ Answering, NEW why \in {"completed", "aborted", "error"}, End(why)
    PROVE  WholeInv'
  <1>1. log \in Seq(LogEvents) /\ turn \in Nat /\ calls = <<>>
    BY DEF WholeInv, Typed
  <1>2. OpenTurn(log, turn, {})
    <2>1. Pending(calls) = {}
      BY <1>1 DEF Pending
    <2> QED
      BY <2>1 DEF WholeInv
  <1>3. Append(log, TurnEnd(turn, why)) \in Seq(LogEvents)
    BY <1>1, MarkerEvents
  <1>4. Whole(Append(log, TurnEnd(turn, why)))
    BY <1>1, <1>2, MarkerEvents, ClosingIsWhole DEF WholeInv
  <1> QED
    BY <1>3, <1>4, Leaves DEF End

\* The log is left as it is, and the calls too.
LEMMA Waits ==
    ASSUME WholeInv, UNCHANGED <<log, calls, turn, issued>>, acted' \in Nat,
           pc' \in {"idle"} \cup Running, pc' \in Running => pc \in Running,
           pc' \in Answering <=> pc \in Answering
    PROVE  WholeInv'
  BY DEF WholeInv, Typed

\* Nothing runs, and the log is cut back.
LEMMA CutsBack ==
    ASSUME WholeInv, pc' = "idle", calls' = <<>>, NEW k \in 0 .. Len(log), log' = SubSeq(log, 1, k),
           turn' \in Nat, issued' \in Nat, acted' \in Nat
    PROVE  WholeInv'
  <1>1. log' \in Seq(LogEvents) /\ Whole(log')
    BY PrefixIsWhole, PrefixOf DEF WholeInv, Typed
  <1> QED
    BY <1>1 DEF WholeInv, Typed, Running, Answering

\* The result of the first pending call.
LEMMA Answered ==
    ASSUME WholeInv, pc \in Answering, NEW write \in Nat, Answer(write)
    PROVE  WholeInv'
  <1> DEFINE id == Head(calls).id
             m == <<ToolResult(id, write)>>
  <1>1. log \in Seq(LogEvents) /\ calls \in Seq(CallsSet) /\ calls # <<>> /\ turn \in Nat
    BY DEF WholeInv, Typed
  <1>2. Head(calls) \in CallsSet /\ Tail(calls) \in Seq(CallsSet) /\ id \in IdKinds \X Nat
    <2>1. Head(calls) \in CallsSet /\ Tail(calls) \in Seq(CallsSet)
      BY <1>1
    <2> QED
      BY <2>1 DEF CallsSet
  <1>3. /\ m \in Seq(LogEvents) /\ Len(m) = 1
        /\ m[1].kind = "ToolResult" /\ m[1].id = id
    BY <1>2, ToolEvents
  <1>4. log' = log \o m /\ calls' = Tail(calls) /\ turn' = turn
    BY <1>1, <1>2, ToolEvents, Appended DEF Answer
  <1> HIDE DEF m
  <1>a. \A k \in 1 .. Len(m) : m[k].kind \notin Marks /\ m[k].kind # "TurnEnd" /\ m[k].kind # "ToolCall"
    BY <1>3 DEF Marks
  <1>5. Whole(log')
    BY <1>1, <1>3, <1>4, <1>a, LongerIsWhole DEF WholeInv
  <1>6. Pending(calls) \subseteq Pending(calls') \cup {id}
    <2>1. ASSUME NEW k \in 1 .. Len(calls)
          PROVE  calls[k].id \in Pending(calls') \cup {id}
      <3>1. CASE k = 1
        BY <1>1, <3>1
      <3>2. CASE k # 1
        <4>1. k - 1 \in 1 .. Len(calls') /\ calls'[k - 1] = calls[k]
          BY <1>1, <1>4, <3>2
        <4> QED
          BY <4>1 DEF Pending
      <3> QED
        BY <3>1, <3>2
    <2> QED
      BY <2>1 DEF Pending
  <1>7. OpenTurn(log, turn, Pending(calls))
    BY DEF WholeInv, Running, Answering
  <1>8. OpenTurn(log \o m, turn, Pending(calls'))
    <2> HIDE DEF id
    <2>1. \A i \in Pending(calls) :
            i \in Pending(calls') \/ \E k \in 1 .. Len(m) : m[k].kind = "ToolResult" /\ m[k].id = i
      BY <1>3, <1>6
    <2> QED
      BY <1>1, <1>3, <1>7, <1>a, <2>1, TurnGoesOn
  <1>9. Typed'
    BY <1>1, <1>2, <1>3, <1>4, Joined DEF Answer, WholeInv, Typed, Running
  <1>10. calls' # <<>> <=> pc' \in Answering
    <2>1. Len(calls') = Len(calls) - 1 /\ Len(calls) \in Nat
      BY <1>1, <1>4
    <2>2. CASE Len(calls) = 1
      BY <1>1, <1>2, <1>4, <2>1, <2>2 DEF Answer, Answering
    <2>3. CASE Len(calls) # 1
      BY <1>1, <1>2, <1>4, <2>1, <2>3 DEF Answer, Answering
    <2> QED
      BY <2>2, <2>3
  <1> QED
    BY <1>4, <1>5, <1>8, <1>9, <1>10 DEF WholeInv

\* What a reply leaves in the log: a compaction or nothing, a text or nothing, and
\* the calls, numbered on from those issued before; unless the compaction panics.
Talk == {"Compaction", "AssistantMessage"}
CallsFrom(ce, n) ==
    /\ ce \in Seq(LogEvents) /\ Len(ce) = n
    /\ \A k \in 1 .. n : ce[k].kind = "ToolCall" /\ ce[k].id = SentId(issued + k)
ReplyMade(n) ==
    /\ \E m, said, ce \in Seq(LogEvents) :
         /\ log' = ((log \o m) \o said) \o ce
         /\ \A k \in 1 .. Len(m) : m[k].kind \in Talk
         /\ \A k \in 1 .. Len(said) : said[k].kind \in Talk
         /\ CallsFrom(ce, n)
    /\ calls' \in Seq(CallsSet) /\ Len(calls') = n
    /\ \A k \in 1 .. n : calls'[k].id = SentId(issued + k) /\ calls'[k].write = issued + k
    /\ issued' = issued + n
    /\ pc' = IF n = 0 THEN "stopping" ELSE "tool"
    /\ UNCHANGED <<turn, acted>>

LEMMA ReplyForm ==
    ASSUME Typed, NEW n \in Nat, Reply(n, TRUE)
    PROVE  (Leave /\ UNCHANGED log) \/ ReplyMade(n)
  <1>1. log \in Seq(LogEvents) /\ issued \in Nat
    BY DEF Typed
  <1>2. PICK c \in {[log |-> log, result |-> "ok"]} \cup Compactions,
             said \in {<<>>, <<AssistantMessage>>} :
         \/ /\ c.result # "panic"
            /\ log' = c.log \o said \o CallEvents(n, TRUE)
            /\ calls' = CallsOf(n, TRUE)
            /\ issued' = issued + n
            /\ pc' = IF n = 0 THEN "stopping" ELSE "tool"
            /\ UNCHANGED <<turn, stop, acted>>
         \/ c.result = "panic" /\ Leave /\ UNCHANGED log
    BY DEF Reply
  <1>3. ASSUME log' = c.log \o said \o CallEvents(n, TRUE), calls' = CallsOf(n, TRUE),
               issued' = issued + n, pc' = IF n = 0 THEN "stopping" ELSE "tool",
               UNCHANGED <<turn, acted>>
        PROVE  ReplyMade(n)
    <2> DEFINE CE == CallEvents(n, TRUE)
    <2>1. PICK m \in Seq(LogEvents) : c.log = log \o m /\ \A k \in 1 .. Len(m) : m[k].kind \in Talk
      <3>1. CASE c = [log |-> log, result |-> "ok"]
        <4> DEFINE none == <<>>
        <4>1. none \in Seq(LogEvents) /\ Len(none) = 0 /\ log = log \o none
          BY <1>1
        <4>2. c.log = log
          BY <3>1
        <4> HIDE DEF none
        <4>3. \A k \in 1 .. Len(none) : none[k].kind \in Talk
          BY <4>1
        <4> QED
          BY <4>1, <4>2, <4>3, Zenon
      <3>2. CASE c \in Compactions
        BY <1>1, <3>2, CompactionAppends DEF Compactions, Talk
      <3> QED
        BY <3>1, <3>2, Zenon
    <2>2. said \in Seq(LogEvents) /\ \A k \in 1 .. Len(said) : said[k].kind \in Talk
      <3>1. CASE said = <<>>
        BY <3>1
      <3>2. CASE said = <<AssistantMessage>>
        <4> DEFINE ev == AssistantMessage
        <4>1. ev \in LogEvents /\ ev.kind = "AssistantMessage"
          BY PlainEvents
        <4>2. said = <<ev>>
          BY <3>2
        <4> HIDE DEF ev
        <4>3. said \in Seq(LogEvents) /\ Len(said) = 1 /\ said[1] = ev
          BY <4>1, <4>2
        <4> QED
          BY <4>1, <4>3 DEF Talk
      <3> QED
        BY <1>2, <3>1, <3>2
    <2>3. ASSUME NEW k \in 1 .. n
          PROVE  /\ SentId(issued + k) \in IdKinds \X Nat /\ issued + k \in Nat
                 /\ ToolCall(SentId(issued + k)) \in LogEvents
                 /\ ToolCall(SentId(issued + k)).kind = "ToolCall"
                 /\ ToolCall(SentId(issued + k)).id = SentId(issued + k)
      <3>1. issued + k \in Nat
        BY <1>1
      <3> QED
        BY <3>1, IdsTyped, ToolEvents
    <2>4. /\ CE = [k \in 1 .. n |-> ToolCall(SentId(issued + k))]
          /\ calls' = [k \in 1 .. n |-> [id |-> SentId(issued + k), write |-> issued + k]]
      BY <1>3 DEF CallEvents, CallsOf
    <2> HIDE DEF CE
    <2>5. CallsFrom(CE, n)
      BY <2>3, <2>4 DEF CallsFrom
    <2>6. calls' \in Seq(CallsSet) /\ Len(calls') = n
      BY <2>3, <2>4 DEF CallsSet
    <2>7. \A k \in 1 .. n : calls'[k].id = SentId(issued + k) /\ calls'[k].write = issued + k
      BY <2>4
    <2>8. log' = ((log \o m) \o said) \o CE
      BY <1>3, <2>1 DEF CE
    <2>9. CE \in Seq(LogEvents)
      BY <2>5 DEF CallsFrom
    <2>10. \E x, y, z \in Seq(LogEvents) :
             /\ log' = ((log \o x) \o y) \o z
             /\ \A k \in 1 .. Len(x) : x[k].kind \in Talk
             /\ \A k \in 1 .. Len(y) : y[k].kind \in Talk
             /\ CallsFrom(z, n)
      BY <2>1, <2>2, <2>5, <2>8, <2>9
    <2> QED
      BY <1>3, <2>6, <2>7, <2>10 DEF ReplyMade
  <1> QED
    BY <1>2, <1>3

LEMMA TalkGoesOn ==
    ASSUME NEW l \in Seq(LogEvents), Whole(l), NEW n, NEW pending, OpenTurn(l, n, pending),
           NEW m \in Seq(LogEvents), \A k \in 1 .. Len(m) : m[k].kind \in Talk
    PROVE  /\ Whole(l \o m) /\ OpenTurn(l \o m, n, pending)
           /\ l \o m \in Seq(LogEvents)
  <1>1. \A k \in 1 .. Len(m) : /\ m[k].kind \notin Marks /\ m[k].kind # "TurnEnd"
                              /\ m[k].kind # "ToolCall"
    BY DEF Talk, Marks
  <1>2. Whole(l \o m) /\ l \o m \in Seq(LogEvents)
    BY <1>1, LongerIsWhole, Joined
  <1>3. OpenTurn(l \o m, n, pending)
    BY <1>1, TurnGoesOn
  <1> QED
    BY <1>2, <1>3

\* The reply of the model: its text, and its calls, which are all pending.
LEMMA Replied ==
    ASSUME WholeInv, NEW n \in Nat, Reply(n, TRUE)
    PROVE  WholeInv'
  <1>1. log \in Seq(LogEvents) /\ turn \in Nat /\ issued \in Nat /\ calls = <<>> /\ pc = "llm"
    BY DEF WholeInv, Typed, Reply, Answering
  <1>2. CASE Leave /\ UNCHANGED log
    BY <1>1, <1>2, Leaves DEF WholeInv
  <1>3. CASE ReplyMade(n)
    <2>1. PICK m, said, ce \in Seq(LogEvents) :
            /\ log' = ((log \o m) \o said) \o ce
            /\ \A k \in 1 .. Len(m) : m[k].kind \in Talk
            /\ \A k \in 1 .. Len(said) : said[k].kind \in Talk
            /\ CallsFrom(ce, n)
      BY <1>3 DEF ReplyMade
    <2>2. Pending(calls) = {}
      BY <1>1 DEF Pending
    <2>3. Whole(log) /\ OpenTurn(log, turn, {})
      BY <1>1, <2>2 DEF WholeInv, Running
    <2> DEFINE l1 == log \o m
               l2 == l1 \o said
    <2>4. Whole(l1) /\ OpenTurn(l1, turn, {}) /\ l1 \in Seq(LogEvents)
      BY <1>1, <2>1, <2>3, TalkGoesOn
    <2> HIDE DEF l1
    <2>5. Whole(l2) /\ OpenTurn(l2, turn, {}) /\ l2 \in Seq(LogEvents)
      BY <2>1, <2>4, TalkGoesOn
    <2> HIDE DEF l2
    <2>6. log' = l2 \o ce
      BY <2>1 DEF l1, l2
    <2>7. ASSUME NEW k \in 1 .. Len(ce)
          PROVE  ce[k].kind = "ToolCall" /\ ce[k].id \in Pending(calls')
      <3>1. ce[k].kind = "ToolCall" /\ ce[k].id = SentId(issued + k)
        BY <2>1 DEF CallsFrom
      <3>2. k \in 1 .. Len(calls') /\ calls'[k].id = SentId(issued + k)
        BY <1>3, <2>1 DEF CallsFrom, ReplyMade
      <3> QED
        BY <3>1, <3>2 DEF Pending
    <2>8. Whole(log')
      BY <2>1, <2>5, <2>6, <2>7, LongerIsWhole
    <2>9. OpenTurn(l2 \o ce, turn, Pending(calls'))
      <3>1. \A k \in 1 .. Len(ce) : ce[k].kind \notin Marks
        BY <2>7 DEF Marks
      <3>2. \A k \in 1 .. Len(ce) : ce[k].kind = "ToolCall" => ce[k].id \in Pending(calls')
        BY <2>7
      <3> DEFINE none == {}
                 after == Pending(calls')
      <3>3. \A id \in none : \/ id \in after
                             \/ \E k \in 1 .. Len(ce) : ce[k].kind = "ToolResult" /\ ce[k].id = id
        OBVIOUS
      <3>4. OpenTurn(l2, turn, none)
        BY <2>5
      <3> HIDE DEF none, after
      <3>5. OpenTurn(l2 \o ce, turn, after)
        BY <2>1, <2>5, <3>1, <3>2, <3>3, <3>4, TurnGoesOn DEF after
      <3> QED
        BY <3>5 DEF after
    <2>10. Typed'
      <3>1. log' \in Seq(LogEvents)
        BY <2>1, <2>5, <2>6, Joined
      <3>2. pc' \in {"idle"} \cup Running
        BY <1>3 DEF ReplyMade, Running
      <3>3. /\ calls' \in Seq(CallsSet)
            /\ issued' \in Nat /\ turn' \in Nat /\ acted' \in Nat
        BY <1>1, <1>3 DEF ReplyMade, WholeInv, Typed
      <3> QED
        BY <3>1, <3>2, <3>3 DEF Typed
    <2>11. calls' # <<>> <=> pc' \in Answering
      <3>0. calls' \in Seq(CallsSet) /\ Len(calls') = n /\ pc' = IF n = 0 THEN "stopping" ELSE "tool"
        BY <1>3 DEF ReplyMade
      <3>1. CASE n = 0
        <4>1. calls' = <<>>
          BY <3>0, <3>1
        <4> QED
          BY <3>0, <3>1, <4>1 DEF Answering
      <3>2. CASE n # 0
        <4>1. calls' = <<>> => Len(calls') = 0
          OBVIOUS
        <4> QED
          BY <3>0, <3>2, <4>1 DEF Answering
      <3> QED
        BY <3>1, <3>2
    <2>12. turn' = turn
      BY <1>3 DEF ReplyMade
    <2> QED
      BY <2>6, <2>8, <2>9, <2>10, <2>11, <2>12 DEF WholeInv
  <1> QED
    BY <1>2, <1>3, ReplyForm DEF WholeInv

\* A log that goes on with events that are no markers and no calls.
LEMMA LogGrows ==
    ASSUME WholeInv, pc \in Running, NEW m \in Seq(LogEvents), log' = log \o m,
           \A k \in 1 .. Len(m) : m[k].kind \notin Marks \cup {"ToolCall"},
           pc' \in Running, pc' \in Answering <=> pc \in Answering,
           UNCHANGED <<turn, calls, issued>>, acted' \in Nat
    PROVE  WholeInv'
  <1>1. log \in Seq(LogEvents) /\ Whole(log) /\ OpenTurn(log, turn, Pending(calls))
    BY DEF WholeInv, Typed
  <1>2. \A k \in 1 .. Len(m) : /\ m[k].kind \notin Marks /\ m[k].kind # "TurnEnd"
                              /\ m[k].kind # "ToolCall"
    BY DEF Marks
  <1>3. Whole(log') /\ log' \in Seq(LogEvents)
    BY <1>1, <1>2, LongerIsWhole, Joined
  <1>4. OpenTurn(log \o m, turn, Pending(calls))
    BY <1>1, <1>2, TurnGoesOn
  <1>5. Pending(calls') = Pending(calls)
    BY DEF Pending
  <1>6. OpenTurn(log', turn', Pending(calls'))
    BY <1>4, <1>5
  <1>7. Typed'
    BY <1>3 DEF WholeInv, Typed
  <1> QED
    BY <1>3, <1>6, <1>7 DEF WholeInv

LEMMA Begun ==
    ASSUME WholeInv, BeginTurn
    PROVE  WholeInv'
  <1> DEFINE m == <<TurnStart(turn + 1), UserMessage>>
  <1>1. /\ log \in Seq(LogEvents) /\ Whole(log) /\ turn + 1 \in Nat /\ turn' = turn + 1
        /\ calls = <<>> /\ calls' = <<>> /\ pc' = "before" /\ log' = log \o m
    BY DEF WholeInv, Typed, BeginTurn, Answering
  <1>2. /\ m \in Seq(LogEvents) /\ Len(m) = 2 /\ m[1].kind = "TurnStart"
        /\ m[2].kind = "UserMessage"
    BY <1>1, MarkerEvents, PlainEvents
  <1>3. OpenTurn(log \o <<TurnStart(turn + 1), UserMessage>>, turn + 1, {})
    BY <1>1, TurnBegins
  <1>4. OpenTurn(log', turn', {})
    BY <1>1, <1>3
  <1> HIDE DEF m
  <1>5. \A k \in 1 .. Len(m) : m[k].kind # "TurnEnd"
    BY <1>2
  <1>6. Whole(log') /\ log' \in Seq(LogEvents)
    BY <1>1, <1>2, <1>5, LongerIsWhole, Joined
  <1>7. Pending(calls') = {}
    BY <1>1 DEF Pending
  <1>8. Typed'
    <2>1. issued' \in Nat /\ acted' \in Nat
      BY DEF WholeInv, Typed, BeginTurn
    <2>2. calls' \in Seq(CallsSet)
      BY <1>1
    <2> QED
      BY <1>1, <1>6, <2>1, <2>2 DEF Typed, Running
  <1> QED
    BY <1>1, <1>4, <1>6, <1>7, <1>8 DEF WholeInv, Answering

\* What a request drains of the queue is user messages.
LEMMA DrainedTyped ==
    ASSUME queue \in Seq({"user", "system"})
    PROVE  Drained \in Seq(LogEvents) /\ \A k \in 1 .. Len(Drained) : Drained[k] = UserMessage
  <1> DEFINE U == {k \in 1 .. Len(queue) : queue[k] # "system"}
             n == Cardinality(U)
  <1>1. n \in Nat
    <2>1. IsFiniteSet(1 .. Len(queue))
      BY FS_Interval
    <2>2. U \subseteq 1 .. Len(queue)
      OBVIOUS
    <2> HIDE DEF U
    <2>3. IsFiniteSet(U)
      BY <2>1, <2>2, FS_Subset
    <2> QED
      BY <2>3, FS_CardinalityType
  <1>2. Drained = [i \in 1 .. n |-> UserMessage]
    BY DEF Drained
  <1> HIDE DEF n
  <1> QED
    BY <1>1, <1>2, PlainEvents

LEMMA Sent ==
    ASSUME WholeInv, SendRequest, queue \in Seq({"user", "system"})
    PROVE  WholeInv'
  <1>4. Drained \in Seq(LogEvents) /\ \A k \in 1 .. Len(Drained) : Drained[k] = UserMessage
    BY DrainedTyped
  <1>5. \A k \in 1 .. Len(Drained) : Drained[k].kind \notin Marks \cup {"ToolCall"}
    BY <1>4, PlainEvents DEF Marks
  <1>6. /\ pc \in Running /\ pc' \in Running /\ acted' \in Nat
        /\ pc' \in Answering <=> pc \in Answering
    BY DEF SendRequest, Running, Answering, WholeInv, Typed
  <1>7. log' = log \o Drained /\ UNCHANGED <<turn, calls, issued>>
    BY DEF SendRequest
  <1> HIDE DEF Drained
  <1> QED
    BY <1>4, <1>5, <1>6, <1>7, LogGrows

LEMMA Finished ==
    ASSUME WholeInv, Finish
    PROVE  WholeInv'
  <1> DEFINE end == TurnEnd(turn, "completed")
             stats == TurnStats
             l == Append(log, stats)
  <1>1. /\ log \in Seq(LogEvents) /\ Whole(log) /\ turn \in Nat /\ calls = <<>>
        /\ OpenTurn(log, turn, Pending(calls))
    BY DEF WholeInv, Typed, Finish, Running, Answering
  <1>2. /\ end \in LogEvents /\ end.kind = "TurnEnd" /\ end.n = turn
        /\ stats \in LogEvents /\ stats.kind = "TurnStats"
    BY <1>1, MarkerEvents, PlainEvents
  <1>3. log' = log \o <<stats, end>> /\ Leave
    BY DEF Finish
  <1> HIDE DEF end, stats
  <1>4. /\ log' = Append(l, end) /\ l = log \o <<stats>> /\ <<stats>> \in Seq(LogEvents)
        /\ Len(<<stats>>) = 1 /\ <<stats>>[1] = stats
    BY <1>1, <1>2, <1>3
  <1>5. \A k \in 1 .. Len(<<stats>>) : /\ <<stats>>[k].kind \notin Marks
                                      /\ <<stats>>[k].kind # "TurnEnd"
                                      /\ <<stats>>[k].kind # "ToolCall"
    BY <1>2, <1>4 DEF Marks
  <1>6. Whole(log \o <<stats>>)
    BY <1>1, <1>4, <1>5, LongerIsWhole
  <1>7. OpenTurn(log \o <<stats>>, turn, Pending(calls))
    BY <1>1, <1>4, <1>5, TurnGoesOn
  <1>8. Pending(calls) = {}
    BY <1>1 DEF Pending
  <1>a. l \in Seq(LogEvents)
    BY <1>1, <1>2
  <1>b. l = log \o <<stats>>
    BY <1>4
  <1> HIDE DEF l
  <1>9. Whole(l) /\ OpenTurn(l, turn, {})
    BY <1>b, <1>6, <1>7, <1>8
  <1>10. Whole(Append(l, end)) /\ Append(l, end) \in Seq(LogEvents)
    BY <1>1, <1>2, <1>9, <1>a, ClosingIsWhole
  <1> QED
    BY <1>3, <1>4, <1>10, Leaves

\* The log is cut back at its end, at a user message, or to nothing.
LEMMA UndoCuts ==
    ASSUME NEW l \in Seq(LogEvents)
    PROVE  \E k \in 0 .. Len(l) :
             /\ UndoLastTurn(l) = SubSeq(l, 1, k)
             /\ k # 0 => l[k].kind = "UserMessage"
             /\ \A i \in 1 .. Len(l) : l[i].kind = "UserMessage" => i <= k
  <1> DEFINE T == {0} \cup Positions(l, {"UserMessage"})
  <1>1. T \in SUBSET (0 .. Len(l)) /\ T # {} /\ Len(l) \in Nat
    BY DEF Positions
  <1>2. /\ \A i \in T : i # 0 => i \in 1 .. Len(l) /\ l[i].kind = "UserMessage"
        /\ \A i \in 1 .. Len(l) : l[i].kind = "UserMessage" => i \in T
    BY DEF Positions
  <1>3. UndoLastTurn(l) = SubSeq(l, 1, Max(T))
    BY DEF UndoLastTurn
  <1> HIDE DEF T
  <1>4. Max(T) \in T /\ \A i \in T : i <= Max(T)
    BY <1>1, MaxOfPlaces
  <1> QED
    BY <1>1, <1>2, <1>3, <1>4

LEMMA Undone ==
    ASSUME WholeInv, Undo
    PROVE  WholeInv'
  <1>1. PICK k \in 0 .. Len(log) : log' = SubSeq(log, 1, k)
    BY UndoCuts DEF WholeInv, Typed, Undo
  <1>2. pc' = "idle" /\ calls' = <<>> /\ turn' \in Nat /\ issued' \in Nat /\ acted' \in Nat
    BY DEF WholeInv, Typed, Undo, turnVars, Answering
  <1> QED
    BY <1>1, <1>2, CutsBack

LEMMA CompactedFirst ==
    ASSUME WholeInv, CompactFirst
    PROVE  WholeInv'
  <1>1. PICK c \in CompactionOutcomes(log) :
         \/ /\ c.result = "ok"
            /\ log' = c.log
            /\ pc' = "head"
            /\ UNCHANGED <<turn, calls, stop, acted, issued>>
         \/ c.result = "error" /\ End("error")
         \/ c.result = "panic" /\ Leave /\ UNCHANGED log
    BY DEF CompactFirst, Compactions
  <1>2. pc = "before" /\ calls = <<>>
    BY DEF CompactFirst, WholeInv, Answering
  <1>3. CASE log' = c.log /\ pc' = "head" /\ UNCHANGED <<turn, calls, acted, issued>>
    <2>1. /\ log' \in Seq(LogEvents) /\ Whole(log')
          /\ OpenTurn(log', turn, Pending(calls))
      BY <1>2, <1>3, Compacted DEF Running
    <2>2. Pending(calls') = Pending(calls)
      BY <1>3 DEF Pending
    <2>3. Typed'
      BY <1>3, <2>1 DEF WholeInv, Typed, Running
    <2> QED
      BY <1>2, <1>3, <2>1, <2>2, <2>3 DEF WholeInv, Answering
  <1>4. CASE End("error")
    BY <1>2, <1>4, Ends DEF Running, Answering
  <1>5. CASE Leave /\ UNCHANGED log
    BY <1>5, Leaves DEF WholeInv, Typed
  <1> QED
    BY <1>1, <1>3, <1>4, <1>5

\* /compact, with no turn running.
LEMMA CompactedIdle ==
    ASSUME WholeInv, Compact
    PROVE  WholeInv'
  <1>1. PICK c \in CompactionOutcomes(log) : log' = c.log
    BY DEF Compact, Compactions
  <1>2. log' \in Seq(LogEvents) /\ Whole(log')
    BY <1>1, Compacted
  <1> QED
    BY <1>2 DEF Compact, turnVars, WholeInv, Typed, Running, Answering

\* A step of the turn.
LEMMA TurnKeepsWhole ==
    ASSUME WholeInv, ~MissingIds, queue \in Seq({"user", "system"}), Turn
    PROVE  WholeInv'
  <1>1. CASE BeginTurn
    BY <1>1, Begun
  <1>2. CASE Refuse
    BY <1>2, Leaves DEF Refuse, WholeInv, Typed
  <1>3. CASE Proceed
    BY <1>3, Waits DEF Proceed, WholeInv, Typed, Running, Answering
  <1>4. CASE CompactFirst
    BY <1>4, CompactedFirst
  <1>5. CASE HeadStop
    BY <1>5, Ends DEF HeadStop, Running, Answering
  <1>6. CASE SendRequest
    BY <1>6, Sent
  <1>7. CASE FailRequest
    BY <1>7, Ends DEF FailRequest, Running, Answering
  <1>8. CASE \E n \in 0 .. MaxParallel, sent \in {TRUE, ~MissingIds} : Reply(n, sent)
    <2>1. PICK n \in 0 .. MaxParallel, sent \in {TRUE, ~MissingIds} : Reply(n, sent)
      BY <1>8
    <2>2. n \in Nat
      BY <2>1, BoundsAssumption
    <2>3. Reply(n, TRUE)
      <3>1. (~MissingIds) = TRUE
        OBVIOUS
      <3>2. sent = TRUE
        BY <2>1, <3>1
      <3> QED
        BY <2>1, <3>2
    <2> QED
      BY <2>2, <2>3, Replied
  <1>9. CASE AnswerWithout
    BY <1>9, Answered DEF AnswerWithout, Answering
  <1>10. CASE AskPermission
    BY <1>10, Waits DEF AskPermission, Advance, WholeInv, Typed, Running, Answering
  <1>11. CASE Invoke
    BY <1>11, Waits DEF Invoke, Advance, WholeInv, Typed, Running, Answering
  <1>12. CASE Approve
    BY <1>12, Waits DEF Approve, Advance, WholeInv, Typed, Running, Answering
  <1>13. CASE Disapprove
    BY <1>13, Answered DEF Disapprove, Answering
  <1>14. CASE ToolWrites
    <2>1. calls \in Seq(CallsSet) /\ calls # <<>>
      BY <1>14 DEF ToolWrites, WholeInv, Typed, Answering
    <2>2. Head(calls) \in CallsSet
      BY <2>1
    <2>3. acted' \in Nat
      BY <1>14, <2>2 DEF ToolWrites, CallsSet
    <2> QED
      BY <1>14, <2>3, Waits DEF ToolWrites, WholeInv, Typed, Running, Answering
  <1>15. CASE ToolReturns
    <2>1. acted \in Nat
      BY DEF WholeInv, Typed
    <2> QED
      BY <1>15, <2>1, Answered DEF ToolReturns, Answering
  <1>16. CASE Finish
    BY <1>16, Finished
  <1> QED
    BY <1>1, <1>2, <1>3, <1>4, <1>5, <1>6, <1>7, <1>8, <1>9, <1>10, <1>11, <1>12, <1>13,
       <1>14, <1>15, <1>16 DEF Turn

\* A step of the driver.
LEMMA DriverKeepsWhole ==
    ASSUME WholeInv, Driver
    PROVE  WholeInv'
  <1> USE DEF WholeInv, Typed
  <1>1. CASE RequestStop
    <2> HIDE DEF WholeInv
    <2> QED
      BY <1>1, Waits DEF RequestStop, WholeInv
  <1>2. CASE Cancel
    BY <1>2, Leaves DEF Cancel
  <1>3. CASE Restart
    <2>1. /\ pc' = "idle" /\ calls' = <<>> /\ turn' \in Nat /\ issued' \in Nat /\ acted' \in Nat
      BY <1>3 DEF Restart
    <2>2. CASE UNCHANGED log
      <3>1. log \in Seq(LogEvents) /\ Len(log) \in 0 .. Len(log)
        OBVIOUS
      <3>2. log' = SubSeq(log, 1, Len(log))
        BY <2>2, <3>1
      <3> QED
        BY <2>1, <3>1, <3>2, CutsBack
    <2>3. CASE log' \in Surviving
      <3>1. PICK n \in 0 .. Len(log) : log' = SubSeq(log, 1, n)
        BY <2>3 DEF Surviving
      <3> QED
        BY <2>1, <3>1, CutsBack
    <2> QED
      BY <1>3, <2>2, <2>3 DEF Restart
  <1>4. CASE Undo
    BY <1>4, Undone
  <1>5. CASE Clear
    <2>1. log' = <<>> /\ pc' = "idle"
      BY <1>5 DEF Clear, turnVars
    <2>2. log' \in Seq(LogEvents) /\ Whole(log')
      BY <2>1, EmptyIsWhole
    <2> QED
      BY <1>5, <2>1, <2>2 DEF Clear, turnVars, Running
  <1>6. CASE Compact
    BY <1>6, CompactedIdle
  <1>7. CASE \E w \in writes : RestoreFile(w)
    <2> HIDE DEF WholeInv
    <2> QED
      BY <1>7, Waits DEF RestoreFile, turnVars, WholeInv
  <1>8. CASE \E role \in driver.injects : Inject(role)
    <2> HIDE DEF WholeInv
    <2> QED
      BY <1>8, Waits DEF Inject, turnVars, WholeInv
  <1> QED
    BY <1>1, <1>2, <1>3, <1>4, <1>5, <1>6, <1>7, <1>8 DEF Driver

-----------------------------------------------------------------------------
(* The queue of injections holds roles. *)

Queued == driver \in Drivers /\ queue \in Seq({"user", "system"})

LEMMA QueueTyped == Init => Queued
  <1> SUFFICES ASSUME Init PROVE Queued
    OBVIOUS
  <1>1. driver \in Drivers /\ queue = <<>>
    BY DEF Init
  <1> QED
    BY <1>1 DEF Queued

LEMMA QueueStaysTyped ==
    ASSUME Queued, [Next]_vars
    PROVE  Queued'
  <1>1. driver' = driver
    BY DEF Next, vars
  <1>2. queue' = queue \/ queue' = <<>> \/ \E role \in driver.injects : queue' = Append(queue, role)
    <2>1. CASE UNCHANGED vars
      BY <2>1 DEF vars
    <2>2. CASE Turn
      BY <2>2 DEF Turn, BeginTurn, Refuse, Proceed, CompactFirst, HeadStop, SendRequest,
                  FailRequest, Reply, AnswerWithout, AskPermission, Invoke, Approve,
                  Disapprove, ToolWrites, ToolReturns, Finish, Answer, Advance
    <2>3. CASE Driver
      BY <2>3 DEF Driver, RequestStop, Cancel, Restart, Undo, Clear, Compact, RestoreFile, Inject
    <2> QED
      BY <2>1, <2>2, <2>3 DEF Next
  <1>3. driver.injects \in SUBSET {"user", "system"}
    BY DriversAssumption DEF Queued, DriverOf
  <1>4. ASSUME NEW role \in driver.injects, queue' = Append(queue, role)
        PROVE  queue' \in Seq({"user", "system"})
    <2>1. role \in {"user", "system"}
      BY <1>3
    <2> QED
      BY <1>4, <2>1 DEF Queued
  <1>5. queue' \in Seq({"user", "system"})
    <2>1. CASE queue' = queue
      BY <2>1 DEF Queued
    <2>2. CASE queue' = <<>>
      BY <2>2
    <2> QED
      BY <1>2, <1>4, <2>1, <2>2
  <1> QED
    BY <1>1, <1>5 DEF Queued

LEMMA StepKeepsWhole ==
    ASSUME ~MissingIds, WholeInv, Queued, [Next]_vars
    PROVE  WholeInv'
  <1>1. queue \in Seq({"user", "system"})
    BY DEF Queued
  <1>2. CASE Turn
    BY <1>1, <1>2, TurnKeepsWhole
  <1>3. CASE Driver
    BY <1>3, DriverKeepsWhole
  <1>4. CASE UNCHANGED vars
    BY <1>4, Waits DEF vars, turnVars, WholeInv, Typed
  <1> QED
    BY <1>2, <1>3, <1>4 DEF Next

\* A turn that has a TurnEnd is whole: the marker before it is its own TurnStart,
\* and every call logged since is answered, through stops, dropped futures,
\* panics, undo, compaction and a log cut short by a death, if the backend
\* sends the ids of its calls.
THEOREM TurnsAreWhole ==
    ASSUME ~MissingIds
    PROVE  Spec => []ClosedTurnsAreWhole
  <1> DEFINE Inv == WholeInv /\ Queued
  <1>1. Init => Inv
    BY Start, QueueTyped
  <1>2. Inv /\ [Next]_vars => Inv'
    BY StepKeepsWhole, QueueStaysTyped
  <1>3. Inv => ClosedTurnsAreWhole
    BY WholeIsClosed DEF WholeInv, Typed
  <1> HIDE DEF Inv
  <1> QED
    BY <1>1, <1>2, <1>3, PTL DEF Spec

-----------------------------------------------------------------------------
(* Results and the calls they answer.                                      *)
(*                                                                         *)
(* Every pending call is in the log, in the turn that runs and without a   *)
(* result (Asked), no two of them have one id (Apart), and no call to come *)
(* has an id the log knows (Known): so the next result answers one call.   *)

IsResult(ev) == ev.kind = "ToolResult"

PairedIn(l) ==
    \A j \in 1 .. Len(l) : IsResult(l[j]) =>
        /\ \E i \in 1 .. j : /\ l[i].kind = "ToolCall" /\ l[i].id = l[j].id
                             /\ \A x \in i .. j : l[x].kind \notin Marks
        /\ \A k \in 1 .. Len(l) : IsResult(l[k]) /\ l[k].id = l[j].id => k = j

Known(l, n) ==
    \A i \in 1 .. Len(l) : l[i].kind \in {"ToolCall", "ToolResult"} =>
        \A k \in Nat : k > n => l[i].id # SentId(k)

AskedOnce(l, id) ==
    /\ \E i \in 1 .. Len(l) : /\ l[i].kind = "ToolCall" /\ l[i].id = id
                              /\ \A x \in i .. Len(l) : l[x].kind \notin Marks
    /\ \A j \in 1 .. Len(l) : IsResult(l[j]) => l[j].id # id
Asked(l, cs) == \A k \in 1 .. Len(cs) : AskedOnce(l, cs[k].id)

Apart(cs) == \A k, m \in 1 .. Len(cs) : cs[k].id = cs[m].id => k = m

PairInv ==
    /\ PairedIn(log) /\ Known(log, issued)
    /\ Asked(log, calls) /\ Apart(calls)

LEMMA PairedForms ==
    ASSUME NEW l \in Seq(LogEvents)
    PROVE  Paired(l) <=> PairedIn(l)
  <1>0. Len(l) \in Nat
    OBVIOUS
  <1>1. ASSUME PairedIn(l), NEW j \in Positions(l, {"ToolResult"})
        PROVE  \E i \in Positions(l, {"ToolCall"}) \cap 1 .. j :
                 /\ l[i].id = l[j].id
                 /\ Positions(l, {"TurnStart", "TurnEnd"}) \cap i .. j = {}
                 /\ {k \in Positions(l, {"ToolResult"}) : l[k].id = l[i].id} = {j}
    <2>1. j \in 1 .. Len(l) /\ IsResult(l[j])
      BY DEF Positions, IsResult
    <2>2. PICK i \in 1 .. j : /\ l[i].kind = "ToolCall" /\ l[i].id = l[j].id
                              /\ \A x \in i .. j : l[x].kind \notin Marks
      BY <1>1, <2>1 DEF PairedIn
    <2>3. i \in Positions(l, {"ToolCall"}) \cap 1 .. j
      BY <1>0, <2>1, <2>2 DEF Positions
    <2>4. Positions(l, {"TurnStart", "TurnEnd"}) \cap i .. j = {}
      BY <2>2 DEF Positions, Marks
    <2>5. \A k \in Positions(l, {"ToolResult"}) : l[k].id = l[i].id => k = j
      BY <1>1, <2>1, <2>2 DEF PairedIn, Positions, IsResult
    <2> QED
      BY <2>2, <2>3, <2>4, <2>5
  <1>2. ASSUME Paired(l), NEW j \in 1 .. Len(l), IsResult(l[j])
        PROVE  /\ \E i \in 1 .. j : /\ l[i].kind = "ToolCall" /\ l[i].id = l[j].id
                                    /\ \A x \in i .. j : l[x].kind \notin Marks
               /\ \A k \in 1 .. Len(l) : IsResult(l[k]) /\ l[k].id = l[j].id => k = j
    <2>1. j \in Positions(l, {"ToolResult"})
      BY <1>2 DEF Positions, IsResult
    <2>2. PICK i \in Positions(l, {"ToolCall"}) \cap 1 .. j :
                 /\ l[i].id = l[j].id
                 /\ Positions(l, {"TurnStart", "TurnEnd"}) \cap i .. j = {}
                 /\ {k \in Positions(l, {"ToolResult"}) : l[k].id = l[i].id} = {j}
      BY <1>2, <2>1 DEF Paired
    <2>3. i \in 1 .. j /\ l[i].kind = "ToolCall"
      BY <2>2 DEF Positions
    <2>4. \A x \in i .. j : l[x].kind \notin Marks
      BY <1>0, <2>2, <2>3 DEF Positions, Marks
    <2>5. \A k \in 1 .. Len(l) : IsResult(l[k]) /\ l[k].id = l[j].id => k = j
      BY <2>2 DEF Positions, IsResult
    <2> QED
      BY <2>2, <2>3, <2>4, <2>5
  <1> QED
    BY <1>1, <1>2 DEF Paired, PairedIn

LEMMA PrefixIsPaired ==
    ASSUME NEW l \in Seq(LogEvents), PairedIn(l), NEW n \in Nat, Known(l, n), NEW k \in 0 .. Len(l)
    PROVE  PairedIn(SubSeq(l, 1, k)) /\ Known(SubSeq(l, 1, k), n)
  <1> DEFINE p == SubSeq(l, 1, k)
  <1>1. Len(l) \in Nat /\ Len(p) = k /\ \A i \in 1 .. k : p[i] = l[i]
    BY PrefixOf
  <1> HIDE DEF p
  <1>2. ASSUME NEW j \in 1 .. k, IsResult(p[j])
        PROVE  /\ \E i \in 1 .. j : /\ p[i].kind = "ToolCall" /\ p[i].id = p[j].id
                                    /\ \A x \in i .. j : p[x].kind \notin Marks
               /\ \A m \in 1 .. k : IsResult(p[m]) /\ p[m].id = p[j].id => m = j
    <2>1. j \in 1 .. Len(l) /\ IsResult(l[j])
      BY <1>1, <1>2
    <2>2. PICK i \in 1 .. j : /\ l[i].kind = "ToolCall" /\ l[i].id = l[j].id
                              /\ \A x \in i .. j : l[x].kind \notin Marks
      BY <2>1 DEF PairedIn
    <2>3. \A x \in i .. j : p[x] = l[x]
      BY <1>1, <2>2
    <2>4. p[i].kind = "ToolCall" /\ p[i].id = p[j].id
      BY <1>1, <2>2, <2>3
    <2>5. \A m \in 1 .. k : IsResult(p[m]) /\ p[m].id = p[j].id => m = j
      BY <1>1, <2>1 DEF PairedIn
    <2> QED
      BY <2>2, <2>3, <2>4, <2>5
  <1>3. PairedIn(p)
    BY <1>1, <1>2 DEF PairedIn
  <1>4. Known(p, n)
    BY <1>1 DEF Known
  <1> QED
    BY <1>3, <1>4 DEF p

\* What is appended answers nothing.
LEMMA LongerIsPaired ==
    ASSUME NEW l \in Seq(LogEvents), PairedIn(l), NEW m \in Seq(LogEvents),
           \A i \in 1 .. Len(m) : ~IsResult(m[i])
    PROVE  PairedIn(l \o m)
  <1> DEFINE p == l \o m
  <1>1. /\ p \in Seq(LogEvents) /\ Len(p) = Len(l) + Len(m) /\ Len(l) \in Nat /\ Len(m) \in Nat
        /\ \A i \in 1 .. Len(l) : p[i] = l[i]
        /\ \A i \in Len(l) + 1 .. Len(l) + Len(m) : p[i] = m[i - Len(l)]
    BY Joined
  <1> HIDE DEF p
  <1>2. \A j \in 1 .. Len(p) : IsResult(p[j]) => j \in 1 .. Len(l)
    <2>1. ASSUME NEW j \in 1 .. Len(p), j > Len(l) PROVE ~IsResult(p[j])
      <3>1. j \in Len(l) + 1 .. Len(l) + Len(m)
        BY <1>1, <2>1
      <3>2. j - Len(l) \in 1 .. Len(m)
        BY <1>1, <3>1
      <3> QED
        BY <1>1, <3>1, <3>2
    <2> QED
      BY <1>1, <2>1
  <1>3. ASSUME NEW j \in 1 .. Len(p), IsResult(p[j])
        PROVE  /\ \E i \in 1 .. j : /\ p[i].kind = "ToolCall" /\ p[i].id = p[j].id
                                    /\ \A x \in i .. j : p[x].kind \notin Marks
               /\ \A k \in 1 .. Len(p) : IsResult(p[k]) /\ p[k].id = p[j].id => k = j
    <2>1. j \in 1 .. Len(l) /\ IsResult(l[j]) /\ p[j] = l[j]
      BY <1>1, <1>2, <1>3
    <2>2. PICK i \in 1 .. j : /\ l[i].kind = "ToolCall" /\ l[i].id = l[j].id
                              /\ \A x \in i .. j : l[x].kind \notin Marks
      BY <2>1 DEF PairedIn
    <2>3. \A x \in i .. j : p[x] = l[x]
      <3>1. \A x \in i .. j : x \in 1 .. Len(l)
        BY <1>1, <2>1, <2>2
      <3> QED
        BY <1>1, <3>1
    <2>4. p[i] = l[i]
      BY <1>1, <2>1, <2>2
    <2>5. \A k \in 1 .. Len(p) : IsResult(p[k]) /\ p[k].id = p[j].id => k = j
      BY <1>1, <1>2, <2>1 DEF PairedIn
    <2> QED
      BY <2>1, <2>2, <2>3, <2>4, <2>5
  <1> QED
    BY <1>3 DEF PairedIn, p

LEMMA LongerIsKnown ==
    ASSUME NEW l \in Seq(LogEvents), NEW m \in Seq(LogEvents), NEW n \in Nat, NEW n2 \in Nat,
           Known(l, n), n <= n2, Known(m, n2)
    PROVE  Known(l \o m, n2)
  <1> DEFINE p == l \o m
  <1>1. /\ Len(p) = Len(l) + Len(m) /\ Len(l) \in Nat /\ Len(m) \in Nat
        /\ \A i \in 1 .. Len(l) : p[i] = l[i]
        /\ \A i \in Len(l) + 1 .. Len(l) + Len(m) : p[i] = m[i - Len(l)]
    BY Joined
  <1> HIDE DEF p
  <1>2. ASSUME NEW i \in 1 .. Len(p), p[i].kind \in {"ToolCall", "ToolResult"}, NEW k \in Nat, k > n2
        PROVE  p[i].id # SentId(k)
    <2>1. CASE i \in 1 .. Len(l)
      BY <1>1, <1>2, <2>1 DEF Known
    <2>2. CASE i > Len(l)
      <3>1. i - Len(l) \in 1 .. Len(m) /\ p[i] = m[i - Len(l)]
        BY <1>1, <2>2
      <3> QED
        BY <1>2, <3>1 DEF Known
    <2> QED
      BY <1>1, <2>1, <2>2
  <1> QED
    BY <1>2 DEF Known, p

\* A pending call stays so while the log goes on without markers and other results.
LEMMA StillAsked ==
    ASSUME NEW l \in Seq(LogEvents), NEW m \in Seq(LogEvents), NEW id, AskedOnce(l, id),
           \A i \in 1 .. Len(m) : m[i].kind \notin Marks,
           \A i \in 1 .. Len(m) : IsResult(m[i]) => m[i].id # id
    PROVE  AskedOnce(l \o m, id)
  <1> DEFINE p == l \o m
  <1>1. /\ Len(p) = Len(l) + Len(m) /\ Len(l) \in Nat /\ Len(m) \in Nat
        /\ \A i \in 1 .. Len(l) : p[i] = l[i]
        /\ \A i \in Len(l) + 1 .. Len(l) + Len(m) : p[i] = m[i - Len(l)]
    BY Joined
  <1> HIDE DEF p
  <1>2. ASSUME NEW x \in 1 .. Len(p), x > Len(l)
        PROVE  p[x].kind \notin Marks /\ (IsResult(p[x]) => p[x].id # id)
    <2>1. x - Len(l) \in 1 .. Len(m) /\ p[x] = m[x - Len(l)]
      BY <1>1, <1>2
    <2> QED
      BY <2>1
  <1>3. PICK i \in 1 .. Len(l) : /\ l[i].kind = "ToolCall" /\ l[i].id = id
                                 /\ \A x \in i .. Len(l) : l[x].kind \notin Marks
    BY DEF AskedOnce
  <1>4. i \in 1 .. Len(p) /\ p[i].kind = "ToolCall" /\ p[i].id = id
    BY <1>1, <1>3
  <1>5. \A x \in i .. Len(p) : p[x].kind \notin Marks
    BY <1>1, <1>2, <1>3
  <1>6. \A j \in 1 .. Len(p) : IsResult(p[j]) => p[j].id # id
    BY <1>1, <1>2 DEF AskedOnce
  <1> QED
    BY <1>4, <1>5, <1>6 DEF AskedOnce, p

\* The next result answers a pending call.
LEMMA AnswerIsPaired ==
    ASSUME NEW l \in Seq(LogEvents), PairedIn(l), NEW end \in LogEvents, IsResult(end),
           AskedOnce(l, end.id)
    PROVE  PairedIn(l \o <<end>>)
  <1> DEFINE p == l \o <<end>>
  <1>1. /\ Len(p) = Len(l) + 1 /\ Len(l) \in Nat /\ p[Len(l) + 1] = end
        /\ \A i \in 1 .. Len(l) : p[i] = l[i]
    OBVIOUS
  <1> HIDE DEF p
  <1>2. \A i \in 1 .. Len(p) : i \in 1 .. Len(l) \/ i = Len(l) + 1
    BY <1>1
  <1>3. ASSUME NEW j \in 1 .. Len(p), IsResult(p[j])
        PROVE  /\ \E i \in 1 .. j : /\ p[i].kind = "ToolCall" /\ p[i].id = p[j].id
                                    /\ \A x \in i .. j : p[x].kind \notin Marks
               /\ \A k \in 1 .. Len(p) : IsResult(p[k]) /\ p[k].id = p[j].id => k = j
    <2>1. CASE j \in 1 .. Len(l)
      <3>1. IsResult(l[j]) /\ p[j] = l[j] /\ l[j].id # end.id
        BY <1>1, <1>3, <2>1 DEF AskedOnce
      <3>2. PICK i \in 1 .. j : /\ l[i].kind = "ToolCall" /\ l[i].id = l[j].id
                                /\ \A x \in i .. j : l[x].kind \notin Marks
        BY <2>1, <3>1 DEF PairedIn
      <3>3. p[i] = l[i] /\ \A x \in i .. j : p[x] = l[x]
        BY <1>1, <2>1, <3>2
      <3>4. \A k \in 1 .. Len(p) : IsResult(p[k]) /\ p[k].id = p[j].id => k = j
        BY <1>1, <1>2, <2>1, <3>1 DEF PairedIn
      <3> QED
        BY <3>1, <3>2, <3>3, <3>4
    <2>2. CASE j = Len(l) + 1
      <3>1. PICK i \in 1 .. Len(l) : /\ l[i].kind = "ToolCall" /\ l[i].id = end.id
                                     /\ \A x \in i .. Len(l) : l[x].kind \notin Marks
        BY DEF AskedOnce
      <3>2. i \in 1 .. j /\ p[i] = l[i] /\ p[j] = end
        BY <1>1, <2>2, <3>1
      <3>3. \A x \in i .. j : p[x].kind \notin Marks
        BY <1>1, <2>2, <3>1 DEF Marks, IsResult
      <3>4. \A k \in 1 .. Len(p) : IsResult(p[k]) /\ p[k].id = p[j].id => k = j
        BY <1>1, <1>2, <2>2, <3>2 DEF AskedOnce
      <3> QED
        BY <3>1, <3>2, <3>3, <3>4
    <2> QED
      BY <1>2, <2>1, <2>2
  <1> QED
    BY <1>3 DEF PairedIn, p

\* The log and the calls are left as they are, or the turn is left.
LEMMA PairsStay ==
    ASSUME PairInv, UNCHANGED <<log, issued>>, calls' \in {calls, <<>>}
    PROVE  PairInv'
  BY DEF PairInv, Asked, Apart

\* The log goes on with neither calls nor results.
LEMMA PairsGrow ==
    ASSUME WholeInv, PairInv, NEW m \in Seq(LogEvents), log' = log \o m, UNCHANGED issued,
           \A k \in 1 .. Len(m) : m[k].kind \notin {"ToolCall", "ToolResult"},
           \/ calls' = <<>>
           \/ UNCHANGED calls /\ \A k \in 1 .. Len(m) : m[k].kind \notin Marks
    PROVE  PairInv'
  <1>1. log \in Seq(LogEvents) /\ issued \in Nat
    BY DEF WholeInv, Typed
  <1>2. PairedIn(log \o m)
    BY <1>1, LongerIsPaired DEF PairInv, IsResult
  <1>3. Known(log \o m, issued)
    <2>1. Known(m, issued)
      BY DEF Known
    <2> QED
      BY <1>1, <2>1, LongerIsKnown DEF PairInv
  <1>4. Asked(log', calls') /\ Apart(calls')
    <2>1. CASE calls' = <<>>
      BY <2>1 DEF Asked, Apart
    <2>2. CASE UNCHANGED calls /\ \A k \in 1 .. Len(m) : m[k].kind \notin Marks
      <3>1. ASSUME NEW k \in 1 .. Len(calls)
            PROVE  AskedOnce(log \o m, calls[k].id)
        BY <1>1, <2>2, StillAsked DEF PairInv, Asked, IsResult
      <3> QED
        BY <2>2, <3>1 DEF PairInv, Asked, Apart
    <2> QED
      BY <2>1, <2>2
  <1> QED
    BY <1>2, <1>3, <1>4 DEF PairInv

\* Nothing runs, and the log is cut back.
LEMMA PairsCutBack ==
    ASSUME WholeInv, PairInv, NEW k \in 0 .. Len(log), log' = SubSeq(log, 1, k),
           calls' = <<>>, UNCHANGED issued
    PROVE  PairInv'
  <1>1. log \in Seq(LogEvents) /\ issued \in Nat
    BY DEF WholeInv, Typed
  <1>2. PairedIn(log') /\ Known(log', issued')
    BY <1>1, PrefixIsPaired DEF PairInv
  <1> QED
    BY <1>2 DEF PairInv, Asked, Apart

\* The first pending call is answered: it is not known, nor answered, otherwise.
LEMMA PairsAnswered ==
    ASSUME WholeInv, PairInv, pc \in Answering, NEW write \in Nat, Answer(write)
    PROVE  PairInv'
  <1> DEFINE id == Head(calls).id
             ev == ToolResult(id, write)
  <1>1. /\ log \in Seq(LogEvents) /\ calls \in Seq(CallsSet) /\ calls # <<>> /\ issued \in Nat
        /\ Len(calls) \in Nat
    BY DEF WholeInv, Typed
  <1>2. /\ Head(calls) = calls[1] /\ 1 \in 1 .. Len(calls) /\ calls[1] \in CallsSet
        /\ Len(Tail(calls)) = Len(calls) - 1
        /\ \A k \in 1 .. Len(calls) - 1 : Tail(calls)[k] = calls[k + 1]
    BY <1>1
  <1>3. id \in IdKinds \X Nat
    BY <1>2 DEF CallsSet
  <1>4. ev \in LogEvents /\ ev.kind = "ToolResult" /\ ev.id = id
    BY <1>3, ToolEvents
  <1>5. log' = log \o <<ev>> /\ calls' = Tail(calls) /\ issued' = issued
    BY <1>1, <1>4, Appended DEF Answer
  <1>6. AskedOnce(log, id)
    BY <1>2 DEF PairInv, Asked
  <1> HIDE DEF ev
  <1>7. <<ev>> \in Seq(LogEvents) /\ Len(<<ev>>) = 1 /\ <<ev>>[1] = ev
    BY <1>4
  <1>8. PairedIn(log \o <<ev>>)
    BY <1>1, <1>4, <1>6, AnswerIsPaired DEF PairInv, IsResult
  <1>9. Known(log \o <<ev>>, issued)
    <2>1. PICK i \in 1 .. Len(log) : log[i].kind = "ToolCall" /\ log[i].id = id
      BY <1>6 DEF AskedOnce
    <2>2. \A k \in Nat : k > issued => id # SentId(k)
      BY <2>1 DEF PairInv, Known
    <2>3. Known(<<ev>>, issued)
      BY <1>4, <1>7, <2>2 DEF Known
    <2>4. Known(log, issued) /\ issued <= issued
      BY <1>1 DEF PairInv
    <2> HIDE DEF id
    <2> QED
      BY <1>1, <1>7, <2>3, <2>4, LongerIsKnown
  <1>10. ASSUME NEW k \in 1 .. Len(calls')
         PROVE  AskedOnce(log \o <<ev>>, calls'[k].id)
    <2>1. k + 1 \in 1 .. Len(calls) /\ calls'[k] = calls[k + 1] /\ k + 1 # 1
      BY <1>1, <1>2, <1>5
    <2>2. calls[k + 1].id # id /\ AskedOnce(log, calls[k + 1].id)
      BY <1>2, <2>1 DEF PairInv, Apart, Asked
    <2> DEFINE m == <<ev>>
               other == calls[k + 1].id
    <2>3. m \in Seq(LogEvents) /\ Len(m) = 1 /\ m[1] = ev /\ other # ev.id /\ AskedOnce(log, other)
      BY <1>4, <1>7, <2>2
    <2> HIDE DEF m, other
    <2>4. \A x \in 1 .. Len(m) : m[x].kind \notin Marks
      BY <1>4, <2>3 DEF Marks
    <2>5. \A x \in 1 .. Len(m) : IsResult(m[x]) => m[x].id # other
      BY <2>3
    <2>6. AskedOnce(log \o m, other)
      BY <1>1, <2>3, <2>4, <2>5, StillAsked
    <2> QED
      BY <2>1, <2>6 DEF m, other
  <1>11. Apart(calls')
    BY <1>1, <1>2, <1>5 DEF PairInv, Apart
  <1> QED
    BY <1>5, <1>8, <1>9, <1>10, <1>11 DEF PairInv, Asked

\* The calls of a reply have ids of their own, which the log did not know.
LEMMA PairsReplied ==
    ASSUME WholeInv, PairInv, NEW n \in Nat, Reply(n, TRUE)
    PROVE  PairInv'
  <1>1. log \in Seq(LogEvents) /\ issued \in Nat /\ Typed /\ calls = <<>>
    BY DEF WholeInv, Typed, Reply, Answering
  <1>2. CASE Leave /\ UNCHANGED log
    BY <1>2, PairsStay DEF Leave
  <1>3. CASE ReplyMade(n)
    <2>1. PICK m, said, ce \in Seq(LogEvents) :
            /\ log' = ((log \o m) \o said) \o ce
            /\ \A k \in 1 .. Len(m) : m[k].kind \in Talk
            /\ \A k \in 1 .. Len(said) : said[k].kind \in Talk
            /\ CallsFrom(ce, n)
      BY <1>3 DEF ReplyMade
    <2>a. issued' = issued + n /\ issued <= issued + n /\ issued + n \in Nat /\ issued <= issued
      BY <1>1, <1>3 DEF ReplyMade
    <2> DEFINE l1 == log \o m
               l2 == l1 \o said
    <2>2. PairedIn(l1) /\ Known(l1, issued) /\ l1 \in Seq(LogEvents)
      <3>1. PairedIn(l1)
        BY <1>1, <2>1, LongerIsPaired DEF PairInv, Talk, IsResult
      <3>2. Known(m, issued)
        BY <2>1 DEF Known, Talk
      <3>3. Known(l1, issued)
        BY <1>1, <2>1, <2>a, <3>2, LongerIsKnown DEF PairInv
      <3> QED
        BY <1>1, <2>1, <3>1, <3>3, Joined
    <2> HIDE DEF l1
    <2>3. PairedIn(l2) /\ Known(l2, issued) /\ l2 \in Seq(LogEvents)
      <3>1. PairedIn(l2)
        BY <2>1, <2>2, LongerIsPaired DEF Talk, IsResult
      <3>2. Known(said, issued)
        BY <2>1 DEF Known, Talk
      <3>3. Known(l2, issued)
        BY <1>1, <2>1, <2>2, <2>a, <3>2, LongerIsKnown
      <3> QED
        BY <2>1, <2>2, <3>1, <3>3, Joined
    <2> HIDE DEF l2
    <2>4. log' = l2 \o ce
      BY <2>1 DEF l1, l2
    <2>5. /\ Len(ce) = n
          /\ \A k \in 1 .. n : ce[k].kind = "ToolCall" /\ ce[k].id = SentId(issued + k)
      BY <2>1 DEF CallsFrom
    <2>6. \A i, k \in Nat : SentId(i) = SentId(k) => i = k
      BY DEF SentId
    <2>7. PairedIn(log')
      BY <2>1, <2>3, <2>4, <2>5, LongerIsPaired DEF IsResult
    <2>8. Known(log', issued')
      <3>1. ASSUME NEW i \in 1 .. Len(ce), NEW k \in Nat, k > issued + n
            PROVE  ce[i].id # SentId(k)
        BY <1>1, <2>5, <2>6, <3>1
      <3>2. Known(ce, issued + n)
        BY <3>1 DEF Known
      <3> QED
        BY <1>1, <2>1, <2>3, <2>4, <2>a, <3>2, LongerIsKnown
    <2>9. ASSUME NEW k \in 1 .. n
          PROVE  AskedOnce(l2 \o ce, SentId(issued + k))
      <3> DEFINE p == l2 \o ce
                 at == Len(l2) + k
      <3>1. /\ Len(p) = Len(l2) + n /\ Len(l2) \in Nat
            /\ \A i \in 1 .. Len(l2) : p[i] = l2[i]
            /\ \A i \in Len(l2) + 1 .. Len(l2) + n : p[i] = ce[i - Len(l2)]
        <4>1. ce \in Seq(LogEvents) /\ l2 \in Seq(LogEvents)
          BY <2>1, <2>3
        <4>2. Len(l2) \in Nat /\ Len(l2 \o ce) = Len(l2) + Len(ce)
          BY <4>1
        <4>3. \A i \in 1 .. Len(l2) : (l2 \o ce)[i] = l2[i]
          BY <4>1
        <4>4. \A i \in Len(l2) + 1 .. Len(l2) + Len(ce) : (l2 \o ce)[i] = ce[i - Len(l2)]
          BY <4>1
        <4> QED
          BY <2>5, <4>2, <4>3, <4>4
      <3> HIDE DEF p
      <3>2. ASSUME NEW i \in Len(l2) + 1 .. Len(l2) + n
            PROVE  p[i].kind = "ToolCall" /\ p[i].id = SentId(issued + (i - Len(l2)))
        <4>1. i - Len(l2) \in 1 .. n
          BY <3>1
        <4> QED
          BY <2>5, <3>1, <4>1
      <3>3. at \in Len(l2) + 1 .. Len(l2) + n /\ at - Len(l2) = k /\ at \in 1 .. Len(p)
        BY <3>1
      <3> HIDE DEF at
      <3>4. p[at].kind = "ToolCall" /\ p[at].id = SentId(issued + k)
        BY <3>2, <3>3
      <3>5. \A x \in at .. Len(p) : x \in Len(l2) + 1 .. Len(l2) + n
        BY <3>1, <3>3
      <3>6. \A x \in at .. Len(p) : p[x].kind \notin Marks
        BY <3>2, <3>5 DEF Marks
      <3>7. ASSUME NEW j \in 1 .. Len(p), IsResult(p[j])
            PROVE  p[j].id # SentId(issued + k)
        <4>1. j \in 1 .. Len(l2) /\ p[j] = l2[j]
          BY <3>1, <3>2, <3>7 DEF IsResult
        <4>2. issued + k \in Nat /\ issued + k > issued
          BY <1>1
        <4> QED
          BY <2>3, <3>7, <4>1, <4>2 DEF Known, IsResult
      <3> QED
        BY <3>3, <3>4, <3>6, <3>7 DEF AskedOnce, p
    <2>10. /\ Len(calls') = n /\ \A k \in 1 .. n : calls'[k].id = SentId(issued + k)
      BY <1>3 DEF ReplyMade
    <2>11. Asked(log', calls')
      BY <2>4, <2>9, <2>10 DEF Asked
    <2>12. Apart(calls')
      <3>1. ASSUME NEW i \in 1 .. n, NEW k \in 1 .. n, calls'[i].id = calls'[k].id
            PROVE  i = k
        <4>1. issued + i \in Nat /\ issued + k \in Nat
          BY <1>1
        <4>2. issued + i = issued + k
          BY <2>6, <2>10, <3>1, <4>1
        <4> QED
          BY <1>1, <4>2
      <3> QED
        BY <2>10, <3>1 DEF Apart
    <2> QED
      BY <2>7, <2>8, <2>11, <2>12 DEF PairInv
  <1> QED
    BY <1>1, <1>2, <1>3, ReplyForm

\* One event is appended that is neither a call nor a result, and no call is pending.
LEMMA PairsEnd ==
    ASSUME WholeInv, PairInv, NEW ev \in LogEvents, ev.kind \notin {"ToolCall", "ToolResult"},
           log' = Append(log, ev), calls' = <<>>, UNCHANGED issued
    PROVE  PairInv'
  <1>1. log \in Seq(LogEvents)
    BY DEF WholeInv, Typed
  <1>2. log' = log \o <<ev>> /\ <<ev>> \in Seq(LogEvents) /\ Len(<<ev>>) = 1 /\ <<ev>>[1] = ev
    BY <1>1
  <1>3. \A k \in 1 .. Len(<<ev>>) : <<ev>>[k].kind \notin {"ToolCall", "ToolResult"}
    BY <1>2
  <1> QED
    BY <1>2, <1>3, PairsGrow

LEMMA PairsClosed ==
    ASSUME WholeInv, PairInv, NEW why \in {"completed", "aborted", "error"}, End(why)
    PROVE  PairInv'
  <1> DEFINE ev == TurnEnd(turn, why)
  <1>1. ev \in LogEvents /\ ev.kind = "TurnEnd"
    BY MarkerEvents DEF WholeInv, Typed
  <1>2. log' = Append(log, ev) /\ calls' = <<>> /\ issued' = issued
    BY DEF End, Leave
  <1> HIDE DEF ev
  <1> QED
    BY <1>1, <1>2, PairsEnd

LEMMA PairsCompacted ==
    ASSUME WholeInv, PairInv, NEW c \in CompactionOutcomes(log), log' = c.log,
           calls' \in {calls, <<>>}, UNCHANGED issued
    PROVE  PairInv'
  <1>1. PICK m \in Seq(LogEvents) :
          c.log = log \o m /\ \A k \in 1 .. Len(m) : m[k].kind = "Compaction"
    BY CompactionAppends DEF WholeInv, Typed
  <1> QED
    BY <1>1, PairsGrow DEF Marks

LEMMA TurnKeepsPairs ==
    ASSUME WholeInv, PairInv, ~MissingIds, queue \in Seq({"user", "system"}), Turn
    PROVE  PairInv'
  <1>0. log \in Seq(LogEvents) /\ turn \in Nat /\ issued \in Nat /\ acted \in Nat
    BY DEF WholeInv, Typed
  <1>1. CASE BeginTurn
    <2> DEFINE m == <<TurnStart(turn + 1), UserMessage>>
    <2>1. /\ m \in Seq(LogEvents) /\ Len(m) = 2 /\ m[1].kind = "TurnStart"
          /\ m[2].kind = "UserMessage"
      BY <1>0, MarkerEvents, PlainEvents
    <2>2. log' = log \o m /\ calls' = <<>> /\ issued' = issued
      BY <1>1 DEF BeginTurn, WholeInv, Answering
    <2> HIDE DEF m
    <2>3. \A k \in 1 .. Len(m) : m[k].kind \notin {"ToolCall", "ToolResult"}
      BY <2>1
    <2> QED
      BY <2>1, <2>2, <2>3, PairsGrow
  <1>2. CASE Refuse
    BY <1>2, PairsStay DEF Refuse, Leave
  <1>3. CASE Proceed
    BY <1>3, PairsStay DEF Proceed
  <1>4. CASE CompactFirst
    <2>1. PICK c \in CompactionOutcomes(log) :
           \/ log' = c.log /\ UNCHANGED <<calls, issued>>
           \/ End("error")
           \/ Leave /\ UNCHANGED log
      BY <1>4 DEF CompactFirst, Compactions
    <2>2. CASE log' = c.log /\ UNCHANGED <<calls, issued>>
      BY <2>2, PairsCompacted
    <2>3. CASE End("error")
      BY <2>3, PairsClosed
    <2>4. CASE Leave /\ UNCHANGED log
      BY <2>4, PairsStay DEF Leave
    <2> QED
      BY <2>1, <2>2, <2>3, <2>4
  <1>5. CASE HeadStop
    BY <1>5, PairsClosed DEF HeadStop
  <1>6. CASE SendRequest
    <2>1. /\ Drained \in Seq(LogEvents)
          /\ \A k \in 1 .. Len(Drained) : Drained[k].kind \notin {"ToolCall", "ToolResult"}
          /\ \A k \in 1 .. Len(Drained) : Drained[k].kind \notin Marks
      BY DrainedTyped, PlainEvents DEF Marks
    <2>2. log' = log \o Drained /\ UNCHANGED <<calls, issued>>
      BY <1>6 DEF SendRequest
    <2> HIDE DEF Drained
    <2> QED
      BY <2>1, <2>2, PairsGrow
  <1>7. CASE FailRequest
    BY <1>7, PairsClosed DEF FailRequest
  <1>8. CASE \E n \in 0 .. MaxParallel, sent \in {TRUE, ~MissingIds} : Reply(n, sent)
    <2>1. PICK n \in 0 .. MaxParallel, sent \in {TRUE, ~MissingIds} : Reply(n, sent)
      BY <1>8
    <2>2. n \in Nat
      BY <2>1, BoundsAssumption
    <2>3. Reply(n, TRUE)
      <3>1. (~MissingIds) = TRUE
        OBVIOUS
      <3>2. sent = TRUE
        BY <2>1, <3>1
      <3> QED
        BY <2>1, <3>2
    <2> QED
      BY <2>2, <2>3, PairsReplied
  <1>9. CASE AnswerWithout
    BY <1>9, PairsAnswered DEF AnswerWithout, Answering
  <1>10. CASE AskPermission \/ Invoke \/ Approve
    BY <1>10, PairsStay DEF AskPermission, Invoke, Approve, Advance
  <1>11. CASE Disapprove
    BY <1>11, PairsAnswered DEF Disapprove, Answering
  <1>12. CASE ToolWrites
    BY <1>12, PairsStay DEF ToolWrites
  <1>13. CASE ToolReturns
    BY <1>0, <1>13, PairsAnswered DEF ToolReturns, Answering
  <1>14. CASE Finish
    <2> DEFINE m == <<TurnStats, TurnEnd(turn, "completed")>>
    <2>1. /\ m \in Seq(LogEvents) /\ Len(m) = 2 /\ m[1].kind = "TurnStats"
          /\ m[2].kind = "TurnEnd"
      BY <1>0, MarkerEvents, PlainEvents
    <2>2. log' = log \o m /\ calls' = <<>> /\ issued' = issued
      BY <1>14 DEF Finish, Leave
    <2> HIDE DEF m
    <2>3. \A k \in 1 .. Len(m) : m[k].kind \notin {"ToolCall", "ToolResult"}
      BY <2>1
    <2> QED
      BY <2>1, <2>2, <2>3, PairsGrow
  <1> QED
    BY <1>1, <1>2, <1>3, <1>4, <1>5, <1>6, <1>7, <1>8, <1>9, <1>10, <1>11, <1>12, <1>13,
       <1>14 DEF Turn

LEMMA DriverKeepsPairs ==
    ASSUME WholeInv, PairInv, Driver
    PROVE  PairInv'
  <1>0. log \in Seq(LogEvents) /\ Len(log) \in Nat
    BY DEF WholeInv, Typed
  <1>1. CASE RequestStop
    BY <1>1, PairsStay DEF RequestStop
  <1>2. CASE Cancel
    BY <1>2, PairsStay DEF Cancel, Leave
  <1>3. CASE Restart
    <2>1. calls' = <<>> /\ issued' = issued
      BY <1>3 DEF Restart
    <2>2. CASE UNCHANGED log
      BY <2>1, <2>2, PairsStay
    <2>3. CASE log' \in Surviving
      <3>1. PICK n \in 0 .. Len(log) : log' = SubSeq(log, 1, n)
        BY <2>3 DEF Surviving
      <3> QED
        BY <2>1, <3>1, PairsCutBack
    <2> QED
      BY <1>3, <2>2, <2>3 DEF Restart
  <1>4. CASE Undo
    <2>1. PICK k \in 0 .. Len(log) : log' = SubSeq(log, 1, k)
      BY <1>0, <1>4, UndoCuts DEF Undo
    <2>2. calls' = <<>> /\ issued' = issued
      BY <1>4 DEF Undo, turnVars, WholeInv, Answering
    <2> QED
      BY <2>1, <2>2, PairsCutBack
  <1>5. CASE Clear
    <2>1. log' = SubSeq(log, 1, 0) /\ 0 \in 0 .. Len(log)
      BY <1>0, <1>5 DEF Clear
    <2>2. calls' = <<>> /\ issued' = issued
      BY <1>5 DEF Clear, turnVars, WholeInv, Answering
    <2> QED
      BY <2>1, <2>2, PairsCutBack
  <1>6. CASE Compact
    <2>1. PICK c \in CompactionOutcomes(log) : log' = c.log
      BY <1>6 DEF Compact, Compactions
    <2>2. UNCHANGED <<calls, issued>>
      BY <1>6 DEF Compact, turnVars
    <2> QED
      BY <2>1, <2>2, PairsCompacted
  <1>7. CASE \E w \in writes : RestoreFile(w)
    BY <1>7, PairsStay DEF RestoreFile, turnVars
  <1>8. CASE \E role \in driver.injects : Inject(role)
    BY <1>8, PairsStay DEF Inject, turnVars
  <1> QED
    BY <1>1, <1>2, <1>3, <1>4, <1>5, <1>6, <1>7, <1>8 DEF Driver

LEMMA PairsStart == Init => PairInv
  <1> SUFFICES ASSUME Init PROVE PairInv
    OBVIOUS
  <1>1. /\ log \in Seq(LogEvents) /\ Paired(log) /\ calls = <<>>
        /\ \A i \in 1 .. Len(log) : log[i].id[1] # "sent"
    BY LogsAssumption DEF Init
  <1>2. PairedIn(log)
    BY <1>1, PairedForms
  <1>3. Known(log, issued)
    <2>1. \A k \in Nat : SentId(k)[1] = "sent"
      BY DEF SentId
    <2> QED
      BY <1>1, <2>1 DEF Known
  <1> QED
    BY <1>1, <1>2, <1>3 DEF PairInv, Asked, Apart

\* Every tool result of the log answers a call of its own turn that nothing else
\* answers, whatever was undone, cancelled, cut short or compacted, if the backend
\* sends the ids of its calls.
THEOREM EveryResultAnswers ==
    ASSUME ~MissingIds
    PROVE  Spec => []ResultsAnswerCalls
  <1> DEFINE Inv == WholeInv /\ Queued /\ PairInv
  <1>1. Init => Inv
    BY Start, QueueTyped, PairsStart
  <1>2. Inv /\ [Next]_vars => Inv'
    <2> SUFFICES ASSUME WholeInv, Queued, PairInv, [Next]_vars
                 PROVE  WholeInv' /\ Queued' /\ PairInv'
      OBVIOUS
    <2>1. WholeInv' /\ Queued'
      BY StepKeepsWhole, QueueStaysTyped
    <2>2. queue \in Seq({"user", "system"})
      BY DEF Queued
    <2>3. CASE Turn
      BY <2>1, <2>2, <2>3, TurnKeepsPairs
    <2>4. CASE Driver
      BY <2>1, <2>4, DriverKeepsPairs
    <2>5. CASE UNCHANGED vars
      BY <2>1, <2>5, PairsStay DEF vars, turnVars
    <2> QED
      BY <2>1, <2>3, <2>4, <2>5 DEF Next
  <1>3. Inv => ResultsAnswerCalls
    BY PairedForms DEF ResultsAnswerCalls, WholeInv, Typed, PairInv
  <1> HIDE DEF Inv
  <1> QED
    BY <1>1, <1>2, <1>3, PTL DEF Spec

-----------------------------------------------------------------------------
(* Undo.                                                                   *)
(*                                                                         *)
(* The last checkpoint was made just before the last user message, but for *)
(* the messages a request drains from the queue: a result tells of a write *)
(* the checkpoint has exactly if a user message follows it (Aligned).  It  *)
(* lasts because nothing waits in the queue once a request was sent, and a *)
(* write that is to come is one no checkpoint and no result has.           *)

UserFrom(l, j) == \E u \in j .. Len(l) : l[u].kind = "UserMessage"

AllSeen(l) == \A j \in 1 .. Len(l) : IsResult(l[j]) => UserFrom(l, j)

Aligned(l, done, base) ==
    \A j \in 1 .. Len(l) :
      IsResult(l[j]) /\ l[j].n \in done => (l[j].n \in base <=> UserFrom(l, j))

CheckpointSet == [index : {0}, base : SUBSET Nat]
Base(cps) == cps[Len(cps)].base

\* The writes to come are apart from those done, and from each other.
ToCome(l, cs, last) ==
    /\ \A k \in 1 .. Len(cs) : cs[k].write \in 1 .. last
    /\ \A k, m \in 1 .. Len(cs) : cs[k].write = cs[m].write => k = m
    /\ \A j \in 1 .. Len(l) : IsResult(l[j]) =>
         l[j].n <= last /\ \A k \in 1 .. Len(cs) : l[j].n # cs[k].write

FilesInv ==
    /\ writes \subseteq 1 .. issued
    /\ checkpoints \in Seq(CheckpointSet)
    /\ checkpoints # <<>> =>
         /\ Base(checkpoints) \subseteq 1 .. issued
         /\ \A k \in 1 .. Len(calls) : calls[k].write \notin Base(checkpoints)
         /\ Aligned(log, writes, Base(checkpoints))

Early == {"idle", "before", "head"}
QueueSeen ==
    queue # <<>> =>
      /\ pc \in Early
      /\ pc # "idle" => AllSeen(log)

UndoInv ==
    /\ FilesInv /\ QueueSeen /\ ToCome(log, calls, issued)
    /\ acted # 0 => calls # <<>> /\ acted = Head(calls).write

\* What the projections of a log keep when it goes on without results.
LEMMA GrownLog ==
    ASSUME NEW l \in Seq(LogEvents), NEW m \in Seq(LogEvents),
           \A k \in 1 .. Len(m) : ~IsResult(m[k])
    PROVE  /\ \A j \in 1 .. Len(l \o m) : IsResult((l \o m)[j]) =>
                j \in 1 .. Len(l) /\ IsResult(l[j]) /\ (l \o m)[j] = l[j]
           /\ \A j \in 1 .. Len(l) : UserFrom(l, j) => UserFrom(l \o m, j)
           /\ (\A k \in 1 .. Len(m) : m[k].kind # "UserMessage") =>
                \A j \in 1 .. Len(l) : UserFrom(l \o m, j) => UserFrom(l, j)
           /\ (\E k \in 1 .. Len(m) : m[k].kind = "UserMessage") =>
                \A j \in 1 .. Len(l) : UserFrom(l \o m, j)
  <1> DEFINE p == l \o m
  <1>1. Len(p) = Len(l) + Len(m) /\ Len(l) \in Nat /\ Len(m) \in Nat
    OBVIOUS
  <1>2. \A i \in 1 .. Len(l) : p[i] = l[i]
    OBVIOUS
  <1>3. \A i \in Len(l) + 1 .. Len(l) + Len(m) : p[i] = m[i - Len(l)]
    OBVIOUS
  <1> HIDE DEF p
  <1>4. ASSUME NEW j \in 1 .. Len(p), j \notin 1 .. Len(l)
        PROVE  j - Len(l) \in 1 .. Len(m) /\ p[j] = m[j - Len(l)]
    <2>1. j \in Len(l) + 1 .. Len(l) + Len(m)
      BY <1>1, <1>4
    <2>2. j - Len(l) \in 1 .. Len(m)
      BY <1>1, <2>1
    <2> QED
      BY <1>3, <2>1, <2>2
  <1>5. \A j \in 1 .. Len(p) : IsResult(p[j]) => j \in 1 .. Len(l) /\ IsResult(l[j]) /\ p[j] = l[j]
    BY <1>2, <1>4
  <1>6. ASSUME NEW j \in 1 .. Len(l), UserFrom(l, j)
        PROVE  UserFrom(p, j)
    <2>1. PICK u \in j .. Len(l) : l[u].kind = "UserMessage"
      BY <1>6 DEF UserFrom
    <2>2. u \in j .. Len(p) /\ u \in 1 .. Len(l)
      BY <1>1, <2>1
    <2> QED
      BY <1>2, <2>1, <2>2 DEF UserFrom
  <1>7. ASSUME \A k \in 1 .. Len(m) : m[k].kind # "UserMessage", NEW j \in 1 .. Len(l), UserFrom(p, j)
        PROVE  UserFrom(l, j)
    <2>1. PICK u \in j .. Len(p) : p[u].kind = "UserMessage"
      BY <1>7 DEF UserFrom
    <2>2. u \in 1 .. Len(p)
      BY <1>1, <2>1
    <2>3. u \in 1 .. Len(l)
      BY <1>4, <1>7, <2>1, <2>2
    <2>4. u \in j .. Len(l)
      BY <1>1, <2>1, <2>3
    <2> QED
      BY <1>2, <2>1, <2>3, <2>4 DEF UserFrom
  <1>8. ASSUME NEW k \in 1 .. Len(m), m[k].kind = "UserMessage", NEW j \in 1 .. Len(l)
        PROVE  UserFrom(p, j)
    <2>1. Len(l) + k \in Len(l) + 1 .. Len(l) + Len(m) /\ (Len(l) + k) - Len(l) = k
      BY <1>1
    <2>2. p[Len(l) + k] = m[k]
      BY <1>3, <2>1
    <2>3. Len(l) + k \in j .. Len(p)
      BY <1>1, <2>1
    <2> QED
      BY <1>8, <2>2, <2>3 DEF UserFrom
  <1> QED
    BY <1>5, <1>6, <1>7, <1>8 DEF p

\* The log goes on without results and user messages.
LEMMA UndoWaits ==
    ASSUME WholeInv, UndoInv, NEW m \in Seq(LogEvents), log' = log \o m,
           \A k \in 1 .. Len(m) : ~IsResult(m[k]) /\ m[k].kind # "UserMessage",
           UNCHANGED <<issued, fileVars, queue>>,
           \/ UNCHANGED <<calls, acted>>
           \/ calls' = <<>> /\ acted' = 0,
           pc \in Early => pc' \in Early, pc = "idle" => pc' = "idle"
    PROVE  UndoInv'
  <1>0. log \in Seq(LogEvents)
    BY DEF WholeInv, Typed
  <1>1. /\ \A j \in 1 .. Len(log') : IsResult(log'[j]) =>
             j \in 1 .. Len(log) /\ IsResult(log[j]) /\ log'[j] = log[j]
        /\ \A j \in 1 .. Len(log) : UserFrom(log', j) <=> UserFrom(log, j)
    BY <1>0, GrownLog
  <1>2. FilesInv'
    BY <1>1 DEF UndoInv, FilesInv, Aligned, fileVars
  <1>3. QueueSeen'
    BY <1>1 DEF UndoInv, QueueSeen, AllSeen, Early
  <1>4. ToCome(log', calls', issued')
    BY <1>1 DEF UndoInv, ToCome
  <1> QED
    BY <1>2, <1>3, <1>4 DEF UndoInv

\* The same, with the log as it is.
LEMMA UndoStays ==
    ASSUME WholeInv, UndoInv, UNCHANGED <<log, issued, fileVars, queue>>,
           \/ UNCHANGED <<calls, acted>>
           \/ calls' = <<>> /\ acted' = 0,
           pc \in Early => pc' \in Early, pc = "idle" => pc' = "idle"
    PROVE  UndoInv'
  <1>1. FilesInv'
    BY DEF UndoInv, FilesInv, Aligned, fileVars
  <1>2. QueueSeen'
    BY DEF UndoInv, QueueSeen, Early
  <1>3. ToCome(log', calls', issued')
    BY DEF UndoInv, ToCome
  <1> QED
    BY <1>1, <1>2, <1>3 DEF UndoInv

\* A turn begins: a user message follows every result, and every write is in
\* the new checkpoint.
LEMMA UndoBegun ==
    ASSUME WholeInv, UndoInv, BeginTurn
    PROVE  UndoInv'
  <1> DEFINE m == <<TurnStart(turn + 1), UserMessage>>
             cp == [index |-> 0, base |-> writes]
  <1>0. log \in Seq(LogEvents) /\ turn + 1 \in Nat /\ issued \in Nat
    BY DEF WholeInv, Typed
  <1>1. /\ m \in Seq(LogEvents) /\ Len(m) = 2 /\ m[1].kind = "TurnStart"
        /\ m[2].kind = "UserMessage"
    BY <1>0, MarkerEvents, PlainEvents
  <1>2. /\ log' = log \o m /\ calls = <<>> /\ calls' = <<>> /\ issued' = issued /\ pc' = "before"
        /\ checkpoints' = Append(checkpoints, cp) /\ writes' = writes /\ acted' = acted
    BY DEF BeginTurn, WholeInv, Answering
  <1>a. acted = 0
    BY <1>2 DEF UndoInv
  <1> HIDE DEF m
  <1>3. /\ \A k \in 1 .. Len(m) : ~IsResult(m[k])
        /\ \E k \in 1 .. Len(m) : m[k].kind = "UserMessage"
    BY <1>1 DEF IsResult
  <1>4. /\ \A j \in 1 .. Len(log') : IsResult(log'[j]) =>
             j \in 1 .. Len(log) /\ IsResult(log[j]) /\ log'[j] = log[j]
        /\ \A j \in 1 .. Len(log) : UserFrom(log', j)
    BY <1>0, <1>1, <1>2, <1>3, GrownLog
  <1>5. cp \in CheckpointSet /\ cp.base = writes /\ writes \subseteq 1 .. issued
    BY <1>0 DEF UndoInv, FilesInv, CheckpointSet
  <1> HIDE DEF cp
  <1>6. checkpoints' \in Seq(CheckpointSet) /\ Base(checkpoints') = writes
    BY <1>2, <1>5 DEF UndoInv, FilesInv, Base
  <1>7. FilesInv'
    BY <1>2, <1>4, <1>5, <1>6 DEF FilesInv, Aligned
  <1>8. QueueSeen'
    BY <1>2, <1>4 DEF QueueSeen, AllSeen, Early
  <1>9. ToCome(log', calls', issued')
    BY <1>2, <1>4 DEF UndoInv, ToCome
  <1> QED
    BY <1>2, <1>a, <1>7, <1>8, <1>9 DEF UndoInv

\* The queue is drained: only if every result was followed by a user message.
LEMMA UndoSent ==
    ASSUME WholeInv, UndoInv, queue \in Seq({"user", "system"}), SendRequest
    PROVE  UndoInv'
  <1>0. log \in Seq(LogEvents)
    BY DEF WholeInv, Typed
  <1>1. Drained \in Seq(LogEvents) /\ \A k \in 1 .. Len(Drained) : Drained[k] = UserMessage
    BY DrainedTyped
  <1>2. /\ log' = log \o Drained /\ pc = "head" /\ queue' = <<>>
        /\ UNCHANGED <<calls, acted, issued, checkpoints, writes>>
    BY DEF SendRequest, fileVars
  <1>3. queue = <<>> => Drained = <<>>
    BY FS_EmptySet DEF Drained
  <1> HIDE DEF Drained
  <1>4. \A k \in 1 .. Len(Drained) : ~IsResult(Drained[k])
    BY <1>1, PlainEvents DEF IsResult
  <1>5. /\ \A j \in 1 .. Len(log') : IsResult(log'[j]) =>
             j \in 1 .. Len(log) /\ IsResult(log[j]) /\ log'[j] = log[j]
        /\ \A j \in 1 .. Len(log) : UserFrom(log, j) => UserFrom(log', j)
    BY <1>0, <1>1, <1>2, <1>4, GrownLog
  <1>6. \A j \in 1 .. Len(log) : IsResult(log[j]) => (UserFrom(log', j) <=> UserFrom(log, j))
    <2>1. CASE queue = <<>>
      <3>1. log' = log
        BY <1>0, <1>2, <1>3, <2>1
      <3> QED
        BY <3>1
    <2>2. CASE queue # <<>>
      BY <1>2, <1>5, <2>2 DEF UndoInv, QueueSeen, AllSeen, Early
    <2> QED
      BY <2>1, <2>2
  <1>7. FilesInv'
    BY <1>2, <1>5, <1>6 DEF UndoInv, FilesInv, Aligned
  <1>8. QueueSeen'
    BY <1>2 DEF QueueSeen
  <1>9. ToCome(log', calls', issued')
    BY <1>2, <1>5 DEF UndoInv, ToCome
  <1> QED
    BY <1>2, <1>7, <1>8, <1>9 DEF UndoInv

\* The first pending call is answered, with its write or none: a write no
\* checkpoint has, and no user message follows its result.
LEMMA UndoAnswered ==
    ASSUME WholeInv, UndoInv, pc \in Answering, NEW write \in {0, acted}, Answer(write)
    PROVE  UndoInv'
  <1> DEFINE id == Head(calls).id
             ev == ToolResult(id, write)
             p == log \o <<ev>>
  <1>1. /\ log \in Seq(LogEvents) /\ calls \in Seq(CallsSet) /\ calls # <<>> /\ issued \in Nat
        /\ Len(calls) \in Nat /\ Len(log) \in Nat /\ write \in Nat
    BY DEF WholeInv, Typed
  <1>2. /\ Head(calls) = calls[1] /\ 1 \in 1 .. Len(calls) /\ calls[1] \in CallsSet
        /\ Len(Tail(calls)) = Len(calls) - 1
        /\ \A k \in 1 .. Len(calls) - 1 : Tail(calls)[k] = calls[k + 1]
    BY <1>1
  <1>3. write = 0 \/ write = calls[1].write
    BY <1>2 DEF UndoInv
  <1>4. ev \in LogEvents /\ ev.kind = "ToolResult" /\ ev.n = write
    <2>1. id \in IdKinds \X Nat
      BY <1>2 DEF CallsSet
    <2>2. ev.n = write
      BY DEF ToolResult, Event
    <2> QED
      BY <1>1, <2>1, <2>2, ToolEvents
  <1>5. /\ log' = p /\ calls' = Tail(calls) /\ issued' = issued /\ acted' = 0
        /\ queue' = queue /\ checkpoints' = checkpoints /\ writes' = writes
    BY <1>1, <1>4, Appended DEF Answer, fileVars
  <1> HIDE DEF ev
  <1>6. /\ Len(p) = Len(log) + 1 /\ p[Len(log) + 1] = ev
        /\ \A j \in 1 .. Len(log) : p[j] = log[j]
    BY <1>1, <1>4
  <1> HIDE DEF p
  <1>7. \A j \in 1 .. Len(p) : j \in 1 .. Len(log) \/ j = Len(log) + 1
    BY <1>1, <1>6
  <1>8. /\ \A j \in 1 .. Len(log) : UserFrom(p, j) <=> UserFrom(log, j)
        /\ ~UserFrom(p, Len(log) + 1)
    <2>1. ASSUME NEW j \in 1 .. Len(log) + 1, UserFrom(p, j)
          PROVE  j \in 1 .. Len(log) /\ UserFrom(log, j)
      <3>1. PICK u \in j .. Len(p) : p[u].kind = "UserMessage"
        BY <2>1 DEF UserFrom
      <3>2. u \in 1 .. Len(p) /\ u # Len(log) + 1
        BY <1>1, <1>4, <1>6, <3>1
      <3>3. u \in j .. Len(log) /\ u \in 1 .. Len(log)
        BY <1>1, <1>6, <3>1, <3>2
      <3>4. log[u].kind = "UserMessage" /\ j \in 1 .. Len(log)
        BY <1>1, <1>6, <3>1, <3>3
      <3> QED
        BY <3>3, <3>4 DEF UserFrom
    <2>2. ASSUME NEW j \in 1 .. Len(log), UserFrom(log, j)
          PROVE  UserFrom(p, j)
      <3>1. PICK u \in j .. Len(log) : log[u].kind = "UserMessage"
        BY <2>2 DEF UserFrom
      <3>2. u \in j .. Len(p) /\ u \in 1 .. Len(log)
        BY <1>1, <1>6, <3>1
      <3> QED
        BY <1>6, <3>1, <3>2 DEF UserFrom
    <2>3. Len(log) + 1 \notin 1 .. Len(log) /\ Len(log) + 1 \in 1 .. Len(log) + 1
      BY <1>1
    <2>4. \A j \in 1 .. Len(log) : j \in 1 .. Len(log) + 1
      BY <1>1
    <2> QED
      BY <2>1, <2>2, <2>3, <2>4
  <1>9. \A k \in 1 .. Len(calls') : k + 1 \in 1 .. Len(calls) /\ calls'[k] = calls[k + 1]
    BY <1>1, <1>2, <1>5
  <1>10. FilesInv'
    <2>1. ASSUME checkpoints # <<>>
          PROVE  Aligned(p, writes, Base(checkpoints))
      <3>1. write \in writes => write \notin Base(checkpoints)
        BY <1>1, <1>2, <1>3, <2>1 DEF UndoInv, FilesInv
      <3> QED
        BY <1>4, <1>6, <1>7, <1>8, <2>1, <3>1 DEF UndoInv, FilesInv, Aligned
    <2>2. checkpoints # <<>> => \A k \in 1 .. Len(calls') : calls'[k].write \notin Base(checkpoints)
      BY <1>9 DEF UndoInv, FilesInv
    <2> QED
      BY <1>5, <2>1, <2>2 DEF UndoInv, FilesInv
  <1>11. QueueSeen'
    BY <1>5 DEF UndoInv, QueueSeen, Early, Answering
  <1>12. ToCome(log', calls', issued')
    <2>1. \A k \in 1 .. Len(calls') : calls'[k].write \in 1 .. issued
      BY <1>9 DEF UndoInv, ToCome
    <2>2. \A k, m \in 1 .. Len(calls') : calls'[k].write = calls'[m].write => k = m
      <3>1. ASSUME NEW k \in 1 .. Len(calls'), NEW m \in 1 .. Len(calls'),
                   calls'[k].write = calls'[m].write
            PROVE  k = m
        <4>1. k + 1 \in 1 .. Len(calls) /\ m + 1 \in 1 .. Len(calls)
          BY <1>9
        <4>2. calls[k + 1].write = calls[m + 1].write
          BY <1>9, <3>1
        <4>3. k + 1 = m + 1
          BY <4>1, <4>2 DEF UndoInv, ToCome
        <4> QED
          BY <4>3
      <3> QED
        BY <3>1
    <2>3. \A k \in 1 .. Len(calls') : calls'[k].write # write
      <3>1. ASSUME NEW k \in 1 .. Len(calls')
            PROVE  calls'[k].write # calls[1].write
        <4>1. k + 1 # 1
          OBVIOUS
        <4> QED
          BY <1>2, <1>9, <4>1 DEF UndoInv, ToCome
      <3> QED
        BY <1>1, <1>3, <2>1, <3>1
    <2>4. write <= issued
      <3>1. calls[1].write \in 1 .. issued
        BY <1>2 DEF UndoInv, ToCome
      <3> QED
        BY <1>1, <1>3, <3>1
    <2>5. ASSUME NEW j \in 1 .. Len(p), IsResult(p[j])
          PROVE  p[j].n <= issued /\ \A k \in 1 .. Len(calls') : p[j].n # calls'[k].write
      <3>1. CASE j \in 1 .. Len(log)
        <4>1. p[j] = log[j]
          BY <1>6, <3>1
        <4>2. log[j].n <= issued /\ \A k \in 1 .. Len(calls) : log[j].n # calls[k].write
          BY <2>5, <3>1, <4>1 DEF UndoInv, ToCome
        <4> QED
          BY <1>9, <4>1, <4>2
      <3>2. CASE j = Len(log) + 1
        BY <1>4, <1>6, <2>3, <2>4, <3>2
      <3> QED
        BY <1>7, <3>1, <3>2
    <2> QED
      BY <1>5, <2>1, <2>2, <2>5 DEF ToCome
  <1> QED
    BY <1>5, <1>10, <1>11, <1>12 DEF UndoInv

\* The writes of new calls are numbered on from those issued before.
LEMMA UndoReplied ==
    ASSUME WholeInv, UndoInv, NEW n \in Nat, Reply(n, TRUE)
    PROVE  UndoInv'
  <1>1. /\ log \in Seq(LogEvents) /\ issued \in Nat /\ Typed /\ calls = <<>> /\ pc = "llm"
        /\ UNCHANGED <<queue, checkpoints, writes>>
    BY DEF WholeInv, Typed, Reply, Answering, fileVars
  <1>2. CASE Leave /\ UNCHANGED log
    BY <1>1, <1>2, UndoStays DEF Leave, Early, fileVars
  <1>3. CASE ReplyMade(n)
    <2>1. PICK m, said, ce \in Seq(LogEvents) :
            /\ log' = ((log \o m) \o said) \o ce
            /\ \A k \in 1 .. Len(m) : m[k].kind \in Talk
            /\ \A k \in 1 .. Len(said) : said[k].kind \in Talk
            /\ CallsFrom(ce, n)
      BY <1>3 DEF ReplyMade
    <2>2. /\ Len(calls') = n /\ \A k \in 1 .. n : calls'[k].write = issued + k
          /\ issued' = issued + n /\ acted' = acted
      BY <1>3 DEF ReplyMade
    <2>3. acted = 0
      BY <1>1 DEF UndoInv
    <2> DEFINE l1 == log \o m
               l2 == l1 \o said
    <2>4. /\ \A j \in 1 .. Len(l1) : IsResult(l1[j]) =>
               j \in 1 .. Len(log) /\ IsResult(log[j]) /\ l1[j] = log[j]
          /\ \A j \in 1 .. Len(log) : UserFrom(l1, j) <=> UserFrom(log, j)
      <3>1. \A k \in 1 .. Len(m) : ~IsResult(m[k]) /\ m[k].kind # "UserMessage"
        BY <2>1 DEF IsResult, Talk
      <3> QED
        BY <1>1, <2>1, <3>1, GrownLog
    <2>5. l1 \in Seq(LogEvents) /\ \A j \in 1 .. Len(log) : j \in 1 .. Len(l1)
      BY <1>1, <2>1
    <2> HIDE DEF l1
    <2>6. /\ \A j \in 1 .. Len(l2) : IsResult(l2[j]) =>
               j \in 1 .. Len(l1) /\ IsResult(l1[j]) /\ l2[j] = l1[j]
          /\ \A j \in 1 .. Len(l1) : UserFrom(l2, j) <=> UserFrom(l1, j)
      <3>1. \A k \in 1 .. Len(said) : ~IsResult(said[k]) /\ said[k].kind # "UserMessage"
        BY <2>1 DEF IsResult, Talk
      <3> QED
        BY <2>1, <2>5, <3>1, GrownLog
    <2>7. l2 \in Seq(LogEvents) /\ \A j \in 1 .. Len(l1) : j \in 1 .. Len(l2)
      BY <2>1, <2>5
    <2> HIDE DEF l2
    <2>8. log' = l2 \o ce
      BY <2>1 DEF l1, l2
    <2>9. /\ \A j \in 1 .. Len(log') : IsResult(log'[j]) =>
               j \in 1 .. Len(l2) /\ IsResult(l2[j]) /\ log'[j] = l2[j]
          /\ \A j \in 1 .. Len(l2) : UserFrom(log', j) <=> UserFrom(l2, j)
      <3>1. ce \in Seq(LogEvents) /\ \A k \in 1 .. Len(ce) : ~IsResult(ce[k]) /\ ce[k].kind # "UserMessage"
        BY <2>1 DEF IsResult, CallsFrom
      <3> QED
        BY <2>7, <2>8, <3>1, GrownLog
    <2>10. ASSUME NEW j \in 1 .. Len(log'), IsResult(log'[j])
           PROVE  /\ j \in 1 .. Len(log) /\ IsResult(log[j]) /\ log'[j] = log[j]
                  /\ UserFrom(log', j) <=> UserFrom(log, j)
      <3>1. j \in 1 .. Len(l2) /\ IsResult(l2[j]) /\ log'[j] = l2[j]
        BY <2>9, <2>10
      <3>2. j \in 1 .. Len(l1) /\ IsResult(l1[j]) /\ l2[j] = l1[j]
        BY <2>6, <3>1
      <3>3. j \in 1 .. Len(log) /\ IsResult(log[j]) /\ l1[j] = log[j]
        BY <2>4, <3>2
      <3> QED
        BY <2>4, <2>6, <2>9, <3>1, <3>2, <3>3
    <2>11. \A k \in 1 .. n : issued + k \in 1 .. issued + n /\ issued + k > issued
      BY <1>1
    <2>12. \A x \in 1 .. issued : x \in 1 .. issued + n
      BY <1>1
    <2>13. FilesInv'
      <3>1. writes' \subseteq 1 .. issued' /\ checkpoints' \in Seq(CheckpointSet)
        BY <1>1, <2>2, <2>12 DEF UndoInv, FilesInv
      <3>2. ASSUME checkpoints # <<>>
            PROVE  /\ Base(checkpoints) \subseteq 1 .. issued'
                   /\ \A k \in 1 .. Len(calls') : calls'[k].write \notin Base(checkpoints)
                   /\ Aligned(log', writes, Base(checkpoints))
        <4>1. Base(checkpoints) \subseteq 1 .. issued /\ Aligned(log, writes, Base(checkpoints))
          BY <3>2 DEF UndoInv, FilesInv
        <4>2. Base(checkpoints) \subseteq 1 .. issued'
          BY <2>2, <2>12, <4>1
        <4>3. \A k \in 1 .. Len(calls') : calls'[k].write \notin Base(checkpoints)
          <5>1. ASSUME NEW k \in 1 .. n
                PROVE  calls'[k].write \notin 1 .. issued
            BY <1>1, <2>2, <2>11
          <5> QED
            BY <2>2, <4>1, <5>1
        <4>4. Aligned(log', writes, Base(checkpoints))
          BY <2>10, <4>1 DEF Aligned
        <4> QED
          BY <4>2, <4>3, <4>4
      <3> QED
        BY <1>1, <3>1, <3>2 DEF FilesInv
    <2>14. QueueSeen'
      BY <1>1 DEF UndoInv, QueueSeen, Early
    <2>15. ToCome(log', calls', issued')
      <3>1. \A k \in 1 .. Len(calls') : calls'[k].write \in 1 .. issued'
        BY <2>2, <2>11
      <3>2. \A k, i \in 1 .. Len(calls') : calls'[k].write = calls'[i].write => k = i
        BY <1>1, <2>2
      <3>3. ASSUME NEW j \in 1 .. Len(log'), IsResult(log'[j])
            PROVE  log'[j].n <= issued' /\ \A k \in 1 .. Len(calls') : log'[j].n # calls'[k].write
        <4>1. j \in 1 .. Len(log) /\ log'[j] = log[j] /\ log[j].n <= issued
          BY <2>10, <3>3 DEF UndoInv, ToCome
        <4>2. log[j].n \in Nat
          <5>1. log[j] \in LogEvents
            BY <1>1, <4>1
          <5> QED
            BY <5>1 DEF LogEvents
        <4>3. log[j].n <= issued'
          BY <1>1, <2>2, <4>1, <4>2
        <4>4. \A k \in 1 .. n : log[j].n # issued + k
          BY <1>1, <2>11, <4>1, <4>2
        <4> QED
          BY <2>2, <4>1, <4>3, <4>4
      <3> QED
        BY <3>1, <3>2, <3>3 DEF ToCome
    <2> QED
      BY <2>2, <2>3, <2>13, <2>14, <2>15 DEF UndoInv
  <1> QED
    BY <1>1, <1>2, <1>3, ReplyForm

\* A tool writes: no result tells of it yet.
LEMMA UndoWrites ==
    ASSUME WholeInv, UndoInv, ToolWrites
    PROVE  UndoInv'
  <1>1. /\ calls \in Seq(CallsSet) /\ calls # <<>> /\ Len(calls) \in Nat /\ issued \in Nat
    BY DEF WholeInv, Typed, ToolWrites, Answering
  <1>2. Head(calls) = calls[1] /\ 1 \in 1 .. Len(calls)
    BY <1>1
  <1>3. /\ writes' = writes \cup {calls[1].write} /\ acted' = calls[1].write
        /\ UNCHANGED <<log, queue, pc, calls, issued, checkpoints>>
    BY <1>2 DEF ToolWrites
  <1>4. FilesInv'
    <2>1. calls[1].write \in 1 .. issued
      BY <1>2 DEF UndoInv, ToCome
    <2>2. \A j \in 1 .. Len(log) : IsResult(log[j]) => log[j].n # calls[1].write
      BY <1>2 DEF UndoInv, ToCome
    <2> QED
      BY <1>3, <2>1, <2>2 DEF UndoInv, FilesInv, Aligned
  <1>5. QueueSeen' /\ ToCome(log', calls', issued')
    BY <1>3 DEF UndoInv, QueueSeen, ToCome
  <1> QED
    BY <1>1, <1>2, <1>3, <1>4, <1>5 DEF UndoInv

\* A part of the log is left and no checkpoint: nothing is claimed of its results.
LEMMA UndoForgets ==
    ASSUME WholeInv, UndoInv, NEW k \in 0 .. Len(log), log' = SubSeq(log, 1, k),
           checkpoints' = <<>>, writes' \subseteq 1 .. issued, calls' = <<>>, acted' = 0,
           pc' = "idle", UNCHANGED issued
    PROVE  UndoInv'
  <1>1. log \in Seq(LogEvents) /\ Len(log) \in Nat
    BY DEF WholeInv, Typed
  <1>2. Len(log') = k /\ \A i \in 1 .. k : i \in 1 .. Len(log) /\ log'[i] = log[i]
    BY <1>1
  <1>3. FilesInv'
    BY DEF FilesInv
  <1>4. QueueSeen'
    BY DEF QueueSeen, Early
  <1>5. ToCome(log', calls', issued')
    BY <1>2 DEF UndoInv, ToCome
  <1> QED
    BY <1>3, <1>4, <1>5 DEF UndoInv

LEMMA UndoClosed ==
    ASSUME WholeInv, UndoInv, pc # "idle", NEW why \in {"completed", "aborted", "error"}, End(why),
           UNCHANGED <<queue, fileVars>>
    PROVE  UndoInv'
  <1> DEFINE ev == TurnEnd(turn, why)
             m == <<ev>>
  <1>1. ev \in LogEvents /\ ev.kind = "TurnEnd" /\ log \in Seq(LogEvents)
    BY MarkerEvents DEF WholeInv, Typed
  <1>2. /\ log' = Append(log, ev) /\ calls' = <<>> /\ issued' = issued /\ acted' = 0
        /\ pc' = "idle"
    BY DEF End, Leave
  <1> HIDE DEF ev
  <1>3. m \in Seq(LogEvents) /\ Len(m) = 1 /\ m[1] = ev /\ log' = log \o m
    BY <1>1, <1>2
  <1> HIDE DEF m
  <1>4. \A k \in 1 .. Len(m) : ~IsResult(m[k]) /\ m[k].kind # "UserMessage"
    BY <1>1, <1>3 DEF IsResult
  <1> QED
    BY <1>2, <1>3, <1>4, UndoWaits DEF Early

LEMMA UndoCompacted ==
    ASSUME WholeInv, UndoInv, NEW c \in CompactionOutcomes(log), log' = c.log,
           UNCHANGED <<calls, acted, issued, queue, fileVars>>,
           pc \in Early => pc' \in Early, pc = "idle" => pc' = "idle"
    PROVE  UndoInv'
  <1>1. PICK m \in Seq(LogEvents) :
          c.log = log \o m /\ \A k \in 1 .. Len(m) : m[k].kind = "Compaction"
    BY CompactionAppends DEF WholeInv, Typed
  <1>2. \A k \in 1 .. Len(m) : ~IsResult(m[k]) /\ m[k].kind # "UserMessage"
    BY <1>1 DEF IsResult
  <1> QED
    BY <1>1, <1>2, UndoWaits

LEMMA TurnKeepsUndo ==
    ASSUME WholeInv, UndoInv, ~MissingIds, queue \in Seq({"user", "system"}), Turn
    PROVE  UndoInv'
  <1>0. log \in Seq(LogEvents) /\ turn \in Nat
    BY DEF WholeInv, Typed
  <1>1. CASE BeginTurn
    BY <1>1, UndoBegun
  <1>2. CASE Refuse
    BY <1>2, UndoStays DEF Refuse, Leave, Early
  <1>3. CASE Proceed
    BY <1>3, UndoStays DEF Proceed, Early
  <1>4. CASE CompactFirst
    <2>1. pc = "before" /\ UNCHANGED <<queue, fileVars>>
      BY <1>4 DEF CompactFirst
    <2>2. PICK c \in CompactionOutcomes(log) :
           \/ log' = c.log /\ pc' = "head" /\ UNCHANGED <<calls, acted, issued>>
           \/ End("error")
           \/ Leave /\ UNCHANGED log
      BY <1>4 DEF CompactFirst, Compactions
    <2>3. CASE log' = c.log /\ pc' = "head" /\ UNCHANGED <<calls, acted, issued>>
      BY <2>1, <2>3, UndoCompacted DEF Early
    <2>4. CASE End("error")
      BY <2>1, <2>4, UndoClosed
    <2>5. CASE Leave /\ UNCHANGED log
      BY <2>1, <2>5, UndoStays DEF Leave, Early
    <2> QED
      BY <2>2, <2>3, <2>4, <2>5
  <1>5. CASE HeadStop
    BY <1>5, UndoClosed DEF HeadStop
  <1>6. CASE SendRequest
    BY <1>6, UndoSent
  <1>7. CASE FailRequest
    BY <1>7, UndoClosed DEF FailRequest
  <1>8. CASE \E n \in 0 .. MaxParallel, sent \in {TRUE, ~MissingIds} : Reply(n, sent)
    <2>1. PICK n \in 0 .. MaxParallel, sent \in {TRUE, ~MissingIds} : Reply(n, sent)
      BY <1>8
    <2>2. n \in Nat
      BY <2>1, BoundsAssumption
    <2>3. Reply(n, TRUE)
      <3>1. (~MissingIds) = TRUE
        OBVIOUS
      <3>2. sent = TRUE
        BY <2>1, <3>1
      <3> QED
        BY <2>1, <3>2
    <2> QED
      BY <2>2, <2>3, UndoReplied
  <1>9. CASE AnswerWithout
    BY <1>9, UndoAnswered DEF AnswerWithout, Answering
  <1>10. CASE AskPermission \/ Invoke \/ Approve
    BY <1>10, UndoStays DEF AskPermission, Invoke, Approve, Advance, Early
  <1>11. CASE Disapprove
    BY <1>11, UndoAnswered DEF Disapprove, Answering
  <1>12. CASE ToolWrites
    BY <1>12, UndoWrites
  <1>13. CASE ToolReturns
    BY <1>13, UndoAnswered DEF ToolReturns, Answering
  <1>14. CASE Finish
    <2> DEFINE m == <<TurnStats, TurnEnd(turn, "completed")>>
    <2>1. /\ m \in Seq(LogEvents) /\ Len(m) = 2 /\ m[1].kind = "TurnStats"
          /\ m[2].kind = "TurnEnd"
      BY <1>0, MarkerEvents, PlainEvents
    <2>2. /\ log' = log \o m /\ calls' = <<>> /\ acted' = 0 /\ issued' = issued
          /\ pc' = "idle" /\ UNCHANGED <<queue, fileVars>>
      BY <1>14 DEF Finish, Leave
    <2> HIDE DEF m
    <2>3. \A k \in 1 .. Len(m) : ~IsResult(m[k]) /\ m[k].kind # "UserMessage"
      BY <2>1 DEF IsResult
    <2> QED
      BY <2>1, <2>2, <2>3, UndoWaits DEF Early
  <1> QED
    BY <1>1, <1>2, <1>3, <1>4, <1>5, <1>6, <1>7, <1>8, <1>9, <1>10, <1>11, <1>12, <1>13,
       <1>14 DEF Turn

\* Undo leaves no checkpoint: the indices of all of them are the same.
LEMMA UndoTakesAll ==
    ASSUME UndoInv, Undo
    PROVE  checkpoints' = <<>> /\ writes' = Base(checkpoints)
  <1>1. checkpoints # <<>> /\ checkpoints \in Seq(CheckpointSet) /\ Len(checkpoints) \in Nat
    BY DEF UndoInv, FilesInv, Undo
  <1>2. \A k \in 1 .. Len(checkpoints) : checkpoints[k].index = 0
    <2>1. \A k \in 1 .. Len(checkpoints) : checkpoints[k] \in CheckpointSet
      BY <1>1
    <2> QED
      BY <2>1 DEF CheckpointSet
  <1>3. Last(checkpoints) = checkpoints[Len(checkpoints)] /\ Len(checkpoints) \in 1 .. Len(checkpoints)
    BY <1>1 DEF Last
  <1> DEFINE below == {i \in 1 .. Len(checkpoints) - 1 : checkpoints[i].index < 0}
  <1>4. below = {}
    BY <1>1, <1>2
  <1>5. checkpoints' = SubSeq(checkpoints, 1, Cardinality(below))
    BY <1>2, <1>3 DEF Undo, Retained
  <1> HIDE DEF below
  <1>6. checkpoints' = <<>>
    BY <1>1, <1>4, <1>5, FS_EmptySet
  <1> QED
    BY <1>3, <1>6 DEF Undo, Base

LEMMA DriverKeepsUndo ==
    ASSUME WholeInv, UndoInv, Driver
    PROVE  UndoInv'
  <1>0. log \in Seq(LogEvents) /\ Len(log) \in Nat
    BY DEF WholeInv, Typed
  <1>1. CASE RequestStop
    BY <1>1, UndoStays DEF RequestStop
  <1>2. CASE Cancel
    BY <1>2, UndoStays DEF Cancel, Leave, Early
  <1>3. CASE Restart
    <2>1. /\ calls' = <<>> /\ issued' = issued /\ checkpoints' = <<>> /\ acted' = 0 /\ pc' = "idle"
          /\ writes' \subseteq 1 .. issued
      BY <1>3 DEF Restart, UndoInv, FilesInv
    <2>2. PICK n \in 0 .. Len(log) : log' = SubSeq(log, 1, n)
      <3>1. CASE UNCHANGED log
        <4>1. log' = SubSeq(log, 1, Len(log)) /\ Len(log) \in 0 .. Len(log)
          BY <1>0, <3>1
        <4> QED
          BY <4>1
      <3>2. CASE log' \in Surviving
        BY <3>2 DEF Surviving
      <3> QED
        BY <1>3, <3>1, <3>2 DEF Restart
    <2> QED
      BY <2>1, <2>2, UndoForgets
  <1>4. CASE Undo
    <2>1. PICK k \in 0 .. Len(log) : log' = SubSeq(log, 1, k)
      BY <1>0, <1>4, UndoCuts DEF Undo
    <2>2. checkpoints' = <<>> /\ writes' = Base(checkpoints) /\ checkpoints # <<>>
      BY <1>4, UndoTakesAll DEF Undo
    <2>3. /\ calls' = <<>> /\ calls = <<>> /\ issued' = issued /\ acted' = acted /\ pc' = "idle"
      BY <1>4 DEF Undo, turnVars, WholeInv, Answering
    <2>4. acted' = 0 /\ writes' \subseteq 1 .. issued
      BY <2>2, <2>3 DEF UndoInv, FilesInv
    <2> QED
      BY <2>1, <2>2, <2>3, <2>4, UndoForgets
  <1>5. CASE Clear
    <2>1. log' = SubSeq(log, 1, 0) /\ 0 \in 0 .. Len(log)
      BY <1>0, <1>5 DEF Clear
    <2>2. /\ calls' = <<>> /\ calls = <<>> /\ issued' = issued /\ acted' = acted /\ pc' = "idle"
          /\ checkpoints' = <<>> /\ writes' = writes
      BY <1>5 DEF Clear, turnVars, WholeInv, Answering
    <2>3. acted' = 0 /\ writes' \subseteq 1 .. issued
      BY <2>2 DEF UndoInv, FilesInv
    <2> QED
      BY <2>1, <2>2, <2>3, UndoForgets
  <1>6. CASE Compact
    <2>1. PICK c \in CompactionOutcomes(log) : log' = c.log
      BY <1>6 DEF Compact, Compactions
    <2>2. UNCHANGED <<calls, acted, issued, pc, queue, fileVars>>
      BY <1>6 DEF Compact, turnVars
    <2> QED
      BY <2>1, <2>2, UndoCompacted
  <1>7. CASE \E w \in writes : RestoreFile(w)
    <2>1. /\ writes' \subseteq writes
          /\ UNCHANGED <<log, queue, pc, calls, acted, issued, checkpoints>>
      BY <1>7 DEF RestoreFile, turnVars
    <2> QED
      BY <2>1 DEF UndoInv, FilesInv, QueueSeen, ToCome, Aligned
  <1>8. CASE \E role \in driver.injects : Inject(role)
    <2>1. /\ pc' = "idle" /\ UNCHANGED <<log, calls, acted, issued, checkpoints, writes>>
      BY <1>8 DEF Inject, turnVars, fileVars
    <2>2. QueueSeen'
      BY <2>1 DEF QueueSeen, Early
    <2> QED
      BY <2>1, <2>2 DEF UndoInv, FilesInv, ToCome, Aligned
  <1> QED
    BY <1>1, <1>2, <1>3, <1>4, <1>5, <1>6, <1>7, <1>8 DEF Driver

LEMMA UndoStart == Init => UndoInv
  <1> SUFFICES ASSUME Init PROVE UndoInv
    OBVIOUS
  <1>1. /\ log \in Seq(LogEvents) /\ calls = <<>> /\ issued = 0 /\ acted = 0 /\ queue = <<>>
        /\ writes = {} /\ checkpoints = <<>>
        /\ \A i \in 1 .. Len(log) : log[i].n = 0
    BY LogsAssumption DEF Init
  <1> QED
    BY <1>1 DEF UndoInv, FilesInv, QueueSeen, ToCome

\* What undo takes back of the files is what it cuts off the log.
LEMMA UndoCutsWhatItRestores ==
    ASSUME WholeInv, UndoInv, Undo, NEW j \in Positions(log, {"ToolResult"}), log[j].n \in writes
    PROVE  log[j].n \in writes' <=> j <= Len(log')
  <1>1. log \in Seq(LogEvents) /\ Len(log) \in Nat /\ j \in 1 .. Len(log) /\ IsResult(log[j])
    BY DEF WholeInv, Typed, Positions, IsResult
  <1>2. PICK k \in 0 .. Len(log) :
          /\ log' = SubSeq(log, 1, k)
          /\ k # 0 => log[k].kind = "UserMessage"
          /\ \A i \in 1 .. Len(log) : log[i].kind = "UserMessage" => i <= k
    BY <1>1, UndoCuts DEF Undo
  <1>3. Len(log') = k
    BY <1>1, <1>2
  <1>4. writes' = Base(checkpoints) /\ checkpoints # <<>>
    BY UndoTakesAll DEF Undo
  <1>5. log[j].n \in Base(checkpoints) <=> UserFrom(log, j)
    BY <1>1, <1>4 DEF UndoInv, FilesInv, Aligned
  <1>6. UserFrom(log, j) => j <= k
    <2>1. ASSUME NEW u \in j .. Len(log), log[u].kind = "UserMessage" PROVE j <= k
      <3>1. u \in 1 .. Len(log)
        BY <1>1, <2>1
      <3>2. u <= k
        BY <1>2, <2>1, <3>1
      <3> QED
        BY <1>1, <3>2
    <2> QED
      BY <2>1 DEF UserFrom
  <1>7. j <= k => UserFrom(log, j)
    <2>1. ASSUME j <= k PROVE k \in j .. Len(log) /\ log[k].kind = "UserMessage"
      BY <1>1, <1>2, <2>1
    <2> QED
      BY <2>1 DEF UserFrom
  <1> QED
    BY <1>3, <1>4, <1>5, <1>6, <1>7

\* Undoing a turn takes back exactly the writes whose results it cuts off the log,
\* whatever was injected, restored by hand, cancelled, compacted or cut short
\* before, if the backend sends the ids of its calls.
THEOREM UndoTakesBackWhatItForgets ==
    ASSUME ~MissingIds
    PROVE  Spec => UndoAligned
  <1> DEFINE Inv == WholeInv /\ Queued /\ UndoInv
             Matches == \A j \in Positions(log, {"ToolResult"}) :
                          log[j].n \in writes => (log[j].n \in writes' <=> j <= Len(log'))
  <1>1. Init => Inv
    BY Start, QueueTyped, UndoStart
  <1>2. Inv /\ [Next]_vars => Inv'
    <2> SUFFICES ASSUME WholeInv, Queued, UndoInv, [Next]_vars
                 PROVE  WholeInv' /\ Queued' /\ UndoInv'
      OBVIOUS
    <2>1. WholeInv' /\ Queued'
      BY StepKeepsWhole, QueueStaysTyped
    <2>2. queue \in Seq({"user", "system"})
      BY DEF Queued
    <2>3. CASE Turn
      BY <2>1, <2>2, <2>3, TurnKeepsUndo
    <2>4. CASE Driver
      BY <2>1, <2>4, DriverKeepsUndo
    <2>5. CASE UNCHANGED vars
      BY <2>1, <2>5, UndoStays DEF vars, turnVars
    <2> QED
      BY <2>1, <2>3, <2>4, <2>5 DEF Next
  <1>3. Inv => [Undo => Matches]_vars
    BY UndoCutsWhatItRestores
  <1> HIDE DEF Inv
  <1> QED
    BY <1>1, <1>2, <1>3, PTL DEF Spec, UndoAligned

-----------------------------------------------------------------------------
(* Requests.                                                               *)
(*                                                                         *)
(* A request is the log with the suppressed and the log-only events left   *)
(* out, neighbouring fragments put together, tool messages without their   *)
(* call and system messages left out.  Each of these passes only looks     *)
(* back, so that what it makes of a longer log begins with what it made of *)
(* the shorter one, where that ended with a message that nothing is put    *)
(* together with.                                                          *)

Messages == [role : {"user", "assistant", "tool", "system"}, calls : Seq(IdKinds \X Nat), id : IdKinds \X Nat]

LEMMA FilteredTyped ==
    ASSUME NEW S, NEW u \in Seq(S), NEW kept
    PROVE  [i \in 1 .. Len(u) |-> IF i \in kept THEN <<u[i]>> ELSE <<>>] \in [1 .. Len(u) -> Seq(S)]
  <1>1. ASSUME NEW i \in 1 .. Len(u) PROVE (IF i \in kept THEN <<u[i]>> ELSE <<>>) \in Seq(S)
    OBVIOUS
  <1> QED
    BY <1>1

\* What is kept of a longer sequence begins with what was kept of the shorter one, ...
LEMMA FilteredLonger ==
    ASSUME NEW S, NEW u \in Seq(S), NEW c \in Seq(S), NEW kept, NEW of,
           \A i \in 1 .. Len(u) : i \in kept <=> i \in of
    PROVE  Continues(S, Filtered(u, kept), Filtered(u \o c, of))
  <1> DEFINE n == Len(u)
             v == u \o c
             s == [i \in 1 .. n |-> IF i \in kept THEN <<u[i]>> ELSE <<>>]
             t == [i \in 1 .. Len(v) |-> IF i \in of THEN <<v[i]>> ELSE <<>>]
  <1>1. v \in Seq(S) /\ n \in Nat /\ Len(v) \in Nat /\ n <= Len(v) /\ \A i \in 1 .. n : v[i] = u[i]
    OBVIOUS
  <1>2. Filtered(u, kept) = FlattenSeq(s) /\ Filtered(v, of) = FlattenSeq(t)
    BY DEF Filtered
  <1>3. s \in [1 .. n -> Seq(S)]
    BY FilteredTyped
  <1>4. t \in [1 .. Len(v) -> Seq(S)]
    <2> HIDE DEF v
    <2> QED
      BY <1>1, FilteredTyped
  <1>5. Agree(s, t, n)
    <2> HIDE DEF v
    <2> QED
      BY <1>1 DEF Agree
  <1> HIDE DEF s, t, v, n
  <1>6. Extended(S, n, Len(v), s, t)
    BY <1>1, <1>3, <1>4, <1>5 DEF Extended
  <1>7. Continues(S, FlattenSeq(s), FlattenSeq(t))
    BY <1>6, FlattenedLonger
  <1> QED
    BY <1>2, <1>7 DEF v

\* ... and ends with what was added, if all of it is kept.
LEMMA FilteredMore ==
    ASSUME NEW S, NEW u \in Seq(S), NEW c \in Seq(S), NEW kept, NEW of,
           \A i \in 1 .. Len(u) : i \in kept <=> i \in of,
           \A k \in 1 .. Len(c) : Len(u) + k \in of
    PROVE  Filtered(u \o c, of) = Filtered(u, kept) \o c
  <1> DEFINE n == Len(u)
             p == Len(u \o c)
             v == u \o c
             s == [i \in 1 .. n |-> IF i \in kept THEN <<u[i]>> ELSE <<>>]
             t == [i \in 1 .. p |-> IF i \in of THEN <<v[i]>> ELSE <<>>]
  <1>1. /\ v \in Seq(S) /\ n \in Nat /\ p \in Nat /\ p = n + Len(c) /\ p = Len(v)
        /\ \A i \in 1 .. n : v[i] = u[i]
        /\ \A k \in 1 .. Len(c) : v[n + k] = c[k]
    OBVIOUS
  <1>2. Filtered(u, kept) = FlattenSeq(s) /\ Filtered(v, of) = FlattenSeq(t)
    BY DEF Filtered
  <1>3. s \in [1 .. n -> Seq(S)]
    BY FilteredTyped
  <1>4. t \in [1 .. p -> Seq(S)]
    <2> HIDE DEF v, p
    <2> QED
      BY <1>1, FilteredTyped
  <1>5. Agree(s, t, n)
    <2> HIDE DEF v, p
    <2> QED
      BY <1>1 DEF Agree
  <1>6. OneByOne(t, n, c)
    <2>1. \A k \in 1 .. Len(c) : n + k \in 1 .. p /\ n + k \in of
      BY <1>1
    <2> HIDE DEF v, n, p
    <2> QED
      BY <1>1, <2>1 DEF OneByOne
  <1> HIDE DEF s, t, v, n, p
  <1>7. ExtendedBy(S, n, p, s, t, c)
    BY <1>1, <1>3, <1>4, <1>5, <1>6 DEF ExtendedBy, Extended
  <1>8. FlattenSeq(t) = FlattenSeq(s) \o c
    BY <1>7, FlattenedMore
  <1> QED
    BY <1>2, <1>8 DEF v

LEMMA MessageTyped ==
    ASSUME NEW ev \in LogEvents, ev.kind \in Surfaced
    PROVE  /\ Message(ev) \in Messages
           /\ ev.kind \in {"UserMessage", "ToolResult"} => Message(ev).role # "assistant"
  <1>1. Role(ev.kind) \in {"user", "assistant", "tool", "system"}
    BY DEF Role, Surfaced
  <1>2. ev.id \in IdKinds \X Nat /\ NoId \in IdKinds \X Nat
    BY IdsTyped DEF LogEvents
  <1>3. (IF ev.kind = "ToolCall" THEN <<ev.id>> ELSE <<>>) \in Seq(IdKinds \X Nat)
    BY <1>2
  <1>4. ev.kind \in {"UserMessage", "ToolResult"} => Role(ev.kind) # "assistant"
    BY DEF Role
  <1> QED
    BY <1>1, <1>2, <1>3, <1>4 DEF Message, Messages

-----------------------------------------------------------------------------
\* The first pass.
Shown(l) ==
    [i \in 1 .. Len(l) |->
        IF i \notin Suppressed(l) /\ l[i].kind \in Surfaced THEN <<Message(l[i])>> ELSE <<>>]

LEMMA ItemsShown ==
    ASSUME NEW l \in Seq(LogEvents)
    PROVE  Items(l) = FlattenSeq(Shown(l)) /\ Shown(l) \in [1 .. Len(l) -> Seq(Messages)]
  <1>1. ASSUME NEW i \in 1 .. Len(l), l[i].kind \in Surfaced PROVE <<Message(l[i])>> \in Seq(Messages)
    <2>1. Message(l[i]) \in Messages
      BY <1>1, MessageTyped
    <2> QED
      BY <2>1
  <1>2. <<>> \in Seq(Messages)
    OBVIOUS
  <1>3. \A i \in 1 .. Len(l) :
          (IF i \notin Suppressed(l) /\ l[i].kind \in Surfaced THEN <<Message(l[i])>> ELSE <<>>) \in Seq(Messages)
    BY <1>1, <1>2
  <1> QED
    BY <1>3 DEF Items, Shown

\* A log with more events, none of them of a compaction that reaches back further.
LEMMA ItemsLonger ==
    ASSUME NEW p \in Seq(LogEvents), NEW l \in Seq(LogEvents), Len(p) <= Len(l),
           \A k \in 1 .. Len(p) : p[k] = l[k] /\ (k \in Suppressed(p) <=> k \in Suppressed(l))
    PROVE  Continues(Messages, Items(p), Items(l))
  <1> DEFINE n == Len(p)
             m == Len(l)
             s == Shown(p)
             t == Shown(l)
  <1>1. n \in Nat /\ m \in Nat /\ n <= m
    OBVIOUS
  <1>2. s \in [1 .. n -> Seq(Messages)] /\ Items(p) = FlattenSeq(s)
    BY ItemsShown
  <1>3. t \in [1 .. m -> Seq(Messages)] /\ Items(l) = FlattenSeq(t)
    BY ItemsShown
  <1>4. Agree(s, t, n)
    BY <1>1 DEF Agree, Shown
  <1> HIDE DEF s, t, n, m
  <1>5. Extended(Messages, n, m, s, t)
    BY <1>1, <1>2, <1>3, <1>4 DEF Extended
  <1>6. Continues(Messages, FlattenSeq(s), FlattenSeq(t))
    BY <1>5, FlattenedLonger
  <1> QED
    BY <1>2, <1>3, <1>6

\* Messages that are added to the log, and not suppressed.
LEMMA ItemsMore ==
    ASSUME NEW p \in Seq(LogEvents), NEW m \in Seq(LogEvents),
           \A k \in 1 .. Len(p) : k \in Suppressed(p) <=> k \in Suppressed(p \o m),
           \A k \in 1 .. Len(m) : m[k].kind \in Surfaced /\ Len(p) + k \notin Suppressed(p \o m)
    PROVE  LET added == [k \in 1 .. Len(m) |-> Message(m[k])]
           IN  Items(p \o m) = Items(p) \o added
  <1> DEFINE n == Len(p)
             l == p \o m
             q == Len(l)
             s == Shown(p)
             t == Shown(l)
             added == [k \in 1 .. Len(m) |-> Message(m[k])]
  <1>1. /\ n \in Nat /\ q \in Nat /\ q = n + Len(m) /\ l \in Seq(LogEvents)
        /\ \A k \in 1 .. n : l[k] = p[k]
        /\ \A k \in 1 .. Len(m) : l[n + k] = m[k] /\ n + k \in 1 .. q
    OBVIOUS
  <1>2. added \in Seq(Messages) /\ Len(added) = Len(m)
    <2>1. \A k \in 1 .. Len(m) : Message(m[k]) \in Messages
      BY MessageTyped
    <2> QED
      BY <2>1
  <1> HIDE DEF l, q
  <1>3. s \in [1 .. n -> Seq(Messages)] /\ Items(p) = FlattenSeq(s)
    BY ItemsShown
  <1>4. t \in [1 .. q -> Seq(Messages)] /\ Items(l) = FlattenSeq(t)
    BY <1>1, ItemsShown DEF q
  <1>5. Agree(s, t, n)
    BY <1>1 DEF Agree, Shown, l, q
  <1>6. OneByOne(t, n, added)
    <2>1. ASSUME NEW k \in 1 .. Len(m) PROVE t[n + k] = <<added[k]>>
      <3>1. n + k \in 1 .. Len(l) /\ l[n + k] = m[k] /\ m[k].kind \in Surfaced /\ n + k \notin Suppressed(l)
        BY <1>1 DEF l, q
      <3>2. t[n + k] = <<Message(l[n + k])>>
        <4> HIDE DEF n
        <4> QED
          BY <3>1 DEF Shown
      <3> QED
        BY <3>1, <3>2
    <2> HIDE DEF added, t, n
    <2> QED
      BY <1>2, <2>1 DEF OneByOne
  <1> HIDE DEF s, t, n, added
  <1>7. ExtendedBy(Messages, n, q, s, t, added)
    BY <1>1, <1>2, <1>3, <1>4, <1>5, <1>6 DEF ExtendedBy, Extended
  <1> QED
    BY <1>3, <1>4, <1>7, FlattenedMore DEF l, added

-----------------------------------------------------------------------------
\* The second pass: one more fragment.
Absorb(done, item) ==
    IF Len(done) > 0 /\ item.role = "assistant" /\ done[Len(done)].role = "assistant"
    THEN [done EXCEPT ![Len(done)].calls = @ \o item.calls]
    ELSE Append(done, item)

Coalesces(f, n, items) ==
    /\ f[0] = <<>> /\ f[n] = Coalesced(items)
    /\ \A k \in 1 .. n : f[k] = Absorb(f[k - 1], items[k])

\* No later fragment is put together with the last message.
Closed(messages) == messages = <<>> \/ messages[Len(messages)].role # "assistant"

LEMMA AbsorbTyped ==
    ASSUME NEW done \in Seq(Messages), NEW item \in Messages
    PROVE  /\ Absorb(done, item) \in Seq(Messages)
           /\ Len(Absorb(done, item)) > 0
           /\ Absorb(done, item)[Len(Absorb(done, item))].role = item.role
  <1> DEFINE n == Len(done)
  <1>1. CASE n > 0 /\ item.role = "assistant" /\ done[n].role = "assistant"
    <2> DEFINE to == [done[n] EXCEPT !.calls = @ \o item.calls]
               all == [done EXCEPT ![n] = to]
    <2>1. n \in 1 .. n /\ done[n] \in Messages
      BY <1>1
    <2>2. done[n].calls \o item.calls \in Seq(IdKinds \X Nat)
      BY <2>1 DEF Messages
    <2>3. to \in Messages /\ to.role = "assistant"
      BY <1>1, <2>1, <2>2 DEF Messages
    <2>4. Absorb(done, item) = all
      BY <1>1 DEF Absorb
    <2> HIDE DEF to
    <2>5. all \in Seq(Messages) /\ Len(all) = n /\ all[n] = to
      BY <2>1, <2>3
    <2> QED
      BY <1>1, <2>3, <2>4, <2>5
  <1>2. CASE ~(n > 0 /\ item.role = "assistant" /\ done[n].role = "assistant")
    <2>1. Absorb(done, item) = Append(done, item)
      BY <1>2 DEF Absorb
    <2> QED
      BY <2>1
  <1> QED
    BY <1>1, <1>2

LEMMA AbsorbApart ==
    ASSUME NEW done \in Seq(Messages), NEW item \in Messages, item.role # "assistant"
    PROVE  Absorb(done, item) = Cat(done, <<item>>)
  BY DEF Absorb, Cat

\* The last element is replaced, whatever comes before.
LEMMA ReplacedAfter ==
    ASSUME NEW S, NEW a \in Seq(S), NEW b \in Seq(S), Len(b) > 0, NEW to \in S
    PROVE  [(a \o b) EXCEPT ![Len(a) + Len(b)] = to] = a \o [b EXCEPT ![Len(b)] = to]
  <1> DEFINE n == Len(a)
             d == Len(b)
             all == a \o b
             x == [b EXCEPT ![d] = to]
             y == [all EXCEPT ![n + d] = to]
             z == a \o x
  <1>1. n \in Nat /\ d \in Nat /\ d > 0 /\ n = Len(a) /\ d = Len(b)
    OBVIOUS
  <1>2. /\ all \in Seq(S) /\ Len(all) = n + d
        /\ \A i \in 1 .. n : all[i] = a[i]
        /\ \A i \in n + 1 .. n + d : all[i] = b[i - n]
    OBVIOUS
  <1> HIDE DEF n, d, all
  <1>3. x \in Seq(S) /\ Len(x) = d /\ \A i \in 1 .. d : x[i] = IF i = d THEN to ELSE b[i]
    BY <1>1
  <1>4. y \in Seq(S) /\ Len(y) = n + d /\ \A i \in 1 .. n + d : y[i] = IF i = n + d THEN to ELSE all[i]
    BY <1>1, <1>2
  <1> HIDE DEF x, y
  <1>5. /\ z \in Seq(S) /\ Len(z) = n + d
        /\ \A i \in 1 .. n : z[i] = a[i]
        /\ \A i \in n + 1 .. n + d : z[i] = x[i - n]
    BY <1>1, <1>3
  <1> HIDE DEF z
  <1>6. ASSUME NEW i \in 1 .. n + d PROVE y[i] = z[i]
    <2>1. CASE i <= n
      <3>1. i \in 1 .. n /\ i # n + d
        BY <1>1, <2>1
      <3> QED
        BY <1>2, <1>4, <1>5, <3>1
    <2>2. CASE i > n
      <3>1. i \in n + 1 .. n + d /\ i - n \in 1 .. d /\ (i = n + d <=> i - n = d)
        BY <1>1, <2>2
      <3> QED
        BY <1>2, <1>3, <1>4, <1>5, <3>1
    <2> QED
      BY <1>1, <2>1, <2>2
  <1>7. y = z
    BY <1>1, <1>4, <1>5, <1>6
  <1> QED
    BY <1>7 DEF y, z, x, all, n, d

\* What came before a message that is closed plays no part.
LEMMA AbsorbAfter ==
    ASSUME NEW a \in Seq(Messages), Closed(a), NEW done \in Seq(Messages), NEW item \in Messages
    PROVE  Absorb(Cat(a, done), item) = Cat(a, Absorb(done, item))
  <1> DEFINE n == Len(a)
             d == Len(done)
             all == a \o done
  <1>1. /\ all \in Seq(Messages) /\ Len(all) = n + d /\ n \in Nat /\ d \in Nat
        /\ \A i \in 1 .. n : all[i] = a[i]
        /\ \A i \in 1 .. d : all[n + i] = done[i]
    OBVIOUS
  <1>2. CASE d > 0 /\ item.role = "assistant" /\ done[d].role = "assistant"
    <2> DEFINE to == [done[d] EXCEPT !.calls = @ \o item.calls]
               x == [done EXCEPT ![d] = to]
               y == [all EXCEPT ![n + d] = to]
    <2>1. d \in 1 .. d /\ done[d] \in Messages /\ all[n + d] = done[d]
      BY <1>1, <1>2
    <2>2. done[d].calls \o item.calls \in Seq(IdKinds \X Nat)
      BY <2>1 DEF Messages
    <2>3. to \in Messages
      BY <2>1, <2>2 DEF Messages
    <2>4. Absorb(done, item) = x
      BY <1>2 DEF Absorb
    <2>5. Absorb(all, item) = y
      BY <1>1, <1>2, <2>1 DEF Absorb
    <2> HIDE DEF to
    <2>6. y = a \o x
      BY <1>1, <1>2, <2>3, ReplacedAfter
    <2> QED
      BY <2>4, <2>5, <2>6 DEF Cat
  <1>3. CASE ~(d > 0 /\ item.role = "assistant" /\ done[d].role = "assistant")
    <2>1. Absorb(done, item) = Append(done, item)
      BY <1>3 DEF Absorb
    <2>2. Absorb(all, item) = Append(all, item)
      <3>1. CASE d > 0
        BY <1>1, <1>3, <3>1 DEF Absorb
      <3>2. CASE d = 0
        <4>1. all = a
          BY <3>2
        <4> HIDE DEF all
        <4>2. Absorb(a, item) = Append(a, item)
          <5>1. Len(a) > 0 => a[Len(a)].role # "assistant"
            BY DEF Closed
          <5> QED
            BY <5>1 DEF Absorb
        <4> QED
          BY <4>1, <4>2
      <3> QED
        BY <1>1, <3>1, <3>2
    <2>3. Append(all, item) = a \o Append(done, item)
      OBVIOUS
    <2> QED
      BY <2>1, <2>2, <2>3 DEF Cat
  <1> QED
    BY <1>2, <1>3

LEMMA CoalescedSteps ==
    ASSUME NEW items \in Seq(Messages)
    PROVE  /\ Coalesced(items) \in Seq(Messages)
           /\ \E f \in [0 .. Len(items) -> Seq(Messages)] : Coalesces(f, Len(items), items)
  <1> DEFINE n == Len(items)
             none == <<>>
             step == [k \in 1 .. n |-> [done \in Seq(Messages) |-> Absorb(done, items[k])]]
             Scan(g) == g = [i \in 0 .. n |-> IF i = 0 THEN none ELSE Absorb(g[i - 1], items[i])]
             found == CHOOSE g : Scan(g)
  <1>1. n \in Nat /\ none \in Seq(Messages) /\ \A k \in 1 .. n : items[k] \in Messages
    OBVIOUS
  <1> HIDE DEF n, none
  <1>2. step \in [1 .. n -> [Seq(Messages) -> Seq(Messages)]]
    BY <1>1, AbsorbTyped
  <1>3. PICK f \in [0 .. n -> Seq(Messages)] : FromStart(f, n, none, step)
    <2> HIDE DEF step
    <2> QED
      BY <1>1, <1>2, ForwardExists
  <1>4. f[0] = none /\ \A k \in 1 .. n : f[k] = Absorb(f[k - 1], items[k])
    <2>1. \A k \in 1 .. n : f[k - 1] \in Seq(Messages)
      BY <1>1
    <2> QED
      BY <1>1, <1>3, <2>1 DEF FromStart
  <1>5. Scan(f)
    BY <1>1, <1>4
  <1>6. Scan(found)
    <2> HIDE DEF Scan
    <2> QED
      BY <1>5
  <1> HIDE DEF found
  <1>7. found[0] = none /\ \A k \in 1 .. n : found[k] = Absorb(found[k - 1], items[k])
    BY <1>1, <1>6
  <1> DEFINE Same == {k \in 0 .. n : found[k] = f[k]}
  <1>8. 0 .. n \subseteq Same
    <2>1. 0 \in Same
      BY <1>1, <1>4, <1>7
    <2>2. ASSUME NEW k \in 1 .. n, \A j \in 0 .. k - 1 : j \in Same PROVE k \in Same
      <3>1. found[k - 1] = f[k - 1]
        BY <1>1, <2>2
      <3> QED
        BY <1>4, <1>7, <3>1
    <2> HIDE DEF Same
    <2> QED
      BY <1>1, <2>1, <2>2, ForwardInduction
  <1>9. found[n] = f[n]
    BY <1>1, <1>8
  <1>10. Coalesced(items) = found[n]
    BY DEF Coalesced, Absorb, found, n, none
  <1>11. f[n] \in Seq(Messages)
    BY <1>1
  <1>12. Coalesces(f, n, items)
    BY <1>4, <1>9, <1>10 DEF Coalesces, none
  <1> QED
    BY <1>9, <1>10, <1>11, <1>12 DEF n

Resumes(g, a, c) ==
    /\ g[Len(a)] = Coalesced(a) /\ g[Len(a) + Len(c)] = Coalesced(a \o c)
    /\ \A k \in 1 .. Len(c) : g[Len(a) + k] = Absorb(g[Len(a) + (k - 1)], c[k])

LEMMA CoalescedResumes ==
    ASSUME NEW a \in Seq(Messages), NEW c \in Seq(Messages)
    PROVE  \E g \in [0 .. Len(a) + Len(c) -> Seq(Messages)] : Resumes(g, a, c)
  <1> DEFINE n == Len(a)
             m == Len(c)
             all == a \o c
  <1>1. /\ n \in Nat /\ m \in Nat /\ n = Len(a) /\ m = Len(c)
        /\ all \in Seq(Messages) /\ Len(all) = n + m
        /\ \A i \in 1 .. n : all[i] = a[i]
        /\ \A i \in 1 .. m : all[n + i] = c[i]
    OBVIOUS
  <1> HIDE DEF all, n, m
  <1>2. PICK f \in [0 .. n -> Seq(Messages)] : Coalesces(f, n, a)
    BY <1>1, CoalescedSteps
  <1>3. f[0] = <<>> /\ f[n] = Coalesced(a) /\ \A k \in 1 .. n : f[k] = Absorb(f[k - 1], a[k])
    BY <1>2 DEF Coalesces
  <1> DEFINE p == n + m
  <1>4. p \in Nat /\ p = Len(all) /\ n <= p
    BY <1>1
  <1> HIDE DEF p
  <1>5. PICK g \in [0 .. p -> Seq(Messages)] : Coalesces(g, p, all)
    BY <1>1, <1>4, CoalescedSteps
  <1>6. g[0] = <<>> /\ g[p] = Coalesced(all) /\ \A k \in 1 .. p : g[k] = Absorb(g[k - 1], all[k])
    BY <1>5 DEF Coalesces
  <1> DEFINE Same == {k \in 0 .. n : g[k] = f[k]}
  <1>7. 0 .. n \subseteq Same
    <2>1. 0 \in Same
      BY <1>1, <1>3, <1>6
    <2>2. ASSUME NEW k \in 1 .. n, \A j \in 0 .. k - 1 : j \in Same PROVE k \in Same
      <3>1. g[k - 1] = f[k - 1] /\ k \in 1 .. p
        BY <1>1, <1>4, <2>2
      <3> QED
        BY <1>1, <1>3, <1>6, <3>1
    <2> HIDE DEF Same
    <2> QED
      BY <1>1, <2>1, <2>2, ForwardInduction
  <1>8. g[n] = Coalesced(a)
    BY <1>1, <1>3, <1>7
  <1>9. ASSUME NEW k \in 1 .. m PROVE g[n + k] = Absorb(g[n + (k - 1)], c[k])
    <2>1. n + k \in 1 .. p /\ (n + k) - 1 = n + (k - 1)
      BY <1>1 DEF p
    <2>2. g[n + k] = Absorb(g[(n + k) - 1], all[n + k])
      BY <1>6, <2>1
    <2> QED
      BY <1>1, <2>1, <2>2
  <1>10. Resumes(g, a, c)
    BY <1>6, <1>8, <1>9 DEF Resumes, p, n, m, all
  <1> QED
    BY <1>10 DEF p, n, m

LEMMA CoalescedCloses ==
    ASSUME NEW items \in Seq(Messages), Closed(items)
    PROVE  Closed(Coalesced(items))
  <1> DEFINE n == Len(items)
             last == Coalesced(items)
  <1>1. n \in Nat /\ \A k \in 1 .. n : items[k] \in Messages
    OBVIOUS
  <1>2. PICK f \in [0 .. n -> Seq(Messages)] : Coalesces(f, n, items)
    BY CoalescedSteps
  <1> HIDE DEF n
  <1>3. f[0] = <<>> /\ f[n] = last /\ \A k \in 1 .. n : f[k] = Absorb(f[k - 1], items[k])
    BY <1>2 DEF Coalesces
  <1>4. CASE n = 0
    BY <1>3, <1>4 DEF Closed
  <1>5. CASE n > 0
    <2>1. n \in 1 .. n /\ items[n] \in Messages /\ f[n - 1] \in Seq(Messages)
      BY <1>1, <1>5
    <2>2. items[n].role # "assistant"
      BY <2>1 DEF Closed, n
    <2>3. last = Absorb(f[n - 1], items[n])
      BY <1>3, <2>1
    <2> DEFINE done == f[n - 1]
               item == items[n]
    <2>4. done \in Seq(Messages) /\ item \in Messages /\ item.role # "assistant" /\ last = Absorb(done, item)
      BY <2>1, <2>2, <2>3
    <2> HIDE DEF done, item, last
    <2>5. last[Len(last)].role = item.role
      BY <2>4, AbsorbTyped
    <2>6. Closed(last)
      BY <2>4, <2>5 DEF Closed
    <2> QED
      BY <2>6 DEF last
  <1> QED
    BY <1>1, <1>4, <1>5

\* What follows a closed message is put together on its own.
LEMMA CoalescedLonger ==
    ASSUME NEW a \in Seq(Messages), NEW c \in Seq(Messages), Closed(a)
    PROVE  Continues(Messages, Coalesced(a), Coalesced(a \o c))
  <1> DEFINE n == Len(a)
             m == Len(c)
             b == Coalesced(a)
             From(y) == \E rest \in Seq(Messages) : y = Cat(b, rest)
  <1>1. n \in Nat /\ m \in Nat /\ \A k \in 1 .. m : c[k] \in Messages
    OBVIOUS
  <1>2. b \in Seq(Messages) /\ Closed(b)
    BY CoalescedSteps, CoalescedCloses
  <1>3. PICK g \in [0 .. n + m -> Seq(Messages)] : Resumes(g, a, c)
    BY CoalescedResumes
  <1> HIDE DEF b
  <1>4. g[n] = b /\ g[n + m] = Coalesced(a \o c) /\ \A k \in 1 .. m : g[n + k] = Absorb(g[n + (k - 1)], c[k])
    BY <1>3 DEF Resumes, b
  <1> HIDE DEF n, m
  <1> DEFINE Good == {k \in 0 .. m : From(g[n + k])}
  <1>5. 0 \in Good
    <2> DEFINE none == <<>>
    <2>1. none \in Seq(Messages) /\ b = Cat(b, none)
      BY <1>2, Concatenated
    <2> HIDE DEF none
    <2>2. From(b)
      BY <2>1
    <2>3. g[n + 0] = b /\ 0 \in 0 .. m
      BY <1>1, <1>4
    <2> HIDE DEF From
    <2> QED
      BY <2>2, <2>3
  <1>6. ASSUME NEW k \in 1 .. m, \A j \in 0 .. k - 1 : j \in Good PROVE k \in Good
    <2> DEFINE j == k - 1
    <2>1. j \in 0 .. k - 1 /\ g[n + k] = Absorb(g[n + j], c[k])
      BY <1>1, <1>4
    <2> HIDE DEF j
    <2>2. PICK rest \in Seq(Messages) : g[n + j] = Cat(b, rest)
      BY <1>6, <2>1
    <2> DEFINE item == c[k]
               more == Absorb(rest, item)
    <2>3. item \in Messages /\ g[n + k] = Absorb(Cat(b, rest), item)
      BY <1>1, <2>1, <2>2
    <2> HIDE DEF item
    <2>4. more \in Seq(Messages)
      BY <2>3, AbsorbTyped
    <2>5. Absorb(Cat(b, rest), item) = Cat(b, more)
      BY <1>2, <2>3, AbsorbAfter
    <2> HIDE DEF more
    <2>6. From(g[n + k])
      BY <2>3, <2>4, <2>5
    <2> HIDE DEF From
    <2> QED
      BY <2>6
  <1>7. From(g[n + m])
    <2> HIDE DEF Good
    <2>1. 0 .. m \subseteq Good
      BY <1>1, <1>5, <1>6, ForwardInduction
    <2>2. m \in Good
      BY <1>1, <2>1
    <2> HIDE DEF From
    <2> QED
      BY <2>2 DEF Good
  <1> QED
    BY <1>2, <1>4, <1>7 DEF Continues, Cat, b

\* A message that nothing is put together with is only added.
LEMMA CoalescedMore ==
    ASSUME NEW a \in Seq(Messages), NEW c \in Seq(Messages),
           \A k \in 1 .. Len(c) : c[k].role # "assistant"
    PROVE  Coalesced(a \o c) = Coalesced(a) \o c
  <1> DEFINE n == Len(a)
             m == Len(c)
             b == Coalesced(a)
  <1>1. n \in Nat /\ m \in Nat /\ \A k \in 1 .. m : c[k] \in Messages /\ c[k].role # "assistant"
    OBVIOUS
  <1>2. b \in Seq(Messages)
    BY CoalescedSteps
  <1>3. PICK g \in [0 .. n + m -> Seq(Messages)] : Resumes(g, a, c)
    BY CoalescedResumes
  <1> HIDE DEF b
  <1>4. g[n] = b /\ g[n + m] = Coalesced(a \o c) /\ \A k \in 1 .. m : g[n + k] = Absorb(g[n + (k - 1)], c[k])
    BY <1>3 DEF Resumes, b
  <1>m. m = Len(c)
    OBVIOUS
  <1> HIDE DEF n, m
  <1> DEFINE Good == {k \in 0 .. m : g[n + k] = Cat(b, SubSeq(c, 1, k))}
  <1>5. 0 \in Good
    <2>1. SubSeq(c, 1, 0) = <<>>
      OBVIOUS
    <2>2. Cat(b, <<>>) = b
      BY <1>2, Concatenated
    <2>3. g[n + 0] = b /\ 0 \in 0 .. m
      BY <1>1, <1>4
    <2> QED
      BY <2>1, <2>2, <2>3
  <1>6. ASSUME NEW k \in 1 .. m, \A j \in 0 .. k - 1 : j \in Good PROVE k \in Good
    <2> DEFINE j == k - 1
               u == SubSeq(c, 1, k - 1)
               item == c[k]
               v == <<item>>
    <2>1. j \in 0 .. k - 1 /\ g[n + k] = Absorb(g[n + j], item) /\ item \in Messages /\ item.role # "assistant"
      BY <1>1, <1>4
    <2>2. g[n + j] = Cat(b, u)
      BY <1>6, <2>1
    <2>3. u \in Seq(Messages) /\ v \in Seq(Messages) /\ SubSeq(c, 1, k) = u \o v
      BY <1>m, GrownPrefix
    <2>p. v = <<item>>
      OBVIOUS
    <2> HIDE DEF u, j, v, item
    <2>4. Cat(b, u) \in Seq(Messages) /\ Cat(Cat(b, u), v) = Cat(b, Cat(u, v))
      BY <1>2, <2>3, Concatenated
    <2>5. Absorb(Cat(b, u), item) = Cat(Cat(b, u), v)
      BY <2>1, <2>4, <2>p, AbsorbApart
    <2>6. SubSeq(c, 1, k) = Cat(u, v)
      BY <2>3 DEF Cat
    <2>7. g[n + k] = Cat(b, SubSeq(c, 1, k))
      BY <2>1, <2>2, <2>4, <2>5, <2>6
    <2> QED
      BY <2>7
  <1>7. 0 .. m \subseteq Good
    <2> HIDE DEF Good
    <2> QED
      BY <1>1, <1>5, <1>6, ForwardInduction
  <1>8. SubSeq(c, 1, m) = c
    BY <1>m
  <1>9. g[n + m] = Cat(b, SubSeq(c, 1, m))
    BY <1>1, <1>7
  <1> QED
    BY <1>4, <1>8, <1>9 DEF Cat, b

-----------------------------------------------------------------------------
\* The third and the fourth pass.
Anchoring(u) == {i \in 1 .. Len(u) : u[i].role = "tool" => Anchored(u, i)}
Spoken(u) == {i \in 1 .. Len(u) : u[i].role # "system"}

\* Whether a message is kept depends on those before it only.
LEMMA KeptLonger ==
    ASSUME NEW u \in Seq(Messages), NEW c \in Seq(Messages)
    PROVE  \A i \in 1 .. Len(u) : /\ i \in Anchoring(u) <=> i \in Anchoring(u \o c)
                                  /\ i \in Spoken(u) <=> i \in Spoken(u \o c)
  <1> DEFINE v == u \o c
  <1>1. Len(u) \in Nat /\ Len(v) \in Nat /\ Len(u) <= Len(v) /\ \A i \in 1 .. Len(u) : v[i] = u[i]
    OBVIOUS
  <1> HIDE DEF v
  <1>2. ASSUME NEW i \in 1 .. Len(u) PROVE Anchored(u, i) <=> Anchored(v, i)
    <2>1. \A k \in 1 .. i : v[k] = u[k]
      BY <1>1
    <2> DEFINE Ahead(w, a) == /\ w[a].role = "assistant"
                              /\ \A k \in a + 1 .. i - 1 : w[k].role # "assistant"
                              /\ \E c2 \in 1 .. Len(w[a].calls) : w[a].calls[c2] = w[i].id
    <2>2. ASSUME NEW a \in 1 .. i - 1 PROVE Ahead(u, a) <=> Ahead(v, a)
      <3>1. v[a] = u[a] /\ v[i] = u[i] /\ \A k \in a + 1 .. i - 1 : v[k] = u[k]
        BY <2>1
      <3> QED
        BY <3>1
    <2>3. Anchored(u, i) <=> \E a \in 1 .. i - 1 : Ahead(u, a)
      BY DEF Anchored
    <2>4. Anchored(v, i) <=> \E a \in 1 .. i - 1 : Ahead(v, a)
      BY DEF Anchored
    <2> HIDE DEF Ahead
    <2> QED
      BY <2>2, <2>3, <2>4
  <1>3. \A i \in 1 .. Len(u) : i \in 1 .. Len(v) /\ (i \in Anchoring(u) <=> i \in Anchoring(v))
    BY <1>1, <1>2 DEF Anchoring
  <1>4. \A i \in 1 .. Len(u) : i \in Spoken(u) <=> i \in Spoken(v)
    BY <1>1, <1>3 DEF Spoken
  <1> QED
    BY <1>3, <1>4 DEF v

LEMMA RequestPasses ==
    ASSUME NEW l
    PROVE  LET messages == Coalesced(Items(l))
               derived == Filtered(messages, Anchoring(messages))
           IN  Request(l) = Filtered(derived, Spoken(derived))
  BY DEF Request, DeriveMessages, Anchoring, Spoken

LEMMA RequestLonger ==
    ASSUME NEW p, NEW l, Continues(Messages, Items(p), Items(l)), Closed(Items(p))
    PROVE  Continues(Messages, Request(p), Request(l))
  <1>1. PICK r \in Seq(Messages) : Items(l) = Items(p) \o r
    BY DEF Continues
  <1> DEFINE a == Coalesced(Items(p))
             b == Coalesced(Items(l))
  <1>2. Items(p) \in Seq(Messages)
    BY DEF Continues
  <1>3. Continues(Messages, a, b)
    BY <1>1, <1>2, CoalescedLonger
  <1> HIDE DEF a, b
  <1>4. PICK s \in Seq(Messages) : b = a \o s
    BY <1>3 DEF Continues
  <1>5. a \in Seq(Messages)
    BY <1>3 DEF Continues
  <1> DEFINE d == Filtered(a, Anchoring(a))
             e == Filtered(b, Anchoring(b))
  <1>6. Continues(Messages, d, e)
    BY <1>4, <1>5, KeptLonger, FilteredLonger
  <1> HIDE DEF d, e
  <1>7. PICK t \in Seq(Messages) : e = d \o t
    BY <1>6 DEF Continues
  <1>8. d \in Seq(Messages)
    BY <1>6 DEF Continues
  <1>9. Continues(Messages, Filtered(d, Spoken(d)), Filtered(e, Spoken(e)))
    BY <1>7, <1>8, KeptLonger, FilteredLonger
  <1> QED
    BY <1>9, RequestPasses DEF d, e, a, b

\* Messages of the user are added to the request as they are.
LEMMA RequestMore ==
    ASSUME NEW p, NEW l, Items(p) \in Seq(Messages), NEW c \in Seq(Messages),
           Items(l) = Items(p) \o c, \A k \in 1 .. Len(c) : c[k].role = "user"
    PROVE  Request(p) \in Seq(Messages) /\ Request(l) = Request(p) \o c
  <1> DEFINE a == Coalesced(Items(p))
             b == Coalesced(Items(l))
  <1>1. a \in Seq(Messages) /\ b = a \o c
    <2>1. \A k \in 1 .. Len(c) : c[k].role # "assistant"
      OBVIOUS
    <2> QED
      BY <2>1, CoalescedMore, CoalescedSteps
  <1> HIDE DEF a, b
  <1>2. \A i \in 1 .. Len(a) : i \in Anchoring(a) <=> i \in Anchoring(b)
    BY <1>1, KeptLonger
  <1>3. \A k \in 1 .. Len(c) : Len(a) + k \in Anchoring(b)
    <2>1. \A k \in 1 .. Len(c) : Len(a) + k \in 1 .. Len(b) /\ b[Len(a) + k].role # "tool"
      BY <1>1
    <2> QED
      BY <2>1 DEF Anchoring
  <1> DEFINE d == Filtered(a, Anchoring(a))
             e == Filtered(b, Anchoring(b))
  <1>4. d \in Seq(Messages) /\ e = d \o c
    <2>1. Continues(Messages, d, e)
      BY <1>1, <1>2, FilteredLonger
    <2>2. e = d \o c
      BY <1>1, <1>2, <1>3, FilteredMore
    <2> QED
      BY <2>1, <2>2 DEF Continues
  <1> HIDE DEF d, e
  <1>5. \A i \in 1 .. Len(d) : i \in Spoken(d) <=> i \in Spoken(e)
    BY <1>4, KeptLonger
  <1>6. \A k \in 1 .. Len(c) : Len(d) + k \in Spoken(e)
    <2>1. \A k \in 1 .. Len(c) : Len(d) + k \in 1 .. Len(e) /\ e[Len(d) + k].role # "system"
      BY <1>4
    <2> QED
      BY <2>1 DEF Spoken
  <1>7. Filtered(d, Spoken(d)) \in Seq(Messages)
    <2>1. Continues(Messages, Filtered(d, Spoken(d)), Filtered(e, Spoken(e)))
      BY <1>4, <1>5, FilteredLonger
    <2> QED
      BY <2>1 DEF Continues
  <1>8. Filtered(e, Spoken(e)) = Filtered(d, Spoken(d)) \o c
    BY <1>4, <1>5, <1>6, FilteredMore
  <1> QED
    BY <1>7, <1>8, RequestPasses DEF d, e, a, b

\* A message of the user, or a result, closes what it is the last of.
LEMMA ItemsClosed ==
    ASSUME NEW p \in Seq(LogEvents), Len(p) > 0, p[Len(p)].kind \in {"UserMessage", "ToolResult"}
    PROVE  Closed(Items(p))
  <1> DEFINE i == Len(p)
             q == SubSeq(p, 1, i - 1)
             m == <<p[i]>>
  <1>1. /\ i \in 1 .. Len(p) /\ p[i] \in LogEvents /\ p[i].kind \in Surfaced
        /\ q \in Seq(LogEvents) /\ m \in Seq(LogEvents) /\ p = q \o m
        /\ Len(q) = i - 1 /\ Len(m) = 1 /\ m[1] = p[i]
    BY DEF Surfaced
  <1>2. \A k \in 1 .. Len(q) : q[k] = p[k]
    OBVIOUS
  <1> HIDE DEF q, m
  <1>3. CASE i \notin Suppressed(p)
    <2> DEFINE added == [k \in 1 .. Len(m) |-> Message(m[k])]
    <2>1. \A k \in 1 .. Len(q) : k \in Suppressed(q) <=> k \in Suppressed(p)
      <3>1. \A j \in 1 .. Len(p) : p[j].kind = "Compaction" => j \in 1 .. Len(q) /\ q[j] = p[j]
        BY <1>1, <1>2
      <3>2. \A j \in 1 .. Len(q) : j \in 1 .. Len(p) /\ q[j] = p[j]
        BY <1>1, <1>2
      <3> HIDE DEF i
      <3> QED
        BY <3>1, <3>2 DEF Suppressed
    <2>2. \A k \in 1 .. Len(m) : m[k].kind \in Surfaced /\ Len(q) + k \notin Suppressed(p)
      BY <1>1, <1>3
    <2>3. Items(p) = Items(q) \o added
      BY <1>1, <2>1, <2>2, ItemsMore
    <2>4. Items(q) \in Seq(Messages)
      <3>1. Len(q) \in Nat /\ Shown(q) \in [1 .. Len(q) -> Seq(Messages)] /\ Items(q) = FlattenSeq(Shown(q))
        BY <1>1, ItemsShown
      <3> QED
        BY <3>1, FlattenedTyped
    <2>5. Message(p[i]) \in Messages /\ Message(p[i]).role # "assistant"
      BY <1>1, MessageTyped
    <2>6. added = <<Message(p[i])>>
      BY <1>1
    <2> DEFINE x == Message(p[i])
               t == Items(q)
    <2> HIDE DEF added, x, t
    <2>7. (t \o <<x>>)[Len(t \o <<x>>)] = x /\ t \o <<x>> # <<>>
      BY <2>4, <2>5 DEF x, t
    <2> QED
      BY <2>3, <2>5, <2>6, <2>7 DEF Closed, x, t
  <1>4. CASE i \in Suppressed(p)
    <2>1. \A k \in 1 .. i : k \in Suppressed(p)
      <3>1. PICK j \in 1 .. Len(p) : /\ p[j].kind = "Compaction" /\ p[j].n >= MinCompactionRange
                                     /\ i <= p[j].n
        BY <1>4 DEF Suppressed
      <3>2. p[j] \in LogEvents
        OBVIOUS
      <3>3. p[j].n \in Nat
        BY <3>2 DEF LogEvents
      <3> QED
        BY <3>1, <3>3 DEF Suppressed
    <2>2. \A k \in 1 .. i : Shown(p)[k] = <<>>
      BY <2>1 DEF Shown
    <2>3. i \in Nat /\ Shown(p) \in [1 .. i -> Seq(Messages)] /\ Items(p) = FlattenSeq(Shown(p))
      BY ItemsShown
    <2> HIDE DEF i
    <2>4. FlattenSeq(Shown(p)) = <<>>
      BY <2>2, <2>3, FlattenedNone
    <2> QED
      BY <2>3, <2>4 DEF Closed
  <1> QED
    BY <1>3, <1>4

-----------------------------------------------------------------------------
(* What every log is: a summary stands for events before it only.          *)

Reaches(l) == \A j \in 1 .. Len(l) : l[j].kind = "Compaction" => l[j].n < j
GoodLog(l) == l \in Seq(LogEvents) /\ Reaches(l)

LogInv ==
    /\ GoodLog(log) /\ calls \in Seq(CallsSet)
    /\ turn \in Nat /\ acted \in Nat /\ issued \in Nat
    /\ pc \in Answering => calls # <<>>

LEMMA GoodLogGrows ==
    ASSUME NEW l, GoodLog(l), NEW m \in Seq(LogEvents),
           \A k \in 1 .. Len(m) : m[k].kind = "Compaction" => m[k].n <= Len(l)
    PROVE  GoodLog(l \o m)
  <1> DEFINE n == Len(l)
             v == l \o m
  <1>1. l \in Seq(LogEvents) /\ \A j \in 1 .. n : l[j].kind = "Compaction" => l[j].n < j
    BY DEF GoodLog, Reaches
  <1>2. /\ v \in Seq(LogEvents) /\ n \in Nat /\ Len(m) \in Nat /\ Len(v) = n + Len(m)
        /\ \A i \in 1 .. n : v[i] = l[i]
        /\ \A i \in n + 1 .. n + Len(m) : v[i] = m[i - n]
    BY <1>1, Joined
  <1> HIDE DEF v, n
  <1>3. ASSUME NEW j \in 1 .. Len(v), v[j].kind = "Compaction" PROVE v[j].n < j
    <2>1. CASE j <= n
      BY <1>1, <1>2, <1>3, <2>1
    <2>2. CASE j > n
      <3>1. j - n \in 1 .. Len(m) /\ v[j] = m[j - n]
        BY <1>2, <2>2
      <3>2. v[j].n <= n
        BY <1>3, <3>1 DEF n
      <3>3. v[j].n \in Nat
        <4>1. v[j] \in LogEvents
          BY <1>2
        <4> QED
          BY <4>1 DEF LogEvents
      <3> QED
        BY <1>2, <2>2, <3>2, <3>3
    <2> QED
      BY <1>2, <2>1, <2>2
  <1>4. GoodLog(v)
    BY <1>2, <1>3 DEF GoodLog, Reaches
  <1> QED
    BY <1>4 DEF v

LEMMA GoodLogCut ==
    ASSUME NEW l, GoodLog(l), NEW k \in 0 .. Len(l)
    PROVE  GoodLog(SubSeq(l, 1, k))
  <1>1. l \in Seq(LogEvents)
    BY DEF GoodLog
  <1> DEFINE p == SubSeq(l, 1, k)
  <1>2. p \in Seq(LogEvents) /\ Len(p) = k /\ \A i \in 1 .. k : p[i] = l[i]
    BY <1>1, PrefixOf
  <1> HIDE DEF p
  <1>3. \A j \in 1 .. Len(p) : j \in 1 .. Len(l)
    BY <1>1, <1>2
  <1>4. Reaches(p)
    BY <1>2, <1>3 DEF Reaches, GoodLog
  <1> QED
    BY <1>2, <1>4 DEF GoodLog, p

LEMMA GoodLogCompacted ==
    ASSUME NEW l, GoodLog(l), NEW c \in CompactionOutcomes(l)
    PROVE  GoodLog(c.log)
  <1> DEFINE cut == CompactionCut(l)
             ev == Compaction(cut)
  <1>1. l \in Seq(LogEvents)
    BY DEF GoodLog
  <1>2. cut \in 0 .. Len(l) /\ cut \in Nat
    BY <1>1, CutTyped
  <1> HIDE DEF cut
  <1>3. ev \in LogEvents /\ ev.n = cut
    BY <1>2, IdsTyped, ToolEvents DEF Compaction, Event
  <1>4. c.log = l \/ c.log = Append(l, ev)
    BY DEF CompactionOutcomes, cut
  <1> HIDE DEF ev
  <1>5. Append(l, ev) = l \o <<ev>> /\ <<ev>> \in Seq(LogEvents) /\ Len(<<ev>>) = 1 /\ <<ev>>[1] = ev
    BY <1>1, <1>3, Appended
  <1> DEFINE m == <<ev>>
  <1>6. Append(l, ev) = l \o m /\ m \in Seq(LogEvents) /\ Len(m) = 1 /\ m[1] = ev
    BY <1>5
  <1> HIDE DEF m
  <1>7. \A k \in 1 .. Len(m) : m[k].kind = "Compaction" => m[k].n <= Len(l)
    BY <1>2, <1>3, <1>6
  <1>8. GoodLog(l \o m)
    BY <1>6, <1>7, GoodLogGrows
  <1> QED
    BY <1>4, <1>6, <1>8

\* One more event, which is not a compaction.
LEMMA GoodLogNext ==
    ASSUME NEW l, GoodLog(l), NEW ev \in LogEvents, ev.kind # "Compaction"
    PROVE  GoodLog(Append(l, ev)) /\ GoodLog(l \o <<ev>>)
  <1> DEFINE m == <<ev>>
  <1>1. l \in Seq(LogEvents)
    BY DEF GoodLog
  <1>2. Append(l, ev) = l \o m /\ m \in Seq(LogEvents) /\ Len(m) = 1 /\ m[1] = ev
    BY <1>1, Appended
  <1> HIDE DEF m
  <1>3. GoodLog(l \o m)
    BY <1>2, GoodLogGrows
  <1> QED
    BY <1>2, <1>3 DEF m

LEMMA CallsTyped ==
    ASSUME NEW n \in Nat, NEW sent \in BOOLEAN, issued \in Nat
    PROVE  /\ CallsOf(n, sent) \in Seq(CallsSet) /\ Len(CallsOf(n, sent)) = n
           /\ CallEvents(n, sent) \in Seq(LogEvents)
           /\ \A k \in 1 .. Len(CallEvents(n, sent)) : CallEvents(n, sent)[k].kind = "ToolCall"
  <1>1. ASSUME NEW k \in 1 .. n
        PROVE  /\ (IF sent THEN SentId(issued + k) ELSE IndexedId(k - 1)) \in IdKinds \X Nat
               /\ (IF sent THEN SentId(issued + k) ELSE GenericId) \in IdKinds \X Nat
               /\ issued + k \in Nat
    <2>1. issued + k \in Nat /\ k - 1 \in Nat
      OBVIOUS
    <2> QED
      BY <2>1 DEF SentId, IndexedId, GenericId, IdKinds
  <1>2. CallsOf(n, sent) \in Seq(CallsSet) /\ Len(CallsOf(n, sent)) = n
    BY <1>1 DEF CallsOf, CallsSet
  <1> DEFINE Id(k) == IF sent THEN SentId(issued + k) ELSE GenericId
             ce == [k \in 1 .. n |-> ToolCall(Id(k))]
  <1>3. ASSUME NEW k \in 1 .. n PROVE ToolCall(Id(k)) \in LogEvents /\ ToolCall(Id(k)).kind = "ToolCall"
    <2>1. Id(k) \in IdKinds \X Nat
      BY <1>1
    <2> HIDE DEF Id
    <2> QED
      BY <2>1, ToolEvents
  <1>4. CallEvents(n, sent) = ce
    BY DEF CallEvents
  <1> HIDE DEF Id
  <1>5. ce \in Seq(LogEvents) /\ Len(ce) = n /\ \A k \in 1 .. n : ce[k].kind = "ToolCall"
    BY <1>3
  <1> QED
    BY <1>2, <1>4, <1>5

LEMMA GoodLogReplied ==
    ASSUME LogInv, NEW n \in Nat, NEW sent \in BOOLEAN, Reply(n, sent)
    PROVE  LogInv'
  <1>1. GoodLog(log) /\ issued \in Nat /\ turn \in Nat /\ acted \in Nat
    BY DEF LogInv
  <1>2. PICK c \in {[log |-> log, result |-> "ok"]} \cup Compactions,
             said \in {<<>>, <<AssistantMessage>>} :
         \/ /\ log' = c.log \o said \o CallEvents(n, sent)
            /\ calls' = CallsOf(n, sent)
            /\ issued' = issued + n
            /\ pc' = IF n = 0 THEN "stopping" ELSE "tool"
            /\ UNCHANGED <<turn, stop, acted>>
         \/ Leave /\ UNCHANGED log
    BY DEF Reply
  <1>3. CASE Leave /\ UNCHANGED log
    BY <1>1, <1>3 DEF LogInv, Leave, Answering
  <1>4. ASSUME log' = c.log \o said \o CallEvents(n, sent), calls' = CallsOf(n, sent),
               issued' = issued + n, pc' = IF n = 0 THEN "stopping" ELSE "tool",
               UNCHANGED <<turn, stop, acted>>
        PROVE  LogInv'
    <2>1. GoodLog(c.log)
      <3>1. CASE c = [log |-> log, result |-> "ok"]
        BY <1>1, <3>1
      <3>2. CASE c \in Compactions
        BY <1>1, <3>2, GoodLogCompacted DEF Compactions
      <3> QED
        BY <3>1, <3>2, Zenon
    <2> DEFINE l == c.log
               ce == CallEvents(n, sent)
    <2>2. GoodLog(l \o said)
      <3>1. CASE said = <<>>
        <4>1. l \in Seq(LogEvents)
          BY <2>1 DEF GoodLog
        <4>2. l \o said = l
          BY <3>1, <4>1
        <4> QED
          BY <2>1, <4>2
      <3>2. CASE said = <<AssistantMessage>>
        BY <2>1, <3>2, GoodLogNext, PlainEvents
      <3> QED
        BY <3>1, <3>2
    <2>3. ce \in Seq(LogEvents) /\ \A k \in 1 .. Len(ce) : ce[k].kind = "ToolCall"
      BY <1>1, CallsTyped
    <2> DEFINE t == l \o said
    <2>4. log' = t \o ce
      BY <1>4
    <2> HIDE DEF t, ce, l
    <2>5. GoodLog(log')
      BY <2>2, <2>3, <2>4, GoodLogGrows DEF t
    <2>6. calls' \in Seq(CallsSet) /\ Len(calls') = n
      BY <1>1, <1>4, CallsTyped
    <2>7. pc' \in Answering => calls' # <<>>
      BY <1>4, <2>6 DEF Answering
    <2>8. turn' \in Nat /\ acted' \in Nat /\ issued' \in Nat
      BY <1>1, <1>4
    <2> QED
      BY <2>5, <2>6, <2>7, <2>8 DEF LogInv
  <1> QED
    BY <1>2, <1>3, <1>4

LEMMA GoodLogAnswered ==
    ASSUME LogInv, pc \in Answering, NEW write \in Nat, Answer(write)
    PROVE  LogInv'
  <1>1. calls \in Seq(CallsSet) /\ calls # <<>> /\ GoodLog(log)
    BY DEF LogInv
  <1>2. Head(calls) \in CallsSet /\ Tail(calls) \in Seq(CallsSet) /\ Len(Tail(calls)) = Len(calls) - 1
    BY <1>1
  <1> DEFINE ev == ToolResult(Head(calls).id, write)
  <1>3. ev \in LogEvents /\ ev.kind # "Compaction"
    <2>1. Head(calls).id \in IdKinds \X Nat
      BY <1>2 DEF CallsSet
    <2> QED
      BY <2>1, ToolEvents
  <1>4. log' = Append(log, ev)
    BY DEF Answer
  <1> HIDE DEF ev
  <1>5. GoodLog(log')
    BY <1>1, <1>3, <1>4, GoodLogNext
  <1>6. pc' \in Answering => calls' # <<>>
    <2>1. CASE Len(calls) = 1
      BY <2>1 DEF Answer, Answering
    <2>2. CASE Len(calls) # 1
      <3>1. Len(Tail(calls)) # 0
        BY <1>1, <1>2, <2>2
      <3> QED
        BY <1>2, <3>1 DEF Answer
    <2> QED
      BY <2>1, <2>2
  <1> QED
    BY <1>2, <1>5, <1>6 DEF LogInv, Answer

\* A step that appends nothing to the log.
LEMMA GoodLogWaits ==
    ASSUME LogInv, GoodLog(log'), UNCHANGED <<calls, issued>>, turn' \in Nat, acted' \in Nat,
           pc' \in Answering => pc \in Answering
    PROVE  LogInv'
  BY DEF LogInv

LEMMA GoodLogLeft ==
    ASSUME LogInv, GoodLog(log'), Leave
    PROVE  LogInv'
  BY DEF LogInv, Leave, Answering

LEMMA GoodLogEnds ==
    ASSUME LogInv, NEW why \in {"completed", "aborted", "error"}, End(why)
    PROVE  LogInv'
  <1> DEFINE ev == TurnEnd(turn, why)
  <1>1. ev \in LogEvents /\ ev.kind # "Compaction"
    BY MarkerEvents DEF LogInv
  <1>2. log' = Append(log, ev) /\ Leave
    BY DEF End
  <1> HIDE DEF ev
  <1> QED
    BY <1>1, <1>2, GoodLogNext, GoodLogLeft DEF LogInv

LEMMA TurnKeepsLog ==
    ASSUME LogInv, Queued, Turn
    PROVE  LogInv'
  <1> USE DEF LogInv
  <1>1. CASE BeginTurn
    <2> DEFINE a == TurnStart(turn + 1)
               b == UserMessage
    <2>1. a \in LogEvents /\ a.kind # "Compaction" /\ b \in LogEvents /\ b.kind # "Compaction"
      BY MarkerEvents, PlainEvents
    <2>2. log' = log \o <<a, b>>
      BY <1>1 DEF BeginTurn
    <2> HIDE DEF a, b
    <2> DEFINE m == <<a, b>>
    <2>3. m \in Seq(LogEvents) /\ Len(m) = 2 /\ m[1] = a /\ m[2] = b
      BY <2>1
    <2> HIDE DEF m
    <2>4. \A k \in 1 .. Len(m) : m[k].kind # "Compaction"
      BY <2>1, <2>3
    <2>5. GoodLog(log \o m)
      BY <2>3, <2>4, GoodLogGrows
    <2> QED
      <3>1. log' = log \o m
        BY <2>2 DEF m
      <3>2. UNCHANGED <<calls, issued>> /\ turn' = turn + 1 /\ acted' = acted /\ pc' = "before"
        BY <1>1 DEF BeginTurn
      <3>3. turn' \in Nat /\ acted' \in Nat
        BY <3>2
      <3> QED
        BY <2>5, <3>1, <3>2, <3>3, GoodLogWaits DEF Answering
  <1>2. CASE Refuse
    BY <1>2, GoodLogLeft DEF Refuse
  <1>3. CASE Proceed
    BY <1>3, GoodLogWaits DEF Proceed, Answering
  <1>4. CASE CompactFirst
    <2>1. PICK c \in CompactionOutcomes(log) :
            \/ /\ log' = c.log /\ pc' = "head"
               /\ UNCHANGED <<turn, calls, stop, acted, issued>>
            \/ End("error")
            \/ Leave /\ UNCHANGED log
      BY <1>4 DEF CompactFirst, Compactions
    <2>2. CASE /\ log' = c.log /\ pc' = "head"
               /\ UNCHANGED <<turn, calls, stop, acted, issued>>
      BY <2>2, GoodLogCompacted, GoodLogWaits DEF Answering
    <2>3. CASE End("error")
      BY <2>3, GoodLogEnds
    <2>4. CASE Leave /\ UNCHANGED log
      BY <2>4, GoodLogLeft
    <2> QED
      BY <2>1, <2>2, <2>3, <2>4
  <1>5. CASE HeadStop
    BY <1>5, GoodLogEnds DEF HeadStop
  <1>6. CASE SendRequest
    <2>1. Drained \in Seq(LogEvents) /\ \A k \in 1 .. Len(Drained) : Drained[k] = UserMessage
      BY DrainedTyped DEF Queued
    <2>2. \A k \in 1 .. Len(Drained) : Drained[k].kind # "Compaction"
      BY <2>1, PlainEvents
    <2> DEFINE m == Drained
    <2>3. log' = log \o m
      BY <1>6 DEF SendRequest
    <2> HIDE DEF m
    <2>4. GoodLog(log')
      BY <2>1, <2>2, <2>3, GoodLogGrows DEF m
    <2> QED
      BY <1>6, <2>4, GoodLogWaits DEF SendRequest, Answering
  <1>7. CASE FailRequest
    BY <1>7, GoodLogEnds DEF FailRequest
  <1>8. CASE \E n \in 0 .. MaxParallel, sent \in {TRUE, ~MissingIds} : Reply(n, sent)
    <2>1. PICK n \in 0 .. MaxParallel, sent \in {TRUE, ~MissingIds} : Reply(n, sent)
      BY <1>8
    <2>2. n \in Nat /\ sent \in BOOLEAN
      <3>1. n \in Nat
        OBVIOUS
      <3>2. sent \in BOOLEAN
        BY FlagsAssumption, Zenon
      <3> QED
        BY <3>1, <3>2
    <2> QED
      BY <2>1, <2>2, GoodLogReplied
  <1>9. CASE AnswerWithout
    BY <1>9, GoodLogAnswered DEF AnswerWithout, Answering
  <1>10. CASE AskPermission \/ Invoke \/ Approve
    BY <1>10, GoodLogWaits DEF AskPermission, Invoke, Approve, Advance, Answering
  <1>11. CASE Disapprove
    BY <1>11, GoodLogAnswered DEF Disapprove, Answering
  <1>12. CASE ToolWrites
    <2>1. Head(calls) \in CallsSet
      BY <1>12 DEF ToolWrites, Answering
    <2>2. Head(calls).write \in Nat
      BY <2>1 DEF CallsSet
    <2> QED
      BY <1>12, <2>2, GoodLogWaits DEF ToolWrites
  <1>13. CASE ToolReturns
    BY <1>13, GoodLogAnswered DEF ToolReturns, Answering
  <1>14. CASE Finish
    <2> DEFINE a == TurnStats
               b == TurnEnd(turn, "completed")
    <2>1. a \in LogEvents /\ a.kind # "Compaction" /\ b \in LogEvents /\ b.kind # "Compaction"
      BY MarkerEvents, PlainEvents
    <2>2. log' = log \o <<a, b>>
      BY <1>14 DEF Finish
    <2> HIDE DEF a, b
    <2> DEFINE m == <<a, b>>
    <2>3. m \in Seq(LogEvents) /\ Len(m) = 2 /\ m[1] = a /\ m[2] = b
      BY <2>1
    <2> HIDE DEF m
    <2>4. \A k \in 1 .. Len(m) : m[k].kind # "Compaction"
      BY <2>1, <2>3
    <2>5. GoodLog(log \o m)
      BY <2>3, <2>4, GoodLogGrows
    <2> QED
      BY <1>14, <2>2, <2>5, GoodLogLeft DEF Finish, m
  <1> QED
    BY <1>1, <1>2, <1>3, <1>4, <1>5, <1>6, <1>7, <1>8, <1>9, <1>10, <1>11, <1>12, <1>13, <1>14 DEF Turn

LEMMA DriverKeepsLog ==
    ASSUME LogInv, Driver
    PROVE  LogInv'
  <1> USE DEF LogInv
  <1>1. CASE RequestStop
    BY <1>1, GoodLogWaits DEF RequestStop
  <1>2. CASE Cancel
    BY <1>2, GoodLogLeft DEF Cancel
  <1>3. CASE Restart
    <2>1. GoodLog(log')
      <3>1. CASE log' \in Surviving
        <4>1. PICK k \in 0 .. Len(log) : log' = SubSeq(log, 1, k)
          BY <3>1 DEF Surviving
        <4> QED
          BY <4>1, GoodLogCut
      <3>2. CASE UNCHANGED log
        BY <3>2
      <3> QED
        BY <1>3, <3>1, <3>2 DEF Restart
    <2> QED
      BY <1>3, <2>1 DEF Restart, Answering
  <1>4. CASE Undo
    <2>1. PICK k \in 0 .. Len(log) : log' = SubSeq(log, 1, k)
      BY <1>4, UndoCuts DEF Undo, GoodLog
    <2>2. GoodLog(log')
      BY <2>1, GoodLogCut
    <2> QED
      BY <1>4, <2>2, GoodLogWaits DEF Undo, turnVars
  <1>5. CASE Clear
    <2>1. GoodLog(<<>>)
      BY DEF GoodLog, Reaches
    <2> QED
      BY <1>5, <2>1, GoodLogWaits DEF Clear, turnVars
  <1>6. CASE Compact
    <2>1. PICK c \in CompactionOutcomes(log) : log' = c.log
      BY <1>6 DEF Compact, Compactions
    <2> QED
      BY <1>6, <2>1, GoodLogCompacted, GoodLogWaits DEF Compact, turnVars
  <1>7. CASE \E w \in writes : RestoreFile(w)
    BY <1>7, GoodLogWaits DEF RestoreFile, turnVars
  <1>8. CASE \E role \in driver.injects : Inject(role)
    BY <1>8, GoodLogWaits DEF Inject, turnVars
  <1> QED
    BY <1>1, <1>2, <1>3, <1>4, <1>5, <1>6, <1>7, <1>8 DEF Driver

LEMMA LogStarts == Init => LogInv
  <1> SUFFICES ASSUME Init PROVE LogInv
    OBVIOUS
  <1>1. log \in Seq(LogEvents) /\ \A j \in 1 .. Len(log) : log[j].n = 0
    BY LogsAssumption DEF Init
  <1>2. GoodLog(log)
    BY <1>1 DEF GoodLog, Reaches
  <1> QED
    BY <1>2 DEF Init, LogInv, Answering

LEMMA StepKeepsLog ==
    ASSUME LogInv, Queued, [Next]_vars
    PROVE  LogInv'
  <1>1. CASE UNCHANGED vars
    BY <1>1 DEF vars, turnVars, LogInv, GoodLog
  <1> QED
    BY <1>1, TurnKeepsLog, DriverKeepsLog DEF Next

-----------------------------------------------------------------------------
(* The two theorems. *)

\* The events up to a message of the user or a result, after which nothing was compacted.
LEMMA LaterRequest ==
    ASSUME NEW l \in Seq(LogEvents), NEW i \in 1 .. Len(l), l[i].kind \in {"UserMessage", "ToolResult"},
           \A j \in i .. Len(l) : l[j].kind # "Compaction"
    PROVE  Continues(Messages, Request(SubSeq(l, 1, i)), Request(l))
  <1> DEFINE p == SubSeq(l, 1, i)
  <1>1. p \in Seq(LogEvents) /\ Len(p) = i /\ Len(p) > 0 /\ Len(p) <= Len(l)
    BY PrefixOf
  <1>2. \A k \in 1 .. i : p[k] = l[k]
    BY PrefixOf
  <1> HIDE DEF p
  <1>3. ASSUME NEW k \in 1 .. Len(p) PROVE p[k] = l[k] /\ (k \in Suppressed(p) <=> k \in Suppressed(l))
    <2>1. k \in 1 .. Len(l)
      BY <1>1
    <2>2. \A j \in 1 .. Len(l) : l[j].kind = "Compaction" => j \in 1 .. Len(p) /\ p[j] = l[j]
      BY <1>1, <1>2
    <2>3. \A j \in 1 .. Len(p) : j \in 1 .. Len(l) /\ p[j] = l[j]
      BY <1>1, <1>2
    <2> QED
      BY <2>1, <2>2, <2>3 DEF Suppressed
  <1>4. Continues(Messages, Items(p), Items(l))
    BY <1>1, <1>3, ItemsLonger
  <1>5. Closed(Items(p))
    BY <1>1, <1>2, ItemsClosed
  <1> QED
    BY <1>4, <1>5, RequestLonger DEF p

LEMMA PrefixOfLonger ==
    ASSUME NEW S, NEW a, NEW b, Continues(S, a, b)
    PROVE  IsPrefix(a, b)
  <1>1. PICK r \in Seq(S) : b = a \o r
    BY DEF Continues
  <1>2. a \in Seq(S)
    BY DEF Continues
  <1>3. Len(a) <= Len(b) /\ SubSeq(a, 1, Len(a)) = SubSeq(b, 1, Len(a))
    BY <1>1, <1>2
  <1> QED
    BY <1>3 DEF IsPrefix

\* What the model was sent stays as it was sent: a request begins with the projection
\* of every earlier log that ended where a request can be sent, with no compaction
\* since, whatever was undone, cancelled, injected or cut short before, and whether or
\* not the backend sends ids.
THEOREM RequestsGrow == Spec => []RequestsOnlyGrow
  <1> DEFINE Inv == LogInv /\ Queued
  <1>1. Init => Inv
    BY LogStarts, QueueTyped
  <1>2. Inv /\ [Next]_vars => Inv'
    BY StepKeepsLog, QueueStaysTyped
  <1>3. Inv => RequestsOnlyGrow
    <2> SUFFICES ASSUME LogInv, NEW i \in Positions(log, {"UserMessage", "ToolResult"}),
                        Positions(log, {"Compaction"}) \cap i .. Len(log) = {}
                 PROVE  IsPrefix(Request(SubSeq(log, 1, i)), Request(log))
      BY DEF RequestsOnlyGrow
    <2>1. log \in Seq(LogEvents)
      BY DEF LogInv, GoodLog
    <2>2. i \in 1 .. Len(log) /\ log[i].kind \in {"UserMessage", "ToolResult"}
      BY DEF Positions
    <2>3. \A j \in i .. Len(log) : log[j].kind # "Compaction"
      BY <2>1, <2>2 DEF Positions
    <2>4. Continues(Messages, Request(SubSeq(log, 1, i)), Request(log))
      BY <2>1, <2>2, <2>3, LaterRequest
    <2> QED
      BY <2>4, PrefixOfLonger
  <1> HIDE DEF Inv
  <1> QED
    BY <1>1, <1>2, <1>3, PTL DEF Spec

LEMMA UsersInQueue ==
    ASSUME queue \in Seq({"user", "system"})
    PROVE  LET users == {k \in 1 .. Len(queue) : queue[k] = "user"}
           IN  Cardinality(users) \in Nat /\ Drained = [i \in 1 .. Cardinality(users) |-> UserMessage]
  <1> DEFINE users == {k \in 1 .. Len(queue) : queue[k] = "user"}
  <1>1. users = {k \in 1 .. Len(queue) : queue[k] # "system"}
    OBVIOUS
  <1>2. Drained = [i \in 1 .. Cardinality(users) |-> UserMessage]
    BY <1>1 DEF Drained
  <1>3. IsFiniteSet(1 .. Len(queue))
    BY FS_Interval
  <1>4. users \subseteq 1 .. Len(queue)
    OBVIOUS
  <1> HIDE DEF users
  <1>5. Cardinality(users) \in Nat
    BY <1>3, <1>4, FS_Subset, FS_CardinalityType
  <1> QED
    BY <1>2, <1>5 DEF users

LEMMA UsersAreSent ==
    ASSUME GoodLog(log), NEW n \in Nat
    PROVE  LET more == [i \in 1 .. n |-> UserMessage]
               r == Request(log)
               q == Request(log \o more)
           IN  /\ IsPrefix(r, q)
               /\ Cardinality({i \in Len(r) + 1 .. Len(q) : q[i].role = "user"}) = n
  <1> DEFINE m == [i \in 1 .. n |-> UserMessage]
             l == log \o m
             c == [k \in 1 .. Len(m) |-> Message(m[k])]
  <1>1. log \in Seq(LogEvents) /\ \A j \in 1 .. Len(log) : log[j].kind = "Compaction" => log[j].n < j
    BY DEF GoodLog, Reaches
  <1>2. m \in Seq(LogEvents) /\ Len(m) = n /\ \A k \in 1 .. n : m[k].kind = "UserMessage"
    BY PlainEvents
  <1> HIDE DEF m
  <1>3. /\ l \in Seq(LogEvents) /\ Len(l) = Len(log) + n /\ Len(log) \in Nat
        /\ \A i \in 1 .. Len(log) : l[i] = log[i]
        /\ \A i \in Len(log) + 1 .. Len(log) + n : l[i] = m[i - Len(log)]
    <2>1. log \in Seq(LogEvents) /\ m \in Seq(LogEvents) /\ Len(m) = n
      BY <1>1, <1>2
    <2>2. /\ l \in Seq(LogEvents) /\ Len(l) = Len(log) + Len(m)
          /\ \A i \in 1 .. Len(log) : l[i] = log[i]
          /\ \A i \in Len(log) + 1 .. Len(log) + Len(m) : l[i] = m[i - Len(log)]
      BY <2>1, Joined, Zenon
    <2>3. Len(log) \in Nat
      BY <2>1
    <2> QED
      BY <2>1, <2>2, <2>3, Zenon
  <1> HIDE DEF l
  <1>4. ASSUME NEW j \in 1 .. Len(l), l[j].kind = "Compaction"
        PROVE  j \in 1 .. Len(log) /\ l[j] = log[j]
    <2>1. CASE j <= Len(log)
      BY <1>3, <2>1
    <2>2. CASE j > Len(log)
      <3>1. j - Len(log) \in 1 .. n /\ l[j] = m[j - Len(log)]
        BY <1>3, <2>2
      <3> QED
        BY <1>2, <1>4, <3>1
    <2> QED
      BY <1>3, <2>1, <2>2
  <1>5. \A k \in 1 .. Len(log) : k \in Suppressed(log) <=> k \in Suppressed(l)
    <2>1. \A j \in 1 .. Len(log) : j \in 1 .. Len(l) /\ l[j] = log[j]
      BY <1>3
    <2> QED
      BY <1>4, <2>1 DEF Suppressed
  <1>6. \A k \in 1 .. Len(m) : m[k].kind \in Surfaced /\ Len(log) + k \notin Suppressed(l)
    <2>1. ASSUME NEW k \in 1 .. Len(m), NEW j \in 1 .. Len(l), l[j].kind = "Compaction",
                 Len(log) + k <= l[j].n
          PROVE  FALSE
      <3>1. j \in 1 .. Len(log) /\ l[j].n < j
        BY <1>1, <1>4, <2>1
      <3>2. l[j].n \in Nat
        <4>1. l[j] \in LogEvents
          BY <1>3
        <4> QED
          BY <4>1 DEF LogEvents
      <3> QED
        BY <1>2, <1>3, <2>1, <3>1, <3>2
    <2>2. \A k \in 1 .. Len(m) : m[k].kind \in Surfaced
      BY <1>2 DEF Surfaced
    <2> QED
      BY <2>1, <2>2 DEF Suppressed
  <1>7. Items(l) = Items(log) \o c
    BY <1>1, <1>2, <1>5, <1>6, ItemsMore DEF l
  <1>8. \A k \in 1 .. Len(m) : Message(m[k]) \in Messages /\ Message(m[k]).role = "user"
    <2>1. \A k \in 1 .. Len(m) : m[k] \in LogEvents /\ m[k].kind = "UserMessage"
      BY <1>2
    <2>2. \A k \in 1 .. Len(m) : Message(m[k]) \in Messages
      BY <2>1, MessageTyped DEF Surfaced
    <2>3. \A k \in 1 .. Len(m) : Message(m[k]).role = "user"
      BY <2>1 DEF Message, Role
    <2> QED
      BY <2>2, <2>3
  <1>9. c \in Seq(Messages) /\ Len(c) = n /\ \A k \in 1 .. Len(c) : c[k].role = "user"
    BY <1>2, <1>8
  <1>10. Items(log) \in Seq(Messages)
    <2>1. Len(log) \in Nat /\ Shown(log) \in [1 .. Len(log) -> Seq(Messages)] /\ Items(log) = FlattenSeq(Shown(log))
      BY <1>1, ItemsShown
    <2> QED
      BY <2>1, FlattenedTyped
  <1> HIDE DEF c
  <1>11. Request(log) \in Seq(Messages) /\ Request(l) = Request(log) \o c
    BY <1>7, <1>9, <1>10, RequestMore
  <1> DEFINE r == Request(log)
  <1>12. r \in Seq(Messages) /\ c \in Seq(Messages) /\ Len(c) = n /\ Request(l) = r \o c
    BY <1>9, <1>11
  <1> HIDE DEF r
  <1> DEFINE q == r \o c
  <1>13. /\ Len(q) = Len(r) + n /\ Len(r) \in Nat
         /\ \A i \in Len(r) + 1 .. Len(q) : q[i].role = "user"
    <2>1. /\ Len(q) = Len(r) + Len(c)
          /\ \A i \in Len(r) + 1 .. Len(r) + Len(c) : q[i] = c[i - Len(r)]
      BY <1>12, Joined, Zenon
    <2>3. Len(r) \in Nat
      BY <1>12
    <2>2. \A k \in 1 .. n : c[k].role = "user"
      BY <1>9
    <2> QED
      BY <1>12, <2>1, <2>2, <2>3
  <1>14. IsPrefix(r, q)
    <2>1. Continues(Messages, r, q)
      BY <1>12 DEF Continues
    <2> QED
      BY <2>1, PrefixOfLonger
  <1> HIDE DEF q
  <1>15. Cardinality({i \in Len(r) + 1 .. Len(q) : q[i].role = "user"}) = n
    <2>1. {i \in Len(r) + 1 .. Len(q) : q[i].role = "user"} = Len(r) + 1 .. Len(q)
      BY <1>13
    <2>2. Cardinality(Len(r) + 1 .. Len(q)) = n
      BY <1>13, FS_Interval
    <2> QED
      BY <2>1, <2>2
  <1> QED
    BY <1>12, <1>14, <1>15 DEF l, m, r, q

\* Every message of the user that waits in the queue is in the next request, once,
\* behind all that was sent before, and no other one is: no compaction hides it, no
\* filter drops it, no merging of messages swallows it.
THEOREM InjectedAreSent == Spec => InjectedReachTheModel
  <1> DEFINE Inv == LogInv /\ Queued
             Reached ==
               LET said == Request(log)
                   request == Request(log')
               IN  /\ IsPrefix(said, request)
                   /\ Cardinality({i \in Len(said) + 1 .. Len(request) : request[i].role = "user"})
                        = Cardinality({k \in 1 .. Len(queue) : queue[k] = "user"})
  <1>1. Init => Inv
    BY LogStarts, QueueTyped
  <1>2. Inv /\ [Next]_vars => Inv'
    BY StepKeepsLog, QueueStaysTyped
  <1>3. Inv => [SendRequest => Reached]_vars
    <2> SUFFICES ASSUME LogInv, Queued, SendRequest PROVE Reached
      OBVIOUS
    <2> DEFINE n == Cardinality({k \in 1 .. Len(queue) : queue[k] = "user"})
    <2>1. n \in Nat /\ Drained = [i \in 1 .. n |-> UserMessage]
      BY UsersInQueue DEF Queued
    <2>2. Request(log') = Request(log \o Drained)
      BY DEF SendRequest
    <2>3. GoodLog(log)
      BY DEF LogInv
    <2> HIDE DEF n
    <2> DEFINE r == Request(log)
               q == Request(log \o Drained)
    <2>4. /\ IsPrefix(r, q)
          /\ Cardinality({i \in Len(r) + 1 .. Len(q) : q[i].role = "user"}) = n
      BY <2>1, <2>3, UsersAreSent
    <2> QED
      BY <2>2, <2>4 DEF n
  <1> HIDE DEF Inv
  <1> QED
    BY <1>1, <1>2, <1>3, PTL DEF Spec, InjectedReachTheModel
-----------------------------------------------------------------------------
(* The rule of the chat APIs, in a session whose turns are only stopped:   *)
(* an assistant message with calls is followed by the answers to them.     *)

\* Message j is the answer to a call of message a: only tool messages are between them.
MetBy(u, a, id, j) ==
    /\ j \in a + 1 .. Len(u) /\ u[j].id = id
    /\ \A k \in a + 1 .. j : u[k].role = "tool"
AllMet(u) ==
    \A a \in 1 .. Len(u) : \A x \in 1 .. Len(u[a].calls) :
        \E j \in a + 1 .. Len(u) : MetBy(u, a, u[a].calls[x], j)

\* Only messages of the model have calls.
CallsOfModel(u) == \A a \in 1 .. Len(u) : u[a].calls # <<>> => u[a].role = "assistant"

\* What keeps all answers to the calls it keeps leaves them answered.
KeepsAnswers(u, kept) ==
    \A a \in kept : a \in 1 .. Len(u) =>
        \A x \in 1 .. Len(u[a].calls) : \A j \in 1 .. Len(u) : MetBy(u, a, u[a].calls[x], j) => j \in kept

LEMMA FilteredMet ==
    ASSUME NEW u \in Seq(Messages), AllMet(u), CallsOfModel(u), NEW kept, KeepsAnswers(u, kept)
    PROVE  LET r == Filtered(u, kept) IN r \in Seq(Messages) /\ AllMet(r) /\ CallsOfModel(r)
  <1> DEFINE n == Len(u)
             s == [i \in 1 .. Len(u) |-> IF i \in kept THEN <<u[i]>> ELSE <<>>]
             r == Filtered(u, kept)
             none == <<>>
  <1>1. n \in Nat /\ n = Len(u) /\ s \in [1 .. n -> Seq(Messages)] /\ r = FlattenSeq(s)
    BY FilteredTyped DEF Filtered
  <1>2. ASSUME NEW i \in 1 .. n
        PROVE  /\ Len(s[i]) <= 1 /\ (s[i] # none <=> i \in kept)
               /\ i \in kept => s[i][1] = u[i]
    <2>1. CASE i \in kept
      <3>1. s[i] = <<u[i]>>
        BY <2>1
      <3> QED
        BY <2>1, <3>1
    <2>2. CASE i \notin kept
      <3>1. s[i] = <<>>
        BY <2>2
      <3> QED
        BY <2>2, <3>1
    <2> QED
      BY <2>1, <2>2
  <1> HIDE DEF s, n, r
  <1>3. r \in Seq(Messages)
    BY <1>1, <1>2, FlattenedPlaces
  <1>4. PICK p \in [0 .. n -> Nat] : LandsAt(p, n, s, r)
    BY <1>1, <1>2, FlattenedPlaces
  <1>5. /\ p[0] = 0 /\ p[n] = Len(r)
        /\ \A k \in 1 .. n : k \in kept => p[k] = p[k - 1] + 1 /\ r[p[k]] = u[k]
    BY <1>2, <1>4 DEF LandsAt, none
  <1>6. ASSUME NEW i \in 0 .. n, NEW j \in i .. n
        PROVE  /\ p[i] <= p[j]
               /\ \A q \in p[i] + 1 .. p[j] : \E k \in i + 1 .. j : k \in kept /\ p[k] = q /\ r[q] = u[k]
    <2>1. p[i] <= p[j] /\ LandsBetween(p, s, r, i, j)
      BY <1>1, <1>4, PlacesBetween
    <2>2. \A k \in i + 1 .. j : k \in 1 .. n
      BY <1>1
    <2>3. \A k \in i + 1 .. j : (s[k] # none <=> k \in kept) /\ (k \in kept => s[k][1] = u[k])
      BY <1>2, <2>2
    <2> HIDE DEF none
    <2>4. \A q \in p[i] + 1 .. p[j] : \E k \in i + 1 .. j : s[k] # none /\ p[k] = q /\ r[q] = s[k][1]
      BY <2>1 DEF LandsBetween, none
    <2> QED
      BY <2>1, <2>3, <2>4
  <1>7. ASSUME NEW q \in 1 .. Len(r)
        PROVE  \E k \in 1 .. n : k \in kept /\ p[k] = q /\ r[q] = u[k]
    <2>1. 0 \in 0 .. n /\ n \in 0 .. n /\ q \in p[0] + 1 .. p[n]
      BY <1>1, <1>5
    <2>2. \E k \in 0 + 1 .. n : k \in kept /\ p[k] = q /\ r[q] = u[k]
      BY <1>6, <2>1
    <2> QED
      BY <2>2
  <1>8. ASSUME NEW q \in 1 .. Len(r), NEW x \in 1 .. Len(r[q].calls)
        PROVE  \E j \in q + 1 .. Len(r) : MetBy(r, q, r[q].calls[x], j)
    <2>1. PICK a \in 1 .. n : a \in kept /\ p[a] = q /\ r[q] = u[a]
      BY <1>7
    <2>2. x \in 1 .. Len(u[a].calls)
      BY <2>1
    <2>3. PICK j \in a + 1 .. n : MetBy(u, a, u[a].calls[x], j)
      BY <1>1, <2>1, <2>2 DEF AllMet
    <2>4. u[j].id = u[a].calls[x] /\ \A k \in a + 1 .. j : u[k].role = "tool"
      BY <2>3 DEF MetBy
    <2>5. j \in 1 .. n /\ j - 1 \in a .. n /\ a \in 0 .. n /\ j \in a .. n /\ j \in 0 .. n
      BY <1>1
    <2>6. j \in kept
      BY <1>1, <2>1, <2>2, <2>3, <2>5 DEF KeepsAnswers
    <2>7. p[j] = p[j - 1] + 1 /\ r[p[j]] = u[j]
      BY <1>5, <2>5, <2>6
    <2>8. p[a] <= p[j - 1]
      BY <1>6, <2>5
    <2>9. p[j] <= p[n]
      <3>1. n \in j .. n
        BY <1>1, <2>5
      <3> QED
        BY <1>6, <2>5, <3>1
    <2>10. p[j] \in Nat /\ p[j - 1] \in Nat /\ p[a] \in Nat /\ p[n] \in Nat
      <3>1. j - 1 \in 0 .. n /\ n \in 0 .. n
        BY <1>1, <2>5
      <3> QED
        BY <2>5, <3>1
    <2>11. p[j] \in q + 1 .. Len(r)
      BY <1>5, <2>1, <2>7, <2>8, <2>9, <2>10
    <2>12. ASSUME NEW y \in q + 1 .. p[j] PROVE r[y].role = "tool"
      <3>1. y \in p[a] + 1 .. p[j]
        BY <2>1
      <3>2. PICK k \in a + 1 .. j : r[y] = u[k]
        BY <1>6, <2>5, <3>1
      <3> QED
        BY <2>4, <3>2
    <2>13. r[p[j]].id = r[q].calls[x]
      BY <2>1, <2>4, <2>7
    <2>14. MetBy(r, q, r[q].calls[x], p[j])
      BY <2>11, <2>12, <2>13 DEF MetBy
    <2> QED
      BY <2>11, <2>14
  <1>9. ASSUME NEW q \in 1 .. Len(r), r[q].calls # <<>> PROVE r[q].role = "assistant"
    <2>1. PICK a \in 1 .. n : r[q] = u[a]
      BY <1>7
    <2> QED
      BY <1>1, <1>9, <2>1 DEF CallsOfModel
  <1>10. AllMet(r) /\ CallsOfModel(r)
    BY <1>8, <1>9 DEF AllMet, CallsOfModel
  <1> QED
    BY <1>3, <1>10 DEF r

\* Both filters do: an answer is anchored at the message it answers, and none is a
\* system message.
LEMMA AnswersKept ==
    ASSUME NEW u \in Seq(Messages), CallsOfModel(u)
    PROVE  KeepsAnswers(u, Anchoring(u)) /\ KeepsAnswers(u, Spoken(u))
  <1>1. ASSUME NEW a \in 1 .. Len(u), NEW x \in 1 .. Len(u[a].calls), NEW j \in 1 .. Len(u),
               MetBy(u, a, u[a].calls[x], j)
        PROVE  Anchored(u, j) /\ u[j].role = "tool"
    <2>1. /\ j \in a + 1 .. Len(u) /\ u[j].id = u[a].calls[x]
          /\ \A k \in a + 1 .. j : u[k].role = "tool"
      BY <1>1 DEF MetBy
    <2>2. u[a].role = "assistant"
      <3>1. u[a].calls # <<>>
        OBVIOUS
      <3> QED
        BY <3>1 DEF CallsOfModel
    <2>3. a \in 1 .. j - 1 /\ j \in a + 1 .. j
      BY <2>1
    <2>4. \A k \in a + 1 .. j - 1 : u[k].role # "assistant"
      BY <2>1
    <2>5. Anchored(u, j)
      BY <2>1, <2>2, <2>3, <2>4 DEF Anchored
    <2> QED
      BY <2>1, <2>3, <2>5
  <1> QED
    BY <1>1 DEF KeepsAnswers, Anchoring, Spoken

\* The call at i of a log and its answer at j: calls up to m, then results.
Straight(l, i, m, j) ==
    /\ l[j].id = l[i].id
    /\ \A k \in i .. m : l[k].kind = "ToolCall"
    /\ \A k \in m + 1 .. j : l[k].kind = "ToolResult"
AnsweredNext(l, i) == \E j \in i + 1 .. Len(l) : \E m \in i .. j - 1 : Straight(l, i, m, j)
AllAnswered(l) == \A i \in 1 .. Len(l) : l[i].kind = "ToolCall" => AnsweredNext(l, i)

\* The same of messages that are not yet put together.
Runs(u, a, id, m, j) ==
    /\ u[j].id = id
    /\ \A k \in a .. m : u[k].role = "assistant"
    /\ \A k \in m + 1 .. j : u[k].role = "tool"
RunsOn(u, a, id) == \E j \in a + 1 .. Len(u) : \E m \in a .. j - 1 : Runs(u, a, id, m, j)
AllRunOn(u) == \A a \in 1 .. Len(u) : \A x \in 1 .. Len(u[a].calls) : RunsOn(u, a, u[a].calls[x])

\* The message of an event.
LEMMA MessageOf ==
    ASSUME NEW ev \in LogEvents, ev.kind \in Surfaced
    PROVE  /\ Message(ev).calls # <<>> =>
                ev.kind = "ToolCall" /\ Len(Message(ev).calls) = 1 /\ Message(ev).calls[1] = ev.id
           /\ ev.kind = "ToolCall" => Message(ev).role = "assistant"
           /\ ev.kind = "ToolResult" => Message(ev).role = "tool" /\ Message(ev).id = ev.id
  <1> DEFINE one == <<ev.id>>
             none == <<>>
  <1>1. Len(one) = 1 /\ one[1] = ev.id
    OBVIOUS
  <1>2. Message(ev).calls = IF ev.kind = "ToolCall" THEN one ELSE none
    BY DEF Message
  <1>3. /\ ev.kind = "ToolCall" => Message(ev).role = "assistant"
        /\ ev.kind = "ToolResult" => Message(ev).role = "tool" /\ Message(ev).id = ev.id
    BY DEF Message, Role
  <1> HIDE DEF one
  <1>4. Message(ev).calls # none => ev.kind = "ToolCall" /\ Message(ev).calls = one
    BY <1>2
  <1> QED
    BY <1>1, <1>3, <1>4

LEMMA ItemsRunOn ==
    ASSUME NEW l \in Seq(LogEvents), AllAnswered(l)
    PROVE  Items(l) \in Seq(Messages) /\ AllRunOn(Items(l)) /\ CallsOfModel(Items(l))
  <1> DEFINE n == Len(l)
             s == Shown(l)
             r == Items(l)
             none == <<>>
             Kept(i) == i \notin Suppressed(l) /\ l[i].kind \in Surfaced
  <1>1. n \in Nat /\ n = Len(l) /\ s \in [1 .. n -> Seq(Messages)] /\ r = FlattenSeq(s)
    BY ItemsShown
  <1>2. ASSUME NEW i \in 1 .. n
        PROVE  /\ Len(s[i]) <= 1 /\ (s[i] # none <=> Kept(i))
               /\ Kept(i) => s[i][1] = Message(l[i])
               /\ l[i] \in LogEvents
    <2>1. CASE Kept(i)
      <3>1. s[i] = <<Message(l[i])>>
        BY <2>1 DEF Shown
      <3> QED
        BY <2>1, <3>1
    <2>2. CASE ~Kept(i)
      <3>1. s[i] = <<>>
        BY <2>2 DEF Shown
      <3> QED
        BY <2>2, <3>1
    <2> QED
      BY <2>1, <2>2
  <1>3. ASSUME NEW a \in 1 .. n, NEW k \in a .. n, a \notin Suppressed(l), l[k].kind \in Surfaced
        PROVE  Kept(k)
    <2>1. ASSUME k \in Suppressed(l) PROVE FALSE
      <3>1. PICK j \in 1 .. Len(l) : /\ l[j].kind = "Compaction" /\ l[j].n >= MinCompactionRange
                                     /\ k <= l[j].n
        BY <2>1 DEF Suppressed
      <3>2. l[j].n \in Nat
        <4>1. l[j] \in LogEvents
          BY <3>1
        <4> QED
          BY <4>1, Zenon DEF LogEvents
      <3>3. a <= l[j].n
        BY <3>1, <3>2
      <3> QED
        BY <1>3, <3>1, <3>3 DEF Suppressed
    <2> QED
      BY <1>3, <2>1
  <1> HIDE DEF s, n, r, Kept
  <1>4. r \in Seq(Messages)
    BY <1>1, <1>2, FlattenedPlaces
  <1>5. PICK p \in [0 .. n -> Nat] : LandsAt(p, n, s, r)
    BY <1>1, <1>2, FlattenedPlaces
  <1>6. /\ p[0] = 0 /\ p[n] = Len(r)
        /\ \A k \in 1 .. n : Kept(k) => p[k] = p[k - 1] + 1 /\ r[p[k]] = Message(l[k])
    BY <1>2, <1>5 DEF LandsAt, none
  <1>7. ASSUME NEW i \in 0 .. n, NEW j \in i .. n
        PROVE  /\ p[i] <= p[j]
               /\ \A q \in p[i] + 1 .. p[j] : \E k \in i + 1 .. j : Kept(k) /\ p[k] = q /\ r[q] = Message(l[k])
    <2>1. p[i] <= p[j] /\ LandsBetween(p, s, r, i, j)
      BY <1>1, <1>5, PlacesBetween
    <2>2. \A k \in i + 1 .. j : k \in 1 .. n
      BY <1>1
    <2>3. \A k \in i + 1 .. j : (s[k] # none <=> Kept(k)) /\ (Kept(k) => s[k][1] = Message(l[k]))
      BY <1>2, <2>2
    <2> HIDE DEF none
    <2>4. \A q \in p[i] + 1 .. p[j] : \E k \in i + 1 .. j : s[k] # none /\ p[k] = q /\ r[q] = s[k][1]
      BY <2>1 DEF LandsBetween, none
    <2> QED
      BY <2>1, <2>3, <2>4
  <1>8. ASSUME NEW q \in 1 .. Len(r)
        PROVE  \E k \in 1 .. n : Kept(k) /\ p[k] = q /\ r[q] = Message(l[k])
    <2>1. 0 \in 0 .. n /\ n \in 0 .. n /\ q \in p[0] + 1 .. p[n]
      BY <1>1, <1>6
    <2>2. \E k \in 0 + 1 .. n : Kept(k) /\ p[k] = q /\ r[q] = Message(l[k])
      BY <1>7, <2>1
    <2> QED
      BY <2>2
  <1>9. ASSUME NEW q \in 1 .. Len(r), NEW x \in 1 .. Len(r[q].calls)
        PROVE  RunsOn(r, q, r[q].calls[x])
    <2>1. PICK a \in 1 .. n : Kept(a) /\ p[a] = q /\ r[q] = Message(l[a])
      BY <1>8
    <2>2. l[a] \in LogEvents /\ l[a].kind \in Surfaced /\ a \notin Suppressed(l)
      BY <1>2, <2>1 DEF Kept
    <2>3. r[q].calls # none
      OBVIOUS
    <2>4. l[a].kind = "ToolCall" /\ r[q].role = "assistant" /\ r[q].calls[x] = l[a].id
      <3>1. l[a].kind = "ToolCall" /\ Len(r[q].calls) = 1 /\ r[q].calls[1] = l[a].id /\ r[q].role = "assistant"
        BY <2>1, <2>2, <2>3, MessageOf
      <3>2. x = 1
        BY <3>1
      <3> QED
        BY <3>1, <3>2
    <2>5. PICK j \in a + 1 .. n, m \in a .. n : m <= j - 1 /\ Straight(l, a, m, j)
      <3>1. AnsweredNext(l, a)
        BY <1>1, <2>4 DEF AllAnswered
      <3>2. PICK j \in a + 1 .. n : \E m \in a .. j - 1 : Straight(l, a, m, j)
        BY <1>1, <3>1 DEF AnsweredNext
      <3>3. PICK m \in a .. j - 1 : Straight(l, a, m, j)
        BY <3>2
      <3>4. m \in a .. n /\ m <= j - 1
        BY <1>1
      <3> QED
        BY <3>3, <3>4
    <2>6. /\ l[j].id = l[a].id
          /\ \A k \in a .. m : l[k].kind = "ToolCall"
          /\ \A k \in m + 1 .. j : l[k].kind = "ToolResult"
      BY <2>5 DEF Straight
    <2>7. /\ a \in 0 .. n /\ m \in 0 .. n /\ j \in 0 .. n /\ j \in 1 .. n
          /\ m \in a .. n /\ j \in m .. n /\ j - 1 \in m .. n /\ j - 1 \in 0 .. n /\ j \in m + 1 .. j
          /\ n \in j .. n /\ n \in 0 .. n
      BY <1>1, <2>5
    <2>8. \A k \in a .. n : l[k].kind \in Surfaced => Kept(k)
      BY <1>3, <2>2
    <2>9. Kept(j) /\ l[j].kind = "ToolResult"
      <3>1. l[j].kind = "ToolResult" /\ j \in a .. n
        BY <2>6, <2>7
      <3> QED
        BY <2>8, <3>1 DEF Surfaced
    <2>10. p[j] = p[j - 1] + 1 /\ r[p[j]] = Message(l[j])
      BY <1>6, <2>7, <2>9
    <2>11. p[a] <= p[m] /\ p[m] <= p[j - 1] /\ p[j] <= p[n]
      BY <1>7, <2>7
    <2>12. p[a] \in Nat /\ p[m] \in Nat /\ p[j - 1] \in Nat /\ p[j] \in Nat /\ p[n] \in Nat
      BY <2>7
    <2>13. p[j] \in q + 1 .. Len(r) /\ p[m] \in q .. p[j] - 1
      BY <1>6, <2>1, <2>10, <2>11, <2>12
    <2>14. ASSUME NEW y \in q .. p[m] PROVE r[y].role = "assistant"
      <3>1. CASE y = q
        BY <2>4, <3>1
      <3>2. CASE y # q
        <4>1. y \in p[a] + 1 .. p[m]
          BY <2>1, <2>12, <3>2
        <4>2. PICK k \in a + 1 .. m : Kept(k) /\ r[y] = Message(l[k])
          BY <1>7, <2>7, <4>1
        <4>3. k \in a .. m /\ k \in 1 .. n
          BY <2>7
        <4>4. l[k].kind = "ToolCall" /\ l[k] \in LogEvents /\ l[k].kind \in Surfaced
          BY <1>2, <2>6, <4>2, <4>3 DEF Kept
        <4> QED
          BY <4>2, <4>4, MessageOf
      <3> QED
        BY <3>1, <3>2
    <2>15. ASSUME NEW y \in p[m] + 1 .. p[j] PROVE r[y].role = "tool"
      <3>1. PICK k \in m + 1 .. j : Kept(k) /\ r[y] = Message(l[k])
        BY <1>7, <2>7
      <3>2. k \in 1 .. n
        BY <2>7
      <3>3. l[k].kind = "ToolResult" /\ l[k] \in LogEvents /\ l[k].kind \in Surfaced
        BY <1>2, <2>6, <3>1, <3>2 DEF Kept
      <3> QED
        BY <3>1, <3>3, MessageOf
    <2>16. r[p[j]].id = r[q].calls[x]
      <3>1. l[j] \in LogEvents /\ l[j].kind \in Surfaced
        BY <1>2, <2>7, <2>9 DEF Kept
      <3>2. Message(l[j]).id = l[j].id
        BY <2>9, <3>1, MessageOf
      <3> QED
        BY <2>4, <2>6, <2>10, <3>2
    <2>17. Runs(r, q, r[q].calls[x], p[m], p[j])
      BY <2>14, <2>15, <2>16 DEF Runs
    <2> QED
      BY <2>13, <2>17 DEF RunsOn
  <1>10. ASSUME NEW q \in 1 .. Len(r), r[q].calls # none PROVE r[q].role = "assistant"
    <2>1. PICK a \in 1 .. n : Kept(a) /\ r[q] = Message(l[a])
      BY <1>8
    <2>2. l[a] \in LogEvents /\ l[a].kind \in Surfaced
      BY <1>2, <2>1 DEF Kept
    <2> QED
      BY <1>10, <2>1, <2>2, MessageOf
  <1>11. AllRunOn(r) /\ CallsOfModel(r)
    BY <1>9, <1>10 DEF AllRunOn, CallsOfModel, none
  <1> QED
    BY <1>4, <1>11 DEF r

\* While the first k items are put together, the messages so far have the answers to
\* their calls, or those are still to come, with nothing in between.
Coming(items, k, id, m, j) ==
    /\ items[j].id = id
    /\ \A y \in k + 1 .. m : items[y].role = "assistant"
    /\ \A y \in m + 1 .. j : items[y].role = "tool"
AwaitedFrom(items, g, k, a, id) ==
    /\ \A y \in a + 1 .. Len(g) : g[y].role = "tool"
    /\ \E j \in k + 1 .. Len(items) : \E m \in k .. j - 1 :
         Coming(items, k, id, m, j) /\ (a < Len(g) => m = k)
MetOrToCome(items, g, k) ==
    \A a \in 1 .. Len(g) : \A x \in 1 .. Len(g[a].calls) :
        \/ \E j \in a + 1 .. Len(g) : MetBy(g, a, g[a].calls[x], j)
        \/ AwaitedFrom(items, g, k, a, g[a].calls[x])

\* The calls of a new item are answered by items to come.
LEMMA RunsAhead ==
    ASSUME NEW items \in Seq(Messages), NEW k \in 1 .. Len(items), NEW id, RunsOn(items, k, id),
           NEW g \in Seq(Messages)
    PROVE  AwaitedFrom(items, g, k, Len(g), id)
  <1>1. PICK j \in k + 1 .. Len(items) : \E m \in k .. j - 1 : Runs(items, k, id, m, j)
    BY DEF RunsOn
  <1>2. PICK m \in k .. j - 1 : Runs(items, k, id, m, j)
    BY <1>1
  <1>3. Coming(items, k, id, m, j)
    BY <1>2 DEF Runs, Coming
  <1>4. Len(g) \in Nat /\ ~(Len(g) < Len(g))
    OBVIOUS
  <1>5. \A y \in Len(g) + 1 .. Len(g) : g[y].role = "tool"
    BY <1>4
  <1> QED
    BY <1>3, <1>4, <1>5 DEF AwaitedFrom

\* Joined, for a sequence that has a name.
LEMMA PartsOf ==
    ASSUME NEW S, NEW a \in Seq(S), NEW b \in Seq(S), NEW t, t = a \o b
    PROVE  /\ Len(t) = Len(a) + Len(b) /\ Len(a) \in Nat /\ Len(b) \in Nat
           /\ \A z \in 1 .. Len(a) : t[z] = a[z]
           /\ \A z \in 1 .. Len(b) : t[Len(a) + z] = b[z]
  <1>1. Len(t) = Len(a) + Len(b) /\ Len(a) \in Nat /\ Len(b) \in Nat
    OBVIOUS
  <1>2. \A z \in 1 .. Len(a) : t[z] = a[z]
    OBVIOUS
  <1>3. \A z \in 1 .. Len(b) : t[Len(a) + z] = b[z]
    OBVIOUS
  <1> QED
    BY <1>1, <1>2, <1>3

\* The item is put together with the last message.
LEMMA MetMerged ==
    ASSUME NEW items \in Seq(Messages), NEW k \in 1 .. Len(items), AllRunOn(items),
           NEW g \in Seq(Messages), MetOrToCome(items, g, k - 1), CallsOfModel(g),
           Len(g) > 0, items[k].role = "assistant", g[Len(g)].role = "assistant"
    PROVE  MetOrToCome(items, Absorb(g, items[k]), k) /\ CallsOfModel(Absorb(g, items[k]))
  <1> DEFINE n == Len(g)
             item == items[k]
             old == g[n].calls
             to == [g[n] EXCEPT !.calls = @ \o item.calls]
             h == [g EXCEPT ![n] = to]
  <1>1. n \in Nat /\ n \in 1 .. n /\ g[n] \in Messages /\ item \in Messages
    OBVIOUS
  <1>2. old \in Seq(IdKinds \X Nat) /\ item.calls \in Seq(IdKinds \X Nat)
    BY <1>1 DEF Messages
  <1>3. to \in Messages /\ to.role = "assistant" /\ to.calls = old \o item.calls
    <2>1. old \o item.calls \in Seq(IdKinds \X Nat)
      BY <1>2
    <2> QED
      BY <1>1, <2>1 DEF Messages
  <1>4. Absorb(g, item) = h
    BY DEF Absorb
  <1> HIDE DEF to
  <1>5. h \in Seq(Messages) /\ Len(h) = n /\ h[n] = to /\ \A a \in 1 .. n : a # n => h[a] = g[a]
    BY <1>1, <1>3
  <1> HIDE DEF h, n
  <1>6. CallsOfModel(h)
    BY <1>1, <1>3, <1>5 DEF CallsOfModel, n
  <1>7. ASSUME NEW a \in 1 .. n, a # n, NEW x \in 1 .. Len(h[a].calls)
        PROVE  \E j \in a + 1 .. n : MetBy(h, a, h[a].calls[x], j)
    <2>1. h[a] = g[a]
      BY <1>5, <1>7
    <2>2. ~AwaitedFrom(items, g, k - 1, a, g[a].calls[x])
      <3>1. n \in a + 1 .. Len(g) /\ g[n].role # "tool"
        BY <1>1, <1>7 DEF n
      <3> QED
        BY <3>1 DEF AwaitedFrom
    <2>3. PICK j \in a + 1 .. n : MetBy(g, a, g[a].calls[x], j)
      BY <2>1, <2>2 DEF MetOrToCome, n
    <2>4. g[j].id = g[a].calls[x] /\ \A y \in a + 1 .. j : g[y].role = "tool"
      BY <2>3 DEF MetBy
    <2>5. j # n
      <3>1. j \in a + 1 .. j
        OBVIOUS
      <3> QED
        BY <2>4, <3>1 DEF n
    <2>6. \A y \in a + 1 .. j : y \in 1 .. n /\ y # n
      <3>1. n \in Nat /\ a \in Nat /\ 1 <= a /\ j \in Nat /\ j < n
        BY <1>1, <2>5
      <3>2. ASSUME NEW y \in a + 1 .. j PROVE y \in 1 .. n /\ y # n
        <4>1. y \in Nat /\ a + 1 <= y /\ y <= j
          BY <3>1
        <4>2. 1 <= y /\ y < n
          BY <3>1, <4>1
        <4> QED
          BY <3>1, <4>1, <4>2
      <3> QED
        BY <3>2
    <2>7. \A y \in a + 1 .. j : h[y] = g[y]
      BY <1>5, <2>6
    <2>8. j \in a + 1 .. j /\ j \in a + 1 .. Len(h)
      BY <1>5
    <2>9. MetBy(h, a, h[a].calls[x], j)
      BY <2>1, <2>4, <2>7, <2>8 DEF MetBy
    <2> QED
      BY <2>9
  <1>8. ASSUME NEW x \in 1 .. Len(to.calls) PROVE AwaitedFrom(items, h, k, n, to.calls[x])
    <2> DEFINE new == item.calls
    <2> HIDE DEF new, old
    <2>a. old \in Seq(IdKinds \X Nat) /\ new \in Seq(IdKinds \X Nat) /\ to.calls = old \o new
      BY <1>2, <1>3 DEF new
    <2>0. /\ Len(to.calls) = Len(old) + Len(new) /\ Len(old) \in Nat /\ Len(new) \in Nat
          /\ \A z \in 1 .. Len(old) : to.calls[z] = old[z]
          /\ \A z \in 1 .. Len(new) : to.calls[Len(old) + z] = new[z]
      <3> DEFINE Ids == IdKinds \X Nat
                 both == to.calls
      <3>1. old \in Seq(Ids) /\ new \in Seq(Ids) /\ both = old \o new
        BY <2>a
      <3> HIDE DEF Ids, both
      <3>2. /\ Len(both) = Len(old) + Len(new) /\ Len(old) \in Nat /\ Len(new) \in Nat
            /\ \A z \in 1 .. Len(old) : both[z] = old[z]
            /\ \A z \in 1 .. Len(new) : both[Len(old) + z] = new[z]
        BY <3>1, PartsOf
      <3> QED
        BY <3>2 DEF both
    <2>1. CASE x \in 1 .. Len(old)
      <3>1. to.calls[x] = old[x]
        BY <2>0, <2>1
      <3>2. AwaitedFrom(items, g, k - 1, n, old[x])
        <4>1. ~\E j \in n + 1 .. Len(g) : MetBy(g, n, g[n].calls[x], j)
          BY <1>1 DEF n
        <4> QED
          BY <1>1, <2>1, <4>1 DEF MetOrToCome, n, old
      <3>3. PICK j \in (k - 1) + 1 .. Len(items) : \E m \in k - 1 .. j - 1 :
              Coming(items, k - 1, old[x], m, j)
        BY <3>2 DEF AwaitedFrom
      <3>b. PICK m \in k - 1 .. j - 1 : Coming(items, k - 1, old[x], m, j)
        BY <3>3
      <3>4. /\ items[j].id = old[x]
            /\ \A y \in (k - 1) + 1 .. m : items[y].role = "assistant"
            /\ \A y \in m + 1 .. j : items[y].role = "tool"
        BY <3>b DEF Coming
      <3>5. m # k - 1
        <4>1. ASSUME m = k - 1 PROVE FALSE
          <5>1. k \in m + 1 .. j
            BY <4>1
          <5>2. items[k].role = "tool"
            BY <3>4, <5>1
          <5> QED
            BY <5>2
        <4> QED
          BY <4>1
      <3>6. m \in k .. j - 1 /\ j \in k + 1 .. Len(items)
        BY <3>5
      <3>7. Coming(items, k, old[x], m, j)
        <4>1. \A y \in k + 1 .. m : y \in (k - 1) + 1 .. m
          OBVIOUS
        <4> QED
          BY <3>4, <4>1 DEF Coming
      <3>8. \A y \in n + 1 .. Len(h) : h[y].role = "tool"
        BY <1>1, <1>5
      <3>9. ~(n < Len(h))
        BY <1>1, <1>5
      <3> QED
        BY <3>1, <3>6, <3>7, <3>8, <3>9 DEF AwaitedFrom
    <2>2. CASE x \notin 1 .. Len(old)
      <3> DEFINE z == x - Len(old)
      <3>1. z \in 1 .. Len(new) /\ Len(old) + z = x
        BY <2>0, <2>2
      <3> HIDE DEF z
      <3>2. to.calls[x] = new[z]
        BY <2>0, <3>1
      <3>3. RunsOn(items, k, new[z])
        BY <3>1 DEF AllRunOn, new
      <3>4. AwaitedFrom(items, h, k, Len(h), new[z])
        BY <1>5, <3>3, RunsAhead
      <3> QED
        BY <1>5, <3>2, <3>4
    <2> QED
      BY <2>1, <2>2
  <1>9. MetOrToCome(items, h, k)
    <2> SUFFICES ASSUME NEW a \in 1 .. Len(h), NEW x \in 1 .. Len(h[a].calls)
                 PROVE  \/ \E j \in a + 1 .. Len(h) : MetBy(h, a, h[a].calls[x], j)
                        \/ AwaitedFrom(items, h, k, a, h[a].calls[x])
      BY DEF MetOrToCome
    <2>1. CASE a = n
      BY <1>5, <1>8, <2>1
    <2>2. CASE a # n
      BY <1>5, <1>7, <2>2
    <2> QED
      BY <2>1, <2>2
  <1> QED
    BY <1>4, <1>6, <1>9

\* The item follows as a message of its own.
LEMMA MetAppended ==
    ASSUME NEW items \in Seq(Messages), NEW k \in 1 .. Len(items), AllRunOn(items), CallsOfModel(items),
           NEW g \in Seq(Messages), MetOrToCome(items, g, k - 1), CallsOfModel(g),
           ~(Len(g) > 0 /\ items[k].role = "assistant" /\ g[Len(g)].role = "assistant")
    PROVE  MetOrToCome(items, Absorb(g, items[k]), k) /\ CallsOfModel(Absorb(g, items[k]))
  <1> DEFINE n == Len(g)
             item == items[k]
             h == Append(g, item)
  <1>1. n \in Nat /\ item \in Messages /\ Absorb(g, item) = h
    BY DEF Absorb
  <1>2. h \in Seq(Messages) /\ Len(h) = n + 1 /\ h[n + 1] = item /\ \A a \in 1 .. n : h[a] = g[a]
    OBVIOUS
  <1> HIDE DEF h
  <1>3. ASSUME NEW a \in 1 .. n + 1, h[a].calls # <<>> PROVE h[a].role = "assistant"
    <2>1. CASE a = n + 1
      BY <1>2, <1>3, <2>1 DEF CallsOfModel
    <2>2. CASE a # n + 1
      <3>1. a \in 1 .. Len(g) /\ h[a] = g[a]
        BY <1>1, <1>2, <2>2
      <3> QED
        BY <1>3, <3>1 DEF CallsOfModel
    <2> QED
      BY <2>1, <2>2
  <1>4. CallsOfModel(h)
    BY <1>2, <1>3 DEF CallsOfModel
  <1> HIDE DEF n
  <1>5. ASSUME NEW a \in 1 .. n, NEW x \in 1 .. Len(h[a].calls)
        PROVE  \/ \E j \in a + 1 .. Len(h) : MetBy(h, a, h[a].calls[x], j)
               \/ AwaitedFrom(items, h, k, a, h[a].calls[x])
    <2> DEFINE id == g[a].calls[x]
    <2>1. h[a] = g[a] /\ x \in 1 .. Len(g[a].calls)
      BY <1>2
    <2> HIDE DEF id
    <2>2. CASE \E j \in a + 1 .. n : MetBy(g, a, id, j)
      <3>1. PICK j \in a + 1 .. n : MetBy(g, a, id, j)
        BY <2>2
      <3>2. g[j].id = id /\ \A y \in a + 1 .. j : g[y].role = "tool"
        BY <3>1 DEF MetBy
      <3>3. j \in a + 1 .. Len(h) /\ j \in a + 1 .. j /\ \A y \in a + 1 .. j : y \in 1 .. n
        BY <1>1, <1>2
      <3>4. \A y \in a + 1 .. j : h[y] = g[y]
        BY <1>2, <3>3
      <3>5. MetBy(h, a, id, j)
        BY <3>2, <3>3, <3>4 DEF MetBy
      <3> QED
        BY <2>1, <3>3, <3>5 DEF id
    <2>3. CASE AwaitedFrom(items, g, k - 1, a, id)
      <3>1. \A y \in a + 1 .. n : g[y].role = "tool"
        BY <2>3 DEF AwaitedFrom, n
      <3>2. PICK j \in (k - 1) + 1 .. Len(items) : \E m \in k - 1 .. j - 1 :
              Coming(items, k - 1, id, m, j) /\ (a < n => m = k - 1)
        BY <2>3 DEF AwaitedFrom, n
      <3>3. PICK m \in k - 1 .. j - 1 : Coming(items, k - 1, id, m, j) /\ (a < n => m = k - 1)
        BY <3>2
      <3>4. /\ items[j].id = id
            /\ \A y \in (k - 1) + 1 .. m : items[y].role = "assistant"
            /\ \A y \in m + 1 .. j : items[y].role = "tool"
        BY <3>3 DEF Coming
      <3>5. m = k - 1
        <4>1. CASE a < n
          BY <3>3, <4>1
        <4>2. CASE a = n
          <5>1. g[n].role = "assistant" /\ n > 0
            <6>1. g[n].calls # <<>> /\ n \in 1 .. Len(g) /\ n > 0
              BY <1>1, <2>1, <4>2 DEF n
            <6> QED
              BY <6>1 DEF CallsOfModel
          <5>2. items[k].role # "assistant"
            BY <5>1 DEF n
          <5>3. ASSUME m # k - 1 PROVE FALSE
            <6>1. k \in (k - 1) + 1 .. m
              BY <5>3
            <6> QED
              BY <3>4, <5>2, <6>1
          <5> QED
            BY <5>3
        <4> QED
          BY <1>1, <4>1, <4>2
      <3>6. items[k].role = "tool"
        <4>1. k \in m + 1 .. j
          BY <3>5
        <4> QED
          BY <3>4, <4>1
      <3>7. \A y \in a + 1 .. n + 1 : h[y].role = "tool"
        <4>1. ASSUME NEW y \in a + 1 .. n + 1, y # n + 1 PROVE y \in a + 1 .. n /\ y \in 1 .. n
          <5>1. n \in Nat /\ a \in Nat /\ 1 <= a /\ y \in Nat /\ a + 1 <= y /\ y <= n + 1
            BY <1>1
          <5>2. y <= n
            BY <4>1, <5>1
          <5> QED
            BY <5>1, <5>2
        <4> QED
          BY <1>2, <3>1, <3>6, <4>1
      <3>8. CASE j = k
        <4>1. n + 1 \in a + 1 .. Len(h) /\ h[n + 1].id = id
          BY <1>1, <1>2, <3>4, <3>8
        <4>2. MetBy(h, a, id, n + 1)
          BY <3>7, <4>1 DEF MetBy
        <4> QED
          BY <2>1, <4>1, <4>2 DEF id
      <3>9. CASE j # k
        <4>1. j \in k + 1 .. Len(items) /\ k \in k .. j - 1
          BY <3>9
        <4>2. \A y \in k + 1 .. j : y \in m + 1 .. j
          BY <3>5
        <4>3. \A y \in k + 1 .. k : items[y].role = "assistant"
          OBVIOUS
        <4>4. Coming(items, k, id, k, j)
          BY <3>4, <4>2, <4>3 DEF Coming
        <4>5. AwaitedFrom(items, h, k, a, id)
          BY <1>2, <3>7, <4>1, <4>4 DEF AwaitedFrom
        <4> QED
          BY <2>1, <4>5 DEF id
      <3> QED
        BY <3>8, <3>9
    <2>4. (\E j \in a + 1 .. n : MetBy(g, a, id, j)) \/ AwaitedFrom(items, g, k - 1, a, id)
      BY <2>1 DEF MetOrToCome, n, id
    <2> QED
      BY <2>2, <2>3, <2>4
  <1>6. ASSUME NEW x \in 1 .. Len(h[n + 1].calls) PROVE AwaitedFrom(items, h, k, n + 1, h[n + 1].calls[x])
    <2>1. x \in 1 .. Len(items[k].calls) /\ h[n + 1].calls[x] = items[k].calls[x]
      BY <1>2
    <2>2. RunsOn(items, k, items[k].calls[x])
      BY <2>1 DEF AllRunOn
    <2>3. AwaitedFrom(items, h, k, Len(h), items[k].calls[x])
      BY <1>2, <2>2, RunsAhead
    <2> QED
      BY <1>2, <2>1, <2>3
  <1>7. MetOrToCome(items, h, k)
    <2> SUFFICES ASSUME NEW a \in 1 .. Len(h), NEW x \in 1 .. Len(h[a].calls)
                 PROVE  \/ \E j \in a + 1 .. Len(h) : MetBy(h, a, h[a].calls[x], j)
                        \/ AwaitedFrom(items, h, k, a, h[a].calls[x])
      BY DEF MetOrToCome
    <2>1. CASE a = n + 1
      BY <1>6, <2>1
    <2>2. CASE a # n + 1
      <3>1. a \in 1 .. n
        BY <1>1, <1>2, <2>2
      <3> QED
        BY <1>5, <3>1
    <2> QED
      BY <2>1, <2>2
  <1> QED
    BY <1>1, <1>4, <1>7

LEMMA CoalescedMet ==
    ASSUME NEW items \in Seq(Messages), AllRunOn(items), CallsOfModel(items)
    PROVE  LET u == Coalesced(items) IN u \in Seq(Messages) /\ AllMet(u) /\ CallsOfModel(u)
  <1> DEFINE n == Len(items)
             none == <<>>
  <1>1. PICK f \in [0 .. n -> Seq(Messages)] : Coalesces(f, n, items)
    BY CoalescedSteps
  <1>2. f[0] = none /\ f[n] = Coalesced(items) /\ \A k \in 1 .. n : f[k] = Absorb(f[k - 1], items[k])
    BY <1>1 DEF Coalesces
  <1>3. n \in Nat /\ \A k \in 0 .. n : f[k] \in Seq(Messages)
    OBVIOUS
  <1>4. MetOrToCome(items, none, 0) /\ CallsOfModel(none)
    BY DEF MetOrToCome, CallsOfModel
  <1> HIDE DEF n, none
  <1> DEFINE Good == {k \in 0 .. n : MetOrToCome(items, f[k], k) /\ CallsOfModel(f[k])}
  <1>5. 0 \in Good
    BY <1>2, <1>3, <1>4
  <1>6. ASSUME NEW k \in 1 .. n, \A j \in 0 .. k - 1 : j \in Good PROVE k \in Good
    <2>0. k - 1 \in 0 .. k - 1 /\ k - 1 \in 0 .. n
      BY <1>3
    <2>1. MetOrToCome(items, f[k - 1], k - 1) /\ CallsOfModel(f[k - 1])
      BY <1>6, <2>0
    <2> DEFINE g == f[k - 1]
    <2>2. g \in Seq(Messages) /\ f[k] = Absorb(g, items[k]) /\ MetOrToCome(items, g, k - 1) /\ CallsOfModel(g)
      BY <1>2, <1>3, <2>0, <2>1
    <2>3. k \in 1 .. Len(items)
      BY DEF n
    <2> HIDE DEF g
    <2>4. MetOrToCome(items, f[k], k) /\ CallsOfModel(f[k])
      <3>1. CASE Len(g) > 0 /\ items[k].role = "assistant" /\ g[Len(g)].role = "assistant"
        BY <2>2, <2>3, <3>1, MetMerged
      <3>2. CASE ~(Len(g) > 0 /\ items[k].role = "assistant" /\ g[Len(g)].role = "assistant")
        BY <2>2, <2>3, <3>2, MetAppended
      <3> QED
        BY <3>1, <3>2
    <2> QED
      BY <2>4
  <1>7. 0 .. n \subseteq Good
    <2> HIDE DEF Good
    <2> QED
      BY <1>3, <1>5, <1>6, ForwardInduction
  <1> DEFINE u == Coalesced(items)
  <1>8. u = f[n] /\ u \in Seq(Messages) /\ MetOrToCome(items, f[n], n) /\ CallsOfModel(f[n])
    BY <1>2, <1>3, <1>7
  <1> HIDE DEF u
  <1>9. ASSUME NEW a \in 1 .. Len(u), NEW x \in 1 .. Len(u[a].calls)
        PROVE  \E j \in a + 1 .. Len(u) : MetBy(u, a, u[a].calls[x], j)
    <2>1. ~AwaitedFrom(items, u, n, a, u[a].calls[x])
      <3>1. n + 1 .. Len(items) = {}
        BY <1>3 DEF n
      <3> QED
        BY <3>1 DEF AwaitedFrom
    <2> QED
      BY <1>8, <2>1 DEF MetOrToCome
  <1> QED
    BY <1>8, <1>9 DEF AllMet, u

\* So in the request of a log with all calls answered next every call is followed by
\* its answer.
LEMMA AnsweredRequest ==
    ASSUME NEW l \in Seq(LogEvents), AllAnswered(l)
    PROVE  PairsCalls(Request(l))
  <1> DEFINE u == Coalesced(Items(l))
             derived == Filtered(u, Anchoring(u))
             r == Filtered(derived, Spoken(derived))
  <1>1. Items(l) \in Seq(Messages) /\ AllRunOn(Items(l)) /\ CallsOfModel(Items(l))
    BY ItemsRunOn
  <1>2. u \in Seq(Messages) /\ AllMet(u) /\ CallsOfModel(u)
    BY <1>1, CoalescedMet
  <1>3. Request(l) = r
    BY RequestPasses
  <1> HIDE DEF u
  <1>4. derived \in Seq(Messages) /\ AllMet(derived) /\ CallsOfModel(derived)
    BY <1>2, AnswersKept, FilteredMet
  <1> HIDE DEF derived
  <1>5. r \in Seq(Messages) /\ AllMet(r)
    BY <1>4, AnswersKept, FilteredMet
  <1> HIDE DEF r
  <1>6. ASSUME NEW a \in 1 .. Len(r), NEW id \in Range(r[a].calls) PROVE id \in AnswersTo(r, a)
    <2>1. r[a].calls \in Seq(IdKinds \X Nat)
      <3>1. r[a] \in Messages
        BY <1>5
      <3> QED
        BY <3>1 DEF Messages
    <2>2. PICK x \in 1 .. Len(r[a].calls) : r[a].calls[x] = id
      BY <2>1 DEF Range
    <2>3. PICK j \in a + 1 .. Len(r) : MetBy(r, a, id, j)
      BY <1>5, <2>2 DEF AllMet
    <2> QED
      BY <2>3 DEF MetBy, AnswersTo
  <1> QED
    BY <1>3, <1>6 DEF PairsCalls


\* Where the log is, a group of calls may still be open: only results follow it, and
\* what is not answered is still to be called.
StillOpen(l, i, cs) ==
    \E m \in i .. Len(l) : /\ \A k \in i .. m : l[k].kind = "ToolCall"
                           /\ \A k \in m + 1 .. Len(l) : l[k].kind = "ToolResult"
                           /\ \E q \in 1 .. Len(cs) : cs[q].id = l[i].id
Grouped(l, cs) ==
    \A i \in 1 .. Len(l) : l[i].kind = "ToolCall" => AnsweredNext(l, i) \/ StillOpen(l, i, cs)

LEMMA NothingOpen ==
    ASSUME NEW l, NEW cs
    PROVE  /\ AllAnswered(l) => Grouped(l, cs)
           /\ Grouped(l, cs) /\ cs = <<>> => AllAnswered(l)
  <1>1. ASSUME cs = <<>>, NEW i PROVE ~StillOpen(l, i, cs)
    <2>1. 1 .. Len(cs) = {}
      BY <1>1
    <2> QED
      BY <2>1 DEF StillOpen
  <1> QED
    BY <1>1 DEF AllAnswered, Grouped

LEMMA AnsweredStays ==
    ASSUME NEW l \in Seq(LogEvents), NEW m \in Seq(LogEvents), NEW i \in 1 .. Len(l), AnsweredNext(l, i)
    PROVE  AnsweredNext(l \o m, i)
  <1> DEFINE p == l \o m
  <1>1. /\ Len(p) = Len(l) + Len(m) /\ Len(l) \in Nat /\ Len(m) \in Nat
        /\ \A k \in 1 .. Len(l) : p[k] = l[k]
    BY Joined
  <1> HIDE DEF p
  <1>2. PICK j \in i + 1 .. Len(l) : \E x \in i .. j - 1 : Straight(l, i, x, j)
    BY DEF AnsweredNext
  <1>3. PICK x \in i .. j - 1 : Straight(l, i, x, j)
    BY <1>2
  <1>4. /\ l[j].id = l[i].id
        /\ \A k \in i .. x : l[k].kind = "ToolCall"
        /\ \A k \in x + 1 .. j : l[k].kind = "ToolResult"
    BY <1>3 DEF Straight
  <1>5. /\ \A k \in i .. x : k \in 1 .. Len(l)
        /\ \A k \in x + 1 .. j : k \in 1 .. Len(l)
        /\ i \in 1 .. Len(l) /\ j \in 1 .. Len(l) /\ j \in i + 1 .. Len(p)
    BY <1>1
  <1>6. Straight(p, i, x, j)
    BY <1>1, <1>4, <1>5 DEF Straight
  <1> QED
    BY <1>5, <1>6 DEF AnsweredNext, p

\* The log goes on without calls.
LEMMA LongerIsAnswered ==
    ASSUME NEW l \in Seq(LogEvents), AllAnswered(l), NEW m \in Seq(LogEvents),
           \A k \in 1 .. Len(m) : m[k].kind # "ToolCall"
    PROVE  AllAnswered(l \o m)
  <1> DEFINE p == l \o m
  <1>1. /\ Len(p) = Len(l) + Len(m) /\ Len(l) \in Nat /\ Len(m) \in Nat
        /\ \A k \in 1 .. Len(l) : p[k] = l[k]
        /\ \A k \in Len(l) + 1 .. Len(l) + Len(m) : p[k] = m[k - Len(l)]
    BY Joined
  <1> HIDE DEF p
  <1>2. ASSUME NEW i \in 1 .. Len(p), p[i].kind = "ToolCall" PROVE i \in 1 .. Len(l)
    <2>1. ASSUME i > Len(l) PROVE FALSE
      <3>1. i - Len(l) \in 1 .. Len(m) /\ p[i] = m[i - Len(l)]
        BY <1>1, <2>1
      <3> QED
        BY <1>2, <3>1
    <2> QED
      BY <1>1, <2>1
  <1>3. \A i \in 1 .. Len(l) : l[i].kind = "ToolCall" => AnsweredNext(p, i)
    BY AnsweredStays DEF AllAnswered, p
  <1> QED
    BY <1>1, <1>2, <1>3 DEF AllAnswered, p

\* Undo cuts between the groups: no user message is inside one.
LEMMA CutIsAnswered ==
    ASSUME NEW l \in Seq(LogEvents), AllAnswered(l), NEW k \in 0 .. Len(l),
           k # 0 => l[k].kind = "UserMessage"
    PROVE  AllAnswered(SubSeq(l, 1, k))
  <1> DEFINE p == SubSeq(l, 1, k)
  <1>1. Len(l) \in Nat /\ Len(p) = k /\ \A i \in 1 .. k : p[i] = l[i]
    BY PrefixOf
  <1> HIDE DEF p
  <1>2. ASSUME NEW i \in 1 .. k, p[i].kind = "ToolCall" PROVE AnsweredNext(p, i)
    <2>1. i \in 1 .. Len(l) /\ l[i].kind = "ToolCall"
      BY <1>1, <1>2
    <2>2. PICK j \in i + 1 .. Len(l) : \E x \in i .. j - 1 : Straight(l, i, x, j)
      BY <2>1 DEF AllAnswered, AnsweredNext
    <2>3. PICK x \in i .. j - 1 : Straight(l, i, x, j)
      BY <2>2
    <2>4. /\ l[j].id = l[i].id
          /\ \A y \in i .. x : l[y].kind = "ToolCall"
          /\ \A y \in x + 1 .. j : l[y].kind = "ToolResult"
      BY <2>3 DEF Straight
    <2>5. ~(k <= j)
      <3>1. k # 0 /\ l[k].kind = "UserMessage"
        OBVIOUS
      <3>2. k <= j => k \in i .. x \/ k \in x + 1 .. j
        OBVIOUS
      <3> QED
        BY <2>4, <3>1, <3>2
    <2>6. /\ \A y \in i .. x : y \in 1 .. k
          /\ \A y \in x + 1 .. j : y \in 1 .. k
          /\ j \in 1 .. k /\ j \in i + 1 .. Len(p)
      BY <1>1, <2>5
    <2>7. Straight(p, i, x, j)
      BY <1>1, <2>4, <2>6 DEF Straight
    <2> QED
      BY <2>6, <2>7 DEF AnsweredNext
  <1> QED
    BY <1>1, <1>2 DEF AllAnswered, p

\* The first open call is answered.
LEMMA AnswerIsNext ==
    ASSUME NEW l \in Seq(LogEvents), NEW cs \in Seq(CallsSet), cs # <<>>, Grouped(l, cs),
           NEW end \in LogEvents, end.kind = "ToolResult", end.id = Head(cs).id
    PROVE  Grouped(l \o << end >>, Tail(cs))
  <1> DEFINE one == << end >>
             p == l \o one
             rest == Tail(cs)
  <1>1. /\ one \in Seq(LogEvents) /\ Len(l) \in Nat /\ Len(p) = Len(l) + 1 /\ p[Len(l) + 1] = end
        /\ \A i \in 1 .. Len(l) : p[i] = l[i]
    OBVIOUS
  <1>2. /\ Len(cs) \in Nat /\ Len(rest) = Len(cs) - 1 /\ end.id = cs[1].id
        /\ \A q \in 1 .. Len(cs) - 1 : rest[q] = cs[q + 1]
    OBVIOUS
  <1>3. \A i \in 1 .. Len(l) : AnsweredNext(l, i) => AnsweredNext(p, i)
    BY <1>1, AnsweredStays
  <1> HIDE DEF one, p, rest
  <1>4. ASSUME NEW i \in 1 .. Len(l), StillOpen(l, i, cs)
        PROVE  AnsweredNext(p, i) \/ StillOpen(p, i, rest)
    <2>1. PICK m \in i .. Len(l) : /\ \A k \in i .. m : l[k].kind = "ToolCall"
                                   /\ \A k \in m + 1 .. Len(l) : l[k].kind = "ToolResult"
                                   /\ \E q \in 1 .. Len(cs) : cs[q].id = l[i].id
      BY <1>4 DEF StillOpen
    <2>2. PICK q \in 1 .. Len(cs) : cs[q].id = l[i].id
      BY <2>1
    <2>3. \A k \in i .. m : p[k].kind = "ToolCall"
      <3>1. \A k \in i .. m : k \in 1 .. Len(l)
        BY <1>1
      <3> QED
        BY <1>1, <2>1, <3>1
    <2>4. \A k \in m + 1 .. Len(l) + 1 : p[k].kind = "ToolResult"
      <3>1. m \in Nat /\ 1 <= m /\ m <= Len(l)
        BY <1>1
      <3>2. \A k \in m + 1 .. Len(l) + 1 : k = Len(l) + 1 \/ (k \in m + 1 .. Len(l) /\ k \in 1 .. Len(l))
        BY <1>1, <3>1
      <3> QED
        BY <1>1, <2>1, <3>2
    <2>5. CASE q = 1
      <3> DEFINE j == Len(l) + 1
      <3>1. j \in i + 1 .. Len(p) /\ m \in i .. j - 1
        BY <1>1
      <3>2. p[j].id = p[i].id
        BY <1>1, <1>2, <2>2, <2>5
      <3>3. Straight(p, i, m, j)
        BY <2>3, <2>4, <3>2 DEF Straight
      <3> QED
        BY <3>1, <3>3 DEF AnsweredNext
    <2>6. CASE q # 1
      <3>1. q - 1 \in 1 .. Len(rest) /\ q - 1 \in 1 .. Len(cs) - 1 /\ (q - 1) + 1 = q
        BY <1>2, <2>6
      <3>a. rest[q - 1] = cs[q]
        BY <1>2, <3>1
      <3>b. p[i] = l[i] /\ m \in i .. Len(p)
        BY <1>1
      <3>2. rest[q - 1].id = p[i].id /\ m \in i .. Len(p)
        BY <2>2, <3>a, <3>b
      <3> QED
        BY <1>1, <2>3, <2>4, <3>1, <3>2 DEF StillOpen
    <2> QED
      BY <2>5, <2>6
  <1>5. ASSUME NEW i \in 1 .. Len(p), p[i].kind = "ToolCall" PROVE i \in 1 .. Len(l) /\ l[i].kind = "ToolCall"
    BY <1>1, <1>5
  <1> QED
    BY <1>3, <1>4, <1>5 DEF Grouped, p, one, rest

\* The calls of a reply come one after the other at the end of the log.
LEMMA RepliedIsOpen ==
    ASSUME NEW l \in Seq(LogEvents), AllAnswered(l), NEW ce \in Seq(LogEvents), NEW cs,
           Len(cs) = Len(ce), \A k \in 1 .. Len(ce) : ce[k].kind = "ToolCall" /\ cs[k].id = ce[k].id
    PROVE  Grouped(l \o ce, cs)
  <1> DEFINE p == l \o ce
  <1>1. /\ Len(p) = Len(l) + Len(ce) /\ Len(l) \in Nat /\ Len(ce) \in Nat
        /\ \A k \in 1 .. Len(l) : p[k] = l[k]
        /\ \A k \in Len(l) + 1 .. Len(l) + Len(ce) : p[k] = ce[k - Len(l)]
    BY Joined
  <1>2. \A i \in 1 .. Len(l) : l[i].kind = "ToolCall" => AnsweredNext(p, i)
    BY AnsweredStays DEF AllAnswered
  <1> HIDE DEF p
  <1>3. ASSUME NEW i \in Len(l) + 1 .. Len(p)
        PROVE  i - Len(l) \in 1 .. Len(ce) /\ p[i].kind = "ToolCall" /\ cs[i - Len(l)].id = p[i].id
    <2>1. i - Len(l) \in 1 .. Len(ce)
      BY <1>1
    <2> QED
      BY <1>1, <2>1
  <1>4. ASSUME NEW i \in Len(l) + 1 .. Len(p) PROVE StillOpen(p, i, cs)
    <2>1. Len(p) \in i .. Len(p) /\ \A k \in i .. Len(p) : k \in Len(l) + 1 .. Len(p)
      BY <1>1
    <2>2. Len(p) + 1 .. Len(p) = {}
      BY <1>1
    <2>3. \A k \in i .. Len(p) : p[k].kind = "ToolCall"
      BY <1>3, <2>1
    <2>4. \E q \in 1 .. Len(cs) : cs[q].id = p[i].id
      BY <1>3
    <2> QED
      BY <2>1, <2>2, <2>3, <2>4 DEF StillOpen
  <1>5. \A i \in 1 .. Len(p) : i \in 1 .. Len(l) \/ i \in Len(l) + 1 .. Len(p)
    BY <1>1
  <1> QED
    BY <1>1, <1>2, <1>4, <1>5 DEF Grouped, p

\* In a state: whenever no call is pending, all calls of the log are answered.
LEMMA GroupsStay ==
    ASSUME Grouped(log, calls), UNCHANGED log, UNCHANGED calls \/ calls = <<>>
    PROVE  Grouped(log', calls')
  <1>1. CASE UNCHANGED calls
    BY <1>1
  <1>2. CASE calls = <<>>
    <2>1. AllAnswered(log)
      BY <1>2, NothingOpen
    <2>2. Grouped(log, calls')
      BY <2>1, NothingOpen
    <2> QED
      BY <2>2
  <1> QED
    BY <1>1, <1>2

\* The log goes on without calls while none is pending.
LEMMA GroupsGrow ==
    ASSUME WholeInv, Grouped(log, calls), calls = <<>>, NEW m \in Seq(LogEvents), log' = log \o m,
           \A k \in 1 .. Len(m) : m[k].kind # "ToolCall"
    PROVE  Grouped(log', calls') /\ AllAnswered(log')
  <1>1. log \in Seq(LogEvents) /\ AllAnswered(log)
    BY NothingOpen DEF WholeInv, Typed
  <1>2. AllAnswered(log \o m)
    BY <1>1, LongerIsAnswered
  <1>3. AllAnswered(log')
    BY <1>2
  <1> QED
    BY <1>3, NothingOpen

LEMMA GroupsAnswered ==
    ASSUME WholeInv, Grouped(log, calls), pc \in Answering, NEW write \in Nat, Answer(write)
    PROVE  Grouped(log', calls')
  <1> DEFINE id == Head(calls).id
             ev == ToolResult(id, write)
  <1>1. log \in Seq(LogEvents) /\ calls \in Seq(CallsSet) /\ calls # <<>>
    BY DEF WholeInv, Typed
  <1>2. Head(calls) \in CallsSet
    BY <1>1
  <1>3. id \in IdKinds \X Nat
    BY <1>2 DEF CallsSet
  <1>4. ev \in LogEvents /\ ev.kind = "ToolResult" /\ ev.id = id
    BY <1>3, ToolEvents
  <1>5. log' = log \o << ev >> /\ calls' = Tail(calls)
    BY <1>1, <1>4, Appended DEF Answer
  <1> HIDE DEF ev
  <1>6. Grouped(log \o << ev >>, Tail(calls))
    BY <1>1, <1>4, AnswerIsNext
  <1> QED
    BY <1>5, <1>6

LEMMA GroupsReplied ==
    ASSUME WholeInv, Grouped(log, calls), NEW n \in Nat, Reply(n, TRUE)
    PROVE  Grouped(log', calls')
  <1>1. log \in Seq(LogEvents) /\ Typed /\ calls = <<>>
    BY DEF WholeInv, Typed, Reply, Answering
  <1>2. CASE Leave /\ UNCHANGED log
    BY <1>1, <1>2, GroupsStay
  <1>3. CASE ReplyMade(n)
    <2>1. PICK m, said, ce \in Seq(LogEvents) :
            /\ log' = ((log \o m) \o said) \o ce
            /\ \A k \in 1 .. Len(m) : m[k].kind \in Talk
            /\ \A k \in 1 .. Len(said) : said[k].kind \in Talk
            /\ CallsFrom(ce, n)
      BY <1>3 DEF ReplyMade
    <2> DEFINE l1 == log \o m
               l2 == l1 \o said
    <2>2. l1 \in Seq(LogEvents) /\ AllAnswered(l1)
      <3>1. AllAnswered(log)
        BY <1>1, NothingOpen
      <3> QED
        BY <1>1, <2>1, <3>1, Joined, LongerIsAnswered DEF Talk
    <2> HIDE DEF l1
    <2>3. l2 \in Seq(LogEvents) /\ AllAnswered(l2)
      BY <2>1, <2>2, Joined, LongerIsAnswered DEF Talk
    <2> HIDE DEF l2
    <2>4. log' = l2 \o ce
      BY <2>1 DEF l1, l2
    <2>5. Len(ce) = n /\ \A k \in 1 .. n : ce[k].kind = "ToolCall" /\ ce[k].id = SentId(issued + k)
      BY <2>1 DEF CallsFrom
    <2>6. Len(calls') = n /\ \A k \in 1 .. n : calls'[k].id = SentId(issued + k)
      BY <1>3 DEF ReplyMade
    <2>7. \A k \in 1 .. Len(ce) : ce[k].kind = "ToolCall" /\ calls'[k].id = ce[k].id
      BY <2>5, <2>6
    <2>8. Grouped(l2 \o ce, calls')
      BY <2>1, <2>3, <2>5, <2>6, <2>7, RepliedIsOpen
    <2> QED
      BY <2>4, <2>8
  <1> QED
    BY <1>1, <1>2, <1>3, ReplyForm

LEMMA GroupsClosed ==
    ASSUME WholeInv, Grouped(log, calls), calls = <<>>,
           NEW why \in {"completed", "aborted", "error"}, End(why)
    PROVE  Grouped(log', calls')
  <1> DEFINE ev == TurnEnd(turn, why)
  <1>1. ev \in LogEvents /\ ev.kind = "TurnEnd" /\ log \in Seq(LogEvents)
    BY MarkerEvents DEF WholeInv, Typed
  <1>2. log' = Append(log, ev)
    BY DEF End
  <1> HIDE DEF ev
  <1> DEFINE one == << ev >>
  <1>3. log' = log \o one /\ one \in Seq(LogEvents) /\ Len(one) = 1 /\ one[1] = ev
    BY <1>1, <1>2
  <1>4. \A k \in 1 .. Len(one) : one[k].kind # "ToolCall"
    BY <1>1, <1>3
  <1> HIDE DEF one
  <1> QED
    BY <1>3, <1>4, GroupsGrow

LEMMA GroupsCompacted ==
    ASSUME WholeInv, Grouped(log, calls), calls = <<>>, NEW c \in CompactionOutcomes(log),
           log' = c.log
    PROVE  Grouped(log', calls')
  <1>1. PICK m \in Seq(LogEvents) :
          c.log = log \o m /\ \A k \in 1 .. Len(m) : m[k].kind = "Compaction"
    BY CompactionAppends DEF WholeInv, Typed
  <1> QED
    BY <1>1, GroupsGrow

\* A request is sent when no call is pending.
LEMMA RequestIsAnswered ==
    ASSUME WholeInv, Grouped(log, calls), queue \in Seq({"user", "system"}), SendRequest
    PROVE  log' \in Seq(LogEvents) /\ AllAnswered(log') /\ Grouped(log', calls')
  <1>1. Drained \in Seq(LogEvents) /\ \A k \in 1 .. Len(Drained) : Drained[k].kind # "ToolCall"
    BY DrainedTyped, PlainEvents
  <1>2. log \in Seq(LogEvents) /\ log' = log \o Drained /\ calls = <<>>
    BY DEF SendRequest, WholeInv, Typed, Answering
  <1> HIDE DEF Drained
  <1>3. log' \in Seq(LogEvents)
    BY <1>1, <1>2, Joined
  <1> QED
    BY <1>1, <1>2, <1>3, GroupsGrow

LEMMA TurnKeepsGroups ==
    ASSUME WholeInv, Grouped(log, calls), ~MissingIds, queue \in Seq({"user", "system"}), Turn
    PROVE  Grouped(log', calls')
  <1>0. log \in Seq(LogEvents) /\ turn \in Nat /\ acted \in Nat /\ (calls # <<>> <=> pc \in Answering)
    BY DEF WholeInv, Typed
  <1>1. CASE BeginTurn
    <2> DEFINE m == << TurnStart(turn + 1), UserMessage >>
    <2>1. /\ m \in Seq(LogEvents) /\ Len(m) = 2 /\ m[1].kind = "TurnStart"
          /\ m[2].kind = "UserMessage"
      BY <1>0, MarkerEvents, PlainEvents
    <2>2. log' = log \o m /\ calls = <<>>
      BY <1>0, <1>1 DEF BeginTurn, Answering
    <2> HIDE DEF m
    <2>3. \A k \in 1 .. Len(m) : m[k].kind # "ToolCall"
      BY <2>1
    <2> QED
      BY <2>1, <2>2, <2>3, GroupsGrow
  <1>2. CASE Refuse
    BY <1>0, <1>2, GroupsStay DEF Refuse, Answering
  <1>3. CASE Proceed
    BY <1>3, GroupsStay DEF Proceed
  <1>4. CASE CompactFirst
    <2>1. calls = <<>>
      BY <1>0, <1>4 DEF CompactFirst, Answering
    <2>2. PICK c \in CompactionOutcomes(log) : log' = c.log \/ End("error") \/ UNCHANGED log
      BY <1>4 DEF CompactFirst, Compactions
    <2> QED
      BY <2>1, <2>2, GroupsCompacted, GroupsClosed, GroupsStay
  <1>5. CASE HeadStop
    BY <1>0, <1>5, GroupsClosed DEF HeadStop, Answering
  <1>6. CASE SendRequest
    BY <1>6, RequestIsAnswered
  <1>7. CASE FailRequest
    BY <1>0, <1>7, GroupsClosed DEF FailRequest, Answering
  <1>8. CASE \E n \in 0 .. MaxParallel, sent \in {TRUE, ~MissingIds} : Reply(n, sent)
    <2>1. PICK n \in 0 .. MaxParallel, sent \in {TRUE, ~MissingIds} : Reply(n, sent)
      BY <1>8
    <2>2. n \in Nat
      BY <2>1, BoundsAssumption
    <2>3. Reply(n, TRUE)
      <3>1. (~MissingIds) = TRUE
        OBVIOUS
      <3>2. sent = TRUE
        BY <2>1, <3>1
      <3> QED
        BY <2>1, <3>2
    <2> QED
      BY <2>2, <2>3, GroupsReplied
  <1>9. CASE AnswerWithout
    BY <1>9, GroupsAnswered DEF AnswerWithout, Answering
  <1>10. CASE AskPermission \/ Invoke \/ Approve
    BY <1>10, GroupsStay DEF AskPermission, Invoke, Approve, Advance
  <1>11. CASE Disapprove
    BY <1>11, GroupsAnswered DEF Disapprove, Answering
  <1>12. CASE ToolWrites
    BY <1>12, GroupsStay DEF ToolWrites
  <1>13. CASE ToolReturns
    BY <1>0, <1>13, GroupsAnswered DEF ToolReturns, Answering
  <1>14. CASE Finish
    <2> DEFINE m == << TurnStats, TurnEnd(turn, "completed") >>
    <2>1. /\ m \in Seq(LogEvents) /\ Len(m) = 2 /\ m[1].kind = "TurnStats"
          /\ m[2].kind = "TurnEnd"
      BY <1>0, MarkerEvents, PlainEvents
    <2>2. log' = log \o m /\ calls = <<>>
      BY <1>0, <1>14 DEF Finish, Answering
    <2> HIDE DEF m
    <2>3. \A k \in 1 .. Len(m) : m[k].kind # "ToolCall"
      BY <2>1
    <2> QED
      BY <2>1, <2>2, <2>3, GroupsGrow
  <1> QED
    BY <1>1, <1>2, <1>3, <1>4, <1>5, <1>6, <1>7, <1>8, <1>9, <1>10, <1>11, <1>12, <1>13,
       <1>14 DEF Turn

\* A driver that only stops turns changes the log between them.
LEMMA DriverKeepsGroups ==
    ASSUME WholeInv, Grouped(log, calls), ~driver.drops, Driver
    PROVE  Grouped(log', calls')
  <1>0. log \in Seq(LogEvents) /\ Len(log) \in Nat /\ (calls # <<>> <=> pc \in Answering)
    BY DEF WholeInv, Typed
  <1>1. CASE RequestStop
    BY <1>1, GroupsStay DEF RequestStop
  <1>2. CASE Cancel
    BY <1>2 DEF Cancel
  <1>3. CASE Restart
    BY <1>0, <1>3, GroupsStay DEF Restart, Answering
  <1>4. CASE Undo
    <2>1. PICK k \in 0 .. Len(log) :
            log' = SubSeq(log, 1, k) /\ (k # 0 => log[k].kind = "UserMessage")
      BY <1>0, <1>4, UndoCuts DEF Undo
    <2>2. AllAnswered(log)
      BY <1>0, <1>4, NothingOpen DEF Undo, Answering
    <2>3. AllAnswered(log')
      BY <1>0, <2>1, <2>2, CutIsAnswered
    <2> QED
      BY <2>3, NothingOpen
  <1>5. CASE Clear
    <2>1. Len(log') = 0
      BY <1>5 DEF Clear
    <2> QED
      BY <2>1 DEF Grouped
  <1>6. CASE Compact
    <2>1. PICK c \in CompactionOutcomes(log) : log' = c.log
      BY <1>6 DEF Compact, Compactions
    <2>2. calls = <<>>
      BY <1>0, <1>6 DEF Compact, Answering
    <2> QED
      BY <2>1, <2>2, GroupsCompacted
  <1>7. CASE \E w \in writes : RestoreFile(w)
    BY <1>7, GroupsStay DEF RestoreFile, turnVars
  <1>8. CASE \E role \in driver.injects : Inject(role)
    BY <1>8, GroupsStay DEF Inject, turnVars
  <1> QED
    BY <1>1, <1>2, <1>3, <1>4, <1>5, <1>6, <1>7, <1>8 DEF Driver

GroupInv == ~driver.drops => Grouped(log, calls)

\* In a session whose turns are stopped but never dropped, every assistant message of
\* every request is followed by the answers to all its calls, whatever was undone,
\* compacted, injected or resumed, if the backend sends the ids of its calls and the
\* logs to resume have every group of calls followed by their results.
THEOREM StoppedTurnsAreAnswered ==
    ASSUME ~MissingIds, \A old \in InitialLogs : AllAnswered(old)
    PROVE  Spec => StoppedTurnsPairCalls
  <1> DEFINE Inv == WholeInv /\ Queued /\ GroupInv
             Step == SendRequest /\ ~driver.drops => PairsCalls(Request(log'))
  <1>1. Init => Inv
    <2>1. Init => AllAnswered(log)
      BY DEF Init
    <2> QED
      BY <2>1, Start, QueueTyped, NothingOpen DEF GroupInv
  <1>2. Inv /\ [Next]_vars => Inv'
    <2> SUFFICES ASSUME WholeInv, Queued, GroupInv, [Next]_vars
                 PROVE  WholeInv' /\ Queued' /\ GroupInv'
      OBVIOUS
    <2>1. WholeInv' /\ Queued' /\ queue \in Seq({"user", "system"})
      BY StepKeepsWhole, QueueStaysTyped DEF Queued
    <2>2. driver' = driver
      BY DEF Next, vars
    <2>3. ASSUME ~driver.drops PROVE Grouped(log', calls')
      <3>0. Grouped(log, calls)
        BY <2>3 DEF GroupInv
      <3>1. CASE Turn
        BY <2>1, <3>0, <3>1, TurnKeepsGroups
      <3>2. CASE Driver
        BY <2>3, <3>0, <3>2, DriverKeepsGroups
      <3>3. CASE UNCHANGED vars
        BY <3>0, <3>3, GroupsStay DEF vars, turnVars
      <3> QED
        BY <3>1, <3>2, <3>3 DEF Next
    <2> QED
      BY <2>1, <2>2, <2>3 DEF GroupInv
  <1>3. Inv /\ [Next]_vars => [Step]_vars
    <2> SUFFICES ASSUME WholeInv, Queued, GroupInv, SendRequest, ~driver.drops
                 PROVE  PairsCalls(Request(log'))
      OBVIOUS
    <2>1. log' \in Seq(LogEvents) /\ AllAnswered(log')
      BY RequestIsAnswered DEF GroupInv, Queued
    <2> QED
      BY <2>1, AnsweredRequest
  <1> HIDE DEF Inv, Step
  <1>4. Spec => [][Step]_vars
    BY <1>1, <1>2, <1>3, PTL DEF Spec
  <1> QED
    BY <1>4, PTL DEF StoppedTurnsPairCalls, Step

-----------------------------------------------------------------------------
(* Types and bounds. *)

Numbers == 1 .. MaxCalls
StackedSet == [index : {0}, base : SUBSET Numbers]

Bounded ==
    /\ turn \in 0 .. MaxTurns /\ pc \in {"idle"} \cup Running /\ stop \in BOOLEAN
    /\ calls # <<>> => pc \in Answering
    /\ checkpoints \in Seq(StackedSet) /\ writes \subseteq Numbers
    /\ acted \in 0 .. MaxCalls /\ issued \in 0 .. MaxCalls
    /\ \A k \in 1 .. Len(calls) : calls[k].write \in Numbers
    /\ \A i \in 1 .. Len(queue) : queue[i] \in driver.injects

\* The turn is left, or goes on to somewhere, and nothing is counted.
LEMMA BoundsStay ==
    ASSUME Bounded, UNCHANGED <<driver, turn, checkpoints, writes, issued>>,
           UNCHANGED queue \/ queue' = <<>>,
           \/ Leave
           \/ /\ UNCHANGED <<calls, acted>> /\ stop' \in BOOLEAN /\ pc' \in {"idle"} \cup Running
              /\ pc \in Answering => pc' \in Answering
    PROVE  Bounded'
  <1>1. \A i \in 1 .. Len(queue') : queue'[i] \in driver'.injects
    <2>1. CASE UNCHANGED queue
      BY <2>1 DEF Bounded
    <2>2. CASE queue' = <<>>
      <3>1. 1 .. Len(queue') = {}
        BY <2>2
      <3> QED
        BY <3>1
    <2> QED
      BY <2>1, <2>2
  <1>2. CASE Leave
    <2>1. calls' = <<>> /\ 1 .. Len(calls') = {}
      BY <1>2 DEF Leave
    <2>2. acted' \in 0 .. MaxCalls
      BY <1>2, BoundsAssumption DEF Leave
    <2> QED
      BY <1>1, <1>2, <2>1, <2>2 DEF Bounded, Leave
  <1>3. CASE /\ UNCHANGED <<calls, acted>> /\ stop' \in BOOLEAN /\ pc' \in {"idle"} \cup Running
             /\ pc \in Answering => pc' \in Answering
    BY <1>1, <1>3 DEF Bounded
  <1> QED
    BY <1>2, <1>3

LEMMA BoundsAnswered ==
    ASSUME LogInv, Bounded, pc \in Answering, NEW write, Answer(write), UNCHANGED driver
    PROVE  Bounded'
  <1>1. calls \in Seq(CallsSet) /\ calls # <<>> /\ calls' = Tail(calls)
    BY DEF LogInv, Answer
  <1>2. /\ Len(calls) \in Nat /\ Len(calls') = Len(calls) - 1
        /\ \A k \in 1 .. Len(calls) - 1 : calls'[k] = calls[k + 1] /\ k + 1 \in 1 .. Len(calls)
    BY <1>1
  <1>3. \A k \in 1 .. Len(calls') : calls'[k].write \in Numbers
    BY <1>2 DEF Bounded
  <1>4. calls' # <<>> => pc' \in Answering
    <2>1. CASE Len(calls) = 1
      <3>1. Len(calls') = 0 /\ calls' \in Seq(CallsSet)
        BY <1>1, <1>2, <2>1
      <3> QED
        BY <3>1
    <2>2. CASE Len(calls) # 1
      BY <2>2 DEF Answer, Answering
    <2> QED
      BY <2>1, <2>2
  <1>5. pc' \in Running /\ acted' \in 0 .. MaxCalls /\ stop' \in BOOLEAN
    BY BoundsAssumption DEF Answer, Running, Bounded
  <1>6. UNCHANGED <<driver, queue, turn, issued, checkpoints, writes>>
    BY DEF Answer, fileVars
  <1> QED
    BY <1>3, <1>4, <1>5, <1>6 DEF Bounded

LEMMA BoundsReplied ==
    ASSUME LogInv, Bounded, NEW n \in Nat, NEW sent \in BOOLEAN, Reply(n, sent), UNCHANGED driver
    PROVE  Bounded'
  <1>1. issued \in Nat /\ issued \in 0 .. MaxCalls /\ MaxCalls \in Nat /\ issued + n <= MaxCalls
    BY BoundsAssumption DEF Bounded, Reply
  <1>2. UNCHANGED <<driver, queue, checkpoints, writes>>
    BY DEF Reply, fileVars
  <1>3. \/ Leave
        \/ /\ calls' = CallsOf(n, sent) /\ issued' = issued + n
           /\ pc' = IF n = 0 THEN "stopping" ELSE "tool"
           /\ UNCHANGED <<turn, stop, acted>>
    BY DEF Reply
  <1>4. CASE Leave
    BY <1>2, <1>4, BoundsStay DEF Leave
  <1>5. CASE /\ calls' = CallsOf(n, sent) /\ issued' = issued + n
             /\ pc' = IF n = 0 THEN "stopping" ELSE "tool"
             /\ UNCHANGED <<turn, stop, acted>>
    <2>1. Len(CallsOf(n, sent)) = n /\ CallsOf(n, sent) \in Seq(CallsSet)
      BY <1>1, CallsTyped
    <2>2. \A k \in 1 .. n : CallsOf(n, sent)[k].write = issued + k
      BY DEF CallsOf
    <2>3. \A k \in 1 .. n : issued + k \in Numbers
      BY <1>1 DEF Numbers
    <2>4. \A k \in 1 .. Len(calls') : calls'[k].write \in Numbers
      BY <1>5, <2>1, <2>2, <2>3
    <2>5. calls' # <<>> => pc' \in Answering
      <3>1. Len(calls') = 0 /\ calls' \in Seq(CallsSet) => calls' = <<>>
        OBVIOUS
      <3> QED
        BY <1>5, <2>1, <3>1 DEF Answering
    <2>6. issued' \in 0 .. MaxCalls /\ pc' \in Running
      BY <1>1, <1>5 DEF Running
    <2> QED
      BY <1>2, <1>5, <2>4, <2>5, <2>6 DEF Bounded
  <1> QED
    BY <1>3, <1>4, <1>5

LEMMA TurnKeepsBounds ==
    ASSUME LogInv, Bounded, Turn, UNCHANGED driver
    PROVE  Bounded'
  <1>1. CASE BeginTurn
    <2>0. MaxTurns \in Nat /\ turn \in Nat /\ turn < MaxTurns /\ turn' = turn + 1
      BY <1>1, BoundsAssumption DEF BeginTurn, Bounded
    <2>1. turn' \in 0 .. MaxTurns /\ pc' \in Running /\ pc = "idle"
      BY <1>1, <2>0 DEF BeginTurn, Running
    <2>2. checkpoints' \in Seq(StackedSet)
      BY <1>1 DEF BeginTurn, Bounded, StackedSet
    <2>3. calls = <<>>
      BY <2>1 DEF Bounded, Answering
    <2>4. UNCHANGED <<driver, queue, calls, stop, acted, issued, writes>>
      BY <1>1 DEF BeginTurn
    <2> QED
      BY <2>1, <2>2, <2>3, <2>4 DEF Bounded
  <1>2. CASE Refuse
    BY <1>2, BoundsStay DEF Refuse, Leave, fileVars
  <1>3. CASE Proceed
    BY <1>3, BoundsStay DEF Proceed, fileVars, Running, Answering, Bounded
  <1>4. CASE CompactFirst
    BY <1>4, BoundsStay DEF CompactFirst, End, Leave, fileVars, Running, Answering, Bounded
  <1>5. CASE HeadStop \/ FailRequest
    BY <1>5, BoundsStay DEF HeadStop, FailRequest, End, Leave, fileVars
  <1>6. CASE SendRequest
    BY <1>6, BoundsStay DEF SendRequest, fileVars, Running, Answering, Bounded
  <1>7. CASE \E n \in 0 .. MaxParallel, sent \in {TRUE, ~MissingIds} : Reply(n, sent)
    <2>1. PICK n \in 0 .. MaxParallel, sent \in {TRUE, ~MissingIds} : Reply(n, sent)
      BY <1>7
    <2>a. n \in Nat
      BY <2>1, BoundsAssumption
    <2>2. n \in Nat /\ sent \in BOOLEAN
      BY <2>1, <2>a, FlagsAssumption, Zenon
    <2> QED
      BY <2>1, <2>2, BoundsReplied
  <1>8. CASE AnswerWithout \/ Disapprove \/ ToolReturns
    BY <1>8, BoundsAnswered DEF AnswerWithout, Disapprove, ToolReturns, Answering
  <1>9. CASE AskPermission \/ Invoke \/ Approve
    BY <1>9, BoundsStay DEF AskPermission, Invoke, Approve, Advance, fileVars, Running, Answering, Bounded
  <1>10. CASE ToolWrites
    <2>1. calls # <<>> /\ calls \in Seq(CallsSet)
      BY <1>10 DEF ToolWrites, LogInv, Answering
    <2>2. Head(calls) = calls[1] /\ 1 \in 1 .. Len(calls)
      BY <2>1
    <2>3. Head(calls).write \in Numbers
      BY <2>2 DEF Bounded
    <2>4. acted' \in Numbers /\ writes' \subseteq Numbers
      BY <1>10, <2>3 DEF ToolWrites, Bounded
    <2>a. acted' \in 0 .. MaxCalls
      BY <2>4 DEF Numbers
    <2>5. UNCHANGED <<driver, queue, turn, pc, calls, stop, issued, checkpoints>>
      BY <1>10 DEF ToolWrites
    <2> QED
      BY <2>4, <2>5, <2>a DEF Bounded
  <1>11. CASE Finish
    BY <1>11, BoundsStay DEF Finish, Leave, fileVars
  <1> QED
    BY <1>1, <1>2, <1>3, <1>4, <1>5, <1>6, <1>7, <1>8, <1>9, <1>10, <1>11 DEF Turn

LEMMA DriverKeepsBounds ==
    ASSUME Bounded, Queued, Driver, UNCHANGED driver
    PROVE  Bounded'
  <1>1. CASE RequestStop
    BY <1>1, BoundsStay DEF RequestStop, fileVars, Bounded
  <1>2. CASE Cancel
    BY <1>2, BoundsStay DEF Cancel, Leave, fileVars
  <1>3. CASE Restart
    <2>1. /\ queue' = <<>> /\ calls' = <<>> /\ checkpoints' = <<>> /\ pc' = "idle"
          /\ turn' = 0 /\ acted' = 0 /\ stop' = FALSE /\ UNCHANGED <<driver, writes, issued>>
      BY <1>3 DEF Restart
    <2>2. 1 .. Len(queue') = {} /\ 1 .. Len(calls') = {} /\ checkpoints' \in Seq(StackedSet)
      BY <2>1
    <2>3. turn' \in 0 .. MaxTurns /\ acted' \in 0 .. MaxCalls
      BY <2>1, BoundsAssumption
    <2> QED
      BY <2>1, <2>2, <2>3 DEF Bounded
  <1>4. CASE Undo
    <2>1. checkpoints # <<>> /\ checkpoints \in Seq(StackedSet) /\ Len(checkpoints) \in Nat
      BY <1>4 DEF Undo, Bounded
    <2>2. /\ Last(checkpoints) = checkpoints[Len(checkpoints)] /\ Last(checkpoints) \in StackedSet
          /\ \A k \in 1 .. Len(checkpoints) : checkpoints[k] \in StackedSet
      BY <2>1 DEF Last
    <2>3. Last(checkpoints).index = 0 /\ \A k \in 1 .. Len(checkpoints) : checkpoints[k].index = 0
      BY <2>2 DEF StackedSet
    <2> DEFINE below == {i \in 1 .. Len(checkpoints) - 1 : checkpoints[i].index < 0}
    <2>4. below = {}
      BY <2>1, <2>3
    <2>5. checkpoints' = SubSeq(checkpoints, 1, Cardinality(below))
      BY <1>4, <2>3 DEF Undo, Retained
    <2> HIDE DEF below
    <2>6. checkpoints' \in Seq(StackedSet)
      BY <2>1, <2>4, <2>5, FS_EmptySet
    <2>7. writes' \subseteq Numbers
      BY <1>4, <2>2 DEF Undo, StackedSet
    <2>8. UNCHANGED <<driver, queue, turn, pc, calls, stop, acted, issued>>
      BY <1>4 DEF Undo, turnVars
    <2> QED
      BY <2>6, <2>7, <2>8 DEF Bounded
  <1>5. CASE Clear
    <2>1. checkpoints' \in Seq(StackedSet)
      BY <1>5 DEF Clear
    <2>2. UNCHANGED <<driver, queue, turn, pc, calls, stop, acted, issued, writes>>
      BY <1>5 DEF Clear, turnVars
    <2> QED
      BY <2>1, <2>2 DEF Bounded
  <1>6. CASE Compact
    BY <1>6, BoundsStay DEF Compact, turnVars, fileVars, Bounded
  <1>7. CASE \E w \in writes : RestoreFile(w)
    <2>1. writes' \subseteq Numbers
      BY <1>7 DEF RestoreFile, Bounded
    <2>2. UNCHANGED <<driver, queue, turn, pc, calls, stop, acted, issued, checkpoints>>
      BY <1>7 DEF RestoreFile, turnVars
    <2> QED
      BY <2>1, <2>2 DEF Bounded
  <1>8. CASE \E role \in driver.injects : Inject(role)
    <2>1. PICK role \in driver.injects : queue' = Append(queue, role)
      BY <1>8 DEF Inject
    <2>2. queue \in Seq({"user", "system"}) /\ \A i \in 1 .. Len(queue) : queue[i] \in driver.injects
      BY DEF Queued, Bounded
    <2>3. \A i \in 1 .. Len(queue') : queue'[i] \in driver'.injects
      <3>1. /\ Len(queue') = Len(queue) + 1 /\ Len(queue) \in Nat /\ queue'[Len(queue) + 1] = role
            /\ \A i \in 1 .. Len(queue) : queue'[i] = queue[i]
        BY <2>1, <2>2
      <3>2. \A i \in 1 .. Len(queue') : i \in 1 .. Len(queue) \/ i = Len(queue) + 1
        BY <3>1
      <3> QED
        BY <2>1, <2>2, <3>1, <3>2
    <2>4. UNCHANGED <<driver, turn, pc, calls, stop, acted, issued, checkpoints, writes>>
      BY <1>8 DEF Inject, turnVars, fileVars
    <2> QED
      BY <2>3, <2>4 DEF Bounded
  <1> QED
    BY <1>1, <1>2, <1>3, <1>4, <1>5, <1>6, <1>7, <1>8 DEF Driver

LEMMA BoundsStart == Init => Bounded
  <1> SUFFICES ASSUME Init PROVE Bounded
    OBVIOUS
  <1>1. /\ queue = <<>> /\ calls = <<>> /\ checkpoints = <<>> /\ turn = 0 /\ acted = 0 /\ issued = 0
        /\ pc = "idle" /\ stop = FALSE /\ writes = {}
    BY DEF Init
  <1>2. 1 .. Len(queue) = {} /\ 1 .. Len(calls) = {} /\ checkpoints \in Seq(StackedSet)
    BY <1>1
  <1>3. 0 \in 0 .. MaxTurns /\ 0 \in 0 .. MaxCalls
    BY BoundsAssumption
  <1> QED
    BY <1>1, <1>2, <1>3 DEF Bounded

\* The log, the queue and the fields of the loop are of their types, calls are pending
\* exactly where a tool call is being answered, and every checkpoint is at index 0; for
\* any driver, and whether or not the backend sends ids.
THEOREM LoopIsTyped == Spec => []TypeOK
  <1> DEFINE Inv == LogInv /\ Queued /\ Bounded
  <1>1. Init => Inv
    BY LogStarts, QueueTyped, BoundsStart
  <1>2. Inv /\ [Next]_vars => Inv'
    <2> SUFFICES ASSUME LogInv, Queued, Bounded, [Next]_vars
                 PROVE  LogInv' /\ Queued' /\ Bounded'
      OBVIOUS
    <2>1. LogInv' /\ Queued'
      BY StepKeepsLog, QueueStaysTyped
    <2>2. CASE UNCHANGED vars
      <3>1. UNCHANGED <<driver, queue, turn, pc, calls, stop, acted, issued, checkpoints, writes>>
        BY <2>2 DEF vars, turnVars, fileVars
      <3> QED
        BY <2>1, <3>1 DEF Bounded
    <2> QED
      BY <2>1, <2>2, TurnKeepsBounds, DriverKeepsBounds DEF Next
  <1>3. Inv => TypeOK
    <2> SUFFICES ASSUME LogInv, Queued, Bounded PROVE TypeOK
      OBVIOUS
    <2>1. \A i \in 1 .. Len(checkpoints) : checkpoints[i].index = 0 /\ checkpoints[i].base \subseteq 1 .. MaxCalls
      <3>1. \A i \in 1 .. Len(checkpoints) : checkpoints[i] \in StackedSet
        BY DEF Bounded
      <3> QED
        BY <3>1 DEF StackedSet, Numbers
    <2> QED
      BY <2>1 DEF TypeOK, LogInv, GoodLog, Bounded, Answering, Numbers
  <1> HIDE DEF Inv
  <1> QED
    BY <1>1, <1>2, <1>3, PTL DEF Spec
=============================================================================
