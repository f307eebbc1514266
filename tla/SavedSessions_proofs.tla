------------------------- MODULE SavedSessions_proofs -------------------------
(***************************************************************************)
(* Proofs about SavedSessions: about the files of sessions, for any        *)
(* sessions and any number of messages; about the headers, for any windows *)
(* and any number of sessions; and about the log of a session and what     *)
(* windows show of it, for any logs a session is opened on, any models and *)
(* any number of turns, replies and calls.                                 *)
(***************************************************************************)
EXTENDS SavedSessions, Lemmas, SequenceTheorems

(* A behaviour that follows one of the three is a behaviour of each: the   *)
(* two it does not follow stutter.                                         *)
THEOREM EachIsFollowed == SavedSpec => Spec /\ IndexSpec /\ SessionSpec
  <1>1. SavedInit => Init /\ IndexInit /\ SessionInit
    BY DEF SavedInit
  <1>2. [SavedNext]_savedVars => [Next]_vars /\ [IndexNext]_indexVars /\ [SessionNext]_asVars
    BY DEF SavedNext, OfFiles, OfIndex, OfSession, savedVars
  <1>. QED
    BY <1>1, <1>2, PTL DEF SavedSpec, Spec, IndexSpec, SessionSpec

-----------------------------------------------------------------------------
(* The log of a session and what windows show of it *)

(* What a transcript tells, one message at a time. *)

ToldBy(f, messages) ==
    /\ f[0] = <<>>
    /\ \A k \in 1 .. Len(messages) :
         f[k] = IF Tells(messages[k]) THEN Append(f[k - 1], Line(messages[k])) ELSE f[k - 1]
    /\ Told(messages) = f[Len(messages)]

LEMMA ToldScan ==
    ASSUME NEW S, NEW messages \in Seq(S)
    PROVE  \E f : ToldBy(f, messages) /\ Told(messages) \in Seq({Line(m) : m \in S})
  <1> DEFINE n == Len(messages)
             X == Seq({Line(m) : m \in S})
             base == <<>>
             step == [k \in 1 .. n |-> [z \in X |->
                        IF Tells(messages[k]) THEN Append(z, Line(messages[k])) ELSE z]]
             Scan(f) == f = [i \in 0 .. Len(messages) |->
                          IF i = 0 THEN <<>>
                          ELSE IF Tells(messages[i]) THEN Append(f[i - 1], Line(messages[i]))
                          ELSE f[i - 1]]
  <1>1. n \in Nat
    OBVIOUS
  <1>2. step \in [1 .. n -> [X -> X]]
    <2>1. \A k \in 1 .. n, z \in X : Append(z, Line(messages[k])) \in X
      <3>1. \A k \in 1 .. n : Line(messages[k]) \in {Line(m) : m \in S}
        OBVIOUS
      <3> QED
        BY <3>1
    <2> HIDE DEF X
    <2> QED
      BY <2>1
  <1>3. PICK f \in [0 .. n -> X] : FromStart(f, n, base, step)
    <2>1. base \in X
      OBVIOUS
    <2> HIDE DEF n, X, base, step
    <2> QED
      BY <1>1, <1>2, <2>1, ForwardExists
  <1>4. /\ f[0] = <<>>
        /\ \A k \in 1 .. n :
             f[k] = IF Tells(messages[k]) THEN Append(f[k - 1], Line(messages[k])) ELSE f[k - 1]
    <2>1. \A k \in 1 .. n : k - 1 \in 0 .. n /\ f[k - 1] \in X
      BY <1>1
    <2> HIDE DEF X
    <2> QED
      BY <1>3, <2>1 DEF FromStart
  <1>5. Scan(f)
    <2>1. f = [i \in 0 .. n |-> f[i]]
      BY <1>3
    <2>2. \A i \in 0 .. n : i # 0 => i \in 1 .. n
      BY <1>1
    <2> HIDE DEF X
    <2> QED
      BY <1>4, <2>1, <2>2
  <1>6. PICK g : Scan(g) /\ Told(messages) = g[n]
    <2> DEFINE found == CHOOSE g : Scan(g)
    <2>1. Told(messages) = found[n]
      BY DEF Told
    <2>2. Scan(found)
      <3> HIDE DEF Scan
      <3> QED
        BY <1>5
    <2> HIDE DEF found
    <2> QED
      BY <2>1, <2>2
  <1>7. /\ g[0] = <<>>
        /\ \A k \in 1 .. n :
             g[k] = IF Tells(messages[k]) THEN Append(g[k - 1], Line(messages[k])) ELSE g[k - 1]
    <2>1. 0 \in 0 .. n /\ \A k \in 1 .. n : k \in 0 .. n /\ k # 0
      BY <1>1
    <2> QED
      BY <1>6, <2>1
  <1>8. 0 .. n \subseteq {k \in 0 .. n : g[k] \in X}
    <2> DEFINE Good == {k \in 0 .. n : g[k] \in X}
    <2>1. 0 \in Good
      <3>1. <<>> \in X
        OBVIOUS
      <3> HIDE DEF X
      <3> QED
        BY <1>1, <1>7, <3>1
    <2>2. ASSUME NEW k \in 1 .. n, \A j \in 0 .. k - 1 : j \in Good PROVE k \in Good
      <3>1. k - 1 \in 0 .. k - 1 /\ k \in 0 .. n
        BY <1>1
      <3>2. g[k - 1] \in X
        BY <2>2, <3>1
      <3>3. Append(g[k - 1], Line(messages[k])) \in X
        BY <3>2
      <3> HIDE DEF X
      <3> QED
        BY <1>7, <3>1, <3>2, <3>3
    <2> HIDE DEF Good
    <2>3. 0 .. n \subseteq Good
      BY <1>1, <2>1, <2>2, ForwardInduction
    <2> QED
      BY <2>3 DEF Good
  <1>9. n \in 0 .. n /\ g[n] \in X
    BY <1>1, <1>8
  <1> HIDE DEF Scan
  <1> QED
    BY <1>6, <1>7, <1>9 DEF ToldBy

LEMMA ToldOfEmpty == Told(<<>>) = <<>>
  <1>1. <<>> \in Seq({})
    OBVIOUS
  <1>2. PICK f : ToldBy(f, <<>>)
    BY <1>1, ToldScan
  <1> QED
    BY <1>2 DEF ToldBy

LEMMA ToldOfAppend ==
    ASSUME NEW S, NEW messages \in Seq(S), NEW m \in S
    PROVE  Told(Append(messages, m)) =
             IF Tells(m) THEN Append(Told(messages), Line(m)) ELSE Told(messages)
  <1> DEFINE n == Len(messages)
  <1>1. /\ n \in Nat /\ Append(messages, m) \in Seq(S) /\ Len(Append(messages, m)) = n + 1
        /\ Append(messages, m)[n + 1] = m
        /\ \A k \in 1 .. n : Append(messages, m)[k] = messages[k]
    OBVIOUS
  <1>2. PICK f : ToldBy(f, messages)
    BY ToldScan
  <1>3. PICK g : ToldBy(g, Append(messages, m))
    BY <1>1, ToldScan
  <1>4. n \in {k \in 0 .. n : f[k] = g[k]}
    <2> DEFINE Good == {k \in 0 .. n : f[k] = g[k]}
    <2>1. 0 \in Good
      BY <1>1, <1>2, <1>3 DEF ToldBy
    <2>2. ASSUME NEW k \in 1 .. n, \A j \in 0 .. k - 1 : j \in Good PROVE k \in Good
      <3>1. k - 1 \in 0 .. k - 1 /\ k \in 0 .. n /\ k \in 1 .. n + 1
        BY <1>1
      <3>2. f[k - 1] = g[k - 1]
        BY <2>2, <3>1
      <3> QED
        BY <1>1, <1>2, <1>3, <3>1, <3>2 DEF ToldBy
    <2> HIDE DEF Good
    <2>3. 0 .. n \subseteq Good
      BY <1>1, <2>1, <2>2, ForwardInduction
    <2>4. n \in 0 .. n
      BY <1>1
    <2> QED
      BY <2>3, <2>4 DEF Good
  <1>5. n + 1 \in 1 .. n + 1 /\ n + 1 - 1 = n
    BY <1>1
  <1> HIDE DEF n
  <1>6. g[n + 1] = IF Tells(m) THEN Append(g[n], Line(m)) ELSE g[n]
    BY <1>1, <1>3, <1>5 DEF ToldBy
  <1>7. Told(Append(messages, m)) = g[n + 1] /\ Told(messages) = f[n]
    BY <1>1, <1>2, <1>3 DEF ToldBy, n
  <1> QED
    BY <1>4, <1>6, <1>7

-----------------------------------------------------------------------------
(* The projection of a log, one event at a time.  Of the ids a model sends *)
(* only the first n - 1 have been seen.                                    *)

IdsBelow(n) == {id \in IdKinds \X Nat : id[1] = "sent" => id[2] < n}
EventsBelow(n) == {ev \in SessionEvents : ev.id \in IdsBelow(n)}
UiRoles == {"user", "assistant", "stats", "system", "tool"}
CardsBelow(n) == [role : UiRoles, n : Nat, call : IdsBelow(n), result : IdsBelow(n)]
Projections(n) == [out : Seq(CardsBelow(n)), pending : IdsBelow(n)]

LEMMA NoIdBelow ==
    ASSUME NEW n \in Nat
    PROVE  NoId \in IdsBelow(n)
  BY DEF NoId, IdsBelow, IdKinds

LEMMA UiTyped ==
    ASSUME NEW n \in Nat, NEW role \in UiRoles, NEW k \in Nat, NEW c \in IdsBelow(n), NEW r \in IdsBelow(n)
    PROVE  /\ Ui(role, k, c, r) \in CardsBelow(n)
           /\ Ui(role, k, c, r).role = role /\ Ui(role, k, c, r).n = k
           /\ Ui(role, k, c, r).call = c /\ Ui(role, k, c, r).result = r
  BY DEF Ui, CardsBelow

LEMMA ProjectedTyped ==
    ASSUME NEW n \in Nat, NEW st \in Projections(n), NEW ev \in EventsBelow(n)
    PROVE  Projected(st, ev) \in Projections(n)
  <1>1. /\ st = [out |-> st.out, pending |-> st.pending]
        /\ st.out \in Seq(CardsBelow(n)) /\ st.pending \in IdsBelow(n)
        /\ ev.id \in IdsBelow(n) /\ ev.n \in Nat /\ ev.kind \in Kinds \cup {"Command"}
    BY DEF Projections, EventsBelow, SessionEvents
  <1>2. NoId \in IdsBelow(n)
    BY NoIdBelow
  <1>3. \A out \in Seq(CardsBelow(n)), id \in IdsBelow(n) :
          [out |-> out, pending |-> id] \in Projections(n)
    BY DEF Projections
  <1>4. CASE ev.kind \in {"TurnStart", "TurnEnd"}
    BY <1>4 DEF Projected
  <1>5. CASE ev.kind = "ToolCall"
    <2>1. Projected(st, ev) = [out |-> st.out, pending |-> ev.id]
      BY <1>1, <1>5 DEF Projected
    <2> QED
      BY <1>1, <1>3, <2>1
  <1>6. CASE ev.kind = "ToolResult"
    <2>1. \A c, r \in IdsBelow(n) : ToolCard(c, r) \in CardsBelow(n)
      BY UiTyped DEF ToolCard, UiRoles
    <2>2. /\ Append(st.out, ToolCard(NoId, ev.id)) \in Seq(CardsBelow(n))
          /\ Append(st.out, ToolCard(ev.id, ev.id)) \in Seq(CardsBelow(n))
          /\ st.out \o <<ToolCard(st.pending, NoId), ToolCard(NoId, ev.id)>> \in Seq(CardsBelow(n))
      BY <1>1, <1>2, <2>1
    <2>3. \E out \in Seq(CardsBelow(n)) : Projected(st, ev) = [out |-> out, pending |-> NoId]
      BY <1>6, <2>2 DEF Projected
    <2> QED
      BY <1>2, <1>3, <2>3
  <1>7. CASE ev.kind \notin {"TurnStart", "TurnEnd", "ToolCall", "ToolResult"}
    <2>1. UiRole(ev.kind) \in UiRoles
      BY <1>1, <1>7 DEF UiRole, UiRoles, Kinds
    <2>2. Append(st.out, Ui(UiRole(ev.kind), ev.n, NoId, NoId)) \in Seq(CardsBelow(n))
      BY <1>1, <1>2, <2>1, UiTyped
    <2>3. Projected(st, ev) = [st EXCEPT !.out = Append(@, Ui(UiRole(ev.kind), ev.n, NoId, NoId))]
      BY <1>7 DEF Projected
    <2> QED
      BY <1>1, <1>3, <2>2, <2>3
  <1> QED
    BY <1>4, <1>5, <1>6, <1>7

ProjectedBy(f, evs) ==
    /\ f[0] = [out |-> <<>>, pending |-> NoId]
    /\ \A k \in 1 .. Len(evs) :
         f[k] = IF k \in Suppressed(evs) THEN f[k - 1] ELSE Projected(f[k - 1], evs[k])
    /\ Projection(evs) = f[Len(evs)]

LEMMA ProjectionScan ==
    ASSUME NEW m \in Nat, NEW evs \in Seq(EventsBelow(m))
    PROVE  \E f : ProjectedBy(f, evs) /\ Projection(evs) \in Projections(m)
  <1> DEFINE n == Len(evs)
             X == Projections(m)
             gone == Suppressed(evs)
             base == [out |-> <<>>, pending |-> NoId]
             step == [k \in 1 .. n |-> [z \in X |-> IF k \in gone THEN z ELSE Projected(z, evs[k])]]
             Scan(f) == f = [i \in 0 .. Len(evs) |->
                          IF i = 0 THEN [out |-> <<>>, pending |-> NoId]
                          ELSE IF i \in Suppressed(evs) THEN f[i - 1] ELSE Projected(f[i - 1], evs[i])]
  <1>1. n \in Nat
    OBVIOUS
  <1>2. base \in X
    BY NoIdBelow DEF Projections
  <1>3. \A k \in 1 .. n, z \in X : Projected(z, evs[k]) \in X
    BY ProjectedTyped
  <1>4. step \in [1 .. n -> [X -> X]]
    <2> HIDE DEF X, gone
    <2> QED
      BY <1>3
  <1>5. PICK f \in [0 .. n -> X] : FromStart(f, n, base, step)
    <2> HIDE DEF n, X, base, step
    <2> QED
      BY <1>1, <1>2, <1>4, ForwardExists
  <1>6. /\ f[0] = base
        /\ \A k \in 1 .. n : f[k] = IF k \in gone THEN f[k - 1] ELSE Projected(f[k - 1], evs[k])
    <2>1. \A k \in 1 .. n : k - 1 \in 0 .. n /\ f[k - 1] \in X
      BY <1>1
    <2> HIDE DEF X, base, gone
    <2> QED
      BY <1>5, <2>1 DEF FromStart
  <1>7. Scan(f)
    <2>1. f = [i \in 0 .. n |-> f[i]]
      BY <1>5
    <2>2. \A i \in 0 .. n : i # 0 => i \in 1 .. n
      BY <1>1
    <2> HIDE DEF X
    <2> QED
      BY <1>6, <2>1, <2>2
  <1>8. PICK g : Scan(g) /\ Projection(evs) = g[n]
    <2> DEFINE found == CHOOSE g : Scan(g)
    <2>1. Projection(evs) = found[n]
      BY DEF Projection
    <2>2. Scan(found)
      <3> HIDE DEF Scan
      <3> QED
        BY <1>7
    <2> HIDE DEF found
    <2> QED
      BY <2>1, <2>2
  <1>9. /\ g[0] = base
        /\ \A k \in 1 .. n : g[k] = IF k \in gone THEN g[k - 1] ELSE Projected(g[k - 1], evs[k])
    <2>1. 0 \in 0 .. n /\ \A k \in 1 .. n : k \in 0 .. n /\ k # 0
      BY <1>1
    <2> QED
      BY <1>8, <2>1
  <1>10. n \in 0 .. n /\ g[n] \in X
    <2> DEFINE Good == {k \in 0 .. n : g[k] \in X}
    <2> HIDE DEF X, base, gone
    <2>1. 0 \in Good
      BY <1>1, <1>2, <1>9
    <2>2. ASSUME NEW k \in 1 .. n, \A j \in 0 .. k - 1 : j \in Good PROVE k \in Good
      <3>1. k - 1 \in 0 .. k - 1 /\ k \in 0 .. n
        BY <1>1
      <3>2. g[k - 1] \in X
        BY <2>2, <3>1
      <3> QED
        BY <1>3, <1>9, <3>1, <3>2
    <2> HIDE DEF Good
    <2>3. 0 .. n \subseteq Good
      BY <1>1, <2>1, <2>2, ForwardInduction
    <2> QED
      BY <1>1, <2>3 DEF Good
  <1> HIDE DEF Scan
  <1> QED
    BY <1>8, <1>9, <1>10 DEF ProjectedBy

(* A log without a compaction shows everything.                            *)
Uncompacted(evs) == Positions(evs, {"Compaction"}) = {}

LEMMA NothingSuppressed ==
    ASSUME NEW evs, Uncompacted(evs)
    PROVE  Suppressed(evs) = {}
  BY DEF Uncompacted, Positions, Suppressed

LEMMA UncompactedPrefix ==
    ASSUME NEW S, NEW evs \in Seq(S), NEW ev \in S
    PROVE  /\ Uncompacted(Append(evs, ev)) => Uncompacted(evs)
           /\ Uncompacted(evs) /\ ev.kind # "Compaction" => Uncompacted(Append(evs, ev))
  <1>1. /\ Len(evs) \in Nat /\ Len(Append(evs, ev)) = Len(evs) + 1
        /\ Append(evs, ev)[Len(evs) + 1] = ev
        /\ \A k \in 1 .. Len(evs) : Append(evs, ev)[k] = evs[k]
    OBVIOUS
  <1> QED
    BY <1>1 DEF Uncompacted, Positions

LEMMA ProjectionOfAppend ==
    ASSUME NEW m \in Nat, NEW evs \in Seq(EventsBelow(m)), NEW ev \in EventsBelow(m),
           Uncompacted(Append(evs, ev))
    PROVE  Projection(Append(evs, ev)) = Projected(Projection(evs), ev)
  <1> DEFINE n == Len(evs)
  <1>1. /\ n \in Nat /\ Append(evs, ev) \in Seq(EventsBelow(m)) /\ Len(Append(evs, ev)) = n + 1
        /\ Append(evs, ev)[n + 1] = ev
        /\ \A k \in 1 .. n : Append(evs, ev)[k] = evs[k]
    OBVIOUS
  <1>2. Suppressed(evs) = {} /\ Suppressed(Append(evs, ev)) = {}
    BY UncompactedPrefix, NothingSuppressed
  <1>3. PICK f : ProjectedBy(f, evs)
    BY ProjectionScan
  <1>4. PICK g : ProjectedBy(g, Append(evs, ev))
    BY <1>1, ProjectionScan
  <1>5. f[n] = g[n]
    <2> DEFINE Good == {k \in 0 .. n : f[k] = g[k]}
    <2>1. 0 \in Good
      BY <1>1, <1>3, <1>4 DEF ProjectedBy
    <2>2. ASSUME NEW k \in 1 .. n, \A j \in 0 .. k - 1 : j \in Good PROVE k \in Good
      <3>1. k - 1 \in 0 .. k - 1 /\ k \in 0 .. n /\ k \in 1 .. n + 1
        BY <1>1
      <3>2. f[k - 1] = g[k - 1]
        BY <2>2, <3>1
      <3> QED
        BY <1>1, <1>2, <1>3, <1>4, <3>1, <3>2 DEF ProjectedBy
    <2> HIDE DEF Good
    <2>3. 0 .. n \subseteq Good
      BY <1>1, <2>1, <2>2, ForwardInduction
    <2>4. n \in 0 .. n
      BY <1>1
    <2> QED
      BY <2>3, <2>4 DEF Good
  <1>6. n + 1 \in 1 .. n + 1 /\ n + 1 - 1 = n
    BY <1>1
  <1> HIDE DEF n
  <1>7. g[n + 1] = Projected(g[n], ev)
    BY <1>1, <1>2, <1>4, <1>6 DEF ProjectedBy
  <1>8. Projection(Append(evs, ev)) = g[n + 1] /\ Projection(evs) = f[n]
    BY <1>1, <1>3, <1>4 DEF ProjectedBy, n
  <1> QED
    BY <1>5, <1>7, <1>8

-----------------------------------------------------------------------------
(* The windows of a session.  A call that is answered at all is answered   *)
(* before the next line of the user, so no card waits where a window ends, *)
(* and the projection of what follows does not depend on it.               *)

LEMMA Pieces ==
    ASSUME NEW S, NEW evs \in Seq(S), NEW a \in 1 .. Len(evs) + 1, NEW b \in a - 1 .. Len(evs)
    PROVE  /\ SubSeq(evs, a, b) \in Seq(S) /\ Len(SubSeq(evs, a, b)) = b - a + 1
           /\ \A k \in 1 .. b - a + 1 : /\ a + k - 1 \in 1 .. Len(evs)
                                        /\ SubSeq(evs, a, b)[k] = evs[a + k - 1]
  <1>1. Len(evs) \in Nat /\ \A k \in a .. b : evs[k] \in S
    OBVIOUS
  <1>2. SubSeq(evs, a, b) \in Seq(S)
    BY <1>1, SubSeqProperties
  <1> QED
    BY <1>1, <1>2, SubSeqProperties

LEMMA UncompactedPiece ==
    ASSUME NEW S, NEW evs \in Seq(S), NEW a \in 1 .. Len(evs) + 1, NEW b \in a - 1 .. Len(evs), Uncompacted(evs)
    PROVE  Uncompacted(SubSeq(evs, a, b))
  <1> DEFINE w == SubSeq(evs, a, b)
  <1>1. /\ Len(w) = b - a + 1
        /\ \A k \in 1 .. Len(w) : a + k - 1 \in 1 .. Len(evs) /\ w[k] = evs[a + k - 1]
    BY Pieces
  <1> HIDE DEF w
  <1>2. Uncompacted(w)
    BY <1>1 DEF Uncompacted, Positions
  <1> QED
    BY <1>2 DEF w

LEMMA PieceAnswered ==
    ASSUME NEW S, NEW evs \in Seq(S), NEW a \in 1 .. Len(evs) + 1, NEW b \in a - 1 .. Len(evs),
           Answered(evs), OwnResults(evs), b = Len(evs) \/ evs[b + 1].kind = "UserMessage"
    PROVE  Answered(SubSeq(evs, a, b))
  <1> DEFINE w == SubSeq(evs, a, b)
             m == Len(evs)
  <1>1. m \in Nat /\ a \in Nat /\ b \in Nat /\ b <= m /\ a >= 1
    OBVIOUS
  <1>2. /\ Len(w) = b - a + 1
        /\ \A k \in 1 .. Len(w) : a + k - 1 \in 1 .. m /\ w[k] = evs[a + k - 1]
    BY Pieces
  <1> HIDE DEF w, m
  <1>3. ASSUME NEW k \in 1 .. Len(w), w[k].kind = "ToolCall"
        PROVE  \E j \in k .. Len(w) : w[j].kind = "ToolResult" /\ w[j].id = w[k].id
    <2> DEFINE i == a + k - 1
    <2>1. i \in 1 .. m /\ w[k] = evs[i]
      BY <1>2
    <2>2. PICK j \in i .. m : evs[j].kind = "ToolResult" /\ evs[j].id = evs[i].id
      BY <1>3, <2>1 DEF Answered, Positions, m
    <2>3. j <= b
      <3>1. SUFFICES ASSUME b < j PROVE FALSE
        BY <1>1, <2>2
      <3>2. evs[b + 1].kind = "UserMessage" /\ b + 1 # j
        BY <1>1, <2>2, <3>1 DEF m
      <3>3. b + 1 \in 1 .. m /\ j \in 1 .. m /\ i < b + 1 /\ b + 1 < j
        BY <1>1, <1>2, <2>1, <3>1, <3>2
      <3>4. evs[j].id # evs[i].id
        BY <1>3, <2>1, <2>2, <3>2, <3>3 DEF OwnResults, m
      <3> QED
        BY <2>2, <3>4
    <2> DEFINE l == j - a + 1
    <2>4. l \in k .. Len(w) /\ a + l - 1 = j
      <3>1. j \in Nat /\ a + k - 1 <= j /\ k \in Nat /\ Len(w) = b - a + 1
        BY <1>1, <1>2, <2>1, <2>2
      <3> QED
        BY <1>1, <2>3, <3>1
    <2>5. w[l] = evs[j]
      BY <1>1, <1>2, <2>4
    <2> QED
      BY <2>1, <2>2, <2>4, <2>5
  <1>4. Answered(w)
    BY <1>3 DEF Answered, Positions
  <1> QED
    BY <1>4 DEF w

(* The projection, prefix by prefix. *)
UpTo(evs, k) == Projection(SubSeq(evs, 1, k))
Stepwise(n, evs) ==
    /\ \A k \in 0 .. Len(evs) : UpTo(evs, k) \in Projections(n)
    /\ UpTo(evs, 0) = [out |-> <<>>, pending |-> NoId]
    /\ \A k \in 1 .. Len(evs) : UpTo(evs, k) = Projected(UpTo(evs, k - 1), evs[k])
    /\ UpTo(evs, Len(evs)) = Projection(evs)

LEMMA ProjectionSteps ==
    ASSUME NEW n \in Nat, NEW evs \in Seq(EventsBelow(n)), Uncompacted(evs)
    PROVE  Stepwise(n, evs)
  <1> DEFINE S == EventsBelow(n)
  <1>1. evs \in Seq(S) /\ Len(evs) \in Nat
    OBVIOUS
  <1>2. ASSUME NEW k \in 0 .. Len(evs)
        PROVE  SubSeq(evs, 1, k) \in Seq(S) /\ Uncompacted(SubSeq(evs, 1, k))
    <2>1. k \in 1 - 1 .. Len(evs) /\ 1 \in 1 .. Len(evs) + 1
      BY <1>1
    <2> HIDE DEF S
    <2> QED
      BY <1>1, <2>1, Pieces, UncompactedPiece
  <1>3. \A k \in 0 .. Len(evs) : UpTo(evs, k) \in Projections(n)
    BY <1>2, ProjectionScan DEF UpTo
  <1>4. UpTo(evs, 0) = [out |-> <<>>, pending |-> NoId]
    <2> DEFINE none == SubSeq(evs, 1, 0)
    <2>1. none \in Seq(S) /\ Len(none) = 0
      <3>1. 0 \in 0 .. Len(evs) /\ 0 \in 1 - 1 .. Len(evs) /\ 1 \in 1 .. Len(evs) + 1 /\ 0 - 1 + 1 = 0
        BY <1>1
      <3> HIDE DEF S
      <3> QED
        BY <1>1, <3>1, Pieces
    <2> HIDE DEF none
    <2>2. PICK f : ProjectedBy(f, none)
      BY <2>1, ProjectionScan
    <2> QED
      BY <2>1, <2>2 DEF UpTo, ProjectedBy, none
  <1>5. ASSUME NEW k \in 1 .. Len(evs) PROVE UpTo(evs, k) = Projected(UpTo(evs, k - 1), evs[k])
    <2> DEFINE before == SubSeq(evs, 1, k - 1)
               ev == evs[k]
    <2>1. SubSeq(evs, 1, k) = Append(before, ev) /\ ev \in S /\ k - 1 \in 0 .. Len(evs)
      <3> HIDE DEF S
      <3> QED
        BY <1>1
    <2>2. before \in Seq(S) /\ Uncompacted(Append(before, ev))
      <3>1. k \in 0 .. Len(evs)
        BY <1>1
      <3>2. Uncompacted(SubSeq(evs, 1, k)) /\ before \in Seq(S)
        BY <1>2, <2>1, <3>1
      <3> QED
        BY <2>1, <3>2
    <2> HIDE DEF before, ev
    <2>3. Projection(Append(before, ev)) = Projected(Projection(before), ev)
      BY <2>1, <2>2, ProjectionOfAppend
    <2> QED
      BY <2>1, <2>3 DEF UpTo, before, ev
  <1>6. SubSeq(evs, 1, Len(evs)) = evs
    OBVIOUS
  <1> QED
    BY <1>3, <1>4, <1>5, <1>6 DEF Stepwise, UpTo

(* What a step adds to the transcript, and what it leaves in the slot. *)
Added(p, ev) ==
    IF ev.kind \in {"TurnStart", "TurnEnd", "ToolCall"} THEN <<>>
    ELSE IF ev.kind # "ToolResult" THEN <<Ui(UiRole(ev.kind), ev.n, NoId, NoId)>>
    ELSE IF p = NoId THEN <<ToolCard(NoId, ev.id)>>
    ELSE IF p = ev.id THEN <<ToolCard(ev.id, ev.id)>>
    ELSE <<ToolCard(p, NoId), ToolCard(NoId, ev.id)>>
Waits(p, ev) == IF ev.kind = "ToolCall" THEN ev.id ELSE IF ev.kind = "ToolResult" THEN NoId ELSE p

LEMMA AppendIsCat ==
    ASSUME NEW S, NEW s \in Seq(S), NEW x
    PROVE  Append(s, x) = Cat(s, << x >>)
  BY DEF Cat

LEMMA ProjectedAdds ==
    ASSUME NEW n \in Nat, NEW st \in Projections(n), NEW ev \in EventsBelow(n)
    PROVE  /\ Projected(st, ev) = [out |-> Cat(st.out, Added(st.pending, ev)), pending |-> Waits(st.pending, ev)]
           /\ Added(st.pending, ev) \in Seq(CardsBelow(n)) /\ Waits(st.pending, ev) \in IdsBelow(n)
           /\ st.out \in Seq(CardsBelow(n)) /\ st.pending \in IdsBelow(n)
  <1> DEFINE out == st.out
             p == st.pending
             C == CardsBelow(n)
             none == <<>>
             now == Projected(st, ev)
  <1>1. /\ st = [out |-> out, pending |-> p] /\ out \in Seq(C) /\ p \in IdsBelow(n)
        /\ ev.id \in IdsBelow(n) /\ ev.n \in Nat /\ ev.kind \in Kinds \cup {"Command"}
    BY DEF Projections, EventsBelow, SessionEvents
  <1>2. NoId \in IdsBelow(n)
    BY NoIdBelow
  <1>3. none \in Seq(C) /\ Cat(out, none) = out
    <2> HIDE DEF C
    <2> QED
      BY <1>1, Concatenated
  <1>4. CASE ev.kind \in {"TurnStart", "TurnEnd"}
    <2>1. now = st /\ Added(p, ev) = none /\ Waits(p, ev) = p
      BY <1>4 DEF Projected, Added, Waits
    <2> HIDE DEF now, C, out, p, none
    <2>2. now = [out |-> Cat(out, none), pending |-> p]
      BY <1>1, <1>3, <2>1
    <2> QED
      BY <1>1, <1>3, <2>1, <2>2 DEF now, C, out, p
  <1>5. CASE ev.kind = "ToolCall"
    <2>1. now = [out |-> out, pending |-> ev.id] /\ Added(p, ev) = none /\ Waits(p, ev) = ev.id
      BY <1>1, <1>5 DEF Projected, Added, Waits
    <2> HIDE DEF now, C, out, p, none
    <2>2. now = [out |-> Cat(out, none), pending |-> ev.id]
      BY <1>3, <2>1
    <2> QED
      BY <1>1, <1>3, <2>1, <2>2 DEF now, C, out, p
  <1>6. CASE ev.kind = "ToolResult"
    <2> DEFINE a == ToolCard(NoId, ev.id)
               b == ToolCard(ev.id, ev.id)
               c == ToolCard(p, NoId)
               more == Added(p, ev)
    <2>1. a \in C /\ b \in C /\ c \in C
      BY <1>1, <1>2, UiTyped DEF ToolCard, UiRoles
    <2>2. /\ now = [out |-> IF p = NoId THEN Append(out, a) ELSE IF p = ev.id THEN Append(out, b) ELSE out \o <<c, a>>,
                    pending |-> NoId]
          /\ more = IF p = NoId THEN <<a>> ELSE IF p = ev.id THEN <<b>> ELSE <<c, a>>
          /\ Waits(p, ev) = NoId
      BY <1>6 DEF Projected, Added, Waits
    <2> HIDE DEF now, C, out, p, none, a, b, c, more
    <2>3. <<a>> \in Seq(C) /\ <<b>> \in Seq(C) /\ <<c, a>> \in Seq(C)
      BY <2>1
    <2>4. Append(out, a) = Cat(out, <<a>>) /\ Append(out, b) = Cat(out, <<b>>) /\ out \o <<c, a>> = Cat(out, <<c, a>>)
      BY <1>1, AppendIsCat DEF Cat
    <2>5. now = [out |-> Cat(out, more), pending |-> NoId] /\ more \in Seq(C)
      BY <2>2, <2>3, <2>4
    <2> QED
      BY <1>1, <1>2, <2>2, <2>5 DEF now, C, out, p, more
  <1>7. CASE ev.kind \notin {"TurnStart", "TurnEnd", "ToolCall", "ToolResult"}
    <2> DEFINE a == Ui(UiRole(ev.kind), ev.n, NoId, NoId)
    <2>1. UiRole(ev.kind) \in UiRoles
      BY <1>1, <1>7 DEF UiRole, UiRoles, Kinds
    <2>2. a \in C
      BY <1>1, <1>2, <2>1, UiTyped
    <2>3. now = [st EXCEPT !.out = Append(@, a)] /\ Added(p, ev) = <<a>> /\ Waits(p, ev) = p
      BY <1>7 DEF Projected, Added, Waits
    <2> HIDE DEF now, C, out, p, none, a
    <2>4. now = [out |-> Append(out, a), pending |-> p]
      BY <1>1, <2>3
    <2>5. Append(out, a) = Cat(out, <<a>>) /\ <<a>> \in Seq(C)
      BY <1>1, <2>2, AppendIsCat
    <2> QED
      BY <1>1, <2>3, <2>4, <2>5 DEF now, C, out, p
  <1> QED
    BY <1>4, <1>5, <1>6, <1>7

(* A call waits in the slot until any result comes. *)
LEMMA NothingWaits ==
    ASSUME NEW n \in Nat, NEW evs \in Seq(EventsBelow(n)), Uncompacted(evs), Answered(evs)
    PROVE  Projection(evs).pending = NoId
  <1> DEFINE m == Len(evs)
             S == EventsBelow(n)
             P(k) == UpTo(evs, k)
             Open(i, k) == evs[i].kind = "ToolCall" /\ \A j \in i + 1 .. k : evs[j].kind # "ToolResult"
             Good == {k \in 0 .. m : P(k).pending = NoId \/ \E i \in 1 .. k : Open(i, k)}
  <1>1. Stepwise(n, evs)
    BY ProjectionSteps
  <1>2. /\ m \in Nat /\ \A k \in 0 .. m : P(k) \in Projections(n)
        /\ P(0).pending = NoId /\ P(m) = Projection(evs)
        /\ \A k \in 1 .. m : P(k) = Projected(P(k - 1), evs[k])
    BY <1>1 DEF Stepwise
  <1>3. \A k \in 1 .. m : evs[k] \in S
    <2>1. evs \in Seq(S)
      OBVIOUS
    <2> HIDE DEF S
    <2> QED
      BY <2>1
  <1> HIDE DEF m, P
  <1>4. 0 \in Good
    BY <1>2
  <1>5. ASSUME NEW k \in 1 .. m, \A j \in 0 .. k - 1 : j \in Good PROVE k \in Good
    <2> DEFINE st == P(k - 1)
               ev == evs[k]
    <2>1. st \in Projections(n) /\ ev \in S /\ P(k) = Projected(st, ev) /\ k - 1 \in Good
      BY <1>2, <1>3, <1>5
    <2>2. P(k).pending = Waits(st.pending, ev)
      <3> HIDE DEF st, ev
      <3>1. Projected(st, ev) = [out |-> Cat(st.out, Added(st.pending, ev)), pending |-> Waits(st.pending, ev)]
        BY <2>1, ProjectedAdds
      <3> QED
        BY <2>1, <3>1
    <2>3. CASE ev.kind = "ToolCall"
      <3>1. Open(k, k) /\ k \in 1 .. k /\ k \in 0 .. m
        BY <1>2, <2>3
      <3> HIDE DEF Open
      <3> QED
        BY <3>1
    <2>4. CASE ev.kind = "ToolResult"
      BY <1>2, <2>2, <2>4 DEF Waits
    <2>5. CASE ev.kind \notin {"ToolCall", "ToolResult"}
      <3>1. P(k).pending = st.pending
        BY <2>2, <2>5 DEF Waits
      <3>2. CASE st.pending = NoId
        BY <1>2, <3>1, <3>2
      <3>3. ASSUME NEW i \in 1 .. k - 1, Open(i, k - 1) PROVE i \in 1 .. k /\ Open(i, k)
        BY <1>2, <2>5, <3>3
      <3>4. k \in 0 .. m
        BY <1>2
      <3> HIDE DEF Open, st
      <3> QED
        BY <2>1, <3>1, <3>2, <3>3, <3>4 DEF st
    <2> QED
      BY <2>3, <2>4, <2>5
  <1>6. 0 .. m \subseteq Good
    <2> HIDE DEF Good
    <2> QED
      BY <1>2, <1>4, <1>5, ForwardInduction
  <1>7. ASSUME NEW i \in 1 .. m PROVE ~Open(i, m)
    <2>1. SUFFICES ASSUME evs[i].kind = "ToolCall" PROVE \E j \in i + 1 .. m : evs[j].kind = "ToolResult"
      OBVIOUS
    <2>2. PICK j \in i .. m : evs[j].kind = "ToolResult"
      BY <2>1 DEF Answered, Positions, m
    <2> QED
      BY <1>2, <2>1, <2>2
  <1>8. m \in Good
    BY <1>2, <1>6
  <1> HIDE DEF Open
  <1> QED
    BY <1>2, <1>7, <1>8

(* What is projected after a place where nothing waits is projected anew.  *)
LEMMA ProjectionSplits ==
    ASSUME NEW n \in Nat, NEW x \in Seq(EventsBelow(n)), NEW y \in Seq(EventsBelow(n)),
           Uncompacted(x \o y), Uncompacted(x), Uncompacted(y), Projection(x).pending = NoId
    PROVE  /\ Projection(x \o y).out = Cat(Projection(x).out, Projection(y).out)
           /\ Projection(x).out \in Seq(CardsBelow(n)) /\ Projection(y).out \in Seq(CardsBelow(n))
  <1> DEFINE S == EventsBelow(n)
             C == CardsBelow(n)
             z == x \o y
             l == Len(x)
             m == Len(y)
             a == Projection(x).out
             P(k) == UpTo(z, l + k)
             Q(k) == UpTo(y, k)
  <1>1. /\ z \in Seq(S) /\ l \in Nat /\ m \in Nat /\ Len(z) = l + m /\ SubSeq(z, 1, l) = x
        /\ \A k \in 1 .. m : z[l + k] = y[k] /\ y[k] \in S
    <2>1. x \in Seq(S) /\ y \in Seq(S)
      OBVIOUS
    <2> HIDE DEF S
    <2> QED
      BY <2>1
  <1> HIDE DEF z
  <1>2. Stepwise(n, z) /\ Stepwise(n, y)
    BY <1>1, ProjectionSteps DEF z
  <1>3. /\ \A k \in 0 .. m : P(k) \in Projections(n) /\ Q(k) \in Projections(n)
        /\ Q(0) = [out |-> <<>>, pending |-> NoId] /\ Q(m) = Projection(y) /\ P(m) = Projection(z)
        /\ P(0) = Projection(x)
    <2>1. ASSUME NEW k \in 0 .. m PROVE P(k) \in Projections(n) /\ Q(k) \in Projections(n)
      <3>1. l + k \in 0 .. Len(z)
        BY <1>1
      <3> QED
        BY <1>2, <3>1 DEF Stepwise
    <2>2. Q(0) = [out |-> <<>>, pending |-> NoId] /\ Q(m) = Projection(y) /\ P(m) = Projection(z)
      BY <1>1, <1>2 DEF Stepwise
    <2>3. P(0) = Projection(x)
      <3>1. l + 0 = l
        BY <1>1
      <3> QED
        BY <1>1, <3>1 DEF UpTo
    <2> QED
      BY <2>1, <2>2, <2>3
  <1>4. ASSUME NEW k \in 1 .. m
        PROVE  P(k) = Projected(P(k - 1), y[k]) /\ Q(k) = Projected(Q(k - 1), y[k])
    <2>1. l + k \in 1 .. Len(z) /\ (l + k) - 1 = l + (k - 1)
      BY <1>1
    <2>2. UpTo(z, l + k) = Projected(UpTo(z, (l + k) - 1), z[l + k])
      BY <1>2, <2>1 DEF Stepwise
    <2> QED
      BY <1>1, <1>2, <2>1, <2>2 DEF Stepwise
  <1>5. a \in Seq(C)
    <2>1. P(0) \in Projections(n)
      BY <1>1, <1>3
    <2> QED
      BY <1>3, <2>1 DEF Projections
  <1> DEFINE Good == {k \in 0 .. m : P(k).out = Cat(a, Q(k).out) /\ P(k).pending = Q(k).pending}
  <1> HIDE DEF P, Q, l, m, a
  <1>6. 0 \in Good
    <2>1. Cat(a, <<>>) = a
      BY <1>5, Concatenated
    <2> QED
      BY <1>1, <1>3, <2>1 DEF a
  <1>7. ASSUME NEW k \in 1 .. m, \A j \in 0 .. k - 1 : j \in Good PROVE k \in Good
    <2> DEFINE p == P(k - 1)
               q == Q(k - 1)
               ev == y[k]
               more == Added(q.pending, ev)
    <2>1. /\ p \in Projections(n) /\ q \in Projections(n) /\ ev \in S
          /\ p.out = Cat(a, q.out) /\ p.pending = q.pending
          /\ P(k) = Projected(p, ev) /\ Q(k) = Projected(q, ev)
      <3>1. k - 1 \in 0 .. k - 1 /\ k - 1 \in 0 .. m
        BY <1>1
      <3>2. k - 1 \in Good
        BY <1>7, <3>1
      <3> HIDE DEF S
      <3>3. p \in Projections(n) /\ q \in Projections(n)
        BY <1>3, <3>1
      <3> QED
        BY <1>1, <1>4, <3>2, <3>3
    <2> HIDE DEF p, q, ev
    <2>2. /\ P(k) = [out |-> Cat(p.out, Added(p.pending, ev)), pending |-> Waits(p.pending, ev)]
          /\ Q(k) = [out |-> Cat(q.out, more), pending |-> Waits(q.pending, ev)]
          /\ more \in Seq(C) /\ q.out \in Seq(C)
      BY <2>1, ProjectedAdds
    <2> DEFINE b == q.out
    <2>b. b \in Seq(C) /\ more \in Seq(C) /\ a \in Seq(C)
      BY <1>5, <2>2
    <2> HIDE DEF more, C, b
    <2>3. Cat(Cat(a, b), more) = Cat(a, Cat(b, more))
      BY <2>b, Concatenated
    <2>4. P(k).out = Cat(Cat(a, b), more) /\ P(k).pending = Waits(q.pending, ev)
      BY <2>1, <2>2 DEF b, more
    <2>5. Q(k).out = Cat(b, more) /\ Q(k).pending = Waits(q.pending, ev)
      BY <2>2 DEF b
    <2> QED
      BY <1>1, <2>3, <2>4, <2>5
  <1>8. 0 .. m \subseteq Good
    <2> HIDE DEF Good
    <2> QED
      BY <1>1, <1>6, <1>7, ForwardInduction
  <1>9. Projection(z).out = Cat(a, Projection(y).out)
    BY <1>1, <1>3, <1>8
  <1>10. Projection(y).out \in Seq(C)
    <2>1. Q(m) \in Projections(n)
      BY <1>1, <1>3
    <2> QED
      BY <1>3, <2>1 DEF Projections
  <1> QED
    BY <1>5, <1>9, <1>10 DEF z, a

(* The stats of a turn are shown where they are. *)
LEMMA StatsAreShown ==
    ASSUME NEW n \in Nat, NEW evs \in Seq(EventsBelow(n)), Uncompacted(evs),
           NEW l \in 1 .. Len(evs), evs[l].kind = "TurnStats"
    PROVE  \E i \in 1 .. Len(Projection(evs).out) :
             Projection(evs).out[i] = Ui("stats", evs[l].n, NoId, NoId)
  <1> DEFINE m == Len(evs)
             C == CardsBelow(n)
             P(k) == UpTo(evs, k)
             card == Ui("stats", evs[l].n, NoId, NoId)
             Has(st) == \E i \in 1 .. Len(st.out) : st.out[i] = card
             Good == {k \in 0 .. m : k >= l => Has(P(k))}
  <1>1. Stepwise(n, evs)
    BY ProjectionSteps
  <1>2. /\ m \in Nat /\ l \in 1 .. m /\ \A k \in 0 .. m : P(k) \in Projections(n)
        /\ P(m) = Projection(evs)
        /\ \A k \in 1 .. m : P(k) = Projected(P(k - 1), evs[k])
    BY <1>1 DEF Stepwise
  <1>3. \A k \in 1 .. m : evs[k] \in EventsBelow(n)
    <2> DEFINE S == EventsBelow(n)
    <2>1. evs \in Seq(S)
      OBVIOUS
    <2> HIDE DEF S
    <2>2. \A k \in 1 .. m : evs[k] \in S
      BY <2>1
    <2> QED
      BY <2>2 DEF S
  <1> HIDE DEF m, P, card
  <1>4. 0 \in Good
    BY <1>2
  <1>5. ASSUME NEW k \in 1 .. m, \A j \in 0 .. k - 1 : j \in Good PROVE k \in Good
    <2> DEFINE st == P(k - 1)
               ev == evs[k]
               more == Added(st.pending, ev)
               out == st.out
    <2>1. st \in Projections(n) /\ ev \in EventsBelow(n) /\ P(k) = Projected(st, ev) /\ k - 1 \in Good
      <3>1. k - 1 \in 0 .. k - 1 /\ k - 1 \in 0 .. m
        BY <1>2
      <3> QED
        BY <1>2, <1>3, <1>5, <3>1
    <2> HIDE DEF st, ev
    <2>2. P(k) = [out |-> Cat(out, more), pending |-> Waits(st.pending, ev)] /\ more \in Seq(C) /\ out \in Seq(C)
      BY <2>1, ProjectedAdds
    <2> HIDE DEF out, more, C
    <2>3. /\ Len(out) \in Nat /\ Len(more) \in Nat /\ P(k).out = Cat(out, more)
          /\ Len(Cat(out, more)) = Len(out) + Len(more)
          /\ \A i \in 1 .. Len(out) : Cat(out, more)[i] = out[i]
          /\ \A i \in 1 .. Len(more) : Cat(out, more)[Len(out) + i] = more[i]
      BY <2>2 DEF Cat
    <2>4. CASE k > l
      <3>1. k - 1 >= l
        BY <1>2, <2>4
      <3>2. PICK i \in 1 .. Len(out) : out[i] = card
        BY <2>1, <3>1 DEF out, st
      <3>3. i \in 1 .. Len(P(k).out) /\ P(k).out[i] = card
        BY <2>3, <3>2
      <3> QED
        BY <1>2, <3>3
    <2>5. CASE k = l
      <3>1. ev.kind = "TurnStats" /\ card = Ui(UiRole(ev.kind), ev.n, NoId, NoId)
        BY <2>5 DEF ev, card, UiRole
      <3>2. more = <<card>>
        BY <3>1 DEF more, Added
      <3>3. Len(more) = 1 /\ more[1] = card
        BY <3>2
      <3>4. Len(out) + 1 \in 1 .. Len(P(k).out) /\ P(k).out[Len(out) + 1] = card
        BY <2>3, <3>3
      <3> QED
        BY <1>2, <3>4
    <2>6. CASE k < l
      BY <1>2, <2>6
    <2> QED
      BY <1>2, <2>4, <2>5, <2>6
  <1>6. 0 .. m \subseteq Good
    <2> HIDE DEF Good
    <2> QED
      BY <1>2, <1>4, <1>5, ForwardInduction
  <1>7. Has(P(m))
    <2>1. m \in 0 .. m /\ m >= l
      BY <1>2
    <2>2. m \in Good
      BY <1>6, <2>1
    <2> HIDE DEF Has
    <2> QED
      BY <2>1, <2>2
  <1> QED
    BY <1>2, <1>7 DEF card

(* The places of the user's lines, in order. *)
Lines(evs, u, k) ==
    /\ u \in Seq(Nat)
    /\ \A t \in 1 .. Len(u) : /\ u[t] \in 1 .. k /\ evs[u[t]].kind = "UserMessage"
                              /\ t < Len(u) => u[t] < u[t + 1]

LEMMA LinesMore ==
    ASSUME NEW evs, NEW u, NEW k \in Nat \ {0}, Lines(evs, u, k - 1)
    PROVE  /\ Lines(evs, u, k)
           /\ evs[k].kind = "UserMessage" => Lines(evs, Cat(u, << k >>), k)
  <1>1. /\ u \in Seq(Nat) /\ Len(u) \in Nat
        /\ \A t \in 1 .. Len(u) : /\ u[t] \in 1 .. k - 1 /\ evs[u[t]].kind = "UserMessage"
                                  /\ t < Len(u) => u[t] < u[t + 1]
    BY DEF Lines
  <1>2. Lines(evs, u, k)
    BY <1>1 DEF Lines
  <1>3. ASSUME evs[k].kind = "UserMessage" PROVE Lines(evs, Cat(u, <<k>>), k)
    <2> DEFINE v == Cat(u, <<k>>)
    <2>1. /\ v \in Seq(Nat) /\ Len(v) = Len(u) + 1 /\ v[Len(u) + 1] = k
          /\ \A t \in 1 .. Len(u) : v[t] = u[t]
      BY <1>1 DEF Cat
    <2> HIDE DEF v
    <2>2. ASSUME NEW t \in 1 .. Len(v)
          PROVE  v[t] \in 1 .. k /\ evs[v[t]].kind = "UserMessage" /\ (t < Len(v) => v[t] < v[t + 1])
      <3>1. CASE t = Len(u) + 1
        BY <1>1, <1>3, <2>1, <3>1
      <3>2. CASE t = Len(u)
        <4>1. t \in 1 .. Len(u) /\ v[t] = u[t] /\ v[t + 1] = k /\ u[t] \in 1 .. k - 1
          BY <1>1, <2>1, <3>2
        <4> QED
          BY <1>1, <4>1
      <3>3. CASE t < Len(u)
        <4>0. t \in 1 .. Len(u) /\ t + 1 \in 1 .. Len(u)
          BY <1>1, <2>1, <3>3
        <4>1. v[t] = u[t] /\ v[t + 1] = u[t + 1]
          BY <2>1, <4>0
        <4> QED
          BY <1>1, <3>3, <4>0, <4>1
      <3> QED
        BY <1>1, <2>1, <3>1, <3>2, <3>3
    <2>3. Lines(evs, v, k)
      BY <2>1, <2>2 DEF Lines
    <2> QED
      BY <2>3 DEF v
  <1> QED
    BY <1>2, <1>3

LEMMA UsersInOrder ==
    ASSUME NEW S, NEW evs \in Seq(S)
    PROVE  Lines(evs, UserIndices(evs), Len(evs))
  <1> DEFINE m == Len(evs)
             none == <<>>
             s == [i \in 1 .. m |-> IF evs[i].kind = "UserMessage" THEN <<i>> ELSE none]
  <1>1. m \in Nat /\ UserIndices(evs) = FlattenSeq(s)
    BY DEF UserIndices
  <1> HIDE DEF m
  <1>2. s \in [1 .. m -> Seq(Nat)]
    <2>1. \A i \in 1 .. m : <<i>> \in Seq(Nat)
      BY <1>1
    <2> QED
      BY <2>1
  <1>3. \A k \in 1 .. m : s[k] = IF evs[k].kind = "UserMessage" THEN <<k>> ELSE none
    OBVIOUS
  <1> HIDE DEF s
  <1>4. PICK f \in [0 .. m -> Seq(Nat)] : Flattens(f, m, s)
    BY <1>1, <1>2, Flattened
  <1>5. f[0] = none /\ f[m] = FlattenSeq(s) /\ \A k \in 1 .. m : f[k] = Cat(f[k - 1], s[k])
    BY <1>4 DEF Flattens
  <1> DEFINE Good == {k \in 0 .. m : Lines(evs, f[k], k)}
  <1>6. 0 \in Good
    BY <1>1, <1>5 DEF Lines
  <1> HIDE DEF none
  <1>7. ASSUME NEW k \in 1 .. m, \A j \in 0 .. k - 1 : j \in Good PROVE k \in Good
    <2> DEFINE u == f[k - 1]
    <2>1. k - 1 \in 0 .. k - 1 /\ k \in 0 .. m /\ k \in Nat \ {0} /\ k - 1 \in 0 .. m
      BY <1>1
    <2>2. Lines(evs, u, k - 1) /\ u \in Seq(Nat) /\ f[k] = Cat(u, s[k])
      BY <1>5, <1>7, <2>1
    <2> HIDE DEF u
    <2>3. Lines(evs, u, k) /\ (evs[k].kind = "UserMessage" => Lines(evs, Cat(u, <<k>>), k))
      BY <2>1, <2>2, LinesMore
    <2>4. Cat(u, none) = u
      BY <2>2, Concatenated DEF none
    <2>5. Lines(evs, f[k], k)
      BY <1>3, <2>2, <2>3, <2>4
    <2> QED
      BY <2>1, <2>5
  <1>8. 0 .. m \subseteq Good
    <2> HIDE DEF Good
    <2> QED
      BY <1>1, <1>6, <1>7, ForwardInduction
  <1>9. Lines(evs, f[m], m)
    BY <1>1, <1>8
  <1> QED
    BY <1>1, <1>5, <1>9 DEF m

(* A piece that ends before a line of the user, or with the log. *)
LEMMA PieceIsClosed ==
    ASSUME NEW n \in Nat, NEW evs \in Seq(EventsBelow(n)), Uncompacted(evs), Answered(evs), OwnResults(evs),
           NEW a \in 1 .. Len(evs) + 1, NEW b \in a - 1 .. Len(evs),
           b = Len(evs) \/ evs[b + 1].kind = "UserMessage"
    PROVE  LET w == SubSeq(evs, a, b) IN
           /\ w \in Seq(EventsBelow(n)) /\ Uncompacted(w) /\ Projection(w).pending = NoId
           /\ DeriveUi(w) = Projection(w).out /\ Projection(w).out \in Seq(CardsBelow(n))
  <1> DEFINE S == EventsBelow(n)
             w == SubSeq(evs, a, b)
  <1>1. evs \in Seq(S)
    OBVIOUS
  <1>2. w \in Seq(S) /\ Uncompacted(w) /\ Answered(w)
    <2> HIDE DEF S
    <2> QED
      BY <1>1, Pieces, UncompactedPiece, PieceAnswered
  <1> HIDE DEF w
  <1>3. Projection(w).pending = NoId
    BY <1>2, NothingWaits
  <1>4. Projection(w) \in Projections(n)
    BY <1>2, ProjectionScan
  <1> QED
    BY <1>2, <1>3, <1>4 DEF DeriveUi, Projections, w

(* Two pieces, one after the other. *)
LEMMA PiecesJoin ==
    ASSUME NEW S, NEW evs \in Seq(S), NEW a \in 1 .. Len(evs), NEW b \in a .. Len(evs), NEW c \in b .. Len(evs)
    PROVE  SubSeq(evs, a, b) \o SubSeq(evs, b + 1, c) = SubSeq(evs, a, c)
  <1> DEFINE x == SubSeq(evs, a, b)
             y == SubSeq(evs, b + 1, c)
             z == SubSeq(evs, a, c)
  <1>1. Len(evs) \in Nat /\ a \in 1 .. Len(evs) + 1 /\ b \in a - 1 .. Len(evs) /\ c \in a - 1 .. Len(evs)
        /\ b + 1 \in 1 .. Len(evs) + 1 /\ c \in (b + 1) - 1 .. Len(evs)
    OBVIOUS
  <1>2. /\ x \in Seq(S) /\ Len(x) = b - a + 1 /\ \A k \in 1 .. b - a + 1 : x[k] = evs[a + k - 1]
        /\ y \in Seq(S) /\ Len(y) = c - (b + 1) + 1 /\ \A k \in 1 .. c - (b + 1) + 1 : y[k] = evs[b + 1 + k - 1]
        /\ z \in Seq(S) /\ Len(z) = c - a + 1 /\ \A k \in 1 .. c - a + 1 : z[k] = evs[a + k - 1]
    <2>1. x \in Seq(S) /\ Len(x) = b - a + 1 /\ \A k \in 1 .. b - a + 1 : x[k] = evs[a + k - 1]
      BY <1>1, Pieces
    <2>2. /\ y \in Seq(S) /\ Len(y) = c - (b + 1) + 1
          /\ \A k \in 1 .. c - (b + 1) + 1 : y[k] = evs[b + 1 + k - 1]
      <3> DEFINE d == b + 1
      <3>1. d \in 1 .. Len(evs) + 1 /\ c \in d - 1 .. Len(evs)
        BY <1>1
      <3> HIDE DEF d
      <3>2. SubSeq(evs, d, c) \in Seq(S) /\ Len(SubSeq(evs, d, c)) = c - d + 1
            /\ \A k \in 1 .. c - d + 1 : SubSeq(evs, d, c)[k] = evs[d + k - 1]
        BY <3>1, Pieces
      <3> QED
        BY <3>2 DEF d
    <2>3. z \in Seq(S) /\ Len(z) = c - a + 1 /\ \A k \in 1 .. c - a + 1 : z[k] = evs[a + k - 1]
      BY <1>1, Pieces
    <2> QED
      BY <2>1, <2>2, <2>3
  <1> HIDE DEF x, y, z
  <1>3. Len(x \o y) = Len(z) /\ x \o y \in Seq(S)
    <2>1. x \in Seq(S) /\ y \in Seq(S) /\ Len(x) + Len(y) = Len(z)
      BY <1>1, <1>2
    <2> QED
      BY <2>1, ConcatProperties
  <1>4. ASSUME NEW k \in 1 .. Len(z) PROVE (x \o y)[k] = z[k]
    <2>1. CASE k <= Len(x)
      <3>1. k \in 1 .. Len(x)
        BY <1>1, <1>2, <2>1
      <3>2. (x \o y)[k] = x[k]
        BY <1>2, <3>1
      <3> QED
        BY <1>1, <1>2, <1>4, <3>1, <3>2
    <2>2. CASE k > Len(x)
      <3> DEFINE l == k - Len(x)
      <3>1. l \in 1 .. Len(y) /\ k = Len(x) + l
        <4>1. k \in Nat /\ k <= c - a + 1 /\ Len(x) = b - a + 1 /\ Len(y) = c - (b + 1) + 1
          BY <1>1, <1>2
        <4> QED
          BY <1>1, <2>2, <4>1
      <3>2. (x \o y)[k] = y[l]
        <4>1. k \in 1 .. Len(x) + Len(y) /\ x \in Seq(S) /\ y \in Seq(S) /\ ~(k <= Len(x))
          BY <1>1, <1>2, <2>2, <3>1
        <4> DEFINE w == x \o y
        <4>2. \A i \in 1 .. Len(x) + Len(y) : w[i] = IF i <= Len(x) THEN x[i] ELSE y[i - Len(x)]
          BY <4>1, ConcatProperties
        <4> HIDE DEF w
        <4>3. w[k] = y[k - Len(x)]
          BY <4>1, <4>2
        <4> QED
          BY <4>3 DEF w
      <3>3. y[l] = evs[b + 1 + l - 1] /\ b + 1 + l - 1 = a + k - 1
        <4>1. l \in 1 .. c - (b + 1) + 1
          BY <1>2, <3>1
        <4>2. l = k - (b - a + 1) /\ k \in Nat /\ a \in Nat /\ b \in Nat
          BY <1>1, <1>2
        <4>3. b + 1 + l - 1 = a + k - 1
          BY <4>2
        <4> HIDE DEF l
        <4> QED
          BY <1>2, <4>1, <4>3
      <3> QED
        BY <1>1, <1>2, <1>4, <3>2, <3>3
    <2> QED
      BY <1>1, <1>2, <2>1, <2>2
  <1> QED
    BY <1>2, <1>3, <1>4 DEF x, y, z

(* What a window shows is projected whole. *)
Whole(n, w) ==
    /\ w \in Seq(EventsBelow(n)) /\ Uncompacted(w) /\ Projection(w).pending = NoId
    /\ DeriveUi(w) = Projection(w).out /\ Projection(w).out \in Seq(CardsBelow(n))
Orderly(n, evs) ==
    evs \in Seq(EventsBelow(n)) /\ Uncompacted(evs) /\ Answered(evs) /\ OwnResults(evs)
EndsAt(evs, b) == b = Len(evs) \/ evs[b + 1].kind = "UserMessage"

LEMMA PieceIsWhole ==
    ASSUME NEW n \in Nat, NEW evs, Orderly(n, evs),
           NEW a \in 1 .. Len(evs) + 1, NEW b \in a - 1 .. Len(evs), EndsAt(evs, b)
    PROVE  Whole(n, SubSeq(evs, a, b))
  <1>1. evs \in Seq(EventsBelow(n)) /\ Uncompacted(evs) /\ Answered(evs) /\ OwnResults(evs)
    BY DEF Orderly
  <1>2. b = Len(evs) \/ evs[b + 1].kind = "UserMessage"
    BY DEF EndsAt
  <1> QED
    BY <1>1, <1>2, PieceIsClosed DEF Whole

LEMMA WindowsJoin ==
    ASSUME NEW n \in Nat, NEW evs, Orderly(n, evs),
           NEW a \in 1 .. Len(evs), NEW b \in a .. Len(evs), NEW c \in b .. Len(evs), EndsAt(evs, b), EndsAt(evs, c)
    PROVE  Projection(SubSeq(evs, a, c)).out
             = Cat(Projection(SubSeq(evs, a, b)).out, Projection(SubSeq(evs, b + 1, c)).out)
  <1> DEFINE x == SubSeq(evs, a, b)
             y == SubSeq(evs, b + 1, c)
             z == SubSeq(evs, a, c)
             S == EventsBelow(n)
  <1>0. evs \in Seq(S) /\ Len(evs) \in Nat
    BY DEF Orderly
  <1>1. /\ a \in 1 .. Len(evs) + 1 /\ b \in a - 1 .. Len(evs) /\ c \in a - 1 .. Len(evs)
        /\ b + 1 \in 1 .. Len(evs) + 1 /\ c \in (b + 1) - 1 .. Len(evs)
    BY <1>0
  <1>2. Whole(n, x) /\ Whole(n, y) /\ Whole(n, z)
    BY <1>1, PieceIsWhole
  <1>3. x \o y = z
    <2> HIDE DEF S
    <2> QED
      BY <1>0, PiecesJoin
  <1> HIDE DEF x, y, z
  <1>4. Uncompacted(x \o y)
    BY <1>2, <1>3 DEF Whole
  <1>5. Projection(x \o y).out = Cat(Projection(x).out, Projection(y).out)
    BY <1>2, <1>4, ProjectionSplits DEF Whole
  <1> QED
    BY <1>3, <1>5 DEF x, y, z

(* Where the window of a turn ends. *)
EndOf(evs, u, t) == IF t < Len(u) THEN u[t + 1] - 1 ELSE Len(evs)

LEMMA WindowEnds ==
    ASSUME NEW S, NEW evs \in Seq(S), NEW u, Lines(evs, u, Len(evs)), NEW t \in 1 .. Len(u)
    PROVE  /\ u[t] \in 1 .. Len(evs) /\ EndOf(evs, u, t) \in u[t] .. Len(evs) /\ EndsAt(evs, EndOf(evs, u, t))
           /\ t < Len(u) => EndOf(evs, u, t) + 1 = u[t + 1]
           /\ t = Len(u) => EndOf(evs, u, t) = Len(evs)
  <1>1. /\ Len(evs) \in Nat /\ u \in Seq(Nat) /\ Len(u) \in Nat
        /\ \A s \in 1 .. Len(u) : u[s] \in 1 .. Len(evs) /\ evs[u[s]].kind = "UserMessage"
                                  /\ (s < Len(u) => u[s] < u[s + 1])
    BY DEF Lines
  <1>2. CASE t < Len(u)
    <2>1. t + 1 \in 1 .. Len(u) /\ EndOf(evs, u, t) = u[t + 1] - 1
      BY <1>1, <1>2 DEF EndOf
    <2>2. u[t] \in 1 .. Len(evs) /\ u[t + 1] \in 1 .. Len(evs) /\ u[t] < u[t + 1] /\ evs[u[t + 1]].kind = "UserMessage"
      BY <1>1, <1>2, <2>1
    <2>3. (u[t + 1] - 1) + 1 = u[t + 1]
      BY <2>2
    <2> QED
      BY <1>1, <1>2, <2>1, <2>2, <2>3 DEF EndsAt
  <1>3. CASE t >= Len(u)
    <2>1. EndOf(evs, u, t) = Len(evs) /\ t = Len(u)
      BY <1>1, <1>3 DEF EndOf
    <2> QED
      BY <1>1, <2>1 DEF EndsAt
  <1> QED
    BY <1>1, <1>2, <1>3

LEMMA Tiling ==
    ASSUME NEW n \in Nat, NEW evs, Orderly(n, evs), NEW u, Lines(evs, u, Len(evs)), Len(u) > 0,
           NEW s, s = [t \in 1 .. Len(u) |-> DeriveUi(SubSeq(evs, u[t], EndOf(evs, u, t)))]
    PROVE  FlattenSeq(s) = DeriveUi(SubSeq(evs, u[1], Len(evs)))
  <1> DEFINE m == Len(u)
             l == Len(evs)
             C == CardsBelow(n)
             E(t) == EndOf(evs, u, t)
             Out(a, b) == Projection(SubSeq(evs, a, b)).out
  <1>1. evs \in Seq(EventsBelow(n)) /\ l \in Nat /\ m \in Nat \ {0}
    BY DEF Orderly, Lines
  <1>2. ASSUME NEW t \in 1 .. m
        PROVE  /\ u[t] \in 1 .. l /\ E(t) \in u[t] .. l /\ EndsAt(evs, E(t))
               /\ t < m => E(t) + 1 = u[t + 1]
               /\ t = m => E(t) = l
    BY <1>1, WindowEnds
  <1>3. ASSUME NEW t \in 1 .. m PROVE s[t] = Out(u[t], E(t)) /\ s[t] \in Seq(C)
    <2>1. u[t] \in 1 .. l + 1 /\ E(t) \in u[t] - 1 .. l /\ EndsAt(evs, E(t))
      BY <1>1, <1>2
    <2>2. Whole(n, SubSeq(evs, u[t], E(t)))
      <3> HIDE DEF E
      <3> QED
        BY <2>1, PieceIsWhole
    <2>3. s[t] = DeriveUi(SubSeq(evs, u[t], E(t)))
      OBVIOUS
    <2> HIDE DEF E
    <2> QED
      BY <2>2, <2>3 DEF Whole
  <1>4. s \in [1 .. m -> Seq(C)]
    <2>1. s = [t \in 1 .. m |-> s[t]]
      OBVIOUS
    <2> HIDE DEF C
    <2> QED
      BY <1>3, <2>1
  <1>5. PICK f \in [0 .. m -> Seq(C)] : Flattens(f, m, s)
    <2> HIDE DEF C
    <2> QED
      BY <1>1, <1>4, Flattened
  <1>6. f[0] = <<>> /\ f[m] = FlattenSeq(s) /\ \A k \in 1 .. m : f[k] = Cat(f[k - 1], s[k])
    BY <1>5 DEF Flattens
  <1> HIDE DEF m, l, C, E, Out
  <1> DEFINE Good == {t \in 0 .. m : t > 0 => E(t) >= u[1] /\ f[t] = Out(u[1], E(t))}
  <1>7. 0 \in Good
    BY <1>1
  <1>8. ASSUME NEW t \in 1 .. m, \A j \in 0 .. t - 1 : j \in Good PROVE t \in Good
    <2>1. f[t] = Cat(f[t - 1], s[t]) /\ s[t] = Out(u[t], E(t)) /\ s[t] \in Seq(C)
      BY <1>3, <1>6
    <2>2. u[t] \in 1 .. l /\ E(t) \in u[t] .. l /\ EndsAt(evs, E(t)) /\ t \in 0 .. m
      BY <1>1, <1>2
    <2>3. CASE t = 1
      <3>1. t - 1 = 0 /\ Cat(<<>>, s[t]) = s[t]
        BY <2>1, <2>3, Concatenated
      <3> QED
        BY <1>1, <1>6, <2>1, <2>2, <2>3, <3>1
    <2>4. CASE t > 1
      <3> DEFINE r == t - 1
      <3>1. r \in 0 .. t - 1 /\ r \in 1 .. m /\ r < m /\ r + 1 = t /\ r > 0
        BY <1>1, <2>4
      <3>2. r \in Good
        BY <1>8, <3>1
      <3> HIDE DEF r
      <3>3. E(r) >= u[1] /\ f[r] = Out(u[1], E(r))
        BY <3>1, <3>2
      <3>4. E(r) + 1 = u[t] /\ EndsAt(evs, E(r)) /\ E(r) \in 1 .. l
        <4>1. E(r) + 1 = u[r + 1] /\ EndsAt(evs, E(r)) /\ E(r) \in u[r] .. l /\ u[r] \in 1 .. l
          BY <1>2, <3>1
        <4> QED
          BY <1>1, <3>1, <4>1
      <3>5. u[1] \in 1 .. l /\ E(r) \in u[1] .. l /\ E(t) \in E(r) .. l /\ E(t) >= u[1]
        <4>1. 1 \in 1 .. m
          BY <1>1
        <4>2. u[1] \in 1 .. l
          BY <1>2, <4>1
        <4> QED
          BY <1>1, <2>2, <3>3, <3>4, <4>2
      <3>6. Out(u[1], E(t)) = Cat(Out(u[1], E(r)), Out(u[t], E(t)))
        <4>1. Out(u[1], E(t)) = Cat(Out(u[1], E(r)), Out(E(r) + 1, E(t)))
          BY <2>2, <3>4, <3>5, WindowsJoin DEF Out, l
        <4> QED
          BY <3>4, <4>1
      <3>7. f[t] = Cat(f[r], s[t])
        BY <2>1 DEF r
      <3>8. f[t] = Out(u[1], E(t))
        BY <2>1, <3>3, <3>6, <3>7
      <3> QED
        BY <2>2, <3>5, <3>8
    <2> QED
      BY <1>1, <2>3, <2>4
  <1>9. 0 .. m \subseteq Good
    <2> HIDE DEF Good
    <2> QED
      BY <1>1, <1>7, <1>8, ForwardInduction
  <1>10. m \in 0 .. m /\ m \in 1 .. m /\ 1 \in 1 .. m /\ m > 0
    BY <1>1
  <1>11. f[m] = Out(u[1], l)
    <2>1. m \in Good
      BY <1>9, <1>10
    <2> QED
      BY <1>2, <1>10, <2>1
  <1>12. DeriveUi(SubSeq(evs, u[1], l)) = Out(u[1], l)
    <2>1. u[1] \in 1 .. l
      BY <1>2, <1>10
    <2>2. u[1] \in 1 .. l + 1 /\ l \in u[1] - 1 .. l /\ EndsAt(evs, l)
      BY <1>1, <2>1 DEF EndsAt, l
    <2>3. Whole(n, SubSeq(evs, u[1], l))
      BY <2>2, PieceIsWhole DEF l
    <2> QED
      BY <2>3 DEF Whole, Out
  <1> QED
    BY <1>6, <1>11, <1>12 DEF l

(* The stats of a view are those of its turn. *)
StatsOf(w) ==
    LET last == Max({0} \cup Positions(w, {"TurnStats"}))
    IN  IF last = 0 THEN 0 ELSE w[last].n

LEMMA ViewStats ==
    ASSUME NEW n \in Nat, NEW w, Whole(n, w), StatsOf(w) > 0
    PROVE  \E i \in 1 .. Len(DeriveUi(w)) : DeriveUi(w)[i] = Ui("stats", StatsOf(w), NoId, NoId)
  <1> DEFINE T == {0} \cup Positions(w, {"TurnStats"})
             last == Max(T)
  <1>1. w \in Seq(EventsBelow(n)) /\ Uncompacted(w) /\ DeriveUi(w) = Projection(w).out
    BY DEF Whole
  <1>2. last \in T
    <2>1. Len(w) \in Nat /\ T \in SUBSET (0 .. Len(w)) /\ T # {}
      BY <1>1 DEF Positions
    <2> HIDE DEF T
    <2> QED
      BY <2>1, MaxOfPlaces
  <1>3. StatsOf(w) = IF last = 0 THEN 0 ELSE w[last].n
    BY DEF StatsOf
  <1> HIDE DEF last
  <1>4. last # 0 /\ StatsOf(w) = w[last].n
    BY <1>3
  <1>5. last \in 1 .. Len(w) /\ w[last].kind = "TurnStats"
    BY <1>2, <1>4 DEF Positions
  <1> QED
    BY <1>1, <1>4, <1>5, StatsAreShown

LEMMA WindowsOfLog ==
    ASSUME NEW n \in Nat, NEW evs, Orderly(n, evs), UserIndices(evs) # <<>>
    PROVE  LET users == UserIndices(evs)
               views == [t \in 1 .. Len(users) |-> TurnView(evs, t)]
           IN  /\ FlattenSeq([t \in 1 .. Len(users) |-> views[t].messages])
                    = DeriveUi(SubSeq(evs, users[1], Len(evs)))
               /\ \A t \in 1 .. Len(users) : views[t].stats > 0 =>
                    \E i \in 1 .. Len(views[t].messages) :
                      views[t].messages[i] = Ui("stats", views[t].stats, NoId, NoId)
  <1> DEFINE u == UserIndices(evs)
             W(t) == SubSeq(evs, u[t], EndOf(evs, u, t))
             views == [t \in 1 .. Len(u) |-> TurnView(evs, t)]
             shown == [t \in 1 .. Len(u) |-> views[t].messages]
             cards == [t \in 1 .. Len(u) |-> DeriveUi(W(t))]
             S == EventsBelow(n)
  <1>1. evs \in Seq(S)
    BY DEF Orderly
  <1>2. Lines(evs, u, Len(evs))
    <2> HIDE DEF S
    <2> QED
      BY <1>1, UsersInOrder
  <1>3. u \in Seq(Nat) /\ Len(u) \in Nat /\ Len(u) > 0
    BY <1>2 DEF Lines
  <1>4. ASSUME NEW t \in 1 .. Len(u) PROVE Window(evs, t) = W(t)
    BY DEF Window, EndOf
  <1> HIDE DEF u
  <1>5. ASSUME NEW t \in 1 .. Len(u)
        PROVE  views[t].messages = DeriveUi(W(t)) /\ views[t].stats = StatsOf(W(t))
    <2>1. views[t] = TurnView(evs, t)
      OBVIOUS
    <2> HIDE DEF W, views
    <2>2. TurnView(evs, t) = [messages |-> DeriveUi(W(t)), stats |-> StatsOf(W(t))]
      BY <1>4 DEF TurnView, StatsOf
    <2> QED
      BY <2>1, <2>2
  <1>6. shown = cards
    <2> HIDE DEF W, views
    <2> QED
      BY <1>5
  <1>7. FlattenSeq(cards) = DeriveUi(SubSeq(evs, u[1], Len(evs)))
    BY <1>2, <1>3, Tiling
  <1>8. ASSUME NEW t \in 1 .. Len(u), views[t].stats > 0
        PROVE  \E i \in 1 .. Len(views[t].messages) :
                 views[t].messages[i] = Ui("stats", views[t].stats, NoId, NoId)
    <2>1. views[t].messages = DeriveUi(W(t)) /\ views[t].stats = StatsOf(W(t))
      BY <1>5
    <2>2. Whole(n, W(t))
      <3>1. u[t] \in 1 .. Len(evs) /\ EndOf(evs, u, t) \in u[t] .. Len(evs) /\ EndsAt(evs, EndOf(evs, u, t))
        <4> HIDE DEF S
        <4> QED
          BY <1>1, <1>2, WindowEnds
      <3>2. u[t] \in 1 .. Len(evs) + 1 /\ EndOf(evs, u, t) \in u[t] - 1 .. Len(evs)
        BY <1>1, <3>1
      <3> QED
        BY <3>1, <3>2, PieceIsWhole
    <2> DEFINE w == W(t)
    <2>3. Whole(n, w) /\ StatsOf(w) > 0
      BY <1>8, <2>1, <2>2
    <2> HIDE DEF w, views, W
    <2>4. \E i \in 1 .. Len(DeriveUi(w)) : DeriveUi(w)[i] = Ui("stats", StatsOf(w), NoId, NoId)
      BY <2>3, ViewStats
    <2> QED
      BY <2>1, <2>4 DEF w
  <1>9. /\ FlattenSeq(shown) = DeriveUi(SubSeq(evs, u[1], Len(evs)))
        /\ \A t \in 1 .. Len(u) : views[t].stats > 0 =>
             \E i \in 1 .. Len(views[t].messages) :
               views[t].messages[i] = Ui("stats", views[t].stats, NoId, NoId)
    <2> HIDE DEF views, shown, cards
    <2> QED
      BY <1>6, <1>7, <1>8
  <1> QED
    BY <1>9 DEF u

-----------------------------------------------------------------------------
(* What an event of the log adds to what a replay tells. *)
Adds(told, ev) ==
    IF ev.kind \in {"UserMessage", "AssistantMessage", "TurnStats"}
    THEN Append(told, <<UiRole(ev.kind), ev.n, NoId>>)
    ELSE IF ev.kind = "ToolResult" /\ ev.id # NoId THEN Append(told, <<"tool", 0, ev.id>>)
    ELSE told

LEMMA CardsTell ==
    ASSUME NEW n \in Nat, NEW c \in IdsBelow(n), NEW r \in IdsBelow(n)
    PROVE  /\ ToolCard(c, r) \in CardsBelow(n)
           /\ Tells(ToolCard(c, r)) <=> r # NoId
           /\ Line(ToolCard(c, r)) = <<"tool", 0, r>>
  <1>1. "tool" \in UiRoles
    BY DEF UiRoles
  <1> QED
    BY <1>1, UiTyped DEF ToolCard, Tells, Line

LEMMA CardAdded ==
    ASSUME NEW n \in Nat, NEW out \in Seq(CardsBelow(n)), NEW c \in IdsBelow(n), NEW r \in IdsBelow(n)
    PROVE  /\ Append(out, ToolCard(c, r)) \in Seq(CardsBelow(n))
           /\ Told(Append(out, ToolCard(c, r))) =
                IF r # NoId THEN Append(Told(out), <<"tool", 0, r>>) ELSE Told(out)
  <1> DEFINE card == ToolCard(c, r)
             S == CardsBelow(n)
  <1>1. card \in S /\ (Tells(card) <=> r # NoId) /\ Line(card) = <<"tool", 0, r>>
    BY CardsTell
  <1>2. out \in Seq(S)
    OBVIOUS
  <1> HIDE DEF card, S
  <1>3. Append(out, card) \in Seq(S)
    BY <1>1, <1>2
  <1>4. Told(Append(out, card)) = IF Tells(card) THEN Append(Told(out), Line(card)) ELSE Told(out)
    BY <1>1, <1>2, ToldOfAppend
  <1>5. Append(out, card) \in Seq(CardsBelow(n))
    BY <1>3 DEF S
  <1> QED
    BY <1>1, <1>4, <1>5 DEF card

LEMMA ToldOfReplay ==
    ASSUME NEW m \in Nat, NEW evs \in Seq(EventsBelow(m))
    PROVE  Told(DeriveUi(evs)) = Told(Projection(evs).out) /\ DeriveUi(evs) \in Seq(CardsBelow(m))
  <1>1. Projection(evs) \in Projections(m)
    BY ProjectionScan
  <1>2. PICK out \in Seq(CardsBelow(m)), waiting \in IdsBelow(m) :
          Projection(evs).out = out /\ Projection(evs).pending = waiting
    BY <1>1 DEF Projections
  <1>3. DeriveUi(evs) = IF waiting = NoId THEN out ELSE Append(out, ToolCard(waiting, NoId))
    BY <1>2 DEF DeriveUi
  <1>4. /\ ToolCard(waiting, NoId) \in CardsBelow(m)
        /\ ~Tells(ToolCard(waiting, NoId))
    BY CardsTell, NoIdBelow
  <1>5. Told(Append(out, ToolCard(waiting, NoId))) = Told(out)
    BY <1>4, ToldOfAppend
  <1> QED
    BY <1>2, <1>3, <1>4, <1>5

LEMMA ToldOfProjected ==
    ASSUME NEW n \in Nat, NEW st \in Projections(n), NEW ev \in EventsBelow(n)
    PROVE  Told(Projected(st, ev).out) = Adds(Told(st.out), ev)
  <1>1. PICK out \in Seq(CardsBelow(n)), waiting \in IdsBelow(n) :
          st = [out |-> out, pending |-> waiting]
    BY DEF Projections
  <1>2. st.out = out /\ st.pending = waiting
    BY <1>1
  <1>3. /\ ev.id \in IdsBelow(n) /\ ev.n \in Nat /\ ev.kind \in Kinds \cup {"Command"}
        /\ NoId \in IdsBelow(n)
    BY NoIdBelow DEF EventsBelow, SessionEvents
  <1>4. CASE ev.kind \in {"TurnStart", "TurnEnd"}
    BY <1>2, <1>4 DEF Projected, Adds
  <1>5. CASE ev.kind = "ToolCall"
    <2>1. Projected(st, ev).out = out
      BY <1>1, <1>5 DEF Projected
    <2> QED
      BY <1>2, <1>5, <2>1 DEF Adds
  <1>6. CASE ev.kind = "ToolResult"
    <2>1. /\ Adds(Told(out), ev) = IF ev.id # NoId THEN Append(Told(out), <<"tool", 0, ev.id>>) ELSE Told(out)
      BY <1>6 DEF Adds
    <2>2. CASE waiting = NoId
      <3>1. Projected(st, ev).out = Append(out, ToolCard(NoId, ev.id))
        BY <1>2, <1>6, <2>2 DEF Projected
      <3>2. Told(Append(out, ToolCard(NoId, ev.id))) = Adds(Told(out), ev)
        BY <1>3, <2>1, CardAdded
      <3> QED
        BY <1>2, <3>1, <3>2
    <2>3. CASE waiting # NoId /\ waiting = ev.id
      <3>1. Projected(st, ev).out = Append(out, ToolCard(ev.id, ev.id))
        BY <1>2, <1>6, <2>3 DEF Projected
      <3>2. Told(Append(out, ToolCard(ev.id, ev.id))) = Adds(Told(out), ev)
        BY <1>3, <2>1, CardAdded, Zenon
      <3> QED
        BY <1>2, <3>1, <3>2
    <2>4. CASE waiting # NoId /\ waiting # ev.id
      <3> DEFINE a == ToolCard(waiting, NoId)
                 b == ToolCard(NoId, ev.id)
                 one == Append(out, a)
      <3>1. Projected(st, ev).out = out \o <<a, b>>
        BY <1>2, <1>6, <2>4 DEF Projected
      <3>2. one \in Seq(CardsBelow(n)) /\ Told(one) = Told(out)
        BY <1>3, CardAdded
      <3>3. Told(Append(one, b)) = Adds(Told(one), ev)
        <4> HIDE DEF one
        <4>1. \A r \in IdsBelow(n) :
                Told(Append(one, ToolCard(NoId, r))) =
                  IF r # NoId THEN Append(Told(one), <<"tool", 0, r>>) ELSE Told(one)
          BY <1>3, <3>2, CardAdded
        <4>2. Told(Append(one, b)) = IF ev.id # NoId THEN Append(Told(one), <<"tool", 0, ev.id>>) ELSE Told(one)
          BY <1>3, <4>1
        <4> QED
          BY <1>6, <4>2 DEF Adds
      <3>4. a \in CardsBelow(n) /\ b \in CardsBelow(n)
        BY <1>3, CardsTell
      <3>5. out \o <<a, b>> = Append(one, b)
        <4> DEFINE S == CardsBelow(n)
        <4>1. out \in Seq(S) /\ a \in S /\ b \in S
          BY <3>4
        <4> HIDE DEF S, a, b
        <4> QED
          BY <4>1
      <3> HIDE DEF one, a, b
      <3> QED
        BY <1>2, <3>1, <3>2, <3>3, <3>5
    <2> QED
      BY <2>2, <2>3, <2>4
  <1>7. CASE ev.kind \notin {"TurnStart", "TurnEnd", "ToolCall", "ToolResult"}
    <2> DEFINE u == Ui(UiRole(ev.kind), ev.n, NoId, NoId)
    <2>1. UiRole(ev.kind) \in UiRoles \ {"tool"}
      BY <1>3, <1>7 DEF UiRole, UiRoles, Kinds
    <2>2. UiRole(ev.kind) = "system" <=> ev.kind \notin {"UserMessage", "AssistantMessage", "TurnStats"}
      BY <1>3, <1>7 DEF UiRole, Kinds
    <2>3. Projected(st, ev).out = Append(out, u)
      BY <1>1, <1>7 DEF Projected
    <2>4. /\ u \in CardsBelow(n)
          /\ Tells(u) <=> ev.kind \in {"UserMessage", "AssistantMessage", "TurnStats"}
          /\ Line(u) = <<UiRole(ev.kind), ev.n, NoId>>
      BY <1>3, <2>1, <2>2, UiTyped DEF Tells, Line
    <2> HIDE DEF u
    <2>5. Told(Append(out, u)) = IF Tells(u) THEN Append(Told(out), Line(u)) ELSE Told(out)
      BY <2>4, ToldOfAppend
    <2> QED
      BY <1>2, <1>7, <2>3, <2>4, <2>5 DEF Adds
  <1> QED
    BY <1>4, <1>5, <1>6, <1>7

LEMMA ReplayOfAppend ==
    ASSUME NEW m \in Nat, NEW evs \in Seq(EventsBelow(m)), NEW ev \in EventsBelow(m),
           Uncompacted(Append(evs, ev))
    PROVE  Told(DeriveUi(Append(evs, ev))) = Adds(Told(DeriveUi(evs)), ev)
  <1>1. Append(evs, ev) \in Seq(EventsBelow(m)) /\ Projection(evs) \in Projections(m)
    BY ProjectionScan
  <1>2. Projection(Append(evs, ev)) = Projected(Projection(evs), ev)
    BY ProjectionOfAppend
  <1> QED
    BY <1>1, <1>2, ToldOfReplay, ToldOfProjected

(* The calls of a reply are not told until they are answered.              *)
LEMMA ReplayOfCalls ==
    ASSUME NEW m \in Nat, NEW evs \in Seq(EventsBelow(m)), Uncompacted(evs),
           NEW n \in Nat, NEW calls \in [1 .. n -> EventsBelow(m)],
           \A k \in 1 .. n : calls[k].kind = "ToolCall"
    PROVE  /\ evs \o calls \in Seq(EventsBelow(m)) /\ Uncompacted(evs \o calls)
           /\ Told(DeriveUi(evs \o calls)) = Told(DeriveUi(evs))
  <1> DEFINE first(k) == evs \o SubSeq(calls, 1, k)
             Good == {k \in 0 .. n : /\ first(k) \in Seq(EventsBelow(m)) /\ Uncompacted(first(k))
                                     /\ Told(DeriveUi(first(k))) = Told(DeriveUi(evs))}
  <1>1. calls \in Seq(EventsBelow(m)) /\ Len(calls) = n
    OBVIOUS
  <1>2. 0 \in Good
    <2>1. SubSeq(calls, 1, 0) = <<>>
      BY <1>1
    <2>2. evs \o <<>> = evs
      BY ConcatEmptySeq
    <2>3. first(0) = evs
      BY <2>1, <2>2
    <2> HIDE DEF first
    <2> QED
      BY <2>3
  <1>3. ASSUME NEW k \in 1 .. n, \A j \in 0 .. k - 1 : j \in Good PROVE k \in Good
    <2>1. k - 1 \in 0 .. k - 1 /\ k - 1 \in 0 .. n /\ k \in 0 .. n
      OBVIOUS
    <2>2. k - 1 \in Good
      BY <1>3, <2>1
    <2>3. PICK before \in Seq(EventsBelow(m)) :
            /\ before = first(k - 1) /\ Uncompacted(before)
            /\ Told(DeriveUi(before)) = Told(DeriveUi(evs))
      BY <2>2
    <2>4. SubSeq(calls, 1, k) = Append(SubSeq(calls, 1, k - 1), calls[k])
      BY <1>1
    <2>5. calls[k] \in EventsBelow(m) /\ calls[k].kind = "ToolCall"
      OBVIOUS
    <2>6. SubSeq(calls, 1, k - 1) \in Seq(EventsBelow(m))
      BY <1>1, <2>1
    <2>7. first(k) = Append(before, calls[k])
      BY <2>3, <2>4, <2>5, <2>6
    <2>8. Uncompacted(Append(before, calls[k])) /\ Append(before, calls[k]) \in Seq(EventsBelow(m))
      <3> DEFINE S == EventsBelow(m)
      <3>1. before \in Seq(S) /\ calls[k] \in S /\ calls[k].kind # "Compaction" /\ Uncompacted(before)
        BY <2>3, <2>5
      <3> HIDE DEF S, first
      <3>2. Uncompacted(Append(before, calls[k])) /\ Append(before, calls[k]) \in Seq(S)
        BY <3>1, UncompactedPrefix
      <3> QED
        BY <3>2 DEF S
    <2>9. Adds(Told(DeriveUi(before)), calls[k]) = Told(DeriveUi(before))
      BY <2>5 DEF Adds
    <2>10. Told(DeriveUi(Append(before, calls[k]))) = Told(DeriveUi(evs))
      BY <2>3, <2>5, <2>8, <2>9, ReplayOfAppend
    <2> HIDE DEF first
    <2> QED
      BY <2>1, <2>7, <2>8, <2>10
  <1>4. n \in Good
    <2> HIDE DEF Good
    <2>1. 0 .. n \subseteq Good
      BY <1>2, <1>3, ForwardInduction
    <2> QED
      BY <2>1
  <1>5. SubSeq(calls, 1, n) = calls
    BY <1>1
  <1> QED
    BY <1>4, <1>5

-----------------------------------------------------------------------------
(* The timeline *)

(* A text, when the last thing shown is not one.                           *)
LEMMA ShownText ==
    ASSUME NEW n \in Nat, NEW shown \in Seq(CardsBelow(n)), shown # <<>>,
           Last(shown).role # "assistant", NEW ev, ev.kind = "AssistantText"
    PROVE  Shown(shown, ev) = Append(shown, Ui("assistant", ev.n, NoId, NoId))
  <1>1. MapEventUi(ev) = <<Ui("assistant", ev.n, NoId, NoId)>>
    BY DEF MapEventUi
  <1>2. Shown(shown, ev) = Merged(shown, Ui("assistant", ev.n, NoId, NoId))
    BY <1>1 DEF Shown
  <1> QED
    BY <1>2 DEF Merged, Ui

LEMMA ShownStats ==
    ASSUME NEW shown, NEW ev, ev.kind = "TurnStats"
    PROVE  Shown(shown, ev) = Append(shown, Ui("stats", ev.n, NoId, NoId))
  <1>1. MapEventUi(ev) = <<Ui("stats", ev.n, NoId, NoId)>>
    BY DEF MapEventUi
  <1>2. Shown(shown, ev) = Merged(shown, Ui("stats", ev.n, NoId, NoId))
    BY <1>1 DEF Shown
  <1> QED
    BY <1>2 DEF Merged, Ui

(* The user's line is there already, and the whole reply is not told again. *)
LEMMA ShownAlready ==
    ASSUME NEW shown, NEW ev, ev.kind \in {"UserMessage", "Assistant"}
    PROVE  Shown(shown, ev) = shown
  <1>1. CASE ev.kind = "Assistant"
    BY <1>1 DEF MapEventUi, Shown
  <1>2. CASE ev.kind = "UserMessage"
    <2>1. MapEventUi(ev) = <<Ui("user", ev.n, NoId, NoId)>>
      BY <1>2 DEF MapEventUi
    <2>2. Shown(shown, ev) = Merged(shown, Ui("user", ev.n, NoId, NoId))
      BY <2>1 DEF Shown
    <2> QED
      BY <2>2 DEF Merged, Ui
  <1> QED
    BY <1>1, <1>2

(* A call nobody has seen yet gets a card, and its result completes it.    *)
LEMMA ShownAnswer ==
    ASSUME NEW c \in Nat, NEW shown \in Seq(CardsBelow(c))
    PROVE  Shown(Shown(shown, ToolCall(SentId(c))), ToolResult(SentId(c), 0))
             = Append(shown, ToolCard(SentId(c), SentId(c)))
  <1> DEFINE id == SentId(c)
             card == ToolCard(id, NoId)
             n == Len(shown)
  <1>1. id # NoId /\ id \notin IdsBelow(c)
    BY DEF SentId, NoId, IdsBelow
  <1>2. card.role = "tool" /\ card.call = id /\ card.result = NoId /\ card.n = 0
    BY DEF ToolCard, Ui
  <1>3. n \in Nat /\ \A i \in 1 .. n : shown[i].call \in IdsBelow(c)
    <2>1. \A m \in CardsBelow(c) : m.call \in IdsBelow(c)
      BY DEF CardsBelow
    <2>2. n \in Nat /\ \A i \in 1 .. n : shown[i] \in CardsBelow(c)
      OBVIOUS
    <2> QED
      BY <2>1, <2>2
  <1>4. CardsOf(shown, id) = {}
    BY <1>1, <1>3 DEF CardsOf
  <1>5. Shown(shown, ToolCall(id)) = Append(shown, card)
    <2>1. MapEventUi(ToolCall(id)) = <<card>>
      BY DEF MapEventUi, ToolCall, Event
    <2>2. Shown(shown, ToolCall(id)) = Merged(shown, card)
      BY <2>1 DEF Shown
    <2> HIDE DEF card, id
    <2> QED
      BY <1>2, <1>4, <2>2 DEF Merged
  <1>6. CardsOf(Append(shown, card), id) = {n + 1}
    <2>1. /\ Len(Append(shown, card)) = n + 1 /\ Append(shown, card)[n + 1] = card
          /\ \A i \in 1 .. n : Append(shown, card)[i] = shown[i]
      OBVIOUS
    <2>2. \A i \in 1 .. n : ~(shown[i].role = "tool" /\ shown[i].call = id)
      BY <1>1, <1>3
    <2>3. n + 1 \in 1 .. n + 1 /\ \A i \in 1 .. n + 1 : i = n + 1 \/ i \in 1 .. n
      BY <1>3
    <2> HIDE DEF card, id, n
    <2> QED
      BY <1>2, <1>3, <2>1, <2>2, <2>3 DEF CardsOf
  <1>7. Max({n + 1}) = n + 1
    <2>1. {n + 1} \in SUBSET (0 .. n + 1) /\ n + 1 \in Nat
      BY <1>3
    <2> QED
      BY <2>1, MaxOfPlaces
  <1>8. Shown(Append(shown, card), ToolResult(id, 0)) = [Append(shown, card) EXCEPT ![n + 1].result = id]
    <2> DEFINE done == ToolCard(id, id)
    <2>1. MapEventUi(ToolResult(id, 0)) = <<done>>
      BY DEF MapEventUi, ToolResult, Event
    <2>2. Shown(Append(shown, card), ToolResult(id, 0)) = Merged(Append(shown, card), done)
      BY <2>1 DEF Shown
    <2>3. done.role = "tool" /\ done.call = id /\ done.result = id
      BY DEF ToolCard, Ui
    <2> HIDE DEF done, card, id, n
    <2> QED
      BY <1>6, <1>7, <2>2, <2>3 DEF Merged
  <1>9. [Append(shown, card) EXCEPT ![n + 1].result = id] = Append(shown, ToolCard(id, id))
    <2> DEFINE done == ToolCard(id, id)
               with == Append(shown, card)
    <2>1. [card EXCEPT !.result = id] = done
      BY DEF ToolCard, Ui
    <2>2. /\ DOMAIN with = 1 .. n + 1 /\ with[n + 1] = card
          /\ \A i \in 1 .. n : with[i] = shown[i]
      BY <1>3
    <2>3. /\ DOMAIN Append(shown, done) = 1 .. n + 1 /\ Append(shown, done)[n + 1] = done
          /\ \A i \in 1 .. n : Append(shown, done)[i] = shown[i]
      BY <1>3
    <2>4. /\ with = [i \in 1 .. n + 1 |-> with[i]]
          /\ Append(shown, done) = [i \in 1 .. n + 1 |-> Append(shown, done)[i]]
      <3> DEFINE S == CardsBelow(c) \cup {card, done}
      <3>1. shown \in Seq(S) /\ card \in S /\ done \in S /\ n = Len(shown)
        OBVIOUS
      <3> HIDE DEF S, card, done, id, n
      <3>2. \A x \in S : Append(shown, x) \in [1 .. n + 1 -> S]
        BY <1>3, <3>1, AppendProperties, LenProperties
      <3>3. with \in [1 .. n + 1 -> S] /\ Append(shown, done) \in [1 .. n + 1 -> S]
        BY <3>1, <3>2 DEF with
      <3> HIDE DEF with
      <3>4. \A f \in [1 .. n + 1 -> S] : f = [i \in 1 .. n + 1 |-> f[i]]
        OBVIOUS
      <3> QED
        BY <3>3, <3>4
    <2> HIDE DEF card, done, with, id, n
    <2>5. [with EXCEPT ![n + 1].result = id] = [i \in 1 .. n + 1 |-> IF i = n + 1 THEN done ELSE with[i]]
      BY <1>3, <2>1, <2>2, <2>4
    <2>6. \A i \in 1 .. n + 1 : i = n + 1 \/ i \in 1 .. n
      BY <1>3
    <2>7. [with EXCEPT ![n + 1].result = id] = Append(shown, done)
      BY <2>2, <2>3, <2>4, <2>5, <2>6
    <2> QED
      BY <2>7 DEF with, done
  <1> QED
    BY <1>5, <1>8, <1>9

-----------------------------------------------------------------------------
(* The invariant of a session *)

(* Of the calls a model has sent, all but those of the reply that are not  *)
(* answered yet have been shown.                                           *)
SessionTyped ==
    /\ asNext \in [text : Nat, call : Nat \ {0}]
    /\ asLog \in Seq(EventsBelow(asNext.call))
    /\ asCalls \in Seq(IdKinds \X Nat) /\ Len(asCalls) < asNext.call
    /\ \A k \in 1 .. Len(asCalls) : asCalls[k] = SentId(asNext.call - Len(asCalls) + k - 1)
    /\ asShown \in Seq(CardsBelow(asNext.call - Len(asCalls)))
    /\ asPc \in {"idle", "before", "head", "llm", "tool", "finish"}
    /\ asPc = "tool" <=> asCalls # <<>>
    /\ asTurn \in Nat /\ asTotal \in Nat /\ asBase \in Nat /\ asSpent \in Nat

(* The total is what it was when the turn began and what the turn spent.   *)
Counted == asPc # "idle" => asTotal = asBase + asSpent

(* A reply follows the user's line or a tool card.                         *)
Prompted == {"before", "head", "llm"}
AfterNoText == asPc \in Prompted => asShown # <<>> /\ Last(asShown).role # "assistant"

(* Within a turn too.                                                      *)
Replayed == ~asApart /\ Uncompacted(asLog) => Told(DeriveUi(asLog)) = Told(asShown)

SessionInv == SessionTyped /\ Counted /\ AfterNoText /\ Replayed

LEMMA MoreBelow ==
    ASSUME NEW n \in Nat, NEW m \in Nat, n <= m
    PROVE  /\ IdsBelow(n) \subseteq IdsBelow(m)
           /\ EventsBelow(n) \subseteq EventsBelow(m) /\ Seq(EventsBelow(n)) \subseteq Seq(EventsBelow(m))
           /\ CardsBelow(n) \subseteq CardsBelow(m) /\ Seq(CardsBelow(n)) \subseteq Seq(CardsBelow(m))
  <1>1. IdsBelow(n) \subseteq IdsBelow(m)
    BY DEF IdsBelow
  <1>2. EventsBelow(n) \subseteq EventsBelow(m)
    BY <1>1 DEF EventsBelow
  <1>3. CardsBelow(n) \subseteq CardsBelow(m)
    BY <1>1 DEF CardsBelow
  <1>4. \A S, T : S \subseteq T => Seq(S) \subseteq Seq(T)
    OBVIOUS
  <1> QED
    BY <1>1, <1>2, <1>3, <1>4

(* The log grows by something that is not told.                            *)
Quietly(n, old, new) ==
    /\ new \in Seq(EventsBelow(n))
    /\ Uncompacted(new) => Uncompacted(old) /\ Told(DeriveUi(new)) = Told(DeriveUi(old))

LEMMA QuietEvent ==
    ASSUME NEW n \in Nat, NEW evs \in Seq(EventsBelow(n)), NEW ev \in EventsBelow(n),
           ev.kind \in {"TurnStart", "TurnEnd", "Command"}
    PROVE  Quietly(n, evs, Append(evs, ev))
  <1> DEFINE S == EventsBelow(n)
  <1>1. evs \in Seq(S) /\ ev \in S
    OBVIOUS
  <1>2. Append(evs, ev) \in Seq(S) /\ (Uncompacted(Append(evs, ev)) => Uncompacted(evs))
    <2> HIDE DEF S
    <2> QED
      BY <1>1, UncompactedPrefix
  <1>3. Uncompacted(Append(evs, ev)) => Told(DeriveUi(Append(evs, ev))) = Adds(Told(DeriveUi(evs)), ev)
    BY ReplayOfAppend
  <1>4. Adds(Told(DeriveUi(evs)), ev) = Told(DeriveUi(evs))
    BY DEF Adds
  <1> QED
    BY <1>2, <1>3, <1>4 DEF Quietly

LoggedKinds == Kinds \cup {"Command"}
Reasons == {"", "completed", "aborted", "error"}

LEMMA EventTyped ==
    ASSUME NEW n \in Nat, NEW kind \in LoggedKinds, NEW k \in Nat, NEW id \in IdsBelow(n),
           NEW why \in Reasons
    PROVE  Event(kind, k, id, why) \in EventsBelow(n)
  BY DEF Event, EventsBelow, SessionEvents, IdsBelow, LoggedKinds, Reasons

LEMMA LastPosition ==
    ASSUME NEW S, NEW evs \in Seq(S), NEW T \in SUBSET (1 .. Len(evs))
    PROVE  Max({0} \cup T) \in 0 .. Len(evs)
  <1>1. Len(evs) \in Nat /\ {0} \cup T \in SUBSET (0 .. Len(evs)) /\ {0} \cup T # {}
    OBVIOUS
  <1> QED
    BY <1>1, MaxOfPlaces

LEMMA CompactionIsQuiet ==
    ASSUME NEW n \in Nat, NEW evs \in Seq(EventsBelow(n)), NEW c \in CompactionOutcomes(evs)
    PROVE  Quietly(n, evs, c.log) /\ (Uncompacted(c.log) => c.log = evs)
  <1> DEFINE cut == CompactionCut(evs)
             ev == Compaction(cut)
  <1>1. CASE c.log = evs
    BY <1>1 DEF Quietly
  <1>2. CASE c.log = Append(evs, ev)
    <2>1. cut \in Nat
      <3>1. \A x : Positions(evs, {"UserMessage", "ToolResult"}) \cap 1 .. x \in SUBSET (1 .. Len(evs))
        BY DEF Positions
      <3> DEFINE S == EventsBelow(n)
      <3>2. evs \in Seq(S)
        OBVIOUS
      <3> HIDE DEF S
      <3>3. \A x : Max({0} \cup (Positions(evs, {"UserMessage", "ToolResult"}) \cap 1 .. x)) \in 0 .. Len(evs)
        BY <3>1, <3>2, LastPosition
      <3>4. cut = ToolPairSafeCut(evs, Len(evs) - RetainedEvents(Len(evs)))
        BY DEF CompactionCut
      <3>5. \A x : ToolPairSafeCut(evs, x) \in 0 .. Len(evs)
        BY <3>3 DEF ToolPairSafeCut
      <3>6. cut \in 0 .. Len(evs) /\ Len(evs) \in Nat
        <4> HIDE DEF cut
        <4> QED
          BY <3>2, <3>4, <3>5
      <3> QED
        BY <3>6
    <2>2. ev \in EventsBelow(n) /\ ev.kind = "Compaction"
      <3>1. "Compaction" \in LoggedKinds /\ "" \in Reasons /\ NoId \in IdsBelow(n)
        BY NoIdBelow DEF Kinds, LoggedKinds, Reasons
      <3> HIDE DEF cut
      <3>2. Event("Compaction", cut, NoId, "") \in EventsBelow(n)
        BY <2>1, <3>1, EventTyped
      <3> QED
        BY <3>2 DEF Compaction, Event
    <2> HIDE DEF ev
    <2>3. Append(evs, ev) \in Seq(EventsBelow(n)) /\ ~Uncompacted(Append(evs, ev))
      <3> DEFINE S == EventsBelow(n)
      <3>1. evs \in Seq(S) /\ ev \in S
        BY <2>2
      <3> HIDE DEF S
      <3>2. /\ Append(evs, ev) \in Seq(S) /\ Len(Append(evs, ev)) = Len(evs) + 1 /\ Len(evs) \in Nat
            /\ Append(evs, ev)[Len(evs) + 1] = ev
        BY <3>1
      <3>3. Len(evs) + 1 \in Positions(Append(evs, ev), {"Compaction"})
        BY <2>2, <3>2 DEF Positions
      <3> QED
        BY <3>2, <3>3 DEF S, Uncompacted
    <2> QED
      BY <1>2, <2>3 DEF Quietly
  <1>3. c.log = evs \/ c.log = Append(evs, ev)
    BY DEF CompactionOutcomes
  <1> QED
    BY <1>1, <1>2, <1>3

LEMMA QuietTwice ==
    ASSUME NEW n, NEW a, NEW b, NEW c, Quietly(n, a, b), Quietly(n, b, c)
    PROVE  Quietly(n, a, c)
  BY DEF Quietly

(* A step that shows nothing, and tells nothing unless it sets log and     *)
(* timeline apart.                                                         *)
LEMMA QuietStep ==
    ASSUME SessionInv, asPc # "tool",
           asPc' \in {"idle", "before", "head", "llm", "finish"}, asCalls' = <<>>,
           UNCHANGED <<asShown, asTotal, asBase>>,
           asNext' \in [text : Nat, call : Nat \ {0}], asNext'.call = asNext.call,
           asTurn' \in Nat, asSpent' \in Nat,
           asPc' # "idle" => asPc # "idle" /\ asSpent' = asSpent,
           asPc' \in Prompted => asPc \in Prompted,
           asLog' \in Seq(EventsBelow(asNext.call)),
           ~asApart' => ~asApart /\ Quietly(asNext.call, asLog, asLog')
    PROVE  SessionInv'
  <1>1. /\ SessionTyped /\ Counted /\ AfterNoText /\ Replayed
        /\ asCalls = <<>> /\ asNext.call \in Nat \ {0} /\ asNext.call - Len(asCalls) = asNext.call
    BY DEF SessionInv, SessionTyped
  <1>2. SessionTyped'
    <2>1. /\ asLog' \in Seq(EventsBelow(asNext'.call)) /\ asShown' \in Seq(CardsBelow(asNext'.call))
          /\ Len(asCalls') = 0 /\ asCalls' \in Seq(IdKinds \X Nat)
          /\ asNext'.call - Len(asCalls') = asNext'.call
      BY <1>1 DEF SessionTyped
    <2> QED
      BY <1>1, <2>1 DEF SessionTyped
  <1>3. Counted'
    BY <1>1 DEF Counted
  <1>4. AfterNoText'
    BY <1>1 DEF AfterNoText
  <1>5. Replayed'
    BY <1>1 DEF Replayed, Quietly
  <1> QED
    BY <1>2, <1>3, <1>4, <1>5 DEF SessionInv

-----------------------------------------------------------------------------
(* The actions of a session *)

LEMMA SessionStarts == SessionInit => SessionInv
  <1> SUFFICES ASSUME SessionInit PROVE SessionInv
    OBVIOUS
  <1>1. asLog \in Seq(EventsBelow(1))
    <2>1. asLog \in Seq(SessionEvents) /\ \A i \in 1 .. Len(asLog) : asLog[i].id[1] # "sent"
      BY OpenedAssumption DEF SessionInit
    <2>2. \A i \in 1 .. Len(asLog) : asLog[i] \in EventsBelow(1)
      <3> SUFFICES ASSUME NEW i \in 1 .. Len(asLog) PROVE asLog[i] \in EventsBelow(1)
        OBVIOUS
      <3>1. asLog[i] \in SessionEvents
        BY <2>1
      <3>2. asLog[i].id \in IdKinds \X Nat
        BY <3>1 DEF SessionEvents
      <3> QED
        BY <2>1, <3>1, <3>2 DEF EventsBelow, IdsBelow
    <2> DEFINE S == EventsBelow(1)
    <2> HIDE DEF S
    <2>3. asLog \in Seq(S)
      BY <2>1, <2>2 DEF S
    <2> QED
      BY <2>3 DEF S
  <1>2. asNext.call = 1 /\ Len(asCalls) = 0 /\ asNext.call - Len(asCalls) = 1
    BY DEF SessionInit
  <1>3. asShown \in Seq(CardsBelow(1))
    BY <1>1, ToldOfReplay DEF SessionInit
  <1>4. SessionTyped
    BY <1>1, <1>2, <1>3 DEF SessionInit, SessionTyped
  <1> QED
    BY <1>4 DEF SessionInit, SessionInv, Counted, AfterNoText, Replayed, Prompted

\* What the actions need of the state, and of the marks they put in the log.
LEMMA Known ==
    ASSUME SessionInv
    PROVE  /\ asNext.text \in Nat /\ asNext.call \in Nat \ {0} /\ asTurn \in Nat
           /\ asLog \in Seq(EventsBelow(asNext.call))
           /\ asPc # "tool" => asCalls = <<>> /\ asShown \in Seq(CardsBelow(asNext.call))
  <1>1. SessionTyped /\ asNext.call - 0 = asNext.call
    BY DEF SessionInv, SessionTyped
  <1> QED
    BY <1>1 DEF SessionTyped

LEMMA Marks ==
    ASSUME SessionInv
    PROVE  /\ \A why \in {"completed", "aborted", "error"} :
                /\ Closed(why) \in EventsBelow(asNext.call) /\ Closed(why).kind = "TurnEnd"
           /\ Said("Command") \in EventsBelow(asNext.call) /\ Said("Command").kind = "Command"
           /\ TurnStart(asTurn + 1) \in EventsBelow(asNext.call)
           /\ TurnStart(asTurn + 1).kind = "TurnStart"
  <1>1. /\ asNext.call \in Nat /\ asNext.text \in Nat /\ asTurn \in Nat /\ asTurn + 1 \in Nat
        /\ NoId \in IdsBelow(asNext.call)
    BY Known, NoIdBelow
  <1>2. /\ "TurnEnd" \in LoggedKinds /\ "Command" \in LoggedKinds /\ "TurnStart" \in LoggedKinds
        /\ "" \in Reasons /\ \A why \in {"completed", "aborted", "error"} : why \in Reasons
    BY DEF Kinds, LoggedKinds, Reasons
  <1>3. ASSUME NEW why \in {"completed", "aborted", "error"}
        PROVE  Closed(why) \in EventsBelow(asNext.call) /\ Closed(why).kind = "TurnEnd"
    <2>1. Closed(why) \in EventsBelow(asNext.call)
      BY <1>1, <1>2, EventTyped DEF Closed
    <2> QED
      BY <2>1 DEF Closed, Event
  <1>4. Said("Command") \in EventsBelow(asNext.call) /\ Said("Command").kind = "Command"
    <2>1. Said("Command") \in EventsBelow(asNext.call)
      BY <1>1, <1>2, EventTyped DEF Said
    <2> QED
      BY <2>1 DEF Said, Event
  <1>5. /\ TurnStart(asTurn + 1) \in EventsBelow(asNext.call)
        /\ TurnStart(asTurn + 1).kind = "TurnStart"
    <2>1. TurnStart(asTurn + 1) \in EventsBelow(asNext.call)
      BY <1>1, <1>2, EventTyped DEF TurnStart
    <2> QED
      BY <2>1 DEF TurnStart, Event
  <1> QED
    BY <1>3, <1>4, <1>5

LEMMA QuietMark ==
    ASSUME SessionInv, NEW why \in {"completed", "aborted", "error"}
    PROVE  /\ Quietly(asNext.call, asLog, asLog)
           /\ Quietly(asNext.call, asLog, Append(asLog, Closed(why)))
           /\ Quietly(asNext.call, asLog, Append(asLog, Said("Command")))
  <1>1. Quietly(asNext.call, asLog, asLog)
    BY Known DEF Quietly
  <1> QED
    BY <1>1, Known, Marks, QuietEvent

LEMMA QuietCompaction ==
    ASSUME SessionInv, NEW c \in Compactions(asLog)
    PROVE  Quietly(asNext.call, asLog, c.log)
  BY Known, CompactionIsQuiet DEF Compactions

LEMMA SessionStepQuiet ==
    ASSUME SessionInv,
           AsRefuse \/ AsProceed \/ AsCompactFirst \/ AsStop \/ AsAsk \/ AsFail \/ AsCompact
    PROVE  SessionInv'
  <1>1. /\ asNext \in [text : Nat, call : Nat \ {0}] /\ asTurn \in Nat /\ asSpent \in Nat
        /\ asPc # "tool" => asCalls = <<>>
    BY DEF SessionInv, SessionTyped
  <1>2. /\ asPc # "tool" /\ asCalls = <<>>
        /\ asPc' \in {"idle", "before", "head", "llm", "finish"} /\ asCalls' = <<>>
        /\ UNCHANGED <<asShown, asTotal, asBase, asNext, asApart, asTurn>>
    BY <1>1 DEF AsRefuse, AsProceed, AsCompactFirst, AsStop, AsAsk, AsFail, AsCompact, LeaveTurn, asCost, asSeen
  <1>3. /\ asSpent' \in {asSpent, 0}
        /\ asPc' # "idle" => asPc # "idle" /\ asSpent' = asSpent
        /\ asPc' \in Prompted => asPc \in Prompted
    BY DEF AsRefuse, AsProceed, AsCompactFirst, AsStop, AsAsk, AsFail, AsCompact, LeaveTurn, Prompted
  <1>4. Quietly(asNext.call, asLog, asLog')
    <2>1. CASE AsRefuse \/ AsProceed \/ AsAsk
      BY <2>1, QuietMark DEF AsRefuse, AsProceed, AsAsk
    <2>2. CASE AsCompactFirst
      BY <2>2, QuietMark, QuietCompaction DEF AsCompactFirst
    <2>3. CASE AsStop \/ AsFail
      BY <2>3, QuietMark DEF AsStop, AsFail
    <2>4. CASE AsCompact
      BY <2>4, QuietCompaction DEF AsCompact
    <2> QED
      BY <2>1, <2>2, <2>3, <2>4
  <1>5. asLog' \in Seq(EventsBelow(asNext.call))
    BY <1>4 DEF Quietly
  <1> QED
    BY <1>1, <1>2, <1>3, <1>4, <1>5, QuietStep

(* An undo cuts the log back, and sets it and the timeline apart.          *)
LEMMA UndoneLog ==
    ASSUME NEW n \in Nat, NEW evs \in Seq(EventsBelow(n)), UndoneOf(evs)
    PROVE  /\ asLog' \in Seq(EventsBelow(n))
           /\ ~asApart' => ~asApart /\ asLog' = evs
  <1> DEFINE S == EventsBelow(n)
             k == Max({0} \cup Positions(evs, {"UserMessage"}))
  <1>1. evs \in Seq(S)
    OBVIOUS
  <1>2. k \in 0 .. Len(evs) /\ Len(evs) \in Nat
    <2>1. Positions(evs, {"UserMessage"}) \in SUBSET (1 .. Len(evs))
      BY DEF Positions
    <2>2. PICK T \in SUBSET (1 .. Len(evs)) : T = Positions(evs, {"UserMessage"})
      BY <2>1
    <2> HIDE DEF S
    <2>3. Max({0} \cup T) \in 0 .. Len(evs)
      BY <1>1, LastPosition
    <2> QED
      BY <1>1, <2>2, <2>3
  <1>3. SubSeq(evs, 1, k) \in Seq(S)
    <2> HIDE DEF S, k
    <2>1. \A i \in 1 .. k : evs[i] \in S
      BY <1>1, <1>2
    <2> QED
      BY <1>1, <1>2, <2>1, SubSeqProperties
  <1>4. asLog' \in Seq(S)
    BY <1>1, <1>3 DEF UndoneOf, UndoLastTurn
  <1> QED
    BY <1>4 DEF UndoneOf

LEMMA SessionStepUndo ==
    ASSUME SessionInv, AsUndo PROVE SessionInv'
  <1>1. /\ asNext \in [text : Nat, call : Nat \ {0}] /\ asTurn \in Nat /\ asSpent \in Nat
        /\ asCalls = <<>> /\ asPc = "idle" /\ asLog \in Seq(EventsBelow(asNext.call)) /\ asNext.call \in Nat
    BY Known DEF SessionInv, SessionTyped, AsUndo
  <1>2. UndoneOf(asLog) /\ UNCHANGED <<asShown, asPc, asCalls, asTurn, asTotal, asBase, asSpent, asNext>>
    BY DEF AsUndo, asCost
  <1>3. /\ asLog' \in Seq(EventsBelow(asNext.call))
        /\ ~asApart' => ~asApart /\ asLog' = asLog
    BY <1>1, <1>2, UndoneLog
  <1>4. ~asApart' => ~asApart /\ Quietly(asNext.call, asLog, asLog')
    BY <1>3, QuietMark
  <1> QED
    BY <1>1, <1>2, <1>3, <1>4, QuietStep DEF Prompted

LEMMA SessionStepCommand ==
    ASSUME SessionInv, NEW name \in {"undo", "compact", "other"}, AsCommand(name) PROVE SessionInv'
  <1>1. /\ asNext \in [text : Nat, call : Nat \ {0}] /\ asTurn \in Nat /\ asSpent \in Nat
        /\ asCalls = <<>> /\ asPc = "idle" /\ asLog \in Seq(EventsBelow(asNext.call)) /\ asNext.call \in Nat
    BY Known DEF SessionInv, SessionTyped, AsCommand
  <1>2. PICK recorded \in Seq(EventsBelow(asNext.call)) :
          recorded = Append(asLog, Said("Command")) /\ Quietly(asNext.call, asLog, recorded)
    BY QuietMark DEF Quietly
  <1>3. /\ UNCHANGED <<asShown, asPc, asCalls, asTurn, asTotal, asBase, asSpent>>
        /\ asNext' = [asNext EXCEPT !.text = @ + 1]
    BY DEF AsCommand
  <1>4. asNext' \in [text : Nat, call : Nat \ {0}] /\ asNext'.call = asNext.call
    BY <1>1, <1>3
  <1>5. /\ asLog' \in Seq(EventsBelow(asNext.call))
        /\ ~asApart' => ~asApart /\ Quietly(asNext.call, asLog, asLog')
    <2>1. CASE UndoneOf(recorded)
      <3>1. /\ asLog' \in Seq(EventsBelow(asNext.call))
            /\ ~asApart' => ~asApart /\ asLog' = recorded
        BY <1>1, <2>1, UndoneLog
      <3> QED
        BY <1>2, <3>1
    <2>2. ASSUME NEW c \in Compactions(recorded), asLog' = c.log, UNCHANGED asApart
          PROVE  /\ asLog' \in Seq(EventsBelow(asNext.call))
                 /\ ~asApart' => ~asApart /\ Quietly(asNext.call, asLog, asLog')
      <3>1. Quietly(asNext.call, recorded, c.log)
        BY <1>1, CompactionIsQuiet DEF Compactions
      <3>2. Quietly(asNext.call, asLog, c.log)
        BY <1>2, <3>1, QuietTwice
      <3> QED
        BY <2>2, <3>2 DEF Quietly
    <2>3. CASE asLog' = recorded /\ UNCHANGED asApart
      BY <1>2, <2>3
    <2> QED
      BY <1>2, <2>1, <2>2, <2>3 DEF AsCommand
  <1> QED
    BY <1>1, <1>3, <1>4, <1>5, QuietStep DEF Prompted

LEMMA SessionStepReopen ==
    ASSUME SessionInv, AsReopen PROVE SessionInv'
  <1>1. asNext \in [text : Nat, call : Nat \ {0}] /\ asLog \in Seq(EventsBelow(asNext.call))
        /\ asNext.call \in Nat \ {0}
    BY DEF SessionInv, SessionTyped
  <1>2. DeriveUi(asLog) \in Seq(CardsBelow(asNext.call))
    BY <1>1, ToldOfReplay
  <1>3. /\ asLog' = asLog /\ asNext' = asNext /\ asShown' = DeriveUi(asLog) /\ asCalls' = <<>> /\ asPc' = "idle"
        /\ asTurn' = 0 /\ asTotal' = 0 /\ asBase' = 0 /\ asSpent' = 0 /\ Len(asCalls') = 0
        /\ asNext'.call - Len(asCalls') = asNext.call
    BY <1>1 DEF AsReopen
  <1>4. SessionTyped'
    BY <1>1, <1>2, <1>3 DEF SessionTyped
  <1> QED
    BY <1>3, <1>4 DEF SessionInv, Counted, AfterNoText, Replayed, Prompted

-----------------------------------------------------------------------------
(* A line of the user, in the log and on the screen. *)
LEMMA SessionStepBegin ==
    ASSUME SessionInv, AsBegin PROVE SessionInv'
  <1> DEFINE n == asNext.call
             start == TurnStart(asTurn + 1)
             line == Said("UserMessage")
             shown == Ui("user", asNext.text, NoId, NoId)
  <1>1. /\ asNext \in [text : Nat, call : Nat \ {0}] /\ n \in Nat \ {0} /\ asNext.text \in Nat
        /\ asLog \in Seq(EventsBelow(n)) /\ asCalls = <<>> /\ Len(asCalls) = 0 /\ n - Len(asCalls) = n
        /\ asShown \in Seq(CardsBelow(n)) /\ asTurn \in Nat /\ asTotal \in Nat
    BY Known DEF SessionInv, SessionTyped, AsBegin
  <1>2. /\ asTurn' = asTurn + 1 /\ asBase' = asTotal /\ asSpent' = 0 /\ asTotal' = asTotal
        /\ asLog' = asLog \o <<start, line>> /\ asShown' = Append(asShown, shown)
        /\ asNext' = [asNext EXCEPT !.text = @ + 1] /\ asPc' = "before"
        /\ asCalls' = asCalls /\ asApart' = asApart
    BY DEF AsBegin
  <1>3. asNext' \in [text : Nat, call : Nat \ {0}] /\ asNext'.call = n
    BY <1>1, <1>2
  <1>4. start \in EventsBelow(n) /\ start.kind = "TurnStart"
    BY Marks
  <1>5. /\ line \in EventsBelow(n) /\ line.kind = "UserMessage" /\ line.n = asNext.text
    <2>1. "UserMessage" \in LoggedKinds /\ "" \in Reasons /\ NoId \in IdsBelow(n)
      BY <1>1, NoIdBelow DEF Kinds, LoggedKinds, Reasons
    <2>2. line \in EventsBelow(n)
      BY <1>1, <2>1, EventTyped DEF Said
    <2> QED
      BY <2>2 DEF Said, Event
  <1>6. /\ shown \in CardsBelow(n) /\ shown.role = "user" /\ shown.n = asNext.text
        /\ Tells(shown) /\ Line(shown) = <<"user", asNext.text, NoId>>
    <2>1. "user" \in UiRoles /\ NoId \in IdsBelow(n)
      BY <1>1, NoIdBelow DEF UiRoles
    <2>2. shown \in CardsBelow(n)
      BY <1>1, <2>1, UiTyped
    <2> QED
      BY <2>2 DEF Ui, Tells, Line
  <1>7. PICK begun \in Seq(EventsBelow(n)) :
          begun = Append(asLog, start) /\ Quietly(n, asLog, begun)
    BY <1>1, <1>4, QuietEvent DEF Quietly
  <1> HIDE DEF start, line, shown, n
  <1>8. asLog' = Append(begun, line)
    <2> DEFINE S == EventsBelow(n)
    <2>1. asLog \in Seq(S) /\ start \in S /\ line \in S
      BY <1>1, <1>4, <1>5
    <2> HIDE DEF S
    <2>2. asLog \o <<start, line>> = Append(Append(asLog, start), line)
      BY <2>1
    <2> QED
      BY <1>2, <1>7, <2>2
  <1>9. asLog' \in Seq(EventsBelow(n)) /\ asShown' \in Seq(CardsBelow(n)) /\ asShown' # <<>>
        /\ Last(asShown') = shown
    <2> DEFINE S == EventsBelow(n)
               C == CardsBelow(n)
    <2>1. begun \in Seq(S) /\ line \in S /\ asShown \in Seq(C) /\ shown \in C
      BY <1>1, <1>5, <1>6, <1>7
    <2> HIDE DEF S, C
    <2>2. Append(begun, line) \in Seq(S) /\ Append(asShown, shown) \in Seq(C)
          /\ Append(asShown, shown) # <<>> /\ Last(Append(asShown, shown)) = shown
      BY <2>1 DEF Last
    <2> QED
      BY <1>2, <1>8, <2>2 DEF S, C
  <1>10. SessionTyped'
    <2>1. /\ asCalls' \in Seq(IdKinds \X Nat) /\ Len(asCalls') = 0 /\ asNext'.call - Len(asCalls') = n
          /\ 0 < asNext'.call /\ asCalls' = <<>>
      BY <1>1, <1>2, <1>3
    <2>2. asTurn' \in Nat /\ asTotal' \in Nat /\ asBase' \in Nat /\ asSpent' \in Nat
      BY <1>1, <1>2
    <2> QED
      BY <1>2, <1>3, <1>9, <2>1, <2>2 DEF SessionTyped
  <1>11. Counted' /\ AfterNoText'
    BY <1>1, <1>2, <1>6, <1>9 DEF Counted, AfterNoText
  <1>12. Replayed'
    <2> SUFFICES ASSUME ~asApart, Uncompacted(asLog') PROVE Told(DeriveUi(asLog')) = Told(asShown')
      BY <1>2 DEF Replayed
    <2>1. Told(DeriveUi(asLog')) = Adds(Told(DeriveUi(begun)), line)
      <3>1. Uncompacted(Append(begun, line)) /\ n \in Nat
        BY <1>1, <1>8
      <3>2. Told(DeriveUi(Append(begun, line))) = Adds(Told(DeriveUi(begun)), line)
        BY <1>5, <1>7, <3>1, ReplayOfAppend
      <3> QED
        BY <1>8, <3>2
    <2>2. Uncompacted(begun)
      <3> DEFINE S == EventsBelow(n)
      <3>1. begun \in Seq(S) /\ line \in S /\ Uncompacted(Append(begun, line))
        BY <1>5, <1>7, <1>8
      <3> HIDE DEF S
      <3> QED
        BY <3>1, UncompactedPrefix
    <2>3. Told(DeriveUi(begun)) = Told(asShown)
      BY <1>7, <2>2 DEF Quietly, SessionInv, Replayed
    <2>4. Told(asShown') = Append(Told(asShown), <<"user", asNext.text, NoId>>)
      BY <1>1, <1>2, <1>6, ToldOfAppend
    <2>5. Adds(Told(asShown), line) = Append(Told(asShown), <<"user", asNext.text, NoId>>)
      BY <1>5 DEF Adds, UiRole
    <2> QED
      BY <2>1, <2>3, <2>4, <2>5
  <1> QED
    BY <1>10, <1>11, <1>12 DEF SessionInv

(* The answer to the first call that is left. *)
LEMMA SessionStepAnswer ==
    ASSUME SessionInv, AsAnswer PROVE SessionInv'
  <1> DEFINE n == asNext.call
             left == Len(asCalls)
             c == n - left
             id == Head(asCalls)
             result == ToolResult(id, 0)
             card == ToolCard(id, id)
  <1>1. /\ asNext \in [text : Nat, call : Nat \ {0}] /\ n \in Nat \ {0}
        /\ asLog \in Seq(EventsBelow(n)) /\ asCalls \in Seq(IdKinds \X Nat) /\ asCalls # <<>>
        /\ left \in Nat \ {0} /\ left < n /\ c \in Nat \ {0} /\ c < n
        /\ \A k \in 1 .. left : asCalls[k] = SentId(n - left + k - 1)
        /\ asShown \in Seq(CardsBelow(c))
    BY DEF SessionInv, SessionTyped, AsAnswer
  <1>2. id = SentId(c)
    <2>1. 1 \in 1 .. left /\ n - left + 1 - 1 = c
      BY <1>1
    <2>2. Head(asCalls) = asCalls[1]
      BY <1>1
    <2> QED
      BY <1>1, <2>1, <2>2
  <1>3. /\ asLog' = Append(asLog, result)
        /\ asShown' = Shown(Shown(asShown, ToolCall(id)), result)
        /\ asCalls' = Tail(asCalls)
        /\ asPc' = IF left = 1 THEN "head" ELSE "tool"
        /\ UNCHANGED <<asNext, asTurn, asTotal, asBase, asSpent, asApart>>
        /\ asPc = "tool"
    BY DEF AsAnswer, asCost, asSeen
  <1>4. asShown' = Append(asShown, card)
    BY <1>1, <1>2, <1>3, ShownAnswer
  <1>5. id \in IdsBelow(c + 1) /\ id \in IdsBelow(n) /\ id # NoId
    BY <1>1, <1>2 DEF SentId, NoId, IdsBelow, IdKinds
  <1>6. result \in EventsBelow(n) /\ result.kind = "ToolResult" /\ result.id = id
    <2>1. "ToolResult" \in LoggedKinds /\ "" \in Reasons
      BY DEF Kinds, LoggedKinds, Reasons
    <2>2. result \in EventsBelow(n)
      BY <1>1, <1>5, <2>1, EventTyped DEF ToolResult
    <2> QED
      BY <2>2 DEF ToolResult, Event
  <1>7. card \in CardsBelow(c + 1) /\ card.role = "tool"
    <2>1. card \in CardsBelow(c + 1)
      BY <1>1, <1>5, CardsTell
    <2> QED
      BY <2>1 DEF ToolCard, Ui
  <1>8. asShown \in Seq(CardsBelow(c + 1))
    BY <1>1, MoreBelow
  <1>9. /\ Tail(asCalls) \in Seq(IdKinds \X Nat) /\ Len(Tail(asCalls)) = left - 1
        /\ \A k \in 1 .. left - 1 : Tail(asCalls)[k] = asCalls[k + 1]
    BY <1>1
  <1> HIDE DEF result, card, id
  <1>10. /\ asLog' \in Seq(EventsBelow(n)) /\ asShown' \in Seq(CardsBelow(c + 1)) /\ asShown' # <<>>
         /\ Last(asShown') = card
    <2> DEFINE S == EventsBelow(n)
               C == CardsBelow(c + 1)
    <2>1. asLog \in Seq(S) /\ result \in S /\ asShown \in Seq(C) /\ card \in C
      BY <1>1, <1>6, <1>7, <1>8
    <2> HIDE DEF S, C
    <2>2. Append(asLog, result) \in Seq(S) /\ Append(asShown, card) \in Seq(C)
          /\ Append(asShown, card) # <<>> /\ Last(Append(asShown, card)) = card
      BY <2>1 DEF Last
    <2> QED
      BY <1>3, <1>4, <2>2 DEF S, C
  <1>11. SessionTyped'
    <2>1. asNext'.call - Len(asCalls') = c + 1 /\ Len(asCalls') < asNext'.call
      BY <1>1, <1>3, <1>9
    <2>2. \A k \in 1 .. Len(asCalls') : asCalls'[k] = SentId(asNext'.call - Len(asCalls') + k - 1)
      <3> SUFFICES ASSUME NEW k \in 1 .. left - 1
                   PROVE  asCalls'[k] = SentId(asNext'.call - Len(asCalls') + k - 1)
        BY <1>3, <1>9
      <3>1. k + 1 \in 1 .. left /\ n - left + (k + 1) - 1 = c + 1 + k - 1
        BY <1>1
      <3>2. asCalls[k + 1] = SentId(n - left + (k + 1) - 1)
        BY <1>1, <3>1
      <3> QED
        BY <1>3, <1>9, <2>1, <3>1, <3>2
    <2>3. asPc' = "tool" <=> asCalls' # <<>>
      <3>1. left = 1 <=> Tail(asCalls) = <<>>
        <4>1. \A s \in Seq(IdKinds \X Nat) : s = <<>> <=> Len(s) = 0
          OBVIOUS
        <4>2. left = 1 <=> left - 1 = 0
          BY <1>1
        <4> HIDE DEF left
        <4> QED
          BY <1>9, <4>1, <4>2
      <3> QED
        BY <1>3, <3>1
    <2>4. /\ asNext' \in [text : Nat, call : Nat \ {0}] /\ asCalls' \in Seq(IdKinds \X Nat)
          /\ asLog' \in Seq(EventsBelow(asNext'.call)) /\ asPc' \in {"head", "tool"}
          /\ asShown' \in Seq(CardsBelow(asNext'.call - Len(asCalls')))
      BY <1>1, <1>3, <1>9, <1>10, <2>1
    <2>5. asTurn' \in Nat /\ asTotal' \in Nat /\ asBase' \in Nat /\ asSpent' \in Nat
      BY <1>3 DEF SessionInv, SessionTyped
    <2> HIDE DEF n, left, c
    <2> QED
      BY <2>1, <2>2, <2>3, <2>4, <2>5 DEF SessionTyped
  <1>12. Counted'
    BY <1>3 DEF SessionInv, Counted
  <1>13. AfterNoText'
    BY <1>7, <1>10 DEF AfterNoText
  <1>14. Replayed'
    <2> SUFFICES ASSUME ~asApart, Uncompacted(asLog') PROVE Told(DeriveUi(asLog')) = Told(asShown')
      BY <1>3 DEF Replayed
    <2>1. Told(DeriveUi(asLog')) = Adds(Told(DeriveUi(asLog)), result)
      BY <1>1, <1>3, <1>6, ReplayOfAppend
    <2>2. Uncompacted(asLog)
      <3> DEFINE S == EventsBelow(n)
      <3>1. asLog \in Seq(S) /\ result \in S /\ Uncompacted(Append(asLog, result))
        BY <1>1, <1>3, <1>6
      <3> HIDE DEF S
      <3> QED
        BY <3>1, UncompactedPrefix
    <2>3. Told(DeriveUi(asLog)) = Told(asShown)
      BY <2>2 DEF SessionInv, Replayed
    <2>4. Told(asShown') = Append(Told(asShown), <<"tool", 0, id>>)
      <3>1. c + 1 \in Nat
        BY <1>1
      <3>2. Told(Append(asShown, ToolCard(id, id))) = Append(Told(asShown), <<"tool", 0, id>>)
        BY <1>5, <1>8, <3>1, CardAdded
      <3> QED
        BY <1>4, <3>2 DEF card
    <2>5. Adds(Told(asShown), result) = Append(Told(asShown), <<"tool", 0, id>>)
      BY <1>5, <1>6 DEF Adds
    <2> QED
      BY <2>1, <2>3, <2>4, <2>5
  <1> QED
    BY <1>11, <1>12, <1>13, <1>14 DEF SessionInv

(* What the end of a turn logs and shows. *)
LEMMA Finished ==
    ASSUME SessionInv, AsFinish
    PROVE  LET stats == Event("TurnStats", asSpent, NoId, "")
           IN  /\ asLog' = Append(Append(asLog, stats), Closed("completed"))
               /\ asShown' = Append(asShown, Ui("stats", asSpent, NoId, NoId))
               /\ stats \in EventsBelow(asNext.call) /\ stats.kind = "TurnStats" /\ stats.n = asSpent
               /\ Ui("stats", asSpent, NoId, NoId) \in CardsBelow(asNext.call)
  <1> DEFINE stats == Event("TurnStats", asSpent, NoId, "")
             ui == Ui("stats", asSpent, NoId, NoId)
             end == Closed("completed")
             n == asNext.call
  <1>1. /\ n \in Nat /\ asSpent \in Nat /\ asLog \in Seq(EventsBelow(n)) /\ asShown \in Seq(CardsBelow(n))
        /\ asTotal - asBase = asSpent
    <2>1. asTotal \in Nat /\ asBase \in Nat /\ asSpent \in Nat /\ asTotal = asBase + asSpent
      BY DEF SessionInv, SessionTyped, Counted, AsFinish
    <2>2. asPc # "tool"
      BY DEF AsFinish
    <2> QED
      BY <2>1, <2>2, Known
  <1>2. /\ stats \in EventsBelow(n) /\ stats.kind = "TurnStats" /\ stats.n = asSpent
        /\ ui \in CardsBelow(n) /\ end \in EventsBelow(n)
    <2>1. "TurnStats" \in LoggedKinds /\ "" \in Reasons /\ NoId \in IdsBelow(n) /\ "stats" \in UiRoles
      BY <1>1, NoIdBelow DEF Kinds, LoggedKinds, Reasons, UiRoles
    <2>2. stats \in EventsBelow(n) /\ ui \in CardsBelow(n) /\ end \in EventsBelow(n)
      BY <1>1, <2>1, EventTyped, UiTyped, Marks
    <2> QED
      BY <2>2 DEF Event
  <1>3. /\ asLog' = asLog \o <<stats, end>>
        /\ asShown' = Shown(Shown(Shown(asShown, UserMessage), Said("Assistant")), stats)
    BY <1>1 DEF AsFinish
  <1>4. Shown(Shown(asShown, UserMessage), Said("Assistant")) = asShown
    <2>1. UserMessage.kind = "UserMessage" /\ Said("Assistant").kind = "Assistant"
      BY DEF UserMessage, Said, Event
    <2> QED
      BY <2>1, ShownAlready
  <1>5. asShown' = Append(asShown, ui)
    <2>1. Shown(asShown, stats) = Append(asShown, Ui("stats", stats.n, NoId, NoId))
      BY <1>2, ShownStats
    <2> QED
      BY <1>2, <1>3, <1>4, <2>1
  <1>6. asLog' = Append(Append(asLog, stats), end)
    <2> DEFINE S == EventsBelow(n)
    <2>1. asLog \in Seq(S) /\ stats \in S /\ end \in S
      BY <1>1, <1>2
    <2> HIDE DEF S, stats, end
    <2>2. asLog \o <<stats, end>> = Append(Append(asLog, stats), end)
      BY <2>1
    <2> QED
      BY <1>3, <2>2
  <1> QED
    BY <1>2, <1>5, <1>6

LEMMA SessionStepFinish ==
    ASSUME SessionInv, AsFinish PROVE SessionInv'
  <1> DEFINE n == asNext.call
             stats == Event("TurnStats", asSpent, NoId, "")
             ui == Ui("stats", asSpent, NoId, NoId)
             end == Closed("completed")
  <1>1. /\ asNext \in [text : Nat, call : Nat \ {0}] /\ n \in Nat \ {0} /\ asSpent \in Nat
        /\ asLog \in Seq(EventsBelow(n)) /\ asShown \in Seq(CardsBelow(n))
        /\ asTurn \in Nat /\ asTotal \in Nat
    BY Known DEF SessionInv, SessionTyped, AsFinish
  <1>2. /\ asLog' = Append(Append(asLog, stats), end)
        /\ asShown' = Append(asShown, ui)
        /\ stats \in EventsBelow(n) /\ stats.kind = "TurnStats" /\ stats.n = asSpent
        /\ ui \in CardsBelow(n)
    BY Finished
  <1>3. end \in EventsBelow(n) /\ end.kind = "TurnEnd"
    BY Marks
  <1>4. /\ asPc' = "idle" /\ asCalls' = <<>> /\ asSpent' = 0 /\ asTurn' = asTurn /\ asBase' = 0
        /\ UNCHANGED <<asTotal, asNext, asApart>>
    BY DEF AsFinish, LeaveTurn, asSeen
  <1>5. ui.role = "stats" /\ ui.n = asSpent /\ Tells(ui) /\ Line(ui) = <<"stats", asSpent, NoId>>
    BY DEF Ui, Tells, Line
  <1> HIDE DEF n, stats, ui, end
  <1>6. PICK told \in Seq(EventsBelow(n)) : told = Append(asLog, stats)
    <2> DEFINE S == EventsBelow(n)
    <2>1. asLog \in Seq(S) /\ stats \in S
      BY <1>1, <1>2
    <2> HIDE DEF S
    <2>2. Append(asLog, stats) \in Seq(S)
      BY <2>1
    <2> QED
      BY <2>2 DEF S
  <1>7. asLog' \in Seq(EventsBelow(n)) /\ Quietly(n, told, asLog')
    BY <1>1, <1>2, <1>3, <1>6, QuietEvent DEF Quietly
  <1>8. asShown' \in Seq(CardsBelow(n))
    <2> DEFINE C == CardsBelow(n)
    <2>1. asShown \in Seq(C) /\ ui \in C
      BY <1>1, <1>2
    <2> HIDE DEF C
    <2>2. Append(asShown, ui) \in Seq(C)
      BY <2>1
    <2> QED
      BY <1>2, <2>2 DEF C
  <1>9. SessionTyped'
    <2>1. /\ asNext'.call = n /\ Len(asCalls') = 0 /\ n - 0 = n /\ 0 < n
          /\ asCalls' \in Seq(IdKinds \X Nat)
      BY <1>1, <1>4 DEF n
    <2> QED
      BY <1>1, <1>4, <1>7, <1>8, <2>1 DEF SessionTyped
  <1>10. Counted' /\ AfterNoText'
    BY <1>4 DEF Counted, AfterNoText, Prompted
  <1>11. Replayed'
    <2> SUFFICES ASSUME ~asApart, Uncompacted(asLog') PROVE Told(DeriveUi(asLog')) = Told(asShown')
      BY <1>4 DEF Replayed
    <2>1. Uncompacted(told) /\ Told(DeriveUi(asLog')) = Told(DeriveUi(told))
      BY <1>7 DEF Quietly
    <2>2. Told(DeriveUi(told)) = Adds(Told(DeriveUi(asLog)), stats)
      BY <1>1, <1>2, <1>6, <2>1, ReplayOfAppend
    <2>3. Uncompacted(asLog)
      <3> DEFINE S == EventsBelow(n)
      <3>1. asLog \in Seq(S) /\ stats \in S /\ Uncompacted(Append(asLog, stats))
        BY <1>1, <1>2, <1>6, <2>1
      <3> HIDE DEF S
      <3> QED
        BY <3>1, UncompactedPrefix
    <2>4. Told(DeriveUi(asLog)) = Told(asShown)
      BY <2>3 DEF SessionInv, Replayed
    <2>5. Told(asShown') = Append(Told(asShown), <<"stats", asSpent, NoId>>)
      BY <1>1, <1>2, <1>5, ToldOfAppend
    <2>6. Adds(Told(asShown), stats) = Append(Told(asShown), <<"stats", asSpent, NoId>>)
      BY <1>2 DEF Adds, UiRole
    <2> QED
      BY <2>1, <2>2, <2>4, <2>5, <2>6
  <1> QED
    BY <1>9, <1>10, <1>11 DEF SessionInv

-----------------------------------------------------------------------------
(* A reply *)

\* What a reply puts in the log behind what a compaction left.
Text(speaks) == IF speaks THEN <<Said("AssistantMessage")>> ELSE <<>>
SentIds(first, n) == [k \in 1 .. n |-> SentId(first + k - 1)]
Calls(first, n) == [k \in 1 .. n |-> ToolCall(SentIds(first, n)[k])]

LEMMA CallsTyped ==
    ASSUME NEW first \in Nat \ {0}, NEW n \in Nat
    PROVE  /\ SentIds(first, n) \in Seq(IdKinds \X Nat) /\ Len(SentIds(first, n)) = n
           /\ Calls(first, n) \in [1 .. n -> EventsBelow(first + n)]
           /\ \A k \in 1 .. n : Calls(first, n)[k].kind = "ToolCall"
  <1>1. ASSUME NEW k \in 1 .. n
        PROVE  /\ SentId(first + k - 1) \in IdsBelow(first + n)
               /\ ToolCall(SentId(first + k - 1)) \in EventsBelow(first + n)
    <2>1. SentId(first + k - 1) \in IdsBelow(first + n)
      BY DEF SentId, IdsBelow, IdKinds
    <2>2. "ToolCall" \in LoggedKinds /\ "" \in Reasons /\ first + n \in Nat
      BY DEF Kinds, LoggedKinds, Reasons
    <2> QED
      BY <2>1, <2>2, EventTyped DEF ToolCall
  <1>2. \A k \in 1 .. n : SentId(first + k - 1) \in IdKinds \X Nat
    BY <1>1 DEF IdsBelow
  <1>3. SentIds(first, n) \in [1 .. n -> IdKinds \X Nat]
    BY <1>2 DEF SentIds
  <1>4. SentIds(first, n) \in Seq(IdKinds \X Nat) /\ Len(SentIds(first, n)) = n
    BY <1>3
  <1>5. \A k \in 1 .. n : SentIds(first, n)[k] = SentId(first + k - 1)
    BY DEF SentIds
  <1>6. \A k \in 1 .. n : Calls(first, n)[k] = ToolCall(SentId(first + k - 1))
    BY <1>5 DEF Calls
  <1>7. Calls(first, n) \in [1 .. n -> EventsBelow(first + n)]
    BY <1>1, <1>5 DEF Calls
  <1>8. \A id : ToolCall(id).kind = "ToolCall"
    BY DEF ToolCall, Event
  <1>9. \A k \in 1 .. n : Calls(first, n)[k].kind = "ToolCall"
    BY <1>6, <1>8
  <1> QED
    BY <1>4, <1>7, <1>9

LEMMA SessionStepReply ==
    ASSUME SessionInv, NEW speaks \in BOOLEAN, NEW n \in 0 .. MaxAtOnce,
           NEW reported \in BOOLEAN, NEW cut \in BOOLEAN, AsReply(speaks, n, reported, cut)
    PROVE  SessionInv'
  <1> DEFINE m == asNext.call
             spoken == Said("AssistantMessage")
             ui == Ui("assistant", asNext.text, NoId, NoId)
             text == Text(speaks)
             ids == SentIds(m, n)
             calls == Calls(m, n)
             tokens == IF reported THEN 1 ELSE 0
             same == [log |-> asLog, result |-> "ok"]
  <1>0. n \in Nat
    BY SessionBounds
  <1>1. /\ asNext \in [text : Nat, call : Nat \ {0}] /\ m \in Nat \ {0} /\ asNext.text \in Nat
        /\ asLog \in Seq(EventsBelow(m)) /\ asCalls = <<>>
        /\ asShown \in Seq(CardsBelow(m)) /\ asTurn \in Nat /\ asTotal \in Nat
        /\ asBase \in Nat /\ asSpent \in Nat
        /\ asPc = "llm" /\ asShown # <<>> /\ Last(asShown).role # "assistant"
        /\ asTotal = asBase + asSpent
    BY Known DEF SessionInv, SessionTyped, Counted, AfterNoText, Prompted, AsReply
  <1>2. PICK c \in Compactions(asLog) \cup {same} :
          /\ asShown' = IF speaks THEN Shown(asShown, Said("AssistantText")) ELSE asShown
          /\ asTotal' = asTotal + tokens
          /\ \/ /\ c.result # "panic"
                /\ asLog' = c.log \o text \o calls /\ asCalls' = ids
                /\ asPc' = (IF n = 0 THEN "finish" ELSE "tool")
                /\ asSpent' = asSpent + tokens /\ asTurn' = asTurn /\ asApart' = asApart
             \/ /\ asPc' = "idle" /\ asCalls' = <<>> /\ asSpent' = 0 /\ asTurn' = asTurn
                /\ asLog' = asLog /\ asApart' = TRUE
          /\ asNext' = [text |-> IF speaks THEN asNext.text + 1 ELSE asNext.text, call |-> m + n]
          /\ asBase' = asBase
    BY DEF AsReply, LeaveTurn, Text, SentIds, Calls
  <1>3. Quietly(m, asLog, c.log) /\ (Uncompacted(c.log) => c.log = asLog)
    <2>1. CASE c \in Compactions(asLog)
      BY <1>1, <2>1, CompactionIsQuiet DEF Compactions
    <2>2. CASE c = same
      BY <2>2, QuietMark
    <2> QED
      BY <2>1, <2>2
  <1>4. tokens \in {0, 1}
    OBVIOUS
  <1>5. spoken \in EventsBelow(m) /\ spoken.kind = "AssistantMessage" /\ spoken.n = asNext.text
    <2>1. "AssistantMessage" \in LoggedKinds /\ "" \in Reasons /\ NoId \in IdsBelow(m)
      BY <1>1, NoIdBelow DEF Kinds, LoggedKinds, Reasons
    <2>2. spoken \in EventsBelow(m)
      BY <1>1, <2>1, EventTyped DEF Said
    <2> QED
      BY <2>2 DEF Said, Event
  <1>6. ui \in CardsBelow(m) /\ Tells(ui) /\ Line(ui) = <<"assistant", asNext.text, NoId>>
    <2>1. "assistant" \in UiRoles /\ NoId \in IdsBelow(m)
      BY <1>1, NoIdBelow DEF UiRoles
    <2>2. ui \in CardsBelow(m)
      BY <1>1, <2>1, UiTyped
    <2> QED
      BY <2>2 DEF Ui, Tells, Line
  <1>7. asShown' = IF speaks THEN Append(asShown, ui) ELSE asShown
    <2>1. Said("AssistantText").kind = "AssistantText" /\ Said("AssistantText").n = asNext.text
      BY DEF Said, Event
    <2>2. m \in Nat
      BY <1>1
    <2>3. Shown(asShown, Said("AssistantText")) = Append(asShown, ui)
      BY <1>1, <2>1, <2>2, ShownText
    <2> QED
      BY <1>2, <2>3
  <1> HIDE DEF spoken, ui
  <1>8. asShown' \in Seq(CardsBelow(m))
    <2> DEFINE C == CardsBelow(m)
    <2>1. asShown \in Seq(C) /\ ui \in C
      BY <1>1, <1>6
    <2> HIDE DEF C
    <2>2. Append(asShown, ui) \in Seq(C)
      BY <2>1
    <2> QED
      BY <1>7, <2>1, <2>2 DEF C
  <1>9. m + n \in Nat \ {0} /\ m <= m + n
    BY <1>0, <1>1
  <1>10. asNext' \in [text : Nat, call : Nat \ {0}] /\ asNext'.call = m + n
    BY <1>1, <1>2, <1>9
  <1>11. /\ ids \in Seq(IdKinds \X Nat) /\ Len(ids) = n
         /\ calls \in [1 .. n -> EventsBelow(m + n)]
         /\ \A k \in 1 .. n : calls[k].kind = "ToolCall"
    BY <1>0, <1>1, CallsTyped
  <1>12. CASE asLog' = asLog /\ asApart' = TRUE /\ asPc' = "idle" /\ asCalls' = <<>> /\ asSpent' = 0
    <2>1. SessionTyped'
      <3>1. asLog' \in Seq(EventsBelow(m + n)) /\ asShown' \in Seq(CardsBelow(m + n))
        BY <1>1, <1>8, <1>9, <1>12, MoreBelow
      <3>2. /\ asCalls' \in Seq(IdKinds \X Nat) /\ Len(asCalls') = 0 /\ asNext'.call - 0 = m + n
            /\ 0 < asNext'.call
        BY <1>9, <1>10, <1>12
      <3>3. asTurn' \in Nat /\ asTotal' \in Nat /\ asBase' \in Nat /\ asSpent' \in Nat
        BY <1>1, <1>2, <1>4, <1>12
      <3> HIDE DEF m
      <3> QED
        BY <1>10, <1>12, <3>1, <3>2, <3>3 DEF SessionTyped
    <2>2. Counted' /\ AfterNoText' /\ Replayed'
      BY <1>12 DEF Counted, AfterNoText, Replayed, Prompted
    <2> QED
      BY <2>1, <2>2 DEF SessionInv
  <1>13. CASE /\ asLog' = c.log \o text \o calls /\ asCalls' = ids /\ asApart' = asApart
              /\ asPc' = (IF n = 0 THEN "finish" ELSE "tool") /\ asSpent' = asSpent + tokens
    <2>1. PICK told \in Seq(EventsBelow(m + n)) :
            /\ told = c.log \o text
            /\ Uncompacted(told) => /\ Uncompacted(asLog)
                                    /\ Told(DeriveUi(told)) =
                                         IF speaks THEN Append(Told(DeriveUi(asLog)), <<"assistant", asNext.text, NoId>>)
                                         ELSE Told(DeriveUi(asLog))
      <3> DEFINE S == EventsBelow(m + n)
      <3>1. c.log \in Seq(S) /\ asLog \in Seq(S) /\ spoken \in S
        BY <1>1, <1>3, <1>5, <1>9, MoreBelow DEF Quietly
      <3>2. CASE speaks
        <4>1. c.log \o text = Append(c.log, spoken)
          <5> HIDE DEF S
          <5> QED
            BY <3>1, <3>2 DEF Text, spoken
        <4>2. Append(c.log, spoken) \in Seq(S) /\ (Uncompacted(Append(c.log, spoken)) => Uncompacted(c.log))
          <5> HIDE DEF S
          <5> QED
            BY <3>1, UncompactedPrefix
        <4>3. ASSUME Uncompacted(Append(c.log, spoken))
              PROVE  /\ Uncompacted(asLog)
                     /\ Told(DeriveUi(Append(c.log, spoken)))
                          = Append(Told(DeriveUi(asLog)), <<"assistant", asNext.text, NoId>>)
          <5>1. c.log = asLog /\ Uncompacted(asLog)
            BY <1>3, <4>2, <4>3
          <5>2. m \in Nat
            BY <1>1
          <5>3. Told(DeriveUi(Append(asLog, spoken))) = Adds(Told(DeriveUi(asLog)), spoken)
            BY <1>1, <1>5, <4>3, <5>1, <5>2, ReplayOfAppend
          <5>4. Adds(Told(DeriveUi(asLog)), spoken) = Append(Told(DeriveUi(asLog)), <<"assistant", asNext.text, NoId>>)
            BY <1>5 DEF Adds, UiRole
          <5> QED
            BY <5>1, <5>3, <5>4
        <4> QED
          BY <3>2, <4>1, <4>2, <4>3
      <3>3. CASE ~speaks
        <4>1. c.log \o text = c.log
          BY <3>1, <3>3, ConcatEmptySeq DEF Text
        <4>2. Uncompacted(c.log) => /\ Uncompacted(asLog)
                                    /\ Told(DeriveUi(c.log)) = Told(DeriveUi(asLog))
          BY <1>3 DEF Quietly
        <4> QED
          BY <3>1, <3>3, <4>1, <4>2
      <3> QED
        BY <3>2, <3>3
    <2>2. asLog' = told \o calls
      BY <1>13, <2>1
    <2>3. /\ asLog' \in Seq(EventsBelow(m + n))
          /\ Uncompacted(asLog') => Uncompacted(told) /\ Told(DeriveUi(asLog')) = Told(DeriveUi(told))
      <3>1. m + n \in Nat
        BY <1>9
      <3>2. Uncompacted(told \o calls) => Uncompacted(told)
        <4> DEFINE S == EventsBelow(m + n)
        <4>1. told \in Seq(S) /\ calls \in Seq(S)
          BY <1>0, <1>11
        <4> HIDE DEF S, calls
        <4>2. /\ Len(told) \in Nat /\ Len(calls) \in Nat /\ Len(told \o calls) = Len(told) + Len(calls)
              /\ \A i \in 1 .. Len(told) : (told \o calls)[i] = told[i]
          BY <4>1, ConcatProperties, LenProperties
        <4>3. 1 .. Len(told) \subseteq 1 .. Len(told \o calls)
          BY <4>2
        <4> QED
          BY <4>2, <4>3 DEF Uncompacted, Positions
      <3>3. told \o calls \in Seq(EventsBelow(m + n))
        <4> DEFINE S == EventsBelow(m + n)
        <4>1. told \in Seq(S) /\ calls \in Seq(S)
          BY <1>0, <1>11
        <4> HIDE DEF S, calls
        <4>2. told \o calls \in Seq(S)
          BY <4>1
        <4> QED
          BY <4>2 DEF S
      <3>4. Uncompacted(told) => Told(DeriveUi(told \o calls)) = Told(DeriveUi(told))
        <4> HIDE DEF calls
        <4> QED
          BY <1>0, <1>11, <3>1, ReplayOfCalls
      <3> HIDE DEF calls
      <3> QED
        BY <2>2, <3>2, <3>3, <3>4
    <2>4. SessionTyped'
      <3>1. \A k \in 1 .. n : ids[k] = SentId(m + n - n + k - 1)
        <4>1. \A k \in 1 .. n : m + n - n + k - 1 = m + k - 1
          BY <1>0, <1>1
        <4> QED
          BY <4>1 DEF SentIds
      <3>2. /\ asCalls' \in Seq(IdKinds \X Nat) /\ Len(asCalls') = n /\ Len(asCalls') < asNext'.call
            /\ asNext'.call - Len(asCalls') = m
        BY <1>0, <1>1, <1>10, <1>11, <1>13
      <3>3. \A k \in 1 .. Len(asCalls') : asCalls'[k] = SentId(asNext'.call - Len(asCalls') + k - 1)
        BY <1>10, <1>13, <3>1, <3>2
      <3>4. asPc' = "tool" <=> asCalls' # <<>>
        <4>1. \A s \in Seq(IdKinds \X Nat) : s = <<>> <=> Len(s) = 0
          OBVIOUS
        <4> QED
          BY <1>13, <3>2, <4>1
      <3>5. asTurn' \in Nat /\ asTotal' \in Nat /\ asBase' \in Nat /\ asSpent' \in Nat
        BY <1>1, <1>2, <1>4, <1>13
      <3>6. asPc' \in {"finish", "tool"}
        BY <1>13
      <3> HIDE DEF m, ids
      <3> QED
        BY <1>8, <1>10, <2>3, <3>2, <3>3, <3>4, <3>5, <3>6 DEF SessionTyped
    <2>5. Counted'
      BY <1>1, <1>2, <1>4, <1>13 DEF Counted
    <2>6. AfterNoText'
      BY <1>13 DEF AfterNoText, Prompted
    <2>7. Replayed'
      <3> SUFFICES ASSUME ~asApart, Uncompacted(asLog') PROVE Told(DeriveUi(asLog')) = Told(asShown')
        BY <1>13 DEF Replayed
      <3>1. Uncompacted(asLog) /\ Told(DeriveUi(asLog')) = Told(DeriveUi(told))
        BY <2>1, <2>3
      <3>2. Told(DeriveUi(asLog)) = Told(asShown)
        BY <3>1 DEF SessionInv, Replayed
      <3>3. Told(Append(asShown, ui)) = Append(Told(asShown), <<"assistant", asNext.text, NoId>>)
        BY <1>1, <1>6, ToldOfAppend
      <3> QED
        BY <1>7, <2>1, <2>3, <3>1, <3>2, <3>3
    <2> QED
      BY <2>4, <2>5, <2>6, <2>7 DEF SessionInv
  <1> QED
    BY <1>2, <1>12, <1>13

LEMMA SessionStep ==
    ASSUME SessionInv, [SessionNext]_asVars PROVE SessionInv'
  <1>1. CASE UNCHANGED asVars
    BY <1>1 DEF asVars, asCost, asSeen, SessionInv, SessionTyped, Counted, AfterNoText, Replayed
  <1>2. CASE SessionNext
    BY <1>2, SessionStepBegin, SessionStepQuiet, SessionStepReply, SessionStepAnswer, SessionStepFinish,
       SessionStepUndo, SessionStepReopen, SessionStepCommand DEF SessionNext
  <1> QED
    BY <1>1, <1>2

LEMMA StatsStep ==
    ASSUME SessionInv, AsFinish
    PROVE  asLog'[Len(asLog) + 1].n = asSpent /\ Last(asShown').n = asSpent
  <1> DEFINE n == asNext.call
             stats == Event("TurnStats", asSpent, NoId, "")
             ui == Ui("stats", asSpent, NoId, NoId)
             end == Closed("completed")
  <1>1. /\ asLog \in Seq(EventsBelow(n)) /\ asShown \in Seq(CardsBelow(n))
        /\ asLog' = Append(Append(asLog, stats), end) /\ asShown' = Append(asShown, ui)
        /\ stats \in EventsBelow(n) /\ stats.n = asSpent /\ ui \in CardsBelow(n)
        /\ end \in EventsBelow(n)
    BY Known, Finished, Marks DEF AsFinish
  <1>2. ui.n = asSpent
    BY DEF Ui
  <1> DEFINE S == EventsBelow(n)
             C == CardsBelow(n)
  <1>3. asLog \in Seq(S) /\ stats \in S /\ end \in S /\ asShown \in Seq(C) /\ ui \in C
    BY <1>1
  <1> HIDE DEF S, C, stats, ui, end
  <1>4. Append(Append(asLog, stats), end)[Len(asLog) + 1] = stats /\ Last(Append(asShown, ui)) = ui
    BY <1>3 DEF Last
  <1> QED
    BY <1>1, <1>2, <1>4

LEMMA SessionInvariant == SessionSpec => []SessionInv
  BY SessionStarts, SessionStep, PTL DEF SessionSpec

(* The TurnStats a turn ends with, in the log and in the timeline, are what *)
(* its own replies reported: nothing an earlier turn spent, one that failed *)
(* included, is charged to it (the totals of run_agent_loop, finish_turn).  *)
THEOREM TurnsCountTheirOwn == SessionSpec => StatsAreTheTurns
  <1>1. SessionInv => [AsFinish => /\ asLog'[Len(asLog) + 1].n = asSpent
                                   /\ Last(asShown').n = asSpent]_asVars
    BY StatsStep
  <1> QED
    BY <1>1, SessionInvariant, PTL DEF StatsAreTheTurns

(* A session that is opened again shows the user's lines, the replies, the  *)
(* finished tools and the statistics that the window showed while they     *)
(* happened, in that order: derive_ui of the log against                   *)
(* EventMapper::map and the merging of the webview, for as long as nothing *)
(* of the log was compacted, undone or lost to a panic.                    *)
THEOREM ReplayTellsTheSame == SessionSpec => []ReplayIsLive
  <1>1. SessionInv => ReplayIsLive
    BY DEF SessionInv, Replayed, ReplayIsLive, Uncompacted
  <1> QED
    BY <1>1, SessionInvariant, PTL

-----------------------------------------------------------------------------
(* The calls of a session.  The results of a call stay in its turn: of the *)
(* calls that are not answered yet none is of an earlier one.              *)

Late(evs, id) ==
    \A i, u \in 1 .. Len(evs) :
        i < u /\ evs[i].kind = "ToolCall" /\ evs[u].kind = "UserMessage" => evs[i].id # id
OwnTurn == OwnResults(asLog) /\ \A k \in 1 .. Len(asCalls) : Late(asLog, asCalls[k])

(* A log that grows, by no event of one of these kinds.                    *)
Grows(old, new, kinds) ==
    /\ Len(old) \in Nat /\ Len(new) \in Nat /\ Len(old) <= Len(new)
    /\ \A k \in 1 .. Len(old) : new[k] = old[k]
    /\ \A k \in Len(old) + 1 .. Len(new) : new[k].kind \notin kinds

LEMMA GrowsMore ==
    ASSUME NEW a, NEW b, NEW c, NEW kinds, Grows(a, b, kinds), Grows(b, c, kinds)
    PROVE  Grows(a, c, kinds)
  <1>1. /\ Len(a) \in Nat /\ Len(b) \in Nat /\ Len(c) \in Nat /\ Len(a) <= Len(b) /\ Len(b) <= Len(c)
        /\ \A k \in 1 .. Len(a) : b[k] = a[k]
        /\ \A k \in 1 .. Len(b) : c[k] = b[k]
        /\ \A k \in Len(a) + 1 .. Len(b) : b[k].kind \notin kinds
        /\ \A k \in Len(b) + 1 .. Len(c) : c[k].kind \notin kinds
    BY DEF Grows
  <1>2. \A k \in 1 .. Len(a) : k \in 1 .. Len(b) /\ c[k] = a[k]
    BY <1>1
  <1>3. ASSUME NEW k \in Len(a) + 1 .. Len(c) PROVE c[k].kind \notin kinds
    <2>1. k \in Len(a) + 1 .. Len(b) \/ k \in Len(b) + 1 .. Len(c)
      BY <1>1
    <2>2. k \in Len(a) + 1 .. Len(b) => k \in 1 .. Len(b)
      BY <1>1
    <2> QED
      BY <1>1, <2>1, <2>2
  <1> QED
    BY <1>1, <1>2, <1>3 DEF Grows

LEMMA GrowsNot ==
    ASSUME NEW S, NEW evs \in Seq(S), NEW kinds
    PROVE  Grows(evs, evs, kinds)
  BY DEF Grows

LEMMA GrowsBy ==
    ASSUME NEW S, NEW evs \in Seq(S), NEW T, NEW more \in Seq(T), NEW kinds,
           \A k \in 1 .. Len(more) : more[k].kind \notin kinds
    PROVE  Grows(evs, evs \o more, kinds)
  <1> DEFINE w == evs \o more
             U == S \cup T
  <1>0. evs \in Seq(U) /\ more \in Seq(U)
    OBVIOUS
  <1> HIDE DEF U
  <1>1. /\ Len(evs) \in Nat /\ Len(more) \in Nat /\ Len(w) = Len(evs) + Len(more)
        /\ \A i \in 1 .. Len(evs) + Len(more) : w[i] = IF i <= Len(evs) THEN evs[i] ELSE more[i - Len(evs)]
    BY <1>0, ConcatProperties
  <1> HIDE DEF w
  <1>2. \A k \in 1 .. Len(evs) : k \in 1 .. Len(evs) + Len(more) /\ w[k] = evs[k]
    BY <1>1
  <1>3. ASSUME NEW k \in Len(evs) + 1 .. Len(w) PROVE w[k].kind \notin kinds
    <2>1. k \in 1 .. Len(evs) + Len(more) /\ ~(k <= Len(evs)) /\ k - Len(evs) \in 1 .. Len(more)
      BY <1>1
    <2> QED
      BY <1>1, <2>1
  <1>4. Grows(evs, w, kinds)
    BY <1>1, <1>2, <1>3 DEF Grows
  <1> QED
    BY <1>4 DEF w

LEMMA GrowsByOne ==
    ASSUME NEW S, NEW evs \in Seq(S), NEW ev, NEW kinds, ev.kind \notin kinds
    PROVE  Grows(evs, Append(evs, ev), kinds)
  <1> DEFINE more == <<ev>>
             T == {ev}
  <1>1. more \in Seq(T) /\ Append(evs, ev) = evs \o more /\ \A k \in 1 .. Len(more) : more[k].kind \notin kinds
    OBVIOUS
  <1> HIDE DEF more, T
  <1>2. Grows(evs, evs \o more, kinds)
    BY <1>1, GrowsBy
  <1> QED
    BY <1>1, <1>2

(* No result comes in, ... *)
LEMMA OwnGrows ==
    ASSUME NEW old, NEW new, OwnResults(old), Grows(old, new, {"ToolResult"})
    PROVE  OwnResults(new)
  <1>1. SUFFICES ASSUME NEW i \in 1 .. Len(new), NEW u \in 1 .. Len(new), NEW j \in 1 .. Len(new), i < u, u < j,
                        new[i].kind = "ToolCall", new[u].kind = "UserMessage", new[j].kind = "ToolResult"
                 PROVE  new[j].id # new[i].id
    BY DEF OwnResults
  <1>2. Len(old) \in Nat /\ Len(new) \in Nat /\ Len(old) <= Len(new)
    BY DEF Grows
  <1>3. j \in 1 .. Len(old)
    <2>1. j \notin Len(old) + 1 .. Len(new)
      BY <1>1 DEF Grows
    <2> QED
      BY <1>2, <2>1
  <1>4. i \in 1 .. Len(old) /\ u \in 1 .. Len(old)
    BY <1>1, <1>2, <1>3
  <1>5. new[i] = old[i] /\ new[u] = old[u] /\ new[j] = old[j]
    BY <1>3, <1>4 DEF Grows
  <1> QED
    BY <1>1, <1>3, <1>4, <1>5 DEF OwnResults

(* ... no turn begins, ... *)
LEMMA LateGrows ==
    ASSUME NEW old, NEW new, NEW id, Late(old, id), Grows(old, new, {"UserMessage"})
    PROVE  Late(new, id)
  <1>1. SUFFICES ASSUME NEW i \in 1 .. Len(new), NEW u \in 1 .. Len(new), i < u,
                        new[i].kind = "ToolCall", new[u].kind = "UserMessage"
                 PROVE  new[i].id # id
    BY DEF Late
  <1>2. Len(old) \in Nat /\ Len(new) \in Nat /\ Len(old) <= Len(new)
    BY DEF Grows
  <1>3. u \in 1 .. Len(old)
    <2>1. u \notin Len(old) + 1 .. Len(new)
      BY <1>1 DEF Grows
    <2> QED
      BY <1>2, <2>1
  <1>4. i \in 1 .. Len(old)
    BY <1>1, <1>2, <1>3
  <1>5. new[i] = old[i] /\ new[u] = old[u]
    BY <1>3, <1>4 DEF Grows
  <1> QED
    BY <1>1, <1>3, <1>4, <1>5 DEF Late

(* ... or the result is of a call of this turn. *)
LEMMA OwnAnswer ==
    ASSUME NEW S, NEW evs \in Seq(S), NEW ev, OwnResults(evs), Late(evs, ev.id), ev.kind = "ToolResult"
    PROVE  OwnResults(Append(evs, ev))
  <1> DEFINE new == Append(evs, ev)
  <1>1. /\ Len(evs) \in Nat /\ Len(new) = Len(evs) + 1 /\ new[Len(evs) + 1] = ev
        /\ \A k \in 1 .. Len(evs) : new[k] = evs[k]
    OBVIOUS
  <1> HIDE DEF new
  <1>2. ASSUME NEW i \in 1 .. Len(new), NEW u \in 1 .. Len(new), NEW j \in 1 .. Len(new), i < u, u < j,
               new[i].kind = "ToolCall", new[u].kind = "UserMessage", new[j].kind = "ToolResult"
        PROVE  new[j].id # new[i].id
    <2>1. i \in 1 .. Len(evs) /\ u \in 1 .. Len(evs) /\ new[i] = evs[i] /\ new[u] = evs[u]
      BY <1>1, <1>2
    <2>2. CASE j = Len(evs) + 1
      BY <1>1, <1>2, <2>1, <2>2 DEF Late
    <2>3. CASE j \in 1 .. Len(evs)
      BY <1>1, <1>2, <2>1, <2>3 DEF OwnResults
    <2> QED
      BY <1>1, <2>2, <2>3
  <1>3. OwnResults(new)
    BY <1>2 DEF OwnResults
  <1> QED
    BY <1>3 DEF new

(* What an undo leaves. *)
LEMMA OwnPrefix ==
    ASSUME NEW S, NEW evs \in Seq(S), NEW k \in 0 .. Len(evs), OwnResults(evs)
    PROVE  OwnResults(SubSeq(evs, 1, k))
  <1> DEFINE w == SubSeq(evs, 1, k)
  <1>1. Len(evs) \in Nat /\ Len(w) = k /\ \A i \in 1 .. k : i \in 1 .. Len(evs) /\ w[i] = evs[i]
    <2>1. \A i \in 1 .. k : evs[i] \in S
      OBVIOUS
    <2> QED
      BY <2>1, SubSeqProperties
  <1> HIDE DEF w
  <1>2. OwnResults(w)
    BY <1>1 DEF OwnResults
  <1> QED
    BY <1>2 DEF w

(* A call nobody has seen yet.                                             *)
LEMMA LateFresh ==
    ASSUME NEW n \in Nat, NEW evs \in Seq(EventsBelow(n)), NEW m \in Nat, m >= n
    PROVE  Late(evs, SentId(m))
  <1>1. ASSUME NEW i \in 1 .. Len(evs) PROVE evs[i].id # SentId(m)
    <2> DEFINE S == EventsBelow(n)
    <2>1. evs[i] \in S
      <3>1. evs \in Seq(S)
        OBVIOUS
      <3> HIDE DEF S
      <3> QED
        BY <3>1
    <2>2. evs[i].id \in IdsBelow(n)
      BY <2>1 DEF EventsBelow
    <2>3. SentId(m) \notin IdsBelow(n)
      BY DEF IdsBelow, SentId
    <2> QED
      BY <2>2, <2>3
  <1> QED
    BY <1>1 DEF Late

-----------------------------------------------------------------------------
(* Every step keeps the results of a call in its turn *)

Outside == {"ToolResult", "UserMessage"}

LEMMA GrowsLess ==
    ASSUME NEW old, NEW new, Grows(old, new, Outside)
    PROVE  Grows(old, new, {"ToolResult"}) /\ Grows(old, new, {"UserMessage"})
  BY DEF Grows, Outside

LEMMA OwnOfGrown ==
    ASSUME NEW old, NEW new, OwnResults(old), Grows(old, new, Outside)
    PROVE  OwnResults(new)
  BY GrowsLess, OwnGrows

LEMMA LateOfGrown ==
    ASSUME NEW old, NEW new, NEW id, Late(old, id), Grows(old, new, Outside)
    PROVE  Late(new, id)
  BY GrowsLess, LateGrows

LEMMA MarkGrows ==
    ASSUME NEW S, NEW evs \in Seq(S)
    PROVE  /\ Grows(evs, evs, Outside)
           /\ \A why : Grows(evs, Append(evs, Closed(why)), Outside)
           /\ Grows(evs, Append(evs, Said("Command")), Outside)
           /\ \A c \in Compactions(evs) : Grows(evs, c.log, Outside)
  <1>1. Grows(evs, evs, Outside)
    BY GrowsNot
  <1>2. ASSUME NEW ev, ev.kind \in {"TurnEnd", "Command", "Compaction"}
        PROVE  Grows(evs, Append(evs, ev), Outside)
    <2>1. ev.kind \notin Outside
      BY <1>2 DEF Outside
    <2> QED
      BY <2>1, GrowsByOne
  <1>3. ASSUME NEW why PROVE Grows(evs, Append(evs, Closed(why)), Outside)
    <2>1. Closed(why).kind = "TurnEnd"
      BY DEF Closed, Event
    <2> QED
      BY <1>2, <2>1
  <1>4. Grows(evs, Append(evs, Said("Command")), Outside)
    <2>1. Said("Command").kind = "Command"
      BY DEF Said, Event
    <2> QED
      BY <1>2, <2>1
  <1>5. ASSUME NEW c \in Compactions(evs) PROVE Grows(evs, c.log, Outside)
    <2> DEFINE ev == Compaction(CompactionCut(evs))
    <2>1. c.log = evs \/ c.log = Append(evs, ev)
      BY DEF CompactionOutcomes, Compactions
    <2>2. ev.kind = "Compaction"
      BY DEF Compaction, Event
    <2> HIDE DEF ev
    <2>3. Grows(evs, Append(evs, ev), Outside)
      BY <1>2, <2>2
    <2>4. CASE c.log = evs
      BY <1>1, <2>4
    <2>5. CASE c.log = Append(evs, ev)
      BY <2>3, <2>5
    <2> QED
      BY <2>1, <2>4, <2>5
  <1> QED
    BY <1>1, <1>3, <1>4, <1>5

LEMMA OwnStart == SessionInit => OwnTurn
  BY OpenedAssumption DEF SessionInit, OwnTurn

LEMMA OwnBegin ==
    ASSUME SessionInv, OwnTurn, AsBegin PROVE OwnTurn'
  <1> DEFINE start == TurnStart(asTurn + 1)
             line == Said("UserMessage")
             more == <<start, line>>
             T == {start, line}
  <1>1. asCalls' = <<>> /\ asLog' = asLog \o more
    BY Known DEF AsBegin
  <1>2. start.kind = "TurnStart" /\ line.kind = "UserMessage"
    BY DEF TurnStart, Said, Event
  <1> HIDE DEF start, line
  <1>3. more \in Seq(T) /\ \A k \in 1 .. Len(more) : more[k].kind \notin {"ToolResult"}
    BY <1>2
  <1> HIDE DEF more, T
  <1>4. Grows(asLog, asLog \o more, {"ToolResult"})
    BY <1>3, Known, GrowsBy
  <1>5. OwnResults(asLog')
    BY <1>1, <1>4, OwnGrows DEF OwnTurn
  <1> QED
    BY <1>1, <1>5 DEF OwnTurn

LEMMA OwnQuiet ==
    ASSUME SessionInv, OwnTurn,
           AsRefuse \/ AsProceed \/ AsCompactFirst \/ AsStop \/ AsAsk \/ AsFail \/ AsCompact \/ AsReopen
    PROVE  OwnTurn'
  <1>1. asPc # "tool" => asCalls = <<>>
    BY Known
  <1>2. asCalls' = <<>>
    BY <1>1 DEF AsRefuse, AsProceed, AsCompactFirst, AsStop, AsAsk, AsFail, AsCompact, AsReopen, LeaveTurn
  <1>3. Grows(asLog, asLog', Outside)
    <2>1. CASE AsRefuse \/ AsProceed \/ AsAsk \/ AsReopen
      BY <2>1, Known, MarkGrows DEF AsRefuse, AsProceed, AsAsk, AsReopen
    <2>2. CASE AsCompactFirst
      BY <2>2, Known, MarkGrows DEF AsCompactFirst
    <2>3. CASE AsStop \/ AsFail
      BY <2>3, Known, MarkGrows DEF AsStop, AsFail
    <2>4. CASE AsCompact
      BY <2>4, Known, MarkGrows DEF AsCompact
    <2> QED
      BY <2>1, <2>2, <2>3, <2>4
  <1>4. OwnResults(asLog')
    BY <1>3, OwnOfGrown DEF OwnTurn
  <1> QED
    BY <1>2, <1>4 DEF OwnTurn

LEMMA OwnUndone ==
    ASSUME NEW S, NEW evs \in Seq(S), OwnResults(evs), UndoneOf(evs)
    PROVE  OwnResults(asLog')
  <1> DEFINE T == Positions(evs, {"UserMessage"})
             k == Max({0} \cup T)
  <1>1. asLog' = evs \/ asLog' = SubSeq(evs, 1, k)
    BY DEF UndoneOf, UndoLastTurn
  <1>2. T \in SUBSET (1 .. Len(evs))
    BY DEF Positions
  <1> HIDE DEF T
  <1>3. k \in 0 .. Len(evs)
    BY <1>2, LastPosition
  <1> HIDE DEF k
  <1>4. OwnResults(SubSeq(evs, 1, k))
    BY <1>3, OwnPrefix
  <1> QED
    BY <1>1, <1>4

LEMMA OwnUndo ==
    ASSUME SessionInv, OwnTurn, AsUndo PROVE OwnTurn'
  <1>1. asCalls' = <<>>
    BY Known DEF AsUndo
  <1>2. OwnResults(asLog')
    BY Known, OwnUndone DEF AsUndo, OwnTurn
  <1> QED
    BY <1>1, <1>2 DEF OwnTurn

LEMMA OwnCommand ==
    ASSUME SessionInv, OwnTurn, NEW name \in {"undo", "compact", "other"}, AsCommand(name) PROVE OwnTurn'
  <1> DEFINE n == asNext.call
  <1>1. asCalls' = <<>>
    BY Known DEF AsCommand
  <1>2. PICK recorded \in Seq(EventsBelow(n)) : recorded = Append(asLog, Said("Command"))
    BY QuietMark DEF Quietly
  <1>3. OwnResults(recorded)
    BY <1>2, Known, MarkGrows, OwnOfGrown DEF OwnTurn
  <1>4. \/ UndoneOf(recorded)
        \/ \E c \in Compactions(recorded) : asLog' = c.log
        \/ asLog' = recorded
    BY <1>2 DEF AsCommand
  <1>5. ASSUME NEW c \in Compactions(recorded) PROVE OwnResults(c.log)
    BY <1>3, MarkGrows, OwnOfGrown
  <1>6. OwnResults(asLog')
    BY <1>3, <1>4, <1>5, OwnUndone
  <1> QED
    BY <1>1, <1>6 DEF OwnTurn

LEMMA OwnFinish ==
    ASSUME SessionInv, OwnTurn, AsFinish PROVE OwnTurn'
  <1> DEFINE stats == Event("TurnStats", asSpent, NoId, "")
             S == EventsBelow(asNext.call)
             done == Append(asLog, stats)
  <1>1. asCalls' = <<>>
    BY DEF AsFinish, LeaveTurn
  <1>2. asLog \in Seq(S) /\ stats \in S /\ asLog' = Append(done, Closed("completed")) /\ stats.kind \notin Outside
    BY Known, Finished DEF Outside
  <1> HIDE DEF S, stats
  <1>3. done \in Seq(S) /\ Grows(asLog, done, Outside)
    BY <1>2, GrowsByOne
  <1>4. Grows(done, asLog', Outside)
    BY <1>2, <1>3, MarkGrows
  <1>5. OwnResults(asLog')
    BY <1>3, <1>4, OwnOfGrown DEF OwnTurn
  <1> QED
    BY <1>1, <1>5 DEF OwnTurn

LEMMA OwnAnswers ==
    ASSUME SessionInv, OwnTurn, AsAnswer PROVE OwnTurn'
  <1> DEFINE id == Head(asCalls)
             ev == ToolResult(id, 0)
  <1>1. /\ asCalls \in Seq(IdKinds \X Nat) /\ asCalls # <<>> /\ asLog \in Seq(EventsBelow(asNext.call))
        /\ asLog' = Append(asLog, ev) /\ asCalls' = Tail(asCalls)
    BY DEF SessionInv, SessionTyped, AsAnswer
  <1>2. ev.kind = "ToolResult" /\ ev.id = id
    BY DEF ToolResult, Event
  <1>3. 1 \in 1 .. Len(asCalls) /\ id = asCalls[1]
    BY <1>1
  <1> HIDE DEF id, ev
  <1>4. OwnResults(asLog')
    BY <1>1, <1>2, <1>3, OwnAnswer DEF OwnTurn
  <1>5. Grows(asLog, asLog', {"UserMessage"})
    <2>1. ev.kind \notin {"UserMessage"}
      BY <1>2
    <2> QED
      BY <1>1, <2>1, GrowsByOne
  <1>6. ASSUME NEW k \in 1 .. Len(asCalls') PROVE Late(asLog', asCalls'[k])
    <2>1. k + 1 \in 1 .. Len(asCalls) /\ asCalls'[k] = asCalls[k + 1]
      BY <1>1
    <2>2. Late(asLog, asCalls[k + 1])
      BY <2>1 DEF OwnTurn
    <2> QED
      BY <1>5, <2>1, <2>2, LateGrows
  <1> QED
    BY <1>4, <1>6 DEF OwnTurn

LEMMA OwnReply ==
    ASSUME SessionInv, OwnTurn, NEW speaks \in BOOLEAN, NEW n \in 0 .. MaxAtOnce,
           NEW reported \in BOOLEAN, NEW cut \in BOOLEAN, AsReply(speaks, n, reported, cut)
    PROVE  OwnTurn'
  <1> DEFINE m == asNext.call
             spoken == Said("AssistantMessage")
             text == Text(speaks)
             ids == SentIds(m, n)
             calls == Calls(m, n)
             same == [log |-> asLog, result |-> "ok"]
  <1>0. n \in Nat /\ m \in Nat \ {0} /\ asLog \in Seq(EventsBelow(m))
    BY Known, SessionBounds
  <1>1. PICK c \in Compactions(asLog) \cup {same} :
          \/ asLog' = c.log \o text \o calls /\ asCalls' = ids
          \/ asLog' = asLog /\ asCalls' = <<>>
    BY DEF AsReply, LeaveTurn, Text, SentIds, Calls
  <1>2. CASE asLog' = asLog /\ asCalls' = <<>>
    BY <1>2 DEF OwnTurn
  <1>3. CASE asLog' = c.log \o text \o calls /\ asCalls' = ids
    <2>1. c.log \in Seq(EventsBelow(m)) /\ Grows(asLog, c.log, Outside)
      <3>1. CASE c \in Compactions(asLog)
        BY <1>0, <3>1, CompactionIsQuiet, MarkGrows DEF Compactions, Quietly
      <3>2. CASE c = same
        BY <1>0, <3>2, MarkGrows
      <3> QED
        BY <3>1, <3>2
    <2> DEFINE S == EventsBelow(m)
               T == EventsBelow(m + n)
               told == c.log \o text
    <2>2. text \in Seq({spoken}) /\ \A k \in 1 .. Len(text) : text[k].kind \notin Outside
      <3>1. spoken.kind = "AssistantMessage"
        BY DEF Said, Event
      <3> HIDE DEF spoken
      <3>2. text = (IF speaks THEN <<spoken>> ELSE <<>>)
        BY DEF Text, spoken
      <3> HIDE DEF text
      <3>3. CASE speaks
        <4>1. text = <<spoken>> /\ Len(text) = 1 /\ text[1] = spoken
          BY <3>2, <3>3
        <4> QED
          BY <3>1, <4>1 DEF Outside
      <3>4. CASE ~speaks
        <4>1. text = <<>>
          BY <3>2, <3>4
        <4> QED
          BY <4>1
      <3> QED
        BY <3>3, <3>4
    <2>3. calls \in Seq(T) /\ \A k \in 1 .. Len(calls) : calls[k].kind \notin Outside
      <3>1. calls \in [1 .. n -> T] /\ \A k \in 1 .. n : calls[k].kind = "ToolCall"
        BY <1>0, CallsTyped
      <3> HIDE DEF calls, T
      <3>2. calls \in Seq(T) /\ Len(calls) = n
        BY <1>0, <3>1
      <3> QED
        BY <3>1, <3>2 DEF Outside
    <2> HIDE DEF S, T, text, calls, spoken
    <2>4. c.log \in Seq(S)
      BY <2>1 DEF S
    <2>5. Grows(c.log, told, Outside)
      BY <2>2, <2>4, GrowsBy
    <2>6. told \in Seq(S \cup {spoken})
      <3> DEFINE U == S \cup {spoken}
      <3>1. c.log \in Seq(U) /\ text \in Seq(U)
        BY <2>2, <2>4
      <3> HIDE DEF U
      <3> QED
        BY <3>1 DEF U
    <2> HIDE DEF told
    <2>7. Grows(told, told \o calls, Outside)
      BY <2>3, <2>6, GrowsBy
    <2>8. Grows(asLog, asLog', Outside)
      <3>1. asLog' = told \o calls
        BY <1>3 DEF told
      <3>2. Grows(asLog, told, Outside)
        BY <2>1, <2>5, GrowsMore
      <3> QED
        BY <2>7, <3>1, <3>2, GrowsMore
    <2>9. OwnResults(asLog')
      BY <2>8, OwnOfGrown DEF OwnTurn
    <2>10. ASSUME NEW k \in 1 .. Len(asCalls') PROVE Late(asLog', asCalls'[k])
      <3>1. Len(ids) = n
        BY <1>0, CallsTyped
      <3>2. k \in 1 .. n /\ asCalls'[k] = SentId(m + k - 1)
        BY <1>3, <2>10, <3>1 DEF SentIds
      <3>3. m + k - 1 \in Nat /\ m + k - 1 >= m
        BY <1>0, <3>2
      <3>4. Late(asLog, SentId(m + k - 1))
        BY <1>0, <3>3, LateFresh
      <3> QED
        BY <2>8, <3>2, <3>4, LateOfGrown
    <2> QED
      BY <2>9, <2>10 DEF OwnTurn
  <1> QED
    BY <1>1, <1>2, <1>3

LEMMA OwnStep ==
    ASSUME SessionInv, OwnTurn, [SessionNext]_asVars PROVE OwnTurn'
  <1>1. CASE UNCHANGED asVars
    BY <1>1 DEF asVars, OwnTurn
  <1>2. CASE SessionNext
    BY <1>2, OwnBegin, OwnQuiet, OwnReply, OwnAnswers, OwnFinish, OwnUndo, OwnCommand DEF SessionNext
  <1> QED
    BY <1>1, <1>2

LEMMA OwnInvariant == SessionSpec => []OwnTurn
  BY OwnStart, OwnStep, SessionInvariant, PTL DEF SessionSpec

(* The view get_turn_window gives of each turn, one after the other, is the *)
(* transcript derive_ui_messages gives of the session from its first line  *)
(* of the user on: no message is in two views or in none, for any number of *)
(* turns and calls; and the stats of a view are those shown in it.         *)
THEOREM WindowsAreTheTranscript == SessionSpec => []WindowsTile
  <1>1. SessionInv /\ OwnTurn => WindowsTile
    <2> SUFFICES ASSUME SessionInv, OwnTurn, Positions(asLog, {"Compaction"}) = {}, Answered(asLog),
                        UserIndices(asLog) # <<>>
                 PROVE  LET users == UserIndices(asLog)
                            views == [t \in 1 .. Len(users) |-> TurnView(asLog, t)]
                        IN  /\ FlattenSeq([t \in 1 .. Len(users) |-> views[t].messages])
                                 = DeriveUi(SubSeq(asLog, users[1], Len(asLog)))
                            /\ \A t \in 1 .. Len(users) : views[t].stats > 0 =>
                                 \E i \in 1 .. Len(views[t].messages) :
                                   views[t].messages[i] = Ui("stats", views[t].stats, NoId, NoId)
      BY DEF WindowsTile
    <2>1. asNext.call \in Nat /\ Orderly(asNext.call, asLog)
      BY Known DEF Orderly, Uncompacted, OwnTurn
    <2> QED
      BY <2>1, WindowsOfLog
  <1> QED
    BY <1>1, SessionInvariant, OwnInvariant, PTL

-----------------------------------------------------------------------------
(* The tools of a request.  Of a log without calls and texts of the model  *)
(* none of the passes of derive_messages makes a message of the model.     *)
Unspoken == [role : {"user", "tool", "system"}, calls : Seq(IdKinds \X Nat), id : IdKinds \X Nat]

LEMMA UnspokenMessage ==
    ASSUME NEW ev \in SessionEvents, ev.kind \in Surfaced, ev.kind \notin {"ToolCall", "AssistantMessage"}
    PROVE  Message(ev) \in Unspoken
  <1>1. ev.kind \in {"UserMessage", "ToolResult", "Compaction"}
    BY DEF Surfaced
  <1>2. Role(ev.kind) \in {"user", "tool", "system"}
    BY <1>1 DEF Role
  <1>3. ev.id \in IdKinds \X Nat /\ NoId \in IdKinds \X Nat
    <2>1. ev.id \in IdKinds \X Nat
      BY Zenon DEF SessionEvents
    <2>2. NoId \in IdKinds \X Nat
      BY DEF NoId, IdKinds
    <2> QED
      BY <2>1, <2>2
  <1>4. (IF ev.kind = "ToolCall" THEN <<ev.id>> ELSE <<>>) \in Seq(IdKinds \X Nat)
    BY <1>1
  <1> QED
    BY <1>2, <1>3, <1>4 DEF Message, Unspoken

LEMMA UnspokenItems ==
    ASSUME NEW evs \in Seq(SessionEvents), Positions(evs, {"ToolCall", "AssistantMessage"}) = {}
    PROVE  Items(evs) \in Seq(Unspoken)
  <1> DEFINE n == Len(evs)
             s == [i \in 1 .. Len(evs) |->
                     IF i \notin Suppressed(evs) /\ evs[i].kind \in Surfaced THEN <<Message(evs[i])>> ELSE <<>>]
  <1>1. ASSUME NEW i \in 1 .. Len(evs), evs[i].kind \in Surfaced PROVE <<Message(evs[i])>> \in Seq(Unspoken)
    <2>1. evs[i] \in SessionEvents /\ evs[i].kind \notin {"ToolCall", "AssistantMessage"}
      BY DEF Positions
    <2>2. Message(evs[i]) \in Unspoken
      BY <1>1, <2>1, UnspokenMessage
    <2> QED
      BY <2>2
  <1>2. <<>> \in Seq(Unspoken)
    OBVIOUS
  <1>3. s \in [1 .. n -> Seq(Unspoken)] /\ n \in Nat
    BY <1>1, <1>2
  <1>4. Items(evs) = FlattenSeq(s)
    BY DEF Items
  <1> HIDE DEF s, n
  <1> QED
    BY <1>3, <1>4, FlattenedTyped

LEMMA UnspokenFiltered ==
    ASSUME NEW S, NEW u \in Seq(S), NEW kept
    PROVE  Filtered(u, kept) \in Seq(S)
  <1> DEFINE n == Len(u)
             s == [i \in 1 .. Len(u) |-> IF i \in kept THEN <<u[i]>> ELSE <<>>]
  <1>1. ASSUME NEW i \in 1 .. Len(u) PROVE (IF i \in kept THEN <<u[i]>> ELSE <<>>) \in Seq(S)
    OBVIOUS
  <1>2. s \in [1 .. n -> Seq(S)] /\ n \in Nat
    BY <1>1
  <1>3. Filtered(u, kept) = FlattenSeq(s)
    BY DEF Filtered
  <1> HIDE DEF s, n
  <1> QED
    BY <1>2, <1>3, FlattenedTyped

\* What Coalesced does with one more item.
Absorbed(done, item) ==
    IF Len(done) > 0 /\ item.role = "assistant" /\ done[Len(done)].role = "assistant"
    THEN [done EXCEPT ![Len(done)].calls = @ \o item.calls]
    ELSE Append(done, item)

LEMMA UnspokenCoalesced ==
    ASSUME NEW S, \A m \in S : m.role # "assistant", NEW items \in Seq(S)
    PROVE  Coalesced(items) \in Seq(S)
  <1> DEFINE n == Len(items)
             none == <<>>
             step == [k \in 1 .. n |-> [done \in Seq(S) |-> Append(done, items[k])]]
             Scan(g) == g = [i \in 0 .. n |-> IF i = 0 THEN none ELSE Absorbed(g[i - 1], items[i])]
             found == CHOOSE g : Scan(g)
  <1>0. n \in Nat
    OBVIOUS
  <1>1. n \in Nat /\ none \in Seq(S) /\ \A k \in 1 .. n : items[k] \in S /\ items[k].role # "assistant"
    OBVIOUS
  <1> HIDE DEF n, none
  <1>2. step \in [1 .. n -> [Seq(S) -> Seq(S)]]
    BY <1>1
  <1>3. PICK f \in [0 .. n -> Seq(S)] : FromStart(f, n, none, step)
    <2> HIDE DEF step
    <2> QED
      BY <1>1, <1>2, ForwardExists
  <1>4. f[0] = none /\ \A k \in 1 .. n : f[k] = Append(f[k - 1], items[k])
    <2>1. \A k \in 1 .. n : f[k - 1] \in Seq(S)
      BY <1>1
    <2> QED
      BY <1>1, <1>3, <2>1 DEF FromStart
  <1>5. f[0] = none /\ \A k \in 1 .. n : f[k] = Absorbed(f[k - 1], items[k])
    BY <1>1, <1>4 DEF Absorbed
  <1>6. Scan(f)
    BY <1>1, <1>5
  <1>7. Scan(found)
    <2> HIDE DEF Scan
    <2> QED
      BY <1>6
  <1> HIDE DEF found
  <1>8. found[0] = none /\ \A k \in 1 .. n : found[k] = Absorbed(found[k - 1], items[k])
    BY <1>1, <1>7
  <1> DEFINE Same == {k \in 0 .. n : found[k] = f[k]}
  <1>9. 0 .. n \subseteq Same
    <2>1. 0 \in Same
      BY <1>1, <1>5, <1>8
    <2>2. ASSUME NEW k \in 1 .. n, \A j \in 0 .. k - 1 : j \in Same PROVE k \in Same
      <3>0. k - 1 \in 0 .. k - 1
        BY <1>0
      <3>1. found[k - 1] = f[k - 1]
        BY <2>2, <3>0
      <3>2. found[k] = Absorbed(found[k - 1], items[k]) /\ f[k] = Absorbed(f[k - 1], items[k])
        BY <1>5, <1>8
      <3> QED
        BY <3>1, <3>2
    <2> HIDE DEF Same
    <2> QED
      BY <1>1, <2>1, <2>2, ForwardInduction
  <1>10. found[n] = f[n] /\ f[n] \in Seq(S)
    BY <1>1, <1>9
  <1>11. Coalesced(items) = found[n]
    BY DEF Coalesced, Absorbed, found, n, none
  <1> QED
    BY <1>10, <1>11

LEMMA UnspokenRequest ==
    ASSUME NEW evs \in Seq(SessionEvents), Positions(evs, {"ToolCall", "AssistantMessage"}) = {}
    PROVE  \A i \in 1 .. Len(Request(evs)) : Request(evs)[i].role # "assistant"
  <1>1. \A m \in Unspoken : m.role # "assistant"
    BY DEF Unspoken
  <1>2. Coalesced(Items(evs)) \in Seq(Unspoken)
    BY <1>1, UnspokenItems, UnspokenCoalesced
  <1>3. DeriveMessages(evs) \in Seq(Unspoken)
    BY <1>2, UnspokenFiltered DEF DeriveMessages
  <1>4. Request(evs) \in Seq(Unspoken)
    BY <1>3, UnspokenFiltered DEF Request
  <1> QED
    BY <1>1, <1>4

(* A session that has a reply in the conversation it sends, or in what a   *)
(* summary stands for, offers all its tools (in_bootstrap), whatever was   *)
(* undone, compacted, cut short or opened again.                           *)
THEOREM WorkIsNotForgotten == SessionSpec => WorkKeepsTheTools
  <1>1. SessionInv /\ AsAsk
          /\ (\/ Suppressed(asLog) \cap Positions(asLog, {"ToolCall", "AssistantMessage"}) # {}
              \/ \E i \in 1 .. Len(Request(asLog)) : Request(asLog)[i].role = "assistant")
        => asOffered' = "all"
    <2> SUFFICES ASSUME SessionInv, AsAsk,
                        \/ Suppressed(asLog) \cap Positions(asLog, {"ToolCall", "AssistantMessage"}) # {}
                        \/ \E i \in 1 .. Len(Request(asLog)) : Request(asLog)[i].role = "assistant"
                 PROVE  asOffered' = "all"
      OBVIOUS
    <2>1. asLog \in Seq(SessionEvents)
      BY Known DEF EventsBelow
    <2>2. Positions(asLog, {"ToolCall", "AssistantMessage"}) # {}
      BY <2>1, UnspokenRequest
    <2> QED
      BY <2>2 DEF AsAsk, InBootstrap
  <1>2. SessionInv => [AsAsk /\ (\/ Suppressed(asLog) \cap Positions(asLog, {"ToolCall", "AssistantMessage"}) # {}
                                 \/ \E i \in 1 .. Len(Request(asLog)) : Request(asLog)[i].role = "assistant")
                       => asOffered' = "all"]_asVars
    BY <1>1
  <1> QED
    BY <1>2, SessionInvariant, PTL DEF WorkKeepsTheTools

-----------------------------------------------------------------------------
(* The index: for any windows and any number of sessions *)

USE IndexAssumption

(* A header that is being written is there, and, unless two have written   *)
(* it at once, it is still empty and nobody else writes it.                *)
WritersAlone ==
    \A s \in Indexed : \A w \in Writers(s) :
        /\ ixHeader[s] \notin {"none", "bare"}
        /\ s \notin ixMarred => ixHeader[s] = "torn" /\ Writers(s) = {w}

-----------------------------------------------------------------------------
(* What the helpers do to the operations of the windows. *)

(* A window that goes on without having been in a write, and without        *)
(* beginning one, leaves the writers as they are.                          *)
LEMMA WritersKept ==
    ASSUME NEW w \in Windows, NEW x \in Operations, IndexTypeOK,
           ~IsAt(w, "write"), x.at # "write",
           ixDoing' = [ixDoing EXCEPT ![w] = x]
    PROVE  /\ \A s \in Indexed : Writers(s)' = Writers(s)
           /\ \A v \in Windows : IsAt(v, "write")' <=> IsAt(v, "write")
           /\ \A v \in Windows : IsAt(v, "write") => ixDoing'[v] = ixDoing[v]
  <1>1. /\ ixDoing'[w] = x
        /\ \A v \in Windows \ {w} : ixDoing'[v] = ixDoing[v]
    BY DEF IndexTypeOK
  <1>2. \A v \in Windows : IsAt(v, "write")' <=> IsAt(v, "write")
    BY <1>1 DEF IsAt
  <1>3. \A v \in Windows : IsAt(v, "write") => ixDoing'[v] = ixDoing[v]
    BY <1>1
  <1>. QED
    BY <1>2, <1>3 DEF Writers

(* ... and, unless it is on a session, so are the types.                   *)
LEMMA DoingTyped ==
    ASSUME NEW w \in Windows, NEW x \in Operations, IndexTypeOK,
           x.at = "idle" \/ x.of \in Indexed,
           ixDoing' = [ixDoing EXCEPT ![w] = x]
    PROVE  /\ ixDoing' \in [Windows -> Operations]
           /\ \A v \in Windows : ~IsAt(v, "idle")' => ixDoing'[v].of \in Indexed
  BY DEF IndexTypeOK, IsAt

LEMMA IdleTyped == Idle \in Operations /\ Idle.at = "idle"
  BY DEF Idle, Operations, NoSession, Titles

LEMMA EndsTyped ==
    ASSUME NEW w \in Windows, IndexTypeOK, Ends(w)
    PROVE  /\ ixDoing' \in [Windows -> Operations]
           /\ \A v \in Windows : ~IsAt(v, "idle")' => ixDoing'[v].of \in Indexed
           /\ ixShown' \in [Windows -> SUBSET Indexed]
  <1>1. Listed' \subseteq Indexed
    BY DEF Listed, Indexed
  <1>2. ixShown' \in [Windows -> SUBSET Indexed]
    BY <1>1 DEF Ends, IndexTypeOK
  <1>. QED
    BY <1>2, IdleTyped, DoingTyped DEF Ends

LEMMA DoesTyped ==
    ASSUME NEW w \in Windows, NEW s \in Indexed, NEW title \in Titles, IndexTypeOK,
           NEW at \in {"load", "read", "open", "write"}, Does(w, at, s, title)
    PROVE  /\ ixDoing' \in [Windows -> Operations]
           /\ \A v \in Windows : ~IsAt(v, "idle")' => ixDoing'[v].of \in Indexed
           /\ ixDoing' = [ixDoing EXCEPT ![w] = [at |-> at, of |-> s, title |-> title]]
           /\ [at |-> at, of |-> s, title |-> title] \in Operations
  <1>1. [at |-> at, of |-> s, title |-> title] \in Operations
    BY DEF Operations
  <1>. QED
    BY <1>1, DoingTyped DEF Does

LEMMA OpTyped ==
    ASSUME NEW w \in Windows, IndexTypeOK
    PROVE  /\ ixDoing[w] \in Operations
           /\ ixDoing[w].title \in Titles
           /\ ~IsAt(w, "idle") => ixDoing[w].of \in Indexed
           /\ ixRuns[w] \in Indexed \cup {NoSession}
           /\ ixShown[w] \in SUBSET Indexed
  BY DEF IndexTypeOK, Operations

LEMMA GoesTyped ==
    ASSUME NEW w \in Windows, IndexTypeOK, Goes(w), ~IsAt(w, "idle"), UNCHANGED ixRuns
    PROVE  /\ ixDoing' \in [Windows -> Operations]
           /\ \A v \in Windows : ~IsAt(v, "idle")' => ixDoing'[v].of \in Indexed
           /\ ixShown' \in [Windows -> SUBSET Indexed]
  <1>1. ixDoing[w].of \in Indexed /\ "untitled" \in Titles
    BY OpTyped DEF Titles
  <1>2. CASE ixDoing[w].title = "untitled"
    <2>1. Does(w, "load", ixDoing[w].of, "untitled") /\ UNCHANGED ixShown
      BY <1>2 DEF Goes
    <2>. QED
      BY <2>1, <1>1, DoesTyped DEF IndexTypeOK
  <1>3. CASE ixDoing[w].title # "untitled"
    BY <1>3, EndsTyped DEF Goes
  <1>. QED
    BY <1>2, <1>3

LEMMA IndexTypeStep ==
    ASSUME IndexTypeOK, [IndexNext]_indexVars
    PROVE  IndexTypeOK'
  <1>. DEFINE Doing == /\ ixDoing' \in [Windows -> Operations]
                       /\ \A v \in Windows : ~IsAt(v, "idle")' => ixDoing'[v].of \in Indexed
  <1>0. {"untitled", "prompted", "renamed"} \subseteq Titles
    BY DEF Titles
  <1>1. ASSUME NEW w \in Windows, ShowList(w) PROVE IndexTypeOK'
    BY <1>1, EndsTyped DEF ShowList, IndexTypeOK, Indexed
  <1>2. ASSUME NEW w \in Windows, CreateSession(w) PROVE IndexTypeOK'
    <2>1. PICK s \in Indexed : /\ ixHeader' = [ixHeader EXCEPT ![s] = "bare"]
                               /\ Does(w, "open", s, "untitled")
      BY <1>2 DEF CreateSession
    <2>2. Doing
      BY <2>1, <1>0, DoesTyped
    <2>. QED
      BY <2>1, <2>2, <1>2 DEF CreateSession, IndexTypeOK, Indexed
  <1>3. ASSUME NEW w \in Windows, OpenListed(w) PROVE IndexTypeOK'
    <2>1. PICK s \in ixShown[w] :
            \/ Does(w, "load", s, "untitled") /\ UNCHANGED <<ixRuns, ixShown>>
            \/ ixRuns' = [ixRuns EXCEPT ![w] = NoSession] /\ Ends(w)
      BY <1>3 DEF OpenListed
    <2>2. s \in Indexed
      BY OpTyped
    <2>3. Doing /\ ixShown' \in [Windows -> SUBSET Indexed] /\ ixRuns' \in [Windows -> Indexed \cup {NoSession}]
      BY <2>1, <2>2, <1>0, DoesTyped, EndsTyped DEF IndexTypeOK
    <2>. QED
      BY <2>3, <1>3 DEF OpenListed, IndexTypeOK, Indexed
  <1>4. ASSUME NEW w \in Windows, LoadStore(w) PROVE IndexTypeOK'
    <2>1. ixDoing[w].of \in Indexed
      BY <1>4, OpTyped DEF LoadStore, IsAt
    <2>2. Doing /\ ixShown' \in [Windows -> SUBSET Indexed]
      BY <1>4, EndsTyped DEF LoadStore
    <2>. QED
      BY <2>1, <2>2, <1>4 DEF LoadStore, IndexTypeOK, Indexed
  <1>5. ASSUME NEW w \in Windows, SeedTitle(w) PROVE IndexTypeOK'
    <2>1. ixRuns[w] \in Indexed
      BY <1>5, OpTyped DEF SeedTitle
    <2>2. Doing
      BY <1>5, <1>0, <2>1, DoesTyped DEF SeedTitle, IndexTypeOK, IsAt
    <2>. QED
      BY <2>2, <1>5 DEF SeedTitle, IndexTypeOK, Indexed
  <1>6. ASSUME NEW w \in Windows, Rename(w) PROVE IndexTypeOK'
    <2>1. PICK s \in ixShown[w] : Does(w, "read", s, "renamed")
      BY <1>6 DEF Rename
    <2>2. Doing
      BY <2>1, <1>0, OpTyped, DoesTyped
    <2>. QED
      BY <2>2, <1>6 DEF Rename, IndexTypeOK, Indexed
  <1>7. ASSUME NEW w \in Windows, ReadHeader(w) PROVE IndexTypeOK'
    <2>1. ixDoing[w].of \in Indexed /\ ixDoing[w].title \in Titles
      BY <1>7, OpTyped DEF ReadHeader, IsAt
    <2>2. \/ Does(w, "open", ixDoing[w].of, ixDoing[w].title) /\ UNCHANGED ixShown
          \/ Ends(w)
      BY <1>7 DEF ReadHeader
    <2>3. Doing /\ ixShown' \in [Windows -> SUBSET Indexed]
      BY <2>1, <2>2, EndsTyped, DoesTyped DEF IndexTypeOK
    <2>. QED
      BY <2>3, <1>7 DEF ReadHeader, IndexTypeOK, Indexed
  <1>8. ASSUME NEW w \in Windows, OpenHeader(w) PROVE IndexTypeOK'
    <2>1. ixDoing[w].of \in Indexed /\ ixDoing[w].title \in Titles
      BY <1>8, OpTyped DEF OpenHeader, IsAt
    <2>2. \/ Does(w, "write", ixDoing[w].of, ixDoing[w].title) /\ UNCHANGED ixShown
          \/ Ends(w)
      BY <1>8 DEF OpenHeader
    <2>3. Doing /\ ixShown' \in [Windows -> SUBSET Indexed]
      BY <2>1, <2>2, EndsTyped, DoesTyped DEF IndexTypeOK
    <2>. QED
      BY <2>1, <2>3, <1>8 DEF OpenHeader, IndexTypeOK, Indexed
  <1>9. ASSUME NEW w \in Windows, WriteHeader(w) PROVE IndexTypeOK'
    <2>1. ixDoing[w].of \in Indexed /\ ixDoing[w].title \in Titles /\ ~IsAt(w, "idle")
      BY <1>9, OpTyped DEF WriteHeader, IsAt
    <2>2. Doing /\ ixShown' \in [Windows -> SUBSET Indexed]
      BY <2>1, <1>9, GoesTyped DEF WriteHeader
    <2>3. Over(ixHeader[ixDoing[w].of], ixDoing[w].title) \in Titles \cup {"torn", "bare", "none"}
      BY <2>1 DEF Over
    <2>. QED
      BY <2>2, <2>3, <1>9 DEF WriteHeader, IndexTypeOK, Indexed
  <1>10. ASSUME NEW w \in Windows, WriteNowhere(w) PROVE IndexTypeOK'
    <2>1. Doing /\ ixShown' \in [Windows -> SUBSET Indexed]
      BY <1>10, GoesTyped DEF WriteNowhere, IsAt
    <2>. QED
      BY <2>1, <1>10 DEF WriteNowhere, IndexTypeOK, Indexed
  <1>11. ASSUME NEW w \in Windows, DeleteFiles(w) PROVE IndexTypeOK'
    <2>1. PICK s \in ixShown[w] :
            /\ ixHeader' = [ixHeader EXCEPT ![s] = "bare"]
            /\ ixLogs' = ixLogs \ {s}
            /\ ixDoing' = [v \in Windows |->
                IF v = w THEN [at |-> "rmdir", of |-> s, title |-> "untitled"]
                ELSE IF v \in Writers(s) THEN [ixDoing[v] EXCEPT !.at = "unlinked"]
                ELSE ixDoing[v]]
      BY <1>11 DEF DeleteFiles
    <2>2. s \in Indexed
      BY OpTyped
    <2>3. Doing
      BY <2>1, <2>2, <1>0, OpTyped DEF Operations, Writers, IsAt, IndexTypeOK
    <2>. QED
      BY <2>1, <2>2, <2>3, <1>11 DEF DeleteFiles, IndexTypeOK, Indexed
  <1>12. ASSUME NEW w \in Windows, RemoveDirectory(w) PROVE IndexTypeOK'
    <2>1. ixDoing[w].of \in Indexed
      BY <1>12, OpTyped DEF RemoveDirectory, IsAt
    <2>2. Doing /\ ixShown' \in [Windows -> SUBSET Indexed]
      BY <1>12, EndsTyped DEF RemoveDirectory
    <2>. QED
      BY <2>1, <2>2, <1>12 DEF RemoveDirectory, IndexTypeOK, Indexed
  <1>13. ASSUME NEW w \in Windows, WriteLog(w) PROVE IndexTypeOK'
    BY <1>13, OpTyped DEF WriteLog, IndexTypeOK, Indexed, IsAt
  <1>14. ASSUME NEW w \in Windows, Restart(w) PROVE IndexTypeOK'
    <2>1. Doing /\ ixShown' \in [Windows -> SUBSET Indexed]
      BY <1>14, EndsTyped DEF Restart
    <2>2. IsAt(w, "write") => ixDoing[w].of \in Indexed
      BY OpTyped DEF IsAt
    <2>. QED
      BY <2>1, <2>2, <1>14 DEF Restart, IndexTypeOK, Indexed
  <1>15. CASE UNCHANGED indexVars
    BY <1>15 DEF indexVars, IndexTypeOK, Indexed, IsAt
  <1>. QED
    BY <1>1, <1>2, <1>3, <1>4, <1>5, <1>6, <1>7, <1>8, <1>9, <1>10, <1>11, <1>12, <1>13,
       <1>14, <1>15 DEF IndexNext

LEMMA IndexStarts == IndexInit => IndexTypeOK
  <1>1. Idle \in Operations
    BY IdleTyped
  <1>. QED
    BY <1>1 DEF IndexInit, IndexTypeOK, Idle, IsAt, NoSession

(* The types of the index, and that every operation in progress is on a     *)
(* session.                                                                *)
THEOREM IndexTyping == IndexSpec => []IndexTypeOK
  BY IndexStarts, IndexTypeStep, PTL DEF IndexSpec

-----------------------------------------------------------------------------
(* The headers. *)

(* A step of a window outside a write, that leaves the headers under a write *)
(* alone and damages none.                                                 *)
LEMMA HeadersQuiet ==
    ASSUME NEW w \in Windows, NEW x \in Operations, IndexTypeOK, WritersAlone, DamageIsPassing,
           ~IsAt(w, "write"), x.at # "write", ixDoing' = [ixDoing EXCEPT ![w] = x],
           \A s \in Indexed : ixHeader[s] \notin {"none", "bare"} => ixHeader'[s] = ixHeader[s],
           \A s \in Indexed : ixHeader'[s] = "torn" => ixHeader[s] = "torn",
           ixMarred' = ixMarred
    PROVE  WritersAlone' /\ DamageIsPassing'
  <1>1. /\ \A s \in Indexed : Writers(s)' = Writers(s)
        /\ \A v \in Windows : IsAt(v, "write")' <=> IsAt(v, "write")
        /\ \A v \in Windows : IsAt(v, "write") => ixDoing'[v] = ixDoing[v]
    BY WritersKept
  <1>3. WritersAlone'
    <2>. SUFFICES ASSUME NEW s \in Indexed, NEW v \in Writers(s)'
                  PROVE  /\ ixHeader'[s] \notin {"none", "bare"}
                         /\ s \notin ixMarred' => ixHeader'[s] = "torn" /\ Writers(s)' = {v}
      BY DEF WritersAlone, Indexed
    <2>. QED
      BY <1>1 DEF WritersAlone
  <1>4. DamageIsPassing'
    <2>. SUFFICES ASSUME NEW s \in Indexed, ixHeader'[s] = "torn"
                  PROVE  Writers(s)' # {} \/ s \in ixMarred'
      BY DEF DamageIsPassing, Indexed
    <2>. QED
      BY <1>1 DEF DamageIsPassing
  <1>. QED
    BY <1>3, <1>4

(* The window finds the header it is about to open: it is the writer.      *)
LEMMA OpenHeaderStep ==
    ASSUME NEW w \in Windows, IndexTypeOK, WritersAlone, DamageIsPassing, OpenHeader(w)
    PROVE  WritersAlone' /\ DamageIsPassing'
  <1>. DEFINE s == ixDoing[w].of
  <1>0. s \in Indexed /\ ixDoing[w].title \in Titles /\ ~IsAt(w, "write")
    BY OpTyped DEF OpenHeader, IsAt
  <1>1. CASE ~Exists(s)
    <2>1. UNCHANGED <<ixHeader, ixMarred>> /\ ixDoing' = [ixDoing EXCEPT ![w] = Idle]
      BY <1>1 DEF OpenHeader, Ends
    <2>2. Idle \in Operations /\ Idle.at # "write"
      BY IdleTyped
    <2>. QED
      BY <2>1, <2>2, <1>0, HeadersQuiet
  <1>2. CASE Exists(s)
    <2>. DEFINE x == [at |-> "write", of |-> s, title |-> ixDoing[w].title]
    <2>1. /\ ixHeader' = [ixHeader EXCEPT ![s] = "torn"]
          /\ ixMarred' = IF Writers(s) = {} THEN ixMarred ELSE ixMarred \cup {s}
          /\ ixDoing' = [ixDoing EXCEPT ![w] = x]
      BY <1>2 DEF OpenHeader, Does
    <2>2. /\ ixDoing'[w] = x
          /\ \A v \in Windows \ {w} : ixDoing'[v] = ixDoing[v]
          /\ ixHeader'[s] = "torn"
          /\ \A r \in Indexed \ {s} : ixHeader'[r] = ixHeader[r]
      BY <2>1, <1>0 DEF IndexTypeOK
    <2>3. IsAt(w, "write")' /\ \A v \in Windows \ {w} : IsAt(v, "write")' <=> IsAt(v, "write")
      BY <2>2 DEF IsAt
    <2>4. Writers(s)' = Writers(s) \cup {w}
      BY <2>2, <2>3, <1>0 DEF Writers
    <2>5. \A r \in Indexed \ {s} : Writers(r)' = Writers(r)
      BY <2>2, <2>3, <1>0 DEF Writers
    <2>6. WritersAlone'
      <3>. SUFFICES ASSUME NEW r \in Indexed, NEW v \in Writers(r)'
                    PROVE  /\ ixHeader'[r] \notin {"none", "bare"}
                           /\ r \notin ixMarred' => ixHeader'[r] = "torn" /\ Writers(r)' = {v}
        BY DEF WritersAlone, Indexed
      <3>1. CASE r = s
        BY <3>1, <2>1, <2>2, <2>4
      <3>2. CASE r # s
        <4>1. r \notin ixMarred' => r \notin ixMarred
          BY <2>1
        <4>. QED
          BY <4>1, <3>2, <2>2, <2>5 DEF WritersAlone
      <3>. QED
        BY <3>1, <3>2
    <2>7. DamageIsPassing'
      <3>. SUFFICES ASSUME NEW r \in Indexed, ixHeader'[r] = "torn"
                    PROVE  Writers(r)' # {} \/ r \in ixMarred'
        BY DEF DamageIsPassing, Indexed
      <3>. QED
        BY <2>1, <2>2, <2>4, <2>5 DEF DamageIsPassing
    <2>. QED
      BY <2>6, <2>7
  <1>. QED
    BY <1>1, <1>2

(* The end of a write: nobody else was writing, and the title is whole, or  *)
(* the header is marred.                                                   *)
LEMMA WriteHeaderStep ==
    ASSUME NEW w \in Windows, IndexTypeOK, WritersAlone, DamageIsPassing, WriteHeader(w)
    PROVE  WritersAlone' /\ DamageIsPassing'
  <1>. DEFINE s == ixDoing[w].of
  <1>0. /\ s \in Indexed /\ ixDoing[w].title \in Titles /\ IsAt(w, "write")
        /\ ixHeader[s] \notin {"none", "bare"}
        /\ s \notin ixMarred => ixHeader[s] = "torn" /\ Writers(s) = {w}
    BY OpTyped DEF WriteHeader, IsAt, WritersAlone, Writers
  <1>1. /\ ixHeader'[s] = Over(ixHeader[s], ixDoing[w].title)
        /\ \A r \in Indexed \ {s} : ixHeader'[r] = ixHeader[r]
        /\ ixMarred' = ixMarred
    BY <1>0 DEF WriteHeader, IndexTypeOK
  <1>2. PICK x \in Operations : x.at # "write" /\ ixDoing' = [ixDoing EXCEPT ![w] = x]
    <2>1. CASE ixDoing[w].title = "untitled"
      <3>1. ixDoing' = [ixDoing EXCEPT ![w] = [at |-> "load", of |-> s, title |-> "untitled"]]
        BY <2>1 DEF WriteHeader, Goes, Does
      <3>2. [at |-> "load", of |-> s, title |-> "untitled"] \in Operations
        BY <1>0 DEF Operations, Titles
      <3>. QED
        BY <3>1, <3>2
    <2>2. CASE ixDoing[w].title # "untitled"
      BY <2>2, IdleTyped DEF WriteHeader, Goes, Ends
    <2>. QED
      BY <2>1, <2>2
  <1>3. /\ ~IsAt(w, "write")'
        /\ \A v \in Windows \ {w} : ixDoing'[v] = ixDoing[v] /\ (IsAt(v, "write")' <=> IsAt(v, "write"))
    BY <1>2 DEF IsAt, IndexTypeOK
  <1>4. ixHeader'[s] \in Titles \cup {"torn"}
    BY <1>0, <1>1 DEF Over
  <1>5. s \notin ixMarred => ixHeader'[s] # "torn"
    BY <1>0, <1>1 DEF Over, Titles
  <1>6. \A r \in Indexed : r # s => Writers(r)' = Writers(r)
    BY <1>3 DEF Writers
  <1>7. WritersAlone'
    <2>. SUFFICES ASSUME NEW r \in Indexed, NEW v \in Writers(r)'
                  PROVE  /\ ixHeader'[r] \notin {"none", "bare"}
                         /\ r \notin ixMarred' => ixHeader'[r] = "torn" /\ Writers(r)' = {v}
      BY DEF WritersAlone, Indexed
    <2>1. CASE r = s
      <3>1. v # w /\ v \in Writers(s)
        BY <2>1, <1>3 DEF Writers
      <3>2. s \in ixMarred
        BY <3>1, <1>0
      <3>. QED
        BY <2>1, <3>2, <1>1, <1>4 DEF Titles
    <2>2. CASE r # s
      BY <2>2, <1>1, <1>6 DEF WritersAlone
    <2>. QED
      BY <2>1, <2>2
  <1>8. DamageIsPassing'
    <2>. SUFFICES ASSUME NEW r \in Indexed, ixHeader'[r] = "torn"
                  PROVE  Writers(r)' # {} \/ r \in ixMarred'
      BY DEF DamageIsPassing, Indexed
    <2>. QED
      BY <1>1, <1>5, <1>6 DEF DamageIsPassing
  <1>. QED
    BY <1>7, <1>8

(* The files go with everything that is being written to them.             *)
LEMMA DeleteFilesStep ==
    ASSUME NEW w \in Windows, IndexTypeOK, WritersAlone, DamageIsPassing, DeleteFiles(w)
    PROVE  WritersAlone' /\ DamageIsPassing'
  <1>1. PICK s \in ixShown[w] :
          /\ ixHeader' = [ixHeader EXCEPT ![s] = "bare"]
          /\ ixDoing' = [v \in Windows |->
              IF v = w THEN [at |-> "rmdir", of |-> s, title |-> "untitled"]
              ELSE IF v \in Writers(s) THEN [ixDoing[v] EXCEPT !.at = "unlinked"]
              ELSE ixDoing[v]]
    BY DEF DeleteFiles
  <1>2. s \in Indexed /\ ~IsAt(w, "write") /\ ixMarred' = ixMarred
    BY OpTyped DEF DeleteFiles, IsAt
  <1>3. /\ ixHeader'[s] = "bare"
        /\ \A r \in Indexed \ {s} : ixHeader'[r] = ixHeader[r]
    BY <1>1, <1>2 DEF IndexTypeOK
  <1>4. \A v \in Windows :
          /\ v = w \/ v \in Writers(s) => ~IsAt(v, "write")'
          /\ v # w /\ v \notin Writers(s) => ixDoing'[v] = ixDoing[v]
    <2>. SUFFICES ASSUME NEW v \in Windows
                  PROVE  /\ v = w \/ v \in Writers(s) => ~IsAt(v, "write")'
                         /\ v # w /\ v \notin Writers(s) => ixDoing'[v] = ixDoing[v]
      OBVIOUS
    <2>1. v # w /\ v \in Writers(s) => ixDoing'[v] = [ixDoing[v] EXCEPT !.at = "unlinked"]
      BY <1>1
    <2>2. v # w /\ v \in Writers(s) => ixDoing'[v].at = "unlinked"
      BY <2>1, OpTyped DEF Operations
    <2>. QED
      BY <1>1, <2>2 DEF IsAt
  <1>5. Writers(s)' = {}
    BY <1>2, <1>4 DEF Writers, IsAt
  <1>6. \A r \in Indexed \ {s} : Writers(r)' = Writers(r)
    BY <1>2, <1>4 DEF Writers, IsAt
  <1>7. WritersAlone'
    <2>. SUFFICES ASSUME NEW r \in Indexed, NEW v \in Writers(r)'
                  PROVE  /\ ixHeader'[r] \notin {"none", "bare"}
                         /\ r \notin ixMarred' => ixHeader'[r] = "torn" /\ Writers(r)' = {v}
      BY DEF WritersAlone, Indexed
    <2>. QED
      BY <1>2, <1>3, <1>5, <1>6 DEF WritersAlone
  <1>8. DamageIsPassing'
    <2>. SUFFICES ASSUME NEW r \in Indexed, ixHeader'[r] = "torn"
                  PROVE  Writers(r)' # {} \/ r \in ixMarred'
      BY DEF DamageIsPassing, Indexed
    <2>. QED
      BY <1>2, <1>3, <1>6 DEF DamageIsPassing
  <1>. QED
    BY <1>7, <1>8

(* A process that ends in a write leaves a header that is marred.          *)
LEMMA RestartStep ==
    ASSUME NEW w \in Windows, IndexTypeOK, WritersAlone, DamageIsPassing, Restart(w)
    PROVE  WritersAlone' /\ DamageIsPassing'
  <1>1. ixDoing' = [ixDoing EXCEPT ![w] = Idle] /\ Idle \in Operations /\ Idle.at = "idle"
    BY IdleTyped DEF Restart, Ends
  <1>2. CASE ~IsAt(w, "write")
    BY <1>1, <1>2, HeadersQuiet DEF Restart
  <1>3. CASE IsAt(w, "write")
    <2>1. PICK s \in Indexed : /\ s = ixDoing[w].of
                               /\ ixMarred' = ixMarred \cup {s} /\ ixHeader' = ixHeader
      BY <1>3, OpTyped DEF Restart, IsAt
    <2>2. /\ ~IsAt(w, "write")'
          /\ \A v \in Windows \ {w} : ixDoing'[v] = ixDoing[v] /\ (IsAt(v, "write")' <=> IsAt(v, "write"))
      BY <1>1 DEF IsAt, IndexTypeOK
    <2>3. /\ Writers(s)' \subseteq Writers(s)
          /\ \A r \in Indexed \ {s} : Writers(r)' = Writers(r)
      BY <1>3, <2>1, <2>2 DEF Writers
    <2>4. WritersAlone'
      <3>. SUFFICES ASSUME NEW r \in Indexed, NEW v \in Writers(r)'
                    PROVE  /\ ixHeader'[r] \notin {"none", "bare"}
                           /\ r \notin ixMarred' => ixHeader'[r] = "torn" /\ Writers(r)' = {v}
        BY DEF WritersAlone, Indexed
      <3>. QED
        BY <2>1, <2>3 DEF WritersAlone
    <2>5. DamageIsPassing'
      <3>. SUFFICES ASSUME NEW r \in Indexed, ixHeader'[r] = "torn"
                    PROVE  Writers(r)' # {} \/ r \in ixMarred'
        BY DEF DamageIsPassing, Indexed
      <3>. QED
        BY <2>1, <2>3 DEF DamageIsPassing
    <2>. QED
      BY <2>4, <2>5
  <1>. QED
    BY <1>2, <1>3

(* All the other steps are quiet.                                          *)
LEMMA HeadersStep ==
    ASSUME IndexTypeOK, WritersAlone, DamageIsPassing, [IndexNext]_indexVars
    PROVE  WritersAlone' /\ DamageIsPassing'
  <1>0. /\ Idle \in Operations /\ Idle.at # "write"
        /\ {"untitled", "prompted", "renamed"} \subseteq Titles
    BY IdleTyped DEF Titles
  <1>. DEFINE Op(at, s, title) == [at |-> at, of |-> s, title |-> title]
  <1>. DEFINE Quiet(w) == \E x \in Operations :
                 x.at # "write" /\ ixDoing' = [ixDoing EXCEPT ![w] = x]
  <1>a. ASSUME NEW w \in Windows, Ends(w) PROVE Quiet(w)
    BY <1>a, <1>0 DEF Ends
  <1>b. ASSUME NEW w \in Windows, NEW at \in {"load", "read", "open"}, NEW s \in Indexed,
               NEW title \in Titles, Does(w, at, s, title)
        PROVE  Quiet(w)
    <2>1. Op(at, s, title) \in Operations /\ Op(at, s, title).at # "write"
      BY DEF Operations
    <2>. QED
      BY <1>b, <2>1 DEF Does
  <1>c. ASSUME NEW w \in Windows, ~IsAt(w, "write"), Quiet(w), ixMarred' = ixMarred,
               \A s \in Indexed : ixHeader[s] \notin {"none", "bare"} => ixHeader'[s] = ixHeader[s],
               \A s \in Indexed : ixHeader'[s] = "torn" => ixHeader[s] = "torn"
        PROVE  WritersAlone' /\ DamageIsPassing'
    BY <1>c, HeadersQuiet
  <1>. HIDE DEF Quiet
  <1>1. ASSUME NEW w \in Windows, ShowList(w) PROVE WritersAlone' /\ DamageIsPassing'
    BY <1>1, <1>a, <1>c DEF ShowList, IsAt
  <1>2. ASSUME NEW w \in Windows, CreateSession(w) PROVE WritersAlone' /\ DamageIsPassing'
    <2>1. PICK s \in Indexed : ~Exists(s) /\ ixHeader' = [ixHeader EXCEPT ![s] = "bare"]
                               /\ Does(w, "open", s, "untitled")
      BY <1>2 DEF CreateSession
    <2>2. /\ ixHeader[s] = "none" /\ ixHeader'[s] = "bare"
          /\ \A r \in Indexed \ {s} : ixHeader'[r] = ixHeader[r]
      BY <2>1 DEF Exists, IndexTypeOK
    <2>3. Quiet(w)
      BY <2>1, <1>0, <1>b
    <2>. QED
      BY <2>2, <2>3, <1>2, <1>c DEF CreateSession, IsAt
  <1>3. ASSUME NEW w \in Windows, OpenListed(w) PROVE WritersAlone' /\ DamageIsPassing'
    <2>1. PICK s \in ixShown[w] : Does(w, "load", s, "untitled") \/ Ends(w)
      BY <1>3 DEF OpenListed
    <2>2. Quiet(w)
      BY <2>1, <1>0, <1>a, <1>b, OpTyped
    <2>. QED
      BY <2>2, <1>3, <1>c DEF OpenListed, IsAt
  <1>4. ASSUME NEW w \in Windows, LoadStore(w) PROVE WritersAlone' /\ DamageIsPassing'
    <2>. DEFINE s == ixDoing[w].of
    <2>1. s \in Indexed /\ ixHeader' = IF Exists(s) THEN ixHeader ELSE [ixHeader EXCEPT ![s] = "bare"]
      BY <1>4, OpTyped DEF LoadStore, IsAt
    <2>2. \A r \in Indexed : ixHeader'[r] = ixHeader[r] \/ (ixHeader[r] = "none" /\ ixHeader'[r] = "bare")
      BY <2>1 DEF Exists, IndexTypeOK
    <2>3. Quiet(w)
      BY <1>4, <1>a DEF LoadStore
    <2>. QED
      BY <2>2, <2>3, <1>4, <1>c DEF LoadStore, IsAt
  <1>5. ASSUME NEW w \in Windows, SeedTitle(w) PROVE WritersAlone' /\ DamageIsPassing'
    <2>1. CASE Does(w, "read", ixRuns[w], "prompted")
      <3>1. ixRuns[w] \in Indexed
        BY <1>5, OpTyped DEF SeedTitle
      <3>. QED
        BY <2>1, <3>1, <1>0, <1>5, <1>b, <1>c DEF SeedTitle, IsAt
    <2>2. CASE UNCHANGED ixDoing
      BY <2>2, <1>5 DEF SeedTitle, WritersAlone, DamageIsPassing, Writers, IsAt, Indexed
    <2>. QED
      BY <2>1, <2>2, <1>5 DEF SeedTitle
  <1>6. ASSUME NEW w \in Windows, Rename(w) PROVE WritersAlone' /\ DamageIsPassing'
    <2>1. PICK s \in ixShown[w] : Does(w, "read", s, "renamed")
      BY <1>6 DEF Rename
    <2>2. Quiet(w)
      BY <2>1, <1>0, <1>b, OpTyped
    <2>. QED
      BY <2>2, <1>6, <1>c DEF Rename, IsAt
  <1>7. ASSUME NEW w \in Windows, ReadHeader(w) PROVE WritersAlone' /\ DamageIsPassing'
    <2>1. ixDoing[w].of \in Indexed /\ ixDoing[w].title \in Titles
      BY <1>7, OpTyped DEF ReadHeader, IsAt
    <2>2. Quiet(w)
      BY <2>1, <1>7, <1>a, <1>b DEF ReadHeader
    <2>. QED
      BY <2>2, <1>7, <1>c DEF ReadHeader, IsAt
  <1>8. ASSUME NEW w \in Windows, OpenHeader(w) PROVE WritersAlone' /\ DamageIsPassing'
    BY <1>8, OpenHeaderStep
  <1>9. ASSUME NEW w \in Windows, WriteHeader(w) PROVE WritersAlone' /\ DamageIsPassing'
    BY <1>9, WriteHeaderStep
  <1>10. ASSUME NEW w \in Windows, WriteNowhere(w) PROVE WritersAlone' /\ DamageIsPassing'
    <2>1. ixDoing[w].of \in Indexed /\ "untitled" \in Titles
      BY <1>10, <1>0, OpTyped DEF WriteNowhere, IsAt
    <2>2. Quiet(w)
      BY <2>1, <1>10, <1>a, <1>b DEF WriteNowhere, Goes
    <2>. QED
      BY <2>2, <1>10, <1>c DEF WriteNowhere, IsAt
  <1>11. ASSUME NEW w \in Windows, DeleteFiles(w) PROVE WritersAlone' /\ DamageIsPassing'
    BY <1>11, DeleteFilesStep
  <1>12. ASSUME NEW w \in Windows, RemoveDirectory(w) PROVE WritersAlone' /\ DamageIsPassing'
    <2>. DEFINE s == ixDoing[w].of
    <2>1. s \in Indexed
      BY <1>12, OpTyped DEF RemoveDirectory, IsAt
    <2>2. \A r \in Indexed : ixHeader'[r] = ixHeader[r] \/ (ixHeader[r] = "bare" /\ ixHeader'[r] = "none")
      BY <2>1, <1>12 DEF RemoveDirectory, IndexTypeOK
    <2>3. Quiet(w)
      BY <1>12, <1>a DEF RemoveDirectory
    <2>. QED
      BY <2>2, <2>3, <1>12, <1>c DEF RemoveDirectory, IsAt
  <1>13. ASSUME NEW w \in Windows, WriteLog(w) PROVE WritersAlone' /\ DamageIsPassing'
    BY <1>13 DEF WriteLog, WritersAlone, DamageIsPassing, Writers, IsAt, Indexed
  <1>14. ASSUME NEW w \in Windows, Restart(w) PROVE WritersAlone' /\ DamageIsPassing'
    BY <1>14, RestartStep
  <1>15. CASE UNCHANGED indexVars
    BY <1>15 DEF indexVars, WritersAlone, DamageIsPassing, Writers, IsAt, Indexed
  <1>. QED
    BY <1>1, <1>2, <1>3, <1>4, <1>5, <1>6, <1>7, <1>8, <1>9, <1>10, <1>11, <1>12, <1>13,
       <1>14, <1>15 DEF IndexNext

(* A damaged header is being written, or was written by two at once or by   *)
(* one who died: for any number of windows and sessions.                   *)
THEOREM DamagePasses == IndexSpec => []DamageIsPassing
  <1>1. IndexInit => IndexTypeOK /\ WritersAlone /\ DamageIsPassing
    BY IndexStarts DEF IndexInit, WritersAlone, DamageIsPassing, Writers, IsAt, Idle
  <1>2. IndexTypeOK /\ WritersAlone /\ DamageIsPassing /\ [IndexNext]_indexVars
          => (IndexTypeOK /\ WritersAlone /\ DamageIsPassing)'
    BY IndexTypeStep, HeadersStep
  <1>. QED
    BY <1>1, <1>2, PTL DEF IndexSpec

-----------------------------------------------------------------------------
(* What was deleted. *)

LEMMA DeletedStep ==
    ASSUME IndexTypeOK, WritersAlone, DeletedStayGone, [IndexNext]_indexVars
    PROVE  DeletedStayGone'
  <1>0. \A s \in ixGone : s \in Indexed /\ ixHeader[s] = "none" /\ s \notin ixLogs
    BY DEF DeletedStayGone, Exists, IndexTypeOK
  <1>a. ASSUME ixHeader' = ixHeader, ixLogs' = ixLogs, ixGone' = ixGone PROVE DeletedStayGone'
    BY <1>a DEF DeletedStayGone, Exists
  <1>1. ASSUME NEW w \in Windows, ShowList(w) PROVE DeletedStayGone'
    BY <1>1, <1>a DEF ShowList
  <1>2. ASSUME NEW w \in Windows, CreateSession(w) PROVE DeletedStayGone'
    BY <1>2, <1>0 DEF CreateSession, DeletedStayGone, Exists, IndexTypeOK
  <1>3. ASSUME NEW w \in Windows, OpenListed(w) PROVE DeletedStayGone'
    BY <1>3, <1>a DEF OpenListed
  <1>4. ASSUME NEW w \in Windows, LoadStore(w) PROVE DeletedStayGone'
    BY <1>4, <1>0 DEF LoadStore, DeletedStayGone, Exists, IndexTypeOK
  <1>5. ASSUME NEW w \in Windows, SeedTitle(w) PROVE DeletedStayGone'
    BY <1>5, <1>a DEF SeedTitle
  <1>6. ASSUME NEW w \in Windows, Rename(w) PROVE DeletedStayGone'
    BY <1>6, <1>a DEF Rename
  <1>7. ASSUME NEW w \in Windows, ReadHeader(w) PROVE DeletedStayGone'
    BY <1>7, <1>a DEF ReadHeader
  <1>8. ASSUME NEW w \in Windows, OpenHeader(w) PROVE DeletedStayGone'
    BY <1>8, <1>0 DEF OpenHeader, DeletedStayGone, Exists, IndexTypeOK
  <1>9. ASSUME NEW w \in Windows, WriteHeader(w) PROVE DeletedStayGone'
    <2>. DEFINE s == ixDoing[w].of
    <2>1. s \in Indexed /\ w \in Writers(s)
      BY <1>9, OpTyped DEF WriteHeader, IsAt, Writers
    <2>2. s \notin ixGone
      BY <2>1, <1>0 DEF WritersAlone
    <2>3. \A r \in Indexed \ {s} : ixHeader'[r] = ixHeader[r]
      BY <1>9 DEF WriteHeader, IndexTypeOK
    <2>. QED
      BY <2>2, <2>3, <1>0, <1>9 DEF WriteHeader, DeletedStayGone, Exists
  <1>10. ASSUME NEW w \in Windows, WriteNowhere(w) PROVE DeletedStayGone'
    BY <1>10, <1>a DEF WriteNowhere
  <1>11. ASSUME NEW w \in Windows, DeleteFiles(w) PROVE DeletedStayGone'
    BY <1>11, <1>0 DEF DeleteFiles, DeletedStayGone, Exists, IndexTypeOK
  <1>12. ASSUME NEW w \in Windows, RemoveDirectory(w) PROVE DeletedStayGone'
    <2>. DEFINE s == ixDoing[w].of
    <2>1. s \in Indexed
      BY <1>12, OpTyped DEF RemoveDirectory, IsAt
    <2>. QED
      BY <2>1, <1>0, <1>12 DEF RemoveDirectory, DeletedStayGone, Exists, IndexTypeOK
  <1>13. ASSUME NEW w \in Windows, WriteLog(w) PROVE DeletedStayGone'
    BY <1>13, <1>0 DEF WriteLog, DeletedStayGone, Exists
  <1>14. ASSUME NEW w \in Windows, Restart(w) PROVE DeletedStayGone'
    BY <1>14, <1>a DEF Restart
  <1>15. CASE UNCHANGED indexVars
    BY <1>15, <1>a DEF indexVars
  <1>. QED
    BY <1>1, <1>2, <1>3, <1>4, <1>5, <1>6, <1>7, <1>8, <1>9, <1>10, <1>11, <1>12, <1>13,
       <1>14, <1>15 DEF IndexNext

(* A deleted session stays deleted, whatever the windows were doing to it   *)
(* when its files went.                                                    *)
THEOREM DeletedStay == IndexSpec => []DeletedStayGone
  <1>1. IndexInit => IndexTypeOK /\ WritersAlone /\ DamageIsPassing /\ DeletedStayGone
    BY IndexStarts DEF IndexInit, WritersAlone, DamageIsPassing, DeletedStayGone, Writers, IsAt, Idle
  <1>2. IndexTypeOK /\ WritersAlone /\ DamageIsPassing /\ DeletedStayGone /\ [IndexNext]_indexVars
          => (IndexTypeOK /\ WritersAlone /\ DamageIsPassing /\ DeletedStayGone)'
    BY IndexTypeStep, HeadersStep, DeletedStep
  <1>. QED
    BY <1>1, <1>2, PTL DEF IndexSpec

-----------------------------------------------------------------------------
(* The files: for any sessions and any number of messages *)

USE NoneAssumption, MessagesAssumption

AtMost(s, n) == \A i \in 1 .. Len(s) : s[i] <= n

(* The writes an operation can still have to make, and those among them    *)
(* with the log, or with an append to the mirror first.                    *)
LogWrites == {<<"log">>, <<"mirror", "log">>, <<"log", "mirror">>, <<"log", "save">>}
MirrorWrites == {<<"mirror">>, <<"mirror", "log">>}
Appends == MirrorWrites \cup {<<"log", "mirror">>}
Writes == LogWrites \cup MirrorWrites \cup {<<>>, <<"save">>}

(* What memory and logs hold was said in this order; and so does a mirror  *)
(* that would be migrated.                                                 *)
MemoryOrdered ==
    /\ Increasing(store) /\ AtMost(store, said)
    /\ Increasing(system) /\ AtMost(system, said)
FileOrdered(s) ==
    /\ Increasing(log[s].content) /\ AtMost(log[s].content, said)
    /\ AtMost(mirror[s].content, said)
    /\ ~log[s].exists => Increasing(mirror[s].content)
    /\ ~log[s].exists => log[s] = NoFile
    /\ ~mirror[s].exists => mirror[s] = NoFile
    /\ header[s] = "none" => log[s] = NoFile /\ mirror[s] = NoFile
FilesOrdered == \A s \in Sessions : FileOrdered(s)

(* The log is what the store is, or is still to be written; a store that   *)
(* is not bound has a log that does not load; and the message a mirror is  *)
(* about to take is new to it.                                             *)
Following(s) == log[s] = File(store) \/ (log[s] = NoFile /\ store = <<>>)
Synced ==
    /\ pending \in Writes
    /\ pending \in Appends => said > 0
    /\ open = None => store = <<>>
    /\ open # None =>
         /\ bound => ~log[open].torn /\ (pending \in LogWrites \/ Following(open))
         /\ ~bound => log[open].exists
         /\ ~log[open].exists /\ pending \in MirrorWrites =>
              AtMost(mirror[open].content, said - 1)

FilesInv == TypeOK /\ MemoryOrdered /\ FilesOrdered /\ Synced

-----------------------------------------------------------------------------
(* Sequences *)

LEMMA PrefixOrdered ==
    ASSUME NEW s \in Seq(Numbers), NEW k \in 0 .. Len(s), NEW n \in Nat
    PROVE  /\ SubSeq(s, 1, k) \in Seq(Numbers)
           /\ Increasing(s) => Increasing(SubSeq(s, 1, k))
           /\ AtMost(s, n) => AtMost(SubSeq(s, 1, k), n)
  <1>1. \A i \in 1 .. k : s[i] \in Numbers
    OBVIOUS
  <1>2. /\ SubSeq(s, 1, k) \in Seq(Numbers)
        /\ Len(SubSeq(s, 1, k)) = k
        /\ \A i \in 1 .. k : SubSeq(s, 1, k)[i] = s[i]
    BY <1>1, SubSeqProperties
  <1>. QED
    BY <1>2 DEF Increasing, AtMost

LEMMA AppendOrdered ==
    ASSUME NEW s \in Seq(Numbers), NEW n \in Numbers
    PROVE  /\ Append(s, n) \in Seq(Numbers)
           /\ AtMost(s, n) => AtMost(Append(s, n), n)
           /\ Increasing(s) /\ AtMost(s, n - 1) => Increasing(Append(s, n))
  <1>1. /\ Append(s, n) \in Seq(Numbers)
        /\ Len(s) \in Nat /\ Len(Append(s, n)) = Len(s) + 1
        /\ \A i \in 1 .. Len(s) : Append(s, n)[i] = s[i] /\ s[i] \in Numbers
        /\ Append(s, n)[Len(s) + 1] = n
    OBVIOUS
  <1>2. AtMost(s, n) => AtMost(Append(s, n), n)
    BY <1>1 DEF AtMost, Numbers
  <1>3. ASSUME Increasing(s), AtMost(s, n - 1),
               NEW i \in 1 .. Len(s) + 1, NEW j \in 1 .. Len(s) + 1, i < j
        PROVE  Append(s, n)[i] < Append(s, n)[j]
    <2>1. i \in 1 .. Len(s)
      BY <1>1, <1>3
    <2>2. CASE j = Len(s) + 1
      BY <1>1, <1>3, <2>1, <2>2 DEF AtMost, Numbers
    <2>3. CASE j # Len(s) + 1
      BY <1>1, <1>3, <2>1, <2>3 DEF Increasing
    <2>. QED
      BY <2>2, <2>3
  <1>. QED
    BY <1>1, <1>2, <1>3 DEF Increasing

LEMMA ConcatAtMost ==
    ASSUME NEW s \in Seq(Numbers), NEW t \in Seq(Numbers), NEW n \in Nat,
           AtMost(s, n), AtMost(t, n)
    PROVE  s \o t \in Seq(Numbers) /\ AtMost(s \o t, n)
  <1>1. /\ s \o t \in Seq(Numbers)
        /\ Len(s) \in Nat /\ Len(t) \in Nat /\ Len(s \o t) = Len(s) + Len(t)
        /\ \A i \in 1 .. Len(s) : (s \o t)[i] = s[i]
        /\ \A i \in Len(s) + 1 .. Len(s) + Len(t) : (s \o t)[i] = t[i - Len(s)]
    BY ConcatProperties
  <1>2. ASSUME NEW i \in 1 .. Len(s) + Len(t)
        PROVE  (s \o t)[i] <= n
    <2>1. CASE i <= Len(s)
      BY <1>1, <2>1 DEF AtMost
    <2>2. CASE i > Len(s)
      <3>1. i - Len(s) \in 1 .. Len(t) /\ i \in Len(s) + 1 .. Len(s) + Len(t)
        BY <1>1, <2>2
      <3>. QED
        BY <1>1, <3>1 DEF AtMost
    <2>. QED
      BY <1>1, <2>1, <2>2
  <1>. QED
    BY <1>1, <1>2 DEF AtMost

(* A larger bound. *)
LEMMA LargerBound ==
    ASSUME NEW s \in Seq(Numbers), NEW n \in Nat, AtMost(s, n)
    PROVE  AtMost(s, n + 1)
  <1>1. \A i \in 1 .. Len(s) : s[i] \in Nat
    BY DEF Numbers
  <1>. QED
    BY <1>1 DEF AtMost

LEMMA EmptyOrdered ==
    ASSUME NEW n
    PROVE  <<>> \in Seq(Numbers) /\ Increasing(<<>>) /\ AtMost(<<>>, n)
  BY DEF Increasing, AtMost

-----------------------------------------------------------------------------
(* The writes still to make *)

WriteKinds == {"log", "mirror", "save"}

LEMMA HeadsAndTails ==
    /\ \A k \in WriteKinds : <<k>> # <<>> /\ Head(<<k>>) = k /\ Tail(<<k>>) = <<>>
    /\ \A k, l \in WriteKinds :
         /\ <<k, l>> # <<>> /\ Head(<<k, l>>) = k /\ Tail(<<k, l>>) = <<l>>
  OBVIOUS

LEMMA WritesTyped == Writes \subseteq Seq(WriteKinds)
  BY DEF Writes, LogWrites, MirrorWrites, WriteKinds

LEMMA LogWritten ==
    ASSUME pending \in Writes, Writing("log")
    PROVE  /\ pending \in LogWrites /\ pending' \in {<<>>, <<"mirror">>, <<"save">>}
           /\ pending' = <<"mirror">> => pending = <<"log", "mirror">>
  BY HeadsAndTails DEF Writes, LogWrites, MirrorWrites, Writing, WriteKinds

LEMMA MirrorWritten ==
    ASSUME pending \in Writes, Writing("mirror")
    PROVE  \/ pending = <<"mirror">> /\ pending' = <<>>
           \/ pending = <<"mirror", "log">> /\ pending' = <<"log">>
  BY HeadsAndTails DEF Writes, LogWrites, MirrorWrites, Writing, WriteKinds

LEMMA MirrorSaved ==
    ASSUME pending \in Writes, Writing("save")
    PROVE  pending = <<"save">> /\ pending' = <<>>
  BY HeadsAndTails DEF Writes, LogWrites, MirrorWrites, Writing, WriteKinds

LEMMA WritesDistinct ==
    /\ LogWrites \subseteq Writes /\ MirrorWrites \subseteq Writes
    /\ <<>> \in Writes /\ <<"save">> \in Writes
    /\ <<"log">> \in LogWrites /\ <<"log">> \notin MirrorWrites
    /\ <<"mirror", "log">> \in LogWrites /\ <<"log", "mirror">> \in LogWrites
    /\ <<"log", "save">> \in LogWrites /\ <<"log", "save">> \notin MirrorWrites
    /\ <<"mirror">> \in MirrorWrites /\ <<"mirror">> \notin LogWrites
    /\ <<"save">> \notin LogWrites /\ <<"save">> \notin MirrorWrites
    /\ <<>> \notin LogWrites /\ <<>> \notin MirrorWrites
  BY DEF Writes, LogWrites, MirrorWrites

-----------------------------------------------------------------------------
(* Every step keeps the types, the order and the log in step with memory *)

LEMMA FileTyped ==
    ASSUME NEW s \in Seq(Numbers)
    PROVE  File(s) \in FileOf /\ Damaged(s) \in FileOf /\ NoFile \in FileOf
  BY EmptyOrdered DEF File, Damaged, NoFile, FileOf

LEMMA FilesStart == Init => FilesInv
  <1>. SUFFICES ASSUME Init PROVE FilesInv
    OBVIOUS
  <1>1. TypeOK
    <2>1. NoFile \in FileOf /\ <<>> \in Seq(Numbers)
      BY FileTyped, EmptyOrdered
    <2>2. log \in [Sessions -> FileOf] /\ mirror \in [Sessions -> FileOf]
      BY <2>1 DEF Init
    <2>3. pending \in Seq({"log", "mirror", "save"})
      BY DEF Init
    <2>. QED
      <3>1. /\ header \in [Sessions -> {"none", "torn", "good"}]
            /\ open = None /\ pending = <<>> /\ bound = FALSE
            /\ store = <<>> /\ system = <<>> /\ said = 0
        BY DEF Init
      <3>2. said \in 0 .. MaxMessages
        BY <3>1
      <3>. QED
        BY <2>1, <2>2, <2>3, <3>1, <3>2 DEF TypeOK
  <1>2. MemoryOrdered
    BY EmptyOrdered DEF Init, MemoryOrdered
  <1>3. FilesOrdered
    BY EmptyOrdered DEF Init, FilesOrdered, FileOrdered, NoFile
  <1>4. Synced
    BY WritesDistinct DEF Appends, Init, Synced
  <1>. QED
    BY <1>1, <1>2, <1>3, <1>4 DEF FilesInv

(* A process starts. *)
LEMMA CreateKeeps ==
    ASSUME FilesInv, NEW s \in Sessions, Create(s) PROVE FilesInv'
  <1>. USE DEF FilesInv
  <1>1. TypeOK'
    BY DEF TypeOK, Create
  <1>2. MemoryOrdered'
    BY DEF MemoryOrdered, Create
  <1>3. FilesOrdered'
    BY DEF FilesOrdered, FileOrdered, Create, TypeOK
  <1>4. Synced'
    <2>1. log[s] = NoFile /\ ~log[s].torn /\ store = <<>> /\ pending = <<>>
      BY DEF Create, FilesOrdered, FileOrdered, Synced, TypeOK, NoFile
    <2>. QED
      BY <2>1, WritesDistinct DEF Appends, Create, Synced, Following
  <1>. QED
    BY <1>1, <1>2, <1>3, <1>4

LEMMA CreateDiesKeeps ==
    ASSUME FilesInv, NEW s \in Sessions, CreateDies(s) PROVE FilesInv'
  <1>. USE DEF FilesInv
  <1>1. TypeOK'
    BY DEF TypeOK, CreateDies, memory
  <1>2. MemoryOrdered'
    BY DEF MemoryOrdered, CreateDies, memory
  <1>3. FilesOrdered'
    BY DEF FilesOrdered, FileOrdered, CreateDies, memory, TypeOK
  <1>4. Synced'
    BY DEF CreateDies, memory, Synced
  <1>. QED
    BY <1>1, <1>2, <1>3, <1>4

LEMMA ResumeKeeps ==
    ASSUME FilesInv, NEW s \in Sessions, Resume(s) PROVE FilesInv'
  <1>. USE DEF FilesInv
  <1>1. log[s] \in FileOf /\ mirror[s] \in FileOf /\ FileOrdered(s) /\ said \in Nat
    BY DEF TypeOK, FilesOrdered
  <1>2. /\ store' \in Seq(Numbers) /\ bound' \in BOOLEAN
        /\ Increasing(store') /\ AtMost(store', said)
        /\ pending' \in {<<>>, <<"log">>}
    <2>1. CASE ~log[s].exists
      BY <1>1, <2>1 DEF Resume, Load, FileOrdered, FileOf
    <2>2. CASE log[s].exists
      BY <1>1, <2>2, EmptyOrdered DEF Resume, Load, FileOrdered, FileOf
    <2>. QED
      BY <2>1, <2>2
  <1>3. TypeOK'
    <2>1. header[s] = "good" /\ UNCHANGED <<header, log, mirror, system, said>> /\ open' = s
      BY DEF Resume, Found, files
    <2>2. pending' \in Seq({"log", "mirror", "save"})
      BY <1>2, WritesTyped, WritesDistinct DEF WriteKinds
    <2>. QED
      BY <1>2, <2>1, <2>2 DEF TypeOK
  <1>4. MemoryOrdered'
    BY <1>2 DEF MemoryOrdered, Resume
  <1>5. FilesOrdered'
    BY DEF FilesOrdered, FileOrdered, Resume, files
  <1>6. Synced'
    <2>1. open' = s /\ open' # None /\ log' = log
      BY DEF Resume, files
    <2>2. pending' \in Writes /\ pending' \notin MirrorWrites /\ pending' \notin Appends
      BY <1>2, WritesDistinct DEF Appends, MirrorWrites
    <2>3. bound' => ~log[s].torn /\ (pending' \in LogWrites \/ Following(s)')
      <3>1. CASE log[s].exists
        <4>. SUFFICES ASSUME bound' PROVE ~log[s].torn /\ log[s] = File(store')
          BY <2>1 DEF Following
        <4>1. ~log[s].torn /\ store' = log[s].content
          BY <3>1 DEF Resume, Load
        <4>. QED
          BY <1>1, <3>1, <4>1 DEF File, FileOf
      <3>2. CASE ~log[s].exists /\ mirror[s].exists
        BY <1>1, <3>2, WritesDistinct DEF Resume, Load, FileOrdered, NoFile
      <3>3. CASE ~log[s].exists /\ ~mirror[s].exists
        BY <1>1, <2>1, <3>3 DEF Resume, Load, FileOrdered, Following, NoFile
      <3>. QED
        BY <3>1, <3>2, <3>3
    <2>4. ~bound' => log[s].exists
      BY DEF Resume, Load
    <2>. QED
      BY <2>1, <2>2, <2>3, <2>4 DEF Synced
  <1>. QED
    BY <1>3, <1>4, <1>5, <1>6

(* A process ends, or dies before or within a write. *)
LEMMA ForgottenTyped ==
    ASSUME FilesInv, Forgotten, said' = said,
           header' = header,
           log' \in [Sessions -> FileOf], mirror' \in [Sessions -> FileOf]
    PROVE  TypeOK' /\ MemoryOrdered' /\ Synced'
  <1>1. TypeOK'
    BY EmptyOrdered, WritesTyped, WritesDistinct DEF FilesInv, TypeOK, Forgotten, WriteKinds
  <1>2. MemoryOrdered'
    BY EmptyOrdered DEF MemoryOrdered, Forgotten
  <1>3. Synced'
    BY WritesDistinct DEF Appends, Synced, Forgotten
  <1>. QED
    BY <1>1, <1>2, <1>3

LEMMA ExitKeeps ==
    ASSUME FilesInv, Exit \/ Die PROVE FilesInv'
  <1>1. UNCHANGED <<header, log, mirror, said>> /\ Forgotten
    BY DEF Exit, Die, files
  <1>2. FilesOrdered'
    BY <1>1 DEF FilesInv, FilesOrdered, FileOrdered
  <1>. QED
    BY <1>1, <1>2, ForgottenTyped DEF FilesInv, TypeOK

LEMMA DieInFlushKeeps ==
    ASSUME FilesInv, DieInFlush PROVE FilesInv'
  <1>1. PICK left \in Partial(store) : log' = [log EXCEPT ![open] = left]
    BY DEF DieInFlush
  <1>2. open \in Sessions /\ header[open] = "good" /\ store \in Seq(Numbers)
        /\ Increasing(store) /\ AtMost(store, said) /\ said \in Nat
    BY DEF DieInFlush, FilesInv, TypeOK, MemoryOrdered
  <1>3. PICK n \in 0 .. Len(store) :
          left \in {File(SubSeq(store, 1, n)), Damaged(SubSeq(store, 1, n))}
    BY <1>2 DEF Partial
  <1>4. /\ left \in FileOf /\ left.exists
        /\ Increasing(left.content) /\ AtMost(left.content, said)
    <2>1. PICK content \in Seq(Numbers) :
            /\ content = SubSeq(store, 1, n)
            /\ Increasing(content) /\ AtMost(content, said)
      BY <1>2, PrefixOrdered
    <2>2. left \in {File(content), Damaged(content)}
      BY <1>3, <2>1
    <2>3. left \in FileOf
      BY <2>2, FileTyped
    <2>4. left.exists /\ left.content = content
      BY <2>2 DEF File, Damaged
    <2>. QED
      BY <2>1, <2>3, <2>4
  <1>5. UNCHANGED <<header, mirror, said>> /\ Forgotten
    BY DEF DieInFlush
  <1>6. FilesOrdered'
    BY <1>1, <1>2, <1>4, <1>5 DEF FilesInv, FilesOrdered, FileOrdered, TypeOK
  <1>7. log' \in [Sessions -> FileOf] /\ mirror' \in [Sessions -> FileOf]
    BY <1>1, <1>4, <1>5 DEF FilesInv, TypeOK
  <1>. QED
    BY <1>5, <1>6, <1>7, ForgottenTyped DEF FilesInv

LEMMA DieInMirrorKeeps ==
    ASSUME FilesInv, DieInMirror PROVE FilesInv'
  <1>1. UNCHANGED <<header, log, said>> /\ Forgotten
        /\ mirror' = [mirror EXCEPT ![open] = Damaged(<<>>)]
    BY DEF DieInMirror
  <1>2. open \in Sessions /\ header[open] = "good" /\ said \in Nat
    BY DEF DieInMirror, FilesInv, TypeOK
  <1>3. Damaged(<<>>) \in FileOf /\ Damaged(<<>>).exists /\ Damaged(<<>>).content = <<>>
    BY EmptyOrdered, FileTyped DEF Damaged
  <1>4. FilesOrdered'
    BY <1>1, <1>2, <1>3, EmptyOrdered DEF FilesInv, FilesOrdered, FileOrdered, TypeOK
  <1>5. log' \in [Sessions -> FileOf] /\ mirror' \in [Sessions -> FileOf]
    BY <1>1, <1>3 DEF FilesInv, TypeOK
  <1>. QED
    BY <1>1, <1>4, <1>5, ForgottenTyped DEF FilesInv

(* The operations of the agent loop. *)
LEMMA BeginKeeps ==
    ASSUME FilesInv, NEW writes \in Writes, Begin(writes),
           UNCHANGED <<header, log, mirror, open, bound>>,
           store' \in Seq(Numbers), system' \in Seq(Numbers),
           said' \in 0 .. MaxMessages, said' \in {said, said + 1},
           MemoryOrdered',
           store' = store \/ writes \in LogWrites,
           writes \in Appends => said' = said + 1
    PROVE  FilesInv'
  <1>1. /\ open \in Sessions /\ pending = <<>> /\ pending' = writes
        /\ writes \in Seq({"log", "mirror", "save"})
        /\ said \in Nat
        /\ \A s \in Sessions : log[s].content \in Seq(Numbers) /\ mirror[s].content \in Seq(Numbers)
    BY WritesTyped DEF FilesInv, TypeOK, Begin, WriteKinds, FileOf
  <1>2. TypeOK'
    BY <1>1 DEF FilesInv, TypeOK
  <1>3. FilesOrdered'
    BY <1>1, LargerBound DEF FilesInv, FilesOrdered, FileOrdered
  <1>4. Synced'
    <2>1. writes \notin LogWrites => store' = store
      OBVIOUS
    <2>2. ~log[open].exists /\ writes \in MirrorWrites => AtMost(mirror[open].content, said' - 1)
      BY <1>1 DEF Appends, FilesInv, FilesOrdered, FileOrdered
    <2>3. bound => ~log[open].torn /\ Following(open)
      BY <1>1, WritesDistinct DEF FilesInv, Synced, TypeOK
    <2>4. writes \in LogWrites \/ Following(open)' \/ ~bound
      BY <2>1, <2>3 DEF Following
    <2>. QED
      BY <1>1, <2>2, <2>3, <2>4 DEF FilesInv, Synced, TypeOK
  <1>. QED
    BY <1>2, <1>3, <1>4 DEF FilesInv

LEMMA PushKeeps ==
    ASSUME FilesInv, Push PROVE FilesInv'
  <1>1. PICK writes \in {<<"mirror", "log">>, <<"log", "mirror">>} : Begin(writes)
    BY DEF Push
  <1>2. /\ said' = said + 1 /\ said \in Nat /\ said' \in Numbers /\ said' \in 0 .. MaxMessages
        /\ store' = Append(store, said') /\ store \in Seq(Numbers) /\ system \in Seq(Numbers)
        /\ UNCHANGED <<header, log, mirror, open, bound, system>>
    BY DEF Push, FilesInv, TypeOK, files, Numbers
  <1>3. store' \in Seq(Numbers) /\ MemoryOrdered'
    <2>1. AtMost(store, said) /\ Increasing(store) /\ AtMost(store, said')
      BY <1>2, LargerBound DEF FilesInv, MemoryOrdered
    <2>2. said' - 1 = said
      BY <1>2
    <2>3. /\ store' \in Seq(Numbers) /\ Increasing(store') /\ AtMost(store', said')
      BY <1>2, <2>1, <2>2, AppendOrdered
    <2>. QED
      BY <1>2, <2>3, LargerBound DEF FilesInv, MemoryOrdered
  <1>. QED
    BY <1>1, <1>2, <1>3, BeginKeeps, WritesDistinct DEF Appends

LEMMA PushSystemKeeps ==
    ASSUME FilesInv, PushSystem PROVE FilesInv'
  <1>1. Begin(<<"mirror">>)
    BY DEF PushSystem
  <1>2. /\ said' = said + 1 /\ said \in Nat /\ said' \in Numbers /\ said' \in 0 .. MaxMessages
        /\ system' = Append(system, said') /\ store \in Seq(Numbers) /\ system \in Seq(Numbers)
        /\ UNCHANGED <<header, log, mirror, open, bound, store>>
    BY DEF PushSystem, FilesInv, TypeOK, files, Numbers
  <1>3. system' \in Seq(Numbers) /\ MemoryOrdered'
    <2>1. AtMost(system, said) /\ Increasing(system) /\ AtMost(system, said')
      BY <1>2, LargerBound DEF FilesInv, MemoryOrdered
    <2>2. said' - 1 = said
      BY <1>2
    <2>3. /\ system' \in Seq(Numbers) /\ Increasing(system') /\ AtMost(system', said')
      BY <1>2, <2>1, <2>2, AppendOrdered
    <2>. QED
      BY <1>2, <2>3, LargerBound DEF FilesInv, MemoryOrdered
  <1>. QED
    BY <1>1, <1>2, <1>3, BeginKeeps, WritesDistinct DEF Appends

LEMMA UndoKeeps ==
    ASSUME FilesInv, Undo PROVE FilesInv'
  <1>1. PICK n \in 1 .. Len(store) : store' = SubSeq(store, 1, n)
    BY DEF Undo
  <1>2. /\ Begin(<<"log", "save">>) /\ said \in Nat /\ said' = said /\ said \in 0 .. MaxMessages
        /\ UNCHANGED <<header, log, mirror, open, bound, system>>
        /\ store \in Seq(Numbers) /\ system \in Seq(Numbers)
    BY DEF Undo, files, FilesInv, TypeOK
  <1>3. n \in 0 .. Len(store)
    BY <1>2
  <1>4. store' \in Seq(Numbers) /\ MemoryOrdered'
    BY <1>1, <1>2, <1>3, PrefixOrdered DEF FilesInv, MemoryOrdered
  <1>. QED
    BY <1>2, <1>4, BeginKeeps, WritesDistinct DEF Appends

LEMMA SaveMessagesKeeps ==
    ASSUME FilesInv, SaveMessages PROVE FilesInv'
  <1>1. /\ Begin(<<"save">>) /\ said' = said /\ said \in 0 .. MaxMessages
        /\ UNCHANGED <<header, log, mirror, open, bound, store, system>>
        /\ store' \in Seq(Numbers) /\ system' \in Seq(Numbers)
    BY DEF SaveMessages, files, memory, FilesInv, TypeOK
  <1>2. MemoryOrdered'
    BY <1>1 DEF FilesInv, MemoryOrdered
  <1>. QED
    BY <1>1, <1>2, BeginKeeps, WritesDistinct DEF Appends

LEMMA ClearKeeps ==
    ASSUME FilesInv, Clear PROVE FilesInv'
  <1>1. /\ Begin(<<"log">>) /\ said' = said /\ said \in 0 .. MaxMessages
        /\ UNCHANGED <<header, log, mirror, open, bound>>
        /\ store' = <<>> /\ system' = <<>>
    BY DEF Clear, files, FilesInv, TypeOK
  <1>2. store' \in Seq(Numbers) /\ system' \in Seq(Numbers) /\ MemoryOrdered'
    BY <1>1, EmptyOrdered DEF MemoryOrdered
  <1>. QED
    BY <1>1, <1>2, BeginKeeps, WritesDistinct DEF Appends

(* The writes. *)
LEMMA FlushKeeps ==
    ASSUME FilesInv, Flush PROVE FilesInv'
  <1>1. /\ Writing("log") /\ UNCHANGED <<header, mirror, open, store, bound, system, said>>
        /\ open \in Sessions /\ header[open] = "good" /\ pending \in Writes
        /\ store \in Seq(Numbers) /\ Increasing(store) /\ AtMost(store, said)
    BY DEF Flush, memory, Writing, FilesInv, TypeOK, Synced, MemoryOrdered
  <1>2. /\ pending' \in {<<>>, <<"mirror">>, <<"save">>}
        /\ pending' = <<"mirror">> => pending = <<"log", "mirror">>
    BY <1>1, LogWritten
  <1>3. File(store) \in FileOf /\ File(store).exists /\ ~File(store).torn
        /\ File(store).content = store
    BY <1>1, FileTyped DEF File
  <1>4. /\ log' \in [Sessions -> FileOf]
        /\ bound => log'[open] = File(store)
        /\ ~bound => log'[open] = log[open]
        /\ \A s \in Sessions : s # open => log'[s] = log[s]
    BY <1>1, <1>3 DEF Flush, FilesInv, TypeOK
  <1>5. TypeOK'
    <2>1. pending' \in Seq({"log", "mirror", "save"})
      BY <1>2, WritesTyped, WritesDistinct DEF WriteKinds, MirrorWrites
    <2>. QED
      BY <1>1, <1>4, <2>1 DEF FilesInv, TypeOK
  <1>6. MemoryOrdered'
    BY <1>1 DEF FilesInv, MemoryOrdered
  <1>7. FilesOrdered'
    <2>. SUFFICES ASSUME NEW s \in Sessions PROVE FileOrdered(s)'
      BY DEF FilesOrdered
    <2>1. FileOrdered(s)
      BY DEF FilesInv, FilesOrdered
    <2>2. CASE s = open /\ bound
      BY <1>1, <1>3, <1>4, <2>1, <2>2 DEF FileOrdered
    <2>3. CASE s # open \/ ~bound
      BY <1>1, <1>4, <2>1, <2>3 DEF FileOrdered
    <2>. QED
      BY <2>2, <2>3
  <1>8. Synced'
    <2>1. pending' \in Writes /\ (pending' \in Appends => pending \in Appends)
      BY <1>2, WritesDistinct DEF Appends
    <2>2. log'[open].exists /\ (bound => ~log'[open].torn /\ log'[open] = File(store))
      BY <1>1, <1>3, <1>4 DEF FilesInv, Synced
    <2>. QED
      BY <1>1, <2>1, <2>2 DEF FilesInv, Synced, Following
  <1>. QED
    BY <1>5, <1>6, <1>7, <1>8 DEF FilesInv

(* What both writes of the mirror have to show: the new mirror is typed,   *)
(* nothing in it is to come, and it is in order if it could be migrated.   *)
LEMMA MirrorKeeps ==
    ASSUME FilesInv, open \in Sessions, UNCHANGED <<header, log, memory, said>>,
           NEW content \in Seq(Numbers),
           mirror' = [mirror EXCEPT ![open] = File(content)],
           AtMost(content, said),
           ~log[open].exists => Increasing(content),
           pending' \in {<<>>, <<"log">>},
           pending \in LogWrites => pending' = <<"log">>
    PROVE  FilesInv'
  <1>1. /\ UNCHANGED <<header, log, open, store, bound, system, said>>
        /\ header[open] = "good" /\ open # None
    BY DEF memory, FilesInv, TypeOK
  <1>2. File(content) \in FileOf /\ File(content).exists /\ File(content).content = content
    BY FileTyped DEF File
  <1>3. /\ mirror' \in [Sessions -> FileOf] /\ mirror'[open] = File(content)
        /\ \A s \in Sessions : s # open => mirror'[s] = mirror[s]
    BY <1>2 DEF FilesInv, TypeOK
  <1>4. pending' \in Writes /\ pending' \notin Appends
    BY WritesDistinct DEF Appends, MirrorWrites
  <1>5. TypeOK'
    <2>1. pending' \in Seq({"log", "mirror", "save"})
      BY <1>4, WritesTyped DEF WriteKinds
    <2>. QED
      BY <1>1, <1>3, <2>1 DEF FilesInv, TypeOK
  <1>6. MemoryOrdered'
    BY <1>1 DEF FilesInv, MemoryOrdered
  <1>7. FilesOrdered'
    <2>. SUFFICES ASSUME NEW s \in Sessions PROVE FileOrdered(s)'
      BY DEF FilesOrdered
    <2>1. FileOrdered(s)
      BY DEF FilesInv, FilesOrdered
    <2>2. CASE s = open
      BY <1>1, <1>2, <1>3, <2>1, <2>2 DEF FileOrdered
    <2>3. CASE s # open
      BY <1>1, <1>3, <2>1, <2>3 DEF FileOrdered
    <2>. QED
      BY <2>2, <2>3
  <1>8. Synced'
    <2>1. pending \in LogWrites => pending' \in LogWrites
      BY WritesDistinct
    <2>2. pending' \notin MirrorWrites
      BY <1>4 DEF Appends
    <2>. QED
      BY <1>1, <1>4, <2>1, <2>2 DEF FilesInv, Synced, Following
  <1>. QED
    BY <1>5, <1>6, <1>7, <1>8 DEF FilesInv

LEMMA AppendMirrorKeeps ==
    ASSUME FilesInv, AppendMirror PROVE FilesInv'
  <1>1. /\ Writing("mirror") /\ UNCHANGED <<header, log, memory, said>>
        /\ open \in Sessions /\ open # None /\ pending \in Writes
        /\ mirror[open] \in FileOf /\ mirror \in [Sessions -> FileOf]
        /\ said \in 0 .. MaxMessages
        /\ FileOrdered(open)
    BY DEF AppendMirror, Writing, FilesInv, TypeOK, Synced, FilesOrdered
  <1>2. /\ pending \in MirrorWrites /\ pending \in Appends
        /\ pending' \in {<<>>, <<"log">>}
        /\ pending \in LogWrites => pending' = <<"log">>
    BY <1>1, MirrorWritten, WritesDistinct DEF Appends, MirrorWrites
  <1>3. said \in Numbers
    BY <1>1, <1>2 DEF FilesInv, Synced, Numbers
  <1>4. mirror[open].content \in Seq(Numbers) /\ AtMost(mirror[open].content, said)
    BY <1>1 DEF FileOf, FileOrdered
  <1>5. CASE mirror[open].torn
    <2>1. UNCHANGED <<header, log, mirror, open, store, bound, system, said>>
      BY <1>1, <1>5 DEF AppendMirror, memory
    <2>2. pending' \in Writes /\ pending' \notin Appends /\ pending' \notin MirrorWrites
      BY <1>2, WritesDistinct DEF Appends, MirrorWrites
    <2>3. pending \in LogWrites => pending' \in LogWrites
      BY <1>2, WritesDistinct
    <2>4. TypeOK'
      BY <1>1, <2>1, <2>2, WritesTyped DEF FilesInv, TypeOK, WriteKinds
    <2>5. MemoryOrdered'
      BY <2>1 DEF FilesInv, MemoryOrdered
    <2>6. FilesOrdered'
      BY <2>1 DEF FilesInv, FilesOrdered, FileOrdered
    <2>7. Synced'
      BY <1>1, <2>1, <2>2, <2>3 DEF FilesInv, Synced, Following
    <2>. QED
      BY <2>4, <2>5, <2>6, <2>7 DEF FilesInv
  <1>6. CASE ~mirror[open].torn
    <2>1. PICK content \in Seq(Numbers) :
            /\ content = Append(mirror[open].content, said)
            /\ AtMost(content, said)
            /\ ~log[open].exists => Increasing(content)
      BY <1>1, <1>2, <1>3, <1>4, AppendOrdered DEF FilesInv, Synced, FileOrdered
    <2>2. mirror' = [mirror EXCEPT ![open] = File(content)]
      BY <1>6, <2>1 DEF AppendMirror
    <2>. QED
      BY <1>1, <1>2, <2>1, <2>2, MirrorKeeps
  <1>. QED
    BY <1>5, <1>6

LEMMA SaveMirrorKeeps ==
    ASSUME FilesInv, SaveMirror PROVE FilesInv'
  <1>1. /\ Writing("save") /\ UNCHANGED <<header, log, memory, said>>
        /\ open \in Sessions /\ open # None /\ pending \in Writes
        /\ store \in Seq(Numbers) /\ system \in Seq(Numbers) /\ said \in Nat
        /\ FileOrdered(open)
        /\ AtMost(store, said) /\ AtMost(system, said) /\ Increasing(system)
    BY DEF SaveMirror, Writing, FilesInv, TypeOK, Synced, FilesOrdered, MemoryOrdered
  <1>2. pending = <<"save">> /\ pending' = <<>> /\ pending \notin LogWrites
    BY <1>1, MirrorSaved, WritesDistinct
  <1>3. ~log[open].exists => store = <<>>
    BY <1>1, <1>2 DEF FilesInv, Synced, Following, File
  <1>4. PICK content \in Seq(Numbers) :
          /\ content = system \o store
          /\ AtMost(content, said)
          /\ ~log[open].exists => Increasing(content)
    BY <1>1, <1>3, ConcatAtMost, ConcatEmptySeq
  <1>5. mirror' = [mirror EXCEPT ![open] = File(content)]
    BY <1>4 DEF SaveMirror
  <1>. QED
    BY <1>1, <1>2, <1>4, <1>5, MirrorKeeps

-----------------------------------------------------------------------------
(* The theorems *)

LEMMA FilesInvariant == Spec => []FilesInv
  <1>1. FilesInv /\ Next => FilesInv'
    BY CreateKeeps, CreateDiesKeeps, ResumeKeeps, ExitKeeps, DieInFlushKeeps, DieInMirrorKeeps,
       PushKeeps, PushSystemKeeps, UndoKeeps, SaveMessagesKeeps, ClearKeeps,
       FlushKeeps, AppendMirrorKeeps, SaveMirrorKeeps
    DEF Next, Process, Operation, Write
  <1>2. FilesInv /\ UNCHANGED vars => FilesInv'
    BY DEF vars, files, memory, FilesInv, TypeOK, MemoryOrdered, FilesOrdered, FileOrdered,
           Synced, Following
  <1>. QED
    BY <1>1, <1>2, FilesStart, PTL DEF Spec

(* The types, and that a process only runs on a session whose header it    *)
(* could read (create_session_with, load_session).                         *)
THEOREM FilesTyping == Spec => []TypeOK
  BY FilesInvariant, PTL DEF FilesInv

(* When the writes of an operation are done, events.jsonl is the store:    *)
(* after every append, undo_last_turn, clear_messages and migration.       *)
THEOREM LogFollowsStore == Spec => []AtRestOnDisk
  <1>1. FilesInv => AtRestOnDisk
    BY WritesDistinct DEF FilesInv, Synced, Following, AtRestOnDisk
  <1>. QED
    BY <1>1, FilesInvariant, PTL

(* However often a session is resumed, migrated or cut back, its log holds *)
(* what was said in that order, each message once (load_from_dir, flush).  *)
THEOREM LogsStayOrdered == Spec => []NoEventTwice
  <1>1. FilesInv => NoEventTwice
    BY DEF FilesInv, MemoryOrdered, FilesOrdered, FileOrdered, NoEventTwice
  <1>. QED
    BY <1>1, FilesInvariant, PTL

(* A log that does not load is not written again (with_session_logger,     *)
(* flush): no file is bound to the store that stands in for it.            *)
THEOREM TornLogsAreKept == Spec => TornLogsStay
  <1>1. ASSUME FilesInv, Next, NEW s \in Sessions, log[s].torn
        PROVE  log'[s] = log[s]
    <2>1. CASE Flush
      BY <1>1, <2>1 DEF Flush, FilesInv, Synced, TypeOK
    <2>2. CASE DieInFlush
      BY <1>1, <2>2 DEF DieInFlush, FilesInv, Synced, TypeOK
    <2>3. CASE ~Flush /\ ~DieInFlush
      BY <1>1, <2>3
      DEF Next, Process, Operation, Write, Create, CreateDies, Resume, Exit, Die, DieInMirror,
          Push, PushSystem, Undo, SaveMessages, Clear, AppendMirror, SaveMirror, files
    <2>. QED
      BY <2>1, <2>2, <2>3
  <1>2. FilesInv /\ [Next]_vars => [\A s \in Sessions : log[s].torn => log'[s] = log[s]]_vars
    BY <1>1
  <1>. QED
    BY <1>2, FilesInvariant, PTL DEF Spec, TornLogsStay
=============================================================================
