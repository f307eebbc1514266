---------------------------- MODULE Host_proofs ----------------------------
(***************************************************************************)
(* Theorems about Host, for any number of prompts, events, questions and   *)
(* sessions: a turn has the session and the abort channel of its prompt,   *)
(* and its events are printed, unless another prompt or session crossed it *)
(* on its way to the session.                                              *)
(*                                                                         *)
(* The lock does its work once a turn has it (Exclusive).  Before that,    *)
(* between the prompt and the session, nothing is locked; what holds then  *)
(* is that a turn nobody crossed is the only one on its way (OnItsWay),    *)
(* so that the channel it has put into the session is still there.         *)
(*                                                                         *)
(* That the lock is shared properly at all, one place for each who uses it *)
(* or waits for it, is the last section.                                   *)
(***************************************************************************)
EXTENDS Host, FiniteSetTheorems, SequenceTheorems, TLAPS

OnTheWay == {"spawned", "wiring", "wired", "queued"}
HasSession == {"sending", "permission", "question"}
Phases == OnTheWay \cup HasSession \cup {"none", "ended", "idle", "changes", "done", "over"}
TurnSet == [at : Phases, of : Nat, events : Nat, backlog : Nat, asks : Nat,
            lagged : BOOLEAN, crossed : BOOLEAN, unheard : BOOLEAN]

Typed ==
    /\ hoTurns \in [Turns -> TurnSet]
    /\ hoLock \in Seq(Turns \cup {Loop})
    /\ hoSession \in [number : Nat, channel : Nat]

\* Who has the session holds its lock.
Exclusive ==
    /\ \A i \in Turns : hoTurns[i].at \in HasSession => Holds(i)
    /\ hoLoop = "command" => Holds(Loop)

\* A turn that nobody crossed is alone between its prompt and its session.
OnItsWay ==
    \A i \in Turns : hoTurns[i].at \in OnTheWay /\ ~hoTurns[i].crossed =>
        /\ hoTurns[i].of = hoSession.number
        /\ hoTurns[i].at \in {"wired", "queued"} => hoSession.channel = i
        /\ \A j \in Turns \ {i} : hoTurns[j].at \notin OnTheWay

HostInv == Typed /\ Exclusive /\ OnItsWay /\ TurnIsItsOwn /\ EventsArePrinted

USE HostAssumption DEF Turns, Loop, NoTurn

LEMMA StartingTurns == Starting = {i \in Turns : hoTurns[i].at \in OnTheWay}
  BY DEF Starting, OnTheWay

-----------------------------------------------------------------------------
\* The lock: who holds it goes on holding it while others queue or leave.
LEMMA HolderStays ==
    ASSUME Typed, NEW x \in Turns \cup {Loop}, Holds(x), NEW y \in Turns \cup {Loop}, Wait(y)
    PROVE  Holds(x)'
  BY DEF Typed, Holds, Wait

LEMMA WaiterHolds ==
    ASSUME NEW y \in Turns \cup {Loop}, hoLock = <<>>, Wait(y)
    PROVE  Holds(y)'
  BY DEF Holds, Wait

LEMMA LockTyped ==
    ASSUME hoLock \in Seq(Turns \cup {Loop})
    PROVE  /\ \A y \in Turns \cup {Loop} : Wait(y) => hoLock' \in Seq(Turns \cup {Loop})
           /\ \A y \in Turns \cup {Loop} : Holds(y) /\ Release => hoLock' \in Seq(Turns \cup {Loop})
  <1>1. ASSUME NEW y \in Turns \cup {Loop}, Wait(y) PROVE hoLock' \in Seq(Turns \cup {Loop})
    BY <1>1 DEF Wait
  <1>2. ASSUME NEW y \in Turns \cup {Loop}, Holds(y), Release
        PROVE  hoLock' \in Seq(Turns \cup {Loop})
    <2>1. hoLock # <<>> /\ hoLock' = Tail(hoLock)
      BY <1>2 DEF Holds, Release
    <2> QED
      BY <2>1
  <1> QED
    BY <1>1, <1>2

LEMMA LoopLeaves ==
    ASSUME hoLock \in Seq(Turns \cup {Loop}), NEW place \in DOMAIN hoLock, hoLock[place] = Loop,
           hoLock' = RemoveAt(hoLock, place)
    PROVE  /\ hoLock' \in Seq(Turns \cup {Loop})
           /\ \A i \in Turns : Holds(i) => Holds(i)'
  <1>1. place \in 1..Len(hoLock)
    OBVIOUS
  <1>2. hoLock' \in Seq(Turns \cup {Loop})
    BY <1>1 DEF RemoveAt
  <1>3. ASSUME NEW i \in Turns, Holds(i) PROVE Holds(i)'
    <2>1. place # 1
      BY <1>3 DEF Holds
    <2>2. Len(hoLock') >= 1 /\ hoLock'[1] = hoLock[1]
      <3> DEFINE before == SubSeq(hoLock, 1, place - 1)
                 after == SubSeq(hoLock, place + 1, Len(hoLock))
      <3>1. before \in Seq(Turns \cup {Loop}) /\ Len(before) >= 1 /\ before[1] = hoLock[1]
        BY <1>1, <2>1
      <3>2. after \in Seq(Turns \cup {Loop})
        BY <1>1
      <3>3. hoLock' = before \o after
        BY DEF RemoveAt
      <3> HIDE DEF before, after
      <3> QED
        BY <3>1, <3>2, <3>3
    <2> QED
      BY <1>2, <1>3, <2>2 DEF Holds
  <1> QED
    BY <1>2, <1>3

LEMMA OneHolder ==
    ASSUME NEW x, NEW y, Holds(x), Holds(y)
    PROVE  x = y
  BY DEF Holds

-----------------------------------------------------------------------------
\* A step that changes neither the turns nor the session.
LEMMA LockSteps ==
    ASSUME HostInv, UNCHANGED <<hoTurns, hoSession>>, hoLock' \in Seq(Turns \cup {Loop}),
           \A i \in Turns : hoTurns[i].at \in HasSession => Holds(i)',
           hoLoop' = "command" => Holds(Loop)'
    PROVE  HostInv'
  BY DEF HostInv, Typed, Exclusive, OnItsWay, TurnIsItsOwn, EventsArePrinted, At

\* The loop has the session: no turn has.
LEMMA LoopAlone ==
    ASSUME HostInv, Holds(Loop)
    PROVE  \A i \in Turns : hoTurns[i].at \notin HasSession
  BY OneHolder DEF HostInv, Exclusive

\* Everyone on the way is crossed.
LEMMA CrossedTurns ==
    ASSUME Typed
    PROVE  /\ Crossed \in [Turns -> TurnSet]
           /\ \A i \in Turns :
                /\ Crossed[i].at = hoTurns[i].at /\ Crossed[i].backlog = hoTurns[i].backlog
                /\ Crossed[i].unheard = hoTurns[i].unheard /\ Crossed[i].lagged = hoTurns[i].lagged
                /\ hoTurns[i].at \in OnTheWay => Crossed[i].crossed
                /\ ~Crossed[i].crossed => ~hoTurns[i].crossed
  BY StartingTurns DEF Crossed, Typed, TurnSet

LEMMA LoopSteps ==
    ASSUME HostInv,
           \/ BeginPrompt \/ BeginInject \/ BeginCreate \/ OpenSession \/ LoopStep \/ BeginCommand
           \/ Cancel
    PROVE  HostInv'
  <1>0. hoLock \in Seq(Turns \cup {Loop}) /\ Typed
    BY DEF HostInv, Typed
  <1>1. ASSUME NEW request \in {"prompt", "inject", "create", "open"}, Begin(request)
        PROVE  HostInv'
    <2>1. Wait(Loop) /\ UNCHANGED <<hoTurns, hoSession>> /\ hoLoop' # "command"
      BY <1>1 DEF Begin
    <2>2. hoLock' \in Seq(Turns \cup {Loop})
      BY <1>0, <2>1, LockTyped
    <2>3. \A i \in Turns : hoTurns[i].at \in HasSession => Holds(i)'
      BY <1>0, <2>1, HolderStays DEF HostInv, Exclusive
    <2> QED
      BY <2>1, <2>2, <2>3, LockSteps
  <1>2. CASE Prompt
    <2>1. /\ Holds(Loop) /\ Release /\ hoLoop' = "reading" /\ hoSession' = hoSession
          /\ hoTurns' = [Crossed EXCEPT ![Next1] = NewTurn(hoSession.number, Starting # {})]
      BY <1>2 DEF Prompt
    <2>2. NewTurn(hoSession.number, Starting # {}) \in TurnSet
      BY <1>0 DEF NewTurn, TurnSet, Typed, Phases, OnTheWay
    <2>3. Typed'
      BY <1>0, <2>1, <2>2, CrossedTurns, LockTyped DEF Typed
    <2>4. ASSUME NEW i \in Turns
          PROVE  \/ hoTurns'[i] = Crossed[i]
                 \/ i = Next1 /\ hoTurns'[i] = NewTurn(hoSession.number, Starting # {})
      BY <1>0, <2>1, <2>4, CrossedTurns
    <2>5. \A i \in Turns : hoTurns'[i].at \notin HasSession
      BY <1>0, <2>1, <2>4, LoopAlone, CrossedTurns DEF NewTurn, HasSession
    <2>6. OnItsWay'
      <3> SUFFICES ASSUME NEW i \in Turns, hoTurns'[i].at \in OnTheWay, ~hoTurns'[i].crossed
                   PROVE  /\ hoTurns'[i].of = hoSession'.number
                          /\ hoTurns'[i].at \in {"wired", "queued"} => hoSession'.channel = i
                          /\ \A j \in Turns \ {i} : hoTurns'[j].at \notin OnTheWay
        BY DEF OnItsWay
      <3>1. hoTurns'[i] # Crossed[i]
        BY <1>0, CrossedTurns
      <3>2. i = Next1 /\ hoTurns'[i] = NewTurn(hoSession.number, Starting # {})
        BY <2>4, <3>1
      <3>3. Starting = {}
        <4>1. hoTurns'[i].crossed = (Starting # {})
          BY <3>2 DEF NewTurn
        <4> QED
          BY <4>1
      <3>4. ASSUME NEW j \in Turns \ {i} PROVE hoTurns'[j].at \notin OnTheWay
        BY <1>0, <2>4, <3>2, <3>3, <3>4, StartingTurns, CrossedTurns
      <3> QED
        BY <2>1, <3>2, <3>4 DEF NewTurn
    <2>7. EventsArePrinted'
      <3>1. ASSUME NEW i \in Turns
            PROVE  /\ hoTurns'[i].at = "over" /\ ~hoTurns'[i].lagged => hoTurns'[i].backlog = 0
                   /\ ~hoTurns'[i].crossed => ~hoTurns'[i].unheard
        <4>1. CASE hoTurns'[i] = Crossed[i]
          BY <1>0, <4>1, CrossedTurns DEF EventsArePrinted, At, HostInv
        <4>2. CASE hoTurns'[i] = NewTurn(hoSession.number, Starting # {})
          BY <4>2 DEF NewTurn
        <4> QED
          BY <2>4, <4>1, <4>2
      <3> QED
        BY <3>1 DEF EventsArePrinted, At
    <2> QED
      BY <2>1, <2>3, <2>5, <2>6, <2>7 DEF HostInv, Exclusive, TurnIsItsOwn, HasSession
  <1>3. CASE Swap
    <2>1. /\ Holds(Loop) /\ Release /\ hoLoop' = "reading" /\ hoTurns' = Crossed
          /\ hoSession' = NewSession(hoSession.number + 1)
      BY <1>3 DEF Swap
    <2>2. Typed'
      BY <1>0, <2>1, CrossedTurns, LockTyped DEF Typed, NewSession
    <2>3. \A i \in Turns : hoTurns'[i].at \notin HasSession
      BY <1>0, <2>1, LoopAlone, CrossedTurns
    <2>4. OnItsWay'
      BY <1>0, <2>1, CrossedTurns DEF OnItsWay
    <2>5. EventsArePrinted'
      BY <1>0, <2>1, CrossedTurns DEF EventsArePrinted, At, HostInv
    <2> QED
      BY <2>1, <2>2, <2>3, <2>4, <2>5 DEF HostInv, Exclusive, TurnIsItsOwn, HasSession
  <1>4. CASE CreateTimesOut
    <2>1. PICK place \in DOMAIN hoLock : hoLock[place] = Loop /\ hoLock' = RemoveAt(hoLock, place)
      BY <1>4 DEF CreateTimesOut
    <2>2. hoLock' \in Seq(Turns \cup {Loop}) /\ \A i \in Turns : Holds(i) => Holds(i)'
      BY <1>0, <2>1, LoopLeaves
    <2> QED
      BY <1>4, <2>2, LockSteps DEF CreateTimesOut, HostInv, Exclusive
  <1>5. CASE Inject \/ EndCommand
    <2>1. Holds(Loop) /\ Release /\ hoLoop' = "reading" /\ UNCHANGED <<hoTurns, hoSession>>
      BY <1>5 DEF Inject, EndCommand, HostInv, Exclusive
    <2>2. hoLock' \in Seq(Turns \cup {Loop})
      BY <1>0, <2>1, LockTyped
    <2> QED
      BY <2>1, <2>2, LoopAlone, LockSteps
  <1>6. CASE BeginCommand
    <2>1. hoLock = <<>> /\ Wait(Loop) /\ UNCHANGED <<hoTurns, hoSession>>
      BY <1>6 DEF BeginCommand, Free
    <2>2. hoLock' \in Seq(Turns \cup {Loop}) /\ Holds(Loop)'
      BY <1>0, <2>1, LockTyped, WaiterHolds
    <2>3. \A i \in Turns : hoTurns[i].at \notin HasSession
      BY <2>1 DEF HostInv, Exclusive, Holds
    <2> QED
      BY <2>1, <2>2, <2>3, LockSteps
  <1>7. CASE Cancel
    BY <1>0, <1>7, LockSteps DEF Cancel, HostInv, Exclusive, Holds
  <1> QED
    BY <1>1, <1>2, <1>3, <1>4, <1>5, <1>6, <1>7
    DEF BeginPrompt, BeginInject, BeginCreate, OpenSession, LoopStep

-----------------------------------------------------------------------------
\* A turn goes on, and no other one changes.
LEMMA TurnGoes ==
    ASSUME HostInv, NEW i \in Turns, NEW at \in Phases \ {"over"}, Goes(i, at), hoTurns[i].at # "over",
           UNCHANGED <<hoLoop, hoSession>>, hoLock' \in Seq(Turns \cup {Loop}),
           at \in OnTheWay => /\ hoTurns[i].at \in OnTheWay
                              /\ at \in {"wired", "queued"} => hoTurns[i].at \in {"wired", "queued"},
           at \in HasSession => /\ hoTurns[i].at \in HasSession \cup {"queued"}
                                /\ Holds(i)',
           \A j \in Turns \ {i} : hoTurns[j].at \in HasSession => Holds(j)',
           hoLoop = "command" => Holds(Loop)'
    PROVE  HostInv'
  <1>1. hoTurns' = [hoTurns EXCEPT ![i].at = at] /\ hoTurns \in [Turns -> TurnSet]
    BY DEF Goes, HostInv, Typed
  <1>2. Typed'
    BY <1>1 DEF HostInv, Typed, TurnSet
  <1>3. /\ hoTurns'[i].at = at /\ hoTurns'[i].of = hoTurns[i].of
        /\ hoTurns'[i].crossed = hoTurns[i].crossed /\ hoTurns'[i].unheard = hoTurns[i].unheard
        /\ \A j \in Turns \ {i} : hoTurns'[j] = hoTurns[j]
    BY <1>1 DEF TurnSet
  <1>4. Exclusive'
    BY <1>3 DEF HostInv, Exclusive
  <1>5. OnItsWay'
    <2> SUFFICES ASSUME NEW k \in Turns, hoTurns'[k].at \in OnTheWay, ~hoTurns'[k].crossed
                 PROVE  /\ hoTurns'[k].of = hoSession'.number
                        /\ hoTurns'[k].at \in {"wired", "queued"} => hoSession'.channel = k
                        /\ \A j \in Turns \ {k} : hoTurns'[j].at \notin OnTheWay
      BY DEF OnItsWay
    <2>1. hoTurns[k].at \in OnTheWay /\ ~hoTurns[k].crossed /\ hoTurns'[k].of = hoTurns[k].of
      BY <1>3
    <2>2. /\ hoTurns[k].of = hoSession.number
          /\ hoTurns[k].at \in {"wired", "queued"} => hoSession.channel = k
          /\ \A j \in Turns \ {k} : hoTurns[j].at \notin OnTheWay
      BY <2>1 DEF HostInv, OnItsWay
    <2>3. hoTurns'[k].at \in {"wired", "queued"} => hoTurns[k].at \in {"wired", "queued"}
      BY <1>3
    <2>4. \A j \in Turns \ {k} : hoTurns'[j].at \notin OnTheWay
      BY <1>3, <2>2
    <2> QED
      BY <2>1, <2>2, <2>3, <2>4
  <1>6. TurnIsItsOwn'
    <2> SUFFICES ASSUME NEW k \in Turns, hoTurns'[k].at \in HasSession, ~hoTurns'[k].crossed
                 PROVE  hoSession' = [number |-> hoTurns'[k].of, channel |-> k]
      BY DEF TurnIsItsOwn, HasSession
    <2>1. CASE k # i \/ hoTurns[i].at \in HasSession
      BY <1>3, <2>1 DEF HostInv, TurnIsItsOwn, HasSession
    <2>2. CASE k = i /\ hoTurns[i].at = "queued"
      <3>1. hoSession.number = hoTurns[i].of /\ hoSession.channel = i
        BY <1>3, <2>2 DEF HostInv, OnItsWay, OnTheWay
      <3> QED
        BY <1>3, <2>2, <3>1 DEF HostInv, Typed
    <2> QED
      BY <1>3, <2>1, <2>2
  <1>7. EventsArePrinted'
    BY <1>3 DEF HostInv, EventsArePrinted, At
  <1> QED
    BY <1>2, <1>4, <1>5, <1>6, <1>7 DEF HostInv

\* What an event does to the record of a turn that hears it, and of one that does not.
LEMMA OneMoreEvent ==
    ASSUME NEW turn \in TurnSet, NEW after, after = Hears(turn)
    PROVE  /\ after \in TurnSet /\ after.at = turn.at /\ after.of = turn.of
           /\ after.crossed = turn.crossed
           /\ after.unheard => turn.unheard
  <1>1. CASE turn.backlog < ChannelSize
    <2>1. after = [turn EXCEPT !.backlog = turn.backlog + 1]
      BY <1>1 DEF Hears
    <2> QED
      BY <2>1 DEF TurnSet
  <1>2. CASE ~(turn.backlog < ChannelSize)
    <2>1. after = [turn EXCEPT !.lagged = TRUE]
      BY <1>2 DEF Hears
    <2> QED
      BY <2>1 DEF TurnSet
  <1> QED
    BY <1>1, <1>2

LEMMA OneMissed ==
    ASSUME NEW turn \in TurnSet, NEW heard \in BOOLEAN, NEW after,
           after = [turn EXCEPT !.unheard = heard]
    PROVE  /\ after \in TurnSet /\ after.at = turn.at /\ after.of = turn.of
           /\ after.crossed = turn.crossed /\ after.backlog = turn.backlog
           /\ after.lagged = turn.lagged
           /\ after.unheard => heard
  BY DEF TurnSet

LEMMA TurnSteps ==
    ASSUME HostInv, NEW i \in Turns, TurnStep(i) \/ AskTimesOut(i)
    PROVE  HostInv'
  <1>0. Typed /\ hoLock \in Seq(Turns \cup {Loop}) /\ hoTurns \in [Turns -> TurnSet]
    BY DEF HostInv, Typed
  <1>a. /\ \A j \in Turns : hoTurns[j].at \in HasSession => Holds(j)
        /\ hoLoop = "command" => Holds(Loop)
    BY DEF HostInv, Exclusive
  <1>b. Wait(i) => /\ hoLock' \in Seq(Turns \cup {Loop})
                   /\ \A j \in Turns : hoTurns[j].at \in HasSession => Holds(j)'
                   /\ hoLoop = "command" => Holds(Loop)'
    BY <1>0, <1>a, LockTyped, HolderStays
  <1>c. Holds(i) => /\ \A j \in Turns \ {i} : hoTurns[j].at \notin HasSession
                    /\ hoLoop # "command"
    BY <1>a, OneHolder
  <1>d. Holds(i) /\ Release => hoLock' \in Seq(Turns \cup {Loop})
    BY <1>0, LockTyped
  <1>e. UNCHANGED hoLock => /\ hoLock' \in Seq(Turns \cup {Loop})
                            /\ \A j \in Turns \cup {Loop} : Holds(j) => Holds(j)'
    BY <1>0 DEF Holds
  <1> USE DEF OnTheWay, HasSession, Phases
  <1>1. CASE SetRunning(i)
    BY <1>1, <1>b, TurnGoes DEF SetRunning, At
  <1>2. CASE Wire(i)
    <2>1. /\ Holds(i) /\ Release /\ hoTurns[i].at = "wiring"
          /\ hoTurns' = [hoTurns EXCEPT ![i].at = "wired"]
          /\ hoSession' = [hoSession EXCEPT !.channel = i] /\ hoLoop' = hoLoop
      BY <1>2 DEF Wire, At, Goes
    <2>2. /\ hoTurns'[i].at = "wired" /\ hoTurns'[i].of = hoTurns[i].of
          /\ hoTurns'[i].crossed = hoTurns[i].crossed /\ hoTurns'[i].unheard = hoTurns[i].unheard
          /\ \A j \in Turns \ {i} : hoTurns'[j] = hoTurns[j]
          /\ hoSession'.number = hoSession.number /\ hoSession'.channel = i
      BY <1>0, <2>1 DEF Typed, TurnSet
    <2>3. Typed'
      <3>1. hoTurns' \in [Turns -> TurnSet]
        <4>1. hoTurns[i] \in TurnSet
          BY <1>0 DEF Typed
        <4>2. [hoTurns[i] EXCEPT !.at = "wired"] \in TurnSet
          BY <4>1 DEF TurnSet
        <4> QED
          BY <1>0, <2>1, <4>2 DEF Typed
      <3>2. hoSession' \in [number : Nat, channel : Nat]
        BY <1>0, <2>1 DEF Typed
      <3> QED
        BY <1>d, <2>1, <3>1, <3>2 DEF Typed
    <2>4. Exclusive'
      BY <1>c, <2>1, <2>2 DEF Exclusive
    <2>5. OnItsWay'
      BY <2>1, <2>2 DEF HostInv, OnItsWay
    <2>6. TurnIsItsOwn'
      BY <1>c, <2>1, <2>2 DEF TurnIsItsOwn
    <2>7. EventsArePrinted'
      BY <2>2 DEF HostInv, EventsArePrinted, At
    <2> QED
      BY <2>3, <2>4, <2>5, <2>6, <2>7 DEF HostInv
  <1>3. CASE Queue(i)
    <2>1. Wait(i) /\ UNCHANGED <<hoLoop, hoSession>>
      BY <1>3 DEF Queue
    <2>2. CASE At(i, "wired") /\ Goes(i, "queued")
      BY <1>b, <2>1, <2>2, TurnGoes DEF At
    <2>3. CASE At(i, "idle") /\ Goes(i, "changes")
      BY <1>b, <2>1, <2>3, TurnGoes DEF At
    <2> QED
      BY <1>3, <2>2, <2>3 DEF Queue
  <1>4. CASE Send(i)
    BY <1>4, <1>a, <1>e, TurnGoes DEF Send, At
  <1>5. CASE Emit(i)
    <2>1. hoTurns[i].at = "sending" /\ UNCHANGED <<hoLoop, hoLock, hoSession>>
      BY <1>5 DEF Emit, At
    <2>2. ASSUME NEW j \in Turns
          PROVE  /\ hoTurns'[j] \in TurnSet
                 /\ hoTurns'[j].at = hoTurns[j].at /\ hoTurns'[j].of = hoTurns[j].of
                 /\ hoTurns'[j].crossed = hoTurns[j].crossed
                 /\ hoTurns[j].at = "over" =>
                        hoTurns'[j].backlog = hoTurns[j].backlog /\ hoTurns'[j].lagged = hoTurns[j].lagged
                 /\ hoTurns'[j].unheard =>
                        hoTurns[j].unheard \/ (j = i /\ hoTurns[i].of # hoSession.number)
      <3>1. hoTurns[j] \in TurnSet
        BY <1>0
      <3>2. hoTurns'[j] =
              LET turn == IF hoTurns[j].of = hoSession.number /\ hoTurns[j].at \notin {"none", "over"}
                          THEN Hears(hoTurns[j])
                          ELSE [hoTurns[j] EXCEPT !.unheard = @ \/ j = i]
              IN  IF j = i THEN [turn EXCEPT !.events = @ + 1] ELSE turn
        BY <1>5 DEF Emit
      <3>3. PICK turn : /\ turn = IF hoTurns[j].of = hoSession.number /\ hoTurns[j].at \notin {"none", "over"}
                                   THEN Hears(hoTurns[j])
                                   ELSE [hoTurns[j] EXCEPT !.unheard = @ \/ j = i]
                        /\ hoTurns'[j] = IF j = i THEN [turn EXCEPT !.events = @ + 1] ELSE turn
        BY <3>2
      <3>4. /\ turn \in TurnSet
            /\ turn.at = hoTurns[j].at /\ turn.of = hoTurns[j].of
            /\ turn.crossed = hoTurns[j].crossed
            /\ hoTurns[j].at = "over" => turn.backlog = hoTurns[j].backlog /\ turn.lagged = hoTurns[j].lagged
            /\ turn.unheard => hoTurns[j].unheard \/ (j = i /\ hoTurns[i].of # hoSession.number)
        <4>1. CASE hoTurns[j].of = hoSession.number /\ hoTurns[j].at \notin {"none", "over"}
          <5>1. turn = Hears(hoTurns[j])
            BY <3>3, <4>1
          <5>2. /\ turn \in TurnSet /\ turn.at = hoTurns[j].at /\ turn.of = hoTurns[j].of
                /\ turn.crossed = hoTurns[j].crossed
                /\ turn.unheard => hoTurns[j].unheard
            BY <3>1, <5>1, OneMoreEvent
          <5>3. hoTurns[j].at # "over"
            BY <4>1
          <5> QED
            BY <5>2, <5>3
        <4>2. CASE ~(hoTurns[j].of = hoSession.number /\ hoTurns[j].at \notin {"none", "over"})
          <5>1. turn = [hoTurns[j] EXCEPT !.unheard = hoTurns[j].unheard \/ j = i]
            BY <3>3, <4>2
          <5>2. j = i => hoTurns[i].of # hoSession.number
            BY <2>1, <4>2
          <5>3. PICK heard \in BOOLEAN : heard = (hoTurns[j].unheard \/ j = i)
            OBVIOUS
          <5>4. turn = [hoTurns[j] EXCEPT !.unheard = heard]
            BY <5>1, <5>3
          <5>5. /\ turn \in TurnSet /\ turn.at = hoTurns[j].at /\ turn.of = hoTurns[j].of
                /\ turn.crossed = hoTurns[j].crossed /\ turn.backlog = hoTurns[j].backlog
                /\ turn.lagged = hoTurns[j].lagged
                /\ turn.unheard => heard
            BY <3>1, <5>4, OneMissed
          <5> QED
            BY <5>2, <5>3, <5>5
        <4> QED
          BY <4>1, <4>2
      <3> QED
        BY <3>3, <3>4 DEF TurnSet
    <2>3. hoTurns' \in [Turns -> TurnSet]
      <3>1. hoTurns' = [j \in Turns |-> hoTurns'[j]]
        BY <1>5 DEF Emit
      <3> QED
        BY <2>2, <3>1
    <2>4. Typed' /\ Exclusive'
      BY <1>0, <1>a, <2>1, <2>2, <2>3 DEF Typed, Exclusive, Holds
    <2>5. OnItsWay' /\ TurnIsItsOwn'
      BY <2>1, <2>2 DEF HostInv, OnItsWay, TurnIsItsOwn
    <2>6. ~hoTurns[i].crossed => hoTurns[i].of = hoSession.number
      BY <2>1 DEF HostInv, TurnIsItsOwn
    <2>7. EventsArePrinted'
      BY <2>2, <2>6 DEF HostInv, EventsArePrinted, At
    <2> QED
      BY <2>4, <2>5, <2>7 DEF HostInv
  <1>6. CASE EndTurn(i)
    <2>1. /\ Holds(i) /\ Release /\ hoTurns[i].at = "sending" /\ UNCHANGED <<hoLoop, hoSession>>
          /\ hoTurns' = [hoTurns EXCEPT ![i] = [hoTurns[i] EXCEPT !.at = "ended", !.events = 0]]
      BY <1>0, <1>6, <1>a DEF EndTurn, At
    <2> DEFINE turn == [hoTurns[i] EXCEPT !.at = "ended", !.events = 0]
    <2>2. turn \in TurnSet /\ turn.at = "ended" /\ turn.unheard = hoTurns[i].unheard /\ turn.crossed = hoTurns[i].crossed
      <3>1. hoTurns[i] \in TurnSet
        BY <1>0
      <3> QED
        BY <3>1 DEF TurnSet
    <2> HIDE DEF turn
    <2>3. /\ hoTurns' \in [Turns -> TurnSet] /\ hoTurns'[i] = turn
          /\ \A j \in Turns \ {i} : hoTurns'[j] = hoTurns[j]
      BY <1>0, <2>1, <2>2 DEF turn
    <2>4. Typed' /\ Exclusive'
      BY <1>0, <1>c, <1>d, <2>1, <2>2, <2>3 DEF Typed, Exclusive
    <2>5. OnItsWay'
      BY <2>1, <2>2, <2>3 DEF HostInv, OnItsWay
    <2>6. TurnIsItsOwn'
      BY <1>c, <2>1, <2>2, <2>3 DEF TurnIsItsOwn
    <2>7. EventsArePrinted'
      BY <2>2, <2>3 DEF HostInv, EventsArePrinted, At
    <2> QED
      BY <2>4, <2>5, <2>6, <2>7 DEF HostInv
  <1>7. CASE ClearRunning(i)
    BY <1>7, <1>a, <1>e, TurnGoes DEF ClearRunning, At
  <1>8. CASE ReportChanges(i)
    BY <1>8, <1>a, <1>c, <1>d, TurnGoes DEF ReportChanges, At
  <1>9. ASSUME NEW how \in {"permission", "question"}, Ask(i, how) PROVE HostInv'
    <2>1. /\ hoTurns[i].at = "sending" /\ UNCHANGED <<hoLoop, hoLock, hoSession>>
          /\ hoTurns' = [hoTurns EXCEPT ![i].at = how, ![i].asks = @ + 1]
      BY <1>9 DEF Ask, At
    <2>2. hoTurns' \in [Turns -> TurnSet]
      BY <1>0, <2>1 DEF TurnSet
    <2>3. /\ hoTurns'[i].at = how /\ hoTurns'[i].of = hoTurns[i].of
          /\ hoTurns'[i].crossed = hoTurns[i].crossed /\ hoTurns'[i].unheard = hoTurns[i].unheard
          /\ \A j \in Turns \ {i} : hoTurns'[j] = hoTurns[j]
      BY <1>0, <2>1 DEF TurnSet
    <2>4. Typed' /\ Exclusive'
      BY <1>0, <1>a, <2>1, <2>2, <2>3 DEF Typed, Exclusive, Holds
    <2>5. OnItsWay'
      BY <2>1, <2>3 DEF HostInv, OnItsWay
    <2>6. TurnIsItsOwn'
      BY <2>1, <2>3 DEF HostInv, TurnIsItsOwn
    <2>7. EventsArePrinted'
      BY <2>3 DEF HostInv, EventsArePrinted, At
    <2> QED
      BY <2>4, <2>5, <2>6, <2>7 DEF HostInv
  <1>10. CASE AskTimesOut(i)
    BY <1>10, <1>a, <1>e, TurnGoes DEF AskTimesOut, At
  <1> QED
    BY <1>1, <1>2, <1>3, <1>4, <1>5, <1>6, <1>7, <1>8, <1>9, <1>10 DEF TurnStep

\* The printer touches the backlog only, and is the last to end.
LEMMA PrinterSteps ==
    ASSUME HostInv, NEW i \in Turns, PrintEvent(i) \/ PrinterEnds(i)
    PROVE  HostInv'
  <1>1. hoTurns \in [Turns -> TurnSet]
    BY DEF HostInv, Typed
  <1>2. UNCHANGED <<hoLoop, hoLock, hoSession>>
    BY DEF PrintEvent, PrinterEnds
  <1>3. /\ hoTurns' \in [Turns -> TurnSet]
        /\ \A j \in Turns \ {i} : hoTurns'[j] = hoTurns[j]
        /\ hoTurns'[i].of = hoTurns[i].of /\ hoTurns'[i].crossed = hoTurns[i].crossed
        /\ hoTurns'[i].unheard = hoTurns[i].unheard
        /\ hoTurns'[i].at = hoTurns[i].at \/ hoTurns'[i].at = "over"
        /\ hoTurns'[i].at = "over" /\ ~hoTurns'[i].lagged => hoTurns'[i].backlog = 0
    <2>1. CASE PrintEvent(i)
      <3> DEFINE turn == IF hoTurns[i].lagged THEN [hoTurns[i] EXCEPT !.lagged = FALSE]
                         ELSE [hoTurns[i] EXCEPT !.backlog = hoTurns[i].backlog - 1]
      <3>1. /\ hoTurns[i].backlog > 0 /\ hoTurns[i].at # "over"
            /\ hoTurns' = [hoTurns EXCEPT ![i] = turn]
        <4>1. CASE hoTurns[i].lagged
          BY <1>1, <2>1, <4>1 DEF PrintEvent, At
        <4>2. CASE ~hoTurns[i].lagged
          BY <1>1, <2>1, <4>2 DEF PrintEvent, At
        <4> QED
          BY <4>1, <4>2
      <3>2. hoTurns[i] \in TurnSet /\ hoTurns[i].backlog - 1 \in Nat
        BY <1>1, <3>1 DEF TurnSet
      <3>3. /\ turn \in TurnSet /\ turn.of = hoTurns[i].of /\ turn.crossed = hoTurns[i].crossed
            /\ turn.unheard = hoTurns[i].unheard /\ turn.at = hoTurns[i].at
        BY <3>2 DEF TurnSet
      <3> HIDE DEF turn
      <3>4. hoTurns' \in [Turns -> TurnSet] /\ hoTurns'[i] = turn /\ \A j \in Turns \ {i} : hoTurns'[j] = hoTurns[j]
        BY <1>1, <3>1, <3>3
      <3> QED
        BY <3>1, <3>3, <3>4, Zenon
    <2>2. CASE PrinterEnds(i)
      <3>1. (hoTurns[i].lagged \/ hoTurns[i].backlog = 0) /\ hoTurns' = [hoTurns EXCEPT ![i].at = "over"]
        BY <2>2 DEF PrinterEnds, Goes
      <3>2. hoTurns[i] \in TurnSet
        BY <1>1
      <3> DEFINE turn == [hoTurns[i] EXCEPT !.at = "over"]
      <3>3. turn \in TurnSet
        BY <3>2 DEF TurnSet, Phases
      <3>4. /\ turn.of = hoTurns[i].of /\ turn.crossed = hoTurns[i].crossed /\ turn.at = "over"
            /\ turn.unheard = hoTurns[i].unheard /\ turn.backlog = hoTurns[i].backlog
            /\ turn.lagged = hoTurns[i].lagged
        BY <3>2 DEF TurnSet
      <3>5. hoTurns' = [hoTurns EXCEPT ![i] = turn]
        BY <3>1
      <3> HIDE DEF turn
      <3>6. hoTurns' \in [Turns -> TurnSet] /\ hoTurns'[i] = turn /\ \A j \in Turns \ {i} : hoTurns'[j] = hoTurns[j]
        BY <1>1, <3>3, <3>5
      <3> QED
        BY <3>1, <3>4, <3>6, Zenon
    <2> QED
      BY <2>1, <2>2
  <1>4. \A j \in Turns : /\ hoTurns'[j].at \in OnTheWay \cup HasSession => hoTurns'[j].at = hoTurns[j].at
                         /\ hoTurns'[j].of = hoTurns[j].of
                         /\ hoTurns'[j].crossed = hoTurns[j].crossed
    BY <1>3 DEF OnTheWay, HasSession
  <1>5. Typed' /\ Exclusive'
    BY <1>2, <1>3, <1>4 DEF HostInv, Typed, Exclusive, Holds
  <1>6. OnItsWay'
    BY <1>2, <1>4 DEF HostInv, OnItsWay
  <1>7. TurnIsItsOwn'
    BY <1>2, <1>4 DEF HostInv, TurnIsItsOwn, HasSession
  <1>8. EventsArePrinted'
    BY <1>3 DEF HostInv, EventsArePrinted, At
  <1> QED
    BY <1>5, <1>6, <1>7, <1>8 DEF HostInv

LEMMA Answers ==
    ASSUME HostInv, NEW i \in Turns, NEW ask \in 1..MaxAsks, Answer(i, ask)
    PROVE  HostInv'
  <1>0. /\ hoLock \in Seq(Turns \cup {Loop})
        /\ \A j \in Turns : hoTurns[j].at \in HasSession => Holds(j)
        /\ hoLoop = "command" => Holds(Loop)
    BY DEF HostInv, Typed, Exclusive
  <1>1. UNCHANGED <<hoLoop, hoLock, hoSession>>
    BY DEF Answer
  <1>2. \A x : Holds(x) => Holds(x)'
    BY <1>1 DEF Holds
  <1>3. CASE UNCHANGED hoTurns
    BY <1>0, <1>1, <1>2, <1>3, LockSteps
  <1>4. CASE hoTurns[i].at \in {"permission", "question"} /\ Goes(i, "sending")
    BY <1>0, <1>1, <1>2, <1>4, TurnGoes DEF Phases, HasSession, OnTheWay
  <1> QED
    BY <1>3, <1>4 DEF Answer

LEMMA Start == HostInit => HostInv
  <1> SUFFICES ASSUME HostInit PROVE HostInv
    OBVIOUS
  <1>1. NotYet \in TurnSet
    BY DEF NotYet, NewTurn, TurnSet, Phases
  <1>2. NotYet.at = "none" /\ NotYet.backlog = 0 /\ ~NotYet.unheard
    BY DEF NotYet, NewTurn
  <1>3. NewSession(0) \in [number : Nat, channel : Nat]
    BY DEF NewSession
  <1>4. Typed
    BY <1>1, <1>3 DEF HostInit, Typed
  <1>5. Exclusive /\ OnItsWay /\ TurnIsItsOwn /\ EventsArePrinted
    BY <1>2 DEF HostInit, Exclusive, OnItsWay, TurnIsItsOwn, EventsArePrinted, At, OnTheWay, HasSession
  <1> QED
    BY <1>4, <1>5 DEF HostInv

LEMMA Always == HostSpec => []HostInv
  <1>1. HostInv /\ UNCHANGED hostVars => HostInv'
    BY LockSteps DEF hostVars, HostInv, Typed, Exclusive, Holds
  <1>2. HostInv /\ HostNext => HostInv'
    BY LoopSteps, TurnSteps, PrinterSteps, Answers DEF HostNext
  <1> QED
    BY Start, <1>1, <1>2, PTL DEF HostSpec

\* A turn runs in the session its prompt was typed in and looks at the channel session/cancel
\* writes to, unless a prompt or a session came in between (host.rs, handle_prompt).
THEOREM TurnsAreTheirOwn == HostSpec => []TurnIsItsOwn
  <1>1. HostInv => TurnIsItsOwn
    BY DEF HostInv
  <1> QED
    BY <1>1, Always, PTL

\* The events a session still has of a turn are printed before the task of the turn is over,
\* unless its printer was told to end a whole channel behind; and the printer of a turn that
\* nobody crossed had subscribed to all of them (the printer of handle_prompt, and the
\* channel of the agent loop, which drops the oldest event of a subscriber that lags).
THEOREM AllEventsPrinted == HostSpec => []EventsArePrinted
  <1>1. HostInv => EventsArePrinted
    BY DEF HostInv
  <1> QED
    BY <1>1, Always, PTL

-----------------------------------------------------------------------------
(* The places of the lock. *)

Parties == Turns \cup {Loop}
AtLock == {"wiring", "queued", "sending", "permission", "question", "changes"}
InLine(x) == IF x = Loop THEN hoLoop # "reading" ELSE hoTurns[x].at \in AtLock

Has(l, x) == \E k \in 1..Len(l) : l[k] = x
OneEach(l) == \A j, k \in 1..Len(l) : l[j] = l[k] => j = k

\* Who is in the lock, or waits for it, has one place in it, and nobody else has.
Placed ==
    /\ hoLoop \in {"reading", "prompt", "inject", "create", "open", "command"}
    /\ OneEach(hoLock)
    /\ \A x \in Parties : Has(hoLock, x) <=> InLine(x)
    /\ hoAsked \subseteq Turns \X (1..MaxAsks)

LEMMA PlaceAtTheEnd ==
    ASSUME NEW l \in Seq(Parties), OneEach(l), NEW x \in Parties, ~Has(l, x), NEW m, m = Append(l, x)
    PROVE  OneEach(m) /\ \A y \in Parties : Has(m, y) <=> Has(l, y) \/ y = x
  <1>1. /\ m \in Seq(Parties) /\ Len(l) \in Nat /\ Len(m) = Len(l) + 1 /\ m[Len(l) + 1] = x
        /\ \A k \in 1..Len(l) : m[k] = l[k]
    OBVIOUS
  <1> HIDE DEF Parties
  <1>2. \A k \in 1..Len(m) : k \in 1..Len(l) \/ k = Len(l) + 1
    BY <1>1
  <1>3. OneEach(m)
    BY <1>1, <1>2 DEF OneEach, Has
  <1>4. ASSUME NEW y \in Parties PROVE Has(m, y) <=> Has(l, y) \/ y = x
    BY <1>1, <1>2 DEF Has
  <1> QED
    BY <1>3, <1>4

\* What is left of a sequence without its element at p.
LEMMA RemoveAtProperties ==
    ASSUME NEW S, NEW l \in Seq(S), NEW p \in 1..Len(l)
    PROVE  /\ Len(l) \in Nat /\ Len(RemoveAt(l, p)) = Len(l) - 1
           /\ \A k \in 1..Len(l) - 1 : RemoveAt(l, p)[k] = IF k < p THEN l[k] ELSE l[k + 1]
  <1>1. /\ Len(l) \in Nat /\ p \in Nat
        /\ SubSeq(l, 1, p - 1) \in Seq(S) /\ Len(SubSeq(l, 1, p - 1)) = p - 1
        /\ SubSeq(l, p + 1, Len(l)) \in Seq(S) /\ Len(SubSeq(l, p + 1, Len(l))) = Len(l) - p
    OBVIOUS
  <1>2. \A k \in 1..p - 1 : SubSeq(l, 1, p - 1)[k] = l[k]
    BY <1>1
  <1>3. \A k \in 1..Len(l) - p : SubSeq(l, p + 1, Len(l))[k] = l[k + p]
    BY <1>1
  <1> DEFINE before == SubSeq(l, 1, p - 1)
             after == SubSeq(l, p + 1, Len(l))
  <1>4. RemoveAt(l, p) = before \o after
    BY DEF RemoveAt
  <1> HIDE DEF before, after
  <1>5. /\ Len(before \o after) = Len(before) + Len(after)
        /\ \A k \in 1..Len(before) + Len(after) :
              (before \o after)[k] = IF k <= Len(before) THEN before[k] ELSE after[k - Len(before)]
    <2>1. before \in Seq(S) /\ after \in Seq(S)
      BY <1>1 DEF before, after
    <2> QED
      BY <2>1, ConcatProperties, Zenon
  <1>6. /\ Len(before) = p - 1 /\ Len(after) = Len(l) - p
        /\ \A k \in 1..p - 1 : before[k] = l[k]
        /\ \A k \in 1..Len(l) - p : after[k] = l[k + p]
    BY <1>1, <1>2, <1>3 DEF before, after
  <1>7. Len(before) + Len(after) = Len(l) - 1
    BY <1>1, <1>6
  <1>8. ASSUME NEW k \in 1..Len(l) - 1 PROVE (before \o after)[k] = IF k < p THEN l[k] ELSE l[k + 1]
    <2>0. Len(l) \in Int /\ p \in Int /\ k \in Int /\ k <= Len(l) - 1
      BY <1>1
    <2>1. (before \o after)[k] = IF k <= p - 1 THEN before[k] ELSE after[k - (p - 1)]
      BY <1>5, <1>6, <1>7
    <2>2. CASE k < p
      BY <1>1, <1>6, <2>1, <2>2
    <2>3. CASE k >= p
      <3>1. k - (p - 1) \in 1..Len(l) - p /\ (k - (p - 1)) + p = k + 1
        BY <2>0, <2>3
      <3>2. after[k - (p - 1)] = l[(k - (p - 1)) + p]
        BY <1>6, <3>1
      <3> QED
        BY <1>1, <2>1, <2>3, <3>1, <3>2
    <2>4. k < p \/ k >= p
      BY <2>0
    <2> QED
      BY <2>2, <2>3, <2>4, Zenon
  <1> QED
    BY <1>1, <1>4, <1>5, <1>7, <1>8

LEMMA PlaceGivenUp ==
    ASSUME NEW l \in Seq(Parties), OneEach(l), NEW place \in 1..Len(l), NEW m, m = RemoveAt(l, place)
    PROVE  OneEach(m) /\ \A y \in Parties : Has(m, y) <=> Has(l, y) /\ y # l[place]
  <1>4. /\ Len(m) = Len(l) - 1 /\ Len(l) \in Nat
        /\ \A k \in 1..Len(m) : m[k] = IF k < place THEN l[k] ELSE l[k + 1]
    BY RemoveAtProperties
  <1> HIDE DEF Parties
  <1>5. OneEach(m)
    <2> SUFFICES ASSUME NEW j \in 1..Len(m), NEW k \in 1..Len(m), m[j] = m[k] PROVE j = k
      BY DEF OneEach
    <2> DEFINE From(n) == IF n < place THEN n ELSE n + 1
    <2>1. \A n \in 1..Len(m) : From(n) \in 1..Len(l) /\ m[n] = l[From(n)]
      BY <1>4
    <2>2. From(j) = From(k)
      <3>1. From(j) \in 1..Len(l) /\ From(k) \in 1..Len(l) /\ l[From(j)] = l[From(k)]
        BY <2>1
      <3> HIDE DEF From
      <3> QED
        BY <3>1 DEF OneEach
    <2> QED
      BY <1>4, <2>2
  <1>6. ASSUME NEW y \in Parties PROVE Has(m, y) <=> Has(l, y) /\ y # l[place]
    <2>1. ASSUME NEW k \in 1..Len(l), l[k] = y, y # l[place] PROVE Has(m, y)
      <3>1. CASE k < place
        BY <1>4, <2>1, <3>1 DEF Has
      <3>2. CASE k > place
        <4>1. k - 1 \in 1..Len(m) /\ m[k - 1] = l[k]
          BY <1>4, <3>2
        <4> QED
          BY <2>1, <4>1 DEF Has
      <3> QED
        BY <2>1, <3>1, <3>2
    <2>2. ASSUME NEW k \in 1..Len(m), m[k] = y PROVE Has(l, y) /\ y # l[place]
      <3>1. CASE k < place
        <4>1. k \in 1..Len(l) /\ l[k] = y /\ k # place
          BY <1>4, <2>2, <3>1
        <4> QED
          BY <4>1 DEF Has, OneEach
      <3>2. CASE k >= place
        <4>1. k + 1 \in 1..Len(l) /\ l[k + 1] = y /\ k + 1 # place
          BY <1>4, <2>2, <3>2
        <4> QED
          BY <4>1 DEF Has, OneEach
      <3> QED
        BY <1>4, <3>1, <3>2
    <2> QED
      BY <2>1, <2>2 DEF Has
  <1> QED
    BY <1>5, <1>6

\* The holder's place is the first.
LEMMA FirstGivenUp ==
    ASSUME hoLock \in Seq(Parties), NEW x, Holds(x), Release
    PROVE  1 \in 1..Len(hoLock) /\ hoLock[1] = x /\ hoLock' = RemoveAt(hoLock, 1)
  <1>1. Len(hoLock) \in Nat /\ Len(hoLock) >= 1 /\ hoLock[1] = x /\ hoLock' = Tail(hoLock)
    BY DEF Holds, Release
  <1>2. RemoveAt(hoLock, 1) = SubSeq(hoLock, 1, 0) \o SubSeq(hoLock, 2, Len(hoLock))
    BY DEF RemoveAt
  <1>3. SubSeq(hoLock, 1, 0) = <<>> /\ SubSeq(hoLock, 2, Len(hoLock)) = Tail(hoLock)
    BY <1>1
  <1>4. <<>> \o Tail(hoLock) = Tail(hoLock)
    <2>1. Tail(hoLock) \in Seq(Parties)
      BY <1>1
    <2> QED
      BY <2>1, ConcatEmptySeq, Zenon
  <1>5. RemoveAt(hoLock, 1) = hoLock'
    BY <1>1, <1>2, <1>3, <1>4, Zenon
  <1> QED
    BY <1>1, <1>5

\* Somebody joins the line or leaves it, or nobody does.
LEMMA PlacesKept ==
    ASSUME Placed, UNCHANGED hoLock, \A x \in Parties : InLine(x)' <=> InLine(x), hoLoop' = hoLoop,
           hoAsked' \subseteq Turns \X (1..MaxAsks)
    PROVE  Placed'
  <1>1. \A x : Has(hoLock', x) <=> Has(hoLock, x)
    OBVIOUS
  <1> QED
    BY <1>1 DEF Placed, OneEach, Has

LEMMA PlaceJoined ==
    ASSUME Placed, hoLock \in Seq(Parties), NEW x \in Parties, ~InLine(x), Wait(x), InLine(x)',
           \A y \in Parties \ {x} : InLine(y)' <=> InLine(y), UNCHANGED hoAsked,
           hoLoop' \in {"reading", "prompt", "inject", "create", "open", "command"}
    PROVE  Placed'
  <1>1. OneEach(hoLock) /\ ~Has(hoLock, x) /\ hoLock' = Append(hoLock, x)
    BY DEF Placed, Wait
  <1>2. OneEach(hoLock') /\ \A y \in Parties : Has(hoLock', y) <=> Has(hoLock, y) \/ y = x
    BY <1>1, PlaceAtTheEnd
  <1> QED
    BY <1>2 DEF Placed

LEMMA PlaceLeft ==
    ASSUME Placed, hoLock \in Seq(Parties), NEW x \in Parties, NEW place \in 1..Len(hoLock),
           hoLock[place] = x, hoLock' = RemoveAt(hoLock, place), ~InLine(x)',
           \A y \in Parties \ {x} : InLine(y)' <=> InLine(y), UNCHANGED hoAsked,
           hoLoop' \in {"reading", "prompt", "inject", "create", "open", "command"}
    PROVE  Placed'
  <1>1. OneEach(hoLock)
    BY DEF Placed
  <1>2. OneEach(hoLock') /\ \A y \in Parties : Has(hoLock', y) <=> Has(hoLock, y) /\ y # x
    BY <1>1, PlaceGivenUp
  <1> QED
    BY <1>2 DEF Placed

\* The prompts are numbered as they are accepted.
Numbered == \E n \in 0..MaxPrompts : \A i \in Turns : hoTurns[i].at = "none" <=> i > n

LEMMA NumberedOn ==
    ASSUME Numbered, \A i \in Turns : hoTurns'[i].at = "none" <=> hoTurns[i].at = "none"
    PROVE  Numbered'
  BY DEF Numbered

LEMMA NextIsNew ==
    ASSUME NEW n \in 0..MaxPrompts, \A i \in Turns : hoTurns[i].at = "none" <=> i > n
    PROVE  Next1 = n + 1
  <1>1. {i \in Turns : ~At(i, "none")} = 1..n
    BY DEF At
  <1>2. Cardinality(1..n) = n
    BY FS_Interval
  <1> QED
    BY <1>1, <1>2 DEF Next1

LEMMA PromptIsNumbered ==
    ASSUME Typed, Numbered, Prompt
    PROVE  /\ Numbered'
           /\ \A i \in Turns : \/ hoTurns'[i].at = hoTurns[i].at
                               \/ hoTurns'[i].at = "spawned" /\ hoTurns[i].at = "none"
  <1>1. PICK n \in 0..MaxPrompts : \A i \in Turns : hoTurns[i].at = "none" <=> i > n
    BY DEF Numbered
  <1>2. Next1 = n + 1
    BY <1>1, NextIsNew
  <1>3. hoTurns' = [Crossed EXCEPT ![n + 1] = NewTurn(hoSession.number, Starting # {})]
    BY <1>2 DEF Prompt
  <1>4. ASSUME NEW i \in Turns PROVE hoTurns'[i].at = IF i = n + 1 THEN "spawned" ELSE hoTurns[i].at
    BY <1>3, CrossedTurns DEF NewTurn
  <1>5. CASE n = MaxPrompts
    <2>1. \A i \in Turns : i # n + 1
      BY <1>5
    <2> QED
      BY <1>4, <2>1, NumberedOn
  <1>6. CASE n < MaxPrompts
    <2>1. n + 1 \in 0..MaxPrompts /\ \A i \in Turns : hoTurns'[i].at = "none" <=> i > n + 1
      BY <1>1, <1>4, <1>6
    <2>2. Numbered'
      BY <2>1 DEF Numbered
    <2> QED
      BY <1>1, <1>4, <2>2
  <1> QED
    BY <1>5, <1>6

LEMMA LoopKeepsPlaces ==
    ASSUME HostInv, Placed, Numbered,
           \/ BeginPrompt \/ BeginInject \/ BeginCreate \/ OpenSession \/ LoopStep \/ BeginCommand
           \/ Cancel
    PROVE  Placed' /\ Numbered'
  <1>1. hoLock \in Seq(Parties) /\ Typed /\ Loop \in Parties /\ UNCHANGED hoAsked
    BY DEF HostInv, Typed, Parties, BeginPrompt, BeginInject, BeginCreate, OpenSession, Begin, LoopStep,
           Prompt, Swap, CreateTimesOut, Inject, EndCommand, BeginCommand, Cancel
  <1>2. /\ \A i \in Turns : hoTurns'[i].at \in AtLock <=> hoTurns[i].at \in AtLock
        /\ Numbered'
    <2>1. CASE UNCHANGED hoTurns
      BY <2>1, NumberedOn
    <2>2. CASE hoTurns' = Crossed
      BY <1>1, <2>2, CrossedTurns, NumberedOn
    <2>3. CASE Prompt
      BY <1>1, <2>3, PromptIsNumbered DEF AtLock
    <2> QED
      BY <2>1, <2>2, <2>3 DEF BeginPrompt, BeginInject, BeginCreate, OpenSession, Begin, LoopStep,
         Swap, CreateTimesOut, Inject, EndCommand, BeginCommand, Cancel
  <1>3. \A y \in Parties \ {Loop} : InLine(y)' <=> InLine(y)
    BY <1>2 DEF Parties, InLine
  <1>4. ASSUME hoLoop = "reading", hoLoop' \in {"prompt", "inject", "create", "open", "command"}, Wait(Loop)
        PROVE  Placed'
    <2>1. ~InLine(Loop) /\ InLine(Loop)'
      BY <1>4 DEF InLine
    <2> QED
      BY <1>1, <1>3, <1>4, <2>1, PlaceJoined
  <1>5. ASSUME NEW place \in 1..Len(hoLock), hoLock[place] = Loop, hoLock' = RemoveAt(hoLock, place),
               hoLoop' = "reading"
        PROVE  Placed'
    <2>1. ~InLine(Loop)'
      BY <1>5 DEF InLine
    <2> QED
      BY <1>1, <1>3, <1>5, <2>1, PlaceLeft
  <1>6. ASSUME Holds(Loop), Release, hoLoop' = "reading" PROVE Placed'
    <2>1. 1 \in 1..Len(hoLock) /\ hoLock[1] = Loop /\ hoLock' = RemoveAt(hoLock, 1)
      BY <1>1, <1>6, FirstGivenUp
    <2> QED
      BY <1>5, <1>6, <2>1
  <1>7. CASE BeginPrompt \/ BeginInject \/ BeginCreate \/ OpenSession \/ BeginCommand
    <2>1. hoLoop = "reading" /\ Wait(Loop) /\ hoLoop' \in {"prompt", "inject", "create", "open", "command"}
      BY <1>7 DEF BeginPrompt, BeginInject, BeginCreate, OpenSession, Begin, BeginCommand
    <2> QED
      BY <1>2, <1>4, <2>1
  <1>8. CASE Prompt \/ Swap \/ Inject \/ EndCommand
    <2>1. Holds(Loop) /\ Release /\ hoLoop' = "reading"
      BY <1>8 DEF Prompt, Swap, Inject, EndCommand, HostInv, Exclusive
    <2> QED
      BY <1>2, <1>6, <2>1
  <1>9. CASE CreateTimesOut
    <2>1. /\ hoLoop' = "reading" /\ DOMAIN hoLock = 1..Len(hoLock)
          /\ \E place \in DOMAIN hoLock : hoLock[place] = Loop /\ hoLock' = RemoveAt(hoLock, place)
      BY <1>1, <1>9 DEF CreateTimesOut
    <2> QED
      BY <1>2, <1>5, <2>1
  <1>10. CASE Cancel
    <2>1. UNCHANGED <<hoLoop, hoLock>>
      BY <1>10 DEF Cancel
    <2>2. \A x \in Parties : InLine(x)' <=> InLine(x)
      BY <1>3, <2>1 DEF InLine
    <2> QED
      BY <1>1, <1>2, <2>1, <2>2, PlacesKept DEF Placed
  <1> QED
    BY <1>7, <1>8, <1>9, <1>10 DEF LoopStep

\* The task of a prompt goes on, in the line or out of it.
LEMMA TaskKeepsPlaces ==
    ASSUME HostInv, Placed, Numbered, NEW i \in Turns,
           \/ TurnStep(i) \/ AskTimesOut(i) \/ PrintEvent(i) \/ PrinterEnds(i)
           \/ \E ask \in 1..MaxAsks : Answer(i, ask)
    PROVE  Placed' /\ Numbered'
  <1>1. hoLock \in Seq(Parties) /\ hoTurns \in [Turns -> TurnSet] /\ i \in Parties /\ i # Loop
    BY DEF HostInv, Typed, Parties
  <1>2. hoLoop' = hoLoop
    BY DEF TurnStep, SetRunning, Wire, Queue, Send, Emit, EndTurn, ClearRunning, ReportChanges, Ask,
           AskTimesOut, PrintEvent, PrinterEnds, Answer
  <1>3. ASSUME NEW at, \A j \in Turns : hoTurns'[j].at = IF j = i THEN at ELSE hoTurns[j].at,
               at # "none", hoTurns[i].at # "none"
        PROVE  /\ Numbered'
               /\ \A y \in Parties \ {i} : InLine(y)' <=> InLine(y)
               /\ InLine(i) <=> hoTurns[i].at \in AtLock
               /\ InLine(i)' <=> at \in AtLock
    <2>1. Numbered'
      BY <1>3, NumberedOn
    <2> QED
      BY <1>1, <1>2, <1>3, <2>1 DEF InLine, Parties
  <1>4. ASSUME NEW at, Goes(i, at) PROVE \A j \in Turns : hoTurns'[j].at = IF j = i THEN at ELSE hoTurns[j].at
    BY <1>1, <1>4 DEF Goes, TurnSet
  <1>5. CASE SetRunning(i) \/ Queue(i)
    <2>1. Wait(i) /\ UNCHANGED hoAsked
      BY <1>5 DEF SetRunning, Queue
    <2>2. PICK at \in {"wiring", "queued", "changes"} : Goes(i, at) /\ hoTurns[i].at \in {"spawned", "wired", "idle"}
      BY <1>5 DEF SetRunning, Queue, At
    <2>3. /\ Numbered' /\ ~InLine(i) /\ InLine(i)'
          /\ \A y \in Parties \ {i} : InLine(y)' <=> InLine(y)
      BY <1>3, <1>4, <2>2 DEF AtLock
    <2> QED
      BY <1>1, <1>2, <2>1, <2>3, PlaceJoined DEF Placed
  <1>6. CASE Wire(i) \/ EndTurn(i) \/ ReportChanges(i)
    <2>1. Holds(i) /\ Release /\ UNCHANGED hoAsked
      BY <1>6 DEF Wire, EndTurn, ReportChanges, HostInv, Exclusive, At, HasSession
    <2>2. PICK at \in {"wired", "ended", "done"} :
              /\ \A j \in Turns : hoTurns'[j].at = IF j = i THEN at ELSE hoTurns[j].at
              /\ hoTurns[i].at \in {"wiring", "sending", "changes"}
      <3>1. CASE Wire(i)
        BY <1>4, <3>1 DEF Wire, At
      <3>2. CASE EndTurn(i)
        <4>1. /\ hoTurns[i].at = "sending"
              /\ hoTurns' = [hoTurns EXCEPT ![i] = [hoTurns[i] EXCEPT !.at = "ended", !.events = 0]]
          BY <1>1, <3>2 DEF EndTurn, At
        <4> QED
          BY <1>1, <4>1 DEF TurnSet
      <3>3. CASE ReportChanges(i)
        BY <1>4, <3>3 DEF ReportChanges, At
      <3> QED
        BY <1>6, <3>1, <3>2, <3>3
    <2>3. /\ Numbered' /\ ~InLine(i)'
          /\ \A y \in Parties \ {i} : InLine(y)' <=> InLine(y)
      BY <1>3, <1>4, <2>2 DEF AtLock
    <2>4. 1 \in 1..Len(hoLock) /\ hoLock[1] = i /\ hoLock' = RemoveAt(hoLock, 1)
      BY <1>1, <2>1, FirstGivenUp
    <2> QED
      BY <1>1, <1>2, <2>1, <2>3, <2>4, PlaceLeft DEF Placed
  <1>7. ASSUME NEW at \in Phases, \A j \in Turns : hoTurns'[j].at = IF j = i THEN at ELSE hoTurns[j].at,
               at # "none", hoTurns[i].at # "none", at \in AtLock <=> hoTurns[i].at \in AtLock,
               UNCHANGED hoLock, hoAsked' \subseteq Turns \X (1..MaxAsks)
        PROVE  Placed' /\ Numbered'
    <2>1. Numbered' /\ \A y \in Parties : InLine(y)' <=> InLine(y)
      BY <1>3, <1>7
    <2> QED
      BY <1>2, <1>7, <2>1, PlacesKept
  <1>8. hoAsked \subseteq Turns \X (1..MaxAsks)
    BY DEF Placed
  <1>9. ASSUME NEW at \in Phases \ {"none"}, Goes(i, at), hoTurns[i].at # "none",
               at \in AtLock <=> hoTurns[i].at \in AtLock,
               UNCHANGED hoLock, hoAsked' \subseteq Turns \X (1..MaxAsks)
        PROVE  Placed' /\ Numbered'
    BY <1>4, <1>7, <1>9
  <1>10. CASE Send(i) \/ ClearRunning(i) \/ AskTimesOut(i) \/ PrinterEnds(i)
    BY <1>8, <1>9, <1>10 DEF Send, ClearRunning, AskTimesOut, PrinterEnds, At, AtLock, Phases, OnTheWay, HasSession
  <1>11. ASSUME NEW how \in {"permission", "question"}, Ask(i, how) PROVE Placed' /\ Numbered'
    <2>1. /\ hoTurns[i].at = "sending" /\ UNCHANGED hoLock /\ hoTurns[i].asks < MaxAsks
          /\ hoTurns' = [hoTurns EXCEPT ![i].at = how, ![i].asks = @ + 1]
          /\ hoAsked' = hoAsked \cup {<<i, hoTurns[i].asks + 1>>}
      BY <1>11 DEF Ask, At
    <2>2. hoTurns[i].asks + 1 \in 1..MaxAsks
      BY <1>1, <2>1 DEF TurnSet
    <2>3. hoAsked' \subseteq Turns \X (1..MaxAsks)
      BY <1>8, <2>1, <2>2
    <2>4. \A j \in Turns : hoTurns'[j].at = IF j = i THEN how ELSE hoTurns[j].at
      BY <1>1, <2>1 DEF TurnSet
    <2> QED
      BY <1>7, <2>1, <2>3, <2>4 DEF AtLock, Phases, HasSession
  <1>12. ASSUME \A j \in Turns : hoTurns'[j].at = hoTurns[j].at, UNCHANGED hoLock,
                hoAsked' \subseteq hoAsked
         PROVE  Placed' /\ Numbered'
    <2>1. Numbered' /\ \A y \in Parties : InLine(y)' <=> InLine(y)
      BY <1>2, <1>12, NumberedOn DEF InLine, Parties
    <2> QED
      BY <1>2, <1>8, <1>12, <2>1, PlacesKept
  <1>13. CASE Emit(i)
    <2>1. ASSUME NEW j \in Turns PROVE hoTurns'[j].at = hoTurns[j].at
      <3>1. hoTurns'[j] =
              LET turn == IF hoTurns[j].of = hoSession.number /\ hoTurns[j].at \notin {"none", "over"}
                          THEN Hears(hoTurns[j])
                          ELSE [hoTurns[j] EXCEPT !.unheard = @ \/ j = i]
              IN  IF j = i THEN [turn EXCEPT !.events = @ + 1] ELSE turn
        BY <1>13 DEF Emit
      <3>2. hoTurns[j] \in TurnSet /\ Hears(hoTurns[j]) \in TurnSet /\ Hears(hoTurns[j]).at = hoTurns[j].at
        BY <1>1, OneMoreEvent
      <3> QED
        BY <3>1, <3>2 DEF TurnSet
    <2> QED
      BY <1>12, <1>13, <2>1 DEF Emit
  <1>14. CASE PrintEvent(i)
    <2>1. \A j \in Turns : hoTurns'[j].at = hoTurns[j].at
      BY <1>1, <1>14 DEF PrintEvent, TurnSet
    <2> QED
      BY <1>12, <1>14, <2>1 DEF PrintEvent
  <1>15. ASSUME NEW ask \in 1..MaxAsks, Answer(i, ask) PROVE Placed' /\ Numbered'
    <2>1. UNCHANGED hoLock /\ hoAsked' \subseteq hoAsked
      BY <1>15 DEF Answer
    <2>2. CASE UNCHANGED hoTurns
      BY <1>12, <2>1, <2>2
    <2>3. CASE hoTurns[i].at \in {"permission", "question"} /\ Goes(i, "sending")
      BY <1>8, <1>9, <2>1, <2>3 DEF AtLock, Phases, HasSession
    <2> QED
      BY <1>15, <2>2, <2>3 DEF Answer
  <1> QED
    BY <1>5, <1>6, <1>10, <1>11, <1>13, <1>14, <1>15 DEF TurnStep

\* The lock of the session has one place for everyone who is in it or waits for it, the read
\* loop and the tasks of the prompts, and whoever uses the session has the first of them.
THEOREM LockHasAPlaceForEach == HostSpec => []HostTypeOK
  <1> DEFINE Inv == HostInv /\ Placed /\ Numbered
  <1>1. HostInit => Inv
    <2> SUFFICES ASSUME HostInit PROVE Placed /\ Numbered
      BY Start
    <2>1. \A i \in Turns : hoTurns[i].at = "none"
      BY DEF HostInit, NotYet, NewTurn
    <2>2. Numbered
      BY <2>1 DEF Numbered
    <2>3. 1..Len(hoLock) = {}
      BY DEF HostInit
    <2>4. \A x \in Parties : ~InLine(x)
      BY <2>1 DEF InLine, AtLock, Parties, HostInit
    <2> QED
      BY <2>2, <2>3, <2>4 DEF Placed, OneEach, Has, HostInit
  <1>2. Inv /\ [HostNext]_hostVars => Inv'
    <2> SUFFICES ASSUME HostInv, Placed, Numbered, [HostNext]_hostVars
                 PROVE  HostInv' /\ Placed' /\ Numbered'
      OBVIOUS
    <2>1. CASE UNCHANGED hostVars
      <3>1. UNCHANGED <<hoLoop, hoLock, hoTurns, hoSession, hoAsked>>
        BY <2>1 DEF hostVars
      <3>2. \A x \in Parties : InLine(x)' <=> InLine(x)
        BY <3>1 DEF InLine
      <3>3. Placed' /\ Numbered'
        BY <3>1, <3>2, PlacesKept, NumberedOn DEF Placed
      <3>4. HostInv'
        BY <3>1, LockSteps DEF HostInv, Typed, Exclusive, Holds
      <3> QED
        BY <3>3, <3>4
    <2>2. CASE HostNext
      <3>1. HostInv'
        BY <2>2, LoopSteps, TurnSteps, PrinterSteps, Answers DEF HostNext
      <3>2. Placed' /\ Numbered'
        BY <2>2, LoopKeepsPlaces, TaskKeepsPlaces DEF HostNext
      <3> QED
        BY <3>1, <3>2
    <2> QED
      BY <2>1, <2>2
  <1>3. Inv => HostTypeOK
    <2> SUFFICES ASSUME HostInv, Placed PROVE HostTypeOK
      OBVIOUS
    <2>1. hoLock \in Seq(Turns \cup {Loop}) /\ DOMAIN hoLock = 1..Len(hoLock)
      BY DEF HostInv, Typed
    <2>2. IsInjective(hoLock)
      BY <2>1 DEF Placed, OneEach, IsInjective
    <2>3. \A x \in Parties : x \in Range(hoLock) <=> InLine(x)
      BY <2>1 DEF Placed, Has, Range
    <2>4. hoLoop # "reading" <=> Loop \in Range(hoLock)
      BY <2>3 DEF InLine, Parties
    <2>5. \A i \in Turns : i \in Range(hoLock) <=> hoTurns[i].at \in AtLock
      BY <2>3 DEF InLine, Parties
    <2> QED
      BY <2>1, <2>2, <2>4, <2>5 DEF HostTypeOK, HostInv, Exclusive, HasSession, AtLock, Placed
  <1> HIDE DEF Inv
  <1> QED
    BY <1>1, <1>2, <1>3, PTL DEF HostSpec

=============================================================================
