----------------------------- MODULE Tui_proofs -----------------------------
(***************************************************************************)
(* Theorems about Tui, for any number of turns: no request of a turn that  *)
(* can still be answered is lost, and every turn that runs can be          *)
(* cancelled.                                                              *)
(*                                                                         *)
(* The second needs that the user is not quicker than the tail of a task   *)
(* (~SlowTail).  What makes it true is that an end event still in the      *)
(* channel is never one of an older turn when a new one is submitted: the  *)
(* text of the next turn is typed after the older ones came to rest, and   *)
(* between the first key and Enter the loop drains the channel (Rested).   *)
(*                                                                         *)
(* Under the same condition the dialog is on the screen exactly as long as *)
(* a request is (DialogInv): one request waits at a time, its turn is the  *)
(* only one that is not at rest, and no end event can come in between and  *)
(* set the state back.                                                     *)
(***************************************************************************)
EXTENDS Tui, SequenceTheorems, TLAPS

Phases == {"none", "locking", "working", "asking", "failed", "panicked", "ended"}
AtRest == {"none", "panicked", "ended"}

Typed ==
    /\ current \in 0 .. MaxTurns /\ shown \in 0 .. MaxTurns /\ submitted \in 0 .. MaxTurns
    /\ task \in [Turns -> Phases]
    /\ requests \in Seq(Turns)

USE TurnsAssumption, TailAssumption DEF Turns

LEMMA TypedStep ==
    ASSUME Typed, [Next]_vars
    PROVE  Typed'
  <1> USE DEF Typed
  <1>1. CASE ProcessAgentEvents
    BY <1>1 DEF ProcessAgentEvents, tasks
  <1>2. CASE ProcessPermissionRequests
    <2>1. CASE requests = <<>>
      BY <1>2, <2>1 DEF ProcessPermissionRequests, tasks
    <2>2. CASE requests # <<>>
      <3>1. Head(requests) \in Turns /\ Tail(requests) \in Seq(Turns)
        BY <2>2
      <3>2. requests' = Tail(requests) /\ shown' = Head(requests)
        BY <1>2, <2>2 DEF ProcessPermissionRequests
      <3> QED
        BY <1>2, <3>1, <3>2 DEF ProcessPermissionRequests, tasks
    <2> QED
      BY <2>1, <2>2
  <1>3. CASE HandleSlashCommand \/ Pass
    BY <1>3 DEF HandleSlashCommand, Pass, screen, channels, tasks
  <1>4. CASE HandlePermissionResponse
    BY <1>4 DEF HandlePermissionResponse, tasks
  <1>5. CASE Type \/ SubmitCommand
    BY <1>5 DEF Type, SubmitCommand, channels, tasks
  <1>6. CASE Submit
    BY <1>6 DEF Submit, channels, Phases
  <1>7. CASE Cancel
    BY <1>7 DEF Cancel, channels
  <1>8. CASE Quit
    BY <1>8 DEF Quit, channels, Phases
  <1>9. ASSUME NEW t \in Turns, Step(t) PROVE Typed'
    <2>1. CASE Lock(t)
      BY <2>1 DEF Lock, Become, screen, Phases
    <2>2. CASE Ask(t)
      BY <2>2 DEF Ask, Become, screen, Phases
    <2>3. CASE TakeAnswer(t)
      BY <2>3 DEF TakeAnswer, Become, screen, Phases
    <2>4. CASE Succeed(t) \/ FailEnd(t)
      BY <2>4 DEF Succeed, FailEnd, Become, screen, Phases
    <2>5. CASE Fail(t)
      BY <2>5 DEF Fail, Become, screen, Phases
    <2>6. CASE Panic(t) \/ Abort(t)
      BY <2>6 DEF Panic, Abort, Become, screen, channels, Phases
    <2> QED
      BY <1>9, <2>1, <2>2, <2>3, <2>4, <2>5, <2>6 DEF Step, Advance
  <1>10. CASE UNCHANGED vars
    BY <1>10 DEF vars, screen, channels, tasks
  <1> QED
    BY <1>1, <1>2, <1>3, <1>4, <1>5, <1>6, <1>7, <1>8, <1>9, <1>10 DEF Next, Loop, User

LEMMA TypedStart == Init => Typed
  BY DEF Init, Typed, Phases

-----------------------------------------------------------------------------
\* A request stays where its turn will find the answer: in the channel, on the screen, or answered.
Awaited(t) == t \in answered \/ shown = t \/ InChannel(t)

\* A step that takes no request away, no answer, and starts no wait.
LEMMA WaitsStay ==
    ASSUME LiveRequestsSurvive, aborted \subseteq aborted', answered \subseteq answered',
           UNCHANGED <<requests, shown>>,
           \A t \in Turns : task'[t] = "asking" => task[t] = "asking"
    PROVE  LiveRequestsSurvive'
  BY DEF LiveRequestsSurvive, Alive, InChannel

LEMMA RequestsStep ==
    ASSUME Typed, LiveRequestsSurvive, [Next]_vars
    PROVE  LiveRequestsSurvive'
  <1>1. CASE ProcessPermissionRequests
    <2>1. CASE requests = <<>>
      BY <1>1, <2>1, WaitsStay DEF ProcessPermissionRequests, tasks
    <2>2. CASE requests # <<>>
      <3> SUFFICES ASSUME NEW t \in Turns, Alive(t)', task'[t] = "asking" PROVE Awaited(t)'
        BY DEF LiveRequestsSurvive, Awaited
      <3>1. Awaited(t)
        BY <1>1, <2>2 DEF ProcessPermissionRequests, tasks, LiveRequestsSurvive, Alive, Awaited
      <3>2. /\ requests' = Tail(requests) /\ shown' = Head(requests)
            /\ answered' = answered \cup ({shown} \ {0})
        BY <1>1, <2>2 DEF ProcessPermissionRequests
      <3>3. CASE t \in answered \/ shown = t
        BY <3>2, <3>3 DEF Awaited
      <3>4. CASE InChannel(t)
        <4>1. PICK i \in 1 .. Len(requests) : requests[i] = t
          BY <3>4 DEF InChannel
        <4>2. requests \in Seq(Turns)
          BY DEF Typed
        <4>3. CASE i = 1
          BY <2>2, <3>2, <4>1, <4>2, <4>3 DEF Awaited
        <4>4. CASE i # 1
          <5>1. i - 1 \in 1 .. Len(requests') /\ requests'[i - 1] = t
            BY <2>2, <3>2, <4>1, <4>2, <4>4
          <5> QED
            BY <5>1 DEF Awaited, InChannel
        <4> QED
          BY <4>3, <4>4
      <3> QED
        BY <3>1, <3>3, <3>4 DEF Awaited
    <2> QED
      BY <2>1, <2>2
  <1>2. CASE ProcessAgentEvents \/ HandleSlashCommand \/ Pass \/ Type \/ SubmitCommand
    BY <1>2, WaitsStay DEF ProcessAgentEvents, HandleSlashCommand, Pass, Type, SubmitCommand,
                           screen, channels, tasks
  <1>3. CASE HandlePermissionResponse
    <2> SUFFICES ASSUME NEW t \in Turns, Alive(t)', task'[t] = "asking" PROVE Awaited(t)'
      BY DEF LiveRequestsSurvive, Awaited
    <2> QED
      BY <1>3 DEF HandlePermissionResponse, tasks, LiveRequestsSurvive, Alive, Awaited, InChannel
  <1>4. CASE Submit
    <2>1. \A t \in Turns : task'[t] = "asking" => task[t] = "asking"
      BY <1>4 DEF Submit, Typed
    <2> QED
      BY <1>4, <2>1, WaitsStay DEF Submit, channels
  <1>5. CASE Cancel
    BY <1>5, WaitsStay DEF Cancel, channels
  <1>6. CASE Quit
    BY <1>6, WaitsStay DEF Quit, channels
  <1>7. ASSUME NEW t \in Turns, Step(t) PROVE LiveRequestsSurvive'
    <2>1. CASE Ask(t)
      <3> SUFFICES ASSUME NEW u \in Turns, Alive(u)', task'[u] = "asking" PROVE Awaited(u)'
        BY DEF LiveRequestsSurvive, Awaited
      <3>1. /\ requests' = Append(requests, t) /\ answered' = answered \ {t}
            /\ requests \in Seq(Turns) /\ shown' = shown /\ aborted' = aborted
            /\ task' = [task EXCEPT ![t] = "asking"] /\ task \in [Turns -> Phases]
        BY <2>1 DEF Ask, Become, screen, Typed
      <3>2. CASE u = t
        <4>1. Len(requests') \in 1 .. Len(requests') /\ requests'[Len(requests')] = t
          BY <3>1
        <4> QED
          BY <3>2, <4>1 DEF Awaited, InChannel
      <3>3. CASE u # t
        <4>1. Awaited(u)
          BY <3>1, <3>3 DEF LiveRequestsSurvive, Alive, Awaited
        <4>2. InChannel(u) => InChannel(u)'
          BY <3>1 DEF InChannel
        <4> QED
          BY <3>1, <3>3, <4>1, <4>2 DEF Awaited
      <3> QED
        BY <3>2, <3>3
    <2>2. CASE TakeAnswer(t)
      <3> SUFFICES ASSUME NEW u \in Turns, Alive(u)', task'[u] = "asking" PROVE Awaited(u)'
        BY DEF LiveRequestsSurvive, Awaited
      <3>1. u # t /\ task[u] = "asking"
        BY <2>2 DEF TakeAnswer, Become, Typed
      <3> QED
        BY <2>2, <3>1 DEF TakeAnswer, screen, LiveRequestsSurvive, Alive, Awaited, InChannel
    <2>3. CASE Advance(t) \/ Abort(t)
      <3>1. \A u \in Turns : task'[u] = "asking" => task[u] = "asking"
        BY <2>3 DEF Advance, Lock, Succeed, Fail, FailEnd, Panic, Abort, Become, Typed
      <3>2. UNCHANGED <<requests, shown, answered, aborted>>
        BY <2>3 DEF Advance, Lock, Succeed, Fail, FailEnd, Panic, Abort, screen, channels
      <3> QED
        BY <3>1, <3>2, WaitsStay
    <2> QED
      BY <1>7, <2>1, <2>2, <2>3 DEF Step
  <1>8. CASE UNCHANGED vars
    BY <1>8, WaitsStay DEF vars, screen, channels, tasks
  <1> QED
    BY <1>1, <1>2, <1>3, <1>4, <1>5, <1>6, <1>7, <1>8 DEF Next, Loop, User

\* No request of a turn that runs is lost, though stale requests of cancelled turns pass
\* through the same channel and the same field of the screen (app.rs, process_permission_requests).
THEOREM RequestsSurvive == Spec => []LiveRequestsSurvive
  <1>1. Init => Typed /\ LiveRequestsSurvive
    BY TypedStart DEF Init, LiveRequestsSurvive
  <1>2. Typed /\ LiveRequestsSurvive /\ [Next]_vars => Typed' /\ LiveRequestsSurvive'
    BY TypedStep, RequestsStep
  <1> QED
    BY <1>1, <1>2, PTL DEF Spec

-----------------------------------------------------------------------------
\* Where the tasks are when the user types, and while a turn runs.
Rested ==
    /\ typed => /\ \A t \in Turns : task[t] \in AtRest
                /\ at = "drain" \/ events = <<>>
    /\ \A t \in Turns : Alive(t) =>
          /\ events = <<>>
          /\ \A u \in Turns \ {t} : task[u] \in AtRest

\* Fields that are set and taken together.
Runs == running <=> current # 0

CancelInv == Typed /\ Runs /\ CancelReachesTurn /\ Rested

\* A step of the loop that changes no task.
LEMMA LoopKeeps ==
    ASSUME CancelInv, UNCHANGED <<task, aborted>>, typed' => typed,
           \/ events' = events /\ current' = current /\ (typed => at # "drain" \/ at' = "drain")
           \/ events' = <<>> /\ (current' = current \/ events # <<>>)
    PROVE  CancelReachesTurn' /\ Rested'
  BY DEF CancelInv, CancelReachesTurn, Rested, Alive

LEMMA RunsStep ==
    ASSUME Typed, Runs, [Next]_vars
    PROVE  Runs'
  <1>1. CASE Submit
    <2>1. running' /\ current' = submitted + 1 /\ submitted \in Nat
      BY <1>1 DEF Submit, Typed
    <2> QED
      BY <2>1 DEF Runs
  <1>2. CASE ~Submit
    BY <1>2 DEF Runs, Next, Loop, User, Step, Advance, ProcessAgentEvents, ProcessPermissionRequests,
         HandleSlashCommand, Pass, HandlePermissionResponse, Type, SubmitCommand, Cancel, Quit,
         Lock, Ask, TakeAnswer, Succeed, Fail, FailEnd, Panic, Abort, screen, vars
  <1> QED
    BY <1>1, <1>2

LEMMA CancelStep ==
    ASSUME ~SlowTail, CancelInv, [Next]_vars
    PROVE  CancelReachesTurn' /\ Rested'
  <1>1. CASE Loop \/ HandlePermissionResponse \/ SubmitCommand
    BY <1>1, LoopKeeps DEF Loop, ProcessAgentEvents, ProcessPermissionRequests, HandleSlashCommand,
          Pass, HandlePermissionResponse, SubmitCommand, Key, Event, screen, channels, tasks
  <1>2. CASE Type
    <2>0. current = 0
      BY <1>2 DEF Type, Key, CancelInv, Runs
    <2>1. \A t \in Turns : ~Alive(t)
      BY <2>0 DEF CancelInv, CancelReachesTurn
    <2>2. \A t \in Turns : task[t] \in AtRest
      BY <1>2, <2>1 DEF Type, Key, Event, Settled, CancelInv, Typed, Alive, Phases, AtRest
    <2>3. UNCHANGED <<task, aborted, events>> /\ at' = "drain"
      BY <1>2 DEF Type, Key, Event, channels, tasks
    <2> QED
      BY <2>1, <2>2, <2>3 DEF CancelReachesTurn, Rested, Alive
  <1>3. CASE Submit
    <2>1. events' = <<>> /\ ~typed' /\ current' = submitted + 1 /\ aborted' = aborted
      BY <1>3 DEF Submit, Key, Event, CancelInv, Rested, channels
    <2>2. \A t \in Turns : task[t] \in AtRest
      BY <1>3 DEF Submit, CancelInv, Rested
    <2>3. task' = [task EXCEPT ![submitted + 1] = "locking"]
      BY <1>3 DEF Submit
    <2>4. \A t \in Turns : t # current' => task'[t] \in AtRest
      BY <2>1, <2>2, <2>3 DEF CancelInv, Typed
    <2> QED
      BY <2>1, <2>4 DEF CancelReachesTurn, Rested, Alive, AtRest
  <1>4. CASE Cancel
    <2>1. \A t \in Turns : ~Alive(t)'
      BY <1>4 DEF Cancel, CancelInv, CancelReachesTurn, Alive
    <2>2. UNCHANGED <<task, typed, events>> /\ at' = "drain"
      BY <1>4 DEF Cancel, Event, channels
    <2> QED
      BY <2>1, <2>2 DEF CancelInv, CancelReachesTurn, Rested
  <1>5. CASE Quit
    BY <1>5 DEF Quit, channels, CancelInv, CancelReachesTurn, Rested, Alive, AtRest
  <1>6. ASSUME NEW t \in Turns, Step(t) PROVE CancelReachesTurn' /\ Rested'
    <2>1. /\ task[t] \notin AtRest
          /\ \A u \in Turns \ {t} : task'[u] = task[u]
          /\ UNCHANGED <<at, current, typed, aborted>>
      BY <1>6 DEF Step, Advance, Lock, Ask, TakeAnswer, Succeed, Fail, FailEnd, Panic, Abort,
                  Become, screen, AtRest, CancelInv, Typed
    <2>2. ~typed
      BY <2>1 DEF CancelInv, Rested
    <2>3. CASE Ask(t) \/ TakeAnswer(t) \/ (Lock(t) /\ model)
      <3>1. events' = events /\ (Alive(t)' => Alive(t))
        BY <2>3 DEF Ask, TakeAnswer, Lock, Become, Alive
      <3> QED
        BY <2>1, <2>2, <3>1 DEF CancelInv, CancelReachesTurn, Rested, Alive
    <2>4. CASE Succeed(t) \/ Fail(t) \/ FailEnd(t) \/ Panic(t) \/ Abort(t) \/ (Lock(t) /\ ~model)
      <3>1. ~Alive(t)'
        BY <2>4 DEF Succeed, Fail, FailEnd, Panic, Abort, Lock, Become, Alive, CancelInv, Typed
      <3>2. ASSUME NEW u \in Turns, Alive(u)' PROVE FALSE
        <4>1. u # t /\ Alive(u)
          BY <2>1, <3>1, <3>2 DEF Alive
        <4> QED
          BY <2>1, <4>1 DEF CancelInv, Rested
      <3> QED
        BY <2>1, <2>2, <3>2 DEF CancelReachesTurn, Rested
    <2> QED
      BY <1>6, <2>3, <2>4 DEF Step, Advance
  <1>7. CASE UNCHANGED vars
    BY <1>7 DEF vars, screen, channels, tasks, CancelInv, CancelReachesTurn, Rested, Alive
  <1> QED
    BY <1>1, <1>2, <1>3, <1>4, <1>5, <1>6, <1>7 DEF Next, User

\* current_task, "Handle to the currently running agent task (for Ctrl+C cancellation)", is
\* that of every turn that runs, if no key comes between the last await of a task and its end.
THEOREM CancelReaches ==
    ASSUME ~SlowTail
    PROVE  Spec => []CancelReachesTurn
  <1>1. Init => CancelInv
    BY TypedStart DEF Init, CancelInv, Runs, CancelReachesTurn, Rested, Alive, AtRest
  <1>2. CancelInv /\ [Next]_vars => CancelInv'
    BY TypedStep, RunsStep, CancelStep DEF CancelInv
  <1>3. CancelInv => CancelReachesTurn
    BY DEF CancelInv
  <1> QED
    BY <1>1, <1>2, <1>3, PTL DEF Spec

-----------------------------------------------------------------------------
\* A request is in the channel or on the screen, and there is one at a time.
Pending(t) == shown = t \/ InChannel(t)
OneRequest == Len(requests) <= 1 /\ (shown # 0 => requests = <<>>)

\* A turn that was not told that it is over is the only one, and no end event is on its way.
BusyAlone ==
    \A t \in Turns : task[t] \in {"locking", "working", "asking"} =>
        events = <<>> /\ \A u \in Turns \ {t} : task[u] \in AtRest

\* The turn of a request waits for the answer, or was cancelled while it did; nothing else goes
\* on.  The text of the next turn is not typed before the loop has shown the request.
Requested ==
    /\ \A t \in Turns : Pending(t) =>
          /\ events = <<>> /\ task[t] \in {"asking", "ended"}
          /\ task[t] = "asking" => t \notin answered
          /\ \A u \in Turns \ {t} : task[u] \in AtRest
    /\ typed /\ requests # <<>> => at \in {"drain", "prompt", "quit"}

Fields ==
    /\ at \in {"drain", "prompt", "command", "event", "quit"}
    /\ state \in {"Running", "Processing", "Confirming", "Quitting"}
    /\ {running, typed, command, model} \subseteq BOOLEAN /\ holder \in 0 .. MaxTurns
    /\ aborted \subseteq Turns /\ answered \subseteq Turns
    /\ state = "Confirming" <=> shown # 0

DialogInv == CancelInv /\ BusyAlone /\ OneRequest /\ Requested /\ Fields

\* Somebody asks, or nobody does.
LEMMA Asker ==
    ASSUME Typed, OneRequest
    PROVE  /\ requests # <<>> => Head(requests) \in Turns /\ InChannel(Head(requests)) /\ Tail(requests) = <<>>
           /\ \A t \in Turns : requests = <<>> => ~InChannel(t)
           /\ shown # 0 => shown \in Turns
  <1>0. Len(requests) \in Nat /\ Len(requests) <= 1
    BY DEF Typed, OneRequest
  <1>1. requests \in Seq(Turns) /\ Len(requests) \in Nat /\ Len(requests) <= 1
    BY <1>0 DEF Typed
  <1>2. ASSUME requests # <<>>
        PROVE  Head(requests) \in Turns /\ InChannel(Head(requests)) /\ Tail(requests) = <<>>
    <2>0. Len(requests) = 1
      <3>1. Len(requests) # 0
        BY <1>1, <1>2, EmptySeq, Zenon
      <3>2. \A n \in Nat : n <= 1 /\ n # 0 => n = 1
        OBVIOUS
      <3> QED
        BY <1>0, <3>1, <3>2, Zenon
    <2>1. Len(requests) = 1 /\ Head(requests) = requests[1] /\ requests[1] \in Turns
      BY <1>1, <2>0
    <2>2. Tail(requests) \in Seq(Turns) /\ Len(Tail(requests)) = 0
      BY <1>1, <1>2, <2>1
    <2>3. InChannel(Head(requests))
      BY <2>1 DEF InChannel
    <2>4. Tail(requests) = <<>>
      BY <2>2, EmptySeq
    <2> QED
      BY <2>1, <2>3, <2>4, Zenon
  <1>3. \A t \in Turns : requests = <<>> => ~InChannel(t)
    BY DEF InChannel
  <1> QED
    BY <1>2, <1>3 DEF Typed

\* Nobody asks: nothing is shown and nothing is in the channel.
LEMMA NobodyAsks ==
    ASSUME DialogInv, \A t \in Turns : ~Pending(t)
    PROVE  shown = 0 /\ requests = <<>>
  BY Asker DEF DialogInv, CancelInv, Pending

\* The loop, as far as it leaves the tasks and the requests alone.
LEMMA DialogStays ==
    ASSUME DialogInv, UNCHANGED <<requests, shown, task, answered>>, events' = events \/ events' = <<>>,
           typed' => typed \/ requests = <<>> \/ at' \in {"drain", "prompt", "quit"},
           at = "prompt" => at' = "prompt" \/ requests = <<>>,
           at = "drain" => at' = "drain" \/ at' = "prompt",
           at = "quit" => at' = "quit"
    PROVE  BusyAlone' /\ OneRequest' /\ Requested'
  <1>1. \A t : Pending(t)' <=> Pending(t)
    BY DEF Pending, InChannel
  <1> QED
    BY <1>1 DEF DialogInv, BusyAlone, OneRequest, Requested

LEMMA LoopKeepsDialog ==
    ASSUME DialogInv, Loop
    PROVE  BusyAlone' /\ OneRequest' /\ Requested' /\ Fields'
  <1>1. CASE ProcessAgentEvents
    <2>0. /\ UNCHANGED <<requests, shown, task, answered, typed>> /\ at = "drain" /\ at' = "prompt"
          /\ events' = <<>>
      BY <1>1 DEF ProcessAgentEvents, tasks
    <2>1. BusyAlone' /\ OneRequest' /\ Requested'
      BY <2>0, DialogStays
    <2>2. CASE events = <<>>
      BY <1>1, <2>1, <2>2 DEF ProcessAgentEvents, tasks, DialogInv, Fields
    <2>3. CASE events # <<>>
      <3>1. shown = 0
        BY <2>3, NobodyAsks DEF DialogInv, Requested
      <3> QED
        BY <1>1, <2>1, <2>3, <3>1 DEF ProcessAgentEvents, tasks, DialogInv, Fields
    <2> QED
      BY <2>1, <2>2, <2>3
  <1>2. CASE ProcessPermissionRequests /\ requests = <<>>
    <2>1. UNCHANGED <<state, shown, running, typed, command, holder, aborted, answered, model, requests, task, events>>
          /\ at' = "command" /\ at = "prompt"
      BY <1>2 DEF ProcessPermissionRequests, tasks
    <2>2. BusyAlone' /\ OneRequest' /\ Requested'
      BY <1>2, <2>1, DialogStays
    <2> QED
      BY <2>1, <2>2 DEF DialogInv, Fields
  <1>3. CASE ProcessPermissionRequests /\ requests # <<>>
    <2>1. /\ requests' = Tail(requests) /\ shown' = Head(requests) /\ state' = "Confirming"
          /\ answered' = answered \cup ({shown} \ {0}) /\ at' = "command"
          /\ UNCHANGED <<running, typed, command, events, task, holder, aborted, model>>
      BY <1>3 DEF ProcessPermissionRequests, tasks
    <2>2. /\ Head(requests) \in Turns /\ InChannel(Head(requests)) /\ requests' = <<>> /\ shown = 0
      BY <1>3, <2>1, Asker DEF DialogInv, CancelInv, OneRequest
    <2>3. answered' = answered
      BY <2>1, <2>2
    <2>4. \A t \in Turns : Pending(t)' => Pending(t)
      BY <2>1, <2>2 DEF Pending, InChannel
    <2>5. BusyAlone' /\ OneRequest' /\ Requested'
      BY <2>1, <2>2, <2>3, <2>4 DEF DialogInv, BusyAlone, OneRequest, Requested
    <2> QED
      BY <2>1, <2>2, <2>3, <2>5 DEF DialogInv, Fields
  <1>4. CASE HandleSlashCommand \/ Pass
    <2>1. /\ UNCHANGED <<state, shown, running, typed, holder, aborted, answered, model, requests, task, events>>
          /\ at \in {"command", "event"} /\ at' \in {"event", "drain"} /\ command' \in {command, FALSE}
      BY <1>4 DEF HandleSlashCommand, Pass, screen, channels, tasks
    <2>2. BusyAlone' /\ OneRequest' /\ Requested'
      BY <2>1, DialogStays
    <2> QED
      BY <2>1, <2>2 DEF DialogInv, Fields
  <1> QED
    BY <1>1, <1>2, <1>3, <1>4 DEF Loop

\* Between the requests: nobody is shown, and if text is typed nothing is in the channel.
LEMMA UserKeepsDialog ==
    ASSUME ~SlowTail, DialogInv, User
    PROVE  BusyAlone' /\ OneRequest' /\ Requested' /\ Fields'
  <1>1. CASE HandlePermissionResponse
    <2>1. /\ shown # 0 /\ shown' = 0 /\ state' = "Processing" /\ answered' = answered \cup {shown}
          /\ requests' = <<>> /\ requests = <<>>
          /\ UNCHANGED <<running, typed, command, events, task, holder, aborted, model>> /\ at' = "drain"
      BY <1>1 DEF HandlePermissionResponse, tasks, DialogInv, Fields, OneRequest
    <2>2. \A t \in Turns : ~Pending(t)'
      BY <2>1 DEF Pending, InChannel
    <2>3. shown \in Turns
      BY <2>1, Asker DEF DialogInv, CancelInv
    <2>4. BusyAlone' /\ OneRequest' /\ Requested'
      BY <2>1, <2>2 DEF DialogInv, BusyAlone, OneRequest, Requested
    <2> QED
      BY <2>1, <2>3, <2>4 DEF DialogInv, Fields
  <1>2. CASE Type \/ SubmitCommand \/ Cancel
    <2>1. /\ UNCHANGED <<requests, shown, task, answered, events, holder, model>>
          /\ at = "event" /\ at' = "drain" /\ shown = 0
          /\ state' \in {state, "Running"} /\ state # "Confirming"
          /\ typed' \in BOOLEAN /\ running' \in BOOLEAN /\ command' \in BOOLEAN
      BY <1>2 DEF Type, SubmitCommand, Cancel, Key, Event, channels, tasks, DialogInv, Fields
    <2>2. BusyAlone' /\ OneRequest' /\ Requested'
      BY <2>1, DialogStays
    <2>3. aborted' \subseteq Turns
      <3>1. aborted \subseteq Turns /\ current \in 0 .. MaxTurns
        BY DEF DialogInv, Fields, CancelInv, Typed
      <3>2. aborted' = aborted \/ (current # 0 /\ aborted' = aborted \cup {current})
        BY <1>2 DEF Type, SubmitCommand, Cancel, tasks
      <3>3. current # 0 => current \in Turns
        BY <3>1
      <3> QED
        <4>1. CASE aborted' = aborted
          BY <3>1, <4>1
        <4>2. CASE current \in Turns /\ aborted' = aborted \cup {current}
          BY <3>1, <4>2
        <4> QED
          BY <3>2, <3>3, <4>1, <4>2
    <2> QED
      BY <2>1, <2>2, <2>3 DEF DialogInv, Fields
  <1>3. CASE Submit
    <2>1. /\ typed /\ at = "event" /\ state # "Confirming" /\ submitted < MaxTurns
          /\ UNCHANGED <<shown, command, events, requests, answered, aborted, holder, model>>
          /\ task' = [task EXCEPT ![submitted + 1] = "locking"]
          /\ typed' = FALSE /\ running' = TRUE /\ state' = "Processing" /\ at' = "drain"
      BY <1>3 DEF Submit, Key, Event, channels
    <2>2. /\ shown = 0 /\ requests = <<>> /\ events = <<>> /\ \A t \in Turns : task[t] \in AtRest
          /\ task \in [Turns -> Phases]
      BY <2>1 DEF DialogInv, Fields, Requested, CancelInv, Rested, Typed
    <2>3. \A t \in Turns : t # submitted + 1 => task'[t] = task[t]
      BY <2>1, <2>2
    <2>4. BusyAlone'
      BY <2>1, <2>2, <2>3 DEF BusyAlone, AtRest
    <2>5. \A t \in Turns : ~Pending(t)'
      BY <2>1, <2>2 DEF Pending, InChannel
    <2>6. OneRequest' /\ Requested'
      BY <2>1, <2>2, <2>5 DEF OneRequest, Requested
    <2> QED
      BY <2>1, <2>2, <2>4, <2>6 DEF DialogInv, Fields
  <1>4. CASE Quit
    <2>1. /\ at' = "quit" /\ state' = "Quitting" /\ shown = 0 /\ holder' = 0
          /\ task' = [t \in Turns |-> "ended"]
          /\ UNCHANGED <<running, shown, typed, command, events, requests, answered, aborted, model>>
      BY <1>4 DEF Quit, channels, DialogInv, Fields
    <2>2. \A t \in Turns : task'[t] = "ended"
      BY <2>1
    <2>3. \A t \in Turns : Pending(t)' => Pending(t)
      BY <2>1 DEF Pending, InChannel
    <2>4. BusyAlone' /\ OneRequest' /\ Requested'
      BY <2>1, <2>2, <2>3 DEF DialogInv, BusyAlone, OneRequest, Requested, AtRest
    <2> QED
      BY <2>1, <2>4 DEF DialogInv, Fields
  <1> QED
    BY <1>1, <1>2, <1>3, <1>4 DEF User

LEMMA TaskKeepsDialog ==
    ASSUME DialogInv, NEW t \in Turns, Step(t)
    PROVE  BusyAlone' /\ OneRequest' /\ Requested' /\ Fields'
  <1>1. /\ task[t] \in {"locking", "working", "asking", "failed"} /\ task \in [Turns -> Phases]
        /\ \A u \in Turns \ {t} : task'[u] = task[u]
        /\ UNCHANGED <<at, state, running, shown, typed, command, aborted, model>>
    BY DEF Step, Advance, Lock, Ask, TakeAnswer, Succeed, Fail, FailEnd, Panic, Abort, Become, screen,
           DialogInv, CancelInv, Typed
  <1>2. holder' \in 0 .. MaxTurns
    BY DEF Step, Advance, Lock, Ask, TakeAnswer, Succeed, Fail, FailEnd, Panic, Abort, DialogInv, Fields
  <1>3. \A u \in Turns \ {t} : ~Pending(u)
    BY <1>1 DEF DialogInv, Requested, AtRest
  <1>4. CASE Ask(t)
    <2>1. /\ task[t] = "working" /\ task'[t] = "asking" /\ events' = events
          /\ requests' = Append(requests, t) /\ answered' = answered \ {t}
      BY <1>1, <1>4 DEF Ask, Become
    <2>2. \A u \in Turns : ~Pending(u)
      BY <1>3, <2>1 DEF DialogInv, Requested
    <2>3. shown = 0 /\ requests = <<>>
      BY <2>2, NobodyAsks
    <2>4. requests' = << t >>
      BY <2>1, <2>3
    <2>5. ~typed /\ events = <<>> /\ \A u \in Turns \ {t} : task[u] \in AtRest
      BY <2>1 DEF DialogInv, CancelInv, Rested, BusyAlone, AtRest
    <2>6. \A u \in Turns : Pending(u)' => u = t
      BY <1>1, <2>3, <2>4 DEF Pending, InChannel
    <2>7. BusyAlone'
      BY <1>1, <2>1, <2>5 DEF DialogInv, BusyAlone, AtRest
    <2>8. OneRequest'
      BY <1>1, <2>3, <2>4 DEF OneRequest
    <2>9. Requested'
      BY <1>1, <2>1, <2>5, <2>6 DEF Requested
    <2> QED
      BY <1>1, <1>2, <2>1, <2>7, <2>8, <2>9 DEF DialogInv, Fields
  <1>5. CASE ~Ask(t)
    <2>1. requests' = requests /\ answered' \subseteq answered
      BY <1>5 DEF Step, Advance, Lock, TakeAnswer, Succeed, Fail, FailEnd, Panic, Abort, channels
    <2>2. \A u \in Turns : Pending(u)' <=> Pending(u)
      BY <1>1, <2>1 DEF Pending, InChannel
    <2>3. CASE Abort(t)
      <3>1. task'[t] = "ended" /\ events' = events /\ answered' = answered
        BY <1>1, <2>3 DEF Abort, channels
      <3> QED
        BY <1>1, <1>2, <2>1, <2>2, <3>1 DEF DialogInv, BusyAlone, OneRequest, Requested, Fields, AtRest
    <2>4. CASE Advance(t) \/ TakeAnswer(t)
      <3>1. ~Pending(t)
        BY <2>4 DEF Advance, Lock, TakeAnswer, Succeed, Fail, FailEnd, Panic, Become, DialogInv, Requested
      <3>2. \A u \in Turns : ~Pending(u)'
        BY <1>3, <2>2, <3>1
      <3>3. OneRequest' /\ Requested'
        <4>1. shown = 0 /\ requests = <<>>
          BY <1>3, <3>1, NobodyAsks
        <4> QED
          BY <1>1, <2>1, <3>2, <4>1 DEF OneRequest, Requested
      <3>4. BusyAlone'
        <4>1. ASSUME NEW u \in Turns \ {t} PROVE task'[u] \notin {"locking", "working", "asking"}
          BY <1>1, <4>1 DEF DialogInv, BusyAlone, AtRest
        <4>2. task'[t] \in {"locking", "working", "asking"} =>
                 task[t] \in {"locking", "working", "asking"} /\ events' = events
          BY <1>1, <2>4 DEF Advance, Lock, TakeAnswer, Succeed, Fail, FailEnd, Panic, Become
        <4> QED
          BY <1>1, <4>1, <4>2 DEF DialogInv, BusyAlone
      <3> QED
        BY <1>1, <1>2, <2>1, <3>3, <3>4 DEF DialogInv, Fields
    <2> QED
      BY <1>5, <2>3, <2>4 DEF Step
  <1> QED
    BY <1>4, <1>5

LEMMA DialogStep ==
    ASSUME ~SlowTail, DialogInv, [Next]_vars
    PROVE  DialogInv'
  <1>1. CancelInv'
    BY TypedStep, RunsStep, CancelStep DEF DialogInv, CancelInv
  <1>2. CASE UNCHANGED vars
    <2>1. UNCHANGED <<at, state, running, current, shown, typed, command, events, requests, task, aborted,
                      holder, answered, model>>
      BY <1>2 DEF vars, screen, channels, tasks
    <2>2. BusyAlone' /\ OneRequest' /\ Requested'
      BY <2>1, DialogStays
    <2> QED
      BY <1>1, <2>1, <2>2 DEF DialogInv, Fields
  <1> QED
    BY <1>1, <1>2, LoopKeepsDialog, UserKeepsDialog, TaskKeepsDialog DEF DialogInv, Next

LEMMA DialogStart == Init => DialogInv
  <1> SUFFICES ASSUME Init PROVE DialogInv
    OBVIOUS
  <1>1. CancelInv
    BY TypedStart DEF Init, CancelInv, Runs, CancelReachesTurn, Rested, Alive, AtRest
  <1>2. \A t \in Turns : ~Pending(t)
    BY DEF Init, Pending, InChannel
  <1>3. BusyAlone /\ OneRequest /\ Requested /\ Fields
    <2>1. \A t \in Turns : task[t] = "none"
      BY DEF Init
    <2>2. BusyAlone /\ Requested
      BY <1>2, <2>1 DEF Init, BusyAlone, Requested
    <2>3. OneRequest
      BY DEF Init, OneRequest
    <2>4. {running, typed, command, model} \subseteq BOOLEAN
      BY Zenon DEF Init
    <2>5. Fields
      <3>1. /\ at = "drain" /\ state = "Running" /\ shown = 0 /\ holder = 0
            /\ aborted = {} /\ answered = {}
        BY DEF Init
      <3> QED
        BY <2>4, <3>1 DEF Fields
    <2> QED
      BY <2>2, <2>3, <2>5
  <1> QED
    BY <1>1, <1>3 DEF DialogInv

\* The dialog is on the screen exactly as long as a request is (App.state and
\* pending_permission), the input is taken exactly when no task is held, and all is of its type,
\* if no key comes between the last await of a task and its end.
THEOREM DialogShowsTheRequest ==
    ASSUME ~SlowTail
    PROVE  Spec => []TypeOK
  <1>1. DialogInv /\ [Next]_vars => DialogInv'
    BY DialogStep
  <1>2. DialogInv => TypeOK
    BY DEF DialogInv, CancelInv, Typed, Runs, Fields, TypeOK, Phases
  <1> QED
    BY DialogStart, <1>1, <1>2, PTL DEF Spec

\* Under the same condition one request waits at a time, so that no request takes the place of
\* another on the screen, which would drop the answer a turn waits for.
THEOREM OneRequestAtATime ==
    ASSUME ~SlowTail
    PROVE  Spec => []OneRequest
  <1>1. DialogInv /\ [Next]_vars => DialogInv'
    BY DialogStep
  <1>2. DialogInv => OneRequest
    BY DEF DialogInv
  <1> QED
    BY DialogStart, <1>1, <1>2, PTL DEF Spec

=============================================================================
