----------------------------- MODULE Tools_proofs -----------------------------
(***************************************************************************)
(* Theorems about Tools: what may run, what a shell leaves behind, what    *)
(* is in a file and what an edit makes of it, what the log knows of the    *)
(* todo list.  Each of the four parts has an inductive invariant of its    *)
(* own; a step of one leaves the variables of the others alone.            *)
(***************************************************************************)
EXTENDS Tools, Lemmas, FiniteSetTheorems, SequenceTheorems

(***************************************************************************)
(* The way of a call to its tool, for any tools, rules, paths and policies. *)
(***************************************************************************)
(* Approvals and rules come from what the user granted, and a question is  *)
(* only asked of what the configuration allows.                            *)
GrantsInv ==
    /\ tcApproved \subseteq tcGranted
    /\ \A rule \in tcRules : rule.tool \in tcGranted
    /\ CallAt("confirm") => tcPolicy.checker /\ ~Forbidden(tcCall)

(* The verdict "allow": not forbidden, and for an asking tool that needs    *)
(* anything, a grant of this tool.                                         *)
LEMMA AllowedByRight ==
    ASSUME NEW call, GrantsInv, tcPolicy.checker, Verdict(call) = "allow"
    PROVE  /\ ~Forbidden(call)
           /\ PermissionOf[call.tool] = "ask" /\ Required(call) # {} => call.tool \in tcGranted
  <1>1. ~Forbidden(call)
    BY DEF Verdict
  <1>2. ASSUME PermissionOf[call.tool] = "ask", Required(call) # {}
        PROVE  call.tool \in tcGranted
    <2>1. call.tool \in tcApproved \/ \A need \in Required(call) : Covers(call, need)
      BY <1>1, <1>2 DEF Verdict
    <2>2. CASE call.tool \in tcApproved
      BY <2>2 DEF GrantsInv
    <2>3. CASE \A need \in Required(call) : Covers(call, need)
      <3>1. PICK need \in Required(call) : Covers(call, need)
        BY <1>2, <2>3
      <3>. QED
        BY <3>1 DEF Covers, GrantsInv
    <2>. QED
      BY <2>1, <2>2, <2>3
  <1>. QED
    BY <1>1, <1>2

(* The types. *)
Calls ==
    [at : {"idle", "hooks", "check", "confirm", "running"}, tool : ToolSet,
     path : ArgPaths \cup {NoPath}, command : Dangerous \cup {Harmless}, confirmed : BOOLEAN]
CallTyped == CallTypeOK /\ tcCall \in Calls

LEMMA NoCallTyped == NoCall \in Calls /\ NoCall.at = "idle"
  BY ToolAssumption DEF NoCall, Calls

LEMMA CallTypeStep ==
    ASSUME CallTyped, [CallNext]_tcVars
    PROVE  CallTyped'
  <1>. USE NoCallTyped DEF CallTyped, CallTypeOK, Policy, CallAt, Records
  <1>1. CASE MalformedCall
    BY <1>1 DEF MalformedCall, Calls
  <1>2. CASE RunPre
    BY <1>2 DEF RunPre, Calls
  <1>3. CASE CheckPermission
    <2>1. CASE Verdict(tcCall) = "deny"
      BY <1>3, <2>1 DEF CheckPermission, Calls
    <2>2. CASE Verdict(tcCall) = "allow"
      BY <1>3, <2>2 DEF CheckPermission, Calls
    <2>3. CASE Verdict(tcCall) = "confirm"
      BY <1>3, <2>3 DEF CheckPermission, Calls
    <2>. QED
      BY <2>1, <2>2, <2>3 DEF Verdict
  <1>4. CASE AnswersItself
    BY <1>4 DEF AnswersItself, Confirmed, Calls
  <1>5. ASSUME NEW tools, ToolReturns(tools) PROVE CallTyped'
    BY <1>5 DEF ToolReturns, Calls
  <1>6. CASE DropTurn
    BY <1>6 DEF DropTurn, NoResult, Calls
  <1>7. ASSUME NEW t \in ToolSet, NEW path \in ArgPaths \cup {NoPath},
               NEW command \in Dangerous \cup {Harmless}, BeginCall(t, path, command)
        PROVE  CallTyped'
    BY <1>7 DEF BeginCall, NoResult, Calls
  <1>8. ASSUME NEW response \in {"yes", "no"}, NEW type \in {"once", "session", "always"},
               UserAnswers(response, type)
        PROVE  CallTyped'
    <2>1. tcCall' \in Calls /\ tcResult' \in {"none", "value", "hook", "error"}
      <3>1. CASE response = "yes"
        <4>1. tcCall' = [tcCall EXCEPT !.at = "running", !.confirmed = TRUE] /\ tcResult' = tcResult
          BY <1>8, <3>1 DEF UserAnswers, Confirmed
        <4> QED
          BY <4>1 DEF Calls
      <3>2. CASE response # "yes"
        BY <1>8, <3>2 DEF UserAnswers, Calls
      <3> QED
        BY <3>1, <3>2
    <2>2. tcApproved' \subseteq ToolSet /\ tcGranted' \subseteq ToolSet
      BY <1>8 DEF UserAnswers, Grant, Calls
    <2>3. tcCall'.at \in {"idle", "hooks", "check", "confirm", "running"}
      BY <2>1 DEF Calls
    <2>. QED
      BY <2>1, <2>2, <2>3, <1>8 DEF UserAnswers
  <1>9. CASE UNCHANGED tcVars
    BY <1>9 DEF tcVars
  <1>. QED
    BY <1>1, <1>2, <1>3, <1>4, <1>5, <1>6, <1>7, <1>8, <1>9 DEF CallNext, CallStep

LEMMA CallInitTyped == CallInit => CallTyped
  BY NoCallTyped, PoliciesAssumption DEF CallInit, CallTyped, CallTypeOK, NoResult

(* A step that leaves configuration and grants alone.                      *)
LEMMA QuietStep ==
    ASSUME GrantsInv, RunsByRight, UNCHANGED <<tcPolicy, tcApproved, tcRules, tcGranted>>,
           tcCall'.at \notin {"confirm", "running"}
    PROVE  GrantsInv' /\ RunsByRight'
  BY DEF GrantsInv, RunsByRight, CallAt

(* A call that goes on: what it is about and what it may do is the same.   *)
LEMMA GoesOn ==
    ASSUME CallTyped, NEW at \in {"idle", "hooks", "check", "confirm", "running"}, NEW yes \in BOOLEAN,
           tcCall' = [tcCall EXCEPT !.at = at, !.confirmed = yes], tcPolicy' = tcPolicy
    PROVE  /\ tcCall'.at = at /\ tcCall'.confirmed = yes /\ tcCall'.tool = tcCall.tool
           /\ Forbidden(tcCall)' <=> Forbidden(tcCall)
           /\ Required(tcCall)' = Required(tcCall)
  <1>1. /\ tcCall'.at = at /\ tcCall'.confirmed = yes /\ tcCall'.tool = tcCall.tool
        /\ tcCall'.path = tcCall.path /\ tcCall'.command = tcCall.command
    BY DEF CallTyped, Calls
  <1>2. Forbidden(tcCall)' <=> Forbidden(tcCall)
    BY <1>1 DEF Forbidden, PathDenied, PatternDenied
  <1>3. Required(tcCall)' = Required(tcCall)
    BY <1>1 DEF Required
  <1>. QED
    BY <1>1, <1>2, <1>3

LEMMA RightsStep ==
    ASSUME CallTyped, GrantsInv, RunsByRight, [CallNext]_tcVars
    PROVE  GrantsInv' /\ RunsByRight'
  <1>0. NoCall.at = "idle" /\ tcCall \in Calls
    BY NoCallTyped DEF CallTyped
  <1>1. CASE MalformedCall
    BY <1>0, <1>1, QuietStep DEF MalformedCall, Records
  <1>2. CASE RunPre
    <2>1. tcCall'.at \in {"idle", "check"}
      <3>1. tcCall' = NoCall \/ tcCall' = [tcCall EXCEPT !.at = "check"]
        BY <1>2 DEF RunPre, Records
      <3>. QED
        BY <3>1, <1>0 DEF Calls
    <2>. QED
      BY <2>1, <1>2, QuietStep DEF RunPre
  <1>3. CASE CheckPermission
    <2>0. UNCHANGED <<tcPolicy, tcApproved, tcRules, tcGranted>>
      BY <1>3 DEF CheckPermission
    <2>. DEFINE Becomes(at) == tcCall' = [tcCall EXCEPT !.at = at, !.confirmed = tcCall.confirmed]
    <2>1. CASE Verdict(tcCall) = "deny"
      <3>1. tcCall' = NoCall
        BY <1>3, <2>1 DEF CheckPermission, Records
      <3>. QED
        BY <3>1, <2>0, <1>0, QuietStep
    <2>2. CASE Verdict(tcCall) = "allow"
      <3>1. tcCall' = [tcCall EXCEPT !.at = "running"]
        BY <1>3, <2>2 DEF CheckPermission
      <3>2. Becomes("running") /\ tcCall.confirmed \in BOOLEAN
        BY <3>1, <1>0 DEF Calls
      <3>3. /\ tcCall'.at = "running" /\ tcCall'.tool = tcCall.tool
            /\ Forbidden(tcCall)' <=> Forbidden(tcCall)
            /\ Required(tcCall)' = Required(tcCall)
        BY <3>2, <2>0, GoesOn
      <3>4. tcPolicy.checker =>
                /\ ~Forbidden(tcCall)
                /\ PermissionOf[tcCall.tool] = "ask" /\ Required(tcCall) # {} => tcCall.tool \in tcGranted
        BY <2>2, AllowedByRight
      <3>. QED
        BY <3>3, <3>4, <2>0 DEF GrantsInv, RunsByRight, CallAt
    <2>3. CASE Verdict(tcCall) = "confirm"
      <3>1. tcCall' = [tcCall EXCEPT !.at = "confirm"]
        BY <1>3, <2>3 DEF CheckPermission
      <3>2. Becomes("confirm") /\ tcCall.confirmed \in BOOLEAN
        BY <3>1, <1>0 DEF Calls
      <3>3. /\ tcCall'.at = "confirm"
            /\ Forbidden(tcCall)' <=> Forbidden(tcCall)
        BY <3>2, <2>0, GoesOn
      <3>4. tcPolicy.checker /\ ~Forbidden(tcCall)
        BY <2>3 DEF Verdict
      <3>. QED
        BY <3>3, <3>4, <2>0 DEF GrantsInv, RunsByRight, CallAt
    <2>. QED
      BY <2>1, <2>2, <2>3 DEF Verdict
  <1>4. CASE AnswersItself
    <2>0. UNCHANGED <<tcPolicy, tcApproved, tcRules, tcGranted>> /\ ~Forbidden(tcCall)
      BY <1>4 DEF AnswersItself, GrantsInv
    <2>1. CASE Confirmed
      <3>1. /\ tcCall'.at = "running" /\ tcCall'.confirmed /\ (Forbidden(tcCall)' <=> Forbidden(tcCall))
        BY <2>0, <2>1, GoesOn DEF Confirmed
      <3>. QED
        BY <3>1, <2>0 DEF GrantsInv, RunsByRight, CallAt
    <2>2. CASE tcCall' = NoCall
      BY <2>0, <2>2, <1>0, QuietStep
    <2>. QED
      BY <2>1, <2>2, <1>4 DEF AnswersItself, Records
  <1>5. ASSUME NEW tools, ToolReturns(tools) PROVE GrantsInv' /\ RunsByRight'
    BY <1>0, <1>5, QuietStep DEF ToolReturns, Records
  <1>6. CASE DropTurn
    BY <1>0, <1>6, QuietStep DEF DropTurn
  <1>7. ASSUME NEW t \in ToolSet, NEW path \in ArgPaths \cup {NoPath},
               NEW command \in Dangerous \cup {Harmless}, BeginCall(t, path, command)
        PROVE  GrantsInv' /\ RunsByRight'
    <2>1. tcCall'.at = "hooks"
      BY <1>7, NoCallTyped DEF BeginCall, Calls
    <2>. QED
      BY <2>1, <1>7, QuietStep DEF BeginCall
  <1>8. ASSUME NEW response \in {"yes", "no"}, NEW type \in {"once", "session", "always"},
               UserAnswers(response, type)
        PROVE  GrantsInv' /\ RunsByRight'
    <2>0. tcPolicy' = tcPolicy /\ ~Forbidden(tcCall) /\ tcCall.tool \in ToolSet
      BY <1>0, <1>8 DEF UserAnswers, GrantsInv, Calls
    <2>1. /\ tcApproved' \subseteq tcGranted'
          /\ \A rule \in tcRules' : rule.tool \in tcGranted'
      BY <1>8 DEF UserAnswers, Grant, RuleFor, GrantsInv
    <2>2. CASE response = "yes"
      <3>1. /\ tcCall'.at = "running" /\ tcCall'.confirmed /\ (Forbidden(tcCall)' <=> Forbidden(tcCall))
        BY <2>0, <2>2, <1>8, GoesOn DEF UserAnswers, Confirmed
      <3>. QED
        BY <3>1, <2>0, <2>1 DEF GrantsInv, RunsByRight, CallAt
    <2>3. CASE response # "yes"
      BY <2>1, <2>3, <1>0, <1>8 DEF UserAnswers, Records, GrantsInv, RunsByRight, CallAt
    <2>. QED
      BY <2>2, <2>3
  <1>9. CASE UNCHANGED tcVars
    BY <1>9 DEF tcVars, GrantsInv, RunsByRight, CallAt, Forbidden, PathDenied, PatternDenied, Required
  <1>. QED
    BY <1>1, <1>2, <1>3, <1>4, <1>5, <1>6, <1>7, <1>8, <1>9 DEF CallNext, CallStep

LEMMA CallsKeep == CallTyped /\ GrantsInv /\ RunsByRight /\ [CallNext]_tcVars
                       => (CallTyped /\ GrantsInv /\ RunsByRight)'
  BY CallTypeStep, RightsStep

(***************************************************************************)
(* The text an edit makes: the recursive definitions, unfolded.            *)
(***************************************************************************)
\* Where the text to find is.
OccursAt(text, old, i) == i + Len(old) - 1 <= Len(text) /\ SubSeq(text, i, i + Len(old) - 1) = old

\* What Occurrences computes: the scan goes on behind an occurrence, or at the next place.
Finds(from, text, old) ==
    /\ from[Len(text) + 1] = {}
    /\ \A i \in 1 .. Len(text) :
           from[i] = IF OccursAt(text, old, i) THEN {i} \cup from[i + Len(old)] ELSE from[i + 1]
    /\ Occurrences(text, old) = from[1]

LEMMA OccurrencesScan ==
    ASSUME NEW S, NEW text \in Seq(S), NEW old \in Seq(S), old # <<>>
    PROVE  \E from : Finds(from, text, old)
  <1> DEFINE n == Len(text)
             X == SUBSET (1 .. n)
             nothing == {}
             next == [i \in 1 .. n |-> IF OccursAt(text, old, i) THEN i + Len(old) ELSE i + 1]
             step == [i \in 1 .. n |-> [z \in X |-> IF OccursAt(text, old, i) THEN {i} \cup z ELSE z]]
             Scan(from) == from = [i \in 1 .. Len(text) + 1 |->
                 IF i > Len(text) THEN {}
                 ELSE IF i + Len(old) - 1 <= Len(text) /\ SubSeq(text, i, i + Len(old) - 1) = old
                      THEN {i} \cup from[i + Len(old)] ELSE from[i + 1]]
  <1>1. n \in Nat /\ Len(old) \in Nat \ {0}
    OBVIOUS
  <1>2. \A i \in 1 .. n : next[i] \in Nat /\ i < next[i] /\ next[i] <= n + 1
    BY <1>1 DEF OccursAt
  <1>3. next \in [1 .. n -> Nat]
    BY <1>2
  <1>4. step \in [1 .. n -> [X -> X]]
    OBVIOUS
  <1>5. PICK f \in [1 .. n + 1 -> X] : f[n + 1] = nothing /\ \A i \in 1 .. n : f[i] = step[i][f[next[i]]]
    <2>1. nothing \in X
      OBVIOUS
    <2>2. n \in Nat
      BY <1>1
    <2>3. \A i \in 1 .. n : i < next[i] /\ next[i] <= n + 1
      BY <1>2
    <2> HIDE DEF n, X, nothing, next, step, Scan
    <2>4. Later(n, next)
      BY <2>3 DEF Later
    <2>5. PICK f \in [1 .. n + 1 -> X] : FromEnd(f, n, nothing, next, step)
      BY <2>1, <2>2, <1>3, <1>4, <2>4, BackwardExists
    <2> QED
      BY <2>5 DEF FromEnd
  <1>6. \A i \in 1 .. n : f[i] = IF OccursAt(text, old, i) THEN {i} \cup f[i + Len(old)] ELSE f[i + 1]
    <2> TAKE i \in 1 .. n
    <2>1. next[i] \in 1 .. n + 1
      BY <1>1, <1>2
    <2>2. f[next[i]] \in X
      BY <1>5, <2>1
    <2> QED
      BY <1>5, <2>2
  <1>7. Scan(f)
    <2>1. f = [i \in 1 .. n + 1 |-> f[i]]
      BY <1>5
    <2>2. \A i \in 1 .. n + 1 : ~(i > n) => i \in 1 .. n
      BY <1>1
    <2>3. \A i \in 1 .. n + 1 : i > n => i = n + 1
      BY <1>1
    <2> QED
      BY <1>5, <1>6, <2>1, <2>2, <2>3 DEF OccursAt
  <1>8. PICK it : Scan(it) /\ Occurrences(text, old) = it[1]
    <2> DEFINE found == CHOOSE from : Scan(from)
    <2>1. Occurrences(text, old) = found[1]
      BY DEF Occurrences
    <2>2. Scan(found)
      <3> HIDE DEF Scan
      <3> QED
        BY <1>7
    <2> HIDE DEF found, Scan
    <2> QED
      BY <2>1, <2>2
  <1>9. it[n + 1] = {}
    BY <1>1, <1>8
  <1>10. \A i \in 1 .. n : it[i] = IF OccursAt(text, old, i) THEN {i} \cup it[i + Len(old)] ELSE it[i + 1]
    <2>1. \A i \in 1 .. n : ~(i > n) /\ i \in 1 .. n + 1
      BY <1>1
    <2> QED
      BY <1>8, <2>1 DEF OccursAt
  <1> QED
    BY <1>8, <1>9, <1>10 DEF Finds

LEMMA OccurrencesAreReal ==
    ASSUME NEW S, NEW text \in Seq(S), NEW old \in Seq(S), old # <<>>
    PROVE  \A i \in Occurrences(text, old) : i \in 1 .. Len(text) /\ OccursAt(text, old, i)
  <1> DEFINE n == Len(text)
  <1>0. PICK from : Finds(from, text, old)
    BY OccurrencesScan
  <1>1. /\ from[n + 1] = {} /\ Occurrences(text, old) = from[1]
        /\ \A i \in 1 .. n :
               from[i] = IF OccursAt(text, old, i) THEN {i} \cup from[i + Len(old)] ELSE from[i + 1]
    BY <1>0 DEF Finds
  <1>2. n \in Nat /\ Len(old) \in Nat \ {0}
    OBVIOUS
  <1> DEFINE Good == {i \in 1 .. n + 1 : \A j \in from[i] : j \in 1 .. n /\ OccursAt(text, old, j)}
  <1>3. n + 1 \in Good
    BY <1>1, <1>2
  <1>4. ASSUME NEW i \in 1 .. n, \A j \in i + 1 .. n + 1 : j \in Good PROVE i \in Good
    <2>1. CASE OccursAt(text, old, i)
      <3>1. i + Len(old) \in i + 1 .. n + 1
        BY <2>1, <1>2 DEF OccursAt
      <3>2. i + Len(old) \in Good
        BY <3>1, <1>4
      <3>3. from[i] = {i} \cup from[i + Len(old)]
        BY <1>1, <2>1
      <3> QED
        BY <2>1, <3>2, <3>3
    <2>2. CASE ~OccursAt(text, old, i)
      <3>1. i + 1 \in Good
        BY <1>2, <1>4
      <3>2. from[i] = from[i + 1]
        BY <1>1, <2>2
      <3> QED
        BY <3>1, <3>2, <1>2
    <2> QED
      BY <2>1, <2>2
  <1>5. 1 .. n + 1 \subseteq Good
    <2> HIDE DEF Good, n
    <2> QED
      BY <1>2, <1>3, <1>4, BackwardInduction
  <1> QED
    BY <1>1, <1>2, <1>5

\* Behind the only occurrence counted there is none, not even one that overlaps nothing.
LEMMA NoneBehindTheOnly ==
    ASSUME NEW S, NEW text \in Seq(S), NEW old \in Seq(S), old # <<>>,
           NEW s, Occurrences(text, old) = {s}
    PROVE  \A j \in s + Len(old) .. Len(text) : ~OccursAt(text, old, j)
  <1> DEFINE n == Len(text)
  <1>0. PICK from : Finds(from, text, old)
    BY OccurrencesScan
  <1>1. /\ from[n + 1] = {} /\ Occurrences(text, old) = from[1]
        /\ \A i \in 1 .. n :
               from[i] = IF OccursAt(text, old, i) THEN {i} \cup from[i + Len(old)] ELSE from[i + 1]
    BY <1>0 DEF Finds
  <1>2. n \in Nat /\ Len(old) \in Nat \ {0}
    OBVIOUS
  <1>3. s \in 1 .. n /\ OccursAt(text, old, s)
    BY OccurrencesAreReal
  <1> DEFINE Good == {i \in 1 .. n + 1 :
                 /\ \A j \in from[i] : j \in i .. n
                 /\ from[i] = {} => \A j \in i .. n : ~OccursAt(text, old, j)
                 /\ from[i] = {s} => \A j \in s + Len(old) .. n : ~OccursAt(text, old, j)}
  <1>4. n + 1 \in Good
    <2>1. \A j \in n + 1 .. n : FALSE
      BY <1>2
    <2>2. from[n + 1] = {} /\ from[n + 1] # {s}
      BY <1>1
    <2>3. n + 1 \in 1 .. n + 1
      BY <1>2
    <2> HIDE DEF n
    <2> QED
      BY <2>1, <2>2, <2>3
  <1>5. ASSUME NEW i \in 1 .. n, \A j \in i + 1 .. n + 1 : j \in Good PROVE i \in Good
    <2>1. CASE OccursAt(text, old, i)
      <3>1. i + Len(old) \in i + 1 .. n + 1
        BY <2>1, <1>2 DEF OccursAt
      <3>2. i + Len(old) \in Good
        BY <3>1, <1>5
      <3>3. from[i] = {i} \cup from[i + Len(old)]
        BY <1>1, <2>1
      <3>4. \A j \in from[i] : j \in i .. n
        BY <3>1, <3>2, <3>3, <1>2
      <3>5. from[i] # {}
        BY <3>3
      <3>6. ASSUME from[i] = {s} PROVE \A j \in s + Len(old) .. n : ~OccursAt(text, old, j)
        <4>1. i = s
          BY <3>3, <3>6
        <4>2. from[i + Len(old)] = {}
          <5>1. \A j \in from[i + Len(old)] : j = i
            <6> HIDE DEF Good, n
            <6>1. from[i + Len(old)] \subseteq {s}
              BY <3>3, <3>6
            <6> QED
              BY <6>1, <4>1
          <5>2. \A j \in from[i + Len(old)] : j \in i + Len(old) .. n
            BY <3>2
          <5> QED
            BY <5>1, <5>2, <1>2
        <4> QED
          BY <4>1, <4>2, <3>2
      <3> QED
        BY <3>4, <3>5, <3>6
    <2>2. CASE ~OccursAt(text, old, i)
      <3>1. i + 1 \in Good
        BY <1>2, <1>5
      <3>2. from[i] = from[i + 1]
        BY <1>1, <2>2
      <3>3. \A j \in i .. n : j = i \/ j \in i + 1 .. n
        OBVIOUS
      <3>4. \A j \in i + 1 .. n : j \in i .. n
        OBVIOUS
      <3> QED
        BY <2>2, <3>1, <3>2, <3>3, <3>4
    <2> QED
      BY <2>1, <2>2
  <1>6. 1 .. n + 1 \subseteq Good
    <2> HIDE DEF Good, n
    <2> QED
      BY <1>2, <1>4, <1>5, BackwardInduction
  <1>7. 1 \in Good
    BY <1>2, <1>6
  <1> QED
    BY <1>1, <1>7

\* What Replace computes.
Replaces(from, text, old, new) ==
    /\ from[Len(text) + 1] = <<>>
    /\ \A i \in 1 .. Len(text) :
           from[i] = IF i \in Occurrences(text, old) THEN new \o from[i + Len(old)]
                     ELSE <<text[i]>> \o from[i + 1]
    /\ Replace(text, old, new) = from[1]

LEMMA ReplaceScan ==
    ASSUME NEW S, NEW text \in Seq(S), NEW old \in Seq(S), old # <<>>, NEW new \in Seq(S)
    PROVE  \E from : Replaces(from, text, old, new)
  <1> DEFINE n == Len(text)
             X == Seq(S)
             starts == Occurrences(text, old)
             nothing == <<>>
             next == [i \in 1 .. n |-> IF i \in starts THEN i + Len(old) ELSE i + 1]
             step == [i \in 1 .. n |-> [z \in X |-> IF i \in starts THEN new \o z ELSE <<text[i]>> \o z]]
             Scan(from) == from = [i \in 1 .. Len(text) + 1 |->
                 IF i > Len(text) THEN <<>>
                 ELSE IF i \in Occurrences(text, old) THEN new \o from[i + Len(old)]
                 ELSE <<text[i]>> \o from[i + 1]]
  <1>1. n \in Nat /\ Len(old) \in Nat \ {0}
    OBVIOUS
  <1>2. \A i \in 1 .. n : next[i] \in Nat /\ i < next[i] /\ next[i] <= n + 1
    <2>1. \A i \in starts : i + Len(old) - 1 <= n
      BY OccurrencesAreReal DEF OccursAt
    <2> HIDE DEF starts
    <2> QED
      BY <1>1, <2>1
  <1>3. next \in [1 .. n -> Nat]
    BY <1>2
  <1>4. step \in [1 .. n -> [X -> X]]
    <2>1. \A i \in 1 .. n : <<text[i]>> \in Seq(S)
      OBVIOUS
    <2>2. \A i \in 1 .. n, z \in X : new \o z \in X /\ <<text[i]>> \o z \in X
      BY <2>1
    <2> HIDE DEF X, starts
    <2> QED
      BY <2>2
  <1>5. PICK f \in [1 .. n + 1 -> X] : f[n + 1] = nothing /\ \A i \in 1 .. n : f[i] = step[i][f[next[i]]]
    <2>1. nothing \in X
      OBVIOUS
    <2>2. n \in Nat
      BY <1>1
    <2>3. Later(n, next)
      BY <1>2 DEF Later
    <2> HIDE DEF n, X, nothing, next, step, Scan
    <2>4. PICK f \in [1 .. n + 1 -> X] : FromEnd(f, n, nothing, next, step)
      BY <2>1, <2>2, <1>3, <1>4, <2>3, BackwardExists
    <2> QED
      BY <2>4 DEF FromEnd
  <1>6. \A i \in 1 .. n : f[i] = IF i \in starts THEN new \o f[i + Len(old)] ELSE <<text[i]>> \o f[i + 1]
    <2> TAKE i \in 1 .. n
    <2>1. next[i] \in 1 .. n + 1
      BY <1>1, <1>2
    <2>2. f[next[i]] \in X
      BY <1>5, <2>1
    <2> HIDE DEF X, starts
    <2> QED
      BY <1>5, <2>2
  <1>7. Scan(f)
    <2>1. f = [i \in 1 .. n + 1 |-> f[i]]
      BY <1>5
    <2>2. \A i \in 1 .. n + 1 : ~(i > n) => i \in 1 .. n
      BY <1>1
    <2>3. \A i \in 1 .. n + 1 : i > n => i = n + 1
      BY <1>1
    <2> QED
      BY <1>5, <1>6, <2>1, <2>2, <2>3
  <1>8. PICK it : Scan(it) /\ Replace(text, old, new) = it[1]
    <2> DEFINE found == CHOOSE from : Scan(from)
    <2>1. Replace(text, old, new) = found[1]
      BY DEF Replace
    <2>2. Scan(found)
      <3> HIDE DEF Scan
      <3> QED
        BY <1>7
    <2> HIDE DEF found, Scan
    <2> QED
      BY <2>1, <2>2
  <1>9. it[n + 1] = <<>>
    BY <1>1, <1>8
  <1>10. \A i \in 1 .. n : it[i] = IF i \in starts THEN new \o it[i + Len(old)] ELSE <<text[i]>> \o it[i + 1]
    <2>1. \A i \in 1 .. n : ~(i > n) /\ i \in 1 .. n + 1
      BY <1>1
    <2> QED
      BY <1>8, <2>1
  <1> QED
    BY <1>8, <1>9, <1>10 DEF Replaces

LEMMA ReplaceIsText ==
    ASSUME NEW S, NEW text \in Seq(S), NEW old \in Seq(S), old # <<>>, NEW new \in Seq(S)
    PROVE  Replace(text, old, new) \in Seq(S)
  <1> DEFINE n == Len(text)
             starts == Occurrences(text, old)
  <1>0. PICK from : Replaces(from, text, old, new)
    BY ReplaceScan
  <1>1. /\ from[n + 1] = <<>> /\ Replace(text, old, new) = from[1]
        /\ \A i \in 1 .. n :
               from[i] = IF i \in starts THEN new \o from[i + Len(old)] ELSE <<text[i]>> \o from[i + 1]
    BY <1>0 DEF Replaces
  <1>2. n \in Nat /\ Len(old) \in Nat \ {0}
    OBVIOUS
  <1>3. \A i \in starts : i \in 1 .. n /\ i + Len(old) \in i + 1 .. n + 1
    BY <1>2, OccurrencesAreReal DEF OccursAt
  <1> DEFINE Good == {i \in 1 .. n + 1 : from[i] \in Seq(S)}
  <1> HIDE DEF n, starts
  <1>4. n + 1 \in Good
    <2>1. <<>> \in Seq(S)
      OBVIOUS
    <2>2. n + 1 \in 1 .. n + 1
      BY <1>2
    <2> QED
      BY <1>1, <2>1, <2>2
  <1>5. ASSUME NEW i \in 1 .. n, \A j \in i + 1 .. n + 1 : j \in Good PROVE i \in Good
    <2>0. i \in 1 .. n + 1
      BY <1>2
    <2>1. CASE i \in starts
      <3>1. from[i + Len(old)] \in Seq(S)
        BY <1>3, <1>5, <2>1
      <3>2. from[i] = new \o from[i + Len(old)]
        BY <1>1, <2>1
      <3>3. from[i] \in Seq(S)
        BY <3>1, <3>2, ConcatProperties
      <3> QED
        BY <2>0, <3>3
    <2>2. CASE i \notin starts
      <3>1. i + 1 \in i + 1 .. n + 1
        BY <1>2
      <3>2. from[i + 1] \in Seq(S)
        BY <3>1, <1>5
      <3>3. <<text[i]>> \in Seq(S)
        BY DEF n
      <3>4. from[i] = <<text[i]>> \o from[i + 1]
        BY <1>1, <2>2
      <3>5. from[i] \in Seq(S)
        BY <3>2, <3>3, <3>4, ConcatProperties
      <3> QED
        BY <2>0, <3>5
    <2> QED
      BY <2>1, <2>2
  <1>6. 1 .. n + 1 \subseteq Good
    <2> HIDE DEF Good, n
    <2> QED
      BY <1>2, <1>4, <1>5, BackwardInduction
  <1> QED
    BY <1>1, <1>2, <1>6

\* With one occurrence counted, the new text stands where it was and nothing else changes.
LEMMA ReplaceTheOnly ==
    ASSUME NEW S, NEW text \in Seq(S), NEW old \in Seq(S), old # <<>>, NEW new \in Seq(S),
           NEW s, Occurrences(text, old) = {s}
    PROVE  Replace(text, old, new)
               = SubSeq(text, 1, s - 1) \o (new \o SubSeq(text, s + Len(old), Len(text)))
  <1> DEFINE n == Len(text)
             starts == Occurrences(text, old)
             rest == new \o SubSeq(text, s + Len(old), n)
  <1>0. PICK from : Replaces(from, text, old, new)
    BY ReplaceScan
  <1>1. /\ from[n + 1] = <<>> /\ Replace(text, old, new) = from[1]
        /\ \A i \in 1 .. n :
               from[i] = IF i = s THEN new \o from[i + Len(old)] ELSE <<text[i]>> \o from[i + 1]
    BY <1>0 DEF Replaces
  <1>2. n \in Nat /\ Len(old) \in Nat \ {0}
    OBVIOUS
  <1>3. s \in 1 .. n /\ s + Len(old) \in s + 1 .. n + 1
    BY <1>2, OccurrencesAreReal DEF OccursAt
  <1>4. \A i \in 1 .. n + 1, j \in 0 .. n : SubSeq(text, i, j) \in Seq(S)
    <2> TAKE i \in 1 .. n + 1, j \in 0 .. n
    <2>1. i \in Int /\ j \in Int /\ \A k \in i .. j : text[k] \in S
      OBVIOUS
    <2> QED
      BY <2>1, SubSeqProperties
  <1>5. rest \in Seq(S)
    BY <1>2, <1>3, <1>4
  <1>6. \A i \in 1 .. n : <<text[i]>> \in Seq(S)
    OBVIOUS
  <1>7. \A i \in 1 .. n, j \in 0 .. n : i <= j =>
            SubSeq(text, i, j) = <<text[i]>> \o SubSeq(text, i + 1, j)
    <2> TAKE i \in 1 .. n, j \in 0 .. n
    <2> HAVE i <= j
    <2>1. j \in i .. Len(text)
      OBVIOUS
    <2> QED
      BY <2>1, SubSeqRecursiveFirst
  <1> DEFINE Behind == {i \in 1 .. n + 1 : i >= s + Len(old) => from[i] = SubSeq(text, i, n)}
             Before == {i \in 1 .. n + 1 : i <= s => from[i] = SubSeq(text, i, s - 1) \o rest}
  <1> HIDE DEF rest, n
  <1>8. 1 .. n + 1 \subseteq Behind
    <2>1. n + 1 \in Behind
      <3>1. SubSeq(text, n + 1, n) = from[n + 1]
        BY <1>1, <1>2, SubSeqEmpty
      <3>2. n + 1 \in 1 .. n + 1
        BY <1>2
      <3> QED
        BY <3>1, <3>2
    <2>2. ASSUME NEW i \in 1 .. n, \A j \in i + 1 .. n + 1 : j \in Behind PROVE i \in Behind
      <3>1. SUFFICES ASSUME i >= s + Len(old) PROVE from[i] = SubSeq(text, i, n)
        BY <1>2
      <3>2. i + 1 \in Behind /\ i + 1 >= s + Len(old) /\ i # s
        BY <1>2, <1>3, <2>2, <3>1
      <3>3. from[i] = <<text[i]>> \o SubSeq(text, i + 1, n)
        BY <1>1, <3>2
      <3> QED
        BY <1>2, <1>7, <3>3
    <2> HIDE DEF Behind
    <2> QED
      BY <1>2, <2>1, <2>2, BackwardInduction
  <1>9. from[s] = rest
    <2>1. s + Len(old) \in Behind /\ s + Len(old) >= s + Len(old)
      BY <1>2, <1>3, <1>8
    <2>2. from[s + Len(old)] = SubSeq(text, s + Len(old), n)
      BY <2>1
    <2>3. from[s] = new \o from[s + Len(old)]
      BY <1>1, <1>3
    <2> QED
      BY <2>2, <2>3 DEF rest
  <1>10. 1 .. n + 1 \subseteq Before
    <2>1. n + 1 \in Before
      BY <1>2, <1>3
    <2>2. ASSUME NEW i \in 1 .. n, \A j \in i + 1 .. n + 1 : j \in Before PROVE i \in Before
      <3>0. i \in 1 .. n + 1
        BY <1>2
      <3>1. SUFFICES ASSUME i <= s PROVE from[i] = SubSeq(text, i, s - 1) \o rest
        BY <3>0, Zenon
      <3>2. CASE i = s
        <4>1. SubSeq(text, s, s - 1) = <<>>
          BY <1>3, SubSeqEmpty
        <4>2. <<>> \o rest = rest
          BY <1>5
        <4> QED
          BY <1>9, <3>2, <4>1, <4>2
      <3>3. CASE i # s
        <4>1. i + 1 \in Before /\ i + 1 <= s
          BY <1>2, <1>3, <2>2, <3>1, <3>3
        <4>2. from[i + 1] = SubSeq(text, i + 1, s - 1) \o rest
          BY <4>1
        <4>3. from[i] = <<text[i]>> \o (SubSeq(text, i + 1, s - 1) \o rest)
          BY <1>1, <3>3, <4>2
        <4>4. SubSeq(text, i, s - 1) = <<text[i]>> \o SubSeq(text, i + 1, s - 1)
          BY <1>2, <1>3, <1>7, <3>1, <3>3
        <4>5. SubSeq(text, i + 1, s - 1) \in Seq(S) /\ <<text[i]>> \in Seq(S)
          <5>1. i + 1 \in 1 .. n + 1 /\ s - 1 \in 0 .. n
            BY <1>2, <1>3
          <5>2. SubSeq(text, i + 1, s - 1) \in Seq(S)
            BY <1>4, <5>1, Zenon
          <5>3. <<text[i]>> \in Seq(S)
            BY <1>6, Zenon
          <5> QED
            BY <5>2, <5>3
        <4>6. \A u, v \in Seq(S) : (u \o v) \o rest = u \o (v \o rest)
          BY <1>5, ConcatAssociative
        <4> QED
          BY <4>3, <4>4, <4>5, <4>6
      <3> QED
        BY <3>2, <3>3
    <2> HIDE DEF Before
    <2> QED
      BY <1>2, <2>1, <2>2, BackwardInduction
  <1>11. 1 \in Before /\ 1 <= s
    BY <1>2, <1>3, <1>10
  <1> QED
    BY <1>1, <1>11 DEF rest, n

\* What Edited computes, pair by pair.
PairsOf(S) == [old : Seq(S), new : Seq(S)]
EditOnce(text, pair, all) ==
    IF text = Torn \/ Refused(text, pair, all) THEN Torn ELSE Replace(text, pair.old, pair.new)
Edits(after, text, pairs, all) ==
    /\ after[0] = text
    /\ \A k \in 1 .. Len(pairs) :
           after[k] = EditOnce(after[k - 1], pairs[k], all)
    /\ Edited(text, pairs, all) = after[Len(pairs)]

LEMMA EditStep ==
    ASSUME NEW S, NEW z \in Seq(S) \cup {Torn}, NEW pair \in PairsOf(S), NEW all
    PROVE  EditOnce(z, pair, all) \in Seq(S) \cup {Torn}
  <1> USE DEF EditOnce, PairsOf
  <1>1. CASE z = Torn \/ Refused(z, pair, all)
    BY <1>1
  <1>2. CASE ~(z = Torn \/ Refused(z, pair, all))
    <2>1. z \in Seq(S) /\ pair.old \in Seq(S) /\ pair.new \in Seq(S) /\ pair.old # <<>>
      BY <1>2 DEF Refused
    <2>2. Replace(z, pair.old, pair.new) \in Seq(S)
      BY <2>1, ReplaceIsText
    <2> QED
      BY <1>2, <2>2
  <1> QED
    BY <1>1, <1>2

LEMMA EditsRun ==
    ASSUME NEW S, NEW text \in Seq(S), NEW pairs \in Seq(PairsOf(S)), NEW all
    PROVE  \E after : Edits(after, text, pairs, all)
  <1> DEFINE n == Len(pairs)
             X == Seq(S) \cup {Torn}
             step == [k \in 1 .. n |-> [z \in X |-> EditOnce(z, pairs[k], all)]]
             Run(after) == after = [k \in 0 .. Len(pairs) |->
                 IF k = 0 THEN text
                 ELSE IF after[k - 1] = Torn \/ Refused(after[k - 1], pairs[k], all) THEN Torn
                 ELSE Replace(after[k - 1], pairs[k].old, pairs[k].new)]
  <1>1. n \in Nat /\ text \in X
    OBVIOUS
  <1>2. step \in [1 .. n -> [X -> X]]
    <2>1. \A k \in 1 .. n : pairs[k] \in PairsOf(S)
      OBVIOUS
    <2>2. \A k \in 1 .. n, z \in X : EditOnce(z, pairs[k], all) \in X
      BY <2>1, EditStep
    <2> HIDE DEF X, n
    <2> QED
      BY <2>2
  <1>3. PICK f \in [0 .. n -> X] : FromStart(f, n, text, step)
    <2> HIDE DEF X, n, step
    <2> QED
      BY <1>1, <1>2, ForwardExists
  <1>4. f[0] = text /\ \A k \in 1 .. n : f[k] = EditOnce(f[k - 1], pairs[k], all)
    <2>1. \A k \in 1 .. n : k - 1 \in 0 .. n
      BY <1>1
    <2>2. \A k \in 1 .. n : f[k - 1] \in X
      BY <2>1
    <2>3. f[0] = text /\ \A k \in 1 .. n : f[k] = step[k][f[k - 1]]
      BY <1>3 DEF FromStart
    <2> HIDE DEF X, n
    <2> QED
      BY <2>2, <2>3
  <1>5. Run(f)
    <2>1. f = [k \in 0 .. n |-> f[k]]
      BY <1>3
    <2>2. \A k \in 0 .. n : k # 0 => k \in 1 .. n
      BY <1>1
    <2> QED
      BY <1>4, <2>1, <2>2 DEF EditOnce
  <1>6. PICK it : Run(it) /\ Edited(text, pairs, all) = it[Len(pairs)]
    <2> DEFINE found == CHOOSE after : Run(after)
    <2>1. Edited(text, pairs, all) = found[Len(pairs)]
      BY DEF Edited
    <2>2. Run(found)
      <3> HIDE DEF Run
      <3> QED
        BY <1>5
    <2> HIDE DEF found, Run
    <2> QED
      BY <2>1, <2>2
  <1>7. it[0] = text
    BY <1>1, <1>6
  <1>8. \A k \in 1 .. n : it[k] = EditOnce(it[k - 1], pairs[k], all)
    <2>1. \A k \in 1 .. n : k # 0 /\ k \in 0 .. n
      BY <1>1
    <2> QED
      BY <1>6, <2>1 DEF EditOnce
  <1> QED
    BY <1>6, <1>7, <1>8 DEF Edits

\* The text after an edit is one of the characters there were.
LEMMA EditedIsText ==
    ASSUME NEW S, NEW text \in Seq(S), NEW pairs \in Seq(PairsOf(S)), NEW all
    PROVE  Edited(text, pairs, all) \in Seq(S) \cup {Torn}
  <1> DEFINE n == Len(pairs)
             X == Seq(S) \cup {Torn}
  <1>0. PICK after : Edits(after, text, pairs, all)
    BY EditsRun
  <1>1. /\ after[0] = text /\ Edited(text, pairs, all) = after[n]
        /\ \A k \in 1 .. n :
               after[k] = EditOnce(after[k - 1], pairs[k], all)
    BY <1>0 DEF Edits
  <1>2. n \in Nat /\ \A k \in 1 .. n : pairs[k] \in PairsOf(S)
    OBVIOUS
  <1> DEFINE Good == {k \in 0 .. n : after[k] \in X}
  <1>3. 0 \in Good
    BY <1>1, <1>2
  <1>4. ASSUME NEW k \in 1 .. n, \A j \in 0 .. k - 1 : j \in Good PROVE k \in Good
    <2>1. after[k - 1] \in X
      BY <1>4
    <2>2. after[k] \in X
      <3>1. pairs[k] \in PairsOf(S)
        BY <1>2
      <3>2. EditOnce(after[k - 1], pairs[k], all) \in X
        BY <2>1, <3>1, EditStep
      <3> QED
        BY <1>1, <3>2
    <2> QED
      BY <2>2
  <1>5. 0 .. n \subseteq Good
    <2> HIDE DEF Good, n
    <2> QED
      BY <1>2, <1>3, <1>4, ForwardInduction
  <1> QED
    BY <1>1, <1>2, <1>5

LEMMA EditedOnce ==
    ASSUME NEW S, NEW text \in Seq(S),
           NEW pair \in PairsOf(S), NEW all
    PROVE  Edited(text, <<pair>>, all)
               = EditOnce(text, pair, all)
  <1>1. <<pair>> \in Seq(PairsOf(S)) /\ Len(<<pair>>) = 1 /\ <<pair>>[1] = pair
    OBVIOUS
  <1>2. PICK after : Edits(after, text, <<pair>>, all)
    BY <1>1, EditsRun
  <1>3. 1 \in 1 .. Len(<<pair>>) /\ 1 - 1 = 0
    BY <1>1
  <1> QED
    BY <1>1, <1>2, <1>3 DEF Edits

\* No text a call works with is the missing or the torn file.
LEMMA TextsAreReal ==
    ASSUME NEW text \in Seq(Chars)
    PROVE  text # Gone /\ text # Torn
  <1>1. Gone[1] = "gone" /\ Torn[1] = "torn" /\ Len(Gone) = 1 /\ Len(Torn) = 1
    BY DEF Gone, Torn
  <1>2. Len(text) = 1 => text[1] \in Chars
    OBVIOUS
  <1> QED
    BY <1>1, <1>2, FileAssumption

LEMMA InsertedIsText ==
    ASSUME NEW line \in Nat, NEW text \in Seq(Chars), NEW new \in Seq(Chars)
    PROVE  InsertAtLine(text, line, new) \in Seq(Chars)
  <1> DEFINE starts == {1} \cup {i + 1 : i \in {j \in DOMAIN text : text[j] = Newline}}
             idx == IF line = 0 THEN 0 ELSE line - 1
             places == {i \in starts : Cardinality({j \in starts : j < i}) = idx}
             i == CHOOSE i \in places : TRUE
  <1>1. <<Newline>> \in Seq(Chars)
    BY DEF Chars
  <1>2. CASE places = {}
    <2>1. InsertAtLine(text, line, new) = text \o <<Newline>> \o new
      BY <1>2 DEF InsertAtLine
    <2> QED
      BY <1>1, <2>1, ConcatProperties
  <1>3. CASE places # {}
    <2>1. InsertAtLine(text, line, new)
              = SubSeq(text, 1, i - 1) \o new \o <<Newline>> \o SubSeq(text, i, Len(text))
      BY <1>3 DEF InsertAtLine
    <2>2. i \in starts
      <3> HIDE DEF starts
      <3> QED
        BY <1>3
    <2>3. i \in 1 .. Len(text) + 1
      <3>1. Len(text) \in Nat /\ DOMAIN text = 1 .. Len(text)
        OBVIOUS
      <3> HIDE DEF i
      <3> QED
        BY <2>2, <3>1
    <2> HIDE DEF i, starts, places
    <2>4. SubSeq(text, 1, i - 1) \in Seq(Chars) /\ SubSeq(text, i, Len(text)) \in Seq(Chars)
      <3>1. /\ i \in Int /\ i - 1 \in Int /\ Len(text) \in Int /\ 1 \in Int
            /\ \A k \in 1 .. i - 1 : text[k] \in Chars
            /\ \A k \in i .. Len(text) : text[k] \in Chars
        BY <2>3
      <3> QED
        BY <3>1, SubSeqProperties
    <2> QED
      BY <1>1, <2>1, <2>4, ConcatProperties
  <1> QED
    BY <1>2, <1>3

(***************************************************************************)
(* The invariant.                                                          *)
(***************************************************************************)
FileCallSet ==
    [tool : {"write_file", "create", "edit", "str_replace", "insert", "delete"},
     at : {"idle", "create", "fill", "rename", "verify"},
     before : Texts \cup {Gone}, target : Seq(Chars) \cup {Gone}, pairs : Seq(Pairs),
     result : {"none", "ok", "no-op", "error", "mismatch", "unread", "died"}]

FileTyping ==
    /\ ftCall \in FileCallSet /\ ftTmp \in {Gone, Torn, ftCall.target}
    /\ ftDisk \in Seq(Chars) \cup {Gone} /\ ftSaved \subseteq Saves \cup {Gone}

\* What a call knows while it writes.
FileWrites ==
    /\ ftCall.at # "idle" => ftCall.target # Gone /\ ftCall.result \in {"none", "mismatch"}
    /\ ftCall.at # "idle" /\ Restores => ftCall.before # Gone
    /\ ftCall.at = "rename" => ftTmp = ftCall.target
    /\ ftCall.at = "verify" => ftTmp = Gone /\ ftCall.result = "none"

\* The one replacement str_replace makes of the text it read.
MadeBy(call) ==
    LET pair == call.pairs[1] IN
    /\ call.before \in Texts /\ pair \in Pairs /\ pair.old # pair.new
    /\ ~Refused(call.before, pair, FALSE)
    /\ call.target = Replace(call.before, pair.old, pair.new)
EditMade ==
    ftCall.tool = "str_replace" =>
        /\ ftCall.at # "idle" /\ ftCall.result = "none" => MadeBy(ftCall)
        /\ ftCall.result = "ok" => ftCall.at = "idle" /\ ftDisk = ftCall.target /\ MadeBy(ftCall)

FileInv == FileTyping /\ FileWrites /\ EditMade /\ NeverTorn

LEMMA FileStarts == FileInit => FileInv
  <1> SUFFICES ASSUME FileInit PROVE FileInv
    OBVIOUS
  <1>0. \A t \in Texts : t \in Seq(Chars)
    BY FileAssumption
  <1>1. ftCall = [tool |-> "edit", at |-> "idle", before |-> ftDisk, target |-> Gone,
                  pairs |-> <<>>, result |-> "none"]
    BY DEF FileInit, NoFileCall
  <1>2. <<>> \in Seq(Pairs) /\ Gone # Torn
    BY DEF Gone, Torn
  <1>3. FileTyping
    <2>1. ftDisk \in Texts \cup {Gone} /\ ftDisk \in Seq(Chars) \cup {Gone}
      BY <1>0 DEF FileInit
    <2>2. ftCall \in FileCallSet
      <3> DEFINE none == <<>>
      <3>1. none \in Seq(Pairs)
        BY <1>2
      <3>2. ftCall = [tool |-> "edit", at |-> "idle", before |-> ftDisk, target |-> Gone,
                      pairs |-> none, result |-> "none"]
        BY <1>1
      <3> HIDE DEF none
      <3> QED
        BY <2>1, <3>1, <3>2 DEF FileCallSet
    <2> QED
      BY <2>1, <2>2 DEF FileInit, FileTyping
  <1>4. ftDisk # Torn
    BY <1>0, <1>2, TextsAreReal DEF FileInit
  <1>5. NeverTorn
    BY <1>1, <1>4 DEF FileInit, NeverTorn
  <1> QED
    BY <1>1, <1>3, <1>5 DEF FileInv, FileWrites, EditMade

\* A call begins: it fails, changes nothing, deletes, or goes on to write its text.
Beginning(call) ==
    /\ call \in FileCallSet /\ call.before = ftDisk
    /\ \/ call.at = "idle" /\ (call.result = "ok" => call.tool # "str_replace")
       \/ /\ call.at = "create" /\ call.result = "none" /\ call.target # Gone
          /\ call.tool \in {"edit", "str_replace"} => ftDisk # Gone
          /\ call.tool = "str_replace" => MadeBy(call)

LEMMA CallBegins ==
    ASSUME FileInv, Begins, NEW call, Beginning(call), ftCall' = call,
           ftDisk' = ftDisk \/ (ftDisk' = Gone /\ call.tool = "delete")
    PROVE  FileInv'
  <1>1. call \in FileCallSet /\ call.before = ftDisk
    BY DEF Beginning
  <1>2. call.at \in {"idle", "create"}
    BY DEF Beginning
  <1>3. Gone # Torn /\ ftDisk # Torn
    BY DEF FileInv, NeverTorn, Gone, Torn
  <1>4. FileTyping'
    BY <1>1 DEF FileInv, FileTyping, Begins
  <1>5. FileWrites'
    BY <1>1, <1>2 DEF FileWrites, Beginning, Restores
  <1>6. EditMade'
    BY <1>1, <1>2 DEF EditMade, Beginning, MadeBy
  <1>7. NeverTorn'
    BY <1>1, <1>3 DEF NeverTorn
  <1> QED
    BY <1>4, <1>5, <1>6, <1>7 DEF FileInv

\* The records calls are made of.
LEMMA Started ==
    ASSUME FileInv, Begins, NEW tool \in {"write_file", "create", "edit", "str_replace", "insert", "delete"},
           NEW pairs \in Seq(Pairs)
    PROVE  LET call == Starts(tool, pairs) IN
           /\ call \in FileCallSet /\ call.before = ftDisk /\ call.at = "idle" /\ call.result = "none"
           /\ call.tool = tool /\ call.pairs = pairs
  <1>1. NoFileCall \in FileCallSet /\ NoFileCall.at = "idle" /\ NoFileCall.result = "none"
    <2> DEFINE none == <<>>
    <2>1. none \in Seq(Pairs)
      OBVIOUS
    <2>2. NoFileCall = [tool |-> "edit", at |-> "idle", before |-> Gone, target |-> Gone,
                        pairs |-> none, result |-> "none"]
      BY DEF NoFileCall
    <2> HIDE DEF none
    <2> QED
      BY <2>1, <2>2 DEF FileCallSet
  <1>2. ftDisk \in Texts \cup {Gone}
    BY DEF Begins
  <1> QED
    BY <1>1, <1>2 DEF Starts, FileCallSet

LEMMA CallFails ==
    ASSUME FileInv, Begins, NEW tool \in {"write_file", "create", "edit", "str_replace", "insert", "delete"},
           NEW pairs \in Seq(Pairs), NEW result \in {"error", "no-op"}, ftDisk' = ftDisk,
           ftCall' = [Starts(tool, pairs) EXCEPT !.result = result]
    PROVE  FileInv'
  <1> DEFINE call == Starts(tool, pairs)
             failed == [call EXCEPT !.result = result]
  <1>1. call \in FileCallSet /\ call.before = ftDisk /\ call.at = "idle"
    BY Started
  <1> HIDE DEF call
  <1>2. Beginning(failed)
    BY <1>1 DEF Beginning, FileCallSet
  <1>3. ftCall' = failed
    BY DEF call
  <1> HIDE DEF failed
  <1> QED
    BY <1>2, <1>3, CallBegins

LEMMA CallWrites ==
    ASSUME FileInv, Begins, NEW tool \in {"write_file", "create", "edit", "str_replace", "insert", "delete"},
           NEW pairs \in Seq(Pairs), NEW target \in Seq(Chars), ftDisk' = ftDisk,
           Writes(Starts(tool, pairs), target),
           tool \in {"edit", "str_replace"} => ftDisk # Gone,
           tool = "str_replace" =>
               /\ pairs[1] \in Pairs /\ pairs[1].old # pairs[1].new
               /\ ~Refused(ftDisk, pairs[1], FALSE)
               /\ target = Replace(ftDisk, pairs[1].old, pairs[1].new)
    PROVE  FileInv'
  <1> DEFINE call == Starts(tool, pairs)
             written == [call EXCEPT !.at = "create", !.target = target]
  <1>1. /\ call \in FileCallSet /\ call.before = ftDisk /\ call.at = "idle" /\ call.result = "none"
        /\ call.tool = tool /\ call.pairs = pairs
    BY Started
  <1> HIDE DEF call
  <1>2. /\ written \in FileCallSet /\ written.before = ftDisk /\ written.at = "create"
        /\ written.result = "none" /\ written.tool = tool /\ written.pairs = pairs
        /\ written.target = target
    BY <1>1 DEF FileCallSet
  <1>3. ftCall' = written
    BY DEF call, Writes
  <1>4. target # Gone /\ ftDisk \in Texts \cup {Gone}
    BY TextsAreReal DEF Begins
  <1> HIDE DEF written
  <1>5. Beginning(written)
    BY <1>2, <1>4 DEF Beginning, MadeBy
  <1> QED
    BY <1>3, <1>5, CallBegins

LEMMA FileCalls ==
    ASSUME FileInv,
           \/ \E text \in Parts : WriteFile(text) \/ CreateFile(text)
           \/ \E line \in 0 .. 3, text \in Parts : Insert(line, text)
           \/ Delete
    PROVE  FileInv'
  <1>0. /\ <<>> \in Seq(Pairs)
        /\ \A text \in Texts \cup Parts : text \in Seq(Chars)
    BY FileAssumption
  <1>1. ASSUME NEW text \in Parts, WriteFile(text) PROVE FileInv'
    BY <1>0, <1>1, CallWrites DEF WriteFile
  <1>2. ASSUME NEW text \in Parts, CreateFile(text) PROVE FileInv'
    <2>1. CASE ftDisk # Gone \/ text = <<>>
      BY <1>0, <1>2, <2>1, CallFails DEF CreateFile, Fails
    <2>2. CASE ~(ftDisk # Gone \/ text = <<>>)
      BY <1>0, <1>2, <2>2, CallWrites DEF CreateFile
    <2> QED
      BY <2>1, <2>2
  <1>3. ASSUME NEW line \in 0 .. 3, NEW text \in Parts, Insert(line, text) PROVE FileInv'
    <2>1. CASE ftDisk = Gone
      BY <1>0, <1>3, <2>1, CallFails DEF Insert, Fails
    <2>2. CASE ftDisk # Gone
      <3>1. InsertAtLine(ftDisk, line, text) \in Seq(Chars)
        BY <1>0, <1>3, <2>2, InsertedIsText DEF Insert, Begins
      <3> QED
        BY <1>0, <1>3, <2>2, <3>1, CallWrites DEF Insert
    <2> QED
      BY <2>1, <2>2
  <1>4. CASE Delete
    <2>1. CASE ftDisk = Gone
      BY <1>0, <1>4, <2>1, CallFails DEF Delete, Fails
    <2>2. CASE ftDisk # Gone
      <3> DEFINE call == Starts("delete", <<>>)
                 done == [call EXCEPT !.result = "ok"]
      <3>1. Begins /\ ftCall' = done /\ ftDisk' = Gone
        BY <1>4, <2>2 DEF Delete
      <3>2. call \in FileCallSet /\ call.before = ftDisk /\ call.at = "idle" /\ call.tool = "delete"
        BY <1>0, <3>1, Started
      <3> HIDE DEF call
      <3>3. Beginning(done) /\ done.tool = "delete"
        BY <3>2 DEF Beginning, FileCallSet
      <3> HIDE DEF done
      <3> QED
        BY <3>1, <3>3, CallBegins
    <2> QED
      BY <2>1, <2>2
  <1> QED
    BY <1>1, <1>2, <1>3, <1>4

LEMMA EditCalls ==
    ASSUME FileInv, NEW tool \in {"edit", "str_replace"}, NEW pairs \in Seq(Pairs), NEW all,
           tool = "str_replace" => (all = FALSE /\ \E pair \in Pairs : pairs = <<pair>>),
           Edit(tool, pairs, all)
    PROVE  FileInv'
  <1> DEFINE text == Edited(ftDisk, pairs, all)
  <1>0. /\ Begins /\ ftDisk' = ftDisk
        /\ CASE ftDisk = Gone -> Fails(Starts(tool, pairs))
             [] ftDisk # Gone /\ text = Torn -> Fails(Starts(tool, pairs))
             [] ftDisk # Gone /\ \A k \in DOMAIN pairs : pairs[k].old = pairs[k].new ->
                    ftCall' = [Starts(tool, pairs) EXCEPT !.result = "no-op"]
             [] OTHER -> Writes(Starts(tool, pairs), text)
    BY DEF Edit
  <1>1. Pairs \subseteq PairsOf(Chars)
    BY FileAssumption DEF Pairs, PairsOf
  <1>2. pairs \in Seq(PairsOf(Chars))
    BY <1>1, SeqMonotonic
  <1>3. ftDisk # Gone => ftDisk \in Texts /\ ftDisk \in Seq(Chars)
    BY <1>0, FileAssumption DEF Begins
  <1>4. ftDisk # Gone => text \in Seq(Chars) \cup {Torn}
    BY <1>2, <1>3, EditedIsText
  <1>5. ASSUME Fails(Starts(tool, pairs)) PROVE FileInv'
    BY <1>0, <1>5, CallFails DEF Fails
  <1>6. ASSUME ftCall' = [Starts(tool, pairs) EXCEPT !.result = "no-op"] PROVE FileInv'
    BY <1>0, <1>6, CallFails
  <1>7. ASSUME ftDisk # Gone, text # Torn, ~\A k \in DOMAIN pairs : pairs[k].old = pairs[k].new,
               Writes(Starts(tool, pairs), text)
        PROVE  FileInv'
    <2>1. text \in Seq(Chars)
      BY <1>4, <1>7
    <2>2. ASSUME tool = "str_replace"
          PROVE  /\ pairs[1] \in Pairs /\ pairs[1].old # pairs[1].new
                 /\ ~Refused(ftDisk, pairs[1], FALSE)
                 /\ text = Replace(ftDisk, pairs[1].old, pairs[1].new)
      <3>1. PICK pair \in Pairs : pairs = <<pair>>
        BY <2>2
      <3>2. all = FALSE
        BY <2>2
      <3>3. pairs[1] = pair /\ DOMAIN pairs = {1}
        BY <3>1
      <3>4. pair.old # pair.new
        BY <1>7, <3>3
      <3>5. text = EditOnce(ftDisk, pair, FALSE)
        BY <1>1, <1>3, <1>7, <3>1, <3>2, EditedOnce
      <3> HIDE DEF text
      <3> QED
        BY <1>7, <3>3, <3>4, <3>5 DEF EditOnce
    <2> HIDE DEF text
    <2> QED
      BY <1>0, <1>7, <2>1, <2>2, CallWrites
  <1> HIDE DEF text
  <1> QED
    BY <1>0, <1>5, <1>6, <1>7

(***************************************************************************)
(* The steps of a call.                                                    *)
(***************************************************************************)
\* A call ends, or waits for its next step, and the file stays.
LEMMA FileStays ==
    ASSUME FileInv, NEW at \in {"idle", "create", "fill", "rename", "verify"},
           NEW result \in {"none", "ok", "no-op", "error", "mismatch", "unread", "died"},
           ftCall' = [ftCall EXCEPT !.at = at, !.result = result], ftCall.at # "idle",
           ftTmp' \in {Gone, Torn, ftCall.target}, UNCHANGED <<ftDisk, ftSaved>>,
           \/ at = "idle" /\ (result = "ok" => ftDisk = ftCall.target /\ ftCall.result = "none")
           \/ at \in {"fill", "rename"} /\ result = ftCall.result,
           at = "rename" => ftTmp' = ftCall.target
    PROVE  FileInv'
  <1>1. ftCall \in FileCallSet
    BY DEF FileInv, FileTyping
  <1>2. /\ ftCall' \in FileCallSet /\ ftCall'.at = at /\ ftCall'.result = result
        /\ ftCall'.tool = ftCall.tool /\ ftCall'.before = ftCall.before
        /\ ftCall'.target = ftCall.target /\ ftCall'.pairs = ftCall.pairs
    BY <1>1 DEF FileCallSet
  <1>3. FileTyping'
    BY <1>2 DEF FileInv, FileTyping
  <1>4. FileWrites'
    BY <1>2 DEF FileInv, FileWrites, Restores
  <1>5. MadeBy(ftCall) => MadeBy(ftCall)'
    BY <1>2 DEF MadeBy
  <1>6. EditMade'
    <2> SUFFICES ASSUME ftCall'.tool = "str_replace"
                 PROVE  /\ ftCall'.at # "idle" /\ ftCall'.result = "none" => MadeBy(ftCall)'
                        /\ ftCall'.result = "ok" =>
                               ftCall'.at = "idle" /\ ftDisk' = ftCall'.target /\ MadeBy(ftCall)'
      BY DEF EditMade
    <2>1. ftCall.result = "none" => MadeBy(ftCall)'
      BY <1>2, <1>5 DEF FileInv, EditMade
    <2>2. ftCall.result \in {"none", "mismatch"}
      BY DEF FileInv, FileWrites
    <2> QED
      BY <1>2, <2>1, <2>2
  <1>7. NeverTorn'
    BY <1>2 DEF FileInv, NeverTorn
  <1> QED
    BY <1>3, <1>4, <1>6, <1>7 DEF FileInv

\* The file is what the call was to write.
LEMMA FileIsWritten ==
    ASSUME FileInv, RenameTmp
    PROVE  FileInv'
  <1>0. /\ ftCall \in FileCallSet /\ ftCall.at = "rename" /\ ftDisk' = ftCall.target /\ ftTmp' = Gone
        /\ ftCall.target \in Seq(Chars) /\ ftSaved' = ftSaved
    BY DEF FileInv, FileTyping, FileWrites, RenameTmp, FileCallSet
  <1>1. PICK at \in {"idle", "verify"}, result \in {"none", "ok", "error"} :
            /\ ftCall' = [ftCall EXCEPT !.at = at, !.result = result]
            /\ at = "verify" => result = "none" /\ ftCall.result = "none"
            /\ result = "ok" => at = "idle" /\ ftCall.tool # "str_replace"
    <2>1. CASE Undoing
      BY <2>1 DEF RenameTmp, Ends
    <2>2. CASE ~Undoing /\ Verifies
      <3>1. ftCall.result = "none"
        BY <2>2, <1>0 DEF FileInv, FileWrites, Undoing
      <3>2. ftCall' = [ftCall EXCEPT !.at = "verify"]
        BY <2>2 DEF RenameTmp, To
      <3>3. ftCall' = [ftCall EXCEPT !.at = "verify", !.result = "none"]
        BY <1>0, <3>1, <3>2 DEF FileCallSet
      <3> QED
        BY <3>1, <3>3
    <2>3. CASE ~Undoing /\ ~Verifies
      <3>1. ftCall' = [ftCall EXCEPT !.at = "idle", !.result = "ok"] /\ ftCall.tool # "str_replace"
        BY <2>3 DEF RenameTmp, Ends, Verifies
      <3> QED
        BY <3>1
    <2> QED
      BY <2>1, <2>2, <2>3
  <1>2. /\ ftCall' \in FileCallSet /\ ftCall'.at = at /\ ftCall'.result = result
        /\ ftCall'.tool = ftCall.tool /\ ftCall'.before = ftCall.before
        /\ ftCall'.target = ftCall.target /\ ftCall'.pairs = ftCall.pairs
    BY <1>0, <1>1 DEF FileCallSet
  <1>3. ftDisk' # Torn /\ ftDisk' # Gone
    BY <1>0, TextsAreReal
  <1>4. FileTyping'
    BY <1>0, <1>2 DEF FileInv, FileTyping
  <1>5. FileWrites'
    BY <1>0, <1>1, <1>2, <1>3 DEF FileInv, FileWrites, Restores
  <1>6. EditMade'
    <2>1. MadeBy(ftCall) => MadeBy(ftCall)'
      BY <1>2 DEF MadeBy
    <2> QED
      BY <1>0, <1>1, <1>2, <2>1 DEF FileInv, EditMade
  <1>7. NeverTorn'
    BY <1>0, <1>2, <1>3 DEF NeverTorn
  <1> QED
    BY <1>4, <1>5, <1>6, <1>7 DEF FileInv

\* The user saves: while a call is on its way.
LEMMA UserHasSaved ==
    ASSUME FileInv, NEW text \in Saves \cup {Gone}, UserSaves(text)
    PROVE  FileInv'
  <1>0. /\ ftDisk' = text /\ ftSaved' = ftSaved \cup {text} /\ UNCHANGED <<ftTmp, ftCall>>
        /\ ftCall.at # "idle"
    BY DEF UserSaves
  <1>1. text \in Seq(Chars) \cup {Gone} /\ text # Torn
    <2>1. Gone # Torn
      BY DEF Gone, Torn
    <2>2. text # Gone => text \in Seq(Chars)
      BY FileAssumption
    <2> QED
      BY <2>1, <2>2, TextsAreReal
  <1>2. FileTyping'
    BY <1>0, <1>1 DEF FileInv, FileTyping
  <1>3. FileWrites'
    BY <1>0 DEF FileInv, FileWrites, Restores
  <1>4. EditMade'
    <2>1. ftCall.result # "ok"
      BY <1>0 DEF FileInv, FileWrites
    <2>2. MadeBy(ftCall) => MadeBy(ftCall)'
      BY <1>0 DEF MadeBy
    <2> QED
      BY <1>0, <2>1, <2>2 DEF FileInv, EditMade
  <1>5. NeverTorn'
    BY <1>0, <1>1 DEF NeverTorn
  <1> QED
    BY <1>2, <1>3, <1>4, <1>5 DEF FileInv

\* The file is read back; what was there before is put back when it is another.
LEMMA FileIsReadBack ==
    ASSUME FileInv, Verify
    PROVE  FileInv'
  <1>0. /\ ftCall \in FileCallSet /\ ftCall.at = "verify" /\ ftTmp = Gone /\ ftCall.result = "none"
        /\ ftCall.target # Gone /\ UNCHANGED <<ftDisk, ftTmp, ftSaved>>
    BY DEF FileInv, FileTyping, FileWrites, Verify
  <1>1. CASE ftDisk = ftCall.target
    <2>1. ftCall' = [ftCall EXCEPT !.at = "idle", !.result = "ok"]
      BY <1>0, <1>1 DEF Verify, Ends
    <2> QED
      BY <1>0, <1>1, <2>1, FileStays
  <1>2. CASE ftDisk # ftCall.target /\ (ftDisk = Gone \/ ~Restores)
    <2>1. PICK result \in {"unread", "error"} : ftCall' = [ftCall EXCEPT !.at = "idle", !.result = result]
      BY <1>2 DEF Verify, Ends
    <2> QED
      BY <1>0, <2>1, FileStays
  <1>3. CASE ftDisk # ftCall.target /\ ftDisk # Gone /\ Restores
    <2>1. ftCall' = [ftCall EXCEPT !.at = "create", !.target = ftCall.before, !.result = "mismatch"]
      BY <1>3 DEF Verify
    <2>2. ftCall.before # Gone /\ ftCall.before \in Texts
      BY <1>0, <1>3 DEF FileInv, FileWrites, FileCallSet
    <2>3. ftCall.before \in Seq(Chars)
      BY <2>2, FileAssumption
    <2>4. /\ ftCall' \in FileCallSet /\ ftCall'.at = "create" /\ ftCall'.result = "mismatch"
          /\ ftCall'.tool = ftCall.tool /\ ftCall'.before = ftCall.before
          /\ ftCall'.target = ftCall.before
      BY <1>0, <2>1, <2>3 DEF FileCallSet
    <2>5. FileTyping'
      BY <1>0, <2>4 DEF FileInv, FileTyping
    <2>6. FileWrites'
      BY <2>2, <2>4 DEF FileWrites
    <2>7. EditMade'
      BY <2>4 DEF EditMade
    <2>8. NeverTorn'
      BY <1>0, <1>3, <2>4 DEF FileInv, NeverTorn
    <2> QED
      BY <2>5, <2>6, <2>7, <2>8 DEF FileInv
  <1> QED
    BY <1>1, <1>2, <1>3

LEMMA FileSteps ==
    ASSUME FileInv, FileStep
    PROVE  FileInv'
  <1>0. ftCall \in FileCallSet /\ ftTmp \in {Gone, Torn, ftCall.target}
    BY DEF FileInv, FileTyping
  <1>1. CASE CreateTmp
    <2>1. ftCall' = [ftCall EXCEPT !.at = "fill", !.result = ftCall.result]
      BY <1>0, <1>1 DEF CreateTmp, To, FileCallSet
    <2>2. ftCall.result \in {"none", "ok", "no-op", "error", "mismatch", "unread", "died"}
      BY <1>0 DEF FileCallSet
    <2> QED
      BY <1>1, <2>1, <2>2, FileStays DEF CreateTmp
  <1>2. CASE FillTmp
    <2>1. ftCall' = [ftCall EXCEPT !.at = "rename", !.result = ftCall.result]
      BY <1>0, <1>2 DEF FillTmp, To, FileCallSet
    <2>2. ftCall.result \in {"none", "ok", "no-op", "error", "mismatch", "unread", "died"}
      BY <1>0 DEF FileCallSet
    <2> QED
      BY <1>2, <2>1, <2>2, FileStays DEF FillTmp
  <1>3. CASE RenameTmp
    BY <1>3, FileIsWritten
  <1>4. CASE Verify
    BY <1>4, FileIsReadBack
  <1>5. CASE OperationFails \/ ToolDies
    <2>1. PICK result \in {"unread", "error", "died"} :
              ftCall' = [ftCall EXCEPT !.at = "idle", !.result = result]
      BY <1>5 DEF OperationFails, ToolDies, Ends
    <2>2. ftCall.at # "idle" /\ UNCHANGED <<ftDisk, ftTmp, ftSaved>>
      BY <1>5 DEF OperationFails, ToolDies
    <2> QED
      BY <1>0, <2>1, <2>2, FileStays
  <1>6. CASE \E text \in Saves \cup {Gone} : UserSaves(text)
    BY <1>6, UserHasSaved
  <1> QED
    BY <1>1, <1>2, <1>3, <1>4, <1>5, <1>6 DEF FileStep

LEMMA FileKeeps == FileInv /\ [FileNext]_ftVars => FileInv'
  <1> SUFFICES ASSUME FileInv, [FileNext]_ftVars PROVE FileInv'
    OBVIOUS
  <1>1. ASSUME NEW pairs \in UNION {[1 .. k -> Pairs] : k \in 1 .. MaxPairs}, NEW all \in BOOLEAN,
               Edit("edit", pairs, all)
        PROVE  FileInv'
    <2>1. pairs \in Seq(Pairs)
      <3>1. PICK k \in 1 .. MaxPairs : pairs \in [1 .. k -> Pairs]
        OBVIOUS
      <3>2. k \in Nat
        BY FileAssumption
      <3> QED
        BY <3>1, <3>2
    <2> QED
      BY <1>1, <2>1, EditCalls
  <1>2. ASSUME NEW pair \in Pairs, Edit("str_replace", <<pair>>, FALSE) PROVE FileInv'
    <2>1. <<pair>> \in Seq(Pairs)
      OBVIOUS
    <2> QED
      BY <1>2, <2>1, EditCalls
  <1>3. CASE UNCHANGED ftVars
    BY <1>3 DEF ftVars, FileInv, FileTyping, FileWrites, EditMade, MadeBy, NeverTorn, Restores
  <1> QED
    BY <1>1, <1>2, <1>3, FileCalls, FileSteps DEF FileNext

\* The places of a text: what is before, at and behind one of them.
LEMMA CutAt ==
    ASSUME NEW S, NEW text \in Seq(S), NEW old \in Seq(S), old # <<>>,
           NEW s \in 1 .. Len(text), OccursAt(text, old, s)
    PROVE  LET head == SubSeq(text, 1, s - 1)
               tail == SubSeq(text, s + Len(old), Len(text))
           IN  head \in Seq(S) /\ tail \in Seq(S) /\ text = (head \o old) \o tail
  <1> DEFINE n == Len(text)
             m == s + Len(old) - 1
             head == SubSeq(text, 1, s - 1)
             tail == SubSeq(text, s + Len(old), n)
  <1>1. n \in Nat /\ Len(old) \in Nat \ {0} /\ m \in s .. n /\ m + 1 = s + Len(old)
    BY DEF OccursAt
  <1>2. SubSeq(text, s, m) = old
    BY DEF OccursAt
  <1>3. head \o SubSeq(text, s - 1 + 1, m) = SubSeq(text, 1, m)
    <2>1. 1 \in 1 .. n + 1 /\ s - 1 \in 1 - 1 .. n /\ m \in s - 1 .. n
      BY <1>1
    <2> QED
      BY <2>1, ConcatAdjacentSubSeq
  <1>4. SubSeq(text, 1, m) \o SubSeq(text, m + 1, n) = SubSeq(text, 1, n)
    <2>1. 1 \in 1 .. n + 1 /\ m \in 1 - 1 .. n /\ n \in m .. n
      BY <1>1
    <2> QED
      BY <2>1, ConcatAdjacentSubSeq
  <1>5. SubSeq(text, 1, n) = text
    BY SubSeqFull
  <1>6. s - 1 + 1 = s
    OBVIOUS
  <1>7. head \in Seq(S) /\ tail \in Seq(S)
    <2>1. /\ 1 \in Int /\ s - 1 \in Int /\ s + Len(old) \in Int /\ n \in Int
          /\ \A k \in 1 .. s - 1 : text[k] \in S
          /\ \A k \in s + Len(old) .. n : text[k] \in S
      BY <1>1
    <2> QED
      BY <2>1, SubSeqProperties
  <1>8. text = (head \o old) \o tail
    <2>1. head \o old = SubSeq(text, 1, m)
      BY <1>2, <1>3, <1>6
    <2>2. tail = SubSeq(text, m + 1, n)
      BY <1>1
    <2> QED
      BY <1>4, <1>5, <2>1, <2>2, Zenon
  <1> QED
    BY <1>7, <1>8

\* What is found in the rest of a text is found in the text.
LEMMA FoundInRest ==
    ASSUME NEW S, NEW text \in Seq(S), NEW old \in Seq(S), old # <<>>,
           NEW from \in 1 .. Len(text) + 1, old \in SubSeqs(SubSeq(text, from, Len(text)))
    PROVE  \E j \in from .. Len(text) : OccursAt(text, old, j)
  <1> DEFINE n == Len(text)
             tail == SubSeq(text, from, n)
  <1>1. n \in Nat /\ Len(old) \in Nat \ {0}
    OBVIOUS
  <1>2. /\ tail \in Seq(S) /\ Len(tail) = n - from + 1
        /\ \A i \in 1 .. n - from + 1 : tail[i] = text[from + i - 1]
    <2>1. from \in Int /\ n \in Int /\ \A k \in from .. n : text[k] \in S
      BY <1>1
    <2>2. /\ tail \in Seq(S) /\ Len(tail) = IF from <= n THEN n - from + 1 ELSE 0
          /\ \A i \in 1 .. n - from + 1 : tail[i] = text[from + i - 1]
      BY <2>1, SubSeqProperties
    <2> QED
      BY <1>1, <2>2
  <1>3. PICK i \in 0 .. Len(tail), j \in 0 .. Len(tail) : old = SubSeq(tail, i + 1, j)
    <2>1. old \in SubSeqs(tail)
      OBVIOUS
    <2> HIDE DEF tail
    <2> QED
      BY <2>1 DEF SubSeqs
  <1>4. i + 1 <= j
    <2>1. CASE j < i + 1
      <3>1. SubSeq(tail, i + 1, j) = <<>>
        BY <1>1, <1>2, <2>1, SubSeqEmpty
      <3> QED
        BY <1>3, <3>1
    <2> QED
      BY <1>1, <1>2, <2>1
  <1>5. Len(tail) = n - from + 1 /\ i \in Nat /\ j \in 1 .. n - from + 1
    BY <1>1, <1>2, <1>4
  <1>6. SubSeq(tail, i + 1, j) = SubSeq(text, from + (i + 1) - 1, from + j - 1)
    <2>1. /\ from \in 1 .. n /\ n \in 1 .. n
          /\ i + 1 \in 1 .. n - from + 1 /\ j \in 1 .. n - from + 1
      BY <1>1, <1>4, <1>5
    <2> QED
      BY <2>1, SubSeqOfSubSeq
  <1>7. Len(old) = j - i
    <2>1. i + 1 \in Int /\ j \in Int /\ \A k \in i + 1 .. j : tail[k] \in S
      BY <1>2, <1>5
    <2>2. Len(SubSeq(tail, i + 1, j)) = IF i + 1 <= j THEN j - (i + 1) + 1 ELSE 0
      BY <2>1, SubSeqProperties
    <2> QED
      BY <1>3, <1>4, <1>5, <2>2
  <1>8. /\ from + i \in from .. n /\ from + (i + 1) - 1 = from + i
        /\ from + j - 1 = (from + i) + Len(old) - 1 /\ from + j - 1 <= n
    BY <1>1, <1>4, <1>5, <1>7
  <1>9. OccursAt(text, old, from + i)
    BY <1>3, <1>6, <1>8 DEF OccursAt
  <1> QED
    BY <1>8, <1>9

LEMMA EditedIsExact == FileInv => EditsAreExact
  <1> DEFINE pair == ftCall.pairs[1]
             before == ftCall.before
             starts == Occurrences(before, pair.old)
  <1> SUFFICES ASSUME FileInv, ftCall.tool = "str_replace", ftCall.result = "ok"
               PROVE  \E i \in 0 .. Len(before) - Len(pair.old) :
                          LET head == SubSeq(before, 1, i)
                              tail == SubSeq(before, i + Len(pair.old) + 1, Len(before))
                          IN  /\ before = head \o pair.old \o tail
                              /\ ftDisk = head \o pair.new \o tail
                              /\ pair.old \notin SubSeqs(tail)
    BY DEF EditsAreExact
  <1>1. /\ before \in Texts /\ pair \in Pairs /\ pair.old # pair.new
        /\ ~Refused(before, pair, FALSE) /\ ftDisk = Replace(before, pair.old, pair.new)
    BY DEF FileInv, EditMade, MadeBy
  <1>2. before \in Seq(Chars) /\ pair.old \in Seq(Chars) /\ pair.new \in Seq(Chars)
    BY <1>1, FileAssumption DEF Pairs
  <1>3. pair.old # <<>> /\ starts # {} /\ ~(Cardinality(starts) > 1)
    BY <1>1 DEF Refused
  <1> HIDE DEF pair, before
  <1>4. \A i \in starts : i \in 1 .. Len(before) /\ OccursAt(before, pair.old, i)
    BY <1>2, <1>3, OccurrencesAreReal
  <1>5. PICK s : starts = {s}
    <2>1. Len(before) \in Nat
      BY <1>2
    <2>2. IsFiniteSet(1 .. Len(before))
      BY <2>1, FS_Interval
    <2>3. IsFiniteSet(starts)
      <3>1. starts \in SUBSET (1 .. Len(before))
        BY <1>4
      <3> HIDE DEF starts
      <3> QED
        BY <2>2, <3>1, FS_Subset
    <2>4. Cardinality(starts) \in Nat /\ Cardinality(starts) # 0
      <3> HIDE DEF starts
      <3> QED
        BY <1>3, <2>3, FS_CardinalityType, FS_EmptySet
    <2>5. Cardinality(starts) = 1
      BY <1>3, <2>4
    <2> HIDE DEF starts
    <2> QED
      BY <2>3, <2>5, FS_Singleton
  <1>6. s \in 1 .. Len(before) /\ OccursAt(before, pair.old, s)
    BY <1>4, <1>5
  <1>7. Len(before) \in Nat /\ Len(pair.old) \in Nat \ {0} /\ s + Len(pair.old) - 1 <= Len(before)
    BY <1>2, <1>3, <1>6 DEF OccursAt
  <1> DEFINE head == SubSeq(before, 1, s - 1)
             tail == SubSeq(before, s + Len(pair.old), Len(before))
  <1>8. head \in Seq(Chars) /\ tail \in Seq(Chars) /\ before = (head \o pair.old) \o tail
    BY <1>2, <1>3, <1>6, CutAt
  <1>9. ftDisk = (head \o pair.new) \o tail
    <2>1. ftDisk = head \o (pair.new \o tail)
      BY <1>1, <1>2, <1>3, <1>5, ReplaceTheOnly DEF pair, before
    <2>2. head \in Seq(Chars) /\ tail \in Seq(Chars) /\ pair.new \in Seq(Chars)
      BY <1>2, <1>8
    <2>3. \A u, v, w \in Seq(Chars) : (u \o v) \o w = u \o (v \o w)
      BY ConcatAssociative
    <2> HIDE DEF head, tail
    <2> QED
      BY <2>1, <2>2, <2>3
  <1>10. pair.old \notin SubSeqs(tail)
    <2>1. \A j \in s + Len(pair.old) .. Len(before) : ~OccursAt(before, pair.old, j)
      BY <1>2, <1>3, <1>5, NoneBehindTheOnly
    <2>2. s + Len(pair.old) \in 1 .. Len(before) + 1
      BY <1>6, <1>7
    <2> QED
      BY <1>2, <1>3, <2>1, <2>2, FoundInRest
  <1>11. s - 1 \in 0 .. Len(before) - Len(pair.old) /\ (s - 1) + Len(pair.old) + 1 = s + Len(pair.old)
    BY <1>6, <1>7
  <1> QED
    BY <1>8, <1>9, <1>10, <1>11

(***************************************************************************)
(* The todo list.                                                          *)
(***************************************************************************)
Logged(todos) == [kind : {"turn", "write"}, todos : todos]
TodoLogged == \E lists : tdLog \in Seq(Logged(lists))
TodoInv == TodoLogged /\ LogHasTheList

LEMMA SnapshotPlaces ==
    ASSUME NEW lists, NEW events \in Seq(Logged(lists)), Snapshots(events) # {}
    PROVE  Max(Snapshots(events)) \in 1 .. Len(events)
  <1>1. Len(events) \in Nat /\ Snapshots(events) \subseteq 1 .. Len(events)
    BY DEF Snapshots
  <1>2. Snapshots(events) \in SUBSET (0 .. Len(events))
    BY <1>1
  <1> QED
    BY <1>1, <1>2, MaxOfPlaces

\* The last snapshot of a longer log.
LEMMA SnapshotIsLast ==
    ASSUME NEW lists, NEW events \in Seq(Logged(lists)), NEW todos
    PROVE  /\ Append(events, TodoWrite(todos)) \in Seq(Logged(lists \cup {todos}))
           /\ DeriveTodos(Append(events, TodoWrite(todos))) = todos
  <1> DEFINE more == Append(events, TodoWrite(todos))
             L == Logged(lists \cup {todos})
             n == Len(events) + 1
  <1>1. events \in Seq(L) /\ TodoWrite(todos) \in L
    <2>1. Logged(lists) \subseteq L /\ TodoWrite(todos) \in L
      BY DEF Logged, TodoWrite
    <2> HIDE DEF L
    <2> QED
      BY <2>1, SeqMonotonic
  <1>2. more \in Seq(L) /\ Len(more) = n /\ more[n] = TodoWrite(todos) /\ n \in Nat
    <2> HIDE DEF L
    <2> QED
      BY <1>1, AppendProperties, LenProperties
  <1> HIDE DEF more, n
  <1>3. Snapshots(more) \in SUBSET (0 .. n) /\ n \in Snapshots(more)
    <2>1. DOMAIN more = 1 .. n /\ n \in 1 .. n
      BY <1>2 DEF n
    <2> QED
      BY <1>2, <2>1 DEF Snapshots, TodoWrite
  <1>4. Max(Snapshots(more)) = n
    <2>1. Max(Snapshots(more)) \in Snapshots(more) /\ n <= Max(Snapshots(more))
      BY <1>2, <1>3, MaxOfPlaces
    <2> QED
      BY <1>2, <1>3, <2>1
  <1>5. DeriveTodos(more) = todos
    BY <1>2, <1>3, <1>4 DEF DeriveTodos, TodoWrite
  <1> QED
    BY <1>2, <1>5 DEF more

\* A turn that begins leaves the snapshots where they are.
LEMMA TurnIsNoSnapshot ==
    ASSUME NEW lists, NEW events \in Seq(Logged(lists))
    PROVE  /\ \E more : Append(events, TurnMark) \in Seq(Logged(more))
           /\ DeriveTodos(Append(events, TurnMark)) = DeriveTodos(events)
  <1> DEFINE none == <<>>
             L == Logged(lists \cup {none})
             more == Append(events, TurnMark)
             n == Len(events) + 1
  <1>1. events \in Seq(L) /\ TurnMark \in L
    <2>1. Logged(lists) \subseteq L
      BY DEF Logged
    <2>2. TurnMark = [kind |-> "turn", todos |-> none]
      BY DEF TurnMark
    <2>3. TurnMark \in L
      <3> HIDE DEF none
      <3> QED
        BY <2>2 DEF Logged
    <2> HIDE DEF L
    <2> QED
      BY <2>1, <2>3, SeqMonotonic
  <1>2. /\ more \in Seq(L) /\ Len(more) = n /\ more[n] = TurnMark /\ n \in Nat
        /\ \A i \in 1 .. Len(events) : more[i] = events[i]
        /\ Len(events) \in Nat
    <2> HIDE DEF L
    <2> QED
      BY <1>1, AppendProperties, LenProperties
  <1> HIDE DEF more
  <1>3. Snapshots(more) = Snapshots(events)
    <2>1. DOMAIN more = 1 .. n /\ DOMAIN events = 1 .. Len(events)
      BY <1>2
    <2>2. more[n].kind # "write"
      BY <1>2 DEF TurnMark
    <2>3. \A i \in 1 .. n : i \in 1 .. Len(events) \/ i = n
      BY <1>2
    <2>4. \A i \in 1 .. Len(events) : i \in 1 .. n
      BY <1>2
    <2> HIDE DEF n
    <2> QED
      BY <1>2, <2>1, <2>2, <2>3, <2>4 DEF Snapshots
  <1>4. DeriveTodos(more) = DeriveTodos(events)
    <2>1. CASE Snapshots(events) = {}
      BY <1>3, <2>1 DEF DeriveTodos
    <2>2. CASE Snapshots(events) # {}
      <3>1. Max(Snapshots(events)) \in 1 .. Len(events)
        BY <2>2, SnapshotPlaces
      <3>2. more[Max(Snapshots(events))] = events[Max(Snapshots(events))]
        BY <1>2, <3>1
      <3> QED
        BY <1>3, <2>2, <3>2 DEF DeriveTodos
    <2> QED
      BY <2>1, <2>2
  <1> QED
    BY <1>2, <1>4 DEF more

\* A list of items that do not share their ids, and the lists the log may have.
ItemSet == [id : TodoIds, status : Statuses]
OwnIds(items) == \A i, j \in 1 .. Len(items) : items[i].id = items[j].id => i = j
Lists == {items \in Seq(ItemSet) : OwnIds(items)}

TodoTyped ==
    /\ tdWired \in BOOLEAN /\ tdItems \in Lists /\ tdLog \in Seq(Logged(Lists))
    /\ tdTurn \in {"none", "own", "sub"} /\ tdTasks \in Seq({"pending", "completed", "failed"})

LEMMA NoItems == <<>> \in Lists
  <1> DEFINE none == <<>>
  <1>1. none \in Seq(ItemSet) /\ Len(none) = 0
    OBVIOUS
  <1> HIDE DEF none
  <1>2. OwnIds(none)
    <2>1. 1 .. Len(none) = {}
      BY <1>1
    <2> QED
      BY <2>1 DEF OwnIds
  <1>3. none \in Lists
    BY <1>1, <1>2 DEF Lists
  <1> QED
    BY <1>3 DEF none

\* What is retained has the ids it had, in their order.
LEMMA RetainKeepsIds ==
    ASSUME NEW items \in Lists, NEW places
    PROVE  Retain(items, places) \in Lists
  <1> DEFINE none == <<>>
             n == Len(items)
             s == [i \in 1 .. n |-> IF i \in places THEN << items[i] >> ELSE none]
             u == FlattenSeq(s)
  <1>1. n \in Nat /\ items \in Seq(ItemSet) /\ OwnIds(items) /\ \A i \in 1 .. n : items[i] \in ItemSet
    BY DEF Lists
  <1>2. Retain(items, places) = u
    BY DEF Retain
  <1>3. \A i \in 1 .. n : s[i] = IF i \in places THEN << items[i] >> ELSE none
    OBVIOUS
  <1>4. s \in [1 .. n -> Seq(ItemSet)] /\ \A i \in 1 .. n : Len(s[i]) <= 1
    <2>1. ASSUME NEW i \in 1 .. n PROVE s[i] \in Seq(ItemSet) /\ Len(s[i]) <= 1
      <3>1. << items[i] >> \in Seq(ItemSet) /\ Len(<< items[i] >>) = 1 /\ none \in Seq(ItemSet) /\ Len(none) = 0
        BY <1>1
      <3> HIDE DEF none
      <3> QED
        BY <3>1
    <2>2. s = [i \in 1 .. n |-> s[i]]
      OBVIOUS
    <2> HIDE DEF s
    <2> QED
      BY <2>1, <2>2
  <1>5. \A i \in 1 .. n : s[i] # none => s[i][1] = items[i]
    BY <1>3
  <1> HIDE DEF s
  <1>6. u \in Seq(ItemSet) /\ \E p \in [0 .. n -> Nat] : LandsAt(p, n, s, u)
    BY <1>1, <1>4, FlattenedPlaces
  <1>7. PICK p \in [0 .. n -> Nat] : LandsAt(p, n, s, u)
    BY <1>6
  <1>8. p[0] = 0 /\ p[n] = Len(u) /\ 0 \in 0 .. n /\ n \in 0 .. n
    BY <1>1, <1>7 DEF LandsAt
  <1>9. ASSUME NEW q \in 1 .. Len(u) PROVE \E k \in 1 .. n : p[k] = q /\ u[q] = items[k]
    <2>1. LandsBetween(p, s, u, 0, n)
      BY <1>1, <1>7, <1>8, PlacesBetween
    <2>2. q \in p[0] + 1 .. p[n]
      BY <1>8
    <2>3. PICK k \in 0 + 1 .. n : s[k] # none /\ p[k] = q /\ u[q] = s[k][1]
      BY <2>1, <2>2 DEF LandsBetween
    <2>4. k \in 1 .. n
      BY <1>1
    <2> QED
      BY <1>5, <2>3, <2>4
  <1> HIDE DEF u
  <1>10. OwnIds(u)
    <2> SUFFICES ASSUME NEW i \in 1 .. Len(u), NEW j \in 1 .. Len(u), u[i].id = u[j].id PROVE i = j
      BY DEF OwnIds
    <2>1. PICK k \in 1 .. n : p[k] = i /\ u[i] = items[k]
      BY <1>9
    <2>2. PICK m \in 1 .. n : p[m] = j /\ u[j] = items[m]
      BY <1>9
    <2>3. k = m
      BY <1>1, <2>1, <2>2 DEF OwnIds
    <2> QED
      BY <2>1, <2>2, <2>3
  <1> QED
    BY <1>2, <1>6, <1>10 DEF Lists

\* A status is set, and the ids stay.
LEMMA SetStatusKeepsIds ==
    ASSUME NEW items \in Lists, NEW id, NEW status \in Statuses
    PROVE  SetStatus(items, id, status) \in Lists
  <1> DEFINE u == SetStatus(items, id, status)
  <1>1. items \in Seq(ItemSet) /\ Len(items) \in Nat /\ DOMAIN items = 1 .. Len(items)
    BY DEF Lists
  <1>2. u = [i \in 1 .. Len(items) |-> IF items[i].id = id THEN [items[i] EXCEPT !.status = status] ELSE items[i]]
    BY <1>1 DEF SetStatus
  <1>3. \A i \in 1 .. Len(items) : u[i] \in ItemSet /\ u[i].id = items[i].id
    <2> SUFFICES ASSUME NEW i \in 1 .. Len(items) PROVE u[i] \in ItemSet /\ u[i].id = items[i].id
      OBVIOUS
    <2>1. items[i] \in ItemSet
      BY <1>1
    <2>2. u[i] = IF items[i].id = id THEN [items[i] EXCEPT !.status = status] ELSE items[i]
      BY <1>2
    <2> HIDE DEF u
    <2> QED
      BY <2>1, <2>2 DEF ItemSet
  <1>4. u = [i \in 1 .. Len(items) |-> u[i]]
    BY <1>2
  <1> HIDE DEF u
  <1>5. u \in Seq(ItemSet) /\ Len(u) = Len(items)
    BY <1>1, <1>3, <1>4
  <1>6. OwnIds(u)
    BY <1>3, <1>5 DEF Lists, OwnIds
  <1>7. u \in Lists
    BY <1>5, <1>6 DEF Lists
  <1> QED
    BY <1>7 DEF u

LEMMA AddTodoKeepsIds ==
    ASSUME NEW items \in Lists, NEW id \in TodoIds, id \notin Ids(items)
    PROVE  AddTodo(items, id) \in Lists
  <1> DEFINE item == [id |-> id, status |-> "pending"]
             u == Append(items, item)
  <1>1. items \in Seq(ItemSet) /\ Len(items) \in Nat /\ DOMAIN items = 1 .. Len(items) /\ OwnIds(items)
    BY DEF Lists
  <1>2. item \in ItemSet /\ item.id = id
    BY DEF ItemSet, Statuses
  <1>3. \A i \in 1 .. Len(items) : items[i].id # id
    BY <1>1 DEF Ids
  <1> HIDE DEF item
  <1>4. /\ u \in Seq(ItemSet) /\ Len(u) = Len(items) + 1 /\ u[Len(items) + 1] = item
        /\ \A i \in 1 .. Len(items) : u[i] = items[i]
    BY <1>1, <1>2, AppendProperties
  <1> HIDE DEF u
  <1>5. \A i \in 1 .. Len(u) : i \in 1 .. Len(items) \/ i = Len(items) + 1
    BY <1>1, <1>4
  <1>6. OwnIds(u)
    BY <1>1, <1>2, <1>3, <1>4, <1>5 DEF OwnIds
  <1>7. u \in Lists
    BY <1>4, <1>6 DEF Lists
  <1> QED
    BY <1>7 DEF u, item, AddTodo

LEMMA InvokedIsAList ==
    ASSUME tdItems \in Lists, NEW after \in Invoked(tdItems)
    PROVE  after \in Lists
  <1>1. CASE \E id \in TodoIds \ UsedIds : after = AddTodo(tdItems, id)
    BY <1>1, AddTodoKeepsIds DEF UsedIds
  <1>2. CASE \E id \in TodoIds, status \in Statuses : after = SetStatus(tdItems, id, status)
    BY <1>2, SetStatusKeepsIds
  <1>3. CASE \/ \E id \in TodoIds : after = RemoveTodo(tdItems, id)
             \/ \E status \in Statuses \cup {EveryStatus} : after = ClearTodos(tdItems, status)
    BY <1>3, RetainKeepsIds DEF RemoveTodo, ClearTodos
  <1> QED
    BY <1>1, <1>2, <1>3 DEF Invoked

LEMMA DerivedIsAList ==
    ASSUME tdLog \in Seq(Logged(Lists))
    PROVE  DeriveTodos(tdLog) \in Lists
  <1>1. CASE Snapshots(tdLog) = {}
    BY <1>1, NoItems DEF DeriveTodos
  <1>2. CASE Snapshots(tdLog) # {}
    <2>1. Max(Snapshots(tdLog)) \in 1 .. Len(tdLog)
      BY <1>2, SnapshotPlaces
    <2>2. tdLog[Max(Snapshots(tdLog))] \in Logged(Lists)
      BY <2>1
    <2> QED
      BY <1>2, <2>2 DEF DeriveTodos, Logged
  <1> QED
    BY <1>1, <1>2

LEMMA TodoTypesStart == TodoInit => TodoTyped
  <1> SUFFICES ASSUME TodoInit PROVE TodoTyped
    OBVIOUS
  <1>1. tdItems \in Lists
    BY NoItems DEF TodoInit
  <1>2. tdLog \in Seq(Logged(Lists)) /\ tdTasks \in Seq({"pending", "completed", "failed"}) /\ tdTurn = "none"
        /\ tdWired \in BOOLEAN
    BY DEF TodoInit
  <1> QED
    BY <1>1, <1>2 DEF TodoTyped

LEMMA TodoTypesStay == TodoTyped /\ [TodoNext]_tdVars => TodoTyped'
  <1> SUFFICES ASSUME TodoTyped, [TodoNext]_tdVars PROVE TodoTyped'
    OBVIOUS
  <1> DEFINE Phases == {"pending", "completed", "failed"}
  <1>0. /\ tdWired \in BOOLEAN /\ tdItems \in Lists /\ tdLog \in Seq(Logged(Lists)) /\ tdTurn \in {"none", "own", "sub"}
        /\ tdTasks \in Seq(Phases)
    BY DEF TodoTyped
  <1>1. ASSUME NEW items \in Lists, PersistTodoSnapshot(items), tdItems' = items,
               UNCHANGED <<tdWired, tdTurn, tdTasks>>
        PROVE  TodoTyped'
    <2>1. /\ tdLog' = Append(tdLog, TodoWrite(items)) \/ tdLog' = tdLog
          /\ TodoWrite(items) \in Logged(Lists)
      BY <1>1 DEF PersistTodoSnapshot, TodoWrite, Logged
    <2>2. tdLog' \in Seq(Logged(Lists))
      BY <1>0, <2>1, AppendProperties
    <2> QED
      BY <1>0, <1>1, <2>2 DEF TodoTyped
  <1>2. CASE InvokeTodo
    <2>1. PICK after \in Invoked(tdItems) : tdItems' = after /\ PersistTodoSnapshot(after)
      BY <1>2 DEF InvokeTodo
    <2> QED
      BY <1>0, <1>1, <1>2, <2>1, InvokedIsAList DEF InvokeTodo
  <1>3. CASE SubAgentInvokesTodo
    BY <1>0, <1>3, InvokedIsAList DEF SubAgentInvokesTodo, TodoTyped
  <1>4. CASE StartTurn
    <2>1. tdLog' = Append(tdLog, TurnMark) /\ UNCHANGED <<tdWired, tdItems, tdTasks>> /\ tdTurn' = "own"
      BY <1>4 DEF StartTurn
    <2>2. TurnMark \in Logged(Lists)
      <3> DEFINE none == <<>>
      <3>1. TurnMark = [kind |-> "turn", todos |-> none] /\ none \in Lists
        BY NoItems DEF TurnMark
      <3> HIDE DEF none
      <3> QED
        BY <3>1 DEF Logged
    <2>3. tdLog' \in Seq(Logged(Lists))
      BY <1>0, <2>1, <2>2, AppendProperties
    <2> QED
      BY <1>0, <2>1, <2>3 DEF TodoTyped
  <1>5. CASE EndTurn
    BY <1>0, <1>5 DEF EndTurn, TodoTyped
  <1>6. CASE StartTask
    BY <1>0, <1>6 DEF StartTask, TodoTyped
  <1>7. CASE EndTask
    <2>1. PICK status \in {"completed", "failed"} : tdTasks' = [tdTasks EXCEPT ![Len(tdTasks)] = status]
      BY <1>7 DEF EndTask
    <2>2. tdTasks' \in Seq(Phases)
      <3>1. Len(tdTasks) \in Nat /\ tdTasks \in [1 .. Len(tdTasks) -> Phases] /\ status \in Phases
        BY <1>0
      <3> HIDE DEF Phases
      <3>2. tdTasks' \in [1 .. Len(tdTasks) -> Phases]
        BY <2>1, <3>1
      <3> QED
        BY <3>1, <3>2
    <2> QED
      BY <1>0, <1>7, <2>2 DEF EndTask, TodoTyped
  <1>8. CASE UndoTurn
    <2> DEFINE turns == {i \in DOMAIN tdLog : tdLog[i].kind = "turn"}
    <2>1. tdLog' = SubSeq(tdLog, 1, Max(turns) - 1) /\ turns # {} /\ UNCHANGED <<tdWired, tdItems, tdTurn, tdTasks>>
      BY <1>8 DEF UndoTurn
    <2>2. Len(tdLog) \in Nat /\ DOMAIN tdLog = 1 .. Len(tdLog)
      BY <1>0
    <2>3. turns \in SUBSET (0 .. Len(tdLog))
      BY <2>2
    <2>4. Max(turns) \in 1 .. Len(tdLog)
      <3>1. Max(turns) \in turns
        <4> HIDE DEF turns
        <4> QED
          BY <2>1, <2>2, <2>3, MaxOfPlaces
      <3> QED
        BY <2>2, <3>1
    <2> HIDE DEF turns
    <2>5. tdLog' \in Seq(Logged(Lists))
      <3>1. 1 \in Int /\ Max(turns) - 1 \in Int /\ \A i \in 1 .. Max(turns) - 1 : tdLog[i] \in Logged(Lists)
        BY <1>0, <2>2, <2>4
      <3> QED
        BY <2>1, <3>1, SubSeqProperties
    <2> QED
      BY <1>0, <2>1, <2>5 DEF TodoTyped
  <1>9. CASE Reopen
    <2>1. <<>> \in Seq(Phases)
      OBVIOUS
    <2>2. tdItems' \in Lists
      BY <1>0, <1>9, NoItems, DerivedIsAList DEF Reopen
    <2> QED
      BY <1>0, <1>9, <2>1, <2>2 DEF Reopen, TodoTyped
  <1>10. ASSUME NEW id \in TodoIds, NEW status \in Statuses, SetTodoStatus(id, status) PROVE TodoTyped'
    <2>1. SetStatus(tdItems, id, status) \in Lists
      BY <1>0, SetStatusKeepsIds
    <2> QED
      BY <1>1, <1>10, <2>1 DEF SetTodoStatus
  <1>11. CASE UNCHANGED tdVars
    BY <1>0, <1>11 DEF tdVars, TodoTyped
  <1>12. CASE ClearMessages
    <2>1. <<>> \in Seq(Logged(Lists))
      OBVIOUS
    <2> QED
      BY <1>0, <1>12, <2>1 DEF ClearMessages, TodoTyped
  <1> QED
    BY <1>2, <1>3, <1>4, <1>5, <1>6, <1>7, <1>8, <1>9, <1>10, <1>11, <1>12 DEF TodoNext

\* The list that is derived and the list that is logged.
LEMMA TodoStarts == TodoInit => TodoInv
  <1> SUFFICES ASSUME TodoInit PROVE TodoInv
    OBVIOUS
  <1>1. tdLog \in Seq(Logged({})) /\ Snapshots(tdLog) = {}
    BY DEF TodoInit, Snapshots
  <1> QED
    BY <1>1 DEF TodoInit, TodoInv, TodoLogged, LogHasTheList, DeriveTodos

LEMMA TodoKeeps == TodoInv /\ [TodoNext]_tdVars => TodoInv'
  <1> SUFFICES ASSUME TodoInv, [TodoNext]_tdVars PROVE TodoInv'
    OBVIOUS
  <1>0. PICK lists : tdLog \in Seq(Logged(lists))
    BY DEF TodoInv, TodoLogged
  <1>1. ASSUME NEW items, PersistTodoSnapshot(items), tdItems' = items, tdWired' = tdWired PROVE TodoInv'
    <2>0. CASE ~tdWired
      <3>1. tdLog' = tdLog
        BY <1>1, <2>0 DEF PersistTodoSnapshot
      <3> QED
        BY <1>0, <1>1, <2>0, <3>1 DEF TodoInv, TodoLogged, LogHasTheList
    <2> SUFFICES ASSUME tdWired PROVE TodoInv'
      BY <2>0
    <2>1. tdLog' = Append(tdLog, TodoWrite(items))
      BY <1>1 DEF PersistTodoSnapshot
    <2>2. tdLog' \in Seq(Logged(lists \cup {items}))
      BY <1>0, <2>1, SnapshotIsLast
    <2>3. DeriveTodos(tdLog)' = items
      <3>1. DeriveTodos(Append(tdLog, TodoWrite(items))) = items
        BY <1>0, SnapshotIsLast
      <3> QED
        BY <2>1, <3>1 DEF DeriveTodos, Snapshots
    <2> QED
      BY <1>1, <2>2, <2>3 DEF TodoInv, TodoLogged, LogHasTheList
  <1>2. CASE InvokeTodo
    BY <1>1, <1>2 DEF InvokeTodo
  <1>3. CASE SubAgentInvokesTodo
    BY <1>3 DEF SubAgentInvokesTodo, TodoInv, TodoLogged, LogHasTheList
  <1>4. CASE StartTurn
    <2>1. tdLog' = Append(tdLog, TurnMark) /\ UNCHANGED <<tdWired, tdItems, tdAhead>>
      BY <1>4 DEF StartTurn
    <2>2. TodoLogged'
      BY <1>0, <2>1, TurnIsNoSnapshot DEF TodoLogged
    <2>3. DeriveTodos(tdLog)' = DeriveTodos(tdLog)
      <3>1. DeriveTodos(Append(tdLog, TurnMark)) = DeriveTodos(tdLog)
        BY <1>0, TurnIsNoSnapshot
      <3> QED
        BY <2>1, <3>1 DEF DeriveTodos, Snapshots
    <2> QED
      BY <2>1, <2>2, <2>3 DEF TodoInv, LogHasTheList
  <1>5. CASE EndTurn \/ StartTask \/ EndTask
    <2>1. UNCHANGED <<tdWired, tdItems, tdLog, tdAhead>>
      BY <1>5 DEF EndTurn, StartTask, EndTask
    <2> QED
      BY <2>1 DEF TodoInv, TodoLogged, LogHasTheList
  <1>6. CASE UndoTurn
    <2> DEFINE turns == {i \in DOMAIN tdLog : tdLog[i].kind = "turn"}
    <2>1. tdLog' = SubSeq(tdLog, 1, Max(turns) - 1) /\ turns # {} /\ tdAhead' # {}
      BY <1>6 DEF UndoTurn
    <2>2. Len(tdLog) \in Nat /\ DOMAIN tdLog = 1 .. Len(tdLog)
      BY <1>0
    <2>3. turns \in SUBSET (0 .. Len(tdLog))
      BY <2>2
    <2>4. Max(turns) \in 1 .. Len(tdLog)
      <3>1. Max(turns) \in turns
        <4> HIDE DEF turns
        <4> QED
          BY <2>1, <2>2, <2>3, MaxOfPlaces
      <3> QED
        BY <2>2, <3>1
    <2> HIDE DEF turns
    <2>5. tdLog' \in Seq(Logged(lists))
      <3>1. 1 \in Int /\ Max(turns) - 1 \in Int /\ \A i \in 1 .. Max(turns) - 1 : tdLog[i] \in Logged(lists)
        BY <1>0, <2>2, <2>4
      <3> QED
        BY <2>1, <3>1, SubSeqProperties
    <2> QED
      BY <2>1, <2>5 DEF TodoInv, TodoLogged, LogHasTheList
  <1>7. CASE Reopen
    BY <1>7 DEF Reopen, TodoInv, TodoLogged, LogHasTheList, DeriveTodos, Snapshots
  <1>8. ASSUME NEW id \in TodoIds, NEW status \in Statuses, SetTodoStatus(id, status) PROVE TodoInv'
    BY <1>1, <1>8 DEF SetTodoStatus
  <1>9. CASE UNCHANGED tdVars
    BY <1>9 DEF tdVars, TodoInv, TodoLogged, LogHasTheList, DeriveTodos, Snapshots
  <1>10. CASE ClearMessages
    <2>1. tdLog' = <<>> /\ tdAhead' # {} /\ <<>> \in Seq(Logged(lists))
      BY <1>10 DEF ClearMessages
    <2>2. tdLog' \in Seq(Logged(lists))
      BY <2>1
    <2> QED
      BY <2>1, <2>2 DEF TodoInv, TodoLogged, LogHasTheList
  <1> QED
    BY <1>2, <1>3, <1>4, <1>5, <1>6, <1>7, <1>8, <1>9, <1>10 DEF TodoNext

(***************************************************************************)
(* The shells.  Both properties speak of a call that has ended; the        *)
(* invariant says what makes them true while it runs (RunWaits): the       *)
(* handle is in its slot as long as the outputs are read, so that a        *)
(* timeout finds it there; once it is taken the outputs are at their end   *)
(* and nobody can print any more, or a line was met that is no UTF-8.      *)
(***************************************************************************)
RunSet == [tool : {"bash", "bash_session"}, at : {"idle", "reading", "waiting", "killing", "late"},
            session : SessionIds \cup {Unset}, cd : Places \cup {Unset}, slot : BOOLEAN,
            reported : 0..MaxLines,
            outcome : {"none", "error", "exit", "cancelled", "timeout", "dropped"}]
ProcSet == [shell : BOOLEAN, shellOut : BOOLEAN, helper : BOOLEAN, helperOut : BOOLEAN,
            killed : BOOLEAN, printed : 0..MaxLines, read : 0..MaxLines, deaf : BOOLEAN]
SessionSet == [cwd : Places \cup {Unset}, exports : SUBSET ExportNames]

ShellTyped ==
    /\ shSessions \in [SessionIds -> SessionSet]
    /\ shCall \in RunSet /\ shProc \in ProcSet
    /\ shProc.read <= shProc.printed
    /\ shAbort \in {"none", "quiet", "sent"}

\* What a call in progress waits for.
RunWaits ==
    /\ shCall.at = "reading" => shCall.slot
    /\ shCall.at = "waiting" => AllRead \/ shProc.deaf
    /\ shCall.at \in {"killing", "late"} => shProc.killed

ShellInv == ShellTyped /\ RunWaits /\ EndedCallsLeaveNoShell /\ ExitReportsAll

USE ShellAssumption

LEMMA NoRunTyped ==
    NoRun \in RunSet /\ NoRun.at = "idle" /\ NoRun.slot = FALSE /\ NoRun.outcome = "none"
  BY DEF NoRun, RunSet

LEMMA ShellStarts == ShInit => ShellInv
  <1> SUFFICES ASSUME ShInit PROVE ShellInv
    OBVIOUS
  <1>1. ShellTyped
    BY DEF ShInit, ShellTyped, NoSession, NoRun, NoProc, RunSet, ProcSet, SessionSet
  <1>2. RunWaits /\ EndedCallsLeaveNoShell /\ ExitReportsAll
    BY DEF ShInit, RunWaits, NoRun, NoProc, EndedCallsLeaveNoShell, ExitReportsAll, Active, AllRead, Writers
  <1> QED
    BY <1>1, <1>2 DEF ShellInv

\* Between calls only the sessions and the abort channel change.
LEMMA IdleSteps ==
    ASSUME ShellInv, UNCHANGED <<shCall, shProc>>,
           shSessions' \in [SessionIds -> SessionSet], shAbort' \in {"none", "quiet", "sent"}
    PROVE  ShellInv'
  BY DEF ShellInv, ShellTyped, RunWaits, EndedCallsLeaveNoShell, ExitReportsAll, Active, AllRead, Writers

\* A call starts its shell, or fails without one.
LEMMA Spawning ==
    ASSUME ShellInv, NEW call \in RunSet, NEW dir, call.at = "idle", call.slot = FALSE,
           call.outcome = "none",
           Spawn(call, dir) \/ (shCall' = [call EXCEPT !.outcome = "error"] /\ shProc' = NoProc),
           shSessions' \in [SessionIds -> SessionSet], shAbort' = shAbort
    PROVE  ShellInv'
  <1>1. CASE dir \in Dirs /\ Spawn(call, dir)
    <2>1. /\ shCall' = [call EXCEPT !.at = "reading", !.slot = TRUE]
          /\ shProc' = [NoProc EXCEPT !.shell = TRUE, !.shellOut = TRUE]
      BY <1>1 DEF Spawn
    <2>2. shCall' \in RunSet /\ shCall'.at = "reading" /\ shCall'.slot
      BY <2>1 DEF RunSet
    <2>3. shProc' = [shell |-> TRUE, shellOut |-> TRUE, helper |-> FALSE, helperOut |-> FALSE,
                     killed |-> FALSE, printed |-> 0, read |-> 0, deaf |-> FALSE]
      BY <2>1 DEF NoProc
    <2>4. shProc' \in ProcSet /\ shProc'.read <= shProc'.printed
      BY <2>3 DEF ProcSet
    <2> QED
      BY <2>2, <2>4 DEF ShellInv, ShellTyped, RunWaits, EndedCallsLeaveNoShell, ExitReportsAll, Active
  <1>2. CASE shCall' = [call EXCEPT !.outcome = "error"] /\ shProc' = NoProc
    <2>1. shCall' \in RunSet /\ shCall'.at = "idle" /\ shCall'.outcome = "error"
      BY <1>2 DEF RunSet
    <2>2. shProc' \in ProcSet /\ shProc'.read <= shProc'.printed /\ ~shProc'.shell
      BY <1>2 DEF NoProc, ProcSet
    <2> QED
      BY <2>1, <2>2 DEF ShellInv, ShellTyped, RunWaits, EndedCallsLeaveNoShell, ExitReportsAll, Active
  <1> QED
    BY <1>1, <1>2 DEF Spawn

\* The command prints, closes its outputs, leaves helpers and exits; it cannot get an
\* output back.
LEMMA CommandSteps ==
    ASSUME ShellInv, Command \/ Dies
    PROVE  ShellInv'
  <1>1. ShellTyped'
    <2>1. shProc' \in ProcSet /\ shProc'.read <= shProc'.printed
      <3>1. CASE PrintLine
        BY <3>1 DEF ShellInv, ShellTyped, ProcSet, PrintLine
      <3>2. CASE CloseOutputs \/ ShellExits \/ HelperExits
        BY <3>2 DEF ShellInv, ShellTyped, ProcSet, CloseOutputs, ShellExits, HelperExits
      <3>3. CASE \E out \in BOOLEAN : LeaveHelper(out)
        BY <3>3 DEF ShellInv, ShellTyped, ProcSet, LeaveHelper
      <3> QED
        BY <3>1, <3>2, <3>3 DEF Command, Dies
    <2> QED
      BY <2>1 DEF ShellInv, ShellTyped, Command, Dies
  <1>2. Active /\ UNCHANGED shCall
    BY DEF Command, Dies
  <1>3. ~Writers => ~Writers' /\ shProc'.printed = shProc.printed
    BY DEF Command, Dies, Writers, PrintLine, CloseOutputs, ShellExits, HelperExits, LeaveHelper,
           ShellInv, ShellTyped, ProcSet
  <1>4. shProc'.read = shProc.read /\ shProc'.killed = shProc.killed /\ shProc'.deaf = shProc.deaf
    BY DEF Command, Dies, PrintLine, CloseOutputs, ShellExits, HelperExits, LeaveHelper,
           ShellInv, ShellTyped, ProcSet
  <1>5. RunWaits'
    BY <1>2, <1>3, <1>4 DEF ShellInv, RunWaits, AllRead
  <1> QED
    BY <1>1, <1>2, <1>5 DEF ShellInv, EndedCallsLeaveNoShell, ExitReportsAll, Active

\* The call itself.
LEMMA RunSteps ==
    ASSUME ShellInv,
           ReadOutput \/ ReadsNoUtf8 \/ OutputsEnd \/ Exited \/ Aborted \/ TimedOut \/ Killed \/ Dropped
    PROVE  ShellInv'
  <1> USE DEF ShellInv, ShellTyped, RunSet, ProcSet
  <1>1. CASE ReadOutput \/ ReadsNoUtf8
    <2>1. shCall.at = "reading" /\ UNCHANGED <<shSessions, shCall, shAbort>>
      BY <1>1 DEF ReadOutput, ReadsNoUtf8
    <2>2. shProc' \in ProcSet /\ shProc'.read <= shProc'.printed
      <3>1. CASE ReadOutput
        BY <3>1 DEF ReadOutput
      <3>2. CASE ReadsNoUtf8
        BY <3>2 DEF ReadsNoUtf8
      <3> QED
        BY <1>1, <3>1, <3>2
    <2> QED
      BY <2>1, <2>2 DEF RunWaits, EndedCallsLeaveNoShell, ExitReportsAll, Active
  <1>2. CASE OutputsEnd
    BY <1>2 DEF OutputsEnd, RunWaits, EndedCallsLeaveNoShell, ExitReportsAll, Active, AllRead, Writers
  <1>3. CASE Exited
    <2>1. shSessions' \in [SessionIds -> SessionSet]
      <3>1. CASE shCall.cd \in Dirs \cup Files
        <4>1. shCall.cd \in Places
          BY <3>1
        <4>2. shSessions' = [shSessions EXCEPT ![shCall.session].cwd = shCall.cd]
          BY <1>3, <3>1 DEF Exited
        <4>3. ASSUME NEW id \in SessionIds
              PROVE  [shSessions[id] EXCEPT !.cwd = shCall.cd] \in SessionSet
          BY <4>1 DEF SessionSet
        <4>4. shSessions' = [id \in SessionIds |-> IF id = shCall.session
                                THEN [shSessions[id] EXCEPT !.cwd = shCall.cd] ELSE shSessions[id]]
          BY <4>2
        <4> QED
          BY <4>3, <4>4
      <3>2. CASE shCall.cd \notin Dirs \cup Files
        BY <1>3, <3>2 DEF Exited
      <3> QED
        BY <3>1, <3>2
    <2>2. shCall' = Finish("exit") /\ UNCHANGED <<shProc, shAbort>>
      BY <1>3 DEF Exited
    <2>3. shCall.at = "waiting" /\ ~shProc.shell
      BY <1>3 DEF Exited
    <2> QED
      BY <2>1, <2>2, <2>3 DEF Finish, RunWaits, EndedCallsLeaveNoShell, ExitReportsAll, Active, AllRead, Writers
  <1>4. CASE Aborted
    BY <1>4 DEF Aborted, Kill, RunWaits, EndedCallsLeaveNoShell, ExitReportsAll, Active, AllRead, Writers
  <1>5. CASE TimedOut
    <2>1. CASE shCall.slot
      <3>1. Kill([shCall EXCEPT !.at = "late"]) /\ UNCHANGED <<shSessions, shAbort>>
        BY <1>5, <2>1 DEF TimedOut
      <3> QED
        BY <3>1 DEF Kill, RunWaits, EndedCallsLeaveNoShell, ExitReportsAll, Active, AllRead, Writers
    <2>2. CASE ~shCall.slot
      <3>1. shCall' = Finish("timeout") /\ UNCHANGED <<shProc, shSessions, shAbort>>
        BY <1>5, <2>2 DEF TimedOut
      <3>2. shCall.at \in {"waiting", "killing"}
        BY <1>5, <2>2 DEF TimedOut, RunWaits
      <3> QED
        BY <3>1, <3>2 DEF Finish, RunWaits, EndedCallsLeaveNoShell, ExitReportsAll, Active, AllRead, Writers
    <2> QED
      BY <2>1, <2>2
  <1>6. CASE Killed
    BY <1>6 DEF Killed, Finish, RunWaits, EndedCallsLeaveNoShell, ExitReportsAll, Active, AllRead, Writers
  <1>7. CASE Dropped
    BY <1>7 DEF Dropped, Finish, RunWaits, EndedCallsLeaveNoShell, ExitReportsAll, Active, AllRead, Writers
  <1> QED
    BY <1>1, <1>2, <1>3, <1>4, <1>5, <1>6, <1>7

LEMMA ShellKeeps == ShellInv /\ [ShellNext]_shVars => ShellInv'
  <1> SUFFICES ASSUME ShellInv, [ShellNext]_shVars PROVE ShellInv'
    OBVIOUS
  <1>0. /\ shSessions \in [SessionIds -> SessionSet]
        /\ shAbort \in {"none", "quiet", "sent"}
    BY DEF ShellInv, ShellTyped
  <1>1. ASSUME NEW id \in SessionIds, NEW dir \in Places, NEW exports \in SUBSET ExportNames,
               Create(id, dir, exports)
        PROVE  ShellInv'
    BY <1>0, <1>1, IdleSteps DEF Create, SessionSet
  <1>2. ASSUME NEW id \in SessionIds, Close(id) PROVE ShellInv'
    BY <1>0, <1>2, IdleSteps DEF Close, SessionSet, NoSession
  <1>3. ASSUME NEW id \in SessionIds, NEW exports \in SUBSET ExportNames, Export(id, exports)
        PROVE  ShellInv'
    BY <1>0, <1>3, IdleSteps DEF Export, SessionSet
  <1>4. ASSUME NEW id \in SessionIds, NEW cd \in Places \cup {Unset}, NEW dangerous \in BOOLEAN,
               RunSession(id, cd, dangerous)
        PROVE  ShellInv'
    <2> DEFINE session == IF Exists(id) THEN shSessions[id] ELSE [NoSession EXCEPT !.cwd = Here]
               call == [NoRun EXCEPT !.tool = "bash_session", !.session = id, !.cd = cd]
    <2>1. session \in SessionSet
      BY <1>0 DEF SessionSet, NoSession
    <2>2. call \in RunSet /\ call.at = "idle" /\ call.slot = FALSE /\ call.outcome = "none"
      BY NoRunTyped DEF RunSet
    <2>3. shSessions' \in [SessionIds -> SessionSet]
      BY <1>0, <1>4, <2>1 DEF RunSession
    <2>4. Spawn(call, session.cwd) \/ (shCall' = [call EXCEPT !.outcome = "error"] /\ shProc' = NoProc)
      BY <1>4 DEF RunSession
    <2>5. shAbort' = shAbort
      BY <1>4 DEF RunSession
    <2> HIDE DEF session, call
    <2> QED
      BY <2>2, <2>3, <2>4, <2>5, Spawning
  <1>5. ASSUME NEW dir \in Places, Bash(dir) PROVE ShellInv'
    <2>1. Spawn(NoRun, dir) /\ UNCHANGED <<shSessions, shAbort>>
      BY <1>5 DEF Bash
    <2> QED
      BY <1>0, <2>1, NoRunTyped, Spawning
  <1>6. CASE ReadOutput \/ ReadsNoUtf8 \/ OutputsEnd \/ Exited \/ Aborted \/ TimedOut \/ Killed \/ Dropped
    BY <1>6, RunSteps
  <1>7. CASE SendAbort \/ NewTurn
    BY <1>0, <1>7, IdleSteps DEF SendAbort, NewTurn
  <1>8. CASE Command
    BY <1>8, CommandSteps
  <1>9. CASE UNCHANGED shVars
    BY <1>0, <1>9, IdleSteps DEF shVars
  <1> QED
    BY <1>1, <1>2, <1>3, <1>4, <1>5, <1>6, <1>7, <1>8, <1>9 DEF ShellNext

(***************************************************************************)
(* The four together.                                                      *)
(***************************************************************************)
ToolsInv ==
    /\ CallTyped /\ GrantsInv /\ RunsByRight
    /\ ShellInv /\ FileInv /\ TodoInv /\ TodoTyped

LEMMA ToolsStart == ToolsInit => ToolsInv
  <1> SUFFICES ASSUME ToolsInit PROVE ToolsInv
    OBVIOUS
  <1>1. CallInit /\ ShInit /\ FileInit /\ TodoInit
    BY DEF ToolsInit
  <1>2. CallTyped /\ GrantsInv /\ RunsByRight
    BY <1>1, CallInitTyped, NoCallTyped DEF CallInit, GrantsInv, RunsByRight, CallAt
  <1> QED
    BY <1>1, <1>2, ShellStarts, FileStarts, TodoStarts, TodoTypesStart DEF ToolsInv

\* A step of one part is no step of the others.
LEMMA ToolsParts ==
    ASSUME [ToolsNext]_toolsVars
    PROVE  [CallNext]_tcVars /\ [ShellNext]_shVars /\ [FileNext]_ftVars /\ [TodoNext]_tdVars
  BY DEF ToolsNext, toolsVars, Calling, Shelling, Filing, Listing

LEMMA ToolsKeep == ToolsInv /\ [ToolsNext]_toolsVars => ToolsInv'
  <1> SUFFICES ASSUME ToolsInv, [ToolsNext]_toolsVars PROVE ToolsInv'
    OBVIOUS
  <1>1. [CallNext]_tcVars /\ [ShellNext]_shVars /\ [FileNext]_ftVars /\ [TodoNext]_tdVars
    BY ToolsParts
  <1> QED
    BY <1>1, CallsKeep, ShellKeeps, FileKeeps, TodoKeeps, TodoTypesStay DEF ToolsInv

LEMMA ToolsAlways == ToolsSpec => []ToolsInv
  BY ToolsStart, ToolsKeep, PTL DEF ToolsSpec

\* The calls, shells, files and lists have their types in every reachable state, and no two
\* items of the todo list share an id: set_status and update change the first they find.
THEOREM ToolsTyping == ToolsSpec => []ToolsTypeOK
  <1>1. ToolsInv => CallTypeOK
    BY DEF ToolsInv, CallTyped
  <1>2. ToolsInv => ShellTypeOK
    BY DEF ToolsInv, ShellInv, ShellTyped, ShellTypeOK, RunSet, ProcSet, SessionSet
  <1>3. ToolsInv => FileTypeOK
    BY DEF ToolsInv, FileInv, FileTyping, FileTypeOK, FileCallSet
  <1>4. ToolsInv => TodoTypeOK
    <2>1. TodoTyped => TodoTypeOK
      <3> SUFFICES ASSUME TodoTyped PROVE TodoTypeOK
        OBVIOUS
      <3>1. DOMAIN tdItems = 1 .. Len(tdItems) /\ \A i \in DOMAIN tdItems : tdItems[i] \in ItemSet
        BY DEF TodoTyped, Lists
      <3>2. \A i, j \in DOMAIN tdItems : tdItems[i].id = tdItems[j].id => i = j
        BY <3>1 DEF TodoTyped, Lists, OwnIds
      <3>3. \A i \in DOMAIN tdTasks : tdTasks[i] \in {"pending", "completed", "failed"}
        BY DEF TodoTyped
      <3> QED
        BY <3>1, <3>2, <3>3 DEF TodoTyped, TodoTypeOK, ItemSet
    <2> QED
      BY <2>1 DEF ToolsInv
  <1>5. ToolsInv => ToolsTypeOK
    BY <1>1, <1>2, <1>3, <1>4 DEF ToolsTypeOK
  <1> QED
    BY <1>5, ToolsAlways, PTL

\* Whatever was asked, granted, dropped and called before, what runs in a loop that has a
\* permission checker has the right to: for any tools, paths, commands and policies
\* (permission_checker.rs, agent_loop.rs:1220).
THEOREM ToolsRunByRight == ToolsSpec => []RunsByRight
  <1>1. ToolsInv => RunsByRight
    BY DEF ToolsInv
  <1> QED
    BY <1>1, ToolsAlways, PTL

\* A call that was cancelled has killed its shell, and one that ran into its timeout leaves
\* none that can still print, unless a line it printed was no UTF-8 (bash.rs:221-290,
\* bash_session.rs:309-380).
THEOREM NoShellIsLeft == ToolsSpec => []EndedCallsLeaveNoShell
  <1>1. ToolsInv => EndedCallsLeaveNoShell
    BY DEF ToolsInv, ShellInv
  <1> QED
    BY <1>1, ToolsAlways, PTL

\* A result with an exit status reports every line of the command and of its helpers, when
\* all of them are UTF-8 (bash.rs:240,246; bash_session.rs:342,348).
THEOREM ExitIsComplete == ToolsSpec => []ExitReportsAll
  <1>1. ToolsInv => ExitReportsAll
    BY DEF ToolsInv, ShellInv
  <1> QED
    BY <1>1, ToolsAlways, PTL

\* Whoever reads the file, in whatever step of a write and after a death in any, finds a
\* whole text: for any texts and replacements (edit.rs:237, write_file.rs, delete.rs).
THEOREM FilesStayWhole == ToolsSpec => []NeverTorn
  <1>1. ToolsInv => NeverTorn
    BY DEF ToolsInv, FileInv
  <1> QED
    BY <1>1, ToolsAlways, PTL

\* A str_replace that succeeds replaced the one occurrence there was, whatever the text and
\* the string to find: also one that overlaps itself (str_replace_editor.rs, edit.rs:59-70).
THEOREM EditsReplaceTheOne == ToolsSpec => []EditsAreExact
  <1>1. ToolsInv => EditsAreExact
    BY EditedIsExact DEF ToolsInv
  <1> QED
    BY <1>1, ToolsAlways, PTL

\* In a loop that was given the list, the list and its last snapshot in the log are the same,
\* but for an undo, a cleared conversation and a sub-agent (agent_loop.rs:509).
THEOREM ListIsLogged == ToolsSpec => []LogHasTheList
  <1>1. ToolsInv => LogHasTheList
    BY DEF ToolsInv, TodoInv
  <1> QED
    BY <1>1, ToolsAlways, PTL
=============================================================================
