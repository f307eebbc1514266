----------------------------- MODULE FileTools -----------------------------
(***************************************************************************)
(* The tools that change files: write_file, edit, str_replace_editor and   *)
(* delete (tools/builtins/*.rs), on the file they are called for.          *)
(*                                                                         *)
(* All but delete write a sibling and rename it over the file.  edit and   *)
(* str_replace read the file back and put the text they had read before    *)
(* when it is not what they wrote; write_file only reports it.  No step    *)
(* waits for anything, but the user's editor may save between any two, an  *)
(* operation may fail, and the process may die.                            *)
(***************************************************************************)
EXTENDS Naturals, Sequences, FiniteSets, SequencesExt

CONSTANTS
    Texts,          \* bound: what the file may hold before a call
    Parts,          \* the strings the model gives: to find, to put, to write
    Saves,          \* what the user may save
    MaxSaves,       \* bound: saves during a call
    MaxPairs        \* bound: replacements of an edit call

VARIABLES
    ftDisk,         \* the file
    ftTmp,          \* its temporary sibling
    ftCall,         \* the call in progress, and the result of the last one
    ftSaved         \* what the user saved during the call

ftVars == <<ftDisk, ftTmp, ftCall, ftSaved>>

\* No file, and a file of which an unknown part is written: texts nothing else has.
Gone == <<"gone">>
Torn == <<"torn">>
Newline == "n"

Chars == {Newline} \cup UNION {Range(text) : text \in Texts \cup Parts \cup Saves}
ASSUME FileAssumption ==
    /\ Texts \cup Parts \cup Saves \subseteq Seq(Chars)
    /\ {"gone", "torn"} \cap Chars = {}
    /\ MaxSaves \in Nat /\ MaxPairs \in Nat

NoFileCall == [tool |-> "edit", at |-> "idle", before |-> Gone, target |-> Gone,
               pairs |-> <<>>, result |-> "none"]

FileInit ==
    /\ ftDisk \in Texts \cup {Gone} /\ ftTmp = Gone
    /\ ftCall = [NoFileCall EXCEPT !.before = ftDisk] /\ ftSaved = {}

(***************************************************************************)
(* What an edit makes of a text.                                           *)
(***************************************************************************)
\* count_occurrences: from left to right, without overlaps.
Occurrences(text, old) ==
    LET at(i) == i + Len(old) - 1 <= Len(text) /\ SubSeq(text, i, i + Len(old) - 1) = old
        from[i \in 1..Len(text) + 1] ==
            IF i > Len(text) THEN {}
            ELSE IF at(i) THEN {i} \cup from[i + Len(old)] ELSE from[i + 1]
    IN  from[1]

\* str::replace, at the occurrences counted.
Replace(text, old, new) ==
    LET starts == Occurrences(text, old)
        from[i \in 1..Len(text) + 1] ==
            IF i > Len(text) THEN <<>>
            ELSE IF i \in starts THEN new \o from[i + Len(old)] ELSE <<text[i]>> \o from[i + 1]
    IN  from[1]

\* A bug: several occurrences are as good as one.
RefusedNever(text, pair, all) ==
    \/ pair.old = <<>>
    \/ pair.old # pair.new /\ Occurrences(text, pair.old) = {}
\* A pair that finds nothing, or too much, fails the call; one that changes nothing is skipped.
Refused(text, pair, all) ==
    \/ pair.old = <<>>
    \/ pair.old # pair.new /\ LET starts == Occurrences(text, pair.old)
                              IN  starts = {} \/ (~all /\ Cardinality(starts) > 1)

\* The text after each pair, up to the first that is refused.
Edited(text, pairs, all) ==
    LET after[k \in 0..Len(pairs)] ==
            IF k = 0 THEN text
            ELSE IF after[k - 1] = Torn \/ Refused(after[k - 1], pairs[k], all) THEN Torn
            ELSE Replace(after[k - 1], pairs[k].old, pairs[k].new)
    IN  after[Len(pairs)]

\* insert_at_line: before the line that has as many before it, or after the last.
InsertAtLine(text, line, new) ==
    LET starts == {1} \cup {i + 1 : i \in {j \in DOMAIN text : text[j] = Newline}}
        idx == IF line = 0 THEN 0 ELSE line - 1
        places == {i \in starts : Cardinality({j \in starts : j < i}) = idx}
    IN  IF places = {} THEN text \o <<Newline>> \o new
        ELSE LET i == CHOOSE i \in places : TRUE
             IN  SubSeq(text, 1, i - 1) \o new \o <<Newline>> \o SubSeq(text, i, Len(text))

(***************************************************************************)
(* The calls.                                                              *)
(***************************************************************************)
Starts(tool, pairs) == [NoFileCall EXCEPT !.tool = tool, !.before = ftDisk, !.pairs = pairs]
Fails(call) == ftCall' = [call EXCEPT !.result = "error"]
Writes(call, target) == ftCall' = [call EXCEPT !.at = "create", !.target = target]
Begins ==
    /\ ftCall.at = "idle" /\ ftDisk \in Texts \cup {Gone}
    /\ ftSaved' = {} /\ ftTmp' = Gone

WriteFile(text) ==
    /\ Begins /\ Writes(Starts("write_file", <<>>), text)
    /\ UNCHANGED ftDisk

CreateFile(text) ==
    LET call == Starts("create", <<>>) IN
    /\ Begins
    /\ IF ftDisk # Gone \/ text = <<>> THEN Fails(call) ELSE Writes(call, text)
    /\ UNCHANGED ftDisk

\* edit, and str_replace with its one pair.
Edit(tool, pairs, all) ==
    LET call == Starts(tool, pairs)
        text == Edited(ftDisk, pairs, all)
    IN  /\ Begins
        /\ CASE ftDisk = Gone -> Fails(call)
             [] ftDisk # Gone /\ text = Torn -> Fails(call)
             [] ftDisk # Gone /\ \A k \in DOMAIN pairs : pairs[k].old = pairs[k].new ->
                    ftCall' = [call EXCEPT !.result = "no-op"]
             [] OTHER -> Writes(call, text)
        /\ UNCHANGED ftDisk

Insert(line, text) ==
    LET call == Starts("insert", <<>>) IN
    /\ Begins
    /\ IF ftDisk = Gone THEN Fails(call) ELSE Writes(call, InsertAtLine(ftDisk, line, text))
    /\ UNCHANGED ftDisk

Delete ==
    LET call == Starts("delete", <<>>) IN
    /\ Begins
    /\ IF ftDisk = Gone THEN Fails(call) /\ UNCHANGED ftDisk
       ELSE ftCall' = [call EXCEPT !.result = "ok"] /\ ftDisk' = Gone

(***************************************************************************)
(* write_file_atomic and what follows it.                                  *)
(***************************************************************************)
Verifies == ftCall.tool \in {"write_file", "edit", "str_replace"}
Restores == ftCall.tool \in {"edit", "str_replace"}
Ends(result) == ftCall' = [ftCall EXCEPT !.at = "idle", !.result = result]
To(at) == ftCall' = [ftCall EXCEPT !.at = at]
Undoing == ftCall.result = "mismatch"

\* A bug: the file itself is opened for writing.
CreateInPlace ==
    /\ ftCall.at = "create" /\ ftTmp' = Torn /\ ftDisk' = Torn /\ To("fill")
    /\ UNCHANGED ftSaved

CreateTmp ==
    /\ ftCall.at = "create" /\ ftTmp' = Torn /\ To("fill")
    /\ UNCHANGED <<ftDisk, ftSaved>>

FillTmp ==
    /\ ftCall.at = "fill" /\ ftTmp' = ftCall.target /\ To("rename")
    /\ UNCHANGED <<ftDisk, ftSaved>>

RenameTmp ==
    /\ ftCall.at = "rename"
    /\ ftDisk' = ftTmp /\ ftTmp' = Gone
    /\ IF Undoing THEN Ends("error") ELSE IF Verifies THEN To("verify") ELSE Ends("ok")
    /\ UNCHANGED ftSaved

\* The file is read back.
Verify ==
    /\ ftCall.at = "verify"
    /\ CASE ftDisk = ftCall.target -> Ends("ok")
         [] ftDisk = Gone -> Ends("unread")
         [] ftDisk \notin {ftCall.target, Gone} /\ ~Restores -> Ends("error")
         [] OTHER -> ftCall' = [ftCall EXCEPT !.at = "create", !.target = ftCall.before,
                                              !.result = "mismatch"]
    /\ UNCHANGED <<ftDisk, ftTmp, ftSaved>>

\* A full disk, a missing right: the sibling stays, the error of an undo is dropped.
OperationFails ==
    /\ ftCall.at \in {"create", "fill", "rename", "verify"}
    /\ Ends(IF ftCall.at = "verify" THEN "unread" ELSE "error")
    /\ UNCHANGED <<ftDisk, ftTmp, ftSaved>>

\* The process dies, and leaves the sibling.
ToolDies ==
    /\ ftCall.at # "idle" /\ Ends("died")
    /\ UNCHANGED <<ftDisk, ftTmp, ftSaved>>

UserSaves(text) ==
    /\ ftCall.at # "idle" /\ Cardinality(ftSaved) < MaxSaves /\ text \notin ftSaved
    /\ ftDisk' = text /\ ftSaved' = ftSaved \cup {text}
    /\ UNCHANGED <<ftTmp, ftCall>>

FileStep ==
    \/ CreateTmp \/ FillTmp \/ RenameTmp \/ Verify \/ OperationFails \/ ToolDies
    \/ \E text \in Saves \cup {Gone} : UserSaves(text)

Pairs == [old : Parts, new : Parts]

FileNext ==
    \/ \E text \in Parts : WriteFile(text) \/ CreateFile(text)
    \/ \E pairs \in UNION {[1..k -> Pairs] : k \in 1..MaxPairs}, all \in BOOLEAN : Edit("edit", pairs, all)
    \/ \E pair \in Pairs : Edit("str_replace", <<pair>>, FALSE)
    \/ \E line \in 0..3, text \in Parts : Insert(line, text)
    \/ Delete \/ FileStep

-----------------------------------------------------------------------------
FileTypeOK ==
    /\ ftCall.at \in {"idle", "create", "fill", "rename", "verify"}
    /\ ftCall.result \in {"none", "ok", "no-op", "error", "mismatch", "unread", "died"}
    /\ ftTmp \in {Gone, Torn, ftCall.target}

\* edit.rs:237: no reader, and no process started after a death in the middle of a write,
\* finds a part of a text; it finds what was there before, what was to be written, or what
\* the user saved.
NeverTorn == ftDisk \in {ftCall.before, ftCall.target} \cup ftSaved \cup {Gone}
                 /\ ftDisk # Torn
                 /\ (ftDisk = Gone => ftCall.before = Gone \/ Gone \in ftSaved \/ ftCall.tool = "delete")

\* An edit of one pair that succeeds without replace_all has put the new text for one
\* occurrence of the old and touched nothing else, and no second occurrence follows it.
EditsAreExact ==
    ftCall.tool = "str_replace" /\ ftCall.result = "ok" /\ ftSaved = {} =>
        LET pair == ftCall.pairs[1]
            before == ftCall.before
        IN  \E i \in 0..Len(before) - Len(pair.old) :
                LET head == SubSeq(before, 1, i)
                    tail == SubSeq(before, i + Len(pair.old) + 1, Len(before))
                IN  /\ before = head \o pair.old \o tail
                    /\ ftDisk = head \o pair.new \o tail
                    /\ pair.old \notin SubSeqs(tail)
=============================================================================
