----------------------------- MODULE UndoStack -----------------------------
(***************************************************************************)
(* What an undo facility for file edits promises, with no notion of how    *)
(* much of the disk it remembers: every turn saves the WHOLE disk, and     *)
(* undoing the turn gives every file back, except files that changed       *)
(* behind the facility's back while the turn was open.  The checkpointer   *)
(* of core/rewind.rs saves only the files a tool announces; module         *)
(* FileCheckpointer states that this is enough.                            *)
(***************************************************************************)
EXTENDS Naturals, Sequences

CONSTANTS
    Paths,      \* the files of the workspace
    Images,     \* what a path can hold: a content, or nothing
    Marks       \* what turns are saved under: 0, or growing marks

VARIABLES
    disk,       \* the file system: path -> image
    stack       \* open turns, oldest first: mark, saved disk, spoilt paths

vars == <<disk, stack>>

Top == stack[Len(stack)]
Rest == SubSeq(stack, 1, Len(stack) - 1)

(* The files in S were changed without the facility being told. *)
Spoil(st, S) ==
    IF st = <<>> THEN st
    ELSE LET t == st[Len(st)]
         IN  [st EXCEPT ![Len(st)] =
                [mark |-> t.mark, base |-> t.base, spoilt |-> t.spoilt \cup S]]

Init ==
    /\ disk \in [Paths -> Images]
    /\ stack = <<>>

(* A turn begins: the disk of this moment is what undoing it must restore. *)
(* A mark other than 0 is above those of the turns before.                 *)
Save(m) ==
    /\ stack # <<>> => m > Top.mark \/ (m = 0 /\ Top.mark = 0)
    /\ stack' = Append(stack, [mark |-> m, base |-> disk, spoilt |-> {}])
    /\ UNCHANGED disk

(* An announced edit of p. *)
Edit(p) ==
    /\ \E c \in Images : disk' = [disk EXCEPT ![p] = c]
    /\ UNCHANGED stack

(* An edit of p the facility does not learn of. *)
Meddle(p) ==
    /\ \E c \in Images : disk' = [disk EXCEPT ![p] = c]
    /\ stack' = Spoil(stack, {p})

(* One file of the last turn is given back. *)
GiveBack(p) ==
    /\ stack # <<>>
    /\ \E c \in Images :
         /\ p \notin Top.spoilt => c = Top.base[p]
         /\ disk' = [disk EXCEPT ![p] = c]
    /\ UNCHANGED stack

(* The last turn is undone; the files in failed could not be written.  It  *)
(* alone is forgotten, unless turns are saved without marks.               *)
Undo(failed) ==
    /\ stack # <<>>
    /\ disk' \in [Paths -> Images]
    /\ \A p \in Paths \ (Top.spoilt \cup failed) : disk'[p] = Top.base[p]
    /\ stack' = Spoil(IF Top.mark = 0 THEN <<>> ELSE Rest, Top.spoilt \cup failed)

Forget ==
    /\ stack' = <<>>
    /\ UNCHANGED disk

Next ==
    \/ \E m \in Marks : Save(m)
    \/ \E p \in Paths : Edit(p) \/ Meddle(p) \/ GiveBack(p)
    \/ \E failed \in SUBSET Paths : Undo(failed)
    \/ Forget

Spec == Init /\ [][Next]_vars
=============================================================================
