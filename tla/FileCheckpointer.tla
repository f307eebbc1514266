-------------------------- MODULE FileCheckpointer --------------------------
(***************************************************************************)
(* FileCheckpointer of crates/arrow-coder-core/src/core/rewind.rs: the     *)
(* stack of per-turn file snapshots that /undo and the pending-changes     *)
(* panel are built on.  A checkpoint is opened when a turn starts, a file  *)
(* is snapshotted just before a tool writes it, and undoing pops the top   *)
(* checkpoint and writes its snapshots back.                               *)
(*                                                                         *)
(* The fields base and blind of a checkpoint are history: the disk when    *)
(* the checkpoint was opened, and the paths that changed behind the        *)
(* checkpointer (a bash command, the user's editor, a snapshot that could  *)
(* not be read, a restore that failed) while it was the latest one.        *)
(***************************************************************************)
EXTENDS Naturals, Sequences

CONSTANTS
    Paths,            \* files of the workspace
    Contents,         \* what a file can hold
    Absent,           \* "the file does not exist" (content: None)
    NoSnapshot,       \* no entry for the path in a checkpoint
    Indices,          \* message indices a caller passes to create_checkpoint
    MaxCheckpoints    \* bound: open checkpoints

ASSUME ImagesAssumption ==
    /\ Absent \notin Contents
    /\ NoSnapshot \notin Contents \cup {Absent}
ASSUME IndicesAssumption == Indices \subseteq Nat
ASSUME BoundAssumption == MaxCheckpoints \in Nat

VARIABLES
    disk,             \* path -> image
    checkpoints       \* FileCheckpointer.checkpoints

vars == <<disk, checkpoints>>

Images == Contents \cup {Absent}

Checkpoint ==
    [index : Nat,
     files : [Paths -> Images \cup {NoSnapshot}],
     base : [Paths -> Images],
     blind : SUBSET Paths]

NewCheckpoint(i) ==
    [index |-> i, files |-> [p \in Paths |-> NoSnapshot],
     base |-> disk, blind |-> {}]

(* checkpoints.last(), and what pop() leaves. *)
Top == checkpoints[Len(checkpoints)]
Rest == SubSeq(checkpoints, 1, Len(checkpoints) - 1)
WithTop(cp) == [checkpoints EXCEPT ![Len(checkpoints)] = cp]
Snapshotted(cp) == {p \in Paths : cp.files[p] # NoSnapshot}

(* The paths S changed unseen: recorded in the latest checkpoint of cps. *)
Blinded(cps, S) ==
    IF cps = <<>> THEN cps
    ELSE LET cp == cps[Len(cps)]
         IN  [cps EXCEPT ![Len(cps)] = [cp EXCEPT !.blind = cp.blind \cup S]]

Init ==
    /\ disk \in [Paths -> Images]
    /\ checkpoints = <<>>

CreateCheckpoint(i) ==
    /\ Len(checkpoints) < MaxCheckpoints
    /\ checkpoints' = Append(checkpoints, NewCheckpoint(i))
    /\ UNCHANGED disk

(* A bug: a later snapshot of the path replaces the first. *)
SnapshotFileAgain(p) ==
    /\ checkpoints # <<>>
    /\ checkpoints' = WithTop([Top EXCEPT !.files[p] = disk[p]])
    /\ UNCHANGED disk

(* snapshot_file: the first snapshot of a path in a checkpoint is kept.    *)
(* FileSnapshot::from_disk turns any read error into None, as if the file  *)
(* were absent.                                                            *)
SnapshotFile(p) ==
    /\ checkpoints # <<>>
    /\ Top.files[p] = NoSnapshot
    /\ \E image \in {disk[p], Absent} :
         checkpoints' = WithTop([Top EXCEPT !.files[p] = image, !.blind =
                          IF image = disk[p] THEN Top.blind ELSE Top.blind \cup {p}])
    /\ UNCHANGED disk

(* A tool writes, creates or deletes a file snapshot_tool_targets announced. *)
ToolWrite(p) ==
    /\ checkpoints # <<>>
    /\ Top.files[p] # NoSnapshot
    /\ \E c \in Images : disk' = [disk EXCEPT ![p] = c]
    /\ UNCHANGED checkpoints

(* A write nobody announced: a bash command, the user, a write of a        *)
(* cancelled tool that lands late.                                         *)
ForeignWrite(p) ==
    /\ \E c \in Images : disk' = [disk EXCEPT ![p] = c]
    /\ checkpoints' = Blinded(checkpoints, {p})

(* What a restore of p that fails can leave: removing fails without an     *)
(* effect, writing may have truncated the file before it failed.           *)
LeftByFailure(p, image) ==
    IF image = Absent THEN {disk[p]} ELSE {disk[p]} \cup Contents

(* A bug: a file that did not exist is not removed. *)
RestoreAndPopKeepsNew(failed) ==
    /\ checkpoints # <<>>
    /\ failed = {}
    /\ disk' = [p \in Paths |-> IF Top.files[p] \in Contents THEN Top.files[p] ELSE disk[p]]
    /\ checkpoints' = <<>>

(* restore_and_pop: the checkpoint is popped first; a file that cannot be  *)
(* restored is reported and skipped; then retain() keeps the checkpoints   *)
(* with a smaller index, which is a prefix of the stack.                   *)
RestoreAndPop(failed) ==
    /\ checkpoints # <<>>
    /\ failed \subseteq Snapshotted(Top)
    /\ disk' \in [Paths -> Images]
    /\ \A p \in Paths :
         disk'[p] \in IF p \in failed THEN LeftByFailure(p, Top.files[p])
                      ELSE IF p \in Snapshotted(Top) THEN {Top.files[p]}
                      ELSE {disk[p]}
    /\ \E k \in 0 .. Len(Rest) :
         /\ \A j \in 1 .. Len(Rest) : Rest[j].index < Top.index <=> j <= k
         /\ checkpoints' = Blinded(SubSeq(Rest, 1, k), Top.blind \cup failed)

(* restore_file: one file of the latest checkpoint; its entry goes away.   *)
RestoreFile(p) ==
    /\ checkpoints # <<>>
    /\ Top.files[p] # NoSnapshot
    /\ disk' = [disk EXCEPT ![p] = Top.files[p]]
    /\ checkpoints' = WithTop([Top EXCEPT !.files[p] = NoSnapshot])

(* A bug: the entry goes away even though the write failed. *)
RestoreFileFailsForgets(p) ==
    /\ checkpoints # <<>>
    /\ Top.files[p] # NoSnapshot
    /\ \E c \in LeftByFailure(p, Top.files[p]) : disk' = [disk EXCEPT ![p] = c]
    /\ checkpoints' = WithTop([Top EXCEPT !.files[p] = NoSnapshot])

(* restore_file returns Err: the entry stays, so it can be tried again.    *)
RestoreFileFails(p) ==
    /\ checkpoints # <<>>
    /\ Top.files[p] # NoSnapshot
    /\ \E c \in LeftByFailure(p, Top.files[p]) : disk' = [disk EXCEPT ![p] = c]
    /\ UNCHANGED checkpoints

Clear ==
    /\ checkpoints' = <<>>
    /\ UNCHANGED disk

Operation ==
    \/ \E p \in Paths :
         \/ SnapshotFile(p)
         \/ ToolWrite(p)
         \/ ForeignWrite(p)
         \/ RestoreFile(p)
         \/ RestoreFileFails(p)
    \/ \E failed \in SUBSET Paths : RestoreAndPop(failed)
    \/ Clear

(* What callers pass as the index: a position in the messages, as the      *)
(* documentation of rewind.rs and its tests have it, so that every turn    *)
(* opens at a larger one, or always 0, as AgentLoop::snapshot_messages     *)
(* does.                                                                   *)
Fresh(i) == checkpoints # <<>> => i > Top.index \/ (i = 0 /\ Top.index = 0)

Next == Operation \/ \E i \in Indices : Fresh(i) /\ CreateCheckpoint(i)

Spec == Init /\ [][Next]_vars

-----------------------------------------------------------------------------
(* Properties *)

TypeOK ==
    /\ disk \in [Paths -> Images]
    /\ checkpoints \in Seq(Checkpoint)
    /\ Len(checkpoints) <= MaxCheckpoints

(* The disk as the turn of the k-th checkpoint left it. *)
DiskAfter(k) ==
    IF k = Len(checkpoints) THEN disk ELSE checkpoints[k + 1].base

(* Every file that differs from what it was when its turn began has a      *)
(* snapshot in that turn's checkpoint, and the snapshot is the content the *)
(* file had then: the few files snapshot_tool_targets announces are enough *)
(* to give the whole disk back, whatever was undone or restored before.    *)
SnapshotsCoverChanges ==
    \A k \in 1 .. Len(checkpoints) :
      \A p \in Paths \ checkpoints[k].blind :
        IF checkpoints[k].files[p] = NoSnapshot
          THEN DiskAfter(k)[p] = checkpoints[k].base[p]
          ELSE checkpoints[k].files[p] = checkpoints[k].base[p]

(* restore_and_pop gives back the disk of the moment the undone turn       *)
(* began, on every path that no unannounced write or failed restore hit.   *)
UndoRestoresTurnStart ==
    [][\A failed \in SUBSET Paths :
         RestoreAndPop(failed) =>
           \A p \in Paths \ (Top.blind \cup failed) : disk'[p] = Top.base[p]]_vars

(* The promise of an undo stack that saves the whole disk, with the same   *)
(* disk and with what the checkpoints stand for.                           *)
Saved(cp) == [mark |-> cp.index, base |-> cp.base, spoilt |-> cp.blind]
SavedStack == [k \in 1 .. Len(checkpoints) |-> Saved(checkpoints[k])]
Promise == INSTANCE UndoStack WITH stack <- SavedStack, Marks <- Indices

ImplementsUndoStack == Promise!Spec
=============================================================================
