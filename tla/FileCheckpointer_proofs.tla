----------------------- MODULE FileCheckpointer_proofs -----------------------
(***************************************************************************)
(* Proofs about FileCheckpointer, for any set of paths and contents and    *)
(* any number of checkpoints.                                              *)
(***************************************************************************)
EXTENDS FileCheckpointer, SequenceTheorems, TLAPS

USE ImagesAssumption, IndicesAssumption, BoundAssumption
USE DEF Saved

(* The indices grow up the stack, but for those that are 0. *)
Growing ==
    \A j, k \in 1 .. Len(checkpoints) :
      j < k => \/ checkpoints[j].index < checkpoints[k].index
               \/ checkpoints[j].index = 0 /\ checkpoints[k].index = 0

-----------------------------------------------------------------------------
(* Typing *)

(* A prefix of a sequence. *)
LEMMA PrefixSeq ==
    ASSUME NEW S, NEW s \in Seq(S), NEW k \in 0 .. Len(s)
    PROVE  /\ SubSeq(s, 1, k) \in Seq(S)
           /\ Len(SubSeq(s, 1, k)) = k
           /\ \A i \in 1 .. k : SubSeq(s, 1, k)[i] = s[i]
  <1>1. \A i \in 1 .. k : s[i] \in S
    OBVIOUS
  <1>. QED
    BY <1>1, SubSeqProperties

(* The latest checkpoint and the stack below it are well typed. *)
LEMMA TopTyped ==
    ASSUME TypeOK, checkpoints # <<>>
    PROVE  /\ Top \in Checkpoint
           /\ Len(checkpoints) \in Nat \ {0}
           /\ Rest \in Seq(Checkpoint)
           /\ Len(Rest) = Len(checkpoints) - 1
           /\ \A k \in 1 .. Len(Rest) : Rest[k] = checkpoints[k]
  <1>1. Len(checkpoints) \in Nat \ {0}
    BY DEF TypeOK
  <1>2. Top \in Checkpoint
    BY <1>1 DEF TypeOK, Top
  <1>3. Len(checkpoints) - 1 \in 0 .. Len(checkpoints)
    BY <1>1
  <1>. QED
    BY <1>1, <1>2, <1>3, PrefixSeq DEF TypeOK, Rest

(* Marking paths blind changes the blind paths of the last checkpoint only. *)
LEMMA BlindedLast ==
    ASSUME NEW cps \in Seq(Checkpoint), NEW S \in SUBSET Paths
    PROVE  /\ Blinded(cps, S) \in Seq(Checkpoint)
           /\ Len(Blinded(cps, S)) = Len(cps)
           /\ \A k \in 1 .. Len(cps) :
                /\ Blinded(cps, S)[k].index = cps[k].index
                /\ Blinded(cps, S)[k].files = cps[k].files
                /\ Blinded(cps, S)[k].base = cps[k].base
                /\ Blinded(cps, S)[k].blind =
                     IF k = Len(cps) THEN cps[k].blind \cup S ELSE cps[k].blind
  <1>1. CASE cps = <<>>
    BY <1>1 DEF Blinded
  <1>2. CASE cps # <<>>
    <2> DEFINE cp == cps[Len(cps)]
               new == [cp EXCEPT !.blind = cp.blind \cup S]
    <2>1. cp \in Checkpoint /\ Len(cps) \in 1 .. Len(cps)
      BY <1>2
    <2>2. /\ new \in Checkpoint
          /\ new.index = cp.index /\ new.files = cp.files /\ new.base = cp.base
          /\ new.blind = cp.blind \cup S
      BY <2>1 DEF Checkpoint
    <2>3. Blinded(cps, S) = [cps EXCEPT ![Len(cps)] = new]
      BY <1>2 DEF Blinded
    <2>. HIDE DEF new
    <2>4. /\ Blinded(cps, S) \in Seq(Checkpoint)
          /\ Len(Blinded(cps, S)) = Len(cps)
          /\ Blinded(cps, S)[Len(cps)] = new
          /\ \A k \in 1 .. Len(cps) : k # Len(cps) => Blinded(cps, S)[k] = cps[k]
      BY <2>1, <2>2, <2>3
    <2>. QED
      BY <2>2, <2>4
  <1>. QED
    BY <1>1, <1>2

LEMMA OperationTyped ==
    ASSUME TypeOK, Operation
    PROVE  TypeOK'
  <1>1. ASSUME NEW p \in Paths, SnapshotFile(p)
        PROVE  TypeOK'
    <2>1. PICK image \in {disk[p], Absent} :
            checkpoints' =
              WithTop([Top EXCEPT !.files[p] = image, !.blind =
                        IF image = disk[p] THEN Top.blind ELSE Top.blind \cup {p}])
      BY <1>1 DEF SnapshotFile
    <2>2. Top \in Checkpoint /\ Len(checkpoints) \in 1 .. Len(checkpoints)
      BY <1>1, TopTyped DEF SnapshotFile
    <2>3. image \in Images
      BY DEF TypeOK, Images
    <2>4. [Top EXCEPT !.files[p] = image, !.blind =
             IF image = disk[p] THEN Top.blind ELSE Top.blind \cup {p}] \in Checkpoint
      BY <2>2, <2>3 DEF Checkpoint
    <2>. QED
      BY <1>1, <2>1, <2>2, <2>4 DEF SnapshotFile, TypeOK, WithTop
  <1>2. ASSUME NEW p \in Paths, ToolWrite(p)
        PROVE  TypeOK'
    BY <1>2 DEF ToolWrite, TypeOK
  <1>3. ASSUME NEW p \in Paths, ForeignWrite(p)
        PROVE  TypeOK'
    BY <1>3, BlindedLast DEF ForeignWrite, TypeOK
  <1>4. ASSUME NEW p \in Paths, RestoreFile(p)
        PROVE  TypeOK'
    <2>1. Top \in Checkpoint /\ Len(checkpoints) \in 1 .. Len(checkpoints)
      BY <1>4, TopTyped DEF RestoreFile
    <2>2. [Top EXCEPT !.files[p] = NoSnapshot] \in Checkpoint
      BY <2>1 DEF Checkpoint
    <2>3. Top.files[p] \in Images
      BY <1>4, <2>1 DEF RestoreFile, Checkpoint
    <2>. QED
      BY <1>4, <2>1, <2>2, <2>3 DEF RestoreFile, TypeOK, WithTop
  <1>5. ASSUME NEW p \in Paths, RestoreFileFails(p)
        PROVE  TypeOK'
    BY <1>5 DEF RestoreFileFails, TypeOK, LeftByFailure, Images
  <1>6. ASSUME NEW failed \in SUBSET Paths, RestoreAndPop(failed)
        PROVE  TypeOK'
    <2>1. PICK k \in 0 .. Len(Rest) :
            checkpoints' = Blinded(SubSeq(Rest, 1, k), Top.blind \cup failed)
      BY <1>6 DEF RestoreAndPop
    <2>. checkpoints # <<>>
      BY <1>6 DEF RestoreAndPop
    <2>2. Top.blind \cup failed \in SUBSET Paths
      BY TopTyped DEF Checkpoint
    <2>4. /\ SubSeq(Rest, 1, k) \in Seq(Checkpoint)
          /\ Len(SubSeq(Rest, 1, k)) = k
          /\ k <= Len(checkpoints)
      BY TopTyped, PrefixSeq
    <2>3. Len(checkpoints') = k /\ checkpoints' \in Seq(Checkpoint)
      BY <2>1, <2>2, <2>4, BlindedLast
    <2>. QED
      BY <1>6, <2>3, <2>4 DEF RestoreAndPop, TypeOK
  <1>7. ASSUME Clear
        PROVE  TypeOK'
    BY <1>7 DEF Clear, TypeOK
  <1>. QED
    BY <1>1, <1>2, <1>3, <1>4, <1>5, <1>6, <1>7 DEF Operation

LEMMA CreateTyped ==
    ASSUME TypeOK, NEW i \in Nat, CreateCheckpoint(i)
    PROVE  TypeOK'
  <1>1. NewCheckpoint(i) \in Checkpoint
    BY DEF NewCheckpoint, Checkpoint, TypeOK
  <1>. QED
    BY <1>1 DEF CreateCheckpoint, TypeOK

(* The disk and the stack keep their types, whatever indices are used. *)
THEOREM CheckpointsTyping == Spec => []TypeOK
  <1>1. Init => TypeOK
    BY DEF Init, TypeOK
  <1>2. TypeOK /\ [Next]_vars => TypeOK'
    BY OperationTyped, CreateTyped DEF Next, vars, TypeOK
  <1>. QED
    BY <1>1, <1>2, PTL DEF Spec

-----------------------------------------------------------------------------
(* The snapshots cover the changes *)

(* The latest checkpoint, as DiskAfter and SnapshotsCoverChanges see it. *)
LEMMA TopCovered ==
    ASSUME TypeOK, SnapshotsCoverChanges, checkpoints # <<>>,
           NEW p \in Paths \ Top.blind
    PROVE  IF Top.files[p] = NoSnapshot THEN disk[p] = Top.base[p]
                                        ELSE Top.files[p] = Top.base[p]
  BY TopTyped DEF SnapshotsCoverChanges, DiskAfter, Top

(* Replacing the latest checkpoint by cp and the disk by a new one keeps    *)
(* the coverage when cp covers the new disk and has the same base.          *)
LEMMA CoverTop ==
    ASSUME TypeOK, SnapshotsCoverChanges, checkpoints # <<>>,
           NEW cp \in Checkpoint, cp.base = Top.base,
           checkpoints' = WithTop(cp),
           \A p \in Paths \ cp.blind :
             IF cp.files[p] = NoSnapshot THEN disk'[p] = cp.base[p]
                                         ELSE cp.files[p] = cp.base[p]
    PROVE  SnapshotsCoverChanges'
  <1>1. Len(checkpoints) \in 1 .. Len(checkpoints)
    BY TopTyped
  <1>2. /\ Len(checkpoints') = Len(checkpoints)
        /\ checkpoints'[Len(checkpoints)] = cp
        /\ \A k \in 1 .. Len(checkpoints) :
             k # Len(checkpoints) => checkpoints'[k] = checkpoints[k]
    BY <1>1 DEF WithTop, TypeOK
  <1>3. \A k \in 1 .. Len(checkpoints) : checkpoints'[k].base = checkpoints[k].base
    BY <1>1, <1>2 DEF Top
  <1>. SUFFICES ASSUME NEW k \in 1 .. Len(checkpoints),
                       NEW p \in Paths \ checkpoints'[k].blind
                PROVE  IF checkpoints'[k].files[p] = NoSnapshot
                         THEN DiskAfter(k)'[p] = checkpoints'[k].base[p]
                         ELSE checkpoints'[k].files[p] = checkpoints'[k].base[p]
    BY <1>2 DEF SnapshotsCoverChanges
  <1>4. CASE k = Len(checkpoints)
    BY <1>2, <1>4 DEF DiskAfter
  <1>5. CASE k # Len(checkpoints)
    <2>1. DiskAfter(k)' = DiskAfter(k)
      BY <1>1, <1>2, <1>3, <1>5 DEF DiskAfter
    <2>. QED
      BY <1>2, <1>5, <2>1 DEF SnapshotsCoverChanges
  <1>. QED
    BY <1>4, <1>5

(* Undoing the latest turn gives back the disk it began with, on every path *)
(* nothing blinded the checkpointer to.                                     *)
LEMMA UndoRestores ==
    ASSUME TypeOK, SnapshotsCoverChanges,
           NEW failed \in SUBSET Paths, RestoreAndPop(failed),
           NEW p \in Paths \ (Top.blind \cup failed)
    PROVE  disk'[p] = Top.base[p]
  <1>1. disk'[p] = IF Top.files[p] = NoSnapshot THEN disk[p] ELSE Top.files[p]
    BY DEF RestoreAndPop, Snapshotted
  <1>. QED
    BY <1>1, TopCovered DEF RestoreAndPop

(* Undoing keeps the whole stack below the undone turn, or nothing of it    *)
(* when the indices are 0.                                                  *)
LEMMA PopKeepsAllOrNone ==
    ASSUME TypeOK, Growing, NEW failed \in SUBSET Paths, RestoreAndPop(failed)
    PROVE  checkpoints' = IF Top.index = 0 THEN <<>>
                          ELSE Blinded(Rest, Top.blind \cup failed)
  <1>. checkpoints # <<>>
    BY DEF RestoreAndPop
  <1>1. PICK k \in 0 .. Len(Rest) :
          /\ \A j \in 1 .. Len(Rest) : Rest[j].index < Top.index <=> j <= k
          /\ checkpoints' = Blinded(SubSeq(Rest, 1, k), Top.blind \cup failed)
    BY DEF RestoreAndPop
  <1>2. Top.index \in Nat /\ \A j \in 1 .. Len(Rest) : Rest[j].index \in Nat
    <2>1. Rest \in Seq(Checkpoint) /\ Top \in Checkpoint
      BY TopTyped
    <2>2. \A j \in 1 .. Len(Rest) : Rest[j] \in Checkpoint
      BY <2>1
    <2>. QED
      BY <2>1, <2>2 DEF Checkpoint
  <1>3. CASE Top.index # 0
    <2>1. \A j \in 1 .. Len(Rest) : Rest[j].index < Top.index
      BY <1>3, TopTyped DEF Growing, Top
    <2>2. k = Len(Rest)
      BY <1>1, <2>1, TopTyped
    <2>3. SubSeq(Rest, 1, k) = Rest
      BY <2>2, TopTyped, SubSeqFull
    <2>. QED
      BY <1>1, <1>3, <2>3
  <1>4. CASE Top.index = 0
    <2>1. \A j \in 1 .. Len(Rest) : ~(Rest[j].index < Top.index)
      BY <1>2, <1>4
    <2>2. k = 0
      BY <1>1, <2>1, TopTyped
    <2>. QED
      BY <1>1, <1>4, <2>2 DEF Blinded
  <1>. QED
    BY <1>3, <1>4

(* Undoing a turn keeps the coverage of the turns below it. *)
LEMMA PopCovers ==
    ASSUME TypeOK, SnapshotsCoverChanges,
           NEW failed \in SUBSET Paths, RestoreAndPop(failed),
           checkpoints' = Blinded(Rest, Top.blind \cup failed)
    PROVE  SnapshotsCoverChanges'
  <1>. DEFINE S == Top.blind \cup failed
              n == Len(Rest)
  <1>. checkpoints # <<>>
    BY DEF RestoreAndPop
  <1>0. S \in SUBSET Paths /\ n \in Nat
    BY TopTyped DEF Checkpoint
  <1>1. /\ Len(checkpoints') = n
        /\ \A k \in 1 .. n :
             /\ checkpoints'[k].files = checkpoints[k].files
             /\ checkpoints'[k].base = checkpoints[k].base
             /\ checkpoints'[k].blind =
                  IF k = n THEN checkpoints[k].blind \cup S ELSE checkpoints[k].blind
    <2>1. Rest \in Seq(Checkpoint) /\ \A k \in 1 .. n : Rest[k] = checkpoints[k]
      BY TopTyped
    <2>2. checkpoints' = Blinded(Rest, S)
      OBVIOUS
    <2>. HIDE DEF S
    <2>3. /\ Len(Blinded(Rest, S)) = n
          /\ \A k \in 1 .. n :
               /\ Blinded(Rest, S)[k].files = Rest[k].files
               /\ Blinded(Rest, S)[k].base = Rest[k].base
               /\ Blinded(Rest, S)[k].blind =
                    IF k = n THEN Rest[k].blind \cup S ELSE Rest[k].blind
      <3>. DEFINE rest == Rest
      <3>1. rest \in Seq(Checkpoint) /\ n = Len(rest)
        BY <2>1
      <3>. HIDE DEF rest, n
      <3>2. /\ Len(Blinded(rest, S)) = Len(rest)
            /\ \A k \in 1 .. Len(rest) :
                 /\ Blinded(rest, S)[k].files = rest[k].files
                 /\ Blinded(rest, S)[k].base = rest[k].base
                 /\ Blinded(rest, S)[k].blind =
                      IF k = Len(rest) THEN rest[k].blind \cup S ELSE rest[k].blind
        BY <1>0, <3>1, BlindedLast, Zenon
      <3>. QED
        BY <3>1, <3>2, Zenon DEF rest
    <2>. QED
      BY <2>1, <2>2, <2>3
  <1>2. Len(checkpoints) = n + 1 /\ Top.base = checkpoints[n + 1].base
    BY <1>0, TopTyped DEF Top
  <1>3. \A p \in Paths \ S : disk'[p] = Top.base[p]
    BY UndoRestores
  <1>. SUFFICES ASSUME NEW k \in 1 .. n, NEW p \in Paths \ checkpoints'[k].blind
                PROVE  IF checkpoints'[k].files[p] = NoSnapshot
                         THEN DiskAfter(k)'[p] = checkpoints'[k].base[p]
                         ELSE checkpoints'[k].files[p] = checkpoints'[k].base[p]
    BY <1>1, Zenon DEF SnapshotsCoverChanges
  <1>. HIDE DEF S, n
  <1>4. p \notin checkpoints[k].blind /\ (k = n => p \notin S)
    BY <1>1
  <1>5. DiskAfter(k)'[p] = DiskAfter(k)[p]
    <2>1. CASE k = n
      <3>1. DiskAfter(k)' = disk'
        BY <1>1, <2>1 DEF DiskAfter
      <3>2. DiskAfter(k) = Top.base
        BY <1>0, <1>2, <2>1 DEF DiskAfter
      <3>. QED
        BY <1>3, <1>4, <2>1, <3>1, <3>2
    <2>2. CASE k # n
      <3>1. k + 1 \in 1 .. n /\ k # n + 1
        BY <1>0, <2>2
      <3>. QED
        BY <1>1, <1>2, <2>2, <3>1 DEF DiskAfter
    <2>. QED
      BY <2>1, <2>2
  <1>6. k \in 1 .. Len(checkpoints)
    BY <1>0, <1>2
  <1>7. IF checkpoints[k].files[p] = NoSnapshot
          THEN DiskAfter(k)[p] = checkpoints[k].base[p]
          ELSE checkpoints[k].files[p] = checkpoints[k].base[p]
    BY <1>4, <1>6 DEF SnapshotsCoverChanges
  <1>. QED
    BY <1>1, <1>5, <1>7

LEMMA OperationCovers ==
    ASSUME TypeOK, SnapshotsCoverChanges, Operation, Growing
    PROVE  SnapshotsCoverChanges'
  <1>1. ASSUME NEW p \in Paths, SnapshotFile(p)
        PROVE  SnapshotsCoverChanges'
    <2>. checkpoints # <<>> /\ Top.files[p] = NoSnapshot /\ UNCHANGED disk
      BY <1>1 DEF SnapshotFile
    <2>1. PICK image \in {disk[p], Absent} :
            checkpoints' =
              WithTop([Top EXCEPT !.files[p] = image, !.blind =
                        IF image = disk[p] THEN Top.blind ELSE Top.blind \cup {p}])
      BY <1>1 DEF SnapshotFile
    <2>. DEFINE cp == [Top EXCEPT !.files[p] = image, !.blind =
                        IF image = disk[p] THEN Top.blind ELSE Top.blind \cup {p}]
    <2>2. image \in Images /\ image # NoSnapshot
      BY DEF TypeOK, Images
    <2>3. /\ cp \in Checkpoint /\ cp.base = Top.base
          /\ cp.files = [Top.files EXCEPT ![p] = image]
          /\ cp.blind = IF image = disk[p] THEN Top.blind ELSE Top.blind \cup {p}
          /\ Top.files \in [Paths -> Images \cup {NoSnapshot}]
      BY <2>2, TopTyped DEF Checkpoint
    <2>. HIDE DEF cp
    <2>4. ASSUME NEW q \in Paths \ cp.blind
          PROVE  IF cp.files[q] = NoSnapshot THEN disk'[q] = cp.base[q]
                                             ELSE cp.files[q] = cp.base[q]
      BY <2>2, <2>3, TopCovered
    <2>. QED
      BY <2>1, <2>3, <2>4, CoverTop DEF cp
  <1>2. ASSUME NEW p \in Paths, ToolWrite(p) \/ RestoreFileFails(p)
        PROVE  SnapshotsCoverChanges'
    <2>1. /\ checkpoints # <<>> /\ Top.files[p] # NoSnapshot
          /\ UNCHANGED checkpoints
          /\ \A q \in Paths : q # p => disk'[q] = disk[q]
      BY <1>2 DEF ToolWrite, RestoreFileFails, TypeOK
    <2>2. ASSUME NEW k \in 1 .. Len(checkpoints), NEW q \in Paths \ checkpoints[k].blind
          PROVE  IF checkpoints[k].files[q] = NoSnapshot
                   THEN DiskAfter(k)'[q] = checkpoints[k].base[q]
                   ELSE checkpoints[k].files[q] = checkpoints[k].base[q]
      <3>1. CASE k = Len(checkpoints)
        BY <2>1, <3>1 DEF SnapshotsCoverChanges, DiskAfter, Top
      <3>2. CASE k # Len(checkpoints)
        BY <2>1, <3>2 DEF SnapshotsCoverChanges, DiskAfter
      <3>. QED
        BY <3>1, <3>2
    <2>. QED
      BY <2>1, <2>2 DEF SnapshotsCoverChanges
  <1>3. ASSUME NEW p \in Paths, ForeignWrite(p)
        PROVE  SnapshotsCoverChanges'
    <2>1. CASE checkpoints = <<>>
      BY <1>3, <2>1 DEF ForeignWrite, Blinded, SnapshotsCoverChanges
    <2>2. CASE checkpoints # <<>>
      <3>. DEFINE cp == [Top EXCEPT !.blind = Top.blind \cup {p}]
      <3>1. /\ cp \in Checkpoint /\ cp.base = Top.base /\ cp.files = Top.files
            /\ cp.blind = Top.blind \cup {p}
        BY <2>2, TopTyped DEF Checkpoint
      <3>2. checkpoints' = WithTop(cp)
        BY <1>3, <2>2 DEF ForeignWrite, Blinded, WithTop, Top
      <3>. HIDE DEF cp
      <3>3. ASSUME NEW q \in Paths \ cp.blind
            PROVE  IF cp.files[q] = NoSnapshot THEN disk'[q] = cp.base[q]
                                               ELSE cp.files[q] = cp.base[q]
        BY <1>3, <2>2, <3>1, TopCovered DEF ForeignWrite, TypeOK
      <3>. QED
        BY <2>2, <3>1, <3>2, <3>3, CoverTop
    <2>. QED
      BY <2>1, <2>2
  <1>4. ASSUME NEW p \in Paths, RestoreFile(p)
        PROVE  SnapshotsCoverChanges'
    <2>. checkpoints # <<>> /\ Top.files[p] # NoSnapshot
      BY <1>4 DEF RestoreFile
    <2>. DEFINE cp == [Top EXCEPT !.files[p] = NoSnapshot]
    <2>1. /\ cp \in Checkpoint /\ cp.base = Top.base /\ cp.blind = Top.blind
          /\ cp.files = [Top.files EXCEPT ![p] = NoSnapshot]
          /\ Top.files \in [Paths -> Images \cup {NoSnapshot}]
      BY TopTyped DEF Checkpoint
    <2>2. checkpoints' = WithTop(cp) /\ disk' = [disk EXCEPT ![p] = Top.files[p]]
      BY <1>4 DEF RestoreFile
    <2>. HIDE DEF cp
    <2>3. ASSUME NEW q \in Paths \ cp.blind
          PROVE  IF cp.files[q] = NoSnapshot THEN disk'[q] = cp.base[q]
                                             ELSE cp.files[q] = cp.base[q]
      BY <2>1, <2>2, TopCovered DEF TypeOK
    <2>. QED
      BY <2>1, <2>2, <2>3, CoverTop
  <1>5. ASSUME NEW failed \in SUBSET Paths, RestoreAndPop(failed)
        PROVE  SnapshotsCoverChanges'
    <2>1. CASE checkpoints' = <<>>
      BY <2>1 DEF SnapshotsCoverChanges
    <2>2. CASE checkpoints' = Blinded(Rest, Top.blind \cup failed)
      BY <1>5, <2>2, PopCovers
    <2>. QED
      BY <1>5, <2>1, <2>2, PopKeepsAllOrNone
  <1>6. ASSUME Clear
        PROVE  SnapshotsCoverChanges'
    BY <1>6 DEF Clear, SnapshotsCoverChanges
  <1>. QED
    BY <1>1, <1>2, <1>3, <1>4, <1>5, <1>6 DEF Operation

(* No operation moves a checkpoint or changes its index; it only drops the  *)
(* latest ones.                                                             *)
LEMMA IndicesStay ==
    ASSUME TypeOK, Operation
    PROVE  /\ Len(checkpoints') <= Len(checkpoints)
           /\ \A k \in 1 .. Len(checkpoints') :
                checkpoints'[k].index = checkpoints[k].index
  <1>1. ASSUME NEW cp \in Checkpoint, checkpoints # <<>>, cp.index = Top.index,
               checkpoints' = WithTop(cp)
        PROVE  /\ Len(checkpoints') = Len(checkpoints)
               /\ \A k \in 1 .. Len(checkpoints) :
                    checkpoints'[k].index = checkpoints[k].index
    <2>1. Len(checkpoints) \in 1 .. Len(checkpoints)
      BY <1>1, TopTyped
    <2>2. /\ Len(checkpoints') = Len(checkpoints)
          /\ checkpoints'[Len(checkpoints)] = cp
          /\ \A k \in 1 .. Len(checkpoints) :
               k # Len(checkpoints) => checkpoints'[k] = checkpoints[k]
      BY <1>1, <2>1 DEF WithTop, TypeOK
    <2>3. ASSUME NEW k \in 1 .. Len(checkpoints)
          PROVE  checkpoints'[k].index = checkpoints[k].index
      <3>1. CASE k = Len(checkpoints)
        BY <1>1, <2>2, <3>1 DEF Top
      <3>2. CASE k # Len(checkpoints)
        BY <2>2, <3>2
      <3>. QED
        BY <3>1, <3>2
    <2>. QED
      BY <2>2, <2>3
  <1>2. ASSUME NEW p \in Paths, SnapshotFile(p)
        PROVE  /\ Len(checkpoints') = Len(checkpoints)
               /\ \A k \in 1 .. Len(checkpoints) :
                    checkpoints'[k].index = checkpoints[k].index
    <2>1. PICK image \in {disk[p], Absent} :
            checkpoints' =
              WithTop([Top EXCEPT !.files[p] = image, !.blind =
                        IF image = disk[p] THEN Top.blind ELSE Top.blind \cup {p}])
      BY <1>2 DEF SnapshotFile
    <2>. DEFINE cp == [Top EXCEPT !.files[p] = image, !.blind =
                        IF image = disk[p] THEN Top.blind ELSE Top.blind \cup {p}]
    <2>2. cp \in Checkpoint /\ cp.index = Top.index /\ checkpoints # <<>>
      BY <1>2, TopTyped DEF SnapshotFile, Checkpoint, TypeOK, Images
    <2>. HIDE DEF cp
    <2>. QED
      BY <1>1, <2>1, <2>2 DEF cp
  <1>3. ASSUME NEW p \in Paths, ToolWrite(p) \/ RestoreFileFails(p)
        PROVE  checkpoints' = checkpoints
    BY <1>3 DEF ToolWrite, RestoreFileFails
  <1>4. ASSUME NEW p \in Paths, ForeignWrite(p)
        PROVE  /\ Len(checkpoints') = Len(checkpoints)
               /\ \A k \in 1 .. Len(checkpoints) :
                    checkpoints'[k].index = checkpoints[k].index
    <2>1. checkpoints' = Blinded(checkpoints, {p})
      BY <1>4 DEF ForeignWrite
    <2>2. checkpoints \in Seq(Checkpoint) /\ {p} \in SUBSET Paths
      BY DEF TypeOK
    <2>3. /\ Len(Blinded(checkpoints, {p})) = Len(checkpoints)
          /\ \A k \in 1 .. Len(checkpoints) :
               Blinded(checkpoints, {p})[k].index = checkpoints[k].index
      BY <2>2, BlindedLast
    <2>. QED
      BY <2>1, <2>3
  <1>5. ASSUME NEW p \in Paths, RestoreFile(p)
        PROVE  /\ Len(checkpoints') = Len(checkpoints)
               /\ \A k \in 1 .. Len(checkpoints) :
                    checkpoints'[k].index = checkpoints[k].index
    <2>. DEFINE cp == [Top EXCEPT !.files[p] = NoSnapshot]
    <2>1. checkpoints # <<>> /\ checkpoints' = WithTop(cp)
      BY <1>5 DEF RestoreFile
    <2>2. cp \in Checkpoint /\ cp.index = Top.index
      BY <2>1, TopTyped DEF Checkpoint
    <2>. HIDE DEF cp
    <2>. QED
      BY <1>1, <2>1, <2>2
  <1>6. ASSUME NEW failed \in SUBSET Paths, RestoreAndPop(failed)
        PROVE  /\ Len(checkpoints') <= Len(checkpoints)
               /\ \A k \in 1 .. Len(checkpoints') :
                    checkpoints'[k].index = checkpoints[k].index
    <2>1. PICK n \in 0 .. Len(Rest) :
            checkpoints' = Blinded(SubSeq(Rest, 1, n), Top.blind \cup failed)
      BY <1>6 DEF RestoreAndPop
    <2>2. checkpoints # <<>>
      BY <1>6 DEF RestoreAndPop
    <2>3. Top.blind \cup failed \in SUBSET Paths
      BY <2>2, TopTyped DEF Checkpoint
    <2>. DEFINE kept == SubSeq(Rest, 1, n)
    <2>4. /\ kept \in Seq(Checkpoint) /\ Len(kept) = n /\ n <= Len(checkpoints)
          /\ \A k \in 1 .. n : kept[k].index = checkpoints[k].index
      BY <2>2, TopTyped, PrefixSeq
    <2>. DEFINE lost == Top.blind \cup failed
    <2>6. checkpoints' = Blinded(kept, lost)
      BY <2>1
    <2>. HIDE DEF kept, lost
    <2>7. /\ Len(Blinded(kept, lost)) = Len(kept)
          /\ \A k \in 1 .. Len(kept) : Blinded(kept, lost)[k].index = kept[k].index
      <3>1. lost \in SUBSET Paths
        BY <2>3 DEF lost
      <3>2. kept \in Seq(Checkpoint)
        BY <2>4
      <3>. QED
        BY <3>1, <3>2, BlindedLast, Zenon
    <2>5. /\ Len(checkpoints') = n
          /\ \A k \in 1 .. n : checkpoints'[k].index = kept[k].index
      BY <2>4, <2>6, <2>7
    <2>. QED
      BY <2>4, <2>5
  <1>7. ASSUME Clear
        PROVE  Len(checkpoints') = 0
    BY <1>7 DEF Clear
  <1>. QED
    BY <1>2, <1>3, <1>4, <1>5, <1>6, <1>7 DEF Operation, TypeOK

(* Opening a checkpoint covers the disk of that very moment. *)
LEMMA CreateCovers ==
    ASSUME TypeOK, SnapshotsCoverChanges, NEW i \in Nat, CreateCheckpoint(i)
    PROVE  /\ SnapshotsCoverChanges'
           /\ Len(checkpoints') = Len(checkpoints) + 1
           /\ checkpoints'[Len(checkpoints) + 1].index = i
           /\ \A k \in 1 .. Len(checkpoints) : checkpoints'[k] = checkpoints[k]
  <1>. DEFINE n == Len(checkpoints)
  <1>1. /\ NewCheckpoint(i).index = i
        /\ NewCheckpoint(i).base = disk
        /\ \A p \in Paths : NewCheckpoint(i).files[p] = NoSnapshot
    BY DEF NewCheckpoint
  <1>2. /\ Len(checkpoints') = n + 1
        /\ checkpoints'[n + 1] = NewCheckpoint(i)
        /\ \A k \in 1 .. n : checkpoints'[k] = checkpoints[k]
        /\ disk' = disk
    BY DEF CreateCheckpoint, TypeOK
  <1>3. n \in Nat
    BY DEF TypeOK
  <1>. SUFFICES SnapshotsCoverChanges'
    BY <1>1, <1>2
  <1>. SUFFICES ASSUME NEW k \in 1 .. n + 1, NEW p \in Paths \ checkpoints'[k].blind
                PROVE  IF checkpoints'[k].files[p] = NoSnapshot
                         THEN DiskAfter(k)'[p] = checkpoints'[k].base[p]
                         ELSE checkpoints'[k].files[p] = checkpoints'[k].base[p]
    BY <1>2 DEF SnapshotsCoverChanges
  <1>4. CASE k = n + 1
    BY <1>1, <1>2, <1>4 DEF DiskAfter
  <1>5. CASE k # n + 1
    <2>1. k \in 1 .. n /\ checkpoints'[k] = checkpoints[k]
      BY <1>2, <1>3, <1>5
    <2>2. DiskAfter(k)' = DiskAfter(k)
      <3>1. CASE k = n
        BY <1>1, <1>2, <1>3, <3>1 DEF DiskAfter
      <3>2. CASE k # n
        <4>1. k + 1 \in 1 .. n /\ k # n + 1
          BY <1>3, <2>1, <3>2
        <4>. QED
          BY <1>2, <3>2, <4>1 DEF DiskAfter
      <3>. QED
        BY <3>1, <3>2
    <2>3. IF checkpoints[k].files[p] = NoSnapshot
            THEN DiskAfter(k)[p] = checkpoints[k].base[p]
            ELSE checkpoints[k].files[p] = checkpoints[k].base[p]
      BY <2>1 DEF SnapshotsCoverChanges
    <2>. QED
      BY <2>1, <2>2, <2>3
  <1>. QED
    BY <1>4, <1>5

-----------------------------------------------------------------------------
(* The theorems, for indices that grow and for AgentLoop's index 0 *)

CheckpointsInv == TypeOK /\ SnapshotsCoverChanges /\ Growing

LEMMA CheckpointsInvariant == Spec => []CheckpointsInv
  <1>1. Init => CheckpointsInv
    BY DEF Init, CheckpointsInv, TypeOK, SnapshotsCoverChanges, Growing
  <1>2. ASSUME CheckpointsInv, Operation
        PROVE  CheckpointsInv'
    <2>1. Growing'
      BY <1>2, IndicesStay DEF CheckpointsInv, Growing, TypeOK
    <2>. QED
      BY <1>2, <2>1, OperationTyped, OperationCovers DEF CheckpointsInv
  <1>3. ASSUME CheckpointsInv, NEW i \in Indices, Fresh(i), CreateCheckpoint(i)
        PROVE  CheckpointsInv'
    <2>1. i \in Nat /\ Len(checkpoints) \in Nat
      BY <1>3 DEF CheckpointsInv, TypeOK
    <2>2. ASSUME NEW k \in 1 .. Len(checkpoints)
          PROVE  checkpoints[k].index < i \/ (checkpoints[k].index = 0 /\ i = 0)
      <3>1. /\ checkpoints # <<>> /\ Top.index \in Nat
            /\ Top.index < i \/ (Top.index = 0 /\ i = 0)
        BY <1>3, <2>1, <2>2, TopTyped DEF CheckpointsInv, Fresh, Checkpoint
      <3>2. CASE k = Len(checkpoints)
        BY <3>1, <3>2 DEF Top
      <3>3. CASE k # Len(checkpoints)
        <4>1. Len(checkpoints) \in 1 .. Len(checkpoints) /\ k < Len(checkpoints)
          BY <2>1, <3>3
        <4>2. \/ checkpoints[k].index < Top.index
              \/ checkpoints[k].index = 0 /\ Top.index = 0
          BY <1>3, <4>1 DEF CheckpointsInv, Growing, Top
        <4>3. checkpoints[k].index \in Nat
          <5>1. checkpoints[k] \in Checkpoint
            BY <1>3, <2>2 DEF CheckpointsInv, TypeOK
          <5>. QED
            BY <5>1 DEF Checkpoint
        <4>. QED
          BY <2>1, <3>1, <4>2, <4>3
      <3>. QED
        BY <3>2, <3>3
    <2>3. Growing'
      BY <1>3, <2>1, <2>2, CreateCovers DEF CheckpointsInv, Growing
    <2>. QED
      BY <1>3, <2>1, <2>3, CreateCovers, CreateTyped DEF CheckpointsInv
  <1>4. CheckpointsInv /\ UNCHANGED vars => CheckpointsInv'
    BY DEF CheckpointsInv, TypeOK, SnapshotsCoverChanges, DiskAfter, Growing, vars
  <1>5. CheckpointsInv /\ [Next]_vars => CheckpointsInv'
    BY <1>2, <1>3, <1>4 DEF Next
  <1>. QED
    BY <1>1, <1>5, PTL DEF Spec

(* Every change of a turn is covered by a snapshot of what the file was     *)
(* when the turn began, with indices that grow and with AgentLoop's 0.      *)
THEOREM ChangesAreCovered == Spec => []SnapshotsCoverChanges
  BY CheckpointsInvariant, PTL DEF CheckpointsInv

(* /undo gives back the disk of the beginning of the undone turn.           *)
THEOREM UndoGivesBack == Spec => UndoRestoresTurnStart
  <1>1. CheckpointsInv /\ [Next]_vars =>
          [\A failed \in SUBSET Paths :
             RestoreAndPop(failed) =>
               \A p \in Paths \ (Top.blind \cup failed) : disk'[p] = Top.base[p]]_vars
    BY UndoRestores DEF CheckpointsInv
  <1>. QED
    BY <1>1, CheckpointsInvariant, PTL DEF Spec, UndoRestoresTurnStart

-----------------------------------------------------------------------------
(* The checkpointer implements the whole-disk undo stack *)

SavedTurn == [mark : Nat, base : [Paths -> Images], spoilt : SUBSET Paths]

(* SavedStack is a sequence: the bases and blind paths, in order. *)
LEMMA SavedStackSeq ==
    ASSUME TypeOK
    PROVE  /\ SavedStack \in Seq(SavedTurn)
           /\ Len(SavedStack) = Len(checkpoints)
           /\ Len(checkpoints) \in Nat
           /\ SavedStack = <<>> <=> checkpoints = <<>>
           /\ \A k \in 1 .. Len(checkpoints) :
                /\ SavedStack[k].mark = checkpoints[k].index
                /\ SavedStack[k].base = checkpoints[k].base
                /\ SavedStack[k].spoilt = checkpoints[k].blind
  <1>1. ASSUME NEW k \in 1 .. Len(checkpoints)
        PROVE  Saved(checkpoints[k])
                 \in SavedTurn
    <2>1. checkpoints[k] \in Checkpoint
      BY DEF TypeOK
    <2>. QED
      BY <2>1 DEF Checkpoint, SavedTurn
  <1>2. Len(checkpoints) \in Nat
    BY DEF TypeOK
  <1>3. SavedStack \in Seq(SavedTurn)
    BY <1>1, <1>2, IsASeq DEF SavedStack
  <1>. QED
    BY <1>2, <1>3 DEF SavedStack, TypeOK

(* Changing the blind paths of the latest checkpoint only: what Spoil does. *)
LEMMA SpoilTop ==
    ASSUME TypeOK, checkpoints # <<>>, NEW S \in SUBSET Paths,
           NEW cp, cp.index = Top.index, cp.base = Top.base, cp.blind = Top.blind \cup S,
           checkpoints' = WithTop(cp)
    PROVE  SavedStack' = Promise!Spoil(SavedStack, S)
  <1>. DEFINE n == Len(checkpoints)
              t == Saved(checkpoints[n])
  <1>1. n \in 1 .. n
    BY TopTyped
  <1>2. /\ Len(checkpoints') = n
        /\ \A k \in 1 .. n : checkpoints'[k] = IF k = n THEN cp ELSE checkpoints[k]
    BY <1>1 DEF WithTop, TypeOK
  <1>3. SavedStack' = [k \in 1 .. n |->
                         Saved(checkpoints'[k])]
    BY <1>2 DEF SavedStack
  <1>4. SavedStack # <<>> /\ Len(SavedStack) = n /\ SavedStack[n] = t
    BY <1>1, SavedStackSeq DEF SavedStack
  <1>5. Promise!Spoil(SavedStack, S) =
          [SavedStack EXCEPT ![n] = [mark |-> t.mark, base |-> t.base,
                                     spoilt |-> t.spoilt \cup S]]
    BY <1>4 DEF Promise!Spoil
  <1>7. Promise!Spoil(SavedStack, S) =
          [k \in 1 .. n |->
             IF k = n
               THEN [mark |-> checkpoints[n].index, base |-> checkpoints[n].base,
                     spoilt |-> checkpoints[n].blind \cup S]
               ELSE Saved(checkpoints[k])]
    BY <1>1, <1>5 DEF SavedStack
  <1>8. ASSUME NEW k \in 1 .. n
        PROVE  Saved(checkpoints'[k]) =
                 IF k = n
                   THEN [mark |-> checkpoints[n].index, base |-> checkpoints[n].base,
                         spoilt |-> checkpoints[n].blind \cup S]
                   ELSE Saved(checkpoints[k])
    BY <1>2 DEF Top
  <1>. QED
    BY <1>3, <1>7, <1>8

(* Blinding a stack of checkpoints spoils what it stands for. *)
Turns(cps) ==
    [k \in 1 .. Len(cps) |-> Saved(cps[k])]

LEMMA SavedBlinded ==
    ASSUME NEW cps \in Seq(Checkpoint), NEW S \in SUBSET Paths
    PROVE  Turns(Blinded(cps, S)) = Promise!Spoil(Turns(cps), S)
  <1>. DEFINE n == Len(cps)
              t == Saved(cps[n])
  <1>1. CASE cps = <<>>
    BY <1>1 DEF Blinded, Turns, Promise!Spoil
  <1>2. CASE cps # <<>>
    <2>1. n \in 1 .. n
      BY <1>2
    <2>2. Turns(cps) # <<>> /\ Len(Turns(cps)) = n /\ Turns(cps)[n] = t
      BY <2>1 DEF Turns
    <2>3. Promise!Spoil(Turns(cps), S) =
            [Turns(cps) EXCEPT ![n] = [mark |-> t.mark, base |-> t.base,
                                       spoilt |-> t.spoilt \cup S]]
      BY <2>2 DEF Promise!Spoil
    <2>5. Promise!Spoil(Turns(cps), S) =
            [k \in 1 .. n |->
               IF k = n THEN [mark |-> cps[n].index, base |-> cps[n].base,
                              spoilt |-> cps[n].blind \cup S]
                        ELSE Saved(cps[k])]
      BY <2>1, <2>3 DEF Turns
    <2>6. /\ Len(Blinded(cps, S)) = n
          /\ \A k \in 1 .. n :
               Saved(Blinded(cps, S)[k]) =
                 IF k = n THEN [mark |-> cps[n].index, base |-> cps[n].base,
                                spoilt |-> cps[n].blind \cup S]
                          ELSE Saved(cps[k])
      <3>1. Len(Blinded(cps, S)) = n
        BY BlindedLast
      <3>2. ASSUME NEW k \in 1 .. n
            PROVE  /\ Blinded(cps, S)[k].index = cps[k].index
                   /\ Blinded(cps, S)[k].base = cps[k].base
                   /\ Blinded(cps, S)[k].blind =
                        IF k = n THEN cps[k].blind \cup S ELSE cps[k].blind
        <4>1. \A j \in 1 .. Len(cps) :
                /\ Blinded(cps, S)[j].index = cps[j].index
                /\ Blinded(cps, S)[j].base = cps[j].base
                /\ Blinded(cps, S)[j].blind =
                     IF j = Len(cps) THEN cps[j].blind \cup S ELSE cps[j].blind
          <5>. HIDE DEF n
          <5>. QED
            BY BlindedLast
        <4>. QED
          BY <4>1
      <3>. QED
        BY <3>1, <3>2
    <2>. QED
      BY <2>5, <2>6 DEF Turns
  <1>. QED
    BY <1>1, <1>2

LEMMA OperationImplements ==
    ASSUME CheckpointsInv, CheckpointsInv', Operation
    PROVE  Promise!Next \/ (disk' = disk /\ SavedStack' = SavedStack)
  <1>. USE DEF CheckpointsInv
  <1>1. ASSUME NEW p \in Paths, SnapshotFile(p)
        PROVE  Promise!Next \/ (disk' = disk /\ SavedStack' = SavedStack)
    <2>1. PICK image \in {disk[p], Absent} :
            checkpoints' =
              WithTop([Top EXCEPT !.files[p] = image, !.blind =
                        IF image = disk[p] THEN Top.blind ELSE Top.blind \cup {p}])
      BY <1>1 DEF SnapshotFile
    <2>. DEFINE cp == [Top EXCEPT !.files[p] = image, !.blind =
                        IF image = disk[p] THEN Top.blind ELSE Top.blind \cup {p}]
    <2>2. /\ checkpoints # <<>> /\ cp.index = Top.index /\ cp.base = Top.base
          /\ disk' = disk
          /\ cp.blind = IF image = disk[p] THEN Top.blind ELSE Top.blind \cup {p}
      BY <1>1, TopTyped DEF SnapshotFile, Checkpoint
    <2>3. checkpoints' = WithTop(cp)
      BY <2>1
    <2>. HIDE DEF cp
    <2>4. CASE image = disk[p]
      <3>1. /\ Len(checkpoints) \in 1 .. Len(checkpoints)
            /\ cp.index = checkpoints[Len(checkpoints)].index
            /\ cp.base = checkpoints[Len(checkpoints)].base
            /\ cp.blind = checkpoints[Len(checkpoints)].blind
        BY <2>2, <2>4, TopTyped DEF Top
      <3>2. /\ Len(checkpoints') = Len(checkpoints)
            /\ \A k \in 1 .. Len(checkpoints) :
                 checkpoints'[k] = IF k = Len(checkpoints) THEN cp ELSE checkpoints[k]
        BY <2>3, <3>1 DEF WithTop, TypeOK
      <3>3. \A k \in 1 .. Len(checkpoints) :
              /\ checkpoints'[k].index = checkpoints[k].index
              /\ checkpoints'[k].base = checkpoints[k].base
              /\ checkpoints'[k].blind = checkpoints[k].blind
        BY <3>1, <3>2
      <3>4. SavedStack' = SavedStack
        BY <3>2, <3>3 DEF SavedStack
      <3>. QED
        BY <2>2, <3>4
    <2>5. CASE image # disk[p]
      <3>1. SavedStack' = Promise!Spoil(SavedStack, {p})
        BY <2>2, <2>3, <2>5, SpoilTop
      <3>2. disk[p] \in Images /\ disk' = [disk EXCEPT ![p] = disk[p]]
        BY <2>2 DEF TypeOK
      <3>3. Promise!Meddle(p)
        BY <3>1, <3>2 DEF Promise!Meddle
      <3>. QED
        BY <3>3 DEF Promise!Next
    <2>. QED
      BY <2>4, <2>5
  <1>2. ASSUME NEW p \in Paths, ToolWrite(p) \/ RestoreFileFails(p)
        PROVE  Promise!Next
    <2>1. PICK c \in Images : disk' = [disk EXCEPT ![p] = c]
      BY <1>2 DEF ToolWrite, RestoreFileFails, LeftByFailure, Images, TypeOK
    <2>2. SavedStack' = SavedStack
      BY <1>2 DEF ToolWrite, RestoreFileFails, SavedStack
    <2>. QED
      BY <2>1, <2>2 DEF Promise!Next, Promise!Edit
  <1>3. ASSUME NEW p \in Paths, ForeignWrite(p)
        PROVE  Promise!Next
    <2>1. SavedStack' = Promise!Spoil(SavedStack, {p})
      <3>1. SavedStack' = Turns(Blinded(checkpoints, {p}))
        BY <1>3 DEF ForeignWrite, SavedStack, Turns
      <3>2. SavedStack = Turns(checkpoints)
        BY DEF SavedStack, Turns
      <3>. QED
        BY <3>1, <3>2, SavedBlinded DEF TypeOK
    <2>. QED
      BY <1>3, <2>1 DEF ForeignWrite, Promise!Next, Promise!Meddle
  <1>4. ASSUME NEW p \in Paths, RestoreFile(p)
        PROVE  Promise!Next
    <2>. DEFINE cp == [Top EXCEPT !.files[p] = NoSnapshot]
                n == Len(checkpoints)
    <2>1. /\ checkpoints # <<>> /\ checkpoints' = WithTop(cp)
          /\ Top.files[p] # NoSnapshot /\ disk' = [disk EXCEPT ![p] = Top.files[p]]
      BY <1>4 DEF RestoreFile
    <2>2. /\ cp.index = Top.index /\ cp.base = Top.base /\ cp.blind = Top.blind
          /\ Top.files[p] \in Images
      BY <2>1, TopTyped DEF Checkpoint
    <2>3. n \in 1 .. n /\ Top = checkpoints[n]
      BY <2>1, TopTyped DEF Top
    <2>4. Promise!Top.base = Top.base /\ Promise!Top.spoilt = Top.blind
      BY <2>3, SavedStackSeq DEF Promise!Top
    <2>5. p \notin Promise!Top.spoilt => Top.files[p] = Promise!Top.base[p]
      BY <2>1, <2>4, TopCovered
    <2>. HIDE DEF cp
    <2>6. /\ Len(checkpoints') = n
          /\ \A k \in 1 .. n :
               /\ checkpoints'[k].index = checkpoints[k].index
               /\ checkpoints'[k].base = checkpoints[k].base
               /\ checkpoints'[k].blind = checkpoints[k].blind
      BY <2>1, <2>2, <2>3 DEF WithTop, TypeOK
    <2>7. SavedStack' = SavedStack
      BY <2>6 DEF SavedStack
    <2>8. SavedStack # <<>>
      BY <2>1, SavedStackSeq
    <2>. QED
      BY <2>1, <2>2, <2>5, <2>7, <2>8 DEF Promise!Next, Promise!GiveBack
  <1>5. ASSUME NEW failed \in SUBSET Paths, RestoreAndPop(failed)
        PROVE  Promise!Next
    <2>. DEFINE S == Top.blind \cup failed
                n == Len(Rest)
    <2>1. /\ checkpoints # <<>>
          /\ checkpoints' = IF Top.index = 0 THEN <<>> ELSE Blinded(Rest, S)
      BY <1>5, PopKeepsAllOrNone DEF RestoreAndPop
    <2>2. /\ Rest \in Seq(Checkpoint) /\ Len(checkpoints) = n + 1 /\ n \in Nat
          /\ \A k \in 1 .. n : Rest[k] = checkpoints[k]
          /\ Top = checkpoints[n + 1]
      BY <2>1, TopTyped DEF Top
    <2>3. S \in SUBSET Paths
      BY <2>1, TopTyped DEF Checkpoint
    <2>4. /\ Promise!Top.mark = Top.index
          /\ Promise!Top.base = Top.base /\ Promise!Top.spoilt = Top.blind
          /\ SavedStack # <<>>
      BY <2>1, <2>2, SavedStackSeq DEF Promise!Top
    <2>5. \A q \in Paths \ (Promise!Top.spoilt \cup failed) :
            disk'[q] = Promise!Top.base[q]
      BY <1>5, <2>4, UndoRestores
    <2>6. Promise!Rest = Turns(Rest)
      <3>1. SavedStack \in Seq(SavedTurn)
        BY SavedStackSeq
      <3>2. n \in 0 .. Len(SavedStack) /\ n = Len(SavedStack) - 1
        BY <2>2, SavedStackSeq
      <3>3. /\ Promise!Rest \in Seq(SavedTurn)
            /\ Len(Promise!Rest) = n
            /\ \A k \in 1 .. n : Promise!Rest[k] = SavedStack[k]
        BY <3>1, <3>2, PrefixSeq DEF Promise!Rest
      <3>4. \A k \in 1 .. n :
              SavedStack[k] = Saved(Rest[k])
        BY <2>2 DEF SavedStack
      <3>5. Promise!Rest = [k \in 1 .. n |-> Promise!Rest[k]]
        BY <3>3
      <3>. QED
        BY <3>3, <3>4, <3>5 DEF Turns
    <2>7. SavedStack' = Promise!Spoil(IF Top.index = 0 THEN <<>> ELSE Promise!Rest, S)
      <3>1. CASE Top.index = 0
        BY <2>1, <3>1 DEF SavedStack, Promise!Spoil
      <3>2. CASE Top.index # 0
        <4>1. SavedStack' = Turns(Blinded(Rest, S))
          BY <2>1, <3>2 DEF SavedStack, Turns
        <4>. QED
          BY <2>2, <2>3, <2>6, <3>2, <4>1, SavedBlinded
      <3>. QED
        BY <3>1, <3>2
    <2>. QED
      BY <1>5, <2>4, <2>5, <2>7 DEF Promise!Next, Promise!Undo, TypeOK
  <1>6. ASSUME Clear
        PROVE  Promise!Next
    BY <1>6 DEF Clear, SavedStack, Promise!Next, Promise!Forget
  <1>. QED
    BY <1>1, <1>2, <1>3, <1>4, <1>5, <1>6 DEF Operation

(* Saving only the files a tool announces is as good as saving the whole    *)
(* disk at the start of every turn, for any sequence of edits, failures,    *)
(* single-file restores and undos.                                          *)
THEOREM CheckpointerImplementsUndoStack == Spec => ImplementsUndoStack
  <1>1. Init => Promise!Init
    BY DEF Init, Promise!Init, SavedStack
  <1>2. ASSUME CheckpointsInv, CheckpointsInv', Next
        PROVE  Promise!Next \/ (disk' = disk /\ SavedStack' = SavedStack)
    <2>1. ASSUME NEW i \in Indices, Fresh(i), CreateCheckpoint(i)
          PROVE  Promise!Next
      <3>. DEFINE n == Len(checkpoints)
      <3>1. /\ disk' = disk
            /\ Len(checkpoints') = n + 1 /\ n \in Nat
            /\ \A k \in 1 .. n + 1 :
                 checkpoints'[k] = IF k = n + 1 THEN NewCheckpoint(i) ELSE checkpoints[k]
        BY <1>2, <2>1 DEF CreateCheckpoint, CheckpointsInv, TypeOK
      <3>2. Saved(NewCheckpoint(i)) = [mark |-> i, base |-> disk, spoilt |-> {}]
        BY DEF NewCheckpoint
      <3>3. SavedStack' = [k \in 1 .. n + 1 |->
              IF k = n + 1 THEN [mark |-> i, base |-> disk, spoilt |-> {}]
              ELSE Saved(checkpoints[k])]
        BY <3>1, <3>2 DEF SavedStack
      <3>4. SavedStack' = Append(SavedStack, [mark |-> i, base |-> disk, spoilt |-> {}])
        <4>. DEFINE e == [mark |-> i, base |-> disk, spoilt |-> {}]
        <4>1. /\ SavedStack \in Seq(SavedTurn) /\ Len(SavedStack) = n
              /\ SavedStack = [k \in 1 .. n |->
                   Saved(checkpoints[k])]
          BY <1>2, SavedStackSeq DEF CheckpointsInv, SavedStack
        <4>. HIDE DEF e
        <4>2. Append(SavedStack, e) =
                [k \in 1 .. n + 1 |-> IF k = n + 1 THEN e ELSE SavedStack[k]]
          BY <3>1, <4>1
        <4>. QED
          BY <3>1, <3>3, <4>1, <4>2 DEF e
      <3>5. SavedStack # <<>> => i > Promise!Top.mark \/ (i = 0 /\ Promise!Top.mark = 0)
        <4>1. checkpoints # <<>> => Promise!Top.mark = Top.index
          BY <1>2, SavedStackSeq, TopTyped DEF CheckpointsInv, Promise!Top, Top
        <4>. QED
          BY <1>2, <2>1, <4>1, SavedStackSeq DEF CheckpointsInv, Fresh
      <3>. QED
        BY <3>1, <3>4, <3>5 DEF Promise!Next, Promise!Save
    <2>. QED
      BY <1>2, <2>1, OperationImplements DEF Next
  <1>3. CheckpointsInv /\ CheckpointsInv' /\ [Next]_vars => [Promise!Next]_(Promise!vars)
    <2>1. UNCHANGED vars => disk' = disk /\ SavedStack' = SavedStack
      BY DEF vars, SavedStack
    <2>. QED
      BY <1>2, <2>1 DEF Promise!vars
  <1>. QED
    BY <1>1, <1>3, CheckpointsInvariant, PTL DEF Spec, ImplementsUndoStack, Promise!Spec
=============================================================================
