--------------------------- MODULE SyncFileProofs ---------------------------
(***************************************************************************)
(* Theorems of SyncFile, for every set of devices and of records, every    *)
(* bound and every length function of contents.                            *)
(***************************************************************************)
EXTENDS SyncFile, TLAPS

-----------------------------------------------------------------------------
Plans == [kind : R!Kinds, rev : Nat]

(***************************************************************************)
(* A decision is a kind and a rev, and only a file that is there is noted, *)
(* uploaded or merged (reconcile.ts).                                      *)
(***************************************************************************)
LEMMA DecideResult ==
  ASSUME NEW loc \in Bytes, NEW moved \in BOOLEAN,
         NEW rem \in [rev : Nat, hash : Content], NEW snp \in SnapEntry
  PROVE  /\ R!Decide(loc, moved, rem, snp, FALSE) \in Plans
         /\ R!Decide(loc, moved, rem, snp, FALSE).kind
              \in {"upload", "merge", "mergeNoBase", "converged"} => loc # Absent
<1> DEFINE next == R!NextRev(rem, snp)
<1>0. rem # Absent /\ (snp # Absent => snp.rev \in Nat /\ snp.hash \in Content)
  BY SyncFileAssumption DEF SnapEntry
<1>1. next \in Nat
  BY <1>0 DEF R!NextRev, R!Larger, R!Rev
<1>2. CASE loc = Absent
  BY <1>0, <1>2 DEF R!Decide, R!DecideMissing, R!Rev, Plans, R!Kinds
<1>3. CASE loc # Absent
  <2>1. ~R!LocallyChanged(loc, moved, snp) => snp # Absent
    BY DEF R!LocallyChanged
  <2>2. \A rev \in Nat : R!Note(loc, moved, snp, rev) \in Plans
    BY DEF R!Note, Plans, R!Kinds
  <2> QED
    BY <1>0, <1>1, <1>3, <2>1, <2>2 DEF R!Decide, R!DecideHeld, Plans, R!Kinds
<1>q. QED
  BY <1>2, <1>3

-----------------------------------------------------------------------------
(***************************************************************************)
(* What a pass carries from step to step: a file it notes, uploads or      *)
(* merges is still there (nothing in this module takes it away), and so    *)
(* are the bytes it has fetched or merged.                                 *)
(***************************************************************************)
HashInHand(d) ==
  pass[d].phase \in {"note", "upload"}
    => file[d] \in Content /\ pass[d].hash \in Content

BytesInHand(d) ==
  /\ pass[d].phase \in {"settle", "merge", "mergeWrite", "mergeSend"}
       => file[d] \in Content
  /\ pass[d].phase \in {"settle", "mergeWrite", "mergeSend"}
       => pass[d].bytes \in Content

IInv == TypeOK /\ \A d \in Device : HashInHand(d) /\ BytesInHand(d)

(***************************************************************************)
(* The hash of the scan is that of the file until somebody writes to it,   *)
(* unless the scan trusted a false one; so are the bytes a download or a   *)
(* merge has written.                                                      *)
(***************************************************************************)
InHandIsFresh(d) ==
  /\ pass[d].phase \in {"note", "upload"} /\ ~pass[d].touched
       => pass[d].hash = file[d] \/ Deceived(d)
  /\ pass[d].phase \in {"settle", "mergeSend"} /\ ~pass[d].touched
       => pass[d].bytes = file[d]

TInv == IInv /\ \A d \in Device : InHandIsFresh(d)

LEMMA InitTInv == Init => TInv
<1> SUFFICES ASSUME Init PROVE TInv
  OBVIOUS
<1> USE SyncFileAssumption
<1>1. PICK known \in SUBSET Device :
        /\ file = [d \in Device |-> IF d \in known THEN {} ELSE Absent]
        /\ base = file
        /\ snap = [d \in Device |-> IF d \in known THEN [rev |-> 1, hash |-> {}]
                                    ELSE Absent]
        /\ asSynced = [d \in Device |-> d \in known]
  BY DEF Init
<1>2. {} \in Content /\ FALSE \in BOOLEAN /\ 0 \in 0 .. MaxFaults
  BY DEF Content
<1>3. file \in [Device -> Bytes] /\ base \in [Device -> Bytes]
  BY <1>1, <1>2 DEF Bytes
<1>4. snap \in [Device -> SnapEntry] /\ asSynced \in [Device -> BOOLEAN]
  BY <1>1, <1>2 DEF SnapEntry
<1>5. \A d \in Device : pass[d] = Idle
  BY DEF Init
<1>6. TypeOK
  BY <1>2, <1>3, <1>4 DEF Init, PassState, TypeOK, Published, Idle, Phases, Bytes
<1>7. IInv
  BY <1>5, <1>6 DEF IInv, HashInHand, BytesInHand, Idle
<1>8. \A d \in Device : InHandIsFresh(d)
  BY <1>5 DEF InHandIsFresh, Idle
<1> QED
  BY <1>7, <1>8 DEF TInv

-----------------------------------------------------------------------------
(***************************************************************************)
(* The pieces actions share.                                               *)
(***************************************************************************)
LEMMA FaultType ==
  ASSUME faults \in 0 .. MaxFaults, Fault
  PROVE  faults' \in 0 .. MaxFaults
BY SyncFileAssumption DEF Fault

LEMMA WriteType ==
  ASSUME TypeOK, NEW d \in Device, NEW c \in Content, Write(d, c)
  PROVE  file' \in [Device -> Bytes] /\ asSynced' \in [Device -> BOOLEAN]
BY DEF TypeOK, Write, Bytes

LEMMA RecordType ==
  ASSUME TypeOK, NEW d \in Device, NEW rev \in Nat, NEW hash \in Content,
         NEW trusted \in BOOLEAN, NEW agreed \in Content,
         Record(d, rev, hash, trusted, agreed)
  PROVE  /\ snap' \in [Device -> SnapEntry] /\ asSynced' \in [Device -> BOOLEAN]
         /\ base' \in [Device -> Bytes]
         /\ orphaned' \in Content /\ faults' \in 0 .. MaxFaults
<1> DEFINE entry == [rev |-> rev, hash |-> hash]
<1>1. entry \in SnapEntry /\ agreed \in Bytes
  BY DEF SnapEntry, Bytes
<1>2. orphaned \cup agreed \in Content
  BY DEF TypeOK, Content
<1>3. Fault => faults' \in 0 .. MaxFaults
  BY FaultType DEF TypeOK
<1> QED
  BY <1>1, <1>2, <1>3 DEF Record, TypeOK

LEMMA LandType ==
  ASSUME IInv, NEW d \in Device, NEW hash \in Content, NEW bytes \in Content,
         Land(d, hash, bytes)
  PROVE  /\ remote' \in Published
         /\ covered' \in Content /\ raced' \in Content /\ regressed' \in BOOLEAN
         /\ mixed' \in BOOLEAN
         /\ pass'[d] = Idle
         /\ \A e \in Device \ {d} : \E b \in BOOLEAN : pass'[e] = [pass[e] EXCEPT !.stale = b]
         /\ UNCHANGED <<file, added, deleted, late>>
<1>1. pass[d].rev \in Nat /\ remote.rev \in Nat /\ remote.bytes \in Content
  BY DEF IInv, TypeOK, Published, PassState
<1>2. remote' \in Published
  BY <1>1 DEF Land, Published
<1>3. /\ covered' \in Content /\ raced' \in Content /\ regressed' \in BOOLEAN
      /\ mixed' \in BOOLEAN
      /\ UNCHANGED <<file, added, deleted, late>>
  BY <1>1 DEF Land, IInv, TypeOK, Content
<1>4. pass' = [e \in Device |-> IF e = d THEN Idle
                               ELSE [pass[e] EXCEPT !.stale = Running(e)]]
      /\ \A e \in Device : Running(e) \in BOOLEAN
  BY DEF Land, Running
<1> QED
  BY <1>2, <1>3, <1>4

-----------------------------------------------------------------------------
(***************************************************************************)
(* One lemma per group of actions: each keeps IInv.                        *)
(***************************************************************************)
LEMMA EditIInv ==
  ASSUME IInv, NEW d \in Device, NEW c \in Content, Edit(d, c),
         added' \in Content, deleted' \in Content, late' \in Content,
         faults' \in 0 .. MaxFaults
  PROVE  IInv'
<1>1. file' \in [Device -> Bytes] /\ asSynced' \in [Device -> BOOLEAN]
  BY WriteType DEF IInv, Edit
<1>2. file'[d] = c /\ \A e \in Device \ {d} : file'[e] = file[e]
  BY DEF IInv, TypeOK, Edit, Write
<1>3. pass' \in [Device -> PassState]
  BY DEF IInv, TypeOK, Edit, PassState, Running
<1>4. \A e \in Device : pass'[e] = IF e = d THEN [pass[d] EXCEPT !.touched = Running(d)]
                                   ELSE pass[e]
  BY DEF IInv, TypeOK, Edit
<1>5. pass'[d].phase = pass[d].phase /\ pass'[d].hash = pass[d].hash
      /\ pass'[d].bytes = pass[d].bytes /\ pass'[d].touched = (pass[d].phase # "idle")
  BY <1>4 DEF IInv, TypeOK, PassState, Running
<1>6. TypeOK'
  BY <1>1, <1>3 DEF IInv, TypeOK, Edit
<1>7. HashInHand(d)' /\ BytesInHand(d)'
  BY <1>2, <1>5 DEF IInv, HashInHand, BytesInHand
<1>8. ASSUME NEW e \in Device \ {d} PROVE HashInHand(e)' /\ BytesInHand(e)'
  BY <1>2, <1>4 DEF IInv, HashInHand, BytesInHand
<1> QED
  BY <1>6, <1>7, <1>8 DEF IInv

LEMMA ReaderIInv ==
  ASSUME IInv, NEW d \in Device, Reader(d)
  PROVE  IInv'
<1> USE DEF Content
<1>1. /\ added \in Content /\ deleted \in Content /\ late \in Content
      /\ faults \in 0 .. MaxFaults /\ file[d] \in Bytes
  BY DEF IInv, TypeOK
<1>2. Recs(file[d]) \in Content
  BY <1>1 DEF Recs, Bytes
<1>3. ASSUME NEW r \in Rec, Add(d, r) PROVE IInv'
  <2>1. Recs(file[d]) \cup {r} \in Content /\ added \cup {r} \in Content
        /\ late \cup {r} \in Content
    BY <1>1, <1>2
  <2> QED
    BY <1>1, <1>3, <2>1, EditIInv DEF Add
<1>4. ASSUME NEW r \in Rec, Delete(d, r) PROVE IInv'
  <2>1. /\ file[d] \ {r} \in Content /\ deleted \cup {r} \in Content
        /\ late \cup {r} \in Content
    BY <1>1, <1>2, <1>4 DEF Delete, Recs
  <2> QED
    BY <1>1, <1>4, <2>1, EditIInv DEF Delete
<1>5. ASSUME Resave(d) PROVE IInv'
  <2>1. file[d] \in Content /\ faults' \in 0 .. MaxFaults
    BY <1>1, <1>5, FaultType DEF Resave, Bytes
  <2> QED
    BY <1>1, <1>5, <2>1, EditIInv DEF Resave
<1> QED
  BY <1>3, <1>4, <1>5 DEF Reader

\* A step that ends the pass of d and leaves every other pass, and its file.
LEMMA EndOfPass ==
  ASSUME IInv, NEW d \in Device, TypeOK',
         pass'[d] = Idle,
         \A e \in Device \ {d} :
           /\ file'[e] = file[e]
           /\ pass'[e].phase = pass[e].phase /\ pass'[e].hash = pass[e].hash
           /\ pass'[e].bytes = pass[e].bytes /\ pass'[e].touched = pass[e].touched
  PROVE  IInv'
BY DEF IInv, HashInHand, BytesInHand, Idle

LEMMA PlanIInv ==
  ASSUME IInv, NEW d \in Device, Plan(d)
  PROVE  IInv'
<1> DEFINE plan == Planned(d)
           ph   == NextPhase(d, plan.kind)
<1>1. /\ file[d] \in Bytes /\ ScanHash(d) \in Bytes /\ snap[d] \in SnapEntry
      /\ remote \in Published /\ asSynced[d] \in BOOLEAN
  BY DEF IInv, TypeOK, ScanHash, SnapEntry, Bytes
<1>2. ScanHash(d) # Absent => file[d] \in Content /\ ScanHash(d) \in Content
  BY <1>1, SyncFileAssumption DEF ScanHash, Bytes
<1>3. plan \in Plans /\ (plan.kind \in {"upload", "merge", "mergeNoBase", "converged"}
                           => ScanHash(d) # Absent)
  BY <1>1, DecideResult DEF Planned, Published
<1>4. pass' = [pass EXCEPT ![d] =
             [Idle EXCEPT !.phase = ph,
                          !.rev = plan.rev,
                          !.hash = IF ph \in {"note", "upload"} THEN ScanHash(d) ELSE Absent,
                          !.noBase = (plan.kind = "mergeNoBase")]]
      /\ UNCHANGED <<file, asSynced, snap, base, remote, faults, history>>
  BY DEF Plan
<1>5. /\ ph \in Phases \ {"settle", "mergeWrite", "mergeSend"}
      /\ ph \in {"note", "upload", "merge"} => ScanHash(d) # Absent
  BY <1>3 DEF NextPhase, Phases, Plans, R!Kinds
<1>6. /\ pass'[d].phase = ph
      /\ pass'[d].hash = IF ph \in {"note", "upload"} THEN ScanHash(d) ELSE Absent
      /\ pass'[d] \in PassState
      /\ \A e \in Device \ {d} : pass'[e] = pass[e]
  BY <1>1, <1>3, <1>4, <1>5 DEF IInv, TypeOK, PassState, Plans, Idle, Bytes
<1>7. TypeOK'
  BY <1>4, <1>6 DEF IInv, TypeOK, history
<1>8. HashInHand(d)' /\ BytesInHand(d)'
  BY <1>2, <1>4, <1>5, <1>6 DEF HashInHand, BytesInHand
<1>9. \A e \in Device \ {d} : HashInHand(e)' /\ BytesInHand(e)'
  BY <1>4, <1>6 DEF IInv, HashInHand, BytesInHand
<1> QED
  BY <1>7, <1>8, <1>9 DEF IInv

LEMMA NoteSeedIInv ==
  ASSUME IInv, NEW d \in Device, NoteConverged(d) \/ SeedBase(d)
  PROVE  IInv'
<1>1. /\ pass' = [pass EXCEPT ![d] = Idle]
      /\ UNCHANGED <<file, remote, added, deleted, late, covered, raced, regressed>>
  BY DEF NoteConverged, SeedBase, Finish, history
<1>2. pass' \in [Device -> PassState] /\ pass'[d] = Idle
      /\ \A e \in Device \ {d} : pass'[e] = pass[e]
  BY <1>1 DEF IInv, TypeOK, PassState, Idle, Phases, Bytes
<1>3. CASE NoteConverged(d)
  <2>1. /\ pass[d].rev \in Nat /\ pass[d].hash \in Content
        /\ file[d] \in Content /\ (~pass[d].touched) \in BOOLEAN
    BY <1>3 DEF NoteConverged, At, IInv, HashInHand, TypeOK, PassState
  <2>2. TypeOK'
    BY <1>1, <1>2, <1>3, <2>1, RecordType DEF NoteConverged, IInv, TypeOK
  <2> QED
    BY <1>1, <1>2, <2>2, EndOfPass
<1>4. CASE SeedBase(d)
  <2>1. TypeOK'
    BY <1>1, <1>2, <1>4 DEF SeedBase, IInv, TypeOK, history
  <2> QED
    BY <1>1, <1>2, <2>1, EndOfPass
<1> QED
  BY <1>3, <1>4

LEMMA DownloadIInv ==
  ASSUME IInv, NEW d \in Device, DownloadWrite(d) \/ DownloadSettle(d)
  PROVE  IInv'
<1>1. CASE DownloadWrite(d)
  <2>1. remote.bytes \in Content
    BY DEF IInv, TypeOK, Published
  <2>2. /\ file' \in [Device -> Bytes] /\ asSynced' \in [Device -> BOOLEAN]
        /\ file'[d] = remote.bytes /\ \A e \in Device \ {d} : file'[e] = file[e]
    BY <1>1, <2>1, WriteType DEF DownloadWrite, IInv, Write, TypeOK
  <2>3. /\ pass' \in [Device -> PassState]
        /\ pass'[d].phase = "settle" /\ pass'[d].bytes = remote.bytes
        /\ \A e \in Device \ {d} : pass'[e] = pass[e]
    BY <1>1, <2>1 DEF DownloadWrite, IInv, TypeOK, PassState, Phases, Bytes
  <2>4. TypeOK'
    BY <1>1, <2>2, <2>3 DEF DownloadWrite, IInv, TypeOK, history
  <2>5. HashInHand(d)' /\ BytesInHand(d)'
    BY <2>1, <2>2, <2>3 DEF HashInHand, BytesInHand
  <2>6. \A e \in Device \ {d} : HashInHand(e)' /\ BytesInHand(e)'
    BY <2>2, <2>3 DEF IInv, HashInHand, BytesInHand
  <2> QED
    BY <2>4, <2>5, <2>6 DEF IInv
<1>2. CASE DownloadSettle(d)
  <2>1. /\ pass[d].rev \in Nat /\ pass[d].bytes \in Content
        /\ (Size(file[d]) = Size(pass[d].bytes)) \in BOOLEAN
    BY <1>2 DEF DownloadSettle, At, IInv, BytesInHand, TypeOK, PassState
  <2>2. /\ pass' \in [Device -> PassState] /\ pass'[d] = Idle
        /\ \A e \in Device \ {d} : pass'[e] = pass[e]
    BY <1>2 DEF DownloadSettle, Finish, IInv, TypeOK, PassState, Idle, Phases, Bytes
  <2>3. TypeOK'
    BY <1>2, <2>1, <2>2, RecordType DEF DownloadSettle, IInv, TypeOK
  <2> QED
    BY <1>2, <2>2, <2>3, EndOfPass DEF DownloadSettle
<1> QED
  BY <1>1, <1>2

\* Both ways of publishing: the entry lands, the bookkeeping follows.
LEMMA PublishIInv ==
  ASSUME IInv, NEW d \in Device, NEW hash \in Content, NEW bytes \in Content,
         NEW trusted \in BOOLEAN,
         Land(d, hash, bytes), Record(d, pass[d].rev, hash, trusted, bytes)
  PROVE  IInv'
<1>1. pass[d].rev \in Nat
  BY DEF IInv, TypeOK, PassState
<1>2. pass' \in [Device -> PassState]
  <2>1. Idle \in PassState
    BY DEF Idle, PassState, Phases, Bytes
  <2>2. ASSUME NEW e \in Device
        PROVE  [pass[e] EXCEPT !.stale = Running(e)] \in PassState
    BY DEF IInv, TypeOK, PassState, Running
  <2> QED
    BY <2>1, <2>2 DEF Land
<1>3. TypeOK'
  BY <1>1, <1>2, LandType, RecordType DEF IInv, TypeOK
<1>4. \A e \in Device \ {d} :
        /\ pass'[e].phase = pass[e].phase /\ pass'[e].hash = pass[e].hash
        /\ pass'[e].bytes = pass[e].bytes /\ pass'[e].touched = pass[e].touched
  BY DEF Land, IInv, TypeOK, PassState
<1> QED
  BY <1>3, <1>4, LandType, EndOfPass

LEMMA MergeIInv ==
  ASSUME IInv, NEW d \in Device, MergeRead(d) \/ MergeWrite(d) \/ MergeSend(d)
  PROVE  IInv'
<1>0. /\ pass[d] \in PassState /\ remote.bytes \in Content /\ base[d] \in Bytes
      /\ pass[d].rev \in Nat
  BY DEF IInv, TypeOK, Published, PassState
<1>1. CASE MergeRead(d)
  <2> DEFINE b   == IF pass[d].noBase THEN Absent ELSE base[d]
             out == Merge3(b, file[d], remote.bytes)
  <2>1. file[d] \in Content
    BY <1>1 DEF MergeRead, At, IInv, BytesInHand
  <2>2. out \in Content
    BY <1>0, <2>1 DEF Merge3, Content
  <2> HIDE DEF out
  <2>3. /\ pass' = [pass EXCEPT ![d] = [@ EXCEPT !.phase = "mergeWrite", !.stale = FALSE,
                                                !.bytes = out]]
        /\ UNCHANGED <<file, asSynced, snap, base, remote, faults, history>>
    BY <1>1 DEF MergeRead, out
  <2>4. /\ pass' \in [Device -> PassState]
        /\ pass'[d].phase = "mergeWrite" /\ pass'[d].bytes = out
        /\ \A e \in Device \ {d} : pass'[e] = pass[e]
    BY <1>0, <2>2, <2>3 DEF IInv, TypeOK, PassState, Phases, Bytes
  <2>5. TypeOK'
    BY <2>3, <2>4 DEF IInv, TypeOK, history
  <2>6. HashInHand(d)' /\ BytesInHand(d)'
    BY <2>1, <2>2, <2>3, <2>4 DEF HashInHand, BytesInHand
  <2>7. \A e \in Device \ {d} : HashInHand(e)' /\ BytesInHand(e)'
    BY <2>3, <2>4 DEF IInv, HashInHand, BytesInHand
  <2> QED
    BY <2>5, <2>6, <2>7 DEF IInv
<1>2. CASE MergeWrite(d)
  <2>1. pass[d].bytes \in Content
    BY <1>2 DEF MergeWrite, At, IInv, BytesInHand
  <2>2. /\ file' \in [Device -> Bytes] /\ asSynced' \in [Device -> BOOLEAN]
        /\ file'[d] = pass[d].bytes /\ \A e \in Device \ {d} : file'[e] = file[e]
    BY <1>2, <2>1, WriteType DEF MergeWrite, IInv, Write, TypeOK
  <2>3. /\ pass' \in [Device -> PassState]
        /\ pass'[d].phase = "mergeSend" /\ pass'[d].bytes = pass[d].bytes
        /\ \A e \in Device \ {d} : pass'[e] = pass[e]
    BY <1>0, <1>2 DEF MergeWrite, IInv, TypeOK, PassState, Phases
  <2>4. TypeOK'
    BY <1>2, <2>2, <2>3 DEF MergeWrite, IInv, TypeOK, history
  <2>5. HashInHand(d)' /\ BytesInHand(d)'
    BY <2>1, <2>2, <2>3 DEF HashInHand, BytesInHand
  <2>6. \A e \in Device \ {d} : HashInHand(e)' /\ BytesInHand(e)'
    BY <2>2, <2>3 DEF IInv, HashInHand, BytesInHand
  <2> QED
    BY <2>4, <2>5, <2>6 DEF IInv
<1>3. CASE MergeSend(d)
  <2>1. /\ pass[d].bytes \in Content
        /\ (Size(file[d]) = Size(pass[d].bytes)) \in BOOLEAN
    BY <1>3 DEF MergeSend, At, IInv, BytesInHand
  <2> QED
    BY <1>0, <1>3, <2>1, PublishIInv DEF MergeSend
<1> QED
  BY <1>1, <1>2, <1>3

LEMMA UploadIInv ==
  ASSUME IInv, NEW d \in Device, Upload(d)
  PROVE  IInv'
<1>1. /\ pass[d].rev \in Nat /\ pass[d].hash \in Content /\ file[d] \in Content
      /\ (~pass[d].touched) \in BOOLEAN
  BY DEF Upload, At, IInv, HashInHand, TypeOK, PassState
<1> QED
  BY <1>1, PublishIInv DEF Upload

LEMMA FailSignOutIInv ==
  ASSUME IInv, NEW d \in Device, Fail(d) \/ SignOut(d)
  PROVE  IInv'
<1>1. faults' \in 0 .. MaxFaults
  BY FaultType DEF Fail, SignOut, IInv, TypeOK
<1>2. CASE Fail(d)
  <2>1. /\ pass' \in [Device -> PassState] /\ pass'[d] = Idle
        /\ \A e \in Device \ {d} : pass'[e] = pass[e]
    BY <1>2 DEF Fail, Finish, IInv, TypeOK, PassState, Idle, Phases, Bytes
  <2>2. TypeOK'
    BY <1>1, <1>2, <2>1 DEF Fail, IInv, TypeOK, history
  <2> QED
    BY <1>2, <2>1, <2>2, EndOfPass DEF Fail
<1>3. CASE SignOut(d)
  <2>1. TypeOK'
    BY <1>1, <1>3 DEF SignOut, IInv, TypeOK, history, SnapEntry, Bytes
  <2> QED
    BY <1>3, <2>1 DEF SignOut, IInv, HashInHand, BytesInHand
<1> QED
  BY <1>2, <1>3

LEMMA StepIInv == IInv /\ [Next]_vars => IInv'
<1> SUFFICES ASSUME IInv, [Next]_vars PROVE IInv'
  OBVIOUS
<1>1. ASSUME NEW d \in Device, Reader(d) \/ PassStep(d) \/ Fail(d) \/ SignOut(d)
      PROVE IInv'
  BY <1>1, ReaderIInv, PlanIInv, NoteSeedIInv, DownloadIInv, MergeIInv, UploadIInv,
     FailSignOutIInv DEF PassStep
<1>2. CASE UNCHANGED vars
  BY <1>2 DEF vars, history, IInv, TypeOK, HashInHand, BytesInHand
<1> QED
  BY <1>1, <1>2 DEF Next

(***************************************************************************)
(* Every state of every pass is of its type, whatever fails and whoever    *)
(* publishes in between.                                                   *)
(***************************************************************************)
THEOREM TypeCorrect == Spec => []TypeOK
<1>1. Init => IInv
  BY InitTInv DEF TInv
<1>2. IInv => TypeOK
  BY DEF IInv
<1> QED
  BY <1>1, <1>2, StepIInv, PTL DEF Spec

-----------------------------------------------------------------------------
(***************************************************************************)
(* The mtime short-cut of the scan, step by step: who comes to trust a     *)
(* false hash, and what the passes hold in hand.                           *)
(***************************************************************************)
Honest(d) == Deceived(d)' => Deceived(d) \/ ReplacedUnseen(d)

Same(e) ==
  /\ file'[e] = file[e] /\ asSynced'[e] = asSynced[e] /\ snap'[e] = snap[e]
  /\ pass'[e].phase = pass[e].phase /\ pass'[e].touched = pass[e].touched
  /\ pass'[e].hash = pass[e].hash /\ pass'[e].bytes = pass[e].bytes

LEMMA SameStaysHonest ==
  ASSUME TInv, NEW d \in Device, Honest(d), InHandIsFresh(d)',
         \A e \in Device \ {d} : Same(e)
  PROVE  \A e \in Device : Honest(e) /\ InHandIsFresh(e)'
<1>1. ASSUME NEW e \in Device \ {d} PROVE Deceived(e)' = Deceived(e)
  BY DEF Same, Deceived
<1>2. ASSUME NEW e \in Device \ {d} PROVE Honest(e) /\ InHandIsFresh(e)'
  BY <1>1 DEF TInv, Same, Honest, InHandIsFresh
<1> QED
  BY <1>2

\* The entry a transfer leaves deceives only if it is trusted and not the file's.
LEMMA RecordDeceives ==
  ASSUME TypeOK, NEW d \in Device, NEW rev, NEW hash, NEW trusted \in BOOLEAN,
         NEW agreed, Record(d, rev, hash, trusted, agreed), UNCHANGED file
  PROVE  /\ Deceived(d)' => Deceived(d) \/ (trusted /\ hash # file[d])
         /\ \A e \in Device \ {d} : asSynced'[e] = asSynced[e] /\ snap'[e] = snap[e]
BY DEF Record, TypeOK, Deceived

LEMMA WriteStaysHonest ==
  ASSUME TInv, NEW d \in Device, NEW c, Write(d, c), UNCHANGED snap,
         InHandIsFresh(d)',
         \A e \in Device \ {d} : pass'[e] = pass[e]
  PROVE  \A e \in Device : Honest(e) /\ InHandIsFresh(e)'
<1>1. ~asSynced'[d] /\ \A e \in Device \ {d} : Same(e)
  BY DEF Write, TInv, IInv, TypeOK, Same
<1>2. Honest(d)
  BY <1>1 DEF Honest, Deceived
<1> QED
  BY <1>1, <1>2, SameStaysHonest

LEMMA EditStaysHonest ==
  ASSUME TInv, NEW d \in Device, NEW c, Edit(d, c)
  PROVE  \A e \in Device : Honest(e) /\ InHandIsFresh(e)'
<1>1. /\ pass'[d].phase = pass[d].phase
      /\ pass'[d].touched = (pass[d].phase # "idle")
      /\ \A e \in Device \ {d} : pass'[e] = pass[e]
  BY DEF Edit, Running, TInv, IInv, TypeOK, PassState
<1>2. InHandIsFresh(d)'
  BY <1>1 DEF InHandIsFresh
<1> QED
  BY <1>1, <1>2, WriteStaysHonest DEF Edit

LEMMA PlanStaysHonest ==
  ASSUME TInv, NEW d \in Device, Plan(d)
  PROVE  \A e \in Device : Honest(e) /\ InHandIsFresh(e)'
<1> DEFINE plan == Planned(d)
           ph   == NextPhase(d, plan.kind)
<1>1. /\ pass'[d].phase = ph
      /\ pass'[d].hash = IF ph \in {"note", "upload"} THEN ScanHash(d) ELSE Absent
      /\ \A e \in Device \ {d} : pass'[e] = pass[e]
      /\ UNCHANGED <<file, asSynced, snap>>
  BY DEF Plan, TInv, IInv, TypeOK, Idle
<1>2. ScanHash(d) = file[d] \/ Deceived(d)
  BY DEF ScanHash, Deceived
<1>3. Honest(d) /\ Deceived(d)' = Deceived(d) /\ \A e \in Device \ {d} : Same(e)
  BY <1>1 DEF Honest, Deceived, Same
<1>4. ph \notin {"settle", "mergeSend"}
  BY DEF NextPhase
<1>5. InHandIsFresh(d)'
  BY <1>1, <1>2, <1>3, <1>4 DEF InHandIsFresh
<1> QED
  BY <1>3, <1>5, SameStaysHonest

\* A step that ends the pass of d with the bookkeeping of a transfer.
LEMMA FinishStaysHonest ==
  ASSUME TInv, NEW d \in Device, NEW rev, NEW hash, NEW trusted \in BOOLEAN,
         NEW agreed, Record(d, rev, hash, trusted, agreed), UNCHANGED file,
         trusted => \/ hash = file[d] \/ Deceived(d)
                    \/ ReplacedUnseen(d),
         pass'[d] = Idle,
         \A e \in Device \ {d} :
           /\ pass'[e].phase = pass[e].phase /\ pass'[e].touched = pass[e].touched
           /\ pass'[e].hash = pass[e].hash /\ pass'[e].bytes = pass[e].bytes
  PROVE  \A e \in Device : Honest(e) /\ InHandIsFresh(e)'
<1>1. InHandIsFresh(d)'
  BY DEF InHandIsFresh, Idle
<1>2. Honest(d) /\ \A e \in Device \ {d} : Same(e)
  BY RecordDeceives DEF TInv, IInv, Honest, Same
<1> QED
  BY <1>1, <1>2, SameStaysHonest

LEMMA PassStepStaysHonest ==
  ASSUME TInv, NEW d \in Device, PassStep(d)
  PROVE  \A e \in Device : Honest(e) /\ InHandIsFresh(e)'
<1>0. /\ pass[d] \in PassState /\ pass[d].touched \in BOOLEAN
      /\ InHandIsFresh(d) /\ HashInHand(d) /\ BytesInHand(d)
  BY DEF TInv, IInv, TypeOK, PassState
<1>1. CASE Plan(d)
  BY <1>1, PlanStaysHonest
<1>2. CASE NoteConverged(d)
  <2>1. ~pass[d].touched => pass[d].hash = file[d] \/ Deceived(d)
    BY <1>0, <1>2 DEF NoteConverged, At, InHandIsFresh
  <2>2. pass'[d] = Idle /\ \A e \in Device \ {d} : pass'[e] = pass[e]
    BY <1>2 DEF NoteConverged, Finish, TInv, IInv, TypeOK
  <2> QED
    BY <1>0, <1>2, <2>1, <2>2, FinishStaysHonest DEF NoteConverged
<1>3. CASE SeedBase(d)
  <2>1. pass'[d] = Idle /\ \A e \in Device \ {d} : pass'[e] = pass[e]
    BY <1>3 DEF SeedBase, Finish, TInv, IInv, TypeOK
  <2>2. /\ InHandIsFresh(d)' /\ Honest(d)
        /\ \A e \in Device \ {d} : Same(e)
    BY <1>3, <2>1 DEF SeedBase, InHandIsFresh, Idle, Honest, Deceived, Same
  <2> QED
    BY <2>2, SameStaysHonest
<1>4. CASE DownloadWrite(d)
  <2>1. /\ pass'[d].phase = "settle" /\ pass'[d].bytes = file'[d]
        /\ \A e \in Device \ {d} : pass'[e] = pass[e]
    BY <1>4 DEF DownloadWrite, Write, TInv, IInv, TypeOK, PassState
  <2>2. InHandIsFresh(d)'
    BY <2>1 DEF InHandIsFresh
  <2> QED
    BY <1>4, <2>1, <2>2, WriteStaysHonest DEF DownloadWrite
<1>5. CASE DownloadSettle(d)
  <2>1. Size(file[d]) = Size(pass[d].bytes)
          => pass[d].bytes = file[d] \/ ReplacedUnseen(d)
    BY <1>0, <1>5 DEF DownloadSettle, At, InHandIsFresh, ReplacedUnseen
  <2>2. pass'[d] = Idle /\ \A e \in Device \ {d} : pass'[e] = pass[e]
    BY <1>5 DEF DownloadSettle, Finish, TInv, IInv, TypeOK
  <2> QED
    BY <1>5, <2>1, <2>2, FinishStaysHonest DEF DownloadSettle
<1>6. CASE MergeRead(d)
  <2>1. pass'[d].phase = "mergeWrite" /\ \A e \in Device \ {d} : pass'[e] = pass[e]
    BY <1>6 DEF MergeRead, TInv, IInv, TypeOK, PassState
  <2>2. /\ InHandIsFresh(d)' /\ Honest(d)
        /\ \A e \in Device \ {d} : Same(e)
    BY <1>6, <2>1 DEF MergeRead, InHandIsFresh, Honest, Deceived, Same
  <2> QED
    BY <2>2, SameStaysHonest
<1>7. CASE MergeWrite(d)
  <2>1. /\ pass'[d].phase = "mergeSend" /\ pass'[d].bytes = file'[d]
        /\ \A e \in Device \ {d} : pass'[e] = pass[e]
    BY <1>7 DEF MergeWrite, Write, TInv, IInv, TypeOK, PassState
  <2>2. InHandIsFresh(d)'
    BY <2>1 DEF InHandIsFresh
  <2> QED
    BY <1>7, <2>1, <2>2, WriteStaysHonest DEF MergeWrite
<1>8. CASE MergeSend(d)
  <2>1. Size(file[d]) = Size(pass[d].bytes)
          => pass[d].bytes = file[d] \/ ReplacedUnseen(d)
    BY <1>0, <1>8 DEF MergeSend, At, InHandIsFresh, ReplacedUnseen
  <2>2. /\ UNCHANGED file /\ pass'[d] = Idle
        /\ \A e \in Device \ {d} :
             /\ pass'[e].phase = pass[e].phase /\ pass'[e].touched = pass[e].touched
             /\ pass'[e].hash = pass[e].hash /\ pass'[e].bytes = pass[e].bytes
    BY <1>8 DEF MergeSend, Land, TInv, IInv, TypeOK, PassState
  <2> QED
    BY <1>8, <2>1, <2>2, FinishStaysHonest DEF MergeSend
<1>9. CASE Upload(d)
  <2>1. ~pass[d].touched => pass[d].hash = file[d] \/ Deceived(d)
    BY <1>0, <1>9 DEF Upload, At, InHandIsFresh
  <2>2. /\ UNCHANGED file /\ pass'[d] = Idle
        /\ \A e \in Device \ {d} :
             /\ pass'[e].phase = pass[e].phase /\ pass'[e].touched = pass[e].touched
             /\ pass'[e].hash = pass[e].hash /\ pass'[e].bytes = pass[e].bytes
    BY <1>9 DEF Upload, Land, TInv, IInv, TypeOK, PassState
  <2> QED
    BY <1>0, <1>9, <2>1, <2>2, FinishStaysHonest DEF Upload
<1> QED
  BY <1>1, <1>2, <1>3, <1>4, <1>5, <1>6, <1>7, <1>8, <1>9 DEF PassStep

LEMMA StepStaysHonest ==
  TInv /\ [Next]_vars
    => TInv' /\ [\A d \in Device : Deceived(d)' => Deceived(d) \/ ReplacedUnseen(d)]_vars
<1> SUFFICES ASSUME TInv, [Next]_vars
             PROVE  IInv' /\ \A e \in Device : Honest(e) /\ InHandIsFresh(e)'
  BY DEF TInv, Honest
<1>1. IInv'
  BY StepIInv DEF TInv
<1>2. ASSUME NEW d \in Device, Reader(d)
      PROVE  \A e \in Device : Honest(e) /\ InHandIsFresh(e)'
  BY <1>2, EditStaysHonest DEF Reader, Add, Delete, Resave
<1>3. ASSUME NEW d \in Device, Fail(d)
      PROVE  \A e \in Device : Honest(e) /\ InHandIsFresh(e)'
  <2>1. pass'[d] = Idle /\ \A e \in Device \ {d} : pass'[e] = pass[e]
    BY <1>3 DEF Fail, Finish, TInv, IInv, TypeOK
  <2>2. /\ InHandIsFresh(d)' /\ Honest(d)
        /\ \A e \in Device \ {d} : Same(e)
    BY <1>3, <2>1 DEF Fail, InHandIsFresh, Idle, Honest, Deceived, Same
  <2> QED
    BY <2>2, SameStaysHonest
<1>4. ASSUME NEW d \in Device, SignOut(d)
      PROVE  \A e \in Device : Honest(e) /\ InHandIsFresh(e)'
  <2>1. ~asSynced'[d] /\ \A e \in Device \ {d} : Same(e)
    BY <1>4 DEF SignOut, TInv, IInv, TypeOK, Same
  <2>2. InHandIsFresh(d)' /\ Honest(d)
    BY <1>4, <2>1 DEF SignOut, At, InHandIsFresh, Honest, Deceived
  <2> QED
    BY <2>1, <2>2, SameStaysHonest
<1>5. ASSUME NEW d \in Device, PassStep(d)
      PROVE  \A e \in Device : Honest(e) /\ InHandIsFresh(e)'
  BY <1>5, PassStepStaysHonest
<1>6. CASE Next
  BY <1>1, <1>2, <1>3, <1>4, <1>5, <1>6 DEF Next
<1>7. CASE UNCHANGED vars
  BY <1>1, <1>7 DEF vars, TInv, Honest, Deceived, InHandIsFresh
<1> QED
  BY <1>6, <1>7

(***************************************************************************)
(* A scan that skips a file because its mtime and size are those of the    *)
(* snapshot reports the hash the file really has, until a reader replaces  *)
(* what a pass has just written by a content of the same size, before that *)
(* pass asks for the mtime.  Nothing is assumed of sizes.                  *)
(***************************************************************************)
THEOREM TrustedHash == Spec => DeceivedOnlyBySize
BY InitTInv, StepStaysHonest, PTL DEF Spec, DeceivedOnlyBySize

-----------------------------------------------------------------------------
(***************************************************************************)
(* What keeps a record in the file of its author.  A live record is one no *)
(* window of LossOnlyByRace excuses.  On any other device it is never      *)
(* without being in the remote entry too, and while such a device lacks it *)
(* the remote is not behind that device's back: a pass of its that would   *)
(* publish over the record is stale.  The author's own view of it differs  *)
(* while it is alone with the record: then its snapshot names the record   *)
(* at the remote's rev as soon as the record was sent, which is what stops *)
(* a download and a merge that would take the record for deleted.          *)
(***************************************************************************)
Live(r) == r \in added \ (deleted \cup late \cup raced \cup orphaned)

Has(e, r) == r \in Recs(file[e])
Entered(e, r) == snap[e] # Absent /\ r \in snap[e].hash
Alone(r) == \A e \in Device \ {Author[r]} : ~Has(e, r)
Sent(r) == r \in remote.bytes \cup covered

InHand(e, r) ==
  /\ pass[e].phase \in {"note", "upload"} => (r \in Recs(pass[e].hash) <=> Has(e, r))
  /\ pass[e].phase \in {"settle", "mergeSend"} => (r \in Recs(pass[e].bytes) <=> Has(e, r))
  /\ At(e, "mergeWrite") /\ Has(e, r) => r \in Recs(pass[e].bytes)

Knows(e, r) ==
  /\ Entered(e, r) \/ r \in Recs(base[e]) => Has(e, r)
  /\ asSynced[e] /\ snap[e] # Absent /\ Has(e, r) => Entered(e, r)
  /\ InHand(e, r)

Elsewhere(e, r) ==
  /\ Has(e, r) => r \in remote.bytes
  /\ At(e, "mergeWrite") /\ r \in Recs(pass[e].bytes) => r \in remote.bytes
  /\ ~Has(e, r) /\ r \in remote.bytes =>
       /\ ~Beyond(e, remote.rev)
       /\ pass[e].phase \in {"upload", "mergeSend"} => pass[e].stale
       /\ At(e, "mergeWrite") /\ r \notin Recs(pass[e].bytes) => pass[e].stale

AloneWithIt(d, r) ==
  /\ Sent(r) /\ snap[d] # Absent => Entered(d, r) /\ snap[d].rev = remote.rev
  /\ Entered(d, r) => Sent(r)
  /\ At(d, "note") => Sent(r) /\ pass[d].rev = remote.rev
  /\ pass[d].phase \notin {"download", "settle"}
  /\ At(d, "merge") /\ ~pass[d].noBase => r \notin Recs(base[d])

AtHome(d, r) ==
  /\ Has(d, r)
  /\ r \in Recs(base[d]) => Entered(d, r)
  /\ At(d, "seed") => Entered(d, r)
  /\ r \in covered => r \notin remote.bytes
  /\ Alone(r) => AloneWithIt(d, r)

Safe(r) ==
  /\ r \in remote.hash <=> r \in remote.bytes
  /\ \A e \in Device : Knows(e, r)
  /\ \A e \in Device \ {Author[r]} : Elsewhere(e, r)
  /\ AtHome(Author[r], r)

\* Before it is written, a record is nowhere.
Untraced(e, r) ==
  /\ r \notin Recs(file[e]) \cup Recs(base[e])
  /\ r \notin Recs(pass[e].hash) \cup Recs(pass[e].bytes)
  /\ ~Entered(e, r)

Unwritten(r) ==
  /\ r \notin remote.hash \cup remote.bytes \cup covered
  /\ \A e \in Device : Untraced(e, r)

Accounted(r) ==
  /\ r \notin added => Unwritten(r)
  /\ Live(r) => Safe(r)

LInv == \A r \in Rec : Accounted(r)

LEMMA InitLInv == Init => LInv
<1> SUFFICES ASSUME Init, NEW r \in Rec PROVE Accounted(r)
  BY DEF LInv
<1>1. PICK known \in SUBSET Device :
        /\ file = [d \in Device |-> IF d \in known THEN {} ELSE Absent]
        /\ base = file
        /\ snap = [d \in Device |-> IF d \in known THEN [rev |-> 1, hash |-> {}]
                                    ELSE Absent]
  BY DEF Init
<1>2. \A e \in Device : Untraced(e, r)
  BY <1>1 DEF Init, Idle, Untraced, Recs, Entered
<1>3. r \notin remote.hash \cup remote.bytes \cup covered /\ r \notin added
  BY DEF Init
<1> QED
  BY <1>2, <1>3 DEF Accounted, Unwritten, Live

-----------------------------------------------------------------------------
(***************************************************************************)
(* Steps of one device that publish nothing.                               *)
(***************************************************************************)
Untouched(e) ==
  /\ file'[e] = file[e] /\ asSynced'[e] = asSynced[e]
  /\ snap'[e] = snap[e] /\ base'[e] = base[e]
  /\ pass'[e].phase = pass[e].phase /\ pass'[e].rev = pass[e].rev
  /\ pass'[e].hash = pass[e].hash /\ pass'[e].bytes = pass[e].bytes
  /\ pass'[e].noBase = pass[e].noBase

LEMMA KnowsUntouched ==
  ASSUME NEW r, NEW e \in Device, Knows(e, r), Untouched(e)
  PROVE  Knows(e, r)' /\ (Has(e, r)' <=> Has(e, r)) /\ (Entered(e, r)' <=> Entered(e, r))
BY DEF Knows, Untouched, Has, Entered, InHand, At, Recs

LEMMA ElsewhereUntouched ==
  ASSUME NEW r, NEW e \in Device, Elsewhere(e, r), Untouched(e),
         pass'[e].stale = pass[e].stale, UNCHANGED remote
  PROVE  Elsewhere(e, r)'
<1>1. Beyond(e, remote.rev)' <=> Beyond(e, remote.rev)
  BY DEF Beyond, Untouched, R!Rev
<1> QED
  BY <1>1 DEF Elsewhere, Untouched, Has, At, Recs

Quiet(d) ==
  /\ UNCHANGED <<remote, covered>>
  /\ \A e \in Device \ {d} : Untouched(e) /\ pass'[e].stale = pass[e].stale

LEMMA QuietStep ==
  ASSUME NEW r \in Rec, NEW d \in Device, Safe(r), Quiet(d), Knows(d, r)',
         d # Author[r] => Elsewhere(d, r)' /\ (Has(d, r) => Has(d, r)'),
         d = Author[r] => AtHome(d, r)'
  PROVE  Safe(r)'
<1> DEFINE a == Author[r]
<1>0. a \in Device
  BY SyncFileAssumption
<1>1. (r \in remote.hash <=> r \in remote.bytes)'
  BY DEF Safe, Quiet
<1>2. \A e \in Device : Knows(e, r)'
  BY KnowsUntouched DEF Safe, Quiet
<1>3. \A e \in Device \ {a} : Elsewhere(e, r)'
  BY ElsewhereUntouched DEF Safe, Quiet
<1>4. AtHome(a, r)'
  <2>1. CASE d = a
    BY <2>1
  <2>2. CASE d # a
    <3>1. /\ Has(a, r)' <=> Has(a, r)
          /\ Entered(a, r)' <=> Entered(a, r)
          /\ Untouched(a) /\ Knows(a, r)
      BY <1>0, <2>2, KnowsUntouched DEF Safe, Quiet
    <3>2. Alone(r)' => Alone(r)
      <4>1. \A e \in Device \ {a, d} : Has(e, r)' <=> Has(e, r)
        BY KnowsUntouched DEF Safe, Quiet
      <4> QED
        BY <2>2, <4>1 DEF Alone
    <3>3. Sent(r)' <=> Sent(r)
      BY DEF Quiet, Sent
    <3>4. AloneWithIt(a, r) => AloneWithIt(a, r)'
      BY <3>1, <3>3 DEF AloneWithIt, At, Untouched, Quiet, Recs
    <3> QED
      BY <3>1, <3>2, <3>4 DEF Safe, AtHome, At, Untouched, Quiet, Recs
  <2> QED
    BY <2>1, <2>2
<1> QED
  BY <1>1, <1>2, <1>3, <1>4 DEF Safe

LEMMA QuietUnwritten ==
  ASSUME NEW r \in Rec, NEW d \in Device, Unwritten(r), Quiet(d), Untraced(d, r)'
  PROVE  Unwritten(r)'
<1>1. \A e \in Device \ {d} : Untraced(e, r)'
  BY DEF Unwritten, Untraced, Quiet, Untouched, Entered, Recs
<1> QED
  BY <1>1 DEF Unwritten, Quiet

(***************************************************************************)
(* The reader's own steps.                                                 *)
(***************************************************************************)
LEMMA EditQuiet ==
  ASSUME IInv, NEW d \in Device, NEW c, Edit(d, c)
  PROVE  /\ Quiet(d)
         /\ file'[d] = c /\ ~asSynced'[d] /\ snap'[d] = snap[d] /\ base'[d] = base[d]
         /\ pass'[d].phase = pass[d].phase /\ pass'[d].rev = pass[d].rev
         /\ pass'[d].hash = pass[d].hash /\ pass'[d].bytes = pass[d].bytes
         /\ pass'[d].noBase = pass[d].noBase /\ pass'[d].stale = pass[d].stale
         /\ UNCHANGED <<raced, orphaned>>
BY DEF Edit, Write, Quiet, Untouched, IInv, TypeOK, PassState

LEMMA EditKeepsRecord ==
  ASSUME IInv, NEW r \in Rec, NEW d \in Device, NEW c, Edit(d, c),
         r \in Recs(c) <=> Has(d, r)
  PROVE  (Safe(r) => Safe(r)') /\ (Unwritten(r) => Unwritten(r)')
<1>1. /\ pass'[d].phase = pass[d].phase /\ pass'[d].rev = pass[d].rev
      /\ pass'[d].hash = pass[d].hash /\ pass'[d].bytes = pass[d].bytes
      /\ pass'[d].noBase = pass[d].noBase /\ pass'[d].stale = pass[d].stale
  BY EditQuiet
<1>2. Has(d, r)' <=> Has(d, r)
  BY EditQuiet DEF Has, Recs
<1>3. Entered(d, r)' <=> Entered(d, r)
  BY EditQuiet DEF Entered
<1>4. ASSUME Safe(r) PROVE Safe(r)'
  <2>1. Knows(d, r)'
    BY <1>1, <1>2, <1>3, <1>4, EditQuiet DEF Safe, Knows, InHand, At, Recs
  <2>2. ASSUME d # Author[r] PROVE Elsewhere(d, r)'
    <3>1. Beyond(d, remote.rev)' <=> Beyond(d, remote.rev)
      BY <1>1, EditQuiet DEF Beyond, Quiet, R!Rev
    <3> QED
      BY <1>1, <1>2, <1>4, <2>2, <3>1, EditQuiet DEF Safe, Elsewhere, At, Quiet, Recs
  <2>3. ASSUME d = Author[r] PROVE AtHome(d, r)'
    <3>1. Alone(r)' <=> Alone(r)
      BY <2>3, EditQuiet, KnowsUntouched, <1>4 DEF Safe, Alone, Quiet
    <3>2. AloneWithIt(d, r) => AloneWithIt(d, r)'
      BY <1>1, <1>3, EditQuiet DEF AloneWithIt, At, Quiet, Sent, Recs
    <3> QED
      BY <1>1, <1>2, <1>3, <1>4, <2>3, <3>1, <3>2, EditQuiet
         DEF Safe, AtHome, At, Quiet, Recs
  <2> QED
    BY <1>2, <1>4, <2>1, <2>2, <2>3, EditQuiet, QuietStep
<1>5. ASSUME Unwritten(r) PROVE Unwritten(r)'
  <2>1. Untraced(d, r)'
    BY <1>1, <1>2, <1>3, <1>5, EditQuiet DEF Unwritten, Untraced, Has, Recs
  <2> QED
    BY <1>5, <2>1, EditQuiet, QuietUnwritten
<1> QED
  BY <1>4, <1>5

\* A record written between two passes: nobody else has heard of it.
LEMMA WrittenWhileIdle ==
  ASSUME IInv, NEW r \in Rec, Unwritten(r), Add(Author[r], r), ~Running(Author[r])
  PROVE  Safe(r)'
<1> DEFINE d == Author[r]
<1>0. d \in Device
  BY SyncFileAssumption
<1>1. Edit(d, Recs(file[d]) \cup {r}) /\ Recs(file[d]) \cup {r} # Absent
  BY SyncFileAssumption DEF Add, IInv, TypeOK, Bytes, Content, Recs
<1>2. /\ Quiet(d) /\ file'[d] = Recs(file[d]) \cup {r} /\ ~asSynced'[d]
      /\ snap'[d] = snap[d] /\ base'[d] = base[d]
  BY <1>0, <1>1, EditQuiet
<1>3. At(d, "idle")'
  BY <1>0, <1>1, EditQuiet DEF Running, At
<1>4. Has(d, r)' /\ ~Entered(d, r)' /\ r \notin Recs(base[d])'
  BY <1>0, <1>1, <1>2 DEF Has, Recs, Unwritten, Untraced, Entered
<1>5. (r \notin remote.hash \cup remote.bytes \cup covered)'
  BY <1>2 DEF Quiet, Unwritten
<1>6. ASSUME NEW e \in Device \ {d} PROVE Knows(e, r)' /\ Elsewhere(e, r)'
  <2>1. Untraced(e, r)'
    BY <1>2, <1>6 DEF Unwritten, Untraced, Quiet, Untouched, Entered, Recs
  <2> QED
    BY <1>5, <2>1 DEF Untraced, Knows, InHand, Has, Elsewhere, At
<1>7. Knows(d, r)'
  BY <1>2, <1>3, <1>4 DEF Knows, InHand, At
<1>8. AtHome(d, r)'
  BY <1>3, <1>4, <1>5 DEF AtHome, AloneWithIt, At, Sent
<1> QED
  BY <1>5, <1>6, <1>7, <1>8 DEF Safe

LEMMA ReaderAccounts ==
  ASSUME IInv, NEW r \in Rec, Accounted(r), NEW d \in Device, Reader(d)
  PROVE  Accounted(r)'
<1>0. ASSUME Resave(d) \/ \E q \in Rec : Add(d, q) \/ Delete(d, q)
      PROVE  UNCHANGED <<raced, orphaned>>
  BY <1>0, EditQuiet DEF Add, Delete, Resave, Edit
<1>1. ASSUME NEW q \in Rec, Add(d, q) PROVE Accounted(r)'
  <2>1. /\ Edit(d, Recs(file[d]) \cup {q}) /\ Recs(file[d]) \cup {q} # Absent
        /\ added' = added \cup {q} /\ deleted' = deleted
        /\ late' = IF Running(d) THEN late \cup {q} ELSE late
        /\ Author[q] = d /\ q \notin added
    BY <1>1, SyncFileAssumption DEF Add, IInv, TypeOK, Bytes, Content, Recs
  <2>2. CASE q = r
    <3>1. Unwritten(r)
      BY <2>1, <2>2 DEF Accounted
    <3>2. Live(r)' => Safe(r)'
      BY <1>1, <2>1, <2>2, <3>1, WrittenWhileIdle DEF Live
    <3> QED
      BY <2>1, <2>2, <3>2 DEF Accounted
  <2>3. CASE q # r
    <3>1. r \in Recs(Recs(file[d]) \cup {q}) <=> Has(d, r)
      BY <2>1, <2>3 DEF Recs, Has
    <3>2. (Live(r)' => Live(r)) /\ (r \notin added' => r \notin added)
      BY <1>0, <1>1, <2>1, <2>3 DEF Live
    <3> QED
      BY <2>1, <3>1, <3>2, EditKeepsRecord DEF Accounted
  <2> QED
    BY <2>2, <2>3
<1>2. ASSUME NEW q \in Rec, Delete(d, q) PROVE Accounted(r)'
  <2>1. /\ Edit(d, file[d] \ {q}) /\ file[d] \in Content /\ file[d] \ {q} # Absent
        /\ UNCHANGED added /\ deleted' = deleted \cup {q} /\ late \subseteq late'
        /\ Has(d, q)
    BY <1>2, SyncFileAssumption DEF Delete, IInv, TypeOK, Bytes, Content, Recs, Has
  <2>2. CASE q = r
    <3>1. ~Live(r)'
      BY <2>1, <2>2 DEF Live
    <3>2. r \in added'
      BY <2>1, <2>2 DEF Accounted, Unwritten, Untraced, Has
    <3> QED
      BY <3>1, <3>2 DEF Accounted
  <2>3. CASE q # r
    <3>1. r \in Recs(file[d] \ {q}) <=> Has(d, r)
      BY <2>1, <2>3, SyncFileAssumption DEF Recs, Has
    <3>2. (Live(r)' => Live(r)) /\ (r \notin added' => r \notin added)
      BY <1>0, <1>2, <2>1 DEF Live
    <3> QED
      BY <2>1, <3>1, <3>2, EditKeepsRecord DEF Accounted
  <2> QED
    BY <2>2, <2>3
<1>3. ASSUME Resave(d) PROVE Accounted(r)'
  <2>1. Edit(d, file[d]) /\ UNCHANGED <<added, deleted, late>>
    BY <1>3 DEF Resave
  <2>2. (Live(r)' => Live(r)) /\ (r \notin added' => r \notin added)
    BY <1>0, <1>3, <2>1 DEF Live
  <2> QED
    BY <2>1, <2>2, EditKeepsRecord DEF Accounted, Has
<1> QED
  BY <1>1, <1>2, <1>3 DEF Reader

-----------------------------------------------------------------------------
(***************************************************************************)
(* What the decision of a pass tells of the three views it compares.       *)
(***************************************************************************)
LEMMA HeldTells ==
  ASSUME NEW loc \in Content, NEW moved \in BOOLEAN,
         NEW rem \in [rev : Nat, hash : Content], NEW snp \in SnapEntry,
         NEW plan \in Plans, plan = R!DecideHeld(loc, moved, rem, snp)
  PROVE  /\ plan.kind = "upload" =>
              snp # Absent /\ rem.rev <= snp.rev
              /\ (rem.rev = snp.rev => rem.hash = snp.hash)
         /\ plan.kind = "converged" =>
              \/ plan.rev = rem.rev /\ rem.hash = loc
              \/ plan.rev = snp.rev /\ snp # Absent /\ snp.hash = loc
         /\ plan.kind = "download" =>
              snp # Absent /\ snp.hash = loc /\ rem.rev > snp.rev
         /\ plan.kind = "merge" => snp = Absent \/ rem.rev > snp.rev
<1>1. rem # Absent /\ rem.hash # NoHash
      /\ (snp # Absent => snp.rev \in Nat /\ snp.hash \in Content /\ snp.hash # NoHash)
  BY SyncFileAssumption DEF SnapEntry
<1>2. \A rev : LET note == R!Note(loc, moved, snp, rev)
               IN note.kind \in {"none", "converged"} /\ note.rev = rev
  BY DEF R!Note
<1>3. CASE rem.hash = loc
  <2>1. plan = R!Note(loc, moved, snp, rem.rev)
    BY <1>1, <1>3 DEF R!DecideHeld
  <2> QED
    BY <1>2, <1>3, <2>1
<1>4. CASE rem.hash # loc
  <2> DEFINE here  == R!LocallyChanged(loc, moved, snp)
             there == R!RemotelyChanged(rem, snp)
             next  == R!NextRev(rem, snp)
  <2>1. CASE R!Overwritten(rem, snp)
    <3>1. plan.kind = "mergeNoBase"
      BY <1>1, <1>4, <2>1 DEF R!DecideHeld, Plans
    <3> QED
      BY <3>1
  <2>2. CASE ~R!Overwritten(rem, snp)
    <3>1. /\ here /\ there => plan.kind = "merge"
          /\ here /\ ~there => plan.kind = "upload"
          /\ ~here /\ there => plan.kind = "download"
          /\ ~here /\ ~there => plan = R!Note(loc, moved, snp, snp.rev)
      BY <1>1, <1>4, <2>2 DEF R!DecideHeld, Plans
    <3>2. /\ ~here => snp # Absent /\ snp.hash = loc
          /\ there <=> snp = Absent \/ rem.rev > snp.rev
      BY <1>1 DEF R!LocallyChanged, R!RemotelyChanged
    <3>3. snp # Absent /\ rem.rev = snp.rev => rem.hash = snp.hash
      BY <1>1, <2>2 DEF R!Overwritten
    <3>4. snp # Absent /\ ~(rem.rev > snp.rev) => rem.rev <= snp.rev
      BY <1>1
    <3> HIDE DEF here, there
    <3> QED
      BY <1>2, <3>1, <3>2, <3>3, <3>4
  <2> QED
    BY <2>1, <2>2
<1> QED
  BY <1>3, <1>4

\* A scan sees a record exactly where the file holds it.
LEMMA ScanSees ==
  ASSUME IInv, NEW r, NEW d \in Device, Knows(d, r)
  PROVE  /\ r \in Recs(ScanHash(d)) <=> Has(d, r)
         /\ ScanHash(d) = Absent <=> file[d] = Absent
         /\ ScanHash(d) \in Bytes
<1>1. file[d] \in Bytes /\ snap[d] \in SnapEntry /\ asSynced[d] \in BOOLEAN
  BY DEF IInv, TypeOK
<1>2. snap[d] # Absent => snap[d].hash \in Content
  BY <1>1 DEF SnapEntry
<1>3. CASE file[d] = Absent
  BY <1>3 DEF ScanHash, Recs, Has, Bytes
<1>4. CASE file[d] # Absent /\ asSynced[d] /\ snap[d] # Absent
  BY <1>2, <1>4, SyncFileAssumption DEF ScanHash, Recs, Has, Bytes, Knows, Entered
<1>5. CASE file[d] # Absent /\ ~(asSynced[d] /\ snap[d] # Absent)
  BY <1>1, <1>5 DEF ScanHash, Recs, Has
<1> QED
  BY <1>3, <1>4, <1>5

LEMMA PlanAccounts ==
  ASSUME IInv, NEW r \in Rec, Accounted(r), NEW d \in Device, Plan(d)
  PROVE  Accounted(r)'
<1> DEFINE plan == Planned(d)
           ph   == NextPhase(d, plan.kind)
           rem  == [rev |-> remote.rev, hash |-> remote.hash]
<1>1. /\ pass'[d].phase = ph /\ pass'[d].rev = plan.rev
      /\ pass'[d].hash = IF ph \in {"note", "upload"} THEN ScanHash(d) ELSE Absent
      /\ pass'[d].bytes = Absent
      /\ pass'[d].noBase = (plan.kind = "mergeNoBase")
      /\ \A e \in Device \ {d} : pass'[e] = pass[e]
      /\ UNCHANGED <<file, asSynced, snap, base, remote, history>>
  BY DEF Plan, IInv, TypeOK, Idle
<1>2. Quiet(d)
  BY <1>1 DEF Quiet, Untouched, history
<1>3. (Live(r)' <=> Live(r)) /\ (r \in added' <=> r \in added)
  BY <1>1 DEF Live, history
<1>4. /\ Has(d, r)' <=> Has(d, r)
      /\ Entered(d, r)' <=> Entered(d, r)
      /\ Alone(r)' <=> Alone(r)
      /\ Sent(r)' <=> Sent(r)
      /\ Recs(base[d])' = Recs(base[d])
  <2>1. /\ Has(d, r)' <=> Has(d, r)
        /\ Entered(d, r)' <=> Entered(d, r)
        /\ Recs(base[d])' = Recs(base[d])
    BY <1>1 DEF Has, Entered, Recs
  <2>2. Alone(r)' <=> Alone(r)
    BY <1>1 DEF Alone, Has, Recs
  <2>3. Sent(r)' <=> Sent(r)
    BY <1>2 DEF Sent, Quiet
  <2> QED
    BY <2>1, <2>2, <2>3
<1>5. rem \in [rev : Nat, hash : Content] /\ snap[d] \in SnapEntry
      /\ (~asSynced[d]) \in BOOLEAN
      /\ (snap[d] # Absent => snap[d].rev \in Nat)
      /\ remote.rev \in Nat
  BY DEF IInv, TypeOK, Published, SnapEntry
<1>6. ASSUME ScanHash(d) \in Content
      PROVE  /\ plan \in Plans
             /\ plan.kind = "upload" =>
                  snap[d] # Absent /\ remote.rev <= snap[d].rev
                  /\ (remote.rev = snap[d].rev => remote.hash = snap[d].hash)
             /\ plan.kind = "converged" =>
                  \/ plan.rev = remote.rev /\ remote.hash = ScanHash(d)
                  \/ plan.rev = snap[d].rev /\ snap[d] # Absent
                     /\ snap[d].hash = ScanHash(d)
             /\ plan.kind = "download" =>
                  snap[d] # Absent /\ snap[d].hash = ScanHash(d)
                  /\ remote.rev > snap[d].rev
             /\ plan.kind = "merge" => snap[d] = Absent \/ remote.rev > snap[d].rev
  <2> DEFINE moved == ~asSynced[d]
  <2>0. moved \in BOOLEAN
    OBVIOUS
  <2>1. plan = R!DecideHeld(ScanHash(d), moved, rem, snap[d])
    BY <1>6, SyncFileAssumption DEF Planned, R!Decide
  <2>2. plan \in Plans
    BY <1>5, <1>6, DecideResult DEF Planned, Bytes
  <2>3. rem.rev = remote.rev /\ rem.hash = remote.hash
    OBVIOUS
  <2> HIDE DEF plan, rem, moved
  <2> QED
    BY <1>5, <1>6, <2>0, <2>1, <2>2, <2>3, HeldTells
<1>7. ASSUME ScanHash(d) \in Bytes
      PROVE  /\ plan \in Plans
             /\ plan.kind \in {"upload", "converged"} => ScanHash(d) # Absent
  BY <1>5, <1>7, DecideResult DEF Planned
<1>8. /\ ph = "upload" => plan.kind = "upload"
      /\ ph = "note" => plan.kind = "converged"
      /\ ph = "download" => plan.kind = "download"
      /\ ph = "merge" /\ plan.kind # "mergeNoBase" => plan.kind = "merge"
      /\ ph = "seed" => snap[d] # Absent /\ ScanHash(d) = snap[d].hash
      /\ ph \in {"note", "upload", "download", "merge", "seed", "idle"}
  BY DEF NextPhase
<1> HIDE DEF plan, ph
<1>9. ASSUME Safe(r) PROVE Safe(r)'
  <2>0. Knows(d, r)
    BY <1>9 DEF Safe
  <2>1. Knows(d, r)'
    BY <1>1, <1>4, <1>8, <2>0, ScanSees DEF Knows, InHand, At, Recs
  <2>2. ASSUME d # Author[r] PROVE Elsewhere(d, r)'
    <3>1. Elsewhere(d, r)
      BY <1>9, <2>2 DEF Safe
    <3>2. ASSUME ~Has(d, r), r \in remote.bytes
          PROVE  ph # "upload" /\ ~Beyond(d, remote.rev)'
      <4>1. r \in remote.hash /\ ~Beyond(d, remote.rev) /\ ~Entered(d, r)
            /\ r \notin Recs(ScanHash(d))
        BY <1>9, <2>0, <3>1, <3>2, ScanSees DEF Safe, Elsewhere, Knows
      <4>2. snap[d] # Absent => snap[d].rev <= remote.rev /\ snap[d].hash # remote.hash
        BY <1>5, <4>1 DEF Beyond, R!Rev, Entered
      <4>3. plan.kind \in {"upload", "converged"} => ScanHash(d) \in Content
        BY <1>7, <2>0, ScanSees DEF Bytes
      <4>4. ph # "upload"
        BY <1>5, <1>6, <1>8, <4>2, <4>3
      <4>5. ph = "note" => plan.rev <= remote.rev
        <5>1. ScanHash(d) # remote.hash \/ ScanHash(d) = Absent
          BY <4>1 DEF Recs
        <5> QED
          BY <1>5, <1>6, <1>8, <4>2, <4>3, <5>1
      <4>6. plan.rev \in Nat
        BY <1>7, <2>0, ScanSees DEF Plans
      <4> QED
        BY <1>1, <1>5, <1>8, <4>1, <4>2, <4>4, <4>5, <4>6 DEF Beyond, R!Rev
    <3> QED
      BY <1>1, <1>4, <1>8, <3>1, <3>2 DEF Elsewhere, At
  <2>3. ASSUME d = Author[r] PROVE AtHome(d, r)'
    <3>0. AtHome(d, r)
      BY <1>9, <2>3 DEF Safe
    <3>1. ScanHash(d) \in Content /\ r \in ScanHash(d)
      BY <2>0, <3>0, ScanSees DEF AtHome, Bytes, Recs, Has
    <3>2. ph = "seed" => Entered(d, r)
      BY <1>8, <3>1 DEF Entered
    <3>3. ASSUME Alone(r)
          PROVE  /\ ph = "note" => Sent(r) /\ plan.rev = remote.rev
                 /\ ph # "download"
                 /\ ph = "merge" /\ plan.kind # "mergeNoBase" => r \notin Recs(base[d])
      <4>1. Entered(d, r) => Sent(r) /\ snap[d].rev = remote.rev
        BY <3>0, <3>3 DEF AtHome, AloneWithIt, Entered
      <4>2. ph = "note" => Sent(r) /\ plan.rev = remote.rev
        <5>1. ASSUME ph = "note", plan.rev = remote.rev, remote.hash = ScanHash(d)
              PROVE  Sent(r)
          BY <1>9, <3>1, <5>1 DEF Safe, Sent
        <5>2. ASSUME snap[d] # Absent, snap[d].hash = ScanHash(d)
              PROVE  Entered(d, r)
          BY <3>1, <5>2 DEF Entered
        <5> QED
          BY <1>5, <1>6, <1>8, <3>1, <4>1, <5>1, <5>2
      <4>3. ph # "download"
        BY <1>5, <1>6, <1>8, <3>1, <4>1 DEF Entered
      <4>4. ph = "merge" /\ plan.kind # "mergeNoBase" => r \notin Recs(base[d])
        BY <1>5, <1>6, <1>8, <3>0, <3>1, <4>1 DEF AtHome, Entered
      <4> QED
        BY <4>2, <4>3, <4>4
    <3>4. AloneWithIt(d, r) /\ Alone(r) => AloneWithIt(d, r)'
      BY <1>1, <1>4, <1>8, <3>3 DEF AloneWithIt, At
    <3> QED
      BY <1>1, <1>2, <1>4, <3>0, <3>2, <3>4 DEF AtHome, At, Quiet
  <2> QED
    BY <1>2, <1>4, <1>9, <2>1, <2>2, <2>3, QuietStep
<1>10. ASSUME Unwritten(r) PROVE Unwritten(r)'
  <2>1. Untraced(d, r)
    BY <1>10 DEF Unwritten
  <2>2. r \notin Recs(ScanHash(d))
    BY <2>1 DEF Untraced, Entered, ScanHash, Recs
  <2>3. Untraced(d, r)'
    BY <1>1, <1>4, <2>1, <2>2 DEF Untraced, Recs, Has
  <2> QED
    BY <1>2, <1>10, <2>3, QuietUnwritten
<1> QED
  BY <1>3, <1>9, <1>10 DEF Accounted

-----------------------------------------------------------------------------
(***************************************************************************)
(* The bookkeeping at the end of a transfer, of a device whose hash and    *)
(* base agree with its file on the record.                                 *)
(***************************************************************************)
LEMMA RecordOfRecord ==
  ASSUME IInv, NEW r, NEW d \in Device, NEW rev \in Nat, NEW hash \in Content,
         NEW trusted \in BOOLEAN, NEW agreed \in Content,
         Record(d, rev, hash, trusted, agreed), pass'[d] = Idle, UNCHANGED file,
         r \in hash <=> Has(d, r), r \in agreed <=> Has(d, r)
  PROVE  /\ Knows(d, r) => Knows(d, r)'
         /\ Untraced(d, r) => Untraced(d, r)'
         /\ R!Rev(snap'[d]) \in {R!Rev(snap[d]), rev}
         /\ Has(d, r) /\ r \notin orphaned' => Entered(d, r)' /\ snap'[d].rev = rev
         /\ \A e \in Device \ {d} :
              asSynced'[e] = asSynced[e] /\ snap'[e] = snap[e] /\ base'[e] = base[e]
         /\ orphaned \subseteq orphaned'
<1> DEFINE entry == [rev |-> rev, hash |-> hash]
<1>0. entry # Absent /\ entry.rev = rev /\ entry.hash = hash
  BY SyncFileAssumption
<1>1. Recs(agreed) = agreed /\ (Has(d, r)' <=> Has(d, r))
  BY SyncFileAssumption DEF Recs, Has
<1>2. \/ snap'[d] = entry /\ asSynced'[d] = trusted
         /\ base'[d] \in {agreed, base[d]} /\ orphaned' = orphaned
      \/ snap'[d] = snap[d] /\ asSynced'[d] = asSynced[d]
         /\ base'[d] \in {agreed, base[d]} /\ orphaned' = orphaned \cup agreed
  BY DEF Record, IInv, TypeOK
<1>3. \A e \in Device \ {d} :
        asSynced'[e] = asSynced[e] /\ snap'[e] = snap[e] /\ base'[e] = base[e]
  BY DEF Record, IInv, TypeOK
<1>4. /\ pass'[d].phase = "idle" /\ Recs(pass'[d].hash) = {} /\ Recs(pass'[d].bytes) = {}
  BY DEF Idle, Recs
<1> HIDE DEF entry
<1>5. CASE snap'[d] = entry /\ asSynced'[d] = trusted
           /\ base'[d] \in {agreed, base[d]} /\ orphaned' = orphaned
  <2>1. Entered(d, r)' <=> r \in hash
    BY <1>0, <1>5 DEF Entered
  <2>2. r \in Recs(base[d])' => Has(d, r) \/ r \in Recs(base[d])
    BY <1>1, <1>5 DEF Recs
  <2>3. Knows(d, r) => Knows(d, r)'
    BY <1>1, <1>4, <2>1, <2>2 DEF Knows, InHand, At
  <2>4. Untraced(d, r) => Untraced(d, r)'
    BY <1>1, <1>4, <2>1, <2>2 DEF Untraced, Has
  <2>5. R!Rev(snap'[d]) = rev
    BY <1>0, <1>5 DEF R!Rev
  <2> QED
    BY <1>0, <1>3, <1>5, <2>1, <2>3, <2>4, <2>5
<1>6. CASE snap'[d] = snap[d] /\ asSynced'[d] = asSynced[d]
           /\ base'[d] \in {agreed, base[d]} /\ orphaned' = orphaned \cup agreed
  <2>1. Entered(d, r)' <=> Entered(d, r)
    BY <1>6 DEF Entered
  <2>2. r \in Recs(base[d])' => Has(d, r) \/ r \in Recs(base[d])
    BY <1>1, <1>6 DEF Recs
  <2>3. Knows(d, r) => Knows(d, r)'
    BY <1>1, <1>4, <1>6, <2>1, <2>2 DEF Knows, InHand, At
  <2>4. Untraced(d, r) => Untraced(d, r)'
    BY <1>1, <1>4, <2>1, <2>2 DEF Untraced, Has
  <2>5. R!Rev(snap'[d]) = R!Rev(snap[d])
    BY <1>6
  <2>6. Has(d, r) => r \in orphaned'
    BY <1>6
  <2> QED
    BY <1>3, <1>6, <2>3, <2>4, <2>5, <2>6
<1> QED
  BY <1>2, <1>5, <1>6

\* A pass that ends without a publication (noted or downloaded).
LEMMA SettleAccounts ==
  ASSUME IInv, NEW r \in Rec, Accounted(r), NEW d \in Device,
         NEW hash \in Content, NEW trusted \in BOOLEAN, NEW agreed \in Content,
         Record(d, pass[d].rev, hash, trusted, agreed), Finish(d),
         UNCHANGED <<file, remote, added, deleted, late, covered, raced, regressed>>,
         pass[d].phase \in {"note", "settle"},
         Knows(d, r) \/ Untraced(d, r) => (r \in hash <=> Has(d, r)),
         Knows(d, r) \/ Untraced(d, r) => (r \in agreed <=> Has(d, r))
  PROVE  Accounted(r)'
<1>1. /\ pass'[d] = Idle /\ \A e \in Device \ {d} : pass'[e] = pass[e]
      /\ pass[d].rev \in Nat /\ remote.rev \in Nat
      /\ (snap[d] # Absent => snap[d].rev \in Nat)
  BY DEF Finish, IInv, TypeOK, PassState, Published, SnapEntry
<1>2. /\ pass'[d].phase = "idle" /\ Recs(pass'[d].hash) = {} /\ Recs(pass'[d].bytes) = {}
  BY <1>1 DEF Idle, Recs
<1>3. Has(d, r)' <=> Has(d, r)
  BY DEF Has
<1>4. ASSUME Knows(d, r) \/ Untraced(d, r)
      PROVE  /\ Quiet(d)
             /\ Knows(d, r) => Knows(d, r)'
             /\ Untraced(d, r) => Untraced(d, r)'
             /\ R!Rev(snap'[d]) \in {R!Rev(snap[d]), pass[d].rev}
             /\ Has(d, r) /\ r \notin orphaned' => Entered(d, r)' /\ snap'[d].rev = pass[d].rev
  <2>1. /\ Knows(d, r) => Knows(d, r)'
        /\ Untraced(d, r) => Untraced(d, r)'
        /\ R!Rev(snap'[d]) \in {R!Rev(snap[d]), pass[d].rev}
        /\ Has(d, r) /\ r \notin orphaned' => Entered(d, r)' /\ snap'[d].rev = pass[d].rev
        /\ \A e \in Device \ {d} :
             asSynced'[e] = asSynced[e] /\ snap'[e] = snap[e] /\ base'[e] = base[e]
    BY <1>1, <1>4, RecordOfRecord
  <2>2. Quiet(d)
    BY <1>1, <2>1 DEF Quiet, Untouched
  <2> QED
    BY <2>1, <2>2
<1>5. ASSUME Safe(r), Live(r)' PROVE Safe(r)'
  <2>1. Knows(d, r) /\ r \notin orphaned'
    BY <1>5 DEF Safe, Live
  <2>2. ASSUME d # Author[r] PROVE Elsewhere(d, r)'
    <3>1. Elsewhere(d, r)
      BY <1>5, <2>2 DEF Safe
    <3>2. ~Has(d, r) /\ r \in remote.bytes => ~Beyond(d, remote.rev)'
      <4>1. ~Has(d, r) /\ r \in remote.bytes =>
              ~(remote.rev < R!Rev(snap[d])) /\ ~(remote.rev < pass[d].rev)
        BY <3>1 DEF Elsewhere, Beyond
      <4>2. R!Rev(snap'[d]) \in {R!Rev(snap[d]), pass[d].rev}
        BY <1>4, <2>1
      <4> QED
        BY <1>2, <4>1, <4>2 DEF Beyond
    <3> QED
      BY <1>2, <1>3, <3>1, <3>2 DEF Elsewhere, At
  <2>3. ASSUME d = Author[r] PROVE AtHome(d, r)'
    <3>1. AtHome(d, r)
      BY <1>5, <2>3 DEF Safe
    <3>2. Entered(d, r)' /\ snap'[d].rev = pass[d].rev /\ Quiet(d)
      BY <1>4, <2>1, <3>1 DEF AtHome
    <3>3. Alone(r)' <=> Alone(r)
      BY DEF Alone, Has
    <3>4. Alone(r) => AloneWithIt(d, r)'
      <4>1. Alone(r) => Sent(r) /\ pass[d].rev = remote.rev
        BY <3>1 DEF AtHome, AloneWithIt, At
      <4>2. Sent(r)' <=> Sent(r)
        BY DEF Sent
      <4> QED
        BY <1>2, <3>2, <4>1, <4>2 DEF AloneWithIt, At
    <3> QED
      BY <1>2, <1>3, <3>1, <3>2, <3>3, <3>4 DEF AtHome, At
  <2> QED
    BY <1>3, <1>4, <1>5, <2>1, <2>2, <2>3, QuietStep
<1>6. ASSUME Unwritten(r) PROVE Unwritten(r)'
  BY <1>4, <1>6, QuietUnwritten DEF Unwritten
<1>7. Live(r)' => Live(r)
  <2>1. orphaned \subseteq orphaned'
    BY DEF Record, IInv, TypeOK
  <2> QED
    BY <2>1 DEF Live
<1> QED
  BY <1>5, <1>6, <1>7 DEF Accounted

LEMMA NoteAccounts ==
  ASSUME IInv, NEW r \in Rec, Accounted(r), NEW d \in Device, NoteConverged(d)
  PROVE  Accounted(r)'
<1>1. /\ pass[d].hash \in Content /\ file[d] \in Content /\ (~pass[d].touched) \in BOOLEAN
      /\ pass[d].phase = "note"
  BY DEF NoteConverged, At, IInv, HashInHand, TypeOK, PassState
<1>2. Recs(pass[d].hash) = pass[d].hash /\ Recs(file[d]) = file[d]
  BY <1>1, SyncFileAssumption DEF Recs
<1>3. Knows(d, r) \/ Untraced(d, r) => (r \in pass[d].hash <=> Has(d, r))
  BY <1>1, <1>2 DEF Knows, InHand, Untraced, Has
<1>4. r \in file[d] <=> Has(d, r)
  BY <1>2 DEF Has
<1> QED
  BY <1>1, <1>3, <1>4, SettleAccounts DEF NoteConverged

LEMMA DownloadSettleAccounts ==
  ASSUME IInv, NEW r \in Rec, Accounted(r), NEW d \in Device, DownloadSettle(d)
  PROVE  Accounted(r)'
<1> DEFINE trusted == Size(file[d]) = Size(pass[d].bytes)
<1>1. pass[d].bytes \in Content /\ trusted \in BOOLEAN /\ pass[d].phase = "settle"
  BY DEF DownloadSettle, At, IInv, BytesInHand
<1>2. Recs(pass[d].bytes) = pass[d].bytes
  BY <1>1, SyncFileAssumption DEF Recs
<1>3. Knows(d, r) \/ Untraced(d, r) => (r \in pass[d].bytes <=> Has(d, r))
  BY <1>1, <1>2 DEF Knows, InHand, Untraced, Has
<1>4. Record(d, pass[d].rev, pass[d].bytes, trusted, pass[d].bytes)
  BY DEF DownloadSettle
<1> HIDE DEF trusted
<1> QED
  BY <1>1, <1>3, <1>4, SettleAccounts DEF DownloadSettle

-----------------------------------------------------------------------------
(***************************************************************************)
(* The other steps of a pass that publish nothing.                         *)
(***************************************************************************)
\* What a step that leaves added and the windows alone still has to show.
LEMMA QuietAccounts ==
  ASSUME NEW r \in Rec, Accounted(r), NEW d \in Device, Quiet(d),
         UNCHANGED <<added, deleted, late, raced, orphaned>>,
         Safe(r) => /\ Knows(d, r)'
                    /\ d # Author[r] => Elsewhere(d, r)' /\ (Has(d, r) => Has(d, r)')
                    /\ d = Author[r] => AtHome(d, r)',
         Unwritten(r) => Untraced(d, r)'
  PROVE  Accounted(r)'
<1>1. (Live(r)' => Live(r)) /\ (r \notin added' => r \notin added)
  BY DEF Live
<1>2. Safe(r) => Safe(r)'
  BY QuietStep
<1>3. Unwritten(r) => Unwritten(r)'
  BY QuietUnwritten
<1> QED
  BY <1>1, <1>2, <1>3 DEF Accounted

\* The author's own steps leave open who else has the record.
LEMMA AloneStays ==
  ASSUME NEW r \in Rec, Quiet(Author[r])
  PROVE  (Alone(r)' <=> Alone(r)) /\ (Sent(r)' <=> Sent(r))
BY DEF Quiet, Untouched, Alone, Has, Recs, Sent

LEMMA SeedAccounts ==
  ASSUME IInv, NEW r \in Rec, Accounted(r), NEW d \in Device, SeedBase(d)
  PROVE  Accounted(r)'
<1>1. /\ pass'[d] = Idle /\ \A e \in Device \ {d} : pass'[e] = pass[e]
      /\ base'[d] = file[d] /\ \A e \in Device \ {d} : base'[e] = base[e]
      /\ UNCHANGED <<file, asSynced, snap, remote, added, deleted, late, covered,
                     raced, orphaned>>
  BY DEF SeedBase, Finish, IInv, TypeOK, history
<1>2. Quiet(d)
  BY <1>1 DEF Quiet, Untouched
<1>3. /\ pass'[d].phase = "idle" /\ Recs(pass'[d].hash) = {} /\ Recs(pass'[d].bytes) = {}
  BY <1>1 DEF Idle, Recs
<1>4. /\ Has(d, r)' <=> Has(d, r)
      /\ Entered(d, r)' <=> Entered(d, r)
      /\ r \in Recs(base[d])' <=> Has(d, r)
  BY <1>1 DEF Has, Entered, Recs
<1>5. ASSUME Safe(r)
      PROVE  /\ Knows(d, r)'
             /\ d # Author[r] => Elsewhere(d, r)' /\ (Has(d, r) => Has(d, r)')
             /\ d = Author[r] => AtHome(d, r)'
  <2>1. Knows(d, r)'
    BY <1>1, <1>3, <1>4, <1>5 DEF Safe, Knows, InHand, At
  <2>2. ASSUME d # Author[r] PROVE Elsewhere(d, r)'
    BY <1>1, <1>3, <1>4, <1>5, <2>2 DEF Safe, Elsewhere, Beyond, At
  <2>3. ASSUME d = Author[r] PROVE AtHome(d, r)'
    <3>1. AtHome(d, r) /\ Entered(d, r)
      BY <1>5, <2>3 DEF Safe, AtHome, SeedBase
    <3>2. AloneWithIt(d, r) => AloneWithIt(d, r)'
      BY <1>1, <1>2, <1>3, <1>4, <2>3, AloneStays DEF AloneWithIt, At
    <3> QED
      BY <1>1, <1>2, <1>3, <1>4, <2>3, <3>1, <3>2, AloneStays DEF AtHome, At
  <2> QED
    BY <1>4, <2>1, <2>2, <2>3
<1>6. Unwritten(r) => Untraced(d, r)'
  BY <1>3, <1>4 DEF Unwritten, Untraced, Has
<1> QED
  BY <1>1, <1>2, <1>5, <1>6, QuietAccounts

LEMMA DownloadWriteAccounts ==
  ASSUME IInv, NEW r \in Rec, Accounted(r), NEW d \in Device, DownloadWrite(d)
  PROVE  Accounted(r)'
<1>1. /\ file'[d] = remote.bytes /\ ~asSynced'[d]
      /\ snap'[d] = snap[d] /\ base'[d] = base[d]
      /\ pass'[d].phase = "settle" /\ pass'[d].bytes = remote.bytes
      /\ pass'[d].hash = pass[d].hash /\ pass'[d].rev = pass[d].rev
      /\ pass'[d].stale = pass[d].stale
      /\ UNCHANGED <<remote, added, deleted, late, covered, raced, orphaned>>
      /\ pass[d].phase = "download"
  BY DEF DownloadWrite, Write, At, IInv, TypeOK, PassState, history
<1>2. Quiet(d)
  BY DEF DownloadWrite, Write, IInv, TypeOK, history, Quiet, Untouched
<1>3. Recs(remote.bytes) = remote.bytes
  BY SyncFileAssumption DEF Recs, IInv, TypeOK, Published
<1>4. /\ Has(d, r)' <=> r \in remote.bytes
      /\ Entered(d, r)' <=> Entered(d, r)
      /\ r \in Recs(base[d])' <=> r \in Recs(base[d])
      /\ r \in Recs(pass[d].bytes)' <=> r \in remote.bytes
      /\ r \in Recs(pass[d].hash)' <=> r \in Recs(pass[d].hash)
  BY <1>1, <1>3 DEF Has, Entered, Recs
<1>5. ASSUME Safe(r)
      PROVE  /\ Knows(d, r)'
             /\ d # Author[r] => Elsewhere(d, r)' /\ (Has(d, r) => Has(d, r)')
             /\ d = Author[r] => AtHome(d, r)'
  <2>1. Has(d, r) => r \in remote.bytes
    <3>1. CASE d # Author[r]
      BY <1>5, <3>1 DEF Safe, Elsewhere
    <3>2. CASE d = Author[r]
      <4>1. ~Alone(r)
        BY <1>1, <1>5, <3>2 DEF Safe, AtHome, AloneWithIt
      <4> QED
        BY <1>5, <4>1 DEF Safe, Elsewhere, Alone
    <3> QED
      BY <3>1, <3>2
  <2>2. Knows(d, r)'
    BY <1>1, <1>4, <1>5, <2>1 DEF Safe, Knows, InHand, At
  <2>3. Elsewhere(d, r)'
    BY <1>1, <1>4 DEF Elsewhere, At
  <2>4. ASSUME d = Author[r] PROVE AtHome(d, r)'
    <3>1. AtHome(d, r) /\ ~Alone(r)
      BY <1>1, <1>5, <2>4 DEF Safe, AtHome, AloneWithIt
    <3> QED
      BY <1>1, <1>2, <1>4, <2>1, <2>4, <3>1, AloneStays DEF AtHome, At
  <2> QED
    BY <1>4, <2>1, <2>2, <2>3, <2>4
<1>6. Unwritten(r) => Untraced(d, r)'
  BY <1>4 DEF Unwritten, Untraced, Has
<1> QED
  BY <1>1, <1>2, <1>5, <1>6, QuietAccounts

LEMMA MergeReadAccounts ==
  ASSUME IInv, NEW r \in Rec, Accounted(r), NEW d \in Device, MergeRead(d)
  PROVE  Accounted(r)'
<1> DEFINE b   == IF pass[d].noBase THEN Absent ELSE base[d]
           out == Merge3(b, file[d], remote.bytes)
<1>0. /\ file[d] \in Content /\ remote.bytes \in Content /\ b \in Bytes
      /\ pass[d].phase = "merge" /\ pass[d].noBase \in BOOLEAN
  BY DEF MergeRead, At, IInv, BytesInHand, TypeOK, Published, Bytes, PassState
<1>1. out \in Content /\ Recs(out) = out /\ Recs(file[d]) = file[d]
  BY <1>0, SyncFileAssumption DEF Merge3, Content, Recs
<1>2. r \in out <=>
        \/ Has(d, r) /\ r \in remote.bytes
        \/ Has(d, r) /\ (pass[d].noBase \/ r \notin Recs(base[d]))
        \/ r \in remote.bytes /\ (pass[d].noBase \/ r \notin Recs(base[d]))
  <2>1. b = Absent => out = file[d] \cup remote.bytes
    BY DEF Merge3
  <2>2. b # Absent => out = (file[d] \cap remote.bytes) \cup (file[d] \ b)
                            \cup (remote.bytes \ b)
    BY DEF Merge3
  <2>3. b = Absent <=> pass[d].noBase \/ base[d] = Absent
    OBVIOUS
  <2> QED
    BY <1>1, <2>1, <2>2, <2>3 DEF Has, Recs
<1> HIDE DEF out
<1>3. /\ pass'[d].phase = "mergeWrite" /\ pass'[d].bytes = out
      /\ pass'[d].hash = pass[d].hash
      /\ UNCHANGED <<file, asSynced, snap, base, remote, added, deleted, late,
                     covered, raced, orphaned>>
      /\ \A e \in Device \ {d} : pass'[e] = pass[e]
  BY DEF MergeRead, IInv, TypeOK, PassState, history, out
<1>4. Quiet(d)
  BY <1>3 DEF Quiet, Untouched
<1>5. /\ Has(d, r)' <=> Has(d, r)
      /\ Entered(d, r)' <=> Entered(d, r)
      /\ r \in Recs(base[d])' <=> r \in Recs(base[d])
      /\ r \in Recs(pass[d].bytes)' <=> r \in out
      /\ r \in Recs(pass[d].hash)' <=> r \in Recs(pass[d].hash)
  BY <1>1, <1>3 DEF Has, Entered, Recs
<1>6. ASSUME Safe(r)
      PROVE  /\ Knows(d, r)'
             /\ d # Author[r] => Elsewhere(d, r)' /\ (Has(d, r) => Has(d, r)')
             /\ d = Author[r] => AtHome(d, r)'
  <2>0. Knows(d, r)
    BY <1>6 DEF Safe
  <2>1. Has(d, r) => r \in out
    <3>1. CASE d # Author[r]
      BY <1>2, <1>6, <3>1 DEF Safe, Elsewhere
    <3>2. CASE d = Author[r] /\ Alone(r)
      BY <1>0, <1>2, <1>6, <3>2 DEF Safe, AtHome, AloneWithIt, At
    <3>3. CASE ~Alone(r)
      <4>1. r \in remote.bytes
        BY <1>6, <3>3 DEF Safe, Elsewhere, Alone
      <4> QED
        BY <1>2, <4>1
    <3> QED
      BY <3>1, <3>2, <3>3
  <2>2. Knows(d, r)'
    BY <1>3, <1>5, <2>0, <2>1 DEF Knows, InHand, At
  <2>3. ASSUME d # Author[r] PROVE Elsewhere(d, r)'
    <3>1. Elsewhere(d, r)
      BY <1>6, <2>3 DEF Safe
    <3>2. r \in out => r \in remote.bytes
      BY <1>2, <3>1 DEF Elsewhere
    <3>3. ~Has(d, r) /\ r \in remote.bytes => r \in out
      BY <1>2, <2>0 DEF Knows
    <3>4. Beyond(d, remote.rev)' => Beyond(d, remote.rev)
      BY <1>3 DEF Beyond
    <3> QED
      BY <1>3, <1>5, <3>1, <3>2, <3>3, <3>4 DEF Elsewhere, At
  <2>4. ASSUME d = Author[r] PROVE AtHome(d, r)'
    <3>1. AtHome(d, r)
      BY <1>6, <2>4 DEF Safe
    <3>2. AloneWithIt(d, r) => AloneWithIt(d, r)'
      BY <1>3, <1>4, <1>5, <2>4, AloneStays DEF AloneWithIt, At
    <3> QED
      BY <1>3, <1>4, <1>5, <2>4, <3>1, <3>2, AloneStays DEF AtHome, At
  <2> QED
    BY <1>5, <2>2, <2>3, <2>4
<1>7. Unwritten(r) => Untraced(d, r)'
  BY <1>2, <1>5 DEF Unwritten, Untraced, Has
<1> QED
  BY <1>3, <1>4, <1>6, <1>7, QuietAccounts

LEMMA MergeWriteAccounts ==
  ASSUME IInv, NEW r \in Rec, Accounted(r), NEW d \in Device, MergeWrite(d)
  PROVE  Accounted(r)'
<1>1. /\ file'[d] = pass[d].bytes /\ ~asSynced'[d]
      /\ snap'[d] = snap[d] /\ base'[d] = base[d]
      /\ pass[d].phase = "mergeWrite" /\ pass'[d].phase = "mergeSend"
      /\ pass'[d].bytes = pass[d].bytes /\ pass'[d].hash = pass[d].hash
      /\ pass'[d].stale = pass[d].stale
      /\ UNCHANGED <<remote, added, deleted, late, covered, raced, orphaned>>
  BY DEF MergeWrite, Write, At, IInv, TypeOK, PassState, history
<1>2. Quiet(d)
  BY DEF MergeWrite, Write, IInv, TypeOK, history, Quiet, Untouched
<1>3. /\ Has(d, r)' <=> r \in Recs(pass[d].bytes)
      /\ Entered(d, r)' <=> Entered(d, r)
      /\ r \in Recs(base[d])' <=> r \in Recs(base[d])
      /\ r \in Recs(pass[d].bytes)' <=> r \in Recs(pass[d].bytes)
      /\ r \in Recs(pass[d].hash)' <=> r \in Recs(pass[d].hash)
  BY <1>1 DEF Has, Entered, Recs
<1>4. ASSUME Safe(r)
      PROVE  /\ Knows(d, r)'
             /\ d # Author[r] => Elsewhere(d, r)' /\ (Has(d, r) => Has(d, r)')
             /\ d = Author[r] => AtHome(d, r)'
  <2>0. Knows(d, r)
    BY <1>4 DEF Safe
  <2>1. Has(d, r) => Has(d, r)'
    BY <1>1, <1>3, <2>0 DEF Knows, InHand, At
  <2>2. Knows(d, r)'
    BY <1>1, <1>3, <2>0, <2>1 DEF Knows, InHand, At
  <2>3. ASSUME d # Author[r] PROVE Elsewhere(d, r)'
    <3>1. Elsewhere(d, r)
      BY <1>4, <2>3 DEF Safe
    <3>2. Has(d, r)' => r \in remote.bytes
      BY <1>1, <1>3, <3>1 DEF Elsewhere, At
    <3>3. ASSUME ~Has(d, r)', r \in remote.bytes
          PROVE  ~Beyond(d, remote.rev) /\ pass[d].stale
      BY <1>1, <1>3, <2>1, <3>1, <3>3 DEF Elsewhere, At
    <3>4. Beyond(d, remote.rev)' => Beyond(d, remote.rev)
      BY <1>1 DEF Beyond
    <3> QED
      BY <1>1, <1>3, <3>2, <3>3, <3>4 DEF Elsewhere, At
  <2>4. ASSUME d = Author[r] PROVE AtHome(d, r)'
    <3>1. AtHome(d, r)
      BY <1>4, <2>4 DEF Safe
    <3>2. AloneWithIt(d, r) => AloneWithIt(d, r)'
      BY <1>1, <1>2, <1>3, <2>4, AloneStays DEF AloneWithIt, At
    <3> QED
      BY <1>1, <1>2, <1>3, <2>1, <2>4, <3>1, <3>2, AloneStays DEF AtHome, At
  <2> QED
    BY <2>1, <2>2, <2>3, <2>4
<1>5. Unwritten(r) => Untraced(d, r)'
  BY <1>3 DEF Unwritten, Untraced, Has
<1> QED
  BY <1>1, <1>2, <1>4, <1>5, QuietAccounts

\* A pass given up, or the account left: nothing is written.
LEMMA LeaveAccounts ==
  ASSUME IInv, NEW r \in Rec, Accounted(r), NEW d \in Device, Fail(d) \/ SignOut(d)
  PROVE  Accounted(r)'
<1>1. /\ pass'[d].phase = "idle"
      /\ Recs(pass'[d].hash) \subseteq Recs(pass[d].hash)
      /\ Recs(pass'[d].bytes) \subseteq Recs(pass[d].bytes)
  BY DEF Fail, SignOut, Finish, At, IInv, TypeOK, Idle, Recs
<1>2. /\ snap'[d] \in {snap[d], Absent} /\ base'[d] \in {base[d], Absent}
      /\ asSynced'[d] => asSynced[d] /\ snap'[d] = snap[d]
      /\ base'[d] # Absent => snap'[d] = snap[d] /\ base'[d] = base[d]
      /\ UNCHANGED <<file, remote, added, deleted, late, covered, raced, orphaned>>
  <2>1. CASE Fail(d)
    BY <2>1 DEF Fail, history
  <2>2. CASE SignOut(d)
    <3>1. /\ snap'[d] = Absent /\ base'[d] = Absent /\ ~asSynced'[d]
          /\ UNCHANGED <<file, remote, added, deleted, late, covered, raced, orphaned>>
      BY <2>2 DEF SignOut, IInv, TypeOK, history
    <3> QED
      BY <3>1
  <2> QED
    BY <2>1, <2>2
<1>3. Quiet(d)
  BY DEF Fail, SignOut, Finish, IInv, TypeOK, history, Quiet, Untouched
<1>4. /\ Has(d, r)' <=> Has(d, r)
      /\ Entered(d, r)' => Entered(d, r)
      /\ r \in Recs(base[d])' => r \in Recs(base[d]) /\ (Entered(d, r)' <=> Entered(d, r))
      /\ snap'[d] # Absent => snap'[d] = snap[d] /\ (Entered(d, r)' <=> Entered(d, r))
  BY <1>2 DEF Has, Entered, Recs
<1>5. ASSUME Safe(r)
      PROVE  /\ Knows(d, r)'
             /\ d # Author[r] => Elsewhere(d, r)' /\ (Has(d, r) => Has(d, r)')
             /\ d = Author[r] => AtHome(d, r)'
  <2>1. Knows(d, r)'
    BY <1>1, <1>2, <1>4, <1>5 DEF Safe, Knows, InHand, At
  <2>2. ASSUME d # Author[r] PROVE Elsewhere(d, r)'
    <3>1. Elsewhere(d, r)
      BY <1>5, <2>2 DEF Safe
    <3>2. Beyond(d, remote.rev)' => Beyond(d, remote.rev)
      BY <1>1, <1>2 DEF Beyond, R!Rev, IInv, TypeOK, Published
    <3> QED
      BY <1>1, <1>2, <1>4, <3>1, <3>2 DEF Elsewhere, At
  <2>3. ASSUME d = Author[r] PROVE AtHome(d, r)'
    <3>1. AtHome(d, r)
      BY <1>5, <2>3 DEF Safe
    <3>2. AloneWithIt(d, r) => AloneWithIt(d, r)'
      BY <1>1, <1>2, <1>3, <1>4, <2>3, AloneStays DEF AloneWithIt, At
    <3> QED
      BY <1>1, <1>2, <1>3, <1>4, <2>3, <3>1, <3>2, AloneStays DEF AtHome, At
  <2> QED
    BY <1>4, <2>1, <2>2, <2>3
<1>6. Unwritten(r) => Untraced(d, r)'
  BY <1>1, <1>4 DEF Unwritten, Untraced, Has
<1> QED
  BY <1>2, <1>3, <1>5, <1>6, QuietAccounts

-----------------------------------------------------------------------------
(***************************************************************************)
(* A publication by a device whose hash and bytes agree with its file on   *)
(* the record.                                                             *)
(***************************************************************************)
Lands(d, r) ==
  /\ remote'.rev = pass[d].rev
  /\ r \in remote'.bytes <=> Has(d, r)
  /\ r \in remote'.hash <=> Has(d, r)
  /\ Has(d, r) => r \notin covered'
  /\ ~Has(d, r) /\ r \notin covered /\ (r \notin remote.bytes \/ ~pass[d].stale) =>
       r \notin covered'
  /\ r \notin raced' /\ Has(d, r) =>
       \A e \in Device \ {d} : Has(e, r) \/ ~Beyond(e, pass[d].rev)
  /\ r \notin raced' /\ ~Has(d, r) /\ (r \in covered \/ (r \in remote.bytes /\ pass[d].stale)) =>
       pass[d].rev = remote.rev /\ r \in covered'
  /\ r \notin raced' /\ ~Has(d, r) /\ r \in remote.bytes /\ pass[d].stale =>
       \A e \in Device \ {d, Author[r]} : ~Holds(e, r)
  /\ raced \subseteq raced'
  /\ \A e \in Device \ {d} :
       /\ pass'[e].phase = pass[e].phase /\ pass'[e].rev = pass[e].rev
       /\ pass'[e].hash = pass[e].hash /\ pass'[e].bytes = pass[e].bytes
       /\ pass'[e].noBase = pass[e].noBase
       /\ pass'[e].stale = (pass[e].phase # "idle")
  /\ pass'[d] = Idle
  /\ UNCHANGED <<file, added, deleted, late>>

LEMMA LandOfRecord ==
  ASSUME IInv, NEW r \in Rec, NEW d \in Device, NEW hash \in Content,
         NEW bytes \in Content, Land(d, hash, bytes),
         r \in hash <=> Has(d, r), r \in bytes <=> Has(d, r)
  PROVE  Lands(d, r)
<1> DEFINE rev    == pass[d].rev
           over   == IF pass[d].stale THEN remote.bytes \ bytes ELSE {}
           hidden == (covered \cup over) \ bytes
           taken  == {q \in over : \E e \in Device \ {d, Author[q]} : Holds(e, q)}
           unseen == {q \in bytes : \E e \in Device \ {d} :
                                      Beyond(e, rev) /\ q \notin Recs(file[e])}
<1>1. /\ remote' = [rev |-> rev, hash |-> hash, bytes |-> bytes]
      /\ covered' = IF rev = remote.rev THEN hidden ELSE {}
      /\ raced' = raced \cup unseen \cup IF rev = remote.rev THEN taken ELSE hidden
      /\ pass' = [e \in Device |-> IF e = d THEN Idle
                                   ELSE [pass[e] EXCEPT !.stale = Running(e)]]
      /\ UNCHANGED <<file, added, deleted, late>>
  BY DEF Land
<1>2. /\ remote'.rev = rev /\ remote'.hash = hash /\ remote'.bytes = bytes
  BY <1>1
<1>3. /\ r \in hidden <=> ~Has(d, r) /\ (r \in covered \/ r \in over)
      /\ r \in over <=> ~Has(d, r) /\ r \in remote.bytes /\ pass[d].stale
  OBVIOUS
<1>4. /\ r \in covered' <=> rev = remote.rev /\ r \in hidden
      /\ raced \subseteq raced'
      /\ r \notin raced' => r \notin unseen /\ (IF rev = remote.rev THEN r \notin taken
                                                                    ELSE r \notin hidden)
  BY <1>1
<1>5. r \notin unseen /\ Has(d, r) => \A e \in Device \ {d} : Has(e, r) \/ ~Beyond(e, rev)
  BY DEF Has
<1>6. r \notin taken /\ r \in over => \A e \in Device \ {d, Author[r]} : ~Holds(e, r)
  OBVIOUS
<1>7. \A e \in Device \ {d} :
        /\ pass'[e].phase = pass[e].phase /\ pass'[e].rev = pass[e].rev
        /\ pass'[e].hash = pass[e].hash /\ pass'[e].bytes = pass[e].bytes
        /\ pass'[e].noBase = pass[e].noBase
        /\ pass'[e].stale = (pass[e].phase # "idle")
  BY <1>1 DEF IInv, TypeOK, PassState, Running
<1>8. pass'[d] = Idle /\ UNCHANGED <<file, added, deleted, late>>
  BY <1>1
<1> HIDE DEF over, hidden, taken, unseen
<1> QED
  BY <1>2, <1>3, <1>4, <1>5, <1>6, <1>7, <1>8 DEF Lands

\* The other devices, by what they know of the record.
LEMMA LandElsewhere ==
  ASSUME IInv, NEW r \in Rec, Safe(r), NEW d \in Device, Lands(d, r), r \notin raced',
         pass[d].phase \in {"upload", "mergeSend"},
         NEW e \in Device \ {Author[r], d}, Untouched(e)
  PROVE  Elsewhere(e, r)'
<1>1. /\ Has(e, r)' <=> Has(e, r)
      /\ r \in Recs(pass[e].bytes)' <=> r \in Recs(pass[e].bytes)
      /\ pass'[e].phase = pass[e].phase
      /\ pass'[e].stale = (pass[e].phase # "idle")
  BY DEF Lands, Untouched, Has, Recs
<1>2. Elsewhere(e, r)
  BY DEF Safe
<1>3. CASE Has(d, r)
  <2>1. Beyond(e, remote.rev)' <=> Beyond(e, pass[d].rev)
    BY DEF Beyond, Untouched, Lands, R!Rev
  <2>2. Has(e, r) \/ ~Beyond(e, pass[d].rev)
    BY <1>3 DEF Lands
  <2> QED
    BY <1>1, <1>3, <2>1, <2>2 DEF Elsewhere, Lands, At
<1>4. CASE ~Has(d, r)
  <2>1. ~Has(e, r) /\ ~(At(e, "mergeWrite") /\ r \in Recs(pass[e].bytes))
    <3>1. CASE r \in remote.bytes /\ pass[d].stale
      BY <1>4, <3>1 DEF Lands, Holds, Has
    <3>2. CASE ~(r \in remote.bytes)
      BY <1>2, <3>2 DEF Elsewhere
    <3>3. r \in remote.bytes => pass[d].stale
      BY <1>4 DEF Safe, AtHome, Elsewhere
    <3> QED
      BY <3>1, <3>2, <3>3
  <2> QED
    BY <1>1, <1>4, <2>1 DEF Elsewhere, Lands, At
<1> QED
  BY <1>3, <1>4

\* The author of the record, when it is the one that publishes.
LEMMA LandAtHome ==
  ASSUME IInv, NEW r \in Rec, Safe(r), Lands(Author[r], r),
         Entered(Author[r], r)', snap'[Author[r]].rev = pass[Author[r]].rev
  PROVE  AtHome(Author[r], r)'
<1> DEFINE d == Author[r]
<1>1. Has(d, r) /\ Has(d, r)' /\ r \in remote'.bytes /\ r \notin covered'
  BY DEF Safe, AtHome, Lands, Has
<1>2. pass'[d].phase = "idle"
  BY DEF Lands, Idle
<1>3. AloneWithIt(d, r)'
  BY <1>1, <1>2 DEF AloneWithIt, Sent, At, Lands
<1> QED
  BY <1>1, <1>2, <1>3 DEF AtHome, At

\* The author of the record, when another device publishes.
LEMMA LandAtHomeOfOther ==
  ASSUME IInv, NEW r \in Rec, Safe(r), NEW d \in Device, Lands(d, r), r \notin raced',
         pass[d].phase \in {"upload", "mergeSend"}, d # Author[r], Untouched(Author[r])
  PROVE  AtHome(Author[r], r)'
<1> DEFINE a == Author[r]
<1>1. /\ a \in Device /\ AtHome(a, r)
      /\ Elsewhere(d, r)
  BY SyncFileAssumption DEF Safe
<1>2. /\ Has(a, r)' <=> Has(a, r)
      /\ Entered(a, r)' <=> Entered(a, r)
      /\ r \in Recs(base[a])' <=> r \in Recs(base[a])
      /\ snap'[a] = snap[a] /\ pass'[a].phase = pass[a].phase
      /\ pass'[a].rev = pass[a].rev /\ pass'[a].noBase = pass[a].noBase
  BY DEF Untouched, Has, Entered, Recs
<1>3. Alone(r)' <=> Alone(r)
  BY DEF Alone, Has, Lands
<1>4. r \in covered' => r \notin remote'.bytes
  BY DEF Lands
<1>5. CASE Has(d, r)
  <2>1. ~Alone(r)
    BY <1>5 DEF Alone
  <2> QED
    BY <1>1, <1>2, <1>3, <1>4, <2>1 DEF AtHome, At
<1>6. CASE ~Has(d, r)
  <2>1. r \in remote.bytes => pass[d].stale
    BY <1>1, <1>6 DEF Elsewhere
  <2>2. Sent(r) => Sent(r)' /\ remote'.rev = remote.rev
    BY <1>6, <2>1 DEF Sent, Lands
  <2>3. Sent(r)' => Sent(r)
    BY <1>6, <2>1 DEF Sent, Lands
  <2>4. AloneWithIt(a, r) => AloneWithIt(a, r)'
    BY <1>2, <2>2, <2>3 DEF AloneWithIt, At, Entered
  <2> QED
    BY <1>1, <1>2, <1>3, <1>4, <2>4 DEF AtHome, At
<1> QED
  BY <1>5, <1>6

LEMMA PublishAccounts ==
  ASSUME IInv, NEW r \in Rec, Accounted(r), NEW d \in Device,
         NEW hash \in Content, NEW trusted \in BOOLEAN, NEW bytes \in Content,
         Land(d, hash, bytes), Record(d, pass[d].rev, hash, trusted, bytes),
         pass[d].phase \in {"upload", "mergeSend"},
         Knows(d, r) \/ Untraced(d, r) => (r \in hash <=> Has(d, r)),
         Knows(d, r) \/ Untraced(d, r) => (r \in bytes <=> Has(d, r))
  PROVE  Accounted(r)'
<1>1. pass[d].rev \in Nat /\ pass'[d] = Idle /\ UNCHANGED <<file, added, deleted, late>>
  BY DEF Land, IInv, TypeOK, PassState
<1>2. ASSUME Knows(d, r) \/ Untraced(d, r)
      PROVE  /\ Lands(d, r) /\ \A e \in Device \ {d} : Untouched(e)
             /\ Knows(d, r) => Knows(d, r)'
             /\ Untraced(d, r) => Untraced(d, r)'
             /\ R!Rev(snap'[d]) \in {R!Rev(snap[d]), pass[d].rev}
             /\ Has(d, r) /\ r \notin orphaned' =>
                  Entered(d, r)' /\ snap'[d].rev = pass[d].rev
             /\ orphaned \subseteq orphaned'
  <2>1. Lands(d, r)
    BY <1>2, LandOfRecord
  <2>2. /\ Knows(d, r) => Knows(d, r)'
        /\ Untraced(d, r) => Untraced(d, r)'
        /\ R!Rev(snap'[d]) \in {R!Rev(snap[d]), pass[d].rev}
        /\ Has(d, r) /\ r \notin orphaned' => Entered(d, r)' /\ snap'[d].rev = pass[d].rev
        /\ \A e \in Device \ {d} :
             asSynced'[e] = asSynced[e] /\ snap'[e] = snap[e] /\ base'[e] = base[e]
        /\ orphaned \subseteq orphaned'
    BY <1>1, <1>2, RecordOfRecord
  <2>3. \A e \in Device \ {d} : Untouched(e)
    BY <2>1, <2>2 DEF Lands, Untouched
  <2> QED
    BY <2>1, <2>2, <2>3
<1>3. ASSUME Safe(r), Live(r)' PROVE Safe(r)'
  <2>1. Knows(d, r) /\ r \notin raced' /\ r \notin orphaned'
    BY <1>3 DEF Safe, Live
  <2>2. /\ Lands(d, r) /\ \A e \in Device \ {d} : Untouched(e)
        /\ Knows(d, r)'
        /\ R!Rev(snap'[d]) \in {R!Rev(snap[d]), pass[d].rev}
        /\ Has(d, r) => Entered(d, r)' /\ snap'[d].rev = pass[d].rev
    BY <1>2, <2>1
  <2>3. \A e \in Device : Knows(e, r)'
    BY <1>3, <2>2, KnowsUntouched DEF Safe
  <2>4. \A e \in Device \ {Author[r], d} : Elsewhere(e, r)'
    BY <1>3, <2>1, <2>2, LandElsewhere
  <2>5. ASSUME d # Author[r] PROVE Elsewhere(d, r)'
    <3>1. pass'[d].phase = "idle"
      BY <1>1 DEF Idle
    <3>2. Has(d, r)' <=> r \in remote'.bytes
      BY <2>2 DEF Lands, Has
    <3> QED
      BY <3>1, <3>2 DEF Elsewhere, At
  <2>6. AtHome(Author[r], r)'
    <3>1. CASE d = Author[r]
      BY <1>3, <2>2, <3>1, LandAtHome DEF Safe, AtHome
    <3>2. CASE d # Author[r]
      <4>1. Author[r] \in Device
        BY SyncFileAssumption
      <4> QED
        BY <1>3, <2>1, <2>2, <3>2, <4>1, LandAtHomeOfOther
    <3> QED
      BY <3>1, <3>2
  <2>7. (r \in remote.hash <=> r \in remote.bytes)'
    BY <2>2 DEF Lands
  <2> QED
    BY <2>3, <2>4, <2>5, <2>6, <2>7 DEF Safe
<1>4. ASSUME Unwritten(r) PROVE Unwritten(r)'
  <2>1. Untraced(d, r)
    BY <1>4 DEF Unwritten
  <2>2. Lands(d, r) /\ Untraced(d, r)' /\ \A e \in Device \ {d} : Untouched(e)
    BY <1>2, <2>1
  <2>3. \A e \in Device : Untraced(e, r)'
    BY <1>4, <2>2 DEF Unwritten, Untraced, Untouched, Entered, Recs
  <2>4. (r \notin remote.hash \cup remote.bytes \cup covered)'
    BY <1>4, <2>1, <2>2 DEF Unwritten, Untraced, Lands, Has
  <2> QED
    BY <2>3, <2>4 DEF Unwritten
<1>5. Live(r)' => Live(r)
  <2>1. orphaned \subseteq orphaned' /\ raced \subseteq raced'
    BY DEF Record, Land
  <2> QED
    BY <1>1, <2>1 DEF Live
<1> QED
  BY <1>1, <1>3, <1>4, <1>5 DEF Accounted

LEMMA UploadAccounts ==
  ASSUME IInv, NEW r \in Rec, Accounted(r), NEW d \in Device, Upload(d)
  PROVE  Accounted(r)'
<1>1. /\ pass[d].hash \in Content /\ file[d] \in Content /\ (~pass[d].touched) \in BOOLEAN
      /\ pass[d].phase = "upload"
  BY DEF Upload, At, IInv, HashInHand, TypeOK, PassState
<1>2. Recs(pass[d].hash) = pass[d].hash /\ Recs(file[d]) = file[d]
  BY <1>1, SyncFileAssumption DEF Recs
<1>3. Knows(d, r) \/ Untraced(d, r) => (r \in pass[d].hash <=> Has(d, r))
  BY <1>1, <1>2 DEF Knows, InHand, Untraced, Has
<1>4. r \in file[d] <=> Has(d, r)
  BY <1>2 DEF Has
<1> QED
  BY <1>1, <1>3, <1>4, PublishAccounts DEF Upload

LEMMA MergeSendAccounts ==
  ASSUME IInv, NEW r \in Rec, Accounted(r), NEW d \in Device, MergeSend(d)
  PROVE  Accounted(r)'
<1> DEFINE out     == pass[d].bytes
           trusted == Size(file[d]) = Size(out)
<1>1. out \in Content /\ trusted \in BOOLEAN /\ pass[d].phase = "mergeSend"
  BY DEF MergeSend, At, IInv, BytesInHand
<1>2. Recs(out) = out
  BY <1>1, SyncFileAssumption DEF Recs
<1>3. Knows(d, r) \/ Untraced(d, r) => (r \in out <=> Has(d, r))
  BY <1>1, <1>2 DEF Knows, InHand, Untraced, Has
<1>4. Land(d, out, out) /\ Record(d, pass[d].rev, out, trusted, out)
  BY DEF MergeSend
<1> HIDE DEF out, trusted
<1> QED
  BY <1>1, <1>3, <1>4, PublishAccounts

-----------------------------------------------------------------------------
LEMMA StepLInv == IInv /\ LInv /\ [Next]_vars => LInv'
<1> SUFFICES ASSUME IInv, LInv, [Next]_vars, NEW r \in Rec PROVE Accounted(r)'
  BY DEF LInv
<1>0. Accounted(r)
  BY DEF LInv
<1>1. ASSUME NEW d \in Device, Reader(d) \/ Fail(d) \/ SignOut(d) PROVE Accounted(r)'
  BY <1>0, <1>1, ReaderAccounts, LeaveAccounts
<1>2. ASSUME NEW d \in Device, PassStep(d) PROVE Accounted(r)'
  BY <1>0, <1>2, PlanAccounts, NoteAccounts, SeedAccounts, DownloadWriteAccounts,
     DownloadSettleAccounts, MergeReadAccounts, MergeWriteAccounts, MergeSendAccounts,
     UploadAccounts DEF PassStep
<1>3. CASE UNCHANGED vars
  <2>1. \A e \in Device : Untouched(e) /\ pass'[e].stale = pass[e].stale
    BY <1>3 DEF vars, Untouched
  <2>2. Unwritten(r) => Unwritten(r)'
    BY <1>3 DEF vars, history, Unwritten, Untraced, Entered
  <2>3. Safe(r) => Safe(r)'
    BY <1>3 DEF vars, history, Safe, Knows, InHand, Elsewhere, AtHome, AloneWithIt,
                Alone, Has, Entered, Sent, Beyond, At
  <2>4. (Live(r)' <=> Live(r)) /\ (r \in added' <=> r \in added)
    BY <1>3 DEF vars, history, Live
  <2> QED
    BY <1>0, <2>2, <2>3, <2>4 DEF Accounted
<1> QED
  BY <1>1, <1>2, <1>3 DEF Next

(***************************************************************************)
(* What a reader wrote stays in the file it was written in, whatever       *)
(* fails and however many devices publish, but for a deletion and the      *)
(* three windows.                                                          *)
(***************************************************************************)
THEOREM WrittenIsKept == Spec => []LossOnlyByRace
<1>1. Init => IInv /\ LInv
  BY InitTInv, InitLInv DEF TInv
<1>2. IInv /\ LInv /\ [Next]_vars => (IInv /\ LInv)'
  BY StepIInv, StepLInv
<1>3. IInv /\ LInv => LossOnlyByRace
  BY DEF IInv, TypeOK, Content, LInv, Accounted, Live, Safe, AtHome, Has, LossOnlyByRace, Kept
<1> QED
  BY <1>1, <1>2, <1>3, PTL DEF Spec
=============================================================================
