------------------------------ MODULE SyncFile ------------------------------
(***************************************************************************)
(* One file of the sync range, several devices and the remote they share   *)
(* (src/platform/sync/engine.ts, SyncEngine.runPass for one path).         *)
(*                                                                         *)
(* A pass is cut into steps wherever something else can make a difference: *)
(* an edit of the reader, another device's upload, a failed request, the   *)
(* death of the process.  Awaits that nothing can tell apart are one step: *)
(* the listing and the scan (one reads the remote only, the other the disk *)
(* only), a fetch and the local read or write that follows it, an upload   *)
(* and the bookkeeping it leaves.  The remote has no conditional write.    *)
(*                                                                         *)
(* A content is the set of records the file holds; its hash is the content *)
(* itself.  mtime enters as one Boolean per device: the snapshot's mtime   *)
(* and size are those of the file, so the next scan will not read it.      *)
(* What a tombstone or a purge does to a path is not part of this module.  *)
(***************************************************************************)
EXTENDS Integers, FiniteSets

CONSTANTS
  Device,       \* the account's devices
  Rec,          \* the records an edit can add
  Author,       \* the device each record is written on
  Deletable,    \* the records a reader may also delete again
  Size(_),      \* the byte length of a content
  NoHash, Absent,
  MaxRev,       \* bound: revs a publication may carry
  MaxFaults     \* bound: failures, deaths, sign-outs and idle re-saves

Content == SUBSET Rec

ASSUME SyncFileAssumption ==
  /\ Author \in [Rec -> Device] /\ Deletable \subseteq Rec
  /\ MaxRev \in Nat /\ MaxFaults \in Nat
  /\ Absent # NoHash /\ \A c \in Content : c # Absent /\ c # NoHash
  /\ Absent \notin [rev : Nat, hash : Content]

R == INSTANCE Reconcile WITH Hash <- Content

VARIABLES
  file,      \* what each device holds under the path, or Absent
  asSynced,  \* mtime and size of the file are those in the snapshot
  snap,      \* each device's snapshot entry, persisted when the pass ends
  base,      \* the content under sync-base/, or Absent
  remote,    \* the remote entry and the bytes it stands for
  pass,      \* where the running pass of each device is
  added,     \* history: records some reader wrote
  deleted,   \* history: records some reader deleted
  late,      \* history: records written or deleted while that device's pass ran
  covered,   \* history: records of a publication the remote's replaced at its own rev
  raced,     \* history: records of a publication some device will not see
  orphaned,  \* history: records of a transfer the snapshot never heard of
  regressed, \* history: an upload has put the remote back to a lower rev
  mixed,     \* history: a publication crossed another, or its bytes are not its hash's
  faults     \* how many of MaxFaults have happened

history == <<added, deleted, late, covered, raced, orphaned, regressed, mixed>>
vars == <<file, asSynced, snap, base, remote, pass, faults, history>>

Bytes == {Absent} \cup Content
SnapEntry == {Absent} \cup [rev : Nat, hash : Content]
Published == [rev : Nat, hash : Content, bytes : Content]

(***************************************************************************)
(* The local state of a pass: the rev and the hash its plan carries for    *)
(* the file, the bytes in hand, whether the merge may use the base,        *)
(* whether the reader wrote the file since the pass last took its mtime or *)
(* wrote it itself, and (history) whether the remote moved since the pass  *)
(* last looked at it.                                                      *)
(***************************************************************************)
Phases == {"idle", "note", "seed", "download", "settle",
           "merge", "mergeWrite", "mergeSend", "upload"}

Publishing == {"merge", "mergeWrite", "mergeSend", "upload"}

PassState == [phase : Phases, rev : Nat, hash : Bytes, bytes : Bytes,
              noBase : BOOLEAN, touched : BOOLEAN, stale : BOOLEAN]

Idle == [phase |-> "idle", rev |-> 0, hash |-> Absent, bytes |-> Absent,
         noBase |-> FALSE, touched |-> FALSE, stale |-> FALSE]

TypeOK ==
  /\ file \in [Device -> Bytes]
  /\ asSynced \in [Device -> BOOLEAN]
  /\ snap \in [Device -> SnapEntry]
  /\ base \in [Device -> Bytes]
  /\ remote \in Published
  /\ pass \in [Device -> PassState]
  /\ added \in Content /\ deleted \in Content
  /\ late \in Content /\ covered \in Content
  /\ raced \in Content /\ orphaned \in Content
  /\ regressed \in BOOLEAN /\ mixed \in BOOLEAN
  /\ faults \in 0 .. MaxFaults

(***************************************************************************)
(* An account that already holds the file, empty, at rev 1.  Each device   *)
(* is in step with it or has just signed in.                               *)
(***************************************************************************)
Init ==
  /\ remote = [rev |-> 1, hash |-> {}, bytes |-> {}]
  /\ \E known \in SUBSET Device :
       /\ file = [d \in Device |-> IF d \in known THEN {} ELSE Absent]
       /\ base = file
       /\ snap = [d \in Device |-> IF d \in known THEN [rev |-> 1, hash |-> {}]
                                   ELSE Absent]
       /\ asSynced = [d \in Device |-> d \in known]
  /\ pass = [d \in Device |-> Idle]
  /\ added = {} /\ deleted = {} /\ late = {}
  /\ covered = {} /\ raced = {} /\ orphaned = {}
  /\ regressed = FALSE /\ mixed = FALSE /\ faults = 0

-----------------------------------------------------------------------------
(***************************************************************************)
(* The file on disk.                                                       *)
(***************************************************************************)
Recs(c) == IF c = Absent THEN {} ELSE c
Running(d) == pass[d].phase # "idle"
At(d, ph) == pass[d].phase = ph

Fault == faults < MaxFaults /\ faults' = faults + 1

Write(d, c) ==
  /\ file' = [file EXCEPT ![d] = c]
  /\ asSynced' = [asSynced EXCEPT ![d] = FALSE]

Edit(d, c) ==
  /\ Write(d, c)
  /\ pass' = [pass EXCEPT ![d].touched = Running(d)]
  /\ UNCHANGED <<snap, base, remote, covered, raced, orphaned, regressed, mixed>>

Add(d, r) ==
  /\ Author[r] = d /\ r \notin added
  /\ Edit(d, Recs(file[d]) \cup {r})
  /\ added' = added \cup {r}
  /\ late' = IF Running(d) THEN late \cup {r} ELSE late
  /\ UNCHANGED <<deleted, faults>>

Delete(d, r) ==
  /\ r \in (Deletable \ deleted) \cap Recs(file[d])   \* bound: once per record
  /\ Edit(d, file[d] \ {r})
  /\ deleted' = deleted \cup {r}
  /\ late' = IF Running(d) THEN late \cup {r} ELSE late
  /\ UNCHANGED <<added, faults>>

\* The app saves the content that is already there.
Resave(d) ==
  /\ file[d] # Absent /\ asSynced[d]
  /\ Edit(d, file[d]) /\ Fault
  /\ UNCHANGED <<added, deleted, late>>

-----------------------------------------------------------------------------
(***************************************************************************)
(* A pass.                                                                 *)
(***************************************************************************)
Finish(d) == pass' = [pass EXCEPT ![d] = Idle]

\* The hash a scan gives the file: the snapshot's, when mtime and size match.
ScanHash(d) ==
  IF file[d] = Absent THEN Absent
  ELSE IF asSynced[d] /\ snap[d] # Absent THEN snap[d].hash
  ELSE file[d]

Planned(d) ==
  R!Decide(ScanHash(d), ~asSynced[d],
           [rev |-> remote.rev, hash |-> remote.hash], snap[d], FALSE)

\* Mutant of NextPhase: a merge without a base is dispatched to nobody.
NextPhaseByName(d, kind) ==
  IF kind \in {"download", "upload", "merge", "mergeNoBase"} THEN kind
  ELSE IF kind = "converged" THEN "note" ELSE "idle"

NextPhase(d, kind) ==
  CASE kind = "download"  -> "download"
    [] kind = "upload"    -> "upload"
    [] kind \in {"merge", "mergeNoBase"} -> "merge"
    [] kind = "converged" -> "note"
    [] OTHER -> IF /\ base[d] = Absent /\ snap[d] # Absent
                   /\ ScanHash(d) = snap[d].hash
                THEN "seed" ELSE "idle"

Plan(d) ==
  /\ At(d, "idle")
  /\ LET plan == Planned(d)
         ph   == NextPhase(d, plan.kind)
     IN /\ plan.rev <= MaxRev
        /\ ph # "idle"
        /\ pass' = [pass EXCEPT ![d] =
             [Idle EXCEPT !.phase = ph,
                          !.rev = plan.rev,
                          !.hash = IF ph \in {"note", "upload"} THEN ScanHash(d) ELSE Absent,
                          !.noBase = (plan.kind = "mergeNoBase")]]
  /\ UNCHANGED <<file, asSynced, snap, base, remote, faults, history>>

(***************************************************************************)
(* The bookkeeping of a transfer: the snapshot entry, with whether a scan  *)
(* will trust it, then the base, whose write may fail without failing the  *)
(* file.  A process that dies before sync-state.json is written keeps the  *)
(* base and loses the entry.                                               *)
(***************************************************************************)
Record(d, rev, hash, trusted, agreed) ==
  LET entry == /\ snap' = [snap EXCEPT ![d] = [rev |-> rev, hash |-> hash]]
               /\ asSynced' = [asSynced EXCEPT ![d] = trusted]
      based == base' = [base EXCEPT ![d] = agreed]
  IN \/ entry /\ based /\ UNCHANGED <<orphaned, faults>>
     \/ entry /\ UNCHANGED <<base, orphaned>> /\ Fault
     \/ (based \/ UNCHANGED base) /\ UNCHANGED <<snap, asSynced>> /\ Fault
        /\ orphaned' = orphaned \cup agreed

(***************************************************************************)
(* The snapshot catches up with what the scan saw; the base becomes what   *)
(* is on disk by now (rebase).                                             *)
(***************************************************************************)
NoteConverged(d) ==
  /\ At(d, "note")
  /\ Record(d, pass[d].rev, pass[d].hash, ~pass[d].touched, file[d])
  /\ Finish(d)
  /\ UNCHANGED <<file, remote, added, deleted, late, covered, raced, regressed, mixed>>

SeedBase(d) ==
  /\ At(d, "seed")
  /\ base' = [base EXCEPT ![d] = file[d]]
  /\ Finish(d)
  /\ UNCHANGED <<file, asSynced, snap, remote, faults, history>>

-----------------------------------------------------------------------------
\* The bytes of now, under the rev of the listing, over whatever is on disk.
DownloadWrite(d) ==
  /\ At(d, "download")
  /\ Write(d, remote.bytes)
  /\ pass' = [pass EXCEPT ![d] = [@ EXCEPT !.phase = "settle", !.bytes = remote.bytes,
                                          !.touched = FALSE]]
  /\ UNCHANGED <<snap, base, remote, faults, history>>

\* The mtime is whatever stat says now, the size and hash those of the bytes.
DownloadSettle(d) ==
  /\ At(d, "settle")
  /\ Record(d, pass[d].rev, pass[d].bytes,
            Size(file[d]) = Size(pass[d].bytes), pass[d].bytes)
  /\ Finish(d)
  /\ UNCHANGED <<file, remote, added, deleted, late, covered, raced, regressed, mixed>>

-----------------------------------------------------------------------------
(***************************************************************************)
(* mergeOne.  Merge3 is the record-level merge: with no base both sides    *)
(* are kept, with one a record the base has and one side lacks was         *)
(* deleted there.                                                          *)
(***************************************************************************)
Merge3(b, ours, theirs) ==
  IF b = Absent THEN ours \cup theirs
  ELSE (ours \cap theirs) \cup (ours \ b) \cup (theirs \ b)

MergeRead(d) ==
  /\ At(d, "merge")
  /\ LET b == IF pass[d].noBase THEN Absent ELSE base[d]
     IN pass' = [pass EXCEPT ![d] =
          [@ EXCEPT !.phase = "mergeWrite", !.stale = FALSE,
                    !.bytes = Merge3(b, file[d], remote.bytes)]]
  /\ UNCHANGED <<file, asSynced, snap, base, remote, faults, history>>

MergeWrite(d) ==
  /\ At(d, "mergeWrite")
  /\ Write(d, pass[d].bytes)
  /\ pass' = [pass EXCEPT ![d] = [@ EXCEPT !.phase = "mergeSend", !.touched = FALSE]]
  /\ UNCHANGED <<snap, base, remote, faults, history>>

(***************************************************************************)
(* A device whose snapshot stands at a later rev, or is about to, does not *)
(* look at this one.                                                       *)
(***************************************************************************)
Beyond(e, rev) ==
  \/ rev < R!Rev(snap[e])
  \/ pass[e].phase \in {"note", "settle"} /\ rev < pass[e].rev

Holds(e, r) == r \in Recs(file[e]) \cup Recs(pass[e].bytes)

(***************************************************************************)
(* An upload lands: bytes and metadata together, over whatever is there.   *)
(* What it covers without having seen it is out of sight once the remote   *)
(* leaves the rev both were published at, or where a third device has      *)
(* taken it over; what it brings, where a device without it is beyond.     *)
(***************************************************************************)
Land(d, hash, bytes) ==
  LET rev    == pass[d].rev
      over   == IF pass[d].stale THEN remote.bytes \ bytes ELSE {}
      hidden == (covered \cup over) \ bytes
      taken  == {r \in over : \E e \in Device \ {d, Author[r]} : Holds(e, r)}
      unseen == {r \in bytes : \E e \in Device \ {d} :
                                 Beyond(e, rev) /\ r \notin Recs(file[e])}
  IN /\ remote' = [rev |-> rev, hash |-> hash, bytes |-> bytes]
     /\ covered' = IF rev = remote.rev THEN hidden ELSE {}
     /\ raced' = raced \cup unseen \cup IF rev = remote.rev THEN taken ELSE hidden
     /\ regressed' = (regressed \/ rev < remote.rev)
     /\ mixed' = \/ mixed \/ hash # bytes
                 \/ \E e \in Device \ {d} : pass[e].phase \in Publishing
     /\ pass' = [e \in Device |-> IF e = d THEN Idle
                                  ELSE [pass[e] EXCEPT !.stale = Running(e)]]
     /\ UNCHANGED <<file, added, deleted, late>>

\* Mutant of Upload: the mtime recorded is taken when the upload is done.
UploadStatLater(d) ==
  /\ At(d, "upload")
  /\ Land(d, pass[d].hash, file[d])
  /\ Record(d, pass[d].rev, pass[d].hash, TRUE, file[d])

\* The bytes of now, under the hash of the scan.
Upload(d) ==
  /\ At(d, "upload")
  /\ Land(d, pass[d].hash, file[d])
  /\ Record(d, pass[d].rev, pass[d].hash, ~pass[d].touched, file[d])

\* The mtime is whatever stat says now, the size that of the merged bytes.
MergeSend(d) ==
  /\ At(d, "mergeSend")
  /\ LET out == pass[d].bytes IN
     /\ Land(d, out, out)
     /\ Record(d, pass[d].rev, out, Size(file[d]) = Size(out), out)

-----------------------------------------------------------------------------
(***************************************************************************)
(* A request or a local write fails, or its answer is lost: the file       *)
(* leaves the pass with nothing recorded.                                  *)
(***************************************************************************)
Fail(d) ==
  /\ Fault
  /\ Running(d) /\ pass[d].phase \notin {"note", "seed"}
  /\ Finish(d)
  /\ UNCHANGED <<file, asSynced, snap, base, remote, history>>

\* Signing out forgets the snapshot and the bases, and keeps the data.
SignOut(d) ==
  /\ At(d, "idle") /\ Fault
  /\ snap' = [snap EXCEPT ![d] = Absent]
  /\ asSynced' = [asSynced EXCEPT ![d] = FALSE]
  /\ base' = [base EXCEPT ![d] = Absent]
  /\ UNCHANGED <<file, remote, pass, history>>

Reader(d) == \/ \E r \in Rec : Add(d, r) \/ Delete(d, r)
             \/ Resave(d)

PassStep(d) ==
  \/ Plan(d) \/ NoteConverged(d) \/ SeedBase(d)
  \/ DownloadWrite(d) \/ DownloadSettle(d)
  \/ MergeRead(d) \/ MergeWrite(d) \/ MergeSend(d)
  \/ Upload(d)

Next == \E d \in Device :
  \/ Reader(d) \/ PassStep(d)
  \/ Fail(d) \/ SignOut(d)

Spec == Init /\ [][Next]_vars

(***************************************************************************)
(* The tick timer keeps running passes for as long as the app is open, and *)
(* a pass that has begun is not left hanging: every request times out.     *)
(***************************************************************************)
Fairness == \A d \in Device : WF_vars(PassStep(d))
FairSpec == Spec /\ Fairness

-----------------------------------------------------------------------------
(***************************************************************************)
(* What a reader wrote stays in the file it was written in until some      *)
(* reader deletes it. A pass breaks this in three ways only: the record    *)
(* was written after the running pass had scanned the file; or it was      *)
(* published into a race (another publication of its rev that is gone      *)
(* before its author looks or that a third device met first, or a remote   *)
(* that had been put back, below a device without it); or the process died *)
(* between a base and the snapshot entry that goes with it. A race that    *)
(* ends at the rev both published is repaired (reconcile's noBase).        *)
(***************************************************************************)
Kept(rs) == \A r \in rs : r \in Recs(file[Author[r]])
LossOnlyByRace == Kept(added \ (deleted \cup late \cup raced \cup orphaned))

(***************************************************************************)
(* A scan trusts the snapshot's hash where mtime and size match; a device  *)
(* is deceived while that hash is not the file's.                          *)
(***************************************************************************)
Deceived(d) ==
  asSynced[d] /\ snap[d] # Absent /\ file[d] # Absent /\ snap[d].hash # file[d]

(***************************************************************************)
(* A device comes to trust a hash that is not its file's in one way only:  *)
(* the reader replaced what a download or a merge had just written by a    *)
(* content of the same size, before the pass took the file's mtime.  Such  *)
(* an edit is not synced until the file is written again.                  *)
(***************************************************************************)
ReplacedUnseen(d) ==
  /\ pass[d].phase \in {"settle", "mergeSend"} /\ pass[d].touched
  /\ file[d] # pass[d].bytes /\ Size(file[d]) = Size(pass[d].bytes)
DeceivedOnlyBySize ==
  [][\A d \in Device : Deceived(d)' => Deceived(d) \/ ReplacedUnseen(d)]_vars

(***************************************************************************)
(* Once the readers stop, every device ends up with the same file, unless  *)
(* an upload put the remote back to a lower rev or a device is deceived.   *)
(***************************************************************************)
InStep == \A d, e \in Device : file[d] = file[e]
Excepted == regressed \/ \E d \in Device : Deceived(d)
Convergence == <>[](Excepted \/ InStep)

(***************************************************************************)
(* A record a reader deleted while no pass ran there is gone everywhere    *)
(* once every device has nothing left to do.  It takes a failure, or a     *)
(* publication that crossed another device's or whose file was edited      *)
(* under the upload, for a merge to bring it back: apart from those the    *)
(* revs and hashes always send a deletion on as news, and never make a     *)
(* device that holds the base do without it.                               *)
(***************************************************************************)
Settled(d) == At(d, "idle") /\ NextPhase(d, Planned(d).kind) = "idle"
DeletionsHold ==
  (\A d \in Device : Settled(d)) /\ ~mixed /\ faults = 0
    => \A d \in Device : Recs(file[d]) \cap (deleted \ late) = {}
=============================================================================
