----------------------------- MODULE Reconcile -----------------------------
(***************************************************************************)
(* The decision core of a sync pass (src/platform/sync/reconcile.ts): what *)
(* to do about ONE path, given what the scan saw here, what the listing    *)
(* saw in the remote and what the snapshot of the last sync says.          *)
(*                                                                         *)
(* A content is stood for by its hash.  mtime and size are only ever       *)
(* compared between the scanned file and its snapshot entry, always        *)
(* together, so they enter as one Boolean, moved: either one differs.      *)
(***************************************************************************)
EXTENDS Integers

CONSTANTS
  Hash,      \* the contents a file can have
  NoHash,    \* the hash of an entry written before hashing existed
  Absent     \* no file, no remote entry, no snapshot entry, no merge base

(***************************************************************************)
(* A remote listing entry and a snapshot entry have the same shape.        *)
(***************************************************************************)
Entry == [rev : Nat, hash : Hash \cup {NoHash}]

ASSUME AbsentIsNoHash ==
  /\ Absent # NoHash /\ \A h \in Hash : h # Absent /\ h # NoHash
  /\ Absent \notin Entry

MaybeEntry == Entry \cup {Absent}
MaybeHash == Hash \cup {Absent}

Kinds == {"purge", "dropBase", "download", "merge", "mergeNoBase",
          "upload", "converged", "none"}

Rev(e) == IF e = Absent THEN 0 ELSE e.rev
Larger(m, n) == IF m >= n THEN m ELSE n

\* Mutant of LocallyChanged: mtime decides, as it did before hashing.
LocallyTouched(loc, moved, snap) == snap = Absent \/ moved

LocallyChanged(loc, moved, snap) ==
  \/ snap = Absent
  \/ snap # Absent /\ snap.hash = NoHash /\ moved
  \/ snap # Absent /\ snap.hash # NoHash /\ loc # snap.hash

\* Mutant of RemotelyChanged: what was never synced here is not news.
RemotelyNewer(rem, snap) == rem # Absent /\ snap # Absent /\ rem.rev > snap.rev

RemotelyChanged(rem, snap) ==
  rem # Absent /\ (snap = Absent \/ rem.rev > snap.rev)

\* Mutant of Overwritten: a rev that stands is taken to be this device's own.
OverwrittenIgnored(rem, snap) == FALSE

(***************************************************************************)
(* The remote stands at the rev this device last published or saw, under   *)
(* another hash: some device published that rev over it.                   *)
(***************************************************************************)
Overwritten(rem, snap) ==
  /\ rem # Absent /\ snap # Absent
  /\ rem.rev = snap.rev
  /\ rem.hash # NoHash /\ snap.hash # NoHash
  /\ rem.hash # snap.hash

\* Mutant of NextRev: only the snapshot's rev is passed.
NextSnapRev(rem, snap) == Rev(snap) + 1

NextRev(rem, snap) == Larger(Rev(rem), Rev(snap)) + 1

(***************************************************************************)
(* The snapshot's hash where mtime and size allow it to be trusted without *)
(* reading the file.                                                       *)
(***************************************************************************)
CachedHash(snap, moved) ==
  IF snap = Absent \/ moved THEN NoHash ELSE snap.hash

Note(loc, moved, snap, rev) ==
  [kind |-> IF snap = [rev |-> rev, hash |-> loc] /\ ~moved
            THEN "none" ELSE "converged",
   rev  |-> rev]

DecideHeld(loc, moved, rem, snap) ==
  LET here  == LocallyChanged(loc, moved, snap)
      there == RemotelyChanged(rem, snap)
      next  == NextRev(rem, snap)
  IN IF rem # Absent /\ rem.hash = loc THEN Note(loc, moved, snap, rem.rev)
     ELSE IF Overwritten(rem, snap) THEN [kind |-> "mergeNoBase", rev |-> next]
     ELSE IF here /\ there THEN [kind |-> "merge", rev |-> next]
     ELSE IF here THEN [kind |-> "upload", rev |-> next]
     ELSE IF there THEN [kind |-> "download", rev |-> rem.rev]
     ELSE Note(loc, moved, snap, snap.rev)

DecideMissing(rem, snap) ==
  [kind |-> IF RemotelyChanged(rem, snap) THEN "download"
            ELSE IF rem = Absent THEN "dropBase" ELSE "none",
   rev  |-> Rev(rem)]

\* Mutant of DecideDead: only the local copy makes a purge.
DecideDeadHere(loc, rem) ==
  [kind |-> IF loc # Absent THEN "purge" ELSE "dropBase", rev |-> Rev(rem)]

DecideDead(loc, rem) ==
  [kind |-> IF loc # Absent \/ rem # Absent THEN "purge" ELSE "dropBase",
   rev  |-> Rev(rem)]

Decide(loc, moved, rem, snap, dead) ==
  IF dead THEN DecideDead(loc, rem)
  ELSE IF loc = Absent THEN DecideMissing(rem, snap)
  ELSE DecideHeld(loc, moved, rem, snap)
=============================================================================
