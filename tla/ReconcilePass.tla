--------------------------- MODULE ReconcilePass ---------------------------
(***************************************************************************)
(* One decision of Reconcile followed by what the pass does about it when  *)
(* nothing interferes (src/platform/sync/engine.ts, runPass): the pure     *)
(* core against its own consequences.  Three passes in a row from every    *)
(* combination of the three inputs, legacy entries without a hash          *)
(* included.                                                               *)
(***************************************************************************)
EXTENDS Reconcile

CONSTANTS MaxRev,     \* bound: revs of the initial entries
          Merged      \* the content a merge of two sides comes out as

ASSUME MergedAssumption == Merged \in Hash /\ MaxRev \in Nat

VARIABLES
  loc,     \* the local content, or Absent
  moved,   \* mtime or size differs from the snapshot's
  rem,     \* the remote entry
  snap,    \* the snapshot entry
  dead,    \* a tombstone names the path
  done     \* the last decision carried out, and how many have been

vars == <<loc, moved, rem, snap, dead, done>>

SomeEntry == [rev : 0 .. MaxRev, hash : Hash \cup {NoHash}] \cup {Absent}

Init ==
  /\ loc \in MaybeHash
  /\ rem \in SomeEntry
  /\ snap \in SomeEntry
  /\ dead \in BOOLEAN
  /\ moved \in BOOLEAN
  /\ done = [kind |-> "none", rev |-> 0, passes |-> 0]

Now == Decide(loc, moved, rem, snap, dead)
Carried(k) == /\ done.passes < 3
              /\ Now.kind = k
              /\ done' = [kind |-> k, rev |-> Now.rev, passes |-> done.passes + 1]

Purge ==
  /\ Carried("purge")
  /\ loc' = Absent /\ rem' = Absent /\ snap' = Absent
  /\ UNCHANGED <<moved, dead>>

(***************************************************************************)
(* Only the merge base goes; the snapshot entry stays.                     *)
(***************************************************************************)
DropBase ==
  /\ Carried("dropBase")
  /\ UNCHANGED <<loc, moved, rem, snap, dead>>

(***************************************************************************)
(* The snapshot takes the hash of the bytes that came down; the remote     *)
(* entry keeps whatever hash it was published with.                        *)
(***************************************************************************)
Download ==
  /\ Carried("download")
  /\ \E h \in IF rem.hash = NoHash THEN Hash ELSE {rem.hash} :
        /\ loc' = h
        /\ snap' = [rev |-> Now.rev, hash |-> h]
  /\ moved' = FALSE
  /\ UNCHANGED <<rem, dead>>

Publish(h) ==
  /\ loc' = h
  /\ rem' = [rev |-> Now.rev, hash |-> h]
  /\ snap' = [rev |-> Now.rev, hash |-> h]
  /\ moved' = FALSE
  /\ UNCHANGED dead

Merge == (Carried("merge") \/ Carried("mergeNoBase")) /\ Publish(Merged)
Upload == Carried("upload") /\ Publish(loc)

\* Mutant of Converge: the snapshot is not brought up to date.
ConvergeForgotten ==
  /\ Carried("converged")
  /\ UNCHANGED <<loc, moved, rem, snap, dead>>

Converge ==
  /\ Carried("converged")
  /\ snap' = [rev |-> Now.rev, hash |-> loc]
  /\ moved' = FALSE
  /\ UNCHANGED <<loc, rem, dead>>

Nothing ==
  /\ Carried("none")
  /\ UNCHANGED <<loc, moved, rem, snap, dead>>

Next == Purge \/ DropBase \/ Download \/ Merge \/ Upload \/ Converge \/ Nothing

Spec == Init /\ [][Next]_vars

-----------------------------------------------------------------------------
(***************************************************************************)
(* Passes that nothing interferes with settle: the third one moves no      *)
(* bytes and rewrites no snapshot, whatever the first two had to do.  (Two *)
(* and not one: filling in the hash of an entry from before hashing can    *)
(* reveal that the remote was overwritten.)  reconcile.ts's converged      *)
(* entries exist so a file is not re-decided every fifteen seconds.        *)
(***************************************************************************)
Settles ==
  done.passes = 3 => done.kind \in {"none", "dropBase"}

(***************************************************************************)
(* A local content the last sync did not know never disappears under a     *)
(* download: the side that goes is one the remote already had.             *)
(***************************************************************************)
DownloadCoversOnlySynced ==
  [][Download /\ loc # Absent
       => snap # Absent /\ (snap.hash = loc \/ (snap.hash = NoHash /\ ~moved))]_vars
=============================================================================
