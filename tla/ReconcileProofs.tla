--------------------------- MODULE ReconcileProofs ---------------------------
(***************************************************************************)
(* Theorems of Reconcile and ReconcilePass, for any contents and any revs  *)
(* at the start: what a decision means for the copy it is about, and that  *)
(* decisions settle.                                                       *)
(***************************************************************************)
EXTENDS ReconcilePass, TLAPS

Quiet == {"none", "dropBase"}

Typed ==
  /\ loc \in MaybeHash /\ rem \in MaybeEntry /\ snap \in MaybeEntry
  /\ dead \in BOOLEAN /\ moved \in BOOLEAN
  /\ done.passes \in 0 .. 3

Settled == Now.kind \in Quiet

\* The snapshot knows the file, and nothing above it is in the remote: only a
\* remote overwritten at that very rev is still to be found.
Noted ==
  /\ ~dead /\ ~moved /\ loc \in Hash /\ snap \in Entry /\ snap.hash = loc
  /\ ~RemotelyChanged(rem, snap)

LInv ==
  /\ Typed
  /\ done.passes = 1 => Settled \/ Noted
  /\ done.passes >= 2 => Settled
  /\ done.passes = 3 => done.kind \in Quiet

-----------------------------------------------------------------------------
(***************************************************************************)
(* The decision.                                                           *)
(***************************************************************************)
LEMMA EntriesAre ==
  /\ \A e \in Entry : e # Absent /\ e.rev \in Nat /\ e.hash \in Hash \cup {NoHash}
  /\ \A r \in Nat, h \in Hash \cup {NoHash} : [rev |-> r, hash |-> h] \in Entry
  /\ \A h \in Hash : h # Absent /\ h # NoHash
BY AbsentIsNoHash DEF Entry

LEMMA RevsAre ==
  ASSUME NEW r \in MaybeEntry, NEW s \in MaybeEntry
  PROVE  /\ Rev(r) \in Nat /\ Rev(s) \in Nat
         /\ NextRev(r, s) \in Nat /\ NextRev(r, s) > Rev(r) /\ NextRev(r, s) > Rev(s)
<1>1. Rev(r) \in Nat /\ Rev(s) \in Nat
  BY EntriesAre DEF MaybeEntry, Rev
<1> QED
  BY <1>1 DEF NextRev, Larger

LEMMA DeadIs ==
  ASSUME dead
  PROVE  /\ Now.kind \in {"purge", "dropBase"}
         /\ loc = Absent /\ rem = Absent => Now.kind = "dropBase"
BY DEF Now, Decide, DecideDead

LEMMA MissingIs ==
  ASSUME Typed, ~dead, loc = Absent
  PROVE  /\ Now.kind \in {"download", "dropBase", "none"}
         /\ Now.kind = "download" => RemotelyChanged(rem, snap) /\ Now.rev = rem.rev
BY DEF Now, Decide, DecideMissing, RemotelyChanged, Rev

LEMMA HeldIs ==
  ASSUME Typed, ~dead, loc # Absent
  PROVE  /\ loc \in Hash
         /\ Now.kind \in {"none", "converged", "merge", "mergeNoBase", "upload", "download"}
         /\ Now.kind \in {"merge", "mergeNoBase", "upload"} => Now.rev = NextRev(rem, snap)
         /\ Now.kind = "download" =>
              /\ ~LocallyChanged(loc, moved, snap) /\ RemotelyChanged(rem, snap)
              /\ Now.rev = rem.rev
         /\ Now.kind = "converged" =>
              \/ rem # Absent /\ rem.hash = loc /\ Now.rev = rem.rev
              \/ /\ snap # Absent /\ Now.rev = snap.rev
                 /\ ~LocallyChanged(loc, moved, snap) /\ ~RemotelyChanged(rem, snap)
<1>1. loc \in Hash
  BY DEF Typed, MaybeHash
<1>2. Now = DecideHeld(loc, moved, rem, snap)
  BY DEF Now, Decide
<1> QED
  BY <1>1, <1>2 DEF DecideHeld, Note, LocallyChanged

LEMMA NowIsNumbered ==
  ASSUME Typed, Now.kind \in {"merge", "mergeNoBase", "upload", "download", "converged"}
  PROVE  Now.rev \in Nat
<1>1. \A e \in {rem, snap} : e # Absent => e.rev \in Nat
  BY EntriesAre DEF Typed, MaybeEntry
<1>2. NextRev(rem, snap) \in Nat
  BY RevsAre DEF Typed
<1>3. ~dead
  BY DeadIs
<1>4. CASE loc = Absent
  BY <1>1, <1>3, <1>4, MissingIs DEF RemotelyChanged
<1>5. CASE loc # Absent
  BY <1>1, <1>2, <1>3, <1>5, HeldIs DEF RemotelyChanged
<1> QED
  BY <1>4, <1>5

-----------------------------------------------------------------------------
(***************************************************************************)
(* The copy, its snapshot entry and the remote agree.                      *)
(***************************************************************************)
LEMMA AgreedIsSettled ==
  ASSUME Typed', ~dead', ~moved', loc' \in Hash,
         snap' # Absent, snap'.hash = loc', rem' # Absent,
         snap'.rev = rem'.rev, rem'.hash \in {loc', NoHash}
  PROVE  Settled'
<1>1. snap' \in Entry /\ snap' = [rev |-> snap'.rev, hash |-> snap'.hash]
  BY DEF Typed, MaybeEntry, Entry
<1>2. loc' # Absent /\ loc' # NoHash
  BY EntriesAre
<1>3. Now' = DecideHeld(loc', moved', rem', snap')
  BY <1>2 DEF Now, Decide
<1>4. /\ ~LocallyChanged(loc', moved', snap') /\ ~RemotelyChanged(rem', snap')
      /\ ~Overwritten(rem', snap')
  <2>1. snap'.rev \in Nat
    BY <1>1, EntriesAre
  <2> QED
    BY <1>2, <2>1 DEF LocallyChanged, RemotelyChanged, Overwritten
<1>5. Now' = Note(loc', moved', snap', snap'.rev)
  BY <1>3, <1>4 DEF DecideHeld
<1> QED
  BY <1>1, <1>5 DEF Settled, Note, Quiet

LEMMA PublishSettles ==
  ASSUME Typed, NEW h \in Hash, Now.rev \in Nat, ~dead, Publish(h), done'.passes \in 0 .. 3
  PROVE  Typed' /\ Settled'
<1>1. loc' = h /\ rem' = [rev |-> Now.rev, hash |-> h] /\ snap' = rem' /\ ~moved' /\ ~dead'
  BY DEF Publish
<1>2. rem' \in Entry /\ rem' # Absent
  BY <1>1, EntriesAre
<1>3. Typed'
  BY <1>1, <1>2 DEF Typed, MaybeHash, MaybeEntry, Publish
<1> QED
  BY <1>1, <1>2, <1>3, AgreedIsSettled

(***************************************************************************)
(* One pass settles, but for a remote it finds overwritten afterwards; and *)
(* two do.                                                                 *)
(***************************************************************************)
LEMMA StepSettles ==
  ASSUME Typed, Next
  PROVE  /\ Typed' /\ done.passes < 3 /\ done'.passes = done.passes + 1
         /\ done'.kind = Now.kind
         /\ Settled' \/ Noted'
         /\ Noted => Settled'
         /\ Settled => Settled'
<1>1. /\ done.passes \in 0 .. 2 /\ done'.passes = done.passes + 1 /\ done'.passes \in 0 .. 3
      /\ done'.kind = Now.kind
  BY DEF Next, Purge, DropBase, Download, Merge, Upload, Converge, Nothing, Carried, Typed
<1>2. CASE Purge
  <2>1. dead
    BY <1>2, MissingIs, HeldIs DEF Purge, Carried
  <2>2. Typed' /\ dead' /\ loc' = Absent /\ rem' = Absent
    BY <1>1, <1>2, <2>1 DEF Purge, Typed, MaybeHash, MaybeEntry
  <2>3. Settled'
    BY <2>2 DEF Settled, Now, Decide, DecideDead, Quiet
  <2> QED
    BY <1>1, <2>2, <2>3
<1>3. CASE DropBase \/ Nothing
  <2>1. Typed' /\ Settled' /\ Settled
    BY <1>1, <1>3 DEF DropBase, Nothing, Carried, Typed, Settled, Now, Quiet
  <2> QED
    BY <1>1, <2>1
<1>4. CASE Download
  <2>1. ~dead /\ RemotelyChanged(rem, snap) /\ Now.rev = rem.rev
    BY <1>4, DeadIs, MissingIs, HeldIs DEF Download, Carried
  <2>2. rem \in Entry /\ rem # Absent /\ rem.rev \in Nat /\ rem.hash \in Hash \cup {NoHash}
    BY <2>1, EntriesAre DEF RemotelyChanged, Typed, MaybeEntry
  <2>3. PICK h \in Hash : /\ loc' = h /\ snap' = [rev |-> rem.rev, hash |-> h]
                          /\ rem.hash \in {h, NoHash}
    BY <1>4, <2>1, <2>2 DEF Download
  <2>4. moved' = FALSE /\ dead' = dead /\ rem' = rem
    BY <1>4, <2>1 DEF Download
  <2>5. snap' \in Entry /\ snap' # Absent
    BY <2>2, <2>3, EntriesAre
  <2>6. Typed'
    BY <1>1, <2>2, <2>3, <2>4, <2>5 DEF Typed, MaybeHash, MaybeEntry
  <2>7. Settled'
    BY <2>1, <2>2, <2>3, <2>4, <2>5, <2>6, AgreedIsSettled
  <2> QED
    BY <1>1, <2>6, <2>7
<1>5. CASE Merge \/ Upload
  <2>1. Now.kind \in {"merge", "mergeNoBase", "upload"}
    BY <1>5 DEF Merge, Upload, Carried
  <2>2. ~dead /\ Now.rev \in Nat /\ loc \in Hash
    BY <2>1, DeadIs, MissingIs, HeldIs, NowIsNumbered
  <2>3. PICK h \in Hash : Publish(h)
    BY <1>5, <2>2, MergedAssumption DEF Merge, Upload
  <2> QED
    BY <1>1, <2>2, <2>3, PublishSettles
<1>6. CASE Converge
  <2>1. ~dead /\ loc # Absent /\ loc \in Hash /\ Now.kind = "converged"
    BY <1>6, DeadIs, MissingIs, HeldIs DEF Converge, Carried
  <2>2. Now.rev \in Nat
    BY <2>1, NowIsNumbered
  <2>3. /\ loc' = loc /\ rem' = rem /\ dead' = dead /\ moved' = FALSE
        /\ snap' = [rev |-> Now.rev, hash |-> loc]
    BY <1>6, <2>1 DEF Converge
  <2>4. snap' \in Entry /\ snap' # Absent
    BY <2>1, <2>2, <2>3, EntriesAre
  <2>5. Typed'
    BY <1>1, <2>3, <2>4 DEF Typed, MaybeEntry
  <2>6. CASE rem # Absent /\ rem.hash = loc /\ Now.rev = rem.rev
    BY <1>1, <2>1, <2>3, <2>4, <2>5, <2>6, AgreedIsSettled DEF Settled, Quiet
  <2>7. CASE /\ ~(rem # Absent /\ rem.hash = loc)
             /\ snap # Absent /\ Now.rev = snap.rev
             /\ ~LocallyChanged(loc, moved, snap) /\ ~RemotelyChanged(rem, snap)
    <3>1. Noted'
      BY <2>1, <2>3, <2>4, <2>7 DEF Noted, RemotelyChanged
    <3>2. ~Noted
      <4> SUFFICES ASSUME Noted PROVE FALSE
        OBVIOUS
      <4>1. snap = [rev |-> snap.rev, hash |-> loc]
        BY DEF Noted, Entry
      <4>2. Now.kind \in {"mergeNoBase", "none"}
        BY <2>1, <2>7, <4>1 DEF Now, Decide, DecideHeld, Note, Noted
      <4> QED
        BY <2>1, <4>2
    <3>3. ~Settled
      BY <2>1 DEF Settled, Quiet
    <3> QED
      BY <1>1, <2>5, <3>1, <3>2, <3>3
  <2>8. ~(rem # Absent /\ rem.hash = loc) =>
          /\ snap # Absent /\ Now.rev = snap.rev
          /\ ~LocallyChanged(loc, moved, snap) /\ ~RemotelyChanged(rem, snap)
    BY <2>1, HeldIs
  <2>9. rem # Absent /\ rem.hash = loc => Now.rev = rem.rev
    BY <2>1 DEF Now, Decide, DecideHeld, Note
  <2> QED
    BY <2>6, <2>7, <2>8, <2>9
<1> QED
  BY <1>2, <1>3, <1>4, <1>5, <1>6 DEF Next

-----------------------------------------------------------------------------
(***************************************************************************)
(* Every start is well typed, and three passes in a row settle.            *)
(***************************************************************************)
LEMMA InitTyped == Init => Typed /\ done.passes = 0
<1>1. \A e \in SomeEntry : e \in MaybeEntry
  BY MergedAssumption DEF SomeEntry, MaybeEntry, Entry
<1> QED
  BY <1>1 DEF Init, Typed

LEMMA StepLInv == LInv /\ [Next]_vars => LInv'
<1>1. ASSUME LInv, Next PROVE LInv'
  <2>1. Typed /\ done.passes \in 0 .. 3
    BY <1>1 DEF LInv, Typed
  <2>2. /\ Typed' /\ done.passes < 3 /\ done'.passes = done.passes + 1
        /\ done'.kind = Now.kind /\ (Settled' \/ Noted')
        /\ (Noted => Settled') /\ (Settled => Settled')
    BY <1>1, <2>1, StepSettles
  <2>3. done'.passes >= 2 => Settled'
    BY <1>1, <2>1, <2>2 DEF LInv
  <2>4. done'.passes = 3 => done'.kind \in Quiet
    BY <1>1, <2>1, <2>2 DEF LInv, Settled
  <2> QED
    BY <2>2, <2>3, <2>4 DEF LInv
<1>2. ASSUME LInv, UNCHANGED vars PROVE LInv'
  BY <1>2 DEF LInv, Typed, Settled, Noted, Now, vars, Quiet
<1> QED
  BY <1>1, <1>2

LEMMA LAlways == Spec => []LInv
<1>1. Init => LInv
  BY InitTyped DEF LInv
<1> QED
  BY <1>1, StepLInv, PTL DEF Spec

(***************************************************************************)
(* Settles: whatever the file, the remote and the snapshot are at the      *)
(* start, the third pass in a row moves no bytes and writes no snapshot    *)
(* (engine.ts, runPass over reconcile.ts).                                 *)
(***************************************************************************)
THEOREM PassesSettle == Spec => []Settles
<1>1. LInv => Settles
  BY DEF LInv, Settles, Quiet
<1> QED
  BY <1>1, LAlways, PTL

(***************************************************************************)
(* DownloadCoversOnlySynced: what a download takes from the disk is what   *)
(* the last sync knew, by its hash or, where an entry has none, by its     *)
(* mtime and size.                                                         *)
(***************************************************************************)
THEOREM DownloadsCoverSynced == Spec => DownloadCoversOnlySynced
<1>1. LInv /\ [Next]_vars =>
        [Download /\ loc # Absent
           => snap # Absent /\ (snap.hash = loc \/ (snap.hash = NoHash /\ ~moved))]_vars
  <2> SUFFICES ASSUME LInv, Download, loc # Absent
               PROVE  snap # Absent /\ (snap.hash = loc \/ (snap.hash = NoHash /\ ~moved))
    OBVIOUS
  <2>1. Typed /\ ~dead /\ Now.kind = "download"
    BY DeadIs DEF LInv, Download, Carried
  <2>2. ~LocallyChanged(loc, moved, snap)
    BY <2>1, HeldIs
  <2> QED
    BY <2>2 DEF LocallyChanged
<1> QED
  BY <1>1, LAlways, PTL DEF Spec, DownloadCoversOnlySynced
=============================================================================
