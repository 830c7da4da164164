-------------------------- MODULE DeletionsProofs --------------------------
(***************************************************************************)
(* Theorems of Deletions, for any devices, marks and bounds: it is well    *)
(* typed, and no mark of a book's present life goes from everywhere, but   *)
(* for the named windows.                                                  *)
(***************************************************************************)
EXTENDS Deletions, FiniteSetTheorems, TLAPS

\* The log holds events, the file marks.
Of(p) == IF p = "log" THEN SUBSET Event ELSE SUBSET Mark
BytesOf(p) == Of(p) \cup {Absent}
EntryOf(p) == [rev : 0 .. MaxRev, hash : Of(p)] \cup {Absent}
PublishedOf(p) == [rev : 0 .. MaxRev, hash : Of(p), bytes : Of(p)] \cup {Absent}

\* Only the book's file is purged, and an upload knows what it scanned.
ItemOf(p) ==
  {i \in Item :
     /\ i.hash \in BytesOf(p)
     /\ i.kind = "upload" => i.hash # Absent
     /\ i.kind \in {"purge", "unlist"} => p = "file"}

Files == {f \in [Path -> Bytes] : \A p \in Path : f[p] \in BytesOf(p)}
Entries == {f \in [Path -> Entry] : \A p \in Path : f[p] \in EntryOf(p)}
Publications == {f \in [Path -> Published] : \A p \in Path : f[p] \in PublishedOf(p)}
Plans == {f \in [Path -> Item] : \A p \in Path : f[p] \in ItemOf(p)}
LawfulPass ==
  {x \in Pass : /\ x.listed \in Entries /\ x.plan \in Plans
                /\ x.pulls => x.plan["log"].kind \in {"download", "merge"}}

Typed ==
  /\ disk \in [Device -> Files] /\ snap \in [Device -> Entries]
  /\ remote \in Publications /\ pass \in [Device -> LawfulPass]
  /\ clearing \in [Device -> BOOLEAN] /\ trash \subseteq Mark
  /\ written \in [Mark -> (0 .. MaxEvents) \cup {Absent}] /\ events \subseteq Event
  /\ windows \subseteq Windows /\ faults \in 0 .. MaxFaults

\* The clock is the number of events, and nothing is dated after it.
Clock ==
  /\ IsFiniteSet(events) /\ Cardinality(events) <= MaxEvents
  /\ \A e \in events : e.at <= Cardinality(events)
  /\ \A m \in Mark : written[m] # Absent => written[m] <= Cardinality(events)

-----------------------------------------------------------------------------
(***************************************************************************)
(* Values.                                                                 *)
(***************************************************************************)
LEMMA Distinct ==
  /\ Author \in [Mark -> Device] /\ MaxEvents \in Nat /\ MaxRev \in Nat /\ MaxFaults \in Nat
  /\ MaxRev >= 2
  /\ Absent \notin Nat /\ Absent # NoHash
  /\ \A p \in Path : \A c \in Of(p) : c # Absent /\ c # NoHash /\ c \in Content
  /\ \A p \in Path : /\ Absent \notin [rev : 0 .. MaxRev, hash : Of(p)]
                     /\ Absent \notin [rev : 0 .. MaxRev, hash : Of(p), bytes : Of(p)]
<1>1. \A p \in Path : \A c \in Of(p) : c \in Content
  BY DEF Of, Content
<1>2. \A p \in Path : /\ Absent \notin [rev : 0 .. MaxRev, hash : Of(p)]
                      /\ Absent \notin [rev : 0 .. MaxRev, hash : Of(p), bytes : Of(p)]
  BY <1>1, DeletionsAssumption
<1> QED
  BY <1>1, <1>2, DeletionsAssumption

LEMMA PathsAre == Path = {"log", "file"} /\ "log" \in Path /\ "file" \in Path
BY DEF Path

LEMMA BytesIn ==
  ASSUME NEW p \in Path
  PROVE  /\ BytesOf(p) \subseteq Bytes /\ EntryOf(p) \subseteq Entry
         /\ PublishedOf(p) \subseteq Published /\ Absent \in BytesOf(p) /\ Absent \in EntryOf(p)
         /\ Absent \in PublishedOf(p) /\ {} \in Of(p)
         /\ \A b, c \in Of(p) : b \cup c \in Of(p)
<1>1. Of(p) \subseteq Content
  BY Distinct
<1>2. {} \in Of(p) /\ \A b, c \in Of(p) : b \cup c \in Of(p)
  BY DEF Of
<1> QED
  BY <1>1, <1>2 DEF BytesOf, EntryOf, PublishedOf, Bytes, Entry, Published

LEMMA NothingIs == ASSUME NEW p \in Path PROVE Nothing \in ItemOf(p)
BY DeletionsAssumption DEF Nothing, ItemOf, Item, Kinds, BytesOf, Bytes

LEMMA IdleIs ==
  /\ Idle \in LawfulPass /\ Idle.pulls = FALSE
  /\ \A p \in Path : Idle.plan[p] = Nothing /\ Idle.listed[p] = Absent
  /\ Idle.plan \in Plans
<1> DEFINE none == [p \in Path |-> Absent]
           rest == [p \in Path |-> Nothing]
<1>1. none \in Entries /\ none \in [Path -> Entry]
  BY BytesIn DEF Entries
<1>2. rest \in Plans /\ rest \in [Path -> Item]
  BY NothingIs DEF Plans, ItemOf
<1>3. Idle = [pulls |-> FALSE, listed |-> none, plan |-> rest]
  BY DEF Idle
<1>4. \A p \in Path : none[p] = Absent /\ rest[p] = Nothing
  OBVIOUS
<1> HIDE DEF none, rest
<1> QED
  BY <1>1, <1>2, <1>3, <1>4 DEF LawfulPass, Pass

-----------------------------------------------------------------------------
(***************************************************************************)
(* Functions of a device and a path, changed at one place.                 *)
(***************************************************************************)
LEMMA DiskPut ==
  ASSUME NEW f \in [Device -> Files], NEW d \in Device, NEW p \in Path, NEW v \in BytesOf(p)
  PROVE  /\ [f EXCEPT ![d][p] = v] \in [Device -> Files]
         /\ \A e \in Device, q \in Path :
              [f EXCEPT ![d][p] = v][e][q] = IF e = d /\ q = p THEN v ELSE f[e][q]
<1>1. f[d] \in [Path -> Bytes] /\ v \in Bytes
  BY BytesIn DEF Files
<1>2. [f[d] EXCEPT ![p] = v] \in Files
  BY <1>1 DEF Files
<1>3. [f EXCEPT ![d][p] = v] = [f EXCEPT ![d] = [f[d] EXCEPT ![p] = v]]
  BY Zenon
<1> QED
  BY <1>1, <1>2, <1>3

LEMMA SnapPut ==
  ASSUME NEW f \in [Device -> Entries], NEW d \in Device, NEW p \in Path, NEW v \in EntryOf(p)
  PROVE  /\ [f EXCEPT ![d][p] = v] \in [Device -> Entries]
         /\ \A e \in Device, q \in Path :
              [f EXCEPT ![d][p] = v][e][q] = IF e = d /\ q = p THEN v ELSE f[e][q]
<1>1. f[d] \in [Path -> Entry] /\ v \in Entry
  BY BytesIn DEF Entries
<1>2. [f[d] EXCEPT ![p] = v] \in Entries
  BY <1>1 DEF Entries
<1>3. [f EXCEPT ![d][p] = v] = [f EXCEPT ![d] = [f[d] EXCEPT ![p] = v]]
  BY Zenon
<1> QED
  BY <1>1, <1>2, <1>3

LEMMA RemotePut ==
  ASSUME NEW f \in Publications, NEW p \in Path, NEW v \in PublishedOf(p)
  PROVE  /\ [f EXCEPT ![p] = v] \in Publications
         /\ \A q \in Path : [f EXCEPT ![p] = v][q] = IF q = p THEN v ELSE f[q]
<1>1. f \in [Path -> Published] /\ v \in Published
  BY BytesIn DEF Publications
<1> QED
  BY <1>1 DEF Publications

LEMMA PlanPut ==
  ASSUME NEW f \in Plans, NEW p \in Path, NEW v \in ItemOf(p)
  PROVE  /\ [f EXCEPT ![p] = v] \in Plans
         /\ \A q \in Path : [f EXCEPT ![p] = v][q] = IF q = p THEN v ELSE f[q]
<1>1. f \in [Path -> Item] /\ v \in Item
  BY DEF Plans, ItemOf
<1> QED
  BY <1>1 DEF Plans

\* A pass with nothing left is idle, and forgets its listing.
GoesOn(x, listed, plan) ==
  \A p \in Path : /\ x.plan[p] = plan[p] /\ x.listed[p] \in {listed[p], Absent}
                  /\ x.listed[p] = Absent /\ listed[p] # Absent => x.plan[p] = Nothing

LEMMA WorkingIs ==
  ASSUME NEW listed \in Entries, NEW plan \in Plans
  PROVE  Working(listed, plan) \in LawfulPass /\ GoesOn(Working(listed, plan), listed, plan)
<1>1. listed \in [Path -> Entry] /\ plan \in [Path -> Item]
  BY DEF Entries, Plans
<1>2. CASE \E p \in Path : plan[p] # Nothing
  <2>1. Working(listed, plan) = [pulls |-> FALSE, listed |-> listed, plan |-> plan]
    BY <1>2 DEF Working
  <2> QED
    BY <1>1, <2>1 DEF LawfulPass, Pass, GoesOn
<1>3. CASE ~\E p \in Path : plan[p] # Nothing
  BY <1>3, IdleIs DEF Working, GoesOn
<1> QED
  BY <1>2, <1>3

-----------------------------------------------------------------------------
(***************************************************************************)
(* What a pass plans, from what it has scanned, listed and recorded.       *)
(***************************************************************************)
Above(listed, last) == R!NextRev(listed, last)

Sound(loc, listed, last, kind, rev, hash) ==
  /\ kind = "converged" =>
       /\ loc # Absent /\ hash = loc
       /\ \/ listed # Absent /\ listed.hash = loc /\ rev = listed.rev
          \/ last # Absent /\ last.hash = loc /\ rev = last.rev
  /\ kind = "download" =>
       /\ listed # Absent /\ rev = listed.rev /\ (last # Absent => last.rev < listed.rev)
       /\ loc = Absent \/ (last # Absent /\ loc = last.hash)
  /\ kind = "merge" => loc # Absent /\ listed # Absent /\ rev = Above(listed, last)
  /\ kind = "upload" =>
       /\ loc # Absent /\ hash = loc /\ rev = Above(listed, last)
       /\ listed # Absent => last # Absent /\ listed.rev <= last.rev

LEMMA AboveIs ==
  ASSUME NEW p \in Path, NEW listed \in EntryOf(p), NEW last \in EntryOf(p)
  PROVE  /\ Above(listed, last) \in Nat /\ Above(listed, last) >= 1
         /\ listed # Absent => Above(listed, last) > listed.rev
         /\ last # Absent => Above(listed, last) > last.rev
         /\ \/ Above(listed, last) = 1 /\ listed = Absent /\ last = Absent
            \/ listed # Absent /\ Above(listed, last) = listed.rev + 1
            \/ last # Absent /\ Above(listed, last) = last.rev + 1
<1>1. /\ listed # Absent => listed.rev \in Nat
      /\ last # Absent => last.rev \in Nat
  BY Distinct DEF EntryOf
<1>2. /\ R!Rev(listed) = IF listed = Absent THEN 0 ELSE listed.rev
      /\ R!Rev(last) = IF last = Absent THEN 0 ELSE last.rev
  BY DEF R!Rev
<1>3. Above(listed, last) = R!Larger(R!Rev(listed), R!Rev(last)) + 1
  BY DEF Above, R!NextRev
<1> QED
  BY <1>1, <1>2, <1>3 DEF R!Larger

LEMMA DecisionIs ==
  ASSUME NEW p \in Path, NEW loc \in BytesOf(p), NEW listed \in EntryOf(p),
         NEW last \in EntryOf(p), NEW dead \in BOOLEAN
  PROVE  LET moved == last = Absent \/ loc # last.hash
             plan == R!Decide(loc, moved, listed, last, dead)
         IN /\ plan.kind \in {"purge", "dropBase", "download", "merge", "mergeNoBase",
                              "upload", "converged", "none"}
            /\ plan.kind = "purge" => dead
            /\ plan.rev \in Nat
            /\ Sound(loc, listed, last, IF plan.kind = "mergeNoBase" THEN "merge" ELSE plan.kind,
                     plan.rev, loc)
<1> DEFINE moved == last = Absent \/ loc # last.hash
           plan == R!Decide(loc, moved, listed, last, dead)
           next == R!NextRev(listed, last)
<1>1. /\ listed # Absent => listed.rev \in Nat /\ listed.hash \in Of(p)
      /\ last # Absent => last.rev \in Nat /\ last.hash \in Of(p) /\ last.hash # NoHash
      /\ loc # Absent => loc \in Of(p)
      /\ R!Rev(listed) \in Nat /\ next \in Nat
  BY Distinct, AboveIs DEF EntryOf, BytesOf, R!Rev, Above
<1> HIDE DEF next
<1>2. R!LocallyChanged(loc, moved, last) <=> last = Absent \/ loc # last.hash
  BY <1>1 DEF R!LocallyChanged
<1>3. R!RemotelyChanged(listed, last) <=>
        listed # Absent /\ (last = Absent \/ listed.rev > last.rev)
  BY DEF R!RemotelyChanged
<1>4. CASE dead
  <2>1. plan.kind \in {"purge", "dropBase"} /\ plan.rev = R!Rev(listed)
    BY <1>4 DEF R!Decide, R!DecideDead
  <2> QED
    BY <1>1, <1>4, <2>1 DEF Sound
<1>5. CASE ~dead /\ loc = Absent
  <2>1. plan = R!DecideMissing(listed, last)
    BY <1>5 DEF R!Decide
  <2>2. /\ plan.kind \in {"download", "dropBase", "none"} /\ plan.rev = R!Rev(listed)
        /\ plan.kind = "download" => R!RemotelyChanged(listed, last)
    BY <2>1 DEF R!DecideMissing
  <2> QED
    BY <1>1, <1>3, <1>5, <2>2 DEF Sound, R!Rev
<1>6. CASE ~dead /\ loc # Absent
  <2>1. plan = R!DecideHeld(loc, moved, listed, last)
    BY <1>6 DEF R!Decide
  <2>2. CASE listed # Absent /\ listed.hash = loc
    <3>1. plan.kind \in {"none", "converged"} /\ plan.rev = listed.rev
      BY <2>1, <2>2 DEF R!DecideHeld, R!Note
    <3> QED
      BY <1>1, <1>6, <2>2, <3>1 DEF Sound
  <2>3. CASE ~(listed # Absent /\ listed.hash = loc) /\ R!Overwritten(listed, last)
    <3>1. plan.kind = "mergeNoBase" /\ plan.rev = next
      BY <2>1, <2>3 DEF R!DecideHeld, next
    <3>2. listed # Absent
      BY <2>3 DEF R!Overwritten
    <3> QED
      BY <1>1, <1>6, <3>1, <3>2 DEF Sound, Above, next
  <2>4. CASE ~(listed # Absent /\ listed.hash = loc) /\ ~R!Overwritten(listed, last)
    <3>1. CASE R!LocallyChanged(loc, moved, last) /\ R!RemotelyChanged(listed, last)
      <4>1. plan.kind = "merge" /\ plan.rev = next
        BY <2>1, <2>4, <3>1 DEF R!DecideHeld, next
      <4> QED
        BY <1>1, <1>3, <1>6, <3>1, <4>1 DEF Sound, Above, next
    <3>2. CASE R!LocallyChanged(loc, moved, last) /\ ~R!RemotelyChanged(listed, last)
      <4>1. plan.kind = "upload" /\ plan.rev = next
        BY <2>1, <2>4, <3>2 DEF R!DecideHeld, next
      <4>2. listed # Absent => last # Absent /\ listed.rev <= last.rev
        BY <1>1, <1>3, <3>2
      <4> QED
        BY <1>1, <1>6, <4>1, <4>2 DEF Sound, Above, next
    <3>3. CASE ~R!LocallyChanged(loc, moved, last) /\ R!RemotelyChanged(listed, last)
      <4>1. plan.kind = "download" /\ plan.rev = listed.rev
        BY <2>1, <2>4, <3>3 DEF R!DecideHeld
      <4> QED
        BY <1>1, <1>2, <1>3, <1>6, <3>3, <4>1 DEF Sound
    <3>4. CASE ~R!LocallyChanged(loc, moved, last) /\ ~R!RemotelyChanged(listed, last)
      <4>1. plan.kind \in {"none", "converged"} /\ plan.rev = last.rev
        BY <2>1, <2>4, <3>4 DEF R!DecideHeld, R!Note
      <4> QED
        BY <1>1, <1>2, <1>6, <3>4, <4>1 DEF Sound
    <3> QED
      BY <3>1, <3>2, <3>3, <3>4
  <2> QED
    BY <2>2, <2>3, <2>4
<1> HIDE DEF plan
<1>7. plan.kind \in {"purge", "dropBase", "download", "merge", "mergeNoBase",
                     "upload", "converged", "none"} /\ (plan.kind = "purge" => dead)
  <2>1. CASE dead
    BY <1>4, <2>1 DEF R!Decide, R!DecideDead, plan
  <2>2. CASE ~dead /\ loc = Absent
    BY <2>2 DEF R!Decide, R!DecideMissing, plan
  <2>3. CASE ~dead /\ loc # Absent
    BY <2>3 DEF R!Decide, R!DecideHeld, R!Note, plan
  <2> QED
    BY <2>1, <2>2, <2>3
<1> QED
  BY <1>4, <1>5, <1>6, <1>7 DEF plan

PlanKinds == {"none", "purge", "dropBase", "download", "merge", "upload", "converged"}

LEMMA DecidedIs ==
  ASSUME NEW p \in Path, NEW loc \in BytesOf(p), NEW listed \in EntryOf(p),
         NEW last \in EntryOf(p), NEW dead \in BOOLEAN
  PROVE  LET i == Decided(loc, listed, last, dead) IN
         /\ i \in [kind : PlanKinds, rev : Nat, hash : BytesOf(p)]
         /\ i.kind = "purge" => dead
         /\ Sound(loc, listed, last, i.kind, i.rev, i.hash)
<1> DEFINE moved == last = Absent \/ loc # last.hash
           plan == R!Decide(loc, moved, listed, last, dead)
           i == Decided(loc, listed, last, dead)
<1>1. /\ plan.kind \in {"purge", "dropBase", "download", "merge", "mergeNoBase",
                        "upload", "converged", "none"}
      /\ plan.kind = "purge" => dead
      /\ plan.rev \in Nat
      /\ Sound(loc, listed, last, IF plan.kind = "mergeNoBase" THEN "merge" ELSE plan.kind,
               plan.rev, loc)
  BY DecisionIs
<1>2. i = [kind |-> IF plan.kind = "mergeNoBase" THEN "merge" ELSE plan.kind,
           rev |-> plan.rev,
           hash |-> IF plan.kind \in {"upload", "converged"} THEN loc ELSE Absent]
  BY DEF Decided
<1>3. Absent \in BytesOf(p)
  BY BytesIn
<1> HIDE DEF plan, i
<1> QED
  BY <1>1, <1>2, <1>3 DEF Sound, PlanKinds, i

LEMMA BoundedItem ==
  ASSUME NEW H, Absent \in H, MaxRev \in Nat
  PROVE  /\ Nothing \in [kind : PlanKinds, rev : Nat, hash : H]
         /\ \A x \in [kind : PlanKinds, rev : Nat, hash : H] :
              x.rev <= MaxRev => x \in [kind : PlanKinds, rev : 0 .. MaxRev, hash : H]
<1>1. Nothing \in [kind : PlanKinds, rev : Nat, hash : H]
  BY DEF Nothing, PlanKinds
<1>2. ASSUME NEW x \in [kind : PlanKinds, rev : Nat, hash : H], x.rev <= MaxRev
      PROVE  x \in [kind : PlanKinds, rev : 0 .. MaxRev, hash : H]
  BY <1>2
<1> QED
  BY <1>1, <1>2

\* What a device has to do about a path, and its entry, when the plan is made.
LEMMA PlannedIs ==
  ASSUME NEW files \in Files, NEW entries \in Entries, NEW listed \in Entries,
         Within(Planned(files, entries, listed))
  PROVE  LET plan == Planned(files, entries, listed) IN
         /\ Rest(plan) \in Plans /\ Noted(entries, plan) \in Entries
         /\ \A p \in Path :
              /\ Sound(files[p], listed[p], entries[p], Rest(plan)[p].kind, Rest(plan)[p].rev,
                       Rest(plan)[p].hash)
              /\ Rest(plan)[p].kind # "unlist"
              /\ \/ Noted(entries, plan)[p] = entries[p]
                 \/ /\ Noted(entries, plan)[p] = listed[p] /\ listed[p] # Absent
                    /\ listed[p].hash = files[p] /\ Rest(plan)[p] = Nothing
<1> DEFINE plan == Planned(files, entries, listed)
<1>1. \A p \in Path : /\ files[p] \in BytesOf(p) /\ listed[p] \in EntryOf(p)
                      /\ entries[p] \in EntryOf(p)
  BY DEF Files, Entries
<1>2. ASSUME NEW p \in Path, plan[p] # Nothing
      PROVE  /\ plan[p] \in [kind : PlanKinds, rev : Nat, hash : BytesOf(p)]
             /\ plan[p].kind = "purge" => p = "file"
             /\ Sound(files[p], listed[p], entries[p], plan[p].kind, plan[p].rev, plan[p].hash)
  <2> DEFINE dead == p = "file" /\ IsDeleted(files["log"])
  <2>1. dead \in BOOLEAN /\ (dead => p = "file")
    BY DEF IsDeleted
  <2>2. plan[p] = Decided(files[p], listed[p], entries[p], dead)
    BY <1>2 DEF Planned
  <2> HIDE DEF dead, plan
  <2> QED
    BY <1>1, <2>1, <2>2, DecidedIs
<1>3. \A p \in Path : plan[p].rev <= MaxRev
  BY DEF Within
<1> HIDE DEF plan
<1>4. \A p \in Path : Nothing.kind = "none" /\ Sound(files[p], listed[p], entries[p], "none",
                                                   Nothing.rev, Nothing.hash)
  BY DEF Nothing, Sound
<1>5. ASSUME NEW p \in Path
      PROVE  plan[p] \in [kind : PlanKinds, rev : 0 .. MaxRev, hash : BytesOf(p)]
  <2>1. MaxRev \in Nat /\ Absent \in BytesOf(p)
    BY Distinct, BytesIn
  <2>2. Nothing \in [kind : PlanKinds, rev : Nat, hash : BytesOf(p)]
    BY <2>1, BoundedItem
  <2>3. plan[p] \in [kind : PlanKinds, rev : Nat, hash : BytesOf(p)] /\ plan[p].rev <= MaxRev
    BY <1>2, <1>3, <2>2
  <2> QED
    BY <2>1, <2>3, BoundedItem
<1>6. \A p \in Path : /\ plan[p].kind = "purge" => p = "file"
                      /\ Sound(files[p], listed[p], entries[p], plan[p].kind, plan[p].rev, plan[p].hash)
  BY <1>2, <1>4
<1>7. ASSUME NEW p \in Path
      PROVE  /\ Rest(plan)[p] = Nothing \/ Rest(plan)[p] = plan[p]
             /\ Rest(plan)[p] \in ItemOf(p) /\ Rest(plan)[p].kind # "unlist"
  <2>1. \/ Rest(plan)[p] = Nothing
        \/ Rest(plan)[p] = plan[p] /\ plan[p].kind \notin {"converged", "dropBase"}
    BY DEF Rest
  <2>2. CASE Rest(plan)[p] = Nothing
    BY <2>2, NothingIs DEF Nothing
  <2>3. CASE Rest(plan)[p] = plan[p] /\ plan[p].kind \notin {"converged", "dropBase"}
    <3>1. plan[p] \in Item
      BY <1>5, <2>3, BytesIn DEF Item, Kinds, PlanKinds
    <3> QED
      BY <1>5, <1>6, <2>3, <3>1 DEF ItemOf, PlanKinds, Sound
  <2> QED
    BY <2>1, <2>2, <2>3
<1>8. ASSUME NEW p \in Path
      PROVE  /\ Noted(entries, plan)[p] \in EntryOf(p)
             /\ \/ Noted(entries, plan)[p] = entries[p]
                \/ /\ Noted(entries, plan)[p] = listed[p] /\ listed[p] # Absent
                   /\ listed[p].hash = files[p] /\ Rest(plan)[p] = Nothing
  <2>1. CASE plan[p].kind = "converged"
    <3>1. Noted(entries, plan)[p] = [rev |-> plan[p].rev, hash |-> plan[p].hash]
      BY <2>1 DEF Noted
    <3>2. \A x \in {listed[p], entries[p]} : x # Absent => x = [rev |-> x.rev, hash |-> x.hash]
      BY <1>1 DEF EntryOf
    <3>3. Rest(plan)[p] = Nothing
      BY <2>1 DEF Rest
    <3> QED
      BY <1>1, <1>6, <2>1, <3>1, <3>2, <3>3 DEF Sound
  <2>2. CASE plan[p].kind # "converged"
    BY <1>1, <2>2 DEF Noted
  <2> QED
    BY <2>1, <2>2
<1>9. Rest(plan) \in Plans
  BY <1>7 DEF Rest, Plans, ItemOf
<1>10. Noted(entries, plan) \in Entries
  BY <1>8, BytesIn DEF Noted, Entries
<1> QED
  BY <1>4, <1>6, <1>7, <1>8, <1>9, <1>10 DEF plan

-----------------------------------------------------------------------------
(***************************************************************************)
(* The book's file: its copy, entry, listing and item on a device, and its *)
(* copy in the remote.                                                     *)
(***************************************************************************)
Copy(d) == disk[d]["file"]
Last(d) == snap[d]["file"]
Seen(d) == pass[d].listed["file"]
Work(d) == pass[d].plan["file"]
There == remote["file"]

Same(d) ==
  Copy(d)' = Copy(d) /\ Last(d)' = Last(d) /\ Seen(d)' = Seen(d) /\ Work(d)' = Work(d)
Others(d) == \A e \in Device : e # d => Same(e)

\* What a plan over a listing does about the file.
PlansFile(d, listed) ==
  /\ UNCHANGED There /\ Others(d) /\ Copy(d)' = Copy(d)
  /\ Seen(d)' \in {listed, Absent} /\ Work(d)'.kind # "unlist"
  /\ Seen(d)' = Absent /\ listed # Absent => Work(d)' = Nothing
  /\ Sound(Copy(d), listed, Last(d), Work(d)'.kind, Work(d)'.rev, Work(d)'.hash)
  /\ \/ Last(d)' = Last(d)
     \/ /\ Last(d)' = listed /\ listed # Absent
        /\ listed.hash = Copy(d) /\ Work(d)' = Nothing

\* What a pass takes up it has planned from what it listed.
FromPlan(d) ==
  /\ Work(d).kind = "download" =>
       /\ Seen(d) # Absent /\ Work(d).rev = Seen(d).rev
       /\ Last(d) # Absent => Last(d).rev < Seen(d).rev
  /\ Work(d).kind = "merge" => Seen(d) # Absent /\ Work(d).rev = Above(Seen(d), Last(d))
  /\ Work(d).kind = "upload" =>
       /\ Work(d).rev = Above(Seen(d), Last(d))
       /\ Seen(d) # Absent => Last(d) # Absent /\ Seen(d).rev <= Last(d).rev

LEMMA FileTyped ==
  ASSUME Typed, NEW d \in Device
  PROVE  /\ Copy(d) \in (SUBSET Mark) \cup {Absent}
         /\ Last(d) \in EntryOf("file") /\ Seen(d) \in EntryOf("file")
         /\ Work(d) \in ItemOf("file") /\ There \in PublishedOf("file")
<1>1. \A p \in Path : /\ disk[d][p] \in BytesOf(p) /\ snap[d][p] \in EntryOf(p)
                      /\ pass[d].listed[p] \in EntryOf(p) /\ pass[d].plan[p] \in ItemOf(p)
                      /\ remote[p] \in PublishedOf(p)
  BY DEF Typed, Files, Entries, LawfulPass, Plans, Publications
<1>2. BytesOf("file") = (SUBSET Mark) \cup {Absent}
  BY DEF BytesOf, Of
<1> QED
  BY <1>1, <1>2, PathsAre DEF Copy, Last, Seen, Work, There

LEMMA ListingIs ==
  ASSUME Typed
  PROVE  /\ Listing \in Entries
         /\ \A p \in Path : Listing[p] = IF remote[p] = Absent THEN Absent
                                         ELSE [rev |-> remote[p].rev, hash |-> remote[p].hash]
<1>1. \A p \in Path : Listing[p] = IF remote[p] = Absent THEN Absent
                                   ELSE [rev |-> remote[p].rev, hash |-> remote[p].hash]
  BY DEF Listing, Lists
<1>2. \A p \in Path : remote[p] \in PublishedOf(p)
  BY DEF Typed, Publications
<1>3. ASSUME NEW p \in Path PROVE Listing[p] \in EntryOf(p)
  <2>1. CASE remote[p] = Absent
    BY <1>1, <2>1 DEF EntryOf
  <2>2. CASE remote[p] # Absent
    <3>1. remote[p].rev \in 0 .. MaxRev /\ remote[p].hash \in Of(p)
      BY <1>2, <2>2 DEF PublishedOf
    <3>2. Listing[p] = [rev |-> remote[p].rev, hash |-> remote[p].hash]
      BY <1>1, <2>2
    <3> QED
      BY <3>1, <3>2 DEF EntryOf
  <2> QED
    BY <2>1, <2>2
<1> QED
  BY <1>1, <1>3, BytesIn DEF Listing, Entries

\* A pass goes on with another plan over its listing.
LEMMA PassPut ==
  ASSUME Typed, NEW d \in Device, NEW listed \in Entries, NEW plan \in Plans,
         pass' = [pass EXCEPT ![d] = Working(listed, plan)]
  PROVE  /\ pass' \in [Device -> LawfulPass]
         /\ \A e \in Device : e # d => pass'[e] = pass[e]
         /\ GoesOn(pass'[d], listed, plan)
<1>1. Working(listed, plan) \in LawfulPass
  BY WorkingIs
<1>2. /\ pass'[d] = Working(listed, plan) /\ pass' \in [Device -> LawfulPass]
      /\ \A e \in Device : e # d => pass'[e] = pass[e]
  BY <1>1 DEF Typed
<1> QED
  BY <1>2, WorkingIs

LEMMA Continued ==
  ASSUME Typed, NEW d \in Device, NEW p \in Path, NEW item \in ItemOf(p), Continues(d, p, item)
  PROVE  /\ pass' \in [Device -> LawfulPass]
         /\ \A e \in Device : e # d => pass'[e] = pass[e]
         /\ GoesOn(pass'[d], pass[d].listed, [pass[d].plan EXCEPT ![p] = item])
         /\ \A q \in Path : pass'[d].plan[q] = IF q = p THEN item ELSE pass[d].plan[q]
<1>1. pass[d].listed \in Entries /\ pass[d].plan \in Plans
  BY DEF Typed, LawfulPass
<1> DEFINE plan == [pass[d].plan EXCEPT ![p] = item]
<1>2. plan \in Plans /\ \A q \in Path : plan[q] = IF q = p THEN item ELSE pass[d].plan[q]
  BY <1>1, PlanPut
<1>3. pass' = [pass EXCEPT ![d] = Working(pass[d].listed, plan)]
  BY DEF Continues, Typed
<1> HIDE DEF plan
<1>4. /\ pass' \in [Device -> LawfulPass]
      /\ \A e \in Device : e # d => pass'[e] = pass[e]
      /\ GoesOn(pass'[d], pass[d].listed, plan)
  BY <1>1, <1>2, <1>3, PassPut
<1>5. \A q \in Path : pass'[d].plan[q] = plan[q]
  BY <1>4 DEF GoesOn
<1> QED
  BY <1>2, <1>4, <1>5 DEF plan

\* A plan made from the files of now.
LEMMA PlanMade ==
  ASSUME Typed, NEW d \in Device, NEW listed \in Entries, NEW entries \in Entries,
         disk' \in [Device -> Files], disk'[d]["file"] = disk[d]["file"],
         entries["file"] = snap[d]["file"],
         Within(Planned(disk'[d], entries, listed)),
         pass' = [pass EXCEPT ![d] = Working(listed, Rest(Planned(disk'[d], entries, listed)))],
         snap' = [snap EXCEPT ![d] = Noted(entries, Planned(disk'[d], entries, listed))]
  PROVE  /\ pass' \in [Device -> LawfulPass] /\ snap' \in [Device -> Entries]
         /\ \A e \in Device : e # d => pass'[e] = pass[e] /\ snap'[e] = snap[e]
         /\ Seen(d)' \in {listed["file"], Absent} /\ Work(d)'.kind # "unlist"
         /\ Seen(d)' = Absent /\ listed["file"] # Absent => Work(d)' = Nothing
         /\ Sound(Copy(d), listed["file"], Last(d), Work(d)'.kind, Work(d)'.rev, Work(d)'.hash)
         /\ \/ Last(d)' = Last(d)
            \/ /\ Last(d)' = listed["file"] /\ listed["file"] # Absent
               /\ listed["file"].hash = Copy(d) /\ Work(d)' = Nothing
<1> DEFINE plan == Planned(disk'[d], entries, listed)
<1>1. disk'[d] \in Files
  OBVIOUS
<1>2. /\ Rest(plan) \in Plans /\ Noted(entries, plan) \in Entries
      /\ \A p \in Path :
           /\ Sound(disk'[d][p], listed[p], entries[p], Rest(plan)[p].kind, Rest(plan)[p].rev,
                    Rest(plan)[p].hash)
           /\ Rest(plan)[p].kind # "unlist"
           /\ \/ Noted(entries, plan)[p] = entries[p]
              \/ /\ Noted(entries, plan)[p] = listed[p] /\ listed[p] # Absent
                 /\ listed[p].hash = disk'[d][p] /\ Rest(plan)[p] = Nothing
  BY <1>1, PlannedIs
<1> HIDE DEF plan
<1>3. pass' = [pass EXCEPT ![d] = Working(listed, Rest(plan))]
  BY DEF plan
<1>4. /\ snap'[d] = Noted(entries, plan) /\ snap' \in [Device -> Entries]
      /\ \A e \in Device : e # d => snap'[e] = snap[e]
  BY <1>2 DEF plan, Typed
<1>5. /\ pass' \in [Device -> LawfulPass]
      /\ \A e \in Device : e # d => pass'[e] = pass[e]
      /\ GoesOn(pass'[d], listed, Rest(plan))
  BY <1>2, <1>3, PassPut
<1>6. /\ Work(d)' = Rest(plan)["file"] /\ Seen(d)' \in {listed["file"], Absent}
      /\ Seen(d)' = Absent /\ listed["file"] # Absent => Work(d)' = Nothing
  BY <1>5, PathsAre DEF GoesOn, Seen, Work
<1>7. /\ Sound(Copy(d), listed["file"], Last(d), Rest(plan)["file"].kind,
               Rest(plan)["file"].rev, Rest(plan)["file"].hash)
      /\ Rest(plan)["file"].kind # "unlist"
      /\ \/ Noted(entries, plan)["file"] = Last(d)
         \/ /\ Noted(entries, plan)["file"] = listed["file"] /\ listed["file"] # Absent
            /\ listed["file"].hash = Copy(d) /\ Rest(plan)["file"] = Nothing
  BY <1>2, PathsAre DEF Copy, Last
<1>8. Last(d)' = Noted(entries, plan)["file"]
  BY <1>4 DEF Last
<1> QED
  BY <1>4, <1>5, <1>6, <1>7, <1>8

LEMMA MovedIs ==
  ASSUME Typed, NEW d \in Device, NEW p \in Path, NEW item \in ItemOf(p),
         item.kind \in {"download", "merge", "upload"}
  PROVE  LET moved == Moved(d, p, item) IN
         /\ moved[1] \in BytesOf(p) /\ moved[2] \in EntryOf(p) /\ moved[3] \in PublishedOf(p)
<1>1. /\ disk[d][p] \in BytesOf(p) /\ snap[d][p] \in EntryOf(p) /\ remote[p] \in PublishedOf(p)
      /\ item.rev \in 0 .. MaxRev /\ item.hash \in BytesOf(p)
      /\ item.kind = "upload" => item.hash # Absent
  BY DEF Typed, Files, Entries, Publications, ItemOf, Item
<1>2. Absent \in PublishedOf(p) /\ \A b, c \in Of(p) : b \cup c \in Of(p)
  BY BytesIn
<1>3. CASE item.kind = "download"
  <2>1. Moved(d, p, item) = Downloaded(d, p, item)
    BY <1>3 DEF Moved
  <2> QED
    BY <1>1, <1>2, <2>1 DEF Downloaded, PublishedOf, EntryOf, BytesOf
<1>4. CASE item.kind = "merge"
  <2>1. Moved(d, p, item) = Merged(d, p, item)
    BY <1>4 DEF Moved
  <2>2. CASE remote[p] = Absent \/ disk[d][p] = Absent
    BY <1>1, <2>1, <2>2 DEF Merged
  <2>3. CASE remote[p] # Absent /\ disk[d][p] # Absent
    <3>1. disk[d][p] \in Of(p) /\ remote[p].bytes \in Of(p)
      BY <1>1, <2>3 DEF BytesOf, PublishedOf
    <3>2. disk[d][p] \cup remote[p].bytes \in Of(p)
      BY <1>2, <3>1
    <3> QED
      BY <1>1, <2>1, <2>3, <3>2 DEF Merged, PublishedOf, EntryOf, BytesOf
  <2> QED
    BY <2>2, <2>3
<1>5. CASE item.kind = "upload"
  <2>1. Moved(d, p, item) = Uploaded(d, p, item)
    BY <1>5 DEF Moved
  <2> QED
    BY <1>1, <1>2, <1>5, <2>1 DEF Uploaded, PublishedOf, EntryOf, BytesOf
<1> QED
  BY <1>3, <1>4, <1>5

-----------------------------------------------------------------------------
(***************************************************************************)
(* The steps, for the types, the clock and the book's file.                *)
(***************************************************************************)
Onward == windows \subseteq windows' /\ trash \subseteq trash'
Undated == events' = events /\ written' = written

LEMMA ClockStays == ASSUME Clock, Undated PROVE Clock'
BY DEF Clock, Undated

LEMMA FaultsCount == ASSUME Typed, Fault \/ UNCHANGED faults PROVE faults' \in 0 .. MaxFaults
BY Distinct DEF Typed, Fault

LEMMA WindowsOpen ==
  ASSUME Typed, NEW w \in Windows, NEW condition, Opens(w, condition)
  PROVE  windows \subseteq windows' /\ windows' \subseteq Windows
BY DEF Typed, Opens

\* A file of a device is written.
LEMMA Written ==
  ASSUME Typed, NEW d \in Device, NEW p \in Path, NEW v \in BytesOf(p),
         disk' = [disk EXCEPT ![d][p] = v]
  PROVE  /\ disk' \in [Device -> Files] /\ disk'[d][p] = v
         /\ \A e \in Device : /\ e # d => disk'[e] = disk[e]
                              /\ Copy(e)' = IF e = d /\ p = "file" THEN v ELSE Copy(e)
<1>1. disk \in [Device -> Files]
  BY DEF Typed
<1> DEFINE next == [disk EXCEPT ![d][p] = v]
<1>2. /\ next \in [Device -> Files]
      /\ \A e \in Device, q \in Path : next[e][q] = IF e = d /\ q = p THEN v ELSE disk[e][q]
  <2> DEFINE put(f) == [f EXCEPT ![d][p] = v]
  <2>1. ASSUME NEW f \in [Device -> Files]
        PROVE  /\ put(f) \in [Device -> Files]
               /\ \A e \in Device, q \in Path : put(f)[e][q] = IF e = d /\ q = p THEN v ELSE f[e][q]
    BY DiskPut
  <2> QED
    BY <1>1, <2>1, Zenon
<1>3. \A e \in Device : e # d => disk'[e] = disk[e]
  BY <1>1
<1>4. disk' = next
  OBVIOUS
<1> HIDE DEF next
<1> QED
  BY <1>2, <1>3, <1>4, PathsAre DEF Copy

LEMMA AppendIs ==
  ASSUME Typed, Clock, NEW d \in Device, NEW op \in Op, Append(d, op),
         clearing' \in [Device -> BOOLEAN]
  PROVE  /\ Typed' /\ Clock' /\ Onward /\ written' = written
         /\ UNCHANGED There /\ \A e \in Device : Same(e)
         /\ events' = events \cup {[at |-> Now, op |-> op]} /\ Now > Cardinality(events)
<1> DEFINE line == [at |-> Now, op |-> op]
<1>1. Cardinality(events) \in Nat /\ Now = Cardinality(events) + 1 /\ Now <= MaxEvents
  BY FS_CardinalityType DEF Append, Now, Clock
<1>2. line \in Event
  BY <1>1, Distinct DEF Event
<1>3. /\ disk' = [disk EXCEPT ![d]["log"] = Held(disk[d]["log"]) \cup {line}]
      /\ events' = events \cup {line}
  BY DEF Append, Typed
<1>4. Held(disk[d]["log"]) \cup {line} \in BytesOf("log")
  <2>1. disk[d]["log"] \in BytesOf("log")
    BY PathsAre DEF Typed, Files
  <2> QED
    BY <1>2, <2>1 DEF Held, BytesOf, Of
<1>5. line \notin events
  <2>1. \A e \in events : e.at # Now
    BY <1>1 DEF Clock, Typed, Event
  <2> QED
    BY <2>1
<1>6. IsFiniteSet(events') /\ Cardinality(events') = Cardinality(events) + 1
  BY <1>3, <1>5, FS_AddElement DEF Clock
<1>7. Clock'
  <2>1. \A e \in events : e.at \in Nat /\ e.at <= Cardinality(events)
    BY Distinct DEF Clock, Typed, Event
  <2>2. \A e \in events' : e.at <= Cardinality(events')
    BY <1>1, <1>3, <1>6, <2>1
  <2>3. \A m \in Mark : written[m] # Absent => written[m] \in Nat /\ written[m] <= Cardinality(events)
    BY Distinct DEF Clock, Typed
  <2>4. \A m \in Mark : written'[m] # Absent => written'[m] <= Cardinality(events')
    BY <1>1, <1>6, <2>3 DEF Append
  <2> QED
    BY <1>1, <1>6, <2>2, <2>4 DEF Clock
<1>8. /\ UNCHANGED snap /\ UNCHANGED remote /\ UNCHANGED pass /\ UNCHANGED trash
      /\ UNCHANGED written /\ UNCHANGED windows /\ UNCHANGED faults
  BY DEF Append
<1> HIDE DEF line
<1>9. disk' \in [Device -> Files] /\ \A e \in Device : Copy(e)' = Copy(e)
  BY <1>3, <1>4, Written, PathsAre
<1>10. events' \subseteq Event
  BY <1>2, <1>3 DEF Typed
<1>11. Typed'
  BY <1>8, <1>9, <1>10 DEF Typed
<1>12. UNCHANGED There /\ \A e \in Device : Same(e)
  BY <1>8, <1>9 DEF Same, There, Last, Seen, Work
<1> QED
  BY <1>1, <1>3, <1>7, <1>8, <1>11, <1>12 DEF Onward, line

LEMMA ClearIs ==
  ASSUME Typed, Clock, NEW d \in Device, Clear(d)
  PROVE  /\ Typed' /\ Clock' /\ Onward /\ Undated /\ UNCHANGED There /\ Others(d)
         /\ Last(d)' = Last(d) /\ Seen(d)' = Seen(d) /\ Work(d)' = Work(d)
         /\ \/ Copy(d)' = Copy(d)
            \/ Copy(d)' = Absent /\ (CurrentOf(Copy(d)) # {} => "linger" \in windows')
<1>1. /\ UNCHANGED snap /\ UNCHANGED remote /\ UNCHANGED pass /\ UNCHANGED trash
      /\ UNCHANGED written /\ UNCHANGED events
      /\ clearing' = [clearing EXCEPT ![d] = FALSE]
  BY DEF Clear
<1>2. /\ Clock' /\ Undated /\ clearing' \in [Device -> BOOLEAN]
  BY <1>1, ClockStays DEF Undated, Typed
<1>3. CASE UNCHANGED <<disk, windows>> /\ Fault
  <2>1. Typed'
    BY <1>1, <1>2, <1>3, FaultsCount DEF Typed
  <2> QED
    BY <1>1, <1>2, <1>3, <2>1 DEF Onward, Others, Same, There, Copy, Last, Seen, Work
<1>4. CASE /\ disk' = [disk EXCEPT ![d]["file"] = Absent] /\ UNCHANGED faults
           /\ Opens("linger", CurrentOf(disk[d]["file"]) # {})
  <2>1. /\ disk' \in [Device -> Files]
        /\ \A e \in Device : Copy(e)' = IF e = d THEN Absent ELSE Copy(e)
    BY <1>4, Written, PathsAre, BytesIn
  <2>2. /\ windows \subseteq windows' /\ windows' \subseteq Windows
        /\ CurrentOf(Copy(d)) # {} => "linger" \in windows'
    BY <1>4 DEF Opens, Windows, Typed, Copy
  <2>3. Typed'
    BY <1>1, <1>2, <1>4, <2>1, <2>2 DEF Typed
  <2> QED
    BY <1>1, <1>2, <2>1, <2>2, <2>3 DEF Onward, Others, Same, There, Last, Seen, Work
<1> QED
  BY <1>3, <1>4 DEF Clear

LEMMA MarkIs ==
  ASSUME Typed, Clock, NEW d \in Device, NEW m \in Mark, MarkBook(d, m)
  PROVE  /\ Typed' /\ Clock' /\ Onward /\ events' = events /\ UNCHANGED There /\ Others(d)
         /\ Last(d)' = Last(d) /\ Seen(d)' = Seen(d) /\ Work(d)' = Work(d)
         /\ Copy(d)' = Held(Copy(d)) \cup {m}
         /\ Author[m] = d /\ written[m] = Absent /\ written'[m] # Absent
         /\ \A n \in Mark : n # m => written'[n] = written[n]
<1>1. /\ UNCHANGED snap /\ UNCHANGED remote /\ UNCHANGED pass /\ UNCHANGED trash
      /\ UNCHANGED events /\ UNCHANGED windows /\ UNCHANGED faults /\ UNCHANGED clearing
      /\ disk' = [disk EXCEPT ![d]["file"] = Held(disk[d]["file"]) \cup {m}]
      /\ written' = [written EXCEPT ![m] = Now - 1]
      /\ Author[m] = d /\ written[m] = Absent
  BY DEF MarkBook, Typed
<1>2. Now - 1 = Cardinality(events) /\ Cardinality(events) \in 0 .. MaxEvents
  BY FS_CardinalityType, Distinct DEF Now, Clock
<1>3. /\ written' \in [Mark -> (0 .. MaxEvents) \cup {Absent}]
      /\ written'[m] = Cardinality(events)
      /\ \A n \in Mark : n # m => written'[n] = written[n]
  BY <1>1, <1>2 DEF Typed
<1> DEFINE marked == Held(Copy(d)) \cup {m}
<1>4. marked \in BytesOf("file") /\ disk' = [disk EXCEPT ![d]["file"] = marked]
  BY <1>1, FileTyped DEF Held, BytesOf, Of, Copy
<1> HIDE DEF marked
<1>5. /\ disk' \in [Device -> Files]
      /\ \A e \in Device : Copy(e)' = IF e = d THEN marked ELSE Copy(e)
  BY <1>4, Written, PathsAre
<1>6. Typed'
  BY <1>1, <1>3, <1>5 DEF Typed
<1>7. Clock'
  BY <1>1, <1>2, <1>3 DEF Clock
<1>8. written'[m] # Absent
  BY <1>2, <1>3, Distinct
<1> QED
  BY <1>1, <1>3, <1>5, <1>6, <1>7, <1>8 DEF Onward, Others, Same, There, Last, Seen, Work, marked

-----------------------------------------------------------------------------
(***************************************************************************)
(* The steps of a pass.                                                    *)
(***************************************************************************)
Astray == {"journal", "linger", "over", "race", "restart"}
Clean == windows \cap Astray = {}

\* What every step of a pass leaves as it was, and how its listing goes on.
Passing(d) == Typed' /\ Clock' /\ Undated /\ Onward /\ Others(d)
Listens(d) ==
  /\ Seen(d)' \in {Seen(d), Absent}
  /\ Seen(d)' = Absent /\ Seen(d) # Absent => Work(d)' = Nothing

\* A publication that opens none of the windows.
Harmless(d, moved) ==
  /\ Held(Copy(d)) \subseteq Held(moved[1]) \cup Known(Last(d))
  /\ There = moved[3] \/ Lists("file") = Seen(d)
  /\ There = Absent /\ moved[3] # Absent =>
       \A e \in Device : /\ Last(e) # Absent => ~(moved[3].rev <= Last(e).rev)
                         /\ Seen(e) # Absent => ~(moved[3].rev <= Seen(e).rev)

LEMMA PutsIs ==
  ASSUME Typed, NEW d \in Device, NEW p \in Path, NEW moved,
         moved[1] \in BytesOf(p), moved[3] \in PublishedOf(p), Puts(d, p, moved)
  PROVE  /\ disk' \in [Device -> Files]
         /\ \A e \in Device : Copy(e)' = IF e = d /\ p = "file" THEN moved[1] ELSE Copy(e)
         /\ remote' \in Publications
         /\ There' = IF p = "file" THEN moved[3] ELSE There
         /\ windows \subseteq windows' /\ windows' \subseteq Windows
         /\ p = "file" /\ Clean' => Harmless(d, moved)
<1>1. /\ disk' = [disk EXCEPT ![d][p] = moved[1]] /\ remote' = [remote EXCEPT ![p] = moved[3]]
  BY DEF Puts
<1>2. /\ disk' \in [Device -> Files]
      /\ \A e \in Device : Copy(e)' = IF e = d /\ p = "file" THEN moved[1] ELSE Copy(e)
  <2> DEFINE v == moved[1]
  <2>1. v \in BytesOf(p) /\ disk' = [disk EXCEPT ![d][p] = v]
    BY <1>1
  <2> HIDE DEF v
  <2>2. disk' \in [Device -> Files] /\ disk'[d][p] = v
    BY <2>1, Written
  <2>3. \A e \in Device : Copy(e)' = IF e = d /\ p = "file" THEN v ELSE Copy(e)
    BY <2>1, Written
  <2> QED
    BY <2>2, <2>3 DEF v
<1>3. /\ remote' \in Publications
      /\ \A q \in Path : remote'[q] = IF q = p THEN moved[3] ELSE remote[q]
  <2>1. remote \in [Path -> Published] /\ moved[3] \in Published
    BY BytesIn DEF Typed, Publications
  <2>2. \A q \in Path : remote'[q] = IF q = p THEN moved[3] ELSE remote[q]
    BY <1>1, <2>1
  <2>3. remote' \in [Path -> Published]
    BY <1>1, <2>1
  <2>4. \A q \in Path : remote[q] \in PublishedOf(q)
    BY DEF Typed, Publications
  <2> QED
    BY <2>2, <2>3, <2>4 DEF Publications
<1>4. windows \subseteq windows' /\ windows' \subseteq Windows
  BY DEF Puts, Typed, Windows
<1>5. ASSUME p = "file", Clean' PROVE Harmless(d, moved)
  <2>1. "over" \notin windows' /\ "race" \notin windows' /\ "restart" \notin windows'
    BY <1>5 DEF Clean, Astray
  <2>2. Held(Copy(d)) \subseteq Held(moved[1]) \cup Known(Last(d))
    BY <1>5, <2>1 DEF Puts, Copy, Last
  <2>3. There = moved[3] \/ Lists("file") = Seen(d)
    BY <1>5, <2>1 DEF Puts, There, Seen
  <2>4. There = Absent /\ moved[3] # Absent => ~Passed("file", moved[3].rev)
    BY <1>5, <2>1 DEF Puts, There
  <2>5. ~Passed("file", moved[3].rev) =>
          \A e \in Device : /\ Last(e) # Absent => ~(moved[3].rev <= Last(e).rev)
                            /\ Seen(e) # Absent => ~(moved[3].rev <= Seen(e).rev)
    BY DEF Passed, Last, Seen
  <2> QED
    BY <2>2, <2>3, <2>4, <2>5 DEF Harmless
<1> QED
  BY <1>2, <1>3, <1>4, <1>5, PathsAre DEF There

LEMMA ListAndPullIs ==
  ASSUME Typed, Clock, NEW d \in Device, ListAndPull(d)
  PROVE  /\ Passing(d) /\ UNCHANGED There /\ Copy(d)' = Copy(d) /\ Last(d)' = Last(d)
         /\ Seen(d)' = Lists("file") /\ Work(d)' = Nothing
<1> DEFINE log == Decided(disk[d]["log"], Listing["log"], snap[d]["log"], FALSE)
           plan == [Idle.plan EXCEPT !["log"] = log]
<1>1. /\ UNCHANGED disk /\ UNCHANGED snap /\ UNCHANGED remote /\ UNCHANGED clearing
      /\ UNCHANGED trash /\ UNCHANGED faults /\ UNCHANGED written /\ UNCHANGED events
      /\ UNCHANGED windows
      /\ log.kind \in {"download", "merge"} /\ log.rev <= MaxRev
      /\ pass' = [pass EXCEPT ![d] = [pulls |-> TRUE, listed |-> Listing, plan |-> plan]]
  BY DEF ListAndPull, PullsLog, history
<1>2. log \in ItemOf("log")
  <2>1. /\ disk[d]["log"] \in BytesOf("log") /\ snap[d]["log"] \in EntryOf("log")
        /\ Listing["log"] \in EntryOf("log")
    BY ListingIs, PathsAre DEF Typed, Files, Entries
  <2>2. log \in [kind : PlanKinds, rev : Nat, hash : BytesOf("log")]
    BY <2>1, DecidedIs, PathsAre
  <2>3. log \in [kind : PlanKinds, rev : 0 .. MaxRev, hash : BytesOf("log")]
    BY <1>1, <2>2, BoundedItem, BytesIn, Distinct, PathsAre
  <2> HIDE DEF log
  <2>4. log \in Item
    BY <1>1, <2>3, BytesIn, PathsAre DEF Item, Kinds
  <2> QED
    BY <1>1, <2>3, <2>4 DEF ItemOf
<1> HIDE DEF log
<1>3. plan \in Plans /\ plan["file"] = Nothing /\ plan["log"].kind \in {"download", "merge"}
  BY <1>1, <1>2, IdleIs, PlanPut, PathsAre
<1> HIDE DEF plan
<1>4. [pulls |-> TRUE, listed |-> Listing, plan |-> plan] \in LawfulPass
  <2>1. Listing \in [Path -> Entry] /\ plan \in [Path -> Item]
    BY <1>3, ListingIs DEF Entries, Plans
  <2> QED
    BY <1>3, <2>1, ListingIs DEF LawfulPass, Pass
<1>5. /\ pass' \in [Device -> LawfulPass]
      /\ pass'[d] = [pulls |-> TRUE, listed |-> Listing, plan |-> plan]
      /\ \A e \in Device : e # d => pass'[e] = pass[e]
  BY <1>1, <1>4 DEF Typed
<1>6. Typed'
  BY <1>1, <1>5 DEF Typed
<1>7. Clock' /\ Undated
  BY <1>1, ClockStays DEF Undated
<1>8. Seen(d)' = Lists("file") /\ Work(d)' = Nothing
  BY <1>3, <1>5, PathsAre DEF Seen, Work, Listing
<1> QED
  BY <1>1, <1>5, <1>6, <1>7, <1>8
     DEF Passing, Onward, Others, Same, There, Copy, Last, Seen, Work

LEMMA ListAndPlanIs ==
  ASSUME Typed, Clock, NEW d \in Device, ListAndPlan(d)
  PROVE  Passing(d) /\ PlansFile(d, Lists("file"))
<1> DEFINE plan == Planned(disk[d], snap[d], Listing)
<1>1. /\ UNCHANGED disk /\ UNCHANGED remote /\ UNCHANGED clearing
      /\ UNCHANGED trash /\ UNCHANGED faults /\ UNCHANGED written /\ UNCHANGED events
      /\ UNCHANGED windows /\ Within(plan)
      /\ pass' = [pass EXCEPT ![d] = Working(Listing, Rest(plan))]
      /\ snap' = [snap EXCEPT ![d] = Noted(snap[d], plan)]
  BY DEF ListAndPlan, history, Typed
<1>2. Listing \in Entries /\ snap[d] \in Entries /\ disk' \in [Device -> Files]
  BY <1>1, ListingIs DEF Typed
<1>3. Listing["file"] = Lists("file")
  BY PathsAre DEF Listing
<1>4. /\ pass' \in [Device -> LawfulPass] /\ snap' \in [Device -> Entries]
      /\ \A e \in Device : e # d => pass'[e] = pass[e] /\ snap'[e] = snap[e]
      /\ Seen(d)' \in {Listing["file"], Absent} /\ Work(d)'.kind # "unlist"
      /\ Seen(d)' = Absent /\ Listing["file"] # Absent => Work(d)' = Nothing
      /\ Sound(Copy(d), Listing["file"], Last(d), Work(d)'.kind, Work(d)'.rev, Work(d)'.hash)
      /\ \/ Last(d)' = Last(d)
         \/ /\ Last(d)' = Listing["file"] /\ Listing["file"] # Absent
            /\ Listing["file"].hash = Copy(d) /\ Work(d)' = Nothing
  BY <1>1, <1>2, PlanMade
<1>5. Typed'
  BY <1>1, <1>4 DEF Typed
<1>6. Clock' /\ Undated
  BY <1>1, ClockStays DEF Undated
<1>7. Others(d) /\ UNCHANGED There /\ Copy(d)' = Copy(d)
  BY <1>1, <1>4 DEF Others, Same, There, Copy, Last, Seen, Work
<1> QED
  BY <1>1, <1>3, <1>4, <1>5, <1>6, <1>7 DEF Passing, Onward, PlansFile

LEMMA PullLogFirstIs ==
  ASSUME Typed, Clock, NEW d \in Device, PullLogFirst(d)
  PROVE  Passing(d) /\ PlansFile(d, Seen(d))
<1> DEFINE item == pass[d].plan["log"]
           moved == Moved(d, "log", item)
           After(entries) ==
             \E plan \in {Planned(disk'[d], entries, pass[d].listed)} :
               /\ Within(plan) /\ pass' = [pass EXCEPT ![d] = Working(pass[d].listed, Rest(plan))]
               /\ snap' = [snap EXCEPT ![d] = Noted(entries, plan)]
<1>1. /\ item \in ItemOf("log") /\ pass[d].listed \in Entries /\ snap[d] \in Entries
      /\ item.kind \in {"download", "merge"}
  BY PathsAre DEF PullLogFirst, Typed, LawfulPass, Plans
<1>2. /\ moved[1] \in BytesOf("log") /\ moved[2] \in EntryOf("log")
      /\ moved[3] \in PublishedOf("log")
  BY <1>1, MovedIs, PathsAre
<1>3. /\ UNCHANGED clearing /\ UNCHANGED trash /\ UNCHANGED written /\ UNCHANGED events
      /\ \/ /\ Puts(d, "log", moved) /\ After([snap[d] EXCEPT !["log"] = moved[2]])
            /\ UNCHANGED faults
         \/ /\ Fault /\ UNCHANGED disk /\ UNCHANGED remote /\ After(snap[d])
            /\ Opens("late", TRUE)
  BY DEF PullLogFirst
<1> HIDE DEF moved
<1>4. /\ disk' \in [Device -> Files] /\ remote' \in Publications /\ UNCHANGED There
      /\ \A e \in Device : Copy(e)' = Copy(e)
      /\ windows \subseteq windows' /\ windows' \subseteq Windows /\ faults' \in 0 .. MaxFaults
  <2>1. CASE Puts(d, "log", moved) /\ UNCHANGED faults
    BY <1>2, <2>1, PutsIs, PathsAre, FaultsCount
  <2>2. CASE Fault /\ UNCHANGED disk /\ UNCHANGED remote /\ Opens("late", TRUE)
    <3>1. "late" \in Windows
      BY DEF Windows
    <3> QED
      BY <2>2, <3>1, WindowsOpen, FaultsCount DEF Typed, There, Copy
  <2> QED
    BY <1>3, <2>1, <2>2
<1>5. \E entries \in Entries : entries["file"] = snap[d]["file"] /\ After(entries)
  <2>1. CASE After([snap[d] EXCEPT !["log"] = moved[2]])
    <3>1. snap[d] \in [Path -> Entry] /\ moved[2] \in Entry
      BY <1>1, <1>2, BytesIn, PathsAre DEF Entries
    <3> DEFINE entries == [snap[d] EXCEPT !["log"] = moved[2]]
    <3>2. entries["file"] = snap[d]["file"]
      BY <3>1, PathsAre
    <3>3. entries \in Entries
      BY <1>1, <1>2, <3>1 DEF Entries
    <3> HIDE DEF After
    <3> QED
      BY <2>1, <3>2, <3>3
  <2>2. CASE After(snap[d])
    <3> HIDE DEF After
    <3> QED
      BY <1>1, <2>2
  <2> HIDE DEF After
  <2> QED
    BY <1>3, <2>1, <2>2
<1> DEFINE listed == pass[d].listed
<1>6. \E entries \in Entries :
        /\ entries["file"] = snap[d]["file"] /\ Within(Planned(disk'[d], entries, listed))
        /\ pass' = [pass EXCEPT ![d] = Working(listed, Rest(Planned(disk'[d], entries, listed)))]
        /\ snap' = [snap EXCEPT ![d] = Noted(entries, Planned(disk'[d], entries, listed))]
  BY <1>5, Zenon
<1>7. disk'[d]["file"] = disk[d]["file"]
  BY <1>4 DEF Copy
<1>8. /\ pass' \in [Device -> LawfulPass] /\ snap' \in [Device -> Entries]
      /\ \A e \in Device : e # d => pass'[e] = pass[e] /\ snap'[e] = snap[e]
      /\ Seen(d)' \in {listed["file"], Absent} /\ Work(d)'.kind # "unlist"
      /\ Seen(d)' = Absent /\ listed["file"] # Absent => Work(d)' = Nothing
      /\ Sound(Copy(d), listed["file"], Last(d), Work(d)'.kind, Work(d)'.rev, Work(d)'.hash)
      /\ \/ Last(d)' = Last(d)
         \/ /\ Last(d)' = listed["file"] /\ listed["file"] # Absent
            /\ listed["file"].hash = Copy(d) /\ Work(d)' = Nothing
  <2>1. PICK entries \in Entries :
          /\ entries["file"] = snap[d]["file"] /\ Within(Planned(disk'[d], entries, listed))
          /\ pass' = [pass EXCEPT ![d] = Working(listed, Rest(Planned(disk'[d], entries, listed)))]
          /\ snap' = [snap EXCEPT ![d] = Noted(entries, Planned(disk'[d], entries, listed))]
    BY <1>6
  <2>2. listed \in Entries /\ disk' \in [Device -> Files]
    BY <1>1, <1>4
  <2> HIDE DEF listed
  <2> QED
    BY <1>7, <2>1, <2>2, PlanMade
<1>9. Typed'
  BY <1>3, <1>4, <1>8 DEF Typed
<1>10. Clock' /\ Undated
  BY <1>3, ClockStays DEF Undated
<1>11. Others(d) /\ Copy(d)' = Copy(d)
  BY <1>4, <1>8 DEF Others, Same, Last, Seen, Work
<1>12. Onward
  BY <1>3, <1>4 DEF Onward
<1>13. listed["file"] = Seen(d)
  BY DEF Seen
<1> QED
  BY <1>4, <1>8, <1>9, <1>10, <1>11, <1>12, <1>13 DEF Passing, PlansFile


LEMMA ListensIs ==
  ASSUME Typed, NEW d \in Device, NEW p \in Path, NEW item \in ItemOf(p), Continues(d, p, item)
  PROVE  /\ Listens(d) /\ pass' \in [Device -> LawfulPass]
         /\ \A e \in Device : e # d => pass'[e] = pass[e]
         /\ p = "log" => Work(d)' = Work(d)
         /\ p = "file" => Work(d)' = item
<1>1. /\ pass' \in [Device -> LawfulPass]
      /\ \A e \in Device : e # d => pass'[e] = pass[e]
      /\ GoesOn(pass'[d], pass[d].listed, [pass[d].plan EXCEPT ![p] = item])
      /\ \A q \in Path : pass'[d].plan[q] = IF q = p THEN item ELSE pass[d].plan[q]
  BY Continued
<1> DEFINE plan == [pass[d].plan EXCEPT ![p] = item]
<1> HIDE DEF plan
<1>2. GoesOn(pass'[d], pass[d].listed, plan)
  BY <1>1 DEF plan
<1>3. /\ pass'[d].plan["file"] = plan["file"]
      /\ pass'[d].listed["file"] \in {pass[d].listed["file"], Absent}
      /\ pass'[d].listed["file"] = Absent /\ pass[d].listed["file"] # Absent =>
           pass'[d].plan["file"] = Nothing
  BY <1>2, PathsAre DEF GoesOn
<1>4. pass'[d].plan["file"] = IF p = "file" THEN item ELSE pass[d].plan["file"]
  BY <1>1, PathsAre
<1> QED
  BY <1>1, <1>3, <1>4 DEF Listens, Seen, Work

LEMMA MoveIs ==
  ASSUME Typed, Clock, NEW d \in Device, NEW p \in Path, Move(d, p)
  PROVE  LET moved == Moved(d, p, pass[d].plan[p]) IN
         /\ Passing(d) /\ Listens(d)
         /\ p = "log" => /\ UNCHANGED There /\ Copy(d)' = Copy(d)
                         /\ Last(d)' = Last(d) /\ Work(d)' = Work(d)
         /\ p = "file" => /\ Work(d).kind \in {"download", "merge", "upload"}
                          /\ Copy(d)' = moved[1] /\ Last(d)' = moved[2] /\ There' = moved[3]
                          /\ Work(d)' = Nothing /\ (Clean' => Harmless(d, moved))
<1> DEFINE item == pass[d].plan[p]
           moved == Moved(d, p, item)
<1>1. /\ item.kind \in {"download", "merge", "upload"} /\ Puts(d, p, moved)
      /\ snap' = [snap EXCEPT ![d][p] = moved[2]] /\ Continues(d, p, Nothing)
      /\ UNCHANGED clearing /\ UNCHANGED trash /\ UNCHANGED written /\ UNCHANGED events
      /\ UNCHANGED faults
  BY DEF Move, Turn, Done
<1>2. item \in ItemOf(p)
  BY DEF Typed, LawfulPass, Plans
<1>3. moved[1] \in BytesOf(p) /\ moved[2] \in EntryOf(p) /\ moved[3] \in PublishedOf(p)
  BY <1>1, <1>2, MovedIs
<1>4. /\ Listens(d) /\ pass' \in [Device -> LawfulPass]
      /\ \A e \in Device : e # d => pass'[e] = pass[e]
      /\ p = "log" => Work(d)' = Work(d)
      /\ p = "file" => Work(d)' = Nothing
  BY <1>1, ListensIs, NothingIs
<1> HIDE DEF moved
<1>5. /\ disk' \in [Device -> Files]
      /\ \A e \in Device : Copy(e)' = IF e = d /\ p = "file" THEN moved[1] ELSE Copy(e)
      /\ remote' \in Publications
      /\ There' = IF p = "file" THEN moved[3] ELSE There
      /\ windows \subseteq windows' /\ windows' \subseteq Windows
      /\ p = "file" /\ Clean' => Harmless(d, moved)
  BY <1>1, <1>3, PutsIs
<1>6. /\ snap' \in [Device -> Entries]
      /\ \A e \in Device, q \in Path : snap'[e][q] = IF e = d /\ q = p THEN moved[2] ELSE snap[e][q]
  <2> DEFINE v == moved[2]
  <2>1. v \in EntryOf(p) /\ snap' = [snap EXCEPT ![d][p] = v] /\ snap \in [Device -> Entries]
    BY <1>1, <1>3 DEF Typed
  <2> HIDE DEF v
  <2>2. ASSUME NEW f \in [Device -> Entries], f = snap
        PROVE  /\ snap' \in [Device -> Entries]
               /\ \A e \in Device, q \in Path : snap'[e][q] = IF e = d /\ q = p THEN v ELSE f[e][q]
    <3>1. /\ [f EXCEPT ![d][p] = v] \in [Device -> Entries]
          /\ \A e \in Device, q \in Path :
               [f EXCEPT ![d][p] = v][e][q] = IF e = d /\ q = p THEN v ELSE f[e][q]
      BY <2>1, SnapPut
    <3>2. snap' = [f EXCEPT ![d][p] = v]
      BY <2>1, <2>2
    <3> QED
      BY <3>1, <3>2
  <2> QED
    BY <2>1, <2>2 DEF v
<1>7. Typed'
  BY <1>1, <1>4, <1>5, <1>6 DEF Typed
<1>8. Clock' /\ Undated /\ Onward
  BY <1>1, <1>5, ClockStays DEF Undated, Onward
<1>9. \A e \in Device : Last(e)' = IF e = d /\ p = "file" THEN moved[2] ELSE Last(e)
  BY <1>6, PathsAre DEF Last
<1>10. Others(d)
  BY <1>4, <1>5, <1>9 DEF Others, Same, Seen, Work
<1>11. /\ p = "log" => UNCHANGED There /\ Copy(d)' = Copy(d) /\ Last(d)' = Last(d)
       /\ p = "file" => Copy(d)' = moved[1] /\ Last(d)' = moved[2] /\ There' = moved[3]
  BY <1>5, <1>9
<1>12. p = "file" => Work(d).kind \in {"download", "merge", "upload"}
  BY <1>1 DEF Work
<1> QED
  BY <1>4, <1>5, <1>7, <1>8, <1>10, <1>11, <1>12 DEF Passing, moved

LEMMA PurgeIs ==
  ASSUME Typed, Clock, NEW d \in Device, NEW p \in Path, Purge(d, p)
  PROVE  /\ Passing(d) /\ Listens(d) /\ UNCHANGED There /\ Last(d)' = Last(d)
         /\ Work(d)'.kind = "unlist" /\ Copy(d)' = Absent
         /\ Held(Copy(d)) \subseteq trash' \/ "journal" \in windows'
<1> DEFINE item == [Nothing EXCEPT !.kind = "unlist"]
<1>1. /\ pass[d].plan[p].kind = "purge" /\ Continues(d, p, item)
      /\ disk' = [disk EXCEPT ![d][p] = Absent]
      /\ UNCHANGED snap /\ UNCHANGED remote /\ UNCHANGED clearing /\ UNCHANGED written
      /\ UNCHANGED events
  BY DEF Purge, Turn
<1>2. p = "file"
  BY <1>1 DEF Typed, LawfulPass, Plans, ItemOf
<1>3. item \in ItemOf(p) /\ item.kind = "unlist"
  <2>1. item = [kind |-> "unlist", rev |-> 0, hash |-> Absent]
    BY DEF Nothing
  <2> QED
    BY <1>2, <2>1, Distinct, BytesIn DEF ItemOf, Item, Kinds, BytesOf, Bytes
<1> HIDE DEF item
<1>4. /\ Listens(d) /\ pass' \in [Device -> LawfulPass]
      /\ \A e \in Device : e # d => pass'[e] = pass[e]
      /\ Work(d)' = item
  BY <1>1, <1>2, <1>3, ListensIs
<1>5. /\ disk' \in [Device -> Files]
      /\ \A e \in Device : Copy(e)' = IF e = d THEN Absent ELSE Copy(e)
  <2>1. Absent \in BytesOf("file") /\ disk' = [disk EXCEPT ![d]["file"] = Absent]
    BY <1>1, <1>2, BytesIn, PathsAre
  <2> QED
    BY <2>1, Written, PathsAre
<1>6. /\ trash' \subseteq Mark /\ faults' \in 0 .. MaxFaults /\ Onward /\ windows' \subseteq Windows
      /\ Held(Copy(d)) \subseteq trash' \/ "journal" \in windows'
  <2>1. Held(Copy(d)) \subseteq Mark
    BY FileTyped DEF Held
  <2>2. CASE /\ trash' = trash \cup Held(Copy(d)) /\ UNCHANGED faults
             /\ Opens("under", CurrentOf(Held(Copy(d))) # {})
    BY <2>1, <2>2, FaultsCount DEF Opens, Typed, Windows, Onward
  <2>3. CASE Fault /\ UNCHANGED trash /\ Opens("journal", TRUE)
    BY <2>3, FaultsCount DEF Opens, Typed, Windows, Onward
  <2> QED
    BY <1>2, <2>2, <2>3 DEF Purge, Copy
<1>7. Typed'
  BY <1>1, <1>4, <1>5, <1>6 DEF Typed
<1>8. Clock' /\ Undated
  BY <1>1, ClockStays DEF Undated
<1> QED
  BY <1>1, <1>3, <1>4, <1>5, <1>6, <1>7, <1>8
     DEF Passing, Others, Same, There, Last, Seen, Work

LEMMA UnlistIs ==
  ASSUME Typed, Clock, NEW d \in Device, NEW p \in Path, Unlist(d, p)
  PROVE  /\ Passing(d) /\ Listens(d) /\ Copy(d)' = Copy(d)
         /\ Work(d)' = Nothing /\ Last(d)' = Absent /\ There' \in {There, Absent}
<1>1. /\ pass[d].plan[p].kind = "unlist" /\ Continues(d, p, Nothing)
      /\ remote' = IF pass[d].listed[p] # Absent THEN [remote EXCEPT ![p] = Absent] ELSE remote
      /\ snap' = [snap EXCEPT ![d][p] = Absent]
      /\ UNCHANGED disk /\ UNCHANGED trash /\ UNCHANGED clearing /\ UNCHANGED written
      /\ UNCHANGED events /\ UNCHANGED faults
  BY DEF Unlist, Turn, Done
<1>2. p = "file"
  BY <1>1 DEF Typed, LawfulPass, Plans, ItemOf
<1>3. /\ Listens(d) /\ pass' \in [Device -> LawfulPass]
      /\ \A e \in Device : e # d => pass'[e] = pass[e]
      /\ Work(d)' = Nothing
  BY <1>1, <1>2, NothingIs, ListensIs
<1>4. remote' \in Publications /\ There' \in {There, Absent}
  <2>1. /\ remote \in [Path -> Published] /\ Absent \in Published /\ Absent \in PublishedOf(p)
        /\ \A q \in Path : remote[q] \in PublishedOf(q)
    BY BytesIn DEF Typed, Publications
  <2>2. remote' \in [Path -> Published] /\ \A q \in Path : remote'[q] \in {remote[q], Absent}
    BY <1>1, <2>1
  <2>3. \A q \in Path : Absent \in PublishedOf(q)
    BY BytesIn
  <2> QED
    BY <2>1, <2>2, <2>3, PathsAre DEF Publications, There
<1>5. /\ snap' \in [Device -> Entries]
      /\ \A e \in Device : Last(e)' = IF e = d THEN Absent ELSE Last(e)
  <2>1. ASSUME NEW f \in [Device -> Entries], f = snap
        PROVE  /\ snap' \in [Device -> Entries]
               /\ \A e \in Device, q \in Path :
                    snap'[e][q] = IF e = d /\ q = p THEN Absent ELSE f[e][q]
    <3>1. /\ [f EXCEPT ![d][p] = Absent] \in [Device -> Entries]
          /\ \A e \in Device, q \in Path :
               [f EXCEPT ![d][p] = Absent][e][q] = IF e = d /\ q = p THEN Absent ELSE f[e][q]
      BY SnapPut, BytesIn
    <3>2. snap' = [f EXCEPT ![d][p] = Absent]
      BY <1>1, <2>1
    <3> QED
      BY <3>1, <3>2
  <2>2. snap \in [Device -> Entries]
    BY DEF Typed
  <2> QED
    BY <1>2, <2>1, <2>2, PathsAre DEF Last
<1>6. Onward /\ windows' \subseteq Windows
  <2>1. \/ Opens("race", TRUE)
        \/ \E condition \in BOOLEAN : Opens("late", condition)
    <3> DEFINE late == /\ pass[d].listed[p] # Absent /\ remote[p] # Absent
                       /\ \E m \in CurrentOf(remote[p].bytes) :
                            ~(Until(m) \subseteq Known(pass[d].listed["log"]))
    <3>1. late \in BOOLEAN
      OBVIOUS
    <3>2. Opens("race", TRUE) \/ Opens("late", late)
      BY DEF Unlist
    <3> HIDE DEF late
    <3> QED
      BY <3>1, <3>2
  <2> QED
    BY <1>1, <2>1 DEF Opens, Typed, Windows, Onward
<1>7. Typed'
  BY <1>1, <1>3, <1>4, <1>5, <1>6 DEF Typed
<1>8. Clock' /\ Undated
  BY <1>1, ClockStays DEF Undated
<1> QED
  BY <1>1, <1>3, <1>4, <1>5, <1>6, <1>7, <1>8
     DEF Passing, Others, Same, Copy, Last, Seen, Work

LEMMA FailIs ==
  ASSUME Typed, Clock, NEW d \in Device, NEW p \in Path, Fail(d, p)
  PROVE  /\ Passing(d) /\ Listens(d) /\ UNCHANGED There /\ Copy(d)' = Copy(d)
         /\ Last(d)' = Last(d) /\ Work(d)' \in {Work(d), Nothing}
<1>1. /\ Continues(d, p, Nothing) /\ Fault
      /\ trash \subseteq trash'
      /\ trash' \subseteq
           trash \cup IF pass[d].plan[p].kind = "purge" THEN Held(disk[d][p]) ELSE {}
      /\ UNCHANGED disk /\ UNCHANGED snap /\ UNCHANGED remote /\ UNCHANGED clearing
      /\ UNCHANGED written /\ UNCHANGED events /\ UNCHANGED windows
  BY DEF Fail, Turn, Done, history
<1>2. /\ Listens(d) /\ pass' \in [Device -> LawfulPass]
      /\ \A e \in Device : e # d => pass'[e] = pass[e]
      /\ Work(d)' \in {Work(d), Nothing}
  BY <1>1, NothingIs, ListensIs, PathsAre
<1>3. trash' \subseteq Mark
  <2>1. pass[d].plan[p].kind = "purge" => p = "file"
    BY DEF Typed, LawfulPass, Plans, ItemOf
  <2>2. Held(Copy(d)) \subseteq Mark
    BY FileTyped DEF Held
  <2> QED
    BY <1>1, <2>1, <2>2 DEF Typed, Copy
<1>4. Typed'
  BY <1>1, <1>2, <1>3, FaultsCount DEF Typed
<1>5. Clock' /\ Undated /\ Onward
  BY <1>1, ClockStays DEF Undated, Onward
<1> QED
  BY <1>1, <1>2, <1>4, <1>5 DEF Passing, Others, Same, There, Copy, Last, Seen, Work

-----------------------------------------------------------------------------
(***************************************************************************)
(* Types.                                                                  *)
(***************************************************************************)
LEMMA InitIs == ASSUME Init PROVE Typed /\ Clock
<1> DEFINE kept == [p \in Path |-> IF p = "file" THEN {} ELSE Absent]
           recorded == [p \in Path |-> IF p = "file" THEN [rev |-> 2, hash |-> {}] ELSE Absent]
           published == [p \in Path |-> IF p = "file" THEN [rev |-> 2, hash |-> {}, bytes |-> {}]
                                        ELSE Absent]
<1>1. /\ disk = [d \in Device |-> kept] /\ snap = [d \in Device |-> recorded]
      /\ remote = published /\ pass = [d \in Device |-> Idle]
      /\ clearing = [d \in Device |-> FALSE] /\ trash = {}
      /\ written = [m \in Mark |-> Absent] /\ events = {} /\ windows = {} /\ faults = 0
  BY DEF Init
<1>2. kept \in Files
  <2>1. \A p \in Path : kept[p] \in BytesOf(p) /\ kept[p] \in Bytes
    BY BytesIn, PathsAre DEF BytesOf
  <2> QED
    BY <2>1 DEF Files
<1>3. recorded \in Entries
  <2>1. [rev |-> 2, hash |-> {}] \in EntryOf("file")
    BY Distinct, BytesIn, PathsAre DEF EntryOf
  <2>2. \A p \in Path : recorded[p] \in EntryOf(p) /\ recorded[p] \in Entry
    BY <2>1, BytesIn, PathsAre
  <2> QED
    BY <2>2 DEF Entries
<1>4. published \in Publications
  <2>1. [rev |-> 2, hash |-> {}, bytes |-> {}] \in PublishedOf("file")
    BY Distinct, BytesIn, PathsAre DEF PublishedOf
  <2>2. \A p \in Path : published[p] \in PublishedOf(p) /\ published[p] \in Published
    BY <2>1, BytesIn, PathsAre
  <2> QED
    BY <2>2 DEF Publications
<1> HIDE DEF kept, recorded, published
<1>5. Typed
  BY <1>1, <1>2, <1>3, <1>4, IdleIs, Distinct DEF Typed
<1>6. IsFiniteSet(events) /\ Cardinality(events) = 0
  BY <1>1, FS_EmptySet
<1>7. Clock
  BY <1>1, <1>6, Distinct DEF Clock
<1> QED
  BY <1>5, <1>7

LEMMA OpsAre == "delete" \in Op /\ "revive" \in Op
BY DEF Op

\* Every step, for the types and the clock.
LEMMA StepTyped == ASSUME Typed, Clock, [Next]_vars PROVE Typed' /\ Clock'
<1>1. CASE UNCHANGED vars
  BY <1>1 DEF vars, history, Typed, Clock
<1>2. ASSUME NEW d \in Device, Reader(d) PROVE Typed' /\ Clock'
  <2>1. CASE DeleteBook(d)
    <3>1. clearing' \in [Device -> BOOLEAN]
      BY <2>1 DEF DeleteBook, Typed
    <3> QED
      BY <2>1, <3>1, AppendIs, OpsAre DEF DeleteBook
  <2>2. CASE Clear(d)
    BY <2>2, ClearIs
  <2>3. CASE ImportBook(d)
    <3>1. clearing' \in [Device -> BOOLEAN]
      BY <2>3 DEF ImportBook, Typed
    <3> QED
      BY <2>3, <3>1, AppendIs, OpsAre DEF ImportBook
  <2>4. ASSUME NEW m \in Mark, MarkBook(d, m) PROVE Typed' /\ Clock'
    BY <2>4, MarkIs
  <2> QED
    BY <1>2, <2>1, <2>2, <2>3, <2>4 DEF Reader
<1>3. ASSUME NEW d \in Device, Passes(d) PROVE Typed' /\ Clock'
  <2>1. CASE ListAndPull(d)
    BY <2>1, ListAndPullIs DEF Passing
  <2>2. CASE ListAndPlan(d)
    BY <2>2, ListAndPlanIs DEF Passing
  <2>3. CASE PullLogFirst(d)
    BY <2>3, PullLogFirstIs DEF Passing
  <2>4. ASSUME NEW p \in Path, Move(d, p) PROVE Typed' /\ Clock'
    BY <2>4, MoveIs DEF Passing
  <2>5. ASSUME NEW p \in Path, Purge(d, p) PROVE Typed' /\ Clock'
    BY <2>5, PurgeIs DEF Passing
  <2>6. ASSUME NEW p \in Path, Unlist(d, p) PROVE Typed' /\ Clock'
    BY <2>6, UnlistIs DEF Passing
  <2>7. ASSUME NEW p \in Path, Fail(d, p) PROVE Typed' /\ Clock'
    BY <2>7, FailIs DEF Passing
  <2> QED
    BY <1>3, <2>1, <2>2, <2>3, <2>4, <2>5, <2>6, <2>7 DEF Passes
<1> QED
  BY <1>1, <1>2, <1>3 DEF Next

LEMMA TypedIsTypeOK == ASSUME Typed PROVE TypeOK
<1>1. Files \subseteq [Path -> Bytes] /\ Entries \subseteq [Path -> Entry]
  BY DEF Files, Entries
<1>2. LawfulPass \subseteq Pass
  BY DEF LawfulPass
<1>3. disk \in [Device -> [Path -> Bytes]] /\ snap \in [Device -> [Path -> Entry]]
  BY <1>1 DEF Typed
<1>4. pass \in [Device -> Pass]
  BY <1>2 DEF Typed
<1>5. remote \in [Path -> Published]
  BY DEF Typed, Publications
<1> QED
  BY <1>3, <1>4, <1>5 DEF Typed, TypeOK

(***************************************************************************)
(* Every state is well typed: a pass purges no log, an upload carries what *)
(* its plan scanned, and no rev or date passes its bound.                  *)
(***************************************************************************)
THEOREM TypeCorrect == Spec => []TypeOK
<1>1. Init => Typed /\ Clock
  BY InitIs
<1>2. Typed /\ Clock /\ [Next]_vars => Typed' /\ Clock'
  BY StepTyped
<1>3. Typed => TypeOK
  BY TypedIsTypeOK
<1> QED
  BY <1>1, <1>2, <1>3, PTL DEF Spec

-----------------------------------------------------------------------------
(***************************************************************************)
(* What the revs say of the marks, while none of the windows has opened.   *)
(***************************************************************************)
Live(m) == Current(m) /\ m \notin trash

\* Neither a hash nor the remote has the mark.
UnheardOn(m, e) ==
  /\ Last(e) # Absent => m \notin Last(e).hash
  /\ Seen(e) # Absent => m \notin Seen(e).hash
  /\ Work(e).kind = "upload" => m \notin Work(e).hash
Unheard(m) ==
  /\ \A e \in Device : UnheardOn(m, e)
  /\ There # Absent => m \notin There.hash /\ m \notin There.bytes
Unwritten ==
  \A m \in Mark : written[m] = Absent => Unheard(m) /\ \A e \in Device : m \notin Held(Copy(e))

\* Nothing recorded or listed is ahead of the remote.
Numbered(x) == x # Absent => x.rev >= 1 /\ (There # Absent => x.rev <= There.rev)
Revs ==
  /\ \A e \in Device : Numbered(Last(e)) /\ Numbered(Seen(e))
  /\ There # Absent => There.rev >= 1

\* A rev that has the mark leads to later revs that have it.
Leads(m, x) ==
  x # Absent /\ m \in x.hash =>
    /\ \A e \in Device :
         /\ Last(e) # Absent /\ x.rev <= Last(e).rev => m \in Last(e).hash
         /\ Seen(e) # Absent /\ x.rev <= Seen(e).rev => m \in Seen(e).hash
    /\ There # Absent => m \in There.hash /\ m \in There.bytes
Lineage(m) ==
  /\ \A e \in Device : Leads(m, Seen(e))
  /\ Leads(m, Last(Author[m]))
  /\ There # Absent => Leads(m, There)

AtHome(m) == m \in Held(Copy(Author[m]))

\* A device that knew the mark has it, and will publish it.
Kept(m) ==
  \A e \in Device :
    /\ m \in Known(Last(e)) => m \in Held(Copy(e))
    /\ Work(e).kind = "upload" => /\ m \in Held(Work(e).hash) => m \in Held(Copy(e))
                                  /\ m \in Known(Last(e)) => m \in Held(Work(e).hash)

\* A mark put on since a download was planned is nowhere else yet.
Fresh(m) ==
  Work(Author[m]).kind = "download" /\ m \notin Known(Last(Author[m])) =>
    Unheard(m) /\ \A e \in Device : e # Author[m] => m \notin Held(Copy(e))

Safe(m) == AtHome(m) /\ Kept(m) /\ Lineage(m) /\ Fresh(m)

-----------------------------------------------------------------------------
(***************************************************************************)
(* A step that only sheds: what a device has of the file stays or goes.    *)
(***************************************************************************)
Sheds(d) ==
  /\ Others(d) /\ Copy(d)' \in {Copy(d), Absent} /\ Last(d)' \in {Last(d), Absent}
  /\ Seen(d)' \in {Seen(d), Absent} /\ There' \in {There, Absent}
  /\ \/ Work(d)' = Work(d) /\ Last(d)' = Last(d) /\ (Seen(d)' = Seen(d) \/ Work(d)' = Nothing)
     \/ Work(d)'.kind \in {"none", "unlist"}

LEMMA NothingKind == Nothing.kind = "none"
BY DEF Nothing

LEMMA ShedRevs == ASSUME Revs, NEW d \in Device, Sheds(d) PROVE Revs'
BY DEF Revs, Numbered, Sheds, Others, Same

LEMMA ShedPlans ==
  ASSUME \A e \in Device : FromPlan(e), NEW d \in Device, Sheds(d)
  PROVE  \A e \in Device : FromPlan(e)'
<1>1. FromPlan(d)'
  BY NothingKind DEF FromPlan, Sheds
<1>2. \A e \in Device : e # d => FromPlan(e)'
  BY DEF FromPlan, Sheds, Others, Same
<1> QED
  BY <1>1, <1>2

LEMMA ShedUnheard ==
  ASSUME NEW d \in Device, Sheds(d), NEW m, Unheard(m)
  PROVE  Unheard(m)' /\ (m \notin Held(Copy(d)) => m \notin Held(Copy(d)'))
<1>1. \A e \in Device : UnheardOn(m, e)'
  <2>1. UnheardOn(m, d)'
    BY DEF Unheard, UnheardOn, Sheds
  <2>2. \A e \in Device : e # d => UnheardOn(m, e)'
    BY DEF Unheard, UnheardOn, Sheds, Others, Same
  <2> QED
    BY <2>1, <2>2
<1>2. There' # Absent => m \notin There'.hash /\ m \notin There'.bytes
  BY DEF Unheard, Sheds
<1>3. m \notin Held(Copy(d)) => m \notin Held(Copy(d)')
  BY DEF Sheds, Held
<1>4. Unheard(m)'
  BY <1>1, <1>2 DEF Unheard
<1> QED
  BY <1>3, <1>4

LEMMA ShedSafe ==
  ASSUME Typed, NEW d \in Device, Sheds(d), NEW m \in Mark, Safe(m),
         Copy(d)' = Copy(d) \/ m \notin Held(Copy(d))
  PROVE  Safe(m)'
<1> DEFINE a == Author[m]
<1>1. a \in Device
  BY Distinct
<1>2. AtHome(m)'
  BY <1>1 DEF Safe, AtHome, Sheds, Others, Same
<1>3. Kept(m)'
  BY DEF Safe, Kept, Sheds, Others, Same, Known, Held
<1>4. ASSUME NEW x, Leads(m, x), NEW y \in {x, Absent} PROVE
        y # Absent /\ m \in y.hash =>
          /\ \A e \in Device :
               /\ Last(e)' # Absent /\ y.rev <= Last(e)'.rev => m \in Last(e)'.hash
               /\ Seen(e)' # Absent /\ y.rev <= Seen(e)'.rev => m \in Seen(e)'.hash
          /\ There' # Absent => m \in There'.hash /\ m \in There'.bytes
  BY <1>4 DEF Leads, Sheds, Others, Same
<1>5. Lineage(m)'
  <2>1. \A e \in Device : Seen(e)' \in {Seen(e), Absent} /\ Last(e)' \in {Last(e), Absent}
    BY DEF Sheds, Others, Same
  <2>2. There' \in {There, Absent}
    BY DEF Sheds
  <2> QED
    BY <1>1, <1>4, <2>1, <2>2 DEF Safe, Lineage, Leads
<1>6. Fresh(m)'
  <2>1. SUFFICES ASSUME Work(a)'.kind = "download", m \notin Known(Last(a)')
                 PROVE  Unheard(m)' /\ \A e \in Device : e # a => m \notin Held(Copy(e)')
    BY DEF Fresh
  <2>2. Work(a)' = Work(a) /\ Last(a)' = Last(a)
    BY <1>1, <2>1 DEF Sheds, Others, Same
  <2>3. Unheard(m) /\ \A e \in Device : e # a => m \notin Held(Copy(e))
    BY <2>1, <2>2 DEF Safe, Fresh
  <2> QED
    BY <2>3, ShedUnheard DEF Sheds, Others, Same, Held
<1> QED
  BY <1>2, <1>3, <1>5, <1>6 DEF Safe

-----------------------------------------------------------------------------
(***************************************************************************)
(* A step that plans, from a listing of now or from the pass's own.        *)
(***************************************************************************)
Plan(d, listed) == PlansFile(d, listed) /\ Others(d) /\ (listed = Seen(d) \/ listed = Lists("file"))

LEMMA ListsIs ==
  ASSUME Typed
  PROVE  /\ Lists("file") # Absent => There # Absent
         /\ There # Absent => /\ Lists("file") # Absent /\ Lists("file").rev = There.rev
                              /\ Lists("file").hash = There.hash
<1>1. There # Absent => Lists("file") = [rev |-> There.rev, hash |-> There.hash]
  BY DEF Lists, There
<1>2. There = Absent => Lists("file") = Absent
  BY DEF Lists, There
<1>3. There # Absent => [rev |-> There.rev, hash |-> There.hash] # Absent
  <2>1. There \in PublishedOf("file")
    BY PathsAre DEF Typed, Publications, There
  <2>2. There # Absent => There.rev \in 0 .. MaxRev /\ There.hash \in Of("file")
    BY <2>1 DEF PublishedOf
  <2>3. There # Absent =>
          [rev |-> There.rev, hash |-> There.hash] \in [rev : 0 .. MaxRev, hash : Of("file")]
    BY <2>2
  <2> QED
    BY <2>3, Distinct, PathsAre
<1> QED
  BY <1>1, <1>2, <1>3

LEMMA PlanRevs ==
  ASSUME Revs, NEW d \in Device, NEW listed, Plan(d, listed), Typed
  PROVE  Revs'
<1>1. Numbered(listed)
  <2>1. There # Absent => There.rev \in Nat
    BY FileTyped, Distinct DEF PublishedOf
  <2> QED
    BY <2>1, ListsIs DEF Revs, Numbered, Plan
<1>2. There' = There
  BY DEF Plan, PlansFile
<1>3. \A e \in Device : /\ Last(e)' \in {Last(e), listed} /\ Seen(e)' \in {Seen(e), listed, Absent}
  BY DEF Plan, PlansFile, Others, Same
<1>4. \A e \in Device : Numbered(Last(e)) /\ Numbered(Seen(e))
  BY DEF Revs
<1> QED
  BY <1>1, <1>2, <1>3, <1>4 DEF Revs, Numbered

LEMMA PlanPlans ==
  ASSUME \A e \in Device : FromPlan(e), NEW d \in Device, NEW listed, Plan(d, listed)
  PROVE  \A e \in Device : FromPlan(e)'
<1>1. FromPlan(d)'
  <2>1. CASE Work(d)' = Nothing
    BY <2>1, NothingKind DEF FromPlan
  <2>2. CASE Work(d)' # Nothing
    <3>1. /\ Seen(d)' = listed /\ Last(d)' = Last(d)
          /\ Sound(Copy(d), listed, Last(d), Work(d)'.kind, Work(d)'.rev, Work(d)'.hash)
      BY <2>2 DEF Plan, PlansFile
    <3> QED
      BY <3>1 DEF Sound, FromPlan
  <2> QED
    BY <2>1, <2>2
<1>2. \A e \in Device : e # d => FromPlan(e)'
  BY DEF FromPlan, Plan, Others, Same
<1> QED
  BY <1>1, <1>2

LEMMA PlanUnheard ==
  ASSUME Typed, NEW d \in Device, NEW listed, Plan(d, listed), NEW m, Unheard(m), m \notin Held(Copy(d))
  PROVE  Unheard(m)' /\ Copy(d)' = Copy(d)
<1>1. listed # Absent => m \notin listed.hash
  BY ListsIs DEF Plan, Unheard, UnheardOn
<1>2. \A e \in Device : UnheardOn(m, e)
  BY DEF Unheard
<1>3. UnheardOn(m, d)'
  <2>1. Last(d)' \in {Last(d), listed} /\ Seen(d)' \in {listed, Absent}
    BY DEF Plan, PlansFile
  <2>2. Work(d)'.kind = "upload" => Work(d)'.hash = Copy(d) /\ Copy(d) # Absent
    BY DEF Plan, PlansFile, Sound
  <2>3. Copy(d) # Absent => m \notin Copy(d)
    BY DEF Held
  <2> QED
    BY <1>1, <1>2, <2>1, <2>2, <2>3 DEF UnheardOn
<1>4. \A e \in Device : e # d => UnheardOn(m, e)'
  BY <1>2 DEF UnheardOn, Plan, Others, Same
<1>5. There' = There /\ Copy(d)' = Copy(d)
  BY DEF Plan, PlansFile
<1> QED
  BY <1>1, <1>3, <1>4, <1>5 DEF Unheard

LEMMA PlanSafe ==
  ASSUME Typed, NEW d \in Device, NEW listed, Plan(d, listed), NEW m \in Mark, Safe(m)
  PROVE  Safe(m)'
<1> DEFINE a == Author[m]
<1>1. a \in Device
  BY Distinct
<1>2. /\ There' = There /\ Copy(d)' = Copy(d) /\ Others(d)
      /\ Seen(d)' \in {listed, Absent}
      /\ Sound(Copy(d), listed, Last(d), Work(d)'.kind, Work(d)'.rev, Work(d)'.hash)
      /\ \/ Last(d)' = Last(d)
         \/ /\ Last(d)' = listed /\ listed # Absent
            /\ listed.hash = Copy(d) /\ Work(d)' = Nothing
  BY DEF Plan, PlansFile
<1>3. AtHome(m)'
  BY <1>1, <1>2 DEF Safe, AtHome, Others, Same
<1>4. Kept(m)'
  <2>1. \A e \in Device : e # d =>
          /\ m \in Known(Last(e)') => m \in Held(Copy(e)')
          /\ Work(e)'.kind = "upload" => /\ m \in Held(Work(e)'.hash) => m \in Held(Copy(e)')
                                         /\ m \in Known(Last(e)') => m \in Held(Work(e)'.hash)
    BY <1>2 DEF Safe, Kept, Others, Same
  <2>2. m \in Known(Last(d)') => m \in Held(Copy(d)')
    <3>1. CASE Last(d)' = Last(d)
      BY <1>2, <3>1 DEF Safe, Kept
    <3>2. CASE Last(d)' = listed /\ listed # Absent /\ listed.hash = Copy(d)
      <4>1. Copy(d) # Absent
        BY <3>2, FileTyped, Distinct, PathsAre DEF Plan, EntryOf, Of, Lists, PublishedOf, There
      <4> QED
        BY <1>2, <3>2, <4>1 DEF Known, Held
    <3> QED
      BY <1>2, <3>1, <3>2
  <2>3. Work(d)'.kind = "upload" => /\ m \in Held(Work(d)'.hash) => m \in Held(Copy(d)')
                                    /\ m \in Known(Last(d)') => m \in Held(Work(d)'.hash)
    <3>1. Work(d)'.kind = "upload" => Work(d)'.hash = Copy(d)
      BY <1>2 DEF Sound
    <3> QED
      BY <1>2, <2>2, <3>1
  <2> QED
    BY <2>1, <2>2, <2>3 DEF Kept, Known, Held
<1>5. Lineage(m)'
  <2>1. Leads(m, listed)
    BY ListsIs DEF Safe, Lineage, Leads, Plan
  <2>2. ASSUME NEW x, Leads(m, x), x # Absent, m \in x.hash,
               x \in {Last(a), listed, There} \/ \E e \in Device : x = Seen(e)
        PROVE  /\ There # Absent => m \in There.hash /\ m \in There.bytes
               /\ \A e \in Device :
                    /\ Last(e)' # Absent /\ x.rev <= Last(e)'.rev => m \in Last(e)'.hash
                    /\ Seen(e)' # Absent /\ x.rev <= Seen(e)'.rev => m \in Seen(e)'.hash
    <3>1. /\ \A e \in Device :
               /\ Last(e) # Absent /\ x.rev <= Last(e).rev => m \in Last(e).hash
               /\ Seen(e) # Absent /\ x.rev <= Seen(e).rev => m \in Seen(e).hash
          /\ There # Absent => m \in There.hash /\ m \in There.bytes
      BY <2>2 DEF Leads
    <3>2. listed # Absent /\ x.rev <= listed.rev => m \in listed.hash
      BY <3>1, ListsIs DEF Plan
    <3>3. \A e \in Device : Last(e)' \in {Last(e), listed} /\ Seen(e)' \in {Seen(e), listed, Absent}
      BY <1>2 DEF Others, Same
    <3> QED
      BY <3>1, <3>2, <3>3
  <2>3. Last(a)' \in {Last(a), listed} /\ There' = There
    BY <1>1, <1>2 DEF Others, Same
  <2>4. \A e \in Device : Seen(e)' \in {Seen(e), listed, Absent}
    BY <1>2 DEF Others, Same
  <2>5. /\ Leads(m, Last(a)) /\ (There # Absent => Leads(m, There))
        /\ \A e \in Device : Leads(m, Seen(e))
    BY DEF Safe, Lineage
  <2> QED
    BY <2>1, <2>2, <2>3, <2>4, <2>5 DEF Lineage, Leads
<1>6. Fresh(m)'
  <2>1. SUFFICES ASSUME Work(a)'.kind = "download", m \notin Known(Last(a)')
                 PROVE  Unheard(m)' /\ \A e \in Device : e # a => m \notin Held(Copy(e)')
    BY DEF Fresh
  <2>2. a # d
    <3>1. SUFFICES ASSUME a = d PROVE FALSE
      OBVIOUS
    <3>2. Last(d)' = Last(d)
      BY <1>2, <2>1, <3>1, NothingKind
    <3>3. Copy(d) = Absent \/ (Last(d) # Absent /\ Copy(d) = Last(d).hash)
      BY <1>2, <2>1, <3>1 DEF Sound
    <3>4. m \in Held(Copy(d))
      BY <3>1 DEF Safe, AtHome
    <3> QED
      BY <2>1, <3>1, <3>2, <3>3, <3>4 DEF Held, Known
  <2>3. Unheard(m) /\ \A e \in Device : e # a => m \notin Held(Copy(e))
    BY <1>1, <1>2, <2>1, <2>2 DEF Safe, Fresh, Others, Same
  <2> QED
    BY <1>2, <2>2, <2>3, PlanUnheard DEF Others, Same
<1> QED
  BY <1>3, <1>4, <1>5, <1>6 DEF Safe

-----------------------------------------------------------------------------
(***************************************************************************)
(* A transfer of the file that opens none of the windows: it leaves        *)
(* everything, or it fetches, or it publishes.                             *)
(***************************************************************************)
Transfers(d) == Others(d) /\ Work(d)' = Nothing /\ Seen(d)' \in {Seen(d), Absent}

Fetches(d) ==
  /\ Transfers(d) /\ Work(d).kind = "download" /\ There # Absent /\ There' = There
  /\ Copy(d)' = There.bytes /\ Last(d)' # Absent
  /\ Last(d)'.rev = Work(d).rev /\ Last(d)'.hash = There.bytes
  /\ Held(Copy(d)) \subseteq There.bytes \cup Known(Last(d))

Ahead(d) ==
  \A e \in Device : /\ Last(e) # Absent => Last(e).rev < Work(d).rev
                    /\ Seen(e) # Absent => Seen(e).rev < Work(d).rev

Publishes(d) ==
  /\ Transfers(d) /\ Work(d).kind \in {"merge", "upload"} /\ Copy(d) # Absent
  /\ There' # Absent /\ There'.rev = Work(d).rev /\ Copy(d)' = There'.bytes
  /\ Last(d)' # Absent /\ Last(d)'.rev = Work(d).rev /\ Last(d)'.hash = There'.hash
  /\ Work(d).kind = "merge" =>
       There # Absent /\ There'.bytes = Copy(d) \cup There.bytes /\ There'.hash = There'.bytes
  /\ Work(d).kind = "upload" => There'.bytes = Copy(d) /\ There'.hash = Work(d).hash
  /\ There' # There /\ There # Absent => Seen(d) = Lists("file")
  /\ There = Absent => Ahead(d)

LEMMA RevsAreNumbers ==
  ASSUME Typed, NEW d \in Device
  PROVE  /\ Last(d) # Absent => Last(d).rev \in Nat
         /\ Seen(d) # Absent => Seen(d).rev \in Nat
         /\ There # Absent => There.rev \in Nat
         /\ Work(d).rev \in Nat
BY FileTyped, Distinct, PathsAre DEF EntryOf, PublishedOf, ItemOf, Item

LEMMA MoveSplits ==
  ASSUME Typed, Clock, Clean', NEW d \in Device, Move(d, "file")
  PROVE  (Sheds(d) /\ Copy(d)' = Copy(d)) \/ Fetches(d) \/ Publishes(d)
<1> DEFINE item == pass[d].plan["file"]
           moved == Moved(d, "file", item)
<1>1. /\ Others(d) /\ Listens(d) /\ Typed'
      /\ Work(d).kind \in {"download", "merge", "upload"}
      /\ Copy(d)' = moved[1] /\ Last(d)' = moved[2] /\ There' = moved[3]
      /\ Work(d)' = Nothing /\ Harmless(d, moved)
  BY MoveIs, PathsAre DEF Passing
<1>2. Transfers(d)
  BY <1>1 DEF Transfers, Listens
<1>3. item = Work(d)
  BY DEF Work
<1>4. /\ Last(d) \in EntryOf("file") /\ Work(d) \in ItemOf("file")
      /\ There \in PublishedOf("file") /\ There' \in PublishedOf("file")
      /\ Last(d)' \in EntryOf("file")
  <2>1. Last(d)' \in EntryOf("file") /\ There' \in PublishedOf("file")
    BY <1>1, PathsAre DEF Typed, Entries, Publications, Last, There
  <2> QED
    BY <2>1, FileTyped
<1>5. ASSUME moved = <<Copy(d), Last(d), There>>
      PROVE  Sheds(d) /\ Copy(d)' = Copy(d)
  BY <1>1, <1>2, <1>5, NothingKind DEF Sheds, Transfers
<1>6. Copy(d) = disk[d]["file"] /\ Last(d) = snap[d]["file"] /\ There = remote["file"]
  BY DEF Copy, Last, There
<1>7. CASE Work(d).kind = "download"
  <2>1. moved = Downloaded(d, "file", item)
    BY <1>3, <1>7 DEF Moved
  <2>2. CASE There = Absent
    BY <1>5, <1>6, <2>1, <2>2 DEF Downloaded
  <2>3. CASE There # Absent
    <3>1. moved = <<There.bytes, [rev |-> Work(d).rev, hash |-> There.bytes], There>>
      BY <1>3, <1>6, <2>1, <2>3 DEF Downloaded
    <3>2. [rev |-> Work(d).rev, hash |-> There.bytes] # Absent
      BY <1>4, <2>3, Distinct, PathsAre DEF PublishedOf, ItemOf, Item
    <3>3. There.bytes # Absent
      BY <1>4, <2>3, Distinct, PathsAre DEF PublishedOf
    <3> HIDE DEF moved, item
    <3>4. moved[1] = There.bytes /\ moved[3] = There
          /\ moved[2] = [rev |-> Work(d).rev, hash |-> There.bytes]
      BY <3>1
    <3>5. Held(Copy(d)) \subseteq There.bytes \cup Known(Last(d))
      BY <1>1, <3>3, <3>4 DEF Harmless, Held
    <3> QED
      BY <1>1, <1>2, <1>7, <2>3, <3>2, <3>4, <3>5 DEF Fetches
  <2> QED
    BY <2>2, <2>3
<1>8. CASE Work(d).kind \in {"merge", "upload"}
  <2> DEFINE out == IF Work(d).kind = "merge" THEN Copy(d) \cup There.bytes ELSE Copy(d)
             hash == IF Work(d).kind = "merge" THEN out ELSE Work(d).hash
  <2>1. \/ moved = <<Copy(d), Last(d), There>>
        \/ /\ Copy(d) # Absent /\ (Work(d).kind = "merge" => There # Absent)
           /\ moved = <<out, [rev |-> Work(d).rev, hash |-> hash],
                        [rev |-> Work(d).rev, hash |-> hash, bytes |-> out]>>
    <3>1. CASE Work(d).kind = "merge"
      BY <1>3, <1>6, <3>1 DEF Moved, Merged
    <3>2. CASE Work(d).kind = "upload"
      BY <1>3, <1>6, <3>2 DEF Moved, Uploaded
    <3> QED
      BY <1>8, <3>1, <3>2
  <2>2. CASE moved = <<Copy(d), Last(d), There>>
    BY <1>5, <2>2
  <2>3. CASE /\ Copy(d) # Absent /\ (Work(d).kind = "merge" => There # Absent)
             /\ moved = <<out, [rev |-> Work(d).rev, hash |-> hash],
                          [rev |-> Work(d).rev, hash |-> hash, bytes |-> out]>>
    <3> HIDE DEF moved, item
    <3>1. /\ moved[1] = out /\ moved[2] = [rev |-> Work(d).rev, hash |-> hash]
          /\ moved[3] = [rev |-> Work(d).rev, hash |-> hash, bytes |-> out]
      BY <2>3
    <3>2. moved[2] # Absent /\ moved[3] # Absent
      <4>1. out \in Of("file") /\ hash \in Of("file") /\ Work(d).rev \in 0 .. MaxRev
        <5>1. Copy(d) \in Of("file")
          BY <2>3, FileTyped DEF Of
        <5>2. Work(d).kind = "merge" => Copy(d) \cup There.bytes \in Of("file")
          BY <1>4, <2>3, <5>1, BytesIn, PathsAre DEF PublishedOf
        <5>3. Work(d).rev \in 0 .. MaxRev
          BY <1>4 DEF ItemOf, Item
        <5>4. Work(d).kind = "upload" => Work(d).hash \in Of("file")
          BY <1>4 DEF ItemOf, BytesOf
        <5> QED
          BY <1>8, <5>1, <5>2, <5>3, <5>4
      <4>2. moved[2] \in [rev : 0 .. MaxRev, hash : Of("file")]
        BY <3>1, <4>1
      <4>3. moved[3] \in [rev : 0 .. MaxRev, hash : Of("file"), bytes : Of("file")]
        BY <3>1, <4>1
      <4> QED
        BY <4>2, <4>3, Distinct, PathsAre
    <3>3. There = Absent => Ahead(d)
      <4>1. SUFFICES ASSUME There = Absent PROVE Ahead(d)
        OBVIOUS
      <4>2. moved[3].rev = Work(d).rev
        BY <3>1
      <4>3. \A e \in Device : /\ Last(e) # Absent => ~(Work(d).rev <= Last(e).rev)
                              /\ Seen(e) # Absent => ~(Work(d).rev <= Seen(e).rev)
        BY <1>1, <3>2, <4>1, <4>2 DEF Harmless
      <4> QED
        BY <4>3, RevsAreNumbers DEF Ahead
    <3>4. There' # There /\ There # Absent => Seen(d) = Lists("file")
      BY <1>1 DEF Harmless
    <3>5. /\ There'.rev = Work(d).rev /\ There'.hash = hash /\ There'.bytes = out
          /\ Last(d)'.rev = Work(d).rev /\ Last(d)'.hash = hash /\ Copy(d)' = out
          /\ There' # Absent /\ Last(d)' # Absent
      BY <1>1, <3>1, <3>2
    <3>6. /\ Work(d).kind = "merge" => out = Copy(d) \cup There.bytes /\ hash = out
          /\ Work(d).kind = "upload" => out = Copy(d) /\ hash = Work(d).hash
      OBVIOUS
    <3> HIDE DEF out, hash
    <3> QED
      BY <1>2, <1>8, <2>3, <3>3, <3>4, <3>5, <3>6 DEF Publishes
  <2> QED
    BY <2>1, <2>2, <2>3
<1> QED
  BY <1>1, <1>7, <1>8

LEMMA TransferPlans ==
  ASSUME \A e \in Device : FromPlan(e), NEW d \in Device, Transfers(d)
  PROVE  \A e \in Device : FromPlan(e)'
<1>1. FromPlan(d)'
  BY NothingKind DEF FromPlan, Transfers
<1>2. \A e \in Device : e # d => FromPlan(e)'
  BY DEF FromPlan, Transfers, Others, Same
<1> QED
  BY <1>1, <1>2

\* What carries the mark nowhere carries it nowhere else.
LEMMA TransferUnheard ==
  ASSUME Typed, NEW d \in Device, Fetches(d) \/ Publishes(d), NEW m, Unheard(m),
         m \notin Held(Copy(d))
  PROVE  Unheard(m)' /\ m \notin Held(Copy(d)')
<1>1. Transfers(d) /\ \A e \in Device : UnheardOn(m, e)
  BY DEF Unheard, Fetches, Publishes
<1>2. /\ Last(d)' # Absent => m \notin Last(d)'.hash
      /\ There' # Absent => m \notin There'.hash /\ m \notin There'.bytes
      /\ m \notin Held(Copy(d)')
  <2>1. CASE Fetches(d)
    BY <2>1 DEF Fetches, Unheard, Held
  <2>2. CASE Publishes(d)
    <3>1. Copy(d) # Absent /\ m \notin Copy(d)
      BY <2>2 DEF Publishes, Held
    <3>2. Work(d).kind = "upload" => m \notin Work(d).hash
      BY <1>1 DEF UnheardOn
    <3>3. There # Absent => m \notin There.bytes
      BY DEF Unheard
    <3> QED
      BY <2>2, <3>1, <3>2, <3>3 DEF Publishes, Held
  <2> QED
    BY <2>1, <2>2
<1>3. UnheardOn(m, d)'
  BY <1>1, <1>2, NothingKind DEF UnheardOn, Transfers
<1>4. \A e \in Device : e # d => UnheardOn(m, e)'
  BY <1>1 DEF UnheardOn, Transfers, Others, Same
<1> QED
  BY <1>2, <1>3, <1>4 DEF Unheard

LEMMA TransferFresh ==
  ASSUME Typed, NEW d \in Device, Fetches(d) \/ Publishes(d), NEW m \in Mark, Fresh(m)
  PROVE  Fresh(m)'
<1> DEFINE a == Author[m]
<1>1. a \in Device /\ Transfers(d)
  BY Distinct DEF Fetches, Publishes
<1>2. SUFFICES ASSUME Work(a)'.kind = "download", m \notin Known(Last(a)')
               PROVE  Unheard(m)' /\ \A e \in Device : e # a => m \notin Held(Copy(e)')
  BY DEF Fresh
<1>3. a # d
  BY <1>1, <1>2, NothingKind DEF Transfers
<1>4. Unheard(m) /\ \A e \in Device : e # a => m \notin Held(Copy(e))
  BY <1>1, <1>2, <1>3 DEF Fresh, Transfers, Others, Same
<1>5. Unheard(m)' /\ m \notin Held(Copy(d)')
  BY <1>3, <1>4, TransferUnheard
<1>6. \A e \in Device : e # d => Copy(e)' = Copy(e)
  BY <1>1 DEF Transfers, Others, Same
<1> QED
  BY <1>4, <1>5, <1>6 DEF Held

-----------------------------------------------------------------------------
LEMMA FetchRevs ==
  ASSUME Typed, Revs, NEW d \in Device, Fetches(d), FromPlan(d)
  PROVE  Revs'
<1>1. Numbered(Last(d)')
  <2>1. Seen(d) # Absent /\ Last(d)'.rev = Seen(d).rev
    BY DEF Fetches, FromPlan
  <2> QED
    BY <2>1 DEF Revs, Numbered
<1>2. \A e \in Device : Numbered(Last(e)) /\ Numbered(Seen(e))
  BY DEF Revs
<1>3. \A e \in Device : Seen(e)' \in {Seen(e), Absent} /\ (e # d => Last(e)' = Last(e))
  BY DEF Fetches, Transfers, Others, Same
<1>4. There' = There
  BY DEF Fetches
<1> QED
  BY <1>1, <1>2, <1>3, <1>4 DEF Revs, Numbered

LEMMA FetchSafe ==
  ASSUME Typed, Typed', Revs, NEW d \in Device, Fetches(d), FromPlan(d), NEW m \in Mark, Safe(m)
  PROVE  Safe(m)'
<1> DEFINE a == Author[m]
<1>1. a \in Device /\ Others(d) /\ There' = There /\ There # Absent /\ There.bytes # Absent
  BY FileTyped, Distinct, PathsAre DEF Fetches, Transfers, PublishedOf
<1>2. /\ Seen(d) # Absent /\ Last(d)'.rev = Seen(d).rev
      /\ Last(d) # Absent => Last(d).rev < Seen(d).rev
  BY DEF Fetches, FromPlan
<1>3. /\ Copy(d)' = There.bytes /\ Last(d)' # Absent /\ Last(d)'.hash = There.bytes
      /\ Work(d)' = Nothing /\ Seen(d)' \in {Seen(d), Absent}
  BY DEF Fetches, Transfers
<1>4. d = a /\ m \in There.bytes => Last(d) # Absent /\ m \in Last(d).hash
  BY <1>1 DEF Safe, Fresh, Unheard, Known, Fetches
<1>5. AtHome(m)'
  <2>1. CASE a # d
    BY <1>1, <2>1 DEF Safe, AtHome, Others, Same
  <2>2. CASE a = d
    <3>1. m \in Held(Copy(d))
      BY <2>2 DEF Safe, AtHome
    <3>2. m \in There.bytes
      BY <1>1, <2>2, <3>1 DEF Fetches, Known, Safe, Lineage, Leads
    <3> QED
      BY <1>1, <1>3, <2>2, <3>2 DEF AtHome, Held
  <2> QED
    BY <2>1, <2>2
<1>6. Kept(m)'
  <2>1. \A e \in Device : e # d =>
          /\ m \in Known(Last(e)') => m \in Held(Copy(e)')
          /\ Work(e)'.kind = "upload" => /\ m \in Held(Work(e)'.hash) => m \in Held(Copy(e)')
                                         /\ m \in Known(Last(e)') => m \in Held(Work(e)'.hash)
    BY <1>1 DEF Safe, Kept, Others, Same
  <2>2. m \in Known(Last(d)') => m \in Held(Copy(d)')
    BY <1>1, <1>3 DEF Known, Held
  <2>3. Work(d)'.kind # "upload"
    BY <1>3, NothingKind
  <2> QED
    BY <2>1, <2>2, <2>3 DEF Kept, Known, Held
<1>7. Lineage(m)'
  <2>1. ASSUME NEW x, Leads(m, x), x # Absent, m \in x.hash
        PROVE  /\ There' # Absent => m \in There'.hash /\ m \in There'.bytes
               /\ \A e \in Device :
                    /\ Last(e)' # Absent /\ x.rev <= Last(e)'.rev => m \in Last(e)'.hash
                    /\ Seen(e)' # Absent /\ x.rev <= Seen(e)'.rev => m \in Seen(e)'.hash
    <3>1. /\ \A e \in Device :
               /\ Last(e) # Absent /\ x.rev <= Last(e).rev => m \in Last(e).hash
               /\ Seen(e) # Absent /\ x.rev <= Seen(e).rev => m \in Seen(e).hash
          /\ m \in There.hash /\ m \in There.bytes
      BY <1>1, <2>1 DEF Leads
    <3>2. \A e \in Device : Seen(e)' \in {Seen(e), Absent} /\ (e # d => Last(e)' = Last(e))
      BY <1>1, <1>3 DEF Others, Same
    <3> QED
      BY <1>1, <1>3, <3>1, <3>2
  <2>2. /\ Leads(m, Last(a)) /\ Leads(m, There) /\ \A e \in Device : Leads(m, Seen(e))
    BY <1>1 DEF Safe, Lineage
  <2>3. \A e \in Device : Leads(m, Seen(e))'
    <3>1. \A e \in Device : Seen(e)' \in {Seen(e), Absent}
      BY <1>1, <1>3 DEF Others, Same
    <3> QED
      BY <2>1, <2>2, <3>1 DEF Leads
  <2>4. Leads(m, There)'
    BY <1>1, <2>1, <2>2 DEF Leads
  <2>5. Leads(m, Last(a))'
    <3>1. CASE a # d
      <4>1. Last(a)' = Last(a)
        BY <1>1, <3>1 DEF Others, Same
      <4> QED
        BY <2>1, <2>2, <4>1 DEF Leads
    <3>2. CASE a = d
      <4>1. SUFFICES ASSUME m \in Last(d)'.hash PROVE Leads(m, Last(a))'
        BY <3>2 DEF Leads
      <4>2. Last(d) # Absent /\ m \in Last(d).hash
        BY <1>3, <1>4, <3>2, <4>1
      <4>3. \A e \in Device :
              /\ Last(e)' # Absent /\ Last(d).rev <= Last(e)'.rev => m \in Last(e)'.hash
              /\ Seen(e)' # Absent /\ Last(d).rev <= Seen(e)'.rev => m \in Seen(e)'.hash
        BY <2>1, <2>2, <3>2, <4>2
      <4>4. m \in There'.hash /\ m \in There'.bytes
        BY <1>1, <2>1, <2>2, <3>2, <4>2
      <4>5. /\ Last(d).rev \in Nat /\ Last(d)'.rev \in Nat /\ Last(d).rev <= Last(d)'.rev
        BY <1>2, <4>2, RevsAreNumbers
      <4>6. \A e \in Device : /\ Last(e)' # Absent => Last(e)'.rev \in Nat
                              /\ Seen(e)' # Absent => Seen(e)'.rev \in Nat
        <5>1. \A e \in Device : Last(e)' \in EntryOf("file") /\ Seen(e)' \in EntryOf("file")
          BY PathsAre DEF Typed, Entries, LawfulPass, Last, Seen
        <5> QED
          BY <5>1, Distinct DEF EntryOf
      <4>7. \A e \in Device :
              /\ Last(e)' # Absent /\ Last(d)'.rev <= Last(e)'.rev => m \in Last(e)'.hash
              /\ Seen(e)' # Absent /\ Last(d)'.rev <= Seen(e)'.rev => m \in Seen(e)'.hash
        BY <4>3, <4>5, <4>6
      <4> QED
        BY <3>2, <4>4, <4>7 DEF Leads
    <3> QED
      BY <3>1, <3>2
  <2> QED
    BY <2>3, <2>4, <2>5 DEF Lineage
<1>8. Fresh(m)'
  BY TransferFresh DEF Safe
<1> QED
  BY <1>5, <1>6, <1>7, <1>8 DEF Safe

-----------------------------------------------------------------------------
LEMMA PublishAhead ==
  ASSUME Typed, Revs, NEW d \in Device, Publishes(d), FromPlan(d)
  PROVE  Work(d).rev >= 1 /\ (There' = There \/ Ahead(d))
<1>1. Work(d).rev = Above(Seen(d), Last(d))
  BY DEF Publishes, FromPlan
<1>2. /\ Work(d).rev >= 1
      /\ Seen(d) # Absent => Work(d).rev > Seen(d).rev
  BY <1>1, FileTyped, AboveIs, PathsAre
<1>3. CASE There' # There /\ There # Absent
  <2>1. Seen(d) # Absent /\ Seen(d).rev = There.rev
    BY <1>3, ListsIs DEF Publishes
  <2>2. There.rev < Work(d).rev /\ There.rev \in Nat /\ Work(d).rev \in Nat
    BY <1>2, <1>3, <2>1, RevsAreNumbers
  <2>3. \A e \in Device : /\ Last(e) # Absent => Last(e).rev <= There.rev
                          /\ Seen(e) # Absent => Seen(e).rev <= There.rev
    BY <1>3 DEF Revs, Numbered
  <2>4. \A e \in Device : /\ Last(e) # Absent => Last(e).rev \in Nat
                          /\ Seen(e) # Absent => Seen(e).rev \in Nat
    BY RevsAreNumbers
  <2>5. Ahead(d)
    BY <2>2, <2>3, <2>4 DEF Ahead
  <2> QED
    BY <1>2, <2>5
<1>4. CASE There = Absent
  BY <1>2, <1>4 DEF Publishes
<1> QED
  BY <1>2, <1>3, <1>4

LEMMA PublishRevs ==
  ASSUME Typed, Revs, NEW d \in Device, Publishes(d), FromPlan(d)
  PROVE  Revs'
<1>1. Work(d).rev >= 1 /\ Work(d).rev \in Nat /\ (There' = There \/ Ahead(d))
  BY PublishAhead, RevsAreNumbers
<1>2. /\ There' # Absent /\ There'.rev = Work(d).rev
      /\ Last(d)' # Absent /\ Last(d)'.rev = Work(d).rev
  BY DEF Publishes
<1>3. \A e \in Device : Seen(e)' \in {Seen(e), Absent} /\ (e # d => Last(e)' = Last(e))
  BY DEF Publishes, Transfers, Others, Same
<1>4. \A e \in Device : /\ Last(e) # Absent => Last(e).rev >= 1 /\ Last(e).rev <= Work(d).rev
                        /\ Seen(e) # Absent => Seen(e).rev >= 1 /\ Seen(e).rev <= Work(d).rev
  <2>1. CASE There' = There
    BY <1>2, <2>1 DEF Revs, Numbered
  <2>2. CASE Ahead(d)
    BY <1>1, <2>2, RevsAreNumbers DEF Revs, Numbered, Ahead
  <2> QED
    BY <1>1, <2>1, <2>2
<1>5. \A e \in Device : Numbered(Last(e))' /\ Numbered(Seen(e))'
  <2>1. ASSUME NEW e \in Device, NEW y \in {Last(e), Seen(e), Absent}, y # Absent
        PROVE  y.rev >= 1 /\ y.rev <= There'.rev
    BY <1>2, <1>4, <2>1
  <2>2. \A e \in Device : Last(e)' # Absent => Last(e)'.rev >= 1 /\ Last(e)'.rev <= There'.rev
    <3>1. Last(d)'.rev >= 1 /\ Last(d)'.rev <= There'.rev
      BY <1>1, <1>2
    <3> QED
      BY <1>3, <2>1, <3>1
  <2>3. \A e \in Device : Seen(e)' # Absent => Seen(e)'.rev >= 1 /\ Seen(e)'.rev <= There'.rev
    BY <1>3, <2>1
  <2> QED
    BY <1>2, <2>2, <2>3 DEF Numbered
<1> QED
  BY <1>1, <1>2, <1>5 DEF Revs

\* What leads to the remote and the entries leads to what is published.
LEMMA PublishKeeps ==
  ASSUME Typed, Revs, NEW d \in Device, Publishes(d), FromPlan(d), NEW m \in Mark, Safe(m),
         NEW x, Leads(m, x), x # Absent, m \in x.hash,
         \/ x = There
         \/ \E e \in Device : x = Last(e) \/ x = Seen(e)
  PROVE  m \in There'.hash /\ m \in There'.bytes
<1>1. There # Absent => m \in There.hash /\ m \in There.bytes
  BY DEF Leads
<1>2. CASE Work(d).kind = "merge"
  BY <1>1, <1>2 DEF Publishes
<1>3. CASE There' = There
  BY <1>1, <1>3 DEF Publishes
<1>4. CASE Work(d).kind = "upload" /\ There' # There
  <2>1. /\ There'.bytes = Copy(d) /\ There'.hash = Work(d).hash /\ Copy(d) # Absent
        /\ Work(d).rev = Above(Seen(d), Last(d))
        /\ Seen(d) # Absent => Last(d) # Absent /\ Seen(d).rev <= Last(d).rev
    BY <1>4 DEF Publishes, FromPlan
  <2>2. SUFFICES m \in Known(Last(d))
    <3>1. m \in Held(Work(d).hash) /\ m \in Held(Copy(d))
      BY <1>4, <2>2 DEF Safe, Kept
    <3> QED
      BY <2>1, <3>1 DEF Held
  <2>3. CASE There # Absent
    <3>1. Seen(d) # Absent /\ Seen(d).rev = There.rev
      BY <1>4, <2>3, ListsIs DEF Publishes
    <3>2. Leads(m, There) /\ m \in There.hash
      BY <1>1, <2>3 DEF Safe, Lineage
    <3> QED
      BY <2>1, <2>3, <3>1, <3>2 DEF Leads, Known
  <2>4. CASE There = Absent
    <3>1. PICK e \in Device : x = Last(e) \/ x = Seen(e)
      BY <2>4
    <3>2. x.rev >= 1 /\ x.rev < Work(d).rev /\ x.rev \in Nat
      BY <2>4, <3>1, RevsAreNumbers DEF Revs, Numbered, Publishes, Ahead
    <3>3. \/ Work(d).rev = 1
          \/ Seen(d) # Absent /\ Work(d).rev = Seen(d).rev + 1
          \/ Last(d) # Absent /\ Work(d).rev = Last(d).rev + 1
      BY <2>1, FileTyped, AboveIs, PathsAre
    <3>4. /\ Last(d) # Absent => Last(d).rev \in Nat
          /\ Seen(d) # Absent => Seen(d).rev \in Nat
      BY RevsAreNumbers
    <3>5. Last(d) # Absent /\ x.rev <= Last(d).rev
      BY <2>1, <3>2, <3>3, <3>4
    <3> QED
      BY <3>5 DEF Leads, Known
  <2> QED
    BY <2>3, <2>4
<1> QED
  BY <1>2, <1>3, <1>4 DEF Publishes

LEMMA PublishSafe ==
  ASSUME Typed, Typed', Revs, NEW d \in Device, Publishes(d), FromPlan(d),
         NEW m \in Mark, Safe(m)
  PROVE  Safe(m)'
<1> DEFINE a == Author[m]
<1>1. a \in Device /\ Others(d)
  BY Distinct DEF Publishes, Transfers
<1>2. /\ There' # Absent /\ There'.rev = Work(d).rev
      /\ Last(d)' # Absent /\ Last(d)'.rev = Work(d).rev /\ Last(d)'.hash = There'.hash
      /\ Copy(d)' = There'.bytes /\ Work(d)' = Nothing /\ Copy(d) # Absent
  BY DEF Publishes, Transfers
<1>3. There'.bytes # Absent /\ \A n \in Held(Copy(d)) : n \in There'.bytes
  <2>1. There' \in PublishedOf("file")
    BY PathsAre DEF Typed, Publications, There
  <2>2. There'.bytes # Absent
    BY <1>2, <2>1, Distinct, PathsAre DEF PublishedOf
  <2> QED
    BY <2>2 DEF Publishes, Held
<1>4. m \in There'.hash => m \in There'.bytes
  <2>1. CASE Work(d).kind = "merge"
    BY <2>1 DEF Publishes
  <2>2. CASE Work(d).kind = "upload"
    <3>1. There'.hash = Work(d).hash /\ There'.bytes = Copy(d)
      BY <2>2 DEF Publishes
    <3>2. Work(d).hash # Absent
      BY <2>2, FileTyped DEF ItemOf
    <3>3. m \in Held(Work(d).hash) => m \in Held(Copy(d))
      BY <2>2 DEF Safe, Kept
    <3> QED
      BY <1>2, <3>1, <3>2, <3>3 DEF Held
  <2> QED
    BY <2>1, <2>2 DEF Publishes
<1>5. \A e \in Device : Seen(e)' \in {Seen(e), Absent} /\ (e # d => Last(e)' = Last(e))
  BY DEF Publishes, Transfers, Others, Same
<1>6. AtHome(m)'
  <2>1. CASE a # d
    BY <1>1, <2>1 DEF Safe, AtHome, Others, Same
  <2>2. CASE a = d
    BY <1>2, <1>3, <2>2 DEF Safe, AtHome, Held
  <2> QED
    BY <2>1, <2>2
<1>7. Kept(m)'
  <2>1. \A e \in Device : e # d =>
          /\ m \in Known(Last(e)') => m \in Held(Copy(e)')
          /\ Work(e)'.kind = "upload" => /\ m \in Held(Work(e)'.hash) => m \in Held(Copy(e)')
                                         /\ m \in Known(Last(e)') => m \in Held(Work(e)'.hash)
    BY <1>1 DEF Safe, Kept, Others, Same
  <2>2. m \in Known(Last(d)') => m \in Held(Copy(d)')
    BY <1>2, <1>3, <1>4 DEF Known, Held
  <2>3. Work(d)'.kind # "upload"
    BY <1>2, NothingKind
  <2> QED
    BY <2>1, <2>2, <2>3 DEF Kept, Known, Held
<1>8. Lineage(m)'
  <2>1. ASSUME NEW x, Leads(m, x), x # Absent, m \in x.hash,
               \/ x = There
               \/ \E e \in Device : x = Last(e) \/ x = Seen(e)
        PROVE  /\ m \in There'.hash /\ m \in There'.bytes
               /\ \A e \in Device :
                    /\ Last(e)' # Absent /\ x.rev <= Last(e)'.rev => m \in Last(e)'.hash
                    /\ Seen(e)' # Absent /\ x.rev <= Seen(e)'.rev => m \in Seen(e)'.hash
    <3>1. m \in There'.hash /\ m \in There'.bytes
      BY <2>1, PublishKeeps
    <3>2. \A e \in Device :
            /\ Last(e) # Absent /\ x.rev <= Last(e).rev => m \in Last(e).hash
            /\ Seen(e) # Absent /\ x.rev <= Seen(e).rev => m \in Seen(e).hash
      BY <2>1 DEF Leads
    <3> QED
      BY <1>2, <1>5, <3>1, <3>2
  <2>2. /\ Leads(m, Last(a)) /\ (There # Absent => Leads(m, There))
        /\ \A e \in Device : Leads(m, Seen(e))
    BY DEF Safe, Lineage
  <2>3. \A e \in Device : Leads(m, Seen(e))'
    BY <1>5, <2>1, <2>2 DEF Leads
  \* The new publication is ahead of every other rev.
  <2>4. m \in There'.hash =>
          \A e \in Device :
            /\ Last(e)' # Absent /\ There'.rev <= Last(e)'.rev => m \in Last(e)'.hash
            /\ Seen(e)' # Absent /\ There'.rev <= Seen(e)'.rev => m \in Seen(e)'.hash
    <3>1. CASE There' = There
      BY <1>2, <2>1, <2>2, <3>1
    <3>2. CASE Ahead(d)
      <4>1. \A e \in Device :
              /\ Last(e) # Absent => ~(Work(d).rev <= Last(e).rev)
              /\ Seen(e) # Absent => ~(Work(d).rev <= Seen(e).rev)
        BY <3>2, RevsAreNumbers DEF Ahead
      <4> QED
        BY <1>2, <1>5, <4>1
    <3> QED
      BY <3>1, <3>2, PublishAhead
  <2>5. Leads(m, There)'
    BY <1>4, <2>4 DEF Leads
  <2>6. Leads(m, Last(a))'
    <3>1. CASE a # d
      <4>1. Last(a)' = Last(a)
        BY <1>1, <3>1 DEF Others, Same
      <4> QED
        BY <1>1, <2>1, <2>2, <4>1 DEF Leads
    <3>2. CASE a = d
      BY <1>2, <1>4, <2>4, <3>2 DEF Leads
    <3> QED
      BY <3>1, <3>2
  <2> QED
    BY <2>3, <2>5, <2>6 DEF Lineage
<1>9. Fresh(m)'
  BY TransferFresh DEF Safe
<1> QED
  BY <1>6, <1>7, <1>8, <1>9 DEF Safe

-----------------------------------------------------------------------------
(***************************************************************************)
(* The invariant.                                                          *)
(***************************************************************************)
Safety ==
  /\ \A e \in Device : FromPlan(e)
  /\ Unwritten /\ Revs
  /\ \A m \in Mark : Live(m) => Safe(m)

DInv == Typed /\ Clock /\ (Clean => Safety)

\* No mark is new, and none comes back to life.
Ages ==
  \A m \in Mark : /\ written'[m] = Absent => written[m] = Absent
                  /\ Live(m)' => Live(m)

LEMMA UndatedAges == ASSUME Undated, Onward PROVE Ages
<1>1. \A m \in Mark : Current(m)' <=> Current(m)
  BY DEF Undated, Current, Until, IsDeleted
<1> QED
  BY <1>1 DEF Ages, Live, Undated, Onward

LEMMA AppendAges ==
  ASSUME Typed, Clock, NEW op, Now > Cardinality(events), Now \in Nat,
         events' = events \cup {[at |-> Now, op |-> op]}, written' = written, Onward
  PROVE  Ages
<1> DEFINE line == [at |-> Now, op |-> op]
<1>1. line.at = Now
  OBVIOUS
<1>2. ASSUME NEW m \in Mark, Current(m)' PROVE Current(m)
  <2>1. written[m] # Absent
    BY <1>2 DEF Current
  <2>2. written[m] \in Nat /\ written[m] <= Cardinality(events) /\ Cardinality(events) \in Nat
    BY <2>1, Distinct, FS_CardinalityType DEF Typed, Clock
  <2>3. ~(line.at <= written[m])
    BY <1>1, <2>2
  <2> HIDE DEF line
  <2>4. events' = events \cup {line}
    BY DEF line
  <2>5. Until(m)' = Until(m)
    BY <2>3, <2>4 DEF Until
  <2>6. ~IsDeleted(Until(m))
    <3>1. ~IsDeleted(Until(m)')
      BY <1>2 DEF Current, IsDeleted, Held
    <3> QED
      BY <2>5, <3>1
  <2>7. \A e \in events : e.op = "delete" => e.at <= written[m]
    BY <1>2, <2>4 DEF Current
  <2> QED
    BY <2>1, <2>6, <2>7 DEF Current
<1> QED
  BY <1>2 DEF Ages, Live, Onward

LEMMA CleanBefore == ASSUME Onward, Clean' PROVE Clean
BY DEF Onward, Clean

LEMMA ShedSafety ==
  ASSUME Typed, Safety, Ages, NEW d \in Device, Sheds(d),
         \A m \in Mark : Live(m)' => Copy(d)' = Copy(d) \/ m \notin Held(Copy(d))
  PROVE  Safety'
<1>1. \A e \in Device : FromPlan(e)'
  BY ShedPlans DEF Safety
<1>2. Revs'
  BY ShedRevs DEF Safety
<1>3. Unwritten'
  <2>1. SUFFICES ASSUME NEW m \in Mark, written'[m] = Absent
                 PROVE  Unheard(m)' /\ \A e \in Device : m \notin Held(Copy(e)')
    BY DEF Unwritten
  <2>2. Unheard(m) /\ \A e \in Device : m \notin Held(Copy(e))
    BY <2>1 DEF Ages, Safety, Unwritten
  <2> QED
    BY <2>2, ShedUnheard DEF Sheds, Others, Same
<1>4. \A m \in Mark : Live(m)' => Safe(m)'
  BY ShedSafe DEF Ages, Safety
<1> QED
  BY <1>1, <1>2, <1>3, <1>4 DEF Safety

LEMMA PlanSafety ==
  ASSUME Typed, Safety, Ages, NEW d \in Device, NEW listed, Plan(d, listed)
  PROVE  Safety'
<1>1. \A e \in Device : FromPlan(e)'
  BY PlanPlans DEF Safety
<1>2. Revs'
  BY PlanRevs DEF Safety
<1>3. Unwritten'
  <2>1. SUFFICES ASSUME NEW m \in Mark, written'[m] = Absent
                 PROVE  Unheard(m)' /\ \A e \in Device : m \notin Held(Copy(e)')
    BY DEF Unwritten
  <2>2. Unheard(m) /\ \A e \in Device : m \notin Held(Copy(e))
    BY <2>1 DEF Ages, Safety, Unwritten
  <2>3. Unheard(m)' /\ Copy(d)' = Copy(d)
    BY <2>2, PlanUnheard
  <2> QED
    BY <2>2, <2>3 DEF Plan, Others, Same
<1>4. \A m \in Mark : Live(m)' => Safe(m)'
  BY PlanSafe DEF Ages, Safety
<1> QED
  BY <1>1, <1>2, <1>3, <1>4 DEF Safety

LEMMA TransferSafety ==
  ASSUME Typed, Typed', Safety, Ages, NEW d \in Device, Fetches(d) \/ Publishes(d)
  PROVE  Safety'
<1>1. Transfers(d) /\ FromPlan(d) /\ Revs
  BY DEF Fetches, Publishes, Safety
<1>2. \A e \in Device : FromPlan(e)'
  BY <1>1, TransferPlans DEF Safety
<1>3. Revs'
  BY <1>1, FetchRevs, PublishRevs
<1>4. Unwritten'
  <2>1. SUFFICES ASSUME NEW m \in Mark, written'[m] = Absent
                 PROVE  Unheard(m)' /\ \A e \in Device : m \notin Held(Copy(e)')
    BY DEF Unwritten
  <2>2. Unheard(m) /\ \A e \in Device : m \notin Held(Copy(e))
    BY <2>1 DEF Ages, Safety, Unwritten
  <2>3. Unheard(m)' /\ m \notin Held(Copy(d)')
    BY <2>2, TransferUnheard
  <2> QED
    BY <1>1, <2>2, <2>3 DEF Transfers, Others, Same
<1>5. \A m \in Mark : Live(m)' => Safe(m)'
  BY <1>1, FetchSafe, PublishSafe DEF Ages, Safety
<1> QED
  BY <1>2, <1>3, <1>4, <1>5 DEF Safety

\* A mark put on is on its author's copy and nowhere else.
LEMMA MarkSafety ==
  ASSUME Typed, Safety, Clock, NEW d \in Device, NEW m \in Mark, MarkBook(d, m)
  PROVE  Safety'
<1>1. /\ Onward /\ events' = events /\ There' = There /\ Others(d)
      /\ Last(d)' = Last(d) /\ Seen(d)' = Seen(d) /\ Work(d)' = Work(d)
      /\ Copy(d)' = Held(Copy(d)) \cup {m}
      /\ Author[m] = d /\ written[m] = Absent /\ written'[m] # Absent
      /\ \A n \in Mark : n # m => written'[n] = written[n]
      /\ Typed'
  BY MarkIs
<1>2. Copy(d)' # Absent
  <2>1. Held(Copy(d)) \cup {m} \in SUBSET Mark
    BY FileTyped DEF Held
  <2>2. Held(Copy(d)) \cup {m} \in Of("file")
    BY <2>1 DEF Of
  <2> QED
    BY <1>1, <2>2, Distinct, PathsAre
<1>3. /\ \A e \in Device : Last(e)' = Last(e) /\ Seen(e)' = Seen(e) /\ Work(e)' = Work(e)
      /\ \A e \in Device : e # d => Copy(e)' = Copy(e)
  BY <1>1 DEF Others, Same
<1>4. (\A e \in Device : FromPlan(e)') /\ Revs'
  BY <1>1, <1>3 DEF Safety, FromPlan, Revs, Numbered
<1>5. \A n : Unheard(n) => Unheard(n)'
  BY <1>1, <1>3 DEF Unheard, UnheardOn
<1>6. \A n : n # m => \A e \in Device : n \in Held(Copy(e)') <=> n \in Held(Copy(e))
  BY <1>1, <1>2, <1>3 DEF Held
<1>7. m \in Held(Copy(d)')
  BY <1>1, <1>2 DEF Held
<1>8. Unwritten'
  <2>1. SUFFICES ASSUME NEW n \in Mark, written'[n] = Absent
                 PROVE  Unheard(n)' /\ \A e \in Device : n \notin Held(Copy(e)')
    BY DEF Unwritten
  <2>2. n # m
    BY <1>1, <2>1
  <2> QED
    BY <1>1, <1>5, <1>6, <2>1, <2>2 DEF Safety, Unwritten
<1>9. ASSUME NEW n \in Mark, Live(n)' PROVE Safe(n)'
  <2>1. CASE n = m
    <3>1. Unheard(m) /\ \A e \in Device : m \notin Held(Copy(e))
      BY <1>1 DEF Safety, Unwritten
    <3>2. Unheard(m)' /\ \A e \in Device : e # d => m \notin Held(Copy(e)')
      BY <1>3, <1>5, <3>1 DEF Held
    <3>3. AtHome(m)' /\ Fresh(m)'
      BY <1>1, <1>7, <3>2 DEF AtHome, Fresh
    <3>4. \A e \in Device : UnheardOn(m, e)'
      BY <3>2 DEF Unheard
    <3>5. \A e \in Device : Work(e) \in ItemOf("file")
      BY FileTyped
    <3>6. Kept(m)'
      BY <1>3, <3>4, <3>5 DEF Kept, UnheardOn, Known, Held, ItemOf
    <3>7. Lineage(m)'
      BY <1>1, <3>2, <3>4 DEF Lineage, Leads, UnheardOn, Unheard
    <3> QED
      BY <2>1, <3>3, <3>6, <3>7 DEF Safe
  <2>2. CASE n # m
    <3>1. Current(n)' <=> Current(n)
      BY <1>1, <2>2 DEF Current, Until, IsDeleted
    <3>2. Safe(n)
      BY <1>1, <1>9, <3>1 DEF Safety, Live, Onward
    <3>3. \A e \in Device : n \in Held(Copy(e)') <=> n \in Held(Copy(e))
      BY <1>6, <2>2
    <3>4. AtHome(n)'
      BY <3>2, <3>3, Distinct DEF Safe, AtHome
    <3>5. Kept(n)'
      BY <1>3, <3>2, <3>3 DEF Safe, Kept, Known, Held
    <3>6. Lineage(n)'
      BY <1>1, <1>3, <3>2, Distinct DEF Safe, Lineage, Leads
    <3>7. Fresh(n)'
      BY <1>3, <1>5, <3>2, <3>3, Distinct DEF Safe, Fresh, Known
    <3> QED
      BY <3>4, <3>5, <3>6, <3>7 DEF Safe
  <2> QED
    BY <2>1, <2>2
<1> QED
  BY <1>4, <1>8, <1>9 DEF Safety

-----------------------------------------------------------------------------
LEMMA InitSafety == ASSUME Init PROVE Clean => Safety
<1>1. Typed
  BY InitIs
<1>2. /\ \A e \in Device : Copy(e) = {} /\ Last(e) = [rev |-> 2, hash |-> {}]
      /\ There = [rev |-> 2, hash |-> {}, bytes |-> {}]
      /\ \A e \in Device : pass[e] = Idle
      /\ \A m \in Mark : written[m] = Absent
  BY PathsAre DEF Init, Copy, Last, There
<1>3. \A e \in Device : Work(e) = Nothing /\ Seen(e) = Absent
  BY <1>2, IdleIs, PathsAre DEF Work, Seen
<1>4. \A e \in Device : FromPlan(e)
  BY <1>3, NothingKind DEF FromPlan
<1>5. Revs
  BY <1>2, <1>3 DEF Revs, Numbered
<1>6. Unwritten
  BY <1>2, <1>3, NothingKind DEF Unwritten, Unheard, UnheardOn, Held
<1>7. \A m \in Mark : ~Live(m)
  BY <1>2 DEF Live, Current
<1> QED
  BY <1>4, <1>5, <1>6, <1>7 DEF Safety

LEMMA ReaderSafety ==
  ASSUME Typed, Clock, Clean => Safety, NEW d \in Device, Reader(d), Clean'
  PROVE  Safety'
<1>1. ASSUME NEW op \in Op, Append(d, op), clearing' \in [Device -> BOOLEAN] PROVE Safety'
  <2>1. /\ Onward /\ written' = written /\ There' = There /\ \A e \in Device : Same(e)
        /\ events' = events \cup {[at |-> Now, op |-> op]} /\ Now > Cardinality(events)
    BY <1>1, AppendIs
  <2>2. Now \in Nat
    BY FS_CardinalityType DEF Now, Clock
  <2>3. Ages
    BY <2>1, <2>2, AppendAges
  <2>4. Sheds(d) /\ Copy(d)' = Copy(d)
    BY <2>1 DEF Sheds, Others, Same
  <2> QED
    BY <2>1, <2>3, <2>4, CleanBefore, ShedSafety
<1>2. CASE DeleteBook(d)
  <2>1. clearing' \in [Device -> BOOLEAN]
    BY <1>2 DEF DeleteBook, Typed
  <2> QED
    BY <1>1, <1>2, <2>1, OpsAre DEF DeleteBook
<1>3. CASE ImportBook(d)
  <2>1. clearing' \in [Device -> BOOLEAN]
    BY <1>3 DEF ImportBook, Typed
  <2> QED
    BY <1>1, <1>3, <2>1, OpsAre DEF ImportBook
<1>4. CASE Clear(d)
  <2>1. /\ Onward /\ Undated /\ There' = There /\ Others(d)
        /\ Last(d)' = Last(d) /\ Seen(d)' = Seen(d) /\ Work(d)' = Work(d)
        /\ \/ Copy(d)' = Copy(d)
           \/ Copy(d)' = Absent /\ (CurrentOf(Copy(d)) # {} => "linger" \in windows')
    BY <1>4, ClearIs
  <2>2. Ages /\ Safety
    BY <2>1, UndatedAges, CleanBefore
  <2>3. Sheds(d)
    BY <2>1 DEF Sheds
  <2>4. ASSUME NEW m \in Mark, Live(m)' PROVE Copy(d)' = Copy(d) \/ m \notin Held(Copy(d))
    <3>1. Current(m)
      BY <2>2, <2>4 DEF Ages, Live
    <3>2. "linger" \notin windows'
      BY DEF Clean, Astray
    <3> QED
      BY <2>1, <3>1, <3>2 DEF CurrentOf
  <2> QED
    BY <2>2, <2>3, <2>4, ShedSafety
<1>5. ASSUME NEW m \in Mark, MarkBook(d, m) PROVE Safety'
  <2>1. Onward
    BY <1>5, MarkIs
  <2> QED
    BY <1>5, <2>1, CleanBefore, MarkSafety
<1> QED
  BY <1>2, <1>3, <1>4, <1>5 DEF Reader

LEMMA PassSafety ==
  ASSUME Typed, Clock, Clean => Safety, NEW d \in Device, Passes(d), Clean'
  PROVE  Safety'
<1>1. ASSUME Passing(d) PROVE Typed' /\ Others(d) /\ Ages /\ Safety /\ Onward
  BY <1>1, UndatedAges, CleanBefore DEF Passing
<1>2. ASSUME Passing(d), Sheds(d), Copy(d)' = Copy(d) PROVE Safety'
  BY <1>1, <1>2, ShedSafety
<1>3. ASSUME Passing(d), NEW listed, Plan(d, listed) PROVE Safety'
  BY <1>1, <1>3, PlanSafety
<1>4. CASE ListAndPull(d)
  <2>1. /\ Passing(d) /\ There' = There /\ Copy(d)' = Copy(d) /\ Last(d)' = Last(d)
        /\ Seen(d)' = Lists("file") /\ Work(d)' = Nothing
    BY <1>4, ListAndPullIs
  <2>2. Plan(d, Lists("file"))
    BY <2>1, NothingKind DEF Plan, PlansFile, Sound, Passing
  <2> QED
    BY <1>3, <2>1, <2>2
<1>5. CASE ListAndPlan(d)
  <2>1. Passing(d) /\ PlansFile(d, Lists("file"))
    BY <1>5, ListAndPlanIs
  <2>2. Plan(d, Lists("file"))
    BY <2>1 DEF Plan, Passing
  <2> QED
    BY <1>3, <2>1, <2>2
<1>6. CASE PullLogFirst(d)
  <2>1. Passing(d) /\ PlansFile(d, Seen(d))
    BY <1>6, PullLogFirstIs
  <2>2. Plan(d, Seen(d))
    BY <2>1 DEF Plan, Passing
  <2> QED
    BY <1>3, <2>1, <2>2
<1>7. ASSUME NEW p \in Path, Move(d, p) PROVE Safety'
  <2>1. Passing(d) /\ Listens(d)
    BY <1>7, MoveIs
  <2>2. CASE p = "log"
    <3>1. There' = There /\ Copy(d)' = Copy(d) /\ Last(d)' = Last(d) /\ Work(d)' = Work(d)
      BY <1>7, <2>2, MoveIs
    <3>2. Sheds(d)
      BY <2>1, <3>1 DEF Sheds, Listens, Passing
    <3> QED
      BY <1>2, <2>1, <3>1, <3>2
  <2>3. CASE p = "file"
    <3>1. (Sheds(d) /\ Copy(d)' = Copy(d)) \/ Fetches(d) \/ Publishes(d)
      BY <1>7, <2>3, MoveSplits
    <3>2. CASE Fetches(d) \/ Publishes(d)
      BY <1>1, <2>1, <3>2, TransferSafety
    <3> QED
      BY <1>2, <2>1, <3>1, <3>2
  <2> QED
    BY <2>2, <2>3, PathsAre
<1>8. ASSUME NEW p \in Path, Purge(d, p) PROVE Safety'
  <2>1. /\ Passing(d) /\ Listens(d) /\ There' = There /\ Last(d)' = Last(d)
        /\ Work(d)'.kind = "unlist" /\ Copy(d)' = Absent
        /\ Held(Copy(d)) \subseteq trash' \/ "journal" \in windows'
    BY <1>8, PurgeIs
  <2>2. Sheds(d)
    BY <2>1 DEF Sheds, Listens, Passing
  <2>3. \A m \in Mark : Live(m)' => m \notin Held(Copy(d))
    BY <2>1 DEF Live, Clean, Astray
  <2> QED
    BY <1>1, <2>1, <2>2, <2>3, ShedSafety
<1>9. ASSUME NEW p \in Path, Unlist(d, p) PROVE Safety'
  <2>1. /\ Passing(d) /\ Listens(d) /\ Copy(d)' = Copy(d)
        /\ Work(d)' = Nothing /\ Last(d)' = Absent /\ There' \in {There, Absent}
    BY <1>9, UnlistIs
  <2>2. Sheds(d)
    BY <2>1, NothingKind DEF Sheds, Listens, Passing
  <2> QED
    BY <1>2, <2>1, <2>2
<1>10. ASSUME NEW p \in Path, Fail(d, p) PROVE Safety'
  <2>1. /\ Passing(d) /\ Listens(d) /\ There' = There /\ Copy(d)' = Copy(d)
        /\ Last(d)' = Last(d) /\ Work(d)' \in {Work(d), Nothing}
    BY <1>10, FailIs
  <2>2. Sheds(d)
    BY <2>1, NothingKind DEF Sheds, Listens, Passing
  <2> QED
    BY <1>2, <2>1, <2>2
<1> QED
  BY <1>4, <1>5, <1>6, <1>7, <1>8, <1>9, <1>10 DEF Passes

LEMMA StutterSafety == ASSUME Clean => Safety, UNCHANGED vars, Clean' PROVE Safety'
<1>1. /\ disk' = disk /\ snap' = snap /\ remote' = remote /\ pass' = pass /\ trash' = trash
      /\ written' = written /\ events' = events /\ windows' = windows
  BY DEF vars, history
<1>2. /\ \A e \in Device : Same(e)
      /\ There' = There
  BY <1>1 DEF Same, Copy, Last, Seen, Work, There
<1>3. Safety
  BY <1>1 DEF Clean
<1>4. \A m \in Mark : Live(m)' <=> Live(m)
  BY <1>1 DEF Live, Current, Until, IsDeleted
<1>5. (\A e \in Device : FromPlan(e)') /\ Revs'
  BY <1>2, <1>3 DEF Safety, FromPlan, Revs, Numbered, Same
<1>6. \A m : Unheard(m) => Unheard(m)'
  BY <1>2 DEF Unheard, UnheardOn, Same
<1>7. Unwritten'
  BY <1>1, <1>2, <1>3, <1>6 DEF Safety, Unwritten, Same
<1>8. ASSUME NEW m \in Mark, Safe(m) PROVE Safe(m)'
  <2>1. Author[m] \in Device
    BY Distinct
  <2>2. AtHome(m)' /\ Kept(m)' /\ Lineage(m)'
    BY <1>2, <1>8, <2>1 DEF Safe, AtHome, Kept, Lineage, Leads, Same, Known, Held
  <2>3. Fresh(m)'
    BY <1>2, <1>6, <1>8, <2>1 DEF Safe, Fresh, Same, Known, Held
  <2> QED
    BY <2>2, <2>3 DEF Safe
<1> QED
  BY <1>3, <1>4, <1>5, <1>7, <1>8 DEF Safety

LEMMA StepSafe == ASSUME DInv, [Next]_vars PROVE DInv'
<1>1. Typed' /\ Clock'
  BY StepTyped DEF DInv
<1>2. ASSUME Clean' PROVE Safety'
  <2>1. CASE UNCHANGED vars
    BY <1>2, <2>1, StutterSafety DEF DInv
  <2>2. ASSUME NEW d \in Device, Reader(d) PROVE Safety'
    BY <1>2, <2>2, ReaderSafety DEF DInv
  <2>3. ASSUME NEW d \in Device, Passes(d) PROVE Safety'
    BY <1>2, <2>3, PassSafety DEF DInv
  <2> QED
    BY <2>1, <2>2, <2>3 DEF Next
<1> QED
  BY <1>1, <1>2 DEF DInv

(***************************************************************************)
(* A mark of the book's present life is on some device, in the remote or   *)
(* in the journal a purge writes first (engine.ts:616-620), but for the    *)
(* windows: its author still has it.                                       *)
(***************************************************************************)
THEOREM NothingVanishes == Spec => []NothingUnjournalled
<1>1. Init => DInv
  BY InitIs, InitSafety DEF DInv
<1>2. DInv /\ [Next]_vars => DInv'
  BY StepSafe
<1>3. DInv => NothingUnjournalled
  <2>1. SUFFICES ASSUME DInv, NEW m \in Mark, Lost(m), Clean PROVE FALSE
    BY DEF NothingUnjournalled, Clean, Astray
  <2>2. AtHome(m)
    BY <2>1 DEF DInv, Safety, Lost, Live, Safe
  <2> QED
    BY <2>1, <2>2, Distinct DEF AtHome, Lost, Somewhere, Copy
<1> QED
  BY <1>1, <1>2, <1>3, PTL DEF Spec
=============================================================================
