----------------------------- MODULE Deletions -----------------------------
(***************************************************************************)
(* A book deleted and imported again, on devices whose passes read the     *)
(* deletion log (src/platform/app/deleted-books.ts and dead-paths.ts; in   *)
(* src/platform/sync/engine.ts pullLogFirst, deletions, purgeDead and the  *)
(* order of runPass).  Two files: the log, and one file of the book's.     *)
(*                                                                         *)
(* A content is a set, of events or of marks; its hash is the content.  A  *)
(* mark is never deleted by itself, so a merge is a union with or without  *)
(* a base, as it is for the lines of the log.  One transfer is one step,   *)
(* and a mtime always moves with the content: what happens inside them is  *)
(* SyncFile's.  One clock dates the lines.  Inferred deletions are         *)
(* switched off in the source.                                             *)
(***************************************************************************)
EXTENDS Integers, FiniteSets

CONSTANTS
  Device, Mark,
  Author,      \* the device each mark is written on
  NoHash, Absent,
  MaxEvents,   \* bound: deletions and imports
  MaxRev,      \* bound: revs a publication may carry
  MaxFaults    \* bound: requests, removals and journal entries that fail

VARIABLES
  disk,      \* the log and the file on every device
  snap,      \* the snapshot entries of the two
  remote,    \* their remote entries, with the bytes
  pass,      \* what the running pass of each device still has to do
  clearing,  \* a deletion of the reader's has yet to take the files away
  trash,     \* the marks that were journalled
  written,   \* history: when each mark was written, or Absent
  events,    \* history: every event there ever was
  windows,   \* history: the named windows that opened
  faults

history == <<written, events, windows>>
vars == <<disk, snap, remote, pass, clearing, trash, faults, history>>

Path == {"log", "file"}
Op == {"delete", "revive"}
Event == [at : 1 .. MaxEvents, op : Op]
Content == (SUBSET Event) \cup (SUBSET Mark)
Bytes == Content \cup {Absent}

ASSUME DeletionsAssumption ==
  /\ Author \in [Mark -> Device] /\ {MaxEvents, MaxRev, MaxFaults} \subseteq Nat /\ MaxRev >= 2
  /\ Absent # NoHash /\ Absent \notin Nat /\ \A c \in Content : c # Absent /\ c # NoHash
  /\ Absent \notin [rev : Nat, hash : Content \cup {NoHash}]
  /\ Absent \notin [rev : Nat, hash : Content, bytes : Content]

R == INSTANCE Reconcile WITH Hash <- Content

Entry == [rev : 0 .. MaxRev, hash : Content] \cup {Absent}
Published == [rev : 0 .. MaxRev, hash : Content, bytes : Content] \cup {Absent}

\* "unlist" is the second half of a purge.
Kinds == {"none", "purge", "unlist", "download", "merge", "upload"}
Item == [kind : Kinds, rev : 0 .. MaxRev, hash : Bytes]
Nothing == [kind |-> "none", rev |-> 0, hash |-> Absent]

Pass == [pulls : BOOLEAN, listed : [Path -> Entry], plan : [Path -> Item]]
Idle == [pulls |-> FALSE, listed |-> [p \in Path |-> Absent], plan |-> [p \in Path |-> Nothing]]

(***************************************************************************)
(* The windows: a download over what was written since the scan (over); a  *)
(* publication over one that was not listed (race); a purge that took a    *)
(* mark of the book's new life out of the remote, the log that revives it  *)
(* unlisted or not pulled (late); one that took it off the disk (under); a *)
(* deletion that took its files away after the book had come back          *)
(* (linger); a file published anew after a purge, at a rev that a device's *)
(* entry, or the listing its pass works from, has reached (restart); a     *)
(* journal that was not written (journal).                                 *)
(***************************************************************************)
Windows == {"over", "race", "late", "under", "linger", "restart", "journal"}

TypeOK ==
  /\ disk \in [Device -> [Path -> Bytes]] /\ snap \in [Device -> [Path -> Entry]]
  /\ remote \in [Path -> Published] /\ pass \in [Device -> Pass]
  /\ clearing \in [Device -> BOOLEAN] /\ trash \subseteq Mark
  /\ written \in [Mark -> (0 .. MaxEvents) \cup {Absent}] /\ events \subseteq Event
  /\ windows \subseteq Windows /\ faults \in 0 .. MaxFaults

\* A book every device has, without marks, and nothing was ever deleted.
Init ==
  /\ disk = [d \in Device |-> [p \in Path |-> IF p = "file" THEN {} ELSE Absent]]
  /\ snap = [d \in Device |-> [p \in Path |-> IF p = "file" THEN [rev |-> 2, hash |-> {}] ELSE Absent]]
  /\ remote = [p \in Path |-> IF p = "file" THEN [rev |-> 2, hash |-> {}, bytes |-> {}] ELSE Absent]
  /\ pass = [d \in Device |-> Idle] /\ clearing = [d \in Device |-> FALSE]
  /\ trash = {} /\ written = [m \in Mark |-> Absent] /\ events = {}
  /\ windows = {} /\ faults = 0

Fault == faults < MaxFaults /\ faults' = faults + 1
Held(c) == IF c = Absent THEN {} ELSE c
Opens(window, condition) == windows' = windows \cup IF condition THEN {window} ELSE {}
Lists(p) == IF remote[p] = Absent THEN Absent ELSE [rev |-> remote[p].rev, hash |-> remote[p].hash]

-----------------------------------------------------------------------------
(***************************************************************************)
(* deleted-books.ts: the latest event decides, and a tie goes to the       *)
(* delete.  dead-paths.ts: the book's file is dead when the book is.       *)
(***************************************************************************)
IsDeleted(log) ==
  \E e \in Held(log) : e.op = "delete" /\ \A f \in Held(log) : f.at <= e.at

Now == Cardinality(events) + 1

Append(d, op) ==
  /\ Now <= MaxEvents
  /\ LET line == [at |-> Now, op |-> op] IN
     /\ disk' = [disk EXCEPT ![d]["log"] = Held(@) \cup {line}]
     /\ events' = events \cup {line}
  /\ UNCHANGED <<snap, remote, pass, trash, written, windows, faults>>

Until(m) == {e \in events : e.at <= written[m]}

\* A mark of the book's present life: put on a book that was not deleted, nor
\* was since.
Current(m) ==
  /\ written[m] # Absent /\ ~IsDeleted(Until(m))
  /\ \A e \in events : e.op = "delete" => e.at <= written[m]
CurrentOf(c) == {m \in Held(c) : Current(m)}

-----------------------------------------------------------------------------
(***************************************************************************)
(* The reader.  deleteBook writes the line first and takes the files away  *)
(* several awaits later, unless one will not go or the process dies;       *)
(* importBook writes the line before anything else.                        *)
(***************************************************************************)
DeleteBook(d) ==
  /\ ~IsDeleted(disk[d]["log"]) /\ ~clearing[d]
  /\ Append(d, "delete") /\ clearing' = [clearing EXCEPT ![d] = TRUE]

Clear(d) ==
  /\ clearing[d] /\ clearing' = [clearing EXCEPT ![d] = FALSE]
  /\ \/ /\ disk' = [disk EXCEPT ![d]["file"] = Absent] /\ UNCHANGED faults
        /\ Opens("linger", CurrentOf(disk[d]["file"]) # {})
     \/ Fault /\ UNCHANGED <<disk, windows>>
  /\ UNCHANGED <<snap, remote, pass, trash, written, events>>

ImportBook(d) ==
  /\ IsDeleted(disk[d]["log"])
  /\ Append(d, "revive") /\ UNCHANGED clearing

MarkBook(d, m) ==
  /\ Author[m] = d /\ written[m] = Absent
  /\ ~IsDeleted(disk[d]["log"]) /\ ~clearing[d]
  /\ disk' = [disk EXCEPT ![d]["file"] = Held(@) \cup {m}]
  /\ written' = [written EXCEPT ![m] = Now - 1]
  /\ UNCHANGED <<snap, remote, pass, clearing, trash, events, windows, faults>>

-----------------------------------------------------------------------------
(***************************************************************************)
(* runPass: the listing, the log first, then the plan.                     *)
(***************************************************************************)
Decided(loc, listed, entry, dead) ==
  LET plan == R!Decide(loc, entry = Absent \/ loc # entry.hash, listed, entry, dead)
  IN [kind |-> IF plan.kind = "mergeNoBase" THEN "merge" ELSE plan.kind,
      rev |-> plan.rev,
      hash |-> IF plan.kind \in {"upload", "converged"} THEN loc ELSE Absent]

Listing == [p \in Path |-> Lists(p)]

\* What a pass plans from the files and entries it has by now.
Planned(files, entries, listed) ==
  [p \in Path |->
     IF files[p] = Absent /\ listed[p] = Absent /\ entries[p] = Absent THEN Nothing
     ELSE Decided(files[p], listed[p], entries[p], p = "file" /\ IsDeleted(files["log"]))]

\* Converged entries are noted with the plan; of a dropBase the entry stays.
Noted(entries, plan) ==
  [p \in Path |-> IF plan[p].kind = "converged" THEN [rev |-> plan[p].rev, hash |-> plan[p].hash]
                  ELSE entries[p]]

\* Mutant of Rest: what was noted stays in the plan.
RestWithNotes(plan) ==
  [p \in Path |-> IF plan[p].kind \in {"none", "dropBase"} THEN Nothing ELSE plan[p]]

\* What is left for the transfers.
Rest(plan) ==
  [p \in Path |-> IF plan[p].kind \in {"none", "converged", "dropBase"} THEN Nothing ELSE plan[p]]

Working(listed, plan) ==
  IF \E p \in Path : plan[p] # Nothing THEN [pulls |-> FALSE, listed |-> listed, plan |-> plan]
  ELSE Idle

\* The bound on revs.
Within(plan) == \A p \in Path : plan[p].rev <= MaxRev

PullsLog(d) ==
  Decided(disk[d]["log"], Listing["log"], snap[d]["log"], FALSE).kind \in {"download", "merge"}

ListAndPull(d) ==
  /\ pass[d] = Idle /\ PullsLog(d)
  /\ LET log == Decided(disk[d]["log"], Listing["log"], snap[d]["log"], FALSE) IN
     /\ log.rev <= MaxRev
     /\ pass' = [pass EXCEPT ![d] = [pulls |-> TRUE, listed |-> Listing,
                                     plan |-> [Idle.plan EXCEPT !["log"] = log]]]
  /\ UNCHANGED <<disk, snap, remote, clearing, trash, faults, history>>

ListAndPlan(d) ==
  /\ pass[d] = Idle /\ ~PullsLog(d)
  /\ \E listed \in {Listing} : \E plan \in {Planned(disk[d], snap[d], listed)} :
     /\ Within(plan) /\ (Noted(snap[d], plan) # snap[d] \/ Rest(plan) # Idle.plan)
     /\ pass' = [pass EXCEPT ![d] = Working(listed, Rest(plan))]
     /\ snap' = [snap EXCEPT ![d] = Noted(@, plan)]
  /\ UNCHANGED <<disk, remote, clearing, trash, faults, history>>

-----------------------------------------------------------------------------
(***************************************************************************)
(* One item of the plan.  A purge takes the local copy first, by way of    *)
(* the journal.                                                            *)
(***************************************************************************)
Stage(kind) ==
  CASE kind \in {"purge", "unlist"} -> 1
    [] kind = "download" -> 2
    [] kind = "merge" -> 3
    [] kind = "upload" -> 4
    [] OTHER -> 5

Turn(d, p, kind) ==
  /\ ~pass[d].pulls /\ pass[d].plan[p].kind = kind
  /\ \A q \in Path : Stage(kind) <= Stage(pass[d].plan[q].kind)

Continues(d, p, item) ==
  pass' = [pass EXCEPT ![d] = Working(@.listed, [@.plan EXCEPT ![p] = item])]
Done(d, p) == Continues(d, p, Nothing)

\* The local file, its entry and its remote entry after item took place.
Downloaded(d, p, item) ==
  IF remote[p] = Absent THEN <<disk[d][p], snap[d][p], Absent>>
  ELSE <<remote[p].bytes, [rev |-> item.rev, hash |-> remote[p].bytes], remote[p]>>

\* Mutant of Merged: the merge stays on the device that made it.
MergedHere(d, p, item) ==
  LET out == disk[d][p] \cup remote[p].bytes IN
  IF remote[p] = Absent \/ disk[d][p] = Absent THEN <<disk[d][p], snap[d][p], remote[p]>>
  ELSE <<out, [rev |-> item.rev, hash |-> out], remote[p]>>

Merged(d, p, item) ==
  LET out == disk[d][p] \cup remote[p].bytes IN
  IF remote[p] = Absent \/ disk[d][p] = Absent THEN <<disk[d][p], snap[d][p], remote[p]>>
  ELSE <<out, [rev |-> item.rev, hash |-> out], [rev |-> item.rev, hash |-> out, bytes |-> out]>>

Uploaded(d, p, item) ==
  IF disk[d][p] = Absent THEN <<Absent, snap[d][p], remote[p]>>
  ELSE <<disk[d][p], [rev |-> item.rev, hash |-> item.hash],
         [rev |-> item.rev, hash |-> item.hash, bytes |-> disk[d][p]]>>

Moved(d, p, item) ==
  CASE item.kind = "download" -> Downloaded(d, p, item)
    [] item.kind = "merge" -> Merged(d, p, item)
    [] item.kind = "upload" -> Uploaded(d, p, item)

Known(entry) == IF entry = Absent THEN {} ELSE entry.hash
Passed(p, rev) ==
  \E e \in Device : \E seen \in {snap[e][p], pass[e].listed[p]} : seen # Absent /\ rev <= seen.rev

Puts(d, p, moved) ==
  /\ disk' = [disk EXCEPT ![d][p] = moved[1]]
  /\ remote' = [remote EXCEPT ![p] = moved[3]]
  /\ windows' = windows
       \cup (IF Held(disk[d][p]) \subseteq Held(moved[1]) \cup Known(snap[d][p]) THEN {}
             ELSE {"over"})
       \cup (IF remote[p] = moved[3] \/ Lists(p) = pass[d].listed[p] THEN {} ELSE {"race"})
       \cup (IF remote[p] = Absent /\ moved[3] # Absent /\ Passed(p, moved[3].rev)
             THEN {"restart"} ELSE {})

PullLogFirst(d) ==
  LET moved == Moved(d, "log", pass[d].plan["log"])
      After(entries) ==
        \E plan \in {Planned(disk'[d], entries, pass[d].listed)} :
        /\ Within(plan) /\ pass' = [pass EXCEPT ![d] = Working(pass[d].listed, Rest(plan))]
        /\ snap' = [snap EXCEPT ![d] = Noted(entries, plan)]
  IN
  /\ pass[d].pulls
  /\ \/ Puts(d, "log", moved) /\ After([snap[d] EXCEPT !["log"] = moved[2]]) /\ UNCHANGED faults
     \/ Fault /\ UNCHANGED <<disk, remote>> /\ After(snap[d]) /\ Opens("late", TRUE)
  /\ UNCHANGED <<clearing, trash, written, events>>

Move(d, p) ==
  LET moved == Moved(d, p, pass[d].plan[p]) IN
  /\ \E kind \in {"download", "merge", "upload"} : Turn(d, p, kind)
  /\ Puts(d, p, moved) /\ snap' = [snap EXCEPT ![d][p] = moved[2]] /\ Done(d, p)
  /\ UNCHANGED <<clearing, trash, written, events, faults>>

\* Mutant of Purge: the file goes without the journal.
PurgeUnjournalled(d, p) ==
  /\ Turn(d, p, "purge") /\ Continues(d, p, [Nothing EXCEPT !.kind = "unlist"])
  /\ disk' = [disk EXCEPT ![d][p] = Absent]
  /\ UNCHANGED <<snap, remote, clearing, trash, faults, history>>

Purge(d, p) ==
  /\ Turn(d, p, "purge") /\ Continues(d, p, [Nothing EXCEPT !.kind = "unlist"])
  /\ disk' = [disk EXCEPT ![d][p] = Absent]
  /\ LET taken == Held(disk[d][p]) IN
     \/ /\ trash' = trash \cup taken /\ UNCHANGED faults
        /\ Opens("under", CurrentOf(taken) # {})
     \/ Fault /\ UNCHANGED trash /\ Opens("journal", TRUE)
  /\ UNCHANGED <<snap, remote, clearing, written, events>>

\* Then the remote copy, if it was listed, and the entry.
Unlist(d, p) ==
  /\ Turn(d, p, "unlist") /\ Done(d, p)
  /\ LET listed == pass[d].listed[p] # Absent IN
     /\ remote' = IF listed THEN [remote EXCEPT ![p] = Absent] ELSE remote
     /\ \/ listed /\ Lists(p) \notin {Absent, pass[d].listed[p]} /\ Opens("race", TRUE)
        \/ /\ listed => Lists(p) \in {Absent, pass[d].listed[p]}
           /\ Opens("late", /\ listed /\ remote[p] # Absent
                            /\ \E m \in CurrentOf(remote[p].bytes) :
                                 ~(Until(m) \subseteq Known(pass[d].listed["log"])))
  /\ snap' = [snap EXCEPT ![d][p] = Absent]
  /\ UNCHANGED <<disk, clearing, trash, faults, written, events>>

\* A request, or the local removal, fails: the item is over for this pass.
Fail(d, p) ==
  /\ \E kind \in Kinds \ {"none"} : Turn(d, p, kind)
  /\ Fault /\ Done(d, p)
  /\ trash' = trash \cup IF Turn(d, p, "purge") THEN Held(disk[d][p]) ELSE {}
  /\ UNCHANGED <<disk, snap, remote, clearing, history>>

Reader(d) ==
  DeleteBook(d) \/ Clear(d) \/ ImportBook(d) \/ \E m \in Mark : MarkBook(d, m)

Passes(d) ==
  \/ ListAndPull(d) \/ ListAndPlan(d) \/ PullLogFirst(d)
  \/ \E p \in Path : Move(d, p) \/ Purge(d, p) \/ Unlist(d, p) \/ Fail(d, p)

Next == \E d \in Device : Reader(d) \/ Passes(d)

Spec == Init /\ [][Next]_vars

\* Passes run again and again, and an await comes back.
Fairness ==
  \A d \in Device : WF_<<pass[d], snap[d]>>(Passes(d)) /\ WF_<<clearing[d]>>(Clear(d))
FairSpec == Spec /\ Fairness

-----------------------------------------------------------------------------
Somewhere(m) == \/ \E d \in Device : m \in Held(disk[d]["file"])
                \/ remote["file"] # Absent /\ m \in remote["file"].bytes
Lost(m) == Current(m) /\ ~Somewhere(m) /\ m \notin trash

(***************************************************************************)
(* A mark of the book's present life is on some device, in the remote or   *)
(* in the journal a purge writes first (engine.ts:616-620), but for the    *)
(* windows that take it elsewhere.                                         *)
(***************************************************************************)
NothingUnjournalled ==
  \A m \in Mark : Lost(m) => windows \cap {"journal", "linger", "over", "race", "restart"} # {}

(***************************************************************************)
(* Two devices that both have a mark come out with both, and neither side  *)
(* wins the whole file (engine.ts:858-860), when no request fails and      *)
(* nothing is written while a pass moves it.                               *)
(***************************************************************************)
NeitherSideWins ==
  \A m \in Mark : Lost(m) => windows \cap {"journal", "linger", "over", "race"} # {}

(***************************************************************************)
(* A deleted book goes from everywhere in the end and stays away           *)
(* (deleted-books.ts:4-9), unless its line was lost to a race.             *)
(***************************************************************************)
DeadStaysDead ==
  <>[](IsDeleted(events) =>
         \/ remote["file"] = Absent /\ \A d \in Device : disk[d]["file"] = Absent
         \/ windows \cap {"over", "race"} # {})

(***************************************************************************)
(* A book that came back has the marks of its new life on every device in  *)
(* the end (engine.ts:733-739), but for the windows.                       *)
(***************************************************************************)
Everywhere ==
  \A m \in Mark, d \in Device : Current(m) => m \in Held(disk[d]["file"])
RevivedReachesAll ==
  <>[](IsDeleted(events) \/ Everywhere \/ windows # {})
=============================================================================
