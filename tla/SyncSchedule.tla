---------------------------- MODULE SyncSchedule ----------------------------
(***************************************************************************)
(* When the sync engine of one device runs a pass, what the pass takes on, *)
(* and what is left to answer for when it ends (src/platform/sync:         *)
(* engine.ts, pass-failures.ts).                                           *)
(*                                                                         *)
(* A path is followed as the number of the newest edit in it, counted path *)
(* by path: disk is the edit the file holds, known the edit the snapshot   *)
(* says is published.  What a transfer does to the two copies is           *)
(* SyncFile's subject; here the question is which paths get a transfer,    *)
(* when, and who remembers.                                                *)
(***************************************************************************)
EXTENDS Integers, FiniteSets, Sequences

CONSTANTS
  Path,
  Width,           \* DATA_CONCURRENCY
  MaxConsecutive,  \* MAX_CONSECUTIVE_FAILURES
  PullTicks,       \* PULL_INTERVAL_MS, in ticks
  ResumeTicks,     \* RESUME_MIN_INTERVAL_MS, in ticks
  MaxBooks,        \* bound: book transfers asked for at a time
  MaxEdits,        \* bound: edits and asks of the reader, edits of the others
  MaxFaults        \* bound: failures, files gone from the remote, restarts

ASSUME SyncScheduleAssumption ==
  /\ IsFiniteSet(Path)
  /\ Width \in Nat \ {0} /\ MaxConsecutive \in Nat \ {0}
  /\ PullTicks \in Nat /\ ResumeTicks \in Nat
  /\ {MaxBooks, MaxEdits, MaxFaults} \subseteq Nat

VARIABLES
  disk, known,
  theirs,     \* the paths another device has published since they were pulled
  untold,     \* the paths with a write on disk that is not announced yet
  dirty,      \* the announced changes no pass has claimed
  credit,     \* selfWrites: this engine's own writes on their way to the disk
  pass,       \* the running pass: its stage, its claim, its failures
  job,        \* where the pass is with each path
  books,      \* the book transfers asked for, and what each waits for
  seen,       \* the edit the scan, or the merge, read in each path
  sincePull, sincePass,  \* ticks since lastPullAt and lastPassAt
  told,       \* history: paths whose newest edit has been announced
  swallowed,  \* history: paths whose announcement paid for a write that threw
  skipped,    \* history: paths whose merge found the file gone from the remote
  edits, faults

history == <<told, swallowed, skipped>>
clock == <<sincePull, sincePass>>
vars == <<disk, known, theirs, untold, dirty, credit, pass, job, books, seen,
          clock, history, edits, faults>>

Stages == {"idle", "list", "planned", "downloads", "merges", "uploads"}
Waits == {"pass", "book", "wire"}
Jobs == {"none", "download", "pulling", "landing",
         "merge", "merging", "publishing", "upload", "sending"}
Pass == [stage : Stages, claimed : SUBSET Path, clean : BOOLEAN, streak : Nat]

TypeOK ==
  /\ disk \in [Path -> 0 .. edits] /\ known \in [Path -> 0 .. edits]
  /\ theirs \subseteq Path /\ untold \subseteq Path /\ dirty \subseteq Path
  /\ credit \in [Path -> 0 .. 1]
  /\ pass \in Pass
  /\ job \in [Path -> Jobs]
  /\ books \in Seq(Waits) /\ Len(books) <= MaxBooks
  /\ seen \in [Path -> 0 .. edits]
  /\ sincePull \in 0 .. PullTicks /\ sincePass \in 0 .. ResumeTicks
  /\ told \subseteq Path /\ swallowed \subseteq Path /\ skipped \subseteq Path
  /\ edits \in 0 .. MaxEdits /\ faults \in 0 .. MaxFaults

NoJobs == [p \in Path |-> "none"]
Idle == [stage |-> "idle", claimed |-> {}, clean |-> TRUE, streak |-> 0]

\* A device in step, its engine about to start: no pull and no pass yet.
Init ==
  /\ disk = [p \in Path |-> 0] /\ known = disk /\ seen = disk
  /\ theirs = {} /\ untold = {} /\ dirty = {}
  /\ credit = [p \in Path |-> 0]
  /\ pass = Idle /\ job = NoJobs /\ books = <<>>
  /\ sincePull = PullTicks /\ sincePass = ResumeTicks
  /\ told = {} /\ swallowed = {} /\ skipped = {}
  /\ edits = 0 /\ faults = 0

Running == pass.stage # "idle"
At(stage) == pass.stage = stage
Fault == faults < MaxFaults /\ faults' = faults + 1

-----------------------------------------------------------------------------
(***************************************************************************)
(* The reader and the other devices.                                       *)
(***************************************************************************)
ReaderWrites(p) ==
  /\ edits < MaxEdits /\ edits' = edits + 1
  /\ disk' = [disk EXCEPT ![p] = @ + 1]
  /\ untold' = untold \cup {p} /\ told' = told \ {p}
  /\ UNCHANGED <<books, known, theirs, dirty, credit, pass, job, seen, clock,
                 swallowed, skipped, faults>>

\* Mutant of NoteLocalChange: every write of a path the pass is moving is its own.
NoteUnlessMoving(p) ==
  IF job[p] # "none" THEN UNCHANGED <<credit, dirty>>
  ELSE /\ dirty' = dirty \cup {p} /\ UNCHANGED credit

\* Mutant of NoteLocalChange: the credit is taken whether or not there is one.
NoteSpending(p) ==
  /\ credit' = [credit EXCEPT ![p] = @ - 1]
  /\ IF credit[p] > 0 THEN UNCHANGED dirty ELSE dirty' = dirty \cup {p}

NoteLocalChange(p) ==
  IF credit[p] > 0
  THEN credit' = [credit EXCEPT ![p] = @ - 1] /\ UNCHANGED dirty
  ELSE dirty' = dirty \cup {p} /\ UNCHANGED credit

Announce(p) ==
  /\ p \in untold
  /\ untold' = untold \ {p} /\ told' = told \cup {p}
  /\ NoteLocalChange(p)
  /\ swallowed' = swallowed \ dirty'
  /\ UNCHANGED <<books, disk, known, theirs, pass, job, seen, clock, skipped, edits,
                 faults>>

OthersPublish(p) ==
  /\ edits < MaxEdits /\ edits' = edits + 1
  /\ p \notin theirs /\ theirs' = theirs \cup {p}
  /\ UNCHANGED <<books, disk, known, untold, dirty, credit, pass, job, seen, clock,
                 history, faults>>

-----------------------------------------------------------------------------
(***************************************************************************)
(* What starts a pass.                                                     *)
(***************************************************************************)
\* Mutant of Begin: a pass stands down for a pass only.
BeginOverBooks ==
  /\ ~Running
  /\ pass' = [Idle EXCEPT !.stage = "list", !.claimed = dirty]
  /\ dirty' = {}
  /\ sincePass' = 0
  /\ UNCHANGED <<books, disk, known, theirs, untold, credit, job, seen, sincePull,
                 history, edits, faults>>

Begin ==
  /\ ~Running /\ books = <<>>
  /\ pass' = [Idle EXCEPT !.stage = "list", !.claimed = dirty]
  /\ dirty' = {}
  /\ sincePass' = 0
  /\ UNCHANGED <<books, disk, known, theirs, untold, credit, job, seen, sincePull,
                 history, edits, faults>>

Due == sincePull >= PullTicks

\* Mutant of Tick: only an announced change is a reason to run.
TickWhenDirty == dirty # {} /\ Begin

Tick == (Due \/ dirty # {}) /\ Begin

OnForeground == sincePass >= ResumeTicks /\ Begin

OnBackground == dirty # {} /\ Begin

SyncNow == Begin

(***************************************************************************)
(* A book the reader taps, or brings in where no book is mirrored, is      *)
(* moved at once: behind whatever the engine has on the remote.            *)
(***************************************************************************)
\* What the promise a transfer queues on stands for, if for anything.
RemoteWork ==
  IF books # <<>> THEN "book" ELSE IF Running THEN "pass" ELSE "wire"

OnBooksChannel ==
  /\ edits < MaxEdits /\ edits' = edits + 1
  /\ Len(books) < MaxBooks /\ books' = Append(books, RemoteWork)
  /\ UNCHANGED <<disk, known, theirs, untold, dirty, credit, pass, job, seen, clock,
                 history, faults>>

\* The one that waited for what is over now goes on the wire.
Settled(what, waiting) ==
  [i \in DOMAIN waiting |-> IF i = 1 /\ waiting[i] = what THEN "wire" ELSE waiting[i]]

BookEnds ==
  /\ books # <<>> /\ Head(books) = "wire"
  /\ books' = Settled("book", Tail(books))
  /\ UNCHANGED <<disk, known, theirs, untold, dirty, credit, pass, job, seen, clock,
                 history, edits, faults>>

Wait ==
  /\ sincePull < PullTicks \/ sincePass < ResumeTicks
  /\ sincePull' = IF sincePull < PullTicks THEN sincePull + 1 ELSE sincePull
  /\ sincePass' = IF sincePass < ResumeTicks THEN sincePass + 1 ELSE sincePass
  /\ UNCHANGED <<books, disk, known, theirs, untold, dirty, credit, pass, job, seen,
                 history, edits, faults>>

(***************************************************************************)
(* The process dies and comes back: everything in memory is gone, and      *)
(* start() runs a pass at once.                                            *)
(***************************************************************************)
Restart ==
  /\ Fault
  /\ pass' = [Idle EXCEPT !.stage = "list"]
  /\ job' = NoJobs /\ books' = <<>> /\ credit' = [p \in Path |-> 0]
  /\ dirty' = {} /\ untold' = {} /\ told' = {} /\ swallowed' = {} /\ skipped' = {}
  /\ sincePull' = PullTicks /\ sincePass' = 0
  /\ UNCHANGED <<disk, known, theirs, seen, edits>>

-----------------------------------------------------------------------------
(***************************************************************************)
(* The pass: its plan, and how it counts failures.                         *)
(***************************************************************************)
Ends(clean) ==
  /\ pass' = Idle
  /\ dirty' = IF clean THEN dirty ELSE dirty \cup pass.claimed
  /\ job' = NoJobs
  /\ books' = Settled("pass", books)

\* The layout or the listing fails: there is nothing to reconcile against.
ListFails ==
  /\ At("list") /\ Fault
  /\ Ends(FALSE)
  /\ UNCHANGED <<disk, known, theirs, untold, credit, seen, clock, history, edits>>

Kind(p) ==
  CASE disk[p] # known[p] /\ p \in theirs -> "merge"
    [] disk[p] # known[p] /\ p \notin theirs -> "upload"
    [] disk[p] = known[p] /\ p \in theirs -> "download"
    [] OTHER -> "none"

\* A path the scan cannot read is in no plan, and the pass is not clean.
ListAndScan ==
  /\ At("list")
  /\ \/ /\ job' = [p \in Path |-> Kind(p)]
        /\ pass' = [pass EXCEPT !.stage = "planned"]
        /\ UNCHANGED faults
     \/ \E q \in Path :
          /\ Fault
          /\ job' = [p \in Path |-> IF p = q THEN "none" ELSE Kind(p)]
          /\ pass' = [pass EXCEPT !.stage = "planned", !.clean = FALSE,
                                  !.streak = 1]
  /\ seen' = disk
  /\ UNCHANGED <<books, disk, known, theirs, untold, dirty, credit, clock, history, edits>>

Halted(streak) == streak >= MaxConsecutive

Succeeded == pass' = [pass EXCEPT !.streak = 0]
\* Mutant of Recorded: the failure counts towards the halt and nothing else.
RecordedInStreak(p) == pass' = [pass EXCEPT !.streak = @ + 1]

Recorded(p) == pass' = [pass EXCEPT !.clean = FALSE, !.streak = @ + 1]

Doing(kinds) == {p \in Path : job[p] \in kinds}

(***************************************************************************)
(* runPool: as many workers as the width allows, each taking the next item *)
(* when its own is done, until it finds the pass halted.                   *)
(***************************************************************************)
Dispatched(queued) ==
  {W \in SUBSET Doing({queued}) :
     Cardinality(W) = IF Halted(pass.streak) THEN 0
                      ELSE IF Cardinality(Doing({queued})) < Width
                           THEN Cardinality(Doing({queued})) ELSE Width}

StartPool(from, to, queued, wire) ==
  /\ At(from)
  /\ \E W \in Dispatched(queued) :
       job' = [p \in Path |-> IF p \in W THEN wire ELSE job[p]]
  /\ pass' = [pass EXCEPT !.stage = to]

\* Mutant of TakesNext: a worker empties the queue whatever has failed.
TakesNextAlways(p, queued, wire) ==
  IF Doing({queued}) = {} THEN job' = [job EXCEPT ![p] = "none"]
  ELSE \E q \in Doing({queued}) : job' = [job EXCEPT ![p] = "none", ![q] = wire]

\* The task on p is over: its worker takes another item, or stops.
TakesNext(p, queued, wire) ==
  IF Doing({queued}) = {} \/ Halted(pass'.streak)
  THEN job' = [job EXCEPT ![p] = "none"]
  ELSE \E q \in Doing({queued}) : job' = [job EXCEPT ![p] = "none", ![q] = wire]

-----------------------------------------------------------------------------
(***************************************************************************)
(* writeLocal: the engine's own write.  It lands and is announced like any *)
(* other, and gives its credit back; one that throws announces nothing.    *)
(***************************************************************************)
OwnStarts(p) == credit' = [credit EXCEPT ![p] = 1]

OwnLands(p, edit) ==
  /\ disk' = [disk EXCEPT ![p] = edit]
  /\ dirty' = IF credit[p] > 0 THEN dirty ELSE dirty \cup {p}
  /\ credit' = [credit EXCEPT ![p] = 0]

OwnThrows(p) ==
  /\ credit' = [credit EXCEPT ![p] = 0]
  /\ swallowed' = IF credit[p] = 0 THEN swallowed \cup {p} ELSE swallowed

-----------------------------------------------------------------------------
(***************************************************************************)
(* Downloads.                                                              *)
(***************************************************************************)
StartDownloads ==
  /\ StartPool("planned", "downloads", "download", "pulling")
  /\ UNCHANGED <<books, disk, known, theirs, untold, dirty, credit, seen, clock, history,
                 edits, faults>>

Fetched(p) ==
  /\ job[p] = "pulling"
  /\ job' = [job EXCEPT ![p] = "landing"]
  /\ OwnStarts(p)
  /\ UNCHANGED <<books, disk, known, theirs, untold, dirty, pass, seen, clock, history,
                 edits, faults>>

FetchFails(p) ==
  /\ job[p] = "pulling" /\ Fault
  /\ Recorded(p) /\ TakesNext(p, "download", "pulling")
  /\ UNCHANGED <<books, disk, known, theirs, untold, dirty, credit, seen, clock, history,
                 edits>>

\* Listed a moment ago, gone by now: neither a failure nor a success.
FetchGone(p) ==
  /\ job[p] = "pulling" /\ Fault
  /\ theirs' = theirs \ {p}
  /\ UNCHANGED pass /\ TakesNext(p, "download", "pulling")
  /\ UNCHANGED <<books, disk, known, untold, dirty, credit, seen, clock, history, edits>>

PullLands(p) ==
  /\ job[p] = "landing"
  /\ OwnLands(p, known[p])
  /\ theirs' = theirs \ {p}
  /\ Succeeded /\ TakesNext(p, "download", "pulling")
  /\ UNCHANGED <<books, known, untold, seen, clock, history, edits, faults>>

PullThrows(p) ==
  /\ job[p] = "landing" /\ Fault
  /\ OwnThrows(p)
  /\ Recorded(p) /\ TakesNext(p, "download", "pulling")
  /\ UNCHANGED <<books, disk, known, theirs, untold, dirty, seen, clock, told, skipped,
                 edits>>

-----------------------------------------------------------------------------
(***************************************************************************)
(* Merges, one after the other.                                            *)
(***************************************************************************)
StartMerges ==
  /\ At("downloads") /\ Doing({"pulling", "landing"}) = {}
  /\ pass' = [pass EXCEPT !.stage = "merges"]
  /\ UNCHANGED <<books, disk, known, theirs, untold, dirty, credit, job, seen, clock,
                 history, edits, faults>>

MergeNext(p) ==
  /\ At("merges") /\ job[p] = "merge"
  /\ Doing({"merging", "publishing"}) = {} /\ ~Halted(pass.streak)

MergeReads(p) ==
  /\ MergeNext(p)
  /\ seen' = [seen EXCEPT ![p] = disk[p]]
  /\ job' = [job EXCEPT ![p] = "merging"]
  /\ OwnStarts(p)
  /\ UNCHANGED <<books, disk, known, theirs, untold, dirty, pass, clock, history, edits,
                 faults>>

MergeGone(p) ==
  /\ MergeNext(p) /\ Fault
  /\ theirs' = theirs \ {p} /\ skipped' = skipped \cup {p}
  /\ job' = [job EXCEPT ![p] = "none"]
  /\ UNCHANGED <<books, disk, known, untold, dirty, credit, pass, seen, clock, told,
                 swallowed, edits>>

MergeLands(p) ==
  /\ job[p] = "merging"
  /\ OwnLands(p, seen[p])
  /\ job' = [job EXCEPT ![p] = "publishing"]
  /\ UNCHANGED <<books, known, theirs, untold, pass, seen, clock, history, edits, faults>>

Published(p) ==
  /\ known' = [known EXCEPT ![p] = seen[p]]
  /\ swallowed' = swallowed \ {p} /\ skipped' = skipped \ {p}
  /\ UNCHANGED told

MergePublished(p) ==
  /\ job[p] = "publishing"
  /\ Published(p) /\ theirs' = theirs \ {p}
  /\ Succeeded /\ job' = [job EXCEPT ![p] = "none"]
  /\ UNCHANGED <<books, disk, untold, dirty, credit, seen, clock, edits, faults>>

\* The fetch, the local write or the upload of a merge fails.
MergeFails(p) ==
  /\ MergeNext(p) \/ job[p] \in {"merging", "publishing"}
  /\ Fault
  /\ IF job[p] = "merging" THEN OwnThrows(p) ELSE UNCHANGED <<credit, swallowed>>
  /\ Recorded(p) /\ job' = [job EXCEPT ![p] = "none"]
  /\ UNCHANGED <<books, disk, known, theirs, untold, dirty, seen, clock, told, skipped,
                 edits>>

-----------------------------------------------------------------------------
(***************************************************************************)
(* Uploads, and the end of the pass.                                       *)
(***************************************************************************)
StartUploads ==
  /\ Doing({"merging", "publishing"}) = {}
  /\ Doing({"merge"}) = {} \/ Halted(pass.streak)
  /\ StartPool("merges", "uploads", "upload", "sending")
  /\ UNCHANGED <<books, disk, known, theirs, untold, dirty, credit, seen, clock, history,
                 edits, faults>>

Sent(p) ==
  /\ job[p] = "sending"
  /\ Published(p)
  /\ Succeeded /\ TakesNext(p, "upload", "sending")
  /\ UNCHANGED <<books, disk, theirs, untold, dirty, credit, seen, clock, edits, faults>>

SendFails(p) ==
  /\ job[p] = "sending" /\ Fault
  /\ Recorded(p) /\ TakesNext(p, "upload", "sending")
  /\ UNCHANGED <<books, disk, known, theirs, untold, dirty, credit, seen, clock, history,
                 edits>>

\* A pass that got this far has pulled what it could.
Finish ==
  /\ At("uploads") /\ Doing({"sending"}) = {}
  /\ Ends(pass.clean)
  /\ sincePull' = 0
  /\ UNCHANGED <<disk, known, theirs, untold, credit, seen, sincePass, history,
                 edits, faults>>

Reader == \E p \in Path : ReaderWrites(p) \/ Announce(p)
Environment == Reader \/ \E p \in Path : OthersPublish(p)
Triggers == Tick \/ OnForeground \/ OnBackground \/ SyncNow

PassStep ==
  \/ ListAndScan \/ StartDownloads \/ StartMerges \/ StartUploads \/ Finish
  \/ \E p \in Path :
       \/ Fetched(p) \/ PullLands(p)
       \/ MergeReads(p) \/ MergeLands(p) \/ MergePublished(p)
       \/ Sent(p)

PassFault ==
  \/ ListFails
  \/ \E p \in Path :
       \/ FetchFails(p) \/ FetchGone(p) \/ PullThrows(p)
       \/ MergeGone(p) \/ MergeFails(p) \/ SendFails(p)

Next ==
  \/ Environment \/ Wait \/ Triggers \/ PassStep \/ PassFault \/ Restart
  \/ OnBooksChannel \/ BookEnds

Spec == Init /\ [][Next]_vars

(***************************************************************************)
(* The timer ticks while the app is open, time passes, a pass that has     *)
(* begun goes on, a transfer on the wire ends, and a write that landed is  *)
(* announced.  Nothing is assumed of the app going away or coming back, or *)
(* of the reader.                                                          *)
(***************************************************************************)
FairSpec ==
  /\ Spec
  /\ WF_vars(Tick) /\ WF_vars(Wait) /\ WF_vars(PassStep) /\ WF_vars(BookEnds)
  /\ \A p \in Path : WF_vars(Announce(p))

-----------------------------------------------------------------------------
(***************************************************************************)
(* An announced edit that is not published is somebody's job: the path is  *)
(* dirty, or claimed by the running pass, or an engine write to it is on   *)
(* its way and will be announced in turn.  Two ways out: the announcement  *)
(* spent the credit of an engine write that then threw, or the merge found *)
(* the file gone from the remote and called that no failure.               *)
(***************************************************************************)
Remembered ==
  dirty \cup Doing({"landing", "merging"}) \cup (IF Running THEN pass.claimed ELSE {})
Unsent == {p \in Path : disk[p] # known[p]}
AnnouncedIsRemembered == told \cap Unsent \subseteq Remembered \cup swallowed \cup skipped

(***************************************************************************)
(* A clean pass, the only kind lastSyncAt counts, has published everything *)
(* its scan found here, but for a merge whose file was gone.               *)
(***************************************************************************)
CleanPassMirrors ==
  [][Finish /\ pass.clean => \A p \in Path \ skipped : seen[p] = known[p]]_vars

(***************************************************************************)
(* On a dead link a pass gives up: no more failures in a row than the      *)
(* threshold and what the pool already had on the wire.                    *)
(***************************************************************************)
DeadLinkStops == pass.streak <= MaxConsecutive + Width - 1

(***************************************************************************)
(* Of the pass and the book transfers one at most is on the remote: a pass *)
(* stands down for a transfer, and a transfer waits for the pass and for   *)
(* the transfers before it.                                                *)
(***************************************************************************)
OneOnTheRemote ==
  Cardinality({i \in DOMAIN books : books[i] = "wire"}) + (IF Running THEN 1 ELSE 0) <= 1

(***************************************************************************)
(* Whatever failed, whatever was never announced and whatever the process  *)
(* forgot when it died, the sweep catches up with both sides.              *)
(***************************************************************************)
SweepCatchesUp == <>[](Unsent = {} /\ theirs = {})

=============================================================================
