------------------------- MODULE SyncScheduleProofs -------------------------
(***************************************************************************)
(* What SyncSchedule promises, proved for every set of paths and every     *)
(* bound.                                                                  *)
(***************************************************************************)
EXTENDS SyncSchedule, FiniteSetTheorems, TLAPS

Transfers == {"pulling", "landing", "merging", "publishing", "sending"}
Owed == {"merge", "merging", "publishing", "upload", "sending"}
Wire == Doing(Transfers)
Planned == pass.stage \in {"planned", "downloads", "merges", "uploads"}
Moving(p) == job[p] \in {"merging", "publishing"}

\* A pass does with a path what its stage is for, and merges one at a time.
InStages ==
  \A p \in Path :
    /\ ~Planned => job[p] = "none"
    /\ job[p] \in {"pulling", "landing"} => At("downloads")
    /\ Moving(p) => At("merges")
    /\ job[p] = "sending" => At("uploads")
OneMerge == \A p, q \in Path : Moving(p) /\ Moving(q) => p = q

\* A credit is out while a write of the engine's is.
CreditsOut == \A p \in Path : credit[p] > 0 => job[p] \in {"landing", "merging"}
FailuresTold == pass.streak > 0 => ~pass.clean

BooksInOrder ==
  /\ \A i \in DOMAIN books : i > 1 => books[i] = "book"
  /\ books # <<>> => books[1] = IF Running THEN "pass" ELSE "wire"

\* What is on the wire can still fail, and nothing is added to it after the halt.
WireBound ==
  /\ Cardinality(Wire) <= Width
  /\ pass.streak + Cardinality(Wire) <= MaxConsecutive + Width - 1

\* An announced edit that is not published, and what may stand for it.
Waiting(p) == p \in told /\ disk[p] # known[p]
Excused(p) == p \in dirty \cup swallowed \cup skipped
\* The credit of the write to p was spent: the write will be announced for itself.
Spent(p) == job[p] \in {"landing", "merging"} /\ credit[p] = 0

Answered ==
  \A p \in Path :
    Waiting(p) => Excused(p) \/ Spent(p) \/ (Running /\ p \in pass.claimed)

\* What is being merged or published is what the file holds, or there is more to do.
EditedSince ==
  \A p \in told :
    disk[p] # seen[p] =>
      /\ job[p] \in {"publishing", "upload", "sending"} => p \in dirty
      /\ job[p] = "merging" => credit[p] = 0

\* A pass without a failure leaves nothing of what it scanned.
OwesWaiting ==
  \A p \in Path : Waiting(p) => Excused(p) \/ Spent(p) \/ job[p] \in Owed
OwesUnequal ==
  \A p \in Path \ skipped : seen[p] = known[p] \/ job[p] \in Owed
PoolsRun ==
  At("uploads") =>
    /\ Doing({"merge"}) = {}
    /\ Doing({"sending"}) = {} => Doing({"upload"}) = {}
CleanAnswers == Planned /\ pass.clean => OwesWaiting /\ OwesUnequal /\ PoolsRun

-----------------------------------------------------------------------------
(***************************************************************************)
(* Small facts.                                                            *)
(***************************************************************************)
\* What a worker that is done with p leaves of the pool.
Taken(p, queued, wire) ==
  /\ job' \in [Path -> Jobs]
  /\ job'[p] = "none"
  /\ \A r \in Path \ {p} :
       \/ job'[r] = job[r]
       \/ job[r] = queued /\ job'[r] = wire /\ ~Halted(pass'.streak)
  /\ \A r, s \in Path \ {p} : job'[r] # job[r] /\ job'[s] # job[s] => r = s
  /\ Doing({queued}) # {} /\ ~Halted(pass'.streak) =>
       \E r \in Path \ {p} : job'[r] = wire

\* TakesNext, path by path.
LEMMA TakesNextIs ==
  ASSUME job \in [Path -> Jobs], NEW p \in Path, NEW queued \in Jobs, NEW wire \in Jobs,
         job[p] # queued, TakesNext(p, queued, wire)
  PROVE  Taken(p, queued, wire)
<1>1. CASE Doing({queued}) = {} \/ Halted(pass'.streak)
  <2>1. job' = [job EXCEPT ![p] = "none"]
    BY <1>1 DEF TakesNext
  <2>2. QED
    BY <1>1, <2>1 DEF Taken, Jobs
<1>2. CASE ~(Doing({queued}) = {} \/ Halted(pass'.streak))
  <2>1. PICK q \in Doing({queued}) : job' = [job EXCEPT ![p] = "none", ![q] = wire]
    BY <1>2 DEF TakesNext
  <2>2. q \in Path /\ job[q] = queued /\ q # p
    BY <2>1 DEF Doing
  <2>3. /\ job' \in [Path -> Jobs] /\ job'[p] = "none" /\ job'[q] = wire
        /\ \A r \in Path \ {p, q} : job'[r] = job[r]
    BY <2>1, <2>2 DEF Jobs
  <2>4. QED
    BY <1>2, <2>2, <2>3 DEF Taken
<1>3. QED
  BY <1>1, <1>2


\* What the steps make of the running pass.
LEMMA PassBegins ==
  ASSUME NEW S \in SUBSET Path, pass' = [Idle EXCEPT !.stage = "list", !.claimed = S]
  PROVE  /\ pass' \in Pass
         /\ pass'.stage = "list" /\ pass'.claimed = S /\ pass'.clean /\ pass'.streak = 0
BY DEF Idle, Pass, Stages

LEMMA PassRestarts ==
  ASSUME pass' = [Idle EXCEPT !.stage = "list"]
  PROVE  /\ pass' \in Pass
         /\ pass'.stage = "list" /\ pass'.claimed = {} /\ pass'.clean /\ pass'.streak = 0
BY DEF Idle, Pass, Stages

LEMMA PassIdles ==
  /\ Idle \in Pass
  /\ Idle.stage = "idle" /\ Idle.claimed = {} /\ Idle.clean /\ Idle.streak = 0
BY DEF Idle, Pass, Stages

LEMMA PassMoves ==
  ASSUME pass \in Pass, NEW to \in Stages, pass' = [pass EXCEPT !.stage = to]
  PROVE  /\ pass' \in Pass /\ pass'.stage = to
         /\ pass'.claimed = pass.claimed /\ pass'.clean = pass.clean
         /\ pass'.streak = pass.streak
BY DEF Pass

LEMMA PassSkips ==
  ASSUME pass \in Pass,
         pass' = [pass EXCEPT !.stage = "planned", !.clean = FALSE, !.streak = 1]
  PROVE  /\ pass' \in Pass /\ pass'.stage = "planned"
         /\ pass'.claimed = pass.claimed /\ ~pass'.clean /\ pass'.streak = 1
BY DEF Pass, Stages

LEMMA PassSucceeds ==
  ASSUME pass \in Pass, Succeeded
  PROVE  /\ pass' \in Pass /\ pass'.stage = pass.stage
         /\ pass'.claimed = pass.claimed /\ pass'.clean = pass.clean /\ pass'.streak = 0
BY DEF Pass, Succeeded

LEMMA PassRecords ==
  ASSUME pass \in Pass, NEW p, Recorded(p)
  PROVE  /\ pass' \in Pass /\ pass'.stage = pass.stage
         /\ pass'.claimed = pass.claimed /\ ~pass'.clean
         /\ pass'.streak = pass.streak + 1
<1>1. /\ pass.stage \in Stages /\ pass.claimed \in SUBSET Path
      /\ pass.streak \in Nat
  BY DEF Pass
<1>2. pass' = [stage |-> pass.stage, claimed |-> pass.claimed, clean |-> FALSE,
               streak |-> pass.streak + 1]
  BY DEF Pass, Recorded
<1>3. QED
  BY <1>1, <1>2 DEF Pass

\* What the start of a pool leaves.
PoolStarts(from, to, queued, wire) ==
  /\ pass.stage = from /\ pass' \in Pass /\ pass'.stage = to
  /\ pass'.claimed = pass.claimed /\ pass'.clean = pass.clean
  /\ pass'.streak = pass.streak
  /\ job' \in [Path -> Jobs]
  /\ \E W \in SUBSET Doing({queued}) :
       /\ IsFiniteSet(W) /\ Cardinality(W) <= Width
       /\ Halted(pass.streak) => W = {}
       /\ W = {} => Halted(pass.streak) \/ Doing({queued}) = {}
       /\ \A r \in Path : job'[r] = IF r \in W THEN wire ELSE job[r]

\* StartPool, path by path.
LEMMA StartPoolIs ==
  ASSUME TypeOK, NEW from, NEW to \in Stages, NEW queued \in Jobs, NEW wire \in Jobs,
         StartPool(from, to, queued, wire)
  PROVE  PoolStarts(from, to, queued, wire)
<1>1. PICK W \in Dispatched(queued) : job' = [p \in Path |-> IF p \in W THEN wire ELSE job[p]]
  BY DEF StartPool
<1>2. IsFiniteSet(Path) /\ Doing({queued}) \subseteq Path
  BY SyncScheduleAssumption DEF Doing
<1>3. IsFiniteSet(Doing({queued}))
  BY <1>2, FS_Subset
<1>4. W \subseteq Doing({queued}) /\ IsFiniteSet(W)
  BY <1>3, FS_Subset DEF Dispatched
<1>5. /\ Cardinality(W) \in Nat /\ (Cardinality(W) = 0 <=> W = {})
      /\ Cardinality(Doing({queued})) \in Nat
      /\ Cardinality(Doing({queued})) = 0 <=> Doing({queued}) = {}
  BY <1>3, <1>4, FS_CardinalityType, FS_EmptySet
<1>6. Cardinality(W) = IF Halted(pass.streak) THEN 0
                       ELSE IF Cardinality(Doing({queued})) < Width
                            THEN Cardinality(Doing({queued})) ELSE Width
  BY DEF Dispatched
<1>7. /\ Cardinality(W) <= Width
      /\ Halted(pass.streak) => W = {}
      /\ W = {} => Halted(pass.streak) \/ Doing({queued}) = {}
  BY <1>5, <1>6, SyncScheduleAssumption
<1>8. job' \in [Path -> Jobs] /\ \A r \in Path : job'[r] = IF r \in W THEN wire ELSE job[r]
  BY <1>1 DEF TypeOK
<1>9. /\ pass.stage = from /\ pass' \in Pass /\ pass'.stage = to
      /\ pass'.claimed = pass.claimed /\ pass'.clean = pass.clean
      /\ pass'.streak = pass.streak
  BY PassMoves DEF TypeOK, StartPool, At
<1>10. QED
  BY <1>4, <1>7, <1>8, <1>9 DEF PoolStarts

LEMMA DownloadsStart ==
  ASSUME TypeOK, StartDownloads
  PROVE  PoolStarts("planned", "downloads", "download", "pulling")
<1>1. "downloads" \in Stages /\ "download" \in Jobs /\ "pulling" \in Jobs
  BY DEF Stages, Jobs
<1>2. StartPool("planned", "downloads", "download", "pulling")
  BY DEF StartDownloads
<1>3. QED
  BY <1>1, <1>2, StartPoolIs

LEMMA UploadsStart ==
  ASSUME TypeOK, StartUploads
  PROVE  PoolStarts("merges", "uploads", "upload", "sending")
<1>1. "uploads" \in Stages /\ "upload" \in Jobs /\ "sending" \in Jobs
  BY DEF Stages, Jobs
<1>2. StartPool("merges", "uploads", "upload", "sending")
  BY DEF StartUploads
<1>3. QED
  BY <1>1, <1>2, StartPoolIs

-----------------------------------------------------------------------------
(***************************************************************************)
(* Types.                                                                  *)
(***************************************************************************)
\* A transfer that starts to wait, or is over, leaves a queue of transfers.
LEMMA SettledIs ==
  ASSUME NEW what, NEW waiting \in Seq(Waits)
  PROVE  /\ Settled(what, waiting) \in Seq(Waits)
         /\ Len(Settled(what, waiting)) = Len(waiting)
         /\ \A i \in 1 .. Len(waiting) :
              Settled(what, waiting)[i] =
                IF i = 1 /\ waiting[i] = what THEN "wire" ELSE waiting[i]
<1>1. waiting \in [1 .. Len(waiting) -> Waits] /\ Len(waiting) \in Nat
  OBVIOUS
<1>2. DOMAIN waiting = 1 .. Len(waiting)
  OBVIOUS
<1>3. Settled(what, waiting) \in [1 .. Len(waiting) -> Waits]
  BY <1>1, <1>2 DEF Settled, Waits
<1>4. /\ Settled(what, waiting) \in Seq(Waits)
      /\ Len(Settled(what, waiting)) = Len(waiting)
  BY <1>1, <1>3
<1>5. QED
  BY <1>2, <1>4 DEF Settled

LEMMA Bounds ==
  /\ MaxBooks \in Nat /\ MaxEdits \in Nat /\ MaxFaults \in Nat
  /\ PullTicks \in Nat /\ ResumeTicks \in Nat
BY SyncScheduleAssumption

LEMMA KindIs == \A p \in Path : Kind(p) \in Jobs
BY DEF Kind, Jobs

LEMMA EnvironmentTyped ==
  ASSUME TypeOK, NEW p \in Path, ReaderWrites(p) \/ Announce(p) \/ OthersPublish(p)
  PROVE  TypeOK'
<1>1. CASE ReaderWrites(p)
  BY <1>1, Bounds DEF TypeOK, ReaderWrites, clock
<1>2. CASE Announce(p)
  BY <1>2, Bounds DEF TypeOK, Announce, NoteLocalChange, clock
<1>3. CASE OthersPublish(p)
  BY <1>3, Bounds DEF TypeOK, OthersPublish, clock, history
<1>4. QED
  BY <1>1, <1>2, <1>3

LEMMA ScheduleTyped ==
  ASSUME TypeOK, Begin \/ Wait \/ Restart \/ OnBooksChannel \/ BookEnds
  PROVE  TypeOK'
<1>1. CASE Begin
  <2>1. pass' \in Pass
    BY <1>1, PassBegins DEF TypeOK, Begin
  <2>2. QED
    BY <1>1, <2>1, Bounds DEF TypeOK, Begin, clock, history
<1>2. CASE Wait
  BY <1>2, Bounds DEF TypeOK, Wait, clock, history
<1>3. CASE Restart
  BY <1>3, Bounds, PassRestarts DEF TypeOK, Restart, Fault, NoJobs, Jobs
<1>4. CASE OnBooksChannel
  BY <1>4, Bounds DEF TypeOK, OnBooksChannel, RemoteWork, Waits, clock, history
<1>5. CASE BookEnds
  <2>1. Tail(books) \in Seq(Waits) /\ Len(Tail(books)) = Len(books) - 1
    BY <1>5 DEF TypeOK, BookEnds
  <2>2. books' \in Seq(Waits) /\ Len(books') = Len(books) - 1
    BY <1>5, <2>1, SettledIs DEF BookEnds
  <2>3. QED
    BY <1>5, <2>2, Bounds DEF TypeOK, BookEnds, clock, history
<1>6. QED
  BY <1>1, <1>2, <1>3, <1>4, <1>5

LEMMA EndsTyped ==
  ASSUME TypeOK, NEW clean \in BOOLEAN, Ends(clean)
  PROVE  /\ pass' \in Pass
         /\ dirty' \subseteq Path /\ job' \in [Path -> Jobs]
         /\ books' \in Seq(Waits) /\ Len(books') <= MaxBooks
<1>1. books' \in Seq(Waits) /\ Len(books') <= MaxBooks
  BY SettledIs DEF TypeOK, Ends
<1>2. QED
  <2>1. pass' \in Pass /\ pass.claimed \subseteq Path
    BY PassIdles DEF TypeOK, Ends, Pass
  <2>2. job' \in [Path -> Jobs]
    BY DEF Ends, NoJobs, Jobs
  <2>3. dirty' \subseteq Path
    BY <2>1 DEF TypeOK, Ends
  <2>4. QED
    BY <1>1, <2>1, <2>2, <2>3

LEMMA PassTyped ==
  ASSUME TypeOK,
         ListFails \/ ListAndScan \/ StartDownloads \/ StartMerges \/ StartUploads \/ Finish
  PROVE  TypeOK'
<1>1. CASE ListFails
  <2>1. Ends(FALSE)
    BY <1>1 DEF ListFails
  <2>2. /\ pass' \in Pass /\ dirty' \subseteq Path /\ job' \in [Path -> Jobs]
        /\ books' \in Seq(Waits) /\ Len(books') <= MaxBooks
    BY <2>1, EndsTyped
  <2>3. QED
    BY <1>1, <2>2, Bounds DEF TypeOK, ListFails, Fault, clock, history
<1>2. CASE ListAndScan
  <2>1. job' \in [Path -> Jobs]
    BY <1>2, KindIs DEF ListAndScan, Jobs
  <2>2. pass' \in Pass
    BY <1>2, PassMoves, PassSkips DEF TypeOK, ListAndScan, Stages
  <2>3. faults' \in 0 .. MaxFaults
    BY <1>2, Bounds DEF TypeOK, ListAndScan, Fault
  <2>4. QED
    BY <1>2, <2>1, <2>2, <2>3 DEF TypeOK, ListAndScan, clock, history
<1>3. CASE StartDownloads
  BY <1>3, DownloadsStart DEF PoolStarts, TypeOK, StartDownloads, clock, history
<1>4. CASE StartMerges
  BY <1>4, Bounds, PassMoves DEF TypeOK, StartMerges, Stages, clock, history
<1>5. CASE StartUploads
  BY <1>5, UploadsStart DEF PoolStarts, TypeOK, StartUploads, clock, history
<1>6. CASE Finish
  <2>1. pass.clean \in BOOLEAN /\ Ends(pass.clean)
    BY <1>6 DEF TypeOK, Pass, Finish
  <2>2. /\ pass' \in Pass /\ dirty' \subseteq Path /\ job' \in [Path -> Jobs]
        /\ books' \in Seq(Waits) /\ Len(books') <= MaxBooks
    BY <2>1, EndsTyped
  <2>3. QED
    BY <1>6, <2>2, Bounds DEF TypeOK, Finish, clock, history
<1>7. QED
  BY <1>1, <1>2, <1>3, <1>4, <1>5, <1>6

LEMMA DownloadTyped ==
  ASSUME TypeOK, NEW p \in Path,
         Fetched(p) \/ FetchFails(p) \/ FetchGone(p) \/ PullLands(p) \/ PullThrows(p)
  PROVE  TypeOK'
<1>1. CASE Fetched(p)
  BY <1>1, Bounds DEF TypeOK, Fetched, OwnStarts, Jobs, clock, history
<1>2. ~Fetched(p) => Taken(p, "download", "pulling")
  BY TakesNextIs DEF TypeOK, FetchFails, FetchGone, PullLands, PullThrows, Jobs
<1>3. CASE FetchFails(p)
  BY <1>3, <1>2, Bounds, PassRecords DEF Taken, Fetched, TypeOK, FetchFails, Fault, clock, history
<1>4. CASE FetchGone(p)
  BY <1>4, <1>2, Bounds DEF Taken, Fetched, TypeOK, FetchGone, Fault, clock, history
<1>5. CASE PullLands(p)
  <2>1. pass' \in Pass
    BY <1>5, PassSucceeds DEF TypeOK, PullLands
  <2>2. job' \in [Path -> Jobs]
    BY <1>2, <1>5 DEF Taken, PullLands, Fetched
  <2>3. disk' \in [Path -> 0 .. edits] /\ dirty' \subseteq Path /\ credit' \in [Path -> 0 .. 1]
    BY <1>5 DEF TypeOK, PullLands, OwnLands
  <2>4. QED
    BY <1>5, <2>1, <2>2, <2>3 DEF TypeOK, PullLands, clock, history
<1>6. CASE PullThrows(p)
  <2>1. pass' \in Pass
    BY <1>6, PassRecords DEF TypeOK, PullThrows
  <2>2. job' \in [Path -> Jobs]
    BY <1>2, <1>6 DEF Taken, PullThrows, Fetched
  <2>3. swallowed' \subseteq Path /\ credit' \in [Path -> 0 .. 1]
    BY <1>6 DEF TypeOK, PullThrows, OwnThrows
  <2>4. QED
    BY <1>6, <2>1, <2>2, <2>3, Bounds DEF TypeOK, PullThrows, Fault, clock
<1>7. QED
  BY <1>1, <1>3, <1>4, <1>5, <1>6

LEMMA MergeTyped ==
  ASSUME TypeOK, NEW p \in Path,
         MergeReads(p) \/ MergeGone(p) \/ MergeLands(p) \/ MergePublished(p) \/ MergeFails(p)
  PROVE  TypeOK'
<1>1. CASE MergeReads(p)
  BY <1>1, Bounds DEF TypeOK, MergeReads, OwnStarts, Jobs, clock, history
<1>2. CASE MergeGone(p)
  BY <1>2, Bounds DEF TypeOK, MergeGone, Fault, Jobs, clock
<1>3. CASE MergeLands(p)
  BY <1>3, Bounds DEF TypeOK, MergeLands, OwnLands, Jobs, clock, history
<1>4. CASE MergePublished(p)
  BY <1>4, Bounds, PassSucceeds DEF TypeOK, MergePublished, Published, Jobs, clock
<1>5. CASE MergeFails(p)
  <2>1. pass' \in Pass
    BY <1>5, PassRecords DEF TypeOK, MergeFails
  <2>2. swallowed' \subseteq Path /\ credit' \in [Path -> 0 .. 1]
    <3>1. CASE job[p] = "merging"
      <4>1. OwnThrows(p)
        BY <1>5, <3>1 DEF MergeFails
      <4>2. QED
        BY <4>1 DEF TypeOK, OwnThrows
    <3>2. CASE job[p] # "merging"
      BY <1>5, <3>2 DEF TypeOK, MergeFails
    <3>3. QED
      BY <3>1, <3>2
  <2>3. job' \in [Path -> Jobs] /\ faults' \in 0 .. MaxFaults
    BY <1>5, Bounds DEF TypeOK, MergeFails, Fault, Jobs
  <2>4. QED
    BY <1>5, <2>1, <2>2, <2>3 DEF TypeOK, MergeFails, clock
<1>6. QED
  BY <1>1, <1>2, <1>3, <1>4, <1>5

LEMMA UploadTyped ==
  ASSUME TypeOK, NEW p \in Path, Sent(p) \/ SendFails(p)
  PROVE  TypeOK'
<1>1. Taken(p, "upload", "sending")
  BY TakesNextIs DEF TypeOK, Sent, SendFails, Jobs
<1>2. CASE Sent(p)
  BY <1>1, <1>2, Bounds, PassSucceeds DEF Taken, TypeOK, Sent, Published, clock
<1>3. CASE SendFails(p)
  BY <1>1, <1>3, Bounds, PassRecords DEF Taken, TypeOK, SendFails, Fault, clock, history
<1>4. QED
  BY <1>2, <1>3

LEMMA NextTyped == TypeOK /\ [Next]_vars => TypeOK'
<1> SUFFICES ASSUME TypeOK, [Next]_vars PROVE TypeOK'
  OBVIOUS
<1>1. CASE Environment
  BY <1>1, EnvironmentTyped DEF Environment, Reader
<1>2. CASE Wait \/ Triggers \/ Restart \/ OnBooksChannel \/ BookEnds
  BY <1>2, ScheduleTyped DEF Triggers, Tick, OnForeground, OnBackground, SyncNow
<1>3. CASE PassStep
  BY <1>3, PassTyped, DownloadTyped, MergeTyped, UploadTyped DEF PassStep
<1>4. CASE PassFault
  BY <1>4, PassTyped, DownloadTyped, MergeTyped, UploadTyped DEF PassFault
<1>5. CASE UNCHANGED vars
  BY <1>5 DEF TypeOK, vars, clock, history
<1>6. QED
  BY <1>1, <1>2, <1>3, <1>4, <1>5 DEF Next

(***************************************************************************)
(* TypeOK: what the state of the schedule is made of, and that no count    *)
(* leaves its bounds (SyncEngine, engine.ts:224-254).                      *)
(***************************************************************************)
THEOREM TypeCorrect == Spec => []TypeOK
<1>1. Init => TypeOK
  BY Bounds, PassIdles DEF Init, TypeOK, NoJobs, Jobs
<1>2. TypeOK /\ [Next]_vars => TypeOK'
  BY NextTyped
<1>3. QED
  BY <1>1, <1>2, PTL DEF Spec


-----------------------------------------------------------------------------
(***************************************************************************)
(* What a pass does with a path in each of its stages.                     *)
(***************************************************************************)
Shape == InStages /\ OneMerge /\ CreditsOut /\ FailuresTold

\* The pass is where it was.
SameStage == pass' \in Pass /\ pass'.stage = pass.stage

\* An engine write, or what a worker did, leaves every other path's credit alone.
CreditsGoBack(p) == credit' = credit \/ credit' = [credit EXCEPT ![p] = 0]

LEMMA TakenInStages ==
  ASSUME TypeOK, Shape, NEW p \in Path, NEW queued, NEW wire, Taken(p, queued, wire),
         SameStage, CreditsGoBack(p),
         \/ queued = "download" /\ wire = "pulling" /\ job[p] \in {"pulling", "landing"}
         \/ queued = "upload" /\ wire = "sending" /\ job[p] = "sending",
         job[p] = "landing" => credit'[p] = 0
  PROVE  InStages' /\ OneMerge' /\ CreditsOut'
<1>1. InStages'
  BY DEF Shape, InStages, Taken, SameStage, Planned, At, Moving
<1>2. OneMerge'
  BY DEF Shape, OneMerge, Taken, Moving
<1>3. CreditsOut'
  <2>1. \A r \in Path \ {p} : credit'[r] = credit[r]
    BY DEF CreditsGoBack, TypeOK
  <2>2. ~(credit'[p] > 0)
    <3>1. CASE credit' = credit
      BY <3>1 DEF Shape, CreditsOut
    <3>2. CASE credit' = [credit EXCEPT ![p] = 0]
      BY <3>2 DEF TypeOK
    <3>3. QED
      BY <3>1, <3>2 DEF CreditsGoBack
  <2>3. \A r \in Path \ {p} : job[r] \in {"landing", "merging"} => job'[r] = job[r]
    BY DEF Taken
  <2>4. QED
    BY <2>1, <2>2, <2>3 DEF Shape, CreditsOut
<1>4. QED
  BY <1>1, <1>2, <1>3

LEMMA EnvironmentShape ==
  ASSUME TypeOK, Shape, Environment \/ Wait \/ OnBooksChannel \/ BookEnds \/ UNCHANGED vars
  PROVE  Shape'
<1>1. pass' = pass /\ job' = job
  BY DEF Environment, Reader, ReaderWrites, Announce, OthersPublish, Wait, OnBooksChannel,
         BookEnds, vars
<1>2. \A q \in Path : credit'[q] > 0 => credit[q] > 0
  BY DEF Environment, Reader, ReaderWrites, Announce, NoteLocalChange, OthersPublish, Wait,
         OnBooksChannel, BookEnds, vars, TypeOK
<1>3. QED
  BY <1>1, <1>2
  DEF Shape, InStages, OneMerge, CreditsOut, FailuresTold, Planned, At, Moving

LEMMA BetweenPassesShape ==
  ASSUME TypeOK, Shape, Triggers \/ Restart \/ ListFails \/ Finish
  PROVE  Shape'
<1>1. CASE Triggers
  <2>1. Begin
    BY <1>1 DEF Triggers, Tick, OnForeground, OnBackground, SyncNow
  <2>2. pass'.stage = "list" /\ pass'.streak = 0 /\ job' = job /\ credit' = credit
    BY <2>1, PassBegins DEF Begin, TypeOK
  <2>3. pass.stage = "idle"
    BY <2>1 DEF Begin, Running
  <2>4. QED
    BY <2>2, <2>3
    DEF Shape, InStages, OneMerge, CreditsOut, FailuresTold, Planned, At, Moving
<1>2. CASE Restart
  <2>1. pass'.stage = "list" /\ pass'.streak = 0
    BY <1>2, PassRestarts DEF Restart
  <2>2. \A q \in Path : job'[q] = "none" /\ credit'[q] = 0
    BY <1>2 DEF Restart, NoJobs
  <2>3. QED
    BY <2>1, <2>2
    DEF Shape, InStages, OneMerge, CreditsOut, FailuresTold, Planned, At, Moving
<1>3. CASE ListFails \/ Finish
  <2>1. pass'.stage = "idle" /\ pass'.streak = 0 /\ credit' = credit
    BY <1>3, PassIdles DEF ListFails, Finish, Ends
  <2>2. \A q \in Path : job'[q] = "none"
    BY <1>3 DEF ListFails, Finish, Ends, NoJobs
  <2>3. \A q \in Path : job[q] \notin {"landing", "merging"}
    BY <1>3 DEF ListFails, Finish, At, Shape, InStages, Planned, Moving
  <2>4. QED
    BY <2>1, <2>2, <2>3
    DEF Shape, InStages, OneMerge, CreditsOut, FailuresTold, Planned, At, Moving
<1>4. QED
  BY <1>1, <1>2, <1>3

LEMMA StageShape ==
  ASSUME TypeOK, Shape, ListAndScan \/ StartDownloads \/ StartMerges \/ StartUploads
  PROVE  Shape'
<1>1. CASE ListAndScan
  <2>1. /\ pass'.stage = "planned" /\ credit' = credit
        /\ \/ pass'.clean = pass.clean /\ pass'.streak = pass.streak
           \/ ~pass'.clean
    BY <1>1, PassMoves, PassSkips DEF ListAndScan, TypeOK, Stages
  <2>2. \A q \in Path : job'[q] \in {"none", "download", "merge", "upload"}
    BY <1>1 DEF ListAndScan, Kind
  <2>3. \A q \in Path : job[q] = "none"
    BY <1>1 DEF ListAndScan, At, Shape, InStages, Planned
  <2>4. QED
    BY <2>1, <2>2, <2>3
    DEF Shape, InStages, OneMerge, CreditsOut, FailuresTold, Planned, At, Moving
<1>2. CASE StartDownloads
  <2>1. /\ pass.stage = "planned" /\ pass'.stage = "downloads" /\ credit' = credit
        /\ pass'.clean = pass.clean /\ pass'.streak = pass.streak
    BY <1>2, DownloadsStart DEF PoolStarts, StartDownloads
  <2>2. \A q \in Path : job'[q] = job[q] \/ (job[q] = "download" /\ job'[q] = "pulling")
    <3>1. PICK W \in SUBSET Doing({"download"}) :
            \A r \in Path : job'[r] = IF r \in W THEN "pulling" ELSE job[r]
      BY <1>2, DownloadsStart DEF PoolStarts
    <3>2. QED
      BY <3>1 DEF Doing
  <2>3. QED
    BY <2>1, <2>2
    DEF Shape, InStages, OneMerge, CreditsOut, FailuresTold, Planned, At, Moving
<1>3. CASE StartMerges
  <2>1. /\ pass.stage = "downloads" /\ pass'.stage = "merges" /\ credit' = credit
        /\ pass'.clean = pass.clean /\ pass'.streak = pass.streak /\ job' = job
    BY <1>3, PassMoves DEF StartMerges, TypeOK, Stages, At
  <2>2. \A q \in Path : job[q] \notin {"pulling", "landing"}
    BY <1>3 DEF StartMerges, Doing
  <2>3. QED
    BY <2>1, <2>2
    DEF Shape, InStages, OneMerge, CreditsOut, FailuresTold, Planned, At, Moving
<1>4. CASE StartUploads
  <2>1. /\ pass.stage = "merges" /\ pass'.stage = "uploads" /\ credit' = credit
        /\ pass'.clean = pass.clean /\ pass'.streak = pass.streak
    BY <1>4, UploadsStart DEF PoolStarts, StartUploads
  <2>2. \A q \in Path : job'[q] = job[q] \/ (job[q] = "upload" /\ job'[q] = "sending")
    <3>1. PICK W \in SUBSET Doing({"upload"}) :
            \A r \in Path : job'[r] = IF r \in W THEN "sending" ELSE job[r]
      BY <1>4, UploadsStart DEF PoolStarts
    <3>2. QED
      BY <3>1 DEF Doing
  <2>3. \A q \in Path : ~Moving(q)
    BY <1>4 DEF StartUploads, Doing, Moving
  <2>4. QED
    BY <2>1, <2>2, <2>3
    DEF Shape, InStages, OneMerge, CreditsOut, FailuresTold, Planned, At, Moving
<1>5. QED
  BY <1>1, <1>2, <1>3, <1>4

LEMMA DownloadShape ==
  ASSUME TypeOK, Shape, NEW p \in Path,
         Fetched(p) \/ FetchFails(p) \/ FetchGone(p) \/ PullLands(p) \/ PullThrows(p)
  PROVE  Shape' /\ SameStage /\ Running
<1>1. CASE Fetched(p)
  <2>1. /\ pass' = pass /\ job[p] = "pulling"
        /\ job' = [job EXCEPT ![p] = "landing"] /\ credit' = [credit EXCEPT ![p] = 1]
    BY <1>1 DEF Fetched, OwnStarts
  <2>2. At("downloads")
    BY <2>1 DEF Shape, InStages
  <2>3. Shape'
    BY <2>1, <2>2 DEF TypeOK, Shape, InStages, OneMerge, CreditsOut, FailuresTold, Planned, At, Moving
  <2>4. QED
    BY <2>1, <2>2, <2>3 DEF SameStage, TypeOK, Running, At
<1>2. CASE ~Fetched(p)
  <2>1. job[p] \in {"pulling", "landing"} /\ Taken(p, "download", "pulling")
    BY <1>2, TakesNextIs DEF TypeOK, FetchFails, FetchGone, PullLands, PullThrows, Jobs
  <2>2. SameStage /\ (pass'.streak > 0 => ~pass'.clean)
    BY <1>2, PassRecords, PassSucceeds
    DEF SameStage, TypeOK, FetchFails, FetchGone, PullLands, PullThrows, Shape, FailuresTold
  <2>3. CreditsGoBack(p) /\ (job[p] = "landing" => credit'[p] = 0)
    BY <1>2 DEF CreditsGoBack, TypeOK, FetchFails, FetchGone, PullLands, OwnLands, PullThrows, OwnThrows
  <2>4. InStages' /\ OneMerge' /\ CreditsOut'
    BY <2>1, <2>2, <2>3, TakenInStages
  <2>5. Running
    BY <2>1 DEF Shape, InStages, At, Running
  <2>6. QED
    BY <2>2, <2>4, <2>5 DEF Shape, FailuresTold
<1>3. QED
  BY <1>1, <1>2

LEMMA MergeShape ==
  ASSUME TypeOK, Shape, NEW p \in Path,
         MergeReads(p) \/ MergeGone(p) \/ MergeLands(p) \/ MergePublished(p) \/ MergeFails(p)
  PROVE  Shape' /\ SameStage /\ Running
<1>1. At("merges")
  BY DEF MergeReads, MergeGone, MergeLands, MergePublished, MergeFails, MergeNext, Shape,
         InStages, Moving
<1>2. SameStage /\ (pass'.streak > 0 => ~pass'.clean)
  BY PassRecords, PassSucceeds
  DEF SameStage, TypeOK, MergeReads, MergeGone, MergeLands, MergePublished, MergeFails,
      Shape, FailuresTold
<1>3. /\ \E to \in {"none", "merging", "publishing"} : job' = [job EXCEPT ![p] = to]
      /\ ~Moving(p) /\ job'[p] # "none" => \A q \in Path : ~Moving(q)
  BY DEF MergeReads, MergeGone, MergeLands, MergePublished, MergeFails, MergeNext, Doing,
         Moving, TypeOK
<1>4. /\ \A q \in Path \ {p} : credit'[q] = credit[q]
      /\ credit'[p] > 0 => job'[p] = "merging"
  <2>1. CASE MergeReads(p)
    BY <2>1 DEF MergeReads, OwnStarts, TypeOK
  <2>2. CASE MergeGone(p)
    BY <2>2 DEF MergeGone, MergeNext, Shape, CreditsOut, TypeOK
  <2>3. CASE MergeLands(p)
    BY <2>3 DEF MergeLands, OwnLands, TypeOK
  <2>4. CASE MergePublished(p)
    BY <2>4 DEF MergePublished, Shape, CreditsOut, TypeOK
  <2>5. CASE MergeFails(p)
    <3>1. CASE job[p] = "merging"
      <4>1. OwnThrows(p)
        BY <2>5, <3>1 DEF MergeFails
      <4>2. QED
        BY <4>1 DEF OwnThrows, TypeOK
    <3>2. CASE job[p] # "merging"
      BY <2>5, <3>2 DEF MergeFails, MergeNext, Shape, CreditsOut, TypeOK
    <3>3. QED
      BY <3>1, <3>2
  <2>6. QED
    BY <2>1, <2>2, <2>3, <2>4, <2>5
<1>5. InStages' /\ OneMerge'
  BY <1>1, <1>2, <1>3 DEF TypeOK, SameStage, Shape, InStages, OneMerge, Planned, At, Moving
<1>6. CreditsOut'
  BY <1>3, <1>4 DEF TypeOK, Shape, CreditsOut
<1>7. QED
  BY <1>1, <1>2, <1>5, <1>6 DEF Shape, FailuresTold, At, Running

LEMMA UploadShape ==
  ASSUME TypeOK, Shape, NEW p \in Path, Sent(p) \/ SendFails(p)
  PROVE  Shape' /\ SameStage /\ Running
<1>1. job[p] = "sending" /\ Taken(p, "upload", "sending") /\ CreditsGoBack(p)
  BY TakesNextIs DEF TypeOK, Sent, SendFails, Jobs, CreditsGoBack
<1>2. SameStage /\ (pass'.streak > 0 => ~pass'.clean)
  BY PassRecords, PassSucceeds DEF SameStage, TypeOK, Sent, SendFails
<1>3. InStages' /\ OneMerge' /\ CreditsOut'
  BY <1>1, <1>2, TakenInStages
<1>4. QED
  BY <1>1, <1>2, <1>3 DEF Shape, FailuresTold, InStages, At, Running

\* The steps of a pass that are neither its beginning nor its end.
OnTheWay == (PassStep \/ PassFault) /\ ~ListFails /\ ~Finish

LEMMA StagesKept ==
  ASSUME TypeOK, Shape, OnTheWay
  PROVE  Running /\ Running'
<1>1. CASE ListAndScan \/ StartDownloads \/ StartMerges \/ StartUploads
  <2>1. Running
    BY <1>1 DEF ListAndScan, StartDownloads, StartMerges, StartUploads, StartPool, At, Running
  <2>2. \E to \in Stages \ {"idle"} : pass' = [pass EXCEPT !.stage = to] \/ pass'.stage = to
    BY <1>1, PassSkips DEF ListAndScan, StartDownloads, StartMerges, StartUploads, StartPool, Stages, TypeOK
  <2>3. QED
    BY <2>1, <2>2, PassMoves DEF Running, TypeOK
<1>2. CASE ~(ListAndScan \/ StartDownloads \/ StartMerges \/ StartUploads)
  <2>1. SameStage /\ Running
    BY <1>2, DownloadShape, MergeShape, UploadShape DEF OnTheWay, PassStep, PassFault
  <2>2. QED
    BY <2>1 DEF SameStage, Running
<1>3. QED
  BY <1>1, <1>2

LEMMA NextShape == TypeOK /\ Shape /\ [Next]_vars => Shape'
<1> SUFFICES ASSUME TypeOK, Shape, [Next]_vars PROVE Shape'
  OBVIOUS
<1>1. CASE Environment \/ Wait \/ OnBooksChannel \/ BookEnds \/ UNCHANGED vars
  BY <1>1, EnvironmentShape
<1>2. CASE Triggers \/ Restart \/ ListFails \/ Finish
  BY <1>2, BetweenPassesShape
<1>3. CASE ListAndScan \/ StartDownloads \/ StartMerges \/ StartUploads
  BY <1>3, StageShape
<1>4. CASE \E p \in Path :
             \/ Fetched(p) \/ FetchFails(p) \/ FetchGone(p) \/ PullLands(p) \/ PullThrows(p)
             \/ MergeReads(p) \/ MergeGone(p) \/ MergeLands(p) \/ MergePublished(p)
             \/ MergeFails(p) \/ Sent(p) \/ SendFails(p)
  BY <1>4, DownloadShape, MergeShape, UploadShape
<1>5. QED
  BY <1>1, <1>2, <1>3, <1>4 DEF Next, PassStep, PassFault
-----------------------------------------------------------------------------
(***************************************************************************)
(* The remote: the running pass, and the transfers that wait.              *)
(***************************************************************************)
LEMMA BooksKept ==
  ASSUME TypeOK, BooksInOrder, books' = books, pass'.stage = "idle" <=> pass.stage = "idle"
  PROVE  BooksInOrder'
BY DEF BooksInOrder, Running

LEMMA BooksSettle ==
  ASSUME TypeOK, BooksInOrder, NEW clean, Ends(clean), Running
  PROVE  BooksInOrder'
<1>1. /\ Len(books') = Len(books) /\ books' \in Seq(Waits)
      /\ \A i \in 1 .. Len(books) :
           books'[i] = IF i = 1 /\ books[i] = "pass" THEN "wire" ELSE books[i]
  BY SettledIs DEF Ends, TypeOK
<1>2. ~(pass'.stage # "idle")
  BY PassIdles DEF Ends
<1>3. DOMAIN books = 1 .. Len(books) /\ DOMAIN books' = 1 .. Len(books)
  BY <1>1 DEF TypeOK
<1>4. books' # <<>> => books # <<>> /\ 1 \in 1 .. Len(books)
  BY <1>1 DEF TypeOK
<1>5. QED
  BY <1>1, <1>2, <1>3, <1>4 DEF BooksInOrder, Running

LEMMA NextBooks == TypeOK /\ Shape /\ BooksInOrder /\ [Next]_vars => BooksInOrder'
<1> SUFFICES ASSUME TypeOK, Shape, BooksInOrder, [Next]_vars PROVE BooksInOrder'
  OBVIOUS
<1>1. CASE Environment
  BY <1>1, BooksKept DEF Environment, Reader, ReaderWrites, Announce, OthersPublish
<1>2. CASE Triggers
  BY <1>2, PassBegins
  DEF Triggers, Tick, OnForeground, OnBackground, SyncNow, Begin, TypeOK, BooksInOrder
<1>3. CASE OnBooksChannel
  <2>1. /\ books' = Append(books, RemoteWork) /\ pass' = pass
        /\ books \in Seq(Waits) /\ RemoteWork \in Waits
    BY <1>3 DEF TypeOK, OnBooksChannel, RemoteWork, Waits
  <2>2. /\ Len(books') = Len(books) + 1 /\ books'[Len(books) + 1] = RemoteWork
        /\ \A i \in 1 .. Len(books) : books'[i] = books[i]
        /\ DOMAIN books' = 1 .. Len(books) + 1 /\ DOMAIN books = 1 .. Len(books)
        /\ Len(books) \in Nat
    BY <2>1
  <2>3. CASE books = <<>>
    BY <2>1, <2>2, <2>3 DEF BooksInOrder, RemoteWork, Running
  <2>4. CASE books # <<>>
    <3>1. Len(books) >= 1
      BY <2>1, <2>4
    <3>2. QED
      BY <2>1, <2>2, <2>4, <3>1 DEF BooksInOrder, RemoteWork, Running
  <2>5. QED
    BY <2>3, <2>4
<1>4. CASE BookEnds
  <2>1. /\ books \in Seq(Waits) /\ books # <<>> /\ Head(books) = "wire" /\ pass' = pass
        /\ books' = Settled("book", Tail(books))
    BY <1>4 DEF TypeOK, BookEnds
  <2>2. books[1] = "wire" /\ ~Running
    BY <2>1 DEF BooksInOrder, Running
  <2>3. /\ Tail(books) \in Seq(Waits) /\ Len(Tail(books)) = Len(books) - 1
        /\ \A i \in 1 .. Len(Tail(books)) : Tail(books)[i] = books[i + 1]
        /\ Len(books) \in Nat /\ DOMAIN books = 1 .. Len(books)
    BY <2>1
  <2>4. \A i \in 1 .. Len(Tail(books)) : Tail(books)[i] = "book"
    BY <2>3 DEF BooksInOrder
  <2>5. /\ books' \in Seq(Waits) /\ Len(books') = Len(Tail(books))
        /\ \A i \in 1 .. Len(Tail(books)) : books'[i] = IF i = 1 THEN "wire" ELSE "book"
    <3>1. /\ Settled("book", Tail(books)) \in Seq(Waits)
          /\ Len(Settled("book", Tail(books))) = Len(Tail(books))
          /\ \A i \in 1 .. Len(Tail(books)) :
               Settled("book", Tail(books))[i] =
                 IF i = 1 /\ Tail(books)[i] = "book" THEN "wire" ELSE Tail(books)[i]
      <4>1. Tail(books) \in Seq(Waits)
        BY <2>3
      <4>2. QED
        BY <4>1, SettledIs
    <3>2. QED
      BY <2>1, <2>4, <3>1
  <2>6. DOMAIN books' = 1 .. Len(Tail(books))
    BY <2>5
  <2>7. books' # <<>> => 1 \in 1 .. Len(Tail(books))
    BY <2>5
  <2>8. QED
    BY <2>1, <2>2, <2>5, <2>6, <2>7 DEF BooksInOrder, Running
<1>5. CASE Restart
  BY <1>5 DEF Restart, BooksInOrder
<1>6. CASE ListFails \/ Finish
  BY <1>6, BooksSettle DEF ListFails, Finish, At, Running
<1>7. CASE OnTheWay
  <2>1. books' = books
    BY <1>7 DEF OnTheWay, PassStep, PassFault, ListAndScan, StartDownloads, StartMerges, StartUploads,
                Fetched, FetchFails, FetchGone, PullLands, PullThrows, MergeReads,
                MergeGone, MergeLands, MergePublished, MergeFails, Sent, SendFails
  <2>2. pass'.stage # "idle" /\ pass.stage # "idle"
    BY <1>7, StagesKept DEF Running
  <2>3. QED
    BY <2>1, <2>2, BooksKept
<1>8. CASE Wait \/ UNCHANGED vars
  BY <1>8, BooksKept DEF Wait, vars
<1>9. QED
  BY <1>1, <1>2, <1>3, <1>4, <1>5, <1>6, <1>7, <1>8 DEF Next, OnTheWay

\* Only the first of the queue is on the wire, and not while a pass runs.
LEMMA OneAtATime == TypeOK /\ BooksInOrder => OneOnTheRemote
<1> SUFFICES ASSUME TypeOK, BooksInOrder PROVE OneOnTheRemote
  OBVIOUS
<1> DEFINE onWire == {i \in DOMAIN books : books[i] = "wire"}
<1>1. \A i \in onWire : i = 1 /\ ~Running
  BY DEF BooksInOrder, TypeOK
<1>2. CASE onWire = {}
  <2>1. Cardinality(onWire) = 0
    BY <1>2, FS_EmptySet
  <2>2. QED
    BY <2>1 DEF OneOnTheRemote
<1>3. CASE onWire # {}
  <2>1. onWire = {1} /\ ~Running
    BY <1>1, <1>3
  <2>2. Cardinality(onWire) = 1
    BY <2>1, FS_Singleton
  <2>3. QED
    BY <2>1, <2>2 DEF OneOnTheRemote
<1>4. QED
  BY <1>2, <1>3

-----------------------------------------------------------------------------
(***************************************************************************)
(* How long a dead link can be tried.                                      *)
(***************************************************************************)
LEMMA WireCounts ==
  ASSUME NEW S \in SUBSET Path
  PROVE  IsFiniteSet(S) /\ Cardinality(S) \in Nat
BY SyncScheduleAssumption, FS_Subset, FS_CardinalityType

\* When the wire gains nothing, and a failure that halts the pass takes one off it.
WireShrinks ==
  /\ Cardinality(Wire') <= Cardinality(Wire)
  /\ \/ pass'.streak = 0 \/ pass'.streak = pass.streak
     \/ /\ pass'.streak = pass.streak + 1
        /\ Halted(pass'.streak) => Cardinality(Wire') = Cardinality(Wire) - 1

LEMMA ShrinkingKeeps ==
  ASSUME TypeOK, WireBound, WireShrinks
  PROVE  WireBound'
<1>1. /\ Cardinality(Wire) \in Nat /\ Cardinality(Wire') \in Nat
      /\ pass.streak \in Nat
  BY WireCounts DEF TypeOK, Pass, Wire, Doing
<1>2. Width \in Nat /\ Width >= 1 /\ MaxConsecutive \in Nat /\ MaxConsecutive >= 1
  BY SyncScheduleAssumption
<1>3. QED
  BY <1>1, <1>2 DEF WireBound, WireShrinks, Halted

LEMMA TakenShrinks ==
  ASSUME TypeOK, NEW p \in Path, NEW queued \in {"download", "upload"},
         NEW wire \in {"pulling", "sending"}, Taken(p, queued, wire), p \in Wire
  PROVE  /\ Cardinality(Wire') <= Cardinality(Wire)
         /\ Halted(pass'.streak) => Cardinality(Wire') = Cardinality(Wire) - 1
<1>1. Wire \in SUBSET Path /\ p \in Wire
  BY DEF Wire, Doing
<1>2. IsFiniteSet(Wire) /\ Cardinality(Wire) \in Nat
  BY <1>1, WireCounts
<1>3. /\ IsFiniteSet(Wire \ {p})
      /\ Cardinality(Wire \ {p}) = Cardinality(Wire) - 1
  BY <1>1, <1>2, FS_RemoveElement
<1>4. CASE \E r \in Path \ {p} : job'[r] # job[r]
  <2>1. PICK q \in Path \ {p} : job'[q] # job[q]
    BY <1>4
  <2>2. job[q] = queued /\ job'[q] = wire /\ ~Halted(pass'.streak)
    BY <2>1 DEF Taken
  <2>3. \A r \in Path \ {p, q} : job'[r] = job[r]
    BY <2>1 DEF Taken
  <2>4. Wire' = (Wire \ {p}) \cup {q} /\ q \notin Wire \ {p}
    BY <2>1, <2>2, <2>3 DEF Wire, Doing, Transfers, Taken
  <2>5. Cardinality((Wire \ {p}) \cup {q}) = Cardinality(Wire \ {p}) + 1
    BY <1>3, <2>4, FS_AddElement
  <2>6. QED
    BY <1>2, <1>3, <2>2, <2>4, <2>5
<1>5. CASE \A r \in Path \ {p} : job'[r] = job[r]
  <2>1. Wire' = Wire \ {p}
    BY <1>5 DEF Wire, Doing, Transfers, Taken
  <2>2. QED
    BY <1>2, <1>3, <2>1
<1>6. QED
  BY <1>4, <1>5

LEMMA NoWire ==
  ASSUME WireBound, Wire' = {}, pass'.streak <= MaxConsecutive, pass'.streak \in Nat
  PROVE  WireBound'
<1>1. Cardinality(Wire') = 0
  BY FS_EmptySet
<1>2. QED
  BY <1>1, SyncScheduleAssumption DEF WireBound

LEMMA PoolBound ==
  ASSUME TypeOK, WireBound, NEW from, NEW to, NEW queued \in {"download", "upload"},
         NEW wire \in {"pulling", "sending"}, PoolStarts(from, to, queued, wire), Wire = {}
  PROVE  WireBound'
<1>1. PICK W \in SUBSET Doing({queued}) :
        /\ IsFiniteSet(W) /\ Cardinality(W) <= Width
        /\ Halted(pass.streak) => W = {}
        /\ \A r \in Path : job'[r] = IF r \in W THEN wire ELSE job[r]
  BY DEF PoolStarts
<1>2. Wire' = W
  BY <1>1 DEF Wire, Doing, Transfers
<1>3. pass'.streak = pass.streak /\ pass.streak \in Nat
  BY DEF PoolStarts, TypeOK, Pass
<1>4. Cardinality(W) \in Nat /\ Cardinality({}) = 0
  BY <1>1, FS_CardinalityType, FS_EmptySet
<1>5. CASE W = {}
  BY <1>2, <1>3, <1>4, <1>5 DEF WireBound
<1>6. CASE ~Halted(pass.streak)
  BY <1>1, <1>2, <1>3, <1>4, <1>6, SyncScheduleAssumption DEF WireBound, Halted
<1>7. QED
  BY <1>1, <1>5, <1>6

\* At the merges the wire carries merges only.
LEMMA MergesAlone ==
  ASSUME TypeOK, Shape, At("merges")
  PROVE  Wire = Doing({"merging", "publishing"})
BY DEF Shape, InStages, At, Wire, Doing, Transfers

LEMMA MergeBound ==
  ASSUME TypeOK, Shape, WireBound, NEW p \in Path,
         MergeReads(p) \/ MergeGone(p) \/ MergeLands(p) \/ MergePublished(p) \/ MergeFails(p)
  PROVE  WireBound'
<1>1. At("merges")
  BY DEF MergeReads, MergeGone, MergeLands, MergePublished, MergeFails, MergeNext, Shape,
         InStages, Moving
<1>2. pass.streak \in Nat /\ (Wire \in SUBSET Path) /\ (Wire' \in SUBSET Path)
  BY DEF TypeOK, Pass, Wire, Doing
<1>3. MergeNext(p) => Wire = {} /\ pass.streak < MaxConsecutive
  BY <1>1, <1>2, MergesAlone, SyncScheduleAssumption DEF MergeNext, Halted
<1>4. CASE MergeReads(p)
  <2>1. Wire' = {p}
    BY <1>3, <1>4 DEF MergeReads, TypeOK, Wire, Doing, Transfers
  <2>2. Cardinality(Wire') = 1 /\ pass' = pass
    BY <2>1, <1>4, FS_Singleton DEF MergeReads
  <2>3. QED
    BY <1>2, <1>3, <1>4, <2>2, SyncScheduleAssumption DEF MergeReads, WireBound
<1>5. CASE MergeGone(p) \/ MergeLands(p)
  <2>1. Wire' = Wire /\ pass' = pass
    BY <1>5 DEF MergeGone, MergeNext, MergeLands, TypeOK, Wire, Doing, Transfers
  <2>2. QED
    BY <2>1 DEF WireBound
<1>6. CASE MergePublished(p) \/ (MergeFails(p) /\ Moving(p))
  <2>1. p \in Wire /\ Wire' = Wire \ {p}
    BY <1>6 DEF MergePublished, MergeFails, Moving, TypeOK, Wire, Doing, Transfers
  <2>2. Cardinality(Wire') = Cardinality(Wire) - 1 /\ Cardinality(Wire) \in Nat
    BY <1>2, <2>1, WireCounts, FS_RemoveElement
  <2>3. pass'.streak \in {0, pass.streak + 1}
    BY <1>6, PassSucceeds, PassRecords DEF MergePublished, MergeFails, TypeOK
  <2>4. QED
    BY <2>2, <2>3, ShrinkingKeeps DEF WireShrinks
<1>7. CASE MergeFails(p) /\ ~Moving(p)
  <2>1. MergeNext(p) /\ Wire' = Wire
    BY <1>7 DEF MergeFails, MergeNext, Moving, TypeOK, Wire, Doing, Transfers
  <2>2. pass'.streak = pass.streak + 1
    BY <1>7, PassRecords DEF MergeFails, TypeOK
  <2>3. QED
    BY <1>2, <1>3, <2>1, <2>2, NoWire, SyncScheduleAssumption
<1>8. QED
  BY <1>4, <1>5, <1>6, <1>7

LEMMA TransferBound ==
  ASSUME TypeOK, WireBound, NEW p \in Path,
         \/ FetchFails(p) \/ FetchGone(p) \/ PullLands(p) \/ PullThrows(p)
         \/ Sent(p) \/ SendFails(p)
  PROVE  WireBound'
<1>1. p \in Wire
  BY DEF FetchFails, FetchGone, PullLands, PullThrows, Sent, SendFails, Wire, Doing, Transfers
<1>2. Taken(p, "download", "pulling") \/ Taken(p, "upload", "sending")
  BY TakesNextIs
  DEF TypeOK, FetchFails, FetchGone, PullLands, PullThrows, Sent, SendFails, Jobs
<1>3. pass' = pass \/ pass'.streak \in {0, pass.streak + 1}
  BY PassSucceeds, PassRecords
  DEF FetchFails, FetchGone, PullLands, PullThrows, Sent, SendFails, TypeOK
<1>4. QED
  BY <1>1, <1>2, <1>3, TakenShrinks, ShrinkingKeeps DEF WireShrinks

LEMMA NextBound == TypeOK /\ Shape /\ WireBound /\ [Next]_vars => WireBound'
<1> SUFFICES ASSUME TypeOK, Shape, WireBound, [Next]_vars PROVE WireBound'
  OBVIOUS
<1>1. CASE Environment \/ Wait \/ OnBooksChannel \/ BookEnds \/ UNCHANGED vars
  <2>1. pass' = pass /\ job' = job
    BY <1>1 DEF Environment, Reader, ReaderWrites, Announce, OthersPublish, Wait,
                OnBooksChannel, BookEnds, vars
  <2>2. QED
    BY <2>1 DEF WireBound, Wire, Doing
<1>2. CASE Triggers
  <2>1. pass'.streak = 0 /\ job' = job
    BY <1>2, PassBegins
    DEF Triggers, Tick, OnForeground, OnBackground, SyncNow, Begin, TypeOK
  <2>2. Wire' = Wire /\ Cardinality(Wire) \in Nat
    BY <2>1, WireCounts DEF Wire, Doing
  <2>3. QED
    BY <2>1, <2>2, ShrinkingKeeps DEF WireShrinks
<1>3. CASE Restart \/ ListFails \/ Finish
  <2>1. pass'.streak = 0
    BY <1>3, PassRestarts, PassIdles DEF Restart, ListFails, Finish, Ends
  <2>2. Wire' = {}
    BY <1>3 DEF Restart, ListFails, Finish, Ends, NoJobs, Wire, Doing, Transfers
  <2>3. QED
    BY <2>1, <2>2, NoWire, SyncScheduleAssumption
<1>4. CASE ListAndScan
  <2>1. Wire = {} /\ Wire' = {}
    BY <1>4 DEF ListAndScan, At, Shape, InStages, Planned, Kind, Wire, Doing, Transfers
  <2>2. pass'.streak \in {1, pass.streak}
    BY <1>4, PassMoves, PassSkips DEF ListAndScan, TypeOK, Stages
  <2>3. CASE pass'.streak = 1
    BY <2>1, <2>3, NoWire, SyncScheduleAssumption
  <2>4. CASE pass'.streak = pass.streak
    BY <2>1, <2>4 DEF WireBound
  <2>5. QED
    BY <2>2, <2>3, <2>4
<1>5. CASE StartDownloads
  <2>1. PoolStarts("planned", "downloads", "download", "pulling")
    BY <1>5, DownloadsStart
  <2>2. Wire = {}
    BY <2>1 DEF PoolStarts, Shape, InStages, At, Moving, Wire, Doing, Transfers
  <2>3. QED
    BY <2>1, <2>2, PoolBound
<1>6. CASE StartUploads
  <2>1. PoolStarts("merges", "uploads", "upload", "sending")
    BY <1>6, UploadsStart
  <2>2. Wire = {}
    BY <1>6, <2>1, MergesAlone DEF PoolStarts, StartUploads, At
  <2>3. QED
    BY <2>1, <2>2, PoolBound
<1>7. CASE StartMerges \/ \E p \in Path : Fetched(p)
  <2>1. Wire' = Wire /\ pass'.streak = pass.streak
    BY <1>7, PassMoves DEF StartMerges, Fetched, TypeOK, Stages, Wire, Doing, Transfers
  <2>2. QED
    BY <2>1 DEF WireBound
<1>8. CASE \E p \in Path :
             \/ FetchFails(p) \/ FetchGone(p) \/ PullLands(p) \/ PullThrows(p)
             \/ MergeReads(p) \/ MergeGone(p) \/ MergeLands(p) \/ MergePublished(p)
             \/ MergeFails(p) \/ Sent(p) \/ SendFails(p)
  BY <1>8, MergeBound, TransferBound
<1>9. QED
  BY <1>1, <1>2, <1>3, <1>4, <1>5, <1>6, <1>7, <1>8 DEF Next, PassStep, PassFault

-----------------------------------------------------------------------------
(***************************************************************************)
(* Who answers for an announced edit.                                      *)
(***************************************************************************)
Answers == Answered /\ EditedSince /\ CleanAnswers

\* A failure, or no pass that has planned: nothing is claimed of the pass.
LEMMA Unclean == ~pass'.clean \/ ~Planned' => CleanAnswers'
BY DEF CleanAnswers

LEMMA ReaderAnswers ==
  ASSUME TypeOK, Shape, Answers, NEW p \in Path, ReaderWrites(p)
  PROVE  Answers'
<1>1. /\ \A q \in Path \ {p} : disk'[q] = disk[q]
      /\ p \notin told' /\ told' \subseteq told
      /\ known' = known /\ dirty' = dirty /\ credit' = credit /\ pass' = pass /\ job' = job
      /\ seen' = seen /\ swallowed' = swallowed /\ skipped' = skipped
  BY DEF TypeOK, ReaderWrites
<1>2. \A q \in Path : Waiting(q)' => Waiting(q)
  BY <1>1 DEF Waiting
<1>3. Answered'
  BY <1>1, <1>2 DEF Answers, Answered, Excused, Spent, Running
<1>4. EditedSince'
  BY <1>1 DEF Answers, EditedSince, TypeOK
<1>5. CleanAnswers'
  BY <1>1, <1>2
  DEF Answers, CleanAnswers, OwesWaiting, OwesUnequal, PoolsRun, Planned, Excused, Spent, At, Doing
<1>6. QED
  BY <1>3, <1>4, <1>5 DEF Answers

LEMMA AnnounceAnswers ==
  ASSUME TypeOK, Shape, Answers, NEW p \in Path, Announce(p)
  PROVE  Answers'
<1>1. /\ told' = told \cup {p} /\ swallowed' = swallowed \ dirty'
      /\ disk' = disk /\ known' = known /\ pass' = pass /\ job' = job
      /\ seen' = seen /\ skipped' = skipped
  BY DEF Announce
<1>2. /\ dirty \subseteq dirty'
      /\ \A q \in Path \ {p} : credit'[q] = credit[q]
      /\ credit'[p] = 0 /\ (p \in dirty' \/ Spent(p)')
  <2>1. CASE credit[p] > 0
    BY <2>1 DEF Announce, NoteLocalChange, TypeOK, Shape, CreditsOut, Spent
  <2>2. CASE ~(credit[p] > 0)
    BY <2>2 DEF Announce, NoteLocalChange, TypeOK
  <2>3. QED
    BY <2>1, <2>2
<1>3. \A q \in Path : Excused(q) => Excused(q)'
  BY <1>1, <1>2 DEF Excused
<1>4. \A q \in Path \ {p} : (Waiting(q)' => Waiting(q)) /\ (Spent(q) => Spent(q)')
  BY <1>1, <1>2 DEF Waiting, Spent
<1>5. Excused(p)' \/ Spent(p)'
  BY <1>2 DEF Excused
<1>6. Answered'
  BY <1>1, <1>3, <1>4, <1>5 DEF Answers, Answered, Running
<1>7. EditedSince'
  BY <1>1, <1>2 DEF Answers, EditedSince, Spent, TypeOK
<1>8. CleanAnswers'
  BY <1>1, <1>3, <1>4, <1>5
  DEF Answers, CleanAnswers, OwesWaiting, OwesUnequal, PoolsRun, Planned, At, Doing
<1>9. QED
  BY <1>6, <1>7, <1>8 DEF Answers

LEMMA BetweenPassesAnswers ==
  ASSUME TypeOK, Shape, Answers, Triggers \/ Restart \/ ListFails \/ Finish
  PROVE  Answers'
<1>1. CASE Triggers
  <2>1. Begin
    BY <1>1 DEF Triggers, Tick, OnForeground, OnBackground, SyncNow
  <2>2. /\ pass'.stage = "list" /\ pass'.claimed = dirty /\ ~Running /\ pass.stage = "idle"
        /\ disk' = disk /\ known' = known /\ credit' = credit /\ job' = job /\ seen' = seen
        /\ told' = told /\ swallowed' = swallowed /\ skipped' = skipped
    BY <2>1, PassBegins DEF Begin, TypeOK, history, Running
  <2>3. Answered'
    BY <2>2 DEF Answers, Answered, Waiting, Excused, Spent, Running
  <2>4. \A q \in Path : job'[q] = "none"
    BY <2>2 DEF Shape, InStages, Planned
  <2>5. EditedSince' /\ CleanAnswers'
    BY <2>2, <2>4, Unclean DEF EditedSince, Planned, TypeOK
  <2>6. QED
    BY <2>3, <2>5 DEF Answers
<1>2. CASE Restart
  <2>1. pass'.stage = "list" /\ told' = {}
    BY <1>2, PassRestarts DEF Restart
  <2>2. QED
    BY <2>1, Unclean DEF Answers, Answered, EditedSince, Waiting, Planned
<1>3. CASE ListFails \/ Finish
  <2>1. /\ pass'.stage = "idle"
        /\ disk' = disk /\ known' = known /\ told' = told
        /\ swallowed' = swallowed /\ skipped' = skipped
    BY <1>3, PassIdles DEF ListFails, Finish, Ends, history
  <2>2. \A q \in Path : job'[q] = "none"
    BY <1>3 DEF ListFails, Finish, Ends, NoJobs
  <2>3. \A q \in Path : ~Spent(q)
    BY <1>3 DEF ListFails, Finish, At, Shape, InStages, Planned, Moving, Spent
  <2>4. dirty' = dirty \cup pass.claimed => Answered'
    BY <1>3, <2>1, <2>3 DEF Answers, Answered, Waiting, Excused
  <2>5. ASSUME Finish, pass.clean, dirty' = dirty PROVE Answered'
    <3>1. Planned /\ At("uploads") /\ Doing({"sending"}) = {}
      BY <2>5 DEF Finish, Planned, At
    <3>2. Doing({"merge"}) = {} /\ Doing({"upload"}) = {} /\ OwesWaiting
      BY <2>5, <3>1 DEF Answers, CleanAnswers, PoolsRun
    <3>3. \A q \in Path : job[q] \notin Owed
      BY <3>1, <3>2 DEF Doing, Owed, Shape, InStages, At, Moving
    <3>4. Answered'
      BY <2>1, <2>3, <2>5, <3>2, <3>3 DEF OwesWaiting, Answered, Waiting, Excused
    <3>5. QED
      BY <3>4
  <2>6. Answered'
    <3>1. CASE ListFails
      BY <2>4, <3>1 DEF ListFails, Ends, Answers
    <3>2. CASE Finish
      BY <2>4, <2>5, <3>2 DEF Finish, Ends, Answers
    <3>3. QED
      BY <1>3, <3>1, <3>2
  <2>7. EditedSince' /\ CleanAnswers'
    BY <2>1, <2>2, Unclean DEF EditedSince, Planned, TypeOK
  <2>8. QED
    BY <2>6, <2>7 DEF Answers
<1>4. QED
  BY <1>1, <1>2, <1>3

LEMMA StillAnswers ==
  ASSUME TypeOK, Shape, Answers,
         \/ Wait \/ OnBooksChannel \/ BookEnds \/ UNCHANGED vars
         \/ \E p \in Path : OthersPublish(p)
  PROVE  Answers'
<1>1. /\ disk' = disk /\ known' = known /\ dirty' = dirty /\ credit' = credit
      /\ pass' = pass /\ job' = job /\ seen' = seen
      /\ told' = told /\ swallowed' = swallowed /\ skipped' = skipped
  BY DEF Wait, OnBooksChannel, BookEnds, OthersPublish, vars, history
<1>2. QED
  BY <1>1
  DEF Answers, Answered, EditedSince, CleanAnswers, OwesWaiting, OwesUnequal, PoolsRun,
      Waiting, Excused, Spent, Planned, Running, At, Doing

LEMMA ScanAnswers ==
  ASSUME TypeOK, Shape, Answers, ListAndScan
  PROVE  Answers'
<1>1. /\ disk' = disk /\ known' = known /\ dirty' = dirty /\ credit' = credit
      /\ told' = told /\ swallowed' = swallowed /\ skipped' = skipped /\ seen' = disk
  BY DEF ListAndScan, history
<1>2. /\ pass'.stage = "planned" /\ pass'.claimed = pass.claimed /\ pass.stage = "list"
      /\ pass'.clean => \A q \in Path : job'[q] = Kind(q)
  BY PassMoves, PassSkips DEF ListAndScan, TypeOK, Stages, At
<1>3. \A q \in Path : job[q] = "none"
  BY <1>2 DEF Shape, InStages, Planned
<1>4. Answered'
  BY <1>1, <1>2, <1>3 DEF Answers, Answered, Waiting, Excused, Spent, Running
<1>5. EditedSince'
  BY <1>1 DEF EditedSince
<1>6. \A q \in Path : disk[q] # known[q] => Kind(q) \in Owed
  BY DEF Kind, Owed
<1>7. CleanAnswers'
  BY <1>1, <1>2, <1>6
  DEF CleanAnswers, OwesWaiting, OwesUnequal, PoolsRun, Waiting, At
<1>8. QED
  BY <1>4, <1>5, <1>7 DEF Answers

\* A step of the pass that leaves files, snapshot and histories alone.
Inward ==
  /\ disk' = disk /\ known' = known /\ dirty' = dirty /\ seen' = seen
  /\ told' = told /\ swallowed' = swallowed /\ skipped' = skipped
  /\ pass'.claimed = pass.claimed /\ Running /\ Running'

LEMMA InwardKeeps ==
  ASSUME Inward, Answers, NEW p \in Path
  PROVE  /\ Waiting(p)' = Waiting(p) /\ Excused(p)' = Excused(p)
         /\ (Spent(p) => Spent(p)') =>
              (Waiting(p)' => Excused(p)' \/ Spent(p)' \/ (Running' /\ p \in pass'.claimed))
BY DEF Inward, Answers, Answered, Waiting, Excused

LEMMA PoolAnswers ==
  ASSUME TypeOK, Shape, Answers, StartDownloads \/ StartMerges \/ StartUploads
  PROVE  Answers'
<1>1. CASE StartDownloads
  <2>1. PICK W \in SUBSET Doing({"download"}) :
          \A r \in Path : job'[r] = IF r \in W THEN "pulling" ELSE job[r]
    BY <1>1, DownloadsStart DEF PoolStarts
  <2>2. \A r \in Path : job'[r] = job[r] \/ (job[r] = "download" /\ job'[r] = "pulling")
    BY <2>1 DEF Doing
  <2>3. /\ pass.stage = "planned" /\ pass'.stage = "downloads"
        /\ pass'.claimed = pass.claimed /\ pass'.clean = pass.clean
    BY <1>1, DownloadsStart DEF PoolStarts
  <2>4. Inward /\ credit' = credit
    BY <1>1, <2>3 DEF StartDownloads, Inward, Running, history
  <2>5. \A r \in Path : Spent(r) => Spent(r)'
    BY <2>2, <2>4 DEF Spent
  <2>6. Answered'
    BY <2>4, <2>5, InwardKeeps DEF Answered
  <2>7. EditedSince'
    BY <2>2, <2>4 DEF Answers, EditedSince, Inward, TypeOK
  <2>8. CleanAnswers'
    BY <2>2, <2>3, <2>4, <2>5, InwardKeeps
    DEF Answers, CleanAnswers, OwesWaiting, OwesUnequal, PoolsRun, Inward, Planned, Owed, At
  <2>9. QED
    BY <2>6, <2>7, <2>8 DEF Answers
<1>2. CASE StartMerges
  <2>1. /\ pass.stage = "downloads" /\ pass'.stage = "merges"
        /\ pass'.claimed = pass.claimed /\ pass'.clean = pass.clean
    BY <1>2, PassMoves DEF StartMerges, TypeOK, Stages, At
  <2>2. Inward /\ credit' = credit /\ job' = job
    BY <1>2, <2>1 DEF StartMerges, Inward, Running, history
  <2>3. \A r \in Path : Spent(r) => Spent(r)'
    BY <2>2 DEF Spent
  <2>4. Answered'
    BY <2>2, <2>3, InwardKeeps DEF Answered
  <2>5. EditedSince'
    BY <2>2 DEF Answers, EditedSince, Inward, TypeOK
  <2>6. CleanAnswers'
    BY <2>1, <2>2, <2>3, InwardKeeps
    DEF Answers, CleanAnswers, OwesWaiting, OwesUnequal, PoolsRun, Inward, Planned, At
  <2>7. QED
    BY <2>4, <2>5, <2>6 DEF Answers
<1>3. CASE StartUploads
  <2>1. PICK W \in SUBSET Doing({"upload"}) :
          /\ W = {} => Halted(pass.streak) \/ Doing({"upload"}) = {}
          /\ \A r \in Path : job'[r] = IF r \in W THEN "sending" ELSE job[r]
    BY <1>3, UploadsStart DEF PoolStarts
  <2>2. \A r \in Path : job'[r] = job[r] \/ (job[r] = "upload" /\ job'[r] = "sending")
    BY <2>1 DEF Doing
  <2>3. /\ pass.stage = "merges" /\ pass'.stage = "uploads"
        /\ pass'.claimed = pass.claimed /\ pass'.clean = pass.clean
    BY <1>3, UploadsStart DEF PoolStarts
  <2>4. Inward /\ credit' = credit
    BY <1>3, <2>3 DEF StartUploads, Inward, Running, history
  <2>5. \A r \in Path : Spent(r) => Spent(r)'
    BY <2>2, <2>4 DEF Spent
  <2>6. Answered'
    BY <2>4, <2>5, InwardKeeps DEF Answered
  <2>7. EditedSince'
    BY <2>2, <2>4 DEF Answers, EditedSince, Inward, TypeOK
  <2>8. pass.clean => ~Halted(pass.streak)
    BY SyncScheduleAssumption DEF Shape, FailuresTold, TypeOK, Pass, Halted
  <2>9. pass.clean => PoolsRun'
    <3>1. pass.clean => Doing({"merge"})' = {}
      BY <1>3, <2>2, <2>8 DEF StartUploads, Doing
    <3>2. pass.clean /\ Doing({"sending"})' = {} => Doing({"upload"})' = {}
      BY <2>1, <2>8 DEF Doing
    <3>3. QED
      BY <3>1, <3>2 DEF PoolsRun
  <2>10. CleanAnswers'
    BY <2>2, <2>3, <2>4, <2>5, <2>9, InwardKeeps
    DEF Answers, CleanAnswers, OwesWaiting, OwesUnequal, Inward, Planned, Owed
  <2>11. QED
    BY <2>6, <2>7, <2>10 DEF Answers
<1>4. QED
  BY <1>1, <1>2, <1>3

LEMMA DownloadAnswers ==
  ASSUME TypeOK, Shape, Answers, NEW p \in Path,
         Fetched(p) \/ FetchFails(p) \/ FetchGone(p) \/ PullLands(p) \/ PullThrows(p)
  PROVE  Answers'
<1>1. SameStage /\ Running /\ Running' /\ pass.stage = "downloads"
  BY DownloadShape
  DEF SameStage, Running, Shape, InStages, At, Fetched, FetchFails, FetchGone, PullLands, PullThrows
<1>2. pass'.claimed = pass.claimed
  BY PassRecords, PassSucceeds
  DEF Fetched, FetchFails, FetchGone, PullLands, PullThrows, TypeOK
<1>3. PoolsRun'
  BY <1>1 DEF PoolsRun, SameStage, At
<1>4. CASE Fetched(p)
  <2>1. /\ Inward /\ pass' = pass /\ job[p] = "pulling"
        /\ job' = [job EXCEPT ![p] = "landing"] /\ credit' = [credit EXCEPT ![p] = 1]
    BY <1>1, <1>2, <1>4 DEF Fetched, OwnStarts, Inward, history
  <2>2. \A r \in Path : Spent(r) => Spent(r)'
    BY <2>1 DEF Spent, TypeOK
  <2>3. Answered'
    BY <2>1, <2>2, InwardKeeps DEF Answered
  <2>4. EditedSince'
    BY <2>1 DEF Answers, EditedSince, Inward, TypeOK
  <2>5. CleanAnswers'
    BY <1>3, <2>1, <2>2, InwardKeeps
    DEF Answers, CleanAnswers, OwesWaiting, OwesUnequal, Inward, Planned, Owed, TypeOK
  <2>6. QED
    BY <2>3, <2>4, <2>5 DEF Answers
<1>5. CASE FetchFails(p) \/ FetchGone(p)
  <2>1. /\ Inward /\ credit' = credit /\ job[p] = "pulling"
        /\ Taken(p, "download", "pulling")
    BY <1>1, <1>2, <1>5, TakesNextIs DEF FetchFails, FetchGone, Inward, history, TypeOK, Jobs
  <2>2. \A r \in Path : Spent(r) => Spent(r)'
    BY <2>1 DEF Spent, Taken
  <2>3. Answered'
    BY <2>1, <2>2, InwardKeeps DEF Answered
  <2>4. EditedSince'
    BY <2>1 DEF Answers, EditedSince, Inward, TypeOK, Taken
  <2>5. \A r \in Path : job[r] \in Owed => job'[r] \in Owed
    BY <2>1 DEF Taken, Owed
  <2>6. ~pass'.clean \/ pass' = pass
    BY <1>5, PassRecords DEF FetchFails, FetchGone, TypeOK
  <2>7. CleanAnswers'
    BY <1>3, <2>1, <2>2, <2>5, <2>6, InwardKeeps
    DEF Answers, CleanAnswers, OwesWaiting, OwesUnequal, Inward, Planned
  <2>8. QED
    BY <2>3, <2>4, <2>7 DEF Answers
<1>6. CASE PullLands(p)
  <2>1. /\ Taken(p, "download", "pulling") /\ job[p] = "landing"
        /\ known' = known /\ seen' = seen /\ told' = told
        /\ swallowed' = swallowed /\ skipped' = skipped
        /\ pass'.clean = pass.clean
    BY <1>6, TakesNextIs, PassSucceeds DEF PullLands, history, TypeOK, Jobs
  <2>2. /\ disk'[p] = known[p] /\ \A q \in Path \ {p} : disk'[q] = disk[q]
        /\ \A q \in Path \ {p} : credit'[q] = credit[q]
        /\ dirty \subseteq dirty'
    <3>1. /\ disk' = [disk EXCEPT ![p] = known[p]] /\ DOMAIN disk = Path
          /\ credit' = [credit EXCEPT ![p] = 0] /\ DOMAIN credit = Path
          /\ dirty' = IF credit[p] > 0 THEN dirty ELSE dirty \cup {p}
      BY <1>6 DEF PullLands, OwnLands, TypeOK
    <3>2. QED
      BY <3>1
  <2>3. /\ ~Waiting(p)' /\ \A q \in Path : Excused(q) => Excused(q)'
        /\ \A q \in Path \ {p} : (Waiting(q)' => Waiting(q)) /\ (Spent(q) => Spent(q)')
    BY <2>1, <2>2 DEF Waiting, Excused, Spent, Taken
  <2>4. Answered'
    BY <1>1, <1>2, <2>3 DEF Answers, Answered
  <2>5. EditedSince'
    <3>1. SUFFICES ASSUME NEW q \in told, disk'[q] # seen[q], q \in Path
                   PROVE  /\ job'[q] \in {"publishing", "upload", "sending"} => q \in dirty'
                          /\ job'[q] = "merging" => credit'[q] = 0
      BY <2>1 DEF EditedSince, TypeOK
    <3>2. CASE q = p
      BY <2>1, <3>2 DEF Taken
    <3>3. CASE q # p
      <4>1. /\ disk[q] # seen[q] /\ credit'[q] = credit[q] /\ dirty \subseteq dirty'
            /\ job'[q] = job[q] \/ job'[q] = "pulling"
        BY <2>1, <2>2, <3>1, <3>3 DEF Taken
      <4>2. QED
        BY <3>1, <4>1 DEF Answers, EditedSince
    <3>4. QED
      BY <3>2, <3>3
  <2>6. \A r \in Path : job[r] \in Owed => job'[r] \in Owed
    BY <2>1 DEF Taken, Owed
  <2>7. CleanAnswers'
    BY <1>1, <1>3, <2>1, <2>3, <2>6
    DEF Answers, CleanAnswers, OwesWaiting, OwesUnequal, SameStage, Planned
  <2>8. QED
    BY <2>4, <2>5, <2>7 DEF Answers
<1>7. CASE PullThrows(p)
  <2>1. /\ Taken(p, "download", "pulling") /\ job[p] = "landing"
        /\ disk' = disk /\ known' = known /\ seen' = seen /\ told' = told
        /\ dirty' = dirty /\ skipped' = skipped /\ ~pass'.clean
    BY <1>7, TakesNextIs, PassRecords DEF PullThrows, TypeOK, Jobs
  <2>2. /\ \A q \in Path \ {p} : credit'[q] = credit[q]
        /\ swallowed \subseteq swallowed' /\ (credit[p] = 0 => p \in swallowed')
    BY <1>7 DEF PullThrows, OwnThrows, TypeOK
  <2>3. \A q \in Path :
          /\ Waiting(q)' => Waiting(q)
          /\ Excused(q) \/ Spent(q) => Excused(q)' \/ Spent(q)'
    BY <2>1, <2>2 DEF Waiting, Excused, Spent, Taken
  <2>4. Answered'
    BY <1>1, <1>2, <2>3 DEF Answers, Answered
  <2>5. EditedSince'
    BY <2>1, <2>2 DEF Answers, EditedSince, Taken, TypeOK
  <2>6. QED
    BY <2>1, <2>4, <2>5, Unclean DEF Answers
<1>8. QED
  BY <1>4, <1>5, <1>6, <1>7

LEMMA MergeAnswers ==
  ASSUME TypeOK, Shape, Answers, NEW p \in Path,
         MergeReads(p) \/ MergeGone(p) \/ MergeLands(p) \/ MergePublished(p) \/ MergeFails(p)
  PROVE  Answers'
<1>1. SameStage /\ Running /\ Running' /\ pass.stage = "merges"
  BY MergeShape
  DEF SameStage, Running, Shape, InStages, At, Moving, MergeReads, MergeGone, MergeLands,
      MergePublished, MergeFails, MergeNext
<1>2. pass'.claimed = pass.claimed
  BY PassRecords, PassSucceeds
  DEF MergeReads, MergeGone, MergeLands, MergePublished, MergeFails, TypeOK
<1>3. PoolsRun'
  BY <1>1 DEF PoolsRun, SameStage, At
<1>4. CASE MergeReads(p)
  <2>1. /\ disk' = disk /\ known' = known /\ dirty' = dirty /\ told' = told
        /\ swallowed' = swallowed /\ skipped' = skipped /\ pass' = pass
        /\ job[p] = "merge" /\ job' = [job EXCEPT ![p] = "merging"]
        /\ credit' = [credit EXCEPT ![p] = 1] /\ seen' = [seen EXCEPT ![p] = disk[p]]
    BY <1>4 DEF MergeReads, MergeNext, OwnStarts, history
  <2>2. \A q \in Path :
          /\ Waiting(q)' = Waiting(q) /\ Excused(q)' = Excused(q) /\ (Spent(q) => Spent(q)')
          /\ job[q] \in Owed => job'[q] \in Owed
          /\ seen'[q] = seen[q] \/ job'[q] \in Owed
    BY <2>1 DEF Waiting, Excused, Spent, Owed, TypeOK
  <2>3. Answered'
    BY <1>1, <2>1, <2>2 DEF Answers, Answered
  <2>4. EditedSince'
    BY <2>1 DEF Answers, EditedSince, TypeOK
  <2>5. CleanAnswers'
    BY <1>3, <2>1, <2>2 DEF Answers, CleanAnswers, OwesWaiting, OwesUnequal, Planned
  <2>6. QED
    BY <2>3, <2>4, <2>5 DEF Answers
<1>5. CASE MergeGone(p)
  <2>1. /\ disk' = disk /\ known' = known /\ dirty' = dirty /\ told' = told
        /\ swallowed' = swallowed /\ skipped' = skipped \cup {p} /\ pass' = pass
        /\ job[p] = "merge" /\ job' = [job EXCEPT ![p] = "none"]
        /\ credit' = credit /\ seen' = seen
    BY <1>5 DEF MergeGone, MergeNext
  <2>2. /\ Excused(p)'
        /\ \A q \in Path : /\ Waiting(q)' = Waiting(q) /\ (Excused(q) => Excused(q)')
                           /\ Spent(q) => Spent(q)'
        /\ \A q \in Path \ {p} : job'[q] = job[q]
    BY <2>1 DEF Waiting, Excused, Spent, TypeOK
  <2>3. Answered'
    BY <1>1, <2>1, <2>2 DEF Answers, Answered
  <2>4. EditedSince'
    BY <2>1 DEF Answers, EditedSince, TypeOK
  <2>5. CleanAnswers'
    BY <1>3, <2>1, <2>2 DEF Answers, CleanAnswers, OwesWaiting, OwesUnequal, Planned
  <2>6. QED
    BY <2>3, <2>4, <2>5 DEF Answers
<1>6. CASE MergeLands(p)
  <2>1. /\ known' = known /\ seen' = seen /\ told' = told
        /\ swallowed' = swallowed /\ skipped' = skipped /\ pass' = pass
        /\ job[p] = "merging" /\ job' = [job EXCEPT ![p] = "publishing"]
    BY <1>6 DEF MergeLands, history
  <2>2. /\ disk'[p] = seen[p] /\ \A q \in Path \ {p} : disk'[q] = disk[q]
        /\ \A q \in Path \ {p} : credit'[q] = credit[q]
        /\ dirty \subseteq dirty' /\ (credit[p] = 0 => p \in dirty')
    BY <1>6 DEF MergeLands, OwnLands, TypeOK
  <2>3. \A q \in Path :
          /\ Excused(q) \/ Spent(q) => Excused(q)' \/ Spent(q)'
          /\ job[q] \in Owed => job'[q] \in Owed
    BY <2>1, <2>2 DEF Excused, Spent, Owed, TypeOK
  <2>4. \A q \in Path : Waiting(q)' => Waiting(q) \/ Excused(q)'
    BY <2>1, <2>2 DEF Waiting, Excused, Answers, EditedSince, TypeOK
  <2>5. Answered'
    BY <1>1, <2>1, <2>3, <2>4 DEF Answers, Answered
  <2>6. EditedSince'
    BY <2>1, <2>2 DEF Answers, EditedSince, TypeOK
  <2>7. CleanAnswers'
    BY <1>3, <2>1, <2>3, <2>4 DEF Answers, CleanAnswers, OwesWaiting, OwesUnequal, Planned
  <2>8. QED
    BY <2>5, <2>6, <2>7 DEF Answers
<1>7. CASE MergePublished(p)
  <2>1. /\ disk' = disk /\ dirty' = dirty /\ credit' = credit /\ seen' = seen /\ told' = told
        /\ swallowed' = swallowed \ {p} /\ skipped' = skipped \ {p}
        /\ job[p] = "publishing" /\ job' = [job EXCEPT ![p] = "none"]
        /\ known' = [known EXCEPT ![p] = seen[p]] /\ pass'.clean = pass.clean
    BY <1>7, PassSucceeds DEF MergePublished, Published, TypeOK
  <2>2. /\ Waiting(p)' => Excused(p)'
        /\ seen'[p] = known'[p]
        /\ \A q \in Path \ {p} :
             /\ Waiting(q)' = Waiting(q) /\ Excused(q)' = Excused(q) /\ Spent(q)' = Spent(q)
             /\ job'[q] = job[q] /\ known'[q] = known[q]
    BY <2>1 DEF Waiting, Excused, Spent, Answers, EditedSince, TypeOK
  <2>3. Answered'
    BY <1>1, <1>2, <2>2 DEF Answers, Answered
  <2>4. EditedSince'
    BY <2>1 DEF Answers, EditedSince, TypeOK
  <2>5. CleanAnswers'
    BY <1>1, <1>3, <2>1, <2>2
    DEF Answers, CleanAnswers, OwesWaiting, OwesUnequal, Planned, SameStage
  <2>6. QED
    BY <2>3, <2>4, <2>5 DEF Answers
<1>8. CASE MergeFails(p)
  <2>1. /\ disk' = disk /\ known' = known /\ dirty' = dirty /\ seen' = seen /\ told' = told
        /\ skipped' = skipped /\ ~pass'.clean
        /\ job[p] \in {"merge", "merging", "publishing"} /\ job' = [job EXCEPT ![p] = "none"]
    BY <1>8, PassRecords DEF MergeFails, MergeNext, TypeOK
  <2>2. /\ \A q \in Path \ {p} : credit'[q] = credit[q]
        /\ swallowed \subseteq swallowed'
        /\ job[p] = "merging" /\ credit[p] = 0 => p \in swallowed'
    <3>1. CASE job[p] = "merging"
      <4>1. OwnThrows(p)
        BY <1>8, <3>1 DEF MergeFails
      <4>2. QED
        BY <4>1 DEF OwnThrows, TypeOK
    <3>2. CASE job[p] # "merging"
      BY <1>8, <3>2 DEF MergeFails
    <3>3. QED
      BY <3>1, <3>2
  <2>3. \A q \in Path :
          /\ Waiting(q)' = Waiting(q)
          /\ Excused(q) \/ Spent(q) => Excused(q)' \/ Spent(q)'
    BY <2>1, <2>2 DEF Waiting, Excused, Spent, TypeOK
  <2>4. Answered'
    BY <1>1, <1>2, <2>3 DEF Answers, Answered
  <2>5. EditedSince'
    BY <2>1, <2>2 DEF Answers, EditedSince, TypeOK
  <2>6. QED
    BY <2>1, <2>4, <2>5, Unclean DEF Answers
<1>9. QED
  BY <1>4, <1>5, <1>6, <1>7, <1>8

LEMMA UploadAnswers ==
  ASSUME TypeOK, Shape, Answers, NEW p \in Path, Sent(p) \/ SendFails(p)
  PROVE  Answers'
<1>1. SameStage /\ Running /\ Running' /\ pass.stage = "uploads"
  BY UploadShape DEF SameStage, Running, Shape, InStages, At, Sent, SendFails
<1>2. pass'.claimed = pass.claimed
  BY PassRecords, PassSucceeds DEF Sent, SendFails, TypeOK
<1>3. /\ Taken(p, "upload", "sending") /\ job[p] = "sending"
      /\ disk' = disk /\ dirty' = dirty /\ credit' = credit /\ seen' = seen /\ told' = told
  BY TakesNextIs DEF Sent, SendFails, Published, history, TypeOK, Jobs
<1>4. EditedSince'
  BY <1>3 DEF Answers, EditedSince, Taken, TypeOK
<1>5. \A q \in Path \ {p} :
        (Spent(q) => Spent(q)') /\ (job[q] \in Owed => job'[q] \in Owed)
  BY <1>3 DEF Spent, Taken, Owed
<1>6. CASE Sent(p)
  <2>1. /\ swallowed' = swallowed \ {p} /\ skipped' = skipped \ {p}
        /\ known' = [known EXCEPT ![p] = seen[p]]
        /\ pass'.clean = pass.clean /\ pass'.streak = 0
    BY <1>6, PassSucceeds DEF Sent, Published, TypeOK
  <2>2. /\ Waiting(p)' => Excused(p)'
        /\ seen'[p] = known'[p]
        /\ \A q \in Path \ {p} :
             Waiting(q)' = Waiting(q) /\ Excused(q)' = Excused(q) /\ known'[q] = known[q]
    BY <1>3, <2>1 DEF Waiting, Excused, Answers, EditedSince, TypeOK
  <2>3. Answered'
    BY <1>1, <1>2, <1>5, <2>2 DEF Answers, Answered
  <2>4. ~Halted(pass'.streak)
    BY <2>1, SyncScheduleAssumption DEF Halted
  <2>5. PoolsRun => PoolsRun'
    <3>1. Doing({"merge"}) = {} => Doing({"merge"})' = {}
      BY <1>3 DEF Doing, Taken
    <3>2. Doing({"upload"}) = {} => Doing({"upload"})' = {}
      BY <1>3 DEF Doing, Taken
    <3>3. Doing({"upload"}) # {} => Doing({"sending"})' # {}
      BY <1>3, <2>4 DEF Doing, Taken
    <3>4. QED
      BY <1>1, <3>1, <3>2, <3>3 DEF PoolsRun, At
  <2>6. CleanAnswers'
    BY <1>1, <1>3, <1>5, <2>1, <2>2, <2>5
    DEF Answers, CleanAnswers, OwesWaiting, OwesUnequal, Planned, SameStage
  <2>7. QED
    BY <1>4, <2>3, <2>6 DEF Answers
<1>7. CASE SendFails(p)
  <2>1. known' = known /\ swallowed' = swallowed /\ skipped' = skipped /\ ~pass'.clean
    BY <1>7, PassRecords DEF SendFails, history, TypeOK
  <2>2. Answered'
    BY <1>1, <1>2, <1>3, <1>5, <2>1 DEF Answers, Answered, Waiting, Excused, Spent
  <2>3. QED
    BY <1>4, <2>1, <2>2, Unclean DEF Answers
<1>8. QED
  BY <1>6, <1>7

LEMMA NextAnswers == TypeOK /\ Shape /\ Answers /\ [Next]_vars => Answers'
<1> SUFFICES ASSUME TypeOK, Shape, Answers, [Next]_vars PROVE Answers'
  OBVIOUS
<1>1. CASE \/ Wait \/ OnBooksChannel \/ BookEnds \/ UNCHANGED vars
           \/ \E p \in Path : OthersPublish(p)
  BY <1>1, StillAnswers
<1>2. CASE Reader
  BY <1>2, ReaderAnswers, AnnounceAnswers DEF Reader
<1>3. CASE Triggers \/ Restart \/ ListFails \/ Finish
  BY <1>3, BetweenPassesAnswers
<1>4. CASE ListAndScan \/ StartDownloads \/ StartMerges \/ StartUploads
  BY <1>4, ScanAnswers, PoolAnswers
<1>5. CASE \E p \in Path :
             \/ Fetched(p) \/ FetchFails(p) \/ FetchGone(p) \/ PullLands(p) \/ PullThrows(p)
             \/ MergeReads(p) \/ MergeGone(p) \/ MergeLands(p) \/ MergePublished(p)
             \/ MergeFails(p) \/ Sent(p) \/ SendFails(p)
  BY <1>5, DownloadAnswers, MergeAnswers, UploadAnswers
<1>6. QED
  BY <1>1, <1>2, <1>3, <1>4, <1>5 DEF Next, Environment, PassStep, PassFault

-----------------------------------------------------------------------------
(***************************************************************************)
(* The invariant, and what follows from it.                                *)
(***************************************************************************)
SInv == TypeOK /\ Shape /\ BooksInOrder /\ WireBound /\ Answers

LEMMA InitSInv == Init => SInv
<1> SUFFICES ASSUME Init PROVE SInv
  OBVIOUS
<1>1. TypeOK
  BY Bounds, PassIdles DEF Init, TypeOK, NoJobs, Jobs
<1>2. pass.stage = "idle" /\ pass.streak = 0 /\ \A p \in Path : job[p] = "none"
  BY PassIdles DEF Init, NoJobs
<1>3. Shape
  BY <1>2 DEF Init, Shape, InStages, OneMerge, CreditsOut, FailuresTold, Moving
<1>4. BooksInOrder
  BY DEF Init, BooksInOrder
<1>5. WireBound
  <2>1. Wire = {}
    BY <1>2 DEF Wire, Doing, Transfers
  <2>2. Cardinality(Wire) = 0
    BY <2>1, FS_EmptySet
  <2>3. QED
    BY <1>2, <2>2, SyncScheduleAssumption DEF WireBound
<1>6. Answers
  BY <1>2 DEF Init, Answers, Answered, EditedSince, CleanAnswers, Waiting, Planned
<1>7. QED
  BY <1>1, <1>3, <1>4, <1>5, <1>6 DEF SInv

LEMMA NextSInv == SInv /\ [Next]_vars => SInv'
BY NextTyped, NextShape, NextBooks, NextBound, NextAnswers DEF SInv

LEMMA SAlways == Spec => []SInv
<1>1. Init => SInv
  BY InitSInv
<1>2. SInv /\ [Next]_vars => SInv'
  BY NextSInv
<1>3. QED
  BY <1>1, <1>2, PTL DEF Spec

(***************************************************************************)
(* AnnouncedIsRemembered: an announced edit that is not published is       *)
(* dirty, or claimed by the running pass, or an engine write to it will be *)
(* announced; but for an announcement that paid for a write that threw,    *)
(* and for a merge that found the file gone (noteLocalChange, writeLocal,  *)
(* runPass, engine.ts:302-321, 935-940).                                   *)
(***************************************************************************)
THEOREM SomebodyRemembers == Spec => []AnnouncedIsRemembered
<1>1. SInv => AnnouncedIsRemembered
  BY DEF SInv, Answers, Answered, Waiting, Excused, Spent, AnnouncedIsRemembered, Unsent,
         Remembered, Doing, TypeOK
<1>2. QED
  BY <1>1, SAlways, PTL

(***************************************************************************)
(* DeadLinkStops: the failures of a pass never go beyond the threshold and *)
(* what the pool had on the wire when it was reached (PassFailures.halted, *)
(* runPool).                                                               *)
(***************************************************************************)
THEOREM GivesUpOnADeadLink == Spec => []DeadLinkStops
<1>1. SInv => DeadLinkStops
  <2> SUFFICES ASSUME SInv PROVE DeadLinkStops
    OBVIOUS
  <2>1. Cardinality(Wire) \in Nat /\ pass.streak \in Nat
    BY WireCounts DEF SInv, TypeOK, Pass, Wire, Doing
  <2>2. QED
    BY <2>1, SyncScheduleAssumption DEF SInv, WireBound, DeadLinkStops
<1>2. QED
  BY <1>1, SAlways, PTL

(***************************************************************************)
(* OneOnTheRemote: a pass stands down for a book transfer, and a transfer  *)
(* waits for the pass and for the transfers before it                      *)
(* (engine.ts:226-231, 683, 978-991).                                      *)
(***************************************************************************)
THEOREM OneBlobAtATime == Spec => []OneOnTheRemote
<1>1. SInv => OneOnTheRemote
  BY OneAtATime DEF SInv
<1>2. QED
  BY <1>1, SAlways, PTL

(***************************************************************************)
(* CleanPassMirrors: a pass that ends without a failure has published      *)
(* every path as its scan, or its merge, read it, but for a merge whose    *)
(* file was gone (runPass, engine.ts:929-935).                             *)
(***************************************************************************)
THEOREM CleanPassesMirror == Spec => CleanPassMirrors
<1>1. SInv /\ [Next]_vars =>
        [Finish /\ pass.clean => \A p \in Path \ skipped : seen[p] = known[p]]_vars
  <2> SUFFICES ASSUME SInv, Finish, pass.clean, NEW p \in Path \ skipped
               PROVE  seen[p] = known[p]
    OBVIOUS
  <2>1. At("uploads") /\ Planned /\ Doing({"sending"}) = {}
    BY DEF Finish, At, Planned
  <2>2. OwesUnequal /\ Doing({"merge"}) = {} /\ Doing({"upload"}) = {}
    BY <2>1 DEF SInv, Answers, CleanAnswers, PoolsRun
  <2>3. job[p] \notin Owed
    BY <2>1, <2>2 DEF Doing, Owed, SInv, Shape, InStages, At, Moving
  <2>4. QED
    BY <2>2, <2>3 DEF OwesUnequal
<1>2. QED
  BY <1>1, SAlways, PTL DEF Spec, CleanPassMirrors
=============================================================================
