---------------------------- MODULE RunnerProofs ----------------------------
(***************************************************************************)
(* Theorems of Runner, for any runs, devices, settings and bounds: it is   *)
(* well typed, a run's file only climbs the lattice of RunLattice but for  *)
(* an overlap, and a device has one execution of it at a time but for the  *)
(* gap.                                                                    *)
(***************************************************************************)
EXTENDS Runner, RunLatticeProofs, FiniteSetTheorems

\* A put in flight is one its get allowed; only a done or a failed run rings.
Lawful ==
  {e \in Execution :
     /\ e.phase # "free" => e.run \in Run
     /\ e.phase = "putting" =>
          /\ e.read # Absent
          /\ \/ e.end = "running" /\ MayRetake(e.read)
             \/ e.end \in {"cancelled", "failed", "done"} /\ MayMove(e.read, e.end)
     /\ e.phase = "ringing" => e.end \in {"failed", "done"}}

LawfulAsk ==
  {a \in Ask :
     \/ a = NoAsk
     \/ /\ a.run \in Run
        /\ a.op = "cancel" => a.read # Absent /\ MayCancel(a.read)
        /\ a.op = "deliver" => a.read # Absent /\ MayDeliver(a.read)}

LawfulPass ==
  {p \in Pass :
     \/ p = NoPass
     \/ /\ p.run \in Run /\ p.listed # Absent
        /\ \/ p.rev > p.listed.rev /\ p.read # Absent
           \/ p.rev = p.listed.rev}

Typed ==
  /\ copy \in [Device -> [Run -> File]]
  /\ snap \in [Device -> [Run -> Entry]] /\ mirror \in [Run -> Entry]
  /\ sync \in [Device -> LawfulPass] /\ poll \in [Device -> SUBSET Due]
  /\ active \in [Device -> [Run -> 0 .. Slots]]
  /\ exec \in [Device -> [Slot -> Lawful]]
  /\ ask \in [Device -> LawfulAsk] /\ reclaimed \in [Device -> BOOLEAN]
  /\ setting \in Setting /\ bells \subseteq {"done", "failed"} \X Run
  /\ windows \subseteq Windows /\ troubles \in 0 .. setting.troubles

\* What is executed, or about to be, has a file here.
Present(d) ==
  /\ \A s \in Slot : exec[d][s].phase # "free" => copy[d][exec[d][s].run] # Absent
  /\ \A item \in poll[d] : copy[d][item.run] # Absent

\* The remote has gone on from the entry, up the lattice.
Follows(entry, now) ==
  entry # Absent =>
    /\ now # Absent /\ entry.rev <= now.rev
    /\ entry.rev = now.rev => entry.hash = now.hash
    /\ Below(entry.hash, now.hash)

\* So has the file here from what was last synced, and what a pass has read.
Synced(d) ==
  /\ \A r \in Run :
       /\ Follows(snap[d][r], mirror[r])
       /\ snap[d][r] # Absent => copy[d][r] # Absent /\ Below(snap[d][r].hash, copy[d][r])
  /\ sync[d] # NoPass =>
       /\ Follows(sync[d].listed, mirror[sync[d].run])
       /\ \/ sync[d].rev > sync[d].listed.rev
          \/ sync[d].read = Absent
          \/ Below(sync[d].read, sync[d].listed.hash)

RInv ==
  /\ Typed
  /\ \A d \in Device : Present(d) /\ ("overlap" \notin windows => Synced(d))

-----------------------------------------------------------------------------
(***************************************************************************)
(* Values.                                                                 *)
(***************************************************************************)
LEMMA Distinct ==
  /\ Absent \notin Record /\ NoHash \notin Record /\ Absent # NoHash /\ None \notin Run
  /\ Device \subseteq Nat \ {0}
BY RunnerAssumption

\* A get that found the file found a record.
LEMMA Found ==
  ASSUME Typed, NEW d \in Device, NEW r \in Run, copy[d][r] # Absent
  PROVE  copy[d][r] \in Record
BY DEF Typed, File

LEMMA StoreTyped ==
  ASSUME NEW run \in Record, NEW d \in Device, NEW next \in RunState
  PROVE  /\ Created(d) \in Record /\ Started(run, d) \in Record
         /\ Ended(run, next, d) \in Record /\ Retaken(run, d) \in Record
         /\ CancelAsked(run, d) \in Record /\ Reported(run, d) \in Record
         /\ Delivered(run, d, 1) \in Record
<1>1. d \in Nat /\ run.revision + 1 \in Nat /\ run.attempts + 1 \in Nat
  BY Distinct DEF Record
<1>2. Created(d) \in Record
  BY <1>1 DEF Created, Record, RunState
<1>3. Bumped(run, d) \in Record
  BY <1>1 DEF Bumped, Record
<1>4. Started(run, d) \in Record /\ Retaken(run, d) \in Record
  BY <1>1, <1>3 DEF Started, Retaken, Record, RunState
<1>5. Ended(run, next, d) \in Record /\ Delivered(run, d, 1) \in Record
  BY <1>3 DEF Ended, Delivered, Record
<1>6. CancelAsked(run, d) \in Record
  <2>1. (IF run.state = "pending" THEN "cancelled" ELSE run.state) \in RunState
    BY DEF Record, RunState
  <2> QED
    BY <1>3, <2>1 DEF CancelAsked, Record
<1> QED
  BY <1>2, <1>3, <1>4, <1>5, <1>6 DEF Reported

LEMMA BelowItself == ASSUME NEW run \in Record PROVE Below(run, run)
BY JoinIdempotent DEF Below

LEMMA FreeIs ==
  /\ Free \in Lawful /\ Free.phase = "free"
  /\ \A r \in Run :
       LET e == [Free EXCEPT !.run = r, !.phase = "begin"]
           w == [Free EXCEPT !.run = r, !.phase = "working"]
       IN e \in Lawful /\ e.run = r /\ w \in Lawful /\ w.run = r
BY DEF Free, Lawful, Execution, Phases, Ends, MaybeRun, File

LEMMA ToldIs ==
  ASSUME NEW e \in Lawful
  PROVE  LET told == [e EXCEPT !.stopping = TRUE]
         IN told \in Lawful /\ told.run = e.run /\ told.phase = e.phase
BY DEF Lawful, Execution

LEMMA NoPassIs == NoPass \in LawfulPass
BY DEF NoPass, LawfulPass, Pass, MaybeRun, File, Entry

LEMMA NoAskIs == NoAsk \in LawfulAsk
BY DEF NoAsk, LawfulAsk, Ask, MaybeRun, File

-----------------------------------------------------------------------------
(***************************************************************************)
(* Functions of two arguments, changed at one place.                       *)
(***************************************************************************)
LEMMA CopyPut ==
  ASSUME NEW f \in [Device -> [Run -> File]], NEW d \in Device, NEW r \in Run, NEW v \in File
  PROVE  /\ [f EXCEPT ![d][r] = v] \in [Device -> [Run -> File]]
         /\ \A e \in Device, q \in Run :
              [f EXCEPT ![d][r] = v][e][q] = IF e = d /\ q = r THEN v ELSE f[e][q]
<1>1. [f[d] EXCEPT ![r] = v] \in [Run -> File]
  OBVIOUS
<1>2. [f EXCEPT ![d][r] = v] = [f EXCEPT ![d] = [f[d] EXCEPT ![r] = v]]
  BY Zenon
<1> QED
  BY <1>1, <1>2

LEMMA SnapPut ==
  ASSUME NEW f \in [Device -> [Run -> Entry]], NEW d \in Device, NEW r \in Run, NEW v \in Entry
  PROVE  /\ [f EXCEPT ![d][r] = v] \in [Device -> [Run -> Entry]]
         /\ \A e \in Device, q \in Run :
              [f EXCEPT ![d][r] = v][e][q] = IF e = d /\ q = r THEN v ELSE f[e][q]
<1>1. [f[d] EXCEPT ![r] = v] \in [Run -> Entry]
  OBVIOUS
<1>2. [f EXCEPT ![d][r] = v] = [f EXCEPT ![d] = [f[d] EXCEPT ![r] = v]]
  BY Zenon
<1> QED
  BY <1>1, <1>2

LEMMA ExecPut ==
  ASSUME NEW f \in [Device -> [Slot -> Lawful]], NEW d \in Device, NEW s \in Slot, NEW v \in Lawful
  PROVE  /\ [f EXCEPT ![d][s] = v] \in [Device -> [Slot -> Lawful]]
         /\ \A e \in Device, t \in Slot :
              [f EXCEPT ![d][s] = v][e][t] = IF e = d /\ t = s THEN v ELSE f[e][t]
<1>1. [f[d] EXCEPT ![s] = v] \in [Slot -> Lawful]
  OBVIOUS
<1>2. [f EXCEPT ![d][s] = v] = [f EXCEPT ![d] = [f[d] EXCEPT ![s] = v]]
  BY Zenon
<1> QED
  BY <1>1, <1>2

LEMMA ActivePut ==
  ASSUME NEW f \in [Device -> [Run -> 0 .. Slots]], NEW d \in Device, NEW r \in Run,
         NEW v \in 0 .. Slots
  PROVE  [f EXCEPT ![d][r] = v] \in [Device -> [Run -> 0 .. Slots]]
<1>1. [f[d] EXCEPT ![r] = v] \in [Run -> 0 .. Slots]
  OBVIOUS
<1>2. [f EXCEPT ![d][r] = v] = [f EXCEPT ![d] = [f[d] EXCEPT ![r] = v]]
  BY Zenon
<1> QED
  BY <1>1, <1>2

-----------------------------------------------------------------------------
(***************************************************************************)
(* What a pass decides (Reconcile, with a run's record for a hash).        *)
(***************************************************************************)
LEMMA PlanIs ==
  ASSUME NEW here \in File, NEW there \in Entry, NEW last \in Entry
  PROVE  LET plan == R!Decide(here, FALSE, there, last, FALSE)
         IN /\ plan.rev \in Nat
            /\ plan.kind = "converged" =>
                 /\ here # Absent
                 /\ \/ there # Absent /\ there.hash = here /\ plan.rev = there.rev
                    \/ last # Absent /\ last.hash = here /\ plan.rev = last.rev
            /\ plan.kind = "upload" =>
                 /\ here # Absent
                 /\ there # Absent => last # Absent /\ there.rev <= last.rev /\ plan.rev > there.rev
            /\ plan.kind = "download" =>
                 /\ there # Absent /\ plan.rev = there.rev
                 /\ here # Absent => last # Absent /\ here = last.hash
            /\ plan.kind \in {"merge", "mergeNoBase"} =>
                 here # Absent /\ there # Absent /\ plan.rev > there.rev
<1>1. /\ there # Absent => there.rev \in Nat /\ there.hash \in Record
      /\ last # Absent => last.rev \in Nat /\ last.hash \in Record
      /\ R!Rev(there) \in Nat /\ R!Rev(last) \in Nat
  BY DEF Entry, R!Rev
<1>2. R!NextRev(there, last) \in Nat /\ R!NextRev(there, last) > R!Rev(there)
  BY <1>1 DEF R!NextRev, R!Larger
<1>3. there # Absent => R!NextRev(there, last) > there.rev
  BY <1>2 DEF R!Rev
<1>4. CASE here = Absent
  BY <1>1, <1>4 DEF R!Decide, R!DecideMissing, R!RemotelyChanged, R!Rev
<1>5. CASE here # Absent
  <2>1. R!Decide(here, FALSE, there, last, FALSE) = R!DecideHeld(here, FALSE, there, last)
    BY <1>5 DEF R!Decide
  <2>2. R!LocallyChanged(here, FALSE, last) <=> last = Absent \/ here # last.hash
    BY <1>1, Distinct DEF R!LocallyChanged
  <2>3. R!Overwritten(there, last) => there # Absent
    BY DEF R!Overwritten
  <2> DEFINE plan == R!DecideHeld(here, FALSE, there, last)
             next == R!NextRev(there, last)
  <2>5. CASE there # Absent /\ there.hash = here
    <3>1. plan.kind \in {"none", "converged"} /\ plan.rev = there.rev
      BY <2>5 DEF R!DecideHeld, R!Note
    <3> QED
      BY <1>1, <1>5, <2>1, <2>5, <3>1
  <2>6. CASE ~(there # Absent /\ there.hash = here) /\ R!Overwritten(there, last)
    <3>1. plan.kind = "mergeNoBase" /\ plan.rev = next
      BY <2>6 DEF R!DecideHeld
    <3> QED
      BY <1>1, <1>2, <1>3, <1>5, <2>1, <2>3, <2>6, <3>1
  <2>7. CASE ~(there # Absent /\ there.hash = here) /\ ~R!Overwritten(there, last)
    <3>1. R!RemotelyChanged(there, last) <=>
            there # Absent /\ (last = Absent \/ there.rev > last.rev)
      BY DEF R!RemotelyChanged
    <3>2. CASE R!LocallyChanged(here, FALSE, last) /\ R!RemotelyChanged(there, last)
      <4>1. plan.kind = "merge" /\ plan.rev = next
        BY <2>7, <3>2 DEF R!DecideHeld
      <4> QED
        BY <1>1, <1>2, <1>3, <1>5, <2>1, <3>1, <3>2, <4>1
    <3>3. CASE R!LocallyChanged(here, FALSE, last) /\ ~R!RemotelyChanged(there, last)
      <4>1. plan.kind = "upload" /\ plan.rev = next
        BY <2>7, <3>3 DEF R!DecideHeld
      <4>2. there # Absent => last # Absent /\ there.rev <= last.rev
        BY <1>1, <3>1, <3>3
      <4> QED
        BY <1>2, <1>3, <1>5, <2>1, <4>1, <4>2
    <3>4. CASE ~R!LocallyChanged(here, FALSE, last) /\ R!RemotelyChanged(there, last)
      <4>1. plan.kind = "download" /\ plan.rev = there.rev
        BY <2>7, <3>4 DEF R!DecideHeld
      <4> QED
        BY <1>1, <1>5, <2>1, <2>2, <3>1, <3>4, <4>1
    <3>5. CASE ~R!LocallyChanged(here, FALSE, last) /\ ~R!RemotelyChanged(there, last)
      <4>1. plan.kind \in {"none", "converged"} /\ plan.rev = last.rev
        BY <2>7, <3>5 DEF R!DecideHeld, R!Note
      <4> QED
        BY <1>1, <1>5, <2>1, <2>2, <3>5, <4>1
    <3> QED
      BY <3>2, <3>3, <3>4, <3>5
  <2> QED
    BY <2>5, <2>6, <2>7
<1> QED
  BY <1>4, <1>5

-----------------------------------------------------------------------------
(***************************************************************************)
(* What a step does to the files, and to the executions that stand on      *)
(* them.                                                                   *)
(***************************************************************************)
Climbs ==
  \A d \in Device, r \in Run :
    copy[d][r] = Absent \/ Below(copy[d][r], copy'[d][r]) \/ "overlap" \in windows'

FilesGoOn ==
  /\ copy' \in [Device -> [Run -> File]]
  /\ snap' \in [Device -> [Run -> Entry]] /\ mirror' \in [Run -> Entry]
  /\ windows \subseteq windows' /\ windows' \subseteq Windows
  /\ \A d \in Device, r \in Run : copy[d][r] # Absent => copy'[d][r] # Absent
  /\ Climbs
  /\ "overlap" \notin windows' => \A d \in Device : Synced(d)'

ExecsGoOn ==
  /\ exec' \in [Device -> [Slot -> Lawful]]
  /\ \A d \in Device, s \in Slot :
       exec'[d][s].phase # "free" => copy'[d][exec'[d][s].run] # Absent

LEMMA FilesStay ==
  ASSUME RInv, UNCHANGED files, windows \subseteq windows', windows' \subseteq Windows
  PROVE  FilesGoOn
<1>1. UNCHANGED copy /\ UNCHANGED snap /\ UNCHANGED mirror /\ UNCHANGED sync
  BY DEF files
<1>2. Climbs
  BY <1>1, BelowItself DEF Climbs, RInv, Typed, File
<1>3. "overlap" \notin windows' => \A d \in Device : Synced(d)'
  BY <1>1 DEF RInv, Synced
<1> QED
  BY <1>1, <1>2, <1>3 DEF FilesGoOn, RInv, Typed

LEMMA WriteClimbs ==
  ASSUME RInv, NEW d \in Device, NEW r \in Run, NEW run \in Record, Writes(d, r, run),
         windows \subseteq windows', windows' \subseteq Windows,
         copy[d][r] = Absent \/ Below(copy[d][r], run) \/ "overlap" \in windows'
  PROVE  FilesGoOn
<1>1. copy' = [copy EXCEPT ![d][r] = run] /\ UNCHANGED snap /\ UNCHANGED mirror /\ UNCHANGED sync
  BY DEF Writes
<1>2. /\ copy' \in [Device -> [Run -> File]]
      /\ \A e \in Device, q \in Run :
           copy'[e][q] = IF e = d /\ q = r THEN run ELSE copy[e][q]
  BY <1>1, CopyPut DEF RInv, Typed, File
<1>3. \A e \in Device, q \in Run : copy[e][q] # Absent => copy[e][q] \in Record
  BY Found DEF RInv
<1>4. Climbs
  BY <1>2, <1>3, BelowItself DEF Climbs
<1>5. ASSUME "overlap" \notin windows', NEW e \in Device PROVE Synced(e)'
  <2>1. Synced(e)
    BY <1>5 DEF RInv
  <2>2. ASSUME NEW q \in Run, snap[e][q] # Absent
        PROVE  copy'[e][q] # Absent /\ Below(snap[e][q].hash, copy'[e][q])
    <3>1. snap[e][q].hash \in Record /\ copy[e][q] \in Record /\ Below(snap[e][q].hash, copy[e][q])
      BY <1>3, <2>1, <2>2 DEF Synced, RInv, Typed, Entry
    <3>2. copy'[e][q] \in Record /\ Below(copy[e][q], copy'[e][q])
      BY <1>2, <1>4, <1>5, <3>1, Distinct DEF Climbs
    <3> QED
      BY <3>1, <3>2, BelowTransitive, Distinct
  <2> QED
    BY <1>1, <2>1, <2>2 DEF Synced
<1> QED
  BY <1>1, <1>2, <1>4, <1>5, Distinct DEF FilesGoOn, RInv, Typed

LEMMA PutClimbs ==
  ASSUME RInv, NEW d \in Device, NEW r \in Run, NEW read \in File, NEW run \in Record,
         read = Absent \/ Below(read, run), Puts(d, r, read, run)
  PROVE  FilesGoOn
<1>1. windows' = windows \cup (IF copy[d][r] # read THEN {"overlap"} ELSE {})
  BY DEF Puts, Opens, When, Here
<1> QED
  BY <1>1, WriteClimbs DEF Puts, RInv, Typed, Windows

LEMMA ExecsStay ==
  ASSUME RInv, FilesGoOn, UNCHANGED exec
  PROVE  ExecsGoOn
<1>1. ASSUME NEW d \in Device, NEW s \in Slot, exec[d][s].phase # "free"
      PROVE  copy'[d][exec[d][s].run] # Absent
  BY <1>1 DEF RInv, Typed, Present, FilesGoOn, Lawful
<1> QED
  BY <1>1 DEF ExecsGoOn, RInv, Typed

LEMMA ExecBecomes ==
  ASSUME RInv, FilesGoOn, NEW d \in Device, NEW s \in Slot, NEW e \in Lawful, Becomes(d, s, e),
         e.phase # "free" => copy[d][e.run] # Absent
  PROVE  ExecsGoOn
<1>1. /\ exec' \in [Device -> [Slot -> Lawful]]
      /\ \A c \in Device, t \in Slot :
           exec'[c][t] = IF c = d /\ t = s THEN e ELSE exec[c][t]
  BY ExecPut DEF Becomes, RInv, Typed
<1>2. \A c \in Device, t \in Slot :
        exec[c][t].phase # "free" => exec[c][t].run \in Run /\ copy[c][exec[c][t].run] # Absent
  BY DEF RInv, Typed, Present, Lawful
<1>3. e.phase # "free" => e.run \in Run
  BY DEF Lawful
<1>4. ASSUME NEW c \in Device, NEW t \in Slot, exec'[c][t].phase # "free"
      PROVE  copy'[c][exec'[c][t].run] # Absent
  <2>1. CASE c = d /\ t = s
    BY <1>1, <1>3, <1>4, <2>1 DEF FilesGoOn
  <2>2. CASE ~(c = d /\ t = s)
    <3>1. exec'[c][t] = exec[c][t]
      BY <1>1, <2>2
    <3> QED
      BY <1>2, <1>4, <3>1 DEF FilesGoOn
  <2> QED
    BY <2>1, <2>2
<1> QED
  BY <1>1, <1>4 DEF ExecsGoOn

\* Workers of one device are told to stop.
LEMMA ExecsTold ==
  ASSUME RInv, FilesGoOn, NEW d \in Device, NEW now \in [Slot -> Lawful],
         \A s \in Slot : now[s].run = exec[d][s].run /\ now[s].phase = exec[d][s].phase,
         exec' = [exec EXCEPT ![d] = now]
  PROVE  ExecsGoOn
<1>1. /\ exec' \in [Device -> [Slot -> Lawful]]
      /\ \A c \in Device, t \in Slot :
           exec'[c][t].run = exec[c][t].run /\ exec'[c][t].phase = exec[c][t].phase
  BY DEF RInv, Typed
<1>2. \A c \in Device, t \in Slot :
        exec[c][t].phase # "free" => exec[c][t].run \in Run /\ copy[c][exec[c][t].run] # Absent
  BY DEF RInv, Typed, Present, Lawful
<1>3. ASSUME NEW c \in Device, NEW t \in Slot, exec'[c][t].phase # "free"
      PROVE  copy'[c][exec'[c][t].run] # Absent
  <2>1. exec[c][t].run \in Run /\ copy[c][exec[c][t].run] # Absent
    BY <1>1, <1>2, <1>3
  <2> QED
    BY <1>1, <2>1 DEF FilesGoOn
<1> QED
  BY <1>1, <1>3 DEF ExecsGoOn

LEMMA TroublesCount ==
  ASSUME Typed, UNCHANGED setting, Trouble \/ UNCHANGED troubles
  PROVE  troubles' \in 0 .. setting'.troubles
BY RunnerAssumption DEF Typed, Trouble

\* What a step shows for the invariant.
LEMMA StepKeeps ==
  ASSUME RInv, FilesGoOn, ExecsGoOn, UNCHANGED setting, Trouble \/ UNCHANGED troubles,
         sync' \in [Device -> LawfulPass], poll' \in [Device -> SUBSET Due],
         active' \in [Device -> [Run -> 0 .. Slots]], ask' \in [Device -> LawfulAsk],
         reclaimed' \in [Device -> BOOLEAN], bells' \subseteq {"done", "failed"} \X Run,
         \A d \in Device : \A item \in poll'[d] : copy'[d][item.run] # Absent
  PROVE  RInv' /\ Climbs
<1>1. Typed'
  BY TroublesCount DEF Typed, RInv, FilesGoOn, ExecsGoOn
<1>2. \A d \in Device : Present(d)'
  BY DEF Present, ExecsGoOn
<1> QED
  BY <1>1, <1>2 DEF RInv, FilesGoOn

\* The list under way is as good as it was.
LEMMA PollStays ==
  ASSUME RInv, FilesGoOn, \A d \in Device : poll'[d] \subseteq poll[d]
  PROVE  \A d \in Device : \A item \in poll'[d] : copy'[d][item.run] # Absent
BY DEF RInv, Typed, Due, Present, FilesGoOn

LEMMA ToldGoesOn ==
  ASSUME RInv, FilesGoOn, NEW d \in Device, NEW r \in Run, Told(d, r)
  PROVE  ExecsGoOn
<1> DEFINE now == [s \in Slot |-> IF s = active[d][r] THEN [exec[d][s] EXCEPT !.stopping = TRUE]
                                  ELSE exec[d][s]]
<1>1. \A s \in Slot : exec[d][s] \in Lawful
  BY DEF RInv, Typed
<1>2. /\ now \in [Slot -> Lawful]
      /\ \A s \in Slot : now[s].run = exec[d][s].run /\ now[s].phase = exec[d][s].phase
  BY <1>1, ToldIs
<1>3. exec' = [exec EXCEPT ![d] = now]
  BY DEF Told
<1> HIDE DEF now
<1> QED
  BY <1>2, <1>3, ExecsTold

LEMMA NoticedGoesOn ==
  ASSUME RInv, FilesGoOn, NEW d \in Device, NoticeCancellations(d)
  PROVE  ExecsGoOn
<1> DEFINE hears(s) == LET r == exec[d][s].run IN r # None /\ active[d][r] = s /\ Here(d, r).cancel
           now == [s \in Slot |-> IF hears(s) THEN [exec[d][s] EXCEPT !.stopping = TRUE]
                                  ELSE exec[d][s]]
<1>1. \A s \in Slot : exec[d][s] \in Lawful
  BY DEF RInv, Typed
<1>3. exec' = [exec EXCEPT ![d] = now]
  BY DEF NoticeCancellations
<1> HIDE DEF hears
<1>2. /\ now \in [Slot -> Lawful]
      /\ \A s \in Slot : now[s].run = exec[d][s].run /\ now[s].phase = exec[d][s].phase
  BY <1>1, ToldIs
<1> HIDE DEF now
<1> QED
  BY <1>2, <1>3, ExecsTold

-----------------------------------------------------------------------------
(***************************************************************************)
(* The asks.                                                               *)
(***************************************************************************)
LEMMA AskGetKeeps ==
  ASSUME RInv, NEW d \in Device, NEW r \in Run,
         CreateGet(d, r) \/ CancelGet(d, r) \/ DeliverGet(d, r)
  PROVE  RInv' /\ Climbs
<1>1. /\ UNCHANGED files /\ UNCHANGED windows /\ Trouble /\ UNCHANGED setting /\ UNCHANGED bells
      /\ UNCHANGED poll /\ UNCHANGED active /\ UNCHANGED reclaimed
  BY DEF CreateGet, CancelGet, DeliverGet, world
<1>2. FilesGoOn
  BY <1>1, FilesStay DEF RInv, Typed
<1>3. Here(d, r) \in File
  BY DEF Here, RInv, Typed
<1>4. UNCHANGED ask \/ \E a \in LawfulAsk : ask' = [ask EXCEPT ![d] = a]
  <2>1. CASE CreateGet(d, r)
    <3>1. [run |-> r, op |-> "create", read |-> Absent] \in LawfulAsk
      BY DEF LawfulAsk, Ask, MaybeRun, File
    <3> QED
      BY <2>1, <3>1 DEF CreateGet
  <2>2. CASE CancelGet(d, r)
    <3>1. MayCancel(Here(d, r)) /\ Here(d, r) # Absent =>
            [run |-> r, op |-> "cancel", read |-> Here(d, r)] \in LawfulAsk
      BY <1>3 DEF LawfulAsk, Ask, MaybeRun
    <3> QED
      BY <2>2, <3>1 DEF CancelGet
  <2>3. CASE DeliverGet(d, r)
    <3>1. MayDeliver(Here(d, r)) /\ Here(d, r) # Absent =>
            [run |-> r, op |-> "deliver", read |-> Here(d, r)] \in LawfulAsk
      BY <1>3 DEF LawfulAsk, Ask, MaybeRun
    <3> QED
      BY <2>3, <3>1 DEF DeliverGet
  <2> QED
    BY <2>1, <2>2, <2>3
<1>5. ExecsGoOn
  <2>1. UNCHANGED exec \/ Told(d, r)
    BY DEF CreateGet, CancelGet, DeliverGet
  <2> QED
    BY <1>2, <2>1, ExecsStay, ToldGoesOn
<1>6. ask' \in [Device -> LawfulAsk]
  BY <1>4 DEF RInv, Typed
<1> QED
  BY <1>1, <1>2, <1>5, <1>6, PollStays, StepKeeps DEF files, RInv, Typed

LEMMA AskPutKeeps ==
  ASSUME RInv, NEW d \in Device, AskPut(d)
  PROVE  RInv' /\ Climbs
<1> DEFINE a == ask[d]
<1>1. /\ UNCHANGED poll /\ UNCHANGED active /\ UNCHANGED reclaimed /\ UNCHANGED setting
      /\ UNCHANGED bells /\ UNCHANGED troubles /\ ask' = [ask EXCEPT ![d] = NoAsk]
  BY DEF AskPut, world
<1>2. /\ a \in LawfulAsk /\ a.run \in Run /\ a.read \in File
      /\ a.op \in {"cancel", "deliver"} => a.read \in Record
      /\ a.op = "cancel" => MayCancel(a.read)
      /\ a.op = "deliver" => MayDeliver(a.read)
  BY DEF AskPut, Idle, RInv, Typed, LawfulAsk, Ask, File
<1>3. \E read \in File, run \in Record :
        /\ read = Absent \/ Below(read, run)
        /\ Puts(d, a.run, read, run)
  <2>1. d \in Nat \ {0} /\ 1 \in Nat \ {0} /\ "done" \in RunState
    BY Distinct DEF RunState
  <2>2. CASE a.op = "create"
    <3>1. Created(d) \in Record
      BY <2>1 DEF Created, Record, RunState
    <3>2. Puts(d, a.run, Absent, Created(d))
      BY <2>2 DEF AskPut
    <3> QED
      BY <3>1, <3>2 DEF File
  <2>3. CASE a.op = "cancel"
    <3>1. CancelAsked(a.read, d) \in Record /\ Below(a.read, CancelAsked(a.read, d))
      BY <1>2, <2>1, <2>3, StoreTyped, StoreClimbs
    <3>2. Puts(d, a.run, a.read, CancelAsked(a.read, d))
      BY <2>3 DEF AskPut
    <3> QED
      BY <1>2, <3>1, <3>2
  <2>4. CASE a.op = "deliver"
    <3>1. Delivered(a.read, d, 1) \in Record /\ Below(a.read, Delivered(a.read, d, 1))
      BY <1>2, <2>1, <2>4, StoreTyped, StoreClimbs
    <3>2. Puts(d, a.run, a.read, Delivered(a.read, d, 1))
      BY <2>4 DEF AskPut
    <3> QED
      BY <1>2, <3>1, <3>2
  <2> QED
    BY <1>2, <2>2, <2>3, <2>4 DEF LawfulAsk, Ask
<1>4. FilesGoOn
  BY <1>2, <1>3, PutClimbs
<1>5. ExecsGoOn
  <2>1. UNCHANGED exec \/ Told(d, a.run)
    BY DEF AskPut
  <2> QED
    BY <1>2, <1>4, <2>1, ExecsStay, ToldGoesOn
<1>6. ask' \in [Device -> LawfulAsk]
  BY <1>1, NoAskIs DEF RInv, Typed
<1>7. UNCHANGED sync
  BY <1>3 DEF Puts, Writes
<1> QED
  BY <1>1, <1>4, <1>5, <1>6, <1>7, PollStays, StepKeeps DEF RInv, Typed

-----------------------------------------------------------------------------
(***************************************************************************)
(* The poll.                                                               *)
(***************************************************************************)
LEMMA DueIsHere ==
  ASSUME NEW d \in Device, NEW mine, NEW lapsed, NEW silent, NEW item \in ToStart(d, mine, lapsed, silent)
  PROVE  item \in Due /\ copy[d][item.run] # Absent
<1> DEFINE here == {r \in Run : Here(d, r) # Absent}
<1>1. \A rs \in SUBSET here, act \in {"take", "retake"} :
        Taking(rs, act) \subseteq {i \in Due : i.run \in here}
  BY DEF Taking, Due
<1>2. item \in DueRuns(d, mine, lapsed, silent) \cup ReclaimAfterRestart(d)
  BY DEF ToStart
<1>3. item \in {i \in Due : i.run \in here}
  <2> DEFINE pending == {r \in Run : mine /\ Here(d, r) # Absent /\ Here(d, r).state = "pending"}
             stalled == {r \in Run : \/ Holds(d, r) /\ r \in silent
                                     \/ mine /\ IsRunning(d, r) /\ Here(d, r).claimant \in lapsed}
             held == {r \in Run : Holds(d, r)}
  <2>1. pending \subseteq here /\ stalled \subseteq here /\ held \subseteq here
    BY DEF Holds, IsRunning
  <2>2. \/ item \in Taking(pending, "take") \/ item \in Taking(stalled, "retake")
        \/ item \in Taking(held, "retake")
    BY <1>2 DEF DueRuns, ReclaimAfterRestart
  <2> HIDE DEF pending, stalled, held, here
  <2> QED
    BY <1>1, <2>1, <2>2
<1> QED
  BY <1>3 DEF Here

LEMMA TickKeeps ==
  ASSUME RInv, NEW d \in Device, Tick(d)
  PROVE  RInv' /\ Climbs
<1>1. PICK due \in Lists(d) : Look(d, due) /\ (Trouble \/ UNCHANGED troubles)
  BY DEF Tick
<1>2. /\ UNCHANGED files /\ UNCHANGED active /\ UNCHANGED ask /\ UNCHANGED setting
      /\ UNCHANGED bells /\ UNCHANGED windows
      /\ poll' = [poll EXCEPT ![d] = due] /\ reclaimed' = [reclaimed EXCEPT ![d] = TRUE]
      /\ NoticeCancellations(d)
  BY <1>1 DEF Look, world
<1>3. \A item \in due : item \in Due /\ copy[d][item.run] # Absent
  BY DueIsHere DEF Lists
<1>4. FilesGoOn
  BY <1>2, FilesStay DEF RInv, Typed
<1>5. ExecsGoOn
  BY <1>2, <1>4, NoticedGoesOn
<1>6. poll' \in [Device -> SUBSET Due] /\ reclaimed' \in [Device -> BOOLEAN]
  BY <1>2, <1>3 DEF RInv, Typed
<1>7. UNCHANGED copy /\ UNCHANGED sync
  BY <1>2 DEF files
<1>8. ASSUME NEW c \in Device, NEW item \in poll'[c] PROVE copy'[c][item.run] # Absent
  <2>1. CASE c = d
    BY <1>2, <1>3, <1>7, <1>8, <2>1 DEF RInv, Typed
  <2>2. CASE c # d
    BY <1>2, <1>7, <1>8, <2>2 DEF RInv, Typed, Present
  <2> QED
    BY <2>1, <2>2
<1> QED
  BY <1>1, <1>2, <1>4, <1>5, <1>6, <1>7, <1>8, StepKeeps DEF RInv, Typed

LEMMA StartKeeps ==
  ASSUME RInv, NEW d \in Device, NEW item \in poll[d], Start(d, item)
  PROVE  RInv' /\ Climbs
<1>1. /\ UNCHANGED active /\ UNCHANGED ask /\ UNCHANGED reclaimed /\ UNCHANGED setting
      /\ UNCHANGED bells /\ UNCHANGED troubles /\ poll' = [poll EXCEPT ![d] = poll[d] \ {item}]
  BY DEF Start, world
<1>2. item \in Due /\ item.run \in Run /\ copy[d][item.run] # Absent
  BY DEF RInv, Typed, Due, Present
<1>3. poll' \in [Device -> SUBSET Due] /\ \A c \in Device : poll'[c] \subseteq poll[c]
  BY <1>1 DEF RInv, Typed
<1>4. FilesGoOn /\ ExecsGoOn /\ UNCHANGED sync
  <2>1. CASE StandsBack(d, item)
    <3>1. UNCHANGED files /\ UNCHANGED exec /\ UNCHANGED windows
      BY <2>1 DEF StandsBack
    <3>2. FilesGoOn
      BY <3>1, FilesStay DEF RInv, Typed
    <3> QED
      BY <3>1, <3>2, ExecsStay DEF files
  <2>2. CASE Starts(d, item)
    <3> DEFINE r == item.run
               read == copy[d][r]
               run == IF item.action = "take" THEN Started(read, d) ELSE Retaken(read, d)
               e == [Free EXCEPT !.run = r, !.phase = "begin"]
    <3>1. read \in Record
      BY <1>2, Found DEF RInv
    <3>2. run \in Record /\ Below(read, run)
      <4>1. d \in Nat \ {0} /\ 1 \in Nat \ {0} /\ "done" \in RunState
        BY Distinct DEF RunState
      <4>2. CASE item.action = "take"
        BY <2>2, <3>1, <4>1, <4>2, StoreTyped, StoreClimbs DEF Starts, Refused, Here
      <4>3. CASE item.action # "take"
        BY <2>2, <3>1, <4>1, <4>3, StoreTyped, StoreClimbs DEF Starts, Refused, Here
      <4> QED
        BY <4>2, <4>3
    <3>3. Writes(d, r, run)
      BY <2>2 DEF Starts, Here
    <3>4. windows \subseteq windows' /\ windows' \subseteq Windows
      BY <2>2 DEF Starts, Opens, When, Windows, RInv, Typed
    <3>5. FilesGoOn
      BY <1>2, <3>2, <3>3, <3>4, WriteClimbs
    <3>6. e \in Lawful /\ e.run = r
      BY <1>2, FreeIs
    <3>7. \E s \in Slot : Becomes(d, s, e)
      BY <2>2 DEF Starts, Becomes
    <3>8. ExecsGoOn
      BY <1>2, <3>5, <3>6, <3>7, ExecBecomes
    <3> QED
      BY <3>3, <3>5, <3>8 DEF Writes
  <2> QED
    BY <2>1, <2>2 DEF Start
<1> QED
  BY <1>1, <1>3, <1>4, PollStays, StepKeeps DEF RInv, Typed

-----------------------------------------------------------------------------
(***************************************************************************)
(* The execution.                                                          *)
(***************************************************************************)
LEMMA AtWork ==
  ASSUME RInv, NEW d \in Device, NEW s \in Slot, exec[d][s].phase # "free"
  PROVE  /\ exec[d][s] \in Lawful /\ exec[d][s].run \in Run
         /\ copy[d][exec[d][s].run] \in Record /\ copy[d][exec[d][s].run] # Absent
BY Distinct DEF RInv, Typed, Present, Lawful, File

\* One execution changes, on files that go on.
LEMMA ExecKeeps ==
  ASSUME RInv, NEW d \in Device, NEW s \in Slot, NEW e \in Lawful, Becomes(d, s, e),
         e.phase # "free" => copy[d][e.run] # Absent,
         FilesGoOn, UNCHANGED sync, active' \in [Device -> [Run -> 0 .. Slots]],
         UNCHANGED poll, UNCHANGED ask, UNCHANGED reclaimed, UNCHANGED setting,
         bells' \subseteq {"done", "failed"} \X Run, Trouble \/ UNCHANGED troubles
  PROVE  RInv' /\ Climbs
<1>1. ExecsGoOn
  BY ExecBecomes
<1> QED
  BY <1>1, PollStays, StepKeeps DEF RInv, Typed

LEMMA BeginKeeps ==
  ASSUME RInv, NEW d \in Device, NEW s \in Slot, Begin(d, s)
  PROVE  RInv' /\ Climbs
<1> DEFINE r == exec[d][s].run
           e == [Free EXCEPT !.run = r, !.phase = "working"]
<1>1. r \in Run /\ copy[d][r] # Absent
  BY AtWork DEF Begin, At
<1>2. /\ UNCHANGED files /\ UNCHANGED windows /\ UNCHANGED troubles /\ UNCHANGED poll
      /\ UNCHANGED ask /\ UNCHANGED reclaimed /\ UNCHANGED setting /\ UNCHANGED bells
  BY DEF Begin, Keeps, world
<1>3. FilesGoOn
  BY <1>2, FilesStay DEF RInv, Typed
<1>4. active' \in [Device -> [Run -> 0 .. Slots]]
  <2>1. UNCHANGED active \/ active' = [active EXCEPT ![d][r] = s]
    BY DEF Begin
  <2>2. s \in 0 .. Slots
    BY RunnerAssumption DEF Slot
  <2>3. active \in [Device -> [Run -> 0 .. Slots]]
    BY DEF RInv, Typed
  <2>4. [active EXCEPT ![d][r] = s] \in [Device -> [Run -> 0 .. Slots]]
    BY <1>1, <2>2, <2>3, ActivePut
  <2> QED
    BY <2>1, <2>3, <2>4
<1>5. e \in Lawful /\ e.run = r
  BY <1>1, FreeIs
<1>6. Becomes(d, s, e) \/ Becomes(d, s, Free)
  BY DEF Begin
<1> QED
  BY <1>1, <1>2, <1>3, <1>4, <1>5, <1>6, FreeIs, ExecKeeps DEF files, RInv, Typed

LEMMA WorkKeeps ==
  ASSUME RInv, NEW d \in Device, NEW s \in Slot,
         ReportGet(d, s) \/ Hangs(d, s) \/ WorkerEnds(d, s)
  PROVE  RInv' /\ Climbs
<1> DEFINE e == exec[d][s]
           r == e.run
<1>1. e \in Lawful /\ r \in Run /\ copy[d][r] \in Record /\ copy[d][r] # Absent /\ e.phase = "working"
  BY AtWork DEF ReportGet, Hangs, WorkerEnds, At
<1>2. /\ UNCHANGED files /\ UNCHANGED windows /\ (Trouble \/ UNCHANGED troubles) /\ UNCHANGED poll
      /\ UNCHANGED ask /\ UNCHANGED reclaimed /\ UNCHANGED setting /\ UNCHANGED bells
  BY DEF ReportGet, Hangs, WorkerEnds, Keeps, world
<1>3. FilesGoOn
  BY <1>2, FilesStay DEF RInv, Typed
<1>4. active' \in [Device -> [Run -> 0 .. Slots]]
  <2>1. UNCHANGED active \/ active' = [active EXCEPT ![d][r] = 0]
    BY DEF ReportGet, Hangs, WorkerEnds
  <2>2. 0 \in 0 .. Slots
    BY RunnerAssumption
  <2>3. active \in [Device -> [Run -> 0 .. Slots]]
    BY DEF RInv, Typed
  <2>4. [active EXCEPT ![d][r] = 0] \in [Device -> [Run -> 0 .. Slots]]
    BY <1>1, <2>2, <2>3, ActivePut
  <2> QED
    BY <2>1, <2>3, <2>4
<1>5. \E f \in Lawful : f.run = r /\ Becomes(d, s, f)
  <2>1. CASE ReportGet(d, s)
    <3>1. [e EXCEPT !.read = copy[d][r]] \in Lawful /\ [e EXCEPT !.read = copy[d][r]].run = r
      BY <1>1 DEF Lawful, Execution, File
    <3> QED
      BY <2>1, <3>1 DEF ReportGet, Here
  <2>2. CASE Hangs(d, s)
    <3>1. [e EXCEPT !.phase = "hung"] \in Lawful /\ [e EXCEPT !.phase = "hung"].run = r
      BY <1>1 DEF Lawful, Execution, Phases
    <3> QED
      BY <2>2, <3>1 DEF Hangs
  <2>3. CASE WorkerEnds(d, s)
    <3>1. PICK end \in {"ok", "error", "gaveUp"} :
            Becomes(d, s, [e EXCEPT !.phase = "settling", !.end = end])
      BY <2>3 DEF WorkerEnds
    <3>2. /\ [e EXCEPT !.phase = "settling", !.end = end] \in Lawful
          /\ [e EXCEPT !.phase = "settling", !.end = end].run = r
      BY <1>1 DEF Lawful, Execution, Phases, Ends
    <3> QED
      BY <3>1, <3>2
  <2> QED
    BY <2>1, <2>2, <2>3
<1> QED
  BY <1>1, <1>2, <1>3, <1>4, <1>5, ExecKeeps DEF files, RInv, Typed

LEMMA ReportPutKeeps ==
  ASSUME RInv, NEW d \in Device, NEW s \in Slot, ReportPut(d, s)
  PROVE  RInv' /\ Climbs
<1> DEFINE e == exec[d][s]
           r == e.run
           f == [e EXCEPT !.read = Absent]
<1>1. /\ e \in Lawful /\ r \in Run /\ copy[d][r] # Absent
      /\ e.phase \in {"working", "hung", "settling"}
  BY AtWork DEF ReportPut, At
<1>2. e.read \in Record /\ e.read \in File
  BY <1>1 DEF ReportPut, Lawful, Execution, File
<1>3. Reported(e.read, d) \in Record /\ Below(e.read, Reported(e.read, d))
  <2>1. d \in Nat \ {0} /\ 1 \in Nat \ {0} /\ "done" \in RunState
    BY Distinct DEF RunState
  <2> QED
    BY <1>2, <2>1, StoreTyped, StoreClimbs
<1>4. Puts(d, r, e.read, Reported(e.read, d)) /\ Becomes(d, s, f)
  BY DEF ReportPut
<1>5. FilesGoOn
  BY <1>1, <1>2, <1>3, <1>4, PutClimbs
<1>6. f \in Lawful /\ f.run = r
  BY <1>1 DEF Lawful, Execution, File
<1>7. /\ UNCHANGED sync /\ UNCHANGED active /\ UNCHANGED troubles /\ UNCHANGED poll
      /\ UNCHANGED ask /\ UNCHANGED reclaimed /\ UNCHANGED setting /\ UNCHANGED bells
  BY <1>4 DEF ReportPut, Keeps, world, Puts, Writes
<1> QED
  BY <1>1, <1>4, <1>5, <1>6, <1>7, ExecKeeps DEF RInv, Typed

LEMMA AfterEndIs ==
  ASSUME NEW e \in Lawful, NEW end \in {"cancelled", "failed", "done"}, e.run \in Run
  PROVE  AfterEnd(e, end) \in Lawful /\ (AfterEnd(e, end).phase # "free" => AfterEnd(e, end).run = e.run)
<1>1. CASE end \in {"done", "failed"}
  <2>1. AfterEnd(e, end) = [e EXCEPT !.phase = "ringing", !.read = Absent, !.end = end]
    BY <1>1 DEF AfterEnd
  <2>2. /\ [e EXCEPT !.phase = "ringing", !.read = Absent, !.end = end] \in Lawful
        /\ [e EXCEPT !.phase = "ringing", !.read = Absent, !.end = end].run = e.run
    BY <1>1 DEF Lawful, Execution, Phases, Ends, File
  <2> QED
    BY <2>1, <2>2
<1>2. CASE end \notin {"done", "failed"}
  BY <1>2, FreeIs DEF AfterEnd
<1> QED
  BY <1>1, <1>2

LEMMA AfterEndRests ==
  ASSUME NEW e \in Lawful, NEW end
  PROVE  AfterEnd(e, end).phase \notin {"working", "hung"}
BY DEF AfterEnd, Free, Lawful, Execution

LEMMA EndKeeps ==
  ASSUME RInv, NEW d \in Device, NEW s \in Slot, EndGet(d, s) \/ EndPut(d, s) \/ Ring(d, s)
  PROVE  RInv' /\ Climbs
<1> DEFINE e == exec[d][s]
           r == e.run
<1>1. /\ e \in Lawful /\ r \in Run /\ copy[d][r] \in Record /\ copy[d][r] # Absent
  BY AtWork DEF EndGet, EndPut, Ring, At
<1>2. CASE EndGet(d, s)
  <2> DEFINE current == copy[d][r]
             end == HowItEnds(e, current)
             refused == IF end = "running" THEN ~MayRetake(current) ELSE ~MayMove(current, end)
             putting == [e EXCEPT !.phase = "putting", !.end = end, !.read = current]
  <2>1. end \in {"cancelled", "failed", "done", "running"}
    BY DEF HowItEnds
  <2>2. Becomes(d, s, IF refused THEN AfterEnd(e, end) ELSE putting)
    BY <1>2 DEF EndGet, Here
  <2>3. AfterEnd(e, "running") = Free
    BY DEF AfterEnd
  <2> HIDE DEF end
  <2>4. /\ ~refused => putting \in Lawful /\ putting.run = r
    BY <1>1, <2>1 DEF Lawful, Execution, Phases, Ends, File
  <2>5. \E f \in Lawful : (f.phase # "free" => f.run = r) /\ Becomes(d, s, f)
    <3>1. CASE refused
      BY <1>1, <2>1, <2>2, <2>3, <3>1, AfterEndIs, FreeIs
    <3>2. CASE ~refused
      BY <2>2, <2>4, <3>2
    <3> QED
      BY <3>1, <3>2
  <2>6. /\ UNCHANGED files /\ UNCHANGED windows /\ UNCHANGED active /\ UNCHANGED troubles
        /\ UNCHANGED poll /\ UNCHANGED ask /\ UNCHANGED reclaimed /\ UNCHANGED setting
        /\ UNCHANGED bells
    BY <1>2 DEF EndGet, Keeps, world
  <2>7. FilesGoOn
    BY <2>6, FilesStay DEF RInv, Typed
  <2> QED
    BY <1>1, <2>5, <2>6, <2>7, ExecKeeps DEF files, RInv, Typed
<1>3. CASE EndPut(d, s)
  <2>1. /\ e.read \in Record /\ e.read \in File
        /\ \/ e.end = "running" /\ MayRetake(e.read)
           \/ e.end \in {"cancelled", "failed", "done"} /\ MayMove(e.read, e.end)
    BY <1>1, <1>3 DEF EndPut, At, Lawful, Execution, File
  <2>2. d \in Nat \ {0} /\ 1 \in Nat \ {0}
    BY Distinct
  <2>3. \E run \in Record, f \in Lawful :
          /\ Below(e.read, run) /\ Puts(d, r, e.read, run)
          /\ (f.phase # "free" => f.run = r) /\ Becomes(d, s, f)
    <3>1. CASE e.end = "running"
      <4>1. "done" \in RunState
        BY DEF RunState
      <4>2. Retaken(e.read, d) \in Record /\ Below(e.read, Retaken(e.read, d))
        BY <2>1, <2>2, <3>1, <4>1, StoreTyped, StoreClimbs
      <4>3. /\ Puts(d, r, e.read, Retaken(e.read, d))
            /\ Becomes(d, s, [Free EXCEPT !.run = r, !.phase = "begin"])
        BY <1>3, <3>1 DEF EndPut
      <4> QED
        BY <1>1, <4>2, <4>3, FreeIs
    <3>2. CASE e.end # "running"
      <4>1. e.end \in {"cancelled", "failed", "done"} /\ e.end \in RunState
        BY <2>1, <3>2 DEF RunState
      <4>2. Ended(e.read, e.end, d) \in Record /\ Below(e.read, Ended(e.read, e.end, d))
        BY <2>1, <2>2, <3>2, <4>1, StoreTyped, StoreClimbs
      <4>3. Puts(d, r, e.read, Ended(e.read, e.end, d)) /\ Becomes(d, s, AfterEnd(e, e.end))
        BY <1>3, <3>2 DEF EndPut
      <4> QED
        BY <1>1, <4>1, <4>2, <4>3, AfterEndIs
    <3> QED
      BY <3>1, <3>2
  <2>4. FilesGoOn
    BY <1>1, <2>1, <2>3, PutClimbs
  <2>5. /\ UNCHANGED sync /\ UNCHANGED active /\ UNCHANGED troubles /\ UNCHANGED poll
        /\ UNCHANGED ask /\ UNCHANGED reclaimed /\ UNCHANGED setting /\ UNCHANGED bells
    BY <1>3, <2>3 DEF EndPut, Keeps, world, Puts, Writes
  <2> QED
    BY <1>1, <2>3, <2>4, <2>5, ExecKeeps DEF RInv, Typed
<1>4. CASE Ring(d, s)
  <2>1. /\ UNCHANGED files /\ UNCHANGED windows /\ UNCHANGED active /\ UNCHANGED troubles
        /\ UNCHANGED poll /\ UNCHANGED ask /\ UNCHANGED reclaimed /\ UNCHANGED setting
        /\ bells' = bells \cup {<<e.end, r>>} /\ Becomes(d, s, Free)
    BY <1>4 DEF Ring
  <2>2. FilesGoOn
    BY <2>1, FilesStay DEF RInv, Typed
  <2>3. e.end \in {"failed", "done"}
    BY <1>1, <1>4 DEF Ring, At, Lawful
  <2>4. bells' \subseteq {"done", "failed"} \X Run /\ UNCHANGED sync
    BY <1>1, <2>1, <2>3 DEF files, RInv, Typed
  <2>5. active' \in [Device -> [Run -> 0 .. Slots]]
    BY <2>1 DEF RInv, Typed
  <2> QED
    BY <2>1, <2>2, <2>4, <2>5, FreeIs, ExecKeeps
<1> QED
  BY <1>2, <1>3, <1>4

-----------------------------------------------------------------------------
(***************************************************************************)
(* The pass.                                                               *)
(***************************************************************************)
LEMMA EntryIs ==
  ASSUME NEW entry \in Entry, entry # Absent
  PROVE  entry.rev \in Nat /\ entry.hash \in Record
BY DEF Entry

LEMMA PublishedIs ==
  ASSUME NEW rev \in Nat, NEW run \in Record
  PROVE  /\ [rev |-> rev, hash |-> run] \in Entry /\ [rev |-> rev, hash |-> run] # Absent
BY RunnerAssumption DEF Entry

\* What followed the old remote entry follows the one published over it.
LEMMA PushFollows ==
  ASSUME NEW entry \in Entry, NEW old \in Entry, NEW new \in Entry,
         Follows(entry, old), new # Absent,
         old # Absent => new.rev > old.rev /\ Below(old.hash, new.hash)
  PROVE  Follows(entry, new)
<1> SUFFICES ASSUME entry # Absent
             PROVE  entry.rev < new.rev /\ Below(entry.hash, new.hash)
  BY EntryIs DEF Follows
<1>1. old # Absent /\ entry.rev <= old.rev /\ Below(entry.hash, old.hash)
  BY DEF Follows
<1> QED
  BY <1>1, EntryIs, BelowTransitive

LEMMA SameFollows ==
  ASSUME NEW entry \in Entry, NEW same \in Entry, NEW now \in Entry,
         same # Absent, entry # Absent, entry.rev = same.rev, entry.hash = same.hash,
         Follows(same, now)
  PROVE  Follows(entry, now)
BY DEF Follows

LEMMA ItselfFollows ==
  ASSUME NEW entry \in Entry
  PROVE  Follows(entry, entry)
BY EntryIs, BelowItself DEF Follows

LEMMA SyncReadKeeps ==
  ASSUME RInv, NEW d \in Device, NEW r \in Run, SyncRead(d, r)
  PROVE  RInv' /\ Climbs
<1> DEFINE plan == Planned(d, r)
           here == copy[d][r]
           there == mirror[r]
           last == snap[d][r]
           v == [rev |-> plan.rev, hash |-> here]
           p == [run |-> r, rev |-> plan.rev, read |-> here, listed |-> there]
<1>1. here \in File /\ there \in Entry /\ last \in Entry /\ (here # Absent => here \in Record)
  BY DEF RInv, Typed, File
<1>2. /\ plan.rev \in Nat
      /\ plan.kind = "converged" =>
           /\ here # Absent
           /\ \/ there # Absent /\ there.hash = here /\ plan.rev = there.rev
              \/ last # Absent /\ last.hash = here /\ plan.rev = last.rev
      /\ plan.kind = "upload" =>
           /\ here # Absent
           /\ there # Absent => last # Absent /\ there.rev <= last.rev /\ plan.rev > there.rev
      /\ plan.kind = "download" =>
           /\ there # Absent /\ plan.rev = there.rev
           /\ here # Absent => last # Absent /\ here = last.hash
      /\ plan.kind \in {"merge", "mergeNoBase"} =>
           here # Absent /\ there # Absent /\ plan.rev > there.rev
  BY <1>1, PlanIs DEF Planned, Here
<1>3. /\ UNCHANGED copy /\ UNCHANGED poll /\ UNCHANGED active /\ UNCHANGED exec /\ UNCHANGED ask
      /\ UNCHANGED reclaimed /\ UNCHANGED setting /\ UNCHANGED bells /\ UNCHANGED windows
      /\ UNCHANGED troubles
  BY DEF SyncRead, process, world
<1>4. \/ /\ plan.kind = "converged" /\ snap' = [snap EXCEPT ![d][r] = v]
         /\ UNCHANGED sync /\ UNCHANGED mirror
      \/ /\ plan.kind = "upload" /\ snap' = [snap EXCEPT ![d][r] = v]
         /\ mirror' = [mirror EXCEPT ![r] = v] /\ UNCHANGED sync
      \/ /\ plan.kind \in {"download", "merge", "mergeNoBase"}
         /\ sync' = [sync EXCEPT ![d] = p] /\ UNCHANGED snap /\ UNCHANGED mirror
  BY DEF SyncRead, Entered, Pushed, Here
<1> HIDE DEF plan
<1>5. Climbs
  BY <1>3, BelowItself DEF Climbs, RInv, Typed, File
<1>6. here # Absent => v \in Entry /\ v # Absent /\ v.rev = plan.rev /\ v.hash = here
  BY <1>1, <1>2, PublishedIs
<1>7. plan.kind \in {"download", "merge", "mergeNoBase"} => p \in LawfulPass
  BY <1>1, <1>2 DEF LawfulPass, Pass, MaybeRun
<1>8. \A w \in Entry :
        /\ [snap EXCEPT ![d][r] = w] \in [Device -> [Run -> Entry]]
        /\ \A e \in Device, q \in Run :
             [snap EXCEPT ![d][r] = w][e][q] = IF e = d /\ q = r THEN w ELSE snap[e][q]
  BY SnapPut DEF RInv, Typed
<1> HIDE DEF v, p
<1>9. /\ snap' \in [Device -> [Run -> Entry]] /\ mirror' \in [Run -> Entry]
      /\ sync' \in [Device -> LawfulPass]
  <2>1. CASE plan.kind \in {"converged", "upload"}
    <3>1. v \in Entry
      BY <1>2, <1>6, <2>1
    <3>2. snap' = [snap EXCEPT ![d][r] = v] /\ UNCHANGED sync
      BY <1>4, <2>1
    <3>3. UNCHANGED mirror \/ mirror' = [mirror EXCEPT ![r] = v]
      BY <1>4
    <3>4. snap' \in [Device -> [Run -> Entry]]
      BY <1>8, <3>1, <3>2
    <3>5. mirror' \in [Run -> Entry]
      BY <3>1, <3>3 DEF RInv, Typed
    <3>6. sync' \in [Device -> LawfulPass]
      BY <3>2 DEF RInv, Typed
    <3> QED
      BY <3>4, <3>5, <3>6
  <2>2. CASE plan.kind \in {"download", "merge", "mergeNoBase"}
    BY <1>4, <1>7, <2>2 DEF RInv, Typed
  <2> QED
    BY <1>4, <2>1, <2>2
<1>10. ASSUME "overlap" \notin windows' PROVE \A e \in Device : Synced(e)'
  <2>1. /\ \A e \in Device : Synced(e)
        /\ Follows(last, there)
        /\ last # Absent => here # Absent /\ Below(last.hash, here)
    BY <1>3, <1>10 DEF RInv, Synced
  <2>2. CASE plan.kind = "converged"
    <3>1. here # Absent /\ v \in Entry /\ v # Absent /\ v.hash = here /\ v.rev = plan.rev
      BY <1>2, <1>6, <2>2
    <3>2. Follows(v, there)
      BY <1>1, <1>2, <2>1, <2>2, <3>1, SameFollows, ItselfFollows
    <3>3. Below(v.hash, here)
      BY <1>1, <3>1, BelowItself
    <3>4. /\ UNCHANGED mirror /\ UNCHANGED sync
          /\ \A e \in Device, q \in Run : snap'[e][q] = IF e = d /\ q = r THEN v ELSE snap[e][q]
      BY <1>4, <1>8, <2>2, <3>1
    <3> QED
      BY <1>3, <2>1, <3>1, <3>2, <3>3, <3>4 DEF Synced
  <2>3. CASE plan.kind = "upload"
    <3>1. here # Absent /\ v \in Entry /\ v # Absent /\ v.hash = here /\ v.rev = plan.rev
      BY <1>2, <1>6, <2>3
    <3>2. there # Absent => v.rev > there.rev /\ Below(there.hash, v.hash)
      BY <1>1, <1>2, <2>1, <2>3, <3>1, EntryIs DEF Follows
    <3>3. \A entry \in Entry : Follows(entry, there) => Follows(entry, v)
      BY <1>1, <3>1, <3>2, PushFollows
    <3>4. Below(v.hash, here) /\ Follows(v, v)
      BY <1>1, <3>1, BelowItself, ItselfFollows
    <3>5. /\ mirror' = [mirror EXCEPT ![r] = v] /\ UNCHANGED sync
          /\ \A e \in Device, q \in Run : snap'[e][q] = IF e = d /\ q = r THEN v ELSE snap[e][q]
      BY <1>4, <1>8, <2>3, <3>1
    <3>6. mirror'[r] = v /\ \A q \in Run : q # r => mirror'[q] = mirror[q]
      BY <3>5 DEF RInv, Typed
    <3>7. ASSUME NEW e \in Device PROVE Synced(e)'
      <4>1. ASSUME NEW q \in Run
            PROVE  /\ Follows(snap'[e][q], mirror'[q])
                   /\ snap'[e][q] # Absent => copy'[e][q] # Absent /\ Below(snap'[e][q].hash, copy'[e][q])
        <5>1. snap[e][q] \in Entry /\ Follows(snap[e][q], mirror[q])
          BY <2>1 DEF Synced, RInv, Typed
        <5>2. Follows(snap'[e][q], mirror'[q])
          BY <3>3, <3>4, <3>5, <3>6, <5>1
        <5> QED
          BY <1>3, <2>1, <3>1, <3>4, <3>5, <5>2 DEF Synced
      <4>2. ASSUME sync[e] # NoPass PROVE Follows(sync[e].listed, mirror'[sync[e].run])
        <5>1. sync[e].listed \in Entry /\ sync[e].run \in Run
          BY <4>2 DEF RInv, Typed, LawfulPass, Pass
        <5> QED
          BY <2>1, <3>3, <3>6, <4>2, <5>1 DEF Synced
      <4> QED
        BY <2>1, <3>5, <4>1, <4>2 DEF Synced
    <3> QED
      BY <3>7
  <2>4. CASE plan.kind \in {"download", "merge", "mergeNoBase"}
    <3>1. /\ UNCHANGED mirror /\ UNCHANGED snap /\ sync' = [sync EXCEPT ![d] = p]
      BY <1>4, <2>4
    <3>2. sync'[d] = p /\ \A e \in Device : e # d => sync'[e] = sync[e]
      BY <3>1 DEF RInv, Typed
    <3>3. p.run = r /\ p.listed = there /\ p.read = here /\ p.rev = plan.rev
      BY DEF p
    <3>4. \/ p.rev > p.listed.rev \/ p.read = Absent \/ Below(p.read, p.listed.hash)
      BY <1>1, <1>2, <2>1, <2>4, <3>3 DEF Follows
    <3>5. Follows(p.listed, mirror[p.run])
      BY <1>1, <3>3, ItselfFollows
    <3>6. ASSUME NEW e \in Device PROVE Synced(e)'
      <4>1. CASE e = d
        BY <1>3, <2>1, <3>1, <3>2, <3>4, <3>5, <4>1 DEF Synced
      <4>2. CASE e # d
        BY <1>3, <2>1, <3>1, <3>2, <4>2 DEF Synced
      <4> QED
        BY <4>1, <4>2
    <3> QED
      BY <3>6
  <2> QED
    BY <1>4, <2>2, <2>3, <2>4
<1>11. FilesGoOn
  BY <1>3, <1>5, <1>9, <1>10 DEF FilesGoOn, RInv, Typed
<1> QED
  BY <1>3, <1>9, <1>11, ExecsStay, PollStays, StepKeeps DEF RInv, Typed

LEMMA SyncWriteKeeps ==
  ASSUME RInv, NEW d \in Device, SyncWrite(d)
  PROVE  RInv' /\ Climbs
<1> DEFINE p == sync[d]
           r == p.run
           merges == p.rev > p.listed.rev
           out == IF merges THEN Join(p.read, p.listed.hash) ELSE p.listed.hash
           v == [rev |-> p.rev, hash |-> out]
<1>1. /\ p # NoPass /\ p \in LawfulPass /\ r \in Run /\ p.rev \in Nat /\ p.read \in File
      /\ p.listed \in Entry /\ p.listed # Absent
      /\ merges => p.read # Absent
      /\ ~merges => p.rev = p.listed.rev
  BY DEF SyncWrite, RInv, Typed, LawfulPass, Pass
<1>2. p.listed.rev \in Nat /\ p.listed.hash \in Record /\ (p.read # Absent => p.read \in Record)
  BY <1>1, EntryIs DEF File
<1>3. /\ UNCHANGED poll /\ UNCHANGED active /\ UNCHANGED exec /\ UNCHANGED ask
      /\ UNCHANGED reclaimed /\ UNCHANGED setting /\ UNCHANGED bells /\ UNCHANGED troubles
      /\ copy' = [copy EXCEPT ![d][r] = out] /\ snap' = [snap EXCEPT ![d][r] = v]
      /\ IF merges THEN mirror' = [mirror EXCEPT ![r] = v] ELSE UNCHANGED mirror
      /\ sync' = [sync EXCEPT ![d] = NoPass]
      /\ windows \subseteq windows' /\ windows' \subseteq Windows
      /\ copy[d][r] # p.read \/ (merges /\ mirror[r] # p.listed) => "overlap" \in windows'
  BY DEF SyncWrite, Entered, Pushed, process, world, Opens, When, Windows, Here, RInv, Typed
<1>4. out \in Record /\ (merges => Below(p.read, out) /\ Below(p.listed.hash, out))
  BY <1>1, <1>2, JoinParts, JoinIsAbove
<1>5. ~merges => out = p.listed.hash
  OBVIOUS
<1> HIDE DEF out
<1>6. v \in Entry /\ v # Absent /\ v.rev = p.rev /\ v.hash = out /\ out # Absent
  BY <1>1, <1>4, PublishedIs, Distinct
<1> HIDE DEF v, merges
<1>7. /\ copy' \in [Device -> [Run -> File]]
      /\ \A e \in Device, q \in Run : copy'[e][q] = IF e = d /\ q = r THEN out ELSE copy[e][q]
  BY <1>1, <1>3, <1>4, CopyPut DEF RInv, Typed, File
<1>8. /\ snap' \in [Device -> [Run -> Entry]]
      /\ \A e \in Device, q \in Run : snap'[e][q] = IF e = d /\ q = r THEN v ELSE snap[e][q]
  BY <1>1, <1>3, <1>6, SnapPut DEF RInv, Typed
<1>9. /\ mirror' \in [Run -> Entry]
      /\ mirror'[r] = IF merges THEN v ELSE mirror[r]
      /\ \A q \in Run : q # r => mirror'[q] = mirror[q]
  BY <1>1, <1>3, <1>6 DEF RInv, Typed
<1>10. /\ sync' \in [Device -> LawfulPass] /\ sync'[d] = NoPass
       /\ \A e \in Device : e # d => sync'[e] = sync[e]
  BY <1>3, NoPassIs DEF RInv, Typed
<1>11. ASSUME "overlap" \notin windows'
       PROVE  /\ \A e \in Device : Synced(e)
              /\ copy[d][r] = p.read
              /\ merges => mirror[r] = p.listed
              /\ ~merges => p.read = Absent \/ Below(p.read, out)
              /\ Follows(p.listed, mirror[r])
  <2>1. \A e \in Device : Synced(e)
    BY <1>3, <1>11 DEF RInv
  <2>2. ~merges => p.read = Absent \/ Below(p.read, out)
    BY <1>1, <1>5, <2>1 DEF Synced, merges
  <2>3. Follows(p.listed, mirror[r])
    BY <1>1, <2>1 DEF Synced
  <2> QED
    BY <1>3, <1>11, <2>1, <2>2, <2>3
<1>12. Climbs
  <2>1. CASE "overlap" \in windows'
    BY <2>1 DEF Climbs
  <2>2. CASE "overlap" \notin windows'
    <3>1. copy[d][r] = Absent \/ Below(copy[d][r], out)
      BY <1>4, <1>11, <2>2
    <3>2. \A e \in Device, q \in Run : copy[e][q] = Absent \/ copy[e][q] \in Record
      BY DEF RInv, Typed, File
    <3> QED
      BY <1>7, <3>1, <3>2, BelowItself DEF Climbs
  <2> QED
    BY <2>1, <2>2
<1>13. ASSUME "overlap" \notin windows', NEW e \in Device PROVE Synced(e)'
  <2>1. /\ \A entry \in Entry : Follows(entry, mirror[r]) => Follows(entry, mirror'[r])
        /\ Follows(v, mirror'[r])
    <3>1. mirror[r] \in Entry
      BY <1>1 DEF RInv, Typed
    <3>2. CASE merges
      <4>1. v.rev > p.listed.rev /\ Below(p.listed.hash, v.hash) /\ mirror[r] = p.listed
        BY <1>4, <1>6, <1>11, <1>13, <3>2 DEF merges
      <4> QED
        BY <1>6, <1>9, <3>1, <3>2, <4>1, PushFollows, ItselfFollows
    <3>3. CASE ~merges
      <4>1. v.rev = p.listed.rev /\ v.hash = p.listed.hash
        BY <1>1, <1>5, <1>6, <3>3 DEF merges
      <4> QED
        BY <1>1, <1>6, <1>9, <1>11, <1>13, <3>1, <3>3, <4>1, SameFollows
    <3> QED
      BY <3>2, <3>3
  <2>2. ASSUME NEW q \in Run
        PROVE  /\ Follows(snap'[e][q], mirror'[q])
               /\ snap'[e][q] # Absent => copy'[e][q] # Absent /\ Below(snap'[e][q].hash, copy'[e][q])
    <3>1. /\ snap[e][q] \in Entry /\ Follows(snap[e][q], mirror[q])
          /\ snap[e][q] # Absent => copy[e][q] # Absent /\ Below(snap[e][q].hash, copy[e][q])
      BY <1>11, <1>13 DEF Synced, RInv, Typed
    <3>2. CASE e = d /\ q = r
      BY <1>4, <1>6, <1>7, <1>8, <2>1, <3>2, BelowItself
    <3>3. CASE ~(e = d /\ q = r)
      BY <1>7, <1>8, <1>9, <2>1, <3>1, <3>3
    <3> QED
      BY <3>2, <3>3
  <2>3. ASSUME sync'[e] # NoPass
        PROVE  /\ Follows(sync'[e].listed, mirror'[sync'[e].run])
               /\ \/ sync'[e].rev > sync'[e].listed.rev
                  \/ sync'[e].read = Absent
                  \/ Below(sync'[e].read, sync'[e].listed.hash)
    <3>1. sync'[e] = sync[e] /\ sync[e] # NoPass
      BY <1>10, <2>3
    <3>2. sync[e].listed \in Entry /\ sync[e].run \in Run
      BY <3>1 DEF RInv, Typed, LawfulPass, Pass
    <3> QED
      BY <1>9, <1>11, <1>13, <2>1, <3>1, <3>2 DEF Synced
  <2> QED
    BY <2>2, <2>3 DEF Synced
<1>14. \A e \in Device, q \in Run : copy[e][q] # Absent => copy'[e][q] # Absent
  BY <1>6, <1>7
<1>15. FilesGoOn
  BY <1>3, <1>7, <1>8, <1>9, <1>12, <1>13, <1>14 DEF FilesGoOn
<1> QED
  BY <1>3, <1>10, <1>15, ExecsStay, PollStays, StepKeeps DEF RInv, Typed

-----------------------------------------------------------------------------
(***************************************************************************)
(* The whole.                                                              *)
(***************************************************************************)
LEMMA RestartKeeps ==
  ASSUME RInv, NEW d \in Device, Restart(d)
  PROVE  RInv' /\ Climbs
<1>1. /\ Trouble /\ windows \subseteq windows' /\ windows' \subseteq Windows
      /\ UNCHANGED copy /\ UNCHANGED snap /\ UNCHANGED mirror /\ UNCHANGED setting
      /\ UNCHANGED bells /\ ("overlap" \in windows => "overlap" \in windows')
      /\ sync' = [sync EXCEPT ![d] = NoPass]
      /\ poll' = [poll EXCEPT ![d] = {}] /\ ask' = [ask EXCEPT ![d] = NoAsk]
      /\ reclaimed' = [reclaimed EXCEPT ![d] = FALSE]
  BY DEF Restart, Opens, When, Windows, world, RInv, Typed
<1>2. /\ sync' \in [Device -> LawfulPass] /\ sync'[d] = NoPass
      /\ \A e \in Device : e # d => sync'[e] = sync[e]
  BY <1>1, NoPassIs DEF RInv, Typed
<1>3. ASSUME "overlap" \notin windows', NEW e \in Device PROVE Synced(e)'
  <2>1. Synced(e)
    BY <1>1, <1>3 DEF RInv
  <2>2. CASE e = d
    BY <1>1, <1>2, <2>1, <2>2 DEF Synced
  <2>3. CASE e # d
    BY <1>1, <1>2, <2>1, <2>3 DEF Synced
  <2> QED
    BY <2>2, <2>3
<1>4. Climbs
  BY <1>1, BelowItself DEF Climbs, RInv, Typed, File
<1>5. FilesGoOn
  BY <1>1, <1>3, <1>4 DEF FilesGoOn, RInv, Typed
<1>6. ExecsGoOn
  <2> DEFINE idle == [s \in Slot |-> Free]
  <2>1. idle \in [Slot -> Lawful] /\ \A s \in Slot : idle[s].phase = "free"
    BY FreeIs
  <2>2. exec' = [exec EXCEPT ![d] = idle]
    BY DEF Restart
  <2> HIDE DEF idle
  <2>3. /\ exec' \in [Device -> [Slot -> Lawful]]
        /\ \A c \in Device, s \in Slot :
             exec'[c][s].phase # "free" => c # d /\ exec'[c][s] = exec[c][s]
    BY <2>1, <2>2 DEF RInv, Typed
  <2> QED
    BY <1>1, <2>3 DEF ExecsGoOn, RInv, Present
<1>7. active' \in [Device -> [Run -> 0 .. Slots]]
  <2> DEFINE none == [r \in Run |-> 0]
  <2>1. none \in [Run -> 0 .. Slots]
    BY RunnerAssumption
  <2>2. active' = [active EXCEPT ![d] = none]
    BY DEF Restart
  <2> HIDE DEF none
  <2> QED
    BY <2>1, <2>2 DEF RInv, Typed
<1>8. /\ poll' \in [Device -> SUBSET Due] /\ ask' \in [Device -> LawfulAsk]
      /\ reclaimed' \in [Device -> BOOLEAN] /\ \A c \in Device : poll'[c] \subseteq poll[c]
  BY <1>1, NoAskIs DEF RInv, Typed
<1> QED
  BY <1>1, <1>2, <1>5, <1>6, <1>7, <1>8, PollStays, StepKeeps DEF RInv, Typed

LEMMA InitRInv == Init => RInv
<1> SUFFICES ASSUME Init PROVE RInv
  OBVIOUS
<1>1. /\ copy \in [Device -> [Run -> File]]
      /\ \A d \in Device, r \in Run : copy[d][r] # Absent => copy[d][r] \in Record
  <2>1. \A d \in Device : Created(d) \in Record
    BY Distinct DEF Created, Record, RunState
  <2> QED
    BY <2>1 DEF Init, File
<1>2. /\ snap = [d \in Device |-> [r \in Run |-> Absent]] /\ mirror = [r \in Run |-> Absent]
      /\ snap \in [Device -> [Run -> Entry]] /\ mirror \in [Run -> Entry]
  BY DEF Init, Entry
<1>3. sync = [d \in Device |-> NoPass] /\ sync \in [Device -> LawfulPass]
  BY NoPassIs DEF Init
<1>4. poll = [d \in Device |-> {}] /\ poll \in [Device -> SUBSET Due]
  BY DEF Init
<1>5. active \in [Device -> [Run -> 0 .. Slots]]
  BY RunnerAssumption DEF Init
<1>6. /\ exec = [d \in Device |-> [s \in Slot |-> Free]]
      /\ exec \in [Device -> [Slot -> Lawful]]
  BY FreeIs DEF Init
<1>7. ask \in [Device -> LawfulAsk] /\ reclaimed \in [Device -> BOOLEAN]
  BY NoAskIs DEF Init
<1>8. setting \in Setting /\ bells \subseteq {"done", "failed"} \X Run /\ windows \subseteq Windows
      /\ troubles \in 0 .. setting.troubles
  BY RunnerAssumption DEF Init
<1>9. Typed
  BY <1>1, <1>2, <1>3, <1>4, <1>5, <1>6, <1>7, <1>8 DEF Typed
<1>10. ASSUME NEW d \in Device PROVE Present(d) /\ Synced(d)
  <2>1. Present(d)
    BY <1>4, <1>6, FreeIs DEF Present
  <2>2. Synced(d)
    BY <1>2, <1>3 DEF Synced, Follows
  <2> QED
    BY <2>1, <2>2
<1> QED
  BY <1>9, <1>10 DEF RInv

LEMMA NextKeeps == RInv /\ [Next]_vars => RInv' /\ Climbs
<1> SUFFICES ASSUME RInv, [Next]_vars PROVE RInv' /\ Climbs
  OBVIOUS
<1>1. CASE UNCHANGED vars
  <2>1. /\ UNCHANGED copy /\ UNCHANGED snap /\ UNCHANGED mirror /\ UNCHANGED sync /\ UNCHANGED poll
        /\ UNCHANGED active /\ UNCHANGED exec /\ UNCHANGED ask /\ UNCHANGED reclaimed
        /\ UNCHANGED setting /\ UNCHANGED bells /\ UNCHANGED windows /\ UNCHANGED troubles
    BY <1>1 DEF vars
  <2>2. FilesGoOn
    BY <2>1, FilesStay DEF files, RInv, Typed
  <2> QED
    BY <2>1, <2>2, ExecsStay, PollStays, StepKeeps DEF RInv, Typed
<1>2. CASE Next
  <2>1. PICK d \in setting.present :
          \/ \E r \in Run : CreateGet(d, r) \/ CancelGet(d, r) \/ DeliverGet(d, r)
          \/ AskPut(d) \/ PollStep(d) \/ SyncStep(d)
          \/ \E s \in Slot : ExecStep(d, s) \/ ReportGet(d, s) \/ Hangs(d, s)
          \/ Restart(d)
    BY <1>2 DEF Next
  <2>2. d \in Device
    BY RunnerAssumption DEF RInv, Typed
  <2>3. CASE \E r \in Run : CreateGet(d, r) \/ CancelGet(d, r) \/ DeliverGet(d, r)
    BY <2>2, <2>3, AskGetKeeps
  <2>4. CASE AskPut(d)
    BY <2>2, <2>4, AskPutKeeps
  <2>5. CASE PollStep(d)
    BY <2>2, <2>5, TickKeeps, StartKeeps DEF PollStep
  <2>6. CASE SyncStep(d)
    BY <2>2, <2>6, SyncReadKeeps, SyncWriteKeeps DEF SyncStep
  <2>7. ASSUME NEW s \in Slot, ExecStep(d, s) \/ ReportGet(d, s) \/ Hangs(d, s)
        PROVE  RInv' /\ Climbs
    BY <2>2, <2>7, BeginKeeps, ReportPutKeeps, WorkKeeps, EndKeeps DEF ExecStep
  <2>8. CASE Restart(d)
    BY <2>2, <2>8, RestartKeeps
  <2> QED
    BY <2>1, <2>3, <2>4, <2>5, <2>6, <2>7, <2>8
<1> QED
  BY <1>1, <1>2

LEMMA RAlways == Spec => []RInv
<1>1. RInv /\ [Next]_vars => RInv'
  BY NextKeeps
<1> QED
  BY <1>1, InitRInv, PTL DEF Spec

(***************************************************************************)
(* Every reachable state is well typed: the files, the passes over them,   *)
(* the map, the executions and what they have read (runner.ts, store.ts).  *)
(***************************************************************************)
THEOREM TypeCorrect == Spec => []TypeOK
<1>1. RInv => TypeOK
  <2> SUFFICES ASSUME RInv PROVE TypeOK
    OBVIOUS
  <2>1. exec \in [Device -> [Slot -> Execution]]
    BY DEF RInv, Typed, Lawful
  <2>2. ask \in [Device -> Ask]
    BY DEF RInv, Typed, LawfulAsk
  <2>3. sync \in [Device -> Pass]
    BY DEF RInv, Typed, LawfulPass
  <2> QED
    BY <2>1, <2>2, <2>3 DEF RInv, Typed, TypeOK
<1> QED
  BY <1>1, RAlways, PTL

(***************************************************************************)
(* However many devices take, retake, report on, cancel, end and merge a   *)
(* run, restart and lapse, no step takes back from any copy of its file    *)
(* anything that had been written there, except through an overlap         *)
(* (store.ts, merge.ts, engine.ts).                                        *)
(***************************************************************************)
THEOREM FilesClimb == Spec => CopiesClimb
<1>1. RInv /\ [Next]_vars =>
        [\A d \in Device, r \in Run :
           \/ copy[d][r] = Absent \/ Below(copy[d][r], copy'[d][r])
           \/ "overlap" \in windows']_vars
  BY NextKeeps DEF Climbs
<1> QED
  BY <1>1, RAlways, PTL DEF Spec, CopiesClimb

-----------------------------------------------------------------------------
(***************************************************************************)
(* One execution. Until a run is taken over in the gap, a device has one   *)
(* execution of it at most, at whatever phase it is, and the map holds     *)
(* whichever is at work.                                                   *)
(***************************************************************************)
Busy(d, s) == exec[d][s].phase # "free"
AtItsWork(d, s) == exec[d][s].phase \in {"working", "hung"}

Single(d) ==
  \A s, t \in Slot : Busy(d, s) /\ Busy(d, t) /\ exec[d][s].run = exec[d][t].run => s = t
Listed(d) == \A s \in Slot : AtItsWork(d, s) => active[d][exec[d][s].run] = s

OneInv == "gap" \notin windows => \A d \in Device : Single(d) /\ Listed(d)

\* What a step may do to the executions of a device that it starts none on.
Lessens(d) ==
  \A s \in Slot : Busy(d, s)' => Busy(d, s) /\ exec'[d][s].run = exec[d][s].run

LEMMA LessenedSingle ==
  ASSUME NEW d \in Device, Single(d), Lessens(d)
  PROVE  Single(d)'
BY DEF Single, Lessens

LEMMA SameListed ==
  ASSUME NEW d \in Device, Listed(d), active'[d] = active[d],
         \A s \in Slot : AtItsWork(d, s)' => AtItsWork(d, s) /\ exec'[d][s].run = exec[d][s].run
  PROVE  Listed(d)'
BY DEF Listed

\* Executions are told to stop at most, and the map stays.
Still ==
  /\ UNCHANGED active /\ windows \subseteq windows'
  /\ \A d \in Device, s \in Slot :
       exec'[d][s].run = exec[d][s].run /\ exec'[d][s].phase = exec[d][s].phase

LEMMA StillOne ==
  ASSUME OneInv, Still
  PROVE  OneInv'
<1>1. SUFFICES ASSUME "gap" \notin windows', NEW d \in Device PROVE Single(d)' /\ Listed(d)'
  BY DEF OneInv
<1>2. Single(d) /\ Listed(d)
  BY <1>1 DEF OneInv, Still
<1>3. Lessens(d)
  BY DEF Lessens, Still, Busy
<1>4. \A s \in Slot : AtItsWork(d, s)' => AtItsWork(d, s) /\ exec'[d][s].run = exec[d][s].run
  BY DEF Still, AtItsWork
<1> QED
  BY <1>2, <1>3, <1>4, LessenedSingle, SameListed DEF Still

LEMMA ToldStill ==
  ASSUME RInv, NEW d \in Device, NEW now \in [Slot -> Lawful],
         \A s \in Slot : now[s].run = exec[d][s].run /\ now[s].phase = exec[d][s].phase,
         exec' = [exec EXCEPT ![d] = now]
  PROVE  \A c \in Device, s \in Slot :
           exec'[c][s].run = exec[c][s].run /\ exec'[c][s].phase = exec[c][s].phase
BY DEF RInv, Typed

LEMMA ToldSame ==
  ASSUME RInv, NEW d \in Device, NEW r \in Run, Told(d, r)
  PROVE  \A c \in Device, s \in Slot :
           exec'[c][s].run = exec[c][s].run /\ exec'[c][s].phase = exec[c][s].phase
<1> DEFINE now == [s \in Slot |-> IF s = active[d][r] THEN [exec[d][s] EXCEPT !.stopping = TRUE]
                                  ELSE exec[d][s]]
<1>1. \A s \in Slot : exec[d][s] \in Lawful
  BY DEF RInv, Typed
<1>2. /\ now \in [Slot -> Lawful]
      /\ \A s \in Slot : now[s].run = exec[d][s].run /\ now[s].phase = exec[d][s].phase
  BY <1>1, ToldIs
<1>3. exec' = [exec EXCEPT ![d] = now]
  BY DEF Told
<1> HIDE DEF now
<1> QED
  BY <1>2, <1>3, ToldStill

LEMMA NoticedSame ==
  ASSUME RInv, NEW d \in Device, NoticeCancellations(d)
  PROVE  \A c \in Device, s \in Slot :
           exec'[c][s].run = exec[c][s].run /\ exec'[c][s].phase = exec[c][s].phase
<1> DEFINE hears(s) == LET r == exec[d][s].run IN r # None /\ active[d][r] = s /\ Here(d, r).cancel
           now == [s \in Slot |-> IF hears(s) THEN [exec[d][s] EXCEPT !.stopping = TRUE]
                                  ELSE exec[d][s]]
<1>1. \A s \in Slot : exec[d][s] \in Lawful
  BY DEF RInv, Typed
<1>2. exec' = [exec EXCEPT ![d] = now]
  BY DEF NoticeCancellations
<1> HIDE DEF hears
<1>3. /\ now \in [Slot -> Lawful]
      /\ \A s \in Slot : now[s].run = exec[d][s].run /\ now[s].phase = exec[d][s].phase
  BY <1>1, ToldIs
<1> HIDE DEF now
<1> QED
  BY <1>2, <1>3, ToldStill

\* Everything but the steps of an execution, a start and a restart.
LEMMA OthersOne ==
  ASSUME RInv, OneInv, NEW d \in Device,
         \/ \E r \in Run : CreateGet(d, r) \/ CancelGet(d, r) \/ DeliverGet(d, r)
         \/ AskPut(d) \/ Tick(d) \/ (\E item \in poll[d] : StandsBack(d, item) /\ Start(d, item))
         \/ SyncStep(d)
  PROVE  OneInv'
<1>1. CASE \E r \in Run : CreateGet(d, r) \/ CancelGet(d, r) \/ DeliverGet(d, r)
  <2>1. UNCHANGED active /\ UNCHANGED windows
    BY <1>1 DEF CreateGet, CancelGet, DeliverGet
  <2>2. UNCHANGED exec \/ \E r \in Run : Told(d, r)
    BY <1>1 DEF CreateGet, CancelGet, DeliverGet
  <2> QED
    BY <2>1, <2>2, ToldSame, StillOne DEF Still
<1>2. CASE AskPut(d)
  <2>1. UNCHANGED active /\ windows \subseteq windows'
    BY <1>2 DEF AskPut, Puts, Opens
  <2>2. ask[d].run \in Run
    BY <1>2 DEF AskPut, Idle, RInv, Typed, LawfulAsk
  <2>3. UNCHANGED exec \/ Told(d, ask[d].run)
    BY <1>2 DEF AskPut
  <2> QED
    BY <2>1, <2>2, <2>3, ToldSame, StillOne DEF Still
<1>3. CASE Tick(d)
  <2>1. UNCHANGED active /\ UNCHANGED windows /\ NoticeCancellations(d)
    BY <1>3 DEF Tick, Look
  <2> QED
    BY <2>1, NoticedSame, StillOne DEF Still
<1>4. CASE \E item \in poll[d] : StandsBack(d, item) /\ Start(d, item)
  <2>1. UNCHANGED active /\ UNCHANGED windows /\ UNCHANGED exec
    BY <1>4 DEF StandsBack, Start
  <2> QED
    BY <2>1, StillOne DEF Still
<1>5. CASE SyncStep(d)
  <2>1. UNCHANGED active /\ UNCHANGED exec /\ windows \subseteq windows'
    BY <1>5 DEF SyncStep, SyncRead, SyncWrite, Opens, process
  <2> QED
    BY <2>1, StillOne DEF Still
<1> QED
  BY <1>1, <1>2, <1>3, <1>4, <1>5

\* A start finds no execution of its run, or opens the gap.
LEMMA StartOne ==
  ASSUME RInv, OneInv, NEW d \in Device, NEW item \in poll[d], Starts(d, item), Start(d, item)
  PROVE  OneInv'
<1> DEFINE r == item.run
           begun == [Free EXCEPT !.run = r, !.phase = "begin"]
<1>1. r \in Run
  BY DEF RInv, Typed, Due
<1>2. begun \in Lawful /\ begun.run = r /\ begun.phase = "begin"
  BY <1>1, FreeIs DEF Free
<1>3. PICK s \in Slot : exec' = [exec EXCEPT ![d][s] = begun] /\ exec[d][s] = Free
  BY DEF Starts
<1>4. \A c \in Device, t \in Slot :
        exec'[c][t] = IF c = d /\ t = s THEN begun ELSE exec[c][t]
  BY <1>2, <1>3, ExecPut DEF RInv, Typed
<1>5. /\ UNCHANGED active /\ active[d][r] = 0 /\ windows \subseteq windows'
      /\ "gap" \notin windows' =>
           \A t \in Slot : exec[d][t].run = r => AtItsWork(d, t)
  BY DEF Start, Starts, Opens, When, AtItsWork
<1>6. SUFFICES ASSUME "gap" \notin windows', NEW c \in Device PROVE Single(c)' /\ Listed(c)'
  BY DEF OneInv
<1>7. Single(c) /\ Listed(c)
  BY <1>5, <1>6 DEF OneInv
<1> HIDE DEF begun
<1>8. CASE c = d
  <2>1. \A t \in Slot : exec[d][t].run # r
    <3>1. 0 \notin Slot
      BY RunnerAssumption DEF Slot
    <3> QED
      BY <1>5, <1>6, <1>7, <1>8, <3>1 DEF Listed
  <2>2. Single(d)'
    BY <1>2, <1>4, <1>7, <1>8, <2>1 DEF Single, Busy
  <2>3. Listed(d)'
    BY <1>2, <1>4, <1>5, <1>7, <1>8 DEF Listed, AtItsWork
  <2> QED
    BY <1>8, <2>2, <2>3
<1>9. CASE c # d
  <2>1. \A t \in Slot : exec'[c][t] = exec[c][t]
    BY <1>4, <1>9
  <2> QED
    BY <1>5, <1>7, <2>1 DEF Single, Listed, Busy, AtItsWork
<1> QED
  BY <1>8, <1>9

\* One execution goes on with its run, or is over; the map may drop or enter it.
LEMMA ExecOne ==
  ASSUME RInv, OneInv, NEW d \in Device, NEW s \in Slot, NEW e \in Lawful,
         Becomes(d, s, e), Busy(d, s), e.phase # "free" => e.run = exec[d][s].run,
         windows \subseteq windows',
         \A c \in Device : c # d => active'[c] = active[c],
         \A r \in Run : r # exec[d][s].run => active'[d][r] = active[d][r],
         "gap" \notin windows' /\ e.phase \in {"working", "hung"} => active'[d][e.run] = s
  PROVE  OneInv'
<1>1. \A c \in Device, t \in Slot : exec'[c][t] = IF c = d /\ t = s THEN e ELSE exec[c][t]
  BY ExecPut DEF Becomes, RInv, Typed
<1>2. SUFFICES ASSUME "gap" \notin windows', NEW c \in Device PROVE Single(c)' /\ Listed(c)'
  BY DEF OneInv
<1>3. Single(c) /\ Listed(c)
  BY <1>2 DEF OneInv
<1>4. Single(c)'
  <2>1. Lessens(c)
    BY <1>1 DEF Lessens, Busy
  <2> QED
    BY <1>3, <2>1, LessenedSingle
<1>5. Listed(c)'
  <2>1. SUFFICES ASSUME NEW t \in Slot, exec'[c][t].phase \in {"working", "hung"}
                 PROVE  active'[c][exec'[c][t].run] = t
    BY DEF Listed, AtItsWork
  <2>2. CASE c = d /\ t = s
    BY <1>1, <1>2, <2>1, <2>2
  <2>3. CASE c = d /\ t # s
    <3>1. exec'[c][t] = exec[c][t] /\ Busy(c, t) /\ exec[c][t].run \in Run
      BY <1>1, <2>1, <2>3 DEF Busy, RInv, Typed, Lawful
    <3>2. exec[c][t].run # exec[d][s].run
      BY <1>3, <2>3, <3>1 DEF Single
    <3> QED
      BY <1>3, <2>1, <2>3, <3>1, <3>2 DEF Listed, AtItsWork
  <2>4. CASE c # d
    <3>1. exec'[c][t] = exec[c][t] /\ active'[c] = active[c]
      BY <1>1, <2>4
    <3> QED
      BY <1>3, <2>1, <3>1 DEF Listed, AtItsWork
  <2> QED
    BY <2>2, <2>3, <2>4
<1> QED
  BY <1>4, <1>5

LEMMA BeginOne ==
  ASSUME RInv, OneInv, NEW d \in Device, NEW s \in Slot, Begin(d, s)
  PROVE  OneInv'
<1> DEFINE r == exec[d][s].run
           e == [Free EXCEPT !.run = r, !.phase = "working"]
<1>1. r \in Run /\ Busy(d, s) /\ s \in 0 .. Slots /\ UNCHANGED windows
  BY AtWork, RunnerAssumption DEF Begin, At, Busy, Slot
<1>2. e \in Lawful /\ e.run = r
  BY <1>1, FreeIs
<1>3. active \in [Device -> [Run -> 0 .. Slots]]
  BY DEF RInv, Typed
<1>4. CASE Becomes(d, s, e) /\ active' = [active EXCEPT ![d][r] = s]
  <2>1. /\ active'[d][r] = s /\ \A c \in Device : c # d => active'[c] = active[c]
        /\ \A q \in Run : q # r => active'[d][q] = active[d][q]
    BY <1>1, <1>3, <1>4
  <2> QED
    BY <1>1, <1>2, <1>4, <2>1, ExecOne
<1>5. CASE Becomes(d, s, Free) /\ UNCHANGED active
  BY <1>1, <1>5, FreeIs, ExecOne
<1> QED
  BY <1>4, <1>5 DEF Begin

\* What a working execution holds in the map stays there until its worker ends.
LEMMA WorkOne ==
  ASSUME RInv, OneInv, NEW d \in Device, NEW s \in Slot,
         ReportGet(d, s) \/ ReportPut(d, s) \/ Hangs(d, s)
  PROVE  OneInv'
<1> DEFINE e == exec[d][s]
<1>1. Busy(d, s) /\ UNCHANGED active /\ windows \subseteq windows'
  BY DEF ReportGet, ReportPut, Hangs, At, Busy, Puts, Opens
<1>2. e \in Lawful /\ e.run \in Run /\ copy[d][e.run] \in File
  BY <1>1, AtWork DEF Busy, File
<1>3. \E f \in Lawful :
        Becomes(d, s, f) /\ f.run = e.run /\ (f.phase \in {"working", "hung"} => AtItsWork(d, s))
  <2>1. CASE ReportGet(d, s)
    <3> DEFINE f == [e EXCEPT !.read = copy[d][e.run]]
    <3>1. e.phase = "working" /\ Becomes(d, s, f)
      BY <2>1 DEF ReportGet, At, Here
    <3>2. f \in Lawful /\ f.run = e.run /\ f.phase = e.phase
      BY <1>2, <3>1 DEF Lawful, Execution
    <3> QED
      BY <3>1, <3>2 DEF AtItsWork
  <2>2. CASE ReportPut(d, s)
    <3> DEFINE f == [e EXCEPT !.read = Absent]
    <3>1. e.phase \in {"working", "hung", "settling"} /\ Becomes(d, s, f)
      BY <2>2 DEF ReportPut, At
    <3>2. f \in Lawful /\ f.run = e.run /\ f.phase = e.phase
      BY <1>2, <3>1 DEF Lawful, Execution, File
    <3> QED
      BY <3>1, <3>2 DEF AtItsWork
  <2>3. CASE Hangs(d, s)
    <3> DEFINE f == [e EXCEPT !.phase = "hung"]
    <3>1. e.phase = "working" /\ Becomes(d, s, f)
      BY <2>3 DEF Hangs, At
    <3>2. f \in Lawful /\ f.run = e.run
      BY <1>2, <3>1 DEF Lawful, Execution, Phases
    <3> QED
      BY <3>1, <3>2 DEF AtItsWork
  <2> QED
    BY <2>1, <2>2, <2>3
<1>4. "gap" \notin windows' /\ AtItsWork(d, s) => active[d][e.run] = s
  BY <1>1 DEF OneInv, Listed
<1>5. PICK f \in Lawful :
        Becomes(d, s, f) /\ f.run = e.run /\ (f.phase \in {"working", "hung"} => AtItsWork(d, s))
  BY <1>3, Zenon
<1>6. /\ f.phase # "free" => f.run = exec[d][s].run
      /\ "gap" \notin windows' /\ f.phase \in {"working", "hung"} => active'[d][f.run] = s
      /\ \A c \in Device : c # d => active'[c] = active[c]
      /\ \A r \in Run : r # exec[d][s].run => active'[d][r] = active[d][r]
  BY <1>1, <1>4, <1>5
<1> HIDE DEF e
<1> QED
  BY <1>1, <1>5, <1>6, ExecOne

\* An execution that goes out of the map, or stays out of it.
LEMMA EndOne ==
  ASSUME RInv, OneInv, NEW d \in Device, NEW s \in Slot,
         WorkerEnds(d, s) \/ EndGet(d, s) \/ EndPut(d, s) \/ Ring(d, s)
  PROVE  OneInv'
<1> DEFINE e == exec[d][s]
           r == e.run
<1>1. Busy(d, s) /\ windows \subseteq windows'
  BY DEF WorkerEnds, EndGet, EndPut, Ring, At, Busy, Puts, Opens
<1>2. e \in Lawful /\ r \in Run /\ copy[d][r] \in File
  BY <1>1, AtWork DEF Busy, File
<1>3. /\ \A c \in Device : c # d => active'[c] = active[c]
      /\ \A q \in Run : q # r => active'[d][q] = active[d][q]
  <2>1. UNCHANGED active \/ active' = [active EXCEPT ![d][r] = 0]
    BY DEF WorkerEnds, EndGet, EndPut, Ring
  <2>2. active \in [Device -> [Run -> 0 .. Slots]]
    BY DEF RInv, Typed
  <2> QED
    BY <1>2, <2>1, <2>2
<1>4. \E f \in Lawful : /\ Becomes(d, s, f) /\ (f.phase # "free" => f.run = r)
                        /\ f.phase \notin {"working", "hung"}
  <2>1. CASE WorkerEnds(d, s)
    <3>1. PICK end \in {"ok", "error", "gaveUp"} :
            Becomes(d, s, [e EXCEPT !.phase = "settling", !.end = end])
      BY <2>1 DEF WorkerEnds
    <3> DEFINE f == [e EXCEPT !.phase = "settling", !.end = end]
    <3>2. f \in Lawful /\ f.run = r /\ f.phase = "settling"
      BY <1>2 DEF Lawful, Execution, Phases, Ends
    <3> QED
      BY <3>1, <3>2
  <2>2. CASE EndGet(d, s)
    <3> DEFINE current == copy[d][r]
               end == HowItEnds(e, current)
               refused == IF end = "running" THEN ~MayRetake(current) ELSE ~MayMove(current, end)
               putting == [e EXCEPT !.phase = "putting", !.end = end, !.read = current]
    <3>1. end \in {"cancelled", "failed", "done", "running"}
      BY DEF HowItEnds
    <3>2. Becomes(d, s, IF refused THEN AfterEnd(e, end) ELSE putting)
      BY <2>2 DEF EndGet, Here
    <3>3. current # Absent
      BY <1>1, AtWork DEF Busy
    <3> HIDE DEF end
    <3>4. ~refused => putting \in Lawful /\ putting.run = r /\ putting.phase = "putting"
      BY <1>2, <3>1, <3>3 DEF Lawful, Execution, Phases, Ends, File
    <3>5. CASE refused
      <4>1. Becomes(d, s, AfterEnd(e, end))
        BY <3>2, <3>5
      <4>2. CASE end = "running"
        <5>1. AfterEnd(e, end) = Free
          BY <4>2 DEF AfterEnd
        <5> QED
          BY <4>1, <5>1, FreeIs
      <4>3. CASE end # "running"
        BY <1>2, <3>1, <4>1, <4>3, AfterEndIs, AfterEndRests
      <4> QED
        BY <4>2, <4>3
    <3>6. CASE ~refused
      BY <3>2, <3>4, <3>6
    <3> QED
      BY <3>5, <3>6
  <2>3. CASE EndPut(d, s)
    <3>1. e.end = "running" \/ e.end \in {"cancelled", "failed", "done"}
      BY <1>2, <2>3 DEF EndPut, At, Lawful
    <3>2. CASE e.end = "running"
      <4> DEFINE f == [Free EXCEPT !.run = r, !.phase = "begin"]
      <4>1. Becomes(d, s, f)
        BY <2>3, <3>2 DEF EndPut
      <4>2. f \in Lawful /\ f.run = r /\ f.phase = "begin"
        BY <1>2, FreeIs DEF Free
      <4> QED
        BY <4>1, <4>2
    <3>3. CASE e.end # "running"
      <4>1. Becomes(d, s, AfterEnd(e, e.end))
        BY <2>3, <3>3 DEF EndPut
      <4> QED
        BY <1>2, <3>1, <3>3, <4>1, AfterEndIs, AfterEndRests
    <3> QED
      BY <3>2, <3>3
  <2>4. CASE Ring(d, s)
    BY <2>4, FreeIs DEF Ring
  <2> QED
    BY <2>1, <2>2, <2>3, <2>4
<1> QED
  BY <1>1, <1>3, <1>4, ExecOne

\* A process that comes up again has no execution at all.
LEMMA RestartOne ==
  ASSUME RInv, OneInv, NEW d \in Device, Restart(d)
  PROVE  OneInv'
<1> DEFINE idle == [s \in Slot |-> Free]
           none == [r \in Run |-> 0]
<1>1. /\ exec' = [exec EXCEPT ![d] = idle] /\ active' = [active EXCEPT ![d] = none]
      /\ windows \subseteq windows'
  BY DEF Restart, Opens
<1>2. \A s \in Slot : idle[s].phase = "free"
  BY FreeIs
<1> HIDE DEF idle, none
<1>3. SUFFICES ASSUME "gap" \notin windows', NEW c \in Device PROVE Single(c)' /\ Listed(c)'
  BY DEF OneInv
<1>4. Single(c) /\ Listed(c)
  BY <1>1, <1>3 DEF OneInv
<1>5. CASE c = d
  <2>1. \A s \in Slot : exec'[c][s].phase = "free"
    BY <1>1, <1>2, <1>5 DEF RInv, Typed
  <2> QED
    BY <2>1 DEF Single, Listed, Busy, AtItsWork
<1>6. CASE c # d
  <2>1. exec'[c] = exec[c] /\ active'[c] = active[c]
    BY <1>1, <1>6 DEF RInv, Typed
  <2> QED
    BY <1>4, <2>1 DEF Single, Listed, Busy, AtItsWork
<1> QED
  BY <1>5, <1>6

LEMMA InitOne == Init => OneInv
<1> SUFFICES ASSUME Init, NEW d \in Device PROVE Single(d) /\ Listed(d)
  BY DEF OneInv
<1>1. \A s \in Slot : exec[d][s].phase = "free"
  BY FreeIs DEF Init
<1> QED
  BY <1>1 DEF Single, Listed, Busy, AtItsWork

LEMMA NextOne == RInv /\ OneInv /\ [Next]_vars => OneInv'
<1> SUFFICES ASSUME RInv, OneInv, [Next]_vars PROVE OneInv'
  OBVIOUS
<1>1. CASE UNCHANGED vars
  BY <1>1, StillOne DEF vars, Still
<1>2. CASE Next
  <2>1. PICK d \in setting.present :
          \/ \E r \in Run : CreateGet(d, r) \/ CancelGet(d, r) \/ DeliverGet(d, r)
          \/ AskPut(d) \/ PollStep(d) \/ SyncStep(d)
          \/ \E s \in Slot : ExecStep(d, s) \/ ReportGet(d, s) \/ Hangs(d, s)
          \/ Restart(d)
    BY <1>2 DEF Next
  <2>2. d \in Device
    BY RunnerAssumption DEF RInv, Typed
  <2>3. CASE (\E r \in Run : CreateGet(d, r) \/ CancelGet(d, r) \/ DeliverGet(d, r))
             \/ AskPut(d) \/ SyncStep(d)
    BY <2>2, <2>3, OthersOne
  <2>4. CASE PollStep(d)
    <3>1. CASE Tick(d)
      BY <2>2, <3>1, OthersOne
    <3>2. ASSUME NEW item \in poll[d], Start(d, item) PROVE OneInv'
      <4>1. Starts(d, item) \/ StandsBack(d, item)
        BY <3>2 DEF Start
      <4> QED
        BY <2>2, <3>2, <4>1, StartOne, OthersOne
    <3> QED
      BY <2>4, <3>1, <3>2 DEF PollStep
  <2>5. ASSUME NEW s \in Slot, ExecStep(d, s) \/ ReportGet(d, s) \/ Hangs(d, s)
        PROVE  OneInv'
    BY <2>2, <2>5, BeginOne, WorkOne, EndOne DEF ExecStep
  <2>6. CASE Restart(d)
    BY <2>2, <2>6, RestartOne
  <2> QED
    BY <2>1, <2>3, <2>4, <2>5, <2>6
<1> QED
  BY <1>1, <1>2

(***************************************************************************)
(* Whatever restarts, cancellations, silences and other devices' writes    *)
(* come between, a device has one execution of a run at work, or about to  *)
(* be, as long as it never took a run over while an execution of it was    *)
(* under way but not in the map (runner.ts:209-262 and 327).               *)
(***************************************************************************)
THEOREM OneAtATime == Spec => []OneExecution
<1>1. OneInv => OneExecution
  <2> SUFFICES ASSUME OneInv, "gap" \notin windows, NEW d \in Device, NEW r \in Run
               PROVE  Cardinality({s \in Slot : exec[d][s].run = r /\
                                     exec[d][s].phase \in {"begin", "working", "hung"}}) <= 1
    BY DEF OneExecution
  <2> DEFINE S == {s \in Slot : exec[d][s].run = r /\
                     exec[d][s].phase \in {"begin", "working", "hung"}}
  <2>1. \A s, t \in S : s = t
    BY DEF OneInv, Single, Busy
  <2> HIDE DEF S
  <2>2. CASE S = {}
    BY <2>2, FS_EmptySet DEF S
  <2>3. ASSUME NEW s \in S PROVE Cardinality(S) <= 1
    <3>1. S = {s}
      BY <2>1, <2>3
    <3>2. Cardinality({s}) = 1
      BY FS_Singleton
    <3> QED
      BY <3>1, <3>2
  <2> QED
    BY <2>2, <2>3 DEF S
<1>2. RInv /\ OneInv /\ [Next]_vars => OneInv'
  BY NextOne
<1> QED
  BY <1>1, <1>2, InitOne, RAlways, PTL DEF Spec
=============================================================================
