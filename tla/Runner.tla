------------------------------- MODULE Runner -------------------------------
(***************************************************************************)
(* Background runs of one kind on the devices of one account               *)
(* (src/legion/runner/runner.ts over run/store.ts and schedule/due.ts).    *)
(*                                                                         *)
(* A run is a file that every device may write and the sync engine         *)
(* mirrors. A device polls: it takes the pending runs of a kind it was     *)
(* elected for, takes over those that were left running, and executes them *)
(* in the background, several awaits apart from the poll. Every operation  *)
(* of the store is a get and, later, a put of the whole file: nothing      *)
(* holds the file in between, neither against the device's other loops nor *)
(* against a sync pass.                                                    *)
(*                                                                         *)
(* The engine is SyncFile's subject: here a pass over a run file uploads   *)
(* in one step, and downloads or merges what it read a step earlier.       *)
(* Claims and elections are the module Claims' subject: until the claims  *)
(* have settled a device may believe anything about who is elected and who *)
(* has forfeited. Workers are external. The get and the put of a start     *)
(* are one step, and so are a tick's look at the cancellations and at the  *)
(* runs. Local runs and the cascade to child runs are not modelled.        *)
(***************************************************************************)
EXTENDS RunLattice, FiniteSets

CONSTANTS
  Run,          \* runs of one kind
  Device,       \* numbers, in the order of the device ids
  PerKind,      \* DEFAULT_PER_KIND
  MaxAttempts,  \* MAX_ATTEMPTS
  Maker,        \* the device each run is delegated on
  Setting,      \* who is there, who stays, who is elected, and how much befalls them
  None, Absent, NoHash,
  Slots,        \* bound: executions a device can have under way
  MaxRevision,  \* bound: writes of one run file
  MaxRev        \* bound: publications of one run file

ASSUME RunnerAssumption ==
  /\ Device \subseteq Nat \ {0}
  /\ {PerKind, MaxAttempts, Slots} \subseteq Nat \ {0}
  /\ {MaxRevision, MaxRev} \subseteq Nat
  /\ Maker \in [Run -> Device]
  /\ \A c \in Setting :
       /\ c.present \subseteq Device /\ c.alive \subseteq c.present
       /\ c.elected \in c.alive /\ c.troubles \in Nat
  /\ None \notin Run /\ Absent # NoHash /\ {Absent, NoHash} \cap Record = {}
  /\ Absent \notin [rev : Nat, hash : Record]

R == INSTANCE Reconcile WITH Hash <- Record

VARIABLES
  copy,      \* the run file on each device, or Absent
  snap,      \* the engine's snapshot entry of it
  mirror,    \* the remote entry
  sync,      \* the pass of each device over one run file
  poll,      \* the tick that is under way
  active,    \* the runner's map: the execution it holds for a run, or 0
  exec,      \* the executions of each device
  ask,       \* a create, cancel or markDelivered between its get and its put
  reclaimed, \* the process has taken back what its last life left running
  setting,   \* the setting of this behaviour
  bells,     \* the bells rung
  windows,   \* history: the named windows that something went through
  troubles   \* asks, reports and faults so far

vars == <<copy, snap, mirror, sync, poll, active, exec, ask, reclaimed,
          setting, bells, windows, troubles>>

files == <<copy, snap, mirror, sync>>
process == <<poll, active, exec, ask, reclaimed>>
world == <<setting, bells>>

Slot == 1 .. Slots
MaybeRun == Run \cup {None}
File == Record \cup {Absent}
Entry == {Absent} \cup [rev : Nat, hash : Record]

(***************************************************************************)
(* An execution: its run, the entry's cancelling flag, the record its put  *)
(* in flight stands on, and how the try ends.                              *)
(***************************************************************************)
Phases == {"free", "begin", "working", "hung", "settling", "putting", "ringing"}
Ends == {"none", "ok", "error", "gaveUp", "running", "cancelled", "failed", "done"}
Execution == [run : MaybeRun, phase : Phases, stopping : BOOLEAN,
              read : File, end : Ends]
Free == [run |-> None, phase |-> "free", stopping |-> FALSE,
         read |-> Absent, end |-> "none"]

Due == [run : Run, action : {"take", "retake"}]

Ask == [run : MaybeRun, op : {"create", "cancel", "deliver"}, read : File]
NoAsk == [run |-> None, op |-> "create", read |-> Absent]

Pass == [run : MaybeRun, rev : Nat, read : File, listed : Entry]
NoPass == [run |-> None, rev |-> 0, read |-> Absent, listed |-> Absent]

(***************************************************************************)
(* The windows: a write stood on a file or a listing that was gone by then *)
(* (overlap), and put the remote back to a lower rev (regress); a run was  *)
(* taken over here while an execution of it was not in the map: before its *)
(* worker starts, or after it ended (gap); the process died between the    *)
(* terminal write and the bell (silence).                                  *)
(***************************************************************************)
Windows == {"overlap", "regress", "gap", "silence"}
When(window, condition) == IF condition THEN {window} ELSE {}
Opens(through) == windows' = windows \cup through

TypeOK ==
  /\ copy \in [Device -> [Run -> File]]
  /\ snap \in [Device -> [Run -> Entry]] /\ mirror \in [Run -> Entry]
  /\ sync \in [Device -> Pass] /\ poll \in [Device -> SUBSET Due]
  /\ active \in [Device -> [Run -> 0 .. Slots]]
  /\ exec \in [Device -> [Slot -> Execution]]
  /\ ask \in [Device -> Ask] /\ reclaimed \in [Device -> BOOLEAN]
  /\ setting \in Setting /\ bells \subseteq {"done", "failed"} \X Run
  /\ windows \subseteq Windows /\ troubles \in 0 .. setting.troubles

Init ==
  /\ copy = [d \in Device |-> [r \in Run |-> IF Maker[r] = d THEN Created(d) ELSE Absent]]
  /\ snap = [d \in Device |-> [r \in Run |-> Absent]] /\ mirror = [r \in Run |-> Absent]
  /\ sync = [d \in Device |-> NoPass] /\ poll = [d \in Device |-> {}]
  /\ active = [d \in Device |-> [r \in Run |-> 0]]
  /\ exec = [d \in Device |-> [s \in Slot |-> Free]]
  /\ ask = [d \in Device |-> NoAsk] /\ reclaimed = [d \in Device |-> TRUE]
  /\ setting \in Setting /\ bells = {} /\ windows = {} /\ troubles = 0

\* The bound on what a behaviour goes through: asks, reports and faults.
Trouble == troubles < setting.troubles /\ troubles' = troubles + 1

-----------------------------------------------------------------------------
(***************************************************************************)
(* The file. A put stands on the record its get returned.                  *)
(***************************************************************************)
Here(d, r) == copy[d][r]
IsRunning(d, r) == Here(d, r) # Absent /\ Here(d, r).state = "running"

Writes(d, r, run) ==
  /\ run.revision <= MaxRevision
  /\ copy' = [copy EXCEPT ![d][r] = run]
  /\ UNCHANGED <<snap, mirror, sync>>

Puts(d, r, read, run) == Writes(d, r, run) /\ Opens(When("overlap", Here(d, r) # read))

-----------------------------------------------------------------------------
(***************************************************************************)
(* delegate, cancel, and the mark an acknowledged bell leaves.             *)
(***************************************************************************)
Idle(d) == ask[d] = NoAsk

CreateGet(d, r) ==
  /\ Idle(d) /\ Trouble /\ Here(d, r) = Absent
  /\ ask' = [ask EXCEPT ![d] = [run |-> r, op |-> "create", read |-> Absent]]
  /\ UNCHANGED <<files, poll, active, exec, reclaimed, world, windows>>

\* cancelOne goes on to tell the worker, whatever the store did.
Told(d, r) ==
  exec' = [exec EXCEPT ![d] = [s \in Slot |->
             IF s = active[d][r] THEN [exec[d][s] EXCEPT !.stopping = TRUE]
             ELSE exec[d][s]]]

CancelGet(d, r) ==
  /\ Idle(d) /\ Trouble /\ Here(d, r) # Absent
  /\ IF MayCancel(Here(d, r))
     THEN /\ ask' = [ask EXCEPT ![d] = [run |-> r, op |-> "cancel", read |-> Here(d, r)]]
          /\ UNCHANGED exec
     ELSE Told(d, r) /\ UNCHANGED ask
  /\ UNCHANGED <<files, poll, active, reclaimed, world, windows>>

DeliverGet(d, r) ==
  /\ Idle(d) /\ Trouble /\ Here(d, r) # Absent /\ MayDeliver(Here(d, r))
  /\ \E bell \in bells : bell[2] = r
  /\ ask' = [ask EXCEPT ![d] = [run |-> r, op |-> "deliver", read |-> Here(d, r)]]
  /\ UNCHANGED <<files, poll, active, exec, reclaimed, world, windows>>

AskPut(d) ==
  /\ ~Idle(d)
  /\ LET a == ask[d] IN
     \/ /\ a.op = "create" /\ Puts(d, a.run, Absent, Created(d)) /\ UNCHANGED exec
     \/ /\ a.op = "cancel" /\ Puts(d, a.run, a.read, CancelAsked(a.read, d)) /\ Told(d, a.run)
     \/ /\ a.op = "deliver" /\ Puts(d, a.run, a.read, Delivered(a.read, d, 1)) /\ UNCHANGED exec
  /\ ask' = [ask EXCEPT ![d] = NoAsk]
  /\ UNCHANGED <<poll, active, reclaimed, world, troubles>>

-----------------------------------------------------------------------------
(***************************************************************************)
(* The poll. A device believes that it holds the kind, or not (mine), that *)
(* some claimants have forfeited (lapsed), and that some of its own runs   *)
(* have not reported for stallMs (silent).                                 *)
(***************************************************************************)
Holds(d, r) == IsRunning(d, r) /\ Here(d, r).claimant = d
Executing(d, r) == \E s \in Slot : exec[d][s].run = r
Beginning(d, r) == \E s \in Slot : exec[d][s].run = r /\ exec[d][s].phase = "begin"
Others(d) == {Here(d, r).claimant : r \in {q \in Run : IsRunning(d, q) /\ ~Holds(d, q)}}

Taking(rs, action) == [run : rs, action : {action}]

\* Mutant of DueRuns: only this device's own runs are taken over.
DueOwnRuns(d, mine, lapsed, silent) ==
  Taking({r \in Run : mine /\ Here(d, r) # Absent /\ Here(d, r).state = "pending"}, "take")
  \cup Taking({r \in Run : Holds(d, r) /\ r \in silent}, "retake")

DueRuns(d, mine, lapsed, silent) ==
  Taking({r \in Run : mine /\ Here(d, r) # Absent /\ Here(d, r).state = "pending"}, "take")
  \cup Taking({r \in Run : \/ Holds(d, r) /\ r \in silent
                           \/ mine /\ IsRunning(d, r) /\ Here(d, r).claimant \in lapsed}, "retake")

ReclaimAfterRestart(d) == Taking({r \in Run : Holds(d, r)}, "retake")

\* What is due, less what the map holds.
ToStart(d, mine, lapsed, silent) ==
  {item \in DueRuns(d, mine, lapsed, silent)
              \cup IF reclaimed[d] THEN {} ELSE ReclaimAfterRestart(d) :
     active[d][item.run] = 0}

\* Mutant of NoticeCancellations: the worker is not told.
NoticeNothing(d) == UNCHANGED exec

NoticeCancellations(d) ==
  exec' = [exec EXCEPT ![d] = [s \in Slot |->
    LET r == exec[d][s].run IN
    IF r # None /\ active[d][r] = s /\ Here(d, r).cancel
    THEN [exec[d][s] EXCEPT !.stopping = TRUE] ELSE exec[d][s]]]

\* One step up to the list of what to start; starting it takes longer.
Look(d, due) ==
  /\ poll[d] = {} /\ poll' = [poll EXCEPT ![d] = due]
  /\ NoticeCancellations(d)
  /\ reclaimed' = [reclaimed EXCEPT ![d] = TRUE]
  /\ UNCHANGED <<files, active, ask, world, windows>>

(***************************************************************************)
(* Believing what the settled claims say is free, for a device that will   *)
(* leave also that it is elected, and so is finding a run silent that      *)
(* nobody executes here. A list that owes something to any other belief is *)
(* a trouble. A run that is about to begin was claimed a moment ago and is *)
(* not silent.                                                             *)
(***************************************************************************)
Owed(d) ==
  ToStart(d, d = setting.elected \/ d \notin setting.alive, Others(d) \ setting.alive,
          {r \in Run : ~Executing(d, r)})

TickInTime(d) == Look(d, Owed(d)) /\ UNCHANGED troubles

Lists(d) ==
  {ToStart(d, mine, lapsed, silent) : mine \in BOOLEAN, lapsed \in SUBSET Others(d),
                                      silent \in SUBSET {r \in Run : Holds(d, r) /\ ~Beginning(d, r)}}

Tick(d) ==
  \E due \in Lists(d) :
    /\ Look(d, due)
    /\ IF due \subseteq Owed(d) THEN UNCHANGED troubles ELSE Trouble

OfKind(d) == Cardinality({r \in Run : active[d][r] # 0})
Refused(run, action) ==
  IF action = "take" THEN ~MayMove(run, "running") ELSE ~MayRetake(run)

(***************************************************************************)
(* The transition or the take-over, on the file of now, and the execution  *)
(* that nobody waits for. It enters the map later, at Begin.               *)
(***************************************************************************)
Starts(d, item) ==
  LET r == item.run IN
  /\ active[d][r] = 0 /\ OfKind(d) < PerKind
  /\ ~Refused(Here(d, r), item.action)
  /\ Writes(d, r, IF item.action = "take" THEN Started(Here(d, r), d)
                  ELSE Retaken(Here(d, r), d))
  /\ Opens(When("gap", \E s \in Slot : /\ exec[d][s].run = r
                                       /\ exec[d][s].phase \notin {"working", "hung"}))
  /\ \E s \in Slot :
       /\ exec[d][s] = Free /\ \A t \in Slot : exec[d][t] = Free => s <= t
       /\ exec' = [exec EXCEPT ![d][s] = [Free EXCEPT !.run = r, !.phase = "begin"]]

StandsBack(d, item) ==
  LET r == item.run IN
  /\ active[d][r] # 0 \/ OfKind(d) >= PerKind \/ Refused(Here(d, r), item.action)
  /\ UNCHANGED <<files, exec, windows>>

Start(d, item) ==
  /\ item \in poll[d] /\ poll' = [poll EXCEPT ![d] = poll[d] \ {item}]
  /\ Starts(d, item) \/ StandsBack(d, item)
  /\ UNCHANGED <<active, ask, reclaimed, world, troubles>>

PollStep(d) ==
  \/ Tick(d)
  \/ \E item \in poll[d] : Start(d, item)

-----------------------------------------------------------------------------
(***************************************************************************)
(* execute.                                                                *)
(***************************************************************************)
At(d, s, phase) == exec[d][s].phase = phase
Becomes(d, s, e) == exec' = [exec EXCEPT ![d][s] = e]
Keeps == UNCHANGED <<poll, ask, reclaimed, world>>

\* Mutant of Begin: the execution does not enter the map.
BeginUnlisted(d, s) ==
  /\ At(d, s, "begin")
  /\ LET e == exec[d][s] IN
     Becomes(d, s, IF IsRunning(d, e.run)
                   THEN [Free EXCEPT !.run = e.run, !.phase = "working"] ELSE Free)
  /\ UNCHANGED <<files, active, windows, troubles>> /\ Keeps

Begin(d, s) ==
  /\ At(d, s, "begin")
  /\ LET e == exec[d][s] IN
     IF IsRunning(d, e.run)
     THEN /\ Becomes(d, s, [Free EXCEPT !.run = e.run, !.phase = "working"])
          /\ active' = [active EXCEPT ![d][e.run] = s]
     ELSE Becomes(d, s, Free) /\ UNCHANGED active
  /\ UNCHANGED <<files, windows, troubles>> /\ Keeps

ReportGet(d, s) ==
  /\ At(d, s, "working") /\ exec[d][s].read = Absent
  /\ Trouble
  /\ Becomes(d, s, [exec[d][s] EXCEPT !.read = Here(d, exec[d][s].run)])
  /\ UNCHANGED <<files, active, windows>> /\ Keeps

ReportPut(d, s) ==
  /\ At(d, s, "working") \/ At(d, s, "hung") \/ At(d, s, "settling")
  /\ LET e == exec[d][s] IN
     /\ e.read # Absent
     /\ Puts(d, e.run, e.read, Reported(e.read, d))
     /\ Becomes(d, s, [e EXCEPT !.read = Absent])
  /\ UNCHANGED <<active, troubles>> /\ Keeps

Hangs(d, s) ==
  /\ At(d, s, "working") /\ Trouble
  /\ Becomes(d, s, [exec[d][s] EXCEPT !.phase = "hung"])
  /\ UNCHANGED <<files, active, windows>> /\ Keeps

\* Whichever execution the map holds for the run goes out of it.
WorkerEnds(d, s) ==
  /\ At(d, s, "working")
  /\ \E end \in {"ok", "error", "gaveUp"} :
       /\ IF end = "ok" THEN UNCHANGED troubles ELSE Trouble
       /\ Becomes(d, s, [exec[d][s] EXCEPT !.phase = "settling", !.end = end])
  /\ active' = [active EXCEPT ![d][exec[d][s].run] = 0]
  /\ UNCHANGED <<files, windows>> /\ Keeps

HowItEnds(e, current) ==
  IF e.stopping \/ current.cancel THEN "cancelled"
  ELSE IF e.end = "ok" THEN "done"
  ELSE IF e.end = "gaveUp" \/ current.attempts >= MaxAttempts THEN "failed"
  ELSE "running"

\* Mutants of AfterEnd: a bell for any end; no bell for a failure.
AfterAnyEnd(e, end) == [e EXCEPT !.phase = "ringing", !.read = Absent, !.end = end]
AfterDone(e, end) ==
  IF end = "done" THEN [e EXCEPT !.phase = "ringing", !.read = Absent, !.end = end]
  ELSE Free

AfterEnd(e, end) ==
  IF end \in {"done", "failed"}
  THEN [e EXCEPT !.phase = "ringing", !.read = Absent, !.end = end]
  ELSE Free

(***************************************************************************)
(* The reports have landed; the file says how the run ends, and is read    *)
(* again by the transition, which may refuse.                              *)
(***************************************************************************)
EndGet(d, s) ==
  /\ At(d, s, "settling") /\ exec[d][s].read = Absent
  /\ LET e       == exec[d][s]
         current == Here(d, e.run)
         end     == HowItEnds(e, current)
         refused == IF end = "running" THEN ~MayRetake(current) ELSE ~MayMove(current, end)
     IN Becomes(d, s, IF refused THEN AfterEnd(e, end)
                      ELSE [e EXCEPT !.phase = "putting", !.end = end, !.read = current])
  /\ UNCHANGED <<files, active, windows, troubles>> /\ Keeps

EndPut(d, s) ==
  /\ At(d, s, "putting")
  /\ LET e == exec[d][s] IN
     IF e.end = "running"
     THEN /\ Puts(d, e.run, e.read, Retaken(e.read, d))
          /\ Becomes(d, s, [Free EXCEPT !.run = e.run, !.phase = "begin"])
     ELSE /\ Puts(d, e.run, e.read, Ended(e.read, e.end, d))
          /\ Becomes(d, s, AfterEnd(e, e.end))
  /\ UNCHANGED <<active, troubles>> /\ Keeps

Ring(d, s) ==
  /\ At(d, s, "ringing")
  /\ bells' = bells \cup {<<exec[d][s].end, exec[d][s].run>>}
  /\ Becomes(d, s, Free)
  /\ UNCHANGED <<files, active, poll, ask, reclaimed, setting, windows, troubles>>

ExecStep(d, s) ==
  \/ Begin(d, s) \/ ReportPut(d, s) \/ WorkerEnds(d, s)
  \/ EndGet(d, s) \/ EndPut(d, s) \/ Ring(d, s)

-----------------------------------------------------------------------------
(***************************************************************************)
(* A sync pass over one run file: what it found, and what it makes of it.  *)
(***************************************************************************)
Planned(d, r) == R!Decide(Here(d, r), FALSE, mirror[r], snap[d][r], FALSE)

Entered(d, r, rev, run) == snap' = [snap EXCEPT ![d][r] = [rev |-> rev, hash |-> run]]
Pushed(r, rev, run) == mirror' = [mirror EXCEPT ![r] = [rev |-> rev, hash |-> run]]

SyncRead(d, r) ==
  /\ sync[d] = NoPass
  /\ \E plan \in {Planned(d, r)} :
        /\ plan.rev <= MaxRev
        /\ \/ /\ plan.kind = "converged"
              /\ Entered(d, r, plan.rev, Here(d, r)) /\ UNCHANGED <<sync, mirror>>
           \/ /\ plan.kind = "upload"
              /\ Entered(d, r, plan.rev, Here(d, r)) /\ Pushed(r, plan.rev, Here(d, r))
              /\ UNCHANGED sync
           \/ /\ plan.kind \in {"download", "merge", "mergeNoBase"}
              /\ sync' = [sync EXCEPT ![d] =
                   [run |-> r, rev |-> plan.rev, read |-> Here(d, r), listed |-> mirror[r]]]
              /\ UNCHANGED <<snap, mirror>>
  /\ UNCHANGED <<copy, process, world, windows, troubles>>

\* A download's rev is the remote's, a merge's is above it.
SyncWrite(d) ==
  /\ sync[d] # NoPass
  /\ LET p      == sync[d]
         merges == p.rev > p.listed.rev
         out    == IF merges THEN Join(p.read, p.listed.hash) ELSE p.listed.hash
     IN /\ copy' = [copy EXCEPT ![d][p.run] = out]
        /\ Entered(d, p.run, p.rev, out)
        /\ IF merges THEN Pushed(p.run, p.rev, out) ELSE UNCHANGED mirror
        /\ Opens(When("overlap", \/ Here(d, p.run) # p.read
                                 \/ (merges /\ mirror[p.run] # p.listed))
                 \cup When("regress", merges /\ R!Rev(mirror[p.run]) > p.rev))
  /\ sync' = [sync EXCEPT ![d] = NoPass]
  /\ UNCHANGED <<process, world, troubles>>

SyncStep(d) == SyncWrite(d) \/ \E r \in Run : SyncRead(d, r)

-----------------------------------------------------------------------------
(* The process dies and comes up again.                                    *)
(***************************************************************************)
Restart(d) ==
  /\ Trouble
  /\ Opens(When("silence", \E s \in Slot : exec[d][s].phase = "ringing"))
  /\ sync' = [sync EXCEPT ![d] = NoPass]
  /\ poll' = [poll EXCEPT ![d] = {}]
  /\ active' = [active EXCEPT ![d] = [r \in Run |-> 0]]
  /\ exec' = [exec EXCEPT ![d] = [s \in Slot |-> Free]]
  /\ ask' = [ask EXCEPT ![d] = NoAsk]
  /\ reclaimed' = [reclaimed EXCEPT ![d] = FALSE]
  /\ UNCHANGED <<copy, snap, mirror, world>>

Next ==
  \E d \in setting.present :
    \/ \E r \in Run : CreateGet(d, r) \/ CancelGet(d, r) \/ DeliverGet(d, r)
    \/ AskPut(d) \/ PollStep(d) \/ SyncStep(d)
    \/ \E s \in Slot : ExecStep(d, s) \/ ReportGet(d, s) \/ Hangs(d, s)
    \/ Restart(d)

Spec == Init /\ [][Next]_vars

(***************************************************************************)
(* The timer polls and passes run again and again, an await comes back and *)
(* a worker that does not hang ends, on the devices that stay.             *)
(***************************************************************************)
Stays(d) == d \in setting.alive
Fairness ==
  \A d \in Device :
    /\ WF_process(Stays(d) /\ PollStep(d)) /\ WF_process(Stays(d) /\ TickInTime(d))
    /\ WF_process(Stays(d) /\ AskPut(d)) /\ WF_files(Stays(d) /\ SyncStep(d))
    /\ \A s \in Slot : WF_process(Stays(d) /\ ExecStep(d, s))
FairSpec == Spec /\ Fairness

-----------------------------------------------------------------------------
(***************************************************************************)
(* Wherever it is, a run's file only climbs the lattice: no take-over, end *)
(* or report of one device and no pass takes anything back that another    *)
(* wrote (store.ts and merge.ts:28-39), except through an overlap.         *)
(***************************************************************************)
CopiesClimb ==
  [][\A d \in Device, r \in Run :
       \/ copy[d][r] = Absent \/ Below(copy[d][r], copy'[d][r])
       \/ "overlap" \in windows']_vars

(***************************************************************************)
(* A device works on a run once at a time (the active map,                 *)
(* runner.ts:327), except after a take-over in the gap.                    *)
(***************************************************************************)
OneExecution ==
  \A d \in Device, r \in Run :
    \/ Cardinality({s \in Slot : exec[d][s].run = r /\
                      exec[d][s].phase \in {"begin", "working", "hung"}}) <= 1
    \/ "gap" \in windows

(***************************************************************************)
(* The doc's limit: a run is not tried more often than MAX_ATTEMPTS        *)
(* (types.ts:115-119).                                                     *)
(***************************************************************************)
AttemptsBounded ==
  \A d \in Device, r \in Run : copy[d][r] # Absent => copy[d][r].attempts <= MaxAttempts

(***************************************************************************)
(* A worker is told of a cancellation its device's file carries            *)
(* (noticeCancellations, runner.ts:358-364), though it never ends itself.  *)
(***************************************************************************)
CancelIsTold ==
  \A d \in Device, s \in Slot :
    At(d, s, "hung") /\ Stays(d) /\ Here(d, exec[d][s].run).cancel
      ~> ~At(d, s, "hung") \/ exec[d][s].stopping
         \/ ~Here(d, exec[d][s].run).cancel \/ "gap" \in windows

\* A bound of the model, or a remote put back, ends a behaviour early.
CutShort ==
  \/ "regress" \in windows
  \/ \E r \in Run : R!Rev(mirror[r]) = MaxRev
  \/ \E d \in Device, r \in Run : copy[d][r] # Absent /\ Here(d, r).revision = MaxRevision

(***************************************************************************)
(* Every run ends on every device that stays, whoever leaves and restarts, *)
(* unless a worker of it hangs there.                                      *)
(***************************************************************************)
RunsEnd ==
  <>[](\A r \in Run, d \in setting.alive :
        \/ copy[d][r] = Absent
        \/ IsTerminal(copy[d][r].state)
        \/ \E e \in setting.alive, s \in Slot : At(e, s, "hung")
        \/ CutShort)

(***************************************************************************)
(* A run that ended done or failed is announced, unless the process died   *)
(* before the bell (runner.ts:274-294) or its device is gone.              *)
(***************************************************************************)
EndsRing ==
  <>[](\A r \in Run, d \in setting.alive :
        copy[d][r] # Absent /\ copy[d][r].state \in {"failed", "done"} =>
          \/ <<copy[d][r].state, r>> \in bells \/ "silence" \in windows \/ CutShort
          \/ \E e \in setting.present \ setting.alive, s \in Slot : At(e, s, "ringing"))
=============================================================================
