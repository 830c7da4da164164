------------------------------- MODULE Claims -------------------------------
(***************************************************************************)
(* Which device does the work: every device writes one claim, its own, the *)
(* sync carries it, and each device elects from the claims it holds        *)
(* (src/legion/claim/writer.ts and elect.ts, as info's collector session   *)
(* drives them, src/info/program/presence.ts and live.ts).                 *)
(*                                                                         *)
(* A claim is the time it was taken at, or 0, and whether its heartbeat is *)
(* young enough. A publication decides in one step and writes in a later   *)
(* one; a start decides at once, and sets its timer as it has written.     *)
(* A pass of the sync reads the remote as it begins and uploads as it      *)
(* ends, when the writer hears of it: a claim has one writer and is never  *)
(* merged. One kind of work, which every device can do; that an answer is  *)
(* held for a minute and passes that fail are left out.                    *)
(***************************************************************************)
EXTENDS Naturals, FiniteSets

CONSTANTS
  Device,      \* numbers, in the order of the device ids
  MaxClock,    \* bound: times that are told apart
  MaxActs,     \* bound: changes of a setting, and runs ending on a stopped machine
  MaxFaults,   \* bound: deaths, and days asleep
  MaxEvents,   \* bound: acts and faults together
  MaxCalls,    \* bound: publications of a writer that are under way, but for a setting's
  Mortal       \* bound: the devices that may die, or sleep for a day

ASSUME ClaimsAssumption ==
  /\ Device \subseteq Nat \ {0} /\ MaxClock \in Nat \ {0}
  /\ {MaxActs, MaxFaults, MaxEvents, MaxCalls} \subseteq Nat
  /\ Mortal \subseteq Device

VARIABLES
  clock,
  setting,  \* collector ("on"), without background work ("off"), or "reader"
  up,       \* the app is running
  engine,   \* the sync engine has been started
  running,  \* writer.running()
  mem,      \* the writer's claim: None, 0 (claimedAt null), or the time it was taken at
  beats,    \* the heartbeat timer is set
  waited,   \* the wait for the session's first pull is over
  calls,    \* publications between the decision and the file
  pass,     \* none, or one that has read the remote, and will upload the claim or not
  folder,   \* the claim of every device as each device has it
  mirror,   \* the claim files in the remote
  met,      \* history: the older claims in the remote when a session began to wait for
            \* a pull that was still to list, until it gives up waiting
  windows,  \* history: the named windows the standing claim went through
  acts, faults

world == <<clock, setting, up, engine>>
writer == <<running, mem, beats, waited, calls, met>>
counts == <<acts, faults>>
vars == <<world, writer, pass, folder, mirror, windows, counts>>

Time == 0 .. MaxClock
Claim == [since : Time, fresh : BOOLEAN]
NoClaim == [since |-> 0, fresh |-> TRUE]
Settings == {"on", "off", "reader"}

Publication == [allowed : BOOLEAN, first : BOOLEAN]

\* The writer's claim is null before the first start.
None == MaxClock + 1

(***************************************************************************)
(* The windows: a publication landed after the stop, or was decided under  *)
(* the setting of before (echo); a start set its timer after the stop      *)
(* (ghost); the process died between the setting and the claim (death);    *)
(* the machine slept for a day (slept).                                    *)
(***************************************************************************)
Windows == {"echo", "ghost", "death", "slept"}
When(window, condition) == IF condition THEN {window} ELSE {}
Set(f, d, value) == [f EXCEPT ![d] = value]
Opens(d, through) == windows' = Set(windows, d, windows[d] \cup through)

TypeOK ==
  /\ clock \in 1 .. MaxClock
  /\ setting \in [Device -> Settings]
  /\ {up, engine, running, beats, waited} \subseteq [Device -> BOOLEAN]
  /\ mem \in [Device -> Time \cup {None}]
  /\ calls \in [Device -> SUBSET Publication]
  /\ pass \in [Device -> {"none", "reads", "sends"}]
  /\ folder \in [Device -> [Device -> Claim]] /\ mirror \in [Device -> Claim]
  /\ met \in [Device -> SUBSET Device] /\ windows \in [Device -> SUBSET Windows]
  /\ acts \in 0 .. MaxActs /\ faults \in 0 .. MaxFaults

\* Nobody's app is running yet; the collectors have never claimed.
Init ==
  /\ clock = 1 /\ setting = [d \in Device |-> "on"]
  /\ up = [d \in Device |-> FALSE] /\ engine = up /\ running = up /\ beats = up /\ waited = up
  /\ mem = [d \in Device |-> None]
  /\ calls = [d \in Device |-> {}] /\ pass = [d \in Device |-> "none"]
  /\ mirror = [d \in Device |-> NoClaim] /\ folder = [d \in Device |-> mirror]
  /\ met = calls /\ windows = calls
  /\ acts = 0 /\ faults = 0

MayHappen == acts + faults < MaxEvents
Acts == MayHappen /\ acts < MaxActs /\ acts' = acts + 1 /\ UNCHANGED faults

Faults(d) ==
  /\ MayHappen /\ d \in Mortal
  /\ faults < MaxFaults /\ faults' = faults + 1 /\ UNCHANGED acts

-----------------------------------------------------------------------------
(***************************************************************************)
(* elect.ts.                                                               *)
(***************************************************************************)
\* Mutant of IsCandidate: a claim is good for ever.
IsCandidateForEver(claim) == claim.since # 0

IsCandidate(claim) == claim.since # 0 /\ claim.fresh

Before(claims, d, e) ==
  \/ claims[d].since < claims[e].since
  \/ claims[d].since = claims[e].since /\ d < e

IsElectedFor(claims, d) ==
  /\ IsCandidate(claims[d])
  /\ \A e \in Device \ {d} : IsCandidate(claims[e]) => Before(claims, d, e)

\* Mutant of MayClaim: nobody waits for a pull.
MayClaimAtOnce(syncing, over) == TRUE

MayClaim(syncing, over) == syncing => over

-----------------------------------------------------------------------------
(***************************************************************************)
(* writer.ts: publish.  willing() is the setting of background work, which *)
(* a reader may have on as well; when its run ends or a pass lands, a      *)
(* stopped writer publishes too.  The time is read as the file is written. *)
(***************************************************************************)
Willing(d) == setting[d] # "off"
Wants(d) == running[d] /\ setting[d] = "on"

Idle(d) == Cardinality(calls[d]) < MaxCalls

\* From its first start on the writer knows whether an engine is running.
Publishes(d, willing, syncing, over, first) ==
  calls' = Set(calls, d, calls[d] \cup
       {[allowed |-> willing /\ MayClaim(syncing, over), first |-> first]})

Taken(d, c) == IF ~c.allowed THEN 0 ELSE IF mem[d] = 0 THEN clock ELSE mem[d]

\* A claim that is given up closes the windows it came through, unless a
\* publication is still under way.
Says(d, since, through) ==
  /\ mem' = Set(mem, d, since)
  /\ folder' = [folder EXCEPT ![d][d] = [since |-> since, fresh |-> TRUE]]
  /\ windows' = Set(windows, d,
       IF since = 0 /\ calls'[d] = {} THEN (windows[d] \cup through) \cap {"ghost"}
       ELSE windows[d] \cup through)

\* The publication a start waits for is followed by the heartbeat's timer.
Lands(d, c) ==
  /\ c \in calls[d] /\ calls' = Set(calls, d, calls[d] \ {c})
  /\ beats' = Set(beats, d, beats[d] \/ c.first)
  /\ Says(d, Taken(d, c), When("echo", ~Wants(d)) \cup When("ghost", c.first /\ ~running[d]))
  /\ UNCHANGED <<world, running, waited, met, pass, mirror, counts>>

\* patch on a writer that was stopped: a run of its ended.
Patch(d) ==
  /\ mem[d] # None /\ ~running[d] /\ Idle(d) /\ Acts /\ Publishes(d, Willing(d), engine[d], waited[d], FALSE)
  /\ UNCHANGED <<world, running, mem, beats, waited, met, pass, folder, mirror, windows>>

\* The hour is over, or patch on a writer that runs.
Heartbeat(d) ==
  /\ (beats[d] \/ (running[d] /\ mem[d] # None)) /\ Idle(d)
  /\ Publishes(d, Willing(d), engine[d], waited[d], FALSE)
  /\ UNCHANGED <<world, running, mem, beats, waited, met, pass, folder, mirror, windows, counts>>

-----------------------------------------------------------------------------
(***************************************************************************)
(* writer.ts: start and stop.                                              *)
(***************************************************************************)
\* Mutant of FirstClaim: what the last session left is kept.
FirstClaimKept(d) == mem[d]

\* Mutant of FirstClaim: the claim on disk is taken up again.
FirstClaimRestored(d) == folder[d][d].since

FirstClaim(d) == 0

Older(d) == {e \in Device \ {d} : IsCandidate(mirror[e]) /\ mirror[e].since < clock}

\* The first pull to land is one that began before, or nobody waits for it,
\* where a pass is under way or the engine has not been started.
Starts(d, s, syncing) ==
  /\ running' = Set(running, d, TRUE) /\ waited' = Set(waited, d, FALSE)
  /\ met' = Set(met, d, {e \in Older(d) : syncing /\ pass[d] = "none"})
  /\ mem' = Set(mem, d, FirstClaim(d))
  /\ Publishes(d, s # "off", syncing, FALSE, TRUE)
  /\ windows' = Set(windows, d, When("echo", calls[d] # {}))
  /\ UNCHANGED <<beats, folder>>

\* Mutant of Stops: the claim is left to expire.
StopsQuietly(d) ==
  /\ running' = Set(running, d, FALSE) /\ beats' = Set(beats, d, FALSE)
  /\ UNCHANGED <<mem, waited, calls, met, folder, windows>>

Stops(d) ==
  /\ running' = Set(running, d, FALSE) /\ beats' = Set(beats, d, FALSE)
  /\ met' = Set(met, d, {}) /\ UNCHANGED <<waited, calls>>
  /\ IF mem[d] = None THEN UNCHANGED <<mem, folder, windows>> ELSE Says(d, 0, {})

(***************************************************************************)
(* live.ts refreshInfoCollector, at once on the change of a setting.       *)
(***************************************************************************)
Toggle(d, s) ==
  /\ up[d] /\ s # setting[d] /\ Acts /\ setting' = Set(setting, d, s)
  /\ \/ s = "reader" /\ running[d] /\ Stops(d)
     \/ s = "reader" /\ ~running[d] /\ UNCHANGED <<writer, folder, windows>>
     \/ s # "reader" /\ ~running[d] /\ Starts(d, s, engine[d])
     \/ /\ s # "reader" /\ running[d]
        /\ Publishes(d, s # "off", engine[d], waited[d], FALSE)
        /\ UNCHANGED <<running, mem, beats, waited, met, folder, windows>>
  /\ UNCHANGED <<clock, up, engine, pass, mirror>>

-----------------------------------------------------------------------------
(***************************************************************************)
(* The app and the sync come up side by side, and go together.             *)
(***************************************************************************)
Boot(d) ==
  /\ ~up[d] /\ up' = Set(up, d, TRUE)
  /\ \E first \in BOOLEAN :
       /\ engine' = Set(engine, d, first)
       /\ IF setting[d] = "reader" THEN UNCHANGED <<writer, folder, windows>>
          ELSE Starts(d, setting[d], first)
  /\ UNCHANGED <<clock, setting, pass, mirror, counts>>

SyncStarts(d) ==
  /\ up[d] /\ ~engine[d] /\ engine' = Set(engine, d, TRUE)
  /\ UNCHANGED <<clock, setting, up, writer, pass, folder, mirror, windows, counts>>

-----------------------------------------------------------------------------
(***************************************************************************)
(* A pass lists and downloads, and uploads what it scanned as changed. The *)
(* end of one that uploads nothing, under a writer that neither waits nor  *)
(* is held back, makes no difference.                                      *)
(***************************************************************************)
Waiting(d) == mem[d] \in {None, 0} \/ ~waited[d]

Lists(d) ==
  /\ up[d] /\ engine[d] /\ pass[d] = "none"
  /\ pass' = Set(pass, d, IF folder[d][d] # mirror[d] THEN "sends"
                          ELSE IF Waiting(d) THEN "reads" ELSE "none")
  /\ folder' = Set(folder, d, Set(mirror, d, folder[d][d]))
  /\ UNCHANGED <<world, writer, mirror, windows, counts>>

Uploads(d) ==
  /\ mirror' = Set(mirror, d, folder[d][d])
  /\ met' = [e \in Device |-> IF mirror[d].since = folder[d][d].since THEN met[e]
                              ELSE met[e] \ {d}]

\* The writer hears that a pass has landed.
Ends(d) ==
  /\ pass[d] # "none" /\ pass' = Set(pass, d, "none")
  /\ IF pass[d] = "sends" THEN Uploads(d) ELSE UNCHANGED <<mirror, met>>
  /\ waited' = Set(waited, d, waited[d] \/ mem[d] # None)
  /\ mem[d] = 0 => Idle(d)
  /\ IF mem[d] = 0 THEN Publishes(d, Willing(d), TRUE, waited'[d], FALSE) ELSE UNCHANGED calls
  /\ UNCHANGED <<world, running, mem, beats, folder, windows, counts>>

Syncs(d) == Lists(d) \/ Ends(d)

-----------------------------------------------------------------------------
Dies(d) ==
  /\ up[d] /\ Faults(d)
  /\ up' = Set(up, d, FALSE) /\ engine' = Set(engine, d, FALSE)
  /\ running' = Set(running, d, FALSE) /\ mem' = Set(mem, d, None)
  /\ beats' = Set(beats, d, FALSE) /\ waited' = Set(waited, d, FALSE)
  /\ calls' = Set(calls, d, {}) /\ met' = Set(met, d, {}) /\ pass' = Set(pass, d, "none")
  /\ windows' = Set(windows, d, When("death", setting[d] # "on"))
  /\ UNCHANGED <<clock, setting, folder, mirror>>

-----------------------------------------------------------------------------
(***************************************************************************)
(* Time.  The last of the times stands for all that follow.                *)
(***************************************************************************)
Advances == clock' = IF clock < MaxClock THEN clock + 1 ELSE clock

Passes ==
  /\ clock < MaxClock /\ Advances
  /\ UNCHANGED <<setting, up, engine, writer, pass, folder, mirror, windows, counts>>

\* The grace period is over.
Waits(d) ==
  /\ mem[d] # None /\ ~waited[d] /\ waited' = Set(waited, d, TRUE)
  /\ met' = Set(met, d, {})
  /\ UNCHANGED <<world, running, mem, beats, calls, pass, folder, mirror, windows, counts>>

Aged(claim) == [since |-> claim.since, fresh |-> claim.since = 0]

\* A day without a heartbeat.
Silent(e) ==
  /\ calls[e] = {} /\ Advances
  /\ folder' = [d \in Device |-> Set(folder[d], e, Aged(folder[d][e]))]
  /\ mirror' = Set(mirror, e, Aged(mirror[e]))
  /\ met' = [d \in Device |-> met[d] \ {e}]
  /\ UNCHANGED <<setting, up, engine, running, mem, beats, waited, calls, pass>>

Forfeits(e) ==
  /\ ~beats[e] /\ \E claim \in {mirror[e]} \cup {folder[d][e] : d \in Device} : IsCandidate(claim)
  /\ Silent(e) /\ UNCHANGED <<windows, counts>>

Sleeps(e) == beats[e] /\ Silent(e) /\ Opens(e, {"slept"}) /\ Faults(e)

Lives(d) ==
  \/ Heartbeat(d) \/ Patch(d)
  \/ \E c \in calls[d] : Lands(d, c)
  \/ \E s \in Settings : Toggle(d, s)
  \/ Boot(d) \/ SyncStarts(d) \/ Syncs(d) \/ Dies(d)
  \/ Waits(d) \/ Forfeits(d) \/ Sleeps(d)

Next == Passes \/ \E d \in Device : Lives(d)

Spec == Init /\ [][Next]_vars

(***************************************************************************)
(* While an app runs its awaits come back, its timer fires and its sync    *)
(* passes; a day passes.                                                   *)
(***************************************************************************)
Fairness ==
  \A d \in Device :
    /\ WF_vars(\E c \in calls[d] : Lands(d, c))
    /\ WF_vars(Heartbeat(d))
    /\ WF_vars(SyncStarts(d)) /\ SF_vars(Syncs(d)) /\ WF_vars(Forfeits(d))
FairSpec == Spec /\ Fairness

-----------------------------------------------------------------------------
(***************************************************************************)
(* A machine that was turned into a reader, or whose background work was   *)
(* turned off, claims nothing (writer.ts:73-76, presence.ts:95-98), but    *)
(* for the echo of a publication, a ghost's timer and a death.             *)
(***************************************************************************)
Quiet(d) == up[d] /\ setting[d] # "on" /\ calls[d] = {}
GivesUp ==
  \A d \in Device : Quiet(d) /\ folder[d][d].since # 0 =>
                      windows[d] \cap {"echo", "ghost", "death"} # {}

(***************************************************************************)
(* Who was at work when a machine started its session, and still is, is    *)
(* not joined by it (writer.ts:6-8), unless an echo claimed for it. The    *)
(* claims it met are none if the session began before the engine or under  *)
(* a pass that had listed already, and none any more once it gave up       *)
(* waiting for the pull. Until its first publication lands a machine still *)
(* answers from its last life's claim.                                     *)
(***************************************************************************)
IncumbentStays ==
  \A e \in Device : \A d \in met[e] :
    IsCandidate(mirror[d]) /\ mem[e] = folder[e][e].since /\ IsElectedFor(folder[e], e) =>
      "echo" \in windows[e]

(***************************************************************************)
(* A machine whose claim was forfeited comes back at the end of the queue  *)
(* (types.ts, claimedAt), unless it only slept or an echo claimed for it.  *)
(***************************************************************************)
BackOfTheQueue ==
  [][\A d \in Device :
       LET was == folder[d][d] now == folder'[d][d] IN
       was.since \in 1 .. MaxClock - 1 /\ ~was.fresh /\ IsCandidate(now) =>
         now.since # was.since \/ windows[d] \cap {"slept", "echo"} # {}]_vars

(***************************************************************************)
(* In the end one machine of those that are up and want to work does it,   *)
(* unless a ghost keeps a claim alive.                                     *)
(***************************************************************************)
OneWorks ==
  <>[](LET works == {d \in Device : up[d] /\ Wants(d)} IN
       \/ works = {}
       \/ Cardinality({d \in works : IsElectedFor(folder[d], d)}) = 1
       \/ \E d \in Device : "ghost" \in windows[d])
=============================================================================
