# Reading Partner: sync, deletions and background work in TLA+

Reading Partner is a local-first reading app. Each device keeps its data as
files under AppData; a sync engine mirrors a range of those files through the
reader's own Google Drive, and every other subsystem that spans devices (memory,
background runs, deletions) rests on that mirror. There is no server that
arbitrates and Drive has no conditional write, so what keeps two devices'
edits from eating each other is the engine's own protocol; and what keeps two
devices from doing the same work is what they read in each other's mirrored files.
Those protocols are what this project models, checks and proves about. Paths below
are those of the repository.

## 1. Inventory

| Part | State | Operations | Interacts with | What is hard | What makes it correct |
|---|---|---|---|---|---|
| **reconcile** `src/platform/sync/reconcile.ts` | none: a pure function of scan, listing, snapshot | decide upload / download / merge / converged / dropBase / purge per path | called by the pass | revs that repeat, missing hashes, files without a snapshot | it settles, never downloads over unsynced content, and its revs order what devices publish |
| **engine pass** `sync/engine.ts`, `sync/localStore.ts` | files, snapshot (`sync-state.json`), merge bases (`sync-base/`), remote entries | scan, plan, converged, download, merge, upload, seed bases | disk, Drive, reader, other devices | edits between scan and transfer; two devices on one name; lost answers; death between base and snapshot | what a reader wrote stays and what he deleted goes; devices converge; a trusted hash is true, but for what the sizes hide |
| **engine schedule** `sync/engine.ts`, `sync/pass-failures.ts` | dirty set, self-write credits, running flag, `lastPullAt`/`lastPassAt`, failure streak | noteLocalChange, tick, onForeground, onBackground, syncNow, start, runPool | atomic writer's broadcasts, timers, app lifecycle | announcements racing the engine's own writes; partial passes; dead links; lost memory | an announced edit is somebody's job; a clean pass mirrored; everything catches up |
| **account session** `sync/index.ts`, `sync/state.ts` | signed in, engine object, persisted state, purge queue | signIn, signOut, handleSignedOut, setAutoSync, initSync, requestRemotePurge | engine, auth, state file | sign-out during a pass; another account; a dead token in a pool | no base or snapshot of one Drive is ever used against another |
| **deletion log** `app/deleted-books.ts`, `sync/dead-paths.ts`, `engine.purgeDead` | append-only log, tombstoned paths, purge queue | log a deletion or revival, pull the log first, purge | reconcile's `dead` predicate | a stale log against a revival; five-step purges that fail half-way | nothing revived is purged; a purge is finished or retried |
| **holdings** `sync/holdings*.ts`, `sync/infer-deletions.ts` | published tree, cached peer trees | publish, fetch, infer, advance | reconcile's `dead` predicate | a base advanced past an unexecuted deletion; partial scans | never infers from absence; one pass late, not for ever |
| **duplicates** `sync/duplicates.ts` | extra copies of one name | merge into the chosen copy, publish, delete extras | Drive | two devices absorbing at once | no copy's content is lost |
| **books channel** `sync/books.ts`, `engine.syncBooks` | blobs here and in Drive, transfers waiting | mirror, upload, fetchBook, pushBook | the pass (`fetching`, `remoteWork`) | a fetch queued behind a pass, passes that stand down for fetches | one blob on the wire; nobody waits on everybody |
| **merge** `sync/merge/*` | none | records, fields, text, messages, lattice | mergeOne | commutativity, deletes against edits | same result on both devices; an edit outranks a delete |
| **Drive backend** `sync/driveBackend.ts` | cached file ids, folder ids, partial downloads | listing, upload, download, resumable and ranged transfers | Drive | stale ids, retries, eventual listings | one name, one chosen copy |
| **auth, health, pull routes** `sync/auth*.ts`, `health.ts`, `pull-routes.ts` | token, timestamps | refresh, classify, dispatch | session, UI | one refresh shared by many requests | a stopped sync is never silent |
| **atomic files** `app/atomic-fs.ts`, `app/appdata.ts`, `src-tauri/src/atomic_fs.rs` | files, listeners | write, rename, announce | everyone | torn writes | a reader sees a whole file |
| **palace** `src/palace/kinds.ts` | constant table | resolve a path | sync, deletes | – | – |
| **legion** `src/legion/*` | run files, claims, bells, ledgers, durable turns | delegate, take, retake, cancel, elect, fire a schedule, recover a turn | the mirror | two devices taking one run; death in the middle; merges of run files | a step runs to one end; a device that dies is replaced |
| **memory** `src/memory/*` | observations, cursors, profile | distil, adjudicate, file | mirror, model calls | a cursor against messages that arrive by sync | no conversation is skipped or read twice |
| **soul, reading, info, ai, ui, workshop, i18n** | conversations, views, caches | model turns, voice, rendering, collection | stores above | voice turn taking; cancelled turns | mostly content |
| **server, native shell, plugins** | key-value entries, platform handles | endpoints, commands | app | – | – |

Components and hazards with their lines are in `PROJECT.json`.

## 2. Plan

Written in the order of what the system stands on. Modules in **bold** exist.

1. **`Reconcile`**: the decision core, operators only; **`ReconcilePass`**: the
   core against its own consequences; **`ReconcileProofs`**.
2. **`SyncFile`** (INSTANCEs `Reconcile`): one file, several devices, Drive;
   **`MCSyncFile`** for TLC; **`SyncFileProofs`**.
3. **`SyncSchedule`**: when passes run and who remembers an edit;
   **`SyncScheduleProofs`**.
4. **`AccountSession`**: sign-in, sign-out and a dead token against a running pass;
   two engines at once; bases and snapshots across accounts; the purge queue's tag;
   **`AccountSessionProofs`**.
5. **`Deletions`** (INSTANCEs `Reconcile`): a book deleted and imported again,
   the log pulled first, purges and their failures; **`MCDeletions`** for TLC;
   **`DeletionsProofs`**.
6. Legion: **`RunLattice`**, the record of a run and its merge, with
   **`RunLatticeProofs`**; **`Runner`** (EXTENDS `RunLattice`, INSTANCEs
   `Reconcile`), devices that execute runs over mirrored files, **`MCRunner`** for
   TLC and **`RunnerProofs`**; **`Claims`**, the election and the writer of its
   claims, with **`ClaimsProofs`**. Left: `ScheduleFired`, `Ledger`, then the
   durable turns.
7. The books channel: `fetching` and `remoteWork` against the pass are in
   `SyncSchedule`; left are the loop of a pass over the library and the blobs of
   deleted books. `Duplicates`; `Holdings` with inference on and off.
8. `MergeRecords`, `MergeFields`: the merge as checked algorithms against a
   reference definition (commutative, idempotent, keeps every unseen edit);
   `SyncFile.Merge3` as its abstraction.
9. `ReplicatedFile`: an abstract specification (a set of records that only
   readers shrink) that `SyncFile` without its three loss windows implements.
10. Memory cursors and voice turns.

Theorems, in order: type correctness and the safety properties of `SyncFile`; the merge
of a run as a join, and the store's operations as climbing in its order; the safety
properties of `AccountSession`, `SyncSchedule`, `Runner`, `Claims`, `Deletions` and
`ReconcilePass`, as far as the code keeps them (all done). Left: the refinement of
`ReplicatedFile`.

## 3. Modules and code

### Reconcile, ReconcilePass

`Decide` is `reconcile()` for one path. A content is its hash. `mtime` and
`size` occur in the code only in comparisons of the scanned file with its
snapshot entry, always together, so they are one Boolean `moved`. `NoHash` is
the undefined hash of an entry from before hashing. `dead` is the predicate's
answer for the path.

`ReconcilePass` takes one decision after another from every combination of the
inputs (revs 0..2, three contents, entries with and without hash) and does what
the pass does with it when nobody interferes: the three runs of the loop in
`runPass` for that path.

### SyncFile

One file on `Device` devices and in Drive. A content is the set of records it
holds, its hash the content itself, its length `Size(c)`, a function on which nothing is
assumed: both runs take the number of records, so that different contents of one size
occur.

| Model | Code |
|---|---|
| `file`, `asSynced` | the file, and whether its mtime and size are those in the snapshot (`cachedHash`) |
| `snap` | the entry in `engine.snapshot`, with persistence at the end of the pass |
| `base` | `sync-base/<path>` |
| `remote` | the Drive file: bytes, and `rev`/`hash` in its properties |
| `pass[d]` | the locals of the running pass: what the plan carries and the bytes in hand |
| `Plan` | `listRemote`, `hashLocal`, `reconcile`, up to the file's turn |
| `NoteConverged`, `SeedBase` | the converged loop; `seedBases` |
| `DownloadWrite`, `DownloadSettle` | download and write; stat, snapshot, `setBase` |
| `MergeRead`, `MergeWrite`, `MergeSend` | `mergeOne` cut at its write and at its upload, then `record` |
| `Upload` | the upload pool's task |
| `Fail` | a request that fails, or one whose answer is lost after the server acted (see below) |
| `Record`'s branches | base write failing silently; death before `sync-state.json` is written |
| `Add`, `Delete`, `Resave` | the reader, through the stores |
| `SignOut` | `signOutOfGoogle` with no pass running |

Steps are joined only where nothing can tell them apart: the listing touches the
remote only and the scan the disk only, and what moves between the two is
covered by an edit or an upload before or after the joined step. A fetch and the
write after it are one step: an edit between them is overwritten by the write
and is the case where it came before the step. An upload and its bookkeeping are
one step; the death or lost answer between them is the third branch of `Record`
(landed, nothing recorded). `record` is not awaited in the merge loop
(`engine.ts:860`): its base write may land later in the same pass, and nothing
reads that base before it does.

The histories (`added`, `deleted`, `late`, `covered`, `raced`, `orphaned`,
`regressed`, `mixed`) only say what happened; no guard of the system reads them, except
that a record is added once and deleted once. A record is in `raced` when a
publication makes it one that some device will not be told of, in one of three ways:

* it was covered by another publication of its rev (`covered`) and the remote moves to
  another rev before its author has looked;
* it was covered at its own rev while a third device already held it;
* it is published at a rev that a device without it is beyond (`Beyond`), since its
  snapshot is at a later rev: an upload with an old plan had put the remote back.

The last two need three devices, or two devices and more records than `file_loss` has;
the proof of `LossOnlyByRace` (section 5) is for those.

### SyncSchedule

One engine. A path is the number of the newest edit in it, counted path by path:
`disk` what the file holds, `known` what the snapshot says is published, `theirs` the paths another
device has published since. `dirty`, `credit` and the two clocks are the
fields `dirty`, `selfWrites`, `lastPullAt`, `lastPassAt`; `pass.streak`,
`pass.clean` and `pass.claimed` are `PassFailures.streak`, `count = 0` and the
`claimed` array. The pool is modelled by its rule: at most `Width` items on the
wire, a worker asks `halted` before each item. `writeLocal` is three steps: credit
given, write landed and announced, or write thrown. Every pass is cut at every
await on one path, so announcements fall between any two.

`books` is the queue of on-demand transfers (`fetchBook`, `pushBook`): its length
is `fetching`, its last element what `remoteWork` stands for, and each waits for the
running pass, for the transfer before it, or is on the wire. A pass does not begin
while there are any. What a transfer moves is not asked here.

Time counts in ticks up to the two intervals. A pass or the reader may take any
number of ticks.

### AccountSession

One device, its account over time, and the engines. An account is its email.
Which files move is not asked here (a pass moves one or none); whose they are is.

| Model | Code |
|---|---|
| `auth` | `sync-auth.json`: whose refresh token, and whether Google still takes it |
| `shown` | `signedIn` and `email` in `index.ts` |
| `st`, `saved` | `SyncState` in memory and in `sync-state.json`; `mem` stands for the Drive ids and the snapshot, which are replaced together |
| `base` | `sync-base/`, by the account whose Drive it was agreed with |
| `eng`, `current` | every `SyncEngine` somebody still holds, and the one `index.ts` holds |
| `eng[e].mem`, `.queue` | the objects `engineDeps` handed over: those of `st` (`Shared`) until `st` gets others |
| `eng[e].held` | a refresh token read by `getAccessToken` whose renewal is on the wire |
| `op` | where `signInToGoogle`, `signOutOfGoogle`, `setAutoSyncEnabled` and `syncNow` are, between their awaits |
| `ClickSignOut`, `SignOutClears`, `SignOutRemoves` | the three stretches of `signOutOfGoogle` |
| `Renew`, `Granted`, `Refused` | `getAccessToken` and what it stores |
| `Begins` ... `Finishes`, `Fails`, `Misdirected` | `runPass`, cut where a request needs a token and where a file lands |
| `Denied`, `HandleSignedOut` | a refusal that `isAuthFailure` does not recognise, and one it does |
| `ClickSyncNow`, `ClickSyncNowBeside` | `syncNow` with no pass running, and beside one, where `runPass` returns at once and the engine is started |
| `FetchBook` | `fetchBook`/`pushBook` where no engine exists: they build one, `fetchBook` after it has asked who is signed in and awaited the deletion log (`index.ts:386-391`), whoever is signed in by then. The transfer itself is not modelled |
| `asked` | that wait, of any length and for any number of books: somebody has been signed in since the app began, so one may be under way |
| `Restart` | the process dies; `initSync` |

`named` is whether a `GoogleAuthError` is recognised by its name. In the code as
it stands it never is (finding `session_token`); both values are checked, so that
the handler behind it is checked too.

Joined steps: `sync-state.json` is written at once with the state, `signIn`
stores the token and `signInToGoogle` reads its email back in one step, and
`handleSignedOut` removes the credentials with the rest. The settings card
(`SyncCard.tsx`) is busy while its operation runs; a card that was closed and
opened again is not, so operations may overlap (`overlap`).

### Deletions

Two files of one book's life on `Device` devices and in Drive: the deletion log, and
one synced file of the book's (its marks). A content is the set of its events, or of
its marks, and a merge is a union with or without a base: no line of the log is ever
taken out (`deleted-books.ts:11-13`), and no mark is deleted by itself here.

| Model | Code |
|---|---|
| `disk`, `snap`, `remote` | the files, the snapshot entries, Drive, for both paths |
| `pass[d]` | the listing of the running pass and what is left of its plan; `pulls` while `pullLogFirst` runs |
| `IsDeleted` | `effectiveDeletions`: the latest event decides, a tie goes to the delete |
| `DeleteBook`, `Clear` | `deleteOne` cut after its first await: the line at once, the files several awaits later, or never |
| `ImportBook`, `MarkBook` | `importBook`'s revival, and a mark saved by the reader |
| `ListAndPull`, `PullLogFirst`, `ListAndPlan` | `runPass` up to the plan, with and without a log to pull; the converged entries are noted with the plan |
| `Purge`, `Unlist` | `purgeDead` cut before its remote request |
| `Move`, `Turn` | downloads, then merges, then uploads, each one step |
| `Fail` | a request or a removal that fails |

What happens inside one transfer is `SyncFile`'s subject. `dropBases` removes a base
and leaves the snapshot entry, so here it does nothing. One clock dates the lines:
devices whose clocks disagree can order a deletion and a revival against what the
reader saw, and that is not modelled.

### RunLattice, Runner

`RunLattice` is the record of a run: state, claimant, attempts, revision, the
cancel flag, progress and the marks of delivery, with `Join` for
`run/merge.ts` over `sync/merge/join.ts`, `Below` the order it defines, and one
operator for each operation of `run/store.ts`.

`Runner` puts those records in files that several devices write.

| Model | Code |
|---|---|
| `copy`, `snap`, `mirror`, `sync` | the run file of each device, the engine's entry, Drive, the pass over one run file |
| `poll`, `Tick`, `Start` | `tick()`: cancellations noticed, due runs listed, each started |
| `active` | the runner's map; an execution that ends deletes its run's key, whoever put it there |
| `exec` | the executions that are under way, in `Slots` |
| `Begin`, `WorkerEnds`, `EndGet`, `EndPut`, `Ring` | `execute()` between its awaits: the get after the worker, the write of the end, the bell |
| `ask` | `delegate`, `cancelOne`, `markDelivered` between get and put |
| `reclaimed`, `Restart` | the process dies and `reclaimAfterRestart` takes back what it had running |
| `setting` | who is there, who stays, whom the settled claims elect, and how many troubles (asks, reports, hangs, deaths) befall them |

Joined steps: the get and the put of a `start`; a tick's look at the cancellations
and its listing; an upload, whose races are `SyncFile`'s. Until the claims have
settled a device may believe anything about who is elected and who forfeited.

### Claims

Two levels: what a device decides and what its claim file says. `Publishes` is
`publish()` up to its last await, `Lands` the write of the claim; `Starts` and
`Stops` are the writer's, the start's first claim and its timer in one step with
its write. A pass is two steps, since what it knows of the other claims is from its
listing and the writer takes it for new by the time it ended (`engine.ts:921`,
`writer.ts:131`): `Lists` is the listing and the downloads, `Ends` the upload of the
device's own claim, as it is by then, and the writer's subscription. `Toggle` and
`Boot` are what `info/program` and `App.tsx` make of the settings; `Silent`,
`Forfeits` and `Sleeps` are days without a heartbeat. A claim has one writer and is
never merged, so a pass copies it. The held answer of a minute is left out.

## 4. Runs

| Run | Question | Bounds |
|---|---|---|
| `reconcile_settles` | does the decision settle, and never download over unsynced content? | 3 contents, revs 0..2 at the start, 3 passes |
| `file_loss` | by which windows can a record disappear, and a deleted one come back? | 2 devices, 3 records (1 deletable), revs ≤ 5, 1 fault, sizes that may coincide |
| `file_converge` | do two devices end up equal; when is a trusted hash not true? | 2 devices, 2 records, revs ≤ 9, 1 fault, sizes that coincide |
| `schedule` | who remembers an announced edit; what does a clean pass mean; does a dead link stop a pass; do a pass and a book meet on the remote; does everything catch up? | 3 paths, 2 workers, threshold 1, 3 edits or book transfers, 2 transfers at a time, 3 faults |
| `session` | whose credentials, ids, bases and purges does an engine work with; does a dead token end in signed out? | 2 accounts, 2 engines, 2 clicks, 1 fault, refusals recognised or not |
| `session_token` | the same, with the errors the code throws | as `session`, refusals not recognised |
| `deletions` | does anything of a book's new life vanish; does a deleted book stay away; does a revived one reach everybody? | 2 devices, 1 mark each, 2 deletions or imports, revs ≤ 5, 1 fault |
| `deletions_reimport` | does a merge happen whenever both sides changed? | the same, no fault |
| `runner` | does a run's file only climb, is a run executed once, does it end, is a cancellation told, does the bell ring? | two devices with one trouble, two of which one is gone, or one with two troubles; 2 attempts, 2 executions, 6 writes, 5 publications |
| `runner_attempts` | is a run tried more often than the limit? | one device, three troubles, 3 attempts |
| `claims` | does a machine that gave up claim, is one at work joined, does a forfeited one go back in the queue? | 2 devices, 2 acts or faults of which 1 fault, and that of one device, 1 publication under way |
| `claims_works` | is one machine elected in the end? | 2 devices, 1 act or fault |

Why these are enough: a loss needs a late edit, a race, or a death, each of which
needs two devices and one record per side; a third record tells a deletion from
an addition. A race that is repaired at its own rev needs one more publication
(revs up to 4). Revs are bounded at 9 in `file_converge`, above what two records
can cause, so that the bound never decides the outcome: the edits are finite and
a plan that runs past the bound would show as a failure of `Convergence`. One
fault per behaviour reaches each branch of `Record`, `Fail` and `SignOut` once. In
`SyncSchedule` two paths are what the pool and the claim need, three with a
threshold below the width are what halting needs; two book transfers are one that
waits for a pass and one that waits for a transfer, and they share the bound on the
edits, since they touch no path. In `AccountSession` two clicks
are a sign-out and the next sign-in (of the same account or another), two engines
the old one and the new; the fault is a failed request, a revoked token or a
restart, or a book asked for in a session that is over when the log has been read. In `Deletions` two events are a deletion and the import after it, on the
same or the other device (the devices and their marks can change places, so the run
lets the first deletion be on one of them), a mark each side tells whose survives, and a plan
beyond the bound of revs would stop its pass and show as a failure of the liveness. In `Runner` the troubles are what starts a second
execution of a run (a crossing election needs none); writes and publications reach their bounds in some
behaviours, and those are exempt by name (`CutShort`). In `Claims` two events are a
setting changed and changed back, or a setting and a death. Only elections look at
ids, so it is enough that one device may die or sleep: the one that wins ties.

`CHECK_DEADLOCK FALSE` stands where devices in step have nothing to do and the
readers no records left, where a signed-out device has used up its clicks, and where
all runs have ended; `SyncSchedule` and `Claims` check deadlock.

**Fairness.** `SyncFile.FairSpec`: each device's pass goes on. The tick timer
runs a pass at least every `PULL_INTERVAL_MS` while the app is open, requests
have deadlines (`driveBackend.ts`), so no pass hangs. Readers, faults and
sign-outs have no fairness. `SyncSchedule.FairSpec`: the timer ticks, time
passes, a begun pass goes on, a write that landed is announced (the atomic writer
calls its listeners synchronously), and a book transfer ends. The last has no
deadline behind it when a small book is sent whole (`driveBackend.ts:99`): on a link
that stays up and moves nothing it would hold the passes off, and that is assumed
not to happen. Nothing is assumed of `onForeground`,
`onBackground` or `syncNow`. `AccountSession.FairSpec`: engines go on, an
operation that was accepted goes on, and a token that no longer works is renewed
or refused, since access tokens expire within the hour; the reader, the faults
and the renewal of a working token have no fairness. `Deletions.FairSpec`: passes go
on and a deletion that was begun goes on to its files, or fails; readers and faults
have no fairness. `Runner.FairSpec`: on the devices that stay, the poll's timer
fires (`startRunner`), awaits come back, passes run and workers end unless they
hang; nothing is assumed of a device that left. `Claims.FairSpec`: publications
land, the heartbeat's timer fires, the engine starts, passes run and days go by;
the passes have strong fairness, since a device whose sync runs every few minutes
gets a pass in between two days however often it is off.

### What holds

* A record disappears only through three windows: written after the running pass's
  scan (`late`), published into a race some device is not told of (`raced`), or
  transferred by a process that died before the snapshot was saved (`orphaned`). The
  run shows it for two devices, the theorem for any number.
* A race that rests at the rev both published is repaired; with three devices it
  is repaired eventually.
* A device comes to trust a hash that is not its file's in one way only: an edit that
  keeps the size falls between what a download or a merge writes and its stat
  (`engine.ts:818-831`, `467-478`). The edit stays on that device until the file is
  written again. Sizes that tell the contents apart rule it out, and nothing in the code
  does.
* Devices converge, unless an upload has put the remote back to a lower rev
  (`regressed`): then a device above that rev sees nothing newer; or a device is deceived
  in the way just named.
* A record that was deleted is gone everywhere once everybody has nothing left to do. A
  merge brings it back only after a failure, or after a publication that crossed another
  device's or sent bytes that were not those of its hash (`mixed`). This is what the
  numbering of publications is for: with revs one above the snapshot's alone, the run
  finds a deleted record on every device again with nothing having gone wrong.
* An announced edit that is not published is dirty, claimed, or about to be
  announced again, but for two ways out (below).
* A dead link costs a pass the threshold and what was on the wire.
* A pass and the book transfers have the remote one at a time, and nobody waits for
  somebody who waits for him.

* Only the engine `index.ts` holds has a timer, and none ticks while signed out
  unless operations of the card overlapped, or a recognised refusal met one.
* Requests are made as the account that is shown; a merge reads a base of its own
  account's Drive only; a purge is carried out in the Drive it was queued for; a
  sign-out leaves nothing to alarm about; and a device that is signed in gets to
  its Drive. Each of these names the windows in which it fails:

| Window | What happens in it |
|---|---|
| `late` | an engine of a session that is over takes a step: its base lands after the removal, its status brings `lastSyncAt` back, its renewal (`auth.ts:290-291`) stores the old account's credentials over what is there |
| `lost` | a session ended by a refusal and not by a sign-out: the ids, the snapshot, the bases and an untagged purge queue stay for whoever signs in next |
| `cut` | the process died between the saved sign-out and the removal of the bases |
| `overlap` | two operations of the card at once, or a refusal during one: `syncNow` restarts the engine after a sign-out, or after the very refusal its pass met (`index.ts:410`); a sign-in overtakes the removal of the bases |
| `handed` | an engine of another account's session still works when the next one begins, and the queue of that session is handed over to the new one: the two purge from the same object |
| `early` | a book asked for during a sign-out builds an engine on the old state (`index.ts:391`), and the next sign-in starts that engine |
| `asked` | a book asked for before the sign-out builds an engine after it (`index.ts:386-391`), on a state that keeps the purge queue of the account that left; the next sign-in gives the state a new queue and starts that engine, which purges the old paths in the new Drive |

* A mark of a book's present life is on some device, in Drive or in the journal; a
  deleted book goes from everywhere and stays away; a book imported again has its
  new marks everywhere in the end. In `Deletions`:

| Window | What happens in it |
|---|---|
| `over`, `race` | `SyncFile`'s: a download over what was written since the scan, a publication over one that was not listed |
| `late` | the log that revives the book came after the listing, or its pull failed, and the purge takes a mark of the new life out of Drive |
| `under` | a purge planned before the import, here, takes the new marks off the disk (through the journal) |
| `linger` | a deletion that was begun takes its files away after the book had come back |
| `restart` | a device that purged its entry publishes the imported book's file at rev 1, where others hold an entry above it, or a running pass of theirs has listed one |
| `journal` | the journal could not be written, and the purge goes on (`engine.ts:651`) |

The last part of `restart` is beyond the run's two devices: with three, one whose pass
pulls the log first can note a converged entry from a listing that is stale by then,
and its next upload silently replaces another device's mark. The proof of
`NothingUnjournalled` needs it; a scenario of 37 steps on three devices, found by following that
proof, reaches it.

* No device's copy of a run goes back in the order of the merge; a device executes
  a run once at a time; every run ends on every device that stays; a cancellation
  is told to a worker that hangs; an end rings its bell. In `Runner`:

| Window | What happens in it |
|---|---|
| `overlap` | a put, or a pass's write, stands on a file that had changed since it was read: the store has no lock, and a get and a put are two awaits |
| `regress` | two devices publish a run file at once and the remote goes back to a lower rev (`SyncFile`'s `regressed`) |
| `gap` | a run is taken over on the device itself while its execution is not in the map: between the start and the worker, or after the worker ended and before its end is written |
| `silence` | the process died between the terminal write and the bell: nothing rings for a run that has ended |

* A machine that gave the work up claims nothing; a newcomer does not join a machine
  at work; a forfeited machine comes back last; one machine works in the end. In
  `Claims`:

| Window | What happens in it |
|---|---|
| `echo` | a publication decided before the stop, or under the setting of before, lands after it |
| `ghost` | a start that was interrupted by a stop sets its timer afterwards, and a machine that does no work keeps its claim alive |
| `death` | the process died between the setting and the claim |
| `slept` | a machine asleep for a day keeps the time its claim was taken at |

A newcomer joins a machine at work, without any of these, where it was shown nothing:
its session began before the engine was started, so that the writer took itself for a
device without sync; it began under a pass that had listed by then, and the end of that
pass counts as its pull; or it gave up waiting. `met` is empty in those cases. The second
contradicts `writer.ts:6-8` as plainly as the first, and the run finds it when the
condition on `pass` is taken out of `Starts`.

### Where the code and its comments part

Three runs check one sentence of a comment and find a behaviour against it; the
quotes are in `PROJECT.json` "findings".

| Run | What happens |
|---|---|
| `session_token` | `GoogleAuthError` never carries its name, so a dead token is never recognised as one and the device never drops to signed out |
| `runner_attempts` | a run whose process dies in every attempt is taken back for ever, beyond the limit |
| `deletions_reimport` | with no failure and no race, one side's marks replace the other's after a reimport, unmerged and unjournalled |

The windows are departures as well; the passing runs show that they are all there
are within the bounds, and the theorems of section 5 that those of the properties they
state are all there are. Those that contradict a comment most plainly:

* `SyncFile`: the loser of a race does not see it if a third publication comes first,
  and a device that is beyond a remote put back sees nothing below its own rev
  (`raced`); `SyncSchedule`: a merge whose remote is gone leaves the pass
  clean (`skipped`); `AccountSession`: a pass that outlives a sign-out leaves a base
  the next account's merge reads (`late`).
* `Claims`: `stop()` does not wait for a publication under way and drops neither the
  claim it then writes nor the subscription (`writer.ts:165-174`, `195-205`), where
  `writer.ts:73-76`, `presence.ts:95-98` and `live.ts:581-583` say the claim is
  given up there and then (`echo`, `ghost`).
* `Claims`: a machine that slept for a day comes back at the head of the queue, where
  `types.ts` says a forfeited machine goes to its end (`slept`).
* `Runner`: a worker that hangs stays in the map, so the take-over of a stalled run
  on its own device (`due.ts:11-13`) never comes about: `start` returns at the entry.
* `Deletions`: a path that is gone from both sides loses its base and keeps its
  snapshot entry (`engine.ts:795-797`), where `reconcile.ts:146-149` says that "the snapshot
  entry a device that never held it still carries is dropped with it".
* A book asked for is checked against the deletion log before it queues
  (`index.ts:390`), where the comment above it says a deleted book is not brought back:
  a pass it then waits behind may pull the deletion. `SyncSchedule` has the wait, no
  module the log beside it.

## 5. Proofs

`ReconcileProofs` holds for all contents and all revs at the start, under
`AbsentIsNoHash` and `MergedAssumption` (a merge comes out as a content).

* `PassesSettle == Spec => []Settles`. One undisturbed pass leaves a state whose next
  decision moves nothing (`Settled`), or an entry it just completed with a hash
  (`Noted`); the second settles that one too (`StepSettles`).
* `DownloadsCoverSynced` is `DownloadCoversOnlySynced`, from what each decision says of
  its inputs (`DeadIs`, `MissingIs`, `HeldIs`).

`SyncFileProofs` holds for all devices, records, authors, bounds and size
functions, under `SyncFileAssumption` and the inherited `AbsentIsNoHash` (no
content is one of the two markers).

* `TypeCorrect == Spec => []TypeOK`. Not inductive alone: `Upload` and
  `NoteConverged` write the hash the plan carries, the merge and the download the
  bytes in hand, which are contents only in the phases that set them. `IInv` adds
  `HashInHand` and `BytesInHand`.
* `TrustedHash == Spec => DeceivedOnlyBySize`, for any sizes, from `TInv`. Its conjunct
  `InHandIsFresh` says that the hash a pass holds from its scan is the file's until
  somebody writes to it, or the device was deceived already: that is what makes recording
  it with the scan's mtime sound. What is left are the two stats that follow a write,
  where the size is all that tells an edit.
* `WrittenIsKept == Spec => []LossOnlyByRace`, for any sizes, from `LInv`: for each
  record no window excuses (`Live`), where it can be (`Safe`). On a device that did not
  write it, it is never without being in the remote entry too; and while such a device
  lacks it, that device is not beyond the remote, and what it is about to publish is
  stale (`Elsewhere`). The author may be the only one to hold it (`Alone`); then its
  snapshot names the record, at the remote's rev, as soon as it was sent
  (`AloneWithIt`), so that no download is planned over it and no merge reads a base that
  has it: those are the two ways a pass takes a record away. A plan to publish over an
  unknown record would need the remote at the planner's own rev under another hash,
  which `Overwritten` turns into a merge (`PlanAccounts`). Each action has its lemma;
  uploads and merges share `PublishAccounts`. The first form of `raced`, without its last
  two cases, passed the run and is false beyond its bounds: TLC found both losses, with
  two devices and four records and with three devices, while the invariant was looked
  for.

`SyncScheduleProofs` holds for every finite set of paths, any width of the pool,
threshold, intervals and bounds, under `SyncScheduleAssumption`.

* `TypeCorrect == Spec => []TypeOK`, inductive as it stands.
* `SomebodyRemembers`, `GivesUpOnADeadLink`, `OneBlobAtATime` and `CleanPassesMirror` are
  `AnnouncedIsRemembered`, `DeadLinkStops`, `OneOnTheRemote` and `CleanPassMirrors`, from
  one invariant `SInv`. `Shape` says in which stage of a pass a path can be in which state
  of its transfer, and that one merge at most is under way; `BooksInOrder` that only the
  first transfer of the queue can be waiting for the pass or be on the wire; `WireBound`
  that what is on the wire can still fail, and nothing is added after the halt.
  `Answers` is the core. `Answered` says that an announced edit is dirty, claimed by the
  pass, or of a file whose write by the engine has spent its credit; `EditedSince` that
  an edit newer than what is being published is dirty, without which a publication that
  ends would leave it to nobody; `CleanAnswers` what a pass without a failure still owes.

`AccountSessionProofs` holds for all accounts and bounds, under
`AccountSessionAssumption` (the markers are distinct and no account).

* `TypeCorrect == Spec => []TypeOK`, inductive as it stands.
* `OneEngine == Spec => []OneEngineTicks` and
  `ShownAccountActs == Spec => []ActsAsShown`, from one invariant `AInv`. What
  `ActsAsShown` lacks is the tokens on the wire: a renewal stores what it was
  given when it left, so `RenewsAsShown` follows every token an engine of the
  session holds, and `SignsInFromOut` says a sign-in ends with nobody shown, so
  that no such token is another account's. Once an engine of a session that is
  over has acted (`late`) nothing is claimed, and TLC shows why. Most steps of a
  pass are `Quiet` and share one argument (`QuietKeeps`); what builds or starts
  an engine shares another (`EnsuredKeeps`).
* `SignedOutIsStill == Spec => []TicksSignedIn`, from `CardInv`: while no two
  operations of the card have overlapped, one at most is under way (`Alone`), and what it
  does is done for whoever was shown when it began (`DoneForShown`).
* `QuietAfterSignOut == Spec => []SignOutIsQuiet`, from `QuietInv`: a sign-out that is
  clearing holds no engine, and the engine a signed-out device holds has nothing to tell.
* `MergesOverItsOwnBase == Spec => MergeKnowsItsDrive`, from `BaseInv`: the base is of the
  Drive whose ids the state holds, but for the time a sign-out takes to remove it.
* `PurgesWhereQueued == Spec => PurgeStaysHome`, from `PurgeInv`: ids, snapshot and queue
  are of whoever is shown, and an engine of a session that is over took its ids along.
  The attempt to prove it without `handed` failed for a good reason. It takes more than
  the two clicks of the `session` run, so the window was added and the invariants were
  checked with three and four clicks as well.

`RunLatticeProofs` holds for all devices, attempts and times.

* `JoinCommutes`, `JoinIdempotent`, `JoinAssociates`: the merge of two copies of a
  run is a join, so it does not matter in which order, grouping or number copies
  meet. The comparison of two copies is a strict order (`BeatsIsStrict`,
  `BeatsTransitive`), the folded fields are maxima, minima and disjunctions, and a
  copy is the one part and the other (`JoinParts`).
* `JoinIsAbove`: the join is above both copies in `Below`.
* `StoreClimbs`: whatever the store does to a record, the result is above it. With
  `JoinIsAbove` this is what `CopiesClimb` stands on.

`RunnerProofs` holds for all devices, slots and bounds, under `RunnerAssumption`
(the settings name devices of the instance, the marker of a missing file is no file).

* `TypeCorrect == Spec => []TypeOK` and `FilesClimb == Spec => CopiesClimb`, from one
  invariant `RInv`. A put writes what the store made of a record that was read several
  awaits before (`Lawful`, `LawfulAsk`): `StoreClimbs` puts it above the file, unless
  the file has changed since, which is an `overlap`. A pass writes a listed entry, or
  the join of one with the file (`LawfulPass`). The join is above the file
  (`JoinIsAbove`); a download is, because while no `overlap` has happened `Synced`
  holds: the entry in Drive `Follows` the snapshot's and a copy is above its
  snapshot. `Present` says that what is executed has a file.
* `WriteClimbs` and `PutClimbs` are the two ways a file changes, `PlanIs` what the
  decision returns here, `SyncReadKeeps` and `SyncWriteKeeps` the two steps of a pass.

* `OneAtATime == Spec => []OneExecution`, from `OneInv`: without a take-over in the gap a
  run has one execution at most on a device, at whatever phase it is (`Single`), and
  the runner's map holds whichever is at its work (`Listed`), so that `start` meets it.

`ClaimsProofs` holds for all devices and bounds, under `ClaimsAssumption`.

* `TypeCorrect == Spec => []TypeOK` and `StoppedGivesUp == Spec => []GivesUp`, from
  `CInv`. What `GivesUp` lacks is the work under way: `Prepared` and `Runs` say in
  which state of the writer a publication and the timer can be, and `Withdrawn` that a
  claim which disagrees with the setting came through a named window or has the
  publication that takes it back on its way.
* `NewcomersWait == Spec => []IncumbentStays` and `ComesBackLast == Spec => BackOfTheQueue`,
  from `HInv`, which adds two things for each device. `Local`: what its claim, its memory
  of it and its session say of one another, in particular that nobody holds on to a claim
  it forfeited, but after an echo or a day asleep (`Forfeited`), and that nobody who met
  one claims before its wait is over (`Asked`). `Met`: of the claims a session met at its
  start its own is the younger, and once a pass has listed in the session its folder shows
  them: from the listing on, since claims and uploads of others fall between that and the
  end of the pass.

`DeletionsProofs` holds for all devices, marks, authors and bounds, under
`DeletionsAssumption`: the markers are no contents, numbers or entries, and
`MaxRev >= 2`, since the book's file begins published at rev 2.

* `TypeCorrect == Spec => []TypeOK`, from `Typed` (which path holds what: the log
  events, the file marks; only the file is purged) and `Clock`.
* `NothingVanishes == Spec => []NothingUnjournalled`, from `DInv`: while none of
  `journal`, `linger`, `over`, `race` and `restart` has been opened, every mark of the book's
  present life that is not in the journal is on the disk of the device it was put on
  (`AtHome`). This is stronger than the property and still not inductive: a download
  or a merge on that device must bring the mark, so a revision that has it leads to
  later ones that have it (`Lineage`, built on `Leads`), whoever knew it has it and will
  publish it (`Kept`), and a mark put on since a download was planned is nowhere else
  yet (`Fresh`). `Revs` says that nothing recorded or listed is ahead of Drive,
  `FromPlan` that what is under way was planned from the listing. Each step of a pass
  is one of four: it `Sheds` (a purge, a failure), plans, fetches or publishes, and
  each kind has its lemma.

The invariants were model-checked first, the inductive ones included, also with more
devices or clicks than the run has where the proofs asked for a new window (`handed`,
`restart`) or showed one not to be needed (`slept` in `IncumbentStays`, `ghost` in
`BackOfTheQueue`, `overlap` in `OneExecution`).

Every safety invariant and action property the passing runs check is proved, but for
`DeletionsHold`, whose inductive invariant would have to carry where a deletion is on its
way through plans, bases and revs. Model-checked only is, besides, all liveness (`Convergence`, `SweepCatchesUp`, `CancelIsTold`, `RunsEnd`, `OneWorks` and the
like), which is out of the prover's reach.

## 6. Not modelled

Everything of section 1 that section 3 does not name, for now; the plan says in
which order it comes. Left out for good: rendering, prompts, model calls,
document parsing, layout and texts, the platform glue; the contents of the
palace table; the inside of Drive. In `SyncFile`: purges and tombstones
(`Deletions` has them), duplicate names, conflict copies of text merges, the trash journal (what a merge
drops remains readable there for thirty days, and counts as lost here), and
field-level merging of one record. In `SyncSchedule`: dead tokens and `stop()`
(`AccountSession` has them), what a book transfer moves, and the snapshot lost by a
restart (`SyncFile` has it). In `AccountSession`: the consent flow, the account
registration and `freshIdToken`, health's grace window, a purge requested before
`initSync`, and a death between the removal of the credentials and the saved
state. In `Deletions`: clocks that disagree, inferred deletions
(switched off in the source), the cascade to supplements and retells, and the purge
queue (`AccountSession` has its tag). In `Runner`: local runs, the cascade of a
cancellation to child runs, progress texts and outputs. In `Claims`: capabilities
that differ, and the held answer.
