---------------------------- MODULE AccountSession ----------------------------
(***************************************************************************)
(* One device's Google account over time: signing in and out, the toggle,  *)
(* a token that dies, a restart, and the engines that run passes meanwhile *)
(* (src/platform/sync: index.ts, state.ts, auth.ts, engine.ts).            *)
(*                                                                         *)
(* Signing out drops the engine object and does not wait for its pass, so  *)
(* an engine of a session that is over may still be running beside that of *)
(* the next. What this module follows is whose things each of them works   *)
(* with: the credentials, the Drive ids and the snapshot, the merge bases, *)
(* the purge queue. Which files move is SyncFile's subject: a pass here    *)
(* moves one file or none. An account is its email.                        *)
(*                                                                         *)
(* External: Drive answers a request that names another account's folder   *)
(* with an error (the app's scope is its own files).                       *)
(***************************************************************************)
EXTENDS Integers

CONSTANTS
  Account,
  Starting,    \* who may be signed in when the app is first looked at
  None,        \* no account
  Empty,       \* a purge queue with nothing in it
  Shared,      \* an engine's reference to the object sync-state holds
  Named,       \* whether a GoogleAuthError may carry its name (isAuthFailure)
  MaxEngines,  \* bound: engines that exist at one time
  MaxClicks,   \* bound: operations of the settings card
  MaxFaults    \* bound: failed requests, revoked tokens, restarts, books asked for
               \* in a session that is over when the answer comes

ASSUME AccountSessionAssumption ==
  /\ Named \subseteq BOOLEAN /\ Starting \subseteq Account \cup {None}
  /\ MaxEngines \in Nat \ {0} /\ MaxClicks \in Nat /\ MaxFaults \in Nat
  /\ {None, Empty, Shared} \cap Account = {}
  /\ None # Empty /\ None # Shared /\ Empty # Shared

VARIABLES
  named,    \* an error of class GoogleAuthError is recognised as one
  auth,     \* sync-auth.json: whose refresh token, and whether it works
  shown,    \* signedIn and email
  st,       \* the SyncState in memory
  saved,    \* sync-state.json
  base,     \* whose Drive the merge base of the file was agreed with
  eng,      \* the engines
  current,  \* the engine index.ts holds, or 0
  op,       \* where each operation of the settings card is
  asked,    \* somebody has been signed in since the app began
  left,     \* history: the last account was left by signing out
  windows,  \* history: the kinds of untimely step there have been
  clicks, faults

vars == <<named, auth, shown, st, saved, base, eng, current, op, asked, left,
          windows, clicks, faults>>

Engine == 1 .. MaxEngines
SomeAccount == Account \cup {None}
Token == [of : SomeAccount, alive : BOOLEAN]
NoToken == [of |-> None, alive |-> FALSE]

(***************************************************************************)
(* mem: the account that the Drive ids and the snapshot are of, which      *)
(* change hands together.  queue: the account the purge queue's entry was  *)
(* queued under.                                                           *)
(***************************************************************************)
SyncState == [mem : SomeAccount, queue : SomeAccount \cup {Empty},
              tag : SomeAccount, lastSync : BOOLEAN, autoSync : BOOLEAN]

Stages == {"idle", "layout", "drain", "list", "move", "land", "done", "denied"}

(***************************************************************************)
(* An engine keeps the snapshot, ids and queue objects it was built with:  *)
(* those of st, until st gets others.  held is a refresh token whose       *)
(* renewal is on the wire, waited says syncNow awaits the pass.            *)
(***************************************************************************)
EngineState == [mem : SomeAccount \cup {Shared},
                queue : SomeAccount \cup {Empty, Shared},
                ticking : BOOLEAN, synced : BOOLEAN, waited : BOOLEAN,
                stage : Stages, held : Token]

Gone == [mem |-> None, queue |-> Empty, ticking |-> FALSE, synced |-> FALSE,
         waited |-> FALSE, stage |-> "idle", held |-> NoToken]

Ops == [signIn : {"no", "browser", "saving"}, signOut : {"no", "clearing", "removing"},
        toggle : {"no", "on", "off"}, syncNow : {"no", "pass", "after"}]

NoOps == [signIn |-> "no", signOut |-> "no", toggle |-> "no", syncNow |-> "no"]

Windows == {"late", "lost", "cut", "overlap", "early", "handed", "asked"}

TypeOK ==
  /\ named \in BOOLEAN
  /\ auth \in Token /\ shown \in SomeAccount
  /\ st \in SyncState /\ saved \in SyncState
  /\ base \in SomeAccount
  /\ eng \in [Engine -> EngineState] /\ current \in {0} \cup Engine
  /\ op \in Ops /\ asked \in BOOLEAN /\ left \in BOOLEAN /\ windows \subseteq Windows
  /\ clicks \in 0 .. MaxClicks /\ faults \in 0 .. MaxFaults

\* A device in step with an account, its engine waiting for a tick, or a new one.
Init ==
  /\ named \in Named
  /\ \E a \in Starting :
       /\ auth = [of |-> a, alive |-> a # None] /\ shown = a /\ base = a
       /\ st = [mem |-> a, queue |-> Empty, tag |-> None,
                lastSync |-> a # None, autoSync |-> a # None]
       /\ current = IF a = None THEN 0 ELSE 1
       /\ eng = [e \in Engine |->
            IF e # current THEN Gone
            ELSE [Gone EXCEPT !.mem = Shared, !.queue = Shared,
                              !.ticking = TRUE, !.synced = TRUE]]
  /\ saved = st
  /\ op = NoOps /\ asked = (shown # None) /\ left = FALSE /\ windows = {}
  /\ clicks = 0 /\ faults = 0

Fault == faults < MaxFaults /\ faults' = faults + 1
Click == clicks < MaxClicks /\ clicks' = clicks + 1

Pending == op # NoOps
Started == current # 0 /\ eng[current].ticking
MemOf(e) == IF eng[e].mem = Shared THEN st.mem ELSE eng[e].mem
QueueOf(e) == IF eng[e].queue = Shared THEN st.queue ELSE eng[e].queue

-----------------------------------------------------------------------------
(***************************************************************************)
(* The engine object (index.ts: ensureEngine, startEngine, stopEngine).    *)
(***************************************************************************)
Built == [Gone EXCEPT !.mem = Shared, !.queue = Shared, !.synced = st.lastSync]

FreeSlots == {e \in Engine : e # current /\ eng[e] = Gone}

\* Nobody holds an engine that is neither current nor in a pass.
Held(engs, cur) ==
  [e \in Engine |-> IF e # cur /\ engs[e].stage = "idle" THEN Gone ELSE engs[e]]

\* Mutant of Stopped: the reference goes, the timer stays.
StillTicking == eng

Stopped == IF current = 0 THEN eng ELSE [eng EXCEPT ![current].ticking = FALSE]

\* Mutant of Emit: what the pass says goes into the file as it is.
EmitAsIs(e) ==
  /\ st' = [st EXCEPT !.lastSync = e.synced]
  /\ saved' = st'

\* emitStatus, as index.ts takes it (recordPassResult).
Emit(e) ==
  /\ st' = [st EXCEPT !.lastSync = @ \/ e.synced]
  /\ saved' = st'

(***************************************************************************)
(* ensureEngine: the current engine, or one built of st as it is, be it    *)
(* that of an account being signed out.                                    *)
(***************************************************************************)
Ensured(e, window) ==
  IF current # 0 THEN e = current /\ UNCHANGED current /\ windows' = windows \cup window
  ELSE /\ e \in FreeSlots /\ current' = e
       /\ windows' = windows \cup window
                     \cup (IF op.signOut = "clearing" THEN {"early"} ELSE {})

Found(e) == IF e = current THEN eng[e] ELSE Built

StartEngine == \E e \in Engine :
  LET found == Found(e)
      begins == ~found.ticking /\ found.stage = "idle"
  IN /\ Ensured(e, {})
     /\ eng' = [eng EXCEPT ![e] =
          [found EXCEPT !.ticking = TRUE,
                        !.stage = IF begins THEN "layout" ELSE @]]
     /\ IF begins THEN Emit(found) ELSE UNCHANGED <<st, saved>>

StopEngine == eng' = Stopped /\ UNCHANGED <<current, st, saved, windows>>

-----------------------------------------------------------------------------
(***************************************************************************)
(* The settings card. It waits for the operation it started; one that was  *)
(* closed and opened again does not, and operations overlap.               *)
(***************************************************************************)
Overlap == IF Pending THEN {"overlap"} ELSE {}

ClickSignIn ==
  /\ Click /\ windows' = windows \cup Overlap
  /\ shown = None /\ op.signIn = "no"
  /\ op' = [op EXCEPT !.signIn = "browser"]
  /\ UNCHANGED <<named, auth, shown, st, saved, base, eng, current, asked, left,
                 faults>>

SignInAbandoned ==
  /\ op.signIn = "browser" /\ op' = [op EXCEPT !.signIn = "no"]
  /\ UNCHANGED <<named, auth, shown, st, saved, base, eng, current, asked, left,
                 windows, clicks, faults>>

(***************************************************************************)
(* What of the state an account signing in takes up, and an account        *)
(* signing out leaves.  An engine keeps an object st parts with.           *)
(***************************************************************************)
\* Mutant of SignedInState: the queue is whoever's signs in.
SignedInKeepsQueue(a) == [st EXCEPT !.tag = None, !.autoSync = TRUE]

SignedInState(a) ==
  [st EXCEPT !.queue = IF st.tag \notin {None, a} THEN Empty ELSE @,
             !.tag = None, !.autoSync = TRUE]

\* Mutant of SignedOutState: the ids and the snapshot stay.
SignedOutKeepsMem == [st EXCEPT !.lastSync = FALSE,
                                !.tag = IF st.queue # Empty THEN shown ELSE None]

\* Mutant of SignedOutState: the last sync was still a sync.
SignedOutKeepsTime == [st EXCEPT !.mem = None,
                                 !.tag = IF st.queue # Empty THEN shown ELSE None]

\* Mutant of SignedOutState: the tag says what is queued, not for whom.
SignedOutTagsQueue == [st EXCEPT !.mem = None, !.tag = st.queue, !.lastSync = FALSE]

SignedOutState ==
  [st EXCEPT !.mem = None,
             !.queue = IF shown = None THEN Empty ELSE @,
             !.tag = IF st.queue # Empty THEN shown ELSE None,
             !.lastSync = FALSE]

\* st becomes s, with a mem and a queue of its own where those are new objects.
Becomes(s, newMem, newQueue) ==
  /\ st' = s /\ saved' = s
  /\ eng' = [e \in Engine |->
       [eng[e] EXCEPT !.mem = IF @ = Shared /\ newMem THEN st.mem ELSE @,
                      !.queue = IF @ = Shared /\ newQueue THEN st.queue ELSE @]]

\* An engine of another account's session holds the queue of the one that begins.
Handed(a) == \E e \in Engine :
  eng[e].queue = Shared /\ st.tag \in {None, a} /\ eng[e].mem \notin {None, Shared, a}

SignInGranted(a) ==
  /\ op.signIn = "browser" /\ op' = [op EXCEPT !.signIn = "saving"]
  /\ auth' = [of |-> a, alive |-> TRUE] /\ shown' = a
  /\ Becomes(SignedInState(a), FALSE, st.tag \notin {None, a})
  /\ asked' = TRUE /\ left' = FALSE
  /\ windows' = IF Handed(a) THEN windows \cup {"handed"} ELSE windows
  /\ UNCHANGED <<named, base, current, clicks, faults>>

SignInStarts ==
  /\ op.signIn = "saving" /\ op' = [op EXCEPT !.signIn = "no"]
  /\ StartEngine
  /\ UNCHANGED <<named, auth, shown, base, asked, left, clicks, faults>>

ClickSignOut ==
  /\ Click /\ windows' = windows \cup Overlap
  /\ shown # None /\ op.signOut = "no"
  /\ op' = [op EXCEPT !.signOut = "clearing"]
  /\ eng' = Held(Stopped, 0) /\ current' = 0
  /\ UNCHANGED <<named, auth, shown, st, saved, base, asked, left, faults>>

\* Mutant of SignOutClears: the credentials stay behind.
SignOutKeepsToken ==
  /\ op.signOut = "clearing" /\ op' = [op EXCEPT !.signOut = "removing"]
  /\ shown' = None
  /\ Becomes(SignedOutState, TRUE, shown = None)
  /\ left' = TRUE
  /\ UNCHANGED <<named, auth, base, current, asked, windows, clicks, faults>>

SignOutClears ==
  /\ op.signOut = "clearing" /\ op' = [op EXCEPT !.signOut = "removing"]
  /\ auth' = NoToken /\ shown' = None
  /\ Becomes(SignedOutState, TRUE, shown = None)
  /\ left' = TRUE
  /\ UNCHANGED <<named, base, current, asked, windows, clicks, faults>>

\* Mutant of SignOutRemoves: the bases stay with the data.
SignOutKeepsBases ==
  /\ op.signOut = "removing" /\ op' = [op EXCEPT !.signOut = "no"]
  /\ UNCHANGED <<named, auth, shown, st, saved, base, eng, current, asked, left,
                 windows, clicks, faults>>

SignOutRemoves ==
  /\ op.signOut = "removing" /\ op' = [op EXCEPT !.signOut = "no"]
  /\ base' = None
  /\ UNCHANGED <<named, auth, shown, st, saved, eng, current, asked, left, windows,
                 clicks, faults>>

ClickToggle ==
  /\ Click /\ windows' = windows \cup Overlap
  /\ shown # None /\ op.toggle = "no"
  /\ st' = [st EXCEPT !.autoSync = ~@] /\ saved' = st'
  /\ op' = [op EXCEPT !.toggle = IF st.autoSync THEN "off" ELSE "on"]
  /\ UNCHANGED <<named, auth, shown, base, eng, current, asked, left, faults>>

\* Mutant of Toggles: switching on starts the engine, whoever is signed in.
TogglesBlindly ==
  /\ op.toggle # "no" /\ op' = [op EXCEPT !.toggle = "no"]
  /\ IF op.toggle = "on" THEN StartEngine ELSE StopEngine
  /\ UNCHANGED <<named, auth, shown, base, asked, left, clicks, faults>>

Toggles ==
  /\ op.toggle # "no" /\ op' = [op EXCEPT !.toggle = "no"]
  /\ IF op.toggle = "on" /\ shown # None THEN StartEngine ELSE StopEngine
  /\ UNCHANGED <<named, auth, shown, base, asked, left, clicks, faults>>

ClickSyncNow == \E e \in Engine :
  /\ Click /\ op.syncNow = "no"
  /\ shown # None /\ Found(e).stage = "idle" /\ Ensured(e, Overlap)
  /\ op' = [op EXCEPT !.syncNow = "pass"]
  /\ eng' = [eng EXCEPT ![e] = [Found(e) EXCEPT !.stage = "layout", !.waited = TRUE]]
  /\ Emit(Found(e))
  /\ UNCHANGED <<named, auth, shown, base, asked, left, faults>>

\* Beside a running pass it returns at once, and the engine is started if it
\* is not: with a timer, as the pass it would begin with is the running one.
ClickSyncNowBeside ==
  /\ windows' = windows \cup Overlap
  /\ shown # None /\ current # 0 /\ eng[current].stage # "idle"
  /\ st.autoSync /\ ~eng[current].ticking
  /\ eng' = [eng EXCEPT ![current].ticking = TRUE]
  /\ UNCHANGED <<named, auth, shown, st, saved, base, current, op, asked, left, clicks,
                 faults>>

SyncNowDone ==
  /\ op.syncNow = "after" /\ op' = [op EXCEPT !.syncNow = "no"]
  /\ IF st.autoSync THEN StartEngine
     ELSE UNCHANGED <<eng, current, st, saved, windows>>
  /\ UNCHANGED <<named, auth, shown, base, asked, left, clicks, faults>>

(***************************************************************************)
(* The rest of the app: a file format is retired, a book is asked for.     *)
(***************************************************************************)
RequestRemotePurge ==
  /\ st.queue = Empty
  /\ st' = [st EXCEPT !.queue = shown] /\ saved' = st'
  /\ UNCHANGED <<named, auth, shown, base, eng, current, op, asked, left, windows,
                 clicks, faults>>

(***************************************************************************)
(* A book to fetch: signed in when it is asked for, an engine once the     *)
(* deletion log has been read, whoever is signed in by then.  What asking  *)
(* leaves is the wait, of any length and for any number of books: asked    *)
(* says there may be one.  A book to push does not wait, and does no more  *)
(* than this while somebody is signed in.                                  *)
(***************************************************************************)
FetchBook == \E e \in Engine :
  /\ asked /\ current = 0
  /\ IF shown = None THEN Fault ELSE UNCHANGED faults
  /\ Ensured(e, IF shown = None /\ st.queue \notin {None, Empty} THEN {"asked"} ELSE {})
  /\ eng' = [eng EXCEPT ![e] = Built]
  /\ UNCHANGED <<named, auth, shown, st, saved, base, op, asked, left, clicks>>

-----------------------------------------------------------------------------
(***************************************************************************)
(* A token for a request (getAccessToken): the stored one while it is      *)
(* good, or a renewal, whose answer is stored when it comes.               *)
(***************************************************************************)
Asks(e) == \/ eng[e].stage = "layout" /\ MemOf(e) = None
           \/ eng[e].stage = "drain" /\ QueueOf(e) # Empty
           \/ eng[e].stage \in {"list", "move"}

\* A step of an engine of a session that is over.
Late(e) == IF e = current /\ eng[e].mem = Shared THEN {} ELSE {"late"}

Renew(e) ==
  /\ Asks(e) /\ eng[e].held = NoToken /\ auth.of # None
  /\ eng' = [eng EXCEPT ![e].held = auth]
  /\ UNCHANGED <<named, auth, shown, st, saved, base, current, op, asked, left,
                 windows, clicks, faults>>

Carries(e, a) ==
  \/ eng[e].held = NoToken /\ auth = [of |-> a, alive |-> TRUE] /\ UNCHANGED auth
  \/ eng[e].held = [of |-> a, alive |-> TRUE] /\ auth' = eng[e].held

Granted(e, a) ==
  /\ Carries(e, a)
  /\ windows' = IF eng[e].held = NoToken THEN windows ELSE windows \cup Late(e)

\* Mutant of Refused: a dead token is an error like any other.
RefusedQuietly(e) ==
  /\ Asks(e) /\ eng[e].stage = "list"
  /\ \/ eng[e].held = NoToken /\ auth = NoToken
     \/ eng[e].held # NoToken /\ ~eng[e].held.alive
  /\ eng' = [eng EXCEPT ![e].stage = "done", ![e].held = NoToken]
  /\ UNCHANGED <<named, auth, shown, st, saved, base, current, op, asked, left,
                 windows, clicks, faults>>

\* Not signed in, or the renewal is refused: the credentials go.
Refused(e) ==
  /\ Asks(e)
  /\ \/ eng[e].held = NoToken /\ auth = NoToken /\ UNCHANGED <<auth, windows>>
     \/ /\ eng[e].held # NoToken /\ ~eng[e].held.alive
        /\ auth' = NoToken
        /\ windows' = windows \cup {"lost"} \cup Late(e)
  /\ eng' = [eng EXCEPT ![e].stage = "denied", ![e].held = NoToken]
  /\ UNCHANGED <<named, shown, st, saved, base, current, op, asked, left, clicks,
                 faults>>

-----------------------------------------------------------------------------
(***************************************************************************)
(* A pass (runPass), from what its requests need to what it leaves.        *)
(***************************************************************************)
Begins(e) ==
  /\ eng[e].ticking /\ eng[e].stage = "idle"
  /\ eng' = [eng EXCEPT ![e].stage = "layout"]
  /\ Emit(eng[e])
  /\ UNCHANGED <<named, auth, shown, base, current, op, asked, left, windows, clicks,
                 faults>>

Next1(e, stage) ==
  eng' = [eng EXCEPT ![e].stage = stage, ![e].held = NoToken]

\* Folders whose ids are known are not asked for.
EnsureLayout(e) ==
  /\ eng[e].stage = "layout"
  /\ \/ /\ MemOf(e) # None /\ Next1(e, "drain")
        /\ UNCHANGED <<auth, windows, st, saved>>
     \/ /\ MemOf(e) = None
        /\ \E a \in Account :
             /\ Carries(e, a) /\ windows' = windows \cup Late(e)
             /\ IF eng[e].mem = Shared
                THEN st' = [st EXCEPT !.mem = a] /\ Next1(e, "drain")
                ELSE /\ eng' = [eng EXCEPT ![e].stage = "drain", ![e].held = NoToken,
                                           ![e].mem = a]
                     /\ UNCHANGED st
        /\ saved' = st'
  /\ UNCHANGED <<named, shown, base, current, op, asked, left, clicks, faults>>

\* Deleted and out of the queue, or kept in it for the next pass.
Purges(e) ==
  /\ eng[e].stage = "drain" /\ QueueOf(e) # Empty
  /\ Granted(e, MemOf(e))
  /\ IF eng[e].queue = Shared
     THEN st' = [st EXCEPT !.queue = Empty] /\ saved' = st' /\ Next1(e, "list")
     ELSE /\ eng' = [eng EXCEPT ![e].stage = "list", ![e].held = NoToken,
                                ![e].queue = Empty]
          /\ UNCHANGED <<st, saved>>
  /\ UNCHANGED <<named, shown, base, current, op, asked, left, clicks, faults>>

PurgesNothing(e) ==
  /\ eng[e].stage = "drain"
  /\ \/ QueueOf(e) = Empty /\ UNCHANGED <<auth, windows>>
     \/ QueueOf(e) # Empty /\ \E a \in Account \ {MemOf(e)} : Granted(e, a)
  /\ Next1(e, "list")
  /\ UNCHANGED <<named, shown, st, saved, base, current, op, asked, left, clicks,
                 faults>>

\* The listing, then the request that moves a file.
Requests(e, stage, next) ==
  /\ eng[e].stage = stage
  /\ Granted(e, MemOf(e))
  /\ Next1(e, next)
  /\ UNCHANGED <<named, shown, st, saved, base, current, op, asked, left, clicks,
                 faults>>

ListRemote(e) == Requests(e, "list", "move")
Transfer(e) == Requests(e, "move", "land")

\* The file's snapshot entry and base, whatever has happened meanwhile.
Land(e) ==
  /\ eng[e].stage = "land"
  /\ base' = MemOf(e) /\ windows' = windows \cup Late(e)
  /\ Next1(e, "done")
  /\ UNCHANGED <<named, auth, shown, st, saved, current, op, asked, left, clicks,
                 faults>>

(***************************************************************************)
(* The end of a pass: the engine's lastSyncAt, its status to the file, and *)
(* the caller of syncNow goes on.                                          *)
(***************************************************************************)
Ended(e, engs, cur, clean) ==
  Held([engs EXCEPT ![e] =
         [engs[e] EXCEPT !.stage = "idle", !.waited = FALSE, !.held = NoToken,
                         !.synced = engs[e].synced \/ clean]], cur)

Ends(e, clean) ==
  /\ eng' = Ended(e, eng, current, clean)
  /\ Emit([eng[e] EXCEPT !.synced = @ \/ clean])
  /\ windows' = windows \cup Late(e)
  /\ op' = IF eng[e].waited THEN [op EXCEPT !.syncNow = "after"] ELSE op

Finishes(e) ==
  /\ \/ eng[e].stage = "done"
     \/ eng[e].stage = "move" /\ eng[e].held = NoToken
  /\ Ends(e, TRUE)
  /\ UNCHANGED <<named, auth, shown, base, current, asked, left, clicks, faults>>

Fails(e) ==
  /\ eng[e].stage \notin {"idle", "denied"} /\ Fault
  /\ Ends(e, FALSE)
  /\ UNCHANGED <<named, auth, shown, base, current, asked, left, clicks>>

\* A request in a folder of another account than the token's.
Misdirected(e) == \E a \in Account :
  /\ eng[e].stage \in {"list", "move"} /\ a # MemOf(e)
  /\ Carries(e, a)
  /\ Ends(e, FALSE)
  /\ UNCHANGED <<named, shown, base, current, asked, left, clicks, faults>>

(***************************************************************************)
(* The refusal comes out of the pass once what else is on the wire has     *)
(* answered.  If it is recognised, whoever is signed in is signed out      *)
(* (handleSignedOut); local data and the toggle stay, and so does st.      *)
(***************************************************************************)
Denied(e) ==
  /\ eng[e].stage = "denied" /\ ~named
  /\ Ends(e, FALSE)
  /\ UNCHANGED <<named, auth, shown, base, current, asked, left, clicks, faults>>

HandleSignedOut(e) ==
  /\ eng[e].stage = "denied" /\ named
  /\ current' = 0
  /\ eng' = Ended(e, Stopped, 0, FALSE)
  /\ shown' = None /\ auth' = NoToken /\ left' = FALSE
  /\ Emit(eng[e])
  /\ windows' = windows \cup {"lost"} \cup Late(e)
                 \cup (IF op = [NoOps EXCEPT !.toggle = op.toggle] THEN {}
                       ELSE {"overlap"})
  /\ op' = IF eng[e].waited THEN [op EXCEPT !.syncNow = "after"] ELSE op
  /\ UNCHANGED <<named, base, asked, clicks, faults>>

-----------------------------------------------------------------------------
(***************************************************************************)
(* Outside: the token is revoked or expires; the process dies and comes    *)
(* back (initSync).                                                        *)
(***************************************************************************)
Revoked ==
  /\ auth.alive /\ Fault
  /\ auth' = [auth EXCEPT !.alive = FALSE]
  /\ eng' = [e \in Engine |-> IF eng[e].held = auth
                              THEN [eng[e] EXCEPT !.held.alive = FALSE] ELSE eng[e]]
  /\ UNCHANGED <<named, shown, st, saved, base, current, op, asked, left, windows,
                 clicks>>

Restart ==
  /\ Fault
  /\ st' = saved /\ shown' = auth.of /\ op' = NoOps
  /\ asked' = (auth.of # None)
  /\ windows' = IF op.signOut = "no" THEN windows ELSE windows \cup {"cut"}
  /\ LET starts == saved.autoSync /\ auth.of # None
     IN /\ current' = IF starts THEN 1 ELSE 0
        /\ eng' = [e \in Engine |->
             IF e = 1 /\ starts
             THEN [Gone EXCEPT !.mem = Shared, !.queue = Shared, !.ticking = TRUE,
                               !.synced = saved.lastSync, !.stage = "layout"]
             ELSE Gone]
  /\ UNCHANGED <<named, auth, saved, base, left, clicks>>

Card ==
  \/ ClickSignIn \/ SignInAbandoned \/ ClickSignOut \/ ClickToggle
  \/ ClickSyncNow \/ ClickSyncNowBeside
  \/ \E a \in Account : SignInGranted(a)

Continues == SignInStarts \/ SignOutClears \/ SignOutRemoves \/ Toggles \/ SyncNowDone

PassStep(e) ==
  \/ Begins(e) \/ EnsureLayout(e) \/ Purges(e) \/ PurgesNothing(e)
  \/ ListRemote(e) \/ Transfer(e)
  \/ Land(e) \/ Finishes(e) \/ Misdirected(e) \/ Denied(e) \/ HandleSignedOut(e)
  \/ Refused(e)

Next ==
  \/ Card \/ Continues \/ RequestRemotePurge \/ FetchBook
  \/ \E e \in Engine : PassStep(e) \/ Renew(e) \/ Fails(e)
  \/ Revoked \/ Restart

Spec == Init /\ [][Next]_vars

(***************************************************************************)
(* The timer ticks, requests are answered or time out, a click that was    *)
(* accepted goes on, and a token that no longer works is renewed or        *)
(* refused (the stored access token expires within the hour).              *)
(***************************************************************************)
FairSpec ==
  /\ Spec /\ WF_vars(Continues)
  /\ \A e \in Engine : WF_vars(PassStep(e)) /\ WF_vars(~auth.alive /\ Renew(e))

-----------------------------------------------------------------------------
Barred(ws) == windows \cap ws # {}

(***************************************************************************)
(* An engine that was dropped never runs another pass: only the engine     *)
(* index.ts holds has a timer.                                             *)
(***************************************************************************)
OneEngineTicks == \A e \in Engine : eng[e].ticking => e = current

(***************************************************************************)
(* Nothing ticks on a device that is signed out, if no two operations of   *)
(* the card overlapped, nor a refusal and a sign-in or a sync now: setting *)
(* the toggle looks again after its await, those do not.                   *)
(***************************************************************************)
TicksSignedIn == Started /\ shown = None => Barred({"overlap"})

(***************************************************************************)
(* Whoever is shown as signed in is who the engines' requests are made as, *)
(* and nobody is when nobody is shown, unless a dropped engine's pass went *)
(* on.                                                                     *)
(***************************************************************************)
ActsAsShown == auth.of \in {None, shown} \/ Barred({"late"})

(***************************************************************************)
(* A merge never reads a base agreed with another account's Drive.         *)
(***************************************************************************)
MergeKnowsItsDrive ==
  [][\A e \in Engine : Land(e) =>
       base \in {None, MemOf(e)} \/ Barred({"late", "cut", "overlap"})']_vars

(***************************************************************************)
(* A purge is only carried out in the Drive it was queued for, unless an   *)
(* earlier session was not ended by signing out (lost), its engines went   *)
(* on (late) or into this one with the same queue (handed), operations of  *)
(* the card overlapped, or an engine was built for a book that was asked   *)
(* for before the sign-out (asked).                                        *)
(***************************************************************************)
PurgeStaysHome ==
  [][\A e \in Engine : Purges(e) =>
       QueueOf(e) \in {None, MemOf(e)}
       \/ Barred({"late", "lost", "overlap", "handed", "asked"})']_vars

(***************************************************************************)
(* Signing out leaves nothing to alarm about: credentials-missing is only  *)
(* reported of a device that was not signed out.                           *)
(***************************************************************************)
SignOutIsQuiet == left /\ shown = None => ~st.lastSync \/ Barred({"late", "early"})

(***************************************************************************)
(* A device that shows an account it has lost comes to show that, if the   *)
(* refusal is recognised.                                                  *)
(***************************************************************************)
ShowsLost == Started /\ shown # None /\ ~auth.alive
DeadTokenDropsOut == (named /\ ShowsLost) ~> ~ShowsLost

(***************************************************************************)
(* A device that is signed in and ticking gets to see its account's Drive, *)
(* unless an engine of an earlier session went on into this one, or the    *)
(* last session ended without a sign-out and left its ids.                 *)
(***************************************************************************)
SignedInSyncs ==
  LET able == Started /\ auth.alive
  IN able ~> (~able \/ eng[current].stage = "move" \/ Barred({"late", "lost"}))

-----------------------------------------------------------------------------
(***************************************************************************)
(* docs/pitfall/storage/51: credentials that die under a running engine    *)
(* are safe, it drops to signed out and the reader is asked to sign in.    *)
(***************************************************************************)
DeadTokenIsShown == ShowsLost ~> ~ShowsLost

=============================================================================
