------------------------ MODULE AccountSessionProofs ------------------------
(***************************************************************************)
(* Theorems of AccountSession, for any accounts and any bounds: it is well *)
(* typed, only the engine index.ts holds has a timer, and requests are     *)
(* made as whoever is shown until a session that is over interferes;       *)
(* nothing ticks on a device that is signed out, a sign-out leaves nothing *)
(* to alarm about, a merge knows whose Drive its base is of, and a purge   *)
(* stays in the Drive it was queued for.                                   *)
(***************************************************************************)
EXTENDS AccountSession, TLAPS

-----------------------------------------------------------------------------
(***************************************************************************)
(* The values the actions are built from are of their types.               *)
(***************************************************************************)
LEMMA FieldTyped ==
  ASSUME NEW r \in EngineState
  PROVE  /\ \A b \in BOOLEAN : [r EXCEPT !.ticking = b] \in EngineState
         /\ \A s \in Stages : [r EXCEPT !.stage = s] \in EngineState
         /\ \A h \in Token : [r EXCEPT !.held = h] \in EngineState
         /\ \A m \in SomeAccount \cup {Shared} : [r EXCEPT !.mem = m] \in EngineState
         /\ \A q \in SomeAccount \cup {Empty, Shared} : [r EXCEPT !.queue = q] \in EngineState
         /\ \A b \in BOOLEAN : [r EXCEPT !.waited = b] \in EngineState
         /\ \A b \in BOOLEAN : [r EXCEPT !.synced = b] \in EngineState
BY DEF EngineState

LEMMA EngTyped ==
  ASSUME NEW f \in [Engine -> EngineState], NEW e \in Engine, NEW r \in EngineState
  PROVE  [f EXCEPT ![e] = r] \in [Engine -> EngineState]
BY Zenon

LEMMA StopTyped == ASSUME TypeOK PROVE Stopped \in [Engine -> EngineState]
<1>1. CASE current = 0
  BY <1>1 DEF TypeOK, Stopped
<1>2. CASE current # 0
  <2>1. current \in Engine /\ eng \in [Engine -> EngineState] /\ eng[current] \in EngineState
    BY <1>2 DEF TypeOK
  <2>2. [eng[current] EXCEPT !.ticking = FALSE] \in EngineState
    BY <2>1, FieldTyped
  <2>3. Stopped = [eng EXCEPT ![current] = [eng[current] EXCEPT !.ticking = FALSE]]
    BY <1>2 DEF Stopped
  <2> QED
    BY <2>1, <2>2, <2>3, EngTyped
<1> QED
  BY <1>1, <1>2

LEMMA GoneTyped == Gone \in EngineState
BY DEF Gone, NoToken, EngineState, Token, SomeAccount, Stages

LEMMA HeldTyped ==
  ASSUME NEW f \in [Engine -> EngineState], NEW c
  PROVE  Held(f, c) \in [Engine -> EngineState]
BY GoneTyped DEF Held

LEMMA RestTyped ==
  ASSUME NEW r \in EngineState
  PROVE  \A b \in BOOLEAN :
           [r EXCEPT !.stage = "idle", !.waited = FALSE, !.held = NoToken,
                     !.synced = b] \in EngineState
BY DEF EngineState, Stages, NoToken, Token, SomeAccount

LEMMA EndedTyped ==
  ASSUME NEW f \in [Engine -> EngineState], NEW c, NEW e \in Engine, NEW b
  PROVE  Ended(e, f, c, b) \in [Engine -> EngineState]
<1> DEFINE synced == f[e].synced \/ b
           r == [f[e] EXCEPT !.stage = "idle", !.waited = FALSE,
                             !.held = NoToken, !.synced = synced]
<1>1. synced \in BOOLEAN
  BY Zenon
<1>2. f[e] \in EngineState
  OBVIOUS
<1>3. r \in EngineState
  BY <1>1, <1>2, RestTyped, Zenon
<1>4. [f EXCEPT ![e] = r] \in [Engine -> EngineState]
  BY <1>3, EngTyped
<1>5. Ended(e, f, c, b) = Held([f EXCEPT ![e] = r], c)
  BY DEF Ended
<1> HIDE DEF r
<1> QED
  BY <1>4, <1>5, HeldTyped

LEMMA StateTyped ==
  ASSUME NEW s \in SyncState
  PROVE  /\ \A b \in BOOLEAN : [s EXCEPT !.lastSync = b] \in SyncState
         /\ \A b \in BOOLEAN : [s EXCEPT !.autoSync = b] \in SyncState
         /\ \A m \in SomeAccount : [s EXCEPT !.mem = m] \in SyncState
         /\ \A q \in SomeAccount \cup {Empty} : [s EXCEPT !.queue = q] \in SyncState
         /\ \A t \in SomeAccount : [s EXCEPT !.tag = t] \in SyncState
BY DEF SyncState

LEMMA EmitTyped ==
  ASSUME TypeOK, NEW r, r.synced \in BOOLEAN, Emit(r)
  PROVE  st' \in SyncState /\ saved' \in SyncState
<1> DEFINE b == st.lastSync \/ r.synced
<1>1. st \in SyncState
  BY DEF TypeOK
<1>2. st' = [st EXCEPT !.lastSync = b] /\ saved' = st'
  BY Zenon DEF Emit
<1>3. b \in BOOLEAN
  BY Zenon
<1> QED
  BY <1>1, <1>2, <1>3, StateTyped, Zenon

LEMMA BuiltTyped == ASSUME TypeOK PROVE Built \in EngineState
<1>1. st.lastSync \in BOOLEAN
  BY DEF TypeOK, SyncState
<1> QED
  BY <1>1 DEF Built, Gone, NoToken, EngineState, Token, SomeAccount, Stages

LEMMA WindowsTyped ==
  /\ Overlap \subseteq Windows
  /\ \A e \in Engine : Late(e) \subseteq Windows
  /\ {"lost", "late", "cut", "early", "overlap", "asked"} \subseteq Windows
BY DEF Overlap, Late, Windows

LEMMA StartTyped ==
  ASSUME TypeOK, StartEngine
  PROVE  /\ eng' \in [Engine -> EngineState] /\ current' \in {0} \cup Engine
         /\ st' \in SyncState /\ saved' \in SyncState /\ windows' \subseteq Windows
<1> DEFINE begins(r) == ~r.ticking /\ r.stage = "idle"
           next(r) == [r EXCEPT !.ticking = TRUE,
                                !.stage = IF begins(r) THEN "layout" ELSE @]
<1>1. PICK e \in Engine :
        /\ Ensured(e, {})
        /\ eng' = [eng EXCEPT ![e] = next(Found(e))]
        /\ IF begins(Found(e)) THEN Emit(Found(e)) ELSE UNCHANGED <<st, saved>>
  BY DEF StartEngine
<1>2. Found(e) \in EngineState
  BY BuiltTyped DEF Found, TypeOK
<1>3. next(Found(e)) \in EngineState
  BY <1>2 DEF EngineState, Stages
<1>4. eng' \in [Engine -> EngineState]
  BY <1>1, <1>3, EngTyped DEF TypeOK
<1>5. current' \in {0} \cup Engine /\ windows' \subseteq Windows
  BY <1>1, WindowsTyped DEF Ensured, TypeOK
<1>6. Found(e).synced \in BOOLEAN
  BY <1>2 DEF EngineState
<1>7. st' \in SyncState /\ saved' \in SyncState
  BY <1>1, <1>6, EmitTyped DEF TypeOK
<1> QED
  BY <1>4, <1>5, <1>7

LEMMA BecomesTyped ==
  ASSUME TypeOK, NEW s \in SyncState, NEW m \in BOOLEAN, NEW q \in BOOLEAN,
         Becomes(s, m, q)
  PROVE  /\ eng' \in [Engine -> EngineState]
         /\ st' \in SyncState /\ saved' \in SyncState
<1>1. st.mem \in SomeAccount /\ st.queue \in SomeAccount \cup {Empty}
  BY DEF TypeOK, SyncState
<1>2. ASSUME NEW e \in Engine
      PROVE  [eng[e] EXCEPT !.mem = IF @ = Shared /\ m THEN st.mem ELSE @,
                            !.queue = IF @ = Shared /\ q THEN st.queue ELSE @]
               \in EngineState
  <2>1. eng[e] \in EngineState
    BY DEF TypeOK
  <2> QED
    BY <1>1, <2>1 DEF EngineState
<1> QED
  BY <1>2 DEF Becomes

LEMMA CarriesTyped ==
  ASSUME TypeOK, NEW e \in Engine, NEW a, Carries(e, a)
  PROVE  auth' \in Token
<1>1. eng[e].held \in Token
  BY DEF TypeOK, EngineState
<1> QED
  BY <1>1 DEF Carries, TypeOK

LEMMA GrantedTyped ==
  ASSUME TypeOK, NEW e \in Engine, NEW a, Granted(e, a)
  PROVE  auth' \in Token /\ windows' \subseteq Windows
BY CarriesTyped, WindowsTyped DEF Granted, TypeOK

LEMMA NextTyped ==
  ASSUME TypeOK, NEW e \in Engine, NEW s \in Stages, Next1(e, s)
  PROVE  eng' \in [Engine -> EngineState]
<1> DEFINE r == [eng[e] EXCEPT !.stage = s, !.held = NoToken]
<1>1. r \in EngineState
  BY DEF TypeOK, EngineState, NoToken, Token, SomeAccount
<1>2. eng' = [eng EXCEPT ![e] = r]
  BY DEF Next1
<1> QED
  BY <1>1, <1>2, EngTyped DEF TypeOK

LEMMA OpTyped ==
  ASSUME op \in Ops
  PROVE  /\ \A o \in {"no", "browser", "saving"} : [op EXCEPT !.signIn = o] \in Ops
         /\ \A o \in {"no", "clearing", "removing"} : [op EXCEPT !.signOut = o] \in Ops
         /\ \A o \in {"no", "on", "off"} : [op EXCEPT !.toggle = o] \in Ops
         /\ \A o \in {"no", "pass", "after"} : [op EXCEPT !.syncNow = o] \in Ops
         /\ NoOps \in Ops
BY DEF Ops, NoOps

LEMMA ClickTyped == TypeOK /\ Click => clicks' \in 0 .. MaxClicks
BY AccountSessionAssumption DEF TypeOK, Click

LEMMA FaultTyped == TypeOK /\ Fault => faults' \in 0 .. MaxFaults
BY AccountSessionAssumption DEF TypeOK, Fault

LEMMA EndsTyped ==
  ASSUME TypeOK, NEW e \in Engine, NEW b \in BOOLEAN, Ends(e, b)
  PROVE  /\ eng' \in [Engine -> EngineState] /\ st' \in SyncState /\ saved' \in SyncState
         /\ windows' \subseteq Windows /\ op' \in Ops
<1> DEFINE synced == eng[e].synced \/ b
           r == [eng[e] EXCEPT !.synced = synced]
<1>1. eng[e] \in EngineState /\ synced \in BOOLEAN
  BY Zenon DEF TypeOK
<1>2. r \in EngineState
  BY <1>1, FieldTyped, Zenon
<1>3. r.synced \in BOOLEAN
  BY <1>2 DEF EngineState
<1>4. Emit(r)
  BY Zenon DEF Ends
<1> HIDE DEF r
<1>5. st' \in SyncState /\ saved' \in SyncState
  BY <1>3, <1>4, EmitTyped
<1>6. eng' \in [Engine -> EngineState]
  BY EndedTyped DEF Ends, TypeOK
<1>7. windows' \subseteq Windows /\ op' \in Ops
  BY WindowsTyped, OpTyped DEF Ends, TypeOK
<1> QED
  BY <1>5, <1>6, <1>7

LEMMA CardTyped == ASSUME TypeOK, Card PROVE TypeOK'
<1>1. CASE ClickSignIn
  BY <1>1, ClickTyped, WindowsTyped, OpTyped DEF ClickSignIn, TypeOK
<1>2. CASE SignInAbandoned
  BY <1>2, OpTyped DEF SignInAbandoned, TypeOK
<1>3. CASE ClickSignOut
  BY <1>3, ClickTyped, WindowsTyped, OpTyped, StopTyped, HeldTyped DEF ClickSignOut, TypeOK
<1>4. CASE ClickToggle
  <2>1. st' \in SyncState /\ saved' \in SyncState
    BY <1>4, StateTyped DEF ClickToggle, TypeOK
  <2> QED
    BY <1>4, <2>1, ClickTyped, WindowsTyped, OpTyped DEF ClickToggle, TypeOK
<1>5. CASE ClickSyncNow
  <2>1. PICK e \in Engine :
          /\ Click /\ Ensured(e, Overlap) /\ Emit(Found(e))
          /\ op' = [op EXCEPT !.syncNow = "pass"]
          /\ eng' = [eng EXCEPT ![e] = [Found(e) EXCEPT !.stage = "layout", !.waited = TRUE]]
          /\ UNCHANGED <<named, auth, shown, base, asked, left, faults>>
    BY <1>5 DEF ClickSyncNow
  <2>2. Found(e) \in EngineState
    BY BuiltTyped DEF Found, TypeOK
  <2>3. Found(e).synced \in BOOLEAN /\ [Found(e) EXCEPT !.stage = "layout", !.waited = TRUE] \in EngineState
    BY <2>2 DEF EngineState, Stages
  <2>4. eng' \in [Engine -> EngineState] /\ st' \in SyncState /\ saved' \in SyncState
    BY <2>1, <2>3, EngTyped, EmitTyped DEF TypeOK
  <2>5. current' \in {0} \cup Engine /\ windows' \subseteq Windows
    BY <2>1, WindowsTyped DEF Ensured, TypeOK
  <2> QED
    BY <2>1, <2>4, <2>5, ClickTyped, OpTyped DEF TypeOK
<1>6. ASSUME NEW a \in Account, SignInGranted(a) PROVE TypeOK'
  <2>1. SignedInState(a) \in SyncState
    BY DEF SignedInState, SyncState, TypeOK, SomeAccount
  <2>2. (st.tag \notin {None, a}) \in BOOLEAN
    OBVIOUS
  <2>3. eng' \in [Engine -> EngineState] /\ st' \in SyncState /\ saved' \in SyncState
    BY <1>6, <2>1, <2>2, BecomesTyped DEF SignInGranted
  <2>4. auth' \in Token /\ shown' \in SomeAccount /\ windows' \subseteq Windows
    BY <1>6 DEF SignInGranted, Token, SomeAccount, TypeOK, Windows
  <2> QED
    BY <1>6, <2>3, <2>4, OpTyped DEF SignInGranted, TypeOK
<1>7. CASE ClickSyncNowBeside
  <2>1. current \in Engine /\ [eng[current] EXCEPT !.ticking = TRUE] \in EngineState
    BY <1>7, FieldTyped DEF ClickSyncNowBeside, TypeOK
  <2>2. eng' \in [Engine -> EngineState]
    BY <1>7, <2>1, EngTyped DEF ClickSyncNowBeside, TypeOK
  <2> QED
    BY <1>7, <2>2, WindowsTyped DEF ClickSyncNowBeside, TypeOK
<1> QED
  BY <1>1, <1>2, <1>3, <1>4, <1>5, <1>6, <1>7 DEF Card

LEMMA ContinuesTyped == ASSUME TypeOK, Continues PROVE TypeOK'
<1>1. CASE SignInStarts
  BY <1>1, StartTyped, OpTyped DEF SignInStarts, TypeOK
<1>2. CASE SignOutClears
  <2>1. SignedOutState \in SyncState
    BY DEF SignedOutState, SyncState, TypeOK, SomeAccount
  <2>2. eng' \in [Engine -> EngineState] /\ st' \in SyncState /\ saved' \in SyncState
    BY <1>2, <2>1, BecomesTyped DEF SignOutClears
  <2>3. auth' \in Token /\ shown' \in SomeAccount
    BY <1>2 DEF SignOutClears, NoToken, Token, SomeAccount
  <2> QED
    BY <1>2, <2>2, <2>3, OpTyped DEF SignOutClears, TypeOK
<1>3. CASE SignOutRemoves
  BY <1>3, OpTyped DEF SignOutRemoves, TypeOK, SomeAccount
<1>4. CASE Toggles
  BY <1>4, StartTyped, StopTyped, OpTyped DEF Toggles, StopEngine, TypeOK
<1>5. CASE SyncNowDone
  BY <1>5, StartTyped, OpTyped DEF SyncNowDone, TypeOK
<1> QED
  BY <1>1, <1>2, <1>3, <1>4, <1>5 DEF Continues

LEMMA TokenTyped ==
  ASSUME TypeOK, NEW e \in Engine
  PROVE  /\ Renew(e) => TypeOK'
         /\ Refused(e) => TypeOK'
<1>1. ASSUME Renew(e) PROVE TypeOK'
  <2>1. [eng[e] EXCEPT !.held = auth] \in EngineState
    BY FieldTyped DEF TypeOK
  <2>2. eng' \in [Engine -> EngineState]
    BY <1>1, <2>1, EngTyped DEF Renew, TypeOK
  <2> QED
    BY <1>1, <2>2 DEF Renew, TypeOK
<1>2. ASSUME Refused(e) PROVE TypeOK'
  <2>0. eng[e] \in EngineState /\ NoToken \in Token
    BY DEF TypeOK, NoToken, Token, SomeAccount
  <2>1. [eng[e] EXCEPT !.stage = "denied", !.held = NoToken] \in EngineState
    BY <2>0 DEF EngineState, Stages
  <2>2. eng' \in [Engine -> EngineState]
    BY <1>2, <2>1, EngTyped DEF Refused, TypeOK
  <2>3. auth' \in Token /\ windows' \subseteq Windows
    BY <1>2, <2>0, WindowsTyped DEF Refused, TypeOK
  <2> QED
    BY <1>2, <2>2, <2>3 DEF Refused, TypeOK
<1> QED
  BY <1>1, <1>2

LEMMA PassTyped ==
  ASSUME TypeOK, NEW e \in Engine, PassStep(e) \/ Fails(e)
  PROVE  TypeOK'
<1>0. eng[e] \in EngineState /\ {"layout", "drain", "list", "move", "land", "done"} \subseteq Stages
  BY DEF TypeOK, Stages
<1>1. CASE Begins(e)
  <2>1. eng[e].synced \in BOOLEAN
    BY <1>0 DEF EngineState
  <2>2. [eng[e] EXCEPT !.stage = "layout"] \in EngineState
    BY <1>0, FieldTyped
  <2>3. eng' \in [Engine -> EngineState] /\ st' \in SyncState /\ saved' \in SyncState
    BY <1>1, <2>1, <2>2, EngTyped, EmitTyped DEF Begins, TypeOK
  <2> QED
    BY <1>1, <2>3 DEF Begins, TypeOK
<1>2. CASE EnsureLayout(e)
  <2>1. CASE MemOf(e) # None
    BY <1>0, <1>2, <2>1, NextTyped DEF EnsureLayout, TypeOK
  <2>2. CASE MemOf(e) = None
    <3>1. PICK a \in Account :
            /\ Carries(e, a) /\ windows' = windows \cup Late(e)
            /\ \/ st' = [st EXCEPT !.mem = a] /\ Next1(e, "drain")
               \/ /\ eng' = [eng EXCEPT ![e] = [eng[e] EXCEPT !.stage = "drain", !.held = NoToken,
                                                              !.mem = a]]
                  /\ UNCHANGED st
      BY <1>2, <2>2 DEF EnsureLayout
    <3>2. st' \in SyncState /\ saved' \in SyncState
      BY <1>2, <2>2, <3>1, StateTyped DEF EnsureLayout, TypeOK, SomeAccount
    <3>3. [eng[e] EXCEPT !.stage = "drain", !.held = NoToken, !.mem = a] \in EngineState
      BY <1>0 DEF EngineState, NoToken, Token, SomeAccount
    <3>4. eng' \in [Engine -> EngineState]
      BY <1>0, <3>1, <3>3, EngTyped, NextTyped DEF TypeOK
    <3>5. auth' \in Token /\ windows' \subseteq Windows
      BY <3>1, CarriesTyped, WindowsTyped DEF TypeOK
    <3> QED
      BY <1>2, <3>2, <3>4, <3>5 DEF EnsureLayout, TypeOK
  <2> QED
    BY <2>1, <2>2
<1>3. CASE Purges(e)
  <2>1. QueueOf(e) # Empty /\ Granted(e, MemOf(e))
    BY <1>3 DEF Purges
  <2>2. auth' \in Token /\ windows' \subseteq Windows
    BY <2>1, GrantedTyped
  <2>3. st' \in SyncState /\ saved' \in SyncState
    BY <1>3, StateTyped DEF Purges, TypeOK
  <2>4. [eng[e] EXCEPT !.stage = "list", !.held = NoToken, !.queue = Empty] \in EngineState
    BY <1>0 DEF EngineState, NoToken, Token, SomeAccount
  <2>5. eng' \in [Engine -> EngineState]
    BY <1>0, <1>3, <2>4, EngTyped, NextTyped DEF Purges, TypeOK
  <2> QED
    BY <1>3, <2>2, <2>3, <2>5 DEF Purges, TypeOK
<1>4. CASE PurgesNothing(e)
  <2>1. eng' \in [Engine -> EngineState]
    BY <1>0, <1>4, NextTyped DEF PurgesNothing
  <2>2. auth' \in Token /\ windows' \subseteq Windows
    BY <1>4, GrantedTyped DEF PurgesNothing, TypeOK
  <2> QED
    BY <1>4, <2>1, <2>2 DEF PurgesNothing, TypeOK
<1>5. ASSUME NEW s \in Stages, NEW t \in Stages, Requests(e, s, t) PROVE TypeOK'
  <2>1. eng' \in [Engine -> EngineState]
    BY <1>5, NextTyped DEF Requests
  <2>2. auth' \in Token /\ windows' \subseteq Windows
    BY <1>5, GrantedTyped DEF Requests
  <2> QED
    BY <1>5, <2>1, <2>2 DEF Requests, TypeOK
<1>6. CASE Land(e)
  <2>1. eng' \in [Engine -> EngineState]
    BY <1>0, <1>6, NextTyped DEF Land
  <2>2. MemOf(e) \in SomeAccount
    BY <1>0 DEF MemOf, EngineState, TypeOK, SyncState
  <2> QED
    BY <1>6, <2>1, <2>2, WindowsTyped DEF Land, TypeOK
<1>7. CASE Finishes(e)
  BY <1>7, EndsTyped DEF Finishes, TypeOK
<1>8. CASE Fails(e)
  BY <1>8, EndsTyped, FaultTyped DEF Fails, TypeOK
<1>9. CASE Misdirected(e)
  <2>1. auth' \in Token
    BY <1>9, CarriesTyped DEF Misdirected
  <2> QED
    BY <1>9, <2>1, EndsTyped DEF Misdirected, TypeOK
<1>10. CASE Denied(e)
  BY <1>10, EndsTyped DEF Denied, TypeOK
<1>11. CASE HandleSignedOut(e)
  <2>1. eng[e].synced \in BOOLEAN
    BY <1>0 DEF EngineState
  <2>2. st' \in SyncState /\ saved' \in SyncState
    BY <1>11, <2>1, EmitTyped DEF HandleSignedOut
  <2>3. eng' \in [Engine -> EngineState]
    BY <1>11, StopTyped, EndedTyped DEF HandleSignedOut
  <2>4. auth' \in Token /\ shown' \in SomeAccount
    BY <1>11 DEF HandleSignedOut, NoToken, Token, SomeAccount
  <2> QED
    BY <1>11, <2>2, <2>3, <2>4, WindowsTyped, OpTyped DEF HandleSignedOut, TypeOK
<1>12. CASE Refused(e)
  BY <1>12, TokenTyped
<1> QED
  BY <1>1, <1>2, <1>3, <1>4, <1>5, <1>6, <1>7, <1>8, <1>9, <1>10, <1>11, <1>12
     DEF PassStep, ListRemote, Transfer, Stages

LEMMA OutsideTyped ==
  ASSUME TypeOK, RequestRemotePurge \/ FetchBook \/ Revoked \/ Restart
  PROVE  TypeOK'
<1>1. CASE RequestRemotePurge
  <2>1. st' \in SyncState /\ saved' \in SyncState
    BY <1>1, StateTyped DEF RequestRemotePurge, TypeOK
  <2> QED
    BY <1>1, <2>1 DEF RequestRemotePurge, TypeOK
<1>2. CASE FetchBook
  <2>1. PICK e \in Engine, w \in {{}, {"asked"}} :
          Ensured(e, w) /\ eng' = [eng EXCEPT ![e] = Built]
    BY <1>2 DEF FetchBook
  <2>2. eng' \in [Engine -> EngineState]
    BY <2>1, BuiltTyped, EngTyped DEF TypeOK
  <2>3. current' \in {0} \cup Engine /\ windows' \subseteq Windows
    BY <2>1, WindowsTyped DEF Ensured, TypeOK
  <2>4. faults' \in 0 .. MaxFaults
    BY <1>2, FaultTyped DEF FetchBook, TypeOK
  <2> QED
    BY <1>2, <2>2, <2>3, <2>4 DEF FetchBook, TypeOK
<1>3. CASE Revoked
  <2>1. [auth EXCEPT !.alive = FALSE] \in Token
    BY DEF TypeOK, Token
  <2>2. ASSUME NEW e \in Engine
        PROVE  [eng[e] EXCEPT !.held.alive = FALSE] \in EngineState
    <3>1. eng[e] \in EngineState /\ [eng[e].held EXCEPT !.alive = FALSE] \in Token
      BY DEF TypeOK, EngineState, Token
    <3>2. [eng[e] EXCEPT !.held = [eng[e].held EXCEPT !.alive = FALSE]] \in EngineState
      BY <3>1, FieldTyped
    <3> QED
      BY <3>2
  <2>3. eng' \in [Engine -> EngineState]
    BY <1>3, <2>2 DEF Revoked, TypeOK
  <2> QED
    BY <1>3, <2>1, <2>3, FaultTyped DEF Revoked, TypeOK
<1>4. CASE Restart
  <2>1. 1 \in Engine
    BY AccountSessionAssumption DEF Engine
  <2>2. [Gone EXCEPT !.mem = Shared, !.queue = Shared, !.ticking = TRUE,
                     !.synced = saved.lastSync, !.stage = "layout"] \in EngineState
    BY DEF Gone, NoToken, EngineState, Token, SomeAccount, Stages, TypeOK, SyncState
  <2>3. eng' \in [Engine -> EngineState] /\ current' \in {0} \cup Engine
    BY <1>4, <2>1, <2>2, GoneTyped DEF Restart
  <2>4. shown' \in SomeAccount
    BY <1>4 DEF Restart, TypeOK, Token
  <2> QED
    BY <1>4, <2>3, <2>4, OpTyped, FaultTyped, WindowsTyped DEF Restart, TypeOK
<1> QED
  BY <1>1, <1>2, <1>3, <1>4

LEMMA InitTyped == Init => TypeOK
<1> SUFFICES ASSUME Init PROVE TypeOK
  OBVIOUS
<1>1. PICK a \in Starting :
        /\ auth = [of |-> a, alive |-> a # None] /\ shown = a /\ base = a
        /\ st = [mem |-> a, queue |-> Empty, tag |-> None,
                 lastSync |-> a # None, autoSync |-> a # None]
        /\ current = IF a = None THEN 0 ELSE 1
        /\ eng = [e \in Engine |->
             IF e # current THEN Gone
             ELSE [Gone EXCEPT !.mem = Shared, !.queue = Shared,
                               !.ticking = TRUE, !.synced = TRUE]]
  BY DEF Init
<1>2. (a # None) \in BOOLEAN /\ a \in SomeAccount
  BY AccountSessionAssumption DEF SomeAccount
<1>3. \A b \in BOOLEAN :
        /\ [of |-> a, alive |-> b] \in Token
        /\ [mem |-> a, queue |-> Empty, tag |-> None,
            lastSync |-> b, autoSync |-> b] \in SyncState
  BY <1>2 DEF Token, SyncState, SomeAccount
<1>4. auth \in Token /\ st \in SyncState
  BY <1>1, <1>2, <1>3, Zenon
<1>5. current \in {0} \cup Engine
  BY <1>1, AccountSessionAssumption DEF Engine
<1>6. [Gone EXCEPT !.mem = Shared, !.queue = Shared, !.ticking = TRUE,
                   !.synced = TRUE] \in EngineState
  BY DEF Gone, NoToken, EngineState, Token, SomeAccount, Stages
<1>7. eng \in [Engine -> EngineState]
  BY <1>1, <1>6, GoneTyped
<1>8. named \in BOOLEAN /\ saved \in SyncState /\ op \in Ops
  BY <1>4, AccountSessionAssumption DEF Init, Ops, NoOps
<1>9. clicks \in 0 .. MaxClicks /\ faults \in 0 .. MaxFaults
  BY AccountSessionAssumption DEF Init
<1>10. asked \in BOOLEAN /\ left \in BOOLEAN /\ windows \subseteq Windows
  BY Zenon DEF Init
<1> QED
  BY <1>1, <1>2, <1>4, <1>5, <1>7, <1>8, <1>9, <1>10, Zenon DEF TypeOK

LEMMA StepTyped == TypeOK /\ [Next]_vars => TypeOK'
<1> SUFFICES ASSUME TypeOK, [Next]_vars PROVE TypeOK'
  OBVIOUS
<1>1. CASE Card
  BY <1>1, CardTyped
<1>2. CASE Continues
  BY <1>2, ContinuesTyped
<1>3. ASSUME NEW e \in Engine, PassStep(e) \/ Renew(e) \/ Fails(e) PROVE TypeOK'
  BY <1>3, PassTyped, TokenTyped
<1>4. CASE RequestRemotePurge \/ FetchBook \/ Revoked \/ Restart
  BY <1>4, OutsideTyped
<1>5. CASE UNCHANGED vars
  BY <1>5 DEF vars, TypeOK, SyncState
<1> QED
  BY <1>1, <1>2, <1>3, <1>4, <1>5 DEF Next

(***************************************************************************)
(* Every reachable state is well typed: in particular index.ts holds no    *)
(* engine that does not exist, and no operation is in two places.          *)
(***************************************************************************)
THEOREM TypeCorrect == Spec => []TypeOK
BY InitTyped, StepTyped, PTL DEF Spec

-----------------------------------------------------------------------------
(***************************************************************************)
(* A token on the wire is that of the account shown, where the engine is   *)
(* that of the session; and nobody is shown while a sign-in is in the      *)
(* browser, so the account it brings finds no other's token under way.     *)
(***************************************************************************)
IsLate == "late" \in windows
RenewsAsShown ==
  \A e \in Engine : e = current /\ eng[e].mem = Shared => eng[e].held.of \in {None, shown}
SignsInFromOut == op.signIn = "browser" => shown = None

ShownInv == auth.of \in {None, shown} /\ RenewsAsShown
AInv == TypeOK /\ OneEngineTicks /\ SignsInFromOut /\ (IsLate \/ ShownInv)

LEMMA LateIsBarred == Barred({"late"}) <=> IsLate
BY DEF Barred, IsLate

(***************************************************************************)
(* What most steps do to an engine: nothing that AInv would notice.        *)
(***************************************************************************)
Quiet(f, g) == \A e \in Engine :
  /\ g[e].ticking => f[e].ticking
  /\ g[e].mem = Shared => f[e].mem = Shared
  /\ g[e].held = f[e].held \/ g[e].held = NoToken

LEMMA QuietChange ==
  ASSUME NEW f \in [Engine -> EngineState], NEW e \in Engine, NEW r \in EngineState,
         r.ticking => f[e].ticking, r.mem = Shared => f[e].mem = Shared,
         r.held = f[e].held \/ r.held = NoToken
  PROVE  Quiet(f, [f EXCEPT ![e] = r])
BY DEF Quiet

LEMMA QuietHeld ==
  ASSUME NEW f \in [Engine -> EngineState], NEW g \in [Engine -> EngineState], NEW c,
         Quiet(f, g)
  PROVE  Quiet(f, Held(g, c))
<1>1. ~Gone.ticking /\ Gone.mem # Shared /\ Gone.held = NoToken
  BY AccountSessionAssumption DEF Gone
<1> QED
  BY <1>1 DEF Held, Quiet

LEMMA QuietEnded ==
  ASSUME NEW f \in [Engine -> EngineState], NEW e \in Engine, NEW c, NEW b
  PROVE  Quiet(f, Ended(e, f, c, b))
<1> DEFINE synced == f[e].synced \/ b
           r == [f[e] EXCEPT !.stage = "idle", !.waited = FALSE,
                             !.held = NoToken, !.synced = synced]
           g == [f EXCEPT ![e] = r]
<1>1. synced \in BOOLEAN /\ f[e] \in EngineState
  BY Zenon
<1>2. r \in EngineState
  BY <1>1, RestTyped, Zenon
<1>3. r.ticking = f[e].ticking /\ r.mem = f[e].mem /\ r.held = NoToken
  BY <1>1 DEF EngineState
<1>4. Ended(e, f, c, b) = Held(g, c)
  BY DEF Ended
<1> HIDE DEF r
<1>5. g \in [Engine -> EngineState] /\ Quiet(f, g)
  BY <1>2, <1>3, EngTyped, QuietChange
<1> HIDE DEF g
<1> QED
  BY <1>4, <1>5, QuietHeld

LEMMA QuietNext ==
  ASSUME TypeOK, NEW e \in Engine, NEW s \in Stages, Next1(e, s)
  PROVE  Quiet(eng, eng')
<1> DEFINE r == [eng[e] EXCEPT !.stage = s, !.held = NoToken]
<1>1. eng[e] \in EngineState /\ NoToken \in Token
  BY DEF TypeOK, NoToken, Token, SomeAccount
<1>2. r \in EngineState /\ r.ticking = eng[e].ticking /\ r.mem = eng[e].mem /\ r.held = NoToken
  BY <1>1 DEF EngineState
<1>3. eng' = [eng EXCEPT ![e] = r]
  BY DEF Next1
<1> HIDE DEF r
<1> QED
  BY <1>2, <1>3, QuietChange DEF TypeOK

(***************************************************************************)
(* A step that is quiet for the engines, and leaves the session as it is,  *)
(* keeps AInv if it makes requests as somebody who is shown.               *)
(***************************************************************************)
LEMMA QuietKeeps ==
  ASSUME AInv, TypeOK', Quiet(eng, eng'), current' = current, shown' = shown,
         op'.signIn \in {op.signIn, "no"}, windows \subseteq windows',
         IsLate' \/ auth'.of \in {None, shown}
  PROVE  AInv'
<1>1. OneEngineTicks' /\ SignsInFromOut'
  BY DEF AInv, OneEngineTicks, SignsInFromOut, Quiet
<1>2. IsLate => IsLate'
  BY DEF IsLate
<1>3. ASSUME ShownInv PROVE RenewsAsShown'
  <2>1. NoToken.of = None
    BY DEF NoToken
  <2> QED
    BY <1>3, <2>1 DEF ShownInv, RenewsAsShown, Quiet
<1> QED
  BY <1>1, <1>2, <1>3 DEF AInv, ShownInv

LEMMA CarriesAsShown ==
  ASSUME AInv, NEW e \in Engine, NEW a, Carries(e, a), windows' = windows \cup Late(e)
  PROVE  IsLate' \/ auth'.of \in {None, shown}
<1>1. CASE UNCHANGED auth
  BY <1>1 DEF AInv, ShownInv, IsLate
<1>2. CASE auth' = eng[e].held
  BY <1>2 DEF Late, AInv, ShownInv, RenewsAsShown, IsLate
<1> QED
  BY <1>1, <1>2 DEF Carries

LEMMA GrantedAsShown ==
  ASSUME AInv, NEW e \in Engine, NEW a, Granted(e, a)
  PROVE  /\ windows \subseteq windows'
         /\ IsLate' \/ auth'.of \in {None, shown}
<1>1. CASE eng[e].held = NoToken
  <2>1. UNCHANGED windows /\ (UNCHANGED auth \/ auth'.of = None)
    BY <1>1 DEF Granted, Carries, NoToken
  <2> QED
    BY <2>1 DEF AInv, ShownInv, IsLate
<1>2. CASE eng[e].held # NoToken
  BY <1>2, CarriesAsShown DEF Granted
<1> QED
  BY <1>1, <1>2

LEMMA EndsQuiet ==
  ASSUME TypeOK, NEW e \in Engine, NEW b, Ends(e, b)
  PROVE  /\ Quiet(eng, eng') /\ op'.signIn = op.signIn
         /\ windows' = windows \cup Late(e)
<1>1. Quiet(eng, eng')
  BY QuietEnded DEF Ends, TypeOK
<1>2. op'.signIn = op.signIn
  BY DEF Ends, TypeOK, Ops
<1> QED
  BY <1>1, <1>2 DEF Ends

LEMMA PassKeeps ==
  ASSUME AInv, NEW e \in Engine, PassStep(e) \/ Fails(e), ~HandleSignedOut(e), TypeOK'
  PROVE  AInv'
<1>0. TypeOK /\ eng[e] \in EngineState /\ NoToken \in Token
      /\ {"layout", "drain", "list", "move", "land", "done", "denied"} \subseteq Stages
  BY DEF AInv, TypeOK, Stages, NoToken, Token, SomeAccount
<1>1. IsLate \/ auth.of \in {None, shown}
  BY DEF AInv, ShownInv
<1>2. CASE Begins(e)
  <2>1. eng' = [eng EXCEPT ![e] = [eng[e] EXCEPT !.stage = "layout"]]
        /\ UNCHANGED <<auth, shown, current, op, windows>>
    BY <1>2 DEF Begins
  <2>2. Quiet(eng, eng')
    BY <1>0, <2>1 DEF Quiet, TypeOK, EngineState
  <2> QED
    BY <1>1, <2>1, <2>2, QuietKeeps DEF IsLate
<1>3. CASE EnsureLayout(e)
  <2>1. UNCHANGED <<shown, current, op>>
    BY <1>3 DEF EnsureLayout
  <2>2. CASE MemOf(e) # None
    <3>1. Next1(e, "drain") /\ UNCHANGED <<auth, windows>>
      BY <1>3, <2>2 DEF EnsureLayout
    <3> QED
      BY <1>0, <1>1, <2>1, <3>1, QuietNext, QuietKeeps DEF IsLate
  <2>3. CASE MemOf(e) = None
    <3>1. PICK a \in Account :
            /\ Carries(e, a) /\ windows' = windows \cup Late(e)
            /\ \/ Next1(e, "drain")
               \/ eng' = [eng EXCEPT ![e] = [eng[e] EXCEPT !.stage = "drain", !.held = NoToken,
                                                           !.mem = a]]
      BY <1>3, <2>3 DEF EnsureLayout
    <3> DEFINE r == [eng[e] EXCEPT !.stage = "drain", !.held = NoToken, !.mem = a]
    <3>2. r \in EngineState /\ r.ticking = eng[e].ticking /\ r.held = NoToken /\ r.mem # Shared
      BY <1>0, AccountSessionAssumption DEF EngineState, SomeAccount
    <3> HIDE DEF r
    <3>3. Quiet(eng, [eng EXCEPT ![e] = r])
      BY <1>0, <3>2, QuietChange DEF TypeOK
    <3>4. Quiet(eng, eng')
      BY <1>0, <3>1, <3>3, QuietNext DEF r
    <3> QED
      BY <2>1, <3>1, <3>4, CarriesAsShown, QuietKeeps
  <2> QED
    BY <2>2, <2>3
<1>4. CASE Purges(e)
  <2>1. Granted(e, MemOf(e)) /\ UNCHANGED <<shown, current, op>>
    BY <1>4 DEF Purges
  <2> DEFINE r == [eng[e] EXCEPT !.stage = "list", !.held = NoToken, !.queue = Empty]
  <2>2. r \in EngineState /\ r.ticking = eng[e].ticking /\ r.held = NoToken /\ r.mem = eng[e].mem
    BY <1>0 DEF EngineState
  <2>3. Next1(e, "list") \/ eng' = [eng EXCEPT ![e] = r]
    BY <1>4 DEF Purges
  <2> HIDE DEF r
  <2>4. Quiet(eng, [eng EXCEPT ![e] = r])
    BY <1>0, <2>2, QuietChange DEF TypeOK
  <2>5. Quiet(eng, eng')
    BY <1>0, <2>3, <2>4, QuietNext
  <2> QED
    BY <2>1, <2>5, GrantedAsShown, QuietKeeps
<1>5. CASE PurgesNothing(e)
  <2>1. Next1(e, "list") /\ UNCHANGED <<shown, current, op>>
    BY <1>5 DEF PurgesNothing
  <2>2. windows \subseteq windows' /\ (IsLate' \/ auth'.of \in {None, shown})
    BY <1>1, <1>5, GrantedAsShown DEF PurgesNothing, IsLate
  <2> QED
    BY <1>0, <2>1, <2>2, QuietNext, QuietKeeps
<1>6. ASSUME NEW s \in Stages, NEW t \in Stages, Requests(e, s, t) PROVE AInv'
  <2>1. Granted(e, MemOf(e)) /\ Next1(e, t) /\ UNCHANGED <<shown, current, op>>
    BY <1>6 DEF Requests
  <2> QED
    BY <1>0, <2>1, QuietNext, GrantedAsShown, QuietKeeps
<1>7. CASE Land(e)
  <2>1. Next1(e, "done") /\ UNCHANGED <<auth, shown, current, op>>
        /\ windows \subseteq windows'
    BY <1>7 DEF Land
  <2> QED
    BY <1>0, <1>1, <2>1, QuietNext, QuietKeeps DEF IsLate
<1>8. CASE Finishes(e) \/ Fails(e) \/ Denied(e)
  <2>1. PICK b \in BOOLEAN : Ends(e, b) /\ UNCHANGED <<auth, shown, current>>
    BY <1>8 DEF Finishes, Fails, Denied
  <2> QED
    BY <1>0, <1>1, <2>1, EndsQuiet, QuietKeeps DEF IsLate
<1>9. CASE Misdirected(e)
  <2>1. Ends(e, FALSE) /\ UNCHANGED <<shown, current>>
        /\ \E a \in Account : Carries(e, a)
    BY <1>9 DEF Misdirected
  <2>2. windows' = windows \cup Late(e)
    BY <1>0, <2>1, EndsQuiet
  <2>3. IsLate' \/ auth'.of \in {None, shown}
    BY <2>1, <2>2, CarriesAsShown
  <2> QED
    BY <1>0, <2>1, <2>2, <2>3, EndsQuiet, QuietKeeps
<1>10. CASE Refused(e)
  <2> DEFINE r == [eng[e] EXCEPT !.stage = "denied", !.held = NoToken]
  <2>1. r \in EngineState /\ r.ticking = eng[e].ticking /\ r.held = NoToken /\ r.mem = eng[e].mem
    BY <1>0 DEF EngineState
  <2>2. eng' = [eng EXCEPT ![e] = r] /\ UNCHANGED <<shown, current, op>>
        /\ windows \subseteq windows'
    BY <1>10 DEF Refused
  <2> HIDE DEF r
  <2>3. Quiet(eng, eng')
    BY <1>0, <2>1, <2>2, QuietChange DEF TypeOK
  <2>4. IsLate' \/ auth'.of \in {None, shown}
    <3>1. NoToken.of = None
      BY DEF NoToken
    <3> QED
      BY <1>1, <1>10, <3>1 DEF Refused, IsLate
  <2> QED
    BY <2>2, <2>3, <2>4, QuietKeeps
<1> QED
  BY <1>2, <1>3, <1>4, <1>5, <1>6, <1>7, <1>8, <1>9, <1>10
     DEF PassStep, ListRemote, Transfer, Stages

LEMMA NoneTicksStopped ==
  ASSUME TypeOK, OneEngineTicks
  PROVE  \A e \in Engine : ~Stopped[e].ticking
<1>1. CASE current = 0
  BY <1>1 DEF Stopped, OneEngineTicks, Engine
<1>2. CASE current # 0
  BY <1>2 DEF Stopped, OneEngineTicks, TypeOK, EngineState
<1> QED
  BY <1>1, <1>2

LEMMA DroppedKeeps ==
  ASSUME AInv, NEW e \in Engine, HandleSignedOut(e), TypeOK'
  PROVE  AInv'
<1>0. TypeOK /\ OneEngineTicks /\ NoToken.of = None /\ 0 \notin Engine
  BY DEF AInv, NoToken, Engine
<1>1. current' = 0 /\ shown' = None /\ auth' = NoToken /\ eng' = Ended(e, Stopped, 0, FALSE)
  BY DEF HandleSignedOut
<1>2. Quiet(Stopped, eng')
  BY <1>0, <1>1, StopTyped, QuietEnded
<1>3. OneEngineTicks'
  BY <1>0, <1>2, NoneTicksStopped DEF OneEngineTicks, Quiet
<1> QED
  BY <1>0, <1>1, <1>3 DEF AInv, SignsInFromOut, ShownInv, RenewsAsShown

LEMMA RenewKeeps ==
  ASSUME AInv, NEW e \in Engine, Renew(e), TypeOK'
  PROVE  AInv'
<1>1. eng' = [eng EXCEPT ![e].held = auth]
      /\ UNCHANGED <<auth, shown, current, op, windows>>
  BY DEF Renew
<1>2. \A x \in Engine : eng'[x].ticking = eng[x].ticking /\ eng'[x].mem = eng[x].mem
                        /\ eng'[x].held \in {eng[x].held, auth}
  BY <1>1 DEF AInv, TypeOK, EngineState
<1> QED
  BY <1>1, <1>2 DEF AInv, OneEngineTicks, SignsInFromOut, ShownInv, RenewsAsShown, IsLate

(***************************************************************************)
(* An engine that is built, or found and started, is the current one.      *)
(***************************************************************************)
LEMMA EnsuredKeeps ==
  ASSUME AInv, NEW e \in Engine, NEW w, Ensured(e, w), TypeOK',
         NEW r \in EngineState, eng' = [eng EXCEPT ![e] = r],
         r.mem = Found(e).mem, r.held = Found(e).held,
         UNCHANGED <<auth, shown>>, op'.signIn \in {op.signIn, "no"}
  PROVE  AInv'
<1>0. TypeOK /\ 0 \notin Engine /\ Built.held.of = None
  BY DEF AInv, Engine, Built, Gone, NoToken
<1>1. current' = e /\ windows \subseteq windows' /\ (current = 0 \/ current = e)
  BY DEF Ensured
<1>2. \A x \in Engine \ {e} : eng'[x] = eng[x] /\ ~eng[x].ticking
  BY <1>0, <1>1 DEF AInv, OneEngineTicks, TypeOK
<1>3. eng'[e] = r
  BY <1>0 DEF TypeOK
<1>4. OneEngineTicks' /\ SignsInFromOut'
  BY <1>1, <1>2 DEF AInv, OneEngineTicks, SignsInFromOut
<1>5. ASSUME ShownInv PROVE ShownInv'
  <2>1. r.mem = Shared => r.held.of \in {None, shown}
    BY <1>0, <1>1, <1>5 DEF Found, ShownInv, RenewsAsShown
  <2> QED
    BY <1>1, <1>3, <1>5, <2>1 DEF ShownInv, RenewsAsShown
<1> QED
  BY <1>1, <1>4, <1>5 DEF AInv, IsLate

LEMMA StartKeeps ==
  ASSUME AInv, StartEngine, TypeOK', UNCHANGED <<auth, shown>>, op'.signIn \in {op.signIn, "no"}
  PROVE  AInv'
<1> DEFINE begins(r) == ~r.ticking /\ r.stage = "idle"
           next(r) == [r EXCEPT !.ticking = TRUE,
                                !.stage = IF begins(r) THEN "layout" ELSE @]
<1>1. PICK e \in Engine : Ensured(e, {}) /\ eng' = [eng EXCEPT ![e] = next(Found(e))]
  BY DEF StartEngine
<1>2. Found(e) \in EngineState
  BY BuiltTyped DEF Found, AInv, TypeOK
<1>3. next(Found(e)) \in EngineState /\ next(Found(e)).mem = Found(e).mem
      /\ next(Found(e)).held = Found(e).held
  BY <1>2 DEF EngineState, Stages
<1> HIDE DEF next
<1> QED
  BY <1>1, <1>3, EnsuredKeeps

LEMMA StopKeeps ==
  ASSUME AInv, StopEngine, TypeOK', UNCHANGED <<auth, shown>>, op'.signIn \in {op.signIn, "no"}
  PROVE  AInv'
<1>0. TypeOK /\ OneEngineTicks
  BY DEF AInv
<1>1. eng' = Stopped /\ UNCHANGED <<current, windows>>
  BY DEF StopEngine
<1>2. \A e \in Engine : Stopped[e].mem = eng[e].mem /\ Stopped[e].held = eng[e].held
  BY <1>0 DEF Stopped, TypeOK, EngineState
<1>3. Quiet(eng, eng')
  BY <1>0, <1>1, <1>2, NoneTicksStopped DEF Quiet
<1> QED
  BY <1>1, <1>3, QuietKeeps DEF AInv, ShownInv, IsLate

LEMMA CardKeeps == ASSUME AInv, Card, TypeOK' PROVE AInv'
<1>0. TypeOK /\ OneEngineTicks /\ op \in Ops /\ 0 \notin Engine
  BY DEF AInv, TypeOK, Engine
<1>1. CASE ClickSignIn
  <2>1. op'.signIn = "browser" /\ shown = None
    BY <1>0, <1>1 DEF ClickSignIn, Ops
  <2> QED
    BY <1>1, <2>1 DEF ClickSignIn, AInv, OneEngineTicks, SignsInFromOut, ShownInv,
                      RenewsAsShown, IsLate
<1>2. CASE SignInAbandoned
  <2>1. op'.signIn = "no"
    BY <1>0, <1>2 DEF SignInAbandoned, Ops
  <2> QED
    BY <1>2, <2>1 DEF SignInAbandoned, AInv, OneEngineTicks, SignsInFromOut, ShownInv,
                      RenewsAsShown, IsLate
<1>3. CASE ClickSignOut
  <2>1. op'.signIn = op.signIn
    BY <1>0, <1>3 DEF ClickSignOut, Ops
  <2>2. current' = 0 /\ eng' = Held(Stopped, 0) /\ UNCHANGED <<auth, shown>>
        /\ windows \subseteq windows'
    BY <1>3 DEF ClickSignOut
  <2>3. ~Gone.ticking
    BY DEF Gone
  <2>4. \A e \in Engine : ~eng'[e].ticking
    BY <1>0, <2>2, <2>3, NoneTicksStopped DEF Held
  <2> QED
    BY <1>0, <2>1, <2>2, <2>4 DEF AInv, OneEngineTicks, SignsInFromOut, ShownInv,
                                  RenewsAsShown, IsLate
<1>4. CASE ClickToggle
  <2>1. op'.signIn = op.signIn
    BY <1>0, <1>4 DEF ClickToggle, Ops
  <2> QED
    BY <1>4, <2>1 DEF ClickToggle, AInv, OneEngineTicks, SignsInFromOut, ShownInv,
                      RenewsAsShown, IsLate
<1>5. CASE ClickSyncNow
  <2> DEFINE next(r) == [r EXCEPT !.stage = "layout", !.waited = TRUE]
  <2>1. PICK e \in Engine :
          /\ Ensured(e, Overlap) /\ op' = [op EXCEPT !.syncNow = "pass"]
          /\ eng' = [eng EXCEPT ![e] = next(Found(e))]
          /\ UNCHANGED <<auth, shown>>
    BY <1>5 DEF ClickSyncNow
  <2>2. Found(e) \in EngineState
    BY <1>0, BuiltTyped DEF Found, TypeOK
  <2>3. next(Found(e)) \in EngineState /\ next(Found(e)).mem = Found(e).mem
        /\ next(Found(e)).held = Found(e).held
    BY <2>2 DEF EngineState, Stages
  <2>4. op'.signIn = op.signIn
    BY <1>0, <2>1 DEF Ops
  <2> HIDE DEF next
  <2> QED
    BY <2>1, <2>3, <2>4, EnsuredKeeps
<1>6. ASSUME NEW a \in Account, SignInGranted(a) PROVE AInv'
  <2>1. shown = None /\ op'.signIn = "saving"
    BY <1>0, <1>6 DEF SignInGranted, AInv, SignsInFromOut, Ops
  <2>2. auth'.of = a /\ shown' = a /\ UNCHANGED current /\ (IsLate => IsLate')
    BY <1>6 DEF SignInGranted, IsLate
  <2>3. \A e \in Engine : /\ eng'[e].ticking = eng[e].ticking
                          /\ eng'[e].held = eng[e].held
                          /\ eng'[e].mem = Shared => eng[e].mem = Shared \/ st.mem = Shared
    BY <1>0, <1>6 DEF SignInGranted, Becomes, TypeOK, EngineState
  <2>4. st.mem # Shared
    BY <1>0, AccountSessionAssumption DEF TypeOK, SyncState, SomeAccount
  <2> QED
    BY <2>1, <2>2, <2>3, <2>4 DEF AInv, OneEngineTicks, SignsInFromOut, ShownInv,
                                  RenewsAsShown, IsLate
<1>7. CASE ClickSyncNowBeside
  <2>1. \A e \in Engine : /\ eng'[e].ticking => eng[e].ticking \/ e = current
                          /\ eng'[e].held = eng[e].held /\ eng'[e].mem = eng[e].mem
    BY <1>0, <1>7 DEF ClickSyncNowBeside, TypeOK, EngineState
  <2> QED
    BY <1>7, <2>1 DEF ClickSyncNowBeside, AInv, OneEngineTicks, SignsInFromOut, ShownInv,
                      RenewsAsShown, IsLate
<1> QED
  BY <1>1, <1>2, <1>3, <1>4, <1>5, <1>6, <1>7 DEF Card

LEMMA ContinuesKeeps == ASSUME AInv, Continues, TypeOK' PROVE AInv'
<1>0. TypeOK /\ op \in Ops /\ st.mem # Shared
  BY AccountSessionAssumption DEF AInv, TypeOK, SyncState, SomeAccount
<1>1. CASE SignInStarts
  <2>1. op.signIn = "saving" /\ op'.signIn = "no"
    BY <1>0, <1>1 DEF SignInStarts, Ops
  <2>2. StartEngine /\ UNCHANGED <<auth, shown>>
    BY <1>1 DEF SignInStarts
  <2> QED
    BY <2>1, <2>2, StartKeeps
<1>2. CASE SignOutClears
  <2>1. op'.signIn = op.signIn
    BY <1>0, <1>2 DEF SignOutClears, Ops
  <2>2. auth'.of = None /\ shown' = None /\ UNCHANGED <<current, windows>>
    BY <1>2 DEF SignOutClears, NoToken
  <2>3. \A e \in Engine : eng'[e].ticking = eng[e].ticking /\ eng'[e].mem # Shared
    BY <1>0, <1>2 DEF SignOutClears, Becomes, TypeOK, EngineState
  <2> QED
    BY <2>1, <2>2, <2>3 DEF AInv, OneEngineTicks, SignsInFromOut, ShownInv,
                            RenewsAsShown, IsLate
<1>3. CASE SignOutRemoves
  <2>1. op'.signIn = op.signIn
    BY <1>0, <1>3 DEF SignOutRemoves, Ops
  <2> QED
    BY <1>3, <2>1 DEF SignOutRemoves, AInv, OneEngineTicks, SignsInFromOut, ShownInv,
                      RenewsAsShown, IsLate
<1>4. CASE Toggles
  <2>1. op'.signIn = op.signIn
    BY <1>0, <1>4 DEF Toggles, Ops
  <2> QED
    BY <1>4, <2>1, StartKeeps, StopKeeps DEF Toggles
<1>5. CASE SyncNowDone
  <2>1. op'.signIn = op.signIn
    BY <1>0, <1>5 DEF SyncNowDone, Ops
  <2>2. CASE st.autoSync
    BY <1>5, <2>1, <2>2, StartKeeps DEF SyncNowDone
  <2>3. CASE ~st.autoSync
    BY <1>5, <2>1, <2>3 DEF SyncNowDone, AInv, OneEngineTicks, SignsInFromOut, ShownInv,
                            RenewsAsShown, IsLate
  <2> QED
    BY <2>2, <2>3
<1> QED
  BY <1>1, <1>2, <1>3, <1>4, <1>5 DEF Continues

LEMMA OutsideKeeps ==
  ASSUME AInv, RequestRemotePurge \/ FetchBook \/ Revoked \/ Restart, TypeOK'
  PROVE  AInv'
<1>0. TypeOK /\ 0 \notin Engine
  BY DEF AInv, Engine
<1>1. CASE RequestRemotePurge
  BY <1>1 DEF RequestRemotePurge, AInv, OneEngineTicks, SignsInFromOut, ShownInv,
              RenewsAsShown, IsLate
<1>2. CASE FetchBook
  <2>1. PICK e \in Engine, w \in {{}, {"asked"}} :
          Ensured(e, w) /\ eng' = [eng EXCEPT ![e] = Built]
    BY <1>2 DEF FetchBook
  <2>2. current = 0 /\ UNCHANGED <<auth, shown, op>>
    BY <1>2 DEF FetchBook
  <2>3. Found(e) = Built
    BY <2>2, <1>0 DEF Found
  <2> QED
    BY <1>0, <2>1, <2>2, <2>3, BuiltTyped, EnsuredKeeps
<1>3. CASE Revoked
  <2>1. auth'.of = auth.of /\ UNCHANGED <<shown, current, op, windows>>
    BY <1>0, <1>3 DEF Revoked, TypeOK, Token
  <2>2. ASSUME NEW e \in Engine
        PROVE  /\ eng'[e].ticking = eng[e].ticking /\ eng'[e].mem = eng[e].mem
               /\ eng'[e].held.of = eng[e].held.of
    <3>1. eng[e] \in EngineState /\ eng[e].held \in Token
      BY <1>0 DEF TypeOK, EngineState
    <3>2. eng'[e] = IF eng[e].held = auth THEN [eng[e] EXCEPT !.held.alive = FALSE] ELSE eng[e]
      BY <1>3 DEF Revoked
    <3> QED
      BY <3>1, <3>2 DEF EngineState, Token
  <2> QED
    BY <2>1, <2>2 DEF AInv, OneEngineTicks, SignsInFromOut, ShownInv, RenewsAsShown, IsLate
<1>4. CASE Restart
  <2>1. op'.signIn = "no" /\ UNCHANGED auth /\ shown' = auth.of /\ windows \subseteq windows'
    BY <1>4 DEF Restart, NoOps
  <2>2. Gone.held.of = None /\ ~Gone.ticking
    BY DEF Gone, NoToken
  <2>3. \A e \in Engine : eng'[e].held.of = None /\ (eng'[e].ticking => e = current')
    BY <1>4, <2>2 DEF Restart, Gone
  <2> QED
    BY <2>1, <2>3 DEF AInv, OneEngineTicks, SignsInFromOut, ShownInv, RenewsAsShown, IsLate
<1> QED
  BY <1>1, <1>2, <1>3, <1>4

LEMMA InitAInv == Init => AInv
<1> SUFFICES ASSUME Init PROVE AInv
  OBVIOUS
<1>1. PICK a \in Starting :
        /\ auth = [of |-> a, alive |-> a # None] /\ shown = a
        /\ eng = [e \in Engine |->
             IF e # current THEN Gone
             ELSE [Gone EXCEPT !.mem = Shared, !.queue = Shared,
                               !.ticking = TRUE, !.synced = TRUE]]
  BY DEF Init
<1>2. ~Gone.ticking /\ Gone.held.of = None
  BY DEF Gone, NoToken
<1>3. \A e \in Engine : eng[e].held.of = None /\ (eng[e].ticking => e = current)
  BY <1>1, <1>2 DEF Gone
<1>4. auth.of = shown
  BY <1>1, Zenon
<1>5. op.signIn = "no"
  BY DEF Init, NoOps
<1> QED
  BY <1>3, <1>4, <1>5, InitTyped DEF AInv, OneEngineTicks, SignsInFromOut, ShownInv, RenewsAsShown

LEMMA StepAInv == AInv /\ [Next]_vars => AInv'
<1> SUFFICES ASSUME AInv, [Next]_vars PROVE AInv'
  OBVIOUS
<1>1. TypeOK'
  BY StepTyped DEF AInv
<1>2. CASE Card
  BY <1>1, <1>2, CardKeeps
<1>3. CASE Continues
  BY <1>1, <1>3, ContinuesKeeps
<1>4. ASSUME NEW e \in Engine, PassStep(e) \/ Renew(e) \/ Fails(e) PROVE AInv'
  BY <1>1, <1>4, PassKeeps, DroppedKeeps, RenewKeeps
<1>5. CASE RequestRemotePurge \/ FetchBook \/ Revoked \/ Restart
  BY <1>1, <1>5, OutsideKeeps
<1>6. CASE UNCHANGED vars
  BY <1>1, <1>6 DEF vars, AInv, OneEngineTicks, SignsInFromOut, ShownInv, RenewsAsShown, IsLate
<1> QED
  BY <1>2, <1>3, <1>4, <1>5, <1>6 DEF Next

(***************************************************************************)
(* Only the engine index.ts holds has a timer, whatever signing in and     *)
(* out, toggling, syncing and restarting there has been (stopEngine,       *)
(* ensureEngine).                                                          *)
(***************************************************************************)
THEOREM OneEngine == Spec => []OneEngineTicks
<1>1. AInv => OneEngineTicks
  BY DEF AInv
<1> QED
  BY <1>1, InitAInv, StepAInv, PTL DEF Spec

(***************************************************************************)
(* The credentials are those of the account the device shows, or gone,     *)
(* until an engine of a session that is over takes a step (getAccessToken, *)
(* signInToGoogle, signOutOfGoogle, handleSignedOut).                      *)
(***************************************************************************)
THEOREM ShownAccountActs == Spec => []ActsAsShown
<1>1. AInv => ActsAsShown
  BY LateIsBarred DEF AInv, ShownInv, ActsAsShown
<1> QED
  BY <1>1, InitAInv, StepAInv, PTL DEF Spec

-----------------------------------------------------------------------------
(***************************************************************************)
(* What the operators do to the engines, field by field.                   *)
(***************************************************************************)
\* The same engine, wherever it is in its pass.
Same(r, n) ==
  /\ n.ticking = r.ticking /\ n.synced = r.synced /\ n.waited = r.waited
  /\ n.mem = r.mem /\ n.queue = r.queue

\* An engine that runs no pass and has no timer.
Rests(r) == r.stage = "idle" /\ ~r.ticking

\* Nothing an engine does makes it tick, share the state or be waited for, nor
\* sets one that shares it and rests to work.
Tame(r, n) ==
  /\ n.ticking => r.ticking
  /\ n.waited => r.waited
  /\ n.mem = Shared => r.mem = Shared /\ (Rests(r) => Rests(n))
AllTame == \A x \in Engine : Tame(eng[x], eng'[x])

LEMMA GoneIs ==
  /\ ~Gone.ticking /\ ~Gone.synced /\ ~Gone.waited
  /\ Gone.mem = None /\ Gone.queue = Empty /\ Gone.stage = "idle" /\ Gone.held = NoToken
  /\ Gone.mem # Shared /\ Gone.queue # Shared
BY AccountSessionAssumption DEF Gone

LEMMA BuiltIs ==
  /\ ~Built.ticking /\ Built.synced = st.lastSync /\ ~Built.waited
  /\ Built.mem = Shared /\ Built.queue = Shared /\ Built.stage = "idle"
  /\ Built.held = NoToken
BY DEF Built, Gone

LEMMA NextIs ==
  ASSUME TypeOK, NEW e \in Engine, NEW s \in Stages, Next1(e, s)
  PROVE  /\ \A x \in Engine \ {e} : eng'[x] = eng[x]
         /\ Same(eng[e], eng'[e]) /\ eng'[e].stage = s /\ eng'[e].held = NoToken
<1>1. eng[e] \in EngineState
  BY DEF TypeOK
<1> QED
  BY <1>1 DEF Next1, TypeOK, EngineState, Same

LEMMA EndedIs ==
  ASSUME NEW f \in [Engine -> EngineState], NEW e \in Engine, NEW c, NEW b \in BOOLEAN
  PROVE  LET g == Ended(e, f, c, b) IN
         /\ \A x \in Engine \ {e} : g[x] = f[x] \/ (x # c /\ g[x] = Gone)
         /\ \/ e # c /\ g[e] = Gone
            \/ /\ g[e].ticking = f[e].ticking /\ g[e].mem = f[e].mem
               /\ g[e].queue = f[e].queue /\ ~g[e].waited /\ g[e].stage = "idle"
               /\ g[e].held = NoToken /\ g[e].synced = (f[e].synced \/ b)
<1> DEFINE g == Ended(e, f, c, b)
           r == [f[e] EXCEPT !.stage = "idle", !.waited = FALSE, !.held = NoToken,
                             !.synced = f[e].synced \/ b]
<1>1. f[e] \in EngineState
  OBVIOUS
<1>2. /\ r.ticking = f[e].ticking /\ r.mem = f[e].mem /\ r.queue = f[e].queue
      /\ ~r.waited /\ r.stage = "idle" /\ r.held = NoToken
      /\ r.synced = (f[e].synced \/ b)
  BY <1>1 DEF EngineState
<1>3. g = Held([f EXCEPT ![e] = r], c)
  BY DEF Ended
<1> HIDE DEF r
<1>4. \A x \in Engine : g[x] = IF x # c /\ [f EXCEPT ![e] = r][x].stage = "idle"
                               THEN Gone ELSE [f EXCEPT ![e] = r][x]
  BY <1>3 DEF Held
<1> HIDE DEF g
<1>5. [f EXCEPT ![e] = r][e] = r /\ \A x \in Engine \ {e} : [f EXCEPT ![e] = r][x] = f[x]
  OBVIOUS
<1>6. /\ \A x \in Engine \ {e} : g[x] = f[x] \/ (x # c /\ g[x] = Gone)
      /\ \/ e # c /\ g[e] = Gone
         \/ /\ g[e].ticking = f[e].ticking /\ g[e].mem = f[e].mem
            /\ g[e].queue = f[e].queue /\ ~g[e].waited /\ g[e].stage = "idle"
            /\ g[e].held = NoToken /\ g[e].synced = (f[e].synced \/ b)
  BY <1>2, <1>4, <1>5
<1> QED
  BY <1>6 DEF g

LEMMA StoppedIs ==
  ASSUME TypeOK
  PROVE  \A x \in Engine :
           /\ Stopped[x].mem = eng[x].mem /\ Stopped[x].queue = eng[x].queue
           /\ Stopped[x].waited = eng[x].waited /\ Stopped[x].held = eng[x].held
           /\ Stopped[x].synced = eng[x].synced /\ Stopped[x].stage = eng[x].stage
           /\ Stopped[x].ticking => eng[x].ticking
BY DEF TypeOK, Stopped, EngineState

LEMMA BecomesIs ==
  ASSUME TypeOK, NEW s, NEW m \in BOOLEAN, NEW q \in BOOLEAN, Becomes(s, m, q)
  PROVE  /\ st' = s /\ saved' = s
         /\ \A x \in Engine :
              /\ eng'[x].ticking = eng[x].ticking /\ eng'[x].waited = eng[x].waited
              /\ eng'[x].synced = eng[x].synced /\ eng'[x].stage = eng[x].stage
              /\ eng'[x].held = eng[x].held
              /\ eng'[x].mem = IF eng[x].mem = Shared /\ m THEN st.mem ELSE eng[x].mem
              /\ eng'[x].queue = IF eng[x].queue = Shared /\ q THEN st.queue
                                 ELSE eng[x].queue
<1>1. st' = s /\ saved' = s
  BY DEF Becomes
<1>2. ASSUME NEW x \in Engine
      PROVE  eng'[x] = [eng[x] EXCEPT
               !.mem = IF @ = Shared /\ m THEN st.mem ELSE @,
               !.queue = IF @ = Shared /\ q THEN st.queue ELSE @]
  BY DEF Becomes
<1>3. \A x \in Engine : eng[x] \in EngineState
  BY DEF TypeOK
<1> QED
  BY <1>1, <1>2, <1>3 DEF EngineState

LEMMA OwnState == TypeOK => st.mem # Shared /\ st.queue # Shared
BY AccountSessionAssumption DEF TypeOK, SyncState, SomeAccount

\* The engine that is found or built, and the others.
LEMMA EnsuredIs ==
  ASSUME TypeOK, NEW e \in Engine, NEW w, Ensured(e, w), NEW r, eng' = [eng EXCEPT ![e] = r]
  PROVE  /\ current' = e /\ windows \subseteq windows' /\ w \subseteq windows'
         /\ \A x \in Engine \ {e} : eng'[x] = eng[x]
         /\ eng'[e] = r
         /\ \/ current = e /\ Found(e) = eng[e]
            \/ /\ current = 0 /\ Found(e) = Built
               /\ op.signOut = "clearing" => "early" \in windows'
<1>1. e # 0
  BY DEF Engine
<1> QED
  BY <1>1 DEF Ensured, Found, TypeOK

LEMMA StartIs ==
  ASSUME TypeOK, StartEngine
  PROVE  \E e \in Engine :
           /\ Ensured(e, {}) /\ eng' = [eng EXCEPT ![e] = eng'[e]]
           /\ eng'[e].waited = Found(e).waited /\ eng'[e].mem = Found(e).mem
           /\ eng'[e].queue = Found(e).queue /\ eng'[e].synced = Found(e).synced
           /\ eng'[e].held = Found(e).held
           /\ eng'[e].stage \in {Found(e).stage, "layout"}
           /\ UNCHANGED <<st, saved>> \/ Emit(Found(e))
<1> DEFINE begins(r) == ~r.ticking /\ r.stage = "idle"
           next(r) == [r EXCEPT !.ticking = TRUE,
                                !.stage = IF begins(r) THEN "layout" ELSE @]
<1>1. PICK e \in Engine :
        /\ Ensured(e, {}) /\ eng' = [eng EXCEPT ![e] = next(Found(e))]
        /\ IF begins(Found(e)) THEN Emit(Found(e)) ELSE UNCHANGED <<st, saved>>
  BY DEF StartEngine
<1>2. Found(e) \in EngineState
  BY BuiltTyped DEF Found, TypeOK
<1> DEFINE n == next(Found(e))
<1>3. /\ n.waited = Found(e).waited /\ n.mem = Found(e).mem /\ n.queue = Found(e).queue
      /\ n.synced = Found(e).synced /\ n.held = Found(e).held
      /\ n.stage \in {Found(e).stage, "layout"}
  BY <1>2 DEF EngineState
<1> HIDE DEF n
<1>4. eng' = [eng EXCEPT ![e] = n]
  BY <1>1 DEF n
<1>5. eng'[e] = n
  BY <1>4 DEF TypeOK
<1> QED
  BY <1>1, <1>3, <1>4, <1>5

(***************************************************************************)
(* What every step of a pass leaves alone, and how its end tells syncNow.  *)
(***************************************************************************)
TellsSyncNow(e) ==
  \/ op' = op
  \/ /\ eng[e].waited /\ ~eng'[e].waited
     /\ op' = [op EXCEPT !.syncNow = "after"]

LEMMA SameIsTame ==
  ASSUME NEW e \in Engine, \A x \in Engine \ {e} : eng'[x] = eng[x],
         eng'[e].ticking = eng[e].ticking, eng'[e].waited = eng[e].waited,
         eng'[e].mem = Shared => eng[e].mem = Shared,
         eng[e].stage # "idle" \/ eng'[e].stage = eng[e].stage
  PROVE  AllTame
BY DEF AllTame, Tame, Rests

LEMMA EndsIs ==
  ASSUME TypeOK, NEW e \in Engine, NEW b \in BOOLEAN, Ends(e, b)
  PROVE  /\ AllTame /\ TellsSyncNow(e)
         /\ windows' = windows \cup Late(e)
         /\ saved' = st' /\ st' = [st EXCEPT !.lastSync = st'.lastSync]
         /\ \A x \in Engine :
              eng'[x] = Gone \/ (eng'[x].mem = eng[x].mem /\ eng'[x].queue = eng[x].queue
                                 /\ eng'[x].held \in {eng[x].held, NoToken})
         /\ e # current /\ current # 0 => eng'[current] = eng[current]
         /\ e = current => /\ eng'[e].stage = "idle" /\ eng'[e].mem = eng[e].mem
                           /\ ~b => eng'[e].synced = eng[e].synced
         /\ ~b /\ ~eng[e].synced => st'.lastSync = st.lastSync
<1> DEFINE synced == eng[e].synced \/ b
           r == [eng[e] EXCEPT !.synced = synced]
<1>0. eng[e] \in EngineState /\ synced \in BOOLEAN /\ st \in SyncState
  BY Zenon DEF TypeOK
<1>1. r.synced = synced
  BY <1>0 DEF EngineState
<1>2. Emit(r)
  BY Zenon DEF Ends
<1> HIDE DEF r
<1>3. /\ saved' = st' /\ st' = [st EXCEPT !.lastSync = st.lastSync \/ synced]
  BY <1>1, <1>2 DEF Emit
<1>4. /\ st' = [st EXCEPT !.lastSync = st'.lastSync]
      /\ st'.lastSync = (st.lastSync \/ synced)
  BY <1>0, <1>3 DEF SyncState
<1>5. eng' = Ended(e, eng, current, b) /\ windows' = windows \cup Late(e)
      /\ op' = IF eng[e].waited THEN [op EXCEPT !.syncNow = "after"] ELSE op
  BY DEF Ends
<1>6. eng \in [Engine -> EngineState]
  BY DEF TypeOK
<1>7. /\ \A x \in Engine \ {e} : eng'[x] = eng[x] \/ (x # current /\ eng'[x] = Gone)
      /\ \/ e # current /\ eng'[e] = Gone
         \/ /\ eng'[e].ticking = eng[e].ticking /\ eng'[e].mem = eng[e].mem
            /\ eng'[e].queue = eng[e].queue /\ ~eng'[e].waited /\ eng'[e].stage = "idle"
            /\ eng'[e].held = NoToken /\ eng'[e].synced = (eng[e].synced \/ b)
  BY <1>5, <1>6, EndedIs
<1>8. AllTame
  BY <1>7, GoneIs DEF AllTame, Tame, Rests
<1>9. ~eng'[e].waited
  BY <1>7, GoneIs
<1>10. \A x \in Engine :
         eng'[x] = Gone \/ (eng'[x].mem = eng[x].mem /\ eng'[x].queue = eng[x].queue
                            /\ eng'[x].held \in {eng[x].held, NoToken})
  BY <1>7
<1>11. current = 0 \/ current \in Engine
  BY DEF TypeOK
<1>12. eng[e].synced \in BOOLEAN /\ st.lastSync \in BOOLEAN
  BY <1>0 DEF EngineState, SyncState
<1>13. e = current =>
         /\ eng'[e].stage = "idle" /\ eng'[e].mem = eng[e].mem
         /\ ~b => eng'[e].synced = eng[e].synced
  BY <1>7, <1>12
<1> QED
  BY <1>3, <1>4, <1>5, <1>7, <1>8, <1>9, <1>10, <1>11, <1>12, <1>13 DEF TellsSyncNow

PassFrame(e) ==
  /\ UNCHANGED <<shown, current, left>>
  /\ windows \subseteq windows'
  /\ AllTame /\ TellsSyncNow(e)
  /\ saved = st => saved' = st'
  /\ st'.tag = st.tag

LEMMA PassIs ==
  ASSUME TypeOK, NEW e \in Engine, PassStep(e) \/ Fails(e) \/ Renew(e), ~HandleSignedOut(e)
  PROVE  PassFrame(e)
<1>0. /\ eng[e] \in EngineState /\ st \in SyncState
      /\ {"layout", "drain", "list", "move", "land", "done", "denied"} \subseteq Stages
  BY DEF TypeOK, Stages
<1>1. CASE Begins(e)
  <2>1. AllTame
    BY <1>0, <1>1 DEF Begins, AllTame, Tame, Rests, TypeOK, EngineState
  <2>2. saved' = st' /\ st'.tag = st.tag
    BY <1>0, <1>1 DEF Begins, Emit, SyncState
  <2> QED
    BY <1>1, <2>1, <2>2 DEF Begins, PassFrame, TellsSyncNow
<1>2. ASSUME NEW s \in Stages, Next1(e, s), eng[e].stage # "idle" PROVE AllTame
  BY <1>2, NextIs, SameIsTame DEF Same
<1>3. CASE EnsureLayout(e)
  <2>0. UNCHANGED <<shown, current, left, op>>
    BY <1>3 DEF EnsureLayout
  <2>1. CASE MemOf(e) # None
    BY <1>0, <1>2, <1>3, <2>0, <2>1 DEF EnsureLayout, PassFrame, TellsSyncNow
  <2>2. CASE MemOf(e) = None
    <3>1. PICK a \in Account :
            /\ windows' = windows \cup Late(e) /\ saved' = st'
            /\ IF eng[e].mem = Shared
               THEN st' = [st EXCEPT !.mem = a] /\ Next1(e, "drain")
               ELSE /\ eng' = [eng EXCEPT ![e] = [eng[e] EXCEPT !.stage = "drain",
                                                     !.held = NoToken, !.mem = a]]
                    /\ UNCHANGED st
      BY <1>3, <2>2 DEF EnsureLayout
    <3>2. CASE eng[e].mem = Shared
      <4>1. st'.tag = st.tag
        BY <1>0, <3>1, <3>2 DEF SyncState
      <4> QED
        BY <1>0, <1>2, <1>3, <2>0, <3>1, <3>2, <4>1 DEF EnsureLayout, PassFrame, TellsSyncNow
    <3>3. CASE eng[e].mem # Shared
      <4> DEFINE r == [eng[e] EXCEPT !.stage = "drain", !.held = NoToken, !.mem = a]
      <4>1. r.ticking = eng[e].ticking /\ r.waited = eng[e].waited /\ r.mem # Shared
        BY <1>0, AccountSessionAssumption DEF EngineState
      <4>2. eng' = [eng EXCEPT ![e] = r]
        BY <3>1, <3>3
      <4> HIDE DEF r
      <4>3. eng'[e] = r /\ \A x \in Engine \ {e} : eng'[x] = eng[x]
        BY <4>2 DEF TypeOK
      <4>4. AllTame
        BY <1>3, <4>1, <4>3, SameIsTame DEF EnsureLayout
      <4> QED
        BY <2>0, <3>1, <3>3, <4>4 DEF PassFrame, TellsSyncNow
    <3> QED
      BY <3>2, <3>3
  <2> QED
    BY <2>1, <2>2
<1>4. ASSUME NEW a, Granted(e, a) PROVE windows \subseteq windows'
  BY <1>4 DEF Granted
<1>5. CASE Purges(e)
  <2>0. UNCHANGED <<shown, current, left, op>> /\ windows \subseteq windows'
    BY <1>4, <1>5 DEF Purges
  <2>1. CASE eng[e].queue = Shared
    <3>1. st'.tag = st.tag /\ saved' = st' /\ Next1(e, "list")
      BY <1>0, <1>5, <2>1 DEF Purges, SyncState
    <3> QED
      BY <1>0, <1>2, <1>5, <2>0, <3>1 DEF Purges, PassFrame, TellsSyncNow
  <2>2. CASE eng[e].queue # Shared
    <3>1. eng' = [eng EXCEPT ![e] = [eng[e] EXCEPT !.stage = "list", !.held = NoToken,
                                                   !.queue = Empty]]
          /\ UNCHANGED <<st, saved>>
      BY <1>5, <2>2 DEF Purges
    <3>2. AllTame
      BY <1>0, <1>5, <3>1 DEF Purges, AllTame, Tame, Rests, TypeOK, EngineState
    <3> QED
      BY <2>0, <3>1, <3>2 DEF PassFrame, TellsSyncNow
  <2> QED
    BY <2>1, <2>2
<1>6. CASE PurgesNothing(e)
  BY <1>0, <1>2, <1>4, <1>6 DEF PurgesNothing, PassFrame, TellsSyncNow
<1>7. ASSUME NEW s \in {"list", "move"}, NEW t \in Stages, Requests(e, s, t)
      PROVE  PassFrame(e)
  BY <1>2, <1>4, <1>7 DEF Requests, PassFrame, TellsSyncNow
<1>8. CASE Land(e)
  BY <1>0, <1>2, <1>8 DEF Land, PassFrame, TellsSyncNow
<1>9. CASE Finishes(e) \/ Fails(e) \/ Misdirected(e) \/ Denied(e)
  <2>1. PICK b \in BOOLEAN : Ends(e, b) /\ UNCHANGED <<shown, current, left>>
    BY <1>9 DEF Finishes, Fails, Misdirected, Denied
  <2>2. st'.tag = st.tag
    BY <1>0, <2>1, EndsIs DEF SyncState
  <2> QED
    BY <2>1, <2>2, EndsIs DEF PassFrame
<1>10. CASE Refused(e) \/ Renew(e)
  <2>1. AllTame
    BY <1>0, <1>10 DEF Refused, Renew, Asks, AllTame, Tame, Rests, TypeOK, EngineState
  <2> QED
    BY <1>10, <2>1 DEF Refused, Renew, PassFrame, TellsSyncNow
<1> QED
  BY <1>1, <1>3, <1>5, <1>6, <1>7, <1>8, <1>9, <1>10
     DEF PassStep, ListRemote, Transfer, Stages

-----------------------------------------------------------------------------
(***************************************************************************)
(* While no two operations of the card have overlapped, one is under way   *)
(* at most, and what it does is done for whoever was shown when it began.  *)
(***************************************************************************)
IsOverlap == "overlap" \in windows

\* The pass that syncNow awaits is one, and it is still to tell.
Waits ==
  /\ \A x \in Engine : eng[x].waited => op.syncNow = "pass"
  /\ \A x, y \in Engine : eng[x].waited /\ eng[y].waited => x = y

Alone ==
  /\ op.signIn # "no" => op.signOut = "no" /\ op.toggle = "no" /\ op.syncNow = "no"
  /\ op.signOut # "no" => op.signIn = "no" /\ op.toggle = "no" /\ op.syncNow = "no"
  /\ op.syncNow # "no" => op.signIn = "no" /\ op.toggle = "no" /\ op.signOut = "no"

DoneForShown ==
  /\ op.signIn = "saving" => shown # None
  /\ op.syncNow # "no" => shown # None
  /\ op.signOut = "removing" => shown = None
  /\ op.signOut # "no" => ~Started
  /\ Started => shown # None

\* Signing out parts every engine that runs from the state that stays.
PartedFrom ==
  op.signOut = "removing" => \A x \in Engine : eng[x].mem = Shared => Rests(eng[x])

Apart == Alone /\ DoneForShown /\ PartedFrom
CardInv == Waits /\ saved = st /\ (IsOverlap \/ Apart)

\* An operation ends, or goes on where it was.
Closes ==
  /\ op'.signIn \in {op.signIn, "no"} /\ op'.signOut \in {op.signOut, "no"}
  /\ op'.toggle \in {op.toggle, "no"}
  /\ op.syncNow = "no" => op'.syncNow = "no"

LEMMA OpIs ==
  ASSUME op \in Ops
  PROVE  /\ \A o : LET p == [op EXCEPT !.signIn = o]
                   IN /\ p.signIn = o /\ p.signOut = op.signOut
                      /\ p.toggle = op.toggle /\ p.syncNow = op.syncNow
         /\ \A o : LET p == [op EXCEPT !.signOut = o]
                   IN /\ p.signIn = op.signIn /\ p.signOut = o
                      /\ p.toggle = op.toggle /\ p.syncNow = op.syncNow
         /\ \A o : LET p == [op EXCEPT !.toggle = o]
                   IN /\ p.signIn = op.signIn /\ p.signOut = op.signOut
                      /\ p.toggle = o /\ p.syncNow = op.syncNow
         /\ \A o : LET p == [op EXCEPT !.syncNow = o]
                   IN /\ p.signIn = op.signIn /\ p.signOut = op.signOut
                      /\ p.toggle = op.toggle /\ p.syncNow = o
BY DEF Ops

LEMMA NoOpsIs ==
  /\ NoOps.signIn = "no" /\ NoOps.signOut = "no" /\ NoOps.toggle = "no"
  /\ NoOps.syncNow = "no"
  /\ \A o : LET p == [NoOps EXCEPT !.toggle = o]
            IN p.signIn = "no" /\ p.signOut = "no" /\ p.syncNow = "no"
BY DEF NoOps

\* A click that overlaps nothing is the only operation.
LEMMA ClickIsAlone ==
  ASSUME windows' = windows \cup Overlap, ~IsOverlap'
  PROVE  /\ ~IsOverlap
         /\ op.signIn = "no" /\ op.signOut = "no" /\ op.toggle = "no" /\ op.syncNow = "no"
BY NoOpsIs DEF Overlap, Pending, IsOverlap

LEMMA TameKeepsWaits ==
  ASSUME Waits, AllTame, op'.syncNow = op.syncNow
  PROVE  Waits'
BY DEF Waits, AllTame, Tame, Rests

LEMMA TameKeepsApart ==
  ASSUME TypeOK, TypeOK', Apart, AllTame, current' \in {current, 0}, shown' = shown, Closes
  PROVE  Apart'
<1>1. current' # 0 => current' \in Engine
  BY DEF TypeOK
<1>2. Started' => Started
  BY <1>1 DEF Started, AllTame, Tame, Rests
<1>3. Alone'
  BY DEF Apart, Alone, Closes
<1>4. DoneForShown'
  BY <1>2 DEF Apart, DoneForShown, Closes
<1>5. PartedFrom'
  BY DEF Apart, PartedFrom, Closes, AllTame, Tame, Rests
<1> QED
  BY <1>3, <1>4, <1>5 DEF Apart

LEMMA PassCard ==
  ASSUME TypeOK, TypeOK', CardInv, NEW e \in Engine,
         PassStep(e) \/ Fails(e) \/ Renew(e), ~HandleSignedOut(e)
  PROVE  CardInv'
<1>1. PassFrame(e)
  BY PassIs
<1>2. op \in Ops
  BY DEF TypeOK
<1>3. /\ op'.signIn = op.signIn /\ op'.signOut = op.signOut /\ op'.toggle = op.toggle
      /\ op' = op \/ (eng[e].waited /\ ~eng'[e].waited /\ op'.syncNow = "after")
  <2>1. CASE op' = op
    BY <2>1
  <2>2. CASE eng[e].waited /\ ~eng'[e].waited /\ op' = [op EXCEPT !.syncNow = "after"]
    BY <1>2, <2>2 DEF Ops
  <2> QED
    BY <1>1, <2>1, <2>2 DEF PassFrame, TellsSyncNow
<1>4. Waits'
  <2>1. CASE op' = op
    BY <1>1, <2>1, TameKeepsWaits DEF PassFrame, CardInv
  <2>2. CASE eng[e].waited /\ ~eng'[e].waited
    <3>1. \A x \in Engine : ~eng'[x].waited
      BY <1>1, <2>2 DEF PassFrame, AllTame, Tame, Rests, CardInv, Waits
    <3> QED
      BY <3>1 DEF Waits
  <2> QED
    BY <1>3, <2>1, <2>2
<1>5. Closes
  BY <1>3 DEF Closes, CardInv, Waits
<1>6. ASSUME Apart PROVE Apart'
  BY <1>1, <1>5, <1>6, TameKeepsApart DEF PassFrame
<1> QED
  BY <1>1, <1>4, <1>6 DEF CardInv, PassFrame, IsOverlap

LEMMA DroppedCard ==
  ASSUME TypeOK, TypeOK', OneEngineTicks, CardInv, NEW e \in Engine, HandleSignedOut(e)
  PROVE  CardInv'
<1>0. /\ op \in Ops /\ eng[e] \in EngineState /\ st \in SyncState
      /\ eng \in [Engine -> EngineState]
  BY DEF TypeOK
<1>1. eng' = Ended(e, Stopped, 0, FALSE) /\ current' = 0 /\ saved' = st'
      /\ op' = IF eng[e].waited THEN [op EXCEPT !.syncNow = "after"] ELSE op
  BY DEF HandleSignedOut, Emit
<1>2. \A x \in Engine : eng'[x].waited => eng[x].waited /\ x # e
  <2>1. Stopped \in [Engine -> EngineState]
    BY StopTyped
  <2>2. PICK b \in BOOLEAN : eng' = Ended(e, Stopped, 0, b)
    BY <1>1, Zenon
  <2>3. /\ \A x \in Engine \ {e} : eng'[x] = Stopped[x] \/ eng'[x] = Gone
        /\ eng'[e] = Gone \/ ~eng'[e].waited
    BY <2>1, <2>2, EndedIs
  <2> QED
    BY <2>3, StoppedIs, GoneIs
<1>3. Waits'
  <2>1. CASE eng[e].waited
    BY <1>2, <2>1 DEF CardInv, Waits
  <2>2. CASE ~eng[e].waited
    BY <1>1, <1>2, <2>2 DEF CardInv, Waits
  <2> QED
    BY <2>1, <2>2
<1>4. ASSUME ~IsOverlap' PROVE Apart'
  <2>1. op = [NoOps EXCEPT !.toggle = op.toggle]
    BY <1>4 DEF HandleSignedOut, IsOverlap
  <2>2. op.signIn = "no" /\ op.signOut = "no" /\ op.syncNow = "no"
    BY <2>1, NoOpsIs
  <2>3. op' = op
    BY <1>1, <2>2 DEF CardInv, Waits
  <2> QED
    BY <1>1, <2>2, <2>3 DEF Apart, Alone, DoneForShown, PartedFrom, Started
<1> QED
  BY <1>1, <1>3, <1>4 DEF CardInv

\* What is built or started for somebody who is shown, outside a sign-out.
LEMMA StartCard ==
  ASSUME TypeOK, TypeOK', CardInv, StartEngine, shown' = shown,
         Closes, op'.syncNow = op.syncNow \/ op.syncNow # "pass",
         Apart => shown # None /\ op.signOut = "no"
  PROVE  CardInv'
<1>1. PICK e \in Engine :
        /\ Ensured(e, {}) /\ eng' = [eng EXCEPT ![e] = eng'[e]]
        /\ eng'[e].waited = Found(e).waited
        /\ UNCHANGED <<st, saved>> \/ Emit(Found(e))
  BY StartIs
<1>2. /\ current' = e /\ windows \subseteq windows'
      /\ \A x \in Engine \ {e} : eng'[x] = eng[x]
      /\ Found(e) \in {eng[e], Built}
  BY <1>1, EnsuredIs
<1>3. \A x \in Engine : eng'[x].waited => eng[x].waited
  BY <1>1, <1>2, BuiltIs
<1>4. Waits'
  BY <1>3 DEF CardInv, Waits
<1>5. ASSUME Apart PROVE Apart'
  BY <1>5 DEF Apart, Alone, DoneForShown, PartedFrom, Closes
<1>6. saved' = st'
  BY <1>1 DEF CardInv, Emit
<1> QED
  BY <1>2, <1>4, <1>5, <1>6 DEF CardInv, IsOverlap

LEMMA StopCard ==
  ASSUME TypeOK, TypeOK', CardInv, StopEngine, shown' = shown, Closes,
         op'.syncNow = op.syncNow
  PROVE  CardInv'
<1>1. AllTame /\ UNCHANGED <<current, st, saved, windows>>
  BY StoppedIs DEF StopEngine, AllTame, Tame, Rests
<1> QED
  BY <1>1, TameKeepsWaits, TameKeepsApart DEF CardInv, IsOverlap

LEMMA CardCard ==
  ASSUME TypeOK, TypeOK', CardInv, Card
  PROVE  CardInv'
<1>0. op \in Ops /\ st \in SyncState /\ 0 \notin Engine
  BY DEF TypeOK, Engine
<1>1. CASE ClickSignIn
  <2>1. op'.signIn = "browser" /\ op'.signOut = op.signOut /\ op'.toggle = op.toggle
        /\ op'.syncNow = op.syncNow
    BY <1>0, <1>1 DEF ClickSignIn, Ops
  <2>2. ASSUME ~IsOverlap' PROVE Apart'
    BY <1>1, <2>1, <2>2, ClickIsAlone
       DEF ClickSignIn, CardInv, Apart, Alone, DoneForShown, PartedFrom, Started
  <2> QED
    BY <1>1, <2>1, <2>2 DEF ClickSignIn, CardInv, Waits
<1>2. CASE SignInAbandoned
  <2>1. op'.signIn = "no" /\ op'.signOut = op.signOut /\ op'.toggle = op.toggle
        /\ op'.syncNow = op.syncNow
    BY <1>0, <1>2 DEF SignInAbandoned, Ops
  <2>2. AllTame
    BY <1>2 DEF SignInAbandoned, AllTame, Tame, Rests
  <2> QED
    BY <1>2, <2>1, <2>2, TameKeepsWaits, TameKeepsApart
       DEF SignInAbandoned, CardInv, Closes, IsOverlap
<1>3. CASE ClickSignOut
  <2>1. op'.signOut = "clearing" /\ op'.signIn = op.signIn /\ op'.toggle = op.toggle
        /\ op'.syncNow = op.syncNow
    BY <1>0, <1>3 DEF ClickSignOut, Ops
  <2>2. eng' = Held(Stopped, 0) /\ current' = 0 /\ UNCHANGED <<shown, st, saved>>
        /\ windows' = windows \cup Overlap /\ shown # None
    BY <1>3 DEF ClickSignOut
  <2>3. \A x \in Engine : eng'[x] = Stopped[x] \/ eng'[x] = Gone
    BY <2>2 DEF Held
  <2>4. AllTame
    BY <2>3, StoppedIs, GoneIs DEF AllTame, Tame, Rests
  <2>5. ASSUME ~IsOverlap' PROVE Apart'
    BY <2>1, <2>2, <2>5, ClickIsAlone DEF Apart, Alone, DoneForShown, PartedFrom, Started
  <2> QED
    BY <2>1, <2>2, <2>4, <2>5, TameKeepsWaits DEF CardInv
<1>4. CASE ClickToggle
  <2>1. op'.signOut = op.signOut /\ op'.signIn = op.signIn /\ op'.syncNow = op.syncNow
    BY <1>0, <1>4 DEF ClickToggle, Ops
  <2>2. ASSUME ~IsOverlap' PROVE Apart'
    BY <1>4, <2>1, <2>2, ClickIsAlone
       DEF ClickToggle, CardInv, Apart, Alone, DoneForShown, PartedFrom, Started
  <2> QED
    BY <1>4, <2>1, <2>2 DEF ClickToggle, CardInv, Waits
<1>5. CASE ClickSyncNow
  <2> DEFINE next(r) == [r EXCEPT !.stage = "layout", !.waited = TRUE]
  <2>1. PICK e \in Engine :
          /\ Ensured(e, Overlap) /\ Emit(Found(e)) /\ op.syncNow = "no" /\ shown # None
          /\ op' = [op EXCEPT !.syncNow = "pass"]
          /\ eng' = [eng EXCEPT ![e] = next(Found(e))]
          /\ UNCHANGED shown
    BY <1>5 DEF ClickSyncNow
  <2> HIDE DEF next
  <2>2. op'.syncNow = "pass" /\ op'.signOut = op.signOut /\ op'.signIn = op.signIn
        /\ op'.toggle = op.toggle
    BY <1>0, <2>1 DEF Ops
  <2>3. /\ \A x \in Engine \ {e} : eng'[x] = eng[x]
        /\ windows \subseteq windows' /\ Overlap \subseteq windows'
    BY <2>1, EnsuredIs
  <2>4. Waits'
    BY <2>1, <2>2, <2>3 DEF CardInv, Waits
  <2>5. ASSUME ~IsOverlap' PROVE Apart'
    <3>1. /\ ~IsOverlap /\ op.signIn = "no" /\ op.signOut = "no" /\ op.toggle = "no"
      BY <2>3, <2>5, NoOpsIs DEF Overlap, Pending, IsOverlap
    <3> QED
      BY <2>1, <2>2, <3>1 DEF Apart, Alone, DoneForShown, PartedFrom
  <2> QED
    BY <2>1, <2>4, <2>5 DEF CardInv, Emit
<1>6. ASSUME NEW a \in Account, SignInGranted(a) PROVE CardInv'
  <2>1. /\ op.signIn = "browser" /\ op'.signIn = "saving" /\ op'.signOut = op.signOut
        /\ op'.toggle = op.toggle /\ op'.syncNow = op.syncNow
    BY <1>0, <1>6 DEF SignInGranted, Ops
  <2>2. /\ shown' = a /\ a # None /\ UNCHANGED current
        /\ Becomes(SignedInState(a), FALSE, st.tag \notin {None, a})
        /\ IsOverlap => IsOverlap'
    BY <1>6, AccountSessionAssumption DEF SignInGranted, IsOverlap
  <2>3. AllTame /\ saved' = st'
    BY <2>2, BecomesIs DEF AllTame, Tame, Rests
  <2>4. ASSUME Apart PROVE Apart'
    BY <2>1, <2>2, <2>4 DEF Apart, Alone, DoneForShown, PartedFrom
  <2> QED
    BY <2>1, <2>2, <2>3, <2>4, TameKeepsWaits DEF CardInv
<1>7. CASE ClickSyncNowBeside
  <2>1. /\ windows' = windows \cup Overlap /\ shown # None
        /\ UNCHANGED <<shown, st, saved, current, op>>
    BY <1>7 DEF ClickSyncNowBeside
  <2>2. \A x \in Engine : eng'[x].waited = eng[x].waited
    BY <1>7 DEF ClickSyncNowBeside, TypeOK, EngineState
  <2>3. ASSUME ~IsOverlap' PROVE Apart'
    BY <2>1, <2>3, ClickIsAlone DEF Apart, Alone, DoneForShown, PartedFrom
  <2> QED
    BY <2>1, <2>2, <2>3 DEF CardInv, Waits
<1> QED
  BY <1>1, <1>2, <1>3, <1>4, <1>5, <1>6, <1>7 DEF Card

LEMMA ContinuesCard ==
  ASSUME TypeOK, TypeOK', CardInv, Continues
  PROVE  CardInv'
<1>0. op \in Ops /\ st \in SyncState
  BY DEF TypeOK
<1>1. CASE SignInStarts
  <2>1. /\ op.signIn = "saving" /\ op'.signIn = "no" /\ op'.signOut = op.signOut
        /\ op'.toggle = op.toggle /\ op'.syncNow = op.syncNow
        /\ StartEngine /\ shown' = shown
    BY <1>0, <1>1 DEF SignInStarts, Ops
  <2>2. Apart => shown # None /\ op.signOut = "no"
    BY <2>1 DEF Apart, Alone, DoneForShown
  <2> QED
    BY <2>1, <2>2, StartCard DEF Closes
<1>2. CASE SignOutClears
  <2>1. /\ op.signOut = "clearing" /\ op'.signOut = "removing" /\ op'.signIn = op.signIn
        /\ op'.toggle = op.toggle /\ op'.syncNow = op.syncNow
    BY <1>0, <1>2 DEF SignOutClears, Ops
  <2>2. /\ shown' = None /\ UNCHANGED <<current, windows>>
        /\ Becomes(SignedOutState, TRUE, shown = None)
    BY <1>2 DEF SignOutClears
  <2>3. /\ \A x \in Engine : eng'[x].ticking = eng[x].ticking /\ eng'[x].waited = eng[x].waited
                             /\ eng'[x].mem # Shared
        /\ saved' = st'
    BY <2>2, BecomesIs, OwnState
  <2>4. AllTame
    BY <2>3 DEF AllTame, Tame, Rests
  <2>5. ASSUME Apart PROVE Apart'
    <3>1. ~Started'
      BY <2>1, <2>2, <2>3, <2>5 DEF Apart, DoneForShown, Started, TypeOK
    <3> QED
      BY <2>1, <2>2, <2>3, <2>5, <3>1 DEF Apart, Alone, DoneForShown, PartedFrom
  <2> QED
    BY <2>1, <2>2, <2>3, <2>4, <2>5, TameKeepsWaits DEF CardInv, IsOverlap
<1>3. CASE SignOutRemoves
  <2>1. /\ op'.signOut = "no" /\ op'.signIn = op.signIn
        /\ op'.toggle = op.toggle /\ op'.syncNow = op.syncNow
    BY <1>0, <1>3 DEF SignOutRemoves, Ops
  <2>2. AllTame
    BY <1>3 DEF SignOutRemoves, AllTame, Tame, Rests
  <2> QED
    BY <1>3, <2>1, <2>2, TameKeepsWaits, TameKeepsApart
       DEF SignOutRemoves, CardInv, Closes, IsOverlap
<1>4. CASE Toggles
  <2>1. /\ op.toggle # "no" /\ op'.toggle = "no" /\ op'.signIn = op.signIn
        /\ op'.signOut = op.signOut /\ op'.syncNow = op.syncNow
        /\ StopEngine \/ (StartEngine /\ shown # None)
        /\ shown' = shown
    BY <1>0, <1>4 DEF Toggles, Ops
  <2>2. Apart => op.signOut = "no" /\ op.syncNow = "no"
    BY <2>1 DEF Apart, Alone
  <2> QED
    BY <2>1, <2>2, StopCard, StartCard DEF Closes
<1>5. CASE SyncNowDone
  <2>1. /\ op.syncNow = "after" /\ op'.syncNow = "no" /\ op'.signIn = op.signIn
        /\ op'.signOut = op.signOut /\ op'.toggle = op.toggle /\ shown' = shown
    BY <1>0, <1>5 DEF SyncNowDone, Ops
  <2>2. Closes
    BY <2>1 DEF Closes
  <2>3. CASE StartEngine
    <3>1. Apart => shown # None /\ op.signOut = "no"
      BY <2>1 DEF Apart, Alone, DoneForShown
    <3> QED
      BY <2>1, <2>2, <2>3, <3>1, StartCard
  <2>4. CASE UNCHANGED <<eng, current, st, saved, windows>>
    <3>1. AllTame
      BY <2>4 DEF AllTame, Tame, Rests
    <3>2. Waits'
      BY <2>1, <2>4 DEF CardInv, Waits
    <3> QED
      BY <2>1, <2>2, <2>4, <3>1, <3>2, TameKeepsApart DEF CardInv, IsOverlap
  <2> QED
    BY <1>5, <2>3, <2>4 DEF SyncNowDone
<1> QED
  BY <1>1, <1>2, <1>3, <1>4, <1>5 DEF Continues

LEMMA OutsideCard ==
  ASSUME TypeOK, TypeOK', CardInv,
         RequestRemotePurge \/ FetchBook \/ Revoked \/ Restart
  PROVE  CardInv'
<1>0. st \in SyncState /\ \A x \in Engine : eng[x] \in EngineState
  BY DEF TypeOK
<1>1. CASE RequestRemotePurge
  BY <1>1 DEF RequestRemotePurge, CardInv, Waits, IsOverlap, Apart, Alone, DoneForShown,
              PartedFrom, Started
<1>2. CASE FetchBook
  <2>1. PICK e \in Engine, w \in {{}, {"asked"}} :
          /\ Ensured(e, w) /\ eng' = [eng EXCEPT ![e] = Built]
          /\ current = 0 /\ UNCHANGED <<shown, op, st, saved>>
    BY <1>2 DEF FetchBook
  <2>2. /\ \A x \in Engine \ {e} : eng'[x] = eng[x]
        /\ eng'[e] = Built /\ current' = e /\ windows \subseteq windows'
    BY <2>1, EnsuredIs
  <2>3. \A x \in Engine : eng'[x].waited => eng[x].waited
    BY <2>2, BuiltIs
  <2>4. ~Started'
    BY <2>2, BuiltIs DEF Started
  <2>5. ASSUME Apart PROVE Apart'
    <3>1. Alone' /\ DoneForShown'
      BY <2>1, <2>4, <2>5 DEF Apart, Alone, DoneForShown
    <3>2. PartedFrom'
      BY <2>1, <2>2, <2>5, BuiltIs DEF Apart, PartedFrom, Rests
    <3> QED
      BY <3>1, <3>2 DEF Apart
  <2> QED
    BY <2>1, <2>2, <2>3, <2>5 DEF CardInv, Waits, IsOverlap
<1>3. CASE Revoked
  <2>1. \A x \in Engine : eng'[x] = eng[x] \/ eng'[x] = [eng[x] EXCEPT !.held.alive = FALSE]
    BY <1>3 DEF Revoked
  <2>2. AllTame
    BY <1>0, <2>1 DEF AllTame, Tame, Rests, EngineState
  <2> QED
    BY <1>3, <2>2, TameKeepsWaits, TameKeepsApart DEF Revoked, CardInv, Closes, IsOverlap
<1>4. CASE Restart
  <2>1. /\ op' = NoOps /\ st' = saved /\ saved' = saved /\ shown' = auth.of
        /\ windows \subseteq windows'
        /\ auth.of = None => current' = 0
    BY <1>4 DEF Restart
  <2>2. ~[Gone EXCEPT !.mem = Shared, !.queue = Shared, !.ticking = TRUE,
                      !.synced = saved.lastSync, !.stage = "layout"].waited
    BY DEF Gone
  <2>3. \A x \in Engine : ~eng'[x].waited
    BY <1>4, <2>2, GoneIs DEF Restart
  <2> QED
    BY <2>1, <2>3, NoOpsIs
       DEF CardInv, Waits, IsOverlap, Apart, Alone, DoneForShown, PartedFrom, Started
<1> QED
  BY <1>1, <1>2, <1>3, <1>4

LEMMA InitCard == Init => CardInv
<1> SUFFICES ASSUME Init PROVE CardInv
  OBVIOUS
<1>1. op = NoOps /\ saved = st
  BY DEF Init
<1>2. PICK a \in Starting :
        /\ shown = a /\ current = IF a = None THEN 0 ELSE 1
        /\ eng = [e \in Engine |->
             IF e # current THEN Gone
             ELSE [Gone EXCEPT !.mem = Shared, !.queue = Shared,
                               !.ticking = TRUE, !.synced = TRUE]]
  BY DEF Init
<1>3. ~[Gone EXCEPT !.mem = Shared, !.queue = Shared, !.ticking = TRUE,
                    !.synced = TRUE].waited
  BY DEF Gone
<1>4. \A x \in Engine : ~eng[x].waited
  BY <1>2, <1>3, GoneIs
<1>5. Started => shown # None
  BY <1>2 DEF Started
<1> QED
  BY <1>1, <1>4, <1>5, NoOpsIs DEF CardInv, Waits, Apart, Alone, DoneForShown, PartedFrom

LEMMA StepCard == AInv /\ CardInv /\ [Next]_vars => CardInv'
<1> SUFFICES ASSUME AInv, CardInv, [Next]_vars PROVE CardInv'
  OBVIOUS
<1>1. TypeOK /\ TypeOK' /\ OneEngineTicks
  BY StepTyped DEF AInv
<1>2. CASE Card
  BY <1>1, <1>2, CardCard
<1>3. CASE Continues
  BY <1>1, <1>3, ContinuesCard
<1>4. ASSUME NEW e \in Engine, PassStep(e) \/ Renew(e) \/ Fails(e) PROVE CardInv'
  BY <1>1, <1>4, PassCard, DroppedCard
<1>5. CASE RequestRemotePurge \/ FetchBook \/ Revoked \/ Restart
  BY <1>1, <1>5, OutsideCard
<1>6. CASE UNCHANGED vars
  BY <1>6 DEF vars, CardInv, Waits, IsOverlap, Apart, Alone, DoneForShown, PartedFrom,
              Started
<1> QED
  BY <1>2, <1>3, <1>4, <1>5, <1>6 DEF Next

(***************************************************************************)
(* No timer ticks on a device that is signed out, however the card's       *)
(* operations, a restart, a dead token and an engine built for a book      *)
(* meet, if no two operations of the card overlapped (startEngine,         *)
(* stopEngine and who calls them).                                         *)
(***************************************************************************)
THEOREM SignedOutIsStill == Spec => []TicksSignedIn
<1>1. CardInv => TicksSignedIn
  BY DEF CardInv, Apart, DoneForShown, TicksSignedIn, Barred, IsOverlap
<1>2. AInv /\ CardInv /\ [Next]_vars => (AInv /\ CardInv)'
  BY StepAInv, StepCard
<1> QED
  BY <1>1, <1>2, InitAInv, InitCard, PTL DEF Spec

-----------------------------------------------------------------------------
(***************************************************************************)
(* What a sign-out leaves: a state without ids and without a time of the   *)
(* last sync, and an engine, if one was built since, that gets no token.   *)
(***************************************************************************)
IsEarly == "early" \in windows

NobodysEngine(r) ==
  r.mem = Shared /\ r.stage \in {"idle", "layout", "denied"} /\ ~r.synced

LeftClean ==
  left => /\ shown = None /\ st.mem = None /\ ~st.lastSync
          /\ current # 0 => NobodysEngine(eng[current])

QuietInv ==
  /\ op.signOut = "clearing" => current = 0 \/ IsEarly
  /\ IsLate \/ IsEarly \/ LeftClean

\* A step that leaves the current engine and the state as they are.
LEMMA UntouchedKeeps ==
  ASSUME QuietInv, op'.signOut \in {op.signOut, "no"}, windows \subseteq windows',
         UNCHANGED <<shown, left, current>>,
         st'.mem = st.mem, st'.lastSync => st.lastSync,
         current # 0 /\ NobodysEngine(eng[current]) => NobodysEngine(eng'[current])
  PROVE  QuietInv'
BY DEF QuietInv, LeftClean, IsLate, IsEarly

LEMMA NoCarrier ==
  ASSUME AInv, NEW e \in Engine, NEW a \in Account, Carries(e, a),
         e = current, eng[e].mem = Shared, shown = None
  PROVE  IsLate
<1>1. a # None /\ NoToken.of = None
  BY AccountSessionAssumption DEF NoToken
<1> QED
  BY <1>1 DEF Carries, AInv, ShownInv, RenewsAsShown

LEMMA PassQuiet ==
  ASSUME AInv, CardInv, QuietInv, NEW e \in Engine, TypeOK',
         PassStep(e) \/ Fails(e) \/ Renew(e), ~HandleSignedOut(e)
  PROVE  QuietInv'
<1>0. /\ TypeOK /\ OneEngineTicks /\ eng[e] \in EngineState /\ st \in SyncState /\ op \in Ops
      /\ {"layout", "drain", "list", "move", "land", "done", "denied"} \subseteq Stages
      /\ current # 0 => current \in Engine
      /\ e # 0
  BY DEF AInv, TypeOK, Stages, Engine
<1>1. PassFrame(e)
  BY <1>0, PassIs
<1>2. op'.signOut = op.signOut
  BY <1>0, <1>1 DEF PassFrame, TellsSyncNow, Ops
<1>3. /\ op'.signOut \in {op.signOut, "no"} /\ windows \subseteq windows'
      /\ UNCHANGED <<shown, left, current>>
  BY <1>1, <1>2 DEF PassFrame
<1>4. ASSUME NEW s \in Stages, Next1(e, s), st'.mem = st.mem, st'.lastSync = st.lastSync,
             eng[e].stage \in {"idle", "layout", "denied"} => s \in {"idle", "layout", "denied"}
      PROVE  QuietInv'
  <2>1. /\ \A x \in Engine \ {e} : eng'[x] = eng[x]
        /\ eng'[e].mem = eng[e].mem /\ eng'[e].synced = eng[e].synced /\ eng'[e].stage = s
    BY <1>0, <1>4, NextIs DEF Same
  <2>2. current # 0 /\ NobodysEngine(eng[current]) => NobodysEngine(eng'[current])
    BY <1>0, <1>4, <2>1 DEF NobodysEngine
  <2> QED
    BY <1>3, <1>4, <2>2, UntouchedKeeps
<1>5. CASE Begins(e)
  <2>1. e = current
    BY <1>0, <1>5 DEF Begins, OneEngineTicks
  <2>2. /\ eng'[e].mem = eng[e].mem /\ eng'[e].synced = eng[e].synced
        /\ eng'[e].stage = "layout"
        /\ st'.mem = st.mem /\ (st'.lastSync => st.lastSync \/ eng[e].synced)
    BY <1>0, <1>5 DEF Begins, Emit, TypeOK, EngineState, SyncState
  <2> QED
    BY <1>0, <1>3, <2>1, <2>2 DEF QuietInv, LeftClean, NobodysEngine, IsLate, IsEarly
<1>6. CASE EnsureLayout(e)
  <2>1. CASE MemOf(e) # None
    <3>1. Next1(e, "drain") /\ UNCHANGED st /\ eng[e].stage = "layout"
      BY <1>6, <2>1 DEF EnsureLayout
    <3>2. /\ \A x \in Engine \ {e} : eng'[x] = eng[x]
      BY <1>0, <3>1, NextIs
    <3>3. ~IsLate /\ ~IsEarly /\ left => e # current
      BY <1>0, <2>1 DEF QuietInv, LeftClean, NobodysEngine, MemOf
    <3> QED
      BY <1>0, <1>3, <3>1, <3>2, <3>3 DEF QuietInv, LeftClean, NobodysEngine, IsLate, IsEarly
  <2>2. CASE MemOf(e) = None
    <3>1. PICK a \in Account : Carries(e, a) /\ windows' = windows \cup Late(e)
      BY <1>6, <2>2 DEF EnsureLayout
    <3>2. IsLate' \/ (e = current /\ eng[e].mem = Shared)
      BY <3>1 DEF Late, IsLate
    <3>3. IsLate' \/ ~left \/ IsEarly
      BY <3>1, <3>2, NoCarrier, <1>3 DEF QuietInv, LeftClean, IsLate
    <3> QED
      BY <1>3, <3>3 DEF QuietInv, LeftClean, IsLate, IsEarly
  <2> QED
    BY <2>1, <2>2
<1>7. CASE /\ eng[e].stage \in {"drain", "list", "move", "land", "done"}
           /\ \A x \in Engine \ {e} : eng'[x] = eng[x]
           /\ st'.mem = st.mem /\ st'.lastSync = st.lastSync
  <2>1. current # 0 /\ NobodysEngine(eng[current]) => NobodysEngine(eng'[current])
    BY <1>0, <1>7 DEF NobodysEngine
  <2> QED
    BY <1>3, <1>7, <2>1, UntouchedKeeps
<1>8. CASE Purges(e) \/ PurgesNothing(e) \/ ListRemote(e) \/ Transfer(e) \/ Land(e)
  <2>1. eng[e].stage \in {"drain", "list", "move", "land"}
    BY <1>8 DEF Purges, PurgesNothing, ListRemote, Transfer, Requests, Land
  <2>2. st'.mem = st.mem /\ st'.lastSync = st.lastSync
    BY <1>0, <1>8 DEF Purges, PurgesNothing, ListRemote, Transfer, Requests, Land, SyncState
  <2>3. \A x \in Engine \ {e} : eng'[x] = eng[x]
    BY <1>0, <1>8
       DEF Purges, PurgesNothing, ListRemote, Transfer, Requests, Land, Next1, TypeOK
  <2> QED
    BY <1>7, <2>1, <2>2, <2>3
<1>9. CASE Finishes(e) \/ Fails(e) \/ Misdirected(e) \/ Denied(e)
  <2>1. PICK b \in BOOLEAN :
          /\ Ends(e, b)
          /\ b => eng[e].stage \in {"drain", "list", "move", "land", "done"}
    BY <1>9 DEF Finishes, Fails, Misdirected, Denied
  <2>2. /\ windows' = windows \cup Late(e) /\ st'.mem = st.mem
        /\ e # current /\ current # 0 => eng'[current] = eng[current]
        /\ e = current => /\ eng'[e].stage = "idle" /\ eng'[e].mem = eng[e].mem
                          /\ ~b => eng'[e].synced = eng[e].synced
        /\ ~b /\ ~eng[e].synced => st'.lastSync = st.lastSync
    BY <1>0, <2>1, EndsIs DEF SyncState
  <2>3. IsLate' \/ e = current
    BY <2>2 DEF Late, IsLate
  <2> QED
    BY <1>0, <1>3, <2>1, <2>2, <2>3 DEF QuietInv, LeftClean, NobodysEngine, IsLate, IsEarly
<1>10. CASE Refused(e) \/ Renew(e)
  <2>1. /\ \A x \in Engine \ {e} : eng'[x] = eng[x]
        /\ eng'[e].mem = eng[e].mem /\ eng'[e].synced = eng[e].synced
        /\ eng'[e].stage \in {eng[e].stage, "denied"} /\ UNCHANGED st
    BY <1>0, <1>10 DEF Refused, Renew, TypeOK, EngineState
  <2>2. current # 0 /\ NobodysEngine(eng[current]) => NobodysEngine(eng'[current])
    BY <1>0, <2>1 DEF NobodysEngine
  <2> QED
    BY <1>3, <2>1, <2>2, UntouchedKeeps
<1> QED
  BY <1>5, <1>6, <1>8, <1>9, <1>10 DEF PassStep

LEMMA DroppedQuiet ==
  ASSUME AInv, CardInv, QuietInv, NEW e \in Engine, HandleSignedOut(e)
  PROVE  QuietInv'
BY DEF HandleSignedOut, QuietInv, LeftClean

\* An engine built or started while nobody is shown is nobody's.
LEMMA StartQuiet ==
  ASSUME AInv, QuietInv, StartEngine, op'.signOut = op.signOut, UNCHANGED <<shown, left>>
  PROVE  QuietInv'
<1>0. TypeOK /\ st \in SyncState
  BY DEF AInv, TypeOK
<1>1. PICK e \in Engine :
        /\ Ensured(e, {}) /\ eng' = [eng EXCEPT ![e] = eng'[e]]
        /\ eng'[e].mem = Found(e).mem /\ eng'[e].synced = Found(e).synced
        /\ eng'[e].stage \in {Found(e).stage, "layout"}
        /\ UNCHANGED <<st, saved>> \/ Emit(Found(e))
  BY <1>0, StartIs
<1>2. /\ current' = e /\ windows \subseteq windows' /\ e # 0
      /\ \/ current = e /\ Found(e) = eng[e]
         \/ /\ current = 0 /\ Found(e) = Built
            /\ op.signOut = "clearing" => "early" \in windows'
  BY <1>0, <1>1, EnsuredIs DEF Engine
<1>3. st'.mem = st.mem /\ (st'.lastSync => st.lastSync \/ Found(e).synced)
  BY <1>0, <1>1 DEF Emit, SyncState
<1> QED
  BY <1>1, <1>2, <1>3, BuiltIs DEF QuietInv, LeftClean, NobodysEngine, IsLate, IsEarly

LEMMA StopQuiet ==
  ASSUME AInv, QuietInv, StopEngine, op'.signOut = op.signOut, UNCHANGED <<shown, left>>
  PROVE  QuietInv'
<1>1. TypeOK /\ (current # 0 => current \in Engine)
  BY DEF AInv, TypeOK
<1>2. UNCHANGED <<current, st, saved, windows>> /\ eng' = Stopped
  BY DEF StopEngine
<1>3. current # 0 /\ NobodysEngine(eng[current]) => NobodysEngine(eng'[current])
  BY <1>1, <1>2, StoppedIs DEF NobodysEngine
<1> QED
  BY <1>2, <1>3, UntouchedKeeps

LEMMA CardQuiet ==
  ASSUME AInv, QuietInv, Card
  PROVE  QuietInv'
<1>0. op \in Ops /\ st \in SyncState /\ TypeOK
  BY DEF AInv, TypeOK
<1>1. CASE ClickSignIn \/ SignInAbandoned
  <2>1. op'.signOut = op.signOut /\ windows \subseteq windows'
        /\ UNCHANGED <<shown, left, current, eng, st>>
    BY <1>0, <1>1 DEF ClickSignIn, SignInAbandoned, Ops
  <2> QED
    BY <2>1, UntouchedKeeps
<1>2. CASE ClickSignOut
  BY <1>2 DEF ClickSignOut, QuietInv, LeftClean, IsLate, IsEarly
<1>3. CASE ClickToggle
  <2>1. op'.signOut = op.signOut
    BY <1>0, <1>3 DEF ClickToggle, Ops
  <2> QED
    BY <1>3, <2>1 DEF ClickToggle, QuietInv, LeftClean, IsLate, IsEarly
<1>4. CASE ClickSyncNow
  <2>1. PICK e \in Engine :
          /\ Ensured(e, Overlap) /\ shown # None /\ op' = [op EXCEPT !.syncNow = "pass"]
          /\ eng' = [eng EXCEPT ![e] = [Found(e) EXCEPT !.stage = "layout", !.waited = TRUE]]
          /\ UNCHANGED <<shown, left>>
    BY <1>4 DEF ClickSyncNow
  <2>2. /\ windows \subseteq windows'
        /\ current' = current \/ (op.signOut = "clearing" => "early" \in windows')
    BY <1>0, <2>1, EnsuredIs
  <2>3. op'.signOut = op.signOut
    BY <1>0, <2>1 DEF Ops
  <2> QED
    BY <2>1, <2>2, <2>3 DEF QuietInv, LeftClean, IsLate, IsEarly
<1>5. ASSUME NEW a \in Account, SignInGranted(a) PROVE QuietInv'
  <2>1. op'.signOut = op.signOut /\ windows \subseteq windows' /\ UNCHANGED current
        /\ ~left'
    BY <1>0, <1>5 DEF SignInGranted, Ops
  <2> QED
    BY <2>1 DEF QuietInv, LeftClean, IsLate, IsEarly
<1>6. CASE ClickSyncNowBeside
  <2>1. /\ windows \subseteq windows' /\ shown # None
        /\ UNCHANGED <<shown, left, st, current, op>>
    BY <1>6 DEF ClickSyncNowBeside
  <2> QED
    BY <2>1 DEF QuietInv, LeftClean, IsLate, IsEarly
<1> QED
  BY <1>1, <1>2, <1>3, <1>4, <1>5, <1>6 DEF Card

LEMMA ContinuesQuiet ==
  ASSUME AInv, QuietInv, Continues
  PROVE  QuietInv'
<1>0. op \in Ops /\ st \in SyncState /\ TypeOK
  BY DEF AInv, TypeOK
<1>1. CASE SignInStarts
  <2>1. op'.signOut = op.signOut
    BY <1>0, <1>1 DEF SignInStarts, Ops
  <2> QED
    BY <1>1, <2>1, StartQuiet DEF SignInStarts
<1>2. CASE SignOutClears
  <2>1. op.signOut = "clearing" /\ op'.signOut = "removing" /\ shown' = None
        /\ UNCHANGED <<current, windows>> /\ st' = SignedOutState
    BY <1>0, <1>2 DEF SignOutClears, Becomes, Ops
  <2>2. SignedOutState.mem = None /\ ~SignedOutState.lastSync
    BY <1>0 DEF SignedOutState, SyncState
  <2> QED
    BY <2>1, <2>2 DEF QuietInv, LeftClean, IsLate, IsEarly
<1>3. CASE SignOutRemoves
  <2>1. op'.signOut = "no" /\ UNCHANGED <<shown, left, current, eng, st, windows>>
    BY <1>0, <1>3 DEF SignOutRemoves, Ops
  <2> QED
    BY <2>1, UntouchedKeeps
<1>4. CASE Toggles
  <2>1. op'.signOut = op.signOut
    BY <1>0, <1>4 DEF Toggles, Ops
  <2> QED
    BY <1>4, <2>1, StartQuiet, StopQuiet DEF Toggles
<1>5. CASE SyncNowDone
  <2>1. op'.signOut = op.signOut /\ UNCHANGED <<shown, left>>
    BY <1>0, <1>5 DEF SyncNowDone, Ops
  <2>2. CASE UNCHANGED <<eng, current, st, saved, windows>>
    BY <2>1, <2>2, UntouchedKeeps
  <2> QED
    BY <1>5, <2>1, <2>2, StartQuiet DEF SyncNowDone
<1> QED
  BY <1>1, <1>2, <1>3, <1>4, <1>5 DEF Continues

LEMMA OutsideQuiet ==
  ASSUME AInv, CardInv, QuietInv, RequestRemotePurge \/ FetchBook \/ Revoked \/ Restart
  PROVE  QuietInv'
<1>0. TypeOK /\ op \in Ops /\ st \in SyncState /\ \A x \in Engine : eng[x] \in EngineState
  BY DEF AInv, TypeOK
<1>1. CASE RequestRemotePurge
  <2>1. st'.mem = st.mem /\ st'.lastSync = st.lastSync
        /\ UNCHANGED <<shown, left, current, eng, op, windows>>
    BY <1>0, <1>1 DEF RequestRemotePurge, SyncState
  <2> QED
    BY <2>1, UntouchedKeeps
<1>2. CASE FetchBook
  <2>1. PICK e \in Engine, w \in {{}, {"asked"}} :
          /\ Ensured(e, w) /\ eng' = [eng EXCEPT ![e] = Built]
          /\ current = 0 /\ UNCHANGED <<shown, left, op, st>>
    BY <1>2 DEF FetchBook
  <2>2. /\ windows \subseteq windows' /\ current' = e /\ eng'[e] = Built
        /\ current = e \/ (op.signOut = "clearing" => "early" \in windows')
    BY <1>0, <2>1, EnsuredIs
  <2>3. current # e
    BY <2>1 DEF Engine
  <2> QED
    BY <2>1, <2>2, <2>3, BuiltIs DEF QuietInv, LeftClean, NobodysEngine, IsLate, IsEarly
<1>3. CASE Revoked
  <2>1. UNCHANGED <<shown, left, current, op, windows, st>>
    BY <1>3 DEF Revoked
  <2>2. \A x \in Engine : eng'[x] = eng[x] \/ eng'[x] = [eng[x] EXCEPT !.held.alive = FALSE]
    BY <1>3 DEF Revoked
  <2>3. \A x \in Engine : NobodysEngine(eng[x]) => NobodysEngine(eng'[x])
    BY <1>0, <2>2 DEF NobodysEngine, EngineState
  <2> QED
    BY <1>0, <2>1, <2>3, UntouchedKeeps DEF TypeOK
<1>4. CASE Restart
  <2>1. /\ op' = NoOps /\ st' = saved /\ shown' = auth.of /\ left' = left
        /\ windows \subseteq windows'
        /\ auth.of = None => current' = 0
    BY <1>4 DEF Restart
  <2>2. saved = st /\ (IsLate \/ auth.of \in {None, shown})
    BY DEF CardInv, AInv, ShownInv
  <2> QED
    BY <2>1, <2>2, NoOpsIs DEF QuietInv, LeftClean, IsLate, IsEarly
<1> QED
  BY <1>1, <1>2, <1>3, <1>4

LEMMA StepQuiet == AInv /\ CardInv /\ QuietInv /\ [Next]_vars => QuietInv'
<1> SUFFICES ASSUME AInv, CardInv, QuietInv, [Next]_vars PROVE QuietInv'
  OBVIOUS
<1>1. TypeOK'
  BY StepTyped DEF AInv
<1>2. CASE Card
  BY <1>2, CardQuiet
<1>3. CASE Continues
  BY <1>3, ContinuesQuiet
<1>4. ASSUME NEW e \in Engine, PassStep(e) \/ Renew(e) \/ Fails(e) PROVE QuietInv'
  BY <1>1, <1>4, PassQuiet, DroppedQuiet
<1>5. CASE RequestRemotePurge \/ FetchBook \/ Revoked \/ Restart
  BY <1>5, OutsideQuiet
<1>6. CASE UNCHANGED vars
  BY <1>6 DEF vars, QuietInv, LeftClean, IsLate, IsEarly
<1> QED
  BY <1>2, <1>3, <1>4, <1>5, <1>6 DEF Next

LEMMA InitQuiet == Init => QuietInv
BY NoOpsIs DEF Init, QuietInv, LeftClean

(***************************************************************************)
(* Signing out leaves nothing to alarm about, whatever is started, asked   *)
(* for or restarted afterwards: no step of the session that is over, and   *)
(* no book asked for during the sign-out, is the only way lastSyncAt comes *)
(* back (signedOutState, recordPassResult).                                *)
(***************************************************************************)
THEOREM QuietAfterSignOut == Spec => []SignOutIsQuiet
<1>1. QuietInv => SignOutIsQuiet
  BY DEF QuietInv, LeftClean, SignOutIsQuiet, Barred, IsLate, IsEarly
<1>2. AInv /\ CardInv /\ QuietInv /\ [Next]_vars => (AInv /\ CardInv /\ QuietInv)'
  BY StepAInv, StepCard, StepQuiet
<1>3. Init => AInv /\ CardInv /\ QuietInv
  BY InitAInv, InitCard, InitQuiet
<1> QED
  BY <1>1, <1>2, <1>3, PTL DEF Spec

-----------------------------------------------------------------------------
(***************************************************************************)
(* The merge base was agreed with the Drive whose ids the state holds, but *)
(* for the time a sign-out takes to delete the bases.                      *)
(***************************************************************************)
BaseInv ==
  \/ IsLate \/ IsOverlap \/ "cut" \in windows
  \/ base \in {None, st.mem} \/ op.signOut = "removing"

LEMMA BaseStays ==
  ASSUME BaseInv, base' = base, st'.mem = st.mem, windows \subseteq windows',
         op.signOut = "removing" => op'.signOut = "removing"
  PROVE  BaseInv'
BY DEF BaseInv, IsLate, IsOverlap

LEMMA EmitKeepsMem ==
  ASSUME TypeOK, NEW r, Emit(r)
  PROVE  st'.mem = st.mem
BY DEF TypeOK, SyncState, Emit

LEMMA StartBase ==
  ASSUME TypeOK, BaseInv, StartEngine \/ StopEngine, base' = base,
         op.signOut = "removing" => op'.signOut = "removing"
  PROVE  BaseInv'
<1>1. CASE StopEngine
  BY <1>1, BaseStays DEF StopEngine
<1>2. CASE StartEngine
  <2>1. PICK e \in Engine :
          /\ Ensured(e, {}) /\ eng' = [eng EXCEPT ![e] = eng'[e]]
          /\ UNCHANGED <<st, saved>> \/ Emit(Found(e))
    BY <1>2, StartIs
  <2>2. windows \subseteq windows' /\ st'.mem = st.mem
    BY <2>1, EnsuredIs, EmitKeepsMem
  <2> QED
    BY <2>2, BaseStays
<1> QED
  BY <1>1, <1>2

LEMMA PassBase ==
  ASSUME TypeOK, BaseInv, NEW e \in Engine, PassStep(e) \/ Fails(e) \/ Renew(e),
         ~HandleSignedOut(e)
  PROVE  BaseInv'
<1>0. st \in SyncState /\ op \in Ops
  BY DEF TypeOK
<1>1. windows \subseteq windows' /\ op'.signOut = op.signOut
  <2>1. PassFrame(e)
    BY PassIs
  <2> QED
    BY <1>0, <2>1 DEF PassFrame, TellsSyncNow, Ops
<1>2. CASE Begins(e)
  BY <1>1, <1>2, EmitKeepsMem, BaseStays DEF Begins
<1>3. CASE EnsureLayout(e)
  <2>1. CASE MemOf(e) = None /\ eng[e].mem = Shared
    <3>1. base' = base /\ st.mem = None
      BY <1>3, <2>1 DEF EnsureLayout, MemOf
    <3> QED
      BY <1>1, <3>1 DEF BaseInv, IsLate, IsOverlap
  <2>2. CASE MemOf(e) # None \/ eng[e].mem # Shared
    BY <1>1, <1>3, <2>2, BaseStays DEF EnsureLayout
  <2> QED
    BY <2>1, <2>2
<1>4. CASE Purges(e) \/ PurgesNothing(e) \/ ListRemote(e) \/ Transfer(e)
           \/ Refused(e) \/ Renew(e)
  <2>1. st'.mem = st.mem /\ base' = base
    BY <1>0, <1>4
       DEF Purges, PurgesNothing, ListRemote, Transfer, Requests, Refused, Renew, SyncState
  <2> QED
    BY <1>1, <2>1, BaseStays
<1>5. CASE Land(e)
  <2>1. base' = MemOf(e) /\ windows' = windows \cup Late(e) /\ st' = st
    BY <1>5 DEF Land
  <2> QED
    BY <2>1 DEF Late, MemOf, BaseInv, IsLate
<1>6. CASE Finishes(e) \/ Fails(e) \/ Misdirected(e) \/ Denied(e)
  <2>1. PICK b \in BOOLEAN : Ends(e, b) /\ base' = base
    BY <1>6 DEF Finishes, Fails, Misdirected, Denied
  <2>2. st'.mem = st.mem
    BY <1>0, <2>1, EndsIs DEF SyncState
  <2> QED
    BY <1>1, <2>1, <2>2, BaseStays
<1> QED
  BY <1>2, <1>3, <1>4, <1>5, <1>6 DEF PassStep

LEMMA DroppedBase ==
  ASSUME TypeOK, BaseInv, NEW e \in Engine, HandleSignedOut(e)
  PROVE  BaseInv'
<1>1. st'.mem = st.mem /\ base' = base /\ windows \subseteq windows'
  BY EmitKeepsMem DEF HandleSignedOut
<1>2. op'.signOut = op.signOut
  BY DEF HandleSignedOut, TypeOK, Ops
<1> QED
  BY <1>1, <1>2, BaseStays

LEMMA CardBase ==
  ASSUME TypeOK, BaseInv, Card
  PROVE  BaseInv'
<1>0. op \in Ops /\ st \in SyncState
  BY DEF TypeOK
<1>1. CASE ClickSignIn \/ SignInAbandoned \/ ClickToggle
  <2>1. /\ base' = base /\ windows \subseteq windows' /\ st'.mem = st.mem
        /\ op'.signOut = op.signOut
    BY <1>0, <1>1 DEF ClickSignIn, SignInAbandoned, ClickToggle, Ops, SyncState
  <2> QED
    BY <2>1, BaseStays
<1>2. CASE ClickSignOut
  BY <1>2, BaseStays DEF ClickSignOut
<1>3. CASE ClickSyncNow
  <2>1. PICK e \in Engine :
          /\ Ensured(e, Overlap) /\ Emit(Found(e)) /\ base' = base
          /\ op' = [op EXCEPT !.syncNow = "pass"]
    BY <1>3 DEF ClickSyncNow
  <2>2. st'.mem = st.mem /\ op'.signOut = op.signOut /\ windows \subseteq windows'
    BY <1>0, <2>1, EmitKeepsMem, OpIs DEF Ensured
  <2> QED
    BY <2>1, <2>2, BaseStays
<1>4. ASSUME NEW a \in Account, SignInGranted(a) PROVE BaseInv'
  <2>1. base' = base /\ st' = SignedInState(a) /\ windows \subseteq windows'
        /\ op' = [op EXCEPT !.signIn = "saving"]
    BY <1>4 DEF SignInGranted, Becomes
  <2>2. st'.mem = st.mem /\ op'.signOut = op.signOut
    BY <1>0, <2>1, OpIs DEF SignedInState, SyncState
  <2> QED
    BY <2>1, <2>2, BaseStays
<1>5. CASE ClickSyncNowBeside
  BY <1>5, BaseStays DEF ClickSyncNowBeside
<1> QED
  BY <1>1, <1>2, <1>3, <1>4, <1>5 DEF Card

LEMMA ContinuesBase ==
  ASSUME TypeOK, BaseInv, Continues
  PROVE  BaseInv'
<1>0. op \in Ops
  BY DEF TypeOK
<1>1. CASE SignOutClears
  <2>1. op'.signOut = "removing"
    BY <1>0, <1>1 DEF SignOutClears, Ops
  <2> QED
    BY <2>1 DEF BaseInv
<1>2. CASE SignOutRemoves
  BY <1>2 DEF SignOutRemoves, BaseInv
<1>3. CASE SignInStarts \/ Toggles \/ SyncNowDone
  <2>1. base' = base /\ op'.signOut = op.signOut
    BY <1>0, <1>3 DEF SignInStarts, Toggles, SyncNowDone, Ops
  <2>2. CASE StartEngine \/ StopEngine
    BY <2>1, <2>2, StartBase
  <2>3. CASE UNCHANGED <<eng, current, st, saved, windows>>
    BY <2>1, <2>3, BaseStays
  <2> QED
    BY <1>3, <2>2, <2>3 DEF SignInStarts, Toggles, SyncNowDone
<1> QED
  BY <1>1, <1>2, <1>3 DEF Continues

LEMMA OutsideBase ==
  ASSUME TypeOK, CardInv, BaseInv, RequestRemotePurge \/ FetchBook \/ Revoked \/ Restart
  PROVE  BaseInv'
<1>1. CASE RequestRemotePurge \/ FetchBook \/ Revoked
  <2>1. base' = base /\ op' = op /\ windows \subseteq windows' /\ st'.mem = st.mem
    BY <1>1 DEF RequestRemotePurge, FetchBook, Revoked, Ensured, TypeOK, SyncState
  <2> QED
    BY <2>1, BaseStays
<1>2. CASE Restart
  <2>1. /\ st' = st /\ base' = base /\ windows \subseteq windows'
        /\ op.signOut = "removing" => "cut" \in windows'
    BY <1>2 DEF Restart, CardInv
  <2> QED
    BY <2>1 DEF BaseInv, IsLate, IsOverlap
<1> QED
  BY <1>1, <1>2

LEMMA StepBase == TypeOK /\ CardInv /\ BaseInv /\ [Next]_vars => BaseInv'
<1> SUFFICES ASSUME TypeOK, CardInv, BaseInv, [Next]_vars PROVE BaseInv'
  OBVIOUS
<1>1. CASE Card
  BY <1>1, CardBase
<1>2. CASE Continues
  BY <1>2, ContinuesBase
<1>3. ASSUME NEW e \in Engine, PassStep(e) \/ Renew(e) \/ Fails(e) PROVE BaseInv'
  BY <1>3, PassBase, DroppedBase
<1>4. CASE RequestRemotePurge \/ FetchBook \/ Revoked \/ Restart
  BY <1>4, OutsideBase
<1>5. CASE UNCHANGED vars
  BY <1>5, BaseStays DEF vars
<1> QED
  BY <1>1, <1>2, <1>3, <1>4, <1>5 DEF Next

LEMMA InitBase == Init => BaseInv
<1> SUFFICES ASSUME Init PROVE BaseInv
  OBVIOUS
<1>1. PICK a \in Starting :
        /\ base = a
        /\ st = [mem |-> a, queue |-> Empty, tag |-> None,
                 lastSync |-> a # None, autoSync |-> a # None]
  BY DEF Init
<1> QED
  BY <1>1 DEF BaseInv

(***************************************************************************)
(* A file is merged over a base agreed with the Drive it is merged with,   *)
(* whoever signs in after whom: no engine that shares the state runs while *)
(* a sign-out deletes the bases (signOutOfGoogle).                         *)
(***************************************************************************)
THEOREM MergesOverItsOwnBase == Spec => MergeKnowsItsDrive
<1>1. AInv /\ CardInv /\ BaseInv /\ [Next]_vars => (AInv /\ CardInv /\ BaseInv)'
  BY StepAInv, StepCard, StepBase DEF AInv
<1>2. Init => AInv /\ CardInv /\ BaseInv
  BY InitAInv, InitCard, InitBase
<1>3. AInv /\ CardInv /\ BaseInv /\ [Next]_vars =>
        [\A e \in Engine : Land(e) =>
           base \in {None, MemOf(e)} \/ Barred({"late", "cut", "overlap"})']_vars
  <2> SUFFICES ASSUME CardInv, BaseInv, NEW e \in Engine, Land(e),
                      ~Barred({"late", "cut", "overlap"})'
               PROVE  base \in {None, MemOf(e)}
    OBVIOUS
  <2>1. windows' = windows \cup Late(e)
    BY DEF Land
  <2>2. eng[e].mem = Shared /\ ~IsLate /\ ~IsOverlap /\ "cut" \notin windows
    BY <2>1 DEF Barred, Late, IsLate, IsOverlap
  <2>3. op.signOut # "removing"
    BY <2>2 DEF CardInv, Apart, PartedFrom, Land, Rests
  <2> QED
    BY <2>2, <2>3 DEF BaseInv, MemOf
<1> QED
  BY <1>1, <1>2, <1>3, PTL DEF Spec, MergeKnowsItsDrive

-----------------------------------------------------------------------------
(***************************************************************************)
(* Ids, snapshot and queue are those of whoever is shown; an engine of a   *)
(* session that is over took its ids with it, and what it may still purge  *)
(* was queued for them.                                                    *)
(***************************************************************************)
Strayed ==
  IsLate \/ IsOverlap \/ "lost" \in windows \/ "handed" \in windows \/ "asked" \in windows

\* What an engine purges, it purges where it was asked for.
PurgesAtHome(r) ==
  /\ r.mem = Shared => \/ r.queue = Shared /\ (shown # None \/ st.queue \in {Empty, None})
                       \/ r.queue \in {Empty, None}
  /\ r.mem \notin {None, Shared} =>
       /\ r.queue = Shared => st.queue \in {Empty, None, r.mem} /\ shown \in {None, r.mem}
       /\ r.queue # Shared => r.queue \in {Empty, None, r.mem}

ForShown ==
  /\ auth.of = shown /\ st.mem \in {None, shown}
  /\ st.queue \in {Empty, None, IF shown = None THEN st.tag ELSE shown}
  /\ op.signOut = "clearing" => shown # None
  /\ \A x \in Engine : PurgesAtHome(eng[x])

TokensName ==
  /\ auth.alive => auth.of # None
  /\ \A x \in Engine : eng[x].held.alive => eng[x].held.of # None

PurgeInv == TokensName /\ (Strayed \/ ForShown)

\* A step that leaves the session, and what the state says of it, as they are.
LEMMA ForShownStays ==
  ASSUME ForShown, auth'.of = auth.of, shown' = shown, st'.mem = st.mem, st'.tag = st.tag,
         st'.queue \in {st.queue, Empty}, op'.signOut = "clearing" => op.signOut = "clearing",
         \A x \in Engine :
           \/ eng'[x].mem = None
           \/ /\ eng'[x].mem = eng[x].mem
              /\ eng'[x].queue \in {eng[x].queue, Empty}
           \/ /\ eng'[x].mem = Shared /\ eng'[x].queue = Shared
              /\ shown # None \/ st.queue \in {Empty, None}
  PROVE  ForShown'
<1>1. /\ auth'.of = shown' /\ st'.mem \in {None, shown'}
      /\ st'.queue \in {Empty, None, IF shown' = None THEN st'.tag ELSE shown'}
      /\ op'.signOut = "clearing" => shown' # None
  BY DEF ForShown
<1>2. ASSUME NEW x \in Engine PROVE PurgesAtHome(eng[x])'
  <2>1. PurgesAtHome(eng[x])
    BY DEF ForShown
  <2> QED
    BY <2>1, AccountSessionAssumption DEF PurgesAtHome
<1> QED
  BY <1>1, <1>2 DEF ForShown

LEMMA CarriesForShown ==
  ASSUME AInv, PurgeInv, NEW e \in Engine, NEW a, Carries(e, a)
  PROVE  /\ a # None /\ auth'.of = a /\ auth'.alive
         /\ windows' = windows \cup Late(e) => Strayed' \/ a = shown
         /\ eng[e].held = NoToken => Strayed \/ a = shown
<1>1. CASE eng[e].held = NoToken /\ auth = [of |-> a, alive |-> TRUE] /\ UNCHANGED auth
  BY <1>1 DEF PurgeInv, TokensName, ForShown, Strayed, IsLate, IsOverlap
<1>2. CASE eng[e].held = [of |-> a, alive |-> TRUE] /\ auth' = eng[e].held
  <2>1. a # None /\ auth'.of = a /\ auth'.alive /\ eng[e].held # NoToken
    BY <1>2 DEF PurgeInv, TokensName, NoToken
  <2>2. ASSUME windows' = windows \cup Late(e) PROVE Strayed' \/ a = shown
    BY <1>2, <2>1, <2>2 DEF AInv, ShownInv, RenewsAsShown, Late, Strayed, IsLate
  <2> QED
    BY <2>1, <2>2
<1> QED
  BY <1>1, <1>2 DEF Carries

LEMMA GrantedForShown ==
  ASSUME AInv, PurgeInv, NEW e \in Engine, NEW a, Granted(e, a)
  PROVE  a # None /\ auth'.of = a /\ auth'.alive /\ (Strayed' \/ auth'.of = shown)
<1>1. windows \subseteq windows'
  BY DEF Granted
<1> QED
  BY <1>1, CarriesForShown DEF Granted, Strayed, IsLate, IsOverlap

\* Steps of a pass bring no token of their own.
LEMMA TokensStay ==
  ASSUME PurgeInv, auth'.alive => auth'.of # None,
         \A x \in Engine : eng'[x].held \in {eng[x].held, NoToken}
  PROVE  TokensName'
BY DEF PurgeInv, TokensName, NoToken

LEMMA StrayedStays == windows \subseteq windows' /\ Strayed => Strayed'
BY DEF Strayed, IsLate, IsOverlap

LEMMA PassPurge ==
  ASSUME AInv, PurgeInv, NEW e \in Engine, TypeOK',
         PassStep(e) \/ Fails(e) \/ Renew(e), ~HandleSignedOut(e)
  PROVE  PurgeInv'
<1>0. /\ TypeOK /\ eng[e] \in EngineState /\ st \in SyncState /\ op \in Ops
      /\ {"layout", "drain", "list", "move", "land", "done", "denied"} \subseteq Stages
      /\ auth.alive => auth.of # None
  BY DEF AInv, TypeOK, Stages, PurgeInv, TokensName
<1>1. PassFrame(e)
  BY <1>0, PassIs
<1>2. /\ windows \subseteq windows' /\ shown' = shown /\ op'.signOut = op.signOut
      /\ st'.tag = st.tag
  BY <1>0, <1>1 DEF PassFrame, TellsSyncNow, Ops
<1>3. ASSUME \A x \in Engine :
               \/ eng'[x] = Gone
               \/ /\ eng'[x].mem = eng[x].mem /\ eng'[x].held \in {eng[x].held, NoToken}
                  /\ eng'[x].queue \in {eng[x].queue, Empty},
             auth'.alive => auth'.of # None, Strayed' \/ auth'.of = auth.of,
             st'.mem = st.mem, st'.queue \in {st.queue, Empty}
      PROVE  PurgeInv'
  <2>1. TokensName'
    BY <1>3, GoneIs, TokensStay
  <2>2. Strayed \/ ForShown
    BY DEF PurgeInv
  <2>3. \A x \in Engine :
          \/ eng'[x].mem = None
          \/ eng'[x].mem = eng[x].mem /\ eng'[x].queue \in {eng[x].queue, Empty}
    BY <1>3, GoneIs
  <2> QED
    BY <1>2, <1>3, <2>1, <2>2, <2>3, StrayedStays, ForShownStays DEF PurgeInv
<1>4. ASSUME NEW s \in Stages, Next1(e, s)
      PROVE  \A x \in Engine : /\ eng'[x].mem = eng[x].mem /\ eng'[x].queue = eng[x].queue
                               /\ eng'[x].held \in {eng[x].held, NoToken}
  BY <1>0, <1>4, NextIs DEF Same
<1>5. ASSUME NEW a, Granted(e, a)
      PROVE  /\ auth'.alive => auth'.of # None
             /\ Strayed' \/ auth'.of = auth.of
  <2>1. Strayed \/ ForShown
    BY DEF PurgeInv
  <2> QED
    BY <1>2, <1>5, <2>1, GrantedForShown, StrayedStays DEF ForShown
<1>6. CASE Begins(e)
  <2>1. /\ \A x \in Engine : /\ eng'[x].mem = eng[x].mem /\ eng'[x].queue = eng[x].queue
                             /\ eng'[x].held = eng[x].held
        /\ auth' = auth /\ st'.mem = st.mem /\ st'.queue = st.queue
    BY <1>0, <1>6 DEF Begins, Emit, TypeOK, EngineState, SyncState
  <2> QED
    BY <1>0, <1>3, <2>1
<1>7. CASE EnsureLayout(e)
  <2>1. CASE MemOf(e) # None
    <3>1. Next1(e, "drain") /\ UNCHANGED <<auth, st>>
      BY <1>7, <2>1 DEF EnsureLayout
    <3> QED
      BY <1>0, <1>3, <1>4, <3>1
  <2>2. CASE MemOf(e) = None
    <3>1. PICK a \in Account :
            /\ Carries(e, a) /\ windows' = windows \cup Late(e)
            /\ IF eng[e].mem = Shared
               THEN st' = [st EXCEPT !.mem = a] /\ Next1(e, "drain")
               ELSE eng' = [eng EXCEPT ![e] = [eng[e] EXCEPT !.stage = "drain",
                                                             !.held = NoToken, !.mem = a]]
      BY <1>7, <2>2 DEF EnsureLayout
    <3>2. a # None /\ auth'.of = a /\ (Strayed' \/ a = shown)
      BY <3>1, CarriesForShown
    <3>3. \A x \in Engine : eng'[x].held \in {eng[x].held, NoToken}
      BY <1>0, <1>4, <3>1 DEF TypeOK, EngineState
    <3>4. TokensName'
      BY <3>2, <3>3, TokensStay
    <3>5. CASE eng[e].mem = Shared
      <4>1. st'.mem = a /\ st'.queue = st.queue
        BY <1>0, <3>1, <3>5 DEF SyncState
      <4>2. \A x \in Engine : eng'[x].mem = eng[x].mem /\ eng'[x].queue = eng[x].queue
        BY <1>0, <1>4, <3>1, <3>5
      <4>3. ASSUME ForShown, a = shown PROVE ForShown'
        BY <1>2, <3>2, <4>1, <4>2, <4>3 DEF ForShown, PurgesAtHome
      <4> QED
        BY <1>2, <3>2, <3>4, <4>3, StrayedStays DEF PurgeInv
    <3>6. CASE eng[e].mem # Shared
      BY <3>1, <3>4, <3>6 DEF PurgeInv, Strayed, IsLate, Late
    <3> QED
      BY <3>5, <3>6
  <2> QED
    BY <2>1, <2>2
<1>8. CASE Purges(e)
  <2>1. Granted(e, MemOf(e))
    BY <1>8 DEF Purges
  <2>2. CASE eng[e].queue = Shared
    <3>1. st' = [st EXCEPT !.queue = Empty] /\ Next1(e, "list")
      BY <1>8, <2>2 DEF Purges
    <3>2. st'.mem = st.mem /\ st'.queue = Empty
      BY <1>0, <3>1 DEF SyncState
    <3> QED
      BY <1>0, <1>3, <1>4, <1>5, <2>1, <3>1, <3>2
  <2>3. CASE eng[e].queue # Shared
    <3>1. /\ eng' = [eng EXCEPT ![e] = [eng[e] EXCEPT !.stage = "list", !.held = NoToken,
                                                      !.queue = Empty]]
          /\ UNCHANGED st
      BY <1>8, <2>3 DEF Purges
    <3>2. /\ \A x \in Engine \ {e} : eng'[x] = eng[x]
          /\ eng'[e].mem = eng[e].mem /\ eng'[e].queue = Empty /\ eng'[e].held = NoToken
      BY <1>0, <3>1 DEF TypeOK, EngineState
    <3> QED
      BY <1>3, <1>5, <2>1, <3>1, <3>2
  <2> QED
    BY <2>2, <2>3
<1>9. CASE PurgesNothing(e)
  <2>1. /\ auth'.alive => auth'.of # None
        /\ Strayed' \/ auth'.of = auth.of
    BY <1>0, <1>5, <1>9 DEF PurgesNothing
  <2>2. Next1(e, "list") /\ UNCHANGED st
    BY <1>9 DEF PurgesNothing
  <2> QED
    BY <1>0, <1>3, <1>4, <2>1, <2>2
<1>10. ASSUME NEW s \in Stages, NEW t \in Stages, Requests(e, s, t) PROVE PurgeInv'
  <2>1. Granted(e, MemOf(e)) /\ Next1(e, t) /\ UNCHANGED st
    BY <1>10 DEF Requests
  <2> QED
    BY <1>3, <1>4, <1>5, <2>1
<1>11. CASE Land(e)
  <2>1. Next1(e, "done") /\ UNCHANGED <<auth, st>>
    BY <1>11 DEF Land
  <2> QED
    BY <1>0, <1>3, <1>4, <2>1
<1>12. CASE Finishes(e) \/ Fails(e) \/ Misdirected(e) \/ Denied(e)
  <2>1. PICK b \in BOOLEAN : Ends(e, b)
    BY <1>12 DEF Finishes, Fails, Misdirected, Denied
  <2>2. /\ windows' = windows \cup Late(e) /\ st'.mem = st.mem /\ st'.queue = st.queue
        /\ \A x \in Engine :
             eng'[x] = Gone \/ (eng'[x].mem = eng[x].mem /\ eng'[x].queue = eng[x].queue
                                /\ eng'[x].held \in {eng[x].held, NoToken})
    BY <1>0, <2>1, EndsIs DEF SyncState
  <2>3. \/ UNCHANGED auth
        \/ \E a \in Account : Carries(e, a)
    BY <1>12 DEF Finishes, Fails, Misdirected, Denied
  <2>4. /\ auth'.alive => auth'.of # None
        /\ Strayed' \/ auth'.of = auth.of
    <3>1. Strayed \/ ForShown
      BY DEF PurgeInv
    <3> QED
      BY <1>0, <1>2, <2>2, <2>3, <3>1, CarriesForShown, StrayedStays DEF ForShown
  <2> QED
    BY <1>3, <2>2, <2>4
<1>13. CASE Refused(e) \/ Renew(e)
  <2>1. /\ \A x \in Engine :
             /\ eng'[x].mem = eng[x].mem /\ eng'[x].queue = eng[x].queue
             /\ eng'[x].held \in {eng[x].held, NoToken, auth}
        /\ UNCHANGED st
        /\ UNCHANGED auth \/ (auth' = NoToken /\ "lost" \in windows')
    BY <1>0, <1>13 DEF Refused, Renew, TypeOK, EngineState
  <2>2. TokensName'
    BY <2>1 DEF PurgeInv, TokensName, NoToken
  <2>3. ASSUME ForShown, UNCHANGED auth PROVE ForShown'
    BY <1>2, <2>1, <2>3, ForShownStays
  <2> QED
    BY <1>2, <2>1, <2>2, <2>3, StrayedStays DEF PurgeInv, Strayed
<1> QED
  BY <1>6, <1>7, <1>8, <1>9, <1>10, <1>11, <1>12, <1>13
     DEF PassStep, ListRemote, Transfer, Stages

LEMMA DroppedPurge ==
  ASSUME AInv, PurgeInv, NEW e \in Engine, HandleSignedOut(e)
  PROVE  PurgeInv'
<1>0. TypeOK /\ NoToken.alive = FALSE
  BY DEF AInv, NoToken
<1>1. auth' = NoToken /\ eng' = Ended(e, Stopped, 0, FALSE) /\ Strayed'
  BY DEF HandleSignedOut, Strayed
<1>2. PICK b \in BOOLEAN : eng' = Ended(e, Stopped, 0, b)
  BY <1>1, Zenon
<1>3. \A x \in Engine : eng'[x] = Gone \/ eng'[x].held \in {Stopped[x].held, NoToken}
  BY <1>0, <1>2, StopTyped, EndedIs
<1>4. \A x \in Engine : eng'[x].held \in {eng[x].held, NoToken}
  BY <1>0, <1>3, StoppedIs, GoneIs
<1> QED
  BY <1>0, <1>1, <1>4, TokensStay DEF PurgeInv

\* An engine that is found, or built where there is nothing to purge for others.
LEMMA EnsuredPurge ==
  ASSUME TypeOK, PurgeInv, NEW e \in Engine, NEW w, Ensured(e, w),
         NEW r, eng' = [eng EXCEPT ![e] = r],
         r.mem = Found(e).mem, r.queue = Found(e).queue, r.held = Found(e).held,
         UNCHANGED <<auth, shown>>,
         Strayed' \/ shown # None \/ st.queue \in {Empty, None},
         st'.mem = st.mem, st'.queue = st.queue, st'.tag = st.tag,
         op'.signOut = "clearing" => op.signOut = "clearing"
  PROVE  PurgeInv'
<1>1. /\ windows \subseteq windows' /\ eng'[e] = r
      /\ \A x \in Engine \ {e} : eng'[x] = eng[x]
      /\ Found(e) \in {eng[e], Built}
  BY EnsuredIs
<1>2. TokensName'
  BY <1>1, BuiltIs, TokensStay DEF PurgeInv, TokensName
<1>3. ASSUME ForShown, shown # None \/ st.queue \in {Empty, None} PROVE ForShown'
  BY <1>1, <1>3, BuiltIs, ForShownStays
<1> QED
  BY <1>1, <1>2, <1>3, StrayedStays DEF PurgeInv

LEMMA EmitKeeps ==
  ASSUME TypeOK, NEW r, Emit(r)
  PROVE  st'.mem = st.mem /\ st'.queue = st.queue /\ st'.tag = st.tag
BY DEF TypeOK, SyncState, Emit

LEMMA StartPurge ==
  ASSUME TypeOK, PurgeInv, StartEngine, UNCHANGED <<auth, shown>>, Strayed \/ shown # None,
         op'.signOut = "clearing" => op.signOut = "clearing"
  PROVE  PurgeInv'
<1>1. PICK e \in Engine :
        /\ Ensured(e, {}) /\ eng' = [eng EXCEPT ![e] = eng'[e]]
        /\ eng'[e].mem = Found(e).mem /\ eng'[e].queue = Found(e).queue
        /\ eng'[e].held = Found(e).held
        /\ UNCHANGED <<st, saved>> \/ Emit(Found(e))
  BY StartIs
<1>2. st'.mem = st.mem /\ st'.queue = st.queue /\ st'.tag = st.tag
  BY <1>1, EmitKeeps
<1>3. windows \subseteq windows'
  BY <1>1, EnsuredIs
<1> QED
  BY <1>1, <1>2, <1>3, EnsuredPurge, StrayedStays

LEMMA StopPurge ==
  ASSUME TypeOK, PurgeInv, StopEngine, UNCHANGED <<auth, shown>>,
         op'.signOut = "clearing" => op.signOut = "clearing"
  PROVE  PurgeInv'
<1>1. eng' = Stopped /\ UNCHANGED <<st, windows>>
  BY DEF StopEngine
<1>2. TokensName' /\ (ForShown => ForShown')
  BY <1>1, StoppedIs, TokensStay, ForShownStays DEF PurgeInv, TokensName
<1> QED
  BY <1>1, <1>2, StrayedStays DEF PurgeInv

LEMMA CardPurge ==
  ASSUME AInv, PurgeInv, Card
  PROVE  PurgeInv'
<1>0. TypeOK /\ op \in Ops /\ st \in SyncState /\ (auth.alive => auth.of # None)
  BY DEF AInv, TypeOK, PurgeInv, TokensName
<1>1. CASE ClickSignIn \/ SignInAbandoned \/ ClickToggle
  <2>1. /\ UNCHANGED <<auth, shown, eng>> /\ windows \subseteq windows'
        /\ st'.mem = st.mem /\ st'.queue = st.queue /\ st'.tag = st.tag
        /\ op'.signOut = op.signOut
    BY <1>0, <1>1 DEF ClickSignIn, SignInAbandoned, ClickToggle, Ops, SyncState
  <2>2. TokensName' /\ (ForShown => ForShown')
    BY <1>0, <2>1, TokensStay, ForShownStays
  <2> QED
    BY <2>1, <2>2, StrayedStays DEF PurgeInv
<1>2. CASE ClickSignOut
  <2>1. /\ UNCHANGED <<auth, shown, st>> /\ windows \subseteq windows' /\ shown # None
        /\ eng' = Held(Stopped, 0)
    BY <1>2 DEF ClickSignOut
  <2>2. \A x \in Engine : eng'[x] = Stopped[x] \/ eng'[x] = Gone
    BY <2>1 DEF Held
  <2>3. TokensName'
    BY <1>0, <2>1, <2>2, StoppedIs, GoneIs, TokensStay
  <2>4. ASSUME ForShown PROVE ForShown'
    <3>1. \A x \in Engine :
            eng'[x].mem = None \/ (eng'[x].mem = eng[x].mem /\ eng'[x].queue = eng[x].queue)
      BY <1>0, <2>2, StoppedIs, GoneIs
    <3>2. \A x \in Engine : PurgesAtHome(eng[x])'
      BY <2>1, <2>4, <3>1, AccountSessionAssumption DEF ForShown, PurgesAtHome
    <3> QED
      BY <2>1, <2>4, <3>2 DEF ForShown
  <2> QED
    BY <2>1, <2>3, <2>4, StrayedStays DEF PurgeInv
<1>3. CASE ClickSyncNow
  <2> DEFINE next(r) == [r EXCEPT !.stage = "layout", !.waited = TRUE]
  <2>1. PICK e \in Engine :
          /\ Ensured(e, Overlap) /\ Emit(Found(e)) /\ UNCHANGED <<auth, shown>>
          /\ shown # None
          /\ op' = [op EXCEPT !.syncNow = "pass"]
          /\ eng' = [eng EXCEPT ![e] = next(Found(e))]
    BY <1>3 DEF ClickSyncNow
  <2>2. Found(e) \in EngineState
    BY <1>0, BuiltTyped DEF Found, TypeOK
  <2>3. /\ next(Found(e)).mem = Found(e).mem /\ next(Found(e)).queue = Found(e).queue
        /\ next(Found(e)).held = Found(e).held
    BY <2>2 DEF EngineState
  <2> HIDE DEF next
  <2>4. st'.mem = st.mem /\ st'.queue = st.queue /\ st'.tag = st.tag
    BY <1>0, <2>1, EmitKeeps
  <2>5. op'.signOut = op.signOut
    BY <1>0, <2>1, OpIs
  <2> QED
    BY <1>0, <2>1, <2>3, <2>4, <2>5, EnsuredPurge
<1>4. ASSUME NEW a \in Account, SignInGranted(a) PROVE PurgeInv'
  <2> DEFINE q == st.tag \notin {None, a}
  <2>0. a # None /\ a # Shared /\ a # Empty
    BY AccountSessionAssumption
  <2>1. /\ shown = None /\ shown' = a /\ auth' = [of |-> a, alive |-> TRUE]
        /\ Becomes(SignedInState(a), FALSE, q)
        /\ op' = [op EXCEPT !.signIn = "saving"]
        /\ windows \subseteq windows' /\ (Handed(a) => Strayed')
    BY <1>4 DEF SignInGranted, AInv, SignsInFromOut, Strayed
  <2>2. PICK m \in BOOLEAN : ~m /\ Becomes(SignedInState(a), m, q)
    BY <2>1, Zenon
  <2>3. q \in BOOLEAN
    OBVIOUS
  <2>4. /\ st' = SignedInState(a)
        /\ \A x \in Engine :
             /\ eng'[x].held = eng[x].held /\ eng'[x].mem = eng[x].mem
             /\ eng'[x].queue = IF eng[x].queue = Shared /\ q THEN st.queue ELSE eng[x].queue
    BY <1>0, <2>2, <2>3, BecomesIs
  <2>5. op'.signOut = op.signOut
    BY <1>0, <2>1, OpIs
  <2>6. st'.mem = st.mem /\ st'.queue = IF q THEN Empty ELSE st.queue
    BY <1>0, <2>4 DEF SignedInState, SyncState
  <2>7. TokensName'
    BY <2>0, <2>1, <2>4 DEF PurgeInv, TokensName
  <2>8. ASSUME ForShown, ~Handed(a) PROVE ForShown'
    <3>1. auth'.of = shown' /\ st'.mem \in {None, shown'}
          /\ st'.queue \in {Empty, None, IF shown' = None THEN st'.tag ELSE shown'}
      BY <2>0, <2>1, <2>6, <2>8 DEF ForShown
    <3>2. op'.signOut # "clearing"
      BY <2>1, <2>5, <2>8 DEF ForShown
    <3>3. ASSUME NEW x \in Engine PROVE PurgesAtHome(eng[x])'
      <4>1. PurgesAtHome(eng[x])
        BY <2>8 DEF ForShown
      <4>2. ~q /\ eng[x].queue = Shared => eng[x].mem \in {None, Shared, a}
        BY <2>8, <4>1 DEF Handed
      <4>3. st.queue # Shared
        BY <1>0, OwnState
      <4>4. /\ eng'[x].mem = eng[x].mem
            /\ eng'[x].queue = IF eng[x].queue = Shared /\ q THEN st.queue ELSE eng[x].queue
        BY <2>4
      <4> HIDE DEF q
      <4>5. CASE eng[x].mem = Shared
        BY <2>0, <2>1, <2>6, <4>1, <4>3, <4>4, <4>5, AccountSessionAssumption DEF PurgesAtHome
      <4>6. CASE eng[x].mem # Shared
        BY <2>0, <2>1, <2>6, <4>1, <4>2, <4>3, <4>4, <4>6, AccountSessionAssumption
        DEF PurgesAtHome
      <4> QED
        BY <4>5, <4>6
    <3> QED
      BY <3>1, <3>2, <3>3 DEF ForShown
  <2> QED
    BY <2>1, <2>7, <2>8, StrayedStays DEF PurgeInv
<1>5. CASE ClickSyncNowBeside
  <2>1. /\ UNCHANGED <<auth, shown, st, op>> /\ windows \subseteq windows'
        /\ \A x \in Engine : /\ eng'[x].mem = eng[x].mem /\ eng'[x].queue = eng[x].queue
                             /\ eng'[x].held = eng[x].held
    BY <1>0, <1>5 DEF ClickSyncNowBeside, TypeOK, EngineState
  <2>2. TokensName' /\ (ForShown => ForShown')
    BY <1>0, <2>1, TokensStay, ForShownStays
  <2> QED
    BY <2>1, <2>2, StrayedStays DEF PurgeInv
<1> QED
  BY <1>1, <1>2, <1>3, <1>4, <1>5 DEF Card

LEMMA ContinuesPurge ==
  ASSUME AInv, CardInv, PurgeInv, Continues
  PROVE  PurgeInv'
<1>0. TypeOK /\ op \in Ops /\ st \in SyncState /\ (auth.alive => auth.of # None)
  BY DEF AInv, TypeOK, PurgeInv, TokensName
<1>1. CASE SignOutClears
  <2>1. /\ op.signOut = "clearing" /\ op'.signOut = "removing" /\ auth' = NoToken
        /\ shown' = None /\ UNCHANGED windows
        /\ Becomes(SignedOutState, TRUE, shown = None)
    BY <1>0, <1>1 DEF SignOutClears, Ops
  <2>2. /\ st' = SignedOutState
        /\ \A x \in Engine :
             /\ eng'[x].held = eng[x].held
             /\ eng'[x].mem = IF eng[x].mem = Shared THEN st.mem ELSE eng[x].mem
             /\ eng'[x].queue = IF eng[x].queue = Shared /\ shown = None THEN st.queue
                                ELSE eng[x].queue
    BY <1>0, <2>1, BecomesIs
  <2>3. NoToken.of = None /\ ~NoToken.alive
    BY DEF NoToken
  <2>4. TokensName'
    BY <2>1, <2>2, <2>3, TokensStay
  <2>5. ASSUME ForShown PROVE ForShown'
    <3>1. shown # None
      BY <2>1, <2>5 DEF ForShown
    <3>2. /\ st'.mem = None /\ st'.queue = st.queue
          /\ st'.tag = IF st.queue # Empty THEN shown ELSE None
      BY <1>0, <2>2, <3>1 DEF SignedOutState, SyncState
    <3>3. ASSUME NEW x \in Engine PROVE PurgesAtHome(eng[x])'
      <4>1. PurgesAtHome(eng[x]) /\ st.mem \in {None, shown} /\ st.mem # Shared
            /\ st.queue \in {Empty, None, shown}
        BY <1>0, <2>5, <3>1, OwnState DEF ForShown
      <4> QED
        BY <2>1, <2>2, <3>1, <3>2, <4>1 DEF PurgesAtHome
    <3> QED
      BY <2>1, <2>3, <2>5, <3>1, <3>2, <3>3 DEF ForShown
  <2> QED
    BY <2>1, <2>4, <2>5, StrayedStays DEF PurgeInv
<1>2. CASE SignOutRemoves
  <2>1. UNCHANGED <<auth, shown, eng, st, windows>> /\ op'.signOut = "no"
    BY <1>0, <1>2 DEF SignOutRemoves, Ops
  <2>2. TokensName' /\ (ForShown => ForShown')
    BY <1>0, <2>1, TokensStay, ForShownStays
  <2> QED
    BY <2>1, <2>2, StrayedStays DEF PurgeInv
<1>3. CASE SignInStarts \/ Toggles \/ SyncNowDone
  <2>1. UNCHANGED <<auth, shown>> /\ op'.signOut = op.signOut
    BY <1>0, <1>3 DEF SignInStarts, Toggles, SyncNowDone, Ops
  <2>2. CASE StopEngine
    BY <1>0, <2>1, <2>2, StopPurge
  <2>3. CASE UNCHANGED <<eng, current, st, saved, windows>>
    <3>1. TokensName' /\ (ForShown => ForShown')
      BY <1>0, <2>1, <2>3, TokensStay, ForShownStays
    <3> QED
      BY <2>3, <3>1, StrayedStays DEF PurgeInv
  <2>4. CASE StartEngine /\ (Toggles => shown # None)
    <3>1. Strayed \/ shown # None
      BY <1>3, <2>4 DEF SignInStarts, SyncNowDone, CardInv, Apart, DoneForShown, Strayed
    <3> QED
      BY <1>0, <2>1, <2>4, <3>1, StartPurge
  <2> QED
    BY <1>3, <2>2, <2>3, <2>4 DEF SignInStarts, Toggles, SyncNowDone
<1> QED
  BY <1>1, <1>2, <1>3 DEF Continues

LEMMA OutsidePurge ==
  ASSUME AInv, CardInv, PurgeInv, RequestRemotePurge \/ FetchBook \/ Revoked \/ Restart
  PROVE  PurgeInv'
<1>0. TypeOK /\ st \in SyncState /\ (auth.alive => auth.of # None)
      /\ \A x \in Engine : eng[x] \in EngineState
  BY DEF AInv, TypeOK, PurgeInv, TokensName
<1>1. CASE RequestRemotePurge
  <2>1. /\ UNCHANGED <<auth, shown, eng, windows, op>> /\ st.queue = Empty
        /\ st'.queue = shown /\ st'.mem = st.mem /\ st'.tag = st.tag
    BY <1>0, <1>1 DEF RequestRemotePurge, SyncState
  <2>2. TokensName'
    BY <1>0, <2>1, TokensStay
  <2>3. ASSUME ForShown PROVE ForShown'
    BY <2>1, <2>3 DEF ForShown, PurgesAtHome
  <2> QED
    BY <2>1, <2>2, <2>3, StrayedStays DEF PurgeInv
<1>2. CASE FetchBook
  <2>1. PICK e \in Engine, w \in {{}, {"asked"}} :
          /\ Ensured(e, w) /\ eng' = [eng EXCEPT ![e] = Built]
          /\ current = 0 /\ UNCHANGED <<auth, shown, op, st>>
          /\ shown # None \/ st.queue \in {Empty, None} \/ "asked" \in w
    BY <1>2 DEF FetchBook
  <2>2. Found(e) = Built
    BY <2>1 DEF Found, Engine
  <2>3. "asked" \in w => Strayed'
    BY <2>1 DEF Ensured, Strayed
  <2> QED
    BY <1>0, <2>1, <2>2, <2>3, EnsuredPurge
<1>3. CASE Revoked
  <2>1. /\ UNCHANGED <<shown, op, st, windows>>
        /\ auth' = [auth EXCEPT !.alive = FALSE]
        /\ \A x \in Engine :
             eng'[x] = eng[x] \/ eng'[x] = [eng[x] EXCEPT !.held.alive = FALSE]
    BY <1>3 DEF Revoked
  <2>2. auth'.of = auth.of /\ ~auth'.alive
    BY <1>0, <2>1 DEF TypeOK, Token
  <2>3. \A x \in Engine :
          /\ eng'[x].mem = eng[x].mem /\ eng'[x].queue = eng[x].queue
          /\ eng'[x].held = eng[x].held \/ ~eng'[x].held.alive
    <3>1. ASSUME NEW r \in EngineState
          PROVE  LET dead == [r EXCEPT !.held.alive = FALSE]
                 IN dead.mem = r.mem /\ dead.queue = r.queue /\ ~dead.held.alive
      <4>1. r.held \in Token
        BY DEF EngineState
      <4> QED
        BY <4>1 DEF EngineState, Token
    <3> QED
      BY <1>0, <2>1, <3>1
  <2>4. TokensName'
    BY <2>2, <2>3 DEF PurgeInv, TokensName
  <2>5. ASSUME ForShown PROVE ForShown'
    BY <2>1, <2>2, <2>3, <2>5, ForShownStays
  <2> QED
    BY <2>1, <2>4, <2>5, StrayedStays DEF PurgeInv
<1>4. CASE Restart
  <2> DEFINE started == [Gone EXCEPT !.mem = Shared, !.queue = Shared, !.ticking = TRUE,
                                     !.synced = saved.lastSync, !.stage = "layout"]
  <2>1. /\ st' = st /\ shown' = auth.of /\ op'.signOut = "no" /\ auth' = auth
        /\ windows \subseteq windows'
        /\ \A x \in Engine : eng'[x] = Gone \/ (eng'[x] = started /\ auth.of # None)
    BY <1>4, NoOpsIs DEF Restart, CardInv
  <2>2. started.mem = Shared /\ started.queue = Shared /\ started.held = NoToken
    BY DEF Gone
  <2> HIDE DEF started
  <2>3. TokensName'
    BY <1>0, <2>1, <2>2, GoneIs DEF TokensName, NoToken
  <2>4. ASSUME ForShown PROVE ForShown'
    BY <2>1, <2>2, <2>4, GoneIs, ForShownStays DEF ForShown
  <2> QED
    BY <2>1, <2>3, <2>4, StrayedStays DEF PurgeInv
<1> QED
  BY <1>1, <1>2, <1>3, <1>4

LEMMA StepPurge == AInv /\ CardInv /\ PurgeInv /\ [Next]_vars => PurgeInv'
<1> SUFFICES ASSUME AInv, CardInv, PurgeInv, [Next]_vars PROVE PurgeInv'
  OBVIOUS
<1>1. TypeOK'
  BY StepTyped DEF AInv
<1>2. CASE Card
  BY <1>2, CardPurge
<1>3. CASE Continues
  BY <1>3, ContinuesPurge
<1>4. ASSUME NEW e \in Engine, PassStep(e) \/ Renew(e) \/ Fails(e) PROVE PurgeInv'
  BY <1>1, <1>4, PassPurge, DroppedPurge
<1>5. CASE RequestRemotePurge \/ FetchBook \/ Revoked \/ Restart
  BY <1>5, OutsidePurge
<1>6. CASE UNCHANGED vars
  BY <1>6 DEF vars, PurgeInv, TokensName, Strayed, IsLate, IsOverlap, ForShown, PurgesAtHome
<1> QED
  BY <1>2, <1>3, <1>4, <1>5, <1>6 DEF Next

LEMMA InitPurge == Init => PurgeInv
<1> SUFFICES ASSUME Init PROVE PurgeInv
  OBVIOUS
<1> DEFINE waiting == [Gone EXCEPT !.mem = Shared, !.queue = Shared, !.ticking = TRUE,
                                   !.synced = TRUE]
<1>1. PICK a \in Starting :
        /\ auth = [of |-> a, alive |-> a # None] /\ shown = a
        /\ st = [mem |-> a, queue |-> Empty, tag |-> None,
                 lastSync |-> a # None, autoSync |-> a # None]
        /\ current = IF a = None THEN 0 ELSE 1
        /\ eng = [e \in Engine |-> IF e # current THEN Gone ELSE waiting]
  BY DEF Init
<1>2. waiting.mem = Shared /\ waiting.queue = Shared /\ waiting.held = NoToken
  BY DEF Gone
<1> HIDE DEF waiting
<1>3. \A x \in Engine : eng[x] = Gone \/ (eng[x] = waiting /\ shown # None)
  BY <1>1 DEF Engine
<1>4. \A x \in Engine : eng[x].held = NoToken /\ PurgesAtHome(eng[x])
  BY <1>2, <1>3, GoneIs, AccountSessionAssumption DEF PurgesAtHome
<1>5. op.signOut # "clearing"
  BY NoOpsIs DEF Init
<1>6. /\ auth.alive => auth.of # None
      /\ auth.of = shown /\ st.mem = shown /\ st.queue = Empty
  <2>1. (a # None) \in BOOLEAN
    OBVIOUS
  <2> QED
    BY <1>1, <2>1
<1>7. ForShown
  BY <1>4, <1>5, <1>6 DEF ForShown
<1> QED
  BY <1>4, <1>6, <1>7 DEF PurgeInv, TokensName, NoToken

(***************************************************************************)
(* A remote copy is purged in the Drive of whoever was signed in when the  *)
(* purge was asked for, whatever sign-outs, sign-ins and restarts lie      *)
(* between, and though an engine of a session that is over keeps the queue *)
(* array it was built with, but for the five ways out PurgeStaysHome names *)
(* (signedInState, signedOutState, fetchBook, drainPurge).                 *)
(***************************************************************************)
THEOREM PurgesWhereQueued == Spec => PurgeStaysHome
<1>1. AInv /\ CardInv /\ PurgeInv /\ [Next]_vars => (AInv /\ CardInv /\ PurgeInv)'
  BY StepAInv, StepCard, StepPurge
<1>2. Init => AInv /\ CardInv /\ PurgeInv
  BY InitAInv, InitCard, InitPurge
<1>3. AInv /\ CardInv /\ PurgeInv /\ [Next]_vars =>
        [\A e \in Engine : Purges(e) =>
           QueueOf(e) \in {None, MemOf(e)}
           \/ Barred({"late", "lost", "overlap", "handed", "asked"})']_vars
  <2> SUFFICES ASSUME AInv, PurgeInv, NEW e \in Engine, Purges(e),
                      ~Barred({"late", "lost", "overlap", "handed", "asked"})'
               PROVE  QueueOf(e) \in {None, MemOf(e)}
    OBVIOUS
  <2>1. QueueOf(e) # Empty /\ Granted(e, MemOf(e))
    BY DEF Purges
  <2>2. MemOf(e) # None /\ windows \subseteq windows'
    BY <2>1, GrantedForShown DEF Granted
  <2>3. ForShown /\ PurgesAtHome(eng[e])
    BY <2>2 DEF PurgeInv, ForShown, Strayed, IsLate, IsOverlap, Barred
  <2>4. CASE eng[e].mem = Shared
    BY <2>1, <2>2, <2>3, <2>4 DEF ForShown, PurgesAtHome, MemOf, QueueOf
  <2>5. CASE eng[e].mem # Shared
    BY <2>1, <2>2, <2>3, <2>5 DEF PurgesAtHome, MemOf, QueueOf
  <2> QED
    BY <2>4, <2>5
<1> QED
  BY <1>1, <1>2, <1>3, PTL DEF Spec, PurgeStaysHome

=============================================================================
