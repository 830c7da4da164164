---------------------------- MODULE ClaimsProofs ----------------------------
(***************************************************************************)
(* Theorems of Claims, for any devices and any bounds: it is well typed, a *)
(* machine that gave the work up claims nothing but for the windows, one   *)
(* that joins waits for those it met, and one that comes back is last.     *)
(***************************************************************************)
EXTENDS Claims, TLAPS

\* A writer with anything to publish has made up its claim.
Prepared(d) == running[d] \/ beats[d] \/ calls[d] # {} => mem[d] # None

\* A machine that is up and no reader runs its writer.
Runs(d) == up[d] /\ setting[d] # "reader" => running[d]

\* A claim against the setting came through a window, or is about to go.
Withdrawn(d) ==
  setting[d] # "on" /\ folder[d][d].since # 0 =>
    \/ windows[d] \cap {"echo", "ghost", "death"} # {}
    \/ \E c \in calls[d] : ~c.allowed

CInv == TypeOK /\ \A d \in Device : Prepared(d) /\ Runs(d) /\ Withdrawn(d)

-----------------------------------------------------------------------------
(***************************************************************************)
(* The values the actions are built from.                                  *)
(***************************************************************************)
LEMMA SaidIs ==
  ASSUME NEW f \in [Device -> [Device -> Claim]], NEW d \in Device, NEW c \in Claim
  PROVE  /\ [f EXCEPT ![d][d] = c] \in [Device -> [Device -> Claim]]
         /\ \A e \in Device : [f EXCEPT ![d][d] = c][e][e] = IF e = d THEN c ELSE f[e][e]
<1>1. [f[d] EXCEPT ![d] = c] \in [Device -> Claim]
  OBVIOUS
<1>2. [f EXCEPT ![d][d] = c] = [f EXCEPT ![d] = [f[d] EXCEPT ![d] = c]]
  BY Zenon
<1> QED
  BY <1>1, <1>2

LEMMA Times ==
  /\ None \notin Time /\ 0 \in Time /\ 0 # None
  /\ \A t \in 1 .. MaxClock : t \in Time /\ t # 0 /\ t # None
BY ClaimsAssumption DEF None, Time

LEMMA AgedIs ==
  ASSUME NEW c \in Claim
  PROVE  Aged(c) \in Claim /\ Aged(c).since = c.since
BY DEF Aged, Claim

LEMMA WhenIs ==
  ASSUME NEW w \in Windows, NEW p
  PROVE  When(w, p) \subseteq Windows /\ (p => w \in When(w, p))
BY DEF When

LEMMA Published ==
  ASSUME NEW d \in Device, NEW w, NEW s, NEW a, NEW f \in BOOLEAN,
         calls \in [Device -> SUBSET Publication], Publishes(d, w, s, a, f)
  PROVE  /\ calls' \in [Device -> SUBSET Publication]
         /\ \A e \in Device \ {d} : calls'[e] = calls[e]
         /\ calls[d] \subseteq calls'[d]
         /\ ~w => \E c \in calls'[d] : ~c.allowed
         /\ \E c \in calls'[d] : c.first = f
         /\ s /\ ~a => \A c \in calls'[d] \ calls[d] : ~c.allowed
<1> DEFINE ok == (w /\ MayClaim(s, a))
           c == [allowed |-> ok, first |-> f]
<1>1. ok \in BOOLEAN
  BY Zenon
<1>2. ~w => ok = FALSE
  BY Zenon
<1>3. calls' = Set(calls, d, calls[d] \cup {c})
  BY DEF Publishes
<1> HIDE DEF ok
<1>4. c \in Publication /\ c.allowed = ok /\ c.first = f
  BY <1>1 DEF Publication
<1>5. calls[d] \cup {c} \in SUBSET Publication
  BY <1>4
<1>6. /\ calls' \in [Device -> SUBSET Publication]
      /\ \A e \in Device : calls'[e] = IF e = d THEN calls[d] \cup {c} ELSE calls[e]
  BY <1>3, <1>5 DEF Set
<1>7. c \in calls'[d]
  BY <1>6
<1>8. ~w => ~c.allowed
  BY <1>2, <1>4
<1>9. s /\ ~a => ok = FALSE
  BY Zenon DEF ok, MayClaim
<1>10. s /\ ~a => ~c.allowed
  BY <1>4, <1>9
<1> HIDE DEF c
<1>11. \A b \in calls'[d] \ calls[d] : b = c
  BY <1>6
<1>12. s /\ ~a => \A b \in calls'[d] \ calls[d] : ~b.allowed
  BY <1>10, <1>11
<1> QED
  BY <1>4, <1>6, <1>7, <1>8, <1>12

LEMMA Said ==
  ASSUME NEW d \in Device, NEW since \in Time, NEW through \in SUBSET Windows,
         TypeOK, Says(d, since, through)
  PROVE  /\ mem' \in [Device -> Time \cup {None}]
         /\ \A e \in Device : mem'[e] = IF e = d THEN since ELSE mem[e]
         /\ folder' \in [Device -> [Device -> Claim]]
         /\ \A e \in Device : folder'[e][e].since = IF e = d THEN since ELSE folder[e][e].since
         /\ windows' \in [Device -> SUBSET Windows]
         /\ \A e \in Device \ {d} : windows'[e] = windows[e]
         /\ since # 0 => windows'[d] = windows[d] \cup through
<1>1. /\ mem' \in [Device -> Time \cup {None}]
      /\ \A e \in Device : mem'[e] = IF e = d THEN since ELSE mem[e]
  BY DEF Set, TypeOK, Says
<1> DEFINE c == [since |-> since, fresh |-> TRUE]
<1>2. c \in Claim /\ c.since = since
  BY DEF Claim
<1>3. /\ folder' \in [Device -> [Device -> Claim]]
      /\ \A e \in Device : folder'[e][e] = IF e = d THEN c ELSE folder[e][e]
  BY <1>2, SaidIs DEF TypeOK, Says
<1>4. \A e \in Device : folder'[e][e].since = IF e = d THEN since ELSE folder[e][e].since
  BY <1>2, <1>3
<1> DEFINE w == IF since = 0 /\ calls'[d] = {}
                THEN (windows[d] \cup through) \cap {"ghost"}
                ELSE windows[d] \cup through
<1>5. w \in SUBSET Windows
  BY DEF TypeOK
<1>6. since # 0 => w = windows[d] \cup through
  OBVIOUS
<1>7. windows' = Set(windows, d, w)
  BY DEF Says
<1> HIDE DEF w
<1>8. /\ windows' \in [Device -> SUBSET Windows]
      /\ \A e \in Device : windows'[e] = IF e = d THEN w ELSE windows[e]
  BY <1>5, <1>7 DEF Set, TypeOK
<1> QED
  BY <1>1, <1>3, <1>4, <1>6, <1>8

\* Of a device a step leaves alone, or only opens windows of.
LEMMA Undisturbed ==
  ASSUME CInv, NEW e \in Device,
         running'[e] = running[e], beats'[e] = beats[e], calls'[e] = calls[e],
         mem'[e] = mem[e], up'[e] = up[e], setting'[e] = setting[e],
         folder'[e][e].since = folder[e][e].since, windows[e] \subseteq windows'[e]
  PROVE  Prepared(e)' /\ Runs(e)' /\ Withdrawn(e)'
BY DEF CInv, Prepared, Runs, Withdrawn

LEMMA StartsIs ==
  ASSUME NEW d \in Device, NEW s, NEW syncing, CInv, Starts(d, s, syncing)
  PROVE  /\ running' \in [Device -> BOOLEAN] /\ waited' \in [Device -> BOOLEAN]
         /\ met' \in [Device -> SUBSET Device] /\ mem' \in [Device -> Time \cup {None}]
         /\ calls' \in [Device -> SUBSET Publication]
         /\ windows' \in [Device -> SUBSET Windows]
         /\ beats' = beats /\ folder' = folder
         /\ running'[d] /\ mem'[d] = 0
         /\ s = "off" => \E c \in calls'[d] : ~c.allowed
         /\ \A e \in Device \ {d} :
              /\ running'[e] = running[e] /\ mem'[e] = mem[e] /\ calls'[e] = calls[e]
              /\ windows'[e] = windows[e]
<1>1. /\ running' \in [Device -> BOOLEAN]
      /\ \A e \in Device : running'[e] = IF e = d THEN TRUE ELSE running[e]
  BY DEF Set, CInv, TypeOK, Starts
<1>2. waited' \in [Device -> BOOLEAN]
  BY DEF Set, CInv, TypeOK, Starts
<1>3. met' \in [Device -> SUBSET Device]
  <2> DEFINE m == {e \in Older(d) : syncing /\ pass[d] = "none"}
  <2>1. m \in SUBSET Device
    BY DEF Older
  <2>2. met' = Set(met, d, m)
    BY DEF Starts
  <2> HIDE DEF m
  <2> QED
    BY <2>1, <2>2 DEF Set, CInv, TypeOK
<1>4. /\ mem' \in [Device -> Time \cup {None}]
      /\ \A e \in Device : mem'[e] = IF e = d THEN 0 ELSE mem[e]
  BY Times DEF Set, CInv, TypeOK, Starts, FirstClaim
<1>5. /\ calls' \in [Device -> SUBSET Publication]
      /\ \A e \in Device \ {d} : calls'[e] = calls[e]
      /\ s = "off" => \E c \in calls'[d] : ~c.allowed
  BY Published DEF CInv, TypeOK, Starts
<1>6. /\ windows' \in [Device -> SUBSET Windows]
      /\ \A e \in Device \ {d} : windows'[e] = windows[e]
  <2> DEFINE w == When("echo", calls[d] # {})
  <2>1. w \in SUBSET Windows
    BY WhenIs DEF Windows
  <2>2. windows' = Set(windows, d, w)
    BY DEF Starts
  <2> HIDE DEF w
  <2> QED
    BY <2>1, <2>2 DEF Set, CInv, TypeOK
<1> QED
  BY <1>1, <1>2, <1>3, <1>4, <1>5, <1>6 DEF Starts

LEMMA StopsIs ==
  ASSUME NEW d \in Device, CInv, running[d], Stops(d)
  PROVE  /\ running' \in [Device -> BOOLEAN] /\ beats' \in [Device -> BOOLEAN]
         /\ mem' \in [Device -> Time \cup {None}] /\ mem'[d] = 0
         /\ folder' \in [Device -> [Device -> Claim]] /\ folder'[d][d].since = 0
         /\ windows' \in [Device -> SUBSET Windows]
         /\ waited' = waited /\ calls' = calls /\ met' \in [Device -> SUBSET Device]
         /\ \A e \in Device \ {d} :
              /\ running'[e] = running[e] /\ beats'[e] = beats[e] /\ mem'[e] = mem[e]
              /\ folder'[e][e].since = folder[e][e].since /\ windows'[e] = windows[e]
<1>1. mem[d] # None
  BY DEF CInv, Prepared
<1>2. Says(d, 0, {})
  BY <1>1 DEF Stops
<1>3. 0 \in Time /\ {} \in SUBSET Windows
  BY Times
<1>4. /\ running' \in [Device -> BOOLEAN] /\ beats' \in [Device -> BOOLEAN]
      /\ \A e \in Device \ {d} : running'[e] = running[e] /\ beats'[e] = beats[e]
  BY DEF Set, CInv, TypeOK, Stops
<1>5. TypeOK
  BY DEF CInv
<1>6. /\ mem' \in [Device -> Time \cup {None}]
      /\ \A e \in Device : mem'[e] = IF e = d THEN 0 ELSE mem[e]
      /\ folder' \in [Device -> [Device -> Claim]]
      /\ \A e \in Device : folder'[e][e].since = IF e = d THEN 0 ELSE folder[e][e].since
      /\ windows' \in [Device -> SUBSET Windows]
      /\ \A e \in Device \ {d} : windows'[e] = windows[e]
  BY <1>2, <1>3, <1>5, Said, Zenon
<1>7. waited' = waited /\ calls' = calls /\ met' \in [Device -> SUBSET Device]
  BY DEF Stops, Set, CInv, TypeOK
<1> QED
  BY <1>4, <1>6, <1>7

-----------------------------------------------------------------------------
LEMMA ActsTyped ==
  ASSUME TypeOK, NEW d, Acts \/ Faults(d)
  PROVE  acts' \in 0 .. MaxActs /\ faults' \in 0 .. MaxFaults
<1>1. MaxActs \in Nat /\ MaxFaults \in Nat
  BY ClaimsAssumption
<1>2. acts \in 0 .. MaxActs /\ faults \in 0 .. MaxFaults
  BY DEF TypeOK
<1>3. \/ acts < MaxActs /\ acts' = acts + 1 /\ faults' = faults
      \/ faults < MaxFaults /\ faults' = faults + 1 /\ acts' = acts
  BY Zenon DEF Acts, Faults
<1> QED
  BY <1>1, <1>2, <1>3

LEMMA CInit == Init => CInv
<1> SUFFICES ASSUME Init PROVE CInv
  OBVIOUS
<1>1. NoClaim \in Claim /\ NoClaim.since = 0
  BY Times DEF NoClaim, Claim
<1>2. TypeOK
  BY <1>1, Times, ClaimsAssumption DEF Init, TypeOK, Settings
<1>3. \A d \in Device : Prepared(d) /\ Runs(d) /\ Withdrawn(d)
  BY <1>1, Zenon DEF Init, Prepared, Runs, Withdrawn
<1> QED
  BY <1>2, <1>3 DEF CInv

LEMMA CPatch ==
  ASSUME CInv, NEW d \in Device, Patch(d) \/ Heartbeat(d)
  PROVE  CInv'
<1>1. Publishes(d, Willing(d), engine[d], waited[d], FALSE) /\ mem[d] # None
  BY DEF CInv, Prepared, Patch, Heartbeat
<1>2. /\ calls' \in [Device -> SUBSET Publication]
      /\ \A e \in Device \ {d} : calls'[e] = calls[e]
      /\ calls[d] \subseteq calls'[d]
  BY <1>1, Published DEF CInv, TypeOK
<1>3. UNCHANGED <<clock, setting, up, engine, running, mem, beats, waited, met, pass, folder,
                  mirror, windows>>
  BY DEF Patch, Heartbeat, world
<1>4. acts' \in 0 .. MaxActs /\ faults' \in 0 .. MaxFaults
  BY ActsTyped DEF Patch, Heartbeat, counts, CInv, TypeOK
<1>5. TypeOK'
  BY <1>2, <1>3, <1>4 DEF CInv, TypeOK
<1>6. ASSUME NEW e \in Device PROVE Prepared(e)' /\ Runs(e)' /\ Withdrawn(e)'
  <2>1. CASE e = d
    BY <1>1, <1>2, <1>3, <2>1 DEF CInv, Prepared, Runs, Withdrawn
  <2>2. CASE e # d
    BY <1>2, <1>3, <2>2, Undisturbed
  <2> QED
    BY <2>1, <2>2
<1> QED
  BY <1>5, <1>6 DEF CInv

LEMMA CLands ==
  ASSUME CInv, NEW d \in Device, NEW c \in calls[d], Lands(d, c)
  PROVE  CInv'
<1> DEFINE since == Taken(d, c)
           through == When("echo", ~Wants(d)) \cup When("ghost", c.first /\ ~running[d])
<1>1. mem[d] # None /\ mem[d] \in Time \cup {None} /\ clock \in 1 .. MaxClock
  BY DEF CInv, TypeOK, Prepared
<1>2. since \in Time /\ (~c.allowed => since = 0)
  BY <1>1, Times DEF Taken
<1>3. through \in SUBSET Windows /\ (~Wants(d) => "echo" \in through)
  BY WhenIs DEF Windows
<1>4. Says(d, since, through)
  BY DEF Lands
<1> HIDE DEF since, through
<1>5. /\ mem' \in [Device -> Time \cup {None}]
      /\ \A e \in Device : mem'[e] = IF e = d THEN since ELSE mem[e]
      /\ folder' \in [Device -> [Device -> Claim]]
      /\ \A e \in Device : folder'[e][e].since = IF e = d THEN since ELSE folder[e][e].since
      /\ windows' \in [Device -> SUBSET Windows]
      /\ \A e \in Device \ {d} : windows'[e] = windows[e]
      /\ since # 0 => windows'[d] = windows[d] \cup through
  <2>1. TypeOK
    BY DEF CInv
  <2> QED
    BY <1>2, <1>3, <1>4, <2>1, Said, Zenon
<1>6. /\ calls' \in [Device -> SUBSET Publication]
      /\ \A e \in Device \ {d} : calls'[e] = calls[e]
  BY DEF Lands, Set, CInv, TypeOK
<1>7. /\ beats' \in [Device -> BOOLEAN]
      /\ \A e \in Device \ {d} : beats'[e] = beats[e]
  <2> DEFINE b == beats[d] \/ c.first
  <2>1. b \in BOOLEAN
    BY Zenon
  <2>2. beats' = Set(beats, d, b)
    BY DEF Lands
  <2> HIDE DEF b
  <2> QED
    BY <2>1, <2>2 DEF Set, CInv, TypeOK
<1>8. UNCHANGED <<clock, setting, up, engine, running, waited, met, pass, mirror, acts, faults>>
  BY DEF Lands, world, counts
<1>9. TypeOK'
  BY <1>5, <1>6, <1>7, <1>8 DEF CInv, TypeOK
<1>10. ASSUME NEW e \in Device PROVE Prepared(e)' /\ Runs(e)' /\ Withdrawn(e)'
  <2>1. CASE e = d
    <3>1. Prepared(d)'
      BY <1>2, <1>5, Times DEF Prepared
    <3>2. Runs(d)'
      BY <1>8 DEF CInv, Runs
    <3>3. Withdrawn(d)'
      <4> SUFFICES ASSUME setting[d] # "on", since # 0
                   PROVE  "echo" \in windows'[d]
        BY <1>5, <1>8 DEF Withdrawn
      <4> QED
        BY <1>3, <1>5 DEF Wants
    <3> QED
      BY <2>1, <3>1, <3>2, <3>3
  <2>2. CASE e # d
    BY <1>5, <1>6, <1>7, <1>8, <2>2, Undisturbed
  <2> QED
    BY <2>1, <2>2
<1> QED
  BY <1>9, <1>10 DEF CInv

LEMMA CToggle ==
  ASSUME CInv, NEW d \in Device, NEW s \in Settings, Toggle(d, s)
  PROVE  CInv'
<1>1. /\ setting' \in [Device -> Settings] /\ setting'[d] = s
      /\ \A e \in Device \ {d} : setting'[e] = setting[e]
  BY DEF Toggle, Set, CInv, TypeOK
<1>2. acts' \in 0 .. MaxActs /\ faults' \in 0 .. MaxFaults
  BY ActsTyped DEF Toggle, CInv
<1>3. UNCHANGED <<clock, up, engine, pass, mirror>> /\ up[d] /\ setting[d] # s
  BY DEF Toggle
<1>4. CASE s = "reader" /\ running[d] /\ Stops(d)
  <2>1. /\ running' \in [Device -> BOOLEAN] /\ beats' \in [Device -> BOOLEAN]
        /\ mem' \in [Device -> Time \cup {None}] /\ mem'[d] = 0
        /\ folder' \in [Device -> [Device -> Claim]] /\ folder'[d][d].since = 0
        /\ windows' \in [Device -> SUBSET Windows]
        /\ waited' = waited /\ calls' = calls /\ met' \in [Device -> SUBSET Device]
        /\ \A e \in Device \ {d} :
             /\ running'[e] = running[e] /\ beats'[e] = beats[e] /\ mem'[e] = mem[e]
             /\ folder'[e][e].since = folder[e][e].since /\ windows'[e] = windows[e]
    BY <1>4, StopsIs, Zenon
  <2>2. TypeOK'
    BY <1>1, <1>2, <1>3, <2>1 DEF CInv, TypeOK
  <2>3. ASSUME NEW e \in Device PROVE Prepared(e)' /\ Runs(e)' /\ Withdrawn(e)'
    <3>1. CASE e = d
      BY <1>1, <1>4, <2>1, <3>1, Times DEF Prepared, Runs, Withdrawn
    <3>2. CASE e # d
      BY <1>1, <1>3, <2>1, <3>2, Undisturbed
    <3> QED
      BY <3>1, <3>2
  <2> QED
    BY <2>2, <2>3 DEF CInv
<1>5. CASE s = "reader" /\ ~running[d]
  BY <1>3, <1>5 DEF CInv, Runs
<1>6. CASE s # "reader" /\ ~running[d] /\ Starts(d, s, engine[d])
  <2>1. /\ running' \in [Device -> BOOLEAN] /\ waited' \in [Device -> BOOLEAN]
        /\ met' \in [Device -> SUBSET Device] /\ mem' \in [Device -> Time \cup {None}]
        /\ calls' \in [Device -> SUBSET Publication]
        /\ windows' \in [Device -> SUBSET Windows]
        /\ beats' = beats /\ folder' = folder
        /\ running'[d] /\ mem'[d] = 0
        /\ s = "off" => \E c \in calls'[d] : ~c.allowed
        /\ \A e \in Device \ {d} :
             /\ running'[e] = running[e] /\ mem'[e] = mem[e] /\ calls'[e] = calls[e]
             /\ windows'[e] = windows[e]
    BY <1>6, StartsIs
  <2>2. TypeOK'
    BY <1>1, <1>2, <1>3, <2>1 DEF CInv, TypeOK
  <2>3. ASSUME NEW e \in Device PROVE Prepared(e)' /\ Runs(e)' /\ Withdrawn(e)'
    <3>1. CASE e = d
      BY <1>1, <1>6, <2>1, <3>1, Times DEF Prepared, Runs, Withdrawn, Settings
    <3>2. CASE e # d
      BY <1>1, <1>3, <2>1, <3>2, Undisturbed
    <3> QED
      BY <3>1, <3>2
  <2> QED
    BY <2>2, <2>3 DEF CInv
<1>7. CASE /\ s # "reader" /\ running[d]
           /\ Publishes(d, s # "off", engine[d], waited[d], FALSE)
           /\ UNCHANGED <<running, mem, beats, waited, met, folder, windows>>
  <2>1. /\ calls' \in [Device -> SUBSET Publication]
        /\ \A e \in Device \ {d} : calls'[e] = calls[e]
        /\ s = "off" => \E c \in calls'[d] : ~c.allowed
    BY <1>7, Published DEF CInv, TypeOK
  <2>2. TypeOK'
    BY <1>1, <1>2, <1>3, <1>7, <2>1 DEF CInv, TypeOK
  <2>3. ASSUME NEW e \in Device PROVE Prepared(e)' /\ Runs(e)' /\ Withdrawn(e)'
    <3>1. CASE e = d
      BY <1>1, <1>7, <2>1, <3>1 DEF CInv, Prepared, Runs, Withdrawn, Settings
    <3>2. CASE e # d
      BY <1>1, <1>3, <1>7, <2>1, <3>2, Undisturbed
    <3> QED
      BY <3>1, <3>2
  <2> QED
    BY <2>2, <2>3 DEF CInv
<1> QED
  BY <1>4, <1>5, <1>6, <1>7 DEF Toggle

LEMMA CBoot ==
  ASSUME CInv, NEW d \in Device, Boot(d)
  PROVE  CInv'
<1>1. /\ up' \in [Device -> BOOLEAN] /\ up'[d]
      /\ \A e \in Device \ {d} : up'[e] = up[e]
  BY DEF Boot, Set, CInv, TypeOK
<1>2. engine' \in [Device -> BOOLEAN]
  BY DEF Boot, Set, CInv, TypeOK
<1>3. UNCHANGED <<clock, setting, pass, mirror, acts, faults>>
  BY DEF Boot, counts
<1>4. CASE setting[d] = "reader" /\ UNCHANGED <<writer, folder, windows>>
  <2>1. UNCHANGED <<running, mem, beats, waited, calls, met, folder, windows>>
    BY <1>4 DEF writer
  <2>2. TypeOK'
    BY <1>1, <1>2, <1>3, <2>1 DEF CInv, TypeOK
  <2>3. ASSUME NEW e \in Device PROVE Prepared(e)' /\ Runs(e)' /\ Withdrawn(e)'
    BY <1>1, <1>3, <1>4, <2>1 DEF CInv, Prepared, Runs, Withdrawn
  <2> QED
    BY <2>2, <2>3 DEF CInv
<1>5. ASSUME setting[d] # "reader", NEW first \in BOOLEAN, Starts(d, setting[d], first)
      PROVE  CInv'
  <2>1. /\ running' \in [Device -> BOOLEAN] /\ waited' \in [Device -> BOOLEAN]
        /\ met' \in [Device -> SUBSET Device] /\ mem' \in [Device -> Time \cup {None}]
        /\ calls' \in [Device -> SUBSET Publication]
        /\ windows' \in [Device -> SUBSET Windows]
        /\ beats' = beats /\ folder' = folder
        /\ running'[d] /\ mem'[d] = 0
        /\ setting[d] = "off" => \E c \in calls'[d] : ~c.allowed
        /\ \A e \in Device \ {d} :
             /\ running'[e] = running[e] /\ mem'[e] = mem[e] /\ calls'[e] = calls[e]
             /\ windows'[e] = windows[e]
    BY <1>5, StartsIs
  <2>2. TypeOK'
    BY <1>1, <1>2, <1>3, <2>1 DEF CInv, TypeOK
  <2>3. ASSUME NEW e \in Device PROVE Prepared(e)' /\ Runs(e)' /\ Withdrawn(e)'
    <3>1. CASE e = d
      BY <1>1, <1>3, <1>5, <2>1, <3>1, Times DEF CInv, TypeOK, Prepared, Runs, Withdrawn, Settings
    <3>2. CASE e # d
      BY <1>1, <1>3, <2>1, <3>2, Undisturbed
    <3> QED
      BY <3>1, <3>2
  <2> QED
    BY <2>2, <2>3 DEF CInv
<1> QED
  BY <1>4, <1>5 DEF Boot

LEMMA CSyncStarts ==
  ASSUME CInv, NEW d \in Device, SyncStarts(d)
  PROVE  CInv'
<1>1. UNCHANGED <<clock, setting, up, running, mem, beats, waited, calls, met, pass, folder,
                  mirror, windows, acts, faults>>
  BY DEF SyncStarts, writer, counts
<1>2. engine' \in [Device -> BOOLEAN]
  BY DEF SyncStarts, Set, CInv, TypeOK
<1>3. TypeOK'
  BY <1>1, <1>2 DEF CInv, TypeOK
<1>4. ASSUME NEW e \in Device PROVE Prepared(e)' /\ Runs(e)' /\ Withdrawn(e)'
  BY <1>1, Undisturbed
<1> QED
  BY <1>3, <1>4 DEF CInv

LEMMA CLists ==
  ASSUME CInv, NEW d \in Device, Lists(d)
  PROVE  CInv'
<1>1. UNCHANGED <<clock, setting, up, engine, running, mem, beats, waited, calls, met, mirror,
                  windows, acts, faults>>
  BY DEF Lists, world, writer, counts
<1>2. /\ folder' \in [Device -> [Device -> Claim]]
      /\ \A e \in Device : folder'[e][e] = folder[e][e]
  BY DEF Lists, Set, CInv, TypeOK
<1>3. pass' \in [Device -> {"none", "reads", "sends"}]
  BY DEF Lists, Set, CInv, TypeOK
<1>4. TypeOK'
  BY <1>1, <1>2, <1>3 DEF CInv, TypeOK
<1>5. ASSUME NEW e \in Device PROVE Prepared(e)' /\ Runs(e)' /\ Withdrawn(e)'
  BY <1>1, <1>2, Undisturbed
<1> QED
  BY <1>4, <1>5 DEF CInv

\* A pass that ends has heard the writer out, if the writer was ever started.
LEMMA EndsWait ==
  ASSUME TypeOK, NEW d \in Device, Ends(d)
  PROVE  /\ waited' \in [Device -> BOOLEAN]
         /\ waited'[d] <=> waited[d] \/ mem[d] # None
         /\ \A e \in Device \ {d} : waited'[e] = waited[e]
<1> DEFINE w == waited[d] \/ mem[d] # None
<1>1. w \in BOOLEAN
  BY Zenon
<1>2. waited' = Set(waited, d, w)
  BY DEF Ends
<1> HIDE DEF w
<1>3. /\ waited' \in [Device -> BOOLEAN] /\ waited'[d] = w
      /\ \A e \in Device \ {d} : waited'[e] = waited[e]
  BY <1>1, <1>2 DEF Set, TypeOK
<1>4. w <=> waited[d] \/ mem[d] # None
  BY Zenon DEF w
<1> QED
  BY <1>3, <1>4

\* What it uploads is its own claim as it is by then.
LEMMA EndsSend ==
  ASSUME TypeOK, NEW d \in Device, Ends(d)
  PROVE  /\ pass' \in [Device -> {"none", "reads", "sends"}] /\ pass[d] # "none"
         /\ \A e \in Device \ {d} : pass'[e] = pass[e]
         /\ mirror' \in [Device -> Claim] /\ mirror'[d] \in {mirror[d], folder[d][d]}
         /\ \A e \in Device \ {d} : mirror'[e] = mirror[e]
         /\ met' \in [Device -> SUBSET Device]
         /\ \A e \in Device : met'[e] \subseteq met[e]
         /\ \A e \in Device :
              mirror'[d] = mirror[d] \/ mirror[d].since = folder[d][d].since \/ d \notin met'[e]
<1>1. /\ pass' = Set(pass, d, "none") /\ pass[d] # "none"
      /\ Uploads(d) \/ UNCHANGED <<mirror, met>>
  BY Zenon DEF Ends
<1>2. CASE Uploads(d)
  BY <1>1, <1>2 DEF Uploads, Set, TypeOK
<1>3. CASE UNCHANGED <<mirror, met>>
  BY <1>1, <1>3 DEF Set, TypeOK
<1> QED
  BY <1>1, <1>2, <1>3

LEMMA CEnds ==
  ASSUME CInv, NEW d \in Device, Ends(d)
  PROVE  CInv'
<1>1. UNCHANGED <<clock, setting, up, engine, running, mem, beats, folder, windows, acts, faults>>
  BY DEF Ends, world, counts
<1>2. /\ mirror' \in [Device -> Claim] /\ met' \in [Device -> SUBSET Device]
      /\ pass' \in [Device -> {"none", "reads", "sends"}]
  BY EndsSend DEF CInv
<1>3. waited' \in [Device -> BOOLEAN]
  BY EndsWait DEF CInv
<1>4. /\ calls' \in [Device -> SUBSET Publication]
      /\ \A e \in Device : calls[e] \subseteq calls'[e]
      /\ \A e \in Device : calls'[e] # calls[e] => mem[e] # None
  <2>1. CASE mem[d] = 0 /\ Publishes(d, Willing(d), TRUE, waited'[d], FALSE)
    BY <2>1, Published, Times DEF CInv, TypeOK
  <2>2. CASE UNCHANGED calls
    BY <2>2 DEF CInv, TypeOK
  <2> QED
    BY <2>1, <2>2 DEF Ends
<1>5. TypeOK'
  BY <1>1, <1>2, <1>3, <1>4 DEF CInv, TypeOK
<1>6. ASSUME NEW e \in Device PROVE Prepared(e)' /\ Runs(e)' /\ Withdrawn(e)'
  BY <1>1, <1>4 DEF CInv, Prepared, Runs, Withdrawn
<1> QED
  BY <1>5, <1>6 DEF CInv

LEMMA CDies ==
  ASSUME CInv, NEW d \in Device, Dies(d)
  PROVE  CInv'
<1>1. /\ up' \in [Device -> BOOLEAN] /\ engine' \in [Device -> BOOLEAN]
      /\ running' \in [Device -> BOOLEAN] /\ beats' \in [Device -> BOOLEAN]
      /\ ~up'[d] /\ ~running'[d] /\ ~beats'[d]
      /\ \A e \in Device \ {d} :
           up'[e] = up[e] /\ running'[e] = running[e] /\ beats'[e] = beats[e]
  BY DEF Dies, Set, CInv, TypeOK
<1>2. /\ mem' \in [Device -> Time \cup {None}]
      /\ waited' \in [Device -> BOOLEAN]
      /\ \A e \in Device \ {d} : mem'[e] = mem[e]
  BY DEF Dies, Set, CInv, TypeOK
<1>3. /\ calls' \in [Device -> SUBSET Publication] /\ calls'[d] = {}
      /\ met' \in [Device -> SUBSET Device] /\ pass' \in [Device -> {"none", "reads", "sends"}]
      /\ \A e \in Device \ {d} : calls'[e] = calls[e]
  BY DEF Dies, Set, CInv, TypeOK
<1>4. /\ windows' \in [Device -> SUBSET Windows]
      /\ \A e \in Device \ {d} : windows'[e] = windows[e]
      /\ setting[d] # "on" => "death" \in windows'[d]
  <2> DEFINE w == When("death", setting[d] # "on")
  <2>1. w \in SUBSET Windows /\ (setting[d] # "on" => "death" \in w)
    BY WhenIs DEF Windows
  <2>2. windows' = Set(windows, d, w)
    BY DEF Dies
  <2> HIDE DEF w
  <2> QED
    BY <2>1, <2>2 DEF Set, CInv, TypeOK
<1>5. acts' \in 0 .. MaxActs /\ faults' \in 0 .. MaxFaults
  BY ActsTyped DEF Dies, CInv
<1>6. UNCHANGED <<clock, setting, folder, mirror>>
  BY DEF Dies
<1>7. TypeOK'
  BY <1>1, <1>2, <1>3, <1>4, <1>5, <1>6 DEF CInv, TypeOK
<1>8. ASSUME NEW e \in Device PROVE Prepared(e)' /\ Runs(e)' /\ Withdrawn(e)'
  <2>1. CASE e = d
    BY <1>1, <1>3, <1>4, <1>6, <2>1 DEF Prepared, Runs, Withdrawn
  <2>2. CASE e # d
    BY <1>1, <1>2, <1>3, <1>4, <1>6, <2>2, Undisturbed
  <2> QED
    BY <2>1, <2>2
<1> QED
  BY <1>7, <1>8 DEF CInv

LEMMA ClockAdvances == TypeOK /\ Advances => clock' \in 1 .. MaxClock
BY ClaimsAssumption DEF TypeOK, Advances

LEMMA CWaits ==
  ASSUME CInv, (\E d \in Device : Waits(d)) \/ Passes
  PROVE  CInv'
<1>1. UNCHANGED <<setting, up, engine, running, mem, beats, calls, pass, folder, mirror,
                  windows, acts, faults>>
  BY DEF Waits, Passes, world, writer, counts
<1>2. clock' \in 1 .. MaxClock
  BY ClockAdvances DEF Waits, Passes, world, CInv, TypeOK
<1>3. waited' \in [Device -> BOOLEAN] /\ met' \in [Device -> SUBSET Device]
  <2>1. CASE Passes
    BY <2>1 DEF Passes, writer, CInv, TypeOK
  <2>2. ASSUME NEW d \in Device, Waits(d)
        PROVE  waited' \in [Device -> BOOLEAN] /\ met' \in [Device -> SUBSET Device]
    <3>1. waited' = Set(waited, d, TRUE) /\ met' = Set(met, d, {})
      BY <2>2 DEF Waits
    <3> QED
      BY <3>1 DEF Set, CInv, TypeOK
  <2> QED
    BY <2>1, <2>2
<1>4. TypeOK'
  BY <1>1, <1>2, <1>3 DEF CInv, TypeOK
<1>5. ASSUME NEW e \in Device PROVE Prepared(e)' /\ Runs(e)' /\ Withdrawn(e)'
  BY <1>1, Undisturbed
<1> QED
  BY <1>4, <1>5 DEF CInv

LEMMA CSilent ==
  ASSUME CInv, NEW d \in Device, Forfeits(d) \/ Sleeps(d)
  PROVE  CInv'
<1>1. UNCHANGED <<setting, up, engine, running, mem, beats, waited, calls, pass>>
  BY DEF Forfeits, Sleeps, Silent
<1>2. clock' \in 1 .. MaxClock
  BY ClockAdvances DEF Forfeits, Sleeps, Silent, CInv
<1>3. folder' = [e \in Device |-> Set(folder[e], d, Aged(folder[e][d]))]
  BY DEF Forfeits, Sleeps, Silent
<1>4. \A e \in Device :
        /\ Set(folder[e], d, Aged(folder[e][d])) \in [Device -> Claim]
        /\ Set(folder[e], d, Aged(folder[e][d]))[e].since = folder[e][e].since
  BY AgedIs DEF Set, CInv, TypeOK
<1>5. /\ folder' \in [Device -> [Device -> Claim]]
      /\ \A e \in Device : folder'[e][e].since = folder[e][e].since
  BY <1>3, <1>4
<1>6. mirror' \in [Device -> Claim]
  <2>1. mirror' = [mirror EXCEPT ![d] = Aged(mirror[d])]
    BY DEF Forfeits, Sleeps, Silent, Set
  <2>2. Aged(mirror[d]) \in Claim
    BY AgedIs DEF CInv, TypeOK
  <2> QED
    BY <2>1, <2>2 DEF CInv, TypeOK
<1>7. met' \in [Device -> SUBSET Device]
  BY DEF Forfeits, Sleeps, Silent, CInv, TypeOK
<1>8. /\ windows' \in [Device -> SUBSET Windows]
      /\ \A e \in Device : windows[e] \subseteq windows'[e]
  <2>1. windows' = windows \/ windows' = Set(windows, d, windows[d] \cup {"slept"})
    BY Zenon DEF Forfeits, Sleeps, Opens
  <2> DEFINE w == windows[d] \cup {"slept"}
  <2>2. w \in SUBSET Windows /\ windows[d] \subseteq w
    BY DEF Windows, CInv, TypeOK
  <2>3. windows' = windows \/ windows' = Set(windows, d, w)
    BY <2>1
  <2> HIDE DEF w
  <2> QED
    BY <2>2, <2>3 DEF Set, CInv, TypeOK
<1>9. acts' \in 0 .. MaxActs /\ faults' \in 0 .. MaxFaults
  BY ActsTyped DEF Forfeits, Sleeps, counts, CInv, TypeOK
<1>10. TypeOK'
  BY <1>1, <1>2, <1>5, <1>6, <1>7, <1>8, <1>9 DEF CInv, TypeOK
<1>11. ASSUME NEW e \in Device PROVE Prepared(e)' /\ Runs(e)' /\ Withdrawn(e)'
  BY <1>1, <1>5, <1>8, Undisturbed
<1> QED
  BY <1>10, <1>11 DEF CInv

LEMMA CNext == CInv /\ [Next]_vars => CInv'
<1> SUFFICES ASSUME CInv, [Next]_vars PROVE CInv'
  OBVIOUS
<1>1. CASE Passes
  BY <1>1, CWaits
<1>2. ASSUME NEW d \in Device, Lives(d) PROVE CInv'
  <2>1. CASE Patch(d) \/ Heartbeat(d)
    BY <2>1, CPatch
  <2>2. CASE \E c \in calls[d] : Lands(d, c)
    BY <2>2, CLands
  <2>3. CASE \E s \in Settings : Toggle(d, s)
    BY <2>3, CToggle
  <2>4. CASE Boot(d)
    BY <2>4, CBoot
  <2>5. CASE SyncStarts(d)
    BY <2>5, CSyncStarts
  <2>6. CASE Syncs(d)
    BY <2>6, CLists, CEnds DEF Syncs
  <2>7. CASE Dies(d)
    BY <2>7, CDies
  <2>8. CASE Waits(d)
    BY <2>8, CWaits
  <2>9. CASE Forfeits(d) \/ Sleeps(d)
    BY <2>9, CSilent
  <2> QED
    BY <1>2, <2>1, <2>2, <2>3, <2>4, <2>5, <2>6, <2>7, <2>8, <2>9 DEF Lives
<1>3. CASE UNCHANGED vars
  <2>1. UNCHANGED <<clock, setting, up, engine, running, mem, beats, waited, calls, met, pass,
                    folder, mirror, windows, acts, faults>>
    BY <1>3 DEF vars, world, writer, counts
  <2> QED
    BY <2>1 DEF CInv, TypeOK, Prepared, Runs, Withdrawn
<1> QED
  BY <1>1, <1>2, <1>3 DEF Next

LEMMA CAlways == Spec => []CInv
BY CInit, CNext, PTL DEF Spec

-----------------------------------------------------------------------------
(***************************************************************************)
(* What a session waits for, and what stands behind its claim.             *)
(***************************************************************************)
Claimed(d) == mem[d] \notin {0, None}

Down(d) == ~up[d] => mem[d] = None
Minded(d) == met[d] # {} => up[d] /\ engine[d]

\* Nobody that knows it is to wait claims before it has, but for an echo.
Asked(d) ==
  met[d] # {} /\ (Claimed(d) \/ \E c \in calls[d] : c.allowed) =>
    waited[d] \/ "echo" \in windows[d]

Beats(d) == running[d] => beats[d] \/ \E c \in calls[d] : c.first
Stopped(d) == ~running[d] /\ Claimed(d) => "echo" \in windows[d]

\* A claim that went stale is from before now.
Dated(d) ==
  /\ Claimed(d) => mem[d] <= clock
  /\ folder[d][d].since <= clock
  /\ ~folder[d][d].fresh => folder[d][d].since # 0
  /\ ~folder[d][d].fresh /\ folder[d][d].since < MaxClock => folder[d][d].since < clock

\* Nobody holds on to a claim it forfeited, but for two windows.
Forfeited(d) ==
  ~folder[d][d].fresh =>
    mem[d] # folder[d][d].since \/ windows[d] \cap {"slept", "echo"} # {}

FreshAtHome(d) == IsCandidate(mirror[d]) => folder[d][d].fresh

Local(d) ==
  /\ Down(d) /\ Minded(d) /\ Asked(d) /\ Beats(d) /\ Stopped(d)
  /\ Dated(d) /\ Forfeited(d) /\ FreshAtHome(d)

\* Of the claims it met, a session's own is the younger, and a pass that began
\* in the session showed them.
Met(e) ==
  \A d \in met[e] :
    /\ d # e /\ IsCandidate(mirror[d]) /\ mirror[d].since < clock
    /\ Claimed(e) => mirror[d].since < mem[e]
    /\ waited[e] \/ pass[e] # "none" =>
         folder[e][d].since = mirror[d].since /\ folder[e][d].fresh

HInv == CInv /\ \A d \in Device : Local(d) /\ Met(d)

-----------------------------------------------------------------------------
\* What Says leaves of a device's claims and windows.
LEMMA SaysIs ==
  ASSUME NEW d \in Device, NEW since \in Time, NEW through \in SUBSET Windows,
         TypeOK, Says(d, since, through)
  PROVE  /\ \A e \in Device : mem'[e] = IF e = d THEN since ELSE mem[e]
         /\ folder'[d][d].since = since /\ folder'[d][d].fresh
         /\ \A e, f \in Device : e # d \/ f # d => folder'[e][f] = folder[e][f]
         /\ \A e \in Device \ {d} : windows'[e] = windows[e]
         /\ since # 0 \/ calls'[d] # {} => windows'[d] = windows[d] \cup through
<1>1. \A e \in Device : mem'[e] = IF e = d THEN since ELSE mem[e]
  BY DEF Set, TypeOK, Says
<1> DEFINE c == [since |-> since, fresh |-> TRUE]
           mine == [folder[d] EXCEPT ![d] = c]
<1>2. c.since = since /\ c.fresh
  OBVIOUS
<1>3. mine[d] = c /\ \A f \in Device \ {d} : mine[f] = folder[d][f]
  BY DEF TypeOK
<1>4. folder' = [folder EXCEPT ![d] = mine]
  BY Zenon DEF Says
<1> HIDE DEF c, mine
<1>5. folder'[d] = mine /\ \A e \in Device \ {d} : folder'[e] = folder[e]
  BY <1>4 DEF TypeOK
<1>6. /\ folder'[d][d].since = since /\ folder'[d][d].fresh
      /\ \A e, f \in Device : e # d \/ f # d => folder'[e][f] = folder[e][f]
  BY <1>2, <1>3, <1>5
<1> DEFINE w == IF since = 0 /\ calls'[d] = {}
                THEN (windows[d] \cup through) \cap {"ghost"}
                ELSE windows[d] \cup through
<1>7. since # 0 \/ calls'[d] # {} => w = windows[d] \cup through
  OBVIOUS
<1>8. windows' = Set(windows, d, w)
  BY DEF Says
<1> HIDE DEF w
<1>9. windows'[d] = w /\ \A e \in Device \ {d} : windows'[e] = windows[e]
  BY <1>8 DEF Set, TypeOK
<1> QED
  BY <1>1, <1>6, <1>7, <1>9

LEMMA ClockGrows ==
  TypeOK /\ Advances =>
    /\ clock <= clock' /\ clock' <= MaxClock
    /\ \A t \in Time : t <= clock /\ t < MaxClock => t < clock'
BY ClaimsAssumption DEF TypeOK, Advances, Time

\* A device the step leaves alone.
LEMMA LocalSame ==
  ASSUME CInv, NEW d \in Device, Local(d), clock' = clock \/ Advances,
         up'[d] = up[d], engine'[d] = engine[d], running'[d] = running[d], mem'[d] = mem[d],
         beats'[d] = beats[d], waited'[d] = waited[d], calls'[d] = calls[d],
         met'[d] \subseteq met[d], windows'[d] = windows[d], folder'[d][d] = folder[d][d], mirror'[d] = mirror[d]
  PROVE  Local(d)'
<1>1. /\ clock \in Nat /\ clock' \in Nat /\ clock <= clock'
      /\ mem[d] \in Nat /\ folder[d][d].since \in Nat
  BY ClaimsAssumption, ClockGrows DEF CInv, TypeOK, Advances, Time, None, Claim
<1>2. Dated(d)'
  BY <1>1 DEF Local, Dated, Claimed
<1> QED
  BY <1>2 DEF Local, Down, Minded, Asked, Beats, Stopped, Forfeited, FreshAtHome, Claimed,
     IsCandidate

LEMMA MetSame ==
  ASSUME CInv, NEW e \in Device, Met(e), met'[e] \subseteq met[e],
         clock' = clock \/ Advances,
         waited'[e] \/ pass'[e] # "none" => waited[e] \/ pass[e] # "none",
         Claimed(e)' => mem'[e] = mem[e],
         \A d \in met'[e] : mirror'[d] = mirror[d] /\ folder'[e][d] = folder[e][d]
  PROVE  Met(e)'
<1>1. clock \in Nat /\ clock' \in Nat /\ clock <= clock'
  BY ClaimsAssumption, ClockGrows DEF CInv, TypeOK, Advances
<1>2. \A d \in met[e] : mirror[d].since \in Nat
  BY DEF CInv, TypeOK, Claim, Time
<1> QED
  BY <1>1, <1>2 DEF Met, Claimed, IsCandidate

LEMMA HInit == Init => HInv
<1> SUFFICES ASSUME Init PROVE HInv
  OBVIOUS
<1>1. CInv
  BY CInit
<1>2. NoClaim.since = 0 /\ NoClaim.fresh
  BY DEF NoClaim
<1>3. ASSUME NEW d \in Device PROVE Local(d) /\ Met(d)
  <2>1. /\ ~running[d] /\ mem[d] = None /\ calls[d] = {} /\ met[d] = {}
        /\ folder[d][d] = NoClaim /\ mirror[d] = NoClaim /\ clock = 1
    BY Zenon DEF Init
  <2>2. /\ Down(d) /\ Minded(d) /\ Asked(d) /\ Beats(d) /\ Stopped(d) /\ FreshAtHome(d)
        /\ Met(d)
    BY <1>2, <2>1, Times, Zenon
    DEF Init, Down, Minded, Asked, Beats, Stopped, FreshAtHome, IsCandidate, Met, Claimed
  <2>3. Dated(d) /\ Forfeited(d)
    BY <1>2, <2>1 DEF Dated, Forfeited, Claimed
  <2> QED
    BY <2>2, <2>3 DEF Local
<1> QED
  BY <1>1, <1>3 DEF HInv

\* A publication that is decided, and nothing else.
LEMMA LocalPublishes ==
  ASSUME HInv, NEW d \in Device, NEW w, NEW s, Publishes(d, w, s, waited'[d], FALSE),
         engine[d] => s, waited[d] => waited'[d], mem[d] # None,
         met'[d] \subseteq met[d],
         UNCHANGED <<clock, up, engine, running, mem, beats, windows>>,
         folder'[d][d] = folder[d][d],
         mirror'[d] = mirror[d] \/ mirror'[d] = folder[d][d]
  PROVE  Local(d)'
<1>1. Local(d) /\ CInv
  BY DEF HInv
<1>2. /\ calls[d] \subseteq calls'[d]
      /\ s /\ ~waited'[d] => \A c \in calls'[d] \ calls[d] : ~c.allowed
  <2>1. calls \in [Device -> SUBSET Publication] /\ FALSE \in BOOLEAN
    BY <1>1 DEF CInv, TypeOK
  <2>2. calls[d] \subseteq calls'[d]
    BY <2>1, Published
  <2>3. ASSUME s, ~waited'[d], NEW c \in calls'[d] \ calls[d] PROVE ~c.allowed
    <3> DEFINE ok == w /\ MayClaim(s, waited'[d])
    <3>1. calls' = Set(calls, d, calls[d] \cup {[allowed |-> ok, first |-> FALSE]})
      BY DEF Publishes
    <3>2. ok = FALSE
      BY <2>3, Zenon DEF MayClaim
    <3> HIDE DEF ok
    <3> QED
      BY <2>1, <2>3, <3>1, <3>2 DEF Set
  <2> QED
    BY <2>2, <2>3
<1>3. Asked(d)'
  <2>1. SUFFICES ASSUME met'[d] # {}, Claimed(d)' \/ \E c \in calls'[d] : c.allowed
                 PROVE  waited'[d] \/ "echo" \in windows'[d]
    BY DEF Asked
  <2>2. met[d] # {} /\ engine[d]
    BY <1>1, <2>1 DEF Local, Minded
  <2>3. CASE Claimed(d)' \/ \E c \in calls[d] : c.allowed
    BY <1>1, <2>2, <2>3 DEF Local, Asked, Claimed
  <2>4. CASE \E c \in calls'[d] \ calls[d] : c.allowed
    BY <1>2, <2>2, <2>4
  <2> QED
    BY <2>1, <2>3, <2>4
<1>4. Beats(d)'
  BY <1>1, <1>2 DEF Local, Beats
<1>5. Down(d)' /\ Minded(d)' /\ Stopped(d)' /\ Dated(d)' /\ Forfeited(d)' /\ FreshAtHome(d)'
  BY <1>1 DEF Local, Down, Minded, Stopped, Dated, Forfeited, FreshAtHome, IsCandidate, Claimed
<1> QED
  BY <1>3, <1>4, <1>5 DEF Local

LEMMA HPatch ==
  ASSUME HInv, NEW d \in Device, Patch(d) \/ Heartbeat(d)
  PROVE  HInv'
<1>1. CInv /\ TypeOK
  BY DEF HInv, CInv
<1>2. /\ Publishes(d, Willing(d), engine[d], waited[d], FALSE) /\ mem[d] # None
      /\ UNCHANGED <<clock, setting, up, engine, running, mem, beats, waited, met, pass,
                     folder, mirror, windows>>
  BY <1>1 DEF CInv, Prepared, Patch, Heartbeat, world
<1>3. \A e \in Device \ {d} : calls'[e] = calls[e]
  BY <1>1, <1>2, Published DEF TypeOK
<1>4. ASSUME NEW e \in Device PROVE Local(e)' /\ Met(e)'
  <2>1. Met(e)'
    BY <1>1, <1>2, MetSame DEF HInv
  <2>2. CASE e = d
    BY <1>2, <2>1, <2>2, LocalPublishes
  <2>3. CASE e # d
    BY <1>1, <1>2, <1>3, <2>1, <2>3, LocalSame DEF HInv
  <2> QED
    BY <2>2, <2>3
<1>5. CInv'
  BY <1>1, CPatch
<1> QED
  BY <1>4, <1>5 DEF HInv

LEMMA HLands ==
  ASSUME HInv, NEW d \in Device, NEW c \in calls[d], Lands(d, c)
  PROVE  HInv'
<1>1. CInv /\ TypeOK /\ Local(d)
  BY DEF HInv, CInv
<1> DEFINE since == Taken(d, c)
           through == When("echo", ~Wants(d)) \cup When("ghost", c.first /\ ~running[d])
<1>2. /\ mem[d] # None /\ mem[d] \in Time \cup {None} /\ clock \in 1 .. MaxClock
      /\ Prepared(d)
  BY <1>1 DEF CInv, TypeOK, Prepared
<1>3. /\ since \in Time
      /\ ~c.allowed => since = 0
      /\ c.allowed => since = IF mem[d] = 0 THEN clock ELSE mem[d]
  BY <1>2, Times DEF Taken
<1>4. through \in SUBSET Windows /\ (~Wants(d) => "echo" \in through)
  BY WhenIs DEF Windows
<1>5. Says(d, since, through)
  BY DEF Lands
<1> HIDE DEF since, through
<1>6. /\ \A e \in Device : mem'[e] = IF e = d THEN since ELSE mem[e]
      /\ folder'[d][d].since = since /\ folder'[d][d].fresh
      /\ \A e, f \in Device : e # d \/ f # d => folder'[e][f] = folder[e][f]
      /\ \A e \in Device \ {d} : windows'[e] = windows[e]
      /\ since # 0 \/ calls'[d] # {} => windows'[d] = windows[d] \cup through
  <2>1. TypeOK
    BY <1>1
  <2>2. since \in Time /\ through \in SUBSET Windows
    BY <1>3, <1>4
  <2> QED
    BY <1>5, <2>1, <2>2, SaysIs
<1>7. /\ calls'[d] = calls[d] \ {c}
      /\ \A e \in Device \ {d} : calls'[e] = calls[e]
  BY <1>1 DEF Lands, Set, TypeOK
<1>8. /\ beats'[d] = (beats[d] \/ c.first)
      /\ \A e \in Device \ {d} : beats'[e] = beats[e]
  BY <1>1 DEF Lands, Set, TypeOK
<1>9. UNCHANGED <<clock, setting, up, engine, running, waited, met, pass, mirror>>
  BY DEF Lands, world
<1>10. clock # 0 /\ clock \in Time /\ clock <= clock /\ since <= clock
  BY <1>1, <1>2, <1>3, Times DEF Local, Dated, Claimed, Time
<1>11. Asked(d)'
  <2>1. CASE since # 0
    <3>1. c.allowed /\ windows[d] \subseteq windows'[d]
      BY <1>3, <1>6, <2>1
    <3> QED
      BY <1>1, <1>9, <3>1 DEF Local, Asked
  <2>2. CASE since = 0 /\ calls'[d] # {}
    BY <1>1, <1>6, <1>7, <1>9, <2>2 DEF Local, Asked, Claimed
  <2>3. CASE since = 0 /\ calls'[d] = {}
    BY <1>6, <2>3 DEF Asked, Claimed
  <2> QED
    BY <2>1, <2>2, <2>3
<1>12. Down(d)' /\ Minded(d)' /\ Beats(d)'
  BY <1>1, <1>2, <1>6, <1>7, <1>8, <1>9 DEF Local, Down, Minded, Beats
<1>13. Stopped(d)'
  BY <1>4, <1>6, <1>9 DEF Stopped, Claimed, Wants
<1>14. Dated(d)' /\ Forfeited(d)' /\ FreshAtHome(d)'
  BY <1>6, <1>9, <1>10 DEF Dated, Forfeited, FreshAtHome
<1>15. Local(d)'
  BY <1>11, <1>12, <1>13, <1>14 DEF Local
<1>16. ASSUME NEW e \in Device PROVE Local(e)' /\ Met(e)'
  <2>1. CASE e = d
    <3>1. Met(d)
      BY DEF HInv
    <3>2. \A f \in met'[d] : f \in Device /\ f # d
      BY <1>1, <1>9, <3>1 DEF Met, TypeOK
    <3>3. Claimed(d)' => since # 0 /\ (since = clock \/ (since = mem[d] /\ Claimed(d)))
      BY <1>2, <1>3, <1>6 DEF Claimed
    <3>4. Met(d)'
      BY <1>6, <1>9, <3>1, <3>2, <3>3 DEF Met, IsCandidate
    <3> QED
      BY <1>15, <2>1, <3>4
  <2>2. CASE e # d
    <3>1. Local(e)'
      BY <1>1, <1>6, <1>7, <1>8, <1>9, <2>2, LocalSame DEF HInv
    <3>2. \A f \in met'[e] : folder'[e][f] = folder[e][f]
      BY <1>1, <1>6, <1>9, <2>2 DEF TypeOK
    <3>3. Met(e)'
      BY <1>1, <1>6, <1>9, <2>2, <3>2, MetSame DEF HInv
    <3> QED
      BY <3>1, <3>3
  <2> QED
    BY <2>1, <2>2
<1>17. CInv'
  BY <1>1, CLands
<1> QED
  BY <1>16, <1>17 DEF HInv

LEMMA LocalStarts ==
  ASSUME HInv, NEW d \in Device, NEW s, NEW syncing, Starts(d, s, syncing),
         syncing => engine'[d], up'[d],
         clock' = clock, mirror' = mirror, pass' = pass
  PROVE  Local(d)' /\ Met(d)'
<1>1. CInv /\ TypeOK /\ Local(d)
  BY DEF HInv, CInv
<1>2. /\ running'[d] /\ waited'[d] = FALSE /\ mem'[d] = 0 /\ folder' = folder
      /\ Publishes(d, s # "off", syncing, FALSE, TRUE)
  BY <1>1 DEF Starts, FirstClaim, Set, TypeOK
<1>0. ASSUME NEW e \in met'[d]
      PROVE  syncing /\ pass[d] = "none" /\ e \in Older(d)
  <2> DEFINE m == {f \in Older(d) : syncing /\ pass[d] = "none"}
  <2>1. met' = Set(met, d, m)
    BY DEF Starts
  <2>2. met'[d] = m
    BY <1>1, <2>1 DEF Set, TypeOK
  <2> QED
    BY <1>0, <2>2
<1>3. calls[d] # {} => "echo" \in windows'[d]
  <2> DEFINE w == When("echo", calls[d] # {})
  <2>1. calls[d] # {} => "echo" \in w
    BY DEF When
  <2>2. windows' = Set(windows, d, w)
    BY DEF Starts
  <2> HIDE DEF w
  <2> QED
    BY <1>1, <2>1, <2>2 DEF Set, TypeOK
<1>4. /\ \E c \in calls'[d] : c.first = TRUE
      /\ syncing => \A c \in calls'[d] \ calls[d] : ~c.allowed
  BY <1>1, <1>2, Published DEF TypeOK
<1>5. Asked(d)'
  <2>1. SUFFICES ASSUME NEW c \in calls'[d], c.allowed, met'[d] # {}
                 PROVE  "echo" \in windows'[d]
    BY <1>2 DEF Asked, Claimed
  <2>2. calls[d] # {}
    BY <1>0, <1>4, <2>1
  <2> QED
    BY <1>3, <2>2
<1>6. Down(d)' /\ Minded(d)' /\ Beats(d)' /\ Stopped(d)'
  BY <1>0, <1>2, <1>3, <1>4 DEF Down, Minded, Beats, Stopped
<1>7. Dated(d)' /\ Forfeited(d)' /\ FreshAtHome(d)'
  BY <1>1, <1>2 DEF Local, Dated, Forfeited, FreshAtHome, Claimed, IsCandidate
<1>8. Met(d)'
  BY <1>0, <1>2 DEF Met, Claimed, IsCandidate, Older
<1> QED
  BY <1>5, <1>6, <1>7, <1>8 DEF Local

\* The devices a start, a stop or a publication of d leaves alone.
LEMMA OthersSame ==
  ASSUME HInv, NEW d \in Device, NEW e \in Device \ {d},
         clock' = clock, up'[e] = up[e], engine'[e] = engine[e], running'[e] = running[e],
         mem'[e] = mem[e], beats'[e] = beats[e], waited'[e] = waited[e], calls'[e] = calls[e],
         windows'[e] = windows[e], met'[e] = met[e], pass'[e] = pass[e], mirror' = mirror,
         \A f \in Device : folder'[e][f] = folder[e][f]
  PROVE  Local(e)' /\ Met(e)'
<1>1. CInv /\ Local(e) /\ Met(e)
  BY DEF HInv
<1>2. Local(e)'
  BY <1>1, LocalSame
<1>3. met[e] \subseteq Device
  BY <1>1 DEF CInv, TypeOK
<1>4. Met(e)'
  BY <1>1, <1>3, MetSame
<1> QED
  BY <1>2, <1>4

LEMMA StartsOthers ==
  ASSUME CInv, NEW d \in Device, NEW s, NEW syncing, Starts(d, s, syncing),
         NEW e \in Device \ {d}
  PROVE  /\ running'[e] = running[e] /\ mem'[e] = mem[e] /\ beats'[e] = beats[e]
         /\ waited'[e] = waited[e] /\ calls'[e] = calls[e] /\ windows'[e] = windows[e]
         /\ met'[e] = met[e] /\ folder' = folder
<1>1. /\ running'[e] = running[e] /\ mem'[e] = mem[e] /\ calls'[e] = calls[e]
      /\ windows'[e] = windows[e] /\ beats' = beats /\ folder' = folder
  BY StartsIs
<1>2. waited'[e] = waited[e] /\ met'[e] = met[e]
  BY DEF Starts, Set, CInv, TypeOK
<1> QED
  BY <1>1, <1>2

LEMMA HToggle ==
  ASSUME HInv, NEW d \in Device, NEW s \in Settings, Toggle(d, s)
  PROVE  HInv'
<1>1. CInv /\ TypeOK /\ Local(d) /\ Met(d)
  BY DEF HInv, CInv
<1>2. UNCHANGED <<clock, up, engine, pass, mirror>> /\ up[d]
  BY DEF Toggle
<1>3. CASE s = "reader" /\ running[d] /\ Stops(d)
  <2>1. mem[d] # None
    BY <1>1, <1>3 DEF CInv, Prepared
  <2>2. /\ UNCHANGED <<waited, calls>> /\ Says(d, 0, {}) /\ ~running'[d] /\ met'[d] = {}
        /\ \A e \in Device \ {d} :
             running'[e] = running[e] /\ beats'[e] = beats[e] /\ met'[e] = met[e]
    BY <1>1, <1>3, <2>1 DEF Stops, Set, TypeOK
  <2>3. /\ \A e \in Device : mem'[e] = IF e = d THEN 0 ELSE mem[e]
        /\ folder'[d][d].since = 0 /\ folder'[d][d].fresh
        /\ \A e, f \in Device : e # d \/ f # d => folder'[e][f] = folder[e][f]
        /\ \A e \in Device \ {d} : windows'[e] = windows[e]
        /\ 0 # 0 \/ calls'[d] # {} => windows'[d] = windows[d] \cup {}
    BY <1>1, <2>2, SaysIs, Times
  <2>4. clock \in Nat /\ 0 <= clock
    BY <1>1 DEF TypeOK
  <2>5. Local(d)'
    BY <1>1, <1>2, <2>1, <2>2, <2>3, <2>4
    DEF Local, Down, Minded, Asked, Beats, Stopped, Dated, Forfeited, FreshAtHome, Claimed
  <2>6. Met(d)'
    BY <2>2 DEF Met
  <2>7. \A e \in Device \ {d} : Local(e)' /\ Met(e)'
    BY <1>2, <2>2, <2>3, OthersSame
  <2> QED
    BY <2>5, <2>6, <2>7, <1>1, CToggle DEF HInv
<1>4. CASE s = "reader" /\ ~running[d]
  BY <1>1, <1>2, <1>4 DEF CInv, Runs, Toggle
<1>5. CASE s # "reader" /\ ~running[d] /\ Starts(d, s, engine[d])
  <2>1. Local(d)' /\ Met(d)'
    BY <1>2, <1>5, LocalStarts
  <2>2. ASSUME NEW e \in Device \ {d} PROVE Local(e)' /\ Met(e)'
    BY <1>1, <1>2, <1>5, StartsOthers, OthersSame
  <2> QED
    BY <2>1, <2>2, <1>1, CToggle DEF HInv
<1>6. CASE /\ s # "reader" /\ running[d]
           /\ Publishes(d, s # "off", engine[d], waited[d], FALSE)
           /\ UNCHANGED <<running, mem, beats, waited, met, folder, windows>>
  <2>1. mem[d] # None
    BY <1>1, <1>6 DEF CInv, Prepared
  <2>2. Local(d)'
    BY <1>2, <1>6, <2>1, LocalPublishes
  <2>3. Met(d)'
    BY <1>1, <1>2, <1>6, MetSame
  <2>4. \A e \in Device \ {d} : calls'[e] = calls[e]
    BY <1>1, <1>6, Published DEF TypeOK
  <2>5. ASSUME NEW e \in Device \ {d} PROVE Local(e)' /\ Met(e)'
    BY <1>2, <1>6, <2>4, OthersSame
  <2> QED
    BY <2>2, <2>3, <2>5, <1>1, CToggle DEF HInv
<1> QED
  BY <1>3, <1>4, <1>5, <1>6 DEF Toggle

LEMMA HBoot ==
  ASSUME HInv, NEW d \in Device, Boot(d)
  PROVE  HInv'
<1>1. CInv /\ TypeOK /\ Local(d) /\ Met(d)
  BY DEF HInv, CInv
<1>2. /\ UNCHANGED <<clock, setting, pass, mirror>> /\ ~up[d] /\ up'[d]
      /\ \A e \in Device \ {d} : up'[e] = up[e] /\ engine'[e] = engine[e]
  BY <1>1 DEF Boot, Set, TypeOK
<1>3. mem[d] = None /\ met[d] = {}
  BY <1>1, <1>2 DEF Local, Down, Minded
<1>4. CASE UNCHANGED <<writer, folder, windows>>
  <2>1. UNCHANGED <<running, mem, beats, waited, calls, met, folder, windows>>
    BY <1>4 DEF writer
  <2>2. Local(d)'
    BY <1>1, <1>2, <1>3, <2>1
    DEF Local, Down, Minded, Asked, Beats, Stopped, Dated, Forfeited, FreshAtHome, Claimed,
        IsCandidate
  <2>3. Met(d)'
    BY <1>1, <1>2, <2>1, MetSame
  <2>4. ASSUME NEW e \in Device \ {d} PROVE Local(e)' /\ Met(e)'
    BY <1>2, <2>1, OthersSame
  <2> QED
    BY <2>2, <2>3, <2>4, <1>1, CBoot DEF HInv
<1>5. ASSUME NEW first \in BOOLEAN, engine' = Set(engine, d, first),
             Starts(d, setting[d], first)
      PROVE  HInv'
  <2>1. engine'[d] = first
    BY <1>1, <1>5 DEF Set, TypeOK
  <2>2. Local(d)' /\ Met(d)'
    BY <1>2, <1>5, <2>1, LocalStarts
  <2>3. ASSUME NEW e \in Device \ {d} PROVE Local(e)' /\ Met(e)'
    BY <1>1, <1>2, <1>5, StartsOthers, OthersSame
  <2> QED
    BY <2>2, <2>3, <1>1, CBoot DEF HInv
<1> QED
  BY <1>4, <1>5 DEF Boot

LEMMA HSyncStarts ==
  ASSUME HInv, NEW d \in Device, SyncStarts(d)
  PROVE  HInv'
<1>1. CInv /\ TypeOK /\ Local(d) /\ Met(d)
  BY DEF HInv, CInv
<1>2. /\ UNCHANGED <<clock, up, running, mem, beats, waited, calls, met, pass, folder, mirror,
                     windows>>
      /\ engine'[d] /\ \A e \in Device \ {d} : engine'[e] = engine[e]
  BY <1>1 DEF SyncStarts, Set, TypeOK, writer
<1>3. Local(d)'
  BY <1>1, <1>2
  DEF Local, Down, Minded, Asked, Beats, Stopped, Dated, Forfeited, FreshAtHome, Claimed,
      IsCandidate
<1>4. Met(d)'
  BY <1>1, <1>2, MetSame
<1>5. ASSUME NEW e \in Device \ {d} PROVE Local(e)' /\ Met(e)'
  BY <1>2, OthersSame
<1> QED
  BY <1>1, <1>3, <1>4, <1>5, CSyncStarts DEF HInv

\* What a pass of d that has listed knows the other claims to be worth.
LEMMA HLists ==
  ASSUME HInv, NEW d \in Device, Lists(d)
  PROVE  HInv'
<1>1. CInv /\ TypeOK /\ Local(d) /\ Met(d)
  BY DEF HInv, CInv
<1>2. UNCHANGED <<clock, setting, up, engine, running, mem, beats, waited, calls, met, mirror,
                  windows>>
  BY DEF Lists, world, writer
<1>3. /\ folder'[d][d] = folder[d][d]
      /\ \A f \in Device \ {d} : folder'[d][f] = mirror[f]
      /\ \A e \in Device \ {d} : folder'[e] = folder[e] /\ pass'[e] = pass[e]
  BY <1>1 DEF Lists, Set, TypeOK
<1>4. \A e \in Device : Local(e)'
  BY <1>1, <1>2, <1>3, LocalSame DEF HInv
<1>5. Met(d)'
  <2>1. \A f \in met[d] : f \in Device /\ f # d /\ folder'[d][f] = mirror[f]
    BY <1>1, <1>3 DEF Met, TypeOK
  <2> QED
    BY <1>1, <1>2, <2>1 DEF Met, Claimed, IsCandidate
<1>6. ASSUME NEW e \in Device \ {d} PROVE Met(e)'
  <2>1. met[e] \subseteq Device
    BY <1>1 DEF TypeOK
  <2> QED
    BY <1>1, <1>2, <1>3, <2>1, MetSame DEF HInv
<1> QED
  BY <1>1, <1>4, <1>5, <1>6, CLists DEF HInv

\* What d uploads takes no claim from those that met it but its own.
LEMMA MetEnds ==
  ASSUME HInv, NEW d \in Device, Ends(d), NEW e \in Device
  PROVE  Met(e)'
<1>1. CInv /\ TypeOK /\ Local(d) /\ Met(e)
  BY DEF HInv, CInv
<1>2. UNCHANGED <<clock, mem, folder>>
  BY DEF Ends, world
<1>3. /\ mirror'[d] \in {mirror[d], folder[d][d]}
      /\ \A f \in Device \ {d} : mirror'[f] = mirror[f]
      /\ met'[e] \subseteq met[e] /\ met[e] \subseteq Device
      /\ mirror'[d] = mirror[d] \/ mirror[d].since = folder[d][d].since \/ d \notin met'[e]
  BY <1>1, EndsSend DEF TypeOK
<1>4. waited'[e] \/ pass'[e] # "none" => waited[e] \/ pass[e] # "none"
  <2>1. /\ pass[d] # "none" /\ \A f \in Device \ {d} : pass'[f] = pass[f]
        /\ \A f \in Device \ {d} : waited'[f] = waited[f]
    BY <1>1, EndsSend, EndsWait
  <2> QED
    BY <2>1
<1>5. SUFFICES ASSUME NEW f \in met'[e]
               PROVE  /\ f # e /\ IsCandidate(mirror[f])' /\ mirror'[f].since < clock
                      /\ Claimed(e)' => mirror'[f].since < mem[e]
                      /\ waited'[e] \/ pass'[e] # "none" =>
                           folder'[e][f].since = mirror'[f].since /\ folder'[e][f].fresh
  BY <1>2 DEF Met
<1>6. /\ f \in Device /\ f # e /\ IsCandidate(mirror[f]) /\ mirror[f].since < clock
      /\ Claimed(e) => mirror[f].since < mem[e]
      /\ waited[e] \/ pass[e] # "none" =>
           folder[e][f].since = mirror[f].since /\ folder[e][f].fresh
  BY <1>1, <1>3, <1>5 DEF Met
<1>7. mirror'[f].since = mirror[f].since /\ mirror'[f].fresh
  <2>1. CASE f = d
    BY <1>1, <1>3, <1>5, <1>6, <2>1 DEF Local, FreshAtHome, IsCandidate
  <2>2. CASE f # d
    BY <1>3, <1>6, <2>2 DEF IsCandidate
  <2> QED
    BY <2>1, <2>2
<1> QED
  BY <1>2, <1>4, <1>6, <1>7 DEF IsCandidate, Claimed

LEMMA HEnds ==
  ASSUME HInv, NEW d \in Device, Ends(d)
  PROVE  HInv'
<1>1. CInv /\ TypeOK /\ Local(d) /\ Met(d)
  BY DEF HInv, CInv
<1>2. UNCHANGED <<clock, setting, up, engine, running, mem, beats, folder, windows>>
  BY DEF Ends, world
<1>3. /\ mirror'[d] = mirror[d] \/ mirror'[d] = folder[d][d]
      /\ \A e \in Device \ {d} : mirror'[e] = mirror[e]
      /\ \A e \in Device : met'[e] \subseteq met[e]
  BY <1>1, EndsSend
<1>4. /\ waited[d] => waited'[d]
      /\ \A e \in Device \ {d} : waited'[e] = waited[e]
  BY <1>1, EndsWait
<1>5. CASE mem[d] = 0 /\ Publishes(d, Willing(d), TRUE, waited'[d], FALSE)
  <2>1. \A e \in Device \ {d} : calls'[e] = calls[e]
    BY <1>1, <1>5, Published DEF TypeOK
  <2>2. Local(d)'
    BY <1>2, <1>3, <1>4, <1>5, LocalPublishes, Times
  <2> QED
    BY <1>1, <1>2, <1>3, <1>4, <2>1, <2>2, LocalSame, MetEnds, CEnds DEF HInv
<1>6. CASE UNCHANGED calls
  <2>1. Local(d)'
    BY <1>1, <1>2, <1>3, <1>4, <1>6
    DEF Local, Down, Minded, Asked, Beats, Stopped, Dated, Forfeited, FreshAtHome, Claimed,
        IsCandidate
  <2> QED
    BY <1>1, <1>2, <1>3, <1>4, <1>6, <2>1, LocalSame, MetEnds, CEnds DEF HInv
<1> QED
  BY <1>5, <1>6 DEF Ends

LEMMA HDies ==
  ASSUME HInv, NEW d \in Device, Dies(d)
  PROVE  HInv'
<1>1. CInv /\ TypeOK /\ Local(d)
  BY DEF HInv, CInv
<1>2. /\ UNCHANGED <<clock, setting, folder, mirror>>
      /\ ~running'[d] /\ mem'[d] = None /\ calls'[d] = {} /\ met'[d] = {}
  BY <1>1 DEF Dies, Set, TypeOK
<1>3. \A e \in Device \ {d} :
        /\ up'[e] = up[e] /\ engine'[e] = engine[e] /\ running'[e] = running[e]
        /\ mem'[e] = mem[e] /\ beats'[e] = beats[e] /\ waited'[e] = waited[e]
        /\ calls'[e] = calls[e] /\ met'[e] = met[e] /\ windows'[e] = windows[e]
        /\ pass'[e] = pass[e]
  BY <1>1 DEF Dies, Set, TypeOK
<1>4. folder[d][d].since # None
  BY <1>1, Times DEF TypeOK, Claim
<1>5. Local(d)' /\ Met(d)'
  BY <1>1, <1>2, <1>4
  DEF Local, Down, Minded, Asked, Beats, Stopped, Dated, Forfeited, FreshAtHome, Claimed,
      IsCandidate, Met
<1>6. ASSUME NEW e \in Device \ {d} PROVE Local(e)' /\ Met(e)'
  BY <1>2, <1>3, OthersSame
<1> QED
  BY <1>1, <1>5, <1>6, CDies DEF HInv

LEMMA HPasses ==
  ASSUME HInv, Passes
  PROVE  HInv'
<1>1. CInv /\ \A d \in Device : Local(d) /\ Met(d)
  BY DEF HInv
<1>2. /\ Advances
      /\ UNCHANGED <<up, engine, running, mem, beats, waited, calls, met, pass, folder, mirror,
                     windows>>
  BY DEF Passes, writer
<1>3. ASSUME NEW d \in Device PROVE Local(d)' /\ Met(d)'
  BY <1>1, <1>2, LocalSame, MetSame
<1> QED
  BY <1>1, <1>3, CWaits DEF HInv

LEMMA HWaits ==
  ASSUME HInv, NEW d \in Device, Waits(d)
  PROVE  HInv'
<1>1. CInv /\ TypeOK /\ \A e \in Device : Local(e) /\ Met(e)
  BY DEF HInv, CInv
<1>2. /\ UNCHANGED <<clock, up, engine, running, mem, beats, calls, pass, folder, mirror, windows>>
      /\ waited'[d] /\ met'[d] = {}
      /\ \A e \in Device \ {d} : waited'[e] = waited[e] /\ met'[e] = met[e]
  BY <1>1 DEF Waits, world, Set, TypeOK
<1>3. Local(d)'
  BY <1>1, <1>2
  DEF Local, Down, Minded, Asked, Beats, Stopped, Dated, Forfeited, FreshAtHome, Claimed,
      IsCandidate
<1>4. Met(d)'
  BY <1>2 DEF Met
<1>5. ASSUME NEW e \in Device \ {d} PROVE Local(e)' /\ Met(e)'
  BY <1>2, OthersSame
<1> QED
  BY <1>1, <1>3, <1>4, <1>5, CWaits DEF HInv

LEMMA HSilent ==
  ASSUME HInv, NEW d \in Device, Forfeits(d) \/ Sleeps(d)
  PROVE  HInv'
<1>1. CInv /\ TypeOK /\ Local(d)
  BY DEF HInv, CInv
<1>2. /\ UNCHANGED <<up, engine, running, mem, beats, waited, calls, pass>>
      /\ calls[d] = {} /\ Advances
  BY DEF Forfeits, Sleeps, Silent
<1>3. /\ \A e, f \in Device : f # d => folder'[e][f] = folder[e][f]
      /\ \A f \in Device : f # d => mirror'[f] = mirror[f]
      /\ folder'[d][d] = Aged(folder[d][d]) /\ mirror'[d] = Aged(mirror[d])
      /\ \A e \in Device : met'[e] = met[e] \ {d}
  BY <1>1 DEF Forfeits, Sleeps, Silent, Set, TypeOK
<1>4. /\ \A e \in Device \ {d} : windows'[e] = windows[e]
      /\ windows[d] \subseteq windows'[d]
      /\ ~beats[d] \/ "slept" \in windows'[d]
  BY <1>1 DEF Forfeits, Sleeps, Opens, Set, TypeOK
<1>5. Claimed(d) /\ ~beats[d] => "echo" \in windows[d]
  BY <1>1, <1>2 DEF Local, Beats, Stopped
<1>6. /\ folder'[d][d].since = folder[d][d].since
      /\ (folder'[d][d].fresh <=> folder[d][d].since = 0)
      /\ ~IsCandidate(mirror'[d])
  <2>1. \A c \in Claim : /\ Aged(c).since = c.since
                         /\ c.since = 0 => Aged(c).fresh
                         /\ c.since # 0 => ~Aged(c).fresh
    BY DEF Aged, Claim
  <2>2. folder[d][d] \in Claim /\ mirror[d] \in Claim
    BY <1>1 DEF TypeOK
  <2> QED
    BY <1>3, <2>1, <2>2 DEF IsCandidate
<1>7. Dated(d)'
  <2>1. /\ clock \in Nat /\ clock' \in Nat /\ clock <= clock' /\ mem[d] \in Nat
        /\ folder[d][d].since \in Time
    BY <1>1, <1>2, ClaimsAssumption, ClockGrows DEF TypeOK, Advances, Claim, None, Time
  <2>2. folder[d][d].since \in Nat /\ folder[d][d].since <= clock
    BY <1>1, <2>1 DEF Time, Local, Dated
  <2>3. folder[d][d].since < MaxClock => folder[d][d].since < clock'
    BY <1>1, <1>2, <2>1, <2>2, ClockGrows
  <2> QED
    BY <1>1, <1>2, <1>6, <2>1, <2>2, <2>3 DEF Local, Dated, Claimed
<1>8. Forfeited(d)'
  <2>1. SUFFICES ASSUME folder[d][d].since # 0, mem[d] = folder[d][d].since
                 PROVE  windows'[d] \cap {"slept", "echo"} # {}
    BY <1>2, <1>6 DEF Forfeited
  <2>2. Claimed(d)
    BY <1>1, <2>1, Times DEF Claimed, TypeOK, Claim
  <2> QED
    BY <1>4, <1>5, <2>2
<1>9. Local(d)'
  BY <1>1, <1>2, <1>3, <1>4, <1>6, <1>7, <1>8
  DEF Local, Down, Minded, Asked, Beats, Stopped, FreshAtHome, Claimed
<1>10. ASSUME NEW e \in Device PROVE Met(e)'
  <2>1. met[e] \subseteq Device /\ Met(e)
    BY <1>1 DEF TypeOK, HInv
  <2> QED
    BY <1>1, <1>2, <1>3, <2>1, MetSame
<1>11. ASSUME NEW e \in Device \ {d} PROVE Local(e)'
  BY <1>1, <1>2, <1>3, <1>4, LocalSame DEF HInv
<1> QED
  BY <1>1, <1>9, <1>10, <1>11, CSilent DEF HInv

LEMMA HNext == HInv /\ [Next]_vars => HInv'
<1> SUFFICES ASSUME HInv, [Next]_vars PROVE HInv'
  OBVIOUS
<1>1. CASE Passes
  BY <1>1, HPasses
<1>2. ASSUME NEW d \in Device, Lives(d) PROVE HInv'
  <2>1. CASE Patch(d) \/ Heartbeat(d)
    BY <2>1, HPatch
  <2>2. CASE \E c \in calls[d] : Lands(d, c)
    BY <2>2, HLands
  <2>3. CASE \E s \in Settings : Toggle(d, s)
    BY <2>3, HToggle
  <2>4. CASE Boot(d)
    BY <2>4, HBoot
  <2>5. CASE SyncStarts(d)
    BY <2>5, HSyncStarts
  <2>6. CASE Syncs(d)
    BY <2>6, HLists, HEnds DEF Syncs
  <2>7. CASE Dies(d)
    BY <2>7, HDies
  <2>8. CASE Waits(d)
    BY <2>8, HWaits
  <2>9. CASE Forfeits(d) \/ Sleeps(d)
    BY <2>9, HSilent
  <2> QED
    BY <1>2, <2>1, <2>2, <2>3, <2>4, <2>5, <2>6, <2>7, <2>8, <2>9 DEF Lives
<1>3. CASE UNCHANGED vars
  <2>1. UNCHANGED <<clock, setting, up, engine, running, mem, beats, waited, calls, met, pass,
                    folder, mirror, windows, acts, faults>>
    BY <1>3 DEF vars, world, writer, counts
  <2>2. CInv'
    BY <1>3, CNext DEF HInv
  <2>3. ASSUME NEW d \in Device PROVE Local(d)' /\ Met(d)'
    BY <2>1, LocalSame, MetSame DEF HInv
  <2> QED
    BY <2>2, <2>3 DEF HInv
<1> QED
  BY <1>1, <1>2, <1>3 DEF Next

LEMMA HAlways == Spec => []HInv
BY HInit, HNext, PTL DEF Spec

-----------------------------------------------------------------------------
(***************************************************************************)
(* Every reachable state is well typed: the claim a writer publishes, the  *)
(* claim file on every device and in the remote, and every publication     *)
(* under way (writer.ts).                                                  *)
(***************************************************************************)
THEOREM TypeCorrect == Spec => []TypeOK
<1>1. CInv => TypeOK
  BY DEF CInv
<1> QED
  BY <1>1, CAlways, PTL

(***************************************************************************)
(* A machine that gave the work up holds no claim (writer.ts:73-76), but   *)
(* for an echo, a ghost or a death, however many machines there are,       *)
(* settings changed, publications overlapped and days went by.             *)
(***************************************************************************)
THEOREM StoppedGivesUp == Spec => []GivesUp
<1>1. CInv => GivesUp
  BY DEF CInv, Withdrawn, GivesUp, Quiet
<1> QED
  BY <1>1, CAlways, PTL

(***************************************************************************)
(* A machine that joins does not take the work from one that was at it     *)
(* when it began, and still is (writer.ts:6-8), unless it gave up waiting  *)
(* for the first pull, began before the engine or under a pass, or claimed *)
(* through an echo: however many machines there are and however their      *)
(* publications, the two halves of their passes and their deaths fall.     *)
(***************************************************************************)
THEOREM NewcomersWait == Spec => []IncumbentStays
<1>1. ASSUME HInv, NEW e \in Device, NEW d \in met[e],
             IsCandidate(mirror[d]), mem[e] = folder[e][e].since, IsElectedFor(folder[e], e),
             "echo" \notin windows[e]
      PROVE  FALSE
  <2>1. CInv /\ TypeOK /\ Local(e) /\ Met(e)
    BY <1>1 DEF HInv, CInv
  <2>2. d \in Device /\ d # e /\ folder[e][e].since \in Time /\ folder[e][e].since # 0
    BY <1>1, <2>1 DEF TypeOK, Met, IsElectedFor, IsCandidate, Claim
  <2>3. Claimed(e)
    BY <1>1, <2>2, Times DEF Claimed
  <2>4. waited[e]
    BY <1>1, <2>1, <2>3 DEF Local, Asked
  <2>5. /\ folder[e][d].since = mirror[d].since /\ folder[e][d].fresh
        /\ mirror[d].since < folder[e][e].since /\ mirror[d].since # 0
    BY <1>1, <2>1, <2>3, <2>4 DEF Met, IsCandidate
  <2>6. IsCandidate(folder[e][d]) /\ folder[e][d].since < folder[e][e].since
    BY <2>5 DEF IsCandidate
  <2>7. Before(folder[e], e, d)
    BY <1>1, <2>2, <2>6 DEF IsElectedFor
  <2>8. folder[e][d].since \in Nat /\ folder[e][e].since \in Nat
    BY <2>1, <2>2 DEF TypeOK, Claim, Time
  <2> QED
    BY <2>6, <2>7, <2>8 DEF Before
<1>2. HInv => IncumbentStays
  BY <1>1, Zenon DEF IncumbentStays
<1> QED
  BY <1>2, HAlways, PTL

(***************************************************************************)
(* A claim that was forfeited never stands again as it was: the machine    *)
(* that comes back has claimed anew and is last (types.ts, claimedAt),     *)
(* unless it only slept or an echo claimed for it.                         *)
(***************************************************************************)
THEOREM ComesBackLast == Spec => BackOfTheQueue
<1>1. ASSUME HInv, NEW d \in Device, NEW e \in Device, NEW c \in calls[e], Lands(e, c),
             folder[d][d].since \in 1 .. MaxClock - 1, ~folder[d][d].fresh,
             IsCandidate(folder'[d][d])
      PROVE  \/ folder'[d][d].since # folder[d][d].since
             \/ windows[d] \cap {"slept", "echo"} # {}
  <2>1. CInv /\ TypeOK /\ Local(d)
    BY <1>1 DEF HInv, CInv
  <2>2. mem[e] \in Time \cup {None} /\ mem[e] # None /\ clock \in Time
    BY <1>1, <2>1, Times DEF CInv, TypeOK, Prepared
  <2> DEFINE since == Taken(e, c)
             through == When("echo", ~Wants(e)) \cup When("ghost", c.first /\ ~running[e])
  <2>3. since \in Time /\ (since = 0 \/ since = clock \/ since = mem[e])
    BY <2>2, Times DEF Taken
  <2>4. through \in SUBSET Windows
    BY WhenIs DEF Windows
  <2>5. Says(e, since, through)
    BY <1>1 DEF Lands
  <2> HIDE DEF since, through
  <2>6. /\ folder'[e][e].since = since
        /\ \A g, f \in Device : g # e \/ f # e => folder'[g][f] = folder[g][f]
    BY <2>1, <2>3, <2>4, <2>5, SaysIs
  <2>7. CASE d # e
    BY <1>1, <2>6, <2>7 DEF IsCandidate
  <2>8. CASE d = e
    <3>1. since # 0
      BY <1>1, <2>6, <2>8 DEF IsCandidate
    <3>2. folder[d][d].since < clock /\ clock \in Nat /\ folder[d][d].since \in Nat
      BY <1>1, <2>1, <2>2, ClaimsAssumption DEF Local, Dated, Time
    <3> QED
      BY <1>1, <2>1, <2>3, <2>6, <2>8, <3>1, <3>2 DEF Local, Forfeited
  <2> QED
    BY <2>7, <2>8
<1>2. ASSUME HInv, [Next]_vars, NEW d \in Device,
             folder[d][d].since # 0, ~folder[d][d].fresh, IsCandidate(folder'[d][d])
      PROVE  \E e \in Device : \E c \in calls[e] : Lands(e, c)
  <2>1. CInv /\ TypeOK
    BY <1>2 DEF HInv, CInv
  <2>2. CASE \E e \in Device : \/ Patch(e) \/ Heartbeat(e) \/ Boot(e)
                               \/ SyncStarts(e) \/ Dies(e) \/ Waits(e)
    <3>1. folder' = folder
      BY <2>2, Zenon DEF Patch, Heartbeat, Boot, Starts, SyncStarts, Dies, Waits
    <3> QED
      BY <1>2, <3>1 DEF IsCandidate
  <2>3. CASE Passes \/ UNCHANGED vars
    <3>1. folder' = folder
      BY <2>3 DEF Passes, vars
    <3> QED
      BY <1>2, <3>1 DEF IsCandidate
  <2>4. ASSUME NEW e \in Device, Syncs(e) PROVE FALSE
    <3>1. folder'[d][d] = folder[d][d]
      <4>1. folder' = folder \/ folder' = Set(folder, e, Set(mirror, e, folder[e][e]))
        BY <2>4 DEF Syncs, Lists, Ends
      <4> QED
        BY <2>1, <4>1 DEF Set, TypeOK
    <3> QED
      BY <1>2, <3>1 DEF IsCandidate
  <2>5. ASSUME NEW e \in Device, Forfeits(e) \/ Sleeps(e) PROVE FALSE
    <3>1. /\ e # d => folder'[d][d] = folder[d][d]
          /\ e = d => folder'[d][d] = Aged(folder[d][d])
      BY <2>1, <2>5 DEF Forfeits, Sleeps, Silent, Set, TypeOK
    <3>2. folder[d][d].since # 0 => ~Aged(folder[d][d]).fresh
      BY Zenon DEF Aged
    <3> QED
      BY <1>2, <3>1, <3>2 DEF IsCandidate
  <2>6. ASSUME NEW e \in Device, NEW s \in Settings, Toggle(e, s) PROVE FALSE
    <3>1. folder' = folder \/ Says(e, 0, {})
      BY <2>6 DEF Toggle, Stops, Starts
    <3>2. CASE folder' = folder
      BY <1>2, <3>2 DEF IsCandidate
    <3>3. CASE Says(e, 0, {})
      <4>1. /\ folder'[e][e].since = 0
            /\ \A g, f \in Device : g # e \/ f # e => folder'[g][f] = folder[g][f]
        BY <2>1, <3>3, SaysIs, Times
      <4> QED
        BY <1>2, <4>1 DEF IsCandidate
    <3> QED
      BY <3>1, <3>2, <3>3
  <2> QED
    BY <1>2, <2>2, <2>3, <2>4, <2>5, <2>6 DEF Next, Lives
<1> DEFINE Queued ==
             \A d \in Device :
               LET was == folder[d][d] now == folder'[d][d] IN
               was.since \in 1 .. MaxClock - 1 /\ ~was.fresh /\ IsCandidate(now) =>
                 now.since # was.since \/ windows[d] \cap {"slept", "echo"} # {}
<1>3. HInv /\ [Next]_vars => Queued
  <2>1. SUFFICES ASSUME HInv, [Next]_vars, NEW d \in Device,
                        folder[d][d].since \in 1 .. MaxClock - 1, ~folder[d][d].fresh,
                        IsCandidate(folder'[d][d])
                 PROVE  \/ folder'[d][d].since # folder[d][d].since
                        \/ windows[d] \cap {"slept", "echo"} # {}
    OBVIOUS
  <2>2. folder[d][d].since # 0
    BY <2>1
  <2>3. PICK e \in Device : \E c \in calls[e] : Lands(e, c)
    BY <1>2, <2>1, <2>2
  <2> QED
    BY <1>1, <2>1, <2>3
<1>4. HInv /\ [Next]_vars => [Queued]_vars
  BY <1>3
<1>5. Spec => [][Queued]_vars
  BY <1>4, HAlways, PTL DEF Spec
<1> QED
  BY <1>5 DEF BackOfTheQueue
=============================================================================
