-------------------------- MODULE RunLatticeProofs --------------------------
(***************************************************************************)
(* The join of two copies of a run is what run/merge.ts says it is: the    *)
(* least upper bound of a lattice, whatever the order and the grouping the *)
(* copies meet in; and every operation of the store climbs that lattice.   *)
(***************************************************************************)
EXTENDS RunLattice, TLAPS

\* What the copies are compared by, and what is folded.
SameKey(a, b) ==
  /\ a.state = b.state /\ a.revision = b.revision
  /\ a.claimant = b.claimant /\ a.content = b.content

SameFold(a, b) ==
  /\ a.attempts = b.attempts /\ (a.cancel <=> b.cancel) /\ a.delivered = b.delivered

LEMMA RankOrders ==
  ASSUME NEW s \in RunState, NEW t \in RunState
  PROVE  /\ RunRank(s) \in Nat
         /\ RunRank(s) = RunRank(t) => s = t
BY DEF RunState, RunRank

LEMMA SameRecord ==
  ASSUME NEW a \in Record, NEW b \in Record, SameKey(a, b), SameFold(a, b)
  PROVE  a = b
BY DEF Record, SameKey, SameFold

LEMMA BeatsIsStrict ==
  ASSUME NEW a \in Record, NEW b \in Record
  PROVE  /\ ~(Beats(a, b) /\ Beats(b, a))
         /\ ~Beats(a, b) /\ ~Beats(b, a) => SameKey(a, b)
<1>1. /\ a.state \in RunState /\ b.state \in RunState
      /\ a.revision \in Nat /\ b.revision \in Nat
      /\ a.claimant \in Nat /\ b.claimant \in Nat
      /\ a.content \in Nat /\ b.content \in Nat
  BY DEF Record
<1>2. /\ RunRank(a.state) \in Nat /\ RunRank(b.state) \in Nat
      /\ RunRank(a.state) = RunRank(b.state) => a.state = b.state
  BY <1>1, RankOrders
<1> QED
  BY <1>1, <1>2 DEF Beats, SameStep, ClaimBeats, SameKey

LEMMA BeatsTransitive ==
  ASSUME NEW a \in Record, NEW b \in Record, NEW c \in Record,
         Beats(a, b), Beats(b, c)
  PROVE  Beats(a, c)
<1>1. /\ a.state \in RunState /\ b.state \in RunState /\ c.state \in RunState
      /\ a.revision \in Nat /\ b.revision \in Nat /\ c.revision \in Nat
      /\ a.claimant \in Nat /\ b.claimant \in Nat /\ c.claimant \in Nat
      /\ a.content \in Nat /\ b.content \in Nat /\ c.content \in Nat
  BY DEF Record
<1>2. /\ RunRank(a.state) \in Nat /\ RunRank(b.state) \in Nat /\ RunRank(c.state) \in Nat
  BY <1>1, RankOrders
<1> QED
  BY <1>1, <1>2 DEF Beats, SameStep, ClaimBeats

\* Only the key decides.
LEMMA BeatsByKey ==
  ASSUME NEW a, NEW b, NEW c, SameKey(a, b)
  PROVE  Beats(a, c) <=> Beats(b, c)
BY DEF Beats, SameStep, SameKey

LEMMA BeatenByKey ==
  ASSUME NEW a, NEW b, NEW c, SameKey(a, b)
  PROVE  Beats(c, a) <=> Beats(c, b)
BY DEF Beats, SameStep, SameKey

Winner(a, b) == IF Beats(b, a) THEN b ELSE a

LEMMA JoinParts ==
  ASSUME NEW a \in Record, NEW b \in Record
  PROVE  /\ Join(a, b) \in Record
         /\ Winner(a, b) \in Record
         /\ SameKey(Join(a, b), Winner(a, b))
         /\ Join(a, b).attempts = Most(a.attempts, b.attempts)
         /\ Join(a, b).cancel <=> (a.cancel \/ b.cancel)
         /\ Join(a, b).delivered = Earliest(a.delivered, b.delivered)
<1> DEFINE w == Winner(a, b)
           most == Most(a.attempts, b.attempts)
           asked == (a.cancel \/ b.cancel)
           early == Earliest(a.delivered, b.delivered)
<1>1. most \in Nat /\ early \in Nat
  BY DEF Record, Most, Earliest
<1>2. asked \in BOOLEAN
  BY Zenon
<1>3. w \in Record
  BY DEF Winner
<1>4. Join(a, b) = [state |-> w.state, revision |-> w.revision, claimant |-> w.claimant,
                    content |-> w.content, attempts |-> most, cancel |-> asked,
                    delivered |-> early]
  BY Zenon DEF Join, Winner
<1>5. asked <=> (a.cancel \/ b.cancel)
  BY Zenon
<1> HIDE DEF w, most, asked, early
<1>6. /\ Join(a, b) \in Record /\ SameKey(Join(a, b), w)
      /\ Join(a, b).attempts = most /\ Join(a, b).cancel = asked
      /\ Join(a, b).delivered = early
  BY <1>1, <1>2, <1>3, <1>4 DEF Record, SameKey
<1>7. Join(a, b).cancel <=> (a.cancel \/ b.cancel)
  BY <1>5, <1>6, Zenon
<1> USE DEF w, most, early
<1> QED
  BY <1>3, <1>6, <1>7, Zenon

(***************************************************************************)
(* run/merge.ts: the two devices merge the same pair in either order.      *)
(***************************************************************************)
THEOREM JoinCommutes ==
  ASSUME NEW a \in Record, NEW b \in Record
  PROVE  Join(a, b) = Join(b, a)
<1>1. SameKey(Winner(a, b), Winner(b, a))
  BY BeatsIsStrict DEF Winner, SameKey
<1>2. SameKey(Join(a, b), Join(b, a))
  BY <1>1, JoinParts DEF SameKey
<1>3. /\ Most(a.attempts, b.attempts) = Most(b.attempts, a.attempts)
      /\ Earliest(a.delivered, b.delivered) = Earliest(b.delivered, a.delivered)
  BY DEF Record, Most, Earliest
<1>4. SameFold(Join(a, b), Join(b, a))
  BY <1>3, JoinParts DEF SameFold
<1> QED
  BY <1>2, <1>4, JoinParts, SameRecord

(***************************************************************************)
(* Any number of times: a copy joined with itself, or with a join it is    *)
(* already in, changes nothing.                                            *)
(***************************************************************************)
THEOREM JoinIdempotent ==
  ASSUME NEW a \in Record
  PROVE  Join(a, a) = a
<1>1. SameKey(Join(a, a), a)
  BY JoinParts DEF Winner, SameKey
<1>2. Most(a.attempts, a.attempts) = a.attempts /\ Earliest(a.delivered, a.delivered) = a.delivered
  BY DEF Record, Most, Earliest
<1>3. SameFold(Join(a, a), a)
  BY <1>2, JoinParts DEF SameFold
<1> QED
  BY <1>1, <1>3, JoinParts, SameRecord

(***************************************************************************)
(* In any grouping.                                                        *)
(***************************************************************************)
THEOREM JoinAssociates ==
  ASSUME NEW a \in Record, NEW b \in Record, NEW c \in Record
  PROVE  Join(Join(a, b), c) = Join(a, Join(b, c))
<1> DEFINE ab == Join(a, b)
           bc == Join(b, c)
<1>1. ab \in Record /\ bc \in Record /\ SameKey(ab, Winner(a, b)) /\ SameKey(bc, Winner(b, c))
  BY JoinParts
<1>2. SameKey(Join(ab, c), Winner(ab, c)) /\ SameKey(Join(a, bc), Winner(a, bc))
  BY <1>1, JoinParts
<1>3. /\ Beats(c, ab) <=> Beats(c, Winner(a, b))
      /\ Beats(bc, a) <=> Beats(Winner(b, c), a)
  BY <1>1, BeatsByKey, BeatenByKey
<1>4. /\ SameKey(Winner(ab, c), Winner(Winner(a, b), c))
      /\ SameKey(Winner(a, bc), Winner(a, Winner(b, c)))
  BY <1>1, <1>3 DEF Winner, SameKey
<1>5. SameKey(Winner(Winner(a, b), c), Winner(a, Winner(b, c)))
  <2>1. ASSUME SameKey(a, b) PROVE (Beats(c, a) <=> Beats(c, b)) /\ (Beats(a, c) <=> Beats(b, c))
    BY <2>1, BeatsByKey, BeatenByKey
  <2>2. /\ Beats(c, b) /\ Beats(b, a) => Beats(c, a)
        /\ Beats(a, b) /\ Beats(b, c) => Beats(a, c)
        /\ Beats(b, c) /\ Beats(c, a) => Beats(b, a)
        /\ Beats(c, a) /\ Beats(a, b) => Beats(c, b)
    BY BeatsTransitive
  <2>3. ASSUME SameKey(b, c) PROVE (Beats(b, a) <=> Beats(c, a)) /\ (Beats(a, b) <=> Beats(a, c))
    BY <2>3, BeatsByKey, BeatenByKey
  <2> QED
    BY <2>1, <2>2, <2>3, BeatsIsStrict DEF Winner, SameKey
<1>6. SameKey(Join(ab, c), Join(a, bc))
  BY <1>2, <1>4, <1>5 DEF SameKey
<1>7. /\ Most(Most(a.attempts, b.attempts), c.attempts) = Most(a.attempts, Most(b.attempts, c.attempts))
      /\ Earliest(Earliest(a.delivered, b.delivered), c.delivered)
           = Earliest(a.delivered, Earliest(b.delivered, c.delivered))
  BY DEF Record, Most, Earliest
<1>8. /\ Join(ab, c).attempts = Join(a, bc).attempts
      /\ Join(ab, c).delivered = Join(a, bc).delivered
  BY <1>1, <1>7, JoinParts
<1>9. /\ ab.cancel <=> (a.cancel \/ b.cancel)
      /\ bc.cancel <=> (b.cancel \/ c.cancel)
  BY JoinParts
<1>10. /\ Join(ab, c).cancel <=> (ab.cancel \/ c.cancel)
       /\ Join(a, bc).cancel <=> (a.cancel \/ bc.cancel)
  BY <1>1, JoinParts
<1>11. Join(ab, c) \in Record /\ Join(a, bc) \in Record
  BY <1>1, JoinParts
<1> QED
  BY <1>6, <1>8, <1>9, <1>10, <1>11, SameRecord DEF SameFold

\* The join is above both of its sides.
THEOREM JoinIsAbove ==
  ASSUME NEW a \in Record, NEW b \in Record
  PROVE  Below(a, Join(a, b)) /\ Below(b, Join(a, b))
<1>1. Join(a, Join(a, b)) = Join(a, b)
  BY JoinAssociates, JoinIdempotent
<1>2. Join(b, Join(b, a)) = Join(b, a)
  BY JoinAssociates, JoinIdempotent
<1> QED
  BY <1>1, <1>2, JoinCommutes DEF Below

LEMMA BelowTransitive ==
  ASSUME NEW a \in Record, NEW b \in Record, NEW c \in Record, Below(a, b), Below(b, c)
  PROVE  Below(a, c)
BY JoinAssociates DEF Below

\* A step up the chain, or along it with one more revision, that unsays nothing.
LEMMA ClimbsBy ==
  ASSUME NEW run \in Record, NEW next \in Record,
         \/ RunRank(next.state) > RunRank(run.state)
         \/ next.state = run.state /\ next.revision > run.revision,
         next.attempts >= run.attempts,
         run.cancel => next.cancel,
         run.delivered # 0 => next.delivered = run.delivered
  PROVE  Below(run, next)
<1>1. Beats(next, run)
  BY DEF Beats
<1>2. SameKey(Join(run, next), next)
  BY <1>1, JoinParts DEF Winner, SameKey
<1>3. /\ Most(run.attempts, next.attempts) = next.attempts
      /\ Earliest(run.delivered, next.delivered) = next.delivered
  BY DEF Record, Most, Earliest
<1>4. SameFold(Join(run, next), next)
  BY <1>3, JoinParts DEF SameFold
<1> QED
  BY <1>2, <1>4, JoinParts, SameRecord DEF Below

(***************************************************************************)
(* Every operation of the store, under its own condition, leaves a record  *)
(* above the one its get returned: no operation takes an end, an attempt,  *)
(* a cancellation or a delivery back.                                      *)
(***************************************************************************)
THEOREM StoreClimbs ==
  ASSUME NEW run \in Record, NEW d \in Nat \ {0}, NEW next \in RunState, NEW at \in Nat \ {0}
  PROVE  /\ MayMove(run, "running") => Below(run, Started(run, d))
         /\ MayMove(run, next) => Below(run, Ended(run, next, d))
         /\ MayRetake(run) => Below(run, Retaken(run, d))
         /\ MayCancel(run) => Below(run, CancelAsked(run, d))
         /\ Below(run, Reported(run, d))
         /\ MayDeliver(run) => Below(run, Delivered(run, d, at))
<1>1. /\ run.revision + 1 \in Nat /\ run.revision + 1 > run.revision
      /\ run.attempts + 1 \in Nat /\ run.attempts + 1 >= run.attempts
      /\ run.attempts >= run.attempts
  BY DEF Record
<1>2. ASSUME MayMove(run, "running") PROVE Below(run, Started(run, d))
  <2>1. /\ Started(run, d) \in Record /\ Started(run, d).state = "running"
        /\ Started(run, d).attempts = run.attempts + 1
        /\ Started(run, d).cancel = run.cancel /\ Started(run, d).delivered = run.delivered
    BY <1>1 DEF Started, Bumped, Record, RunState
  <2> QED
    BY <1>1, <1>2, <2>1, ClimbsBy DEF MayMove
<1>3. ASSUME MayMove(run, next) PROVE Below(run, Ended(run, next, d))
  <2>1. /\ Ended(run, next, d) \in Record /\ Ended(run, next, d).state = next
        /\ Ended(run, next, d).attempts = run.attempts
        /\ Ended(run, next, d).cancel = run.cancel /\ Ended(run, next, d).delivered = run.delivered
    BY <1>1 DEF Ended, Bumped, Record
  <2> QED
    BY <1>1, <1>3, <2>1, ClimbsBy DEF MayMove
<1>4. ASSUME MayRetake(run) PROVE Below(run, Retaken(run, d))
  <2>1. /\ Retaken(run, d) \in Record /\ Retaken(run, d).state = run.state
        /\ Retaken(run, d).revision = run.revision + 1
        /\ Retaken(run, d).attempts = run.attempts + 1
        /\ Retaken(run, d).cancel = run.cancel /\ Retaken(run, d).delivered = run.delivered
    BY <1>1 DEF Retaken, Bumped, Record
  <2> QED
    BY <1>1, <2>1, ClimbsBy
<1>5. ASSUME MayCancel(run) PROVE Below(run, CancelAsked(run, d))
  <2> DEFINE to == IF run.state = "pending" THEN "cancelled" ELSE run.state
  <2>1. /\ CancelAsked(run, d) \in Record /\ CancelAsked(run, d).state = to
        /\ CancelAsked(run, d).revision = run.revision + 1
        /\ CancelAsked(run, d).attempts = run.attempts
        /\ CancelAsked(run, d).cancel = TRUE /\ CancelAsked(run, d).delivered = run.delivered
    BY <1>1 DEF CancelAsked, Bumped, Record, RunState
  <2>2. RunRank(to) > RunRank(run.state) \/ to = run.state
    BY DEF RunRank
  <2> QED
    BY <1>1, <2>1, <2>2, ClimbsBy
<1>6. Below(run, Reported(run, d))
  <2>1. /\ Reported(run, d) \in Record /\ Reported(run, d).state = run.state
        /\ Reported(run, d).revision = run.revision + 1
        /\ Reported(run, d).attempts = run.attempts
        /\ Reported(run, d).cancel = run.cancel /\ Reported(run, d).delivered = run.delivered
    BY <1>1 DEF Reported, Bumped, Record
  <2> QED
    BY <1>1, <2>1, ClimbsBy
<1>7. ASSUME MayDeliver(run) PROVE Below(run, Delivered(run, d, at))
  <2>1. /\ Delivered(run, d, at) \in Record /\ Delivered(run, d, at).state = run.state
        /\ Delivered(run, d, at).revision = run.revision + 1
        /\ Delivered(run, d, at).attempts = run.attempts
        /\ Delivered(run, d, at).cancel = run.cancel
    BY <1>1 DEF Delivered, Bumped, Record
  <2> QED
    BY <1>1, <1>7, <2>1, ClimbsBy DEF MayDeliver
<1> QED
  BY <1>2, <1>3, <1>4, <1>5, <1>6, <1>7
=============================================================================
