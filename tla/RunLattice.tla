----------------------------- MODULE RunLattice -----------------------------
(***************************************************************************)
(* A run's record and what may be done to it: the lattice two copies of    *)
(* one run file are joined by (src/legion/run/merge.ts over                *)
(* src/platform/sync/merge/join.ts), and the operations of the store       *)
(* (src/legion/run/store.ts), each from the record its get returned.       *)
(*                                                                         *)
(* Devices are numbered in the order of their ids; 0 is no claimant, and   *)
(* no delivery.  What else the record holds (the claimant's start, the     *)
(* progress line, the output, endedAt) is compared by rule 4 only, as one  *)
(* text: content stands for it, by the number of the device that wrote it. *)
(* createdAt and startedAt are folded like deliveredAt, and read by nobody *)
(* here.                                                                   *)
(***************************************************************************)
EXTENDS Integers

RunState == {"pending", "running", "cancelled", "failed", "done"}

Record == [state : RunState, revision : Nat, claimant : Nat, content : Nat,
           attempts : Nat, cancel : BOOLEAN, delivered : Nat]

RunRank(state) ==
  CASE state = "pending"   -> 0
    [] state = "running"   -> 1
    [] state = "cancelled" -> 2
    [] state = "failed"    -> 3
    [] state = "done"      -> 4

IsTerminal(state) == state \in {"cancelled", "failed", "done"}

-----------------------------------------------------------------------------
(***************************************************************************)
(* The join.                                                               *)
(***************************************************************************)
SameStep(a, b) == a.state = b.state /\ a.revision = b.revision

\* A claimed side beats an unclaimed one, then the smaller id wins.
ClaimBeats(m, n) == m # 0 /\ (n = 0 \/ m < n)

\* Mutant of Beats: two claimants of one step are not told apart.
BeatsByContent(a, b) ==
  \/ RunRank(a.state) > RunRank(b.state)
  \/ a.state = b.state /\ a.revision > b.revision
  \/ SameStep(a, b) /\ a.content < b.content

Beats(a, b) ==
  \/ RunRank(a.state) > RunRank(b.state)
  \/ a.state = b.state /\ a.revision > b.revision
  \/ SameStep(a, b) /\ ClaimBeats(a.claimant, b.claimant)
  \/ SameStep(a, b) /\ a.claimant = b.claimant /\ a.content < b.content

Most(m, n) == IF m >= n THEN m ELSE n
Earliest(m, n) == IF m = 0 THEN n ELSE IF n = 0 \/ m <= n THEN m ELSE n

\* Mutant of Join: the winner is taken whole.
JoinWhole(a, b) == IF Beats(b, a) THEN b ELSE a

Join(a, b) ==
  LET w == IF Beats(b, a) THEN b ELSE a
  IN [state |-> w.state, revision |-> w.revision,
      claimant |-> w.claimant, content |-> w.content,
      attempts |-> Most(a.attempts, b.attempts),
      cancel |-> (a.cancel \/ b.cancel),
      delivered |-> Earliest(a.delivered, b.delivered)]

\* The order of the lattice: everything a says is in b.
Below(a, b) == Join(a, b) = b

-----------------------------------------------------------------------------
(***************************************************************************)
(* The store.  Each operation is a get, a condition on what it returned,   *)
(* and one put of the whole record.                                        *)
(***************************************************************************)
Created(d) ==
  [state |-> "pending", revision |-> 1, claimant |-> 0, content |-> d,
   attempts |-> 0, cancel |-> FALSE, delivered |-> 0]

Bumped(run, d) == [run EXCEPT !.revision = run.revision + 1, !.content = d]

MayMove(run, next) == RunRank(next) > RunRank(run.state)

Started(run, d) ==
  [Bumped(run, d) EXCEPT !.state = "running", !.claimant = d,
                         !.attempts = run.attempts + 1]

Ended(run, next, d) == [Bumped(run, d) EXCEPT !.state = next]

MayRetake(run) == run.state = "running"

\* Mutant of Retaken: the take-over does not count as a write.
RetakenQuietly(run, d) ==
  [run EXCEPT !.claimant = d, !.content = d, !.attempts = run.attempts + 1]

Retaken(run, d) ==
  [Bumped(run, d) EXCEPT !.claimant = d, !.attempts = run.attempts + 1]

MayCancel(run) == ~IsTerminal(run.state) /\ (run.state = "pending" \/ ~run.cancel)

CancelAsked(run, d) ==
  [Bumped(run, d) EXCEPT !.cancel = TRUE,
     !.state = IF run.state = "pending" THEN "cancelled" ELSE run.state]

Reported(run, d) == Bumped(run, d)

MayDeliver(run) == run.delivered = 0

Delivered(run, d, at) == [Bumped(run, d) EXCEPT !.delivered = at]
=============================================================================
