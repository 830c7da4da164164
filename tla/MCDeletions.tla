---------------------------- MODULE MCDeletions ----------------------------
EXTENDS Deletions, TLC

CONSTANTS da, db, a, b

MCDevice == {da, db}
MCMark == {a, b}
MCAuthor == (a :> da) @@ (b :> db)

\* The devices and their marks can change places: the first deletion is on da.
MCFairSpec == Init /\ [][Next /\ (events = {} => ~clearing'[db])]_vars /\ Fairness
=============================================================================
