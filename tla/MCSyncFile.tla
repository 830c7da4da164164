---------------------------- MODULE MCSyncFile ----------------------------
EXTENDS SyncFile, TLC

CONSTANTS da, db, a1, a2, b1

MCDevice == {da, db}
MCRec == {a1, a2, b1}
MCAuthor == (a1 :> da) @@ (a2 :> da) @@ (b1 :> db)
MCRec2 == {a1, b1}
MCAuthor2 == (a1 :> da) @@ (b1 :> db)
MCDeletable == {b1}
=============================================================================
