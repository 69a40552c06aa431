---------------------------- MODULE MCResultPath ----------------------------
(* Small instances of ResultPath for TLC.                                  *)
EXTENDS ResultPath, TLC

CONSTANTS p1, p2, f1, h1, g1, c1, r1, r2, r3, NRuns

MCContents == 0 .. NRuns

MCKind == (p1 :> "plain") @@ (p2 :> "plain") @@ (f1 :> "force")
            @@ (h1 :> "hash") @@ (g1 :> "gc") @@ (c1 :> "clean")
MCKindOf == [t \in Tasks |-> MCKind[t]]
MCOneRev == [t \in Tasks |-> r1]
\* p2 is at r2, which goes to r3 once it is written back.
MCThreeRevs == [t \in Tasks |-> IF t = p2 THEN r2 ELSE r1]
MCFix == [r \in Revs |-> IF r = r2 THEN r3 ELSE r]
=============================================================================
