------------------------------ MODULE MCHiring ------------------------------
(***************************************************************************)
(* Small instances of Hiring for TLC.  In the first, two requests of one   *)
(* workspace overlap; in the second, the queue runner serves two           *)
(* workspaces, one of which has no screenings left.                        *)
(***************************************************************************)
EXTENDS Hiring, TLC

CONSTANTS c1, c2, c3, j1, j2, j3, w1, w2

\* c3 and j3 belong to the second workspace, the rest to the first.
MCWorkspaceOf == [ x \in Candidates \union Jobs |-> IF x \in {c3, j3} THEN w2 ELSE w1 ]
MCAppliedTo == [ c \in Candidates |-> IF c = c3 THEN j3 ELSE j1 ]

OneEach == [ w \in Workspaces |-> 1 ]
NoneForTheSecond == [ w \in Workspaces |-> IF w = w2 THEN 0 ELSE 2 ]

\* Requests differ in nothing but their name.
RequestSymmetry == Permutations(Requests)
=============================================================================
