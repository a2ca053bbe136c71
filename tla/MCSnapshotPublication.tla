----------------------- MODULE MCSnapshotPublication -----------------------
(***************************************************************************)
(* SnapshotPublication on a small instance: two jobs, which may choose the *)
(* same epoch, with two attempts each; other users submit the hashes of    *)
(* both, and a string that is too short.                                   *)
(***************************************************************************)
EXTENDS SnapshotPublication

CONSTANTS j1, j2, h1, h2, short
\* A job and its hash change places together.
JobSymmetry == {[x \in {j1, j2, h1, h2} |-> x],
                [x \in {j1, j2, h1, h2} |-> CASE x = j1 -> j2 [] x = j2 -> j1
                                              [] x = h1 -> h2 [] x = h2 -> h1]}
MCHashOf == [j \in {j1, j2} |-> IF j = j1 THEN h1 ELSE h2]
=============================================================================
