---------------------------- MODULE MCGovernance ----------------------------
(***************************************************************************)
(* Governance on a small instance: three voters and a quorum of 2, so   *)
(* that a proposal may pass, tie, lose or miss its quorum.  Users are      *)
(* interchangeable; contracts are not (two of them have names).            *)
(***************************************************************************)
EXTENDS Governance, TLC

MCSymmetry == Permutations(Users)
=============================================================================
