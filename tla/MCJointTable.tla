----------------------------- MODULE MCJointTable -----------------------------
(***************************************************************************)
(* JointTable for TLC: the programs are interchangeable.                    *)
(***************************************************************************)
EXTENDS JointTable, TLC

Programs == Permutations(Sessions)
=============================================================================
