------------------------------ MODULE MCDpContext ------------------------------
(***************************************************************************)
(* Small instances of DpContext: as many contexts as let one be released   *)
(* while another of the same or of another name is in use.                 *)
(***************************************************************************)
EXTENDS DpContext, TLC

Symmetry == Permutations(Mem)
================================================================================
