------------------------------- MODULE MCEpPolicy -------------------------------
(***************************************************************************)
(* Two endpoints, which policy messages name together, and one of them     *)
(* twice.                                                                  *)
(***************************************************************************)
EXTENDS EpPolicy

CONSTANTS m1, m2

Lists == {<<m1, m2>>, <<m2, m2>>}
================================================================================
