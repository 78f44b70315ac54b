---------------------------- MODULE MCConnReport ----------------------------
(***************************************************************************)
(* Two sessions of one connection, of two workloads.                       *)
(***************************************************************************)
EXTENDS ConnReport

TwoSessions == {1, 2}
OneConn == [s \in TwoSessions |-> "c"]
TwoMacs == [s \in TwoSessions |-> IF s = 1 THEN "m1" ELSE "m2"]
TwoTables == [s \in TwoSessions |-> IF s = 1 THEN "session4" ELSE "proxymesh4"]

SomeRequests == {<<"list">>, <<"clear", 0>>, <<"clear", 1>>, <<"delmac", "m1">>}
=============================================================================
