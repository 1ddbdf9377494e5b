---------------------------- MODULE Concurrency ----------------------------
(***************************************************************************)
(* What max_concurrency promises: an attempt uses some bounded levels (its *)
(* target, its key, its account), and it starts only when each of them is  *)
(* below its limit.  How requests wait and in which order they come is not *)
(* said here.                                                              *)
(***************************************************************************)
EXTENDS Integers, FiniteSets

CONSTANTS Requests, Pools, Limit   \* Pools: the bounded levels

VARIABLE running   \* the levels that the attempt of a request uses, {} if none

Users(o) == {r \in Requests : o \in running[r]}

Init == running = [r \in Requests |-> {}]

Begin(r, levels) ==
  /\ running[r] = {}
  /\ \A o \in levels : Cardinality(Users(o)) < Limit[o]
  /\ running' = [running EXCEPT ![r] = levels]

End(r) ==
  /\ running[r] # {}
  /\ running' = [running EXCEPT ![r] = {}]

Next == \E r \in Requests : End(r) \/ \E levels \in SUBSET Pools : Begin(r, levels)

Spec == Init /\ [][Next]_running
=============================================================================
