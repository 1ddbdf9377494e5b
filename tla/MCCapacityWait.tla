--------------------------- MODULE MCCapacityWait ---------------------------
(***************************************************************************)
(* Finite instances of CapacityWait: one account with a pool of keys.      *)
(***************************************************************************)
EXTENDS CapacityWait, TLC

CONSTANTS acc, t1, t2, k1, k2

MCAccounts == {acc}
MCAccount  == [t \in Targets |-> acc]
MCKeysOf   == [a \in Accounts |-> Keys]

\* One place on target t1 and on the account: permits are collected in turn.
SharedLimit == [o \in Targets \cup Keys \cup Accounts |-> IF o \in {t1, acc} THEN 1 ELSE None]

\* One place on key k1, the other levels are unlimited.
KeyLimit == [o \in Targets \cup Keys \cup Accounts |-> IF o = k1 THEN 1 ELSE None]

\* No concurrency limit.
NoLimit == [o \in Targets \cup Keys \cup Accounts |-> None]

EveryTarget == {Targets}
=============================================================================
