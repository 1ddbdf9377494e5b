-------------------------- MODULE MCResponseChain --------------------------
(* ResponseChain with accounts that speak Responses and one that does not. *)
EXTENDS ResponseChain, TLC

CONSTANTS native, other, chat, d1, k1, k2

OneKey == [a \in Accounts |-> {k1}]

\* Every account has two keys.
AllKeys == [a \in Accounts |-> Keys]
=============================================================================
