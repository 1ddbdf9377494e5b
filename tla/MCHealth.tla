------------------------------ MODULE MCHealth ------------------------------
(***************************************************************************)
(* Finite instances of Health: one account, its keys and its targets.      *)
(***************************************************************************)
EXTENDS Health, TLC

CONSTANTS acc

MCAccounts      == {acc}
MCKeyAccount    == [k \in Keys |-> acc]
MCTargetAccount == [t \in Targets |-> acc]

\* No limit on any object: only the circuits matter.
NoLimitChoices == [o \in Objects |-> {None}]

AllOutcomes == Outcomes

\* Next of Health while the administrator leaves the limits alone; the run Limits moves them.
CircuitsNext ==
  \/ \E r \in Requests, k \in Keys, t \in Targets : Arrive(r, k, t)
  \/ \E r \in Requests : Admit(r) \/ End(r)
  \/ \E k \in Keys : ClearKeyFaults(k) \/ ProbeWindowOpens(k)
  \/ \E a \in Accounts : ClearAccountFaults(a)
  \/ \E o \in Objects : RetainDrops(o)
  \/ ClearAll
  \/ \E o \in Circuits : CooldownEnds(o) \/ WindowSlides(o)

CircuitsSpec == Init /\ [][CircuitsNext]_vars

Symmetric == Permutations(Requests)
=============================================================================
