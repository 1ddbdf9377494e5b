----------------------------- MODULE KeyChoice -----------------------------
(***************************************************************************)
(* Which API key of an account a call uses: select_key of                  *)
(* src/src/credential.rs, asked by Walk::select_credential, and            *)
(* resolve_key of src/src/routing/mod.rs, which decides before whether the *)
(* account is eligible at all.  The two look at the same keys and must     *)
(* agree on what is busy (worth waiting for) and what is bad.              *)
(*                                                                         *)
(* The keys of the pool change under the request: others take their        *)
(* places, circuits trip, the administrator disables them.                 *)
(***************************************************************************)
EXTENDS Naturals, FiniteSets

CONSTANTS
  Keys,   \* the keys of one account
  None    \* no key

ASSUME KeyAssumption == IsFiniteSet(Keys) /\ None \notin Keys

\* reconcile_and_check: Ok, a queueable refusal, another one; or not enabled.
KeyStates == {"free", "busy", "bad", "disabled"}

VARIABLES
  state,      \* of every key
  pinned,     \* the key a response chain is tied to, or None
  sticky,     \* the key of the sticky binding or the soft affinity, or None
  excluded    \* the key that has just failed, or None

vars == <<state, pinned, sticky, excluded>>

TypeOK ==
  /\ state \in [Keys -> KeyStates]
  /\ {pinned, sticky, excluded} \subseteq Keys \cup {None}

Init ==
  /\ state \in [Keys -> {"free", "disabled"}]
  /\ pinned = None /\ sticky = None /\ excluded = None

-----------------------------------------------------------------------------
(* select_key.                                                              *)

Enabled == {k \in Keys : state[k] # "disabled"}

\* Mutant: the key that has just failed takes part again.
AllWithState(s) == {k \in Enabled : state[k] = s}

WithState(s) == {k \in Enabled \ {excluded} : state[k] = s}

\* Mutant: a bound key counts only while it is free.
BoundIfFree == IF pinned \in WithState("free") THEN pinned
               ELSE IF sticky \in WithState("free") THEN sticky ELSE None

\* The bound key that is free or busy, the response chain's before the other.
Preferred ==
  LET usable == WithState("free") \cup WithState("busy")
  IN  IF pinned \in usable THEN pinned ELSE IF sticky \in usable THEN sticky ELSE None

AllBusy == WithState("busy") # {} /\ WithState("busy") = Enabled

\* What select_key may answer; the draw among free keys is random.
Ready(k)     == <<"ready", k>>
BoundBusy(k) == <<"bound_busy", k>>
Busy         == <<"busy">>
NoKey        == <<"ready", None>>

Answers ==
  IF Preferred \in WithState("free") THEN {Ready(Preferred)}
  ELSE IF Preferred # None THEN {BoundBusy(Preferred)}
  ELSE IF WithState("free") # {} THEN {Ready(k) : k \in WithState("free")}
  ELSE IF AllBusy THEN {Busy}
  ELSE {NoKey}

-----------------------------------------------------------------------------
(* resolve_key: the best any enabled key, or the bound one, can offer.      *)

Resolved ==
  LET offers == {state[k] : k \in IF pinned = None THEN Enabled ELSE Enabled \cap {pinned}}
  IN  IF "free" \in offers THEN "free" ELSE IF "busy" \in offers THEN "busy" ELSE "bad"

-----------------------------------------------------------------------------
(* The pool and the call change.                                            *)

KeyChanges(k, s) ==
  /\ state[k] # s
  /\ state' = [state EXCEPT ![k] = s]
  /\ UNCHANGED <<pinned, sticky, excluded>>

\* Another call asks; a switch of keys excludes one and pins none.
Asks(p, b, x) ==
  /\ x # None => p = None
  /\ <<p, b, x>> # <<pinned, sticky, excluded>>
  /\ pinned' = p /\ sticky' = b /\ excluded' = x
  /\ UNCHANGED state

Next ==
  \/ \E k \in Keys, s \in KeyStates : KeyChanges(k, s)
  \/ \E p, b, x \in Keys \cup {None} : Asks(p, b, x)

Spec == Init /\ [][Next]_vars

-----------------------------------------------------------------------------
(* Properties.                                                              *)

\* The key of a binding is left only when it cannot be used: while it is free
\* or busy, no other key is drawn and the account is not given up, whatever the
\* other keys are.  (Invariant B of select_key; a chain comes before a binding.)
BindingKept ==
  LET first == IF pinned # None THEN pinned ELSE sticky
  IN  first \in Enabled \ {excluded} /\ state[first] \in {"free", "busy"}
      => Answers \subseteq {Ready(first), BoundBusy(first)}

\* A key is used only if it is free and has not just failed, and every such key
\* can be drawn when nothing is bound: no key starves.  (select_key.)
DrawsFromTheFree ==
  LET drawn == {a[2] : a \in Answers \cap {Ready(k) : k \in Keys}}
      free  == {k \in Keys : state[k] = "free" /\ k # excluded}
  IN  /\ drawn \subseteq free
      /\ pinned = None /\ sticky = None => drawn = free

\* The comment on KeyChoice::Busy says that a call waits when all keys that can
\* be used are busy; resolve_key reports such an account as busy.  Then the
\* account is waited for, not given up.
BusyIsNotBad ==
  pinned = None /\ excluded = None /\ Resolved = "busy" => Answers # {NoKey}
=============================================================================
