----------------------------- MODULE MCCatalog -----------------------------
(***************************************************************************)
(* Finite instances of Catalog: three scenes, of two accounts in one group *)
(* whose models are chosen or managed, with every operation of the         *)
(* administrator, a crash, and two operations at once in the crowded one.  *)
(***************************************************************************)
EXTENDS Catalog, TLC

CONSTANTS a1, a2, g1, g2, x, y, p1, p2

Same == Permutations(Procs)

Account(g, auto) == [group |-> g, auto |-> auto, hide |-> FALSE, on |-> TRUE]
Row(n, s) == [public |-> n, selected |-> s, missing |-> FALSE]
Change(n, public, selected, delete) == n :> [public |-> public, selected |-> selected, delete |-> delete]
On(kind, a) == [kind |-> kind, account |-> a]

AccountOps(a) ==
    {On("refresh", a), On("sync", a), On("remove missing", a), On("delete account", a),
     On("apply", a) @@ [changes |-> Change(x, None, FALSE, FALSE)],
     On("apply", a) @@ [changes |-> Change(x, y, None, FALSE) @@ Change(y, None, TRUE, FALSE)],
     On("apply", a) @@ [changes |-> Change(x, None, None, TRUE)],
     On("select", a) @@ [names |-> {y}],
     On("merge models", a) @@ [names |-> {x, y}, public |-> y],
     On("manual model", a) @@ [name |-> x, public |-> x],
     On("delete model", a) @@ [name |-> x],
     On("alias", a) @@ [name |-> x, public |-> y],
     On("edit account", a) @@ [change |-> [group |-> g2]],
     On("edit account", a) @@ [change |-> [group |-> None]],
     On("edit account", a) @@ [change |-> [auto |-> TRUE]],
     On("edit account", a) @@ [change |-> [auto |-> FALSE]],
     On("edit account", a) @@ [change |-> [hide |-> TRUE]]}
OtherOps ==
    {[kind |-> "create account", account |-> a2, row |-> Account(g1, TRUE)],
     [kind |-> "regenerate key", account |-> a1, group |-> g1],
     [kind |-> "delete group", account |-> a1, group |-> g1],
     [kind |-> "create model", account |-> a1, group |-> g1, name |-> x],
     [kind |-> "edit model", account |-> a1, group |-> g1, name |-> x, public |-> y, on |-> TRUE],
     [kind |-> "edit model", account |-> a1, group |-> g1, name |-> x, public |-> x, on |-> FALSE],
     [kind |-> "delete logical", account |-> a1, group |-> g1, name |-> x],
     [kind |-> "new target", account |-> a1, group |-> g1, name |-> x, upstream |-> y],
     [kind |-> "edit target", account |-> a1, name |-> x, upstream |-> y, on |-> TRUE],
     [kind |-> "delete target", account |-> a1, name |-> x],
     [kind |-> "copy account", account |-> a1, copy |-> a2]}

Start == [rows |-> (a1 :> (x :> Row(x, TRUE) @@ y :> Row(y, FALSE)) @@ a2 :> (x :> Row(x, TRUE) @@ y :> None)),
          offers |-> {{}, {x}, {y}, {x, y}}]
S(as, ops, left, crashes, crowded) ==
   Start @@ [accounts |-> as, ops |-> ops, left |-> left, crashes |-> crashes, crowded |-> crowded]
Two == a1 :> Account(g1, FALSE) @@ a2 :> Account(g1, FALSE)
Managed == a1 :> Account(g1, TRUE) @@ a2 :> Account(g1, FALSE)
MCScenes == "chosen" :> S(Two, AccountOps(a1) \cup OtherOps, 2, 1, FALSE)
         @@ "managed" :> S(Managed, AccountOps(a1) \cup OtherOps, 2, 1, FALSE)
         @@ "crowded" :> S(Two, AccountOps(a1) \cup OtherOps \cup AccountOps(a2), 2, 0, TRUE)

(* Catalog.Isolated, with the types: what a key reaches is of its group alone. *)
GroupsIsolated == TypeOK /\ Isolated
=============================================================================
