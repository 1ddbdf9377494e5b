------------------------------ MODULE Catalog ------------------------------
(***************************************************************************)
(* The configuration: groups, accounts, their model catalogues, logical    *)
(* models and dispatch targets in the database, and the snapshot the       *)
(* gateway serves from.  discovery/mod.rs derives targets from catalogue   *)
(* rows, admin/resources.rs holds the administrator's handlers, and        *)
(* config/mod.rs builds and publishes the snapshot.                        *)
(*                                                                         *)
(* A handler awaits between any two calls of the store, so every call is a *)
(* step of its own, and what a handler read stays what it was.  A process  *)
(* keeps the calls it still has to make in todo; a call may put further    *)
(* calls in front of the rest.                                             *)
(***************************************************************************)
EXTENDS Integers, Sequences, FiniteSets

LOCAL INSTANCE SequencesExt
LOCAL INSTANCE TLC       \* for :> only

CONSTANTS Accounts, Groups, Names, Procs,
          None,
          Scenes      \* what a behaviour starts from and may do, by name

VARIABLES groups,     \* the key of each group, None for a group that is deleted
          accounts,   \* the row of each account, or None
          rows,       \* the catalogue of each account: a row for each upstream name, or None
          models,     \* the logical models in the order of their creation
          targets,    \* the dispatch targets in the order of their creation
          config,     \* the snapshot: ConfigService::current
          procs,      \* the handlers and background jobs under way
          scene,      \* the scene's name, and how many operations and crashes are left
          trust       \* what ran undisturbed: the accounts whose rows have their targets, those
                      \* that have no other targets, and the snapshot

stored == <<groups, accounts, rows, models, targets>>
vars == <<groups, accounts, rows, models, targets, config, procs, scene, trust>>

Empty == [n \in Names |-> None]
Least(used) == CHOOSE i \in 1..(Cardinality(used) + 1) : i \notin used /\ \A j \in 1..(i - 1) : j \in used

-----------------------------------------------------------------------------
(***************************************************************************)
(* build: the snapshot of four lists that were read one after another.     *)
(***************************************************************************)
\* A mutant: the hard boundary between groups is left to the handlers.
ServedAnywhere(as, ts, m) == {t \in ToSet(ts) : /\ t.model = m.id
                                                /\ as[t.account] # None
                                                /\ as[t.account].group # None}

Served(as, ts, m) == {t \in ToSet(ts) : /\ t.model = m.id
                                        /\ as[t.account] # None
                                        /\ as[t.account].group = m.group}

Renamed(m, t) == t.upstream # m.name
UpstreamNames(as, ts, m) ==
    {t.upstream : t \in {x \in Served(as, ts, m) : /\ Renamed(m, x)
                                                   /\ x.on
                                                   /\ as[x.account].on
                                                   /\ ~as[x.account].hide}}

\* The further names of each model: a name is claimed once, by a model's own name or the first alias.
FurtherNames(as, ms, ts) ==
    LET claimed[i \in 0..Len(ms)] ==
            IF i = 0 THEN {m.name : m \in ToSet(ms)}
            ELSE claimed[i - 1] \cup UpstreamNames(as, ts, ms[i])
    IN [i \in 1..Len(ms) |-> UpstreamNames(as, ts, ms[i]) \ claimed[i - 1]]

View(as, ts, m, aliases) ==
    [model   |-> m,
     targets |-> {[target |-> t, account |-> as[t.account]] : t \in Served(as, ts, m)},
     exposed |-> \E t \in Served(as, ts, m) : ~as[t.account].hide \/ Renamed(m, t),
     aliases |-> aliases]

Build(gs, as, ms, ts) ==
    LET further == FurtherNames(as, ms, ts)
    IN [g \in Groups |->
           IF gs[g] = None THEN None
           ELSE [key    |-> gs[g],
                 models |-> {View(as, ts, ms[i], further[i]) :
                                i \in {j \in 1..Len(ms) : ms[j].group = g}}]]

Stored == Build(groups, accounts, models, targets)

\* The names a key of group g reaches: find_model.
Reachable(view) ==
    UNION {(IF v.exposed THEN {v.model.name} ELSE {}) \cup v.aliases : v \in {x \in view.models : x.model.on}}

-----------------------------------------------------------------------------
(***************************************************************************)
(* apply_config_delta: one transaction that rolls back as a whole.         *)
(***************************************************************************)
NoDelta == [models |-> <<>>, targets |-> {}, drops |-> {}, clears |-> {}]

Sound(gs, as, ms, ts) ==
    /\ \A i, j \in DOMAIN ms : ms[i].group = ms[j].group /\ ms[i].name = ms[j].name => i = j
    /\ \A i \in DOMAIN ms : gs[ms[i].group] # None
    /\ \A i, j \in DOMAIN ts : /\ ts[i].model = ts[j].model
                               /\ ts[i].account = ts[j].account
                               /\ ts[i].upstream = ts[j].upstream
                               => i = j
    /\ \A i \in DOMAIN ts : /\ as[ts[i].account] # None
                            /\ \E m \in ToSet(ms) : m.id = ts[i].model

Upserted(ts, new) ==
    LET Same(t) == {x \in new : x.id = t.id}
        known   == {t.id : t \in ToSet(ts)}
    IN [i \in DOMAIN ts |-> IF Same(ts[i]) = {} THEN ts[i] ELSE CHOOSE x \in Same(ts[i]) : TRUE]
       \o SetToSeq({x \in new : x.id \notin known})

WithoutModels(ms, ids) == SelectSeq(ms, LAMBDA m : m.id \notin ids)
\* ON DELETE CASCADE: the targets of a model go with it.
WithoutTargets(ts, ids, gone) == SelectSeq(ts, LAMBDA t : t.id \notin ids /\ t.model \notin gone)

Fits(d, ms, ts) == Sound(groups, accounts, ms \o d.models, Upserted(ts, d.targets))
After(d, ms, ts) == [models  |-> WithoutModels(ms \o d.models, d.clears),
                     targets |-> WithoutTargets(Upserted(ts, d.targets), d.drops, d.clears)]
Apply(d) == /\ models' = After(d, models, targets).models
            /\ targets' = After(d, models, targets).targets

-----------------------------------------------------------------------------
(***************************************************************************)
(* reconcile_account: what the catalogue asks of the targets.              *)
(***************************************************************************)
UsedModels == {m.id : m \in ToSet(models)} \cup {t.model : t \in ToSet(targets)}
              \cup UNION {{m.id : m \in ToSet(procs[p].models)} \cup {t.model : t \in ToSet(procs[p].targets)}
                           \cup {procs[p].spare} : p \in Procs}
              \cup UNION {{v.model.id : v \in config[g].models} : g \in {h \in Groups : config[h] # None}}
UsedTargets == {t.id : t \in ToSet(targets)}
               \cup UNION {{t.id : t \in ToSet(procs[p].targets)} \cup procs[p].drops : p \in Procs}
               \cup UNION {UNION {{x.target.id : x \in v.targets} : v \in config[g].models}
                           : g \in {h \in Groups : config[h] # None}}

FreshIds(used, n) ==
    LET ids[i \in 0..n] == IF i = 0 THEN <<>> ELSE Append(ids[i - 1], Least(used \cup ToSet(ids[i - 1])))
    IN ids[n]

\* ensure_logical_model for a set of wanted [name, auto] in a group.
NewModels(ms, group, wanted, used) ==
    LET lacking == SetToSeq({w \in wanted : ~\E m \in ToSet(ms) : m.group = group /\ m.name = w.name})
        ids     == FreshIds(used, Len(lacking))
    IN [i \in DOMAIN lacking |-> [id |-> ids[i], group |-> group, name |-> lacking[i].name,
                                  auto |-> lacking[i].auto, on |-> TRUE]]
ModelIn(ms, group, name) == CHOOSE m \in ToSet(ms) : m.group = group /\ m.name = name

Own(ts, a) == {t \in ToSet(ts) : t.account = a}

\* The later targets of one account for one upstream model: the first one stays.
Duplicates(ts, a) == {ts[j] : j \in {k \in DOMAIN ts : /\ ts[k].account = a
                                                       /\ \E i \in 1..(k - 1) : /\ ts[i].account = a
                                                                                /\ ts[i].upstream = ts[k].upstream}}
First(ts, dups) == ts[CHOOSE i \in DOMAIN ts : ts[i] \in dups /\ \A j \in 1..(i - 1) : ts[j] \notin dups]

\* A mutant: a row whose model has gone upstream keeps its target as it is.
HaltedNever(all, cat) == {}

Ensured(all, cat) == {n \in Names : cat[n] # None /\ (all \/ cat[n].selected) /\ ~cat[n].missing}
Halted(all, cat) == {n \in Names : cat[n] # None /\ (all \/ cat[n].selected) /\ cat[n].missing}
Dropped(all, cat) == {n \in Names : cat[n] # None /\ ~(all \/ cat[n].selected)}

Delta(a, acct, all, cat, ms, ts, usedM, usedT) ==
    LET ensure  == Ensured(all, cat)
        fresh   == NewModels(ms, acct.group, {[name |-> cat[n].public, auto |-> TRUE] : n \in ensure}, usedM)
        every   == ms \o fresh
        Home(n) == ModelIn(every, acct.group, cat[n].public).id
        Has(n)  == \E t \in Own(ts, a) : t.upstream = n
        create  == SetToSeq({n \in ensure : ~Has(n)})
        ids     == FreshIds(usedT, Len(create))
        moved   == {t \in Own(ts, a) : t.upstream \in ensure /\ (t.model # Home(t.upstream) \/ ~t.on)}
        halt    == {t \in Own(ts, a) : t.upstream \in Halted(all, cat) /\ t.on}
        drop    == {t \in Own(ts, a) : t.upstream \in Dropped(all, cat)}
        live    == {t.model : t \in ToSet(ts) \ drop} \cup {Home(n) : n \in ensure}
    IN [models  |-> fresh,
        targets |-> {[t EXCEPT !.model = Home(t.upstream), !.on = TRUE] : t \in moved}
                    \cup {[t EXCEPT !.on = FALSE] : t \in halt}
                    \cup {[id |-> ids[i], model |-> Home(create[i]), account |-> a,
                           upstream |-> create[i], on |-> TRUE] : i \in DOMAIN create},
        drops   |-> {t.id : t \in drop},
        clears  |-> {m.id : m \in {x \in ToSet(ms) : x.auto /\ x.id \notin live}}]

\* move_account_targets: the targets of the old group, by public name, into the new one.
MoveDelta(a, acct, from, ms, ts) ==
    LET Model(t) == CHOOSE m \in ToSet(ms) : m.id = t.model
        mine     == {t \in Own(ts, a) : \E m \in ToSet(ms) : m.id = t.model /\ m.group = from}
        fresh    == NewModels(ms, acct.group,
                              {[name |-> Model(t).name, auto |-> Model(t).auto] : t \in mine}, UsedModels)
        Home(t)  == ModelIn(ms \o fresh, acct.group, Model(t).name).id
        live     == {t.model : t \in ToSet(ts) \ mine} \cup {Home(t) : t \in mine}
    IN [models  |-> fresh,
        targets |-> {[t EXCEPT !.model = Home(t)] : t \in mine},
        drops   |-> {},
        clears  |-> {m.id : m \in {x \in ToSet(ms) : x.group = from /\ x.auto /\ x.id \notin live}}]

\* detach_account_targets, second half: the automatic models nothing is left of.
Spent(ms, ts) == {m.id : m \in {x \in ToSet(ms) : x.auto /\ \A t \in ToSet(ts) : t.model # x.id}}

\* AppState::bootstrap: every account of the list is reconciled, and nothing else runs.
Booted(as, rs, ms, ts) ==
    LET order == SetToSeq({a \in Accounts : as[a] # None})
        Detached(a, st) ==
            IF Own(st.targets, a) = {} THEN st
            ELSE LET rest == WithoutTargets(st.targets, {t.id : t \in Own(st.targets, a)}, {})
                 IN [models |-> WithoutModels(st.models, Spent(st.models, rest)), targets |-> rest]
        Reconciled(a, st) ==
            LET kept == WithoutTargets(st.targets, {t.id : t \in Duplicates(st.targets, a)}, {})
                d    == Delta(a, as[a], as[a].auto, rs[a], st.models, kept,
                              {m.id : m \in ToSet(st.models)}, {t.id : t \in ToSet(kept)})
            IN IF Sound(groups, as, st.models \o d.models, Upserted(kept, d.targets))
               THEN After(d, st.models, kept) ELSE [st EXCEPT !.targets = kept]
        result[i \in 0..Len(order)] ==
            IF i = 0 THEN [models |-> ms, targets |-> ts]
            ELSE IF as[order[i]].group = None THEN Detached(order[i], result[i - 1])
            ELSE Reconciled(order[i], result[i - 1])
    IN result[Len(order)]

-----------------------------------------------------------------------------
(***************************************************************************)
(* The calls an operation is made of.                                      *)
(***************************************************************************)
Blank == [op |-> None, todo |-> <<>>, solo |-> TRUE, acct |-> None, found |-> {}, rows |-> None,
          models |-> <<>>, targets |-> <<>>, accounts |-> None, groups |-> None,
          names |-> {}, drops |-> {}, from |-> None, spare |-> None, changed |-> FALSE]

Reload == <<"groups", "accounts", "models", "targets", "publish">>
Detach == <<"targets", "detach">>
Reconcile(acct, all) == IF acct.group = None THEN Detach
                        ELSE <<"rows", "targets", "models", IF all THEN "reconcile all" ELSE "reconcile">>

Edited(acct, change) == [f \in DOMAIN acct |-> IF f \in DOMAIN change THEN change[f] ELSE acct[f]]

\* A mutant: leaving managed mode does not take the targets back to the selection.
EditCallsOnly(acct, new) == <<"save">> \o Reload

EditCalls(acct, new) ==
    <<"save">>
    \o (IF acct.group # None /\ new.group = None THEN Detach ELSE <<>>)
    \o (IF new.group \notin {None, acct.group}
        THEN (IF acct.group # None THEN <<"models", "targets", "move">> ELSE <<>>) \o Reconcile(new, new.auto)
        ELSE <<>>)
    \o Reload
    \o (IF acct.auto /\ ~new.auto THEN Reconcile(new, FALSE) ELSE <<>>)

Touches(op) == \E n \in DOMAIN op.changes : op.changes[n].delete \/ op.changes[n].selected # None

\* What a handler refuses of an account whose models the gateway manages itself.
Refuses(op, acct) ==
    \/ op.kind \in {"select", "delete model"} /\ acct.auto
    \/ op.kind = "apply" /\ acct.auto /\ Touches(op)
    \/ op.kind = "sync" /\ ~acct.auto
    \/ op.kind = "new target" /\ acct.group # op.group

Opening(op) ==
    CASE op.kind = "create account" -> <<"insert account">> \o Reload
      [] op.kind = "delete account" -> <<"delete account">> \o Reload
      [] op.kind = "regenerate key" -> <<"groups", "save group">> \o Reload
      [] op.kind = "delete group"   -> <<"delete group">> \o Reload
      [] op.kind = "create model"   -> <<"insert model">> \o Reload
      [] op.kind = "edit model"     -> <<"models", "save model">> \o Reload
      [] op.kind = "delete logical" -> <<"delete logical">> \o Reload
      [] op.kind = "new target"     -> <<"models", "find">>
      [] op.kind = "edit target"    -> <<"targets", "save target">> \o Reload
      [] op.kind = "delete target"  -> <<"delete target">> \o Reload
      [] OTHER                      -> <<"find">>

Calls(op, acct) ==
    CASE op.kind = "refresh"        -> <<"fetch", "rows", "models", "merge">>
      [] op.kind = "sync"           -> <<"fetch", "rows", "models", "merge">> \o Reconcile(acct, TRUE)
                                       \o <<"rows", "targets", "orphans">> \o Reload
      [] op.kind = "apply"          -> <<"rows", "targets", "apply">> \o Reconcile(acct, acct.auto)
                                       \o <<"reload?">>
      [] op.kind = "select"         -> <<"rows", "targets", "select">> \o Reconcile(acct, FALSE)
      [] op.kind = "merge models"   -> <<"rows", "rename each">> \o Reconcile(acct, acct.auto)
      [] op.kind = "manual model"   -> <<"rows", "manual">> \o Reconcile(acct, acct.auto)
      [] op.kind = "delete model"   -> <<"delete row", "targets", "delete own">> \o Reload
      [] op.kind = "remove missing" -> <<"rows", "missing", "targets", "unlist">> \o Reconcile(acct, acct.auto)
                                       \o <<"reload?">>
      [] op.kind = "alias"          -> <<"rows", "alias", "rows", "other aliases">>
      [] op.kind = "edit account"   -> EditCalls(acct, Edited(acct, op.change))
      [] op.kind = "copy account"   -> <<"copy account", "rows", "copy rows", "targets", "copy targets">> \o Reload
      [] op.kind = "new target"     -> <<"insert target">> \o Reload

-----------------------------------------------------------------------------
(***************************************************************************)
(* A handler begins.  One that meets another disturbs it.                  *)
(***************************************************************************)
Resting(p) == procs[p].todo = <<>>
Quiet == \A p \in Procs : Resting(p)

\* What the administrator writes past the catalogue: no account is in line after it.
ByHand == {"edit model", "delete logical", "new target", "edit target", "delete target"}

Begin(p, op) ==
    /\ Resting(p)
    /\ scene.left > 0
    /\ \A q \in Procs : ~Resting(q) => Scenes[scene.of].crowded
    /\ scene' = [scene EXCEPT !.left = @ - 1]
    /\ procs' = [q \in Procs |->
                    IF q = p THEN [Blank EXCEPT !.op = op, !.todo = Opening(op), !.solo = Quiet]
                    ELSE IF Resting(q) THEN procs[q] ELSE [procs[q] EXCEPT !.solo = FALSE]]
    /\ trust' = IF ~Quiet THEN [lines |-> {}, whole |-> {}, view |-> FALSE]
                ELSE LET Kept(as) == IF op.kind \in ByHand THEN {}
                                     ELSE IF op.kind = "copy account" /\ op.account \notin as
                                          THEN as \ {op.copy} ELSE as
                     IN [trust EXCEPT !.lines = Kept(@), !.whole = Kept(@)]
    /\ UNCHANGED <<stored, config>>

At(p, call) == ~Resting(p) /\ Head(procs[p].todo) = call

\* The call is over: more calls come before the rest of them.
Goes(p, more, pr) ==
    procs' = [procs EXCEPT ![p] = LET rest == more \o Tail(procs[p].todo)
                                  IN IF rest = <<>> THEN Blank ELSE [pr EXCEPT !.todo = rest]]
Stays(p, pr) == procs' = [procs EXCEPT ![p] = pr]
Stops(p) == procs' = [procs EXCEPT ![p] = Blank]
Passes(p) == Goes(p, <<>>, procs[p])
Cleared(pr) == [pr EXCEPT !.rows = None, !.models = <<>>, !.targets = <<>>, !.accounts = None, !.groups = None]

\* The account joins the trusted ones if nothing met the handler, or leaves them.
With(as, p) == IF procs[p].solo THEN as \cup {procs[p].op.account} ELSE as
Without(as, p) == as \ {procs[p].op.account}

-----------------------------------------------------------------------------
(***************************************************************************)
(* Reads, and the call to the upstream.                                    *)
(***************************************************************************)
Find(p) ==
    /\ At(p, "find")
    /\ LET op   == procs[p].op
           acct == accounts[op.account]
       IN IF acct = None THEN Stops(p)
          ELSE IF Refuses(op, acct) THEN Stops(p)
          ELSE Goes(p, Calls(op, acct), [procs[p] EXCEPT !.acct = acct])
    /\ UNCHANGED <<stored, config, scene, trust>>

Read(p) ==
    /\ \/ At(p, "rows") /\ Goes(p, <<>>, [procs[p] EXCEPT !.rows = rows[procs[p].op.account]])
       \/ At(p, "targets") /\ Goes(p, <<>>, [procs[p] EXCEPT !.targets = targets])
       \/ At(p, "models") /\ Goes(p, <<>>, [procs[p] EXCEPT !.models = models])
       \/ At(p, "accounts") /\ Goes(p, <<>>, [procs[p] EXCEPT !.accounts = accounts])
       \/ At(p, "groups") /\ Goes(p, <<>>, [procs[p] EXCEPT !.groups = groups])
    /\ UNCHANGED <<stored, config, scene, trust>>

\* The upstream answers with what it offers; an error and an empty list end the round.
Fetch(p) ==
    /\ At(p, "fetch")
    /\ \/ \E found \in Scenes[scene.of].offers \ {{}} : Goes(p, <<>>, [procs[p] EXCEPT !.found = found])
       \/ Stops(p)
    /\ UNCHANGED <<stored, config, scene, trust>>

\* ConfigService::reload, last part.
Publish(p) ==
    /\ At(p, "publish")
    /\ LET pr == procs[p] IN config' = Build(pr.groups, pr.accounts, pr.models, pr.targets)
    /\ trust' = [trust EXCEPT !.view = @ \/ procs[p].solo]
    /\ Goes(p, <<>>, Cleared(procs[p]))
    /\ UNCHANGED <<stored, scene>>

-----------------------------------------------------------------------------
(***************************************************************************)
(* Writes of the catalogue.                                                *)
(***************************************************************************)
Put(a, new) ==     \* upserts of rows; the account must exist
    rows' = [rows EXCEPT ![a] = [n \in Names |-> IF n \in DOMAIN new THEN new[n] ELSE rows[a][n]]]

Listed(cat) == {n \in Names : cat[n] # None}
NewRow(public, selected) == [public |-> public, selected |-> selected, missing |-> FALSE]

\* A mutant: a managed account's rows are marked as selected.
MergedMarks(acct, cat, found, ms) ==
    [n \in Names |-> IF n \in found
                     THEN NewRow(IF cat[n] # None THEN cat[n].public ELSE n,
                                 acct.auto \/ (cat[n] # None /\ cat[n].selected))
                     ELSE cat[n]]

\* refresh_catalog: known rows keep their name and mark, a first catalogue takes up what the group has.
Merged(acct, cat, found, ms) ==
    [n \in Names |->
        IF n \in found
        THEN IF cat[n] # None THEN [cat[n] EXCEPT !.missing = FALSE]
             ELSE NewRow(n, Listed(cat) = {} /\ \E m \in ToSet(ms) : m.group = acct.group /\ m.name = n)
        ELSE IF cat[n] # None /\ cat[n].selected THEN [cat[n] EXCEPT !.missing = TRUE]
        ELSE None]

Merge(p) ==
    /\ At(p, "merge")
    /\ LET pr == procs[p]
           a  == pr.op.account
       IN IF accounts[a] = None THEN Stops(p) /\ UNCHANGED rows
          ELSE /\ rows' = [rows EXCEPT ![a] = Merged(pr.acct, pr.rows, pr.found, pr.models)]
               /\ Goes(p, Reconcile(pr.acct, pr.acct.auto), [Cleared(pr) EXCEPT !.found = {}])
    \* In managed mode rows that nobody chose have targets too; they are left for the sync.
    /\ trust' = [trust EXCEPT !.whole = IF procs[p].acct.auto THEN Without(@, p) ELSE @]
    /\ UNCHANGED <<groups, accounts, models, targets, config, scene>>

\* apply_changes, up to the rows that are written.
Changed(row, change) ==
    [row EXCEPT !.public = IF change.public # None THEN change.public ELSE @,
                !.selected = IF change.selected # None THEN change.selected ELSE @]

ApplyChanges(p) ==
    /\ At(p, "apply")
    /\ LET pr      == procs[p]
           a       == pr.op.account
           changes == pr.op.changes
           deletes == {n \in DOMAIN changes : changes[n].delete}
           traffic == \E n \in DOMAIN changes : /\ pr.rows[n] # None
                                                /\ pr.rows[n].selected
                                                /\ n \in deletes \/ changes[n].selected = FALSE
                                                /\ \E t \in Own(pr.targets, a) : t.upstream = n /\ t.on
           written == {n \in (DOMAIN changes \cap Listed(pr.rows)) \ deletes :
                          Changed(pr.rows[n], changes[n]) # pr.rows[n]}
       IN \/ /\ DOMAIN changes \subseteq Listed(pr.rows)
             /\ written = {} \/ accounts[a] # None
             /\ Put(a, [n \in written |-> Changed(pr.rows[n], changes[n])])
             /\ Goes(p, IF deletes = {} THEN <<>> ELSE <<"unlist">>, [pr EXCEPT !.names = deletes])
          \/ /\ \/ traffic
                \/ ~(DOMAIN changes \subseteq Listed(pr.rows))
                \/ accounts[a] = None /\ written # {}
             /\ Stops(p)
             /\ UNCHANGED rows
    /\ UNCHANGED <<groups, accounts, models, targets, config, scene, trust>>

\* Rows are deleted one after another, then their targets together.
Unlist(p) ==
    /\ At(p, "unlist")
    /\ LET pr == procs[p]
           a  == pr.op.account
       IN IF pr.names # {}
          THEN LET n     == CHOOSE x \in pr.names : TRUE
                   mine  == {t \in Own(pr.targets, a) : t.upstream = n}
                   drops == pr.drops \cup (IF mine = {} THEN {} ELSE {First(pr.targets, mine).id})
                   next  == [pr EXCEPT !.names = @ \ {n}, !.drops = drops]
               IN /\ rows' = [rows EXCEPT ![a][n] = None]
                  /\ IF next.names = {} /\ drops = {} THEN Goes(p, <<>>, next) ELSE Stays(p, next)
                  /\ UNCHANGED targets
          ELSE /\ targets' = WithoutTargets(targets, pr.drops, {})
               /\ Passes(p)
               /\ UNCHANGED rows
    /\ UNCHANGED <<groups, accounts, models, config, scene, trust>>

ReloadIf(p) ==
    /\ At(p, "reload?")
    /\ Goes(p, IF ~procs[p].changed /\ procs[p].drops # {} THEN Reload ELSE <<>>, procs[p])
    /\ UNCHANGED <<stored, config, scene, trust>>

\* One upsert of rows as they were read, with what the operation changes in them.
Upsert(p, new, more, pr) ==
    /\ IF DOMAIN new # {} /\ accounts[pr.op.account] = None THEN Stops(p) /\ UNCHANGED rows
       ELSE Put(pr.op.account, new) /\ Goes(p, more, pr)
    /\ UNCHANGED <<groups, accounts, models, targets, config, scene>>

Select(p) ==
    /\ At(p, "select")
    /\ LET pr   == procs[p]
           Wanted(n) == n \in pr.op.names \/ pr.rows[n].public \in pr.op.names
       IN Upsert(p, [n \in {m \in Listed(pr.rows) : pr.rows[m].selected # Wanted(m)} |->
                        [pr.rows[n] EXCEPT !.selected = Wanted(n)]], <<>>, pr)
    /\ UNCHANGED trust

\* merge_models writes the rows one by one.
RenameEach(p) ==
    /\ At(p, "rename each")
    /\ LET pr   == procs[p]
           left == (pr.op.names \cap Listed(pr.rows)) \ pr.names
           n    == CHOOSE x \in left : TRUE
       IN IF left = {} THEN Stops(p) /\ UNCHANGED <<stored, config, scene>>
          ELSE Upsert(p, n :> [pr.rows[n] EXCEPT !.public = pr.op.public, !.selected = TRUE],
                      IF left = {n} THEN <<>> ELSE <<"rename each">>, [pr EXCEPT !.names = @ \cup {n}])
    /\ UNCHANGED trust

Manual(p) ==
    /\ At(p, "manual")
    /\ LET pr == procs[p]
       IN Upsert(p, pr.op.name :> NewRow(pr.op.public, TRUE), <<>>, pr)
    /\ UNCHANGED trust

\* update_aliases for one alias: set_alias, then the aliases that were not sent are cleared.
Alias(p) ==
    /\ At(p, "alias")
    /\ LET pr == procs[p]
           n  == pr.op.name
       IN IF n \in Listed(pr.rows)
          THEN /\ Goes(p, <<"rows", "rename">> \o Reconcile(pr.acct, pr.acct.auto), [pr EXCEPT !.names = {n}])
               /\ UNCHANGED <<stored, config, scene, trust>>
          ELSE /\ Upsert(p, n :> NewRow(pr.op.public, FALSE),
                         IF pr.acct.auto THEN Reconcile(pr.acct, TRUE) ELSE <<>>, pr)
               \* It does not look whether the new row meets a stray target.
               /\ trust' = [trust EXCEPT !.lines = IF pr.op.account \in trust.whole THEN @ ELSE Without(@, p)]

Rename(p) ==
    /\ At(p, "rename")
    /\ LET pr == procs[p]
           n  == CHOOSE x \in pr.names : TRUE
       IN IF pr.rows[n] = None THEN Stops(p) /\ UNCHANGED <<stored, config, scene>>
          ELSE Upsert(p, n :> [pr.rows[n] EXCEPT !.public = IF n = pr.op.name THEN pr.op.public ELSE n],
                      <<>>, [pr EXCEPT !.names = @ \ {n}])
    /\ UNCHANGED trust

OtherAliases(p) ==
    /\ At(p, "other aliases")
    /\ LET pr   == procs[p]
           left == IF pr.rows = None THEN pr.names
                   ELSE {n \in Listed(pr.rows) \ {pr.op.name} : pr.rows[n].public # n}
       IN Goes(p, IF left = {} THEN <<>>
                  ELSE <<"rows", "rename">> \o Reconcile(pr.acct, pr.acct.auto) \o <<"other aliases">>,
               [pr EXCEPT !.names = left, !.rows = None])
    /\ UNCHANGED <<stored, config, scene, trust>>

Missing(p) ==
    /\ At(p, "missing")
    /\ LET pr   == procs[p]
           gone == {n \in Listed(pr.rows) : pr.rows[n].missing}
       IN IF gone = {} THEN Stops(p) ELSE Goes(p, <<>>, [pr EXCEPT !.names = gone])
    /\ UNCHANGED <<stored, config, scene, trust>>

DeleteRow(p) ==
    /\ At(p, "delete row")
    /\ LET op == procs[p].op
       IN IF rows[op.account][op.name] = None THEN Stops(p) /\ UNCHANGED rows
          ELSE rows' = [rows EXCEPT ![op.account][op.name] = None] /\ Passes(p)
    /\ UNCHANGED <<groups, accounts, models, targets, config, scene, trust>>

-----------------------------------------------------------------------------
(***************************************************************************)
(* Writes of the targets and models.                                       *)
(***************************************************************************)
DeleteTarget(p, t, more, pr) ==
    /\ targets' = WithoutTargets(targets, {t.id}, {})
    /\ Goes(p, more, [pr EXCEPT !.spare = t.model])

\* delete_model and sync_managed: the target of a row that is gone, and its model if nothing is left of it.
DeleteOwn(p) ==
    /\ At(p, "delete own")
    /\ LET pr   == procs[p]
           mine == {t \in Own(pr.targets, pr.op.account) : t.upstream = pr.op.name}
       IN IF mine = {} THEN Passes(p) /\ UNCHANGED targets
          ELSE DeleteTarget(p, First(pr.targets, mine), <<"look">>, pr)
    /\ UNCHANGED <<groups, accounts, rows, models, config, scene, trust>>

Orphans(p) ==
    /\ At(p, "orphans")
    /\ LET pr   == procs[p]
           lost == {t \in Own(pr.targets, pr.op.account) : pr.rows[t.upstream] = None}
           t    == First(pr.targets, lost)
       IN IF lost = {}
          THEN Passes(p) /\ trust' = [trust EXCEPT !.whole = With(@, p)] /\ UNCHANGED targets
          ELSE /\ DeleteTarget(p, t, <<"look", "orphans">>, [pr EXCEPT !.targets = WithoutTargets(@, {t.id}, {})])
               /\ UNCHANGED trust
    /\ UNCHANGED <<groups, accounts, rows, models, config, scene>>

\* cleanup_model_if_empty: it looks, and then deletes.
Look(p) ==
    /\ At(p, "look")
    /\ Goes(p, IF procs[p].spare \in Spent(models, targets) THEN <<"clear">> ELSE <<>>, procs[p])
    /\ UNCHANGED <<stored, config, scene, trust>>

DropModels(ids) == /\ models' = WithoutModels(models, ids)
                   /\ targets' = WithoutTargets(targets, {}, ids)

Clear(p) ==
    /\ At(p, "clear")
    /\ DropModels({procs[p].spare})
    /\ Goes(p, <<>>, [procs[p] EXCEPT !.spare = None])
    /\ UNCHANGED <<groups, accounts, rows, config, scene, trust>>

\* reconcile_account deletes duplicates first, one by one.
Deduplicate(p, call) ==
    /\ At(p, call)
    /\ LET pr   == procs[p]
           dups == Duplicates(pr.targets, pr.op.account)
       IN /\ dups # {}
          /\ LET t == First(pr.targets, dups)
             IN /\ targets' = WithoutTargets(targets, {t.id}, {})
                /\ Stays(p, [pr EXCEPT !.targets = WithoutTargets(@, {t.id}, {}), !.changed = TRUE])
    /\ UNCHANGED <<groups, accounts, rows, models, config, scene, trust>>

Commit(p, call, all) ==
    /\ At(p, call)
    /\ LET pr == procs[p]
           a  == pr.op.account
           d  == Delta(a, pr.acct, all, pr.rows, pr.models, pr.targets, UsedModels, UsedTargets)
       IN /\ Duplicates(pr.targets, a) = {}
          /\ IF Fits(d, models, targets)
             THEN /\ Apply(d)
                  /\ Goes(p, IF d # NoDelta \/ pr.changed THEN Reload ELSE <<>>,
                          [Cleared(pr) EXCEPT !.changed = d # NoDelta \/ @])
                  /\ trust' = [trust EXCEPT !.lines = With(@, p)]
             ELSE /\ Stops(p)
                  /\ trust' = [trust EXCEPT !.lines = Without(@, p)]
                  /\ UNCHANGED <<models, targets>>
    /\ UNCHANGED <<groups, accounts, rows, config, scene>>

Move(p) ==
    /\ At(p, "move")
    /\ LET pr == procs[p]
           d  == MoveDelta(pr.op.account, pr.acct, pr.from, pr.models, pr.targets)
       IN IF Fits(d, models, targets)
          THEN /\ Apply(d)
               /\ Goes(p, IF d.targets # {} \/ d.clears # {} THEN Reload ELSE <<>>, Cleared(pr))
               /\ UNCHANGED trust
          ELSE /\ Stops(p)
               /\ trust' = [trust EXCEPT !.lines = Without(@, p)]
               /\ UNCHANGED <<models, targets>>
    /\ UNCHANGED <<groups, accounts, rows, config, scene>>

\* detach_account_targets: the targets first, then the models that are left without any.
DetachTargets(p) ==
    /\ At(p, "detach")
    /\ LET pr  == procs[p]
           own == {t.id : t \in Own(pr.targets, pr.op.account)}
       IN /\ targets' = WithoutTargets(targets, own, {})
          /\ Goes(p, IF own = {} THEN <<>> ELSE <<"targets", "models", "sweep">> \o Reload,
                  [Cleared(pr) EXCEPT !.changed = own # {}])
          /\ trust' = [trust EXCEPT !.lines = With(@, p), !.whole = With(@, p)]
    /\ UNCHANGED <<groups, accounts, rows, models, config, scene>>

Sweep(p) ==
    /\ At(p, "sweep")
    /\ DropModels(Spent(procs[p].models, procs[p].targets))
    /\ Goes(p, <<>>, Cleared(procs[p]))
    /\ UNCHANGED <<groups, accounts, rows, config, scene, trust>>

-----------------------------------------------------------------------------
(***************************************************************************)
(* The administrator's other writes.                                       *)
(***************************************************************************)
Has(g) == g = None \/ groups[g] # None      \* the foreign key of a group

SaveAccount(p) ==
    /\ At(p, "save")
    /\ LET pr  == procs[p]
           new == Edited(pr.acct, pr.op.change)
       IN IF ~Has(new.group) THEN Stops(p) /\ UNCHANGED <<accounts, trust>>
          ELSE /\ accounts' = [accounts EXCEPT ![pr.op.account] = IF @ = None THEN None ELSE new]
               /\ Goes(p, <<>>, [pr EXCEPT !.acct = new, !.from = pr.acct.group])
               \* Managed mode takes the models over at the next sync.
               /\ trust' = [trust EXCEPT !.lines = IF new.auto /\ ~pr.acct.auto THEN Without(@, p) ELSE @]
    /\ UNCHANGED <<groups, rows, models, targets, config, scene>>

InsertAccount(p, call, a, new) ==
    /\ At(p, call)
    /\ IF accounts[a] = None /\ Has(new.group)
       THEN accounts' = [accounts EXCEPT ![a] = new] /\ Passes(p)
       ELSE Stops(p) /\ UNCHANGED accounts
    /\ UNCHANGED <<groups, rows, models, targets, config, scene, trust>>

Cascade(gone) ==
    /\ accounts' = [a \in Accounts |-> IF a \in gone THEN None ELSE accounts[a]]
    /\ rows' = [a \in Accounts |-> IF a \in gone THEN Empty ELSE rows[a]]

DeleteAccount(p) ==
    /\ At(p, "delete account")
    /\ LET a == procs[p].op.account
       IN /\ Cascade({a})
          /\ targets' = SelectSeq(targets, LAMBDA t : t.account # a)
          /\ IF accounts[a] = None THEN Stops(p) ELSE Passes(p)
    /\ UNCHANGED <<groups, models, config, scene, trust>>

DeleteGroup(p) ==
    /\ At(p, "delete group")
    /\ LET g    == procs[p].op.group
           gone == {a \in Accounts : accounts[a] # None /\ accounts[a].group = g}
           lost == {m.id : m \in {x \in ToSet(models) : x.group = g}}
       IN /\ Cascade(gone)
          /\ models' = WithoutModels(models, lost)
          /\ targets' = SelectSeq(targets, LAMBDA t : t.account \notin gone /\ t.model \notin lost)
          /\ groups' = [groups EXCEPT ![g] = None]
          /\ IF groups[g] = None THEN Stops(p) ELSE Passes(p)
    /\ UNCHANGED <<config, scene, trust>>

\* regenerate_key writes the whole row it read, with a key that is new.
SaveGroup(p) ==
    /\ At(p, "save group")
    /\ LET g == procs[p].op.group
       IN IF procs[p].groups[g] = None THEN Stops(p) /\ UNCHANGED groups
          ELSE /\ groups' = [groups EXCEPT ![g] = IF @ = None THEN None ELSE @ + 1]
               /\ Goes(p, <<>>, Cleared(procs[p]))
    /\ UNCHANGED <<accounts, rows, models, targets, config, scene, trust>>

CopyRows(p) ==
    /\ At(p, "copy rows")
    /\ LET pr == procs[p]
           b  == pr.op.copy
       IN IF Listed(pr.rows) # {} /\ accounts[b] = None THEN Stops(p) /\ UNCHANGED rows
          ELSE rows' = [rows EXCEPT ![b] = IF Listed(pr.rows) = {} THEN @ ELSE pr.rows] /\ Passes(p)
    /\ UNCHANGED <<groups, accounts, models, targets, config, scene, trust>>

\* Any write that adds to or changes the models and targets as a whole: a constraint may refuse it.
Writes(p, call, ms, ts, more, pr) ==
    /\ At(p, call)
    /\ IF Sound(groups, accounts, ms, ts)
       THEN models' = ms /\ targets' = ts /\ Goes(p, more, pr)
       ELSE Stops(p) /\ UNCHANGED <<models, targets>>
    /\ UNCHANGED <<groups, accounts, rows, config, scene, trust>>

CopyTargets(p) ==
    /\ At(p, "copy targets")
    /\ LET pr   == procs[p]
           left == Own(pr.targets, pr.op.account)
           t    == First(pr.targets, left)
           id   == Least(UsedTargets)
       IN IF left = {} THEN Passes(p) /\ UNCHANGED <<stored, config, scene, trust>>
          ELSE Writes(p, "copy targets", models,
                      Append(targets, [t EXCEPT !.id = id, !.account = pr.op.copy]), <<"copy targets">>,
                      [pr EXCEPT !.targets = WithoutTargets(@, {t.id}, {})])

InsertModel(p) ==
    /\ At(p, "insert model")
    /\ Writes(p, "insert model",
              Append(models, [id |-> Least(UsedModels), group |-> procs[p].op.group, name |-> procs[p].op.name,
                              auto |-> FALSE, on |-> TRUE]), targets, <<>>, procs[p])

Named(ms, op) == {m \in ToSet(ms) : m.group = op.group /\ m.name = op.name}

SaveModel(p) ==
    /\ At(p, "save model")
    /\ LET pr    == procs[p]
           found == Named(pr.models, pr.op)
           m     == CHOOSE x \in found : TRUE
       IN IF found = {} THEN Stops(p) /\ UNCHANGED <<stored, config, scene, trust>>
          ELSE Writes(p, "save model",
                      [i \in DOMAIN models |-> IF models[i].id # m.id THEN models[i]
                                               ELSE [models[i] EXCEPT !.name = pr.op.public, !.on = pr.op.on]],
                      targets, <<>>, Cleared(pr))

DeleteLogical(p) ==
    /\ At(p, "delete logical")
    /\ LET found == Named(models, procs[p].op)
       IN /\ DropModels({m.id : m \in found})
          /\ IF found = {} THEN Stops(p) ELSE Passes(p)
    /\ UNCHANGED <<groups, accounts, rows, config, scene, trust>>

InsertTarget(p) ==
    /\ At(p, "insert target")
    /\ LET pr    == procs[p]
           found == Named(pr.models, pr.op)
       IN IF found = {} THEN Stops(p) /\ UNCHANGED <<stored, config, scene, trust>>
          ELSE Writes(p, "insert target", models,
                      Append(targets, [id |-> Least(UsedTargets), model |-> (CHOOSE m \in found : TRUE).id,
                                       account |-> pr.op.account, upstream |-> pr.op.upstream, on |-> TRUE]),
                      <<>>, Cleared(pr))

SaveTarget(p) ==
    /\ At(p, "save target")
    /\ LET pr    == procs[p]
           found == {t \in Own(pr.targets, pr.op.account) : t.upstream = pr.op.name}
           t     == [First(pr.targets, found) EXCEPT !.upstream = pr.op.upstream, !.on = pr.op.on]
       IN IF found = {} THEN Stops(p) /\ UNCHANGED <<stored, config, scene, trust>>
          ELSE Writes(p, "save target", models,
                      [i \in DOMAIN targets |-> IF targets[i].id = t.id THEN t ELSE targets[i]], <<>>, Cleared(pr))

DeleteOneTarget(p) ==
    /\ At(p, "delete target")
    /\ LET found == {t \in Own(targets, procs[p].op.account) : t.upstream = procs[p].op.name}
       IN IF found = {} THEN Stops(p) /\ UNCHANGED targets
          ELSE targets' = WithoutTargets(targets, {First(targets, found).id}, {}) /\ Passes(p)
    /\ UNCHANGED <<groups, accounts, rows, models, config, scene, trust>>

-----------------------------------------------------------------------------
(***************************************************************************)
(* The process dies and starts again: what was committed stays.            *)
(***************************************************************************)
\* Handlers that delete a row and, in a later statement, its target: a start does not
\* look for the targets that are left when one is cut short.
Unlisting == {"apply", "delete model", "remove missing"}
CutShort == {procs[p].op.account : p \in {q \in Procs : ~Resting(q) /\ procs[q].op.kind \in Unlisting}}

Restart ==
    /\ scene.crashes > 0
    /\ scene' = [scene EXCEPT !.crashes = @ - 1]
    /\ procs' = [p \in Procs |-> Blank]
    /\ LET booted == Booted(accounts, rows, models, targets)
       IN /\ models' = booted.models
          /\ targets' = booted.targets
          /\ config' = Build(groups, accounts, booted.models, booted.targets)
    /\ trust' = [lines |-> Accounts, whole |-> trust.whole \ CutShort, view |-> TRUE]
    /\ UNCHANGED <<groups, accounts, rows>>

Starts(s) ==
    /\ scene = [of |-> s, left |-> Scenes[s].left, crashes |-> Scenes[s].crashes]
    /\ groups = [g \in Groups |-> 0]
    /\ accounts = Scenes[s].accounts
    /\ rows = Scenes[s].rows
    /\ procs = [p \in Procs |-> Blank]
    /\ LET booted == Booted(accounts, rows, <<>>, <<>>)
       IN models = booted.models /\ targets = booted.targets
    /\ config = Stored
    /\ trust = [lines |-> Accounts, whole |-> Accounts, view |-> TRUE]

Init == \E s \in DOMAIN Scenes : Starts(s)

Step(p) ==
    \/ \E op \in Scenes[scene.of].ops : Begin(p, op)
    \/ Find(p) \/ Read(p) \/ Fetch(p) \/ Publish(p)
    \/ Merge(p) \/ ApplyChanges(p) \/ Unlist(p) \/ ReloadIf(p) \/ Select(p)
    \/ RenameEach(p) \/ Manual(p) \/ Alias(p) \/ Rename(p) \/ OtherAliases(p) \/ Missing(p)
    \/ DeleteRow(p) \/ DeleteOwn(p) \/ Orphans(p) \/ Look(p) \/ Clear(p)
    \/ Deduplicate(p, "reconcile") \/ Commit(p, "reconcile", FALSE)
    \/ Deduplicate(p, "reconcile all") \/ Commit(p, "reconcile all", TRUE)
    \/ Move(p) \/ DetachTargets(p) \/ Sweep(p)
    \/ SaveAccount(p)
    \/ InsertAccount(p, "insert account", procs[p].op.account, procs[p].op.row)
    \/ InsertAccount(p, "copy account", procs[p].op.copy, [procs[p].acct EXCEPT !.on = FALSE])
    \/ DeleteAccount(p) \/ DeleteGroup(p) \/ SaveGroup(p) \/ CopyRows(p) \/ CopyTargets(p)
    \/ InsertModel(p) \/ SaveModel(p) \/ DeleteLogical(p)
    \/ InsertTarget(p) \/ SaveTarget(p) \/ DeleteOneTarget(p)

Next == Restart \/ \E p \in Procs : Step(p)

Spec == Init /\ [][Next]_vars

-----------------------------------------------------------------------------
(***************************************************************************)
(* Properties.                                                             *)
(***************************************************************************)
TypeOK ==
    /\ groups \in [Groups -> Nat \cup {None}]
    /\ \A a \in Accounts : accounts[a] # None => accounts[a].group \in Groups \cup {None}
    /\ \A a \in Accounts, n \in Names : rows[a][n] # None => rows[a][n].public \in Names
    /\ Sound(groups, accounts, models, targets)
    /\ trust.lines \subseteq Accounts
    /\ trust.whole \subseteq Accounts

(* A key never reaches an account outside its group: whatever the handlers *)
(* have left in the database half way, the snapshot a request is served    *)
(* from joins an account only to models of the group it is assigned to.    *)
Isolated ==
    \A g \in Groups : config[g] # None =>
        \A v \in config[g].models : \A x \in v.targets : v.model.group = g /\ x.account.group = g

\* What a row of the catalogue asks for: one live target under the row's public name, in
\* the group, if the administrator chose it or the account is managed; none while the
\* upstream does not offer it, only one that is switched off; and no target for a row that
\* nobody wants.
InLineRow(a, n) ==
    LET row    == rows[a][n]
        wanted == accounts[a].auto \/ row.selected
        ts     == {t \in Own(targets, a) : t.upstream = n}
        Home(t) == \E m \in ToSet(models) : /\ m.id = t.model
                                             /\ m.group = accounts[a].group
                                             /\ m.name = row.public
    IN row # None =>
        /\ Cardinality(ts) <= (IF wanted THEN 1 ELSE 0)
        /\ wanted /\ ~row.missing => \E t \in ts : t.on /\ Home(t)
        /\ row.missing => \A t \in ts : ~t.on

\* A target of an account that answers to no row of its catalogue.
Stray(a) == \E t \in Own(targets, a) : rows[a][t.upstream] = None

(* The catalogue is the only truth: when nothing runs, each row of an      *)
(* account that was reconciled undisturbed has just the target it asks     *)
(* for, and what is done to other accounts, one thing at a time, leaves it *)
(* so; after a crash in the middle of any handler the next start brings    *)
(* this back.  An account has no target beyond those either, unless a      *)
(* handler that takes rows out of it was cut short, until the next sync.   *)
AccountsInLine ==
    Quiet => \A a \in Accounts : accounts[a] # None =>
                 IF accounts[a].group = None THEN a \in trust.lines => Own(targets, a) = {}
                 ELSE /\ a \in trust.lines => \A n \in Names : InLineRow(a, n)
                      /\ a \in trust.whole => ~Stray(a)

(* When nothing runs and the last publication was undisturbed, the         *)
(* snapshot is what the database says.                                     *)
Current == Quiet /\ trust.view => config = Stored

InLine == AccountsInLine /\ Current

(* Managed mode does not touch the selection: one at a time, only what the *)
(* administrator does to the rows changes the mark of a row that stays.    *)
Choosing == {"apply", "select", "merge models", "manual model"}
ChoicesKept ==
    [][\A a \in Accounts, n \in Names :
          /\ rows[a][n] # None /\ rows'[a][n] # None
          /\ rows[a][n].selected # rows'[a][n].selected
          => \E p \in Procs : /\ procs[p] # procs'[p]
                               /\ procs[p].op.account = a
                               /\ (procs[p].op.kind \in Choosing \/ ~procs[p].solo)]_vars

(***************************************************************************)
(* Statements that do not hold of the code; the README shows each.         *)
(***************************************************************************)
(* A group is a boundary for names too: what a key reaches does not depend *)
(* on the models of another group.                                         *)
NamesApart ==
    Quiet /\ trust.view => \A g \in Groups : config[g] # None =>
        LET own == SelectSeq(models, LAMBDA m : m.group = g)
        IN Reachable(config[g]) = Reachable(Build(groups, accounts, own, targets)[g])

(* A key that was replaced stays dead.                                     *)
KeysStayDead ==
    [][\A g \in Groups : config[g] # None /\ config'[g] # None => config'[g].key >= config[g].key]_vars

(* A target answers to a row of its account's catalogue, also after a      *)
(* handler that was cut short and after a refresh of a managed account.    *)
NoStrays == Quiet => \A a \in trust.lines : ~Stray(a)
=============================================================================
