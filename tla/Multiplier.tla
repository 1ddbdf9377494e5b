----------------------------- MODULE Multiplier -----------------------------
(***************************************************************************)
(* The prices of the accounts: the table of multipliers, the grace period  *)
(* of a price that cannot be refreshed, and the refreshes of               *)
(* src/src/multiplier/mod.rs, multiplier/refresh.rs and app/tasks.rs.      *)
(*                                                                         *)
(* A refresh asks the account's upstream, writes the row of the account    *)
(* and then its entry in the table.  The scheduled round refreshes the     *)
(* accounts that are due, the administrator refreshes one by hand, and     *)
(* every change of the configuration rebuilds the table from the rows:     *)
(* all three at once.                                                      *)
(*                                                                         *)
(* Prices are in tenths of the group's limit, after the calibration.  A    *)
(* round has at most MAX_CONCURRENT_PROBES accounts here.                  *)
(***************************************************************************)
EXTENDS Naturals, FiniteSets, Sequences

CONSTANTS
  Accounts,
  Modes,         \* bound: the sources of a price
  Prices,        \* that an upstream may state
  Peaks,         \* bound: whether it states peak hours
  Initial,       \* manual_multiplier
  Peak,          \* the multiplier of the peak hours
  PeakHours,     \* the ticks PeakSchedule covers
  Interval,      \* of the scheduled refresh
  Backoff,       \* BACKOFF
  LowGrace, MediumGrace,  \* GRACE_LOW_RISK, GRACE_MEDIUM_RISK
  SystemicGrace, SystemicWindow,
  SystemicMin,   \* SYSTEMIC_MIN_ACCOUNTS
  Slow,          \* bound: what a refresh or a rebuild may take
  MaxTime,
  MaxEvents,     \* bound: edits, failed statements and restarts together
  None

\* What the gateway's own values give: GRACE_LOW_RISK, GRACE_MEDIUM_RISK and
\* SYSTEMIC_GRACE, of which the last is not the shortest; a ladder with a step.
PriceAssumption ==
  /\ "sub2api" \in Modes /\ Peaks \subseteq BOOLEAN /\ None \notin Nat
  /\ {MaxTime, Slow, Interval, SystemicWindow, SystemicGrace} \subseteq Nat
  /\ {LowGrace, MediumGrace} \subseteq 0..SystemicGrace
  /\ Backoff \in Seq(Nat) /\ Backoff # <<>>

VARIABLES
  now,
  mode,      \* the accounts' multiplier_mode
  entry,     \* Registry.current
  systemic,  \* Registry.systemic_until
  rows,      \* multiplier_snapshots
  due, failures,  \* Scheduler
  round,     \* the accounts of the running round
  work,      \* every refresh: of the round, or by hand
  editor,    \* a change of the configuration that rebuilds the table
  events,    \* how many edits, failed statements and restarts there were
  lost       \* history: the first refresh that failed since the price was confirmed

vars == <<now, mode, entry, systemic, rows, due, failures, round, work, editor, events, lost>>

Times == 0..MaxTime
Workers == {"round", "hand"} \X Accounts

\* since is stale_since; refreshed_at and last_error are for display.
Entries == [price : Prices \cup {Initial}, source : Modes, since : Times \cup {None}, peak : BOOLEAN]

Idle == [pc |-> "idle"]

TypeOK ==
  /\ now \in Times /\ systemic \in Nat
  /\ mode \in [Accounts -> Modes]
  /\ entry \in [Accounts -> Entries]
  /\ \A a \in Accounts : rows[a] # None => rows[a] \in Entries /\ ~rows[a].peak
  /\ due \in [Accounts -> Nat \cup {None}] /\ failures \in [Accounts -> Nat]
  /\ round \subseteq Accounts
  /\ \A w \in Workers : work[w].pc \in {"idle", "probe", "save", "put", "done"}
  /\ lost \in [Accounts -> Times \cup {None}]

-----------------------------------------------------------------------------
(* View::evaluate.                                                          *)

PriceAt(e, t) == IF e.peak /\ t \in PeakHours THEN Peak ELSE e.price

\* grace_for: the thinner the margin to the limit, the shorter.
GraceFor(price) ==
  IF price <= 6 THEN LowGrace ELSE IF price <= 9 THEN MediumGrace ELSE 0

Grace(e) == IF now < systemic THEN SystemicGrace ELSE GraceFor(PriceAt(e, now))

Usable(a) ==
  \/ mode[a] = "manual"
  \/ entry[a].since = None
  \/ now - entry[a].since < Grace(entry[a])

-----------------------------------------------------------------------------
(* Registry::seed.                                                          *)

Stated(a, m) == [price |-> Initial, source |-> m[a],
                 since |-> IF m[a] = "manual" THEN None ELSE now, peak |-> FALSE]

\* A row of another source is no longer believed.
Seeded(m, rs) ==
  [a \in Accounts |->
     IF m[a] # "manual" /\ rs[a] # None /\ rs[a].source = m[a] THEN rs[a] ELSE Stated(a, m)]

Older(a, table) == lost[a] # None /\ table[a].since <= lost[a]

Seed(m, rs) ==
  /\ entry' = Seeded(m, rs)
  /\ lost' = [a \in Accounts |->
                CASE Seeded(m, rs)[a].since = None -> None
                  [] Seeded(m, rs)[a].since # None /\ Older(a, Seeded(m, rs)) -> lost[a]
                  [] OTHER -> now]

Init ==
  /\ now = 0 /\ systemic = 0
  /\ mode \in [Accounts -> {"sub2api"}]
  /\ rows = [a \in Accounts |-> None]
  /\ entry = Seeded(mode, rows)
  /\ due = [a \in Accounts |-> None] /\ failures = [a \in Accounts |-> 0]
  /\ round = {} /\ work = [w \in Workers |-> Idle] /\ editor = Idle
  /\ events = [edits |-> 0, faults |-> 0, restarts |-> 0]
  /\ lost = [a \in Accounts |-> entry[a].since]

MayHappen(kind) ==
  /\ events.edits + events.faults + events.restarts < MaxEvents
  /\ events' = [events EXCEPT ![kind] = @ + 1]

-----------------------------------------------------------------------------
(* The scheduled round: tasks::multiplier_refresh, run_round, Scheduler.    *)

Automatic == {a \in Accounts : mode[a] # "manual"}

\* An account that is new to the scheduler waits for one interval.
Scheduled(a) == IF due[a] = None THEN now + Interval ELSE due[a]

Asking(a) == [pc |-> "probe", at |-> now, mode |-> mode[a], ok |-> FALSE, new |-> None]

RoundStarts ==
  LET ready == {a \in Automatic : Scheduled(a) <= now}
  IN  /\ round = {}
      /\ due' = [a \in Accounts |-> IF a \in Automatic THEN Scheduled(a) ELSE due[a]]
      /\ ready # {} \/ due' # due
      /\ round' = ready
      /\ work' = [w \in Workers |-> IF w[1] = "round" /\ w[2] \in ready THEN Asking(w[2]) ELSE work[w]]
      /\ UNCHANGED <<now, mode, entry, systemic, rows, failures, editor, events, lost>>

Failed == {a \in round : ~work[<<"round", a>>].ok}

IsSystemic == Cardinality(round) >= SystemicMin /\ 2 * Cardinality(Failed) > Cardinality(round)

\* The protection counts from the beginning of the round.
Protected == LET a == CHOOSE a \in round : TRUE IN work[<<"round", a>>].at + SystemicWindow

\* The step of the ladder, the last one again and again.
Wait(level) == Backoff[IF level < Len(Backoff) THEN level + 1 ELSE Len(Backoff)]

\* All have answered: the verdict on the probes, and when each is due again.
RoundEnds ==
  /\ round # {} /\ \A a \in round : work[<<"round", a>>].pc = "done"
  /\ systemic' = IF IsSystemic
                 THEN IF systemic > Protected THEN systemic ELSE Protected
                 ELSE IF Failed = {} THEN 0 ELSE systemic
  /\ failures' = [a \in Accounts |-> IF a \notin round THEN failures[a]
                                     ELSE IF a \in Failed THEN failures[a] + 1 ELSE 0]
  /\ due' = [a \in Accounts |-> IF a \notin round THEN due[a]
                                ELSE now + IF a \in Failed THEN Wait(failures[a]) ELSE Interval]
  /\ round' = {}
  /\ work' = [w \in Workers |-> IF w[1] = "round" THEN Idle ELSE work[w]]
  /\ UNCHANGED <<now, mode, entry, rows, editor, events, lost>>

-----------------------------------------------------------------------------
(* refresh_one, by the round or by hand.                                    *)

\* refresh_account_now; one at a time here.
ByHand(a) ==
  /\ a \in Automatic /\ \A b \in Accounts : work[<<"hand", b>>] = Idle
  /\ work' = [work EXCEPT ![<<"hand", a>>] = Asking(a)]
  /\ UNCHANGED <<now, mode, entry, systemic, rows, due, failures, round, editor, events, lost>>

Answered(w, ok, new) ==
  /\ work[w].pc = "probe"
  /\ work' = [work EXCEPT ![w].pc = "save", ![w].ok = ok, ![w].new = new]
  /\ UNCHANGED <<now, mode, entry, systemic, rows, due, failures, round, editor, events, lost>>

Succeeds(w, price, peak) ==
  Answered(w, TRUE, [price |-> price, source |-> work[w].mode, since |-> None, peak |-> peak])

\* Mutant: every failure starts the grace period again.
SinceNow(w) == work[w].at

\* A price that is stale already keeps its date.
Since(w) == LET since == entry[w[2]].since IN IF since = None THEN work[w].at ELSE since

\* The last known price stands; what is written later is what is read here.
Fails(w) ==
  /\ work[w].pc = "probe"
  /\ Answered(w, FALSE, [entry[w[2]] EXCEPT !.source = work[w].mode, !.since = Since(w)])

\* persist; a statement that fails is only logged.
Save(w) ==
  /\ work[w].pc = "save"
  /\ work' = [work EXCEPT ![w].pc = "put"]
  /\ \/ /\ rows' = [rows EXCEPT ![w[2]] = [work[w].new EXCEPT !.peak = FALSE]]
        /\ UNCHANGED events
     \/ /\ MayHappen("faults")
        /\ UNCHANGED rows
  /\ UNCHANGED <<now, mode, entry, systemic, due, failures, round, editor, lost>>

\* Registry::put: a compare-and-swap of the table with this entry.
Put(w) ==
  LET a == w[2]
  IN  /\ work[w].pc = "put"
      /\ entry' = [entry EXCEPT ![a] = work[w].new]
      /\ lost' = [lost EXCEPT ![a] = IF work[w].ok THEN None ELSE IF @ = None THEN work[w].at ELSE @]
      /\ work' = [work EXCEPT ![w] = IF w[1] = "hand" THEN Idle ELSE [pc |-> "done", ok |-> @.ok, at |-> @.at]]
      /\ UNCHANGED <<now, mode, systemic, rows, due, failures, round, editor, events>>

-----------------------------------------------------------------------------
(* The administrator and the process.                                       *)

\* A change of an account, or any other one: the configuration is published,
\* and the rebuilding of the table begins with the rows of this moment.
Edit(a, m) ==
  /\ editor = Idle /\ MayHappen("edits")
  /\ mode' = [mode EXCEPT ![a] = m]
  /\ editor' = [pc |-> "accounts", account |-> a, at |-> now]
  /\ UNCHANGED <<now, entry, systemic, rows, due, failures, round, work, lost>>

\* reseed_multipliers reads accounts and rows ...
ReadRows ==
  /\ editor.pc = "accounts"
  /\ editor' = [pc |-> "seed", account |-> editor.account, at |-> editor.at, modes |-> mode, rows |-> rows]
  /\ UNCHANGED <<now, mode, entry, systemic, rows, due, failures, round, work, events, lost>>

\* ... and replaces the table; kick_multiplier_refresh makes the account due.
Reseed ==
  /\ editor.pc = "seed"
  /\ Seed(editor.modes, editor.rows)
  /\ due' = IF mode[editor.account] = "manual" THEN due ELSE [due EXCEPT ![editor.account] = now]
  /\ editor' = Idle
  /\ UNCHANGED <<now, mode, systemic, rows, failures, round, work, events>>

\* A crash, and the table that restore builds.
Restart ==
  /\ MayHappen("restarts")
  /\ Seed(mode, rows)
  /\ systemic' = 0 /\ round' = {} /\ work' = [w \in Workers |-> Idle] /\ editor' = Idle
  /\ due' = [a \in Accounts |-> None] /\ failures' = [a \in Accounts |-> 0]
  /\ UNCHANGED <<now, mode, rows>>

\* Probes have a timeout; nothing else that is on its way takes longer.
Tick ==
  /\ now < MaxTime
  /\ \A w \in Workers : work[w].pc \notin {"idle", "done"} => now < work[w].at + Slow
  /\ editor # Idle => now < editor.at + Slow
  /\ now' = now + 1
  /\ UNCHANGED <<mode, entry, systemic, rows, due, failures, round, work, editor, events, lost>>

Next ==
  \/ RoundStarts \/ RoundEnds \/ ReadRows \/ Reseed \/ Restart \/ Tick
  \/ \E a \in Accounts : ByHand(a) \/ \E m \in Modes : Edit(a, m)
  \/ \E w \in Workers :
       \/ Fails(w) \/ Save(w) \/ Put(w)
       \/ \E price \in Prices, peak \in Peaks : Succeeds(w, price, peak)

Spec == Init /\ [][Next]_vars

-----------------------------------------------------------------------------
(* Properties.                                                              *)

\* A price that cannot be confirmed is not used beyond the longest grace period,
\* whatever refreshes fail and overtake one another and whenever the probes are
\* held for broken.  (refresh_one: the date is kept, or the grace period would be
\* prolonged again and again.)
GraceEnds ==
  \A a \in Accounts :
    /\ mode[a] # "manual" /\ entry[a].source # "manual"
    /\ lost[a] # None /\ now - lost[a] >= SystemicGrace + Slow
    => ~Usable(a)

AtRest == editor = Idle /\ \A w \in Workers : work[w].pc \in {"idle", "done"}

\* What the comment on put is about: a refresh that is over is not taken back.
\* When nothing is on its way the table says what the rows say.
TableIsRows ==
  AtRest /\ events.faults = 0
  => \A a \in Automatic :
       rows[a] # None /\ rows[a].source = mode[a]
       => entry[a].price = rows[a].price /\ entry[a].since = rows[a].since

\* A failed refresh keeps the last known price (refresh.rs:209).
FailureKeepsPrice ==
  [][\A w \in Workers :
       work[w].pc = "put" /\ ~work[w].ok /\ entry'[w[2]] # entry[w[2]] /\ work'[w].pc # "put"
       => entry'[w[2]].price = entry[w[2]].price]_vars

\* A restart counts every price as stale from then on (mod.rs:246).
RestartIsStale ==
  [][events'.restarts > events.restarts => \A a \in Automatic : entry'[a].since # None]_vars

\* The peak hours of a source outlive a change of the configuration.
PeakIsKept ==
  [][editor.pc = "seed" /\ editor' = Idle
     => \A a \in Automatic : entry[a].peak /\ entry[a].source = mode[a] => entry'[a].peak]_vars
=============================================================================
