----------------------------- MODULE Background -----------------------------
(***************************************************************************)
(* Background tasks that the gateway runs itself: gateway/background.rs,   *)
(* with their table in SQLite (src/src/storage/store.rs).                  *)
(*                                                                         *)
(* A request inserts a row, spawns an executor and registers its handle;   *)
(* the executor marks the row running, makes the upstream call, commits    *)
(* the outcome and takes itself off the table.  Meanwhile the client that  *)
(* was given the id cancels or deletes the task, its connections may drop, *)
(* rows expire, statements fail and the process dies.                      *)
(*                                                                         *)
(* Every read and every write of a row is a step: a writer overwrites what *)
(* it read before.  A handle is aborted by dropping the executor at an     *)
(* await; a write it had handed to SQLite is carried out or not.           *)
(***************************************************************************)
EXTENDS Naturals

CONSTANTS
  Tasks,
  Handlers,    \* bound: requests to cancel or delete a task
  MaxFaults,   \* bound: statements that fail
  MaxCrashes,  \* bound: deaths of the process
  None

ASSUME BackgroundAssumption == MaxFaults \in Nat /\ MaxCrashes \in Nat /\ None \notin Tasks

VARIABLES
  up,        \* is the process running
  row,       \* background_tasks
  starter,   \* the request that starts a task, in maybe_start_managed
  executor,  \* [pc, copy: the row it read, outcome]
  aborted,   \* the tasks whose handle was aborted
  handles,   \* RunningTasks.handles
  finished,  \* RunningTasks.finished
  handler,   \* [pc, task, copy, answer] of a cancel or delete
  faults, crashes

vars == <<up, row, starter, executor, aborted, handles, finished, handler, faults, crashes>>

-----------------------------------------------------------------------------
(* Rows *)

Live    == {"queued", "running"}
Settled == {"completed", "failed", "cancelled", "interrupted"}

NoRow  == [status |-> "none", finished |-> FALSE, output |-> FALSE]
Queued == [NoRow EXCEPT !.status = "queued"]

Rows == [status : Live \cup Settled \cup {"none"}, finished : BOOLEAN, output : BOOLEAN]

Exists(t) == row[t] # NoRow

(* Forms of the definitions below with a bug in them *)

\* The upsert takes the new row as it is.
Overwrites(old, new) == new

\* destroy and cancel look for the handle and leave it.
Looks(t) ==
  /\ handles' = handles \ {t}
  /\ aborted' = aborted

\* A restart marks every row.
RecoversAll(old) ==
  IF old.status # "none" THEN [old EXCEPT !.status = "interrupted", !.finished = TRUE] ELSE old

\* A restart forgets the tasks that had not begun to run.
RecoversRunning(old) ==
  IF old.status = "running" THEN [old EXCEPT !.status = "interrupted", !.finished = TRUE] ELSE old

\* The status is misspelt.
CancelsMisspelt(copy) == [copy EXCEPT !.status = "canceled", !.finished = TRUE]

(* The writes *)

\* The row after a write of new over old: a missing row is inserted again, an output is kept.
Upsert(old, new) == [new EXCEPT !.output = new.output \/ old.output]

Beating(copy)            == [copy EXCEPT !.status = "running"]
Committed(copy, outcome) == [status   |-> outcome,
                             finished |-> TRUE,
                             output   |-> copy.output \/ outcome = "completed"]
Cancelled(copy)          == [copy EXCEPT !.status = "cancelled", !.finished = TRUE]
Recovered(old)           == IF old.status \in Live
                              THEN [old EXCEPT !.status = "interrupted", !.finished = TRUE]
                              ELSE old

-----------------------------------------------------------------------------
Idle == [pc |-> "none", copy |-> NoRow, outcome |-> "failed"]
Over == {"ended", "dropped"}

Free == [pc |-> "idle", task |-> None, copy |-> NoRow, answer |-> FALSE]

TypeOK ==
  /\ up \in BOOLEAN
  /\ row \in [Tasks -> Rows]
  /\ starter \in [Tasks -> {"idle", "spawn", "check", "insert", "answered", "gone"}]
  /\ executor \in [Tasks -> [pc      : {"none", "beat", "beats", "forward", "commit", "commits",
                                        "finish", "mark", "end"} \cup Over,
                             copy    : Rows,
                             outcome : {"completed", "failed"}]]
  /\ aborted \subseteq Tasks
  /\ handles \subseteq Tasks
  /\ finished \subseteq Tasks
  /\ handler \in [Handlers -> [pc : {"idle", "abort", "write", "destroy", "delete", "done", "left"},
                               task : Tasks \cup {None}, copy : Rows, answer : BOOLEAN]]
  /\ faults \in 0..MaxFaults
  /\ crashes \in 0..MaxCrashes

Init ==
  /\ up = TRUE
  /\ row = [t \in Tasks |-> NoRow]
  /\ starter = [t \in Tasks |-> "idle"]
  /\ executor = [t \in Tasks |-> Idle]
  /\ aborted = {}
  /\ handles = {}
  /\ finished = {}
  /\ handler = [h \in Handlers |-> Free]
  /\ faults = 0
  /\ crashes = 0

Fails == faults < MaxFaults /\ faults' = faults + 1

table   == <<handles, finished>>
process == <<up, crashes>>

-----------------------------------------------------------------------------
(* maybe_start_managed *)

StarterAt(t, from, to) == up /\ starter[t] = from /\ starter' = [starter EXCEPT ![t] = to]

\* The row is inserted; a request whose row cannot be written is forwarded like any other.
Submit(t) ==
  /\ StarterAt(t, "idle", "spawn")
  /\ row' = [row EXCEPT ![t] = Upsert(row[t], Queued)]
  /\ UNCHANGED <<process, executor, aborted, table, handler, faults>>

SubmitFails(t) ==
  /\ StarterAt(t, "idle", "gone")
  /\ Fails
  /\ UNCHANGED <<process, row, executor, aborted, table, handler>>

Spawn(t) ==
  /\ StarterAt(t, "spawn", "check")
  /\ executor' = [executor EXCEPT ![t].pc = "beat"]
  /\ UNCHANGED <<process, row, aborted, table, handler, faults>>

\* register, under the lock of finished: has the task been through finish already?
FoundFinished(t) ==
  /\ t \in finished
  /\ StarterAt(t, "check", "answered")
  /\ finished' = finished \ {t}
  /\ UNCHANGED <<process, row, executor, aborted, handles, handler, faults>>

NotFinishedYet(t) ==
  /\ t \notin finished
  /\ StarterAt(t, "check", "insert")
  /\ UNCHANGED <<process, row, executor, aborted, table, handler, faults>>

\* register, under the lock of handles.  The response gives the client the id.
Register(t) ==
  /\ StarterAt(t, "insert", "answered")
  /\ handles' = IF executor[t].pc \in Over THEN handles ELSE handles \cup {t}
  /\ UNCHANGED <<process, row, executor, aborted, finished, handler, faults>>

\* The client disconnects: the request is dropped where it waits.
StarterLeaves(t) ==
  /\ \E from \in {"spawn", "check", "insert"} : StarterAt(t, from, "gone")
  /\ UNCHANGED <<process, row, executor, aborted, table, handler, faults>>

-----------------------------------------------------------------------------
(* TaskRunner::execute and RunningTasks::finish *)

\* An aborted executor is not polled any more once it has come to an await; what follows
\* the last statement may still run within the same poll.
RunsAt(t, pc) ==
  /\ up
  /\ executor[t].pc = pc
  /\ t \in aborted => pc \in {"finish", "mark", "end"}

Goes(t, pc) == executor' = [executor EXCEPT ![t].pc = pc]

\* heartbeat
BeatReads(t) ==
  /\ RunsAt(t, "beat")
  /\ executor' = [executor EXCEPT ![t].pc = IF Exists(t) THEN "beats" ELSE "forward",
                                  ![t].copy = row[t]]
  /\ UNCHANGED <<process, row, starter, aborted, table, handler, faults>>

BeatWrites(t) ==
  /\ RunsAt(t, "beats")
  /\ row' = [row EXCEPT ![t] = Upsert(row[t], Beating(executor[t].copy))]
  /\ Goes(t, "forward")
  /\ UNCHANGED <<process, starter, aborted, table, handler, faults>>

\* A heartbeat that fails is logged and the task goes on.
BeatFails(t) ==
  /\ RunsAt(t, "beat") \/ RunsAt(t, "beats")
  /\ Fails
  /\ Goes(t, "forward")
  /\ UNCHANGED <<process, row, starter, aborted, table, handler>>

\* The upstream call ends, with a response, an error or request_timeout.
Returns(t, outcome) ==
  /\ RunsAt(t, "forward")
  /\ executor' = [executor EXCEPT ![t].pc = "commit", ![t].outcome = outcome]
  /\ UNCHANGED <<process, row, starter, aborted, table, handler, faults>>

\* commit
CommitReads(t) ==
  /\ RunsAt(t, "commit")
  /\ executor' = [executor EXCEPT ![t].pc = IF Exists(t) THEN "commits" ELSE "finish",
                                  ![t].copy = row[t]]
  /\ UNCHANGED <<process, row, starter, aborted, table, handler, faults>>

CommitWrites(t) ==
  /\ RunsAt(t, "commits")
  /\ row' = [row EXCEPT ![t] = Upsert(row[t], Committed(executor[t].copy, executor[t].outcome))]
  /\ Goes(t, "finish")
  /\ UNCHANGED <<process, starter, aborted, table, handler, faults>>

\* execute ignores the error.
CommitFails(t) ==
  /\ RunsAt(t, "commit") \/ RunsAt(t, "commits")
  /\ Fails
  /\ Goes(t, "finish")
  /\ UNCHANGED <<process, row, starter, aborted, table, handler>>

Finish(t) ==
  /\ RunsAt(t, "finish")
  /\ handles' = handles \ {t}
  /\ Goes(t, IF t \in handles THEN "end" ELSE "mark")
  /\ UNCHANGED <<process, row, starter, aborted, finished, handler, faults>>

Mark(t) ==
  /\ RunsAt(t, "mark")
  /\ finished' = finished \cup {t}
  /\ Goes(t, "end")
  /\ UNCHANGED <<process, row, starter, aborted, handles, handler, faults>>

\* The future is done: JoinHandle::is_finished from here on.
End(t) ==
  /\ RunsAt(t, "end")
  /\ Goes(t, "ended")
  /\ UNCHANGED <<process, row, starter, aborted, table, handler, faults>>

\* An aborted executor is dropped ...
Dropped(t) ==
  /\ up /\ t \in aborted /\ executor[t].pc \notin Over
  /\ Goes(t, "dropped")
  /\ UNCHANGED <<process, row, starter, aborted, table, handler, faults>>

\* ... though the write it waits for may have been on its way.
LateWrite(t) ==
  /\ up /\ t \in aborted /\ executor[t].pc \in {"beats", "commits"}
  /\ row' = [row EXCEPT ![t] =
       Upsert(row[t], IF executor[t].pc = "beats"
                        THEN Beating(executor[t].copy)
                        ELSE Committed(executor[t].copy, executor[t].outcome))]
  /\ Goes(t, "dropped")
  /\ UNCHANGED <<process, starter, aborted, table, handler, faults>>

-----------------------------------------------------------------------------
(* cancel and destroy *)

HandlerAt(h, from, to) == up /\ handler[h].pc = from /\ handler' = [handler EXCEPT ![h].pc = to]

\* RunningTasks::cancel
Abort(t) ==
  /\ handles' = handles \ {t}
  /\ aborted' = IF t \in handles THEN aborted \cup {t} ELSE aborted

Known(t) == starter[t] = "answered"

CancelReads(h, t) ==
  /\ up /\ handler[h].pc = "idle" /\ Known(t) /\ Exists(t)
  /\ handler' = [handler EXCEPT ![h] =
       [pc |-> IF row[t].finished THEN "done" ELSE "abort", task |-> t, copy |-> row[t],
        answer |-> FALSE]]
  /\ UNCHANGED <<process, row, starter, executor, aborted, table, faults>>

CancelAborts(h) ==
  LET t == handler[h].task IN
  /\ up /\ handler[h].pc = "abort"
  /\ Abort(t)
  /\ handler' = [handler EXCEPT ![h].pc = "write", ![h].answer = t \in handles]
  /\ UNCHANGED <<process, row, starter, executor, finished, faults>>

CancelWrites(h) ==
  LET t == handler[h].task IN
  /\ HandlerAt(h, "write", "done")
  /\ row' = [row EXCEPT ![t] = Upsert(row[t], Cancelled(handler[h].copy))]
  /\ UNCHANGED <<process, starter, executor, aborted, table, faults>>

\* The answer says cancelled whether or not the write succeeds.
CancelWriteFails(h) ==
  /\ HandlerAt(h, "write", "done")
  /\ Fails
  /\ UNCHANGED <<process, row, starter, executor, aborted, table>>

DestroyAborts(h, t) ==
  /\ up /\ handler[h].pc = "idle" /\ Known(t)
  /\ Abort(t)
  /\ handler' = [handler EXCEPT ![h].pc = "delete", ![h].task = t]
  /\ UNCHANGED <<process, row, starter, executor, finished, faults>>

DestroyDeletes(h) ==
  LET t == handler[h].task IN
  /\ up /\ handler[h].pc = "delete"
  /\ row' = [row EXCEPT ![t] = NoRow]
  /\ handler' = [handler EXCEPT ![h].pc = "done", ![h].answer = Exists(t)]
  /\ UNCHANGED <<process, starter, executor, aborted, table, faults>>

DestroyFails(h) ==
  /\ HandlerAt(h, "delete", "done")
  /\ Fails
  /\ UNCHANGED <<process, row, starter, executor, aborted, table>>

\* The id is of a task of another group: the delete matches no row, after the abort.
DestroyMisses(h) ==
  /\ HandlerAt(h, "delete", "done")
  /\ UNCHANGED <<process, row, starter, executor, aborted, table, faults>>

HandlerLeaves(h) ==
  /\ \E from \in {"abort", "write", "delete"} : HandlerAt(h, from, "left")
  /\ UNCHANGED <<process, row, starter, executor, aborted, table, faults>>

-----------------------------------------------------------------------------
(* Expiry, crash and restart *)

\* A retention of 0 days is allowed: a row may expire while its task runs.
Prune(t) ==
  /\ up /\ Exists(t)
  /\ row' = [row EXCEPT ![t] = NoRow]
  /\ UNCHANGED <<process, starter, executor, aborted, table, handler, faults>>

Crash ==
  /\ up /\ crashes < MaxCrashes
  /\ up' = FALSE
  /\ crashes' = crashes + 1
  /\ starter' = [t \in Tasks |->
       IF starter[t] \in {"spawn", "check", "insert"} THEN "gone" ELSE starter[t]]
  /\ executor' = [t \in Tasks |->
       IF executor[t].pc = "none" THEN executor[t] ELSE [executor[t] EXCEPT !.pc = "dropped"]]
  /\ handles' = {}
  /\ finished' = {}
  /\ handler' = [h \in Handlers |->
       IF handler[h].pc \in {"abort", "write", "delete"} THEN [handler[h] EXCEPT !.pc = "left"]
                                                         ELSE handler[h]]
  /\ UNCHANGED <<row, aborted, faults>>

\* recover_all_at_startup: nobody is left to execute a task of the last process.
Restart ==
  /\ ~up /\ up' = TRUE
  /\ row' = [t \in Tasks |-> Recovered(row[t])]
  /\ UNCHANGED <<crashes, starter, executor, aborted, table, handler, faults>>

RestartUnrecovered ==
  /\ ~up /\ up' = TRUE
  /\ Fails
  /\ UNCHANGED <<crashes, row, starter, executor, aborted, table, handler>>

-----------------------------------------------------------------------------
Start(t) == Submit(t) \/ SubmitFails(t) \/ Spawn(t) \/ FoundFinished(t) \/ NotFinishedYet(t)
              \/ Register(t) \/ StarterLeaves(t)

Execute(t) ==
  \/ BeatReads(t) \/ BeatWrites(t) \/ BeatFails(t)
  \/ \E outcome \in {"completed", "failed"} : Returns(t, outcome)
  \/ CommitReads(t) \/ CommitWrites(t) \/ CommitFails(t)
  \/ Finish(t) \/ Mark(t) \/ End(t)
  \/ Dropped(t) \/ LateWrite(t)

Handle(h) ==
  \/ \E t \in Tasks : CancelReads(h, t) \/ DestroyAborts(h, t)
  \/ CancelAborts(h) \/ CancelWrites(h) \/ CancelWriteFails(h)
  \/ DestroyDeletes(h) \/ DestroyMisses(h) \/ DestroyFails(h) \/ HandlerLeaves(h)

Next ==
  \/ \E t \in Tasks : Start(t) \/ Execute(t) \/ Prune(t)
  \/ \E h \in Handlers : Handle(h)
  \/ Crash \/ Restart \/ RestartUnrecovered

\* The runtime polls an executor that is ready, request_timeout ends the upstream call, and
\* whoever runs the process restarts it.
Fairness ==
  /\ \A t \in Tasks : WF_vars(Execute(t))
  /\ WF_vars(Restart \/ RestartUnrecovered)

Spec == Init /\ [][Next]_vars /\ Fairness

-----------------------------------------------------------------------------
(* Properties *)

\* Somebody has begun to cancel or to delete t.
Touched(t) == \E h \in Handlers : handler[h].pc # "idle" /\ handler[h].task = t

\* An output that was stored is never lost by a later write, though cancel and heartbeat write
\* back a row they read before it was there: it goes only with its row.
OutputSurvives ==
  [][\A t \in Tasks : row[t].output => row'[t].output \/ row'[t] = NoRow]_vars

\* When a client has been answered about a cancel or a delete of a task, the upstream call of
\* the task is over or its executor has been aborted: the id is not known before the handle is
\* registered.
AnsweredIsStopped ==
  \A h \in Handlers, t \in Tasks :
    /\ handler[h].task = t /\ handler[h].pc = "done"
    /\ executor[t].pc \in {"beat", "beats", "forward"}
    => t \in aborted

\* The verdict on a task that nobody cancels or deletes is final, through crashes and
\* restarts: the row only expires.
VerdictStands ==
  [][\A t \in Tasks : row[t].status \in Settled /\ ~Touched(t) =>
       row'[t] = row[t] \/ row'[t] = NoRow]_vars

\* Both: what became of a task is kept.
ResultsKept == OutputSurvives /\ VerdictStands

\* A client that polls a task and leaves it alone sees it end: the executor brings it to a
\* verdict, or the next start of the process says that it was interrupted.  (A statement that
\* fails may leave the task as it is.)
PolledTasksEnd ==
  \A t \in Tasks :
    Known(t) /\ row[t].status \in Live
      ~> row[t].status \notin Live \/ Touched(t) \/ faults > 0

\* cancel reads finished_at in order not to rewrite a completed task as cancelled.
CompletedStays ==
  [][\A t \in Tasks : row[t].status = "completed" => row'[t].status \in {"completed", "none"}]_vars

\* A task that a client sees as queued or in progress has somebody who will bring it to an end:
\* an executor, or a cancel or delete on its way.
NobodyPollsForever ==
  \A t \in Tasks : up /\ Known(t) /\ row[t].status \in Live =>
    \/ executor[t].pc \notin Over
    \/ \E h \in Handlers : handler[h].task = t /\ handler[h].pc \in {"abort", "write", "delete"}

\* The table of running tasks holds no handle of a task that has ended on its own.
NoFinishedHandle == \A t \in handles : executor[t].pc # "ended"

\* A task whose delete was answered with success is not there any more.
DeletedIsGone ==
  [][\A h \in Handlers, t \in Tasks :
       /\ handler[h].task = t /\ handler[h].copy = NoRow
       /\ handler[h].pc = "done" /\ handler[h].answer
       => row'[t] = NoRow]_vars
=============================================================================
