----------------------------- MODULE JobsProofs -----------------------------
(***************************************************************************)
(* What the gateway keeps between requests, for every value of the         *)
(* constants.                                                              *)
(*                                                                         *)
(* Tasks, for every set of them, every number of requests that cancel or   *)
(* delete them, of failing statements and of crashes: their types, that an *)
(* answered cancel or delete has stopped the upstream call, and that a     *)
(* stored output or an uncontested verdict stays.                          *)
(*                                                                         *)
(* Prices, for every set of accounts and any number of edits, failing      *)
(* statements and restarts: one that cannot be confirmed goes out of use.  *)
(*                                                                         *)
(* Conversations, for every number of turns, every set of accounts and     *)
(* keys and any number of deletes and faults: a turn is sent with what     *)
(* came before it and where that is known.                                 *)
(***************************************************************************)
EXTENDS MCJobs, Sequences, TLAPS

ExecutorPcs == {"none", "beat", "beats", "forward", "commit", "commits", "finish", "mark", "end"}
                 \cup Over
HandlerPcs  == {"idle", "abort", "write", "destroy", "delete", "done", "left"}

Executors == [pc : ExecutorPcs, copy : Rows, outcome : {"completed", "failed"}]
Handling  == [pc : HandlerPcs, task : Tasks \cup {None}, copy : Rows, answer : BOOLEAN]

-----------------------------------------------------------------------------
(* Types.                                                                   *)

\* The rows that are written are rows: each form of a write keeps the fields of
\* background_tasks (upsert_background_task and its callers).
LEMMA RowsWritten ==
  /\ NoRow \in Rows /\ Queued \in Rows
  /\ \A old, new \in Rows : Upsert(old, new) \in Rows
  /\ \A copy \in Rows : Beating(copy) \in Rows /\ Cancelled(copy) \in Rows
  /\ \A copy \in Rows : \A outcome \in {"completed", "failed"} :
       Committed(copy, outcome) \in Rows
  /\ \A old \in Rows : Recovered(old) \in Rows
<1>1. NoRow \in Rows /\ Queued \in Rows
  BY DEF NoRow, Queued, Rows, Live, Settled
<1>2. ASSUME NEW old \in Rows, NEW new \in Rows PROVE Upsert(old, new) \in Rows
  <2> DEFINE b == new.output \/ old.output
  <2>1. b \in BOOLEAN
    OBVIOUS
  <2>2. Upsert(old, new) = [new EXCEPT !.output = b]
    BY DEF Upsert
  <2> HIDE DEF b
  <2> QED
    BY <2>1, <2>2 DEF Rows
<1>3. ASSUME NEW copy \in Rows PROVE Beating(copy) \in Rows /\ Cancelled(copy) \in Rows
  BY DEF Rows, Beating, Cancelled, Live, Settled
<1>4. ASSUME NEW copy \in Rows, NEW outcome \in {"completed", "failed"}
      PROVE  Committed(copy, outcome) \in Rows
  <2> DEFINE b == copy.output \/ outcome = "completed"
  <2>1. b \in BOOLEAN
    OBVIOUS
  <2>2. Committed(copy, outcome) = [status |-> outcome, finished |-> TRUE, output |-> b]
    BY DEF Committed
  <2> HIDE DEF b
  <2> QED
    BY <2>1, <2>2 DEF Rows, Settled
<1>5. ASSUME NEW old \in Rows PROVE Recovered(old) \in Rows
  BY DEF Rows, Recovered, Live, Settled
<1> QED
  BY <1>1, <1>2, <1>3, <1>4, <1>5

LEMMA InitTyped == Init => TypeOK
BY RowsWritten, BackgroundAssumption DEF Init, TypeOK, Idle, Free, Over

\* An executor that reads the row and goes on is an executor (heartbeat, commit).
LEMMA ExecutorsTyped ==
  ASSUME TypeOK, NEW t \in Tasks, NEW next \in ExecutorPcs
  PROVE  [executor EXCEPT ![t].pc = next, ![t].copy = row[t]] \in [Tasks -> Executors]
<1> DEFINE moved == [executor[t] EXCEPT !.pc = next]
           new == [moved EXCEPT !.copy = row[t]]
<1>1. executor \in [Tasks -> Executors] /\ row[t] \in Rows
  BY DEF TypeOK, Executors, ExecutorPcs
<1>2. moved \in Executors
  BY <1>1 DEF Executors
<1>3. new \in Executors
  <2> HIDE DEF moved
  <2> QED
    BY <1>1, <1>2 DEF Executors
<1>4. [executor EXCEPT ![t].pc = next, ![t].copy = row[t]] = [executor EXCEPT ![t] = new]
  BY <1>1
<1> HIDE DEF new
<1> QED
  BY <1>1, <1>3, <1>4

LEMMA StartTyped == ASSUME TypeOK, NEW t \in Tasks, Start(t) PROVE TypeOK'
<1>1. CASE Submit(t)
  BY <1>1, RowsWritten DEF TypeOK, Submit, StarterAt, process, table
<1>2. CASE SubmitFails(t)
  BY <1>2, BackgroundAssumption DEF TypeOK, SubmitFails, StarterAt, Fails, process, table
<1>3. CASE Spawn(t)
  BY <1>3 DEF TypeOK, Spawn, StarterAt, process, table
<1>4. CASE FoundFinished(t)
  BY <1>4 DEF TypeOK, FoundFinished, StarterAt, process
<1>5. CASE NotFinishedYet(t)
  BY <1>5 DEF TypeOK, NotFinishedYet, StarterAt, process, table
<1>6. CASE Register(t)
  BY <1>6 DEF TypeOK, Register, StarterAt, process
<1>7. CASE StarterLeaves(t)
  BY <1>7 DEF TypeOK, StarterLeaves, StarterAt, process, table
<1> QED
  BY <1>1, <1>2, <1>3, <1>4, <1>5, <1>6, <1>7 DEF Start

LEMMA ExecuteTyped == ASSUME TypeOK, NEW t \in Tasks, Execute(t) PROVE TypeOK'
<1>1. CASE BeatReads(t)
  <2> DEFINE next == IF Exists(t) THEN "beats" ELSE "forward"
  <2>1. next \in {"beats", "forward"}
    OBVIOUS
  <2>2. executor' = [executor EXCEPT ![t].pc = next, ![t].copy = row[t]]
    BY <1>1 DEF BeatReads
  <2> HIDE DEF next
  <2>3. executor' \in [Tasks -> Executors]
    BY <2>1, <2>2, ExecutorsTyped DEF TypeOK, ExecutorPcs
  <2> QED
    BY <1>1, <2>3 DEF TypeOK, Executors, ExecutorPcs, BeatReads, process, table
<1>2. CASE BeatWrites(t)
  BY <1>2, RowsWritten DEF TypeOK, BeatWrites, Goes, process, table
<1>3. CASE BeatFails(t)
  BY <1>3, BackgroundAssumption DEF TypeOK, BeatFails, Goes, Fails, process, table
<1>4. ASSUME NEW outcome \in {"completed", "failed"}, Returns(t, outcome) PROVE TypeOK'
  <2>1. executor' \in [Tasks -> Executors]
    <3> DEFINE moved == [executor[t] EXCEPT !.pc = "commit"]
               new == [moved EXCEPT !.outcome = outcome]
    <3>1. executor \in [Tasks -> Executors]
      BY DEF TypeOK, Executors, ExecutorPcs
    <3>2. moved \in Executors
      BY <3>1 DEF Executors, ExecutorPcs
    <3>3. new \in Executors
      <4> HIDE DEF moved
      <4> QED
        BY <3>2, <1>4 DEF Executors
    <3>4. executor' = [executor EXCEPT ![t] = new]
      BY <1>4, <3>1 DEF Returns
    <3> HIDE DEF new
    <3> QED
      BY <3>1, <3>3, <3>4
  <2> QED
    BY <1>4, <2>1 DEF TypeOK, Executors, ExecutorPcs, Returns, process, table
<1>5. CASE CommitReads(t)
  <2> DEFINE next == IF Exists(t) THEN "commits" ELSE "finish"
  <2>1. next \in {"commits", "finish"}
    OBVIOUS
  <2>2. executor' = [executor EXCEPT ![t].pc = next, ![t].copy = row[t]]
    BY <1>5 DEF CommitReads
  <2> HIDE DEF next
  <2>3. executor' \in [Tasks -> Executors]
    BY <2>1, <2>2, ExecutorsTyped DEF TypeOK, ExecutorPcs
  <2> QED
    BY <1>5, <2>3 DEF TypeOK, Executors, ExecutorPcs, CommitReads, process, table
<1>6. CASE CommitWrites(t)
  BY <1>6, RowsWritten DEF TypeOK, CommitWrites, Goes, process, table
<1>7. CASE CommitFails(t)
  BY <1>7, BackgroundAssumption DEF TypeOK, CommitFails, Goes, Fails, process, table
<1>8. CASE Finish(t)
  BY <1>8, SMTT(30) DEF TypeOK, Finish, Goes, process
<1>9. CASE Mark(t)
  BY <1>9 DEF TypeOK, Mark, Goes, process
<1>10. CASE End(t)
  <2>1. executor' \in [Tasks -> Executors]
    BY <1>10 DEF TypeOK, End, Goes, Executors, ExecutorPcs, Over
  <2> QED
    BY <1>10, <2>1 DEF TypeOK, Executors, ExecutorPcs, End, process, table
<1>11. CASE Dropped(t)
  BY <1>11 DEF TypeOK, Dropped, Goes, Over, process, table
<1>12. CASE LateWrite(t)
  <2>1. Upsert(row[t], IF executor[t].pc = "beats"
                         THEN Beating(executor[t].copy)
                         ELSE Committed(executor[t].copy, executor[t].outcome)) \in Rows
    BY RowsWritten DEF TypeOK
  <2> QED
    BY <1>12, <2>1 DEF TypeOK, LateWrite, Goes, Over, process, table
<1> QED
  BY <1>1, <1>2, <1>3, <1>4, <1>5, <1>6, <1>7, <1>8, <1>9, <1>10, <1>11, <1>12 DEF Execute

LEMMA HandleTyped == ASSUME TypeOK, NEW h \in Handlers, Handle(h) PROVE TypeOK'
<1>1. ASSUME NEW t \in Tasks, CancelReads(h, t) PROVE TypeOK'
  BY <1>1 DEF TypeOK, CancelReads, process, table
<1>2. ASSUME NEW t \in Tasks, DestroyAborts(h, t) PROVE TypeOK'
  <2>1. handler' \in [Handlers -> Handling]
    <3> DEFINE moved == [handler[h] EXCEPT !.pc = "delete"]
               new == [moved EXCEPT !.task = t]
    <3>1. handler \in [Handlers -> Handling]
      BY DEF TypeOK, Handling, HandlerPcs
    <3>2. moved \in Handling
      BY <3>1 DEF Handling, HandlerPcs
    <3>3. new \in Handling
      <4> HIDE DEF moved
      <4> QED
        BY <3>2 DEF Handling
    <3>4. handler' = [handler EXCEPT ![h] = new]
      BY <1>2, <3>1 DEF DestroyAborts
    <3> HIDE DEF new
    <3> QED
      BY <3>1, <3>3, <3>4
  <2>2. handles' \subseteq Tasks /\ aborted' \subseteq Tasks
    BY <1>2 DEF TypeOK, DestroyAborts, Abort
  <2> QED
    BY <1>2, <2>1, <2>2 DEF TypeOK, Handling, HandlerPcs, DestroyAborts, process
<1>3. CASE CancelAborts(h)
  <2> DEFINE found == handler[h].task \in handles
  <2>1. found \in BOOLEAN
    OBVIOUS
  <2>2. handler' = [handler EXCEPT ![h].pc = "write", ![h].answer = found]
    BY <1>3 DEF CancelAborts
  <2>3. handles' \subseteq Tasks /\ aborted' \subseteq Tasks
    BY <1>3 DEF TypeOK, CancelAborts, Abort
  <2> HIDE DEF found
  <2>4. handler' \in [Handlers -> Handling]
    BY <2>1, <2>2 DEF TypeOK, Handling, HandlerPcs
  <2> QED
    BY <1>3, <2>3, <2>4 DEF TypeOK, Handling, HandlerPcs, CancelAborts, process
<1>4. CASE CancelWrites(h)
  <2>1. handler[h].task \in Tasks => Upsert(row[handler[h].task], Cancelled(handler[h].copy)) \in Rows
    BY RowsWritten DEF TypeOK
  <2> QED
    BY <1>4, <2>1 DEF TypeOK, CancelWrites, HandlerAt, process, table
<1>5. CASE CancelWriteFails(h)
  BY <1>5, BackgroundAssumption DEF TypeOK, CancelWriteFails, HandlerAt, Fails, process, table
<1>6. CASE DestroyDeletes(h)
  <2> DEFINE there == Exists(handler[h].task)
  <2>1. there \in BOOLEAN
    BY DEF Exists
  <2>2. /\ row' = [row EXCEPT ![handler[h].task] = NoRow]
        /\ handler' = [handler EXCEPT ![h].pc = "done", ![h].answer = there]
    BY <1>6 DEF DestroyDeletes
  <2> HIDE DEF there
  <2>3. handler' \in [Handlers -> Handling]
    BY <2>1, <2>2 DEF TypeOK, Handling, HandlerPcs
  <2>4. row' \in [Tasks -> Rows]
    BY <2>2, RowsWritten DEF TypeOK
  <2> QED
    BY <1>6, <2>3, <2>4 DEF TypeOK, Handling, HandlerPcs, DestroyDeletes, process, table
<1>7. CASE DestroyFails(h)
  BY <1>7, BackgroundAssumption DEF TypeOK, DestroyFails, HandlerAt, Fails, process, table
<1>8. CASE DestroyMisses(h)
  BY <1>8 DEF TypeOK, DestroyMisses, HandlerAt, process, table
<1>9. CASE HandlerLeaves(h)
  <2>1. handler' = [handler EXCEPT ![h].pc = "left"]
    BY <1>9 DEF HandlerLeaves, HandlerAt
  <2>2. handler' \in [Handlers -> Handling]
    BY <2>1 DEF TypeOK, Handling, HandlerPcs
  <2> QED
    BY <1>9, <2>2 DEF TypeOK, Handling, HandlerPcs, HandlerLeaves, process, table
<1> QED
  BY <1>1, <1>2, <1>3, <1>4, <1>5, <1>6, <1>7, <1>8, <1>9 DEF Handle

LEMMA NextTyped == TypeOK /\ [Next]_vars => TypeOK'
<1> SUFFICES ASSUME TypeOK, [Next]_vars PROVE TypeOK'
  OBVIOUS
<1>1. ASSUME NEW t \in Tasks, Prune(t) PROVE TypeOK'
  BY <1>1, RowsWritten DEF TypeOK, Prune, process, table
<1>2. CASE Crash
  <2>1. executor' \in [Tasks -> Executors]
    BY <1>2 DEF TypeOK, Crash, Executors, ExecutorPcs, Over
  <2>2. handler' \in [Handlers -> Handling]
    BY <1>2 DEF TypeOK, Crash, Handling, HandlerPcs
  <2>3. starter' \in [Tasks -> {"idle", "spawn", "check", "insert", "answered", "gone"}]
    BY <1>2 DEF TypeOK, Crash
  <2>4. crashes' \in 0..MaxCrashes /\ handles' = {} /\ finished' = {}
    <3>1. crashes \in 0..MaxCrashes /\ crashes < MaxCrashes /\ crashes' = crashes + 1
      BY <1>2 DEF TypeOK, Crash
    <3> QED
      BY <3>1, <1>2, BackgroundAssumption DEF Crash
  <2>5. up' \in BOOLEAN
    BY <1>2 DEF Crash
  <2> QED
    BY <1>2, <2>1, <2>2, <2>3, <2>4, <2>5 DEF TypeOK, Executors, ExecutorPcs, Handling, HandlerPcs, Crash
<1>3. CASE Restart
  BY <1>3, RowsWritten DEF TypeOK, Restart, table
<1>4. CASE RestartUnrecovered
  BY <1>4, BackgroundAssumption DEF TypeOK, RestartUnrecovered, Fails, table
<1>5. CASE UNCHANGED vars
  BY <1>5 DEF TypeOK, vars
<1> QED
  BY <1>1, <1>2, <1>3, <1>4, <1>5, StartTyped, ExecuteTyped, HandleTyped DEF Next

\* Rows, executors and handlers keep their types.
THEOREM Typing == Spec => []TypeOK
BY InitTyped, NextTyped, PTL DEF Spec

-----------------------------------------------------------------------------
(* The inductive invariant.  An answer is given after the abort, so the     *)
(* question is whether the abort found the handle: a task is known only     *)
(* when its handle is in the table, or its executor was through, and a row  *)
(* is finished only by an executor that is through or by a cancel that has  *)
(* aborted.                                                                 *)

Calling    == {"beat", "beats", "forward"}
Stopped(t) == executor[t].pc \in Calling => t \in aborted

\* Whoever knows the id finds the handle, unless somebody has aborted.
Tabled(t) == Known(t) /\ executor[t].pc \in Calling => t \in handles \cup aborted

\* finish was reached before the id was put into `finished`.
Through(t) == t \in finished => executor[t].pc \in {"end"} \cup Over

\* A row that is finished, or a copy of one that a heartbeat writes back.
Final(t) == row[t].finished \/ (executor[t].pc = "beats" /\ executor[t].copy.finished)

Begun(t) ==
  /\ starter[t] \in {"idle", "spawn"} => executor[t].pc = "none"
  /\ starter[t] = "spawn" => up /\ ~row[t].finished
  /\ executor[t].pc \in Calling => up
  /\ t \in aborted => Known(t)

TaskInv(t) == Tabled(t) /\ Through(t) /\ Begun(t) /\ (Final(t) => Stopped(t))

HandlerInv(h) ==
  LET t == handler[h].task IN
  handler[h].pc # "idle" =>
    /\ t \in Tasks /\ Known(t)
    /\ handler[h].pc \in {"write", "delete", "done"} => Stopped(t)

Safe == (\A t \in Tasks : TaskInv(t)) /\ (\A h \in Handlers : HandlerInv(h))

\* What the writers leave in finished_at (upsert_background_task, heartbeat,
\* commit).
LEMMA FinishedWritten ==
  /\ ~NoRow.finished /\ ~Queued.finished
  /\ \A old, new \in Rows : Upsert(old, new).finished = new.finished
  /\ \A copy \in Rows : Beating(copy).finished = copy.finished
<1>1. ~NoRow.finished /\ ~Queued.finished
  BY DEF NoRow, Queued
<1>2. ASSUME NEW old \in Rows, NEW new \in Rows PROVE Upsert(old, new).finished = new.finished
  <2> DEFINE b == new.output \/ old.output
  <2>1. Upsert(old, new) = [new EXCEPT !.output = b]
    BY DEF Upsert
  <2> HIDE DEF b
  <2> QED
    BY <2>1 DEF Rows
<1>3. ASSUME NEW copy \in Rows PROVE Beating(copy).finished = copy.finished
  BY DEF Rows, Beating
<1> QED
  BY <1>1, <1>2, <1>3

\* An executor's step to another place leaves its copy and the other executors.
LEMMA GoesOn ==
  ASSUME TypeOK, NEW t \in Tasks, NEW pc, Goes(t, pc)
  PROVE  /\ executor'[t].pc = pc
         /\ executor'[t].copy = executor[t].copy
         /\ \A u \in Tasks \ {t} : executor'[u] = executor[u]
BY DEF TypeOK, Goes

LEMMA InitSafe == Init => Safe
BY DEF Init, Safe, TaskInv, HandlerInv, Tabled, Through, Begun, Final, Stopped, Known, Calling,
       Over, Idle, Free, NoRow

\* A request that starts a task: it is known only after its executor was seen
\* in `finished`, had ended, or was put into the table.
LEMMA StartSafe == ASSUME TypeOK, Safe, NEW t \in Tasks, Start(t) PROVE Safe'
<1> USE DEF Safe, TaskInv, HandlerInv, Tabled, Through, Begun, Final, Stopped, Known
<1>1. CASE Submit(t)
  <2>1. ~row'[t].finished
    <3>1. row'[t] = Upsert(row[t], Queued) /\ row[t] \in Rows /\ Queued \in Rows
      BY <1>1, RowsWritten DEF Submit, TypeOK
    <3> QED
      BY <3>1, FinishedWritten
  <2>2. \A u \in Tasks \ {t} : row'[u] = row[u] /\ starter'[u] = starter[u]
    BY <1>1 DEF Submit, StarterAt, TypeOK
  <2>3. starter[t] = "idle" /\ starter'[t] = "spawn" /\ up /\ executor[t].pc = "none"
    BY <1>1 DEF Submit, StarterAt, TypeOK
  <2> QED
    BY <1>1, <2>1, <2>2, <2>3 DEF Submit, process, table, Calling
<1>2. CASE SubmitFails(t)
  <2>1. \A u \in Tasks \ {t} : starter'[u] = starter[u]
    BY <1>2 DEF SubmitFails, StarterAt, TypeOK
  <2>2. starter[t] = "idle" /\ starter'[t] = "gone" /\ up
    BY <1>2 DEF SubmitFails, StarterAt, TypeOK
  <2> QED
    BY <1>2, <2>1, <2>2 DEF SubmitFails, process, table
<1>3. CASE Spawn(t)
  <2>1. \A u \in Tasks \ {t} : starter'[u] = starter[u] /\ executor'[u] = executor[u]
    BY <1>3 DEF Spawn, StarterAt, TypeOK
  <2>2. /\ starter[t] = "spawn" /\ starter'[t] = "check" /\ up /\ executor[t].pc = "none"
        /\ ~row[t].finished /\ executor'[t].pc = "beat"
    BY <1>3 DEF Spawn, StarterAt, TypeOK
  <2>3. t \notin finished
    BY <2>2 DEF Over
  <2> QED
    BY <1>3, <2>1, <2>2, <2>3 DEF Spawn, process, table
<1>4. CASE FoundFinished(t)
  <2>1. \A u \in Tasks \ {t} : starter'[u] = starter[u]
    BY <1>4 DEF FoundFinished, StarterAt, TypeOK
  <2>2. starter[t] = "check" /\ starter'[t] = "answered" /\ executor[t].pc \notin Calling
    BY <1>4 DEF FoundFinished, StarterAt, TypeOK, Over, Calling
  <2> QED
    BY <1>4, <2>1, <2>2 DEF FoundFinished, process
<1>5. CASE NotFinishedYet(t)
  <2>1. \A u \in Tasks \ {t} : starter'[u] = starter[u]
    BY <1>5 DEF NotFinishedYet, StarterAt, TypeOK
  <2>2. starter[t] = "check" /\ starter'[t] = "insert"
    BY <1>5 DEF NotFinishedYet, StarterAt, TypeOK
  <2> QED
    BY <1>5, <2>1, <2>2 DEF NotFinishedYet, process, table
<1>6. CASE Register(t)
  <2>1. \A u \in Tasks \ {t} : starter'[u] = starter[u]
    BY <1>6 DEF Register, StarterAt, TypeOK
  <2>2. starter[t] = "insert" /\ starter'[t] = "answered"
    BY <1>6 DEF Register, StarterAt, TypeOK
  <2>3. handles \subseteq handles' /\ (executor[t].pc \in Calling => t \in handles')
    BY <1>6 DEF Register, Calling, Over
  <2> QED
    BY <1>6, <2>1, <2>2, <2>3 DEF Register, process
<1>7. CASE StarterLeaves(t)
  <2>1. \A u \in Tasks \ {t} : starter'[u] = starter[u]
    BY <1>7 DEF StarterLeaves, StarterAt, TypeOK
  <2>2. starter[t] \in {"spawn", "check", "insert"} /\ starter'[t] = "gone"
    BY <1>7 DEF StarterLeaves, StarterAt, TypeOK
  <2> QED
    BY <1>7, <2>1, <2>2 DEF StarterLeaves, process, table
<1> QED
  BY <1>1, <1>2, <1>3, <1>4, <1>5, <1>6, <1>7 DEF Start

\* What an executor does by itself: it writes back an unfinished row unless it
\* is aborted, finishes the row when it is through, and leaves the table then.
LEMMA ExecuteSafe == ASSUME TypeOK, Safe, NEW t \in Tasks, Execute(t) PROVE Safe'
<1> USE DEF Safe, TaskInv, HandlerInv, Tabled, Through, Begun, Final, Stopped, Known, Calling
<1>1. CASE BeatReads(t)
  <2>1. /\ \A u \in Tasks \ {t} : executor'[u] = executor[u]
        /\ executor'[t].pc \in {"beats", "forward"} /\ executor'[t].copy = row[t]
    BY <1>1 DEF BeatReads, TypeOK
  <2>2. executor[t].pc = "beat" /\ t \notin finished /\ up
    BY <1>1 DEF BeatReads, RunsAt, Over
  <2>3. UNCHANGED <<up, row, starter, aborted, handles, finished, handler>>
    BY <1>1 DEF BeatReads, process, table
  <2>4. ASSUME NEW u \in Tasks PROVE TaskInv(u)'
    BY <2>1, <2>2, <2>3
  <2>5. ASSUME NEW h \in Handlers PROVE HandlerInv(h)'
    BY <2>1, <2>2, <2>3
  <2> QED
    BY <2>4, <2>5
<1>2. CASE BeatWrites(t)
  <2>1. executor[t].pc = "beats" /\ t \notin aborted /\ t \notin finished /\ up
    BY <1>2 DEF BeatWrites, RunsAt, Over
  <2>2. ~row'[t].finished /\ \A u \in Tasks \ {t} : row'[u] = row[u]
    <3>1. row'[t] = Upsert(row[t], Beating(executor[t].copy)) /\ executor[t].copy \in Rows
      BY <1>2 DEF BeatWrites, TypeOK
    <3>2. \A u \in Tasks \ {t} : row'[u] = row[u]
      BY <1>2 DEF BeatWrites, TypeOK
    <3>3. ~executor[t].copy.finished
      BY <2>1
    <3>4. row[t] \in Rows /\ Beating(executor[t].copy) \in Rows
      BY <3>1, RowsWritten DEF TypeOK
    <3>5. row'[t].finished = executor[t].copy.finished
      BY <3>1, <3>4, FinishedWritten
    <3> QED
      BY <3>2, <3>3, <3>5
  <2>3. executor'[t].pc = "forward" /\ \A u \in Tasks \ {t} : executor'[u] = executor[u]
    BY <1>2, GoesOn DEF BeatWrites
  <2> QED
    BY <1>2, <2>1, <2>2, <2>3 DEF BeatWrites, process, table
<1>3. CASE BeatFails(t)
  <2>1. executor[t].pc \in {"beat", "beats"} /\ t \notin aborted /\ t \notin finished /\ up
    BY <1>3 DEF BeatFails, RunsAt, Over
  <2>2. executor'[t].pc = "forward" /\ \A u \in Tasks \ {t} : executor'[u] = executor[u]
    BY <1>3, GoesOn DEF BeatFails
  <2> QED
    BY <1>3, <2>1, <2>2 DEF BeatFails, process, table
<1>4. ASSUME NEW outcome \in {"completed", "failed"}, Returns(t, outcome) PROVE Safe'
  <2>1. executor[t].pc = "forward" /\ t \notin finished /\ up
    BY <1>4 DEF Returns, RunsAt, Over
  <2>2. executor'[t].pc = "commit" /\ \A u \in Tasks \ {t} : executor'[u] = executor[u]
    BY <1>4 DEF Returns, TypeOK
  <2>3. UNCHANGED <<up, row, starter, aborted, handles, finished, handler>>
    BY <1>4 DEF Returns, process, table
  <2>4. ASSUME NEW u \in Tasks PROVE TaskInv(u)'
    BY <2>1, <2>2, <2>3
  <2>5. ASSUME NEW h \in Handlers PROVE HandlerInv(h)'
    BY <2>1, <2>2, <2>3
  <2> QED
    BY <2>4, <2>5
<1>5. CASE CommitReads(t)
  <2>1. executor[t].pc = "commit" /\ t \notin finished
    BY <1>5 DEF CommitReads, RunsAt, Over
  <2>2. /\ \A u \in Tasks \ {t} : executor'[u] = executor[u]
        /\ executor'[t].pc \in {"commits", "finish"}
    BY <1>5 DEF CommitReads, TypeOK
  <2>3. UNCHANGED <<up, row, starter, aborted, handles, finished, handler>>
    BY <1>5 DEF CommitReads, process, table
  <2>4. ASSUME NEW u \in Tasks PROVE TaskInv(u)'
    BY <2>1, <2>2, <2>3
  <2>5. ASSUME NEW h \in Handlers PROVE HandlerInv(h)'
    BY <2>1, <2>2, <2>3
  <2> QED
    BY <2>4, <2>5
<1>6. CASE CommitWrites(t)
  <2>1. executor[t].pc = "commits" /\ t \notin finished
    BY <1>6 DEF CommitWrites, RunsAt, Over
  <2>2. executor'[t].pc = "finish" /\ \A u \in Tasks \ {t} : executor'[u] = executor[u]
    BY <1>6, GoesOn DEF CommitWrites
  <2>3. \A u \in Tasks \ {t} : row'[u] = row[u]
    BY <1>6 DEF CommitWrites, TypeOK
  <2> QED
    BY <1>6, <2>1, <2>2, <2>3 DEF CommitWrites, process, table
<1>7. CASE CommitFails(t)
  <2>1. executor[t].pc \in {"commit", "commits"} /\ t \notin finished
    BY <1>7 DEF CommitFails, RunsAt, Over
  <2>2. executor'[t].pc = "finish" /\ \A u \in Tasks \ {t} : executor'[u] = executor[u]
    BY <1>7, GoesOn DEF CommitFails
  <2> QED
    BY <1>7, <2>1, <2>2 DEF CommitFails, process, table
<1>8. CASE Finish(t)
  <2>1. executor[t].pc = "finish" /\ t \notin finished
    BY <1>8 DEF Finish, RunsAt, Over
  <2>2. executor'[t].pc \in {"mark", "end"} /\ \A u \in Tasks \ {t} : executor'[u] = executor[u]
    BY <1>8, GoesOn DEF Finish
  <2> QED
    BY <1>8, <2>1, <2>2 DEF Finish, process
<1>9. CASE Mark(t)
  <2>1. executor[t].pc = "mark"
    BY <1>9 DEF Mark, RunsAt
  <2>2. executor'[t].pc = "end" /\ \A u \in Tasks \ {t} : executor'[u] = executor[u]
    BY <1>9, GoesOn DEF Mark
  <2> QED
    BY <1>9, <2>1, <2>2 DEF Mark, process
<1>10. CASE End(t)
  <2>1. executor[t].pc = "end"
    BY <1>10 DEF End, RunsAt
  <2>2. executor'[t].pc = "ended" /\ \A u \in Tasks \ {t} : executor'[u] = executor[u]
    BY <1>10, GoesOn DEF End
  <2> QED
    BY <1>10, <2>1, <2>2 DEF End, Over, process, table
<1>11. CASE Dropped(t)
  <2>1. executor'[t].pc = "dropped" /\ \A u \in Tasks \ {t} : executor'[u] = executor[u]
    BY <1>11, GoesOn DEF Dropped
  <2>2. starter[t] = "answered"
    BY <1>11 DEF Dropped
  <2>3. UNCHANGED <<up, row, starter, aborted, handles, finished, handler>>
    BY <1>11 DEF Dropped, process, table
  <2>4. ASSUME NEW u \in Tasks PROVE TaskInv(u)'
    BY <2>1, <2>2, <2>3 DEF Over
  <2>5. ASSUME NEW h \in Handlers PROVE HandlerInv(h)'
    BY <2>1, <2>2, <2>3
  <2> QED
    BY <2>4, <2>5
<1>12. CASE LateWrite(t)
  <2>1. executor'[t].pc = "dropped" /\ \A u \in Tasks \ {t} : executor'[u] = executor[u]
    BY <1>12, GoesOn DEF LateWrite
  <2>2. executor[t].pc \in {"beats", "commits"} /\ \A u \in Tasks \ {t} : row'[u] = row[u]
    BY <1>12 DEF LateWrite, TypeOK
  <2>3. starter[t] = "answered"
    BY <1>12 DEF LateWrite
  <2> QED
    BY <1>12, <2>1, <2>2, <2>3 DEF LateWrite, Over, process, table
<1> QED
  BY <1>1, <1>2, <1>3, <1>4, <1>5, <1>6, <1>7, <1>8, <1>9, <1>10, <1>11, <1>12 DEF Execute

\* A step of one handler leaves the others.
LEMMA HandlerGoes ==
  ASSUME TypeOK, NEW h \in Handlers, NEW from, NEW to, HandlerAt(h, from, to)
  PROVE  /\ handler[h].pc = from /\ handler'[h].pc = to
         /\ handler'[h].task = handler[h].task
         /\ \A g \in Handlers \ {h} : handler'[g] = handler[g]
BY DEF TypeOK, HandlerAt

\* An abort stops the executor of a task whose id is known.
LEMMA AbortStops ==
  ASSUME Safe, NEW t \in Tasks, Known(t), Abort(t), UNCHANGED executor
  PROVE  /\ Stopped(t)'
         /\ aborted \subseteq aborted' /\ aborted' \subseteq aborted \cup {t}
         /\ \A u \in Tasks : u \in handles => u \in handles' \cup aborted'
BY DEF Safe, TaskInv, Tabled, Stopped, Abort

LEMMA HandleSafe == ASSUME TypeOK, Safe, NEW h \in Handlers, Handle(h) PROVE Safe'
<1> USE DEF Safe, TaskInv, HandlerInv, Tabled, Through, Begun, Final, Stopped, Known
<1>1. ASSUME NEW t \in Tasks, CancelReads(h, t) PROVE Safe'
  <2>1. /\ handler'[h].pc \in {"done", "abort"} /\ handler'[h].task = t
        /\ handler'[h].pc = "done" => row[t].finished
        /\ \A g \in Handlers \ {h} : handler'[g] = handler[g]
    BY <1>1 DEF CancelReads, TypeOK
  <2> QED
    BY <1>1, <2>1 DEF CancelReads, process, table
<1>2. ASSUME NEW t \in Tasks, DestroyAborts(h, t) PROVE Safe'
  <2>1. /\ handler'[h].pc = "delete" /\ handler'[h].task = t
        /\ \A g \in Handlers \ {h} : handler'[g] = handler[g]
    BY <1>2 DEF DestroyAborts, TypeOK
  <2>2. /\ Stopped(t)' /\ aborted \subseteq aborted' /\ aborted' \subseteq aborted \cup {t}
        /\ \A u \in Tasks : u \in handles => u \in handles' \cup aborted'
    BY <1>2, AbortStops DEF DestroyAborts
  <2>3. UNCHANGED <<up, row, starter, executor, finished>> /\ Known(t)
    BY <1>2 DEF DestroyAborts, process
  <2>4. ASSUME NEW u \in Tasks PROVE TaskInv(u)'
    BY <2>2, <2>3
  <2>5. ASSUME NEW g \in Handlers PROVE HandlerInv(g)'
    BY <2>1, <2>2, <2>3
  <2> QED
    BY <2>4, <2>5
<1>3. CASE CancelAborts(h)
  <2>1. PICK t \in Tasks : t = handler[h].task /\ Known(t)
    BY <1>3 DEF CancelAborts
  <2>2. /\ handler'[h].pc = "write" /\ handler'[h].task = t
        /\ \A g \in Handlers \ {h} : handler'[g] = handler[g]
    BY <1>3, <2>1 DEF CancelAborts, TypeOK
  <2>3. /\ Stopped(t)' /\ aborted \subseteq aborted' /\ aborted' \subseteq aborted \cup {t}
        /\ \A u \in Tasks : u \in handles => u \in handles' \cup aborted'
    BY <1>3, <2>1, AbortStops DEF CancelAborts
  <2>4. UNCHANGED <<up, row, starter, executor, finished>>
    BY <1>3 DEF CancelAborts, process
  <2>5. ASSUME NEW u \in Tasks PROVE TaskInv(u)'
    BY <2>1, <2>3, <2>4
  <2>6. ASSUME NEW g \in Handlers PROVE HandlerInv(g)'
    BY <2>1, <2>2, <2>3, <2>4
  <2> QED
    BY <2>5, <2>6
<1>4. CASE CancelWrites(h)
  <2> DEFINE t == handler[h].task
  <2>1. /\ handler[h].pc = "write" /\ handler'[h].pc = "done" /\ handler'[h].task = t
        /\ \A g \in Handlers \ {h} : handler'[g] = handler[g]
    BY <1>4, HandlerGoes DEF CancelWrites
  <2>2. t \in Tasks /\ Known(t) /\ Stopped(t)
    BY <2>1
  <2>3. \A u \in Tasks \ {t} : row'[u] = row[u]
    BY <1>4 DEF CancelWrites, TypeOK
  <2> QED
    BY <1>4, <2>1, <2>2, <2>3 DEF CancelWrites, process, table
<1>5. CASE CancelWriteFails(h)
  <2>1. /\ handler[h].pc = "write" /\ handler'[h].pc = "done"
        /\ handler'[h].task = handler[h].task
        /\ \A g \in Handlers \ {h} : handler'[g] = handler[g]
    BY <1>5, HandlerGoes DEF CancelWriteFails
  <2> QED
    BY <1>5, <2>1 DEF CancelWriteFails, process, table
<1>6. CASE DestroyDeletes(h)
  <2>1. PICK t \in Tasks : t = handler[h].task /\ Known(t) /\ Stopped(t)
    BY <1>6 DEF DestroyDeletes
  <2> DEFINE there == Exists(t)
  <2>2. handler[h].pc = "delete" /\ handler' = [handler EXCEPT ![h].pc = "done", ![h].answer = there]
    BY <1>6, <2>1 DEF DestroyDeletes
  <2>3. /\ handler'[h].pc = "done" /\ handler'[h].task = t
        /\ \A g \in Handlers \ {h} : handler'[g] = handler[g]
    <3> HIDE DEF there
    <3> QED
      BY <2>2, <2>1 DEF TypeOK
  <2>4. ~row'[t].finished /\ \A u \in Tasks \ {t} : row'[u] = row[u]
    BY <1>6, <2>1, FinishedWritten DEF DestroyDeletes, TypeOK
  <2>5. UNCHANGED <<up, starter, executor, aborted, handles, finished>>
    BY <1>6 DEF DestroyDeletes, process, table
  <2>6. ASSUME NEW u \in Tasks PROVE TaskInv(u)'
    BY <2>4, <2>5
  <2>7. ASSUME NEW g \in Handlers PROVE HandlerInv(g)'
    BY <2>3, <2>1, <2>5
  <2> QED
    BY <2>6, <2>7
<1>7. CASE DestroyFails(h)
  <2>1. /\ handler[h].pc = "delete" /\ handler'[h].pc = "done"
        /\ handler'[h].task = handler[h].task
        /\ \A g \in Handlers \ {h} : handler'[g] = handler[g]
    BY <1>7, HandlerGoes DEF DestroyFails
  <2> QED
    BY <1>7, <2>1 DEF DestroyFails, process, table
<1>8. CASE DestroyMisses(h)
  <2>1. /\ handler[h].pc = "delete" /\ handler'[h].pc = "done"
        /\ handler'[h].task = handler[h].task
        /\ \A g \in Handlers \ {h} : handler'[g] = handler[g]
    BY <1>8, HandlerGoes DEF DestroyMisses
  <2> QED
    BY <1>8, <2>1 DEF DestroyMisses, process, table
<1>9. CASE HandlerLeaves(h)
  <2>1. /\ handler[h].pc # "idle" /\ handler'[h].pc = "left"
        /\ handler'[h].task = handler[h].task
        /\ \A g \in Handlers \ {h} : handler'[g] = handler[g]
    BY <1>9, HandlerGoes DEF HandlerLeaves
  <2> QED
    BY <1>9, <2>1 DEF HandlerLeaves, process, table
<1> QED
  BY <1>1, <1>2, <1>3, <1>4, <1>5, <1>6, <1>7, <1>8, <1>9 DEF Handle

LEMMA NextSafe == TypeOK /\ Safe /\ [Next]_vars => Safe'
<1> SUFFICES ASSUME TypeOK, Safe, [Next]_vars PROVE Safe'
  OBVIOUS
<1> USE DEF Safe, TaskInv, HandlerInv, Tabled, Through, Begun, Final, Stopped, Known
<1>1. ASSUME NEW t \in Tasks, Prune(t) PROVE Safe'
  <2>1. ~row'[t].finished /\ \A u \in Tasks \ {t} : row'[u] = row[u]
    BY <1>1, FinishedWritten DEF Prune, TypeOK
  <2> QED
    BY <1>1, <2>1 DEF Prune, process, table
<1>2. CASE Crash
  <2>1. \A u \in Tasks : /\ executor'[u].pc \in {"none", "dropped"}
                         /\ starter[u] \in {"idle", "spawn"} => executor'[u].pc = "none"
    BY <1>2 DEF Crash, TypeOK
  <2>2. \A u \in Tasks : /\ starter'[u] # "spawn"
                         /\ starter'[u] = "idle" => starter[u] = "idle"
                         /\ starter[u] = "answered" => starter'[u] = "answered"
    BY <1>2 DEF Crash, TypeOK
  <2>3. \A h \in Handlers : /\ handler'[h].task = handler[h].task
                            /\ handler[h].pc = "idle" => handler'[h].pc = "idle"
    BY <1>2 DEF Crash, TypeOK
  <2> QED
    BY <1>2, <2>1, <2>2, <2>3 DEF Crash, Calling
<1>3. CASE Restart
  BY <1>3 DEF Restart, table, Calling
<1>4. CASE RestartUnrecovered
  BY <1>4 DEF RestartUnrecovered, table
<1>5. CASE UNCHANGED vars
  BY <1>5 DEF vars
<1> QED
  BY <1>1, <1>2, <1>3, <1>4, <1>5, StartSafe, ExecuteSafe, HandleSafe DEF Next

\* When a client has its answer to a cancel or a delete, nobody works on the
\* task any more, wherever starting, running, aborting, failing statements and
\* crashes fell between each other (background.rs: register, cancel, destroy).
THEOREM AnsweredStops == Spec => []AnsweredIsStopped
<1>1. Init => TypeOK /\ Safe
  BY InitTyped, InitSafe
<1>2. TypeOK /\ Safe /\ [Next]_vars => (TypeOK /\ Safe)'
  BY NextTyped, NextSafe
<1>3. Safe => AnsweredIsStopped
  BY DEF Safe, HandlerInv, AnsweredIsStopped, Stopped, Calling
<1> QED
  BY <1>1, <1>2, <1>3, PTL DEF Spec

-----------------------------------------------------------------------------
(* What became of a task.  Its row is written by the request that starts    *)
(* it, by its executor, by a cancel or delete of it and by a restart; a     *)
(* verdict nobody else touched is that of an executor that will not write   *)
(* again.                                                                   *)

\* The executor of t has done its last write, or there will never be one.
AtRest(t) ==
  \/ executor[t].pc \in {"finish", "mark", "end"} \cup Over
  \/ executor[t].pc = "none" /\ starter[t] = "gone"

VerdictInv(t) ==
  /\ row[t].status \in Settled => Touched(t) \/ AtRest(t)
  /\ starter[t] = "idle" => row[t].status = "none"
  /\ starter[t] = "spawn" => row[t].status \notin Settled
  /\ starter[t] \in {"check", "insert", "answered"} => executor[t].pc # "none"
  /\ t \in aborted => Touched(t)
  /\ ~up => executor[t].pc \in {"none", "dropped"}

Told == \A t \in Tasks : VerdictInv(t)

\* What the writers leave in status and output (upsert_background_task and its
\* callers, recover_all_at_startup).
LEMMA StatusWritten ==
  /\ NoRow.status = "none" /\ Queued.status = "queued"
  /\ \A old, new \in Rows : Upsert(old, new).status = new.status
  /\ \A copy \in Rows : Beating(copy).status = "running"
  /\ \A old \in Rows : old.status \notin Live => Recovered(old) = old
<1>1. NoRow.status = "none" /\ Queued.status = "queued"
  BY DEF NoRow, Queued
<1>2. ASSUME NEW old \in Rows, NEW new \in Rows PROVE Upsert(old, new).status = new.status
  <2> DEFINE b == new.output \/ old.output
  <2>1. Upsert(old, new) = [new EXCEPT !.output = b]
    BY DEF Upsert
  <2> HIDE DEF b
  <2> QED
    BY <2>1 DEF Rows
<1>3. ASSUME NEW copy \in Rows PROVE Beating(copy).status = "running"
  BY DEF Rows, Beating
<1>4. ASSUME NEW old \in Rows, old.status \notin Live PROVE Recovered(old) = old
  BY <1>4 DEF Recovered
<1> QED
  BY <1>1, <1>2, <1>3, <1>4

LEMMA OutputWritten ==
  /\ \A old, new \in Rows : old.output => Upsert(old, new).output
  /\ \A old \in Rows : old.output => Recovered(old).output
<1>1. ASSUME NEW old \in Rows, NEW new \in Rows, old.output PROVE Upsert(old, new).output
  <2> DEFINE b == new.output \/ old.output
  <2>1. Upsert(old, new) = [new EXCEPT !.output = b]
    BY DEF Upsert
  <2>2. b
    BY <1>1
  <2> HIDE DEF b
  <2> QED
    BY <2>1, <2>2 DEF Rows
<1>2. ASSUME NEW old \in Rows, old.output PROVE Recovered(old).output
  BY <1>2 DEF Rows, Recovered
<1> QED
  BY <1>1, <1>2

\* Whoever writes the row of a task, and what.
Starts(t)   == starter[t] = "idle" /\ row'[t] = Upsert(row[t], Queued)
Executes(t) ==
  \/ /\ executor[t].pc = "beats" /\ row'[t] = Upsert(row[t], Beating(executor[t].copy))
     /\ t \in aborted \/ executor'[t].pc = "forward"
  \/ /\ executor[t].pc = "commits"
     /\ row'[t] = Upsert(row[t], Committed(executor[t].copy, executor[t].outcome))
     /\ executor'[t].pc \in {"finish", "dropped"}
Cancels(t)  ==
  \E h \in Handlers :
    /\ handler[h].pc = "write" /\ handler[h].task = t
    /\ row'[t] = Upsert(row[t], Cancelled(handler[h].copy))
Recovers(t) == ~up /\ row'[t] = Recovered(row[t])

Writes(t) == \/ row'[t] = row[t] \/ row'[t] = NoRow
             \/ Starts(t) \/ Executes(t) \/ Cancels(t) \/ Recovers(t)

\* No step writes a row in another way.
LEMMA RowSteps == ASSUME TypeOK, [Next]_vars, NEW t \in Tasks PROVE Writes(t)
<1> USE DEF Writes
<1>1. ASSUME NEW u \in Tasks, Start(u) PROVE Writes(t)
  <2>1. CASE Submit(u)
    BY <2>1 DEF Submit, StarterAt, Starts, TypeOK
  <2> QED
    BY <1>1, <2>1 DEF Start, SubmitFails, Spawn, FoundFinished, NotFinishedYet, Register,
                      StarterLeaves
<1>2. ASSUME NEW u \in Tasks, Execute(u) PROVE Writes(t)
  <2>1. CASE BeatWrites(u)
    <3>1. executor[u].pc = "beats" /\ executor'[u].pc = "forward"
      BY <2>1, GoesOn DEF BeatWrites, RunsAt
    <3> QED
      BY <2>1, <3>1 DEF BeatWrites, Executes, TypeOK
  <2>2. CASE CommitWrites(u)
    <3>1. executor[u].pc = "commits" /\ executor'[u].pc = "finish"
      BY <2>2, GoesOn DEF CommitWrites, RunsAt
    <3> QED
      BY <2>2, <3>1 DEF CommitWrites, Executes, TypeOK
  <2>3. CASE LateWrite(u)
    <3>1. executor[u].pc \in {"beats", "commits"} /\ executor'[u].pc = "dropped" /\ u \in aborted
      BY <2>3, GoesOn DEF LateWrite
    <3>2. CASE executor[u].pc = "beats"
      BY <2>3, <3>1, <3>2 DEF LateWrite, Executes, TypeOK
    <3>3. CASE executor[u].pc = "commits"
      BY <2>3, <3>1, <3>3 DEF LateWrite, Executes, TypeOK
    <3> QED
      BY <3>1, <3>2, <3>3
  <2> QED
    BY <1>2, <2>1, <2>2, <2>3 DEF Execute, BeatReads, BeatFails, Returns, CommitReads,
                                  CommitFails, Finish, Mark, End, Dropped
<1>3. ASSUME NEW h \in Handlers, Handle(h) PROVE Writes(t)
  <2>1. CASE CancelWrites(h)
    BY <2>1 DEF CancelWrites, HandlerAt, Cancels, TypeOK
  <2>2. CASE DestroyDeletes(h)
    BY <2>2 DEF DestroyDeletes, TypeOK
  <2> QED
    BY <1>3, <2>1, <2>2 DEF Handle, CancelReads, CancelAborts, CancelWriteFails, DestroyAborts,
                            DestroyFails, DestroyMisses, HandlerLeaves
<1>4. ASSUME NEW u \in Tasks, Prune(u) PROVE Writes(t)
  BY <1>4 DEF Prune, TypeOK
<1>5. CASE Restart
  BY <1>5 DEF Restart, Recovers
<1>6. CASE Crash \/ RestartUnrecovered \/ UNCHANGED vars
  BY <1>6 DEF Crash, RestartUnrecovered, vars
<1> QED
  BY <1>1, <1>2, <1>3, <1>4, <1>5, <1>6 DEF Next

\* Who has begun to cancel or delete is never forgotten.
LEMMA TouchedStays ==
  ASSUME TypeOK, [Next]_vars, NEW t \in Tasks, Touched(t)
  PROVE  Touched(t)'
<1>1. PICK h \in Handlers : handler[h].pc # "idle" /\ handler[h].task = t
  BY DEF Touched
<1>2. handler'[h].pc # "idle" /\ handler'[h].task = t
  <2>1. ASSUME NEW g \in Handlers, Handle(g) PROVE handler'[h].pc # "idle" /\ handler'[h].task = t
    <3>1. CASE g = h
      BY <1>1, <2>1, <3>1 DEF Handle, CancelReads, DestroyAborts, CancelAborts, CancelWrites,
        CancelWriteFails, DestroyDeletes, DestroyFails, DestroyMisses, HandlerLeaves, HandlerAt,
        TypeOK
    <3>2. CASE g # h
      BY <1>1, <2>1, <3>2 DEF Handle, CancelReads, DestroyAborts, CancelAborts, CancelWrites,
        CancelWriteFails, DestroyDeletes, DestroyFails, DestroyMisses, HandlerLeaves, HandlerAt,
        TypeOK
    <3> QED
      BY <3>1, <3>2
  <2>2. ASSUME NEW u \in Tasks, Start(u) \/ Execute(u) \/ Prune(u) PROVE handler' = handler
    BY <2>2 DEF Start, Submit, SubmitFails, Spawn, FoundFinished, NotFinishedYet, Register,
      StarterLeaves, Execute, BeatReads, BeatWrites, BeatFails, Returns, CommitReads, CommitWrites,
      CommitFails, Finish, Mark, End, Dropped, LateWrite, Prune
  <2>3. CASE Crash
    BY <1>1, <2>3 DEF Crash, TypeOK
  <2>4. CASE Restart \/ RestartUnrecovered \/ UNCHANGED vars
    BY <1>1, <2>4 DEF Restart, RestartUnrecovered, vars
  <2> QED
    BY <1>1, <2>1, <2>2, <2>3, <2>4 DEF Next
<1> QED
  BY <1>2 DEF Touched

LEMMA InitTold == Init => Told
<1> SUFFICES ASSUME Init, NEW t \in Tasks PROVE VerdictInv(t)
  BY DEF Told
<1>1. up /\ aborted = {} /\ starter[t] = "idle"
  BY DEF Init
<1>2. row[t].status = "none"
  BY StatusWritten DEF Init
<1> QED
  BY <1>1, <1>2 DEF VerdictInv, Settled

LEMMA StartTold == ASSUME TypeOK, Safe, Told, NEW t \in Tasks, Start(t) PROVE Told'
<1> USE DEF Told, VerdictInv, AtRest, Touched
<1>1. CASE Submit(t)
  <2>1. row'[t].status = "queued" /\ \A u \in Tasks \ {t} : row'[u] = row[u]
    <3>1. row'[t] = Upsert(row[t], Queued) /\ row[t] \in Rows /\ Queued \in Rows
      BY <1>1, RowsWritten DEF Submit, TypeOK
    <3> QED
      BY <1>1, <3>1, StatusWritten DEF Submit, TypeOK
  <2>2. starter'[t] = "spawn" /\ \A u \in Tasks \ {t} : starter'[u] = starter[u]
    BY <1>1 DEF Submit, StarterAt, TypeOK
  <2>3. UNCHANGED <<up, executor, aborted, handler>>
    BY <1>1 DEF Submit, process
  <2>4. up
    BY <1>1 DEF Submit, StarterAt
  <2> QED
    BY <2>1, <2>2, <2>3, <2>4 DEF Settled
<1>2. CASE SubmitFails(t)
  <2>1. /\ starter[t] = "idle" /\ starter'[t] = "gone"
        /\ \A u \in Tasks \ {t} : starter'[u] = starter[u]
    BY <1>2 DEF SubmitFails, StarterAt, TypeOK
  <2> QED
    BY <1>2, <2>1 DEF SubmitFails, process, Settled
<1>3. CASE Spawn(t)
  <2>1. \A u \in Tasks \ {t} : starter'[u] = starter[u] /\ executor'[u] = executor[u]
    BY <1>3 DEF Spawn, StarterAt, TypeOK
  <2>2. /\ starter[t] = "spawn" /\ starter'[t] = "check" /\ up
        /\ executor'[t].pc = "beat"
    BY <1>3 DEF Spawn, StarterAt, TypeOK
  <2>3. UNCHANGED <<up, row, aborted, handler>>
    BY <1>3 DEF Spawn, process
  <2> QED
    BY <2>1, <2>2, <2>3
<1>4. CASE FoundFinished(t) \/ NotFinishedYet(t) \/ Register(t) \/ StarterLeaves(t)
  <2>1. /\ \A u \in Tasks \ {t} : starter'[u] = starter[u]
        /\ \/ starter[t] \in {"check", "insert"} /\ starter'[t] \in {"insert", "answered", "gone"}
           \/ starter[t] = "spawn" /\ starter'[t] = "gone"
    BY <1>4 DEF FoundFinished, NotFinishedYet, Register, StarterLeaves, StarterAt, TypeOK
  <2>2. UNCHANGED <<up, row, executor, aborted, handler>>
    BY <1>4 DEF FoundFinished, NotFinishedYet, Register, StarterLeaves, process
  <2> QED
    BY <2>1, <2>2
<1> QED
  BY <1>1, <1>2, <1>3, <1>4 DEF Start

\* An executor writes before it is at rest, and writes the verdict as it comes
\* to rest.
LEMMA ExecuteTold == ASSUME TypeOK, Safe, Told, NEW t \in Tasks, Execute(t) PROVE Told'
<1> USE DEF Told, VerdictInv, AtRest, Touched
<1>1. /\ UNCHANGED <<up, starter, aborted, handler>>
      /\ \A u \in Tasks \ {t} : executor'[u] = executor[u] /\ row'[u] = row[u]
  BY DEF Execute, BeatReads, BeatWrites, BeatFails, Returns, CommitReads, CommitWrites,
    CommitFails, Finish, Mark, End, Dropped, LateWrite, Goes, TypeOK, process
<1>2. \A u \in Tasks \ {t} : VerdictInv(u)'
  BY <1>1
<1>3. up
  BY DEF Execute, BeatReads, BeatWrites, BeatFails, Returns, CommitReads, CommitWrites,
    CommitFails, Finish, Mark, End, Dropped, LateWrite, RunsAt
<1>4. executor[t].pc # "none" /\ executor'[t].pc # "none"
  <2>1. CASE BeatReads(t)
    BY <2>1 DEF BeatReads, RunsAt, TypeOK
  <2>2. CASE CommitReads(t)
    BY <2>2 DEF CommitReads, RunsAt, TypeOK
  <2>3. ASSUME NEW outcome \in {"completed", "failed"}, Returns(t, outcome)
        PROVE  executor[t].pc # "none" /\ executor'[t].pc # "none"
    BY <2>3 DEF Returns, RunsAt, TypeOK
  <2>4. CASE Dropped(t) \/ LateWrite(t)
    <3>1. executor'[t].pc = "dropped" /\ Known(t)
      BY <2>4, GoesOn DEF Dropped, LateWrite, Safe, TaskInv, Begun
    <3> QED
      BY <3>1 DEF Known
  <2>5. CASE BeatWrites(t) \/ BeatFails(t) \/ CommitWrites(t) \/ CommitFails(t)
               \/ Finish(t) \/ Mark(t) \/ End(t)
    <3>1. executor[t].pc # "none"
      BY <2>5 DEF BeatWrites, BeatFails, CommitWrites, CommitFails, Finish, Mark, End, RunsAt
    <3>2. \E pc : Goes(t, pc) /\ pc # "none"
      BY <2>5 DEF BeatWrites, BeatFails, CommitWrites, CommitFails, Finish, Mark, End
    <3> QED
      BY <3>1, <3>2, GoesOn
  <2> QED
    BY <2>1, <2>2, <2>3, <2>4, <2>5 DEF Execute
<1>5. row'[t].status \in Settled => Touched(t) \/ AtRest(t)'
  <2>1. CASE BeatWrites(t) \/ LateWrite(t)
    <3>1. CASE t \in aborted
      BY <3>1
    <3>2. CASE t \notin aborted
      <4>1. row'[t] = Upsert(row[t], Beating(executor[t].copy))
        BY <2>1, <3>2 DEF BeatWrites, LateWrite, TypeOK
      <4>2. executor[t].copy \in Rows /\ row[t] \in Rows
        BY DEF TypeOK
      <4>3. row'[t].status = "running"
        <5>1. Beating(executor[t].copy) \in Rows /\ Beating(executor[t].copy).status = "running"
          BY <4>2, RowsWritten, StatusWritten
        <5> QED
          BY <4>1, <4>2, <5>1, StatusWritten
      <4> QED
        BY <4>3 DEF Settled
    <3> QED
      BY <3>1, <3>2
  <2>2. CASE CommitWrites(t)
    <3>1. executor'[t].pc = "finish"
      BY <2>2, GoesOn DEF CommitWrites
    <3> QED
      BY <3>1
  <2>3. CASE ~(BeatWrites(t) \/ LateWrite(t) \/ CommitWrites(t))
    <3>1. row' = row
      BY <2>3 DEF Execute, BeatReads, BeatFails, Returns, CommitReads, CommitFails, Finish, Mark,
        End, Dropped
    <3>2. executor[t].pc \in {"finish", "mark", "end"} \cup Over
            => executor'[t].pc \in {"finish", "mark", "end"} \cup Over
      <4>1. CASE Finish(t) \/ Mark(t) \/ End(t) \/ Dropped(t)
        <5>1. \E pc : Goes(t, pc) /\ pc \in {"finish", "mark", "end"} \cup Over
          BY <4>1 DEF Finish, Mark, End, Dropped, Over
        <5> QED
          BY <5>1, GoesOn
      <4>2. CASE ~(Finish(t) \/ Mark(t) \/ End(t) \/ Dropped(t))
        BY <2>3, <4>2 DEF Execute, BeatReads, BeatFails, Returns, CommitReads, CommitFails,
          RunsAt, Over
      <4> QED
        BY <4>1, <4>2
    <3> QED
      BY <1>4, <3>1, <3>2
  <2> QED
    BY <2>1, <2>2, <2>3
<1>6. starter[t] \notin {"idle", "spawn"}
  BY <1>4 DEF Safe, TaskInv, Begun
<1>7. VerdictInv(t)'
  BY <1>1, <1>3, <1>4, <1>5, <1>6
<1> QED
  BY <1>2, <1>7

LEMMA HandleTold == ASSUME TypeOK, Safe, Told, NEW h \in Handlers, Handle(h) PROVE Told'
<1> USE DEF Told, VerdictInv, AtRest
<1>1. /\ UNCHANGED <<up, starter, executor>>
      /\ \A t \in Tasks : Touched(t) => Touched(t)'
  <2>1. UNCHANGED <<up, starter, executor>>
    BY DEF Handle, CancelReads, DestroyAborts, CancelAborts, CancelWrites, CancelWriteFails,
      DestroyDeletes, DestroyFails, DestroyMisses, HandlerLeaves, process
  <2>2. Next
    BY DEF Next
  <2> QED
    BY <2>1, <2>2, TouchedStays
<1>2. \A t \in Tasks : \/ row'[t] = row[t]
                       \/ row'[t] = NoRow
                       \/ Touched(t) /\ starter[t] = "answered"
  <2>1. CASE CancelWrites(h)
    BY <2>1 DEF CancelWrites, HandlerAt, TypeOK, Touched, Safe, HandlerInv, Known
  <2>2. CASE DestroyDeletes(h)
    BY <2>2 DEF DestroyDeletes, TypeOK
  <2>3. CASE ~CancelWrites(h) /\ ~DestroyDeletes(h)
    BY <2>3 DEF Handle, CancelReads, DestroyAborts, CancelAborts, CancelWriteFails,
      DestroyFails, DestroyMisses, HandlerLeaves
  <2> QED
    BY <2>1, <2>2, <2>3
<1>3. \A t \in Tasks : t \in aborted' => Touched(t)'
  <2>1. ASSUME NEW u \in Tasks, DestroyAborts(h, u)
        PROVE  \A t \in Tasks : t \in aborted' => Touched(t)'
    <3>1. handler'[h].pc = "delete" /\ handler'[h].task = u /\ aborted' \subseteq aborted \cup {u}
      BY <2>1 DEF DestroyAborts, Abort, TypeOK
    <3>2. Touched(u)'
      BY <3>1 DEF Touched
    <3> QED
      BY <1>1, <3>1, <3>2
  <2>2. CASE CancelAborts(h)
    <3>1. Touched(handler[h].task) /\ aborted' \subseteq aborted \cup {handler[h].task}
      BY <2>2 DEF CancelAborts, Abort, Touched
    <3> QED
      BY <1>1, <3>1
  <2>3. CASE aborted' = aborted
    BY <1>1, <2>3
  <2> QED
    BY <2>1, <2>2, <2>3 DEF Handle, CancelReads, CancelWrites, CancelWriteFails, DestroyDeletes,
      DestroyFails, DestroyMisses, HandlerLeaves
<1>4. NoRow.status = "none" /\ "none" \notin Settled
  BY DEF NoRow, Settled
<1> QED
  BY <1>1, <1>2, <1>3, <1>4

LEMMA NextTold == TypeOK /\ Safe /\ Told /\ [Next]_vars => Told'
<1> SUFFICES ASSUME TypeOK, Safe, Told, [Next]_vars PROVE Told'
  OBVIOUS
<1> USE DEF Told, VerdictInv, AtRest
<1>1. ASSUME NEW t \in Tasks, Prune(t) PROVE Told'
  <2>1. row'[t].status = "none" /\ \A u \in Tasks \ {t} : row'[u] = row[u]
    BY <1>1, StatusWritten DEF Prune, TypeOK
  <2>2. UNCHANGED <<up, starter, executor, aborted, handler>>
    BY <1>1 DEF Prune, process
  <2> QED
    BY <2>1, <2>2 DEF Settled, Touched
<1>2. CASE Crash
  <2>1. \A t \in Tasks : Touched(t) => Touched(t)'
    BY TouchedStays
  <2>2. \A t \in Tasks : \/ executor[t].pc = "none" /\ executor'[t].pc = "none"
                         \/ executor[t].pc # "none" /\ executor'[t].pc = "dropped"
    BY <1>2 DEF Crash, TypeOK
  <2>3. \A t \in Tasks : /\ starter[t] \in {"spawn", "check", "insert"} => starter'[t] = "gone"
                         /\ starter[t] \notin {"spawn", "check", "insert"} => starter'[t] = starter[t]
    BY <1>2 DEF Crash, TypeOK
  <2>4. UNCHANGED <<row, aborted>>
    BY <1>2 DEF Crash
  <2> QED
    BY <2>1, <2>2, <2>3, <2>4 DEF Over
<1>3. CASE Restart
  <2>1. \A t \in Tasks : row'[t] = Recovered(row[t]) /\ row[t] \in Rows
    BY <1>3 DEF Restart, TypeOK
  <2>2. ~up /\ UNCHANGED <<starter, executor, aborted, handler>>
    BY <1>3 DEF Restart
  <2>3. \A t \in Tasks : executor[t].pc \in {"none", "dropped"} /\ starter[t] # "spawn"
    BY <2>2 DEF Safe, TaskInv, Begun
  <2>4. \A t \in Tasks : AtRest(t) \/ starter[t] = "idle"
    BY <2>3 DEF TypeOK, Over
  <2>5. \A t \in Tasks : starter[t] = "idle" => row'[t].status = "none"
    BY <2>1, StatusWritten DEF Live
  <2> QED
    BY <2>2, <2>3, <2>4, <2>5 DEF Touched, Settled
<1>4. CASE RestartUnrecovered
  BY <1>4 DEF RestartUnrecovered, Touched
<1>5. CASE UNCHANGED vars
  BY <1>5 DEF vars, Touched
<1> QED
  BY <1>1, <1>2, <1>3, <1>4, <1>5, StartTold, ExecuteTold, HandleTold DEF Next

\* No write of a row drops an output (upsert_background_task).
LEMMA OutputStays ==
  ASSUME TypeOK, [Next]_vars, NEW t \in Tasks, row[t].output
  PROVE  row'[t].output \/ row'[t] = NoRow
<1>1. Writes(t)
  BY RowSteps
<1>2. row[t] \in Rows
  BY DEF TypeOK
<1>3. CASE Starts(t)
  <2>1. Queued \in Rows
    BY RowsWritten
  <2>2. Upsert(row[t], Queued).output
    BY <1>2, <2>1, OutputWritten
  <2> QED
    BY <1>3, <2>2 DEF Starts
<1>4. CASE Executes(t)
  <2>1. /\ Beating(executor[t].copy) \in Rows
        /\ Committed(executor[t].copy, executor[t].outcome) \in Rows
    BY RowsWritten DEF TypeOK
  <2> QED
    BY <1>2, <1>4, <2>1, OutputWritten DEF Executes
<1>5. CASE Cancels(t)
  <2>1. \A h \in Handlers : Cancelled(handler[h].copy) \in Rows
    BY RowsWritten DEF TypeOK
  <2> QED
    BY <1>2, <1>5, <2>1, OutputWritten DEF Cancels
<1>6. CASE Recovers(t)
  BY <1>2, <1>6, OutputWritten DEF Recovers
<1> QED
  BY <1>1, <1>3, <1>4, <1>5, <1>6 DEF Writes

\* A verdict on a task that nobody touched is only ever removed.
LEMMA VerdictStays ==
  ASSUME TypeOK, Told, [Next]_vars, NEW t \in Tasks, row[t].status \in Settled, ~Touched(t)
  PROVE  row'[t] = row[t] \/ row'[t] = NoRow
<1>1. Writes(t)
  BY RowSteps
<1>2. AtRest(t) /\ t \notin aborted /\ row[t].status # "none"
  BY DEF Told, VerdictInv, Settled
<1>3. ~Starts(t)
  BY <1>2 DEF Starts, Told, VerdictInv
<1>4. ~Executes(t)
  BY <1>2 DEF Executes, AtRest, Over
<1>5. ~Cancels(t)
  BY DEF Cancels, Touched
<1>6. Recovers(t) => row'[t] = row[t]
  <2>1. row[t] \in Rows /\ row[t].status \notin Live
    BY DEF TypeOK, Settled, Live
  <2> QED
    BY <2>1, StatusWritten DEF Recovers
<1> QED
  BY <1>1, <1>3, <1>4, <1>5, <1>6 DEF Writes

\* An output that was stored goes only with its row, and the verdict on a task
\* that nobody cancels or deletes is final, whatever is read before and written
\* after it, and through crashes and restarts (background.rs and
\* upsert_background_task in storage/store.rs).
THEOREM ResultsAreKept == Spec => ResultsKept
<1> DEFINE Inv == TypeOK /\ Safe /\ Told
<1>1. Init => Inv
  BY InitTyped, InitSafe, InitTold
<1>2. Inv /\ [Next]_vars => Inv'
  BY NextTyped, NextSafe, NextTold
<1>3. Inv /\ [Next]_vars =>
        [\A t \in Tasks : row[t].output => row'[t].output \/ row'[t] = NoRow]_vars
  BY OutputStays
<1>4. Inv /\ [Next]_vars =>
        [\A t \in Tasks : row[t].status \in Settled /\ ~Touched(t) =>
           row'[t] = row[t] \/ row'[t] = NoRow]_vars
  BY VerdictStays
<1> QED
  BY <1>1, <1>2, <1>3, <1>4, PTL DEF Spec, ResultsKept, OutputSurvives, VerdictStands

-----------------------------------------------------------------------------
(* The prices.  How old a price is, is known from the entry alone; how long *)
(* it could not be confirmed, from the refreshes.  The two dates differ by  *)
(* what a refresh may take, and for a refresh that is on its way too.       *)

Underway == {"probe", "save", "put"}

\* A price that is not from the future.
Dated(e) == e \in Market!Entries /\ (e.since # None => e.since <= now)

\* A refresh, and what it is going to write.
WorkTyped(w) ==
  /\ work[w].pc # "idle" => work[w].at \in 0..now
  /\ work[w].pc \in Underway
     => /\ DOMAIN work[w] = {"pc", "at", "mode", "ok", "new"}
        /\ work[w].mode \in Modes /\ now <= work[w].at + Slow
  /\ work[w].pc \in {"save", "put"} => Dated(work[w].new)

\* A failure that was read and not yet written does not prolong the grace period.
Late(w) ==
  work[w].pc \in {"save", "put"} /\ ~work[w].ok
  => /\ work[w].new.since # None
     /\ lost[w[2]] # None => work[w].new.since <= lost[w[2]] + Slow

EditorTyped ==
  \/ editor = Market!Idle
  \/ editor.pc = "accounts" /\ editor.account \in Accounts
  \/ /\ editor.pc = "seed" /\ editor.account \in Accounts
     /\ editor.modes \in [Accounts -> Modes]
     /\ \A a \in Accounts : editor.rows[a] # None => Dated(editor.rows[a])

\* Since when a price is stale, and since when it could not be confirmed.
SinceLost ==
  \A a \in Accounts :
    lost[a] # None => /\ lost[a] <= now /\ entry[a].since # None
                      /\ entry[a].since <= lost[a] + Slow

Refreshes == DOMAIN work = Market!Workers /\ \A w \in Market!Workers : WorkTyped(w) /\ Late(w)

Believed ==
  /\ DOMAIN rows = Accounts
  /\ \A a \in Accounts : Dated(entry[a]) /\ (rows[a] # None => Dated(rows[a]))

PriceInv == Market!TypeOK /\ Believed /\ Refreshes /\ EditorTyped /\ SinceLost

\* No grace period is longer than the one of a systemic failure.
LEMMA GraceIsBounded == ASSUME NEW e PROVE Market!Grace(e) \in 0..SystemicGrace
BY JobsAssumption DEF Market!PriceAssumption, Market!Grace, Market!GraceFor

\* The property follows, whatever the table and the hour.
LEMMA UnconfirmedIsDropped == ASSUME PriceInv PROVE Market!GraceEnds
<1> SUFFICES ASSUME NEW a \in Accounts, mode[a] # "manual", lost[a] # None,
                    now - lost[a] >= SystemicGrace + Slow
             PROVE  ~Market!Usable(a)
  BY DEF Market!GraceEnds
<1>1. now \in Nat /\ lost[a] \in Nat /\ entry[a].since \in Nat
  BY JobsAssumption DEF PriceInv, SinceLost, Market!TypeOK, Market!Times, Market!Entries, Market!PriceAssumption
<1>2. entry[a].since # None /\ entry[a].since <= lost[a] + Slow
  BY DEF PriceInv, SinceLost
<1>3. Market!Grace(entry[a]) \in 0..SystemicGrace /\ SystemicGrace \in Nat /\ Slow \in Nat
  BY GraceIsBounded, JobsAssumption DEF Market!PriceAssumption
<1>4. ~(now - entry[a].since < Market!Grace(entry[a]))
  BY <1>1, <1>2, <1>3
<1> QED
  BY <1>2, <1>4 DEF Market!Usable

\* The table that is built from rows: nothing in it is from the future, and what
\* could not be confirmed before is not younger than that.
LEMMA SeedKeepsDates ==
  ASSUME PriceInv, NEW m \in [Accounts -> Modes], NEW rs,
         \A a \in Accounts : rs[a] # None => Dated(rs[a]),
         Market!Seed(m, rs), UNCHANGED now
  PROVE  /\ entry' \in [Accounts -> Market!Entries] /\ lost' \in [Accounts -> Market!Times \cup {None}]
         /\ \A a \in Accounts : Dated(entry[a])'
         /\ SinceLost'
         /\ \A a \in Accounts : lost'[a] \in {None, lost[a], now}
<1> DEFINE seeded == Market!Seeded(m, rs)
<1>1. now \in Market!Times /\ now \in Nat /\ Slow \in Nat /\ None \notin Nat
      /\ lost \in [Accounts -> Market!Times \cup {None}]
  BY JobsAssumption DEF PriceInv, Market!TypeOK, Market!Times, Market!PriceAssumption
<1>2. ASSUME NEW a \in Accounts
      PROVE  Dated(seeded[a])
  <2>1. CASE seeded[a] = rs[a] /\ rs[a] # None
    BY <2>1
  <2>2. CASE seeded[a] = Market!Stated(a, m)
    BY <1>1, <2>2 DEF Market!Stated, Dated, Market!Entries
  <2> QED
    BY <2>1, <2>2 DEF Market!Seeded
<1>3. \A a \in Accounts : seeded[a].since \in Market!Times \cup {None}
  BY <1>2 DEF Dated, Market!Entries
<1>4. entry' = seeded /\ now' = now
  BY DEF Market!Seed
<1>5. ASSUME NEW a \in Accounts
      PROVE  lost'[a] = CASE seeded[a].since = None -> None
                          [] seeded[a].since # None /\ Market!Older(a, seeded) -> lost[a]
                          [] OTHER -> now
  BY DEF Market!Seed
<1>6. seeded = [a \in Accounts |-> seeded[a]]
  BY DEF Market!Seeded
<1>7. DOMAIN lost' = Accounts /\ lost' = [a \in Accounts |-> lost'[a]]
  BY DEF Market!Seed
<1> HIDE DEF seeded
<1>8. ASSUME NEW a \in Accounts
      PROVE  \/ lost'[a] = None
             \/ lost'[a] = lost[a] /\ lost[a] # None /\ seeded[a].since # None /\ seeded[a].since <= lost[a]
             \/ lost'[a] = now /\ seeded[a].since # None /\ seeded[a].since <= now
  <2>1. CASE seeded[a].since = None
    BY <1>5, <2>1
  <2>2. CASE seeded[a].since # None /\ Market!Older(a, seeded)
    BY <1>5, <2>2 DEF Market!Older
  <2>3. CASE seeded[a].since # None /\ ~Market!Older(a, seeded)
    BY <1>2, <1>5, <2>3 DEF Dated
  <2> QED
    BY <2>1, <2>2, <2>3
<1>9. entry' \in [Accounts -> Market!Entries]
  BY <1>2, <1>4, <1>6 DEF Dated
<1>10. lost' \in [Accounts -> Market!Times \cup {None}]
  <2>1. \A a \in Accounts : lost'[a] \in Market!Times \cup {None}
    BY <1>1, <1>8
  <2> QED
    BY <1>7, <2>1
<1>11. \A a \in Accounts : Dated(entry[a])'
  BY <1>2, <1>4 DEF Dated
<1>12. SinceLost'
  <2> SUFFICES ASSUME NEW a \in Accounts, lost'[a] # None
               PROVE  lost'[a] <= now' /\ entry'[a].since # None /\ entry'[a].since <= lost'[a] + Slow
    BY DEF SinceLost
  <2>1. seeded[a].since # None /\ seeded[a].since <= lost'[a] /\ lost'[a] \in Nat
    BY <1>1, <1>8 DEF Market!Times
  <2>2. seeded[a].since \in Nat
    BY <1>1, <1>3, <2>1 DEF Market!Times
  <2>3. lost'[a] <= now
    BY <1>1, <1>8 DEF PriceInv, SinceLost
  <2> QED
    BY <1>1, <1>4, <2>1, <2>2, <2>3
<1> QED
  BY <1>8, <1>9, <1>10, <1>11, <1>12

\* A refresh that a step leaves alone.
LEMMA Unmoved ==
  ASSUME NEW w \in Market!Workers, WorkTyped(w), Late(w),
         work'[w] = work[w], now' = now, lost'[w[2]] \in {None, lost[w[2]]}
  PROVE  WorkTyped(w)' /\ Late(w)'
BY DEF WorkTyped, Late, Dated

\* The beginning and the end of a round.
LEMMA RoundSteps == PriceInv /\ (Market!RoundStarts \/ Market!RoundEnds) => PriceInv'
<1> SUFFICES ASSUME PriceInv, Market!RoundStarts \/ Market!RoundEnds PROVE PriceInv'
  OBVIOUS
<1>1. UNCHANGED <<now, mode, entry, rows, editor, lost>>
  BY DEF Market!RoundStarts, Market!RoundEnds
<1>2. Believed' /\ EditorTyped' /\ SinceLost'
  BY <1>1 DEF PriceInv, Believed, EditorTyped, SinceLost, Dated
<1>3. /\ now \in Nat /\ Interval \in Nat /\ SystemicWindow \in Nat /\ systemic \in Nat /\ Slow \in Nat
      /\ due \in [Accounts -> Nat \cup {None}] /\ failures \in [Accounts -> Nat] /\ round \subseteq Accounts
      /\ None \notin Nat /\ mode \in [Accounts -> Modes]
  BY JobsAssumption DEF Market!PriceAssumption, PriceInv, Market!TypeOK, Market!Times
<1>4. \A level \in Nat : Market!Wait(level) \in Nat
  <2> SUFFICES ASSUME NEW level \in Nat PROVE Market!Wait(level) \in Nat
    OBVIOUS
  <2>1. Backoff \in Seq(Nat) /\ Len(Backoff) \in Nat /\ Len(Backoff) # 0
    BY JobsAssumption DEF Market!PriceAssumption
  <2>2. (IF level < Len(Backoff) THEN level + 1 ELSE Len(Backoff)) \in 1..Len(Backoff)
    BY <2>1
  <2> QED
    BY <2>1, <2>2 DEF Market!Wait
<1>5. ASSUME NEW w \in Market!Workers, work'[w] = Market!Idle \/ work'[w] = work[w]
      PROVE  WorkTyped(w)' /\ Late(w)'
  <2>1. CASE work'[w] = Market!Idle
    BY <2>1 DEF WorkTyped, Late, Market!Idle, Underway
  <2>2. CASE work'[w] = work[w]
    BY <1>1, <2>2, Unmoved DEF PriceInv, Refreshes
  <2> QED
    BY <1>5, <2>1, <2>2
<1>6. CASE Market!RoundStarts
  <2> DEFINE ready == {a \in Market!Automatic : Market!Scheduled(a) <= now}
  <2>1. /\ due' = [a \in Accounts |-> IF a \in Market!Automatic THEN Market!Scheduled(a) ELSE due[a]]
        /\ round' = ready /\ UNCHANGED <<systemic, failures>>
        /\ work' = [w \in Market!Workers |-> IF w[1] = "round" /\ w[2] \in ready
                                             THEN Market!Asking(w[2]) ELSE work[w]]
    BY <1>6 DEF Market!RoundStarts
  <2>2. ready \subseteq Accounts
    BY DEF Market!Automatic
  <2>3. \A a \in Accounts : Market!Scheduled(a) \in Nat
    BY <1>3 DEF Market!Scheduled
  <2>4. due' \in [Accounts -> Nat \cup {None}]
    BY <1>3, <2>1, <2>3
  <2>5. ASSUME NEW w \in Market!Workers
        PROVE  /\ WorkTyped(w)' /\ Late(w)'
               /\ work'[w].pc \in {"idle", "probe", "save", "put", "done"}
    <3>1. CASE w[1] = "round" /\ w[2] \in ready
      <4>1. work'[w] = Market!Asking(w[2])
        BY <2>1, <3>1
      <4>2. /\ work'[w].pc = "probe" /\ work'[w].at = now /\ work'[w].mode = mode[w[2]]
             /\ DOMAIN work'[w] = {"pc", "at", "mode", "ok", "new"}
        BY <4>1 DEF Market!Asking
      <4> QED
        BY <1>1, <1>3, <2>2, <3>1, <4>2 DEF WorkTyped, Late, Underway
    <3>2. CASE ~(w[1] = "round" /\ w[2] \in ready)
      BY <1>5, <2>1, <3>2 DEF PriceInv, Market!TypeOK
    <3> QED
      BY <3>1, <3>2
  <2> HIDE DEF ready
  <2>6. Refreshes'
    BY <2>1, <2>5 DEF Refreshes, Market!Workers
  <2>7. Market!TypeOK'
    BY <1>1, <2>1, <2>2, <2>4, <2>5 DEF PriceInv, Market!TypeOK, Market!Workers
  <2> QED
    BY <1>2, <2>6, <2>7 DEF PriceInv
<1>7. CASE Market!RoundEnds
  <2>1. /\ round # {} /\ \A a \in round : work[<<"round", a>>].pc = "done"
        /\ systemic' \in {systemic, 0, Market!Protected}
        /\ round' = {}
        /\ work' = [w \in Market!Workers |-> IF w[1] = "round" THEN Market!Idle ELSE work[w]]
    BY <1>7 DEF Market!RoundEnds
  <2>2. Market!Protected \in Nat
    <3>1. PICK a \in round : Market!Protected = work[<<"round", a>>].at + SystemicWindow
      BY <2>1 DEF Market!Protected
    <3>2. <<"round", a>> \in Market!Workers
      BY <1>3 DEF Market!Workers
    <3>3. work[<<"round", a>>].at \in 0..now
      BY <2>1, <3>2 DEF PriceInv, Refreshes, WorkTyped
    <3> QED
      BY <1>3, <3>1, <3>3
  <2>3. systemic' \in Nat
    BY <1>3, <2>1, <2>2
  <2>4. failures' \in [Accounts -> Nat]
    <3>1. failures' = [a \in Accounts |-> IF a \notin round THEN failures[a]
                                          ELSE IF a \in Market!Failed THEN failures[a] + 1 ELSE 0]
      BY <1>7 DEF Market!RoundEnds
    <3> QED
      BY <1>3, <3>1
  <2>5. due' \in [Accounts -> Nat \cup {None}]
    <3>1. due' = [a \in Accounts |-> IF a \notin round THEN due[a]
                    ELSE now + IF a \in Market!Failed THEN Market!Wait(failures[a]) ELSE Interval]
      BY <1>7 DEF Market!RoundEnds
    <3>2. \A a \in Accounts : Market!Wait(failures[a]) \in Nat
      BY <1>3, <1>4
    <3> QED
      BY <1>3, <3>1, <3>2
  <2>6. ASSUME NEW w \in Market!Workers
        PROVE  /\ WorkTyped(w)' /\ Late(w)'
               /\ work'[w].pc \in {"idle", "probe", "save", "put", "done"}
    <3>1. work'[w] = Market!Idle \/ work'[w] = work[w]
      BY <2>1
    <3> QED
      BY <1>5, <3>1 DEF PriceInv, Market!TypeOK, Market!Idle
  <2>7. Refreshes'
    BY <2>1, <2>6 DEF Refreshes, Market!Workers
  <2>8. Market!TypeOK'
    BY <1>1, <2>1, <2>3, <2>4, <2>5, <2>6 DEF PriceInv, Market!TypeOK, Market!Workers
  <2> QED
    BY <1>2, <2>7, <2>8 DEF PriceInv
<1> QED
  BY <1>6, <1>7

\* A step of one refresh: the others stay as they are.
LEMMA OneRefreshes ==
  ASSUME PriceInv, NEW w \in Market!Workers, NEW x, work' = [work EXCEPT ![w] = x], now' = now,
         x.pc \in {"idle", "probe", "save", "put", "done"}, WorkTyped(w)', Late(w)',
         \A v \in Market!Workers : v # w => lost'[v[2]] \in {None, lost[v[2]]}
  PROVE  /\ Refreshes'
         /\ \A v \in Market!Workers : work'[v].pc \in {"idle", "probe", "save", "put", "done"}
<1>1. DOMAIN work = Market!Workers /\ \A v \in Market!Workers : WorkTyped(v) /\ Late(v)
  BY DEF PriceInv, Refreshes
<1>2. ASSUME NEW v \in Market!Workers
      PROVE  /\ WorkTyped(v)' /\ Late(v)'
             /\ work'[v].pc \in {"idle", "probe", "save", "put", "done"}
  <2>1. CASE v = w
    BY <1>1, <2>1
  <2>2. CASE v # w
    <3>1. work'[v] = work[v]
      BY <2>2
    <3>2. WorkTyped(v)' /\ Late(v)'
      BY <1>1, <2>2, <3>1, Unmoved
    <3> QED
      BY <3>1, <3>2 DEF PriceInv, Market!TypeOK
  <2> QED
    BY <2>1, <2>2
<1>3. DOMAIN work' = Market!Workers
  BY <1>1
<1> QED
  BY <1>2, <1>3 DEF Refreshes, Market!Workers

LEMMA ByHandStep == ASSUME PriceInv, NEW a \in Accounts, Market!ByHand(a) PROVE PriceInv'
<1> DEFINE w == <<"hand", a>>
<1>1. w \in Market!Workers
  BY DEF Market!Workers
<1>2. /\ work' = [work EXCEPT ![w] = Market!Asking(a)]
      /\ UNCHANGED <<now, mode, entry, systemic, rows, due, failures, round, editor, lost>>
  BY DEF Market!ByHand
<1>3. now \in Nat /\ Slow \in Nat /\ mode[a] \in Modes /\ DOMAIN work = Market!Workers
  BY JobsAssumption DEF Market!PriceAssumption, PriceInv, Market!TypeOK, Market!Times, Refreshes
<1>4. /\ Market!Asking(a).pc = "probe" /\ Market!Asking(a).at = now /\ Market!Asking(a).mode = mode[a]
        /\ DOMAIN Market!Asking(a) = {"pc", "at", "mode", "ok", "new"}
  BY DEF Market!Asking
<1>5. work'[w] = Market!Asking(a)
  BY <1>1, <1>2, <1>3
<1>6. WorkTyped(w)' /\ Late(w)'
  BY <1>2, <1>3, <1>4, <1>5 DEF WorkTyped, Late, Underway
<1> HIDE DEF w
<1>7. Refreshes' /\ \A v \in Market!Workers : work'[v].pc \in {"idle", "probe", "save", "put", "done"}
  BY <1>1, <1>2, <1>4, <1>6, OneRefreshes
<1> QED
  BY <1>2, <1>7 DEF PriceInv, Believed, EditorTyped, SinceLost, Dated, Market!TypeOK, Market!Workers

\* What a refresh is going to write is known from the answer and the entry.
LEMMA AnsweredStep ==
  ASSUME PriceInv, NEW w \in Market!Workers, NEW ok \in BOOLEAN, NEW new, Market!Answered(w, ok, new),
         Dated(new),
         ~ok => new.since # None /\ (lost[w[2]] # None => new.since <= lost[w[2]] + Slow)
  PROVE  PriceInv'
<1>1. work[w].pc = "probe" /\ DOMAIN work = Market!Workers /\ WorkTyped(w)
  BY DEF Market!Answered, PriceInv, Refreshes
<1>2. /\ work' = [work EXCEPT ![w].pc = "save", ![w].ok = ok, ![w].new = new]
      /\ UNCHANGED <<now, mode, entry, systemic, rows, due, failures, round, editor, lost>>
  BY DEF Market!Answered
<1> DEFINE x == work'[w]
<1>3. work' = [work EXCEPT ![w] = x]
  BY <1>1, <1>2
<1>4. x = [work[w] EXCEPT !.pc = "save", !.ok = ok, !.new = new]
  BY <1>1, <1>2
<1>5. DOMAIN work[w] = {"pc", "at", "mode", "ok", "new"}
  BY <1>1 DEF WorkTyped, Underway
<1>6. /\ x.pc = "save" /\ x.ok = ok /\ x.new = new /\ x.at = work[w].at /\ x.mode = work[w].mode
      /\ DOMAIN x = {"pc", "at", "mode", "ok", "new"}
  BY <1>4, <1>5
<1>7. WorkTyped(w)'
  BY <1>1, <1>2, <1>6 DEF WorkTyped, Underway, Dated
<1>8. Late(w)'
  BY <1>2, <1>6 DEF Late
<1> HIDE DEF x
<1>9. Refreshes' /\ \A v \in Market!Workers : work'[v].pc \in {"idle", "probe", "save", "put", "done"}
  BY <1>2, <1>3, <1>6, <1>7, <1>8, OneRefreshes
<1> QED
  BY <1>2, <1>9 DEF PriceInv, Believed, EditorTyped, SinceLost, Dated, Market!TypeOK, Market!Workers

LEMMA SucceedsStep ==
  ASSUME PriceInv, NEW w \in Market!Workers, NEW price \in Prices, NEW peak \in Peaks,
         Market!Succeeds(w, price, peak)
  PROVE  PriceInv'
<1> DEFINE new == [price |-> price, source |-> work[w].mode, since |-> None, peak |-> peak]
<1>1. Market!Answered(w, TRUE, new)
  BY DEF Market!Succeeds
<1>2. work[w].mode \in Modes
  BY <1>1 DEF Market!Answered, PriceInv, Refreshes, WorkTyped, Underway
<1>3. peak \in BOOLEAN
  BY JobsAssumption DEF Market!PriceAssumption
<1>4. Dated(new)
  BY <1>2, <1>3 DEF Dated, Market!Entries
<1> HIDE DEF new
<1> QED
  BY <1>1, <1>4, AnsweredStep

\* A failure keeps the date of a price that is stale already.
LEMMA FailsStep == ASSUME PriceInv, NEW w \in Market!Workers, Market!Fails(w) PROVE PriceInv'
<1> DEFINE a == w[2]  e == entry[a]
           new == [e EXCEPT !.source = work[w].mode, !.since = Market!Since(w)]
<1>1. Market!Answered(w, FALSE, new)
  BY DEF Market!Fails
<1>2. a \in Accounts /\ Dated(e)
  BY DEF Market!Workers, PriceInv, Believed
<1>3. work[w].mode \in Modes /\ work[w].at \in 0..now
  BY <1>1 DEF Market!Answered, PriceInv, Refreshes, WorkTyped, Underway
<1>4. now \in Market!Times /\ MaxTime \in Nat /\ None \notin Nat /\ Slow \in Nat
  BY JobsAssumption DEF Market!PriceAssumption, PriceInv, Market!TypeOK
<1>5. \/ e.since = None /\ Market!Since(w) = work[w].at /\ lost[a] = None
      \/ e.since # None /\ Market!Since(w) = e.since
  BY <1>2 DEF Market!Since, PriceInv, SinceLost
<1>6. Market!Since(w) \in Market!Times /\ Market!Since(w) <= now
  BY <1>2, <1>3, <1>4, <1>5 DEF Dated, Market!Entries, Market!Times
<1>7. Market!Since(w) # None /\ (lost[a] # None => Market!Since(w) <= lost[a] + Slow)
  BY <1>2, <1>4, <1>5, <1>6 DEF PriceInv, SinceLost, Market!Times
<1>8. new \in Market!Entries /\ new.since = Market!Since(w)
  BY <1>2, <1>3, <1>6 DEF Dated, Market!Entries
<1>9. Dated(new)
  BY <1>6, <1>8 DEF Dated
<1> HIDE DEF new, e
<1> QED
  BY <1>1, <1>7, <1>8, <1>9, AnsweredStep

\* The row takes what the refresh is going to put.
LEMMA SaveStep == ASSUME PriceInv, NEW w \in Market!Workers, Market!Save(w) PROVE PriceInv'
<1> DEFINE a == w[2]  new == work[w].new
<1>1. work[w].pc = "save" /\ DOMAIN work = Market!Workers /\ WorkTyped(w) /\ Late(w) /\ a \in Accounts
  BY DEF Market!Save, PriceInv, Refreshes, Market!Workers
<1>2. /\ work' = [work EXCEPT ![w].pc = "put"]
      /\ rows' = rows \/ rows' = [rows EXCEPT ![a] = [new EXCEPT !.peak = FALSE]]
      /\ UNCHANGED <<now, mode, entry, systemic, due, failures, round, editor, lost>>
  BY DEF Market!Save
<1> DEFINE x == work'[w]
<1>3. work' = [work EXCEPT ![w] = x]
  BY <1>1, <1>2
<1>4. DOMAIN work[w] = {"pc", "at", "mode", "ok", "new"} /\ Dated(new)
  BY <1>1 DEF WorkTyped, Underway
<1>5. /\ x.pc = "put" /\ x.ok = work[w].ok /\ x.new = new /\ x.at = work[w].at
      /\ x.mode = work[w].mode /\ DOMAIN x = {"pc", "at", "mode", "ok", "new"}
  BY <1>1, <1>2, <1>4
<1>6. WorkTyped(w)' /\ Late(w)'
  BY <1>1, <1>2, <1>5 DEF WorkTyped, Late, Underway, Dated
<1>7. [new EXCEPT !.peak = FALSE] \in Market!Entries /\ Dated([new EXCEPT !.peak = FALSE])
      /\ ~[new EXCEPT !.peak = FALSE].peak
  BY <1>4 DEF Dated, Market!Entries
<1> HIDE DEF x, new
<1>8. Refreshes' /\ \A v \in Market!Workers : work'[v].pc \in {"idle", "probe", "save", "put", "done"}
  BY <1>2, <1>3, <1>5, <1>6, OneRefreshes
<1>9. ASSUME NEW b \in Accounts, rows'[b] # None
      PROVE  rows'[b] \in Market!Entries /\ ~rows'[b].peak /\ Dated(rows'[b])
  <2>1. rows'[b] = rows[b] \/ rows'[b] = [new EXCEPT !.peak = FALSE]
    BY <1>1, <1>2 DEF PriceInv, Believed
  <2>2. rows[b] # None => rows[b] \in Market!Entries /\ ~rows[b].peak /\ Dated(rows[b])
    BY DEF PriceInv, Believed, Market!TypeOK
  <2> QED
    BY <1>7, <1>9, <2>1, <2>2
<1>10. Believed'
  BY <1>2, <1>9 DEF PriceInv, Believed, Dated
<1>11. Market!TypeOK'
  BY <1>2, <1>8, <1>9 DEF PriceInv, Market!TypeOK, Market!Workers
<1> QED
  BY <1>2, <1>8, <1>10, <1>11 DEF PriceInv, EditorTyped, SinceLost, Dated

\* What is written was known when the refresh began or is no older than the refresh
\* may take: the two dates stay together.
LEMMA PutStep == ASSUME PriceInv, NEW w \in Market!Workers, Market!Put(w) PROVE PriceInv'
<1> DEFINE a == w[2]  new == work[w].new
           x == IF w[1] = "hand" THEN Market!Idle ELSE [pc |-> "done", ok |-> work[w].ok, at |-> work[w].at]
           l == IF work[w].ok THEN None ELSE IF lost[a] = None THEN work[w].at ELSE lost[a]
<1>1. work[w].pc = "put" /\ DOMAIN work = Market!Workers /\ WorkTyped(w) /\ Late(w) /\ a \in Accounts
  BY DEF Market!Put, PriceInv, Refreshes, Market!Workers
<1>2. /\ work' = [work EXCEPT ![w] = x]
      /\ entry' = [entry EXCEPT ![a] = new]
      /\ lost' = [lost EXCEPT ![a] = l]
      /\ UNCHANGED <<now, mode, rows, systemic, due, failures, round, editor>>
  BY DEF Market!Put
<1>3. /\ now \in Nat /\ now <= MaxTime /\ MaxTime \in Nat /\ None \notin Nat /\ Slow \in Nat
      /\ entry \in [Accounts -> Market!Entries] /\ lost \in [Accounts -> Market!Times \cup {None}]
  BY JobsAssumption DEF Market!PriceAssumption, PriceInv, Market!TypeOK, Market!Times
<1>4. /\ Dated(new) /\ work[w].at \in 0..now /\ now <= work[w].at + Slow
      /\ ~work[w].ok => new.since # None /\ (lost[a] # None => new.since <= lost[a] + Slow)
  BY <1>1 DEF WorkTyped, Underway, Late
<1>5. x.pc \in {"idle", "done"}
  BY DEF Market!Idle
<1>6. new \in Market!Entries /\ new.since \in Market!Times \cup {None}
  BY <1>4 DEF Dated, Market!Entries
<1>7. x.pc = "done" => x.at = work[w].at
  BY DEF Market!Idle
<1>8. \/ l = None
      \/ /\ l \in 0..now /\ lost[a] = l /\ new.since # None /\ new.since <= l + Slow
      \/ /\ l \in 0..now /\ lost[a] = None /\ new.since # None /\ now <= l + Slow
  <2>1. CASE work[w].ok
    BY <2>1
  <2>2. CASE ~work[w].ok /\ lost[a] = None
    BY <1>4, <2>2
  <2>3. CASE ~work[w].ok /\ lost[a] # None
    <3>1. lost[a] <= now /\ lost[a] \in Nat
      BY <1>1, <1>3, <2>3 DEF PriceInv, SinceLost, Market!Times
    <3> QED
      BY <1>3, <1>4, <2>3, <3>1
  <2> QED
    BY <2>1, <2>2, <2>3
<1> HIDE DEF x, l, new
<1>9. work'[w] = x /\ entry'[a] = new /\ lost'[a] = l
  BY <1>1, <1>2, <1>3
<1>10. ASSUME NEW v \in Market!Workers
       PROVE  /\ WorkTyped(v)' /\ Late(v)'
              /\ work'[v].pc \in {"idle", "probe", "save", "put", "done"}
  <2>1. CASE v = w
    BY <1>2, <1>4, <1>5, <1>7, <1>9, <2>1 DEF WorkTyped, Late, Underway
  <2>2. CASE v # w
    <3>1. work'[v] = work[v] /\ WorkTyped(v) /\ Late(v) /\ v[2] \in Accounts
      BY <1>2, <2>2 DEF PriceInv, Refreshes, Market!Workers
    <3>2. WorkTyped(v)'
      BY <1>2, <3>1 DEF WorkTyped, Dated
    <3>3. CASE lost'[v[2]] \in {None, lost[v[2]]}
      BY <1>2, <3>1, <3>3, Unmoved DEF PriceInv, Market!TypeOK
    <3>4. CASE lost'[v[2]] \notin {None, lost[v[2]]}
      <4>1. lost'[v[2]] = l /\ l \in 0..now /\ now <= l + Slow
        BY <1>2, <1>3, <1>8, <3>1, <3>4
      <4>2. work[v].pc \in {"save", "put"} /\ work[v].new.since # None => work[v].new.since <= l + Slow
        BY <1>3, <3>1, <4>1 DEF WorkTyped, Dated, Market!Entries, Market!Times
      <4>3. Late(v)'
        BY <3>1, <4>1, <4>2 DEF Late
      <4> QED
        BY <3>1, <3>2, <4>3 DEF PriceInv, Market!TypeOK
    <3> QED
      BY <3>3, <3>4
  <2> QED
    BY <2>1, <2>2
<1>11. Refreshes'
  BY <1>1, <1>2, <1>10 DEF Refreshes, Market!Workers
<1>12. SinceLost'
  <2> SUFFICES ASSUME NEW b \in Accounts, lost'[b] # None
               PROVE  lost'[b] <= now /\ entry'[b].since # None /\ entry'[b].since <= lost'[b] + Slow
    BY <1>2 DEF SinceLost
  <2>1. CASE b = a
    <3>1. l \in 0..now /\ new.since # None /\ (new.since <= l + Slow \/ now <= l + Slow)
      BY <1>8, <1>9, <2>1
    <3>2. new.since \in Nat /\ new.since <= now
      BY <1>3, <1>4, <1>6, <3>1 DEF Dated, Market!Times
    <3> QED
      BY <1>3, <1>9, <2>1, <3>1, <3>2
  <2>2. CASE b # a
    <3>1. lost'[b] = lost[b] /\ entry'[b] = entry[b]
      BY <1>2, <2>2
    <3> QED
      BY <3>1 DEF PriceInv, SinceLost
  <2> QED
    BY <2>1, <2>2
<1>13. Believed'
  <2>1. \A b \in Accounts : entry'[b] = entry[b] \/ entry'[b] = new
    BY <1>2, <1>3
  <2> QED
    BY <1>2, <1>4, <2>1 DEF PriceInv, Believed, Dated
<1>14. Market!TypeOK'
  <2>1. entry' \in [Accounts -> Market!Entries]
    BY <1>2, <1>3, <1>6
  <2>2. l \in Market!Times \cup {None}
    BY <1>3, <1>8 DEF Market!Times
  <2>3. lost' \in [Accounts -> Market!Times \cup {None}]
    BY <1>2, <1>3, <2>2
  <2> QED
    BY <1>2, <1>10, <2>1, <2>3 DEF PriceInv, Market!TypeOK, Market!Workers
<1> QED
  BY <1>2, <1>11, <1>12, <1>13, <1>14 DEF PriceInv, EditorTyped, Dated

\* A change of the configuration, and the rows it reads.
LEMMA EditSteps ==
  ASSUME PriceInv, Market!ReadRows \/ \E a \in Accounts, m \in Modes : Market!Edit(a, m)
  PROVE  PriceInv'
<1>1. UNCHANGED <<now, entry, systemic, rows, due, failures, round, work, lost>>
  BY DEF Market!ReadRows, Market!Edit
<1>2. Believed' /\ Refreshes' /\ SinceLost'
  BY <1>1 DEF PriceInv, Believed, Refreshes, SinceLost, WorkTyped, Late, Dated, Market!Workers
<1>3. mode \in [Accounts -> Modes]
  BY DEF PriceInv, Market!TypeOK
<1>4. CASE Market!ReadRows
  <2>1. /\ editor.pc = "accounts" /\ mode' = mode
        /\ editor' = [pc |-> "seed", account |-> editor.account, at |-> editor.at, modes |-> mode, rows |-> rows]
    BY <1>4 DEF Market!ReadRows
  <2>2. editor.account \in Accounts
    BY <2>1 DEF PriceInv, EditorTyped, Market!Idle
  <2>3. \A a \in Accounts : rows[a] # None => Dated(rows[a])
    BY DEF PriceInv, Believed
  <2>4. EditorTyped'
    BY <1>1, <1>3, <2>1, <2>2, <2>3 DEF EditorTyped, Dated
  <2> QED
    BY <1>1, <1>2, <2>1, <2>4 DEF PriceInv, Market!TypeOK, Market!Workers
<1>5. ASSUME NEW a \in Accounts, NEW m \in Modes, Market!Edit(a, m)
      PROVE  PriceInv'
  <2>1. /\ mode' = [mode EXCEPT ![a] = m]
        /\ editor' = [pc |-> "accounts", account |-> a, at |-> now]
    BY <1>5 DEF Market!Edit
  <2>2. EditorTyped' /\ mode' \in [Accounts -> Modes]
    BY <1>3, <2>1 DEF EditorTyped
  <2> QED
    BY <1>1, <1>2, <2>2 DEF PriceInv, Market!TypeOK, Market!Workers
<1> QED
  BY <1>4, <1>5

LEMMA ReseedStep == ASSUME PriceInv, Market!Reseed PROVE PriceInv'
<1>1. /\ editor.pc = "seed" /\ Market!Seed(editor.modes, editor.rows)
      /\ editor' = Market!Idle /\ UNCHANGED <<now, mode, systemic, rows, failures, round, work>>
      /\ due' = IF mode[editor.account] = "manual" THEN due ELSE [due EXCEPT ![editor.account] = now]
  BY DEF Market!Reseed
<1>2. /\ editor.modes \in [Accounts -> Modes]
      /\ \A a \in Accounts : editor.rows[a] # None => Dated(editor.rows[a])
  BY <1>1 DEF PriceInv, EditorTyped, Market!Idle
<1>3. /\ entry' \in [Accounts -> Market!Entries] /\ lost' \in [Accounts -> Market!Times \cup {None}]
      /\ \A a \in Accounts : Dated(entry[a])'
      /\ SinceLost'
      /\ \A a \in Accounts : lost'[a] \in {None, lost[a], now}
  BY <1>1, <1>2, SeedKeepsDates
<1>4. Believed' /\ EditorTyped'
  BY <1>1, <1>3 DEF PriceInv, Believed, EditorTyped, Dated
<1>5. now \in Nat /\ Slow \in Nat /\ None \notin Nat
  BY JobsAssumption DEF Market!PriceAssumption, PriceInv, Market!TypeOK, Market!Times
<1>6. ASSUME NEW w \in Market!Workers
      PROVE  WorkTyped(w)' /\ Late(w)'
  <2>1. WorkTyped(w) /\ Late(w) /\ w[2] \in Accounts
    BY DEF PriceInv, Refreshes, Market!Workers
  <2>2. CASE lost'[w[2]] \in {None, lost[w[2]]}
    BY <1>1, <2>1, <2>2, Unmoved
  <2>3. CASE lost'[w[2]] = now
    <3>1. work[w].pc \in {"save", "put"} /\ work[w].new.since # None => work[w].new.since <= now + Slow
      BY <1>5, <2>1 DEF WorkTyped, Dated, Market!Entries, Market!Times
    <3>2. Late(w)'
      BY <1>1, <2>1, <2>3, <3>1 DEF Late
    <3> QED
      BY <1>1, <2>1, <3>2 DEF WorkTyped, Dated
  <2> QED
    BY <1>3, <2>1, <2>2, <2>3
<1>7. Refreshes'
  BY <1>1, <1>6 DEF PriceInv, Refreshes, Market!Workers
<1>8. due' \in [Accounts -> Nat \cup {None}]
  BY <1>1, <1>5 DEF PriceInv, Market!TypeOK
<1> QED
  BY <1>1, <1>3, <1>4, <1>7, <1>8 DEF PriceInv, Market!TypeOK, Market!Workers

LEMMA RestartStep == ASSUME PriceInv, Market!Restart PROVE PriceInv'
<1>1. /\ Market!Seed(mode, rows) /\ UNCHANGED <<now, mode, rows>>
      /\ systemic' = 0 /\ round' = {} /\ work' = [w \in Market!Workers |-> Market!Idle]
      /\ editor' = Market!Idle
      /\ due' = [a \in Accounts |-> None] /\ failures' = [a \in Accounts |-> 0]
  BY DEF Market!Restart
<1>2. /\ mode \in [Accounts -> Modes]
      /\ \A a \in Accounts : rows[a] # None => Dated(rows[a])
  BY DEF PriceInv, Believed, Market!TypeOK
<1>3. /\ entry' \in [Accounts -> Market!Entries] /\ lost' \in [Accounts -> Market!Times \cup {None}]
      /\ \A a \in Accounts : Dated(entry[a])'
      /\ SinceLost'
  BY <1>1, <1>2, SeedKeepsDates
<1>4. Believed' /\ EditorTyped'
  BY <1>1, <1>3 DEF PriceInv, Believed, EditorTyped, Dated
<1>5. Refreshes'
  BY <1>1 DEF Refreshes, WorkTyped, Late, Market!Idle, Underway, Market!Workers
<1> QED
  BY <1>1, <1>3, <1>4, <1>5 DEF PriceInv, Market!TypeOK, Market!Workers, Market!Idle

\* Time passes only as long as every refresh is within what it may take.
LEMMA TickStep == ASSUME PriceInv, Market!Tick PROVE PriceInv'
<1>1. /\ now < MaxTime /\ now' = now + 1
      /\ \A w \in Market!Workers : work[w].pc \notin {"idle", "done"} => now < work[w].at + Slow
      /\ UNCHANGED <<mode, entry, systemic, rows, due, failures, round, work, editor, lost>>
  BY DEF Market!Tick
<1>2. now \in Nat /\ Slow \in Nat /\ None \notin Nat /\ MaxTime \in Nat
  BY JobsAssumption DEF Market!PriceAssumption, PriceInv, Market!TypeOK, Market!Times
<1>3. ASSUME NEW e, Dated(e) PROVE Dated(e)'
  BY <1>1, <1>2, <1>3 DEF Dated, Market!Entries, Market!Times
<1>4. ASSUME NEW w \in Market!Workers
      PROVE  WorkTyped(w)' /\ Late(w)'
  <2>1. WorkTyped(w) /\ Late(w) /\ work' = work /\ lost' = lost
    BY <1>1 DEF PriceInv, Refreshes
  <2>2. work[w].pc # "idle" => work[w].at \in 0..now'
    BY <1>1, <1>2, <2>1 DEF WorkTyped
  <2>3. work[w].pc \in Underway => now' <= work[w].at + Slow
    BY <1>1, <1>2, <2>1, <2>2 DEF WorkTyped, Underway
  <2>4. work[w].pc \in {"save", "put"} => Dated(work[w].new)'
    BY <1>3, <2>1 DEF WorkTyped, Dated
  <2> QED
    BY <2>1, <2>2, <2>3, <2>4 DEF WorkTyped, Late, Dated
<1>5. Refreshes'
  BY <1>1, <1>4 DEF PriceInv, Refreshes, Market!Workers
<1>6. Believed'
  BY <1>1, <1>3 DEF PriceInv, Believed, Dated
<1>7. EditorTyped'
  BY <1>1, <1>3 DEF PriceInv, EditorTyped, Dated
<1>8. SinceLost'
  BY <1>1, <1>2 DEF PriceInv, SinceLost, Market!TypeOK, Market!Times
<1> QED
  BY <1>1, <1>2, <1>5, <1>6, <1>7, <1>8 DEF PriceInv, Market!TypeOK, Market!Workers, Market!Times

LEMMA PricesBegin == Market!Init => PriceInv
<1> SUFFICES ASSUME Market!Init PROVE PriceInv
  OBVIOUS
<1>1. /\ now = 0 /\ systemic = 0 /\ mode \in [Accounts -> {"sub2api"}]
      /\ rows = [a \in Accounts |-> None] /\ entry = Market!Seeded(mode, rows)
      /\ due = [a \in Accounts |-> None] /\ failures = [a \in Accounts |-> 0]
      /\ round = {} /\ work = [w \in Market!Workers |-> Market!Idle] /\ editor = Market!Idle
      /\ lost = [a \in Accounts |-> entry[a].since]
  BY DEF Market!Init
<1>2. now \in Market!Times /\ "sub2api" \in Modes /\ Slow \in Nat
  BY <1>1, JobsAssumption DEF Market!PriceAssumption, Market!Times
<1>3. ASSUME NEW a \in Accounts
      PROVE  entry[a] = [price |-> Initial, source |-> "sub2api", since |-> 0, peak |-> FALSE]
  <2>1. mode[a] = "sub2api" /\ rows[a] = None
    BY <1>1
  <2>2. entry[a] = Market!Stated(a, mode)
    BY <1>1, <2>1 DEF Market!Seeded
  <2> QED
    BY <1>1, <2>1, <2>2 DEF Market!Stated
<1>4. \A a \in Accounts : entry[a] \in Market!Entries /\ entry[a].since = 0
  <2>1. 0 \in Market!Times
    BY <1>1, <1>2
  <2> DEFINE e == [price |-> Initial, source |-> "sub2api", since |-> 0, peak |-> FALSE]
  <2>2. e \in Market!Entries /\ e.since = 0
    BY <1>2, <2>1 DEF Market!Entries
  <2> HIDE DEF e
  <2>3. \A a \in Accounts : entry[a] = e
    BY <1>3 DEF e
  <2> QED
    BY <2>2, <2>3
<1>5. DOMAIN entry = Accounts /\ entry \in [Accounts -> Market!Entries]
  BY <1>1, <1>4 DEF Market!Seeded
<1>6. Believed /\ EditorTyped /\ SinceLost
  BY <1>1, <1>2, <1>4 DEF Believed, EditorTyped, SinceLost, Dated
<1>7. Refreshes
  BY <1>1 DEF Refreshes, WorkTyped, Late, Market!Idle, Underway
<1> QED
  BY <1>1, <1>2, <1>4, <1>5, <1>6, <1>7 DEF PriceInv, Market!TypeOK, Market!Idle

LEMMA PricesGoOn == PriceInv /\ Market!Next => PriceInv'
BY RoundSteps, ByHandStep, SucceedsStep, FailsStep, SaveStep, PutStep, EditSteps, ReseedStep,
   RestartStep, TickStep DEF Market!Next

\* A price that cannot be confirmed is out of use after the longest grace period
\* and what one refresh takes: for any number of accounts, whatever fails, however
\* the round, the refreshes by hand, the edits and the restarts interleave.
THEOREM GraceAlwaysEnds == JobsSpec => []GraceEnds
<1> DEFINE Inv == part = "prices" => PriceInv
<1>1. JobsInit => Inv
  BY PricesBegin DEF JobsInit
<1>2. Inv /\ [JobsNext]_jobVars => Inv'
  <2> SUFFICES ASSUME Inv, [JobsNext]_jobVars, part' = "prices" PROVE PriceInv'
    OBVIOUS
  <2>1. CASE part = "prices" /\ Market!Next
    BY <2>1, PricesGoOn
  <2>2. CASE UNCHANGED priceVars /\ part = "prices"
    BY <2>2 DEF priceVars, PriceInv, Believed, Refreshes, EditorTyped, SinceLost, WorkTyped, Late,
                Dated, Market!TypeOK, Market!Workers
  <2> QED
    BY <2>1, <2>2 DEF JobsNext, jobVars
<1>3. Inv => GraceEnds
  BY UnconfirmedIsDropped DEF GraceEnds, PriceInv
<1> QED
  BY <1>1, <1>2, <1>3, PTL DEF JobsSpec
-----------------------------------------------------------------------------
(* The conversations.  The properties are not inductive.  They rest on what *)
(* a row says of the turn it belongs to (RowOf), on what a turn took from   *)
(* the row it refers to (TurnOf), and on this: once the id of a response    *)
(* has been shown, where it was made and what was said do not change any    *)
(* more (Stays).  Between the write of the row and the answer a turn is     *)
(* Written without being shown: an attempt that fails there leaves nothing  *)
(* that another turn can name.                                              *)
TurnPcs == {"idle"} \cup Chains!Early \cup Chains!Late \cup Chains!Done

Written(t) == turn[t].pc = "answer" \/ Chains!Shown(t)

\* A row is there only if the answer of its turn has come, its write precedes the answer, and it
\* has nothing but its own turn in it.
RowOf(r) ==
  /\ ~Written(r) => stored[r] \in Chains!Gaps
  /\ Written(r) => stored[r].is # "never"
  /\ stored[r].parts \subseteq {Chains!Asked(r), Chains!Answered(r)}
  /\ stored[r].parts # {} => turn[r].keeps /\ Chains!Asked(r) \in stored[r].parts
  /\ stored[r].native => stored[r].owner = turn[r].at /\ turn[r].at \in Native

TurnOf(t) ==
  /\ turn[t].ref # None => Chains!Shown(turn[t].ref)
  /\ turn[t].pc \in {"called", "record"} \/ Written(t) =>
       Chains!Asked(t) \in turn[t].ctx /\ turn[t].at # None /\ turn[t].with # None
  /\ turn[t].pc = "record" \/ Written(t) => (turn[t].named => turn[t].at \in Native)
  /\ turn[t].pinned # None => turn[t].ref # None /\ turn[t].pinned = turn[turn[t].ref].at
  /\ turn[t].replay # {} => turn[t].ref # None /\ Chains!Asked(turn[t].ref) \in turn[t].replay
  /\ turn[t].ref # None /\ turn[t].ctx # {} => Chains!Asked(turn[t].ref) \in turn[t].ctx

ChainInv == Chains!TypeOK /\ \A t \in Chains!Turns : RowOf(t) /\ TurnOf(t)

Stays(u) ==
  Chains!Shown(u) => /\ Chains!Shown(u)'
              /\ turn'[u].at = turn[u].at
              /\ turn'[u].ctx = turn[u].ctx
              /\ turn'[u].keeps = turn[u].keeps

-----------------------------------------------------------------------------
LEMMA ChainConstants ==
  /\ None \notin Chains!Turns
  /\ \A a \in Hosts : KeysOf[a] \subseteq Keys
  /\ Native \subseteq Hosts /\ None \notin Hosts /\ None \notin Keys
  BY JobsAssumption DEF Chains!ChainAssumption, Chains!Turns

\* What a turn asked is told apart from all that others asked or were answered.
LEMMA PartsDiffer ==
  ASSUME NEW t \in Chains!Turns
  PROVE  /\ Chains!Asked(t) \in Chains!Parts /\ Chains!Answered(t) \in Chains!Parts
         /\ \A r \in Chains!Turns : Chains!Asked(t) \in {Chains!Asked(r), Chains!Answered(r)} => t = r
         /\ \A r \in Chains!Turns : Chains!Answered(t) \in {Chains!Asked(r), Chains!Answered(r)} => t = r
  BY DEF Chains!Asked, Chains!Answered, Chains!Parts

\* The fields of turns and rows, as the provers like to have them.
LEMMA TurnFields ==
  ASSUME NEW v \in Chains!Plans
  PROVE  /\ v.ref \in Chains!Turns \cup {None}
         /\ v.pinned \in Native \cup {None}
         /\ v.replay \in SUBSET Chains!Parts /\ v.ctx \in SUBSET Chains!Parts
         /\ v.blamed \in SUBSET Hosts
         /\ v.at \in Hosts \cup {None} /\ v.with \in Keys \cup {None}
  BY DEF Chains!Plans

\* The rows that are not there have nothing in them.
LEMMA GapFields ==
  ASSUME NEW w \in Chains!Gaps
  PROVE  w.parts = {} /\ w.native = FALSE /\ w.is \in Chains!Absences
  BY DEF Chains!Gaps, Chains!Lacks

LEMMA GapsAre ==
  /\ Chains!NoRow \in Chains!Gaps /\ Chains!NoRow.is = "never"
  /\ Chains!Lacks("failed") \in Chains!Gaps /\ Chains!Lacks("failed").is = "failed"
  /\ Chains!Lacks("removed") \in Chains!Gaps /\ Chains!Lacks("removed").is = "removed"
  BY DEF Chains!Gaps, Chains!NoRow, Chains!Lacks, Chains!Absences

LEMMA RowFields ==
  ASSUME NEW w \in Chains!Rows \cup Chains!Gaps
  PROVE  /\ w.parts \in SUBSET Chains!Parts
         /\ w.native => w.owner \in Hosts
  <1>1. CASE w \in Chains!Gaps
    BY <1>1, GapFields
  <1>2. CASE w \in Chains!Rows
    BY <1>2 DEF Chains!Rows
  <1>3. QED
    BY <1>1, <1>2

\* Only a row that is there is found.
LEMMA FoundIsThere ==
  ASSUME Chains!TypeOK, NEW t \in Chains!Turns, stored[t].is \notin Chains!Absences
  PROVE  stored[t] \in Chains!Rows
  <1>1. stored[t] \in Chains!Rows \cup Chains!Gaps
    BY DEF Chains!TypeOK
  <1>2. QED
    BY <1>1, GapFields

LEMMA PlansBegin == Chains!Unborn \in Chains!Plans /\ (Chains!Init => Chains!TypeOK)
  <1>1. Chains!Unborn \in Chains!Plans
    BY ChainConstants DEF Chains!Unborn, Chains!Plans
  <1>2. ASSUME Chains!Init PROVE Chains!TypeOK
    BY <1>1, <1>2, GapsAre, JobsAssumption DEF Chains!ChainAssumption, Chains!Init, Chains!TypeOK,
       Chains!Idle
  <1>3. QED
    BY <1>1, <1>2

LEMMA MovedTyped ==
  ASSUME Chains!TypeOK, NEW t \in Chains!Turns, NEW to \in TurnPcs
  PROVE  [turn EXCEPT ![t].pc = to] \in [Chains!Turns -> Chains!Plans]
  <1>1. turn[t] \in Chains!Plans
    BY DEF Chains!TypeOK
  <1>2. [turn[t] EXCEPT !.pc = to] \in Chains!Plans
    BY <1>1 DEF Chains!Plans, TurnPcs
  <1>3. QED
    BY <1>2 DEF Chains!TypeOK

LEMMA LeftTyped ==
  ASSUME Chains!TypeOK, NEW t \in Chains!Turns, NEW to \in TurnPcs
  PROVE  Chains!Left(t, to) \in Chains!Plans
  <1>1. turn[t] \in Chains!Plans
    BY DEF Chains!TypeOK
  <1>2. [Chains!Unborn EXCEPT !.pc = to] \in Chains!Plans
    BY DEF Chains!Unborn, Chains!Plans, TurnPcs
  <1>3. [turn[t] EXCEPT !.pc = to, !.pinned = None, !.replay = {}, !.blamed = {}] \in Chains!Plans
    BY <1>1 DEF Chains!Plans, TurnPcs
  <1>4. QED
    BY <1>2, <1>3 DEF Chains!Left

LEMMA RecordTyped ==
  ASSUME Chains!TypeOK, NEW t \in Chains!Turns, NEW parts \in SUBSET Chains!Parts,
         turn[t].at # None, turn[t].with # None
  PROVE  Chains!Record(t, parts) \in [Chains!Turns -> Chains!Rows \cup Chains!Gaps]
  <1>1. turn[t] \in Chains!Plans
    BY DEF Chains!TypeOK
  <1>2. turn[t].at \in Hosts /\ turn[t].with \in Keys
    BY <1>1, TurnFields
  <1>3. Chains!Seals(t, parts) \in SUBSET Chains!Parts
    BY DEF Chains!Seals
  <1>4. turn[t].named \in BOOLEAN
    BY <1>1 DEF Chains!Plans
  <1>5. [owner |-> turn[t].at, key |-> turn[t].with, native |-> turn[t].named,
         parts |-> Chains!Seals(t, parts), is |-> "live"] \in Chains!Rows
    BY <1>2, <1>3, <1>4 DEF Chains!Rows
  <1>6. QED
    BY <1>5 DEF Chains!Record, Chains!TypeOK

-----------------------------------------------------------------------------
\* A step that changes one turn and its row cannot harm the others.
LEMMA OneTurn ==
  ASSUME ChainInv, Chains!TypeOK', NEW t \in Chains!Turns,
         \A u \in Chains!Turns : u # t => turn'[u] = turn[u] /\ stored'[u] = stored[u],
         Stays(t), RowOf(t)', TurnOf(t)'
  PROVE  ChainInv'
  <1>1. \A u \in Chains!Turns : Stays(u)
    BY DEF Stays, Chains!Shown
  <1>2. ASSUME NEW u \in Chains!Turns, u # t PROVE RowOf(u)'
    <2>1. RowOf(u) /\ turn'[u] = turn[u] /\ stored'[u] = stored[u]
      BY <1>2 DEF ChainInv
    <2>2. QED
      BY <2>1 DEF RowOf, Written, Chains!Shown, Chains!Asked, Chains!Answered
  <1>3. ASSUME NEW u \in Chains!Turns, u # t PROVE TurnOf(u)'
    <2>1. TurnOf(u) /\ turn'[u] = turn[u] /\ turn[u] \in Chains!Plans
      BY <1>3 DEF ChainInv, Chains!TypeOK
    <2>2. turn[u].ref # None => turn[u].ref \in Chains!Turns
      BY <2>1, TurnFields
    <2>3. turn[u].ref # None =>
            Chains!Shown(turn[u].ref)' /\ turn'[turn[u].ref].at = turn[turn[u].ref].at
      BY <1>1, <2>1, <2>2 DEF TurnOf, Stays
    <2>4. QED
      BY <2>1, <2>3 DEF TurnOf, Written, Chains!Shown, Chains!Asked
  <1>4. QED
    BY <1>2, <1>3 DEF ChainInv

\* A turn whose id was not shown refers to another one.
LEMMA NotShown ==
  ASSUME ChainInv, NEW t \in Chains!Turns, ~Chains!Shown(t)
  PROVE  /\ Stays(t)
         /\ turn[t].ref # None => /\ turn[t].ref \in Chains!Turns /\ turn[t].ref # t
                                 /\ Chains!Shown(turn[t].ref)
  <1>1. TurnOf(t) /\ turn[t] \in Chains!Plans
    BY DEF ChainInv, Chains!TypeOK
  <1>2. turn[t].ref \in Chains!Turns \cup {None}
    BY <1>1, TurnFields
  <1>3. QED
    BY <1>1, <1>2 DEF TurnOf, Stays

\* Before its answer a turn has no row.
LEMMA NotWritten ==
  ASSUME ChainInv, NEW t \in Chains!Turns, ~Written(t)
  PROVE  ~Chains!Shown(t) /\ stored[t] \in Chains!Gaps
  BY DEF ChainInv, RowOf, Written

LEMMA EmptyRow ==
  ASSUME NEW r \in Chains!Turns, stored'[r] \in Chains!Gaps,
         ~Written(r)' \/ stored'[r].is # "never"
  PROVE  RowOf(r)'
  <1>1. stored'[r].parts = {} /\ stored'[r].native = FALSE
    BY GapFields
  <1>2. QED
    BY <1>1 DEF RowOf

-----------------------------------------------------------------------------
(* resolve_request *)

LEMMA OpensKeeps ==
  ASSUME ChainInv, NEW t \in Chains!Turns, NEW keeps \in BOOLEAN, NEW streams \in StreamModes,
         Chains!Opens(t, keeps, streams)
  PROVE  ChainInv'
  <1> DEFINE new == [Chains!Unborn EXCEPT !.pc = "walk", !.keeps = keeps, !.streams = streams]
  <1>1. /\ turn[t].pc = "idle" /\ Chains!TypeOK
        /\ turn' = [turn EXCEPT ![t] = new]
        /\ stored' = stored /\ deleter' = deleter /\ slips' = slips
    BY DEF Chains!Opens, Chains!Begins, ChainInv
  <1>2. ~Written(t) /\ ~Chains!Shown(t)
    BY <1>1 DEF Written, Chains!Shown, Chains!Late
  <1>3. new \in Chains!Plans
    BY JobsAssumption DEF Chains!ChainAssumption, Chains!Unborn, Chains!Plans, Chains!Early
  <1>4. turn'[t] = new /\ Chains!TypeOK'
    BY <1>1, <1>3 DEF Chains!TypeOK
  <1>5. RowOf(t)'
    <2>1. ~Written(t)'
      BY <1>4 DEF Written, Chains!Unborn, Chains!Shown, Chains!Late
    <2>2. QED
      BY <1>1, <1>2, <2>1, NotWritten, EmptyRow
  <1>6. TurnOf(t)'
    BY <1>4 DEF TurnOf, Written, Chains!Unborn, Chains!Shown, Chains!Late
  <1>7. QED
    BY <1>1, <1>2, <1>4, <1>5, <1>6, NotShown, OneTurn DEF Chains!TypeOK

LEMMA HomeIsThere ==
  ASSUME ChainInv, NEW r \in Chains!Turns
  PROVE  /\ Chains!Home(r) \in Native \cup {None}
         /\ Chains!Home(r) # None => Chains!Home(r) = turn[r].at
         /\ stored[r].parts # {} => Chains!Asked(r) \in stored[r].parts
  BY DEF ChainInv, RowOf, Chains!Home

LEMMA ContinuesKeeps ==
  ASSUME ChainInv, NEW t \in Chains!Turns, NEW r \in Chains!Turns, NEW keeps \in BOOLEAN, NEW streams \in StreamModes,
         Chains!Continues(t, r, keeps, streams)
  PROVE  ChainInv'
  <1> DEFINE new ==
        [Chains!Unborn EXCEPT !.pc = "walk", !.ref = r, !.keeps = keeps, !.streams = streams,
                       !.pinned = Chains!Home(r), !.replay = stored[r].parts]
  <1>1. /\ turn[t].pc = "idle" /\ Chains!Shown(r) /\ Chains!TypeOK
        /\ turn' = [turn EXCEPT ![t] = IF Chains!Home(r) = None /\ stored[r].parts = {}
                                          THEN Chains!Left(t, "failed") ELSE new]
        /\ stored' = stored /\ deleter' = deleter /\ slips' = slips
    BY DEF Chains!Continues, Chains!Begins, ChainInv
  <1>2. ~Written(t) /\ ~Chains!Shown(t)
    BY <1>1 DEF Written, Chains!Shown, Chains!Late
  <1>3. new \in Chains!Plans
    <2>1. Chains!Home(r) \in Native \cup {None} /\ stored[r].parts \in SUBSET Chains!Parts
      BY <1>1, HomeIsThere, RowFields DEF Chains!TypeOK
    <2>2. QED
      BY <2>1, JobsAssumption DEF Chains!ChainAssumption, Chains!Unborn, Chains!Plans, Chains!Early
  <1>4. turn'[t] \in {Chains!Left(t, "failed"), new} /\ Chains!TypeOK'
    <2>1. Chains!Left(t, "failed") \in Chains!Plans
      BY <1>1, LeftTyped DEF TurnPcs, Chains!Done
    <2>2. QED
      BY <1>1, <1>3, <2>1 DEF Chains!TypeOK
  <1>5. RowOf(t)'
    <2>1. ~Written(t)'
      BY <1>4 DEF Written, Chains!Left, Chains!Unborn, Chains!Shown, Chains!Late
    <2>2. QED
      BY <1>1, <1>2, <2>1, NotWritten, EmptyRow
  <1>6. TurnOf(t)'
    <2>1. CASE turn'[t] = Chains!Left(t, "failed")
      BY <2>1 DEF TurnOf, Written, Chains!Left, Chains!Unborn, Chains!Shown, Chains!Late
    <2>2. CASE turn'[t] = new
      <3>1. r # t /\ turn'[r] = turn[r]
        BY <1>1, <1>2
      <3>2. /\ turn'[t].pc = "walk" /\ turn'[t].ref = r /\ turn'[t].ctx = {}
            /\ turn'[t].pinned = Chains!Home(r) /\ turn'[t].replay = stored[r].parts
        BY <2>2 DEF Chains!Unborn
      <3>3. QED
        BY <1>1, <3>1, <3>2, HomeIsThere, ChainConstants DEF TurnOf, Written, Chains!Shown,
           Chains!Late, Chains!Asked
    <2>3. QED
      BY <1>4, <2>1, <2>2
  <1>7. QED
    BY <1>1, <1>2, <1>4, <1>5, <1>6, NotShown, OneTurn DEF Chains!TypeOK

\* A handler that is left without a response leaves a turn that is nobody's.
LEMMA QuitKeeps ==
  ASSUME ChainInv, NEW t \in Chains!Turns, ~Chains!Shown(t), NEW to \in {"failed", "gone"},
         turn' = [turn EXCEPT ![t] = Chains!Left(t, to)],
         \/ stored' = stored /\ stored[t] \in Chains!Gaps
         \/ stored' = [stored EXCEPT ![t] = Chains!NoRow],
         deleter' = deleter, slips' = slips
  PROVE  ChainInv'
  <1>1. Chains!TypeOK' /\ stored'[t] \in Chains!Gaps
    BY LeftTyped, GapsAre DEF ChainInv, Chains!TypeOK, TurnPcs, Chains!Done
  <1>2. turn'[t] = Chains!Left(t, to)
    BY DEF ChainInv, Chains!TypeOK
  <1>3. RowOf(t)'
    <2>1. ~Written(t)'
      BY <1>2 DEF Written, Chains!Left, Chains!Unborn, Chains!Shown, Chains!Late
    <2>2. QED
      BY <1>1, <2>1, EmptyRow
  <1>4. TurnOf(t)'
    BY <1>2 DEF TurnOf, Written, Chains!Left, Chains!Unborn, Chains!Shown, Chains!Late
  <1>5. QED
    BY <1>1, <1>3, <1>4, NotShown, OneTurn DEF ChainInv, Chains!TypeOK

-----------------------------------------------------------------------------
(* The walk *)

LEMMA CallKeeps ==
  ASSUME ChainInv, NEW t \in Chains!Turns, NEW a \in Hosts, NEW k \in Keys, Chains!Call(t, a, k)
  PROVE  ChainInv'
  <1> DEFINE r == turn[t].ref
  <1>1. /\ turn[t].pc = "walk" /\ Chains!HasHistory(t, a) /\ Chains!TypeOK /\ turn[t] \in Chains!Plans
        /\ stored' = stored /\ deleter' = deleter /\ slips' = slips /\ TurnOf(t)
    BY DEF Chains!Call, ChainInv, Chains!TypeOK
  <1>2. turn' = [turn EXCEPT ![t] = [turn[t] EXCEPT !.pc = "called", !.at = a, !.with = k,
                                                    !.ctx = Chains!Context(t, a)]]
    BY DEF Chains!Call
  <1>3. ~Written(t) /\ ~Chains!Shown(t)
    BY <1>1 DEF Written, Chains!Shown, Chains!Late
  <1>4. r # None => r \in Chains!Turns /\ r # t /\ Chains!Shown(r) /\ TurnOf(r) /\ turn[r] \in Chains!Plans
    BY <1>1, <1>3, NotShown DEF ChainInv, Chains!TypeOK
  <1>5. Chains!Context(t, a) \in SUBSET Chains!Parts
    BY <1>1, <1>4, TurnFields, PartsDiffer DEF Chains!Context
  <1>6. Chains!TypeOK'
    <2>1. [turn[t] EXCEPT !.pc = "called", !.at = a, !.with = k, !.ctx = Chains!Context(t, a)] \in Chains!Plans
      BY <1>1, <1>5 DEF Chains!Plans, Chains!Early
    <2>2. QED
      BY <1>1, <1>2, <2>1 DEF Chains!TypeOK
  <1>7. /\ turn'[t].pc = "called" /\ turn'[t].at = a /\ turn'[t].with = k
        /\ turn'[t].ctx = Chains!Context(t, a) /\ turn'[t].ref = r
        /\ turn'[t].pinned = turn[t].pinned /\ turn'[t].replay = turn[t].replay
    BY <1>1, <1>2 DEF Chains!TypeOK, Chains!Plans
  <1>8. RowOf(t)'
    <2>1. ~Written(t)'
      BY <1>7 DEF Written, Chains!Shown, Chains!Late
    <2>2. QED
      BY <1>1, <1>3, <2>1, NotWritten, EmptyRow
  <1>9. r # None => Chains!Asked(r) \in Chains!Context(t, a)
    <2>1. SUFFICES ASSUME r # None PROVE Chains!Asked(r) \in Chains!Context(t, a)
      OBVIOUS
    <2>2. CASE Chains!GoesOn(t, a)
      BY <1>4, <2>1, <2>2 DEF Chains!Context, TurnOf, Written
    <2>3. CASE ~Chains!GoesOn(t, a)
      BY <1>1, <2>1, <2>3 DEF Chains!Context, TurnOf, Chains!HasHistory
    <2>4. QED
      BY <2>2, <2>3
  <1>10. TurnOf(t)'
    <2>1. Chains!Asked(t) \in Chains!Context(t, a) /\ a # None /\ k # None
      BY ChainConstants DEF Chains!Context
    <2>2. r # None => turn'[r] = turn[r]
      BY <1>2, <1>4
    <2>3. QED
      BY <1>1, <1>4, <1>7, <1>9, <2>1, <2>2 DEF TurnOf, Written, Chains!Shown, Chains!Asked,
         Chains!Late
  <1>11. QED
    BY <1>1, <1>2, <1>3, <1>6, <1>8, <1>10, NotShown, OneTurn DEF Chains!TypeOK

LEMMA RefuseKeeps ==
  ASSUME ChainInv, NEW t \in Chains!Turns, NEW a \in Hosts, Chains!Refuse(t, a)
  PROVE  ChainInv'
  <1>1. /\ turn[t].pc = "walk" /\ Chains!TypeOK /\ turn[t] \in Chains!Plans /\ TurnOf(t)
        /\ stored' = stored /\ deleter' = deleter /\ slips' = slips
        /\ turn' = [turn EXCEPT ![t] = [turn[t] EXCEPT !.blamed = turn[t].blamed \cup {a}]]
    BY DEF Chains!Refuse, ChainInv, Chains!TypeOK
  <1>2. ~Written(t) /\ ~Chains!Shown(t)
    BY <1>1 DEF Written, Chains!Shown, Chains!Late
  <1>3. Chains!TypeOK'
    <2>1. [turn[t] EXCEPT !.blamed = turn[t].blamed \cup {a}] \in Chains!Plans
      BY <1>1 DEF Chains!Plans
    <2>2. QED
      BY <1>1, <2>1 DEF Chains!TypeOK
  <1>4. /\ turn'[t].pc = turn[t].pc /\ turn'[t].ctx = turn[t].ctx /\ turn'[t].ref = turn[t].ref
        /\ turn'[t].pinned = turn[t].pinned /\ turn'[t].replay = turn[t].replay
    BY <1>1 DEF Chains!TypeOK, Chains!Plans
  <1>5. RowOf(t)'
    <2>1. ~Written(t)'
      BY <1>1, <1>4 DEF Written, Chains!Shown, Chains!Late
    <2>2. QED
      BY <1>1, <1>2, <2>1, NotWritten, EmptyRow
  <1>6. TurnOf(t)'
    <2>1. turn[t].ref # None => /\ Chains!Shown(turn[t].ref) /\ turn'[turn[t].ref] = turn[turn[t].ref]
      BY <1>1, <1>2, NotShown
    <2>2. QED
      BY <1>1, <1>2, <1>4, <2>1 DEF TurnOf, Written, Chains!Shown, Chains!Asked
  <1>7. QED
    BY <1>1, <1>2, <1>3, <1>5, <1>6, NotShown, OneTurn DEF Chains!TypeOK

LEMMA UpstreamKeeps ==
  ASSUME ChainInv, NEW t \in Chains!Turns,
         Chains!CallFails(t) \/ \E named \in BOOLEAN : Chains!Answers(t, named)
  PROVE  ChainInv'
  <1> DEFINE new(to, name) == [turn[t] EXCEPT !.pc = to, !.named = name]
  <1>1. PICK to \in {"walk", "record"}, name \in BOOLEAN :
          /\ turn[t].pc = "called"
          /\ turn' = [turn EXCEPT ![t] = new(to, name)]
          /\ to = "record" /\ name => turn[t].at \in Native
    <2>1. turn[t] \in Chains!Plans
      BY DEF ChainInv, Chains!TypeOK
    <2>2. CASE Chains!CallFails(t)
      <3>1. [turn[t] EXCEPT !.pc = "walk"] = new("walk", turn[t].named)
        BY <2>1 DEF Chains!Plans
      <3>2. turn[t].named \in BOOLEAN
        BY <2>1 DEF Chains!Plans
      <3>3. /\ turn[t].pc = "called"
            /\ turn' = [turn EXCEPT ![t] = [turn[t] EXCEPT !.pc = "walk"]]
        BY <2>2 DEF Chains!CallFails, Chains!At
      <3>4. turn' = [turn EXCEPT ![t] = new("walk", turn[t].named)]
        BY <3>1, <3>3
      <3> HIDE DEF new
      <3>5. QED
        BY <3>2, <3>3, <3>4
    <2>3. ASSUME NEW name \in BOOLEAN, Chains!Answers(t, name)
          PROVE  /\ turn[t].pc = "called"
                 /\ turn' = [turn EXCEPT ![t] = new("record", name)]
                 /\ name => turn[t].at \in Native
      BY <2>3 DEF Chains!Answers
    <2> HIDE DEF new
    <2>4. QED
      BY <2>2, <2>3
  <1>2. /\ turn[t].pc = "called" /\ Chains!TypeOK /\ turn[t] \in Chains!Plans /\ TurnOf(t)
        /\ stored' = stored /\ deleter' = deleter /\ slips' = slips
    BY <1>1 DEF Chains!CallFails, Chains!Answers, ChainInv, Chains!TypeOK
  <1>3. ~Written(t) /\ ~Chains!Shown(t)
    BY <1>2 DEF Written, Chains!Shown, Chains!Late
  <1>4. Chains!TypeOK'
    <2>1. new(to, name) \in Chains!Plans
      BY <1>2 DEF Chains!Plans, Chains!Early
    <2>2. QED
      BY <1>1, <1>2, <2>1 DEF Chains!TypeOK
  <1>5. /\ turn'[t].pc = to /\ turn'[t].ctx = turn[t].ctx /\ turn'[t].ref = turn[t].ref
        /\ turn'[t].pinned = turn[t].pinned /\ turn'[t].replay = turn[t].replay
        /\ turn'[t].at = turn[t].at /\ turn'[t].with = turn[t].with
        /\ turn'[t].named = name
    BY <1>1, <1>2 DEF Chains!TypeOK, Chains!Plans
  <1>6. ~Written(t)'
    BY <1>5 DEF Written, Chains!Shown, Chains!Late
  <1>7. RowOf(t)'
    BY <1>2, <1>3, <1>6, NotWritten, EmptyRow
  <1>8. TurnOf(t)'
    <2>1. turn[t].ref # None => /\ Chains!Shown(turn[t].ref)
                                /\ turn'[turn[t].ref] = turn[turn[t].ref]
      BY <1>1, <1>2, <1>3, NotShown
    <2>2. QED
      BY <1>1, <1>2, <1>3, <1>5, <1>6, <2>1
         DEF TurnOf, Written, Chains!Shown, Chains!Asked, Chains!Late
  <1>9. QED
    BY <1>1, <1>2, <1>3, <1>4, <1>7, <1>8, NotShown, OneTurn DEF Chains!TypeOK

\* The row that an attempt wrote before it was left is nobody's.
LEMMA GiveUpKeeps ==
  ASSUME ChainInv, NEW t \in Chains!Turns,
         Chains!GiveUp(t) \/ Chains!Leave(t) \/ \E r \in Chains!Turns : Chains!Unknown(t, r)
  PROVE  ChainInv'
  <1>1. turn[t].pc \in {"idle"} \cup Chains!Early
    BY DEF Chains!GiveUp, Chains!Leave, Chains!Unknown, Chains!Begins, Chains!Leaves, Chains!Early
  <1>2. ~Chains!Shown(t)
    BY <1>1 DEF Chains!Shown, Chains!Late, Chains!Early
  <1>3. \E to \in {"failed", "gone"} : turn' = [turn EXCEPT ![t] = Chains!Left(t, to)]
    BY DEF Chains!GiveUp, Chains!Leave, Chains!Unknown, Chains!Leaves
  <1>4. \/ stored' = stored /\ stored[t] \in Chains!Gaps
        \/ stored' = [stored EXCEPT ![t] = Chains!NoRow]
    <2>1. CASE Chains!Leave(t)
      BY <2>1 DEF Chains!Leave
    <2>2. CASE Chains!GiveUp(t) \/ \E r \in Chains!Turns : Chains!Unknown(t, r)
      <3>1. stored' = stored /\ turn[t].pc \in {"idle", "walk"}
        BY <2>2 DEF Chains!GiveUp, Chains!Unknown, Chains!Leaves, Chains!Begins
      <3>2. ~Written(t)
        BY <1>2, <3>1 DEF Written
      <3>3. QED
        BY <3>1, <3>2, NotWritten
    <2>3. QED
      BY <2>1, <2>2
  <1>5. deleter' = deleter /\ slips' = slips
    BY DEF Chains!GiveUp, Chains!Leave, Chains!Unknown
  <1>6. QED
    BY <1>2, <1>3, <1>4, <1>5, QuitKeeps

\* What record_state writes for a turn belongs to it.
LEMMA RecordIsOwn ==
  ASSUME NEW t \in Chains!Turns, NEW parts, Chains!Asked(t) \in parts,
         parts \subseteq {Chains!Asked(t), Chains!Answered(t)},
         Chains!TypeOK, turn[t].named => turn[t].at \in Native,
         stored' = Chains!Record(t, parts), Written(t)',
         turn'[t].keeps = turn[t].keeps, turn'[t].at = turn[t].at
  PROVE  RowOf(t)'
  <1>1. /\ stored'[t].parts = Chains!Seals(t, parts) /\ stored'[t].owner = turn[t].at
        /\ stored'[t].native = turn[t].named /\ stored'[t].is = "live"
    BY DEF Chains!Record, Chains!TypeOK
  <1>2. QED
    BY <1>1 DEF RowOf, Chains!Seals, Chains!Asked, Chains!Answered

Moved(v, to) == [v EXCEPT !.pc = to]

LEMMA MovedFields ==
  ASSUME NEW v \in Chains!Plans, NEW to
  PROVE  /\ Moved(v, to).pc = to /\ Moved(v, to).ctx = v.ctx /\ Moved(v, to).ref = v.ref
         /\ Moved(v, to).pinned = v.pinned /\ Moved(v, to).replay = v.replay
         /\ Moved(v, to).at = v.at /\ Moved(v, to).with = v.with
         /\ Moved(v, to).keeps = v.keeps /\ Moved(v, to).named = v.named
  <1>1. Moved(v, to).keeps = v.keeps /\ Moved(v, to).named = v.named
    BY DEF Chains!Plans, Moved
  <1>2. QED
    BY <1>1 DEF Chains!Plans, Moved

\* The plan of a turn without what only the walk needs.
Unpinned(v, to) == [v EXCEPT !.pc = to, !.pinned = None, !.replay = {}, !.blamed = {}]

LEMMA ClearedFields ==
  ASSUME NEW v \in Chains!Plans, NEW to
  PROVE  /\ Unpinned(v, to).pc = to /\ Unpinned(v, to).ctx = v.ctx /\ Unpinned(v, to).ref = v.ref
         /\ Unpinned(v, to).pinned = None /\ Unpinned(v, to).replay = {}
         /\ Unpinned(v, to).at = v.at /\ Unpinned(v, to).with = v.with
         /\ Unpinned(v, to).keeps = v.keeps /\ Unpinned(v, to).named = v.named
  <1>1. Unpinned(v, to).keeps = v.keeps /\ Unpinned(v, to).named = v.named
    BY DEF Chains!Plans, Unpinned
  <1>2. QED
    BY <1>1 DEF Chains!Plans, Unpinned

\* record_response_state writes the row; nobody sees it yet.
LEMMA RecordedKeeps ==
  ASSUME ChainInv, NEW t \in Chains!Turns, Chains!Recorded(t) \/ Chains!RecordFails(t)
  PROVE  ChainInv'
  <1>1. /\ turn[t].pc = "record" /\ Chains!TypeOK /\ turn[t] \in Chains!Plans /\ TurnOf(t)
        /\ turn' = [turn EXCEPT ![t].pc = "answer"]
    BY DEF Chains!Recorded, Chains!RecordFails, Chains!At, ChainInv, Chains!TypeOK
  <1>2. ~Chains!Shown(t)
    BY <1>1 DEF Chains!Shown, Chains!Late
  <1>3. turn'[t] = Moved(turn[t], "answer")
    BY <1>1 DEF Chains!TypeOK, Moved
  <1>4. /\ turn'[t].pc = "answer" /\ turn'[t].ctx = turn[t].ctx /\ turn'[t].ref = turn[t].ref
        /\ turn'[t].pinned = turn[t].pinned /\ turn'[t].replay = turn[t].replay
        /\ turn'[t].at = turn[t].at /\ turn'[t].with = turn[t].with
        /\ turn'[t].keeps = turn[t].keeps /\ turn'[t].named = turn[t].named
    BY <1>1, <1>3, MovedFields
  <1>5. Written(t)' /\ ~Chains!Shown(t)'
    BY <1>4 DEF Written, Chains!Shown, Chains!Late
  <1>6. /\ turn[t].at # None /\ turn[t].with # None
        /\ turn[t].named => turn[t].at \in Native
    BY <1>1 DEF TurnOf
  <1>7. \/ stored' = [stored EXCEPT ![t] = Chains!Lacks("failed")]
        \/ \E parts \in SUBSET {Chains!Asked(t), Chains!Answered(t)} :
             Chains!Asked(t) \in parts /\ stored' = Chains!Record(t, parts)
    BY DEF Chains!Recorded, Chains!RecordFails
  <1>8. Chains!TypeOK'
    <2>1. turn' \in [Chains!Turns -> Chains!Plans]
      BY <1>1, MovedTyped DEF Chains!TypeOK, TurnPcs, Chains!Early
    <2>2. stored' \in [Chains!Turns -> Chains!Rows \cup Chains!Gaps]
      <3>1. CASE stored' = [stored EXCEPT ![t] = Chains!Lacks("failed")]
        BY <1>1, <3>1, GapsAre DEF Chains!TypeOK
      <3>2. ASSUME NEW parts \in SUBSET {Chains!Asked(t), Chains!Answered(t)},
                   stored' = Chains!Record(t, parts)
            PROVE  stored' \in [Chains!Turns -> Chains!Rows \cup Chains!Gaps]
        BY <1>1, <1>6, <3>2, RecordTyped, PartsDiffer
      <3>3. QED
        BY <1>7, <3>1, <3>2
    <2>3. deleter' = deleter /\ slips' \in 0..MaxFaults
      BY <1>1, JobsAssumption DEF Chains!ChainAssumption, Chains!Recorded, Chains!RecordFails,
         Chains!Fails, Chains!TypeOK
    <2>4. QED
      BY <1>1, <2>1, <2>2, <2>3 DEF Chains!TypeOK
  <1>9. RowOf(t)'
    <2>1. CASE stored' = [stored EXCEPT ![t] = Chains!Lacks("failed")]
      <3>1. stored'[t] = Chains!Lacks("failed")
        BY <1>1, <2>1 DEF Chains!TypeOK
      <3>2. QED
        BY <3>1, GapsAre, EmptyRow
    <2>2. ASSUME NEW parts \in SUBSET {Chains!Asked(t), Chains!Answered(t)},
                 Chains!Asked(t) \in parts, stored' = Chains!Record(t, parts)
          PROVE  RowOf(t)'
      BY <1>1, <1>4, <1>5, <1>6, <2>2, RecordIsOwn
    <2>3. QED
      BY <1>7, <2>1, <2>2
  <1>10. TurnOf(t)'
    <2>1. turn[t].ref # None => /\ Chains!Shown(turn[t].ref)
                                /\ turn'[turn[t].ref] = turn[turn[t].ref]
      BY <1>1, <1>2, NotShown
    <2>2. QED
      BY <1>1, <1>4, <2>1 DEF TurnOf, Chains!Shown, Chains!Asked
  <1>11. \A u \in Chains!Turns : u # t => turn'[u] = turn[u] /\ stored'[u] = stored[u]
    BY <1>1, <1>7 DEF Chains!TypeOK, Chains!Record
  <1>12. QED
    BY <1>2, <1>8, <1>9, <1>10, <1>11, NotShown, OneTurn

\* An attempt that fails after its row was written draws another id: its row is nobody's.
LEMMA HeadFailsKeeps ==
  ASSUME ChainInv, NEW t \in Chains!Turns, Chains!HeadFails(t)
  PROVE  ChainInv'
  <1>1. /\ turn[t].pc = "answer" /\ Chains!TypeOK /\ turn[t] \in Chains!Plans /\ TurnOf(t)
        /\ turn' = [turn EXCEPT ![t].pc = "walk"]
        /\ stored' = [stored EXCEPT ![t] = Chains!NoRow]
        /\ deleter' = deleter /\ slips' = slips
    BY DEF Chains!HeadFails, Chains!At, ChainInv, Chains!TypeOK
  <1>2. ~Chains!Shown(t)
    BY <1>1 DEF Chains!Shown, Chains!Late
  <1>3. turn'[t] = Moved(turn[t], "walk")
    BY <1>1 DEF Chains!TypeOK, Moved
  <1>4. /\ turn'[t].pc = "walk" /\ turn'[t].ctx = turn[t].ctx /\ turn'[t].ref = turn[t].ref
        /\ turn'[t].pinned = turn[t].pinned /\ turn'[t].replay = turn[t].replay
    BY <1>1, <1>3, MovedFields
  <1>5. ~Written(t)'
    BY <1>4 DEF Written, Chains!Shown, Chains!Late
  <1>6. Chains!TypeOK' /\ stored'[t] \in Chains!Gaps
    BY <1>1, MovedTyped, GapsAre DEF Chains!TypeOK, TurnPcs, Chains!Early
  <1>7. RowOf(t)'
    BY <1>5, <1>6, EmptyRow
  <1>8. TurnOf(t)'
    <2>1. turn[t].ref # None => /\ Chains!Shown(turn[t].ref)
                                /\ turn'[turn[t].ref] = turn[turn[t].ref]
      BY <1>1, <1>2, NotShown
    <2>2. QED
      BY <1>1, <1>4, <1>5, <2>1 DEF TurnOf, Chains!Shown, Chains!Asked
  <1>9. QED
    BY <1>1, <1>2, <1>6, <1>7, <1>8, NotShown, OneTurn DEF Chains!TypeOK

\* The client sees the id of a response whose row has been written, or lost.
LEMMA AnswerKeeps ==
  ASSUME ChainInv, NEW t \in Chains!Turns, Chains!Answer(t)
  PROVE  ChainInv'
  <1>1. PICK to \in {"stream", "answered"} : Chains!Leaves(t, "answer", to)
    BY DEF Chains!Answer, Chains!GoesOut
  <1>2. /\ turn[t].pc = "answer" /\ Chains!TypeOK /\ turn[t] \in Chains!Plans
        /\ TurnOf(t) /\ RowOf(t)
        /\ turn' = [turn EXCEPT ![t] = Chains!Left(t, to)]
        /\ stored' = stored /\ deleter' = deleter /\ slips' = slips
    BY <1>1 DEF Chains!Answer, Chains!Leaves, ChainInv, Chains!TypeOK
  <1>3. ~Chains!Shown(t) /\ Written(t)
    BY <1>2 DEF Written, Chains!Shown, Chains!Late
  <1>4. turn'[t] = Unpinned(turn[t], to)
    BY <1>2 DEF Chains!Left, Chains!TypeOK, Unpinned
  <1>5. /\ turn'[t].pc = to /\ turn'[t].ctx = turn[t].ctx /\ turn'[t].ref = turn[t].ref
        /\ turn'[t].pinned = None /\ turn'[t].replay = {} /\ turn'[t].keeps = turn[t].keeps
        /\ turn'[t].at = turn[t].at /\ turn'[t].with = turn[t].with
        /\ turn'[t].named = turn[t].named
    BY <1>2, <1>4, ClearedFields
  <1>6. Chains!Shown(t)' /\ Written(t)'
    BY <1>5 DEF Written, Chains!Shown, Chains!Late
  <1>7. Chains!TypeOK'
    BY <1>2, LeftTyped DEF Chains!TypeOK, TurnPcs, Chains!Late, Chains!Done
  <1>8. RowOf(t)'
    BY <1>2, <1>3, <1>5, <1>6 DEF RowOf, Chains!Asked, Chains!Answered
  <1>9. TurnOf(t)'
    <2>1. turn[t].ref # None => /\ Chains!Shown(turn[t].ref)
                                /\ turn'[turn[t].ref] = turn[turn[t].ref]
      BY <1>2, <1>3, NotShown
    <2>2. QED
      BY <1>2, <1>3, <1>5, <2>1 DEF TurnOf, Chains!Shown, Chains!Asked
  <1>10. QED
    BY <1>2, <1>3, <1>7, <1>8, <1>9, NotShown, OneTurn DEF Chains!TypeOK

-----------------------------------------------------------------------------
(* The stream, its settlement, deletes and expiry *)

\* A turn whose id was shown moves on; its row is left, completed or removed.
LEMMA SettlingKeeps ==
  ASSUME ChainInv, NEW t \in Chains!Turns, Chains!Stream(t) \/ Chains!Settle(t)
  PROVE  ChainInv'
  <1>1. PICK to \in {"final", "saving", "deleting", "over", "broken"} :
          turn[t].pc \in Chains!Late /\ turn' = [turn EXCEPT ![t].pc = to]
    BY DEF Chains!Stream, Chains!Settle, Chains!Finishes, Chains!EndsWell, Chains!Breaks,
       Chains!Save, Chains!Drop, Chains!SettleFails, Chains!At, Chains!Late
  <1>2. Chains!TypeOK /\ turn[t] \in Chains!Plans /\ TurnOf(t) /\ RowOf(t) /\ Chains!Shown(t)
    BY <1>1 DEF ChainInv, Chains!TypeOK, Chains!Shown
  <1>3. turn'[t] = Moved(turn[t], to)
    BY <1>1, <1>2 DEF Chains!TypeOK, Moved
  <1>4. /\ turn'[t].pc = to /\ turn'[t].ctx = turn[t].ctx /\ turn'[t].ref = turn[t].ref
        /\ turn'[t].pinned = turn[t].pinned /\ turn'[t].replay = turn[t].replay
        /\ turn'[t].at = turn[t].at /\ turn'[t].with = turn[t].with
        /\ turn'[t].keeps = turn[t].keeps /\ turn'[t].named = turn[t].named
    BY <1>2, <1>3, MovedFields
  <1>5. Chains!Shown(t)' /\ Stays(t) /\ Written(t) /\ Written(t)'
    BY <1>2, <1>4 DEF Written, Chains!Shown, Chains!Late, Stays
  <1>6. \/ stored' = stored
        \/ stored' = Chains!Record(t, {Chains!Asked(t), Chains!Answered(t)})
        \/ stored' = [stored EXCEPT ![t] = Chains!Lacks("removed")]
    BY DEF Chains!Stream, Chains!Settle, Chains!Finishes, Chains!EndsWell, Chains!Breaks,
       Chains!Save, Chains!Drop, Chains!SettleFails, Chains!Broken
  <1>7. /\ turn[t].at # None /\ turn[t].with # None
        /\ turn[t].named => turn[t].at \in Native
    BY <1>2, <1>5 DEF TurnOf
  <1>8. Chains!TypeOK'
    <2>1. turn' \in [Chains!Turns -> Chains!Plans]
      BY <1>1, <1>2, MovedTyped DEF TurnPcs, Chains!Late, Chains!Done
    <2>2. stored' \in [Chains!Turns -> Chains!Rows \cup Chains!Gaps]
      <3>1. CASE stored' = Chains!Record(t, {Chains!Asked(t), Chains!Answered(t)})
        BY <1>2, <1>7, <3>1, RecordTyped, PartsDiffer
      <3>2. QED
        BY <1>2, <1>6, <3>1, GapsAre DEF Chains!TypeOK
    <2>3. deleter' = deleter /\ slips' \in 0..MaxFaults
      BY <1>2, JobsAssumption DEF Chains!ChainAssumption, Chains!Stream, Chains!Settle,
         Chains!Finishes, Chains!EndsWell, Chains!Breaks, Chains!Save, Chains!Drop,
         Chains!SettleFails, Chains!Fails, Chains!TypeOK
    <2>4. QED
      BY <1>2, <2>1, <2>2, <2>3 DEF Chains!TypeOK
  <1>9. RowOf(t)'
    <2>1. CASE stored' = stored
      BY <1>2, <1>4, <1>5, <2>1 DEF RowOf, Chains!Asked, Chains!Answered
    <2>2. CASE stored' = Chains!Record(t, {Chains!Asked(t), Chains!Answered(t)})
      BY <1>2, <1>4, <1>5, <1>7, <2>2, RecordIsOwn
    <2>3. CASE stored' = [stored EXCEPT ![t] = Chains!Lacks("removed")]
      BY <1>2, <2>3, GapsAre, EmptyRow DEF Chains!TypeOK
    <2>4. QED
      BY <1>6, <2>1, <2>2, <2>3
  <1>10. TurnOf(t)'
    <2>1. turn[t].ref # None =>
            Chains!Shown(turn[t].ref)' /\ turn'[turn[t].ref].at = turn[turn[t].ref].at
      <3>1. turn[t].ref # None => turn[t].ref \in Chains!Turns /\ Chains!Shown(turn[t].ref)
        BY <1>2, TurnFields DEF TurnOf
      <3>2. ASSUME turn[t].ref # t PROVE turn'[turn[t].ref] = turn[turn[t].ref]
        BY <1>1, <3>2
      <3>3. QED
        BY <1>4, <1>5, <3>1, <3>2 DEF Chains!Shown
    <2>2. QED
      BY <1>2, <1>4, <1>5, <2>1 DEF TurnOf, Chains!Asked
  <1>11. \A u \in Chains!Turns : u # t => turn'[u] = turn[u] /\ stored'[u] = stored[u]
    BY <1>1, <1>2, <1>6 DEF Chains!TypeOK, Chains!Record
  <1>12. QED
    BY <1>5, <1>8, <1>9, <1>10, <1>11, OneTurn

\* Rows expire, and go.
LEMMA RowsGo ==
  ASSUME ChainInv, NEW r \in Chains!Turns, turn' = turn, Chains!TypeOK',
         \/ stored' = [stored EXCEPT ![r] = Chains!Lacks("removed")]
         \/ stored' = [stored EXCEPT ![r].is = "expired"] /\ Chains!Found(r)
  PROVE  ChainInv'
  <1>1. Chains!TypeOK /\ RowOf(r) /\ TurnOf(r) /\ turn[r] \in Chains!Plans /\ stored[r] \in Chains!Rows \cup Chains!Gaps
    BY DEF ChainInv, Chains!TypeOK
  <1>2. Stays(r)
    BY DEF Stays, Chains!Shown
  <1>3. TurnOf(r)'
    BY <1>1 DEF TurnOf, Written, Chains!Shown, Chains!Asked
  <1>4. RowOf(r)'
    <2>1. CASE stored' = [stored EXCEPT ![r] = Chains!Lacks("removed")]
      BY <1>1, <2>1, GapsAre, EmptyRow DEF Chains!TypeOK
    <2>2. CASE stored' = [stored EXCEPT ![r].is = "expired"] /\ Chains!Found(r)
      <3>1. stored[r] \in Chains!Rows /\ stored[r] \notin Chains!Gaps
        <4>1. stored[r].is \notin Chains!Absences
          BY <2>2 DEF Chains!Found, Chains!Absences
        <4>2. QED
          BY <1>1, <4>1, FoundIsThere, GapFields
      <3>2. /\ stored'[r].parts = stored[r].parts /\ stored'[r].native = stored[r].native
            /\ stored'[r].owner = stored[r].owner /\ stored'[r].is = "expired"
        BY <1>1, <2>2, <3>1 DEF Chains!TypeOK, Chains!Rows
      <3>3. QED
        BY <1>1, <3>1, <3>2 DEF RowOf, Written, Chains!Shown, Chains!Asked, Chains!Answered
    <2>3. QED
      BY <2>1, <2>2
  <1>5. QED
    BY <1>1, <1>2, <1>3, <1>4, OneTurn DEF Chains!TypeOK

LEMMA DeletesKeep ==
  ASSUME ChainInv, NEW d \in Deleters, Chains!Delete(d)
  PROVE  ChainInv'
  <1> DEFINE Of == Chains!Turns \cup {None}
             D  == [pc : {"idle", "upstream", "local", "done"}, of : Of]
  <1>1. Chains!TypeOK /\ deleter \in [Deleters -> D] /\ turn' = turn
    BY DEF ChainInv, Chains!TypeOK, Chains!Delete, Chains!DeleteFinds, Chains!DeleteUpstream,
       Chains!DeleteLocal, Chains!DeleteFails,
           Chains!DeleterLeaves
  <1>2. deleter' \in [Deleters -> D] /\ slips' \in 0..MaxFaults
    <2>1. deleter[d] \in D /\ Chains!Idle \in D
      BY <1>1 DEF Chains!Idle
    <2>2. \/ \E pc \in {"upstream", "local", "done"}, of \in Of :
               deleter' = [deleter EXCEPT ![d] = [pc |-> pc, of |-> of]]
          \/ deleter' = [deleter EXCEPT ![d] = Chains!Idle]
      <3>1. ASSUME NEW r \in Chains!Turns, Chains!DeleteFinds(d, r)
            PROVE  \E pc \in {"upstream", "local", "done"}, of \in Of :
                     deleter' = [deleter EXCEPT ![d] = [pc |-> pc, of |-> of]]
        BY <3>1 DEF Chains!DeleteFinds
      <3>2. ASSUME NEW from, NEW to \in {"local", "done"}, Chains!DeleterAt(d, from, to)
            PROVE  \E pc \in {"upstream", "local", "done"}, of \in Of :
                     deleter' = [deleter EXCEPT ![d] = [pc |-> pc, of |-> of]]
        <4>1. [deleter[d] EXCEPT !.pc = to] = [pc |-> to, of |-> deleter[d].of]
          BY <2>1
        <4>2. deleter' = [deleter EXCEPT ![d] = [pc |-> to, of |-> deleter[d].of]]
          BY <3>2, <4>1 DEF Chains!DeleterAt
        <4>3. deleter[d].of \in Of
          BY <2>1
        <4>4. QED
          BY <4>2, <4>3
      <3>3. QED
        BY <3>1, <3>2 DEF Chains!Delete, Chains!DeleteUpstream, Chains!DeleteLocal,
           Chains!DeleteFails, Chains!DeleterLeaves
    <2>3. deleter' \in [Deleters -> D]
      BY <1>1, <2>1, <2>2
    <2>4. slips' \in 0..MaxFaults
      BY <1>1, JobsAssumption DEF Chains!ChainAssumption, Chains!Delete, Chains!DeleteFinds,
         Chains!DeleteUpstream, Chains!DeleteLocal, Chains!DeleteFails, Chains!DeleterLeaves,
         Chains!Fails,
             Chains!TypeOK
    <2>5. QED
      BY <2>3, <2>4
  <1>3. stored' = stored \/ stored' = [stored EXCEPT ![deleter[d].of] = Chains!Lacks("removed")]
    BY DEF Chains!Delete, Chains!DeleteFinds, Chains!DeleteUpstream, Chains!DeleteLocal,
       Chains!DeleteFails, Chains!DeleterLeaves
  <1>4. CASE stored' = stored
    BY <1>1, <1>2, <1>4 DEF ChainInv, Chains!TypeOK, RowOf, TurnOf, Written, Chains!Shown,
       Chains!Asked, Chains!Answered
  <1>5. CASE stored' # stored
    <2>1. deleter[d].of \in Chains!Turns
      BY <1>1, <1>3, <1>5 DEF Chains!TypeOK
    <2>2. Chains!TypeOK'
      BY <1>1, <1>2, <1>3, <1>5, <2>1, GapsAre DEF Chains!TypeOK
    <2>3. QED
      BY <1>1, <1>3, <1>5, <2>1, <2>2, RowsGo
  <1>6. QED
    BY <1>4, <1>5

LEMMA ExpiryKeeps ==
  ASSUME ChainInv, NEW t \in Chains!Turns, Chains!Expire(t) \/ Chains!Prune(t)
  PROVE  ChainInv'
  <1>1. /\ Chains!TypeOK /\ turn' = turn /\ deleter' = deleter /\ slips' = slips
        /\ \/ stored' = [stored EXCEPT ![t] = Chains!Lacks("removed")]
           \/ stored' = [stored EXCEPT ![t].is = "expired"] /\ Chains!Found(t)
    BY DEF Chains!Expire, Chains!Prune, ChainInv
  <1>2. stored' \in [Chains!Turns -> Chains!Rows \cup Chains!Gaps]
    <2>1. CASE stored' = [stored EXCEPT ![t] = Chains!Lacks("removed")]
      BY <1>1, <2>1, GapsAre DEF Chains!TypeOK
    <2>2. CASE stored' = [stored EXCEPT ![t].is = "expired"] /\ Chains!Found(t)
      <3>1. stored[t] \in Chains!Rows
        <4>1. stored[t].is \notin Chains!Absences
          BY <2>2 DEF Chains!Found, Chains!Absences
        <4>2. QED
          BY <1>1, <4>1, FoundIsThere
      <3>2. [stored[t] EXCEPT !.is = "expired"] \in Chains!Rows
        BY <3>1 DEF Chains!Rows
      <3>3. QED
        BY <1>1, <2>2, <3>2 DEF Chains!TypeOK
    <2>3. QED
      BY <1>1, <2>1, <2>2
  <1>3. QED
    BY <1>1, <1>2, RowsGo DEF Chains!TypeOK

\* The death of the process ends every request.
LEMMA CrashKeeps ==
  ASSUME ChainInv, Chains!Crash
  PROVE  ChainInv'
  <1>1. /\ Chains!TypeOK /\ slips' \in 0..MaxFaults
        /\ stored' = [t \in Chains!Turns |-> IF turn[t].pc \in Chains!Early
                                                THEN Chains!NoRow ELSE stored[t]]
    BY JobsAssumption DEF Chains!ChainAssumption, ChainInv, Chains!TypeOK, Chains!Crash,
       Chains!Fails
  <1>2. ASSUME NEW u \in Chains!Turns
        PROVE  /\ turn'[u] \in Chains!Plans
               /\ \/ turn'[u] = turn[u]
                  \/ ~Chains!Shown(u) /\ turn'[u] = Chains!Left(u, "gone")
                  \/ Chains!Shown(u) /\ turn'[u] = Chains!Left(u, "over")
               /\ turn'[u] = turn[u] => turn[u].pc \notin Chains!Early
               /\ Chains!Shown(u) => turn[u].pc \notin Chains!Early
    <2>1. Chains!Left(u, "gone") \in Chains!Plans /\ Chains!Left(u, "over") \in Chains!Plans /\ turn[u] \in Chains!Plans
      BY <1>1, LeftTyped DEF TurnPcs, Chains!Done, Chains!TypeOK
    <2>2. turn[u].pc \in Chains!Early => ~Chains!Shown(u)
      BY DEF Chains!Early, Chains!Shown, Chains!Late
    <2>3. turn[u].pc \in Chains!Late => Chains!Shown(u)
      BY DEF Chains!Shown
    <2>4. turn[u].pc \in Chains!Early => turn'[u] = Chains!Left(u, "gone")
      BY DEF Chains!Crash, Chains!Early, Chains!Late
    <2>5. Chains!Left(u, "gone").pc = "gone"
      BY DEF Chains!Left, Chains!Unborn
    <2>6. QED
      <3>1. turn[u].pc \in Chains!Late => turn'[u] = Chains!Left(u, "over")
        BY DEF Chains!Crash, Chains!Early, Chains!Late
      <3>2. turn[u].pc \notin Chains!Early \cup Chains!Late => turn'[u] = turn[u]
        BY DEF Chains!Crash
      <3>3. "gone" \notin Chains!Early
        BY DEF Chains!Early
      <3>4. QED
        BY <2>1, <2>2, <2>3, <2>4, <2>5, <3>1, <3>2, <3>3
  <1>3. Chains!TypeOK'
    <2>1. turn' \in [Chains!Turns -> Chains!Plans]
      BY <1>2 DEF Chains!Crash
    <2>2. deleter' \in [Deleters -> [pc : {"idle", "upstream", "local", "done"}, of : Chains!Turns \cup {None}]]
      BY <1>1 DEF Chains!Crash, Chains!TypeOK, Chains!Idle
    <2>3. stored' \in [Chains!Turns -> Chains!Rows \cup Chains!Gaps]
      BY <1>1, GapsAre DEF Chains!TypeOK
    <2>4. QED
      BY <1>1, <2>1, <2>2, <2>3 DEF Chains!TypeOK
  <1>4. ASSUME NEW u \in Chains!Turns, Chains!Shown(u), turn'[u] # turn[u]
        PROVE  turn'[u] = Unpinned(turn[u], "over") /\ turn[u] \in Chains!Plans
    BY <1>1, <1>2, <1>4 DEF Chains!Left, Unpinned, Chains!TypeOK
  <1>5. ASSUME NEW u \in Chains!Turns PROVE Stays(u)
    <2>1. CASE turn'[u] = turn[u]
      BY <2>1 DEF Stays, Chains!Shown
    <2>2. CASE turn'[u] # turn[u]
      BY <1>4, <2>2, ClearedFields DEF Stays, Chains!Shown
    <2>3. QED
      BY <2>1, <2>2
  <1>6. ASSUME NEW u \in Chains!Turns PROVE RowOf(u)'
    <2>1. CASE ~Chains!Shown(u)
      <3>1. stored'[u] \in Chains!Gaps
        <4>1. turn[u].pc \in Chains!Early => stored'[u] = Chains!NoRow
          BY <1>1
        <4>2. turn[u].pc \notin Chains!Early => stored'[u] = stored[u] /\ ~Written(u)
          BY <1>1, <2>1 DEF Written, Chains!Early
        <4>3. QED
          BY <4>1, <4>2, GapsAre, NotWritten
      <3>2. ~Written(u)'
        <4>1. CASE turn'[u] = turn[u]
          BY <1>2, <2>1, <4>1 DEF Written, Chains!Shown, Chains!Early
        <4>2. CASE turn'[u] = Chains!Left(u, "gone")
          BY <4>2 DEF Written, Chains!Left, Chains!Unborn, Chains!Shown, Chains!Late
        <4>3. QED
          BY <1>2, <2>1, <4>1, <4>2
      <3>3. QED
        BY <3>1, <3>2, EmptyRow
    <2>2. CASE Chains!Shown(u)
      <3>1. stored'[u] = stored[u]
        BY <1>1, <1>2, <2>2
      <3>2. QED
        BY <1>5, <2>2, <3>1 DEF ChainInv, RowOf, Written, Stays, Chains!Asked, Chains!Answered
    <2>3. QED
      BY <2>1, <2>2
  <1>7. ASSUME NEW u \in Chains!Turns PROVE TurnOf(u)'
    <2>1. TurnOf(u) /\ turn[u] \in Chains!Plans
      BY <1>1 DEF ChainInv, Chains!TypeOK
    <2>2. turn[u].ref # None =>
            Chains!Shown(turn[u].ref)' /\ turn'[turn[u].ref].at = turn[turn[u].ref].at
      <3>1. SUFFICES ASSUME turn[u].ref # None
                     PROVE  Chains!Shown(turn[u].ref)' /\ turn'[turn[u].ref].at = turn[turn[u].ref].at
        OBVIOUS
      <3>2. turn[u].ref \in Chains!Turns /\ Chains!Shown(turn[u].ref)
        BY <2>1, <3>1, TurnFields DEF TurnOf
      <3>3. Stays(turn[u].ref)
        BY <1>5, <3>2
      <3>4. QED
        BY <3>2, <3>3 DEF Stays
    <2>3. CASE turn'[u] = turn[u]
      BY <2>1, <2>2, <2>3 DEF TurnOf, Written, Chains!Shown, Chains!Asked
    <2>4. CASE ~Chains!Shown(u) /\ turn'[u] = Chains!Left(u, "gone")
      BY <2>4 DEF TurnOf, Written, Chains!Left, Chains!Unborn, Chains!Shown, Chains!Late
    <2>5. CASE Chains!Shown(u) /\ turn'[u] # turn[u]
      BY <1>4, <2>1, <2>2, <2>5, ClearedFields DEF TurnOf, Written, Chains!Shown, Chains!Asked
    <2>6. QED
      BY <1>2, <2>3, <2>4, <2>5
  <1>8. QED
    BY <1>3, <1>6, <1>7 DEF ChainInv

-----------------------------------------------------------------------------
LEMMA ChainsBegin == Chains!Init => ChainInv
  <1>1. SUFFICES ASSUME Chains!Init PROVE ChainInv
    OBVIOUS
  <1>2. Chains!TypeOK
    BY <1>1, PlansBegin
  <1>3. ASSUME NEW t \in Chains!Turns PROVE RowOf(t)
    <2>1. stored[t] \in Chains!Gaps /\ ~Written(t)
      BY <1>1, GapsAre DEF Chains!Init, Written, Chains!Unborn, Chains!Shown, Chains!Late
    <2>2. stored[t].parts = {} /\ stored[t].native = FALSE
      BY <2>1, GapFields
    <2>3. QED
      BY <2>1, <2>2 DEF RowOf
  <1>4. ASSUME NEW t \in Chains!Turns PROVE TurnOf(t)
    BY <1>1 DEF Chains!Init, TurnOf, Written, Chains!Unborn, Chains!Shown, Chains!Late
  <1>5. QED
    BY <1>2, <1>3, <1>4 DEF ChainInv

LEMMA ChainsGoOn == ChainInv /\ [Chains!Next]_Chains!vars => ChainInv'
  <1>1. SUFFICES ASSUME ChainInv, [Chains!Next]_Chains!vars PROVE ChainInv'
    OBVIOUS
  <1>2. ASSUME NEW t \in Chains!Turns, Chains!Resolve(t) PROVE ChainInv'
    BY <1>1, <1>2, OpensKeeps, ContinuesKeeps, GiveUpKeeps DEF Chains!Resolve
  <1>3. ASSUME NEW t \in Chains!Turns, Chains!Walk(t) PROVE ChainInv'
    BY <1>1, <1>3, CallKeeps, RefuseKeeps, UpstreamKeeps, RecordedKeeps, HeadFailsKeeps,
       AnswerKeeps, GiveUpKeeps DEF Chains!Walk
  <1>4. CASE UNCHANGED Chains!vars
    BY <1>1, <1>4 DEF Chains!vars, ChainInv, Chains!TypeOK, RowOf, TurnOf, Written,
       Chains!Shown, Chains!Asked, Chains!Answered
  <1>5. QED
    BY <1>1, <1>2, <1>3, <1>4, SettlingKeeps, ExpiryKeeps, DeletesKeep, CrashKeeps DEF Chains!Next

\* Every reachable state satisfies the strengthening.
LEMMA ChainsInvariant == JobsSpec => []ChainInv
  <1>1. JobsInit => ChainInv
    BY ChainsBegin DEF JobsInit
  <1>2. ChainInv /\ [JobsNext]_jobVars => ChainInv'
    BY ChainsGoOn DEF JobsNext, jobVars, chainVars, Chains!vars
  <1>3. QED
    BY <1>1, <1>2, PTL DEF JobsSpec

\* Rows, turns and deletes are well typed; an upstream id is kept only of accounts that speak
\* the protocol.
THEOREM ChainsTyped == JobsSpec => []Chains!TypeOK
  <1>1. ChainInv => Chains!TypeOK
    BY DEF ChainInv
  <1>2. QED
    BY <1>1, ChainsInvariant, PTL

\* resolve_request and prepare_inner: a turn that goes on from an earlier one is never sent as
\* the first of a conversation.
THEOREM NeverSentAsNew == JobsSpec => []NeverAsNew
  <1>1. ChainInv => NeverAsNew
    BY DEF ChainInv, TurnOf, NeverAsNew, Chains!NeverAsNew
  <1>2. QED
    BY <1>1, ChainsInvariant, PTL

\* prepare_inner: an upstream id is sent to the account that made the response only.
THEOREM SentHome == JobsSpec => []HomeOnly
  <1>1. ChainInv => HomeOnly
    <2>1. SUFFICES ASSUME ChainInv, NEW t \in Chains!Turns, turn[t].pc = "called", Chains!GoesOn(t, turn[t].at)
                   PROVE  turn[t].at = turn[turn[t].ref].at
      BY DEF HomeOnly, Chains!HomeOnly
    <2>2. turn[t].pinned = turn[t].at /\ turn[t].at # None
      BY <2>1, ChainConstants DEF Chains!GoesOn
    <2>3. QED
      BY <2>1, <2>2 DEF ChainInv, TurnOf
  <1>2. QED
    BY <1>1, ChainsInvariant, PTL

\* should_store: nothing that is said in a turn with store: false is stored, in no turn's row.
THEOREM NothingKeptAgainstWill == JobsSpec => []Chains!NotStored
  <1>1. ChainInv => Chains!NotStored
    <2>1. SUFFICES ASSUME ChainInv, NEW r \in Chains!Turns, NEW t \in Chains!Turns,
                          Chains!Asked(t) \in stored[r].parts \/ Chains!Answered(t) \in stored[r].parts
                   PROVE  turn[t].keeps
      BY DEF Chains!NotStored
    <2>2. RowOf(r)
      BY <2>1 DEF ChainInv
    <2>3. t = r
      BY <2>1, <2>2, PartsDiffer DEF RowOf
    <2>4. QED
      BY <2>1, <2>2, <2>3 DEF RowOf
  <1>2. QED
    BY <1>1, ChainsInvariant, PTL

\* record_response_state is awaited before the answer: whoever sees the id of a response, its row
\* has been written, or its statement has failed; whatever attempts fail after their row, and
\* wherever a client leaves or the process dies between the two.
THEOREM RecordedBeforeShown == JobsSpec => []RecordedFirst
  <1>1. ChainInv => RecordedFirst
    BY DEF ChainInv, RowOf, Written, RecordedFirst, Chains!RecordedFirst
  <1>2. QED
    BY <1>1, ChainsInvariant, PTL
===============================================================================
