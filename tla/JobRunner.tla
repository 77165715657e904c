----------------------------- MODULE JobRunner -----------------------------
(* Work that teap_gui does in the background: a generation job (run_job) or a  *)
(* bulk re-authentication (run_in_background).  Either has a row in the        *)
(* database with its progress, a task that works through its sessions, and a   *)
(* coroutine per session; a job also has Cancel and Delete buttons.  The       *)
(* application stops, crashes and starts again.                                *)
(*                                                                             *)
(* The task and the sessions are coroutines of one event loop: what a coroutine *)
(* does between two awaits is not interleaved with the others (LoopFree).  The *)
(* buttons are synchronous endpoints, which run in a thread beside the loop    *)
(* and meet it between any two database operations.                            *)
(*                                                                             *)
(* Definitions named for a fault (NoLoop before LoopFree) are the variants of  *)
(* the next definition that the checks must tell from it.                      *)
EXTENDS Naturals, FiniteSets

CONSTANTS Kinds,        \* "job", "bulk", or both
          Slots,        \* the sessions (params_json["macs"], or the targets)
          Concurrency,  \* sessions that may run at the same time
          MaxRestarts   \* bound: times the application comes up again

VARIABLES kind,      \* which of Kinds this is
          job,       \* the row of the job, or of the bulk operation
          task,      \* the run_job or run_in_background task
          slot,      \* the coroutine of each session
          base,      \* the counters a recording session has read
          canceller, \* the thread of the Cancel button
          app,       \* the process
          restarts

vars == <<kind, job, task, slot, base, canceller, app, restarts>>

ASSUME KindsAssumption == Kinds \subseteq {"job", "bulk"}
ASSUME SlotsAssumption == /\ IsFiniteSet(Slots) /\ Slots # {}
                          /\ Concurrency \in Nat \ {0}
                          /\ MaxRestarts \in Nat

OpenStatuses  == {"queued", "running", "cancelling"}
FinalStatuses == {"done", "cancelled", "interrupted", "failed"}

(* completed counts successes (done in a bulk operation).  rows is history:    *)
(* sessions recorded, or re-authentications that have ended.                   *)
Job == [status : OpenStatuses \cup FinalStatuses \cup {"deleted"},
        completed : Nat, failed : Nat, rows : Nat]

(* unborn: the row of a job is committed and create_task not yet called.       *)
(* resolving, finishing and closing are stretches without an await; seen is    *)
(* the status read back in the last two.                                       *)
Task == [pc : {"unborn", "created", "resolving", "gathering", "finishing", "closing", "ended"},
         seen : OpenStatuses \cup FinalStatuses, cancelled : BOOLEAN]

(* waiting: for its latency and the semaphore.  recording: the run has ended   *)
(* and the result is being written, without an await.  good and bad: a         *)
(* re-authentication has returned and is not yet counted.                      *)
SlotStates == {"none", "waiting", "running", "recording", "accounting",
               "good", "bad", "recorded", "crashed", "cancelled"}
SlotEnded  == {"recorded", "crashed", "cancelled"}

Init == /\ kind \in Kinds
        /\ job = [status |-> IF kind = "job" THEN "queued" ELSE "running",
                  completed |-> 0, failed |-> 0, rows |-> 0]
        /\ task = [pc |-> IF kind = "job" THEN "unborn" ELSE "created",
                   seen |-> "queued", cancelled |-> FALSE]
        /\ slot = [s \in Slots |-> "none"]
        /\ base = [s \in Slots |-> [completed |-> 0, failed |-> 0]]
        /\ canceller = "idle"
        /\ app = "up"
        /\ restarts = 0

NoLoop == TRUE

LoopFree == /\ task.pc \notin {"resolving", "finishing", "closing"}
            /\ \A s \in Slots : slot[s] # "recording"

TaskAlive == task.pc # "ended"

-----------------------------------------------------------------------------
(* run_job *)

CreateTask == /\ task.pc = "unborn"
              /\ LoopFree
              /\ task' = [task EXCEPT !.pc = "created"]
              /\ UNCHANGED <<job, slot, base, canceller, app, restarts, kind>>

(* The first step.  A task cancelled before it never runs its body. *)
Begin == /\ kind = "job"
         /\ task.pc = "created"
         /\ LoopFree
         /\ IF task.cancelled
            THEN task' = [task EXCEPT !.pc = "ended"] /\ UNCHANGED job
            ELSE /\ task' = [task EXCEPT !.pc = "resolving"]
                 /\ job' = [job EXCEPT !.status = "running"]
         /\ UNCHANGED <<slot, base, canceller, app, restarts, kind>>

(* The server, its secret or a certificate is gone: the job fails. *)
ResolveFails == /\ task.pc = "resolving"
                /\ task' = [task EXCEPT !.pc = "ended"]
                /\ job' = [job EXCEPT !.status = "failed"]
                /\ UNCHANGED <<slot, base, canceller, app, restarts, kind>>

(* as_completed schedules every re-authentication at once. *)
BeginBulk == /\ kind = "bulk"
             /\ task.pc = "created"
             /\ LoopFree
             /\ IF task.cancelled
                THEN task' = [task EXCEPT !.pc = "ended"] /\ UNCHANGED slot
                ELSE /\ task' = [task EXCEPT !.pc = "gathering"]
                     /\ slot' = [s \in Slots |-> "waiting"]
             /\ UNCHANGED <<job, base, canceller, app, restarts, kind>>

(* Cancelling the gathering of a job cancels every session that awaits         *)
(* something; as_completed leaves its tasks alone.                             *)
CancelRunningOnly(st) == IF st \in {"running", "accounting"} THEN "cancelled" ELSE st

AfterCancel(st) == IF st \in {"waiting", "running", "accounting"} THEN "cancelled" ELSE st

Gather == /\ task.pc = "resolving"
          /\ task' = [task EXCEPT !.pc = "gathering"]
          /\ slot' = [s \in Slots |-> IF task.cancelled THEN AfterCancel("waiting") ELSE "waiting"]
          /\ UNCHANGED <<job, base, canceller, app, restarts, kind>>

(* All sessions have ended, and the status is read back (expire_all, get). *)
Gathered == /\ kind = "job"
            /\ task.pc = "gathering"
            /\ LoopFree
            /\ \A s \in Slots : slot[s] \in SlotEnded
            /\ task' = [task EXCEPT !.pc = IF task.cancelled THEN "closing" ELSE "finishing",
                                    !.seen = job.status]
            /\ UNCHANGED <<job, slot, base, canceller, app, restarts, kind>>

Conclude == /\ task.pc \in {"finishing", "closing"}
            /\ task' = [task EXCEPT !.pc = "ended"]
            /\ job' = [job EXCEPT !.status = IF task.seen = "cancelling" THEN "cancelled"
                                             ELSE IF task.pc = "finishing" THEN "done"
                                             ELSE "interrupted"]
            /\ UNCHANGED <<slot, base, canceller, app, restarts, kind>>

-----------------------------------------------------------------------------
(* A session (one, _run_one) *)

HeldForEver == {s \in Slots : slot[s] \in {"running", "recording", "accounting", "crashed"}}

Holding == {s \in Slots : slot[s] \in {"running", "recording", "accounting"}}

StartRun(s) == /\ slot[s] = "waiting"
               /\ LoopFree
               /\ Cardinality(Holding) < Concurrency
               /\ slot' = [slot EXCEPT ![s] = "running"]
               /\ UNCHANGED <<job, task, base, canceller, app, restarts, kind>>

(* run_teap_test has returned; the job is read for its counters. *)
RunEnds(s) == /\ kind = "job"
              /\ slot[s] = "running"
              /\ LoopFree
              /\ slot' = [slot EXCEPT ![s] = "recording"]
              /\ base' = [base EXCEPT ![s] = [completed |-> job.completed, failed |-> job.failed]]
              /\ UNCHANGED <<job, task, canceller, app, restarts, kind>>

(* The session's row and the job's counter, in one transaction; only the       *)
(* counter that changed is written.                                            *)
Record(s) ==
    /\ slot[s] = "recording"
    /\ \E success, accounting \in BOOLEAN :
          /\ accounting => success /\ ~task.cancelled
          /\ slot' = [slot EXCEPT ![s] = IF accounting THEN "accounting" ELSE "recorded"]
          /\ job' = [job EXCEPT !.rows = @ + 1,
                                !.completed = IF success THEN base[s].completed + 1 ELSE @,
                                !.failed = IF success THEN @ ELSE base[s].failed + 1]
    /\ UNCHANGED <<task, base, canceller, app, restarts, kind>>

AccountingEnds(s) == /\ slot[s] = "accounting"
                     /\ LoopFree
                     /\ slot' = [slot EXCEPT ![s] = "recorded"]
                     /\ UNCHANGED <<job, task, base, canceller, app, restarts, kind>>

(* Something raises in a session: it is logged when the others have ended. *)
Crash(s) == /\ kind = "job"
            /\ slot[s] \in {"running", "recording"}
            /\ slot[s] = "running" => LoopFree
            /\ slot' = [slot EXCEPT ![s] = "crashed"]
            /\ UNCHANGED <<job, task, base, canceller, app, restarts, kind>>

-----------------------------------------------------------------------------
(* A bulk re-authentication (run_in_background) *)

(* reauth_session has committed what it has to say, or something has raised. *)
ReauthEnds(s) == /\ kind = "bulk"
                 /\ slot[s] = "running"
                 /\ LoopFree
                 /\ \E end \in {"good", "bad"} : slot' = [slot EXCEPT ![s] = end]
                 /\ job' = [job EXCEPT !.rows = @ + 1]
                 /\ UNCHANGED <<task, base, canceller, app, restarts, kind>>

CountTwice(s) == /\ kind = "bulk" /\ task.pc = "gathering"
                 /\ slot[s] \in {"good", "bad"}
                 /\ LoopFree
                 /\ job' = [job EXCEPT !.completed = @ + 1]
                 /\ UNCHANGED <<task, slot, base, canceller, app, restarts, kind>>

(* The next result is counted; nothing is awaited between the last one and     *)
(* the end.                                                                    *)
Count(s) ==
    /\ kind = "bulk" /\ task.pc = "gathering" /\ ~task.cancelled
    /\ slot[s] \in {"good", "bad"}
    /\ LoopFree
    /\ slot' = [slot EXCEPT ![s] = "recorded"]
    /\ job' = IF slot[s] = "good" THEN [job EXCEPT !.completed = @ + 1]
                                  ELSE [job EXCEPT !.failed = @ + 1]
    /\ task' = IF \A t \in Slots \ {s} : slot[t] = "recorded"
               THEN [task EXCEPT !.pc = "finishing"] ELSE task
    /\ UNCHANGED <<base, canceller, app, restarts, kind>>

(* The operation is closed; its re-authentications go on until the loop ends. *)
Interrupt == /\ kind = "bulk" /\ task.pc = "gathering" /\ task.cancelled
             /\ LoopFree
             /\ task' = [task EXCEPT !.pc = "ended"]
             /\ job' = [job EXCEPT !.status = "interrupted"]
             /\ UNCHANGED <<slot, base, canceller, app, restarts, kind>>

-----------------------------------------------------------------------------
(* The buttons *)

CancelTask == /\ task' = IF TaskAlive THEN [task EXCEPT !.cancelled = TRUE] ELSE task
              /\ slot' = IF TaskAlive /\ kind = "job"
                         THEN [s \in Slots |-> AfterCancel(slot[s])] ELSE slot

PressCancel == /\ kind = "job"
               /\ app = "up"
               /\ canceller = "idle"
               /\ job.status \in {"queued", "running"}
               /\ canceller' = "seen"
               /\ UNCHANGED <<job, task, slot, base, app, restarts, kind>>

(* The write finds no row when the job was deleted meanwhile: the request      *)
(* fails.                                                                      *)
MarkCancelling == /\ canceller = "seen"
                  /\ IF job.status = "deleted"
                     THEN canceller' = "idle" /\ UNCHANGED job
                     ELSE /\ canceller' = "marked"
                          /\ job' = [job EXCEPT !.status = "cancelling"]
                  /\ UNCHANGED <<task, slot, base, app, restarts, kind>>

(* A task not yet created is not among the running ones. *)
DeliverCancel == /\ canceller = "marked"
                 /\ canceller' = "idle"
                 /\ IF task.pc = "unborn" THEN UNCHANGED <<task, slot>> ELSE CancelTask
                 /\ UNCHANGED <<job, base, app, restarts, kind>>

DeletableUnlessRunning == job.status \notin {"queued", "running", "deleted"}

Deletable == job.status \notin OpenStatuses \cup {"deleted"}

Delete == /\ kind = "job"
          /\ app = "up"
          /\ Deletable
          /\ job' = [job EXCEPT !.status = "deleted"]
          /\ UNCHANGED <<task, slot, base, canceller, app, restarts, kind>>

-----------------------------------------------------------------------------
(* The process *)

(* lifespan: open requests are finished, then the tasks are cancelled and      *)
(* given some time.                                                            *)
Stop == /\ app = "up"
        /\ canceller = "idle"
        /\ task.pc # "unborn"
        /\ LoopFree
        /\ app' = "stopping"
        /\ CancelTask
        /\ UNCHANGED <<job, base, canceller, restarts, kind>>

(* The time is over, or the process dies; tasks and threads die with it. *)
Die == /\ app \in {"up", "stopping"}
       /\ app' = "down"
       /\ task' = [task EXCEPT !.pc = "ended", !.cancelled = FALSE]
       /\ slot' = [s \in Slots |-> "none"]
       /\ canceller' = "idle"
       /\ UNCHANGED <<job, base, restarts, kind>>

SweptIfRunning(status) == IF status \in {"running", "cancelling"} THEN "interrupted" ELSE status

Swept(status) == IF status \in OpenStatuses THEN "interrupted" ELSE status

(* mark_interrupted, before any new work is scheduled. *)
Restart == /\ app = "down"
           /\ restarts < MaxRestarts
           /\ app' = "up"
           /\ restarts' = restarts + 1
           /\ job' = [job EXCEPT !.status = Swept(@)]
           /\ UNCHANGED <<task, slot, base, canceller, kind>>

LoopStep == /\ app # "down"
            /\ \/ CreateTask \/ Begin \/ ResolveFails \/ Gather \/ Gathered \/ Conclude
               \/ BeginBulk \/ Interrupt
               \/ \E s \in Slots : \/ StartRun(s) \/ RunEnds(s) \/ Record(s)
                                   \/ AccountingEnds(s) \/ Crash(s)
                                   \/ ReauthEnds(s) \/ Count(s)

Next == \/ LoopStep
        \/ PressCancel \/ MarkCancelling \/ DeliverCancel \/ Delete
        \/ Stop \/ Die \/ Restart

Spec == Init /\ [][Next]_vars

(* The event loop goes on while the process runs: every TEAP run ends          *)
(* (TeapPeer's Termination), and so does every exchange of accounting.         *)
FairSpec == Spec /\ WF_vars(LoopStep)

-----------------------------------------------------------------------------
(* Properties *)

TypeOK == /\ kind \in Kinds
          /\ job \in Job
          /\ task \in Task
          /\ slot \in [Slots -> SlotStates]
          /\ base \in [Slots -> [completed : Nat, failed : Nat]]
          /\ canceller \in {"idle", "seen", "marked"}
          /\ app \in {"up", "stopping", "down"}
          /\ restarts \in 0 .. MaxRestarts

(* The progress the page shows is what was recorded: no counter update is lost *)
(* between sessions that end together, nothing is counted twice or before it   *)
(* has ended, and what is done has dealt with every session that did not crash *)
(* (_run_one; the loop over as_completed in run_in_background).                *)
CountsMatch ==
    LET counted == job.completed + job.failed
    IN  /\ counted <= job.rows
        /\ kind = "job" \/ job.status = "done" => counted = job.rows
        /\ job.status = "done" /\ app # "down" /\ restarts = 0
              => counted + Cardinality({s \in Slots : slot[s] = "crashed"}) = Cardinality(Slots)

(* A job that says it is queued or running, or a bulk operation that says it   *)
(* is running, has a task that will move it on, through crashes and restarts   *)
(* (the handlers of run_job and run_in_background, and mark_interrupted).      *)
ActiveMeansAlive == app = "up" /\ job.status \in {"queued", "running"} => TaskAlive

(* A job is never deleted from under its own task (jobs_delete). *)
NoTaskOutlivesItsJob == job.status = "deleted" => ~TaskAlive

(* What these rest on.  FirstLife: the process the work was started in is      *)
(* still there; after it, the rows are all that is left.                       *)
FirstLife == app # "down" /\ restarts = 0

In(states) == {s \in Slots : slot[s] \in states}

(* An open row goes with a task; a Cancel that meets the task before its first *)
(* step has marked the row, so it is not left queued.                          *)
TaskMatchesRow ==
    /\ TaskAlive => job.status \in OpenStatuses
    /\ canceller = "marked" /\ task.pc \in {"unborn", "created"}
          => job.status = "cancelling"
    /\ task.cancelled /\ task.pc \in {"unborn", "created"} /\ app = "up"
          => job.status = "cancelling"
    /\ kind = "bulk" => canceller = "idle" /\ task.pc \notin {"unborn", "resolving", "closing"}
    /\ ~FirstLife => task.pc = "ended"
    /\ app = "down" => canceller = "idle"

(* Which sessions there may be, by the kind of work and the task's progress.   *)
SlotsMatchTask ==
    /\ ~FirstLife \/ task.pc \in {"unborn", "created", "resolving"} => In({"none"}) = Slots
    /\ kind = "job" => In({"good", "bad"}) = {}
    /\ kind = "bulk" => In({"recording", "accounting", "crashed", "cancelled"}) = {}
    /\ kind = "job" /\ task.cancelled => In({"waiting"}) = {}
    /\ ~task.cancelled => In({"cancelled"}) = {}
    /\ task.pc \in {"finishing", "closing"} => In(SlotEnded) = Slots
    /\ task.pc = "finishing" \/ (job.status = "done" /\ FirstLife)
         => In({"recorded", "crashed"}) = Slots

(* At most one session is writing, and what it has read is still so; what is   *)
(* counted or waits to be is what is recorded.                                 *)
RowsMatchSlots ==
    LET counted == job.completed + job.failed
    IN  /\ \A s, t \in In({"recording"}) :
              /\ s = t
              /\ base[s] = [completed |-> job.completed, failed |-> job.failed]
        /\ counted <= job.rows
        /\ kind = "job" \/ job.status = "done" => counted = job.rows
        /\ FirstLife /\ kind = "bulk"
              => job.rows = counted + Cardinality(In({"good", "bad"}))
        /\ FirstLife /\ In({"cancelled"}) = {}
              => job.rows = Cardinality(In({"accounting", "recorded", "good", "bad"}))

InductiveInv == /\ TypeOK
                /\ TaskMatchesRow
                /\ SlotsMatchTask
                /\ RowsMatchSlots
                /\ ActiveMeansAlive

(* Once a job's task is cancelled no further session starts, waiting ones      *)
(* included (gather passes the cancellation on; as_completed does not, so      *)
(* nothing of the kind holds of a bulk operation).                             *)
NothingStartsAfterCancel ==
    [][kind = "job" /\ task.cancelled => \A s \in Slots : slot'[s] = "running" => slot[s] = "running"]_vars

(* The task ends, whatever its sessions do (the semaphore is released by a     *)
(* session that raises).                                                       *)
TaskEnds == TaskAlive ~> ~TaskAlive

(* mark_interrupted: an open job without a task is one that a previous process *)
(* left open; in this process a job marked cancelling has a task to cancel.    *)
CancellingMeansAlive == app = "up" /\ job.status = "cancelling" => TaskAlive
=============================================================================
