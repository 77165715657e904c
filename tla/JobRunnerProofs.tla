-------------------------- MODULE JobRunnerProofs --------------------------
(* Proofs about JobRunner for every number of sessions, of places and of       *)
(* restarts, for jobs and bulk re-authentications alike.                       *)
EXTENDS JobRunner, FiniteSetTheorems, TLAPS

-----------------------------------------------------------------------------
(* Sets of sessions *)

LEMMA InIsFinite ==
    ASSUME NEW states
    PROVE  /\ IsFiniteSet(In(states)) /\ Cardinality(In(states)) \in Nat
           /\ In(states) \subseteq Slots
<1>1. In(states) \subseteq Slots
  BY DEF In
<1> QED
  BY <1>1, SlotsAssumption, FS_Subset, FS_CardinalityType

(* A session that moves enters the sets that have its new state. *)
LEMMA InMoves ==
    ASSUME slot \in [Slots -> SlotStates], NEW s \in Slots, NEW v,
           slot' = [slot EXCEPT ![s] = v], NEW states
    PROVE  In(states)' = IF v \in states THEN In(states) \cup {s} ELSE In(states) \ {s}
  BY DEF In

LEMMA InLeaves ==
    ASSUME slot \in [Slots -> SlotStates], NEW s \in Slots, NEW v,
           slot' = [slot EXCEPT ![s] = v], NEW states, v \notin states
    PROVE  In(states)' = In(states) \ {s}
  BY DEF In

LEMMA OneMore ==
    ASSUME NEW states, NEW s \in Slots, s \notin In(states)
    PROVE  Cardinality(In(states) \cup {s}) = Cardinality(In(states)) + 1
  BY InIsFinite, FS_AddElement

LEMMA OneLess ==
    ASSUME NEW states, NEW s \in In(states)
    PROVE  Cardinality(In(states) \ {s}) = Cardinality(In(states)) - 1
  BY InIsFinite, FS_RemoveElement

LEMMA CountOfNone == Cardinality({}) = 0
  BY FS_EmptySet

-----------------------------------------------------------------------------
(* Init *)

LEMMA InitIsInductive == Init => InductiveInv
<1> SUFFICES ASSUME Init PROVE InductiveInv
  OBVIOUS
<1> USE DEF Init
<1>1. \A states : In(states) = IF "none" \in states THEN Slots ELSE {}
  BY DEF In
<1>2. TypeOK
  BY SlotsAssumption
  DEF TypeOK, Job, Task, SlotStates, OpenStatuses, FinalStatuses
<1>3. TaskMatchesRow /\ ActiveMeansAlive
  BY KindsAssumption DEF TaskMatchesRow, ActiveMeansAlive, TaskAlive, OpenStatuses, FirstLife
<1>4. SlotsMatchTask
  BY <1>1 DEF SlotsMatchTask, SlotEnded, FirstLife
<1>5. RowsMatchSlots
  <2>1. /\ In({"recording"}) = {} /\ In({"good", "bad"}) = {}
        /\ In({"accounting", "recorded", "good", "bad"}) = {}
    BY <1>1
  <2> QED
    BY <2>1, CountOfNone DEF RowsMatchSlots, FirstLife
<1> QED
  BY <1>2, <1>3, <1>4, <1>5 DEF InductiveInv

-----------------------------------------------------------------------------
(* Steps.  Most leave the sessions, or the counters, as they are. *)

LEMMA TaskStep ==
    ASSUME InductiveInv,
           LoopStep,
           CreateTask \/ Begin \/ ResolveFails \/ Gather \/ Gathered \/ Conclude
             \/ BeginBulk \/ Interrupt
    PROVE  TypeOK' /\ TaskMatchesRow' /\ ActiveMeansAlive'
<1> USE DEF InductiveInv, TypeOK, TaskMatchesRow, ActiveMeansAlive, TaskAlive, Job, Task,
            OpenStatuses, FinalStatuses, FirstLife, SlotStates
<1>1. CASE CreateTask
  BY <1>1 DEF CreateTask
<1>2. CASE Begin
  BY <1>2 DEF Begin
<1>3. CASE ResolveFails
  BY <1>3 DEF ResolveFails
<1>4. CASE Gather
  BY <1>4 DEF Gather, AfterCancel
<1>5. CASE Gathered
  BY <1>5 DEF Gathered
<1>6. CASE Conclude
  BY <1>6 DEF Conclude
<1>7. CASE BeginBulk
  BY <1>7 DEF BeginBulk
<1>8. CASE Interrupt
  BY <1>8 DEF Interrupt
<1> QED
  BY <1>1, <1>2, <1>3, <1>4, <1>5, <1>6, <1>7, <1>8

LEMMA SlotStep ==
    ASSUME InductiveInv, NEW s \in Slots,
           \/ StartRun(s) \/ RunEnds(s) \/ Record(s) \/ AccountingEnds(s) \/ Crash(s)
           \/ ReauthEnds(s) \/ Count(s)
    PROVE  TypeOK' /\ TaskMatchesRow' /\ ActiveMeansAlive'
<1> USE DEF InductiveInv, TypeOK, TaskMatchesRow, ActiveMeansAlive, TaskAlive, Job, Task,
            OpenStatuses, FinalStatuses, FirstLife, SlotStates
<1>1. CASE StartRun(s)
  BY <1>1 DEF StartRun
<1>2. CASE RunEnds(s)
  BY <1>2 DEF RunEnds
<1>3. CASE Record(s)
  <2>1. PICK success, accounting \in BOOLEAN :
             /\ slot' = [slot EXCEPT ![s] = IF accounting THEN "accounting" ELSE "recorded"]
             /\ job' = [job EXCEPT !.rows = @ + 1,
                          !.completed = IF success THEN base[s].completed + 1 ELSE @,
                          !.failed = IF success THEN @ ELSE base[s].failed + 1]
    BY <1>3 DEF Record
  <2>2. base[s].completed + 1 \in Nat /\ base[s].failed + 1 \in Nat /\ job.rows + 1 \in Nat
    OBVIOUS
  <2>3. job' \in Job /\ job'.status = job.status
    BY <2>1, <2>2
  <2>4. UNCHANGED <<task, base, canceller, app, restarts, kind>>
    BY <1>3 DEF Record
  <2>5. slot' \in [Slots -> SlotStates]
    BY <2>1
  <2> QED
    BY <2>3, <2>4, <2>5
<1>4. CASE AccountingEnds(s)
  BY <1>4 DEF AccountingEnds
<1>5. CASE Crash(s)
  BY <1>5 DEF Crash
<1>6. CASE ReauthEnds(s)
  BY <1>6 DEF ReauthEnds
<1>7. CASE Count(s)
  BY <1>7 DEF Count
<1> QED
  BY <1>1, <1>2, <1>3, <1>4, <1>5, <1>6, <1>7

LEMMA OtherStep ==
    ASSUME InductiveInv,
           PressCancel \/ MarkCancelling \/ DeliverCancel \/ Delete \/ Stop \/ Die \/ Restart
    PROVE  TypeOK' /\ TaskMatchesRow' /\ ActiveMeansAlive'
<1> USE DEF InductiveInv, TypeOK, TaskMatchesRow, ActiveMeansAlive, TaskAlive, Job, Task,
            OpenStatuses, FinalStatuses, FirstLife, SlotStates, CancelTask, AfterCancel
<1>1. CASE PressCancel
  BY <1>1 DEF PressCancel
<1>2. CASE MarkCancelling
  BY <1>2 DEF MarkCancelling
<1>3. CASE DeliverCancel
  BY <1>3 DEF DeliverCancel
<1>4. CASE Delete
  BY <1>4 DEF Delete, Deletable
<1>5. CASE Stop
  BY <1>5 DEF Stop
<1>6. CASE Die
  BY <1>6 DEF Die
<1>7. CASE Restart
  BY <1>7, SlotsAssumption DEF Restart, Swept
<1> QED
  BY <1>1, <1>2, <1>3, <1>4, <1>5, <1>6, <1>7

-----------------------------------------------------------------------------
(* The sessions and what is counted *)

LEMMA SameSets == ASSUME UNCHANGED slot, NEW states PROVE In(states)' = In(states)
  BY DEF In

LEMMA NoneYet ==
    ASSUME In({"none"}) = Slots, NEW states, "none" \notin states
    PROVE  In(states) = {}
  BY DEF In

(* Nothing that the two parts speak of changes, but the task's progress and    *)
(* the row's status, and these not towards an end that they describe.          *)
SameRows == /\ UNCHANGED <<slot, base, kind, app, restarts>>
            /\ job'.completed = job.completed /\ job'.failed = job.failed /\ job'.rows = job.rows
            /\ job'.status = "done" => job.status = "done"
            /\ task'.cancelled = task.cancelled
            /\ \/ task'.pc = task.pc
               \/ task'.pc = "ended"
               \/ task.pc \in {"unborn", "created"} /\ task'.pc \in {"created", "resolving"}

LEMMA SameRowsIsGood ==
    ASSUME InductiveInv, SameRows
    PROVE  SlotsMatchTask' /\ RowsMatchSlots'
<1>1. \A states : In(states)' = In(states)
  BY SameSets DEF SameRows
<1>2. SlotsMatchTask'
  BY <1>1 DEF SameRows, InductiveInv, SlotsMatchTask, FirstLife
<1>3. RowsMatchSlots'
  BY <1>1 DEF SameRows, InductiveInv, RowsMatchSlots, FirstLife
<1> QED
  BY <1>2, <1>3

LEMMA SameRowsSteps ==
    ASSUME InductiveInv,
           \/ CreateTask \/ Begin \/ ResolveFails \/ Interrupt
           \/ PressCancel \/ MarkCancelling \/ Delete \/ UNCHANGED vars
    PROVE  SameRows
<1>1. /\ job \in Job /\ task \in Task
  BY DEF InductiveInv, TypeOK
<1> QED
  BY <1>1 DEF SameRows, Job, Task, CreateTask, Begin, ResolveFails, Interrupt, PressCancel,
              MarkCancelling, Delete, vars

(* The sessions are scheduled: nothing is recorded yet. *)
LEMMA ScheduleIsGood ==
    ASSUME InductiveInv, Gather \/ BeginBulk
    PROVE  SlotsMatchTask' /\ RowsMatchSlots'
<1>1. CASE BeginBulk /\ task.cancelled
  <2>1. SameRows
    BY <1>1 DEF BeginBulk, SameRows, InductiveInv, TypeOK, Task
  <2> QED
    BY <2>1, SameRowsIsGood
<1>2. CASE Gather \/ (BeginBulk /\ ~task.cancelled)
  <2>1. /\ task.pc \in {"resolving", "created"} /\ In({"none"}) = Slots
        /\ task' = [task EXCEPT !.pc = "gathering"] /\ task \in Task
        /\ UNCHANGED <<job, base, kind, app, restarts>>
    BY <1>2 DEF Gather, BeginBulk, InductiveInv, SlotsMatchTask, TypeOK
  <2>2. task'.pc = "gathering" /\ task'.cancelled = task.cancelled
    BY <2>1 DEF Task
  <2>3. FirstLife /\ FirstLife'
    BY <2>1 DEF InductiveInv, TaskMatchesRow, FirstLife
  <2>4. slot' = [s \in Slots |-> IF task.cancelled THEN "cancelled" ELSE "waiting"]
    BY <1>2 DEF Gather, BeginBulk, AfterCancel
  <2>5. kind = "bulk" => ~task.cancelled
    BY <1>2 DEF Gather, InductiveInv, TaskMatchesRow
  <2>6. \A states : In(states)' =
           IF (IF task.cancelled THEN "cancelled" ELSE "waiting") \in states THEN Slots ELSE {}
    BY <2>4 DEF In
  <2>7. job.status # "done"
    BY <2>1 DEF InductiveInv, TaskMatchesRow, TaskAlive, OpenStatuses
  <2>8. SlotsMatchTask'
    BY <2>1, <2>2, <2>3, <2>5, <2>6, <2>7 DEF SlotsMatchTask, InductiveInv, FirstLife
  <2>9. RowsMatchSlots'
    <3>1. /\ In({"good", "bad"}) = {} /\ In({"accounting", "recorded", "good", "bad"}) = {}
          /\ In({"cancelled"}) = {}
      BY <2>1, NoneYet
    <3>2. job.rows = 0
      BY <2>3, <3>1, CountOfNone DEF InductiveInv, RowsMatchSlots
    <3>3. /\ In({"recording"})' = {} /\ In({"good", "bad"})' = {}
          /\ In({"accounting", "recorded", "good", "bad"})' = {}
      BY <2>6
    <3>4. job.completed + job.failed = 0
      <4>1. job.completed \in Nat /\ job.failed \in Nat
        BY DEF InductiveInv, TypeOK, Job
      <4> QED
        BY <3>2, <4>1 DEF InductiveInv, RowsMatchSlots
    <3> QED
      BY <2>1, <3>2, <3>3, <3>4, CountOfNone DEF RowsMatchSlots
  <2> QED
    BY <2>8, <2>9
<1> QED
  BY <1>1, <1>2 DEF BeginBulk

(* The task closes only when every session has ended, and as done only when    *)
(* none was cancelled.                                                         *)
LEMMA EndIsGood ==
    ASSUME InductiveInv, Gathered \/ Conclude
    PROVE  SlotsMatchTask' /\ RowsMatchSlots'
<1>1. UNCHANGED <<slot, base, kind, app, restarts>> /\ task \in Task /\ job \in Job
  BY DEF Gathered, Conclude, InductiveInv, TypeOK
<1>2. \A states : In(states)' = In(states)
  BY <1>1, SameSets
<1>3. CASE Gathered
  <2>1. /\ task'.pc = IF task.cancelled THEN "closing" ELSE "finishing"
        /\ task'.cancelled = task.cancelled /\ UNCHANGED job
    BY <1>1, <1>3 DEF Gathered, Task
  <2>2. In(SlotEnded) = Slots
    BY <1>3 DEF Gathered, In
  <2>3. ~task.cancelled => In({"recorded", "crashed"}) = Slots
    <3>1. ~task.cancelled => In({"cancelled"}) = {}
      BY DEF InductiveInv, SlotsMatchTask
    <3> QED
      BY <2>2, <3>1 DEF In, SlotEnded
  <2>4. SlotsMatchTask'
    BY <1>1, <1>2, <2>1, <2>2, <2>3 DEF SlotsMatchTask, InductiveInv, FirstLife
  <2>5. RowsMatchSlots'
    BY <1>1, <1>2, <2>1 DEF RowsMatchSlots, InductiveInv, FirstLife
  <2> QED
    BY <2>4, <2>5
<1>4. CASE Conclude
  <2>1. /\ task.pc \in {"finishing", "closing"}
        /\ task'.pc = "ended" /\ task'.cancelled = task.cancelled
        /\ job'.completed = job.completed /\ job'.failed = job.failed /\ job'.rows = job.rows
        /\ job'.status = "done" => task.pc = "finishing"
    BY <1>1, <1>4 DEF Conclude, Task, Job
  <2>2. task.pc = "finishing" => In({"recorded", "crashed"}) = Slots
    BY DEF InductiveInv, SlotsMatchTask
  <2>3. SlotsMatchTask'
    BY <1>1, <1>2, <2>1, <2>2 DEF SlotsMatchTask, InductiveInv, FirstLife
  <2>4. job'.status = "done" => job.completed + job.failed = job.rows
    <3>1. CASE kind = "job"
      BY <3>1 DEF InductiveInv, RowsMatchSlots
    <3>2. CASE kind = "bulk" /\ task.pc = "finishing"
      <4>1. In({"good", "bad"}) = {}
        BY <2>2, <3>2 DEF In
      <4>2. FirstLife
        BY <3>2 DEF InductiveInv, TaskMatchesRow
      <4>3. job.completed \in Nat /\ job.failed \in Nat
        BY <1>1 DEF Job
      <4>4. job.rows = job.completed + job.failed + Cardinality(In({"good", "bad"}))
        BY <3>2, <4>2 DEF InductiveInv, RowsMatchSlots
      <4>5. Cardinality(In({"good", "bad"})) = 0
        BY <4>1, CountOfNone
      <4> QED
        BY <4>3, <4>4, <4>5
    <3> QED
      BY <2>1, <3>1, <3>2, KindsAssumption DEF InductiveInv, TypeOK
  <2>5. RowsMatchSlots'
    BY <1>1, <1>2, <2>1, <2>4 DEF RowsMatchSlots, InductiveInv, FirstLife
  <2> QED
    BY <2>3, <2>5
<1> QED
  BY <1>3, <1>4

(* A session that has begun and not ended: its work is in its first life, and  *)
(* neither closing nor done.                                                   *)
Busy(s) == slot[s] \in SlotStates \ ({"none"} \cup SlotEnded)

LEMMA BusyMeansOpen ==
    ASSUME InductiveInv, NEW s \in Slots, Busy(s)
    PROVE  /\ FirstLife /\ task.pc \notin {"unborn", "created", "resolving", "finishing", "closing"}
           /\ job.status # "done"
<1>1. s \notin In({"none"}) /\ s \notin In(SlotEnded) /\ s \notin In({"recorded", "crashed"})
  BY DEF Busy, In, SlotEnded
<1> QED
  BY <1>1 DEF InductiveInv, SlotsMatchTask

LEMMA BusyMove ==
    ASSUME InductiveInv, NEW s \in Slots, Busy(s), NEW v \in SlotStates,
           slot' = [slot EXCEPT ![s] = v],
           UNCHANGED <<kind, app, restarts>>, job'.status = job.status,
           task'.cancelled = task.cancelled,
           task'.pc = task.pc
             \/ (task'.pc = "finishing" /\ In({"recorded", "crashed"})' = Slots),
           v \notin {"none", "waiting", "cancelled"},
           kind = "job" => v \notin {"good", "bad"},
           kind = "bulk" => v \notin {"recording", "accounting", "crashed"}
    PROVE  SlotsMatchTask' /\ In({"cancelled"})' = In({"cancelled"})
<1>1. slot \in [Slots -> SlotStates]
  BY DEF InductiveInv, TypeOK
<1>2. /\ In({"cancelled"})' = In({"cancelled"}) \ {s}
      /\ In({"waiting"})' = In({"waiting"}) \ {s}
      /\ kind = "job" => In({"good", "bad"})' = In({"good", "bad"}) \ {s}
      /\ kind = "bulk" => In({"recording", "accounting", "crashed", "cancelled"})'
                            = In({"recording", "accounting", "crashed", "cancelled"}) \ {s}
  <2>1. In({"cancelled"})' = In({"cancelled"}) \ {s}
    BY <1>1, InLeaves
  <2>2. In({"waiting"})' = In({"waiting"}) \ {s}
    BY <1>1, InLeaves
  <2>3. kind = "job" => In({"good", "bad"})' = In({"good", "bad"}) \ {s}
    BY <1>1, InLeaves
  <2>4. kind = "bulk" => In({"recording", "accounting", "crashed", "cancelled"})'
                          = In({"recording", "accounting", "crashed", "cancelled"}) \ {s}
    BY <1>1, InLeaves
  <2> QED
    BY <2>1, <2>2, <2>3, <2>4
<1>3. In({"cancelled"})' = In({"cancelled"})
  BY <1>2 DEF Busy, In, SlotEnded
<1>4. ASSUME In({"recorded", "crashed"})' = Slots PROVE In(SlotEnded)' = Slots
  <2>1. \A t \in Slots : slot'[t] \in {"recorded", "crashed"}
    BY <1>4 DEF In
  <2>2. \A t \in Slots : slot'[t] \in SlotEnded
    BY <2>1 DEF SlotEnded
  <2> QED
    BY <2>2 DEF In
<1>5. SlotsMatchTask'
  BY <1>2, <1>3, <1>4, BusyMeansOpen DEF InductiveInv, SlotsMatchTask, FirstLife
<1> QED
  BY <1>3, <1>5

(* Moves that leave the counters as they are. *)
LEMMA QuietMoveIsGood ==
    ASSUME InductiveInv, NEW s \in Slots,
           StartRun(s) \/ RunEnds(s) \/ AccountingEnds(s) \/ Crash(s)
    PROVE  SlotsMatchTask' /\ RowsMatchSlots'
<1> DEFINE reported == {"accounting", "recorded", "good", "bad"}
<1>1. slot \in [Slots -> SlotStates] /\ base \in [Slots -> [completed : Nat, failed : Nat]]
  BY DEF InductiveInv, TypeOK
<1>2. /\ UNCHANGED <<job, task, kind, app, restarts>>
      /\ slot[s] \in {"waiting", "running", "recording", "accounting"}
  BY DEF StartRun, RunEnds, AccountingEnds, Crash
<1>3. Busy(s)
  BY <1>2 DEF Busy, SlotStates, SlotEnded
<1>4. PICK v \in {"running", "recording", "recorded", "crashed"} :
          /\ slot' = [slot EXCEPT ![s] = v]
          /\ v = "recorded" <=> slot[s] = "accounting"
          /\ v \in {"recording", "crashed"} => kind = "job"
  BY DEF StartRun, RunEnds, AccountingEnds, Crash
<1>5. v \in SlotStates
  BY DEF SlotStates
<1>6. SlotsMatchTask' /\ In({"cancelled"})' = In({"cancelled"})
  BY <1>2, <1>3, <1>4, <1>5, BusyMove
<1>7. In(reported)' = In(reported) /\ In({"good", "bad"})' = In({"good", "bad"})
  <2> HIDE DEF reported
  <2>1. In(reported)' = IF v \in reported THEN In(reported) \cup {s} ELSE In(reported) \ {s}
    BY <1>1, <1>4, InMoves
  <2> DEFINE uncounted == {"good", "bad"}
  <2>5. v \notin uncounted
    BY <1>4
  <2> HIDE DEF uncounted
  <2>6. In(uncounted)' = In(uncounted) \ {s}
    BY <1>1, <1>4, <2>5, InMoves
  <2> USE DEF reported, uncounted
  <2>4. In({"good", "bad"})' = In({"good", "bad"}) \ {s}
    BY <2>6
  <2>2. s \in In(reported) <=> v \in reported
    BY <1>2, <1>4 DEF In
  <2>3. s \notin In({"good", "bad"})
    BY <1>2 DEF In
  <2> HIDE DEF reported
  <2> QED
    BY <2>1, <2>2, <2>3, <2>4
<1>8. \A t, u \in In({"recording"})' :
          /\ t = u
          /\ base'[t] = [completed |-> job.completed, failed |-> job.failed]
  <2>1. CASE v = "recording"
    <3>0. slot'[s] = "recording"
      BY <1>1, <1>4, <2>1
    <3>1. RunEnds(s)
      BY <1>1, <3>0 DEF StartRun, RunEnds, AccountingEnds, Crash
    <3>4. In({"recording"})' = In({"recording"}) \cup {s}
      BY <1>1, <1>4, <2>1, InMoves
    <3>5. In({"recording"}) = {}
      BY <3>1 DEF RunEnds, LoopFree, In
    <3>2. In({"recording"})' = {s}
      BY <3>4, <3>5
    <3>3. base' = [base EXCEPT ![s] = [completed |-> job.completed, failed |-> job.failed]]
      BY <3>1 DEF RunEnds
    <3> QED
      BY <1>1, <3>2, <3>3
  <2>2. CASE v # "recording"
    <3>1. In({"recording"})' = In({"recording"}) \ {s}
      BY <1>1, <1>4, <2>2, InMoves
    <3>2. base' = base
      <4>1. ~RunEnds(s)
        BY <1>1, <1>4, <2>2 DEF RunEnds
      <4> QED
        BY <4>1 DEF StartRun, AccountingEnds, Crash
    <3> QED
      BY <3>1, <3>2 DEF InductiveInv, RowsMatchSlots
  <2> QED
    BY <2>1, <2>2
<1>9. RowsMatchSlots'
  BY <1>2, <1>6, <1>7, <1>8 DEF RowsMatchSlots, InductiveInv, FirstLife
<1> QED
  BY <1>6, <1>9

LEMMA RecordIsGood ==
    ASSUME InductiveInv, NEW s \in Slots, Record(s)
    PROVE  SlotsMatchTask' /\ RowsMatchSlots'
<1> DEFINE reported == {"accounting", "recorded", "good", "bad"}
<1>1. /\ slot \in [Slots -> SlotStates] /\ job \in Job
      /\ job.completed \in Nat /\ job.failed \in Nat /\ job.rows \in Nat
  BY DEF InductiveInv, TypeOK, Job
<1>2. /\ UNCHANGED <<task, base, kind, app, restarts>> /\ slot[s] = "recording"
  BY DEF Record
<1>3. s \in In({"recording"}) /\ Busy(s)
  BY <1>2 DEF In, Busy, SlotStates, SlotEnded
<1>4. kind = "job"
  BY <1>3, KindsAssumption DEF In, InductiveInv, TypeOK, SlotsMatchTask
<1>5. base[s] = [completed |-> job.completed, failed |-> job.failed]
  BY <1>3 DEF InductiveInv, RowsMatchSlots
<1>6. PICK success, accounting \in BOOLEAN :
          /\ slot' = [slot EXCEPT ![s] = IF accounting THEN "accounting" ELSE "recorded"]
          /\ job' = [job EXCEPT !.rows = @ + 1,
                       !.completed = IF success THEN base[s].completed + 1 ELSE @,
                       !.failed = IF success THEN @ ELSE base[s].failed + 1]
  BY DEF Record
<1>7. /\ job'.rows = job.rows + 1 /\ job'.status = job.status
      /\ job'.completed + job'.failed = job.completed + job.failed + 1
  <2>1. CASE success
    BY <1>1, <1>5, <1>6, <2>1 DEF Job
  <2>2. CASE ~success
    BY <1>1, <1>5, <1>6, <2>2 DEF Job
  <2> QED
    BY <2>1, <2>2
<1>8. PICK v \in {"accounting", "recorded"} : slot' = [slot EXCEPT ![s] = v]
  BY <1>6
<1>9. v \in SlotStates
  BY DEF SlotStates
<1>10. SlotsMatchTask' /\ In({"cancelled"})' = In({"cancelled"})
  BY <1>2, <1>3, <1>4, <1>7, <1>8, <1>9, BusyMove
<1>11. In({"recording"})' = {}
  <2>1. In({"recording"})' = In({"recording"}) \ {s}
    BY <1>1, <1>8, InMoves
  <2>2. \A t \in In({"recording"}) : t = s
    BY <1>3 DEF InductiveInv, RowsMatchSlots
  <2> QED
    BY <2>1, <2>2
<1>12. Cardinality(In(reported)') = Cardinality(In(reported)) + 1
  <2>3. v \in reported
    OBVIOUS
  <2> HIDE DEF reported
  <2>1. In(reported)' = In(reported) \cup {s}
    BY <1>1, <1>8, <2>3, InMoves
  <2> USE DEF reported
  <2>2. s \notin In(reported)
    BY <1>2 DEF In
  <2> QED
    BY <2>1, <2>2, OneMore
<1>13. Cardinality(In(reported)) \in Nat
  BY InIsFinite
<1>14. job.completed + job.failed = job.rows
  BY <1>4 DEF InductiveInv, RowsMatchSlots
<1>15. job'.completed + job'.failed = job'.rows
  BY <1>1, <1>7, <1>14
<1>16. FirstLife /\ In({"cancelled"}) = {} => job.rows = Cardinality(In(reported))
  BY DEF InductiveInv, RowsMatchSlots
<1>17. FirstLife' = FirstLife
  BY <1>2 DEF FirstLife
<1>18. RowsMatchSlots'
  <2>1. FirstLife' /\ In({"cancelled"})' = {} => job'.rows = Cardinality(In(reported)')
    BY <1>7, <1>10, <1>12, <1>16, <1>17
  <2>2. job'.rows \in Nat
    BY <1>1, <1>7
  <2> QED
    BY <1>2, <1>4, <1>11, <1>15, <2>1, <2>2 DEF RowsMatchSlots
<1> QED
  BY <1>10, <1>18

(* A re-authentication ends: one more row, and one more to be counted. *)
LEMMA ReauthEndsIsGood ==
    ASSUME InductiveInv, NEW s \in Slots, ReauthEnds(s)
    PROVE  SlotsMatchTask' /\ RowsMatchSlots'
<1> DEFINE reported == {"accounting", "recorded", "good", "bad"}
           uncounted == {"good", "bad"}
<1>1. /\ slot \in [Slots -> SlotStates] /\ job \in Job
      /\ job.completed \in Nat /\ job.failed \in Nat /\ job.rows \in Nat
  BY DEF InductiveInv, TypeOK, Job
<1>2. /\ UNCHANGED <<task, base, kind, app, restarts>> /\ slot[s] = "running" /\ kind = "bulk"
  BY DEF ReauthEnds
<1>3. /\ job'.rows = job.rows + 1 /\ job'.status = job.status
      /\ job'.completed = job.completed /\ job'.failed = job.failed
  BY <1>1 DEF ReauthEnds, Job
<1>4. PICK v \in uncounted : slot' = [slot EXCEPT ![s] = v]
  BY DEF ReauthEnds
<1>5. v \in SlotStates /\ v \in reported /\ v # "recording"
  BY <1>4 DEF SlotStates
<1>6. Busy(s) /\ s \notin In(reported) /\ s \notin In(uncounted)
  BY <1>2 DEF Busy, SlotStates, SlotEnded, In
<1>7. SlotsMatchTask' /\ In({"cancelled"})' = In({"cancelled"})
  BY <1>2, <1>3, <1>4, <1>5, <1>6, BusyMove
<1> HIDE DEF reported, uncounted
<1>8. In(reported)' = In(reported) \cup {s} /\ In(uncounted)' = In(uncounted) \cup {s}
  BY <1>1, <1>4, <1>5, InMoves
<1>9. /\ Cardinality(In(reported)') = Cardinality(In(reported)) + 1
      /\ Cardinality(In(uncounted)') = Cardinality(In(uncounted)) + 1
      /\ Cardinality(In(uncounted)) \in Nat
  BY <1>6, <1>8, OneMore, InIsFinite
<1>10. In({"recording"})' = {}
  <2>1. In({"recording"}) = {}
    BY <1>2 DEF InductiveInv, SlotsMatchTask, In
  <2>2. In({"recording"})' = In({"recording"}) \ {s}
    BY <1>1, <1>4, <1>5, InMoves
  <2> QED
    BY <2>1, <2>2
<1>11. /\ FirstLife /\ job.status # "done"
       /\ job.rows = job.completed + job.failed + Cardinality(In(uncounted))
       /\ In({"cancelled"}) = {} => job.rows = Cardinality(In(reported))
  BY <1>2, <1>6, BusyMeansOpen DEF InductiveInv, RowsMatchSlots, reported, uncounted
<1>12. /\ job'.rows = job'.completed + job'.failed + Cardinality(In(uncounted)')
       /\ job'.completed + job'.failed <= job'.rows
       /\ In({"cancelled"})' = {} => job'.rows = Cardinality(In(reported)')
  BY <1>1, <1>3, <1>7, <1>9, <1>11
<1>13. RowsMatchSlots'
  BY <1>2, <1>3, <1>10, <1>11, <1>12 DEF RowsMatchSlots, FirstLife, reported, uncounted
<1> QED
  BY <1>7, <1>13

(* A result is counted: one less to count; after the last, all are recorded. *)
LEMMA CountIsGood ==
    ASSUME InductiveInv, NEW s \in Slots, Count(s)
    PROVE  SlotsMatchTask' /\ RowsMatchSlots'
<1> DEFINE reported == {"accounting", "recorded", "good", "bad"}
           uncounted == {"good", "bad"}
<1>1. /\ slot \in [Slots -> SlotStates] /\ job \in Job /\ task \in Task
      /\ job.completed \in Nat /\ job.failed \in Nat /\ job.rows \in Nat
  BY DEF InductiveInv, TypeOK, Job
<1>2. /\ UNCHANGED <<base, kind, app, restarts>> /\ slot[s] \in uncounted /\ kind = "bulk"
      /\ slot' = [slot EXCEPT ![s] = "recorded"]
  BY DEF Count
<1>3. /\ job'.rows = job.rows /\ job'.status = job.status
      /\ job'.completed + job'.failed = job.completed + job.failed + 1
  BY <1>1 DEF Count, Job
<1>4. Busy(s) /\ s \in In(reported) /\ s \in In(uncounted) /\ s \notin In({"recording"})
  BY <1>2 DEF Busy, SlotStates, SlotEnded, In
<1>5. /\ task'.cancelled = task.cancelled
      /\ task'.pc = task.pc \/ (task'.pc = "finishing" /\ In({"recorded", "crashed"})' = Slots)
  <2>1. CASE \A t \in Slots \ {s} : slot[t] = "recorded"
    <3>1. In({"recorded", "crashed"})' = Slots
      BY <1>1, <1>2, <2>1 DEF In
    <3> QED
      BY <1>1, <2>1, <3>1 DEF Count, Task
  <2>2. CASE ~\A t \in Slots \ {s} : slot[t] = "recorded"
    BY <2>2 DEF Count
  <2> QED
    BY <2>1, <2>2
<1>6. SlotsMatchTask' /\ In({"cancelled"})' = In({"cancelled"})
  BY <1>2, <1>3, <1>4, <1>5, BusyMove DEF SlotStates
<1>7. "recorded" \in reported /\ "recorded" \notin uncounted
  OBVIOUS
<1> HIDE DEF reported, uncounted
<1>8. In(reported)' = In(reported) /\ In(uncounted)' = In(uncounted) \ {s}
  <2>1. In(reported)' = In(reported) \cup {s} /\ In(uncounted)' = In(uncounted) \ {s}
    BY <1>1, <1>2, <1>7, InMoves
  <2> QED
    BY <1>4, <2>1
<1>9. /\ Cardinality(In(uncounted)') = Cardinality(In(uncounted)) - 1
      /\ Cardinality(In(uncounted)') \in Nat /\ Cardinality(In(uncounted)) \in Nat
  <2>1. Cardinality(In(uncounted) \ {s}) = Cardinality(In(uncounted)) - 1
    BY <1>4, OneLess
  <2>2. IsFiniteSet(In(uncounted) \ {s}) /\ Cardinality(In(uncounted)) \in Nat
    BY InIsFinite, FS_RemoveElement
  <2>3. Cardinality(In(uncounted) \ {s}) \in Nat
    BY <2>2, FS_CardinalityType
  <2> QED
    BY <1>8, <2>1, <2>2, <2>3
<1>10. In({"recording"})' = {}
  <2>1. In({"recording"}) = {}
    <3>1. In({"recording", "accounting", "crashed", "cancelled"}) = {}
      BY <1>2 DEF InductiveInv, SlotsMatchTask
    <3> QED
      BY <3>1 DEF In
  <2>2. In({"recording"})' = In({"recording"}) \ {s}
    <3>1. "recorded" \notin {"recording"}
      OBVIOUS
    <3>2. slot \in [Slots -> SlotStates] /\ slot' = [slot EXCEPT ![s] = "recorded"]
      BY <1>1, <1>2
    <3> QED
      BY <3>1, <3>2, InLeaves
  <2> QED
    BY <2>1, <2>2
<1>11. /\ FirstLife /\ job.status # "done"
       /\ job.rows = job.completed + job.failed + Cardinality(In(uncounted))
       /\ In({"cancelled"}) = {} => job.rows = Cardinality(In(reported))
  BY <1>2, <1>4, BusyMeansOpen DEF InductiveInv, RowsMatchSlots, reported, uncounted
<1>12. /\ job'.rows = job'.completed + job'.failed + Cardinality(In(uncounted)')
       /\ job'.completed + job'.failed <= job'.rows
  BY <1>1, <1>3, <1>9, <1>11
<1>13. In({"cancelled"})' = {} => job'.rows = Cardinality(In(reported)')
  BY <1>3, <1>6, <1>8, <1>11
<1>14. RowsMatchSlots'
  BY <1>2, <1>3, <1>10, <1>11, <1>12, <1>13
  DEF RowsMatchSlots, FirstLife, reported, uncounted
<1> QED
  BY <1>6, <1>14

(* A cancellation that reaches the task.  The sessions of a job end as         *)
(* cancelled, and with the first of them the counts stand no more for all the  *)
(* sessions; those of a bulk re-authentication go on.                          *)
LEMMA CancelIsGood ==
    ASSUME InductiveInv, CancelTask, task.pc # "unborn",
           UNCHANGED <<job, base, restarts, kind>>, app' # "down", app # "down"
    PROVE  SlotsMatchTask' /\ RowsMatchSlots'
<1>1. /\ slot \in [Slots -> SlotStates] /\ job \in Job /\ task \in Task
  BY DEF InductiveInv, TypeOK
<1>2. FirstLife' = FirstLife
  BY DEF FirstLife
<1>3. task'.pc = task.pc
  BY <1>1 DEF CancelTask, Task
<1>4. CASE ~TaskAlive \/ kind # "job"
  <2>1. UNCHANGED slot
    BY <1>4 DEF CancelTask
  <2>2. \A states : In(states)' = In(states)
    BY <2>1, SameSets
  <2>3. SlotsMatchTask'
    <3>1. task'.cancelled = task.cancelled \/ (kind = "bulk" /\ task'.cancelled)
      BY <1>1, <1>4, KindsAssumption DEF CancelTask, Task, InductiveInv, TypeOK
    <3> QED
      BY <1>2, <1>3, <2>2, <3>1 DEF SlotsMatchTask, InductiveInv, FirstLife
  <2>4. RowsMatchSlots'
    BY <1>2, <2>2 DEF RowsMatchSlots, InductiveInv
  <2> QED
    BY <2>3, <2>4
<1>5. CASE TaskAlive /\ kind = "job"
  <2>1. /\ slot' = [t \in Slots |-> AfterCancel(slot[t])] /\ task'.cancelled
    BY <1>1, <1>5 DEF CancelTask, Task
  <2>2. \A t \in Slots :
           /\ slot'[t] = slot[t]
              \/ (slot'[t] = "cancelled" /\ slot[t] \in {"waiting", "running", "accounting"})
           /\ slot'[t] # "waiting"
    BY <2>1 DEF AfterCancel
  <2>3. /\ In({"none"})' = In({"none"}) /\ In({"good", "bad"})' = In({"good", "bad"})
        /\ In({"recording"})' = In({"recording"}) /\ In({"waiting"})' = {}
        /\ In({"recorded", "crashed"})' = In({"recorded", "crashed"})
        /\ In(SlotEnded) \subseteq In(SlotEnded)' /\ In(SlotEnded)' \subseteq Slots
    BY <2>2 DEF In, SlotEnded
  <2>4. SlotsMatchTask'
    BY <1>2, <1>3, <1>5, <2>1, <2>3 DEF SlotsMatchTask, InductiveInv, FirstLife
  <2>5. In({"cancelled"})' = {} => UNCHANGED slot
    <3>1. ASSUME In({"cancelled"})' = {} PROVE \A t \in Slots : slot'[t] = slot[t]
      <4>1. \A t \in Slots : slot'[t] # "cancelled"
        BY <3>1 DEF In
      <4> QED
        BY <2>2, <4>1
    <3>2. DOMAIN slot' = Slots /\ slot' = [t \in Slots |-> slot'[t]]
      BY <2>1
    <3> QED
      BY <1>1, <3>1, <3>2
  <2>6. ASSUME FirstLife', In({"cancelled"})' = {}
        PROVE  job'.rows = Cardinality(In({"accounting", "recorded", "good", "bad"})')
    <3>1. \A states : In(states)' = In(states)
      BY <2>5, <2>6, SameSets
    <3>2. FirstLife /\ In({"cancelled"}) = {}
      BY <1>2, <2>6, <3>1
    <3>3. job.rows = Cardinality(In({"accounting", "recorded", "good", "bad"}))
      BY <3>2 DEF InductiveInv, RowsMatchSlots
    <3> QED
      BY <3>1, <3>3
  <2>7. RowsMatchSlots'
    BY <1>5, <2>3, <2>6 DEF RowsMatchSlots, InductiveInv
  <2> QED
    BY <2>4, <2>7
<1> QED
  BY <1>4, <1>5

(* The process ends, or starts again: only the rows are left. *)
LEMMA SecondLifeIsGood ==
    ASSUME InductiveInv, Die \/ Restart
    PROVE  SlotsMatchTask' /\ RowsMatchSlots'
<1>1. /\ job \in Job /\ task \in Task /\ restarts \in Nat
  BY SlotsAssumption DEF InductiveInv, TypeOK
<1>2. ~FirstLife' /\ task'.pc = "ended"
  <2>1. CASE Die
    BY <1>1, <2>1 DEF FirstLife, Die, Task
  <2>2. CASE Restart
    <3>1. task'.pc = "ended"
      BY <2>2 DEF Restart, FirstLife, InductiveInv, TaskMatchesRow
    <3>2. restarts' # 0
      BY <1>1, <2>2 DEF Restart
    <3> QED
      BY <3>1, <3>2 DEF FirstLife
  <2> QED
    BY <2>1, <2>2
<1>3. UNCHANGED <<base, kind>>
  BY DEF Die, Restart
<1>4. In({"none"})' = Slots
  <2>1. CASE Die
    BY <2>1 DEF Die, In
  <2>2. CASE Restart
    BY <2>2 DEF Restart, In, InductiveInv, SlotsMatchTask, FirstLife
  <2> QED
    BY <2>1, <2>2
<1>5. \A t \in Slots : slot'[t] = "none"
  BY <1>4 DEF In
<1>6. /\ In({"good", "bad"})' = {} /\ In({"waiting"})' = {} /\ In({"cancelled"})' = {}
      /\ In({"recording"})' = {}
      /\ In({"recording", "accounting", "crashed", "cancelled"})' = {}
  BY <1>5 DEF In
<1>7. SlotsMatchTask'
  BY <1>2, <1>4, <1>6 DEF SlotsMatchTask
<1>8. /\ job'.completed = job.completed /\ job'.failed = job.failed /\ job'.rows = job.rows
      /\ job'.status = "done" => job.status = "done"
  BY <1>1 DEF Die, Restart, Swept, Job
<1>9. RowsMatchSlots'
  BY <1>2, <1>3, <1>6, <1>8 DEF RowsMatchSlots, InductiveInv
<1> QED
  BY <1>7, <1>9

-----------------------------------------------------------------------------
LEMMA NextIsInductive == InductiveInv /\ [Next]_vars => InductiveInv'
<1> SUFFICES ASSUME InductiveInv, [Next]_vars PROVE InductiveInv'
  OBVIOUS
<1>1. CASE UNCHANGED vars
  <2>1. SlotsMatchTask' /\ RowsMatchSlots'
    BY <1>1, SameRowsSteps, SameRowsIsGood
  <2>2. TypeOK' /\ TaskMatchesRow' /\ ActiveMeansAlive'
    BY <1>1 DEF vars, InductiveInv, TypeOK, TaskMatchesRow, ActiveMeansAlive, TaskAlive, FirstLife
  <2> QED
    BY <2>1, <2>2 DEF InductiveInv
<1>2. CASE LoopStep
  <2>1. CASE CreateTask \/ Begin \/ ResolveFails \/ Gather \/ Gathered \/ Conclude
               \/ BeginBulk \/ Interrupt
    <3>1. TypeOK' /\ TaskMatchesRow' /\ ActiveMeansAlive'
      BY <1>2, <2>1, TaskStep
    <3>2. SlotsMatchTask' /\ RowsMatchSlots'
      BY <2>1, SameRowsSteps, SameRowsIsGood, ScheduleIsGood, EndIsGood
    <3> QED
      BY <3>1, <3>2 DEF InductiveInv
  <2>2. ASSUME NEW s \in Slots,
               \/ StartRun(s) \/ RunEnds(s) \/ Record(s) \/ AccountingEnds(s) \/ Crash(s)
               \/ ReauthEnds(s) \/ Count(s)
        PROVE  InductiveInv'
    <3>1. TypeOK' /\ TaskMatchesRow' /\ ActiveMeansAlive'
      BY <2>2, SlotStep
    <3>2. SlotsMatchTask' /\ RowsMatchSlots'
      BY <2>2, QuietMoveIsGood, RecordIsGood, ReauthEndsIsGood, CountIsGood
    <3> QED
      BY <3>1, <3>2 DEF InductiveInv
  <2> QED
    BY <1>2, <2>1, <2>2 DEF LoopStep
<1>3. CASE PressCancel \/ MarkCancelling \/ DeliverCancel \/ Delete \/ Stop \/ Die \/ Restart
  <2>1. TypeOK' /\ TaskMatchesRow' /\ ActiveMeansAlive'
    BY <1>3, OtherStep
  <2>2. SlotsMatchTask' /\ RowsMatchSlots'
    <3>1. CASE PressCancel \/ MarkCancelling \/ Delete
      BY <3>1, SameRowsSteps, SameRowsIsGood
    <3>2. CASE DeliverCancel
      <4>1. CASE task.pc = "unborn"
        <5>1. SameRows
          BY <3>2, <4>1 DEF DeliverCancel, SameRows
        <5> QED
          BY <5>1, SameRowsIsGood
      <4>2. CASE task.pc # "unborn"
        <5>1. app # "down"
          BY <3>2 DEF DeliverCancel, InductiveInv, TaskMatchesRow
        <5> QED
          BY <3>2, <4>2, <5>1, CancelIsGood DEF DeliverCancel
      <4> QED
        BY <4>1, <4>2
    <3>3. CASE Stop
      BY <3>3, CancelIsGood DEF Stop
    <3>4. CASE Die \/ Restart
      BY <3>4, SecondLifeIsGood
    <3> QED
      BY <1>3, <3>1, <3>2, <3>3, <3>4
  <2> QED
    BY <2>1, <2>2 DEF InductiveInv
<1> QED
  BY <1>1, <1>2, <1>3 DEF Next

(* What every reachable state satisfies: the row, the task and the sessions    *)
(* of a job or of a bulk operation stay in step (run_job, run_in_background,   *)
(* the buttons, the lifespan and mark_interrupted).                            *)
THEOREM Invariance == Spec => []InductiveInv
  BY InitIsInductive, NextIsInductive, PTL DEF Spec

(* Type correctness. *)
THEOREM TypeCorrectness == Spec => []TypeOK
<1>1. InductiveInv => TypeOK
  BY DEF InductiveInv
<1> QED
  BY <1>1, Invariance, PTL

(* Work that says it is queued or running always has a task to move it on.     *)
THEOREM ActiveIsAlive == Spec => []ActiveMeansAlive
<1>1. InductiveInv => ActiveMeansAlive
  BY DEF InductiveInv
<1> QED
  BY <1>1, Invariance, PTL

(* No job is deleted from under its task (jobs_delete refuses open jobs, and a *)
(* job with a task is open).                                                   *)
THEOREM TasksEndBeforeDeletion == Spec => []NoTaskOutlivesItsJob
<1>1. InductiveInv => NoTaskOutlivesItsJob
  BY DEF InductiveInv, TaskMatchesRow, NoTaskOutlivesItsJob, OpenStatuses
<1> QED
  BY <1>1, Invariance, PTL

(* The progress is never wrong: for any number of sessions ending in any order *)
(* the counters agree with what was recorded, and what is done has dealt with  *)
(* every session.                                                              *)
THEOREM ProgressIsTrue == Spec => []CountsMatch
<1>1. InductiveInv => CountsMatch
  <2> SUFFICES ASSUME InductiveInv PROVE CountsMatch
    OBVIOUS
  <2> DEFINE counted == job.completed + job.failed
             crashed == In({"crashed"})
  <2>1. job \in Job /\ slot \in [Slots -> SlotStates] /\ counted \in Nat
    BY DEF InductiveInv, TypeOK, Job
  <2>2. counted <= job.rows /\ (kind = "job" \/ job.status = "done" => counted = job.rows)
    BY DEF InductiveInv, RowsMatchSlots
  <2>3. ASSUME job.status = "done", FirstLife
        PROVE  counted + Cardinality(crashed) = Cardinality(Slots)
    <3>1. In({"recorded", "crashed"}) = Slots
      BY <2>3 DEF InductiveInv, SlotsMatchTask
    <3>2. \A t \in Slots : slot[t] \in {"recorded", "crashed"}
      BY <3>1 DEF In
    <3>3. /\ In({"cancelled"}) = {}
          /\ In({"accounting", "recorded", "good", "bad"}) = In({"recorded"})
          /\ Slots = In({"recorded"}) \cup crashed
          /\ In({"recorded"}) \cap crashed = {}
      BY <3>2 DEF In
    <3>4. counted = Cardinality(In({"recorded"}))
      BY <2>2, <2>3, <3>3 DEF InductiveInv, RowsMatchSlots
    <3>5. /\ IsFiniteSet(In({"recorded"})) /\ IsFiniteSet(crashed)
          /\ Cardinality(In({"recorded"})) \in Nat /\ Cardinality(crashed) \in Nat
      BY InIsFinite
    <3>6. Cardinality(In({"recorded"}) \cup crashed)
            = Cardinality(In({"recorded"})) + Cardinality(crashed)
                - Cardinality(In({"recorded"}) \cap crashed)
      BY <3>5, FS_Union
    <3> HIDE DEF crashed
    <3>7. Cardinality(In({"recorded"}) \cap crashed) = 0
      BY <3>3, CountOfNone
    <3> QED
      BY <3>3, <3>4, <3>5, <3>6, <3>7
  <2>4. crashed = {t \in Slots : slot[t] = "crashed"}
    BY DEF In
  <2> QED
    BY <2>2, <2>3, <2>4 DEF CountsMatch, FirstLife
<1> QED
  BY <1>1, Invariance, PTL

(* After the cancellation of a job no session starts.                          *)
THEOREM CancelledJobsStartNothing == Spec => NothingStartsAfterCancel
<1>1. InductiveInv /\ [Next]_vars
        => [kind = "job" /\ task.cancelled
              => \A s \in Slots : slot'[s] = "running" => slot[s] = "running"]_vars
  <2> SUFFICES ASSUME InductiveInv, Next, kind = "job", task.cancelled,
                      NEW s \in Slots, slot'[s] = "running"
               PROVE  slot[s] = "running"
    BY DEF vars
  <2>1. slot \in [Slots -> SlotStates] /\ slot[s] # "waiting"
    BY DEF InductiveInv, TypeOK, SlotsMatchTask, In
  <2>2. CASE LoopStep
    <3>1. CASE \E t \in Slots : StartRun(t)
      BY <2>1, <3>1 DEF StartRun, InductiveInv, SlotsMatchTask, In
    <3>2. CASE \E t \in Slots : \/ RunEnds(t) \/ Record(t) \/ AccountingEnds(t) \/ Crash(t)
                                 \/ ReauthEnds(t) \/ Count(t)
      BY <2>1, <3>2 DEF RunEnds, Record, AccountingEnds, Crash, ReauthEnds, Count
    <3>3. CASE CreateTask \/ Begin \/ ResolveFails \/ Gather \/ Gathered \/ Conclude
                 \/ BeginBulk \/ Interrupt
      BY <2>1, <3>3 DEF CreateTask, Begin, ResolveFails, Gather, Gathered, Conclude,
                        BeginBulk, Interrupt, AfterCancel
    <3> QED
      BY <2>2, <3>1, <3>2, <3>3 DEF LoopStep
  <2>3. CASE DeliverCancel \/ Stop
    BY <2>1, <2>3 DEF DeliverCancel, Stop, CancelTask, AfterCancel
  <2>4. CASE PressCancel \/ MarkCancelling \/ Delete \/ Die \/ Restart
    BY <2>1, <2>4 DEF PressCancel, MarkCancelling, Delete, Die, Restart
  <2> QED
    BY <2>2, <2>3, <2>4 DEF Next
<1> QED
  BY <1>1, Invariance, PTL DEF Spec, NothingStartsAfterCancel
=============================================================================
