-------------------------- MODULE SessionRowProofs --------------------------
(* Proofs about one session's row (SessionRow), for any number of tasks that   *)
(* work on it.  The types hold whatever overlaps.  When re-authentications do  *)
(* not overlap, the outcome of the last one stays on record: the columns it    *)
(* sets are written by nobody else, so the copy it compares with is current.   *)
EXTENDS SessionRow, FiniteSetTheorems, TLAPS

(* What the steps keep in any case. *)
RowIsTyped == TypeOK /\ CopiesFit

-----------------------------------------------------------------------------
(* Rows, copies and updates *)

LEMMA UsesAreKept ==
    \A d \in {"first-start", "start", "interim", "stop", "expire", "reauth"} :
        Uses(d) \in Used /\ Uses(d) \subseteq DOMAIN NoRow
  BY DEF Uses, Used, NoRow

LEMMA ReadIsTyped ==
    ASSUME row \in Columns,
           NEW d \in {"first-start", "start", "interim", "stop", "expire", "reauth"}
    PROVE  Read(d) \in Copies
  BY UsesAreKept DEF Read, Copies

LEMMA OpFields ==
    ASSUME NEW o \in Op
    PROVE  /\ o.doing \in {"nothing", "first-start", "start", "interim", "stop", "expire", "reauth"}
           /\ o.at \in {"idle", "created", "held", "sent", "answered"}
           /\ o.success \in BOOLEAN /\ o.outcome \in Outcome
  BY DEF Op

LEMMA IdleIsTyped == Idle \in Op
  BY RowAssumption DEF Idle, Op, NoOutcome, Outcome, Copies

(* An UPDATE of columns that are the row's own yields a row. *)
LEMMA WrittenIsARow ==
    ASSUME NEW r \in Columns, NEW columns,
           DOMAIN columns \subseteq DOMAIN NoRow,
           "acct" \in DOMAIN columns => columns["acct"] \in AcctStates,
           "accepted" \in DOMAIN columns => columns["accepted"] \in BOOLEAN,
           "class" \in DOMAIN columns => columns["class"] \in 0 .. MaxAccepts,
           "timed" \in DOMAIN columns => columns["timed"] \in BOOLEAN,
           "action" \in DOMAIN columns => columns["action"] \in {"terminate", "reauth"},
           "expires" \in DOMAIN columns => columns["expires"] \in {"none", "later", "due"}
    PROVE  Written(r, columns) \in Columns
  <1> DEFINE w == Written(r, columns)
  <1>1. /\ DOMAIN r = {"acct", "accepted", "class", "timed", "action", "expires"}
        /\ r.acct \in AcctStates /\ r.accepted \in BOOLEAN /\ r.class \in 0 .. MaxAccepts
        /\ r.timed \in BOOLEAN /\ r.action \in {"terminate", "reauth"}
        /\ r.expires \in {"none", "later", "due"}
    BY DEF Columns
  <1>2. /\ w.acct \in AcctStates /\ w.accepted \in BOOLEAN /\ w.class \in 0 .. MaxAccepts
        /\ w.timed \in BOOLEAN /\ w.action \in {"terminate", "reauth"}
        /\ w.expires \in {"none", "later", "due"}
    BY <1>1 DEF Written
  <1>3. w = [acct |-> w.acct, accepted |-> w.accepted, class |-> w.class, timed |-> w.timed,
             action |-> w.action, expires |-> w.expires]
    BY <1>1 DEF Written
  <1> QED
    BY <1>2, <1>3 DEF Columns

(* An UPDATE changes columns that are named, to the values that are named. *)
LEMMA UpdateFields ==
    ASSUME NEW copy, NEW new
    PROVE  /\ DOMAIN Updated(copy, new) \subseteq DOMAIN new
           /\ \A c \in DOMAIN Updated(copy, new) : Updated(copy, new)[c] = new[c]
           /\ \A c \in DOMAIN new \ DOMAIN Updated(copy, new) : new[c] = copy[c]
  BY DEF Updated

LEMMA CommitYieldsARow ==
    ASSUME row \in Columns, NEW t \in Tasks, NEW new, Commit(t, new),
           DOMAIN new \subseteq DOMAIN NoRow,
           "acct" \in DOMAIN new => new["acct"] \in AcctStates,
           "accepted" \in DOMAIN new => new["accepted"] \in BOOLEAN,
           "class" \in DOMAIN new => new["class"] \in 0 .. MaxAccepts,
           "timed" \in DOMAIN new => new["timed"] \in BOOLEAN,
           "action" \in DOMAIN new => new["action"] \in {"terminate", "reauth"},
           "expires" \in DOMAIN new => new["expires"] \in {"none", "later", "due"}
    PROVE  row' \in Columns
  <1> DEFINE u == Updated(op[t].copy, new)
  <1>1. DOMAIN u \subseteq DOMAIN new /\ \A c \in DOMAIN u : u[c] = new[c]
    BY UpdateFields
  <1> HIDE DEF u
  <1>2. Written(row, u) \in Columns
    BY <1>1, WrittenIsARow
  <1> QED
    BY <1>2 DEF Commit, u

(* An UPDATE that names none of its columns keeps the outcome. *)
LEMMA CommitKeepsOutcome ==
    ASSUME row \in Columns, NEW t \in Tasks, NEW new, Commit(t, new),
           DOMAIN new \subseteq {"acct", "expires"}
    PROVE  OutcomeOf(row') = OutcomeOf(row)
  <1> DEFINE u == Updated(op[t].copy, new)
  <1>1. DOMAIN u \subseteq {"acct", "expires"}
    BY UpdateFields
  <1> HIDE DEF u
  <1>2. OutcomeOf(Written(row, u)) = OutcomeOf(row)
    BY <1>1 DEF Written, OutcomeOf, Columns
  <1> QED
    BY <1>2 DEF Commit, u

LEMMA RunColumnsFields ==
    ASSUME NEW o \in Outcome
    PROVE  LET n == RunColumns(o)
           IN  /\ DOMAIN n = DOMAIN NoRow
               /\ n["acct"] \in {"reauthenticated", "reauth-failed"}
               /\ n["expires"] \in {"none", "later"}
               /\ n["accepted"] = o.accepted /\ n["class"] = o.class
               /\ n["timed"] = o.timed /\ n["action"] = o.action
  BY DEF RunColumns, Lifecycle, Outcome, NoRow

-----------------------------------------------------------------------------
(* One task moves *)

Fits(o) == /\ o.at = "idle" <=> o.doing = "nothing"
           /\ o.at \in {"held", "sent", "answered"} => DOMAIN o.copy = Uses(o.doing)
           /\ o.at = "held" => o.doing # "reauth"

LEMMA OneTaskMoves ==
    ASSUME RowIsTyped, NEW t \in Tasks, NEW o \in Op, Fits(o), op' = [op EXCEPT ![t] = o]
    PROVE  op' \in [Tasks -> Op] /\ CopiesFit'
  BY DEF RowIsTyped, TypeOK, CopiesFit, Fits

LEMMA IdleFits == Idle \in Op /\ Fits(Idle)
  BY IdleIsTyped DEF Idle, Fits

LEMMA TaskFields ==
    ASSUME RowIsTyped, NEW t \in Tasks
    PROVE  /\ op[t] \in Op /\ Fits(op[t])
           /\ op[t].doing \in {"nothing", "first-start", "start", "interim", "stop",
                               "expire", "reauth"}
           /\ op[t].outcome \in Outcome
  BY OpFields DEF RowIsTyped, TypeOK, CopiesFit, Fits

LEMMA FinishMoves ==
    ASSUME RowIsTyped, NEW t \in Tasks, Finish(t)
    PROVE  op' \in [Tasks -> Op] /\ CopiesFit'
  BY IdleFits, OneTaskMoves DEF Finish

LEMMA BeginMoves ==
    ASSUME RowIsTyped, NEW t \in Tasks, NEW at \in {"created", "held"},
           NEW d \in {"first-start", "start", "interim", "stop", "expire", "reauth"},
           Begin(t, d, at), at = "held" => d # "reauth"
    PROVE  op' \in [Tasks -> Op] /\ CopiesFit'
  <1> DEFINE o == [Idle EXCEPT !.doing = d, !.at = at,
                               !.copy = IF at = "held" THEN Read(d) ELSE << >>]
  <1>1. o \in Op
    <2>1. Read(d) \in Copies /\ << >> \in Copies
      BY ReadIsTyped DEF RowIsTyped, TypeOK, Copies
    <2> QED
      BY <2>1, IdleIsTyped DEF Idle, Op
  <1>2. Fits(o)
    BY DEF Fits, Idle, Read
  <1>3. op' = [op EXCEPT ![t] = o]
    BY DEF Begin
  <1> HIDE DEF o
  <1> QED
    BY <1>1, <1>2, <1>3, OneTaskMoves

(* A task reads the row and sends at once. *)
LEMMA SendMoves ==
    ASSUME RowIsTyped, NEW t \in Tasks, op[t].at = "created",
           op' = [op EXCEPT ![t].at = "sent", ![t].copy = Read(op[t].doing)]
    PROVE  op' \in [Tasks -> Op] /\ CopiesFit'
  <1> DEFINE o == [op[t] EXCEPT !.at = "sent", !.copy = Read(op[t].doing)]
  <1>1. op[t].doing \in {"first-start", "start", "interim", "stop", "expire", "reauth"}
    BY TaskFields DEF Fits
  <1>2. o \in Op
    BY <1>1, ReadIsTyped, TaskFields DEF RowIsTyped, TypeOK, Op
  <1>3. Fits(o)
    BY <1>1, TaskFields DEF Fits, Read, Op
  <1>4. op' = [op EXCEPT ![t] = o]
    BY DEF RowIsTyped, TypeOK
  <1> HIDE DEF o
  <1> QED
    BY <1>2, <1>3, <1>4, OneTaskMoves

(* A task that holds its copy of the row goes on. *)
LEMMA GoesOn ==
    ASSUME RowIsTyped, NEW t \in Tasks, op[t].at \in {"held", "sent"},
           NEW at \in {"sent", "answered"}, NEW success \in BOOLEAN, NEW outcome \in Outcome,
           op' = [op EXCEPT ![t] = [op[t] EXCEPT !.at = at, !.success = success,
                                                 !.outcome = outcome]]
    PROVE  op' \in [Tasks -> Op] /\ CopiesFit'
  <1> DEFINE o == [op[t] EXCEPT !.at = at, !.success = success, !.outcome = outcome]
  <1>1. o \in Op
    BY TaskFields DEF Op
  <1>2. Fits(o)
    BY TaskFields DEF Fits, Op
  <1> HIDE DEF o
  <1> QED
    BY <1>1, <1>2, OneTaskMoves DEF o

-----------------------------------------------------------------------------
(* Types *)

TaskSteps(t) == \/ RequestSends(t) \/ AccountingAnswered(t) \/ AccountingRaises(t)
                \/ CommitAccounting(t) \/ ReauthBegins(t) \/ TeapEnds(t) \/ CommitReauth(t)

Starts(t) == RequestAccounting(t) \/ RequestReauth(t) \/ CoaReauth(t)

TimerSteps == \/ InterimTick \/ InterimSends \/ StopInterim
              \/ ExpiryTick \/ ExpiryReauthenticates \/ ExpiryTerminates \/ CommitExpiry

OtherSteps == DisconnectOrCoa \/ Elapse \/ Delete \/ DeleteServer \/ Restart

LEMMA NextCases ==
    ASSUME Next
    PROVE  \/ TimerSteps \/ OtherSteps
           \/ \E t \in Tasks : TaskSteps(t) \/ Starts(t)
  BY DEF Next, TimerSteps, OtherSteps, TaskSteps, Starts, Tasks, InterimStep, ExpiryStep,
         AccountingStep, ReauthStep

LEMMA RowFields ==
    ASSUME RowIsTyped
    PROVE  /\ row \in Columns /\ stored \in BOOLEAN /\ op \in [Tasks -> Op] /\ last \in Outcome
           /\ server \in [configured : BOOLEAN, accepts : 0 .. MaxAccepts, stopped : BOOLEAN]
           /\ CopiesFit
           /\ "interim" \in Tasks /\ "expiry" \in Tasks
           /\ "coa" \in AcctStates /\ "reauth-failed" \in AcctStates
  BY DEF RowIsTyped, TypeOK, Tasks, AcctStates

(* An accounting message and the commit of what it came to. *)
LEMMA AccountingIsTyped ==
    ASSUME RowIsTyped, NEW t \in Tasks,
           \/ RequestSends(t) \/ AccountingAnswered(t) \/ AccountingRaises(t)
           \/ CommitAccounting(t)
    PROVE  RowIsTyped'
  <1>1. CASE RequestSends(t)
    <2>1. op' \in [Tasks -> Op] /\ CopiesFit'
      BY <1>1, SendMoves, FinishMoves DEF RequestSends
    <2> QED
      BY <1>1, <2>1, RowFields DEF RequestSends, RowIsTyped, TypeOK
  <1>2. CASE AccountingAnswered(t)
    <2>1. PICK heard \in BOOLEAN, answered \in BOOLEAN :
             /\ op' = [op EXCEPT ![t].at = "answered", ![t].success = answered]
             /\ server' = [server EXCEPT !.stopped =
                   IF heard /\ Opening(op[t].doing) THEN FALSE
                   ELSE @ \/ (answered /\ Ending(op[t].doing))]
      BY <1>2 DEF AccountingAnswered
    <2>2. op' = [op EXCEPT ![t] = [op[t] EXCEPT !.at = "answered", !.success = answered,
                                                !.outcome = op[t].outcome]]
      BY <2>1, RowFields, TaskFields DEF Op
    <2>3. op' \in [Tasks -> Op] /\ CopiesFit'
      BY <1>2, <2>2, GoesOn, TaskFields DEF AccountingAnswered
    <2>4. server' \in [configured : BOOLEAN, accepts : 0 .. MaxAccepts, stopped : BOOLEAN]
      BY <2>1, RowFields DEF Opening, Ending
    <2> QED
      BY <1>2, <2>3, <2>4, RowFields DEF AccountingAnswered, RowIsTyped, TypeOK
  <1>3. CASE AccountingRaises(t)
    <2>1. CASE op[t].doing = "first-start"
      <3>1. op' = [op EXCEPT ![t] = [op[t] EXCEPT !.at = "answered", !.success = op[t].success,
                                                  !.outcome = op[t].outcome]]
        BY <1>3, <2>1, RowFields, TaskFields DEF AccountingRaises, Op
      <3>2. op' \in [Tasks -> Op] /\ CopiesFit'
        BY <1>3, <3>1, GoesOn, TaskFields, OpFields DEF AccountingRaises
      <3> QED
        BY <1>3, <3>2, RowFields DEF AccountingRaises, RowIsTyped, TypeOK
    <2>2. CASE op[t].doing # "first-start"
      BY <1>3, <2>2, FinishMoves, RowFields DEF AccountingRaises, RowIsTyped, TypeOK
    <2> QED
      BY <2>1, <2>2
  <1>4. CASE CommitAccounting(t)
    <2>1. op' \in [Tasks -> Op] /\ CopiesFit'
      BY <1>4, FinishMoves DEF CommitAccounting
    <2>2. row' \in Columns
      <3>1. CASE op[t].success
        <4> DEFINE new == Recorded(op[t].doing, op[t].copy)
        <4>1. /\ DOMAIN new \subseteq {"acct", "expires"}
              /\ new["acct"] \in AcctStates
              /\ "expires" \in DOMAIN new => new["expires"] \in {"none", "later", "due"}
          BY <1>4 DEF CommitAccounting, Recorded, AcctStates, AcctLive
        <4>2. Commit(t, new)
          BY <1>4, <3>1 DEF CommitAccounting
        <4> HIDE DEF new
        <4> QED
          BY <4>1, <4>2, RowFields, CommitYieldsARow DEF NoRow
      <3>2. CASE ~op[t].success /\ op[t].doing = "first-start"
        <4> DEFINE new == [acct |-> "start-failed"]
        <4>1. DOMAIN new = {"acct"} /\ new["acct"] \in AcctStates
          BY DEF AcctStates
        <4>2. Commit(t, new)
          BY <1>4, <3>2 DEF CommitAccounting
        <4> HIDE DEF new
        <4> QED
          BY <4>1, <4>2, RowFields, CommitYieldsARow DEF NoRow
      <3> QED
        BY <1>4, <3>1, <3>2, RowFields DEF CommitAccounting
    <2> QED
      BY <1>4, <2>1, <2>2, RowFields DEF CommitAccounting, RowIsTyped, TypeOK
  <1> QED
    BY <1>1, <1>2, <1>3, <1>4

(* A re-authentication from its first read to its commit. *)
LEMMA ReauthIsTyped ==
    ASSUME RowIsTyped, NEW t \in Tasks, ReauthBegins(t) \/ TeapEnds(t) \/ CommitReauth(t)
    PROVE  RowIsTyped'
  <1>1. CASE ReauthBegins(t)
    <2>1. op' \in [Tasks -> Op] /\ CopiesFit'
      BY <1>1, SendMoves, FinishMoves DEF ReauthBegins
    <2>2. row' \in Columns
      <3>1. row' = row \/ row' = [row EXCEPT !.acct = "reauth-failed"]
        BY <1>1 DEF ReauthBegins
      <3>2. row \in Columns /\ "reauth-failed" \in AcctStates
        BY RowFields
      <3> QED
        BY <3>1, <3>2 DEF Columns
    <2> QED
      BY <1>1, <2>1, <2>2, RowFields DEF ReauthBegins, RowIsTyped, TypeOK
  <1>2. CASE TeapEnds(t)
    <2>1. PICK accepted \in BOOLEAN, terms \in Terms :
             /\ accepted => server.accepts < MaxAccepts
             /\ server' = IF accepted
                          THEN [server EXCEPT !.accepts = @ + 1, !.stopped = FALSE]
                          ELSE server
             /\ op' = [op EXCEPT ![t].at = "answered",
                                 ![t].outcome = [accepted |-> accepted,
                                       class |-> IF accepted THEN server.accepts + 1 ELSE 0,
                                       timed |-> terms.timed, action |-> terms.action]]
      BY <1>2 DEF TeapEnds
    <2> DEFINE outcome == [accepted |-> accepted,
                           class |-> IF accepted THEN server.accepts + 1 ELSE 0,
                           timed |-> terms.timed, action |-> terms.action]
    <2>2. terms.timed \in BOOLEAN /\ terms.action \in {"terminate", "reauth"}
      BY DEF Terms
    <2>3. server.accepts \in 0 .. MaxAccepts /\ MaxAccepts \in Nat \ {0}
      BY RowFields, RowAssumption
    <2>4. outcome \in Outcome
      BY <2>1, <2>2, <2>3 DEF Outcome
    <2>5. server' \in [configured : BOOLEAN, accepts : 0 .. MaxAccepts, stopped : BOOLEAN]
      <3>1. CASE accepted
        <4>1. server.accepts + 1 \in 0 .. MaxAccepts
          BY <2>1, <2>3, <3>1
        <4>2. server' = [server EXCEPT !.accepts = server.accepts + 1, !.stopped = FALSE]
          BY <2>1, <3>1
        <4> QED
          BY <4>1, <4>2, RowFields
      <3>2. CASE ~accepted
        BY <2>1, <3>2, RowFields
      <3> QED
        BY <3>1, <3>2
    <2>6. op' = [op EXCEPT ![t] = [op[t] EXCEPT !.at = "answered", !.success = op[t].success,
                                                !.outcome = outcome]]
      BY <2>1, RowFields, TaskFields DEF Op
    <2> HIDE DEF outcome
    <2>7. op' \in [Tasks -> Op] /\ CopiesFit'
      BY <1>2, <2>4, <2>6, GoesOn, TaskFields, OpFields DEF TeapEnds
    <2> QED
      BY <1>2, <2>5, <2>7, RowFields DEF TeapEnds, RowIsTyped, TypeOK
  <1>3. CASE CommitReauth(t)
    <2> DEFINE new == RunColumns(op[t].outcome)
    <2>1. op[t].outcome \in Outcome
      BY TaskFields
    <2>2. /\ DOMAIN new = DOMAIN NoRow
          /\ new["acct"] \in AcctStates /\ new["expires"] \in {"none", "later", "due"}
          /\ new["accepted"] \in BOOLEAN /\ new["class"] \in 0 .. MaxAccepts
          /\ new["timed"] \in BOOLEAN /\ new["action"] \in {"terminate", "reauth"}
      BY <2>1, RunColumnsFields DEF AcctStates, AcctLive, Outcome
    <2>3. Commit(t, new)
      BY <1>3 DEF CommitReauth
    <2> HIDE DEF new
    <2>4. row' \in Columns
      BY <2>2, <2>3, RowFields, CommitYieldsARow
    <2>5. op' \in [Tasks -> Op] /\ CopiesFit'
      BY <1>3, FinishMoves DEF CommitReauth
    <2> QED
      BY <1>3, <2>1, <2>4, <2>5, RowFields DEF CommitReauth, RowIsTyped, TypeOK
  <1> QED
    BY <1>1, <1>2, <1>3

LEMMA StartsAreTyped ==
    ASSUME RowIsTyped, NEW t \in Tasks, Starts(t)
    PROVE  RowIsTyped'
  <1>1. CASE RequestAccounting(t)
    <2>1. PICK a \in Actions \ {"first-start"} : Begin(t, a, "created")
      BY <1>1 DEF RequestAccounting
    <2>2. op' \in [Tasks -> Op] /\ CopiesFit'
      BY <2>1, RowAssumption, BeginMoves
    <2> QED
      BY <1>1, <2>2, RowFields DEF RequestAccounting, RowIsTyped, TypeOK
  <1>2. CASE RequestReauth(t)
    BY <1>2, BeginMoves, RowFields DEF RequestReauth, RowIsTyped, TypeOK
  <1>3. CASE CoaReauth(t)
    <2>1. row' = [row EXCEPT !.acct = "coa"] /\ Begin(t, "reauth", "created")
      BY <1>3 DEF CoaReauth
    <2>2. row' \in Columns
      BY <2>1, RowFields DEF Columns
    <2>3. op' \in [Tasks -> Op] /\ CopiesFit'
      BY <2>1, BeginMoves
    <2> QED
      BY <1>3, <2>2, <2>3, RowFields DEF CoaReauth, RowIsTyped, TypeOK
  <1> QED
    BY <1>1, <1>2, <1>3 DEF Starts

LEMMA TimersAreTyped ==
    ASSUME RowIsTyped, TimerSteps
    PROVE  RowIsTyped'
  <1>1. CASE InterimTick
    BY <1>1, BeginMoves, RowFields DEF InterimTick, RowIsTyped, TypeOK
  <1>2. CASE InterimSends
    <2> DEFINE t == "interim"
    <2>1. CASE server.configured
      <3>1. op' = [op EXCEPT ![t] = [op[t] EXCEPT !.at = "sent", !.success = op[t].success,
                                                  !.outcome = op[t].outcome]]
        BY <1>2, <2>1, RowFields, TaskFields DEF InterimSends, Op
      <3>2. op' \in [Tasks -> Op] /\ CopiesFit'
        BY <1>2, <3>1, RowFields, GoesOn, TaskFields, OpFields DEF InterimSends
      <3> QED
        BY <1>2, <3>2, RowFields DEF InterimSends, RowIsTyped, TypeOK
    <2>2. CASE ~server.configured
      BY <1>2, <2>2, FinishMoves, RowFields DEF InterimSends, RowIsTyped, TypeOK
    <2> QED
      BY <2>1, <2>2
  <1>3. CASE StopInterim
    BY <1>3, FinishMoves, RowFields DEF StopInterim, RowIsTyped, TypeOK
  <1>4. CASE ExpiryTick
    BY <1>4, BeginMoves, RowFields DEF ExpiryTick, RowIsTyped, TypeOK
  <1>5. CASE ExpiryReauthenticates
    BY <1>5, BeginMoves, RowFields DEF ExpiryReauthenticates, RowIsTyped, TypeOK
  <1>6. CASE ExpiryTerminates
    <2> DEFINE t == "expiry"
               at == IF server.configured /\ op["expiry"].copy.acct \in AcctLive
                     THEN "sent" ELSE "answered"
    <2>1. op' = [op EXCEPT ![t] = [op[t] EXCEPT !.at = at, !.success = op[t].success,
                                                !.outcome = op[t].outcome]]
      BY <1>6, RowFields, TaskFields DEF ExpiryTerminates, Op
    <2>2. at \in {"sent", "answered"}
      OBVIOUS
    <2> HIDE DEF at
    <2>3. /\ t \in Tasks /\ op[t].at = "held"
          /\ op[t].success \in BOOLEAN /\ op[t].outcome \in Outcome
      BY <1>6, RowFields, TaskFields, OpFields DEF ExpiryTerminates
    <2>4. op' \in [Tasks -> Op] /\ CopiesFit'
      BY <2>1, <2>2, <2>3, GoesOn
    <2> QED
      BY <1>6, <2>4, RowFields DEF ExpiryTerminates, RowIsTyped, TypeOK
  <1>7. CASE CommitExpiry
    <2> DEFINE new == [acct |-> "expired", expires |-> "none"]
    <2>1. DOMAIN new = {"acct", "expires"} /\ new["acct"] \in AcctStates /\ new["expires"] = "none"
      BY DEF AcctStates
    <2>2. Commit("expiry", new)
      BY <1>7 DEF CommitExpiry
    <2> HIDE DEF new
    <2>3. row' \in Columns
      BY <2>1, <2>2, RowFields, CommitYieldsARow DEF NoRow
    <2>4. op' \in [Tasks -> Op] /\ CopiesFit'
      BY <1>7, RowFields, FinishMoves DEF CommitExpiry
    <2> QED
      BY <1>7, <2>3, <2>4, RowFields DEF CommitExpiry, RowIsTyped, TypeOK
  <1> QED
    BY <1>1, <1>2, <1>3, <1>4, <1>5, <1>6, <1>7 DEF TimerSteps

LEMMA OthersAreTyped ==
    ASSUME RowIsTyped, OtherSteps
    PROVE  RowIsTyped'
  <1>1. CASE DisconnectOrCoa
    <2>1. row' \in Columns
      BY <1>1, RowFields DEF DisconnectOrCoa, Columns
    <2> QED
      BY <1>1, <2>1, RowFields DEF DisconnectOrCoa, RowIsTyped, TypeOK, CopiesFit
  <1>2. CASE Elapse
    <2>1. row' \in Columns
      BY <1>2, RowFields DEF Elapse, Columns
    <2> QED
      BY <1>2, <2>1, RowFields DEF Elapse, RowIsTyped, TypeOK, CopiesFit
  <1>3. CASE Delete
    <2>1. NoRow \in Columns
      BY RowAssumption DEF NoRow, Columns, AcctStates
    <2> QED
      BY <1>3, <2>1, RowFields DEF Delete, RowIsTyped, TypeOK, CopiesFit
  <1>4. CASE DeleteServer
    BY <1>4, RowFields DEF DeleteServer, RowIsTyped, TypeOK, CopiesFit
  <1>5. CASE Restart
    <2>1. op' \in [Tasks -> Op] /\ CopiesFit'
      BY <1>5, IdleFits DEF Restart, CopiesFit, Fits
    <2>2. server' \in [configured : BOOLEAN, accepts : 0 .. MaxAccepts, stopped : BOOLEAN]
      BY <1>5, RowFields DEF Restart
    <2> QED
      BY <1>5, <2>1, <2>2, RowFields DEF Restart, RowIsTyped, TypeOK
  <1> QED
    BY <1>1, <1>2, <1>3, <1>4, <1>5 DEF OtherSteps

LEMMA InitIsTyped ==
    ASSUME Init
    PROVE  RowIsTyped
  <1>1. PICK terms \in Terms :
           row = [acct |-> "", accepted |-> TRUE, class |-> 1,
                  timed |-> terms.timed, action |-> terms.action,
                  expires |-> IF terms.timed THEN "later" ELSE "none"]
    BY DEF Init
  <1>2. terms.timed \in BOOLEAN /\ terms.action \in {"terminate", "reauth"}
    BY DEF Terms
  <1>3. 0 \in 0 .. MaxAccepts /\ 1 \in 0 .. MaxAccepts
    BY RowAssumption
  <1>4. row \in Columns /\ last \in Outcome
    BY <1>1, <1>2, <1>3 DEF Init, Columns, AcctStates, Outcome, OutcomeOf
  <1>5. PICK starting \in SUBSET Requests :
           op = [t \in Tasks |-> IF t \in starting
                                 THEN [Idle EXCEPT !.doing = "first-start", !.at = "created"]
                                 ELSE Idle]
    BY DEF Init
  <1>6. [Idle EXCEPT !.doing = "first-start", !.at = "created"] \in Op
    BY IdleIsTyped DEF Idle, Op
  <1>7. op \in [Tasks -> Op]
    BY <1>5, <1>6, IdleIsTyped
  <1>8. CopiesFit
    BY <1>5 DEF CopiesFit, Idle
  <1>9. server \in [configured : BOOLEAN, accepts : 0 .. MaxAccepts, stopped : BOOLEAN]
    BY <1>3 DEF Init
  <1> QED
    BY <1>4, <1>7, <1>8, <1>9 DEF Init, RowIsTyped, TypeOK

LEMMA StepsAreTyped ==
    ASSUME RowIsTyped, [Next]_vars
    PROVE  RowIsTyped'
  <1>1. CASE Next
    <2>1. CASE TimerSteps
      BY <2>1, TimersAreTyped
    <2>2. CASE OtherSteps
      BY <2>2, OthersAreTyped
    <2>3. ASSUME NEW t \in Tasks, TaskSteps(t) \/ Starts(t)
          PROVE  RowIsTyped'
      BY <2>3, AccountingIsTyped, ReauthIsTyped, StartsAreTyped DEF TaskSteps
    <2> QED
      BY <1>1, <2>1, <2>2, <2>3, NextCases
  <1>2. CASE UNCHANGED vars
    BY <1>2 DEF vars, RowIsTyped, TypeOK, CopiesFit
  <1> QED
    BY <1>1, <1>2

LEMMA TypesAreInvariant == Spec => []RowIsTyped
  <1>1. Init => RowIsTyped
    BY InitIsTyped
  <1>2. RowIsTyped /\ [Next]_vars => RowIsTyped'
    BY StepsAreTyped
  <1> QED
    BY <1>1, <1>2, PTL DEF Spec

(* The columns of the row and of every task's copy keep their types, whatever  *)
(* tasks overlap: no UPDATE of changed columns can leave a row that is none.   *)
THEOREM TypeCorrectness == Spec => []TypeOK
  <1>1. RowIsTyped => TypeOK
    BY DEF RowIsTyped
  <1> QED
    BY <1>1, TypesAreInvariant, PTL

-----------------------------------------------------------------------------
(* The outcome of the last run, when re-authentications do not overlap *)

LEMMA OneAtATime ==
    ASSUME Overlap = 1, Cardinality(Reauthenticating) < Overlap
    PROVE  Reauthenticating = {}
  <1>1. IsFiniteSet(Tasks)
    <2>1. IsFiniteSet(Requests \cup Reauths)
      BY RowAssumption, FS_Union
    <2>2. IsFiniteSet((Requests \cup Reauths) \cup {"interim"})
      BY <2>1, FS_AddElement
    <2>3. IsFiniteSet(((Requests \cup Reauths) \cup {"interim"}) \cup {"expiry"})
      BY <2>2, FS_AddElement
    <2>4. Tasks = ((Requests \cup Reauths) \cup {"interim"}) \cup {"expiry"}
      BY DEF Tasks
    <2> QED
      BY <2>3, <2>4
  <1>2. IsFiniteSet(Reauthenticating)
    BY <1>1, FS_Subset DEF Reauthenticating
  <1>3. Cardinality(Reauthenticating) \in Nat
    BY <1>2, FS_CardinalityType
  <1>4. Cardinality(Reauthenticating) = 0
    BY <1>3
  <1> QED
    BY <1>2, <1>4, FS_EmptySet

(* A step that neither writes an outcome nor moves a re-authentication past    *)
(* its read.                                                                   *)
Quiet == /\ stored' => stored /\ OutcomeOf(row') = OutcomeOf(row)
         /\ last' = last
         /\ \A t \in Tasks : op'[t].doing = "reauth" =>
               /\ op[t].doing = "reauth"
               /\ op'[t].at \in {"sent", "answered"} =>
                     op[t].at \in {"sent", "answered"} /\ op'[t].copy = op[t].copy

LEMMA QuietKeeps ==
    ASSUME InductiveInv, Quiet
    PROVE  ReauthCopyIsCurrent' /\ LastRunIsOnRecord'
  <1>1. Reauthenticating' \subseteq Reauthenticating
    BY DEF Quiet, Reauthenticating
  <1>2. LastRunIsOnRecord'
    BY DEF InductiveInv, Quiet, LastRunIsOnRecord
  <1>3. ASSUME NEW t \in Tasks, t \in Reauthenticating'
        PROVE  /\ Reauthenticating' = {t}
               /\ op'[t].at \in {"sent", "answered"} /\ stored'
                     => OutcomeOf(op'[t].copy) = OutcomeOf(row')
    <2>1. /\ Reauthenticating = {t}
          /\ op[t].at \in {"sent", "answered"} /\ stored
                => OutcomeOf(op[t].copy) = OutcomeOf(row)
      BY <1>1, <1>3 DEF InductiveInv, ReauthCopyIsCurrent
    <2>2. op'[t].doing = "reauth"
      BY <1>3 DEF Reauthenticating
    <2> QED
      BY <1>1, <1>3, <2>1, <2>2 DEF Quiet
  <1> QED
    BY <1>2, <1>3 DEF ReauthCopyIsCurrent, Reauthenticating

LEMMA MoveIsQuiet ==
    ASSUME InductiveInv, NEW t \in Tasks, NEW o, op' = [op EXCEPT ![t] = o],
           o.doing = "reauth" =>
               /\ op[t].doing = "reauth"
               /\ o.at \in {"sent", "answered"} =>
                     op[t].at \in {"sent", "answered"} /\ o.copy = op[t].copy,
           stored' = stored, OutcomeOf(row') = OutcomeOf(row), last' = last
    PROVE  Quiet
  <1>1. ASSUME NEW u \in Tasks
        PROVE  op'[u] = IF u = t THEN o ELSE op[u]
    BY DEF InductiveInv, TypeOK
  <1> QED
    BY <1>1 DEF Quiet

LEMMA FinishIsQuiet ==
    ASSUME InductiveInv, NEW t \in Tasks, Finish(t),
           stored' = stored, OutcomeOf(row') = OutcomeOf(row), last' = last
    PROVE  Quiet
  <1>1. Idle.doing # "reauth"
    BY DEF Idle
  <1> QED
    BY <1>1, MoveIsQuiet DEF Finish

(* A re-authentication starts when there is none. *)
LEMMA StartKeeps ==
    ASSUME InductiveInv, Overlap = 1, Cardinality(Reauthenticating) < Overlap,
           NEW t \in Tasks, Begin(t, "reauth", "created"),
           OutcomeOf(row') = OutcomeOf(row), stored' = stored, last' = last
    PROVE  ReauthCopyIsCurrent' /\ LastRunIsOnRecord'
  <1>1. Reauthenticating = {}
    BY OneAtATime
  <1>2. /\ \A u \in Tasks \ {t} : op'[u].doing # "reauth"
        /\ op'[t].doing = "reauth" /\ op'[t].at = "created"
    BY <1>1 DEF Reauthenticating, Begin, InductiveInv, TypeOK, Idle
  <1>3. Reauthenticating' = {t}
    BY <1>2 DEF Reauthenticating
  <1>4. LastRunIsOnRecord'
    BY DEF InductiveInv, LastRunIsOnRecord
  <1>5. ReauthCopyIsCurrent'
    BY <1>2, <1>3 DEF ReauthCopyIsCurrent
  <1> QED
    BY <1>4, <1>5

(* Accounting writes the accounting state and the deadline alone. *)
LEMMA AccountingKeeps ==
    ASSUME InductiveInv, NEW t \in Tasks,
           \/ RequestSends(t) \/ AccountingAnswered(t) \/ AccountingRaises(t)
           \/ CommitAccounting(t)
    PROVE  ReauthCopyIsCurrent' /\ LastRunIsOnRecord'
  <1>0. op[t] \in Op /\ op \in [Tasks -> Op]
    BY DEF InductiveInv, TypeOK
  <1>1. CASE RequestSends(t)
    <2>1. CASE Finish(t)
      BY <1>1, <2>1, FinishIsQuiet, QuietKeeps DEF RequestSends
    <2>2. CASE ~Finish(t)
      <3> DEFINE o == [op[t] EXCEPT !.at = "sent", !.copy = Read(op[t].doing)]
      <3>1. op' = [op EXCEPT ![t] = o]
        BY <1>0, <1>1, <2>2 DEF RequestSends
      <3>2. o.doing # "reauth"
        BY <1>0, <1>1 DEF RequestSends, Op
      <3> HIDE DEF o
      <3> QED
        BY <1>1, <3>1, <3>2, MoveIsQuiet, QuietKeeps DEF RequestSends
    <2> QED
      BY <2>1, <2>2
  <1>2. CASE AccountingAnswered(t)
    <2>1. PICK answered \in BOOLEAN :
             op' = [op EXCEPT ![t].at = "answered", ![t].success = answered]
      BY <1>2 DEF AccountingAnswered
    <2> DEFINE o == [op[t] EXCEPT !.at = "answered", !.success = answered]
    <2>2. op' = [op EXCEPT ![t] = o]
      BY <1>0, <2>1
    <2>3. o.doing # "reauth"
      BY <1>0, <1>2 DEF AccountingAnswered, Op
    <2> HIDE DEF o
    <2> QED
      BY <1>2, <2>2, <2>3, MoveIsQuiet, QuietKeeps DEF AccountingAnswered
  <1>3. CASE AccountingRaises(t)
    <2>1. CASE Finish(t)
      BY <1>3, <2>1, FinishIsQuiet, QuietKeeps DEF AccountingRaises
    <2>2. CASE ~Finish(t)
      <3> DEFINE o == [op[t] EXCEPT !.at = "answered"]
      <3>1. op' = [op EXCEPT ![t] = o]
        BY <1>0, <1>3, <2>2 DEF AccountingRaises
      <3>2. o.doing # "reauth"
        BY <1>0, <1>3 DEF AccountingRaises, Op
      <3> HIDE DEF o
      <3> QED
        BY <1>3, <3>1, <3>2, MoveIsQuiet, QuietKeeps DEF AccountingRaises
    <2> QED
      BY <2>1, <2>2
  <1>4. CASE CommitAccounting(t)
    <2>1. OutcomeOf(row') = OutcomeOf(row)
      <3>1. CASE op[t].success
        <4> DEFINE new == Recorded(op[t].doing, op[t].copy)
        <4>1. DOMAIN new \subseteq {"acct", "expires"}
          BY <1>4 DEF CommitAccounting, Recorded
        <4>2. Commit(t, new)
          BY <1>4, <3>1 DEF CommitAccounting
        <4> HIDE DEF new
        <4> QED
          BY <4>1, <4>2, CommitKeepsOutcome DEF InductiveInv, TypeOK
      <3>2. CASE ~op[t].success /\ op[t].doing = "first-start"
        <4> DEFINE new == [acct |-> "start-failed"]
        <4>1. DOMAIN new \subseteq {"acct", "expires"}
          OBVIOUS
        <4>2. Commit(t, new)
          BY <1>4, <3>2 DEF CommitAccounting
        <4> HIDE DEF new
        <4> QED
          BY <4>1, <4>2, CommitKeepsOutcome DEF InductiveInv, TypeOK
      <3> QED
        BY <1>4, <3>1, <3>2 DEF CommitAccounting
    <2>2. Quiet
      BY <1>4, <2>1, FinishIsQuiet DEF CommitAccounting
    <2> QED
      BY <2>2, QuietKeeps
  <1> QED
    BY <1>1, <1>2, <1>3, <1>4

(* The columns that are not written are those whose value was the one in the   *)
(* copy, which is the row's: the row takes the outcome as a whole.             *)
LEMMA CommitReauthKeeps ==
    ASSUME InductiveInv, NEW t \in Tasks, CommitReauth(t)
    PROVE  ReauthCopyIsCurrent' /\ LastRunIsOnRecord'
  <1> DEFINE o == op[t].outcome
             new == RunColumns(o)
             u == Updated(op[t].copy, new)
  <1>1. t \in Reauthenticating /\ op[t].at = "answered"
    BY DEF CommitReauth, Reauthenticating
  <1>2. /\ Reauthenticating = {t}
        /\ stored => OutcomeOf(op[t].copy) = OutcomeOf(row)
    BY <1>1 DEF InductiveInv, ReauthCopyIsCurrent
  <1>3. Reauthenticating' = {}
    BY <1>2 DEF InductiveInv, TypeOK, CommitReauth, Finish, Idle, Reauthenticating
  <1>4. ReauthCopyIsCurrent'
    BY <1>3 DEF ReauthCopyIsCurrent
  <1>5. ASSUME stored
        PROVE  OutcomeOf(row') = o
    <2>1. o \in Outcome /\ row \in Columns
      BY TaskFields DEF InductiveInv, TypeOK, RowIsTyped
    <2>2. /\ {"accepted", "class", "timed", "action"} \subseteq DOMAIN new
          /\ new["accepted"] = o.accepted /\ new["class"] = o.class
          /\ new["timed"] = o.timed /\ new["action"] = o.action
      BY <2>1, RunColumnsFields DEF NoRow
    <2>3. row' = Written(row, u)
      BY <1>5 DEF CommitReauth, Commit
    <2> HIDE DEF new
    <2>4. /\ \A c \in DOMAIN u : u[c] = new[c]
          /\ \A c \in DOMAIN new \ DOMAIN u : new[c] = op[t].copy[c]
      BY UpdateFields
    <2> HIDE DEF u, o
    <2>5. \A c \in {"accepted", "class", "timed", "action"} : op[t].copy[c] = row[c]
      BY <1>2, <1>5 DEF OutcomeOf
    <2>6. \A c \in {"accepted", "class", "timed", "action"} : row'[c] = new[c]
      BY <2>1, <2>2, <2>3, <2>4, <2>5 DEF Written, Columns
    <2>7. OutcomeOf(row') = [accepted |-> o.accepted, class |-> o.class,
                             timed |-> o.timed, action |-> o.action]
      BY <2>2, <2>6 DEF OutcomeOf
    <2> QED
      BY <2>1, <2>7 DEF Outcome
  <1>6. LastRunIsOnRecord'
    BY <1>5 DEF CommitReauth, LastRunIsOnRecord
  <1> QED
    BY <1>4, <1>6

(* A re-authentication reads the row when its turn comes. *)
LEMMA ReauthBeginsKeeps ==
    ASSUME InductiveInv, NEW t \in Tasks, ReauthBegins(t)
    PROVE  ReauthCopyIsCurrent' /\ LastRunIsOnRecord'
  <1>0. op[t] \in Op /\ op \in [Tasks -> Op] /\ row \in Columns
    BY DEF InductiveInv, TypeOK
  <1>1. CASE stored /\ server.configured
    <2> DEFINE o == [op[t] EXCEPT !.at = "sent", !.copy = Read("reauth")]
    <2>1. op' = [op EXCEPT ![t] = o] /\ UNCHANGED <<row, stored, last>>
      BY <1>0, <1>1 DEF ReauthBegins
    <2>2. o.doing = "reauth" /\ o.copy = Read("reauth")
      BY <1>0 DEF ReauthBegins, Op
    <2>3. op'[t] = o /\ \A u \in Tasks \ {t} : op'[u] = op[u]
      BY <1>0, <2>1
    <2> HIDE DEF o
    <2>4. Reauthenticating = {t}
      BY DEF InductiveInv, ReauthCopyIsCurrent, Reauthenticating, ReauthBegins
    <2>5. Reauthenticating' = {t}
      BY <2>2, <2>3, <2>4 DEF Reauthenticating
    <2>6. OutcomeOf(Read("reauth")) = OutcomeOf(row)
      BY <1>0 DEF OutcomeOf, Read, Uses
    <2>7. ReauthCopyIsCurrent'
      BY <2>1, <2>2, <2>3, <2>5, <2>6 DEF ReauthCopyIsCurrent
    <2>8. LastRunIsOnRecord'
      BY <2>1 DEF InductiveInv, LastRunIsOnRecord
    <2> QED
      BY <2>7, <2>8
  <1>2. CASE ~(stored /\ server.configured)
    <2>1. Finish(t) /\ (row' = row \/ row' = [row EXCEPT !.acct = "reauth-failed"])
      BY <1>2 DEF ReauthBegins
    <2>2. OutcomeOf(row') = OutcomeOf(row)
      BY <1>0, <2>1 DEF OutcomeOf, Columns
    <2> QED
      BY <2>1, <2>2, FinishIsQuiet, QuietKeeps DEF ReauthBegins
  <1> QED
    BY <1>1, <1>2

LEMMA TeapEndsKeeps ==
    ASSUME InductiveInv, NEW t \in Tasks, TeapEnds(t)
    PROVE  ReauthCopyIsCurrent' /\ LastRunIsOnRecord'
  <1>0. op[t] \in Op /\ op \in [Tasks -> Op]
    BY DEF InductiveInv, TypeOK
  <1>1. PICK outcome : op' = [op EXCEPT ![t].at = "answered", ![t].outcome = outcome]
    BY DEF TeapEnds
  <1> DEFINE o == [op[t] EXCEPT !.at = "answered", !.outcome = outcome]
  <1>2. op' = [op EXCEPT ![t] = o]
    BY <1>0, <1>1
  <1>3. o.copy = op[t].copy /\ op[t].doing = "reauth" /\ op[t].at = "sent"
    BY <1>0 DEF TeapEnds, Op
  <1> HIDE DEF o
  <1> QED
    BY <1>2, <1>3, MoveIsQuiet, QuietKeeps DEF TeapEnds

LEMMA StartsKeep ==
    ASSUME InductiveInv, Overlap = 1, NEW t \in Tasks, Starts(t)
    PROVE  ReauthCopyIsCurrent' /\ LastRunIsOnRecord'
  <1>1. CASE RequestAccounting(t)
    <2>1. PICK a \in Actions \ {"first-start"} : Begin(t, a, "created")
      BY <1>1 DEF RequestAccounting
    <2> DEFINE o == [Idle EXCEPT !.doing = a, !.at = "created", !.copy = << >>]
    <2>2. op' = [op EXCEPT ![t] = o]
      BY <2>1 DEF Begin
    <2>3. o.doing # "reauth"
      BY RowAssumption DEF Idle
    <2> HIDE DEF o
    <2> QED
      BY <1>1, <2>2, <2>3, MoveIsQuiet, QuietKeeps DEF RequestAccounting
  <1>2. CASE RequestReauth(t)
    BY <1>2, StartKeeps DEF RequestReauth
  <1>3. CASE CoaReauth(t)
    <2>1. OutcomeOf(row') = OutcomeOf(row)
      BY <1>3 DEF CoaReauth, OutcomeOf, InductiveInv, TypeOK, Columns
    <2> QED
      BY <1>3, <2>1, StartKeeps DEF CoaReauth
  <1> QED
    BY <1>1, <1>2, <1>3 DEF Starts

LEMMA TimersKeep ==
    ASSUME InductiveInv, Overlap = 1, TimerSteps
    PROVE  ReauthCopyIsCurrent' /\ LastRunIsOnRecord'
  <1>0. /\ op \in [Tasks -> Op] /\ "interim" \in Tasks /\ "expiry" \in Tasks
        /\ op["interim"] \in Op /\ op["expiry"] \in Op
    BY DEF InductiveInv, TypeOK, Tasks
  <1>1. CASE InterimTick
    <2> DEFINE o == [Idle EXCEPT !.doing = "interim", !.at = "held", !.copy = Read("interim")]
    <2>1. op' = [op EXCEPT !["interim"] = o]
      BY <1>1 DEF InterimTick, Begin
    <2>2. o.doing # "reauth"
      BY DEF Idle
    <2> HIDE DEF o
    <2> QED
      BY <1>0, <1>1, <2>1, <2>2, MoveIsQuiet, QuietKeeps DEF InterimTick
  <1>2. CASE InterimSends
    <2>1. CASE Finish("interim")
      BY <1>0, <1>2, <2>1, FinishIsQuiet, QuietKeeps DEF InterimSends
    <2>2. CASE ~Finish("interim")
      <3> DEFINE o == [op["interim"] EXCEPT !.at = "sent"]
      <3>1. op' = [op EXCEPT !["interim"] = o]
        BY <1>0, <1>2, <2>2 DEF InterimSends
      <3>2. o.doing # "reauth"
        BY <1>0, <1>2 DEF InterimSends, Op, InductiveInv, CopiesFit
      <3> HIDE DEF o
      <3> QED
        BY <1>0, <1>2, <3>1, <3>2, MoveIsQuiet, QuietKeeps DEF InterimSends
    <2> QED
      BY <2>1, <2>2
  <1>3. CASE StopInterim
    BY <1>0, <1>3, FinishIsQuiet, QuietKeeps DEF StopInterim
  <1>4. CASE ExpiryTick
    <2> DEFINE o == [Idle EXCEPT !.doing = "expire", !.at = "held", !.copy = Read("expire")]
    <2>1. op' = [op EXCEPT !["expiry"] = o]
      BY <1>4 DEF ExpiryTick, Begin
    <2>2. o.doing # "reauth"
      BY DEF Idle
    <2> HIDE DEF o
    <2> QED
      BY <1>0, <1>4, <2>1, <2>2, MoveIsQuiet, QuietKeeps DEF ExpiryTick
  <1>5. CASE ExpiryReauthenticates
    BY <1>0, <1>5, StartKeeps DEF ExpiryReauthenticates
  <1>6. CASE ExpiryTerminates
    <2> DEFINE o == [op["expiry"] EXCEPT !.at =
                        IF server.configured /\ op["expiry"].copy.acct \in AcctLive
                        THEN "sent" ELSE "answered"]
    <2>1. op' = [op EXCEPT !["expiry"] = o]
      BY <1>0, <1>6 DEF ExpiryTerminates
    <2>2. o.doing # "reauth"
      BY <1>0, <1>6 DEF ExpiryTerminates, Op, InductiveInv, CopiesFit
    <2> HIDE DEF o
    <2> QED
      BY <1>0, <1>6, <2>1, <2>2, MoveIsQuiet, QuietKeeps DEF ExpiryTerminates
  <1>7. CASE CommitExpiry
    <2> DEFINE new == [acct |-> "expired", expires |-> "none"]
    <2>1. DOMAIN new \subseteq {"acct", "expires"}
      OBVIOUS
    <2>2. Commit("expiry", new)
      BY <1>7 DEF CommitExpiry
    <2> HIDE DEF new
    <2>3. OutcomeOf(row') = OutcomeOf(row)
      BY <1>0, <2>1, <2>2, CommitKeepsOutcome DEF InductiveInv, TypeOK
    <2> QED
      BY <1>0, <1>7, <2>3, FinishIsQuiet, QuietKeeps DEF CommitExpiry
  <1> QED
    BY <1>1, <1>2, <1>3, <1>4, <1>5, <1>6, <1>7 DEF TimerSteps

LEMMA OthersKeep ==
    ASSUME InductiveInv, OtherSteps
    PROVE  ReauthCopyIsCurrent' /\ LastRunIsOnRecord'
  <1>0. row \in Columns
    BY DEF InductiveInv, TypeOK
  <1>1. CASE DisconnectOrCoa
    <2>1. OutcomeOf(row') = OutcomeOf(row)
      BY <1>0, <1>1 DEF DisconnectOrCoa, OutcomeOf, Columns
    <2> QED
      BY <1>1, <2>1, QuietKeeps DEF DisconnectOrCoa, Quiet
  <1>2. CASE Elapse
    <2>1. OutcomeOf(row') = OutcomeOf(row)
      BY <1>0, <1>2 DEF Elapse, OutcomeOf, Columns
    <2> QED
      BY <1>2, <2>1, QuietKeeps DEF Elapse, Quiet
  <1>3. CASE Delete
    BY <1>3, QuietKeeps DEF Delete, Quiet
  <1>4. CASE DeleteServer
    BY <1>4, QuietKeeps DEF DeleteServer, Quiet
  <1>5. CASE Restart
    BY <1>5, QuietKeeps DEF Restart, Quiet, Idle
  <1> QED
    BY <1>1, <1>2, <1>3, <1>4, <1>5 DEF OtherSteps

LEMMA InitIsInductive ==
    ASSUME Init
    PROVE  InductiveInv
  <1>1. RowIsTyped
    BY InitIsTyped
  <1>2. LastRunIsOnRecord
    BY DEF Init, LastRunIsOnRecord
  <1>3. Reauthenticating = {}
    <2>1. PICK starting \in SUBSET Requests :
             op = [t \in Tasks |-> IF t \in starting
                                   THEN [Idle EXCEPT !.doing = "first-start", !.at = "created"]
                                   ELSE Idle]
      BY DEF Init
    <2>2. \A t \in Tasks : op[t].doing # "reauth"
      BY <2>1 DEF Idle
    <2> QED
      BY <2>2 DEF Reauthenticating
  <1> QED
    BY <1>1, <1>2, <1>3 DEF InductiveInv, RowIsTyped, ReauthCopyIsCurrent

LEMMA StepsAreInductive ==
    ASSUME InductiveInv, Overlap = 1, [Next]_vars
    PROVE  InductiveInv'
  <1>1. RowIsTyped'
    BY StepsAreTyped DEF InductiveInv, RowIsTyped
  <1>2. ReauthCopyIsCurrent' /\ LastRunIsOnRecord'
    <2>1. CASE TimerSteps
      BY <2>1, TimersKeep
    <2>2. CASE OtherSteps
      BY <2>2, OthersKeep
    <2>3. ASSUME NEW t \in Tasks, TaskSteps(t) \/ Starts(t)
          PROVE  ReauthCopyIsCurrent' /\ LastRunIsOnRecord'
      BY <2>3, AccountingKeeps, ReauthBeginsKeeps, TeapEndsKeeps, CommitReauthKeeps, StartsKeep
         DEF TaskSteps
    <2>4. CASE UNCHANGED vars
      BY <2>4, QuietKeeps DEF vars, Quiet
    <2> QED
      BY <2>1, <2>2, <2>3, <2>4, NextCases
  <1> QED
    BY <1>1, <1>2 DEF InductiveInv, RowIsTyped

(* When the re-authentications of a session do not overlap, one that awaits    *)
(* its server still holds the row's outcome, whatever timers, accounting       *)
(* requests, CoA requests, deletions and restarts do meanwhile.                *)
THEOREM Invariance == ASSUME Overlap = 1 PROVE Spec => []InductiveInv
  <1>1. Init => InductiveInv
    BY InitIsInductive
  <1>2. InductiveInv /\ [Next]_vars => InductiveInv'
    BY StepsAreInductive
  <1> QED
    BY <1>1, <1>2, PTL DEF Spec

(* No stale copy of the row brings back an earlier Class, result, lifetime or  *)
(* action, and no column keeps a value of another run.                         *)
THEOREM LastRunStaysOnRecord == ASSUME Overlap = 1 PROVE Spec => []LastRunIsOnRecord
  <1>1. InductiveInv => LastRunIsOnRecord
    BY DEF InductiveInv
  <1> QED
    BY <1>1, Invariance, PTL
=============================================================================
