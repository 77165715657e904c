----------------------------- MODULE SessionRow -----------------------------
(* One session of teap_gui: its row in the database and the tasks that work    *)
(* on it at the same time.  These are the interim-update timer, the expiry     *)
(* timer, accounting requests of the Sessions page (and the first Start of the *)
(* session's own job), re-authentications, CoA and Disconnect requests, and    *)
(* the Delete button.                                                          *)
(*                                                                             *)
(* A task reads the row into an ORM session of its own, awaits an exchange     *)
(* with the server, and commits; expire_on_commit is off, so it never sees     *)
(* what others wrote meanwhile, and an UPDATE names only the columns whose     *)
(* value is not the one that was read (Updated).                               *)
(*                                                                             *)
(* AllColumns, RecordedAsAsked, ExpiryOnSuccess and StateAlone are faulty      *)
(* variants of the definitions after them, which the checks must tell from     *)
(* these.                                                                      *)
EXTENDS Naturals, FiniteSets

CONSTANTS Requests,      \* accounting requests that may be in progress at once
          Actions,       \* what they may ask for, the job's first Start included
          Reauths,       \* re-authentications that may be in progress at once
          Overlap,       \* bound: re-authentications at once, the expiry's included
          AtOnce,        \* bound: tasks in progress at once, besides the expiry timer's
          MaxAccepts     \* bound: Access-Accepts, each with a Class of its own

VARIABLES row,       \* the row of the sessions table
          stored,    \* whether it is still there
          op,        \* what each task is doing to it
          server,    \* what the policy server knows of the session
          last       \* history: the outcome of the last run that was recorded

vars == <<row, stored, op, server, last>>

ASSUME RowAssumption == /\ MaxAccepts \in Nat \ {0}
                        /\ Actions \subseteq {"first-start", "start", "interim", "stop"}
                        /\ Overlap \in Nat \ {0}
                        /\ AtOnce \in Nat \ {0}
                        /\ Requests \cap Reauths = {}
                        /\ IsFiniteSet(Requests) /\ IsFiniteSet(Reauths)
                        /\ {"interim", "expiry"} \cap (Requests \cup Reauths) = {}

AcctLive == {"started", "interim", "reauthenticated"}

(* coa stands for disconnected, reauth-requested and coa-applied, which only   *)
(* the CoA listener writes.                                                    *)
AcctStates == AcctLive \cup {"", "stopped", "expired", "start-failed", "reauth-failed", "coa"}

(* Session-Timeout and Termination-Action, of a reply or else of the job.      *)
Terms == [timed : {FALSE}, action : {"terminate"}]
            \cup [timed : {TRUE}, action : {"terminate", "reauth"}]

(* class is the number of the Access-Accept it came with, 0 for none.  expires *)
(* is the deadline: none, to come, or past.                                    *)
Columns == [acct : AcctStates, accepted : BOOLEAN, class : 0 .. MaxAccepts,
            timed : BOOLEAN, action : {"terminate", "reauth"},
            expires : {"none", "later", "due"}]

NoRow == [acct |-> "", accepted |-> FALSE, class |-> 0, timed |-> FALSE,
          action |-> "terminate", expires |-> "none"]

(* The columns a task goes on to use or to set. *)
Uses(doing) == CASE doing \in {"interim", "first-start"} -> {"acct"}
                 [] doing = "start" -> {"acct", "timed"}
                 [] doing = "stop" -> {"acct", "expires"}
                 [] doing = "expire" -> {"acct", "action", "expires"}
                 [] doing = "reauth" -> {"acct", "accepted", "class", "timed", "action", "expires"}

Outcome == [accepted : BOOLEAN, class : 0 .. MaxAccepts, timed : BOOLEAN,
            action : {"terminate", "reauth"}]

OutcomeOf(r) == [accepted |-> r.accepted, class |-> r.class,
                 timed |-> r.timed, action |-> r.action]

Tasks == {"interim", "expiry"} \cup Requests \cup Reauths

NoOutcome == [accepted |-> FALSE, class |-> 0, timed |-> FALSE, action |-> "terminate"]

Idle == [doing |-> "nothing", at |-> "idle", copy |-> << >>, success |-> FALSE,
         outcome |-> NoOutcome]

Used == {Uses(d) : d \in {"interim", "start", "stop", "expire", "reauth"}}

Copies == {<< >>} \cup {[c \in U |-> r[c]] : U \in Used, r \in Columns}

(* at: created, the row not yet read; held, the row read and other rows being  *)
(* served first; sent, awaiting the server; answered, about to commit.         *)
Op == [doing : {"nothing", "first-start", "start", "interim", "stop", "expire", "reauth"},
       at : {"idle", "created", "held", "sent", "answered"},
       copy : Copies,
       success : BOOLEAN, outcome : Outcome]

(* The row of an accepted session as _run_one leaves it, with the first Start  *)
(* under way or not.  The server counts its Accepts and knows whether a Stop   *)
(* has been answered since the last Start or Accept.                           *)
Init == /\ \E terms \in Terms :
              row = [acct |-> "", accepted |-> TRUE, class |-> 1,
                     timed |-> terms.timed, action |-> terms.action,
                     expires |-> IF terms.timed THEN "later" ELSE "none"]
        /\ stored = TRUE
        /\ \E starting \in SUBSET Requests :
              /\ Cardinality(starting) <= IF "first-start" \in Actions THEN 1 ELSE 0
              /\ op = [t \in Tasks |-> IF t \in starting
                                       THEN [Idle EXCEPT !.doing = "first-start", !.at = "created"]
                                       ELSE Idle]
        /\ server = [configured |-> TRUE, accepts |-> 1, stopped |-> FALSE]
        /\ last = OutcomeOf(row)

AllColumns(copy, new) == [c \in DOMAIN copy \cup DOMAIN new |->
                              IF c \in DOMAIN new THEN new[c] ELSE copy[c]]

(* The columns an UPDATE sets: those assigned a value that was not read.  A    *)
(* new deadline is never the old one.                                          *)
Updated(copy, new) ==
    LET deadline(d) == d = "expires" /\ new[d] = "later"
    IN  [c \in {d \in DOMAIN new : deadline(d) \/ new[d] # copy[d]} |-> new[c]]

Written(r, columns) == [c \in DOMAIN r |-> IF c \in DOMAIN columns THEN columns[c] ELSE r[c]]

(* An UPDATE of a row that is gone raises StaleDataError. *)
Commit(t, new) == row' = IF stored THEN Written(row, Updated(op[t].copy, new)) ELSE row

Finish(t) == op' = [op EXCEPT ![t] = Idle]

(* What the ORM session of a task keeps of the row. *)
Read(doing) == [c \in Uses(doing) |-> row[c]]

Begin(t, doing, at) ==
    op' = [op EXCEPT ![t] = [Idle EXCEPT !.doing = doing, !.at = at,
                                         !.copy = IF at = "held" THEN Read(doing) ELSE << >>]]

MayStart(t) == /\ op[t].at = "idle"
               /\ stored
               /\ Cardinality({u \in Tasks \ {"expiry"} : op[u] # Idle}) < AtOnce

-----------------------------------------------------------------------------
(* What starts a task *)

(* interim._tick: the rows are selected first and served one by one. *)
InterimTick == /\ MayStart("interim")
               /\ row.acct \in AcctLive
               /\ Begin("interim", "interim", "held")
               /\ UNCHANGED <<row, stored, server, last>>

(* expiry._tick, likewise. *)
ExpiryTick == /\ op["expiry"].at = "idle"
              /\ stored /\ row.expires = "due"
              /\ Begin("expiry", "expire", "held")
              /\ UNCHANGED <<row, stored, server, last>>

(* bulk.accounting: the task waits for a place among ten. *)
RequestAccounting(t) == /\ MayStart(t)
                        /\ \E action \in Actions \ {"first-start"} : Begin(t, action, "created")
                        /\ UNCHANGED <<row, stored, server, last>>

Reauthenticating == {t \in Tasks : op[t].doing = "reauth"}

RequestReauth(t) == /\ MayStart(t)
                    /\ Cardinality(Reauthenticating) < Overlap
                    /\ Begin(t, "reauth", "created")
                    /\ UNCHANGED <<row, stored, server, last>>

(* coa_listener._apply, without an await.  A CoA-Request may ask for a         *)
(* re-authentication.                                                          *)
CoaReauth(t) == /\ MayStart(t)
                /\ Cardinality(Reauthenticating) < Overlap
                /\ row' = [row EXCEPT !.acct = "coa"]
                /\ Begin(t, "reauth", "created")
                /\ UNCHANGED <<stored, server, last>>

DisconnectOrCoa == /\ stored
                   /\ row' = [row EXCEPT !.acct = "coa"]
                   /\ UNCHANGED <<stored, op, server, last>>

-----------------------------------------------------------------------------
(* Accounting *)

(* A request reads the row when its turn comes and sends at once.  Without the *)
(* row or its server there is nothing to do.                                   *)
RequestSends(t) ==
    /\ op[t].at = "created" /\ op[t].doing # "reauth"
    /\ IF stored /\ server.configured
       THEN op' = [op EXCEPT ![t].at = "sent", ![t].copy = Read(op[t].doing)]
       ELSE Finish(t)
    /\ UNCHANGED <<row, stored, server, last>>

InterimSends ==
    /\ op["interim"].at = "held"
    /\ IF server.configured THEN op' = [op EXCEPT !["interim"].at = "sent"] ELSE Finish("interim")
    /\ UNCHANGED <<row, stored, server, last>>

(* The timer is switched off: its task is cancelled wherever it waits. *)
StopInterim == /\ op["interim"] # Idle
               /\ Finish("interim")
               /\ UNCHANGED <<row, stored, server, last>>

Opening(doing) == doing \in {"start", "first-start"}
Ending(doing) == doing \in {"stop", "expire"}

(* The server hears the message or not, and its answer arrives or not; only an *)
(* answered Stop counts as one.                                                *)
AccountingAnswered(t) ==
    /\ op[t].at = "sent" /\ op[t].doing # "reauth"
    /\ \E heard, answered \in BOOLEAN :
          /\ answered => heard
          /\ op' = [op EXCEPT ![t].at = "answered", ![t].success = answered]
          /\ server' = [server EXCEPT !.stopped =
                IF heard /\ Opening(op[t].doing) THEN FALSE
                ELSE @ \/ (answered /\ Ending(op[t].doing))]
    /\ UNCHANGED <<row, stored, last>>

(* The server's port is closed: send_receive raises, and the task logs it and  *)
(* leaves the row as it is, except for the first Start.                        *)
AccountingRaises(t) ==
    /\ op[t].at = "sent" /\ op[t].doing # "reauth"
    /\ IF op[t].doing = "first-start"
       THEN op' = [op EXCEPT ![t].at = "answered"]
       ELSE Finish(t)
    /\ UNCHANGED <<row, stored, server, last>>

RecordedAsAsked(doing, copy) == [acct |-> doing]

Recorded(doing, copy) ==
    CASE doing = "first-start" -> [acct |-> "started"]
      [] doing = "start" -> IF copy.timed THEN [acct |-> "started", expires |-> "later"]
                            ELSE [acct |-> "started"]
      [] doing = "interim" -> [acct |-> "interim"]
      [] doing = "stop" -> [acct |-> "stopped", expires |-> "none"]

CommitAccounting(t) ==
    /\ op[t].at = "answered" /\ op[t].doing \in {"first-start", "start", "interim", "stop"}
    /\ IF op[t].success THEN Commit(t, Recorded(op[t].doing, op[t].copy))
       ELSE IF op[t].doing = "first-start" THEN Commit(t, [acct |-> "start-failed"])
       ELSE UNCHANGED row
    /\ Finish(t)
    /\ UNCHANGED <<stored, server, last>>

-----------------------------------------------------------------------------
(* Expiry (_expire_one) *)

ExpiryReauthenticates ==
    /\ op["expiry"].at = "held"
    /\ op["expiry"].copy.action = "reauth"
    /\ Cardinality(Reauthenticating) < Overlap
    /\ Begin("expiry", "reauth", "created")
    /\ UNCHANGED <<row, stored, server, last>>

(* No Stop for a session that, when read, was not live or had no server. *)
ExpiryTerminates ==
    /\ op["expiry"].at = "held"
    /\ op["expiry"].copy.action = "terminate"
    /\ op' = [op EXCEPT !["expiry"].at =
                IF server.configured /\ op["expiry"].copy.acct \in AcctLive
                THEN "sent" ELSE "answered"]
    /\ UNCHANGED <<row, stored, server, last>>

(* Whether the Stop was answered makes no difference. *)
CommitExpiry ==
    /\ op["expiry"].at = "answered" /\ op["expiry"].doing = "expire"
    /\ Commit("expiry", [acct |-> "expired", expires |-> "none"])
    /\ Finish("expiry")
    /\ UNCHANGED <<stored, server, last>>

-----------------------------------------------------------------------------
(* Re-authentication (reauth_session) *)

ReauthBegins(t) ==
    /\ op[t].at = "created" /\ op[t].doing = "reauth"
    /\ IF stored /\ server.configured
       THEN op' = [op EXCEPT ![t].at = "sent", ![t].copy = Read(op[t].doing)] /\ UNCHANGED row
       ELSE /\ row' = IF stored THEN [row EXCEPT !.acct = "reauth-failed"] ELSE row
            /\ Finish(t)
    /\ UNCHANGED <<stored, server, last>>

(* The run is accepted, or else rejected or given up. *)
TeapEnds(t) ==
    /\ op[t].at = "sent" /\ op[t].doing = "reauth"
    /\ \E accepted \in BOOLEAN, terms \in Terms :
          /\ accepted => server.accepts < MaxAccepts
          /\ server' = IF accepted
                       THEN [server EXCEPT !.accepts = @ + 1, !.stopped = FALSE]
                       ELSE server
          /\ op' = [op EXCEPT ![t].at = "answered",
                              ![t].outcome = [accepted |-> accepted,
                                              class |-> IF accepted THEN server.accepts + 1 ELSE 0,
                                              timed |-> terms.timed, action |-> terms.action]]
    /\ UNCHANGED <<row, stored, last>>

ExpiryOnSuccess(o) ==
    IF ~o.accepted THEN [acct |-> "reauth-failed"]
    ELSE [acct |-> "reauthenticated", expires |-> IF o.timed THEN "later" ELSE "none"]

(* Each Accept restarts the lifetime; a failure leaves nothing to expire. *)
Lifecycle(o) ==
    [acct |-> IF o.accepted THEN "reauthenticated" ELSE "reauth-failed",
     expires |-> IF o.accepted /\ o.timed THEN "later" ELSE "none"]

StateAlone(o) == Lifecycle(o)

(* What reauth_session assigns: the columns of the run and of the lifecycle. *)
RunColumns(o) == [c \in DOMAIN o \cup DOMAIN Lifecycle(o) |->
                     IF c \in DOMAIN o THEN o[c] ELSE Lifecycle(o)[c]]

CommitReauth(t) ==
    /\ op[t].at = "answered" /\ op[t].doing = "reauth"
    /\ Commit(t, RunColumns(op[t].outcome))
    /\ last' = op[t].outcome
    /\ Finish(t)
    /\ UNCHANGED <<stored, server>>

-----------------------------------------------------------------------------
(* The rest *)

Elapse == /\ stored /\ row.expires = "later"
          /\ row' = [row EXCEPT !.expires = "due"]
          /\ UNCHANGED <<stored, op, server, last>>

(* sessions_delete, in a thread. *)
Delete == /\ stored
          /\ stored' = FALSE
          /\ row' = NoRow
          /\ UNCHANGED <<op, server, last>>

(* server_delete: nothing keeps the sessions' server. *)
DeleteServer == /\ server.configured
                /\ server' = [server EXCEPT !.configured = FALSE]
                /\ UNCHANGED <<row, stored, op, last>>

(* The process ends in the middle of everything and comes up again.  An answer *)
(* to a Stop may have died with its task, so it no longer counts.              *)
Restart == /\ op' = [t \in Tasks |-> Idle]
           /\ server' = [server EXCEPT !.stopped = FALSE]
           /\ UNCHANGED <<row, stored, last>>

AccountingStep(t) == RequestSends(t) \/ AccountingAnswered(t) \/ AccountingRaises(t)
                        \/ CommitAccounting(t)

ReauthStep(t) == ReauthBegins(t) \/ TeapEnds(t) \/ CommitReauth(t)

ExpiryStep == \/ ExpiryTick \/ ExpiryReauthenticates \/ ExpiryTerminates \/ CommitExpiry
              \/ AccountingStep("expiry") \/ ReauthStep("expiry")

InterimStep == InterimTick \/ InterimSends \/ StopInterim \/ AccountingStep("interim")

Next == \/ InterimStep \/ ExpiryStep
        \/ \E t \in Requests : RequestAccounting(t) \/ AccountingStep(t)
        \/ \E t \in Reauths : RequestReauth(t) \/ CoaReauth(t) \/ ReauthStep(t)
        \/ DisconnectOrCoa
        \/ Elapse \/ Delete \/ DeleteServer \/ Restart

Spec == Init /\ [][Next]_vars

(* The expiry timer always runs, every exchange ends (RadiusExchange's         *)
(* ExchangesEnd, TeapPeer's Termination), and the accounting port is not       *)
(* closed each time; and at some time the process stays up.                    *)
FairSpec == /\ Spec
            /\ WF_vars(ExpiryStep)
            /\ SF_vars(AccountingAnswered("expiry"))
            /\ \A t \in Reauths : WF_vars(ReauthStep(t))
            /\ <>[][~Restart]_vars

-----------------------------------------------------------------------------
(* Properties *)

TypeOK == /\ row \in Columns
          /\ stored \in BOOLEAN
          /\ op \in [Tasks -> Op]
          /\ server \in [configured : BOOLEAN, accepts : 0 .. MaxAccepts, stopped : BOOLEAN]
          /\ last \in Outcome

(* The row tells of the last re-authentication that was recorded, in all the   *)
(* columns that one sets: no task that holds an older copy brings back an old  *)
(* Class, result, lifetime or action (reauth_session: "the row is updated in   *)
(* place"), and none of them is half a run's.                                  *)
LastRunIsOnRecord == stored => OutcomeOf(row) = last

(* A task past its first read holds the columns it goes on to use; a           *)
(* re-authentication sends as soon as it has read.                             *)
CopiesFit ==
    \A t \in Tasks :
        /\ op[t].at = "idle" <=> op[t].doing = "nothing"
        /\ op[t].at \in {"held", "sent", "answered"} => DOMAIN op[t].copy = Uses(op[t].doing)
        /\ op[t].at = "held" => op[t].doing # "reauth"

(* While a re-authentication awaits the server, nobody else writes the columns *)
(* it sets: the copy it will compare its outcome with is still the row's.      *)
ReauthCopyIsCurrent ==
    \A t \in Reauthenticating :
        /\ Reauthenticating = {t}
        /\ op[t].at \in {"sent", "answered"} /\ stored => OutcomeOf(op[t].copy) = OutcomeOf(row)

(* What keeps the outcome of the last run on record when re-authentications do *)
(* not overlap, whatever else happens to the session.                          *)
InductiveInv == TypeOK /\ CopiesFit /\ ReauthCopyIsCurrent /\ LastRunIsOnRecord

(* A session whose lifetime is over is dealt with, whatever else happens to    *)
(* it, unless it or its server is deleted (expiry._tick, and the comment in    *)
(* reauth_session that a failure leaves nothing to expire).                    *)
DueIsHandled == row.expires = "due" ~> (row.expires # "due" \/ ~stored \/ ~server.configured)

(* models.py: the accounting states in ACCT_LIVE are those in which the server *)
(* still holds the session open, so no Stop has been answered.  Asked only     *)
(* when no task is in progress.                                                *)
LiveMeansHeld == (\A t \in Tasks : op[t] = Idle) /\ stored /\ row.acct \in AcctLive
                    => ~server.stopped

(* reauth_session: a failed re-authentication leaves nothing to expire.  Asked *)
(* only when no task is in progress.                                           *)
FailureLeavesNothingToExpire ==
    (\A t \in Tasks : op[t] = Idle) /\ stored /\ ~row.accepted => row.expires = "none"
=============================================================================
