-------------------------- MODULE PlanningMapAdapter --------------------------
(***************************************************************************)
(* The planning map adapter (ats_rog_map): it follows the localization     *)
(* status, asks its worker thread for ground projections of the ROG map,   *)
(* and publishes each one as a planning snapshot or says that there is     *)
(* none.  The status callback, the timer and the completion of a job each  *)
(* hold state_mutex_; the worker computes without it, and gives up         *)
(* worker_busy_ before it asks for it.                                     *)
(*                                                                         *)
(* The configuration is require_localization_status with                   *)
(* require_odom_identity and without mapping_mode.  Grids are left out:    *)
(* the fusion of a projection with the other layers may fail or succeed.   *)
(***************************************************************************)
EXTENDS Integers

CONSTANTS Instances, MaxEpochs

VARIABLES
    adapter,    \* the members guarded by state_mutex_
    queue,      \* pending_job_
    worker,     \* the worker thread
    snapshot    \* the planning snapshot and map status published last

adapterVars == <<adapter, queue, worker, snapshot>>

Stream ==
    INSTANCE LocalizationStream
        WITH status <- adapter.last, status_stamp <- adapter.last_signal

-----------------------------------------------------------------------------
(* intact is history: no interruption of the localization was handled      *)
(* since the job was requested.                                            *)
NoJob ==
    [request |-> 0, localization_epoch |-> 0, instance |-> 0, odom_epoch |-> 0,
     intact |-> FALSE]

Unavailable == [ready |-> FALSE, job |-> NoJob]

Ready(job) == [ready |-> TRUE, job |-> job]

InitialAdapter ==
    [has_localization_status |-> FALSE,
     last |-> Stream!NoStatus,      \* localization_state_, _epoch_, odom_*_
     last_signal |-> 0,             \* last_identity_signal_ns_
     odom_identity_stable |-> FALSE,
     lapsed |-> FALSE,              \* localization_status_timeout_sec_ passed
     request_pending |-> FALSE,
     overdue |-> FALSE,             \* projection_request_timeout_sec_ passed
     active_request_epoch |-> 0,
     next_request_epoch |-> 0]

Idle == [at |-> "IDLE", job |-> NoJob, answer |-> "NONE"]

SameOdometry(s, t) == s.instance = t.instance /\ s.odom_epoch = t.odom_epoch

(* localizationReady, with mappingInputHealthy: a state that allows        *)
(* planning is published only while the odometry is not silent.            *)
LocalizationReady(a) ==
    /\ a.odom_identity_stable /\ ~a.last.latched
    /\ ~a.lapsed
    /\ Stream!AllowsPlanning(a.last)

(* Mutant: the request in flight is fenced off but stays pending.          *)
FencedStillPending(a) == [a EXCEPT !.active_request_epoch = @ + 1]

(* Fence off the result of the request in flight, if there is one.         *)
Fenced(a) == [a EXCEPT !.request_pending = FALSE, !.active_request_epoch = @ + 1]

-----------------------------------------------------------------------------
(* onLocalizationStatus.                                                   *)

Followed(s, stamp) ==
    [adapter EXCEPT
        !.has_localization_status = TRUE,
        !.last = s, !.last_signal = stamp, !.lapsed = FALSE,
        !.odom_identity_stable =
            SameOdometry(s, adapter.last) /\ s.instance # 0 /\ s.odom_epoch # 0]

(* Mutant: the end of a usable localization is left to the timer.          *)
InterruptedByChange(s, a) ==
    \/ adapter.has_localization_status /\ s.epoch # adapter.last.epoch
    \/ ~SameOdometry(s, adapter.last)

(* Its epoch or its odometry changes, or it does not allow planning.       *)
Interrupted(s, a) ==
    \/ adapter.has_localization_status /\ s.epoch # adapter.last.epoch
    \/ ~SameOdometry(s, adapter.last)
    \/ ~LocalizationReady(a)

Broken(job) == [job EXCEPT !.intact = FALSE]

OnLocalizationStatus(s, stamp) ==
    LET a == Followed(s, stamp)
    IN  IF stamp <= adapter.last_signal THEN UNCHANGED adapterVars
        ELSE IF ~Interrupted(s, a)
        THEN adapter' = a /\ UNCHANGED <<queue, worker, snapshot>>
        ELSE /\ adapter' = Fenced(a)
             /\ snapshot' = Unavailable
             /\ queue' = Broken(queue)
             /\ worker' = [worker EXCEPT !.job = Broken(@)]

-----------------------------------------------------------------------------
(* requestProjection, on the timer.                                        *)

WithoutLocalization ==
    /\ ~LocalizationReady(adapter)
    /\ snapshot' = Unavailable
    /\ UNCHANGED <<adapter, queue, worker>>

RequestTimesOut ==
    /\ LocalizationReady(adapter)
    /\ adapter.request_pending /\ adapter.overdue
    /\ adapter' = Fenced(adapter)
    /\ snapshot' = Unavailable
    /\ UNCHANGED <<queue, worker>>

WorkerStillBusy ==
    /\ LocalizationReady(adapter) /\ ~adapter.request_pending
    /\ worker.at = "RUNNING" \/ queue # NoJob
    /\ snapshot' = Unavailable
    /\ UNCHANGED <<adapter, queue, worker>>

RequestProjection ==
    LET request == adapter.next_request_epoch + 1
    IN  /\ LocalizationReady(adapter) /\ ~adapter.request_pending
        /\ worker.at # "RUNNING" /\ queue = NoJob
        /\ adapter' = [adapter EXCEPT !.next_request_epoch = request,
                                      !.active_request_epoch = request,
                                      !.request_pending = TRUE,
                                      !.overdue = FALSE]
        /\ queue' = [request |-> request,
                     localization_epoch |-> adapter.last.epoch,
                     instance |-> adapter.last.instance,
                     odom_epoch |-> adapter.last.odom_epoch,
                     intact |-> TRUE]
        /\ UNCHANGED <<worker, snapshot>>

-----------------------------------------------------------------------------
(* runProjectionWorker.                                                    *)

TakeJob ==
    /\ worker.at = "IDLE" /\ queue # NoJob
    /\ worker' = [Idle EXCEPT !.at = "RUNNING", !.job = queue]
    /\ queue' = NoJob
    /\ UNCHANGED <<adapter, snapshot>>

(* The ROG map answers for the odometry the job asked for, for another     *)
(* one (without a map), or throws.                                         *)
Answers == {"MATCHING", "OTHER", "FAILED"}

Project(answer) ==
    /\ worker.at = "RUNNING"
    /\ worker' = [worker EXCEPT !.at = "ANSWERED", !.answer = answer]
    /\ UNCHANGED <<adapter, queue, snapshot>>

(* Mutant: a completed job is not compared with the active request.        *)
AwaitedByAnyRequest(job) == adapter.request_pending

Awaited(job) ==
    adapter.request_pending /\ job.request = adapter.active_request_epoch

(* completeProjection and processProjection up to the fusion.              *)
StillValid(job, answer) ==
    /\ LocalizationReady(adapter)
    /\ job.localization_epoch = adapter.last.epoch
    /\ answer = "MATCHING" /\ SameOdometry(job, adapter.last)

CompleteProjection ==
    LET job == worker.job
    IN  /\ worker.at = "ANSWERED"
        /\ worker' = Idle
        /\ UNCHANGED queue
        /\ \/ ~Awaited(job) /\ UNCHANGED <<adapter, snapshot>>
           \/ /\ Awaited(job)
              /\ adapter' = [adapter EXCEPT !.request_pending = FALSE]
              /\ \/ snapshot' = Unavailable
                 \/ StillValid(job, worker.answer) /\ snapshot' = Ready(job)

-----------------------------------------------------------------------------
(* The steady clock.                                                       *)

StatusLapses ==
    /\ adapter.has_localization_status /\ ~adapter.lapsed
    /\ adapter' = [adapter EXCEPT !.lapsed = TRUE]
    /\ UNCHANGED <<queue, worker, snapshot>>

RequestOverdue ==
    /\ adapter.request_pending /\ ~adapter.overdue
    /\ adapter' = [adapter EXCEPT !.overdue = TRUE]
    /\ UNCHANGED <<queue, worker, snapshot>>

Init ==
    /\ adapter = InitialAdapter
    /\ queue = NoJob
    /\ worker = Idle
    /\ snapshot = Unavailable

(* Every step but the reception of a status.                               *)
Step ==
    \/ WithoutLocalization \/ RequestTimesOut \/ WorkerStillBusy
    \/ RequestProjection
    \/ TakeJob \/ CompleteProjection
    \/ \E answer \in Answers : Project(answer)
    \/ StatusLapses \/ RequestOverdue

-----------------------------------------------------------------------------
(* Correctness.                                                            *)

Jobs ==
    [request : Nat, localization_epoch : 0..MaxEpochs,
     instance : Instances \cup {0}, odom_epoch : Nat, intact : BOOLEAN]

(* The state is well typed, and the request pending is the last one made,  *)
(* so that fencing it off never names a request still to come.             *)
TypeOK ==
    /\ adapter \in [has_localization_status : BOOLEAN, last : Stream!Statuses,
                    last_signal : Nat, odom_identity_stable : BOOLEAN,
                    lapsed : BOOLEAN, request_pending : BOOLEAN, overdue : BOOLEAN,
                    active_request_epoch : Nat, next_request_epoch : Nat]
    /\ queue \in Jobs
    /\ worker \in [at : {"IDLE", "RUNNING", "ANSWERED"}, job : Jobs,
                   answer : Answers \cup {"NONE"}]
    /\ snapshot \in [ready : BOOLEAN, job : Jobs]
    /\ \A job \in {queue, worker.job} : job.request <= adapter.next_request_epoch
    /\ adapter.request_pending =>
           adapter.active_request_epoch = adapter.next_request_epoch
=============================================================================
