----------------------------- MODULE LocalizedMap -----------------------------
(***************************************************************************)
(* The planning map adapter composed with what it may rely on of the       *)
(* localization: LocalizationStream, which LocalizationFusion implements.  *)
(* The topic keeps the last status only, and the adapter's callback may    *)
(* wait for the lock a projection holds: a status is taken, later ones may *)
(* be published, and only then is it handled; those in between are never   *)
(* seen.                                                                   *)
(***************************************************************************)
EXTENDS LocalizationStream, FiniteSets

CONSTANT Shown      \* the states published: the adapter asks only whether
                    \* a state allows planning, so one of each kind is enough

ASSUME ShownAssumption == Shown \subseteq States /\ IsFiniteSet(Instances)

VARIABLES adapter, queue, worker, snapshot,
    taken       \* the status the adapter's callback holds, or Nothing

Adapter == INSTANCE PlanningMapAdapter

vars == <<status, status_stamp, adapter, queue, worker, snapshot, taken>>

Nothing == [status |-> NoStatus, stamp |-> 0]

(* Stamps only need to grow: here by one.                                  *)
Localize ==
    /\ status_stamp' = status_stamp + 1
    /\ status' \in {s \in StatusesIn(Shown, 0..Cardinality(Instances)) :
                        WellFormed(s) /\ Follows(s, status)}
    /\ UNCHANGED <<adapter, queue, worker, snapshot, taken>>

TakeStatus ==
    /\ taken = Nothing /\ status_stamp # 0
    /\ taken' = [status |-> status, stamp |-> status_stamp]
    /\ UNCHANGED <<status, status_stamp, adapter, queue, worker, snapshot>>

HandleStatus ==
    /\ taken # Nothing
    /\ Adapter!OnLocalizationStatus(taken.status, taken.stamp)
    /\ taken' = Nothing
    /\ UNCHANGED <<status, status_stamp>>

Adapt == Adapter!Step /\ UNCHANGED <<status, status_stamp, taken>>

SystemInit == Init /\ Adapter!Init /\ taken = Nothing

SystemNext == Localize \/ TakeStatus \/ HandleStatus \/ Adapt

SystemSpec == SystemInit /\ [][SystemNext]_vars

(* The timer and the worker thread go on.  Of a world that keeps letting   *)
(* it, the ROG map answers for the odometry it is asked about, and one of  *)
(* those projections can be fused.                                         *)
Fairness ==
    /\ WF_vars(Adapt /\ Adapter!RequestProjection)
    /\ WF_vars(Adapt /\ Adapter!TakeJob)
    /\ WF_vars(Adapt /\ Adapter!CompleteProjection)
    /\ SF_vars(Adapt /\ Adapter!Project("MATCHING"))
    /\ SF_vars(Adapt /\ Adapter!CompleteProjection /\ snapshot'.ready)

FairSystemSpec == SystemSpec /\ Fairness

-----------------------------------------------------------------------------
(* Correctness.                                                            *)

(* The adapter is well typed, and the request pending is the last one made *)
(* (PlanningMapAdapter).                                                   *)
TypeOK == Adapter!TypeOK

(* A ready snapshot was requested, computed and published under one        *)
(* localization: the status the adapter follows has named its epoch and    *)
(* its odometry ever since, and no interruption of the localization was    *)
(* handled between the request and the publication.                        *)
SnapshotOfOneLocalization ==
    snapshot.ready =>
        /\ snapshot.job.intact
        /\ snapshot.job.localization_epoch = adapter.last.epoch
        /\ Adapter!SameOdometry(snapshot.job, adapter.last)

(* A pending request has its job under way, so that it ends by an answer   *)
(* even if the timer never looks at its deadline: neither an interruption  *)
(* nor a timeout leaves the adapter waiting for nobody.                    *)
PendingRequestIsServed ==
    adapter.request_pending =>
        \E job \in {queue, worker.job} : job.request = adapter.active_request_epoch

(* Once the adapter has handled the last status, its map is ready only if  *)
(* that status allows planning and names the epoch and the odometry of the *)
(* snapshot: no change of the localization is lost between the two nodes.  *)
ReadyFollowsLocalization ==
    snapshot.ready /\ taken = Nothing /\ adapter.last_signal = status_stamp =>
        /\ AllowsPlanning(status) /\ ~status.latched
        /\ snapshot.job.localization_epoch = status.epoch
        /\ Adapter!SameOdometry(snapshot.job, status)

(* While the localization stays usable and no request misses its deadline, *)
(* the map becomes ready again and again: no interruption, timeout or late *)
(* job of the past keeps the adapter from asking and publishing.           *)
MapComesBack ==
    <>[](Adapter!LocalizationReady(adapter) /\ ~adapter.overdue)
        => []<>snapshot.ready
=============================================================================
