-------------------------- MODULE LocalizedMapProofs --------------------------
(* Proofs about the planning map adapter under a localization that keeps   *)
(* LocalizationStream, for every value of the constants.                   *)
EXTENDS LocalizedMap, FiniteSetTheorems, TLAPS

Adapters ==
    [has_localization_status : BOOLEAN, last : Statuses,
     last_signal : Nat, odom_identity_stable : BOOLEAN,
     lapsed : BOOLEAN, request_pending : BOOLEAN, overdue : BOOLEAN,
     active_request_epoch : Nat, next_request_epoch : Nat]

Workers ==
    [at : {"IDLE", "RUNNING", "ANSWERED"}, job : Adapter!Jobs,
     answer : {"MATCHING", "OTHER", "FAILED", "NONE"}]

Snapshots == [ready : BOOLEAN, job : Adapter!Jobs]

LEMMA StatusTypes ==
    /\ Adapter!Stream!Statuses = Statuses
    /\ Adapter!Stream!NoStatus = NoStatus
    /\ NoStatus \in Statuses
<1>1. 0 \in 0..MaxEpochs /\ 0 \in Nat
  BY StreamAssumption
<1>2. NoStatus \in Statuses
  BY <1>1, Zenon DEF NoStatus, Statuses, StatusesIn, States
<1>3. Adapter!Stream!Statuses = Statuses
  BY DEF Adapter!Stream!Statuses, Adapter!Stream!StatusesIn, Adapter!Stream!States,
         Statuses, StatusesIn, States
<1>4. Adapter!Stream!NoStatus = NoStatus
  BY DEF Adapter!Stream!NoStatus, NoStatus
<1> QED BY <1>2, <1>3, <1>4

LEMMA JobTypes ==
    /\ Adapter!NoJob \in Adapter!Jobs
    /\ Adapter!NoJob.request = 0 /\ Adapter!NoJob.intact = FALSE
<1>1. 0 \in 0..MaxEpochs /\ 0 \in Nat
  BY StreamAssumption
<1> QED BY <1>1, Zenon DEF Adapter!NoJob, Adapter!Jobs

LEMMA BrokenFacts ==
    ASSUME NEW job \in Adapter!Jobs
    PROVE  /\ Adapter!Broken(job) \in Adapter!Jobs
           /\ Adapter!Broken(job).request = job.request
<1>1. Adapter!Broken(job) \in Adapter!Jobs
  BY Zenon DEF Adapter!Broken, Adapter!Jobs
<1>2. Adapter!Broken(job).request = job.request
  BY SMT DEF Adapter!Broken, Adapter!Jobs
<1> QED BY <1>1, <1>2

LEMMA FencedFacts ==
    ASSUME NEW a \in Adapters
    PROVE  LET b == Adapter!Fenced(a)
           IN  /\ b \in Adapters /\ b.request_pending = FALSE
               /\ b.has_localization_status = a.has_localization_status
               /\ b.last = a.last /\ b.last_signal = a.last_signal
               /\ b.odom_identity_stable = a.odom_identity_stable
               /\ b.next_request_epoch = a.next_request_epoch
<1> DEFINE fence == a.active_request_epoch + 1
           b == [a EXCEPT !.request_pending = FALSE, !.active_request_epoch = fence]
<1>1. Adapter!Fenced(a) = b
  BY DEF Adapter!Fenced
<1>2. fence \in Nat
  BY DEF Adapters
<1>3. b \in Adapters
  <2> HIDE DEF fence
  <2> QED BY <1>2, Zenon DEF Adapters
<1>4. /\ b.request_pending = FALSE
      /\ b.has_localization_status = a.has_localization_status
      /\ b.last = a.last /\ b.last_signal = a.last_signal
      /\ b.odom_identity_stable = a.odom_identity_stable
      /\ b.next_request_epoch = a.next_request_epoch
  BY SMT DEF Adapters
<1> QED BY <1>1, <1>3, <1>4

LEMMA FollowedFacts ==
    ASSUME adapter \in Adapters, NEW s \in Statuses, NEW stamp \in Nat
    PROVE  LET a == Adapter!Followed(s, stamp)
           IN  /\ a \in Adapters /\ a.has_localization_status = TRUE
               /\ a.last = s /\ a.last_signal = stamp
               /\ a.request_pending = adapter.request_pending
               /\ a.active_request_epoch = adapter.active_request_epoch
               /\ a.next_request_epoch = adapter.next_request_epoch
<1> DEFINE stable == /\ Adapter!SameOdometry(s, adapter.last)
                     /\ s.instance # 0 /\ s.odom_epoch # 0
           a == [adapter EXCEPT !.has_localization_status = TRUE,
                                !.last = s, !.last_signal = stamp, !.lapsed = FALSE,
                                !.odom_identity_stable = stable]
<1>1. Adapter!Followed(s, stamp) = a
  BY DEF Adapter!Followed
<1>2. stable \in BOOLEAN
  OBVIOUS
<1>3. a \in Adapters
  <2> HIDE DEF stable
  <2> QED BY <1>2, Zenon DEF Adapters
<1>4. /\ a.has_localization_status = TRUE
      /\ a.last = s /\ a.last_signal = stamp
      /\ a.request_pending = adapter.request_pending
      /\ a.active_request_epoch = adapter.active_request_epoch
      /\ a.next_request_epoch = adapter.next_request_epoch
  <2> HIDE DEF stable
  <2> QED BY SMT DEF Adapters
<1> QED BY <1>1, <1>3, <1>4

-----------------------------------------------------------------------------
(* The inductive invariant.  What was fenced off stays fenced off, since   *)
(* request numbers only grow; the job of the request pending is on its way *)
(* and intact; and the status the adapter follows is the one published     *)
(* with that stamp.                                                        *)

Typed ==
    /\ adapter \in Adapters /\ queue \in Adapter!Jobs
    /\ worker \in Workers /\ snapshot \in Snapshots
    /\ taken \in [status : Statuses, stamp : Nat]
    /\ status \in Statuses /\ status_stamp \in Nat

Numbered ==
    /\ queue.request <= adapter.next_request_epoch
    /\ worker.job.request <= adapter.next_request_epoch
    /\ worker.at = "IDLE" => worker.job.request = 0

Served ==
    adapter.request_pending =>
        /\ adapter.active_request_epoch = adapter.next_request_epoch
        /\ adapter.active_request_epoch # 0
        /\ \/ queue.request = adapter.active_request_epoch
           \/ worker.job.request = adapter.active_request_epoch
        /\ queue.request = adapter.active_request_epoch => queue.intact
        /\ worker.job.request = adapter.active_request_epoch => worker.job.intact

Published ==
    /\ adapter.odom_identity_stable => adapter.has_localization_status
    /\ snapshot.ready =>
           /\ adapter.has_localization_status
           /\ snapshot.job.intact
           /\ snapshot.job.localization_epoch = adapter.last.epoch
           /\ Adapter!SameOdometry(snapshot.job, adapter.last)
           /\ AllowsPlanning(adapter.last) /\ ~adapter.last.latched

Followed ==
    /\ taken.stamp <= status_stamp /\ adapter.last_signal <= status_stamp
    /\ status_stamp = 0 => status = NoStatus
    /\ taken.stamp = status_stamp => taken.status = status
    /\ adapter.last_signal = status_stamp => adapter.last = status

IInv == Typed /\ Numbered /\ Served /\ Published /\ Followed

LEMMA WorkerFields ==
    ASSUME worker \in Workers
    PROVE  /\ worker.job \in Adapter!Jobs /\ worker.job.request \in Nat
           /\ worker.job.intact \in BOOLEAN
BY DEF Workers, Adapter!Jobs

LEMMA IdleFacts ==
    /\ Adapter!Idle \in Workers /\ Adapter!Idle.job = Adapter!NoJob
    /\ Adapter!Idle.job.request = 0 /\ Adapter!Idle.at = "IDLE"
BY JobTypes, Zenon DEF Adapter!Idle, Workers

LEMMA UnavailableFacts ==
    Adapter!Unavailable \in Snapshots /\ Adapter!Unavailable.ready = FALSE
BY JobTypes, Zenon DEF Adapter!Unavailable, Snapshots

LEMMA InitInvariant == SystemInit => IInv
<1> SUFFICES ASSUME SystemInit PROVE IInv
  OBVIOUS
<1>1. /\ adapter = Adapter!InitialAdapter /\ queue = Adapter!NoJob
      /\ worker = Adapter!Idle /\ snapshot = Adapter!Unavailable
      /\ taken = Nothing /\ status = NoStatus /\ status_stamp = 0
  BY DEF SystemInit, Init, Adapter!Init
<1>2. 0 \in Nat
  OBVIOUS
<1>3. adapter \in Adapters
  BY <1>1, <1>2, StatusTypes, Zenon DEF Adapter!InitialAdapter, Adapters
<1>4. taken \in [status : Statuses, stamp : Nat] /\ taken.stamp = 0
      /\ taken.status = NoStatus
  BY <1>1, <1>2, StatusTypes, Zenon DEF Nothing
<1>5. Typed
  BY <1>1, <1>2, <1>3, <1>4, StatusTypes, JobTypes, IdleFacts, UnavailableFacts, Zenon
     DEF Typed
<1>6. /\ adapter.request_pending = FALSE /\ adapter.odom_identity_stable = FALSE
      /\ adapter.next_request_epoch = 0 /\ adapter.last_signal = 0
      /\ adapter.last = NoStatus
  BY <1>1, StatusTypes, Zenon DEF Adapter!InitialAdapter
<1>7. queue.request = 0 /\ worker.job.request = 0 /\ snapshot.ready = FALSE
  BY <1>1, JobTypes, IdleFacts, UnavailableFacts, Zenon
<1>8. Numbered
  BY <1>6, <1>7 DEF Numbered
<1>9. Served /\ Published
  BY <1>6, <1>7, Zenon DEF Served, Published
<1>10. taken.stamp <= status_stamp /\ adapter.last_signal <= status_stamp
  <2>1. taken.stamp = 0 /\ status_stamp = 0 /\ adapter.last_signal = 0
    BY <1>1, <1>4, <1>6, Zenon
  <2> QED BY <2>1
<1>11. Followed
  BY <1>1, <1>4, <1>6, <1>10, Zenon DEF Followed
<1> QED BY <1>5, <1>8, <1>9, <1>11 DEF IInv

LEMMA LocalizeInvariant ==
    ASSUME IInv, Localize PROVE IInv'
<1>1. /\ status_stamp' = status_stamp + 1
      /\ status' \in StatusesIn(Shown, 0..Cardinality(Instances))
      /\ UNCHANGED <<adapter, queue, worker, snapshot, taken>>
  BY DEF Localize
<1>2. Cardinality(Instances) \in Nat
  BY ShownAssumption, FS_CardinalityType
<1>3. status' \in Statuses
  <2>1. 0..Cardinality(Instances) \subseteq Nat /\ Shown \subseteq States
    BY <1>2, ShownAssumption
  <2> QED BY <1>1, <2>1, Zenon DEF Statuses, StatusesIn
<1>4. status_stamp' \in Nat /\ status_stamp' > status_stamp
  BY <1>1 DEF IInv, Typed
<1>5. Followed'
  <2>1. /\ taken.stamp \in Nat /\ adapter.last_signal \in Nat /\ status_stamp \in Nat
        /\ taken.stamp <= status_stamp /\ adapter.last_signal <= status_stamp
    BY DEF IInv, Typed, Followed, Adapters
  <2>2. taken.stamp < status_stamp' /\ adapter.last_signal < status_stamp'
        /\ status_stamp' # 0
    BY <1>4, <2>1
  <2> QED BY <1>1, <1>4, <2>1, <2>2 DEF Followed
<1> QED
  BY <1>1, <1>3, <1>4, <1>5 DEF IInv, Typed, Numbered, Served, Published

LEMMA TakeInvariant ==
    ASSUME IInv, TakeStatus PROVE IInv'
<1>1. /\ taken' = [status |-> status, stamp |-> status_stamp]
      /\ UNCHANGED <<status, status_stamp, adapter, queue, worker, snapshot>>
  BY DEF TakeStatus
<1>2. taken' \in [status : Statuses, stamp : Nat]
      /\ taken'.status = status /\ taken'.stamp = status_stamp
  BY <1>1 DEF IInv, Typed
<1> QED
  BY <1>1, <1>2 DEF IInv, Typed, Numbered, Served, Published, Followed

-----------------------------------------------------------------------------
(* The callback of the adapter.                                            *)

LEMMA NothingFacts ==
    /\ Nothing \in [status : Statuses, stamp : Nat]
    /\ Nothing.stamp = 0 /\ Nothing.status = NoStatus
<1>1. 0 \in Nat
  OBVIOUS
<1> QED BY <1>1, StatusTypes, Zenon DEF Nothing

(* Whatever the callback does, it follows the status that it took.         *)
LEMMA HandledFollows ==
    ASSUME IInv, taken' = Nothing, UNCHANGED <<status, status_stamp>>,
           \/ adapter'.last = adapter.last /\ adapter'.last_signal = adapter.last_signal
           \/ adapter'.last = taken.status /\ adapter'.last_signal = taken.stamp
    PROVE  Followed'
<1>1. status_stamp \in Nat /\ taken'.stamp = 0 /\ taken'.status = NoStatus
  BY NothingFacts DEF IInv, Typed
<1> QED BY <1>1 DEF IInv, Followed

LEMMA BrokenJobs ==
    ASSUME IInv, queue' = Adapter!Broken(queue),
           worker' = [worker EXCEPT !.job = Adapter!Broken(@)]
    PROVE  /\ queue' \in Adapter!Jobs /\ queue'.request = queue.request
           /\ worker' \in Workers /\ worker'.job.request = worker.job.request
           /\ worker'.at = worker.at
<1>1. queue \in Adapter!Jobs /\ worker \in Workers /\ worker.job \in Adapter!Jobs
  BY WorkerFields DEF IInv, Typed
<1>2. queue' \in Adapter!Jobs /\ queue'.request = queue.request
  BY <1>1, BrokenFacts
<1> DEFINE job == Adapter!Broken(worker.job)
<1>3. job \in Adapter!Jobs /\ job.request = worker.job.request
  BY <1>1, BrokenFacts
<1>4. worker' = [worker EXCEPT !.job = job]
  OBVIOUS
<1> HIDE DEF job
<1>5. worker' \in Workers
  BY <1>1, <1>3, <1>4, Zenon DEF Workers
<1>6. worker'.job = job /\ worker'.at = worker.at
  BY <1>1, <1>4, SMT DEF Workers
<1> QED BY <1>2, <1>3, <1>5, <1>6

LEMMA HandleInvariant ==
    ASSUME IInv, HandleStatus PROVE IInv'
<1> DEFINE s == taken.status
           stamp == taken.stamp
           a == Adapter!Followed(s, stamp)
<1>1. /\ Adapter!OnLocalizationStatus(s, stamp)
      /\ taken' = Nothing /\ UNCHANGED <<status, status_stamp>>
  BY DEF HandleStatus
<1>2. /\ adapter \in Adapters /\ queue \in Adapter!Jobs /\ worker \in Workers
      /\ snapshot \in Snapshots /\ s \in Statuses /\ stamp \in Nat
      /\ status \in Statuses /\ status_stamp \in Nat
  BY DEF IInv, Typed
<1>3. /\ a \in Adapters /\ a.has_localization_status = TRUE
      /\ a.last = s /\ a.last_signal = stamp
      /\ a.request_pending = adapter.request_pending
      /\ a.active_request_epoch = adapter.active_request_epoch
      /\ a.next_request_epoch = adapter.next_request_epoch
  BY <1>2, FollowedFacts
<1>4. taken' \in [status : Statuses, stamp : Nat]
  BY <1>1, NothingFacts
<1>5. CASE UNCHANGED <<adapter, queue, worker, snapshot>>
  <2>1. Followed'
    BY <1>1, <1>5, HandledFollows
  <2> QED
    BY <1>1, <1>2, <1>4, <1>5, <2>1 DEF IInv, Typed, Numbered, Served, Published
<1>6. CASE /\ ~Adapter!Interrupted(s, a) /\ adapter' = a
           /\ UNCHANGED <<queue, worker, snapshot>>
  <2> HIDE DEF s, stamp, a
  <2>1. Typed'
    BY <1>1, <1>2, <1>3, <1>4, <1>6 DEF Typed
  <2>2. Numbered' /\ Served'
    BY <1>3, <1>6 DEF IInv, Numbered, Served
  <2>3. Published'
    <3>1. /\ Adapter!LocalizationReady(a) /\ Adapter!SameOdometry(s, adapter.last)
          /\ adapter.has_localization_status => s.epoch = adapter.last.epoch
      BY <1>6 DEF Adapter!Interrupted
    <3>2. AllowsPlanning(s) /\ ~s.latched
      BY <1>3, <3>1
         DEF Adapter!LocalizationReady, Adapter!Stream!AllowsPlanning, AllowsPlanning
    <3> QED
      BY <1>3, <1>6, <3>1, <3>2 DEF IInv, Published, Adapter!SameOdometry
  <2>4. Followed'
    BY <1>1, <1>3, <1>6, HandledFollows DEF s, stamp
  <2> QED BY <2>1, <2>2, <2>3, <2>4 DEF IInv
<1>7. CASE /\ adapter' = Adapter!Fenced(a) /\ snapshot' = Adapter!Unavailable
           /\ queue' = Adapter!Broken(queue)
           /\ worker' = [worker EXCEPT !.job = Adapter!Broken(@)]
  <2>1. /\ queue' \in Adapter!Jobs /\ queue'.request = queue.request
        /\ worker' \in Workers /\ worker'.job.request = worker.job.request
        /\ worker'.at = worker.at
    BY <1>7, BrokenJobs
  <2>2. snapshot' \in Snapshots /\ snapshot'.ready = FALSE
    BY <1>7, UnavailableFacts
  <2> HIDE DEF s, stamp, a
  <2>3. /\ adapter' \in Adapters /\ adapter'.request_pending = FALSE
        /\ adapter'.has_localization_status = TRUE
        /\ adapter'.last = s /\ adapter'.last_signal = stamp
        /\ adapter'.next_request_epoch = adapter.next_request_epoch
    BY <1>3, <1>7, FencedFacts
  <2>4. Typed'
    BY <1>1, <1>2, <1>4, <2>1, <2>2, <2>3 DEF Typed
  <2>5. Numbered' /\ Served' /\ Published'
    BY <2>1, <2>2, <2>3 DEF IInv, Numbered, Served, Published
  <2>6. Followed'
    BY <1>1, <2>3, HandledFollows DEF s, stamp
  <2> QED BY <2>4, <2>5, <2>6 DEF IInv
<1> QED
  BY <1>1, <1>5, <1>6, <1>7 DEF Adapter!OnLocalizationStatus, Adapter!adapterVars

-----------------------------------------------------------------------------
(* The timer, the worker and the steady clock.                             *)

(* Steps that only take the snapshot away.                                 *)
LEMMA UnavailableInvariant ==
    ASSUME IInv, snapshot' = Adapter!Unavailable,
           UNCHANGED <<adapter, queue, worker, status, status_stamp, taken>>
    PROVE  IInv'
<1>1. snapshot' \in Snapshots /\ snapshot'.ready = FALSE
  BY UnavailableFacts
<1> QED BY <1>1 DEF IInv, Typed, Numbered, Served, Published, Followed

LEMMA TimeoutInvariant ==
    ASSUME IInv, Adapter!RequestTimesOut, UNCHANGED <<status, status_stamp, taken>>
    PROVE  IInv'
<1>1. /\ adapter' = Adapter!Fenced(adapter) /\ snapshot' = Adapter!Unavailable
      /\ UNCHANGED <<queue, worker>>
  BY DEF Adapter!RequestTimesOut
<1>2. snapshot' \in Snapshots /\ snapshot'.ready = FALSE
  BY <1>1, UnavailableFacts
<1>3. /\ adapter' \in Adapters /\ adapter'.request_pending = FALSE
      /\ adapter'.has_localization_status = adapter.has_localization_status
      /\ adapter'.last = adapter.last /\ adapter'.last_signal = adapter.last_signal
      /\ adapter'.odom_identity_stable = adapter.odom_identity_stable
      /\ adapter'.next_request_epoch = adapter.next_request_epoch
  BY <1>1, FencedFacts DEF IInv, Typed
<1> QED
  BY <1>1, <1>2, <1>3 DEF IInv, Typed, Numbered, Served, Published, Followed

LEMMA RequestInvariant ==
    ASSUME IInv, Adapter!RequestProjection, UNCHANGED <<status, status_stamp, taken>>
    PROVE  IInv'
<1> DEFINE request == adapter.next_request_epoch + 1
<1>1. /\ adapter' = [adapter EXCEPT !.next_request_epoch = request,
                                    !.active_request_epoch = request,
                                    !.request_pending = TRUE,
                                    !.overdue = FALSE]
      /\ queue' = [request |-> request,
                   localization_epoch |-> adapter.last.epoch,
                   instance |-> adapter.last.instance,
                   odom_epoch |-> adapter.last.odom_epoch,
                   intact |-> TRUE]
      /\ UNCHANGED <<worker, snapshot>>
  BY DEF Adapter!RequestProjection
<1>2. /\ adapter \in Adapters /\ worker \in Workers
      /\ adapter.next_request_epoch \in Nat /\ request \in Nat /\ request > 0
      /\ worker.job.request \in Nat
  BY WorkerFields DEF IInv, Typed, Adapters
<1>3. /\ adapter.last.epoch \in 0..MaxEpochs
      /\ adapter.last.instance \in Instances \cup {0}
      /\ adapter.last.odom_epoch \in Nat
  BY <1>2 DEF Adapters, Statuses, StatusesIn
<1>4. request # 0 /\ worker.job.request < request
      /\ adapter.next_request_epoch <= request
  BY <1>2 DEF IInv, Numbered
<1> HIDE DEF request
<1>5. adapter' \in Adapters
  BY <1>1, <1>2, Zenon DEF Adapters
<1>6. /\ adapter'.next_request_epoch = request
      /\ adapter'.active_request_epoch = request
      /\ adapter'.has_localization_status = adapter.has_localization_status
      /\ adapter'.last = adapter.last /\ adapter'.last_signal = adapter.last_signal
      /\ adapter'.odom_identity_stable = adapter.odom_identity_stable
  BY <1>1, <1>2, SMT DEF Adapters
<1>7. queue' \in Adapter!Jobs
  BY <1>1, <1>2, <1>3, Zenon DEF Adapter!Jobs
<1>8. queue'.request = request /\ queue'.intact = TRUE
  BY <1>1
<1>9. Typed'
  BY <1>1, <1>5, <1>7 DEF IInv, Typed
<1>10. Numbered' /\ Served'
  BY <1>1, <1>2, <1>4, <1>6, <1>8 DEF IInv, Numbered, Served
<1> QED
  BY <1>1, <1>6, <1>9, <1>10 DEF IInv, Published, Followed

LEMMA TakeJobInvariant ==
    ASSUME IInv, Adapter!TakeJob, UNCHANGED <<status, status_stamp, taken>>
    PROVE  IInv'
<1>1. /\ worker.at = "IDLE" /\ queue' = Adapter!NoJob
      /\ worker' = [Adapter!Idle EXCEPT !.at = "RUNNING", !.job = queue]
      /\ UNCHANGED <<adapter, snapshot>>
  BY DEF Adapter!TakeJob
<1>2. /\ adapter \in Adapters /\ worker \in Workers /\ queue \in Adapter!Jobs
      /\ adapter.next_request_epoch \in Nat /\ Adapter!Idle \in Workers
  BY IdleFacts DEF IInv, Typed, Adapters
<1>3. worker' \in Workers
  BY <1>1, <1>2, Zenon DEF Workers
<1>4. worker'.job = queue /\ worker'.at = "RUNNING"
  BY <1>1, <1>2, SMT DEF Workers
<1>5. queue' \in Adapter!Jobs /\ queue'.request = 0
  BY <1>1, JobTypes
<1>6. Numbered'
  BY <1>1, <1>2, <1>4, <1>5 DEF IInv, Numbered
<1>7. Served'
  <2>1. worker.job.request = 0
    BY <1>1 DEF IInv, Numbered
  <2> QED BY <1>1, <1>4, <1>5, <2>1 DEF IInv, Served
<1> QED BY <1>1, <1>3, <1>5, <1>6, <1>7 DEF IInv, Typed, Published, Followed

LEMMA ProjectInvariant ==
    ASSUME IInv, NEW answer \in Adapter!Answers, Adapter!Project(answer),
           UNCHANGED <<status, status_stamp, taken>>
    PROVE  IInv'
<1>1. /\ worker' = [worker EXCEPT !.at = "ANSWERED", !.answer = answer]
      /\ UNCHANGED <<adapter, queue, snapshot>>
  BY DEF Adapter!Project
<1>2. worker \in Workers /\ answer \in {"MATCHING", "OTHER", "FAILED", "NONE"}
  BY DEF IInv, Typed, Adapter!Answers
<1>3. worker' \in Workers
  BY <1>1, <1>2, Zenon DEF Workers
<1>4. worker'.job = worker.job /\ worker'.at = "ANSWERED"
  BY <1>1, <1>2, SMT DEF Workers
<1> QED
  BY <1>1, <1>3, <1>4 DEF IInv, Typed, Numbered, Served, Published, Followed

LEMMA CompleteInvariant ==
    ASSUME IInv, Adapter!CompleteProjection, UNCHANGED <<status, status_stamp, taken>>
    PROVE  IInv'
<1> DEFINE job == worker.job
           done == [adapter EXCEPT !.request_pending = FALSE]
<1>1. /\ worker' = Adapter!Idle /\ UNCHANGED queue
      /\ \/ ~Adapter!Awaited(job) /\ UNCHANGED <<adapter, snapshot>>
         \/ /\ Adapter!Awaited(job)
            /\ adapter' = done
            /\ \/ snapshot' = Adapter!Unavailable
               \/ Adapter!StillValid(job, worker.answer) /\ snapshot' = Adapter!Ready(job)
  BY DEF Adapter!CompleteProjection
<1>2. /\ adapter \in Adapters /\ job \in Adapter!Jobs
      /\ adapter.next_request_epoch \in Nat
      /\ worker' \in Workers /\ worker'.job.request = 0
  BY <1>1, WorkerFields, IdleFacts DEF IInv, Typed, Adapters
<1>3. CASE ~Adapter!Awaited(job) /\ UNCHANGED <<adapter, snapshot>>
  <2>1. Numbered'
    BY <1>1, <1>2, <1>3 DEF IInv, Numbered
  <2>2. Served'
    BY <1>1, <1>2, <1>3 DEF IInv, Served, Adapter!Awaited
  <2> QED
    BY <1>1, <1>2, <1>3, <2>1, <2>2 DEF IInv, Typed, Published, Followed
<1>4. CASE Adapter!Awaited(job) /\ adapter' = done
  <2>1. adapter' \in Adapters
    BY <1>2, <1>4, Zenon DEF Adapters
  <2>2. /\ adapter'.request_pending = FALSE
        /\ adapter'.has_localization_status = adapter.has_localization_status
        /\ adapter'.last = adapter.last /\ adapter'.last_signal = adapter.last_signal
        /\ adapter'.odom_identity_stable = adapter.odom_identity_stable
        /\ adapter'.next_request_epoch = adapter.next_request_epoch
    BY <1>2, <1>4, SMT DEF Adapters
  <2>3. Numbered' /\ Served' /\ Followed'
    BY <1>1, <1>2, <2>2 DEF IInv, Numbered, Served, Followed
  <2>4. CASE snapshot' = Adapter!Unavailable
    <3>1. snapshot' \in Snapshots /\ snapshot'.ready = FALSE
      BY <2>4, UnavailableFacts
    <3> QED
      BY <1>1, <1>2, <2>1, <2>2, <2>3, <3>1 DEF IInv, Typed, Published
  <2>5. CASE Adapter!StillValid(job, worker.answer) /\ snapshot' = Adapter!Ready(job)
    <3>1. snapshot' \in Snapshots /\ snapshot'.job = job
      BY <1>2, <2>5, Zenon DEF Adapter!Ready, Snapshots
    <3>2. job.intact
      BY <1>4 DEF IInv, Served, Adapter!Awaited
    <3>3. /\ adapter.odom_identity_stable /\ AllowsPlanning(adapter.last)
          /\ ~adapter.last.latched /\ job.localization_epoch = adapter.last.epoch
          /\ Adapter!SameOdometry(job, adapter.last)
      BY <2>5 DEF Adapter!StillValid, Adapter!LocalizationReady,
                  Adapter!Stream!AllowsPlanning, AllowsPlanning
    <3> HIDE DEF job
    <3>4. Published'
      BY <2>2, <3>1, <3>2, <3>3 DEF IInv, Published
    <3> QED
      BY <1>1, <1>2, <2>1, <2>3, <3>1, <3>4 DEF IInv, Typed
  <2> QED BY <1>1, <1>4, <2>4, <2>5
<1> QED BY <1>1, <1>3, <1>4

(* Flags of the steady clock say nothing of what is pending or published.  *)
LEMMA ClockInvariant ==
    ASSUME IInv, Adapter!StatusLapses \/ Adapter!RequestOverdue,
           UNCHANGED <<status, status_stamp, taken>>
    PROVE  IInv'
<1>1. adapter \in Adapters
  BY DEF IInv, Typed
<1>2. /\ \/ adapter' = [adapter EXCEPT !.lapsed = TRUE]
         \/ adapter' = [adapter EXCEPT !.overdue = TRUE]
      /\ UNCHANGED <<queue, worker, snapshot>>
  BY DEF Adapter!StatusLapses, Adapter!RequestOverdue
<1>3. adapter' \in Adapters
  BY <1>1, <1>2, Zenon DEF Adapters
<1>4. /\ adapter'.request_pending = adapter.request_pending
      /\ adapter'.active_request_epoch = adapter.active_request_epoch
      /\ adapter'.has_localization_status = adapter.has_localization_status
      /\ adapter'.last = adapter.last /\ adapter'.last_signal = adapter.last_signal
      /\ adapter'.odom_identity_stable = adapter.odom_identity_stable
      /\ adapter'.next_request_epoch = adapter.next_request_epoch
  BY <1>1, <1>2, SMT DEF Adapters
<1> QED
  BY <1>2, <1>3, <1>4 DEF IInv, Typed, Numbered, Served, Published, Followed

LEMMA AdaptInvariant ==
    ASSUME IInv, Adapt PROVE IInv'
<1>1. Adapter!Step /\ UNCHANGED <<status, status_stamp, taken>>
  BY DEF Adapt
<1>2. CASE Adapter!WithoutLocalization \/ Adapter!WorkerStillBusy
  BY <1>1, <1>2, UnavailableInvariant
     DEF Adapter!WithoutLocalization, Adapter!WorkerStillBusy
<1> QED
  BY <1>1, <1>2, TimeoutInvariant, RequestInvariant, TakeJobInvariant,
     ProjectInvariant, CompleteInvariant, ClockInvariant DEF Adapter!Step

LEMMA NextInvariant ==
    ASSUME IInv, [SystemNext]_vars PROVE IInv'
<1>1. CASE UNCHANGED vars
  BY <1>1 DEF vars, IInv, Typed, Numbered, Served, Published, Followed
<1> QED
  BY <1>1, LocalizeInvariant, TakeInvariant, HandleInvariant, AdaptInvariant
     DEF SystemNext

LEMMA Invariance == SystemSpec => []IInv
<1>1. SystemInit => IInv
  BY InitInvariant
<1>2. IInv /\ [SystemNext]_vars => IInv'
  BY NextInvariant
<1> QED BY <1>1, <1>2, PTL DEF SystemSpec

-----------------------------------------------------------------------------
(* The theorems.                                                           *)

(* The adapter is well typed, and a fenced request never names one still   *)
(* to come (requestProjection, next_request_epoch_).                       *)
THEOREM TypeCorrect == SystemSpec => []TypeOK
<1>1. IInv => TypeOK
  <2> SUFFICES ASSUME IInv PROVE TypeOK
    OBVIOUS
  <2>1. /\ adapter \in [has_localization_status : BOOLEAN,
                        last : Adapter!Stream!Statuses,
                        last_signal : Nat, odom_identity_stable : BOOLEAN,
                        lapsed : BOOLEAN, request_pending : BOOLEAN,
                        overdue : BOOLEAN,
                        active_request_epoch : Nat, next_request_epoch : Nat]
        /\ queue \in Adapter!Jobs /\ snapshot \in [ready : BOOLEAN, job : Adapter!Jobs]
    BY StatusTypes, Zenon DEF IInv, Typed, Adapters, Snapshots
  <2>2. worker \in [at : {"IDLE", "RUNNING", "ANSWERED"}, job : Adapter!Jobs,
                    answer : Adapter!Answers \cup {"NONE"}]
    <3>1. Adapter!Answers \cup {"NONE"} = {"MATCHING", "OTHER", "FAILED", "NONE"}
      BY DEF Adapter!Answers
    <3> QED BY <3>1, Zenon DEF IInv, Typed, Workers
  <2>3. /\ \A job \in {queue, worker.job} : job.request <= adapter.next_request_epoch
        /\ adapter.request_pending =>
               adapter.active_request_epoch = adapter.next_request_epoch
    BY DEF IInv, Numbered, Served
  <2> QED BY <2>1, <2>2, <2>3, Zenon DEF TypeOK, Adapter!TypeOK
<1> QED BY <1>1, Invariance, PTL

(* A ready snapshot belongs to one localization from its request to its    *)
(* publication and as long as it stays ready (completeProjection).         *)
THEOREM OneLocalization == SystemSpec => []SnapshotOfOneLocalization
<1>1. IInv => SnapshotOfOneLocalization
  BY DEF IInv, Published, SnapshotOfOneLocalization
<1> QED BY <1>1, Invariance, PTL

(* The adapter never waits for a job that nobody works on                  *)
(* (requestProjection, runProjectionWorker).                               *)
THEOREM PendingServed == SystemSpec => []PendingRequestIsServed
<1>1. IInv => PendingRequestIsServed
  BY DEF IInv, Served, PendingRequestIsServed
<1> QED BY <1>1, Invariance, PTL

(* A map that is ready after the last status was handled belongs to that   *)
(* status, however many statuses the topic dropped (onLocalizationStatus). *)
THEOREM ReadyFollows == SystemSpec => []ReadyFollowsLocalization
<1>1. IInv => ReadyFollowsLocalization
  BY DEF IInv, Published, Followed, ReadyFollowsLocalization
<1> QED BY <1>1, Invariance, PTL

=============================================================================
