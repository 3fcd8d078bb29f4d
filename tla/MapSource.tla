------------------------------- MODULE MapSource -------------------------------
(***************************************************************************)
(* The ROG map node (ats_rog_map): it follows the identity of the odometry *)
(* in the localization status, turns scans into a voxel map and an         *)
(* odometry layer, and answers the projection requests of the adapter.     *)
(* The status callback, both ends of the cloud callback, the odometry      *)
(* callback and a projection each hold epoch_mutex_; between its two ends  *)
(* the cloud callback decodes a scan without it.                           *)
(*                                                                         *)
(* The configuration is require_odom_identity without the test fixtures.   *)
(* Of the voxels and of the layer only the odometry processes whose scans  *)
(* they hold are kept. The clearing around the sensor at the first frame   *)
(* is left out: it marks no voxel occupied, and nothing nearer than        *)
(* raycast_range_min is taken from a scan. Processes are numbered by start *)
(* time and one clock stamps their scans: a scan of process i is stamped   *)
(* 2*i when it is older than the first odometry the fusion heard of i, and *)
(* 2*i + 1 otherwise.                                                      *)
(***************************************************************************)
EXTENDS Integers

CONSTANTS
    Instances,          \* the odometry processes, by start time
    BatchSize,          \* raycasting batch_update_size
    EsdfInterval        \* esdf_update_interval_updates

VARIABLES
    source,     \* OdomEpochGuard, the identity lease, and the age of the inputs
    cloud,      \* the scan waiting for its transforms, or being decoded
    map,        \* the RogMapEngine
    layer       \* the processes whose scans odom_layer_ and ground_columns_ hold

sourceVars == <<source, cloud, map, layer>>

Stamps == {2 * i : i \in Instances} \cup {2 * i + 1 : i \in Instances}

ProcessOf(stamp) == stamp \div 2

(* odom_epoch_start_stamp of the status that names instance.               *)
StartOf(instance) == IF instance = 0 THEN 0 ELSE 2 * instance + 1

InitialSource ==
    [signal |-> 0,              \* last_identity_signal_ns_
     lapsed |-> FALSE,          \* identity_timeout_sec_ since that signal
     valid |-> FALSE, instance |-> 0, odom_epoch |-> 0, start |-> 0,
     revision |-> 0,
     has_map_data |-> FALSE,
     map_update_stale |-> TRUE, odom_stale |-> TRUE]    \* inputHealth

NoCloud == [at |-> "NONE", stamp |-> 0, revision |-> 0]

(* of_voxels is history: the distance field was computed from the voxels   *)
(* as they are.                                                            *)
EmptyMap ==
    [voxels |-> {}, batch |-> {}, batched |-> 0,
     updates |-> 0,             \* map_update_index_, modulo EsdfInterval
     esdf_current |-> FALSE,    \* esdf_generation_ = snapshot_generation_
     of_voxels |-> FALSE]

-----------------------------------------------------------------------------
(* The identity of the odometry.                                           *)

(* Mutant: the guard does not note the epoch of the odometry.              *)
GuardWithoutEpoch(s) ==
    LET valid == s.instance # 0 /\ s.odom_epoch # 0 /\ ~s.latched
        changed == valid /\ ~(s.instance = source.instance
                              /\ s.odom_epoch = source.odom_epoch)
    IN  IF s.instance # 0 /\ s.instance < source.instance
        THEN [changed |-> FALSE, source |-> source]
        ELSE [changed |-> changed,
              source |-> [source EXCEPT
                  !.valid = valid,
                  !.revision = IF changed \/ valid # source.valid THEN @ + 1 ELSE @,
                  !.instance = IF changed THEN s.instance ELSE @,
                  !.start = IF changed THEN StartOf(s.instance) ELSE @]]

(* OdomEpochGuard::update.                                                 *)
Guarded(s) ==
    LET valid == s.instance # 0 /\ s.odom_epoch # 0 /\ ~s.latched
        changed == valid /\ ~(s.instance = source.instance
                              /\ s.odom_epoch = source.odom_epoch)
    IN  IF s.instance # 0 /\ s.instance < source.instance
        THEN [changed |-> FALSE, source |-> source]
        ELSE [changed |-> changed,
              source |-> [source EXCEPT
                  !.valid = valid,
                  !.revision = IF changed \/ valid # source.valid THEN @ + 1 ELSE @,
                  !.instance = IF changed THEN s.instance ELSE @,
                  !.odom_epoch = IF changed THEN s.odom_epoch ELSE @,
                  !.start = IF changed THEN StartOf(s.instance) ELSE @]]

(* OdomEpochGuard::accepts.                                                *)
Accepts(stamp) == source.valid /\ stamp >= source.start

(* Mutant: the reset leaves the rays cast but not yet integrated.          *)
ResetVoxelsOnly(m) ==
    [m EXCEPT !.voxels = {}, !.esdf_current = FALSE, !.of_voxels = FALSE]

(* resetForOdomEpoch; map_update_index_ goes on.                           *)
Reset(m) == [EmptyMap EXCEPT !.updates = m.updates]

(* onLocalizationStatus.                                                   *)
OnLocalizationStatus(s, stamp) ==
    LET guarded == Guarded(s)
        signalled == [guarded.source EXCEPT !.signal = stamp, !.lapsed = FALSE]
    IN  IF stamp <= source.signal THEN UNCHANGED sourceVars
        ELSE IF ~guarded.changed
        THEN source' = signalled /\ UNCHANGED <<cloud, map, layer>>
        ELSE /\ source' = [signalled EXCEPT !.has_map_data = FALSE,
                                            !.map_update_stale = TRUE,
                                            !.odom_stale = TRUE]
             /\ map' = Reset(map)
             /\ layer' = {}
             /\ UNCHANGED cloud

(* odomCallback.                                                           *)
OdometryArrives(stamp) ==
    /\ Accepts(stamp)
    /\ source' = [source EXCEPT !.odom_stale = FALSE]
    /\ UNCHANGED <<cloud, map, layer>>

-----------------------------------------------------------------------------
(* The cloud callback group: deferCloud and the retry timer exclude each   *)
(* other, and neither runs while a scan is being decoded.                  *)

DeferCloud(stamp) ==
    /\ cloud.at # "DECODING"
    /\ cloud' = [at |-> "PENDING", stamp |-> stamp, revision |-> 0]
    /\ UNCHANGED <<source, map, layer>>

(* tryProcessCloud: the transforms did not come before the deadline.       *)
ExpireCloud ==
    /\ cloud.at = "PENDING"
    /\ cloud' = NoCloud
    /\ UNCHANGED <<source, map, layer>>

(* tryProcessCloud and the first end of cloudCallback.                     *)
AdmitCloud ==
    /\ cloud.at = "PENDING"
    /\ cloud' = IF Accepts(cloud.stamp)
                THEN [cloud EXCEPT !.at = "DECODING", !.revision = source.revision]
                ELSE NoCloud
    /\ UNCHANGED <<source, map, layer>>

(* A transform is missing after all, or the cloud cannot be decoded.       *)
RejectCloud ==
    /\ cloud.at = "DECODING"
    /\ cloud' = NoCloud
    /\ UNCHANGED <<source, map, layer>>

(* Mutant: the scan is not compared again with what changed meanwhile.     *)
AlwaysCurrent == TRUE

(* The second end checks again what the first one did.                     *)
StillCurrent == cloud.revision = source.revision /\ Accepts(cloud.stamp)

DiscardCloud ==
    /\ cloud.at = "DECODING" /\ ~StillCurrent
    /\ cloud' = NoCloud
    /\ UNCHANGED <<source, map, layer>>

(* Mutant: the engine asks only whether the update index is a multiple.    *)
RebuildsByIndexOnly(advanced, updates) == updates = 0

(* core_rebuilt_esdf: updateProbMap rebuilds the distance field itself     *)
(* every EsdfInterval updates of the voxels.                               *)
CoreRebuiltEsdf(advanced, updates) == advanced /\ updates = 0

(* RogMapEngine::update that only slides the window: the robot is outside  *)
(* it.  What remains inside is kept.                                       *)
Slid(m, kept) ==
    LET current == CoreRebuiltEsdf(FALSE, m.updates)
    IN  [m EXCEPT !.voxels = kept, !.esdf_current = current, !.of_voxels = FALSE]

(* Mutant: the batch is integrated one frame too late.                     *)
CastOneFrameLate(m, kept, process) ==
    LET full == m.batched >= BatchSize
        cast == m.batch \cup {process}
        updates == (m.updates + 1) % EsdfInterval
        rebuilt == updates = 0
    IN  [m EXCEPT !.voxels = IF full THEN kept \cup cast ELSE kept,
                  !.batch = IF full THEN {} ELSE cast,
                  !.batched = IF full THEN 0 ELSE @ + 1,
                  !.updates = updates,
                  !.esdf_current = CoreRebuiltEsdf(TRUE, updates),
                  !.of_voxels = rebuilt]

(* RogMapEngine::update that casts the rays of a scan, after it slid the   *)
(* window if no batch is open, and integrates the batch when it is full.   *)
Cast(m, kept, process) ==
    LET full == m.batched + 1 >= BatchSize
        cast == m.batch \cup {process}
        updates == (m.updates + 1) % EsdfInterval
        rebuilt == updates = 0
    IN  [m EXCEPT !.voxels = IF full THEN kept \cup cast ELSE kept,
                  !.batch = IF full THEN {} ELSE cast,
                  !.batched = IF full THEN 0 ELSE @ + 1,
                  !.updates = updates,
                  !.esdf_current = CoreRebuiltEsdf(TRUE, updates),
                  !.of_voxels = rebuilt]

(* The second end of cloudCallback, with accumulateOdomLayer.              *)
Commit(updated) ==
    /\ map' = updated
    /\ source' = [source EXCEPT !.has_map_data = TRUE,
                                      !.map_update_stale = FALSE]
    /\ layer' = layer \cup {ProcessOf(cloud.stamp)}

CommitCloud ==
    /\ cloud.at = "DECODING" /\ StillCurrent
    /\ cloud' = NoCloud
    /\ \/ UNCHANGED <<source, map, layer>>      \* refused: no change of the map
       \/ \E kept \in SUBSET map.voxels :
              /\ map.batched = 0
              /\ Commit(Slid(map, kept))
       \/ \E kept \in SUBSET map.voxels :
              /\ map.batched # 0 => kept = map.voxels
              /\ Commit(Cast(map, kept, ProcessOf(cloud.stamp)))

-----------------------------------------------------------------------------
(* Projections.                                                            *)

(* ensureCurrentEsdf.                                                      *)
WithCurrentEsdf(m) ==
    IF m.esdf_current THEN m ELSE [m EXCEPT !.esdf_current = TRUE, !.of_voxels = TRUE]

(* publishDebug: it holds map_mutex_ only.                                 *)
ShowEsdf ==
    /\ source.has_map_data
    /\ map' = WithCurrentEsdf(map)
    /\ UNCHANGED <<source, cloud, layer>>

Stale == source.map_update_stale \/ source.odom_stale

Named(job) == job.instance = source.instance /\ job.odom_epoch = source.odom_epoch

(* getGroundProjection: it answers for the odometry it is asked about from *)
(* the voxels or from the layer; its distances are made current first.     *)
Answers(job) == source.valid /\ ~source.lapsed /\ Named(job) /\ source.has_map_data

Project(job) ==
    /\ Answers(job)
    /\ map' = WithCurrentEsdf(map)
    /\ UNCHANGED <<source, cloud, layer>>

(* The answer makes a planning map (RogMapEsdfSnapshot::available).        *)
Usable(job) == Answers(job) /\ ~Stale

-----------------------------------------------------------------------------
(* The steady clock.                                                       *)

IdentityLapses ==
    /\ source.signal # 0 /\ ~source.lapsed
    /\ source' = [source EXCEPT !.lapsed = TRUE]
    /\ UNCHANGED <<cloud, map, layer>>

UpdateLapses ==
    /\ ~source.map_update_stale
    /\ source' = [source EXCEPT !.map_update_stale = TRUE]
    /\ UNCHANGED <<cloud, map, layer>>

OdometryLapses ==
    /\ ~source.odom_stale
    /\ source' = [source EXCEPT !.odom_stale = TRUE]
    /\ UNCHANGED <<cloud, map, layer>>

Init ==
    /\ source = InitialSource
    /\ cloud = NoCloud
    /\ map = EmptyMap
    /\ layer = {}

(* Every step but the reception of a status and a projection.              *)
Step ==
    \/ \E stamp \in Stamps : OdometryArrives(stamp) \/ DeferCloud(stamp)
    \/ ExpireCloud \/ AdmitCloud \/ RejectCloud \/ DiscardCloud \/ CommitCloud
    \/ ShowEsdf
    \/ IdentityLapses \/ UpdateLapses \/ OdometryLapses
=============================================================================
