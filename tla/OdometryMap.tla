------------------------------ MODULE OdometryMap ------------------------------
(***************************************************************************)
(* The ROG map node composed with what it may rely on of the localization: *)
(* LocalizationStream, which LocalizationFusion implements.  Like the      *)
(* adapter in LocalizedMap, its callback takes a status, waits for the     *)
(* lock, and only then handles it.  Scans and odometry of an old or of a   *)
(* new process arrive at any time, before or after the status that names   *)
(* it, and projections are asked for any odometry.                         *)
(***************************************************************************)
EXTENDS LocalizationStream, FiniteSets

CONSTANTS
    Shown,                      \* the states published, as in LocalizedMap
    BatchSize, EsdfInterval     \* of the ROG map

ASSUME OdometryMapAssumption ==
    /\ Shown \subseteq States /\ IsFiniteSet(Instances)
    /\ BatchSize \in Nat \ {0} /\ EsdfInterval \in Nat \ {0}

VARIABLES
    source, cloud, map, layer,  \* MapSource
    heard                       \* the status the node's callback holds, or Nothing

Source == INSTANCE MapSource

streamVars == <<status, status_stamp>>
vars == <<streamVars, source, cloud, map, layer, heard>>

Nothing == [status |-> NoStatus, stamp |-> 0]

Odometries == [instance : Instances, odom_epoch : 1..Cardinality(Instances)]

(* Stamps only need to grow: here by one.  The node does not read the map  *)
(* epoch: one that changes with the odometry is enough.                    *)
Localize ==
    /\ status_stamp' = status_stamp + 1
    /\ status' \in {s \in StatusesIn(Shown, 0..Cardinality(Instances)) :
                        WellFormed(s) /\ Follows(s, status) /\ s.epoch = s.odom_epoch}
    /\ UNCHANGED <<source, cloud, map, layer, heard>>

TakeStatus ==
    /\ heard = Nothing /\ status_stamp # 0
    /\ heard' = [status |-> status, stamp |-> status_stamp]
    /\ UNCHANGED <<streamVars, source, cloud, map, layer>>

HandleStatus ==
    /\ heard # Nothing
    /\ Source!OnLocalizationStatus(heard.status, heard.stamp)
    /\ heard' = Nothing
    /\ UNCHANGED streamVars

Go == UNCHANGED <<streamVars, heard>>

SystemInit == Init /\ Source!Init /\ heard = Nothing

SystemNext ==
    \/ Localize
    \/ TakeStatus \/ HandleStatus
    \/ (\E job \in Odometries : Source!Project(job)) /\ Go
    \/ Source!Step /\ Go

SystemSpec == SystemInit /\ [][SystemNext]_vars

(* The executor serves the status callback, and the cloud callback gets to *)
(* its second end.  Of a world that keeps letting it, the process that     *)
(* the ROG map follows is heard and scanned again and again, and one of    *)
(* those scans gets its transforms, is decoded and changes the map.        *)
OfTheProcess(stamp) == stamp = Source!StartOf(source.instance)

Heard == \E stamp \in Source!Stamps :
    OfTheProcess(stamp) /\ Source!OdometryArrives(stamp)

Scanned == \E stamp \in Source!Stamps :
    OfTheProcess(stamp) /\ Source!DeferCloud(stamp)

Fairness ==
    /\ WF_vars(TakeStatus) /\ WF_vars(HandleStatus)
    /\ WF_vars(Source!DiscardCloud /\ Go)
    /\ SF_vars(Heard /\ Go) /\ SF_vars(Scanned /\ Go)
    /\ SF_vars(Source!AdmitCloud /\ cloud'.at = "DECODING" /\ Go)
    /\ SF_vars(Source!CommitCloud /\ ~source'.map_update_stale /\ Go)

FairSystemSpec == SystemSpec /\ Fairness

-----------------------------------------------------------------------------
(* Correctness.                                                            *)

Processes == SUBSET Instances

(* The state is well typed, and an open batch of rays is never full and    *)
(* holds a scan for every frame it counts.                                 *)
TypeOK ==
    /\ source \in [signal : Nat, lapsed : BOOLEAN, valid : BOOLEAN,
                   instance : Instances \cup {0}, odom_epoch : Nat, start : Nat,
                   revision : Nat, has_map_data : BOOLEAN,
                   map_update_stale : BOOLEAN, odom_stale : BOOLEAN]
    /\ cloud \in [at : {"NONE", "PENDING", "DECODING"},
                  stamp : Source!Stamps \cup {0}, revision : Nat]
    /\ map \in [voxels : Processes, batch : Processes, batched : 0..(BatchSize - 1),
                updates : 0..(EsdfInterval - 1), esdf_current : BOOLEAN,
                of_voxels : BOOLEAN]
    /\ layer \in Processes
    /\ map.batch = {} <=> map.batched = 0

(* Once the ROG map has handled the change to a new odometry process,      *)
(* nothing of an older one is left in its voxels, in the rays still to be  *)
(* integrated or in the odometry layer, and nothing of it comes back: not  *)
(* a queued scan, not one that was being decoded during the change.        *)
NoOlderProcess ==
    \A i \in map.voxels \cup map.batch \cup layer : i >= source.instance

(* The distances the engine takes for current are those of the voxels,     *)
(* although it tries not to compute them twice: when the window slides,    *)
(* a batch is integrated or the map is reset, none of an earlier map are   *)
(* shown with a later one.                                                 *)
DistancesOfTheseVoxels == map.esdf_current => map.of_voxels

(* While the fusion reports several processes at once, or none, the ROG    *)
(* map takes nothing in: a scan admitted before, and decoded meanwhile, is *)
(* not integrated under an identity that has been revoked.                 *)
RevokedIdentityFreezesTheMap ==
    [][~source.valid => map'.voxels \subseteq map.voxels
                        /\ map'.batch \subseteq map.batch /\ layer' \subseteq layer]_vars

(* When the localization settles on an odometry, the identity keeps being  *)
(* confirmed and the inputs come in time, the map becomes and stays usable *)
(* for that odometry: no change of process, discarded scan or lapse of the *)
(* past keeps the ROG map from following.                                  *)
Settled == status.instance # 0 /\ ~status.latched /\ ~source.lapsed

InputsInTime == ~Source!UpdateLapses /\ ~Source!OdometryLapses

MapBecomesUsable ==
    <>[]Settled /\ <>[][InputsInTime]_vars => <>[]Source!Usable(status)
=============================================================================
