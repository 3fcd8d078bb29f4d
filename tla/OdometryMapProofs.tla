-------------------------- MODULE OdometryMapProofs --------------------------
(* Proofs about the ROG map under a localization that keeps                *)
(* LocalizationStream, for every value of the constants.                   *)
EXTENDS OdometryMap, FiniteSetTheorems, TLAPS

Sources ==
    [signal : Nat, lapsed : BOOLEAN, valid : BOOLEAN,
     instance : Instances \cup {0}, odom_epoch : Nat, start : Nat,
     revision : Nat, has_map_data : BOOLEAN,
     map_update_stale : BOOLEAN, odom_stale : BOOLEAN]

Clouds ==
    [at : {"NONE", "PENDING", "DECODING"}, stamp : Source!Stamps \cup {0},
     revision : Nat]

Maps ==
    [voxels : Processes, batch : Processes, batched : 0..(BatchSize - 1),
     updates : 0..(EsdfInterval - 1), esdf_current : BOOLEAN, of_voxels : BOOLEAN]

(* What a map holds is not older than the process p.                       *)
Since(m, p) == \A i \in m.voxels \cup m.batch : i >= p

Sound(m) ==
    /\ m \in Maps
    /\ m.batch = {} <=> m.batched = 0
    /\ m.esdf_current => m.of_voxels

(* The floor of the stamps is the one of the process followed, and a scan  *)
(* in hand has a stamp.                                                    *)
IInv ==
    /\ status \in Statuses /\ status_stamp \in Nat
    /\ heard \in [status : Statuses, stamp : Nat]
    /\ source \in Sources /\ cloud \in Clouds /\ Sound(map) /\ layer \in Processes
    /\ source.start = Source!StartOf(source.instance)
    /\ cloud.at # "NONE" => cloud.stamp \in Source!Stamps
    /\ Since(map, source.instance)
    /\ \A i \in layer : i >= source.instance

(* The constants and the statuses.                                         *)
LEMMA ConstantFacts ==
    /\ Instances \subseteq Nat /\ MaxEpochs \in Nat
    /\ BatchSize \in Nat /\ BatchSize >= 1
    /\ EsdfInterval \in Nat /\ EsdfInterval >= 1
    /\ Cardinality(Instances) \in Nat
<1>1. Cardinality(Instances) \in Nat
  BY OdometryMapAssumption, FS_CardinalityType
<1> QED
  BY <1>1, StreamAssumption, OdometryMapAssumption, SMT

LEMMA StatusFacts ==
    ASSUME NEW s \in Statuses
    PROVE  s.instance \in Instances \cup {0} /\ s.odom_epoch \in Nat /\ s.latched \in BOOLEAN
  BY Zenon DEF Statuses, StatusesIn

LEMMA NoStatusType == NoStatus \in Statuses /\ Nothing \in [status : Statuses, stamp : Nat]
<1>1. 0 \in 0..MaxEpochs /\ 0 \in Nat
  BY StreamAssumption
<1>2. NoStatus \in Statuses
  BY <1>1, Zenon DEF NoStatus, Statuses, StatusesIn, States
<1> QED
  BY <1>1, <1>2, Zenon DEF Nothing

LEMMA ShownTypes == StatusesIn(Shown, 0..Cardinality(Instances)) \subseteq Statuses
<1>1. Shown \subseteq States
  BY OdometryMapAssumption
<1>2. 0..Cardinality(Instances) \subseteq Nat
  BY ConstantFacts, SMT
<1> SUFFICES ASSUME NEW s \in StatusesIn(Shown, 0..Cardinality(Instances))
             PROVE  s \in Statuses
  OBVIOUS
<1> QED
  BY <1>1, <1>2, Zenon DEF StatusesIn, Statuses

LEMMA InstanceType == \A i \in Instances \cup {0} : i \in Nat
  BY ConstantFacts, SMT

LEMMA StartFacts ==
    ASSUME NEW i \in Instances \cup {0}
    PROVE  Source!StartOf(i) \in Nat
  BY ConstantFacts, SMT DEF Source!StartOf

(* A scan that is not older than the start of a process is not of an older *)
(* process.                                                                *)
LEMMA StampFacts ==
    ASSUME NEW stamp \in Source!Stamps, NEW i \in Instances \cup {0},
           stamp >= Source!StartOf(i)
    PROVE  Source!ProcessOf(stamp) \in Instances /\ Source!ProcessOf(stamp) >= i
<1>1. PICK p \in Instances : stamp = 2 * p \/ stamp = 2 * p + 1
  BY SMT DEF Source!Stamps
<1>2. p \in Nat /\ i \in Nat
  BY ConstantFacts
<1>3. stamp \div 2 = p
  BY <1>1, <1>2, SMT
<1>4. p >= i
  BY <1>1, <1>2, SMT DEF Source!StartOf
<1> QED
  BY <1>3, <1>4, Zenon DEF Source!ProcessOf

-----------------------------------------------------------------------------
(* What the operators of the map keep.                                     *)

LEMMA MapFields ==
    ASSUME NEW m \in Maps
    PROVE  /\ m.voxels \subseteq Instances /\ m.batch \subseteq Instances
           /\ m.batched \in 0..(BatchSize - 1) /\ m.updates \in 0..(EsdfInterval - 1)
           /\ m.esdf_current \in BOOLEAN /\ m.of_voxels \in BOOLEAN
  BY SMT DEF Maps, Processes

LEMMA EmptyMapSound ==
    /\ Sound(Source!EmptyMap)
    /\ Source!EmptyMap.voxels = {} /\ Source!EmptyMap.batch = {}
<1>1. 0 \in 0..(BatchSize - 1) /\ 0 \in 0..(EsdfInterval - 1)
  BY ConstantFacts, SMT
<1>2. Source!EmptyMap \in Maps
  BY <1>1, Zenon DEF Source!EmptyMap, Maps, Processes
<1> QED
  BY <1>2, SMT DEF Source!EmptyMap, Sound

(* The reset empties everything but the count of the updates.              *)
LEMMA ResetSound ==
    ASSUME NEW m, Sound(m)
    PROVE  /\ Sound(Source!Reset(m))
           /\ Source!Reset(m).voxels = {} /\ Source!Reset(m).batch = {}
<1>1. m.updates \in 0..(EsdfInterval - 1)
  BY MapFields DEF Sound
<1>2. Source!Reset(m) \in Maps
  BY <1>1, EmptyMapSound, Zenon DEF Source!Reset, Maps, Sound
<1> QED
  BY <1>2, SMT DEF Source!Reset, Source!EmptyMap, Sound

LEMMA CurrentEsdfSound ==
    ASSUME NEW m, Sound(m)
    PROVE  /\ Sound(Source!WithCurrentEsdf(m))
           /\ Source!WithCurrentEsdf(m).voxels = m.voxels
           /\ Source!WithCurrentEsdf(m).batch = m.batch
<1> DEFINE n == [m EXCEPT !.esdf_current = TRUE, !.of_voxels = TRUE]
<1>1. n \in Maps
  BY Zenon DEF Sound, Maps
<1>2. /\ n.voxels = m.voxels /\ n.batch = m.batch /\ n.batched = m.batched
      /\ n.of_voxels = TRUE
  BY SMT DEF Sound, Maps
<1> HIDE DEF n
<1>3. Sound(n)
  BY <1>1, <1>2, Zenon DEF Sound
<1>4. Source!WithCurrentEsdf(m) = IF m.esdf_current THEN m ELSE n
  BY Zenon DEF Source!WithCurrentEsdf, n
<1> QED
  BY <1>2, <1>3, <1>4, Zenon

(* A window that only slides leaves no distances that pass for current.    *)
LEMMA SlidSound ==
    ASSUME NEW m, Sound(m), NEW kept \in SUBSET m.voxels
    PROVE  /\ Sound(Source!Slid(m, kept))
           /\ Source!Slid(m, kept).voxels = kept
           /\ Source!Slid(m, kept).batch = m.batch
<1> DEFINE n == [m EXCEPT !.voxels = kept, !.esdf_current = FALSE, !.of_voxels = FALSE]
<1>1. Source!Slid(m, kept) = n
  BY Zenon DEF Source!Slid, Source!CoreRebuiltEsdf
<1>2. kept \in Processes
  BY MapFields, Zenon DEF Sound, Processes
<1>3. n \in Maps
  BY <1>2, Zenon DEF Sound, Maps
<1>4. /\ n.voxels = kept /\ n.batch = m.batch /\ n.batched = m.batched
      /\ n.esdf_current = FALSE
  BY SMT DEF Sound, Maps
<1> HIDE DEF n
<1> QED
  BY <1>1, <1>3, <1>4, Zenon DEF Sound

(* A scan is integrated with the rest of a full batch; the distances pass  *)
(* for current only when the core has just computed them.                  *)
LEMMA CastSound ==
    ASSUME NEW m, Sound(m), NEW kept \in SUBSET m.voxels, NEW p \in Instances
    PROVE  /\ Sound(Source!Cast(m, kept, p))
           /\ Source!Cast(m, kept, p).voxels \subseteq m.voxels \cup m.batch \cup {p}
           /\ Source!Cast(m, kept, p).batch \subseteq m.batch \cup {p}
<1> DEFINE full == m.batched + 1 >= BatchSize
           cast == m.batch \cup {p}
           voxels == IF full THEN kept \cup cast ELSE kept
           batch == IF full THEN {} ELSE cast
           batched == IF full THEN 0 ELSE m.batched + 1
           updates == (m.updates + 1) % EsdfInterval
           n == [m EXCEPT !.voxels = voxels, !.batch = batch, !.batched = batched,
                          !.updates = updates, !.esdf_current = (updates = 0),
                          !.of_voxels = (updates = 0)]
<1>1. Source!Cast(m, kept, p) = n
  BY Zenon DEF Source!Cast, Source!CoreRebuiltEsdf
<1>2. /\ m \in Maps /\ m.voxels \subseteq Instances /\ m.batch \subseteq Instances
      /\ m.batched \in 0..(BatchSize - 1) /\ m.updates \in 0..(EsdfInterval - 1)
  BY MapFields, Zenon DEF Sound
<1>3. voxels \in Processes /\ batch \in Processes
  BY <1>2, SMT DEF Processes
<1>4. batched \in 0..(BatchSize - 1)
  BY <1>2, ConstantFacts, SMT
<1>5. updates \in 0..(EsdfInterval - 1)
  <2>1. m.updates + 1 \in Int /\ EsdfInterval \in Nat /\ EsdfInterval > 0
    BY <1>2, ConstantFacts, SMT
  <2> QED
    BY <2>1, SMT
<1>6. batch = {} <=> batched = 0
  BY <1>2, SMT
<1>7. /\ voxels \subseteq m.voxels \cup m.batch \cup {p}
      /\ batch \subseteq m.batch \cup {p}
  BY SMT
<1> HIDE DEF voxels, batch, batched, updates
<1>8. n \in Maps
  BY <1>2, <1>3, <1>4, <1>5, Zenon DEF Maps
<1>9. /\ n.voxels = voxels /\ n.batch = batch /\ n.batched = batched
      /\ n.esdf_current = (updates = 0) /\ n.of_voxels = (updates = 0)
  BY <1>2, Zenon DEF Maps
<1> HIDE DEF n
<1> QED
  BY <1>1, <1>6, <1>7, <1>8, <1>9, Zenon DEF Sound

-----------------------------------------------------------------------------
(* The identity of the odometry.                                           *)

LEMMA SourceFields ==
    ASSUME NEW s \in Sources
    PROVE  /\ s.signal \in Nat /\ s.revision \in Nat /\ s.valid \in BOOLEAN
           /\ s.instance \in Instances \cup {0} /\ s.start \in Nat
  BY Zenon DEF Sources

(* A change names a process that is not older, with its own floor; nothing *)
(* else moves the process followed.                                        *)
LEMMA GuardedFacts ==
    ASSUME source \in Sources, NEW s \in Statuses
    PROVE  LET g == Source!Guarded(s)
           IN  /\ g.source \in Sources
               /\ g.changed =>
                      /\ g.source.instance >= source.instance
                      /\ g.source.start = Source!StartOf(g.source.instance)
               /\ ~g.changed =>
                      /\ g.source.instance = source.instance
                      /\ g.source.start = source.start
<1> DEFINE valid == s.instance # 0 /\ s.odom_epoch # 0 /\ ~s.latched
           changed == valid /\ ~(s.instance = source.instance
                                 /\ s.odom_epoch = source.odom_epoch)
           revision == IF changed \/ valid # source.valid THEN source.revision + 1
                       ELSE source.revision
           instance == IF changed THEN s.instance ELSE source.instance
           odom_epoch == IF changed THEN s.odom_epoch ELSE source.odom_epoch
           start == IF changed THEN Source!StartOf(s.instance) ELSE source.start
           n == [source EXCEPT !.valid = valid, !.revision = revision,
                               !.instance = instance, !.odom_epoch = odom_epoch,
                               !.start = start]
           g == Source!Guarded(s)
<1>1. /\ s.instance \in Instances \cup {0} /\ s.odom_epoch \in Nat
      /\ s.latched \in BOOLEAN
      /\ source.instance \in Instances \cup {0} /\ source.revision \in Nat
      /\ source.start \in Nat /\ source.odom_epoch \in Nat
  BY StatusFacts, Zenon DEF Sources
<1>2. CASE s.instance # 0 /\ s.instance < source.instance
  <2>1. g = [changed |-> FALSE, source |-> source]
    BY <1>2, Zenon DEF Source!Guarded
  <2>2. g.changed = FALSE /\ g.source = source
    BY <2>1
  <2> QED
    BY <2>2
<1>3. CASE ~(s.instance # 0 /\ s.instance < source.instance)
  <2>1. g = [changed |-> changed, source |-> n]
    BY <1>3, Zenon DEF Source!Guarded
  <2>2. valid \in BOOLEAN /\ changed \in BOOLEAN
    BY Zenon
  <2>3. revision \in Nat
    BY <1>1, SMT
  <2>4. instance \in Instances \cup {0} /\ odom_epoch \in Nat /\ start \in Nat
    BY <1>1, StartFacts, Zenon
  <2>5. changed => s.instance # 0
    BY Zenon
  <2>6. changed => instance >= source.instance /\ start = Source!StartOf(instance)
    <3>1. s.instance \in Nat /\ source.instance \in Nat
      BY <1>1, InstanceType
    <3>2. changed => instance = s.instance /\ start = Source!StartOf(s.instance)
      BY Zenon
    <3>3. changed => s.instance >= source.instance
      BY <1>3, <2>5, <3>1, SMT
    <3> QED
      BY <3>2, <3>3, Zenon
  <2>7. ~changed => instance = source.instance /\ start = source.start
    BY Zenon
  <2> HIDE DEF valid, changed, revision, instance, odom_epoch, start
  <2>8. n \in Sources
    BY <2>2, <2>3, <2>4, Zenon DEF Sources
  <2>9. n.instance = instance /\ n.start = start
    BY Zenon DEF Sources
  <2> HIDE DEF n
  <2>10. g.changed = changed /\ g.source = n
    BY <2>1
  <2> QED
    BY <2>6, <2>7, <2>8, <2>9, <2>10, Zenon
<1> QED
  BY <1>2, <1>3, Zenon

(* A source that keeps its process: its other fields may change.           *)
LEMMA FreshSource ==
    ASSUME NEW s \in Sources, NEW stamp \in Nat, NEW b \in BOOLEAN
    PROVE  /\ [s EXCEPT !.signal = stamp, !.lapsed = FALSE] \in Sources
           /\ [s EXCEPT !.signal = stamp, !.lapsed = FALSE].instance = s.instance
           /\ [s EXCEPT !.signal = stamp, !.lapsed = FALSE].start = s.start
           /\ [s EXCEPT !.has_map_data = FALSE, !.map_update_stale = TRUE,
                        !.odom_stale = TRUE] \in Sources
           /\ [s EXCEPT !.has_map_data = FALSE, !.map_update_stale = TRUE,
                        !.odom_stale = TRUE].instance = s.instance
           /\ [s EXCEPT !.has_map_data = FALSE, !.map_update_stale = TRUE,
                        !.odom_stale = TRUE].start = s.start
           /\ [s EXCEPT !.has_map_data = TRUE, !.map_update_stale = FALSE] \in Sources
           /\ [s EXCEPT !.has_map_data = TRUE, !.map_update_stale = FALSE].instance
                  = s.instance
           /\ [s EXCEPT !.has_map_data = TRUE, !.map_update_stale = FALSE].start
                  = s.start
<1>1. /\ [s EXCEPT !.signal = stamp, !.lapsed = FALSE] \in Sources
      /\ [s EXCEPT !.has_map_data = FALSE, !.map_update_stale = TRUE,
                   !.odom_stale = TRUE] \in Sources
      /\ [s EXCEPT !.has_map_data = TRUE, !.map_update_stale = FALSE] \in Sources
  BY Zenon DEF Sources
<1> QED
  BY <1>1, SMT DEF Sources

LEMMA LapsedSource ==
    ASSUME NEW s \in Sources, NEW b \in BOOLEAN
    PROVE  /\ [s EXCEPT !.lapsed = b] \in Sources
           /\ [s EXCEPT !.lapsed = b].instance = s.instance
           /\ [s EXCEPT !.lapsed = b].start = s.start
           /\ [s EXCEPT !.map_update_stale = b] \in Sources
           /\ [s EXCEPT !.map_update_stale = b].instance = s.instance
           /\ [s EXCEPT !.map_update_stale = b].start = s.start
           /\ [s EXCEPT !.odom_stale = b] \in Sources
           /\ [s EXCEPT !.odom_stale = b].instance = s.instance
           /\ [s EXCEPT !.odom_stale = b].start = s.start
<1>1. /\ [s EXCEPT !.lapsed = b] \in Sources
      /\ [s EXCEPT !.map_update_stale = b] \in Sources
      /\ [s EXCEPT !.odom_stale = b] \in Sources
  BY Zenon DEF Sources
<1> QED
  BY <1>1, SMT DEF Sources

-----------------------------------------------------------------------------
(* The steps.                                                              *)

(* What the map node itself keeps, whatever the callback holds.            *)
SourceInv ==
    /\ source \in Sources /\ cloud \in Clouds /\ Sound(map) /\ layer \in Processes
    /\ source.start = Source!StartOf(source.instance)
    /\ cloud.at # "NONE" => cloud.stamp \in Source!Stamps
    /\ Since(map, source.instance)
    /\ \A i \in layer : i >= source.instance

(* A step that keeps the map, and the process it is made of.               *)
LEMMA SameMapKeeps ==
    ASSUME SourceInv,
           source' \in Sources, source'.instance = source.instance,
           source'.start = source.start,
           cloud' \in Clouds, cloud'.at # "NONE" => cloud'.stamp \in Source!Stamps,
           Sound(map'), map'.voxels = map.voxels, map'.batch = map.batch,
           layer' = layer
    PROVE  SourceInv'
<1>1. Since(map', source'.instance)
  BY Zenon DEF SourceInv, Since
<1>2. source'.start = Source!StartOf(source'.instance)
  BY Zenon DEF SourceInv
<1> QED
  BY <1>1, <1>2, Zenon DEF SourceInv

(* A change of the process empties the map, so nothing of an older one is  *)
(* left; without a change the process stays.                               *)
LEMMA StatusKeeps ==
    ASSUME SourceInv, NEW s \in Statuses, NEW stamp \in Nat,
           Source!OnLocalizationStatus(s, stamp)
    PROVE  SourceInv'
<1> DEFINE g == Source!Guarded(s)
           signalled == [g.source EXCEPT !.signal = stamp, !.lapsed = FALSE]
<1>1. /\ g.source \in Sources
      /\ g.changed => /\ g.source.instance >= source.instance
                      /\ g.source.start = Source!StartOf(g.source.instance)
      /\ ~g.changed => /\ g.source.instance = source.instance
                       /\ g.source.start = source.start
  BY GuardedFacts, Zenon DEF SourceInv
<1>2. \/ UNCHANGED <<source, cloud, map, layer>>
      \/ /\ ~g.changed /\ source' = signalled /\ UNCHANGED <<cloud, map, layer>>
      \/ /\ g.changed
         /\ source' = [signalled EXCEPT !.has_map_data = FALSE,
                                        !.map_update_stale = TRUE, !.odom_stale = TRUE]
         /\ map' = Source!Reset(map) /\ layer' = {} /\ cloud' = cloud
  BY Zenon DEF Source!OnLocalizationStatus, Source!sourceVars
<1> HIDE DEF g
<1>3. /\ signalled \in Sources /\ signalled.instance = g.source.instance
      /\ signalled.start = g.source.start
  BY <1>1, FreshSource
<1> HIDE DEF signalled
<1>4. CASE UNCHANGED <<source, cloud, map, layer>>
  BY <1>4, SameMapKeeps, Zenon DEF SourceInv
<1>5. CASE ~g.changed /\ source' = signalled /\ UNCHANGED <<cloud, map, layer>>
  BY <1>1, <1>3, <1>5, SameMapKeeps, Zenon DEF SourceInv
<1>6. CASE /\ g.changed
           /\ source' = [signalled EXCEPT !.has_map_data = FALSE,
                                          !.map_update_stale = TRUE, !.odom_stale = TRUE]
           /\ map' = Source!Reset(map) /\ layer' = {} /\ cloud' = cloud
  <2>1. /\ source' \in Sources /\ source'.instance = signalled.instance
        /\ source'.start = signalled.start
    BY <1>3, <1>6, FreshSource
  <2>2. source'.start = Source!StartOf(source'.instance)
    BY <1>1, <1>3, <1>6, <2>1, Zenon
  <2>3. Sound(map') /\ map'.voxels = {} /\ map'.batch = {}
    BY <1>6, ResetSound, Zenon DEF SourceInv
  <2>4. Since(map', source'.instance)
    BY <2>3, Zenon DEF Since
  <2>5. layer' \in Processes
    BY <1>6, Zenon DEF Processes
  <2>6. \A i \in layer' : i >= source'.instance
    BY <1>6, Zenon
  <2> QED
    BY <1>6, <2>1, <2>2, <2>3, <2>4, <2>5, <2>6, Zenon DEF SourceInv
<1> QED
  BY <1>2, <1>4, <1>5, <1>6

LEMMA NoCloudType == Source!NoCloud \in Clouds /\ Source!NoCloud.at = "NONE"
  BY SMT DEF Source!NoCloud, Clouds

LEMMA DeferCloudKeeps ==
    ASSUME SourceInv, NEW stamp \in Source!Stamps, Source!DeferCloud(stamp)
    PROVE  SourceInv'
<1>1. /\ cloud' = [at |-> "PENDING", stamp |-> stamp, revision |-> 0]
      /\ UNCHANGED <<source, map, layer>>
  BY Zenon DEF Source!DeferCloud
<1>2. cloud' \in Clouds /\ cloud'.stamp = stamp
  BY <1>1, SMT DEF Clouds
<1> QED
  BY <1>1, <1>2, SameMapKeeps, Zenon DEF SourceInv

LEMMA CloudKeeps ==
    ASSUME SourceInv,
           Source!ExpireCloud \/ Source!RejectCloud \/ Source!DiscardCloud
               \/ Source!AdmitCloud
    PROVE  SourceInv'
<1>1. CASE Source!ExpireCloud \/ Source!RejectCloud \/ Source!DiscardCloud
  <2>1. cloud' = Source!NoCloud /\ UNCHANGED <<source, map, layer>>
    BY <1>1, Zenon DEF Source!ExpireCloud, Source!RejectCloud, Source!DiscardCloud
  <2> QED
    BY <2>1, NoCloudType, SameMapKeeps, Zenon DEF SourceInv
<1>2. CASE Source!AdmitCloud
  <2> DEFINE c == [cloud EXCEPT !.at = "DECODING", !.revision = source.revision]
  <2>1. /\ cloud.at = "PENDING"
        /\ cloud' = c \/ cloud' = Source!NoCloud
        /\ UNCHANGED <<source, map, layer>>
    BY <1>2, Zenon DEF Source!AdmitCloud
  <2>2. cloud.stamp \in Source!Stamps
    <3>1. cloud.at # "NONE"
      BY <2>1
    <3> QED
      BY <3>1, Zenon DEF SourceInv
  <2>3. source.revision \in Nat
    BY SourceFields DEF SourceInv
  <2>4. c \in Clouds
    BY <2>3, Zenon DEF SourceInv, Clouds
  <2>5. c.stamp = cloud.stamp
    BY Zenon DEF SourceInv, Clouds
  <2> HIDE DEF c
  <2> QED
    BY <2>1, <2>2, <2>4, <2>5, NoCloudType, SameMapKeeps, Zenon DEF SourceInv
<1> QED
  BY <1>1, <1>2

(* What a commit integrates has passed the floor at the last moment.       *)
LEMMA CommitCloudKeeps ==
    ASSUME SourceInv, Source!CommitCloud
    PROVE  SourceInv'
<1> DEFINE p == Source!ProcessOf(cloud.stamp)
<1>1. /\ cloud.at = "DECODING" /\ Source!StillCurrent /\ cloud' = Source!NoCloud
      /\ \/ UNCHANGED <<source, map, layer>>
         \/ \E kept \in SUBSET map.voxels : Source!Commit(Source!Slid(map, kept))
         \/ \E kept \in SUBSET map.voxels : Source!Commit(Source!Cast(map, kept, p))
  BY Zenon DEF Source!CommitCloud
<1>2. cloud.stamp \in Source!Stamps
  BY <1>1, SMT DEF SourceInv
<1>3. p \in Instances /\ p >= source.instance
  <2>1. cloud.stamp >= Source!StartOf(source.instance)
    BY <1>1, Zenon DEF SourceInv, Source!StillCurrent, Source!Accepts
  <2>2. source.instance \in Instances \cup {0}
    BY SourceFields DEF SourceInv
  <2> QED
    BY <1>2, <2>1, <2>2, StampFacts
<1> HIDE DEF p
<1>4. CASE UNCHANGED <<source, map, layer>>
  BY <1>1, <1>4, NoCloudType, SameMapKeeps, Zenon DEF SourceInv
<1>5. ASSUME NEW n, Sound(n), n.voxels \cup n.batch \subseteq map.voxels \cup map.batch \cup {p},
             Source!Commit(n)
      PROVE  SourceInv'
  <2>1. /\ map' = n /\ layer' = layer \cup {p}
        /\ source' = [source EXCEPT !.has_map_data = TRUE, !.map_update_stale = FALSE]
    BY <1>5, Zenon DEF Source!Commit, p
  <2>2. /\ source' \in Sources /\ source'.instance = source.instance
        /\ source'.start = source.start
    BY <2>1, FreshSource, Zenon DEF SourceInv
  <2>3. Since(map', source'.instance)
    BY <1>3, <1>5, <2>1, <2>2, Zenon DEF SourceInv, Since
  <2>4. layer' \in Processes /\ \A i \in layer' : i >= source'.instance
    BY <1>3, <2>1, <2>2, Zenon DEF SourceInv, Processes
  <2>5. source'.start = Source!StartOf(source'.instance)
    BY <2>2, Zenon DEF SourceInv
  <2> QED
    BY <1>1, <1>5, <2>1, <2>2, <2>3, <2>4, <2>5, NoCloudType, Zenon DEF SourceInv
<1>6. ASSUME NEW kept \in SUBSET map.voxels, Source!Commit(Source!Slid(map, kept))
      PROVE  SourceInv'
  <2> DEFINE n == Source!Slid(map, kept)
  <2>1. Sound(n) /\ n.voxels = kept /\ n.batch = map.batch
    BY SlidSound, Zenon DEF SourceInv
  <2>2. Source!Commit(n)
    BY <1>6
  <2> HIDE DEF n
  <2> QED
    BY <1>5, <2>1, <2>2, Zenon
<1>7. ASSUME NEW kept \in SUBSET map.voxels, Source!Commit(Source!Cast(map, kept, p))
      PROVE  SourceInv'
  <2> DEFINE n == Source!Cast(map, kept, p)
  <2>1. /\ Sound(n) /\ n.voxels \subseteq map.voxels \cup map.batch \cup {p}
        /\ n.batch \subseteq map.batch \cup {p}
    BY <1>3, CastSound, Zenon DEF SourceInv
  <2>2. Source!Commit(n)
    BY <1>7
  <2> HIDE DEF n
  <2>3. n.voxels \cup n.batch \subseteq map.voxels \cup map.batch \cup {p}
    BY <2>1, Zenon
  <2> QED
    BY <1>5, <2>1, <2>2, <2>3, Zenon
<1> QED
  BY <1>1, <1>4, <1>6, <1>7

LEMMA ProjectionKeeps ==
    ASSUME SourceInv, map' = Source!WithCurrentEsdf(map), UNCHANGED <<source, cloud, layer>>
    PROVE  SourceInv'
<1>1. Sound(map') /\ map'.voxels = map.voxels /\ map'.batch = map.batch
  BY CurrentEsdfSound, Zenon DEF SourceInv
<1> QED
  BY <1>1, SameMapKeeps, Zenon DEF SourceInv

LEMMA ClocksKeep ==
    ASSUME SourceInv,
           \/ Source!IdentityLapses \/ Source!UpdateLapses \/ Source!OdometryLapses
           \/ \E stamp \in Source!Stamps : Source!OdometryArrives(stamp)
    PROVE  SourceInv'
<1>1. /\ UNCHANGED <<cloud, map, layer>>
      /\ \/ source' = [source EXCEPT !.lapsed = TRUE]
         \/ source' = [source EXCEPT !.map_update_stale = TRUE]
         \/ source' = [source EXCEPT !.odom_stale = TRUE]
         \/ source' = [source EXCEPT !.odom_stale = FALSE]
  BY Zenon DEF Source!IdentityLapses, Source!UpdateLapses, Source!OdometryLapses,
               Source!OdometryArrives
<1>2. /\ source' \in Sources /\ source'.instance = source.instance
      /\ source'.start = source.start
  BY <1>1, LapsedSource, Zenon DEF SourceInv
<1> QED
  BY <1>1, <1>2, SameMapKeeps, Zenon DEF SourceInv

LEMMA StepKeeps == SourceInv /\ Source!Step => SourceInv'
<1> SUFFICES ASSUME SourceInv, Source!Step PROVE SourceInv'
  OBVIOUS
<1>1. \/ \E stamp \in Source!Stamps :
             Source!OdometryArrives(stamp) \/ Source!DeferCloud(stamp)
      \/ Source!ExpireCloud \/ Source!AdmitCloud \/ Source!RejectCloud
      \/ Source!DiscardCloud \/ Source!CommitCloud
      \/ Source!ShowEsdf
      \/ Source!IdentityLapses \/ Source!UpdateLapses \/ Source!OdometryLapses
  BY Zenon DEF Source!Step
<1>2. Source!ShowEsdf => SourceInv'
  BY ProjectionKeeps, Zenon DEF Source!ShowEsdf
<1> QED
  BY <1>1, <1>2, DeferCloudKeeps, CloudKeeps, CommitCloudKeeps, ClocksKeep, Zenon

-----------------------------------------------------------------------------
(* The invariant.                                                          *)

LEMMA InitSound == SystemInit => IInv
<1> SUFFICES ASSUME SystemInit PROVE IInv
  OBVIOUS
<1>1. status = NoStatus /\ status_stamp = 0 /\ heard = Nothing
  BY Zenon DEF SystemInit, Init
<1>2. /\ source = Source!InitialSource /\ cloud = Source!NoCloud
      /\ map = Source!EmptyMap /\ layer = {}
  BY Zenon DEF SystemInit, Source!Init
<1>3. /\ source \in Sources /\ source.instance = 0 /\ source.start = 0
  BY <1>2, SMT DEF Source!InitialSource, Sources
<1>4. source.start = Source!StartOf(source.instance)
  BY <1>3, SMT DEF Source!StartOf
<1>5. Sound(map) /\ map.voxels = {} /\ map.batch = {}
  BY <1>2, EmptyMapSound, Zenon
<1>6. Since(map, source.instance)
  BY <1>5, Zenon DEF Since
<1>7. cloud \in Clouds /\ cloud.at = "NONE"
  BY <1>2, NoCloudType, Zenon
<1>8. layer \in Processes /\ \A i \in layer : i >= source.instance
  BY <1>2, Zenon DEF Processes
<1>9. status \in Statuses /\ status_stamp \in Nat /\ heard \in [status : Statuses, stamp : Nat]
  BY <1>1, NoStatusType, SMT
<1> QED
  BY <1>3, <1>4, <1>5, <1>6, <1>7, <1>8, <1>9, Zenon DEF IInv

LEMMA Parts ==
    IInv <=> /\ SourceInv
             /\ status \in Statuses /\ status_stamp \in Nat
             /\ heard \in [status : Statuses, stamp : Nat]
  BY Zenon DEF IInv, SourceInv

LEMMA Inductive == IInv /\ [SystemNext]_vars => IInv'
<1> SUFFICES ASSUME IInv, [SystemNext]_vars PROVE IInv'
  OBVIOUS
<1>1. /\ SourceInv /\ status \in Statuses /\ status_stamp \in Nat
      /\ heard \in [status : Statuses, stamp : Nat]
  BY Parts
<1>2. SUFFICES /\ SourceInv'
               /\ status' \in Statuses /\ status_stamp' \in Nat
               /\ heard' \in [status : Statuses, stamp : Nat]
  BY Zenon DEF IInv, SourceInv
<1>3. ASSUME UNCHANGED <<source, cloud, map, layer>>
      PROVE  SourceInv'
  BY <1>1, <1>3, SameMapKeeps, Zenon DEF SourceInv
<1>4. CASE Localize
  <2>1. /\ status_stamp' = status_stamp + 1
        /\ status' \in StatusesIn(Shown, 0..Cardinality(Instances))
        /\ UNCHANGED <<source, cloud, map, layer, heard>>
    BY <1>4, Zenon DEF Localize
  <2>2. status' \in Statuses /\ status_stamp' \in Nat
    BY <1>1, <2>1, ShownTypes, SMT
  <2> QED
    BY <1>1, <1>3, <2>1, <2>2, Zenon
<1>5. CASE TakeStatus
  <2>1. /\ heard' = [status |-> status, stamp |-> status_stamp]
        /\ status' = status /\ status_stamp' = status_stamp
        /\ UNCHANGED <<source, cloud, map, layer>>
    BY <1>5, Zenon DEF TakeStatus, streamVars
  <2> QED
    BY <1>1, <1>3, <2>1, Zenon
<1>6. CASE HandleStatus
  <2>1. /\ Source!OnLocalizationStatus(heard.status, heard.stamp) /\ heard' = Nothing
        /\ status' = status /\ status_stamp' = status_stamp
    BY <1>6, Zenon DEF HandleStatus, streamVars
  <2>2. heard.status \in Statuses /\ heard.stamp \in Nat
    BY <1>1
  <2> QED
    BY <1>1, <2>1, <2>2, StatusKeeps, NoStatusType, Zenon
<1>7. CASE (\E job \in Odometries : Source!Project(job)) /\ Go
  <2>1. /\ map' = Source!WithCurrentEsdf(map) /\ UNCHANGED <<source, cloud, layer>>
        /\ status' = status /\ status_stamp' = status_stamp /\ heard' = heard
    BY <1>7, Zenon DEF Source!Project, Go, streamVars
  <2> QED
    BY <1>1, <2>1, ProjectionKeeps, Zenon
<1>8. CASE Source!Step /\ Go
  <2>1. status' = status /\ status_stamp' = status_stamp /\ heard' = heard
    BY <1>8, Zenon DEF Go, streamVars
  <2> QED
    BY <1>1, <1>8, <2>1, StepKeeps, Zenon
<1>9. CASE UNCHANGED vars
  <2>1. /\ status' = status /\ status_stamp' = status_stamp /\ heard' = heard
        /\ UNCHANGED <<source, cloud, map, layer>>
    BY <1>9, Zenon DEF vars, streamVars
  <2> QED
    BY <1>1, <1>3, <2>1, Zenon
<1> QED
  BY <1>4, <1>5, <1>6, <1>7, <1>8, <1>9, Zenon DEF SystemNext

(* The ROG map is well typed, an open batch is never full, and it is empty *)
(* exactly when no frame has been counted.                                 *)
THEOREM TypeCorrect == SystemSpec => []TypeOK
<1>1. IInv => TypeOK
  BY Zenon DEF IInv, TypeOK, Sources, Clouds, Maps, Sound
<1> QED
  BY <1>1, InitSound, Inductive, PTL DEF SystemSpec

(* After the change to a process nothing of an older one is in the voxels, *)
(* in the rays still to be integrated or in the layer, and nothing of it   *)
(* comes back, for every batch size, number of processes and order of      *)
(* statuses, scans and decoding.                                           *)
THEOREM NoOlder == SystemSpec => []NoOlderProcess
<1>1. IInv => NoOlderProcess
  BY Zenon DEF IInv, NoOlderProcess, Since
<1> QED
  BY <1>1, InitSound, Inductive, PTL DEF SystemSpec

(* Distances that pass for current are those of the voxels, for every      *)
(* batch size and interval of the distance field.                          *)
THEOREM DistancesCurrent == SystemSpec => []DistancesOfTheseVoxels
<1>1. IInv => DistancesOfTheseVoxels
  BY Zenon DEF IInv, DistancesOfTheseVoxels, Sound
<1> QED
  BY <1>1, InitSound, Inductive, PTL DEF SystemSpec

Frozen ==
    ~source.valid => map'.voxels \subseteq map.voxels
                     /\ map'.batch \subseteq map.batch /\ layer' \subseteq layer

LEMMA StepFreezes == IInv /\ [SystemNext]_vars => Frozen
<1> SUFFICES ASSUME IInv, [SystemNext]_vars, ~source.valid PROVE Frozen
  BY Zenon DEF Frozen
<1>1. Sound(map)
  BY Zenon DEF IInv
<1>2. ASSUME map' = map, layer' = layer PROVE Frozen
  BY <1>2, Zenon DEF Frozen
<1>3. ASSUME map' = Source!WithCurrentEsdf(map), layer' = layer PROVE Frozen
  BY <1>1, <1>3, CurrentEsdfSound, Zenon DEF Frozen
<1>4. CASE Localize \/ TakeStatus \/ UNCHANGED vars
  BY <1>2, <1>4, Zenon DEF Localize, TakeStatus, vars
<1>5. CASE HandleStatus
  <2>1. \/ map' = map /\ layer' = layer
        \/ map' = Source!Reset(map) /\ layer' = {}
    BY <1>5, Zenon DEF HandleStatus, Source!OnLocalizationStatus, Source!sourceVars
  <2>2. map' = Source!Reset(map) /\ layer' = {} => Frozen
    BY <1>1, ResetSound, Zenon DEF Frozen
  <2> QED
    BY <1>2, <2>1, <2>2
<1>6. CASE (\E job \in Odometries : Source!Project(job)) /\ Go
  BY <1>3, <1>6, Zenon DEF Source!Project
<1>7. CASE Source!Step /\ Go
  <2>1. ~Source!CommitCloud
    BY Zenon DEF Source!CommitCloud, Source!StillCurrent, Source!Accepts
  <2>2. \/ map' = map /\ layer' = layer
        \/ map' = Source!WithCurrentEsdf(map) /\ layer' = layer
    BY <1>7, <2>1, Zenon DEF Source!Step, Source!OdometryArrives, Source!DeferCloud,
       Source!ExpireCloud, Source!AdmitCloud, Source!RejectCloud, Source!DiscardCloud,
       Source!ShowEsdf, Source!IdentityLapses, Source!UpdateLapses, Source!OdometryLapses
  <2> QED
    BY <1>2, <1>3, <2>2
<1> QED
  BY <1>4, <1>5, <1>6, <1>7, Zenon DEF SystemNext

(* While the identity of the odometry is revoked the map takes nothing in, *)
(* whatever scan was admitted before and whenever its decoding ends.       *)
THEOREM RevokedFreezes == SystemSpec => RevokedIdentityFreezesTheMap
<1>1. IInv /\ [SystemNext]_vars =>
          [~source.valid => map'.voxels \subseteq map.voxels
                            /\ map'.batch \subseteq map.batch /\ layer' \subseteq layer]_vars
  BY StepFreezes, Zenon DEF Frozen
<1> QED
  BY <1>1, InitSound, Inductive, PTL DEF SystemSpec, RevokedIdentityFreezesTheMap

=============================================================================
