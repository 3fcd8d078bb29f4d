---------------------- MODULE LocalizationFusionProofs ----------------------
(* Proofs about the localization fusion node, for every value of the      *)
(* constants.                                                              *)
EXTENDS LocalizationFusion, TLAPS

-----------------------------------------------------------------------------
(* What the members satisfy, also between the calls of one callback.  The  *)
(* weaker half is all that a loss relies on.                               *)

Loosely(f) ==
    /\ f \in Fusions
    /\ f.floor <= time
    /\ f.tracker.instance = 0 => f.odom = "NONE" /\ ~f.has_accepted_observation
    /\ f.lost_latched => f.state = "LOST" \/ f.recovery # "NONE"

Soundly(f) ==
    /\ Loosely(f)
    /\ f.odom = "NONE" => f.state \in {"UNINITIALIZED", "LOST"} /\ f.recovery = "NONE"
    /\ f.lost_latched => f.state \in {"LOST", "RELOCALIZING"}
    /\ f.state = "LOST" => f.lost_latched /\ f.recovery = "NONE"
    /\ f.state = "RELOCALIZING" => f.recovery # "NONE"
    /\ f.state \in {"TRACKING", "CONFIRMED"} => f.has_accepted_observation
    /\ ~f.has_map_to_odom => f.lost_latched
    /\ f.tracker.latched => f.state = "LOST"

(* What the health of the node never takes back within a callback.         *)
Evolves(f, g) ==
    /\ g.tracker = f.tracker /\ g.epoch = f.epoch /\ g.odom = f.odom
    /\ g.has_map_to_odom = f.has_map_to_odom
    /\ g.has_accepted_observation = f.has_accepted_observation
    /\ g.floor \in {f.floor, time}
    /\ g.state = "LOST" => f.state = "LOST" \/ g.floor = time
    /\ f.state = "LOST" => g.state = "LOST"
    /\ f.lost_latched => g.lost_latched
    /\ f.recovery_episode_closed => g.recovery_episode_closed
    /\ g.recovery \in {f.recovery, "NONE"}
    /\ g.recovery = f.recovery \/ g.recovery_episode_closed

LEMMA EvolvesOn ==
    ASSUME NEW f, NEW g, NEW h, Evolves(f, g), Evolves(g, h)
    PROVE  Evolves(f, h)
BY DEF Evolves

LEMMA FusionFields ==
    ASSUME NEW f \in Fusions
    PROVE  /\ f.tracker \in Trackers /\ f.floor \in 0..MaxTime
           /\ f.epoch \in 1..MaxEpochs /\ f.rejections \in 0..MaxRejections
           /\ f.hold \in {"NONE", "RUNNING", "OVER"}
           /\ f.recovery \in {"NONE", "RUNNING", "OVER"}
           /\ f.recovery_episode_closed \in BOOLEAN
           /\ f.lost_latched \in BOOLEAN /\ f.state \in Stream!States
           /\ f.odom \in {"NONE", "FRESH", "SILENT"}
BY DEF Fusions

LEMMA StateNames ==
    /\ {"UNINITIALIZED", "BOOTSTRAP", "RELOCALIZING", "CONFIRMED", "TRACKING",
        "DEGRADED", "LOST"} = Stream!States
BY DEF Stream!States

-----------------------------------------------------------------------------
(* The calls of a callback.                                                *)

LEMMA EnterLostFacts ==
    ASSUME time \in 1..MaxTime, NEW f, Loosely(f)
    PROVE  /\ Soundly(EnterLost(f)) /\ Evolves(f, EnterLost(f))
           /\ EnterLost(f).state = "LOST"
<1> DEFINE closed == f.recovery_episode_closed \/ f.recovery # "NONE"
           floor == IF f.lost_latched /\ f.recovery = "NONE" THEN f.floor ELSE time
           g == [f EXCEPT !.recovery_episode_closed = closed, !.floor = floor,
                          !.lost_latched = TRUE, !.recovery = "NONE",
                          !.hold = "NONE", !.state = "LOST"]
<1>1. f \in Fusions
  BY DEF Loosely
<1>2. closed \in BOOLEAN /\ floor \in 0..MaxTime
  BY <1>1, FusionFields, FusionAssumption
<1>3. g \in Fusions
  <2> HIDE DEF closed, floor
  <2> QED BY <1>1, <1>2, StateNames, Zenon DEF Fusions
<1>4. EnterLost(f) = g
  BY DEF EnterLost
<1>5. /\ g.tracker = f.tracker /\ g.epoch = f.epoch /\ g.odom = f.odom
      /\ g.has_map_to_odom = f.has_map_to_odom
      /\ g.has_accepted_observation = f.has_accepted_observation
      /\ g.floor = floor /\ g.state = "LOST" /\ g.lost_latched = TRUE
      /\ g.recovery = "NONE" /\ g.recovery_episode_closed = closed
  BY <1>1, SMT DEF Fusions
<1> HIDE DEF g
<1>6. Evolves(f, g)
  BY <1>1, <1>5 DEF Evolves, Loosely
<1>7. floor <= time
  BY <1>1 DEF Loosely
<1>8. Soundly(g)
  BY <1>3, <1>5, <1>7 DEF Soundly, Loosely
<1> QED BY <1>4, <1>5, <1>6, <1>8

LEMMA HealthFacts ==
    ASSUME time \in 1..MaxTime, NEW f, Soundly(f)
    PROVE  Soundly(Health(f)) /\ Evolves(f, Health(f))
<1> DEFINE state == StateOf(f)
           hold == IF state \in {"DEGRADED", "TRACKING"} THEN "NONE" ELSE f.hold
           g == [f EXCEPT !.state = state, !.hold = hold]
<1>1. f \in Fusions /\ Loosely(f)
  BY DEF Soundly, Loosely
<1>2. CASE Lapsed(f)
  BY <1>1, <1>2, EnterLostFacts DEF Health
<1>3. CASE ~Lapsed(f)
  <2>1. Health(f) = g
    BY <1>3 DEF Health
  <2>2. state \in Stream!States /\ hold \in {"NONE", "RUNNING", "OVER"}
    BY <1>1, FusionFields, StateNames DEF StateOf
  <2>3. g \in Fusions
    <3> HIDE DEF state, hold
    <3> QED BY <1>1, <2>2, Zenon DEF Fusions
  <2>4. /\ g.tracker = f.tracker /\ g.epoch = f.epoch /\ g.odom = f.odom
        /\ g.has_map_to_odom = f.has_map_to_odom
        /\ g.has_accepted_observation = f.has_accepted_observation
        /\ g.floor = f.floor /\ g.state = state /\ g.lost_latched = f.lost_latched
        /\ g.recovery = f.recovery
        /\ g.recovery_episode_closed = f.recovery_episode_closed
    <3> HIDE DEF state, hold
    <3> QED BY <1>1, SMT DEF Fusions
  <2>5. /\ f.lost_latched => state \in {"LOST", "RELOCALIZING"}
        /\ f.odom = "NONE" => state \in {"UNINITIALIZED", "LOST"}
        /\ state = "LOST" => f.lost_latched /\ f.recovery = "NONE"
        /\ state = "LOST" => f.state = "LOST" \/ (f.lost_latched /\ f.recovery = "NONE")
        /\ f.state = "LOST" => state = "LOST"
        /\ state = "RELOCALIZING" => f.recovery # "NONE"
        /\ state \in {"TRACKING", "CONFIRMED"} => f.has_accepted_observation
    BY DEF StateOf, Soundly
  <2> HIDE DEF state, g
  <2>6. Soundly(g)
    BY <2>3, <2>4, <2>5 DEF Soundly, Loosely
  <2>7. Evolves(f, g)
    BY <2>4, <2>5 DEF Evolves, Soundly, Loosely
  <2> QED BY <2>1, <2>6, <2>7
<1> QED BY <1>2, <1>3

LEMMA RejectedFacts ==
    ASSUME time \in 1..MaxTime, NEW f, Soundly(f)
    PROVE  Soundly(Rejected(f)) /\ Evolves(f, Rejected(f))
<1> DEFINE n == IF f.rejections < MaxRejections THEN f.rejections + 1 ELSE f.rejections
           g == [f EXCEPT !.rejections = n]
<1>1. f \in Fusions
  BY DEF Soundly, Loosely
<1>2. n \in 0..MaxRejections
  BY <1>1, FusionFields, FusionAssumption
<1>3. g \in Fusions
  <2> HIDE DEF n
  <2> QED BY <1>1, <1>2, Zenon DEF Fusions
<1>4. /\ g.tracker = f.tracker /\ g.epoch = f.epoch /\ g.odom = f.odom
      /\ g.has_map_to_odom = f.has_map_to_odom
      /\ g.has_accepted_observation = f.has_accepted_observation
      /\ g.floor = f.floor /\ g.state = f.state /\ g.lost_latched = f.lost_latched
      /\ g.recovery = f.recovery
      /\ g.recovery_episode_closed = f.recovery_episode_closed
  BY <1>1, SMT DEF Fusions
<1>5. Rejected(f) = IF f.recovery # "NONE" THEN EnterLost(g) ELSE Health(g)
  BY DEF Rejected
<1> HIDE DEF g
<1>6. Soundly(g) /\ Loosely(g) /\ Evolves(f, g)
  BY <1>3, <1>4 DEF Soundly, Loosely, Evolves
<1>7. /\ Soundly(EnterLost(g)) /\ Evolves(g, EnterLost(g))
      /\ Soundly(Health(g)) /\ Evolves(g, Health(g))
  BY <1>6, EnterLostFacts, HealthFacts
<1>8. Evolves(f, EnterLost(g)) /\ Evolves(f, Health(g))
  BY <1>6, <1>7, EvolvesOn
<1> QED BY <1>5, <1>7, <1>8

LEMMA DoubtedFacts ==
    ASSUME NEW f, Soundly(f), f.odom # "NONE"
    PROVE  Soundly(Doubted(f)) /\ Evolves(f, Doubted(f))
<1> DEFINE g == [f EXCEPT !.state = "DEGRADED", !.hold = "NONE"]
<1>1. f \in Fusions
  BY DEF Soundly, Loosely
<1>2. CASE f.lost_latched
  BY <1>1, <1>2 DEF Doubted, Evolves
<1>3. CASE ~f.lost_latched
  <2>1. Doubted(f) = g
    BY <1>3 DEF Doubted
  <2>2. g \in Fusions
    BY <1>1, StateNames, Zenon DEF Fusions
  <2>3. /\ g.tracker = f.tracker /\ g.epoch = f.epoch /\ g.odom = f.odom
        /\ g.has_map_to_odom = f.has_map_to_odom
        /\ g.has_accepted_observation = f.has_accepted_observation
        /\ g.floor = f.floor /\ g.state = "DEGRADED" /\ g.lost_latched = f.lost_latched
        /\ g.recovery = f.recovery
        /\ g.recovery_episode_closed = f.recovery_episode_closed
    BY <1>1, SMT DEF Fusions
  <2> HIDE DEF g
  <2>4. Soundly(g) /\ Evolves(f, g)
    BY <1>3, <2>2, <2>3 DEF Soundly, Loosely, Evolves
  <2> QED BY <2>1, <2>4
<1> QED BY <1>2, <1>3

-----------------------------------------------------------------------------
(* What a whole callback that accepts no observation makes of the members. *)

SameIdentity(f, g) ==
    /\ g.tracker.instance = f.tracker.instance
    /\ g.tracker.epoch = f.tracker.epoch
    /\ g.tracker.latched = f.tracker.latched

NewIdentity(f, g) ==
    /\ g.tracker.instance > f.tracker.instance
    /\ g.tracker.epoch = f.tracker.epoch + 1
    /\ ~f.tracker.latched
    /\ f.tracker.instance # 0 => g.state = "LOST" /\ g.epoch > f.epoch

Conflict(f, g) ==
    /\ g.tracker.instance = f.tracker.instance
    /\ g.tracker.epoch = f.tracker.epoch
    /\ g.tracker.latched

Lineage(f, g) ==
    /\ SameIdentity(f, g) \/ NewIdentity(f, g) \/ Conflict(f, g)
    /\ g.epoch >= f.epoch
    /\ g.floor \in {f.floor, time}
    /\ g.state = "LOST" => f.state = "LOST" \/ g.floor = time
    /\ f.lost_latched => g.lost_latched
    /\ ~g.lost_latched =>
           /\ g.has_accepted_observation = f.has_accepted_observation
           /\ f.has_accepted_observation =>
                  g.tracker.instance = f.tracker.instance
    /\ f.recovery_episode_closed => g.recovery_episode_closed
    /\ f.recovery # "NONE" /\ g.recovery = "NONE" => g.recovery_episode_closed
    /\ f.recovery_episode_closed /\ f.recovery = "NONE" => g.recovery = "NONE"

LEMMA LineageOn ==
    ASSUME NEW f, NEW g, NEW h, Lineage(f, g), Evolves(g, h)
    PROVE  Lineage(f, h)
<1>1. /\ h.tracker = g.tracker /\ h.epoch = g.epoch
      /\ g.state = "LOST" => h.state = "LOST"
  BY DEF Evolves
<1>2. SameIdentity(f, h) \/ NewIdentity(f, h) \/ Conflict(f, h)
  BY <1>1 DEF Lineage, SameIdentity, NewIdentity, Conflict
<1> QED BY <1>1, <1>2 DEF Lineage, Evolves

LEMMA EvolvesIsLineage ==
    ASSUME NEW f \in Fusions, NEW g, Evolves(f, g)
    PROVE  Lineage(f, g) /\ SameIdentity(f, g)
BY FusionFields DEF Evolves, Lineage, SameIdentity

(* The status is published, or says what it said.                          *)
Told(f) ==
    /\ status' = [state |-> f.state, epoch |-> f.epoch,
                  instance |-> f.tracker.instance, odom_epoch |-> f.tracker.epoch,
                  latched |-> f.tracker.latched,
                  map_to_odom_valid |-> f.has_map_to_odom]
    /\ status_stamp' = StampFor(f)

Untold(f) == UNCHANGED <<status, status_stamp>> /\ SameIdentity(fusion, f)

Moved ==
    /\ Soundly(fusion') /\ Lineage(fusion, fusion')
    /\ Recorded(fusion') /\ (Told(fusion') \/ Untold(fusion'))

LEMMA PublishedMoves ==
    ASSUME NEW f, Soundly(f), Lineage(fusion, f), Published(f)
    PROVE  Moved
BY DEF Published, Moved, Told

LEMMA UnpublishedMoves ==
    ASSUME NEW f, Soundly(f), Lineage(fusion, f), SameIdentity(fusion, f),
           Unpublished(f)
    PROVE  Moved
BY DEF Unpublished, Moved, Untold

-----------------------------------------------------------------------------
(* Odometry.                                                               *)

Verdicts ==
    {"LATCHED", "INVALID", "RETIRED", "PENDING", "FIRST", "UNCHANGED", "CHANGED"}

LEMMA InstancesAreNumbers ==
    ASSUME NEW i \in Instances \cup {0} PROVE i \in Nat
BY FusionAssumption

LEMMA TrackerFields ==
    ASSUME NEW t \in Trackers
    PROVE  /\ t.instance \in Instances \cup {0} /\ t.instance \in Nat
           /\ t.pending \in Instances \cup {0} /\ t.pending \in Nat
           /\ t.samples \in 0..(InitialSamples - 1)
           /\ t.retired \in 0..RetiredLimit
           /\ t.epoch \in Nat /\ t.latched \in BOOLEAN
<1>1. /\ t.instance \in Instances \cup {0} /\ t.pending \in Instances \cup {0}
      /\ t.samples \in 0..(InitialSamples - 1) /\ t.retired \in 0..RetiredLimit
      /\ t.epoch \in Nat /\ t.latched \in BOOLEAN
  BY Zenon DEF Trackers
<1>2. t.instance \in Nat /\ t.pending \in Nat
  BY <1>1, InstancesAreNumbers, Zenon
<1> QED BY <1>1, <1>2

LEMMA VerdictFacts ==
    ASSUME NEW t \in Trackers, NEW instance \in Instances \cup {0},
           NEW fresh \in BOOLEAN, NEW kept \in 0..RetiredLimit,
           NEW verdict, verdict = Verdict(t, instance, fresh, kept)
    PROVE  /\ verdict \in Verdicts
           /\ verdict # "LATCHED" => ~t.latched
           /\ verdict = "RETIRED" => kept + 1 <= RetiredLimit
           /\ verdict = "PENDING" =>
                  t.instance = 0 /\ SamplesOf(t, instance) < InitialSamples
           /\ verdict = "FIRST" => t.instance = 0 /\ instance > 0
           /\ verdict = "CHANGED" => t.instance # 0 /\ instance > t.instance
           /\ verdict = "UNCHANGED" => t.instance # 0
<1>1. instance \in Nat /\ RetiredLimit \in Nat
  BY FusionAssumption
<1> QED BY <1>1, TrackerFields DEF Verdict, Outlived, Verdicts

LEMMA ObservedFacts ==
    ASSUME NEW t \in Trackers, NEW instance \in Instances \cup {0},
           NEW fresh \in BOOLEAN, NEW kept \in 0..RetiredLimit,
           NEW verdict, verdict = Verdict(t, instance, fresh, kept)
    PROVE  LET o == Observed(t, instance, kept, verdict)
           IN  /\ o \in Trackers
               /\ verdict \notin {"FIRST", "CHANGED"} =>
                      o.instance = t.instance /\ o.epoch = t.epoch
               /\ verdict \in {"FIRST", "CHANGED"} =>
                      o.instance = instance /\ o.epoch = t.epoch + 1
               /\ verdict = "LATCHED" => o.latched
               /\ verdict # "LATCHED" => o.latched = t.latched
<1> DEFINE o == Observed(t, instance, kept, verdict)
           samples == SamplesOf(t, instance)
           epoch == t.epoch + 1
           retired == kept + 1
<1>1. /\ verdict \in Verdicts
      /\ verdict = "RETIRED" => retired <= RetiredLimit
      /\ verdict = "PENDING" => samples < InitialSamples
  BY VerdictFacts
<1>2. 0 \in 0..(InitialSamples - 1) /\ samples \in Nat /\ epoch \in Nat
      /\ retired \in Nat /\ InitialSamples \in Nat /\ RetiredLimit \in Nat
  BY TrackerFields, FusionAssumption DEF SamplesOf
<1>3. CASE verdict \in {"FIRST", "CHANGED"}
  <2> DEFINE a == [t EXCEPT !.instance = instance, !.epoch = epoch,
                            !.pending = 0, !.samples = 0]
  <2>1. o = a
    BY <1>3 DEF Observed, Adopted
  <2>2. a \in Trackers
    <3> HIDE DEF epoch
    <3> QED BY <1>2, Zenon DEF Trackers
  <2>3. a.instance = instance /\ a.epoch = t.epoch + 1 /\ a.latched = t.latched
    BY SMT DEF Trackers
  <2> QED BY <1>3, <2>1, <2>2, <2>3
<1>4. CASE verdict = "PENDING"
  <2> DEFINE a == [t EXCEPT !.pending = instance, !.samples = samples]
  <2>1. o = a
    BY <1>4 DEF Observed
  <2>2. samples \in 0..(InitialSamples - 1)
    BY <1>1, <1>2, <1>4
  <2>3. a \in Trackers
    <3> HIDE DEF samples
    <3> QED BY <2>2, Zenon DEF Trackers
  <2>4. a.instance = t.instance /\ a.epoch = t.epoch /\ a.latched = t.latched
    BY SMT DEF Trackers
  <2> QED BY <1>4, <2>1, <2>3, <2>4
<1>5. CASE verdict = "INVALID"
  <2> DEFINE a == [t EXCEPT !.samples = 0]
  <2>1. o = a
    BY <1>5 DEF Observed
  <2>2. a \in Trackers
    BY <1>2, Zenon DEF Trackers
  <2>3. a.instance = t.instance /\ a.epoch = t.epoch /\ a.latched = t.latched
    BY SMT DEF Trackers
  <2> QED BY <1>5, <2>1, <2>2, <2>3
<1>6. CASE verdict = "RETIRED"
  <2> DEFINE a == [t EXCEPT !.retired = retired, !.samples = 0]
  <2>1. o = a
    BY <1>6 DEF Observed
  <2>2. retired \in 0..RetiredLimit
    BY <1>1, <1>2, <1>6
  <2>3. a \in Trackers
    <3> HIDE DEF retired
    <3> QED BY <1>2, <2>2, Zenon DEF Trackers
  <2>4. a.instance = t.instance /\ a.epoch = t.epoch /\ a.latched = t.latched
    BY SMT DEF Trackers
  <2> QED BY <1>6, <2>1, <2>3, <2>4
<1>7. CASE verdict = "LATCHED"
  <2> DEFINE a == [t EXCEPT !.latched = TRUE, !.samples = 0]
  <2>1. o = a
    BY <1>7 DEF Observed
  <2>2. a \in Trackers
    BY <1>2, Zenon DEF Trackers
  <2>3. a.instance = t.instance /\ a.epoch = t.epoch /\ a.latched
    BY SMT DEF Trackers
  <2> QED BY <1>7, <2>1, <2>2, <2>3
<1>8. CASE verdict = "UNCHANGED"
  <2>1. o = t
    BY <1>8 DEF Observed
  <2> QED BY <1>8, <2>1
<1> HIDE DEF o
<1> QED BY <1>1, <1>3, <1>4, <1>5, <1>6, <1>7, <1>8 DEF Verdicts, o

LEMMA TrackedFacts ==
    ASSUME NEW f \in Fusions, NEW tracker \in Trackers
    PROVE  LET g == Tracked(f, tracker)
           IN  /\ g \in Fusions /\ g.tracker = tracker
               /\ g.epoch = f.epoch /\ g.odom = f.odom
               /\ g.has_map_to_odom = f.has_map_to_odom
               /\ g.has_accepted_observation = f.has_accepted_observation
               /\ g.floor = f.floor /\ g.state = f.state
               /\ g.lost_latched = f.lost_latched /\ g.recovery = f.recovery
               /\ g.recovery_episode_closed = f.recovery_episode_closed
<1>1. Tracked(f, tracker) \in Fusions
  BY Zenon DEF Tracked, Fusions
<1> QED BY <1>1, SMT DEF Tracked, Fusions

(* A verdict that leaves the identity alone.                               *)
LEMMA TrackedSame ==
    ASSUME NEW f, Soundly(f), NEW tracker \in Trackers,
           tracker.instance = f.tracker.instance,
           tracker.epoch = f.tracker.epoch,
           tracker.latched = f.tracker.latched
    PROVE  LET g == Tracked(f, tracker)
           IN  Soundly(g) /\ Lineage(f, g) /\ SameIdentity(f, g) /\ g.odom = f.odom
<1> DEFINE g == Tracked(f, tracker)
<1>1. f \in Fusions /\ f.epoch \in Int
  BY FusionFields DEF Soundly, Loosely
<1>2. /\ g \in Fusions /\ g.tracker = tracker
      /\ g.epoch = f.epoch /\ g.odom = f.odom
      /\ g.has_map_to_odom = f.has_map_to_odom
      /\ g.has_accepted_observation = f.has_accepted_observation
      /\ g.floor = f.floor /\ g.state = f.state
      /\ g.lost_latched = f.lost_latched /\ g.recovery = f.recovery
      /\ g.recovery_episode_closed = f.recovery_episode_closed
  BY <1>1, TrackedFacts
<1> HIDE DEF g
<1>3. Soundly(g)
  BY <1>2 DEF Soundly, Loosely
<1>4. SameIdentity(f, g)
  BY <1>2 DEF SameIdentity
<1>5. Lineage(f, g)
  BY <1>1, <1>2, <1>4 DEF Lineage
<1> QED BY <1>2, <1>3, <1>4, <1>5 DEF g

(* A conflict is latched and loses the localization.                       *)
LEMMA TrackedConflict ==
    ASSUME time \in 1..MaxTime, NEW f, Soundly(f), NEW tracker \in Trackers,
           tracker.instance = f.tracker.instance,
           tracker.epoch = f.tracker.epoch, tracker.latched
    PROVE  LET g == EnterLost(Tracked(f, tracker))
           IN  Soundly(g) /\ Lineage(f, g)
<1> DEFINE t == Tracked(f, tracker)
<1>1. f \in Fusions /\ f.epoch \in Int
  BY FusionFields DEF Soundly, Loosely
<1>2. /\ t \in Fusions /\ t.tracker = tracker
      /\ t.epoch = f.epoch /\ t.odom = f.odom
      /\ t.has_map_to_odom = f.has_map_to_odom
      /\ t.has_accepted_observation = f.has_accepted_observation
      /\ t.floor = f.floor /\ t.state = f.state
      /\ t.lost_latched = f.lost_latched /\ t.recovery = f.recovery
      /\ t.recovery_episode_closed = f.recovery_episode_closed
  BY <1>1, TrackedFacts
<1> HIDE DEF t
<1>3. Loosely(t)
  BY <1>2 DEF Soundly, Loosely
<1>4. Conflict(f, t)
  BY <1>2 DEF Conflict
<1>5. Lineage(f, t)
  BY <1>1, <1>2, <1>4 DEF Lineage
<1>6. Soundly(EnterLost(t)) /\ Lineage(f, EnterLost(t))
  BY <1>3, <1>5, EnterLostFacts, LineageOn
<1> QED BY <1>6 DEF t

(* The first odometry process is adopted.                                  *)
LEMMA TrackedFirst ==
    ASSUME NEW f, Soundly(f), NEW tracker \in Trackers,
           f.tracker.instance = 0, tracker.instance > 0,
           tracker.epoch = f.tracker.epoch + 1,
           ~f.tracker.latched, ~tracker.latched
    PROVE  LET g == Tracked(f, tracker)
           IN  /\ Soundly(g) /\ Lineage(f, g)
               /\ g.tracker.instance # 0 /\ g.odom = "NONE"
<1> DEFINE g == Tracked(f, tracker)
<1>1. f \in Fusions /\ f.epoch \in Int
  BY FusionFields DEF Soundly, Loosely
<1>2. /\ g \in Fusions /\ g.tracker = tracker
      /\ g.epoch = f.epoch /\ g.odom = f.odom
      /\ g.has_map_to_odom = f.has_map_to_odom
      /\ g.has_accepted_observation = f.has_accepted_observation
      /\ g.floor = f.floor /\ g.state = f.state
      /\ g.lost_latched = f.lost_latched /\ g.recovery = f.recovery
      /\ g.recovery_episode_closed = f.recovery_episode_closed
  BY <1>1, TrackedFacts
<1>3. tracker.instance # 0
  BY TrackerFields
<1>4. f.odom = "NONE" /\ ~f.has_accepted_observation
  BY DEF Soundly, Loosely
<1> HIDE DEF g
<1>5. Soundly(g)
  BY <1>2, <1>3 DEF Soundly, Loosely
<1>6. NewIdentity(f, g)
  BY <1>2 DEF NewIdentity
<1>7. Lineage(f, g)
  BY <1>1, <1>2, <1>4, <1>6 DEF Lineage
<1> QED BY <1>2, <1>3, <1>4, <1>5, <1>7 DEF g

(* The odometry process is replaced.                                       *)
LEMMA TrackedReplaced ==
    ASSUME time \in 1..MaxTime, NEW f, Soundly(f), NEW tracker \in Trackers,
           f.tracker.instance # 0, tracker.instance > f.tracker.instance,
           tracker.epoch = f.tracker.epoch + 1,
           ~f.tracker.latched, f.epoch < MaxEpochs
    PROVE  LET g == Replaced(Tracked(f, tracker))
           IN  /\ Soundly(g) /\ Lineage(f, g)
               /\ g.tracker.instance # 0 /\ g.odom = "NONE"
<1> DEFINE t == Tracked(f, tracker)
           epoch == t.epoch + 1
           b == [t EXCEPT !.odom = "NONE", !.input = 0, !.silence = "FRESH",
                          !.has_map_to_odom = FALSE,
                          !.has_accepted_observation = FALSE,
                          !.epoch = epoch]
           g == EnterLost(b)
<1>1. /\ f \in Fusions /\ f.epoch \in 1..MaxEpochs /\ MaxEpochs \in Nat
      /\ MaxTime \in Nat
  BY FusionFields, FusionAssumption DEF Soundly, Loosely
<1>2. /\ t \in Fusions /\ t.tracker = tracker
      /\ t.epoch = f.epoch /\ t.odom = f.odom
      /\ t.floor = f.floor /\ t.state = f.state
      /\ t.lost_latched = f.lost_latched /\ t.recovery = f.recovery
      /\ t.recovery_episode_closed = f.recovery_episode_closed
  BY <1>1, TrackedFacts
<1>3. epoch \in 1..MaxEpochs /\ 0 \in 0..MaxTime
  BY <1>1, <1>2
<1> HIDE DEF t
<1>4. b \in Fusions
  <2> HIDE DEF epoch
  <2> QED BY <1>2, <1>3, Zenon DEF Fusions
<1>5. /\ b.tracker = tracker /\ b.epoch = f.epoch + 1 /\ b.odom = "NONE"
      /\ b.has_accepted_observation = FALSE
      /\ b.floor = f.floor /\ b.state = f.state
      /\ b.lost_latched = f.lost_latched /\ b.recovery = f.recovery
      /\ b.recovery_episode_closed = f.recovery_episode_closed
  BY <1>2, SMT DEF Fusions
<1>6. g = Replaced(t)
  BY DEF Replaced
<1> HIDE DEF b
<1>7. tracker.instance # 0 /\ tracker.instance \in Nat /\ f.tracker.instance \in Nat
  BY <1>1, TrackerFields, FusionFields
<1>8. Loosely(b)
  BY <1>4, <1>5 DEF Soundly, Loosely
<1>9. Soundly(g) /\ Evolves(b, g) /\ g.state = "LOST"
  BY <1>8, EnterLostFacts
<1> HIDE DEF g
<1>10. g.tracker = tracker /\ g.epoch = f.epoch + 1 /\ g.odom = "NONE"
  BY <1>5, <1>9 DEF Evolves
<1>11. g.lost_latched /\ g.recovery = "NONE"
  BY <1>9 DEF Soundly
<1>12. NewIdentity(f, g)
  BY <1>1, <1>9, <1>10 DEF NewIdentity
<1>13. Lineage(f, g)
  BY <1>1, <1>5, <1>9, <1>10, <1>11, <1>12 DEF Lineage, Evolves
<1> QED BY <1>6, <1>7, <1>9, <1>10, <1>13 DEF t

LEMMA OdometryMoves ==
    ASSUME time \in 1..MaxTime, Soundly(fusion), NEW f, Soundly(f),
           Lineage(fusion, f), f.tracker.instance # 0,
           f.odom # "NONE" => SameIdentity(fusion, f),
           OnOdometry(f)
    PROVE  Moved
<1>1. f \in Fusions /\ Loosely(f)
  BY DEF Soundly, Loosely
<1> DEFINE h == Health(f)
<1>2. Soundly(h) /\ Evolves(f, h) /\ h \in Fusions /\ Lineage(fusion, h)
  BY HealthFacts, LineageOn DEF Soundly, Loosely
<1>3. CASE BadOdometry(f)
  <2>1. Soundly(EnterLost(f)) /\ Lineage(fusion, EnterLost(f))
    BY <1>1, EnterLostFacts, LineageOn
  <2> QED BY <1>3, <2>1, PublishedMoves DEF BadOdometry
<1>4. CASE LateOdometry(f)
  <2> DEFINE r == Rejected(h)
  <2>1. Soundly(r) /\ Evolves(h, r) /\ Lineage(fusion, r)
    <3> HIDE DEF h
    <3> QED BY <1>2, RejectedFacts, LineageOn
  <2>2. r.odom # "NONE"
    <3> HIDE DEF r
    <3> QED BY <1>2, <1>4, <2>1 DEF LateOdometry, Evolves
  <2>3. Soundly(Doubted(r)) /\ Lineage(fusion, Doubted(r))
    <3> HIDE DEF r
    <3> QED BY <2>1, <2>2, DoubtedFacts, LineageOn
  <2> QED BY <1>4, <2>3, PublishedMoves DEF LateOdometry
<1>5. CASE RepeatedOdometry(f)
  <2>1. SameIdentity(fusion, h)
    <3> HIDE DEF h
    <3> QED BY <1>2, <1>5 DEF RepeatedOdometry, SameIdentity, Evolves
  <2> QED BY <1>2, <1>5, <2>1, UnpublishedMoves DEF RepeatedOdometry
<1>6. CASE NextOdometry(f)
  <2> DEFINE silence == IF h.odom = "NONE" THEN "FRESH" ELSE h.silence
             k == [h EXCEPT !.odom = "FRESH", !.silence = silence]
  <2>1. Published(Health(k))
    BY <1>6 DEF NextOdometry
  <2> HIDE DEF h
  <2>2. silence \in {"FRESH", "STALE", "LOST"}
    BY <1>2 DEF Fusions
  <2>3. k \in Fusions
    <3> HIDE DEF silence
    <3> QED BY <1>2, <2>2, Zenon DEF Fusions
  <2>4. /\ k.tracker = h.tracker /\ k.epoch = h.epoch /\ k.odom = "FRESH"
        /\ k.has_map_to_odom = h.has_map_to_odom
        /\ k.has_accepted_observation = h.has_accepted_observation
        /\ k.floor = h.floor /\ k.state = h.state
        /\ k.lost_latched = h.lost_latched /\ k.recovery = h.recovery
        /\ k.recovery_episode_closed = h.recovery_episode_closed
    <3> HIDE DEF silence
    <3> QED BY <1>2, SMT DEF Fusions
  <2>5. k.tracker.instance # 0
    BY <1>2, <2>4 DEF Evolves
  <2> HIDE DEF k
  <2>6. Soundly(k)
    BY <1>2, <2>3, <2>4, <2>5 DEF Soundly, Loosely
  <2>7. Lineage(fusion, k)
    <3>1. SameIdentity(fusion, k) \/ NewIdentity(fusion, k) \/ Conflict(fusion, k)
      BY <1>2, <2>4 DEF Lineage, SameIdentity, NewIdentity, Conflict
    <3> QED BY <1>2, <2>4, <3>1 DEF Lineage
  <2>8. Soundly(Health(k)) /\ Lineage(fusion, Health(k))
    BY <2>6, <2>7, HealthFacts, LineageOn
  <2> QED BY <2>1, <2>8, PublishedMoves
<1> QED BY <1>3, <1>4, <1>5, <1>6 DEF OnOdometry

LEMMA IdentifiedOdometryMoves ==
    ASSUME time \in 1..MaxTime, Soundly(fusion),
           NEW instance \in Instances \cup {0}, NEW fresh \in BOOLEAN,
           NEW kept \in 0..RetiredLimit,
           OnIdentifiedOdometry(instance, fresh, kept)
    PROVE  Moved
<1> DEFINE t == fusion.tracker
           verdict == Verdict(t, instance, fresh, kept)
           o == Observed(t, instance, kept, verdict)
           f == Tracked(fusion, o)
<1>1. fusion \in Fusions /\ t \in Trackers
  BY FusionFields DEF Soundly, Loosely
<1>2. /\ verdict \in Verdicts
      /\ verdict # "LATCHED" => ~t.latched
      /\ verdict = "FIRST" => t.instance = 0 /\ instance > 0
      /\ verdict = "CHANGED" => t.instance # 0 /\ instance > t.instance
      /\ verdict = "UNCHANGED" => t.instance # 0
  BY <1>1, VerdictFacts
<1>3. /\ o \in Trackers
      /\ verdict \notin {"FIRST", "CHANGED"} =>
             o.instance = t.instance /\ o.epoch = t.epoch
      /\ verdict \in {"FIRST", "CHANGED"} =>
             o.instance = instance /\ o.epoch = t.epoch + 1
      /\ verdict = "LATCHED" => o.latched
      /\ verdict # "LATCHED" => o.latched = t.latched
  BY <1>1, ObservedFacts
<1>4. CASE verdict = "LATCHED" /\ Published(EnterLost(f))
  <2>1. Soundly(EnterLost(f)) /\ Lineage(fusion, EnterLost(f))
    <3> HIDE DEF o, verdict
    <3> QED BY <1>3, <1>4, TrackedConflict
  <2> QED BY <1>4, <2>1, PublishedMoves
<1>5. ASSUME verdict \in {"RETIRED", "INVALID", "PENDING", "UNCHANGED"}
      PROVE  Soundly(f) /\ Lineage(fusion, f) /\ SameIdentity(fusion, f)
  <2> HIDE DEF o, verdict
  <2> QED BY <1>3, <1>5, TrackedSame
<1>6. CASE verdict = "RETIRED" /\ Published(Rejected(f))
  <2>1. Soundly(Rejected(f)) /\ Lineage(fusion, Rejected(f))
    BY <1>5, <1>6, RejectedFacts, LineageOn
  <2> QED BY <1>6, <2>1, PublishedMoves
<1>7. CASE verdict \in {"INVALID", "PENDING"} /\ Unpublished(f)
  BY <1>5, <1>7, UnpublishedMoves
<1>8. CASE verdict = "UNCHANGED" /\ OnOdometry(f)
  <2>1. f.tracker.instance # 0
    BY <1>2, <1>5, <1>8 DEF SameIdentity
  <2> HIDE DEF f
  <2> QED BY <1>5, <1>8, <2>1, OdometryMoves
<1>9. CASE verdict = "FIRST" /\ OnOdometry(f)
  <2>1. Soundly(f) /\ Lineage(fusion, f) /\ f.tracker.instance # 0 /\ f.odom = "NONE"
    <3> HIDE DEF o, verdict
    <3> QED BY <1>2, <1>3, <1>9, TrackedFirst
  <2> HIDE DEF f
  <2> QED BY <1>9, <2>1, OdometryMoves
<1>10. CASE verdict = "CHANGED" /\ fusion.epoch < MaxEpochs /\ OnOdometry(Replaced(f))
  <2> DEFINE g == Replaced(f)
  <2>1. Soundly(g) /\ Lineage(fusion, g) /\ g.tracker.instance # 0 /\ g.odom = "NONE"
    <3> HIDE DEF o, verdict
    <3> QED BY <1>2, <1>3, <1>10, TrackedReplaced
  <2> HIDE DEF g
  <2> QED BY <1>10, <2>1, OdometryMoves DEF g
<1> HIDE DEF verdict
<1> QED
  BY <1>2, <1>4, <1>6, <1>7, <1>8, <1>9, <1>10
     DEF OnIdentifiedOdometry, Verdicts, verdict

LEMMA IdentityMonitorMoves ==
    ASSUME time \in 1..MaxTime, Soundly(fusion),
           NEW instance \in Instances, NEW kept \in 0..RetiredLimit,
           OnIdentityMonitor(instance, kept)
    PROVE  Moved
<1>0. PICK fresh \in BOOLEAN : fresh = FALSE
  OBVIOUS
<1> DEFINE t == fusion.tracker
           verdict == Verdict(t, instance, fresh, kept)
           o == Observed(t, instance, kept, verdict)
           f == Tracked(fusion, o)
<1>1. fusion \in Fusions /\ t \in Trackers /\ instance \in Instances \cup {0}
  BY FusionFields DEF Soundly, Loosely
<1>2. instance < t.instance /\ instance > 0
  BY DEF OnIdentityMonitor
<1>3. verdict \in {"LATCHED", "RETIRED"}
  <2>1. instance # 0 /\ t.instance # 0
    BY <1>1, <1>2, TrackerFields, FusionAssumption
  <2>2. Outlived(t, instance)
    BY <1>2, <2>1 DEF Outlived
  <2> QED BY <2>1, <2>2 DEF Verdict
<1>4. verdict # "LATCHED" => ~t.latched
  BY <1>1, VerdictFacts
<1>5. /\ o \in Trackers
      /\ verdict \notin {"FIRST", "CHANGED"} =>
             o.instance = t.instance /\ o.epoch = t.epoch
      /\ verdict = "LATCHED" => o.latched
      /\ verdict # "LATCHED" => o.latched = t.latched
  BY <1>1, ObservedFacts
<1>6. Published(IF verdict = "LATCHED" THEN EnterLost(f) ELSE Rejected(f))
  BY <1>0 DEF OnIdentityMonitor
<1> HIDE DEF verdict, o
<1>7. CASE verdict = "LATCHED"
  <2>1. Soundly(EnterLost(f)) /\ Lineage(fusion, EnterLost(f))
    BY <1>3, <1>5, <1>7, TrackedConflict
  <2> QED BY <1>6, <1>7, <2>1, PublishedMoves
<1>8. CASE verdict = "RETIRED"
  <2>1. Soundly(f) /\ Lineage(fusion, f)
    BY <1>5, <1>8, TrackedSame
  <2>2. Soundly(Rejected(f)) /\ Lineage(fusion, Rejected(f))
    <3> HIDE DEF f
    <3> QED BY <2>1, RejectedFacts, LineageOn
  <2> QED BY <1>6, <1>8, <2>2, PublishedMoves
<1> QED BY <1>3, <1>7, <1>8

-----------------------------------------------------------------------------
(* Observations.                                                           *)

LEMMA NotedFacts ==
    ASSUME NEW f, Soundly(f), NEW stamp \in 1..MaxTime
    PROVE  /\ Soundly(Noted(f, stamp)) /\ Evolves(f, Noted(f, stamp))
<1> DEFINE g == Noted(f, stamp)
<1>1. f \in Fusions /\ stamp \in 0..MaxTime
  BY FusionAssumption DEF Soundly, Loosely
<1>2. g \in Fusions
  BY <1>1, Zenon DEF Noted, Fusions
<1>3. /\ g.tracker = f.tracker /\ g.epoch = f.epoch /\ g.odom = f.odom
      /\ g.has_map_to_odom = f.has_map_to_odom
      /\ g.has_accepted_observation = f.has_accepted_observation
      /\ g.floor = f.floor /\ g.state = f.state /\ g.lost_latched = f.lost_latched
      /\ g.recovery = f.recovery
      /\ g.recovery_episode_closed = f.recovery_episode_closed
  BY <1>1, SMT DEF Noted, Fusions
<1> HIDE DEF g
<1>4. Soundly(g) /\ Evolves(f, g)
  BY <1>2, <1>3 DEF Soundly, Loosely, Evolves
<1> QED BY <1>4 DEF g

(* What every observation that is not committed amounts to.                *)
LEMMA HealthMoves ==
    ASSUME time \in 1..MaxTime, Soundly(fusion)
    PROVE  /\ Soundly(Health(fusion)) /\ Lineage(fusion, Health(fusion))
           /\ Soundly(Rejected(Health(fusion)))
           /\ Lineage(fusion, Rejected(Health(fusion)))
           /\ Soundly(Rejected(fusion)) /\ Lineage(fusion, Rejected(fusion))
           /\ Soundly(EnterLost(fusion)) /\ Lineage(fusion, EnterLost(fusion))
<1> DEFINE h == Health(fusion)
<1>1. fusion \in Fusions /\ Loosely(fusion)
  BY DEF Soundly, Loosely
<1>2. Soundly(h) /\ Evolves(fusion, h)
  BY HealthFacts
<1> HIDE DEF h
<1>3. Soundly(Rejected(h)) /\ Evolves(fusion, Rejected(h))
  BY <1>2, RejectedFacts, EvolvesOn
<1>4. /\ Soundly(Rejected(fusion)) /\ Evolves(fusion, Rejected(fusion))
      /\ Soundly(EnterLost(fusion)) /\ Evolves(fusion, EnterLost(fusion))
  BY <1>1, RejectedFacts, EnterLostFacts
<1>5. /\ Lineage(fusion, h) /\ Lineage(fusion, Rejected(h))
      /\ Lineage(fusion, Rejected(fusion)) /\ Lineage(fusion, EnterLost(fusion))
  BY <1>1, <1>2, <1>3, <1>4, EvolvesIsLineage
<1> QED BY <1>2, <1>3, <1>4, <1>5 DEF h

LEMMA NotedMoves ==
    ASSUME time \in 1..MaxTime, Soundly(fusion), NEW stamp \in 1..MaxTime
    PROVE  LET f == Noted(Health(fusion), stamp)
           IN  /\ Soundly(f) /\ Evolves(fusion, f)
               /\ Soundly(Rejected(f)) /\ Lineage(fusion, Rejected(f))
<1> DEFINE h == Health(fusion)
           f == Noted(h, stamp)
<1>1. fusion \in Fusions
  BY DEF Soundly, Loosely
<1>2. Soundly(h) /\ Evolves(fusion, h)
  BY HealthFacts
<1> HIDE DEF h
<1>3. Soundly(f) /\ Evolves(fusion, f)
  BY <1>2, NotedFacts, EvolvesOn
<1> HIDE DEF f
<1>4. Soundly(Rejected(f)) /\ Evolves(fusion, Rejected(f))
  BY <1>3, RejectedFacts, EvolvesOn
<1>5. Lineage(fusion, Rejected(f))
  BY <1>1, <1>4, EvolvesIsLineage
<1> QED BY <1>3, <1>4, <1>5 DEF f, h

LEMMA PendingMoves ==
    ASSUME time \in 1..MaxTime, Soundly(fusion), NEW stamp \in 1..MaxTime,
           ObservationPending(stamp)
    PROVE  Moved
<1> DEFINE f == Noted(Health(fusion), stamp)
           recovery == IF f.recovery = "NONE" THEN "RUNNING" ELSE f.recovery
           g == [f EXCEPT !.recovery = recovery, !.state = "RELOCALIZING"]
           result == IF f.recovery_episode_closed THEN Rejected(f)
                     ELSE IF f.has_accepted_observation /\ ~f.lost_latched THEN f
                     ELSE g
<1>1. /\ Published(result) /\ f.odom = "FRESH" /\ MatchedUnlatched
  BY DEF ObservationPending, Admissible
<1>2. /\ Soundly(f) /\ Evolves(fusion, f)
      /\ Soundly(Rejected(f)) /\ Lineage(fusion, Rejected(f))
  BY NotedMoves
<1> HIDE DEF f
<1>3. fusion \in Fusions /\ f \in Fusions
  BY <1>2 DEF Soundly, Loosely
<1>4. Lineage(fusion, f) /\ SameIdentity(fusion, f)
  BY <1>2, <1>3, EvolvesIsLineage
<1>5. CASE f.recovery_episode_closed
  BY <1>1, <1>2, <1>5, PublishedMoves
<1>6. CASE ~f.recovery_episode_closed /\ f.has_accepted_observation /\ ~f.lost_latched
  BY <1>1, <1>2, <1>4, <1>6, PublishedMoves
<1>7. CASE ~f.recovery_episode_closed /\ ~(f.has_accepted_observation /\ ~f.lost_latched)
  <2>1. recovery \in {"RUNNING", "OVER"}
    BY <1>3, FusionFields
  <2>2. g \in Fusions
    <3> HIDE DEF recovery
    <3> QED BY <1>3, <2>1, StateNames, Zenon DEF Fusions
  <2>3. /\ g.tracker = f.tracker /\ g.epoch = f.epoch /\ g.odom = f.odom
        /\ g.has_map_to_odom = f.has_map_to_odom
        /\ g.has_accepted_observation = f.has_accepted_observation
        /\ g.floor = f.floor /\ g.state = "RELOCALIZING"
        /\ g.lost_latched = f.lost_latched
        /\ g.recovery = recovery
        /\ g.recovery_episode_closed = f.recovery_episode_closed
    <3> HIDE DEF recovery
    <3> QED BY <1>3, SMT DEF Fusions
  <2>4. result = g
    BY <1>7
  <2>5. ~f.tracker.latched
    BY <1>1, <1>4 DEF MatchedUnlatched, SameIdentity
  <2> HIDE DEF g, recovery
  <2>6. Soundly(g)
    BY <1>1, <1>2, <2>1, <2>2, <2>3, <2>5 DEF Soundly, Loosely
  <2>7. Lineage(fusion, g)
    <3>1. SameIdentity(fusion, g)
      BY <1>4, <2>3 DEF SameIdentity
    <3>2. g.recovery # "NONE" /\ ~fusion.recovery_episode_closed
      BY <1>2, <1>7, <2>1, <2>3 DEF Evolves
    <3> QED BY <1>4, <2>3, <3>1, <3>2 DEF Lineage
  <2> QED BY <1>1, <2>4, <2>6, <2>7, PublishedMoves
<1> QED BY <1>5, <1>6, <1>7

(* An accepted observation ends every loss.                                *)
LEMMA RelocalizedFacts ==
    ASSUME time \in 1..MaxTime, NEW f, Soundly(f), NEW advances \in BOOLEAN,
           f.odom = "FRESH", f.tracker.instance # 0, ~f.tracker.latched,
           advances => f.epoch < MaxEpochs
    PROVE  LET g == Relocalized(f, advances)
           IN  /\ Soundly(g)
               /\ g.tracker = f.tracker /\ g.epoch >= f.epoch
               /\ g.floor = f.floor /\ g.has_accepted_observation
               /\ ~g.lost_latched /\ g.state \notin {"LOST", "RELOCALIZING"}
<1> DEFINE holds == advances \/ f.state # "TRACKING"
           epoch == IF advances THEN f.epoch + 1 ELSE f.epoch
           hold == IF holds /\ (f.hold = "NONE" \/ advances) THEN "RUNNING" ELSE f.hold
           state == IF holds THEN "CONFIRMED" ELSE "TRACKING"
           g == [f EXCEPT !.has_map_to_odom = TRUE,
                          !.has_accepted_observation = TRUE,
                          !.lost_latched = FALSE,
                          !.recovery_episode_closed = FALSE,
                          !.recovery = "NONE",
                          !.silence = "FRESH",
                          !.rejections = 0,
                          !.epoch = epoch, !.hold = hold, !.state = state]
<1>1. Relocalized(f, advances) = Health(g)
  BY DEF Relocalized
<1>2. /\ f \in Fusions /\ f.epoch \in 1..MaxEpochs /\ MaxEpochs \in Nat
      /\ MaxRejections \in Nat \ {0}
  BY FusionFields, FusionAssumption DEF Soundly, Loosely
<1>3. /\ epoch \in 1..MaxEpochs /\ epoch >= f.epoch /\ 0 \in 0..MaxRejections
      /\ hold \in {"NONE", "RUNNING", "OVER"} /\ state \in {"CONFIRMED", "TRACKING"}
  BY <1>2, FusionFields
<1>4. g \in Fusions
  <2> HIDE DEF epoch, hold, state
  <2>1. state \in Stream!States
    BY <1>3, StateNames
  <2> QED BY <1>2, <1>3, <2>1, Zenon DEF Fusions
<1>5. /\ g.tracker = f.tracker /\ g.epoch = epoch /\ g.odom = f.odom
      /\ g.has_map_to_odom = TRUE /\ g.has_accepted_observation = TRUE
      /\ g.floor = f.floor /\ g.state = state /\ g.lost_latched = FALSE
      /\ g.recovery = "NONE" /\ g.recovery_episode_closed = FALSE
      /\ g.silence = "FRESH" /\ g.rejections = 0
  <2> HIDE DEF epoch, hold, state
  <2> QED BY <1>2, SMT DEF Fusions
<1> HIDE DEF g, epoch, hold, state
<1>6. Soundly(g)
  BY <1>3, <1>4, <1>5 DEF Soundly, Loosely
<1>7. Soundly(Health(g)) /\ Evolves(g, Health(g))
  BY <1>6, HealthFacts
<1>8. Health(g).lost_latched = FALSE /\ Health(g).floor = g.floor
  <2>1. ~Lapsed(g)
    BY <1>5 DEF Lapsed
  <2> DEFINE s == StateOf(g)
             d == IF s \in {"DEGRADED", "TRACKING"} THEN "NONE" ELSE g.hold
  <2>2. Health(g) = [g EXCEPT !.state = s, !.hold = d]
    BY <2>1 DEF Health
  <2> HIDE DEF s, d
  <2>3. [g EXCEPT !.state = s, !.hold = d].lost_latched = g.lost_latched
        /\ [g EXCEPT !.state = s, !.hold = d].floor = g.floor
    BY <1>4, SMT DEF Fusions
  <2> QED BY <1>5, <2>2, <2>3
<1> DEFINE r == Health(g)
<1> HIDE DEF r
<1>9. /\ Soundly(r) /\ Evolves(g, r)
      /\ r.lost_latched = FALSE /\ r.floor = g.floor
  BY <1>7, <1>8 DEF r
<1>10. r.state # "LOST" /\ r.recovery = "NONE" /\ r.state # "RELOCALIZING"
  BY <1>5, <1>9 DEF Soundly, Evolves
<1>11. r.tracker = f.tracker /\ r.epoch >= f.epoch
       /\ r.has_accepted_observation /\ r.floor = f.floor
  BY <1>3, <1>5, <1>9 DEF Evolves
<1> QED BY <1>1, <1>9, <1>10, <1>11 DEF r

-----------------------------------------------------------------------------
(* The inductive invariant: the members, what was published of them, and   *)
(* the history.  The floor of the recovery lies no earlier than the loss,  *)
(* and an exhausted recovery has closed its episode.                       *)

PublishedInv ==
    /\ status \in Stream!Statuses /\ status_stamp \in Nat
    /\ status.instance = fusion.tracker.instance
    /\ status.odom_epoch = fusion.tracker.epoch
    /\ status.latched = fusion.tracker.latched
    /\ status.epoch <= fusion.epoch

EvidenceInv ==
    /\ evidence \in [instance : Instances \cup {0}, stamp : 0..MaxTime]
    /\ lost_since \in 0..MaxTime /\ lost_since <= fusion.floor
    /\ ~fusion.lost_latched /\ fusion.has_accepted_observation =>
           /\ evidence.instance = fusion.tracker.instance
           /\ evidence.stamp > lost_since
    /\ ~fusion.lost_latched /\ ~fusion.has_accepted_observation =>
           lost_since = 0 /\ evidence.instance = 0

ExhaustedInv ==
    /\ exhausted \in BOOLEAN
    /\ exhausted => /\ fusion.recovery_episode_closed
                    /\ fusion.recovery = "NONE" /\ fusion.lost_latched

IInv ==
    /\ time \in 1..MaxTime
    /\ Soundly(fusion)
    /\ PublishedInv /\ EvidenceInv /\ ExhaustedInv

LEMMA StampGrows ==
    ASSUME time \in Nat, status_stamp \in Nat, NEW f
    PROVE  StampFor(f) \in Nat /\ StampFor(f) > status_stamp
BY DEF StampFor

(* What is published of sound members is a status of the stream.           *)
LEMMA ToldIsWellFormed ==
    ASSUME NEW f, Soundly(f), IInv, Told(f), fusion' = f
    PROVE  /\ PublishedInv' /\ status_stamp' > status_stamp
           /\ Stream!WellFormed(status')
           /\ status'.state = f.state /\ status'.epoch = f.epoch
<1>1. /\ f \in Fusions /\ f.tracker \in Trackers /\ f.epoch \in 1..MaxEpochs
      /\ f.state \in Stream!States /\ f.has_map_to_odom \in BOOLEAN
      /\ MaxEpochs \in Nat
  BY FusionAssumption DEF Soundly, Loosely, Fusions
<1>2. /\ f.tracker.instance \in Instances \cup {0} /\ f.tracker.epoch \in Nat
      /\ f.tracker.latched \in BOOLEAN
  BY <1>1, TrackerFields
<1>3. /\ status'.state = f.state /\ status'.epoch = f.epoch
      /\ status'.instance = f.tracker.instance
      /\ status'.odom_epoch = f.tracker.epoch
      /\ status'.latched = f.tracker.latched
      /\ status'.map_to_odom_valid = f.has_map_to_odom
  BY DEF Told
<1>4. f.epoch \in 0..MaxEpochs /\ f.epoch <= f.epoch
  BY <1>1
<1>5. status' \in Stream!Statuses
  BY <1>1, <1>2, <1>4, Zenon DEF Told, Stream!Statuses, Stream!StatusesIn
<1>6. status_stamp' \in Nat /\ status_stamp' > status_stamp
  BY StampGrows DEF Told, IInv, PublishedInv
<1>7. PublishedInv'
  BY <1>3, <1>4, <1>5, <1>6 DEF PublishedInv
<1>8. Stream!WellFormed(status')
  <2>1. f.tracker.latched => f.state = "LOST"
    BY DEF Soundly
  <2>2. ASSUME f.state \in {"TRACKING", "CONFIRMED", "DEGRADED"}
        PROVE  f.tracker.instance # 0 /\ f.has_map_to_odom
    BY <2>2 DEF Soundly, Loosely
  <2> QED
    BY <1>1, <1>3, <2>1, <2>2 DEF Stream!WellFormed, Stream!AllowsPlanning
<1> QED BY <1>3, <1>6, <1>7, <1>8

-----------------------------------------------------------------------------
(* The steps.                                                              *)

StreamStep == [Stream!Next]_<<status, status_stamp>>

LEMMA UntimedSoundly ==
    ASSUME Soundly(fusion'), time' = time PROVE Soundly(fusion)'
BY DEF Soundly, Loosely

LEMMA MovedPublished ==
    ASSUME IInv, Moved PROVE PublishedInv' /\ StreamStep
<1>1. Soundly(fusion') /\ Lineage(fusion, fusion')
  BY DEF Moved
<1>2. /\ fusion \in Fusions /\ fusion' \in Fusions
      /\ fusion.epoch \in 1..MaxEpochs /\ fusion'.epoch \in 1..MaxEpochs
      /\ fusion.tracker \in Trackers /\ fusion'.tracker \in Trackers
  BY <1>1, FusionFields DEF IInv, Soundly, Loosely
<1>3. status.epoch \in 0..MaxEpochs
  BY DEF IInv, PublishedInv, Stream!Statuses, Stream!StatusesIn
<1>4. CASE Told(fusion')
  <2>1. /\ PublishedInv' /\ status_stamp' > status_stamp
        /\ Stream!WellFormed(status')
        /\ status'.state = fusion'.state /\ status'.epoch = fusion'.epoch
    BY <1>1, <1>4, ToldIsWellFormed
  <2>2. /\ status'.instance = fusion'.tracker.instance
        /\ status'.odom_epoch = fusion'.tracker.epoch
        /\ status'.latched = fusion'.tracker.latched
        /\ status.instance = fusion.tracker.instance
        /\ status.odom_epoch = fusion.tracker.epoch
        /\ status.latched = fusion.tracker.latched
        /\ status.epoch <= fusion.epoch
    BY <2>1 DEF IInv, PublishedInv
  <2>3. /\ fusion.tracker.instance \in Nat /\ fusion.tracker.epoch \in Nat
        /\ fusion'.tracker.instance \in Nat /\ fusion'.tracker.epoch \in Nat
    BY <1>2, TrackerFields
  <2>4. status'.epoch >= status.epoch
    BY <1>1, <1>2, <1>3, <2>1, <2>2 DEF Lineage
  <2>5. ASSUME SameIdentity(fusion, fusion') \/ Conflict(fusion, fusion')
        PROVE  Stream!Follows(status', status)
    BY <2>2, <2>3, <2>4, <2>5 DEF Stream!Follows, SameIdentity, Conflict
  <2>6. ASSUME NewIdentity(fusion, fusion')
        PROVE  Stream!Follows(status', status)
    <3>1. /\ status'.instance > status.instance
          /\ status'.odom_epoch = status.odom_epoch + 1 /\ ~status.latched
      BY <2>2, <2>6 DEF NewIdentity
    <3>2. status.instance # 0 => status'.state = "LOST" /\ status'.epoch > status.epoch
      BY <1>2, <1>3, <2>1, <2>2, <2>6 DEF NewIdentity
    <3> QED BY <2>2, <2>3, <2>4, <3>1, <3>2 DEF Stream!Follows
  <2>7. Stream!Follows(status', status)
    BY <1>1, <2>5, <2>6 DEF Lineage
  <2>8. status' \in Stream!Statuses
    BY <2>1 DEF PublishedInv
  <2> QED BY <2>1, <2>7, <2>8 DEF Stream!Next, StreamStep
<1>5. CASE Untold(fusion')
  <2>1. status' = status /\ status_stamp' = status_stamp
    BY <1>5 DEF Untold
  <2>2. PublishedInv'
    BY <1>1, <1>2, <1>3, <1>5, <2>1
       DEF IInv, PublishedInv, Untold, SameIdentity, Lineage
  <2> QED BY <2>1, <2>2 DEF StreamStep
<1> QED BY <1>4, <1>5 DEF Moved

LEMMA MovedInvariant ==
    ASSUME IInv, Moved, UNCHANGED <<time, evidence>>
    PROVE  IInv' /\ StreamStep
<1>1. Soundly(fusion') /\ Lineage(fusion, fusion') /\ Recorded(fusion')
  BY DEF Moved
<1>2. PublishedInv' /\ StreamStep
  BY MovedPublished
<1>3. /\ fusion \in Fusions /\ Soundly(fusion) /\ time \in 1..MaxTime
      /\ time \in Nat /\ fusion.floor \in Nat /\ lost_since \in Nat /\ MaxTime \in Nat
      /\ fusion.floor <= time
  BY FusionFields, FusionAssumption DEF IInv, Soundly, Loosely, EvidenceInv
<1> DEFINE loses == fusion'.state = "LOST" /\ fusion.state # "LOST"
<1>4. /\ lost_since' = IF loses THEN time ELSE lost_since
      /\ exhausted' = IF loses /\ fusion.state = "RELOCALIZING" THEN TRUE
                      ELSE exhausted /\ (fusion'.lost_latched \/ ~fusion.lost_latched)
  BY <1>1 DEF Recorded
<1>5. lost_since' \in 0..MaxTime /\ lost_since' <= fusion'.floor
  BY <1>1, <1>3, <1>4 DEF Lineage, IInv, EvidenceInv
<1>6. fusion'.state = "LOST" => fusion'.lost_latched /\ fusion'.recovery = "NONE"
  BY <1>1 DEF Soundly
<1>7. EvidenceInv'
  <2>1. evidence' = evidence
    OBVIOUS
  <2>2. ASSUME ~fusion'.lost_latched
        PROVE  /\ ~fusion.lost_latched /\ lost_since' = lost_since
               /\ fusion'.has_accepted_observation = fusion.has_accepted_observation
               /\ fusion.has_accepted_observation =>
                      fusion'.tracker.instance = fusion.tracker.instance
    BY <1>1, <1>4, <1>6, <2>2 DEF Lineage
  <2> QED BY <1>5, <2>1, <2>2 DEF IInv, EvidenceInv
<1>8. ExhaustedInv'
  <2>1. CASE loses /\ fusion.state = "RELOCALIZING"
    BY <1>1, <1>3, <1>4, <1>6, <2>1 DEF Soundly, Lineage, ExhaustedInv
  <2>2. CASE ~(loses /\ fusion.state = "RELOCALIZING")
    <3>1. exhausted' = (exhausted /\ (fusion'.lost_latched \/ ~fusion.lost_latched))
      BY <1>4, <2>2
    <3> QED BY <1>1, <3>1 DEF IInv, ExhaustedInv, Lineage
  <2> QED BY <2>1, <2>2
<1>9. Soundly(fusion)' /\ (time \in 1..MaxTime)'
  BY <1>1, <1>3, UntimedSoundly
<1> QED BY <1>2, <1>7, <1>8, <1>9 DEF IInv

LEMMA AcceptedInvariant ==
    ASSUME IInv, NEW stamp \in 1..MaxTime, NEW correction \in Corrections,
           ObservationAccepted(stamp, correction)
    PROVE  IInv' /\ StreamStep
<1> DEFINE h == Health(fusion)
           f == Noted(h, stamp)
           advances == AdvancesEpoch(f, correction)
           g == Relocalized(f, advances)
<1>1. /\ MatchedUnlatched /\ stamp > h.floor
      /\ f.odom = "FRESH" /\ (advances => f.epoch < MaxEpochs)
      /\ Published(g)
      /\ evidence' = [instance |-> f.tracker.instance, stamp |-> stamp]
      /\ time' = time
  BY DEF ObservationAccepted, Admissible
<1>2. time \in 1..MaxTime /\ Soundly(fusion)
  BY DEF IInv
<1>3. Soundly(f) /\ Evolves(fusion, f) /\ Soundly(h) /\ Evolves(h, f) /\ Evolves(fusion, h)
  BY <1>2, NotedMoves, HealthFacts, NotedFacts
<1>4. f.floor = h.floor
  <2>1. h \in Fusions
    BY <1>3 DEF Soundly, Loosely
  <2> HIDE DEF h
  <2> QED BY <2>1, SMT DEF Noted, Fusions
<1>5. advances \in BOOLEAN
  BY <1>3 DEF AdvancesEpoch, Soundly, Loosely, Fusions
<1> HIDE DEF f, h, advances
<1>6. f.tracker.instance # 0 /\ ~f.tracker.latched
  BY <1>1, <1>3 DEF MatchedUnlatched, Evolves
<1>7. /\ Soundly(g) /\ g.tracker = f.tracker /\ g.epoch >= f.epoch
      /\ g.floor = f.floor /\ g.has_accepted_observation
      /\ ~g.lost_latched /\ g.state \notin {"LOST", "RELOCALIZING"}
  BY <1>1, <1>2, <1>3, <1>5, <1>6, RelocalizedFacts
<1> HIDE DEF g
<1>8. /\ fusion' = g /\ Told(g) /\ Recorded(g)
  BY <1>1 DEF Published, Told
<1>9. /\ fusion \in Fusions /\ f \in Fusions /\ g \in Fusions
      /\ fusion.floor \in 0..MaxTime /\ f.tracker \in Trackers
      /\ fusion.epoch \in 1..MaxEpochs /\ f.epoch \in 1..MaxEpochs
      /\ g.epoch \in 1..MaxEpochs
      /\ MaxTime \in Nat
  <2>1. fusion \in Fusions /\ f \in Fusions /\ g \in Fusions
    BY <1>2, <1>3, <1>7 DEF Soundly, Loosely
  <2> QED BY <2>1, FusionFields, FusionAssumption
<1>10. lost_since' = lost_since
  BY <1>7, <1>8 DEF Recorded
<1>11. exhausted' = (exhausted /\ ~fusion.lost_latched)
  BY <1>7, <1>8 DEF Recorded
<1>12. exhausted' = FALSE
  BY <1>11 DEF IInv, ExhaustedInv
<1>13. EvidenceInv'
  <2>1. lost_since \in 0..MaxTime /\ lost_since <= fusion.floor
    BY DEF IInv, EvidenceInv
  <2>2. f.floor \in {fusion.floor, time} /\ fusion.floor <= time
    BY <1>3 DEF Evolves, Soundly, Loosely, IInv
  <2>3. lost_since <= f.floor /\ stamp > lost_since
    BY <1>1, <1>2, <1>4, <1>9, <2>1, <2>2
  <2>4. f.tracker.instance \in Instances \cup {0} /\ stamp \in 0..MaxTime
    BY <1>9, TrackerFields
  <2>5. evidence' \in [instance : Instances \cup {0}, stamp : 0..MaxTime]
    BY <1>1, <2>4, Zenon
  <2>6. evidence'.instance = g.tracker.instance /\ evidence'.stamp = stamp
    BY <1>1, <1>7
  <2> QED BY <1>7, <1>8, <1>10, <2>1, <2>3, <2>5, <2>6 DEF EvidenceInv
<1>14. PublishedInv' /\ StreamStep
  <2>2. /\ PublishedInv' /\ status_stamp' > status_stamp
        /\ Stream!WellFormed(status') /\ status'.epoch = g.epoch
    BY <1>7, <1>8, ToldIsWellFormed
  <2>3. /\ status'.instance = status.instance
        /\ status'.odom_epoch = status.odom_epoch
        /\ status'.latched = status.latched
        /\ status.epoch <= fusion.epoch /\ fusion.epoch = f.epoch
        /\ status' \in Stream!Statuses
    BY <1>3, <1>7, <1>8, <2>2 DEF IInv, PublishedInv, Evolves
  <2>4. status.epoch \in 0..MaxEpochs /\ status.odom_epoch \in Nat
        /\ status.instance \in Instances \cup {0}
    BY DEF IInv, PublishedInv, Stream!Statuses, Stream!StatusesIn
  <2>5. status'.epoch >= status.epoch
    BY <1>7, <1>9, <2>2, <2>3, <2>4
  <2>6. status.instance \in Nat
    BY <2>4, InstancesAreNumbers, Zenon
  <2>7. Stream!Follows(status', status)
    BY <2>3, <2>4, <2>5, <2>6 DEF Stream!Follows
  <2> QED BY <2>2, <2>3, <2>7 DEF Stream!Next, StreamStep
<1>15. Soundly(fusion)'
  BY <1>1, <1>7, <1>8, UntimedSoundly
<1>16. ExhaustedInv'
  BY <1>12 DEF ExhaustedInv
<1> QED BY <1>1, <1>2, <1>13, <1>14, <1>15, <1>16 DEF IInv

LEMMA OdometryInvariant ==
    ASSUME IInv, Odometry PROVE IInv' /\ StreamStep
<1>1. time \in 1..MaxTime /\ Soundly(fusion)
  BY DEF IInv
<1>2. Moved /\ UNCHANGED <<time, evidence>>
  <2>1. ASSUME NEW instance \in Instances \cup {0}, NEW fresh \in BOOLEAN,
               NEW kept \in 0..RetiredLimit,
               OnIdentifiedOdometry(instance, fresh, kept)
        PROVE  Moved /\ UNCHANGED <<time, evidence>>
    BY <1>1, <2>1, IdentifiedOdometryMoves DEF OnIdentifiedOdometry
  <2>2. ASSUME NEW instance \in Instances, NEW kept \in 0..RetiredLimit,
               OnIdentityMonitor(instance, kept)
        PROVE  Moved /\ UNCHANGED <<time, evidence>>
    BY <1>1, <2>2, IdentityMonitorMoves DEF OnIdentityMonitor
  <2> QED BY <2>1, <2>2 DEF Odometry
<1> QED BY <1>2, MovedInvariant

LEMMA ObservationInvariant ==
    ASSUME IInv, Observation PROVE IInv' /\ StreamStep
<1>1. time \in 1..MaxTime /\ Soundly(fusion)
  BY DEF IInv
<1>2. CASE ObservationObsolete \/ ObservationWhileLatched \/ ObservationRefused
  <2>1. Moved /\ UNCHANGED <<time, evidence>>
    BY <1>1, <1>2, HealthMoves, PublishedMoves
       DEF ObservationObsolete, ObservationWhileLatched, ObservationRefused
  <2> QED BY <2>1, MovedInvariant
<1>3. ASSUME NEW stamp \in 1..MaxTime,
             ObservationFailed(stamp) \/ ObservationPending(stamp)
      PROVE  IInv' /\ StreamStep
  <2>1. Moved /\ UNCHANGED <<time, evidence>>
    BY <1>1, <1>3, NotedMoves, PublishedMoves, PendingMoves
       DEF ObservationFailed, ObservationPending
  <2> QED BY <2>1, MovedInvariant
<1>4. ASSUME NEW stamp \in 1..MaxTime, NEW correction \in Corrections,
             ObservationImplausible(stamp, correction)
      PROVE  IInv' /\ StreamStep
  <2>1. Moved /\ UNCHANGED <<time, evidence>>
    BY <1>1, <1>4, NotedMoves, PublishedMoves DEF ObservationImplausible
  <2> QED BY <2>1, MovedInvariant
<1> QED BY <1>2, <1>3, <1>4, AcceptedInvariant DEF Observation

(* Time passing, and what it does to the deadlines, publishes nothing.     *)
LEMMA ElapsedInvariant ==
    ASSUME IInv, NEW f \in Fusions, Elapsed(f),
           f.tracker = fusion.tracker, f.epoch = fusion.epoch,
           f.floor = fusion.floor, f.state = fusion.state,
           f.lost_latched = fusion.lost_latched,
           f.has_map_to_odom = fusion.has_map_to_odom,
           f.has_accepted_observation = fusion.has_accepted_observation,
           f.recovery_episode_closed = fusion.recovery_episode_closed,
           f.odom = "NONE" <=> fusion.odom = "NONE",
           f.recovery = "NONE" <=> fusion.recovery = "NONE"
    PROVE  IInv' /\ StreamStep
<1>1. /\ fusion' = f
      /\ UNCHANGED <<time, status, status_stamp, evidence, lost_since, exhausted>>
  BY DEF Elapsed, history
<1>2. Soundly(f)
  BY DEF IInv, Soundly, Loosely
<1>3. Soundly(fusion)'
  BY <1>1, <1>2, UntimedSoundly
<1>4. PublishedInv' /\ EvidenceInv' /\ ExhaustedInv'
  BY <1>1 DEF IInv, PublishedInv, EvidenceInv, ExhaustedInv
<1> QED BY <1>1, <1>3, <1>4 DEF IInv, StreamStep

LEMMA ClocksInvariant ==
    ASSUME IInv, Clocks PROVE IInv' /\ StreamStep
<1>1. fusion \in Fusions
  BY DEF IInv, Soundly, Loosely
<1>2. CASE StartTimesOut
  <2> DEFINE f == [fusion EXCEPT !.late = TRUE]
  <2>1. f \in Fusions
    BY <1>1, Zenon DEF Fusions
  <2>2. Elapsed(f)
    BY <1>2 DEF StartTimesOut
  <2>3. /\ f.tracker = fusion.tracker /\ f.epoch = fusion.epoch
        /\ f.floor = fusion.floor /\ f.state = fusion.state
        /\ f.lost_latched = fusion.lost_latched
        /\ f.has_map_to_odom = fusion.has_map_to_odom
        /\ f.has_accepted_observation = fusion.has_accepted_observation
        /\ f.recovery_episode_closed = fusion.recovery_episode_closed
        /\ f.odom = fusion.odom /\ f.recovery = fusion.recovery
    BY <1>1, SMT DEF Fusions
  <2> HIDE DEF f
  <2> QED BY <2>1, <2>2, <2>3, ElapsedInvariant
<1>3. CASE OdometryFallsSilent
  <2> DEFINE f == [fusion EXCEPT !.odom = "SILENT"]
  <2>1. f \in Fusions
    BY <1>1, Zenon DEF Fusions
  <2>2. Elapsed(f) /\ fusion.odom = "FRESH"
    BY <1>3 DEF OdometryFallsSilent
  <2>3. /\ f.tracker = fusion.tracker /\ f.epoch = fusion.epoch
        /\ f.floor = fusion.floor /\ f.state = fusion.state
        /\ f.lost_latched = fusion.lost_latched
        /\ f.has_map_to_odom = fusion.has_map_to_odom
        /\ f.has_accepted_observation = fusion.has_accepted_observation
        /\ f.recovery_episode_closed = fusion.recovery_episode_closed
        /\ f.odom = "SILENT" /\ f.recovery = fusion.recovery
    BY <1>1, SMT DEF Fusions
  <2> HIDE DEF f
  <2> QED BY <2>1, <2>2, <2>3, ElapsedInvariant
<1>4. CASE SilenceGrows
  <2> DEFINE silence == IF fusion.silence = "FRESH" THEN "STALE" ELSE "LOST"
             f == [fusion EXCEPT !.silence = silence]
  <2>1. f \in Fusions
    <3>1. silence \in {"FRESH", "STALE", "LOST"}
      OBVIOUS
    <3> HIDE DEF silence
    <3> QED BY <1>1, <3>1, Zenon DEF Fusions
  <2>2. Elapsed(f)
    BY <1>4 DEF SilenceGrows
  <2>3. /\ f.tracker = fusion.tracker /\ f.epoch = fusion.epoch
        /\ f.floor = fusion.floor /\ f.state = fusion.state
        /\ f.lost_latched = fusion.lost_latched
        /\ f.has_map_to_odom = fusion.has_map_to_odom
        /\ f.has_accepted_observation = fusion.has_accepted_observation
        /\ f.recovery_episode_closed = fusion.recovery_episode_closed
        /\ f.odom = fusion.odom /\ f.recovery = fusion.recovery
    <3> HIDE DEF silence
    <3> QED BY <1>1, SMT DEF Fusions
  <2> HIDE DEF f
  <2> QED BY <2>1, <2>2, <2>3, ElapsedInvariant
<1>5. CASE HoldEnds
  <2> DEFINE f == [fusion EXCEPT !.hold = "OVER"]
  <2>1. f \in Fusions
    BY <1>1, Zenon DEF Fusions
  <2>2. Elapsed(f)
    BY <1>5 DEF HoldEnds
  <2>3. /\ f.tracker = fusion.tracker /\ f.epoch = fusion.epoch
        /\ f.floor = fusion.floor /\ f.state = fusion.state
        /\ f.lost_latched = fusion.lost_latched
        /\ f.has_map_to_odom = fusion.has_map_to_odom
        /\ f.has_accepted_observation = fusion.has_accepted_observation
        /\ f.recovery_episode_closed = fusion.recovery_episode_closed
        /\ f.odom = fusion.odom /\ f.recovery = fusion.recovery
    BY <1>1, SMT DEF Fusions
  <2> HIDE DEF f
  <2> QED BY <2>1, <2>2, <2>3, ElapsedInvariant
<1>6. CASE RecoveryEnds
  <2> DEFINE f == [fusion EXCEPT !.recovery = "OVER"]
  <2>1. f \in Fusions
    BY <1>1, Zenon DEF Fusions
  <2>2. Elapsed(f) /\ fusion.recovery = "RUNNING"
    BY <1>6 DEF RecoveryEnds
  <2>3. /\ f.tracker = fusion.tracker /\ f.epoch = fusion.epoch
        /\ f.floor = fusion.floor /\ f.state = fusion.state
        /\ f.lost_latched = fusion.lost_latched
        /\ f.has_map_to_odom = fusion.has_map_to_odom
        /\ f.has_accepted_observation = fusion.has_accepted_observation
        /\ f.recovery_episode_closed = fusion.recovery_episode_closed
        /\ f.odom = fusion.odom /\ f.recovery = "OVER"
    BY <1>1, SMT DEF Fusions
  <2> HIDE DEF f
  <2> QED BY <2>1, <2>2, <2>3, ElapsedInvariant
<1>7. CASE Tick
  <2>1. /\ fusion' = fusion /\ time' = time + 1 /\ time < MaxTime
        /\ UNCHANGED <<status, status_stamp, evidence, lost_since, exhausted>>
    BY <1>7 DEF Tick, history
  <2>2. time \in 1..MaxTime /\ MaxTime \in Nat /\ fusion.floor \in 0..MaxTime
    BY <1>1, FusionFields, FusionAssumption DEF IInv
  <2>3. (time \in 1..MaxTime)' /\ fusion.floor <= time + 1
    BY <2>1, <2>2 DEF IInv, Soundly, Loosely
  <2>4. Soundly(fusion)'
    BY <2>1, <2>3 DEF IInv, Soundly, Loosely
  <2>5. PublishedInv' /\ EvidenceInv' /\ ExhaustedInv'
    BY <2>1 DEF IInv, PublishedInv, EvidenceInv, ExhaustedInv
  <2> QED BY <2>1, <2>3, <2>4, <2>5 DEF IInv, StreamStep
<1> QED BY <1>2, <1>3, <1>4, <1>5, <1>6, <1>7 DEF Clocks

LEMMA NextInvariant ==
    ASSUME IInv, [Next]_vars PROVE IInv' /\ StreamStep
<1>1. CASE OnStatusTimer
  <2>1. time \in 1..MaxTime /\ Soundly(fusion)
    BY DEF IInv
  <2>2. Moved /\ UNCHANGED <<time, evidence>>
    BY <1>1, <2>1, HealthMoves, PublishedMoves DEF OnStatusTimer
  <2> QED BY <2>2, MovedInvariant
<1>2. CASE UNCHANGED vars
  BY <1>2 DEF vars, history, IInv, Soundly, Loosely, PublishedInv, EvidenceInv,
              ExhaustedInv, StreamStep
<1> QED
  BY <1>1, <1>2, OdometryInvariant, ObservationInvariant, ClocksInvariant DEF Next

LEMMA InitInvariant ==
    ASSUME Init PROVE IInv
<1>1. /\ 0 \in 0..(InitialSamples - 1) /\ 0 \in 0..RetiredLimit /\ 0 \in 0..MaxTime
      /\ 1 \in 1..MaxTime /\ 1 \in 1..MaxEpochs /\ 0 \in 0..MaxRejections
      /\ 0 \in 0..MaxEpochs /\ 0 \in Nat /\ 0 \in Instances \cup {0}
  BY FusionAssumption
<1>2. NoTracker \in Trackers
  BY <1>1, Zenon DEF NoTracker, Trackers
<1>3. InitialFusion \in Fusions
  BY <1>1, <1>2, StateNames, Zenon DEF InitialFusion, Fusions
<1>4. status \in Stream!Statuses
  BY <1>1, StateNames, Zenon
     DEF Init, Stream!NoStatus, Stream!Statuses, Stream!StatusesIn
<1>5. Soundly(fusion)
  BY <1>1, <1>3 DEF Init, Soundly, Loosely, InitialFusion, NoTracker
<1>6. PublishedInv
  <2>1. /\ fusion.tracker.instance = 0 /\ fusion.tracker.epoch = 0
        /\ fusion.tracker.latched = FALSE /\ fusion.epoch = 1
    BY DEF Init, InitialFusion, NoTracker
  <2>2. /\ status.instance = 0 /\ status.odom_epoch = 0
        /\ status.latched = FALSE /\ status.epoch = 0 /\ status_stamp = 0
    BY DEF Init, Stream!NoStatus
  <2>3. status_stamp \in Nat /\ status.epoch <= fusion.epoch
    <3>1. status_stamp = 0 /\ status.epoch = 0 /\ fusion.epoch = 1
      BY <2>1, <2>2, Zenon
    <3> QED BY <3>1
  <2>4. /\ status.instance = fusion.tracker.instance
        /\ status.odom_epoch = fusion.tracker.epoch
        /\ status.latched = fusion.tracker.latched
    BY <2>1, <2>2, Zenon
  <2> QED BY <1>4, <2>3, <2>4, Zenon DEF PublishedInv
<1>7. EvidenceInv /\ ExhaustedInv
  <2>1. /\ fusion.floor = 0 /\ ~fusion.lost_latched
        /\ ~fusion.has_accepted_observation
    BY DEF Init, InitialFusion
  <2>2. evidence \in [instance : Instances \cup {0}, stamp : 0..MaxTime]
    BY <1>1, Zenon DEF Init
  <2>3. evidence.instance = 0 /\ lost_since = 0 /\ exhausted = FALSE
    BY DEF Init
  <2>4. lost_since \in 0..MaxTime /\ lost_since <= fusion.floor
    BY <1>1, <2>1, <2>3
  <2> QED BY <2>1, <2>2, <2>3, <2>4, Zenon DEF EvidenceInv, ExhaustedInv
<1> QED BY <1>1, <1>5, <1>6, <1>7 DEF Init, IInv

LEMMA Invariance == Spec => []IInv
<1>1. Init => IInv
  BY InitInvariant
<1>2. IInv /\ [Next]_vars => IInv'
  BY NextInvariant
<1> QED BY <1>1, <1>2, PTL DEF Spec

-----------------------------------------------------------------------------
(* The theorems.                                                           *)

(* The node is well typed; the identity is latched before more retired     *)
(* samples than the limit are tolerated (OdomInstanceTracker::observe).    *)
THEOREM TypeCorrect == Spec => []TypeOK
<1>1. IInv => TypeOK
  BY DEF IInv, TypeOK, Soundly, Loosely, PublishedInv, EvidenceInv, ExhaustedInv
<1> QED BY <1>1, Invariance, PTL

(* A usable state rests on an observation of the odometry process in use,  *)
(* measured after the last loss (enterLostLocked, onObservation).          *)
THEOREM FreshEvidence == Spec => []UsableRestsOnFreshEvidence
<1>1. IInv => UsableRestsOnFreshEvidence
  <2> SUFFICES ASSUME IInv, Stream!AllowsPlanning(fusion)
               PROVE  UsableRestsOnFreshEvidence
    BY DEF UsableRestsOnFreshEvidence
  <2>1. fusion.state \in {"TRACKING", "CONFIRMED", "DEGRADED"}
    BY DEF Stream!AllowsPlanning
  <2>2. ~fusion.lost_latched
    BY <2>1 DEF IInv, Soundly
  <2>3. ~fusion.has_accepted_observation => fusion.state = "DEGRADED"
    BY <2>1 DEF IInv, Soundly
  <2> QED BY <2>2, <2>3 DEF IInv, EvidenceInv, UsableRestsOnFreshEvidence
<1> QED BY <1>1, Invariance, PTL

(* A failed recovery is not followed by another until an observation is    *)
(* accepted (recovery_episode_closed_).                                    *)
THEOREM OneRecovery == Spec => []OneRecoveryPerLoss
<1>1. IInv => OneRecoveryPerLoss
  BY DEF IInv, Soundly, ExhaustedInv, OneRecoveryPerLoss
<1> QED BY <1>1, Invariance, PTL

(* The fusion node keeps what the consumers of its status rely on          *)
(* (publishStatusLocked, onIdentifiedOdometry).                            *)
THEOREM FusionImplementsStream == Spec => ImplementsStream
<1>1. Init => Stream!Init
  BY DEF Init, Stream!Init
<1>2. IInv /\ [Next]_vars => [Stream!Next]_<<status, status_stamp>>
  BY NextInvariant DEF StreamStep
<1> QED BY <1>1, <1>2, Invariance, PTL DEF Spec, ImplementsStream, Stream!Spec

=============================================================================
