----------------------- MODULE MincoPublicationProofs -----------------------
(***************************************************************************)
(* The reference the robot may follow was judged on the map in force, the  *)
(* reference the consumers hold on to is the one that is watched, and an   *)
(* accepted request is answered, for every number of goals, requests,      *)
(* epochs, maps and losses.  The proofs follow the actions; what           *)
(* publishing a status does to minco is stated once: it changes nothing    *)
(* but the latest status.                                                  *)
(***************************************************************************)
EXTENDS MincoPublication, TLAPS

USE DEF Request, Requests, Reference, NoRequest, NoReference, NoSnapshot

IInv == TypeOK /\ JudgementInv

(* What JudgementInv reads of minco is not what a status is recorded in.   *)
SameMap(m, n) ==
    /\ n.map_ready = m.map_ready
    /\ n.map_health_epoch = m.map_health_epoch
    /\ n.next_map_generation = m.next_map_generation
    /\ n.latest_map_snapshot = m.latest_map_snapshot
    /\ n.active_safety_reference = m.active_safety_reference

Outputs ==
    /\ published \in PlannerStatus
    /\ granted \in Request
    /\ reply \in {"NOTHING", "ACCEPTED", "ANSWERED", "FAILED"}

(* Recording a status changes nothing else.                                *)
LEMMA RecordedSound ==
    ASSUME NEW m \in Minco, NEW s \in PlannerStatus
    PROVE  Recorded(m, s) \in Minco /\ SameMap(m, Recorded(m, s))
<1>1. [m EXCEPT !.latest = s] \in Minco
  BY Zenon DEF Minco
<1>2. SameMap(m, [m EXCEPT !.latest = s])
  BY SMT DEF Minco, SameMap
<1>3. SameMap(m, m)
  BY Zenon DEF SameMap
<1> QED
  BY <1>1, <1>2, <1>3, Zenon DEF Recorded

LEMMA StatusType ==
    ASSUME NEW r \in Request, NEW g \in Nat,
           NEW state \in {"NONE", "ACCEPTED", "READY", "FAILED"},
           NEW reason \in Reasons
    PROVE  Status(r, g, state, reason) \in PlannerStatus
  BY Zenon DEF Status, PlannerStatus

LEMMA SilenceType == Silence \in PlannerStatus
  BY SMT DEF Silence, PlannerStatus, Reasons

LEMMA HeardSound ==
    ASSUME Outputs, NEW s \in PlannerStatus, Heard(s)
    PROVE  Outputs'
<1>1. published' \in PlannerStatus
  BY Zenon DEF Heard
<1>2. s.request \in Request
  BY Zenon DEF PlannerStatus
<1>3. granted' \in {s.request, NoRequest, granted}
  BY SMT DEF Heard
<1>4. granted' \in Request
  BY <1>2, <1>3, SMT DEF Outputs
<1>5. reply' \in {"ANSWERED", reply}
  BY Zenon DEF Heard
<1> QED
  BY <1>1, <1>4, <1>5, Zenon DEF Outputs

LEMMA QuietSound ==
    ASSUME Outputs, Quiet
    PROVE  Outputs'
  BY SilenceType, Zenon DEF Outputs, Quiet

LEMMA StampedType ==
    ASSUME NEW m \in Minco, NEW s \in PlannerStatus
    PROVE  Stamped(m, s) \in PlannerStatus
<1>1. m.next_map_generation \in Nat
  BY Zenon DEF Minco
<1>2. [s EXCEPT !.generation = m.next_map_generation] \in PlannerStatus
  BY <1>1, Zenon DEF PlannerStatus
<1> QED
  BY <1>2, Zenon DEF Stamped

LEMMA PublishSound ==
    ASSUME Outputs, NEW m \in Minco, NEW s \in PlannerStatus, Publish(m, s)
    PROVE  minco' \in Minco /\ SameMap(m, minco') /\ Outputs'
<1> DEFINE stamped == Stamped(m, s)
<1>1. stamped \in PlannerStatus
  BY StampedType
<1>2. minco' = Recorded(m, stamped)
  BY Zenon DEF Publish
<1>3. Heard(stamped) \/ Quiet
  BY Zenon DEF Publish
<1> HIDE DEF stamped
<1>4. Outputs'
  BY <1>1, <1>3, HeardSound, QuietSound, Zenon
<1> QED
  BY <1>1, <1>2, <1>4, RecordedSound, Zenon

LEMMA PublishInvalidationSound ==
    ASSUME Outputs, NEW m \in Minco, NEW g \in Nat, NEW reason \in Reasons,
           PublishInvalidation(m, g, reason)
    PROVE  minco' \in Minco /\ SameMap(m, minco') /\ Outputs'
<1> DEFINE s == Failed(m.latest.request, g, reason)
<1>1. m.latest \in PlannerStatus
  BY Zenon DEF Minco
<1>2. m.latest.request \in Request
  BY <1>1, Zenon DEF PlannerStatus
<1>3. s \in PlannerStatus
  BY <1>2, StatusType, SMT DEF Failed
<1>4. SameMap(m, m)
  BY Zenon DEF SameMap
<1>5. \/ minco' = m /\ Quiet
      \/ minco' = Recorded(m, s) /\ (Heard(s) \/ Quiet)
  BY Zenon DEF PublishInvalidation
<1> HIDE DEF s
<1>6. CASE minco' = m /\ Quiet
  BY <1>6, <1>4, QuietSound, Zenon
<1>7. CASE minco' = Recorded(m, s) /\ (Heard(s) \/ Quiet)
  BY <1>3, <1>7, RecordedSound, HeardSound, QuietSound, Zenon
<1> QED
  BY <1>5, <1>6, <1>7, Zenon

(* A lost map takes its snapshot and its reference with it.                *)
LEMMA LostMapSound ==
    ASSUME NEW m \in Minco
    PROVE  /\ LostMap(m) \in Minco
           /\ LostMap(m).map_health_epoch = m.map_health_epoch + 1
           /\ LostMap(m).next_map_generation = m.next_map_generation
           /\ LostMap(m).latest_map_snapshot = NoSnapshot
           /\ LostMap(m).active_safety_reference = NoReference
<1>1. m.map_health_epoch + 1 \in Nat /\ m.next_map_generation + 1 \in Nat
  BY SMT DEF Minco
<1>2. NoSnapshot \in Snapshot /\ NoReference \in Reference
  BY SMT DEF Snapshot
<1>3. LostMap(m) \in Minco
  BY <1>1, <1>2, Zenon DEF Minco, LostMap
<1>4. /\ LostMap(m).map_health_epoch = m.map_health_epoch + 1
      /\ LostMap(m).next_map_generation = m.next_map_generation
      /\ LostMap(m).latest_map_snapshot = NoSnapshot
      /\ LostMap(m).active_safety_reference = NoReference
  BY SMT DEF Minco, LostMap
<1> QED
  BY <1>3, <1>4, Zenon

-----------------------------------------------------------------------------
(* The kinds of steps.                                                     *)

LEMMA NoneTypes ==
    /\ NoRequest \in Request /\ NoSnapshot \in Snapshot /\ NoReference \in Reference
    /\ NoBuild \in Build /\ NoRecheck \in Recheck
<1>1. NoRequest \in Request /\ NoSnapshot \in Snapshot /\ NoReference \in Reference
  BY SMT DEF Snapshot
<1>2. NoBuild \in Build
  BY <1>1, SMT DEF Build, NoBuild
<1>3. NoRecheck \in Recheck
  BY <1>1, SMT DEF Recheck, NoRecheck
<1> QED
  BY <1>1, <1>2, <1>3

(* A step that leaves the map alone, and the reference too or drops it.    *)
LEMMA Steady ==
    ASSUME IInv, minco' \in Minco, Outputs',
           minco'.map_health_epoch = minco.map_health_epoch,
           minco'.next_map_generation = minco.next_map_generation,
           minco'.latest_map_snapshot = minco.latest_map_snapshot,
           minco'.active_safety_reference
               \in {minco.active_safety_reference, NoReference},
           judged' = judged, losses' = losses,
           lease' \in BOOLEAN, health' \in Recheck,
           planning' \in Plan, planning' = planning \/ planning'.at # "PLANNING",
           mapping' \in Build,
           \/ mapping' = mapping
           \/ /\ mapping'.at \notin {"BUILDING", "JUDGED"}
              /\ mapping'.snapshot.generation <= minco.next_map_generation + 1
    PROVE  IInv'
<1>1. MapSound'
  BY SMT DEF IInv, JudgementInv, MapSound
<1>2. BuildSound'
  BY SMT DEF IInv, JudgementInv, BuildSound
<1>3. PlanSound'
  BY SMT DEF IInv, JudgementInv, PlanSound
<1>4. ReferenceJudgedOnItsMap'
  BY SMT DEF IInv, JudgementInv, ReferenceJudgedOnItsMap
<1>5. mapping'.snapshot.generation <= minco'.next_map_generation + 1
  BY SMT DEF IInv, TypeOK
<1>6. minco'.latest_map_snapshot.generation \in {0, minco'.next_map_generation}
  BY SMT DEF IInv, TypeOK
<1>7. TypeOK'
  BY <1>5, <1>6, Zenon DEF IInv, TypeOK, Outputs
<1> QED
  BY <1>1, <1>2, <1>3, <1>4, <1>7, Zenon DEF IInv, JudgementInv

(* A step that loses the map.                                              *)
LEMMA Lost ==
    ASSUME IInv, InvalidateMap,
           lease' \in BOOLEAN, health' \in Recheck,
           planning' \in Plan, planning' = planning \/ planning'.at # "PLANNING",
           mapping' \in {mapping, NoBuild}
    PROVE  IInv'
<1> DEFINE m == LostMap(minco)
<1>1. minco \in Minco /\ losses \in Nat /\ Outputs
  BY Zenon DEF IInv, TypeOK, Outputs
<1>2. /\ m \in Minco
      /\ m.map_health_epoch = minco.map_health_epoch + 1
      /\ m.next_map_generation = minco.next_map_generation
      /\ m.latest_map_snapshot = NoSnapshot
      /\ m.active_safety_reference = NoReference
  BY <1>1, LostMapSound
<1>3. minco.next_map_generation \in Nat /\ "MAP_UNREADY" \in Reasons
  BY <1>1, Zenon DEF Minco, Reasons
<1>4. PublishInvalidation(m, minco.next_map_generation, "MAP_UNREADY")
  BY Zenon DEF InvalidateMap
<1>5. losses' = losses + 1 /\ judged' = judged
  BY Zenon DEF InvalidateMap
<1> HIDE DEF m
<1>6. minco' \in Minco /\ SameMap(m, minco') /\ Outputs'
  BY <1>1, <1>2, <1>3, <1>4, PublishInvalidationSound, Zenon
<1>7. /\ minco'.map_health_epoch = minco.map_health_epoch + 1
      /\ minco'.next_map_generation = minco.next_map_generation
      /\ minco'.latest_map_snapshot = NoSnapshot
      /\ minco'.active_safety_reference = NoReference
  BY <1>2, <1>6, SMT DEF SameMap
<1>8. MapSound'
  BY <1>5, <1>7, SMT DEF IInv, JudgementInv, MapSound
<1>9. BuildSound'
  BY SMT DEF IInv, JudgementInv, BuildSound, NoBuild
<1>10. PlanSound'
  BY <1>7, SMT DEF IInv, JudgementInv, PlanSound
<1>11. ReferenceJudgedOnItsMap'
  BY <1>7, SMT DEF ReferenceJudgedOnItsMap
<1>12. mapping'.snapshot.generation <= minco'.next_map_generation + 1
  BY <1>1, <1>3, <1>7, SMT DEF IInv, TypeOK, NoBuild
<1>13. minco'.latest_map_snapshot.generation \in {0, minco'.next_map_generation}
  BY <1>7, SMT
<1>14. mapping' \in Build /\ judged' \in Judgement /\ losses' \in Nat
  BY <1>1, <1>5, NoneTypes, SMT DEF IInv, TypeOK
<1>15. TypeOK'
  BY <1>6, <1>12, <1>13, <1>14, Zenon DEF TypeOK, Outputs
<1> QED
  BY <1>8, <1>9, <1>10, <1>11, <1>15, Zenon DEF IInv, JudgementInv

(* What every proof below starts from.                                     *)
LEMMA Unpacked ==
    ASSUME IInv
    PROVE  /\ minco \in Minco /\ lease \in BOOLEAN /\ planning \in Plan
           /\ mapping \in Build /\ health \in Recheck /\ Outputs
           /\ judged \in Judgement /\ losses \in Nat
  BY Zenon DEF IInv, TypeOK, Outputs

LEMMA MincoFields ==
    ASSUME NEW m \in Minco
    PROVE  /\ m.next_map_generation \in Nat /\ m.map_health_epoch \in Nat
           /\ m.latest_map_snapshot \in Snapshot /\ m.latest \in PlannerStatus
           /\ m.active_safety_reference \in Reference
           /\ m.active_safety_reference.request \in Request
           /\ m.replan_advised \in Request
  BY SMT DEF Minco

LEMMA PlanFields ==
    ASSUME NEW p \in Plan
    PROVE  /\ p.request \in Request /\ p.snapshot \in Snapshot
           /\ p.snapshot.generation \in Nat
           /\ p.reason \in Reasons /\ p.keep \in BOOLEAN
  BY SMT DEF Plan, Snapshot

LEMMA BuildFields ==
    ASSUME NEW b \in Build
    PROVE  /\ b.snapshot \in Snapshot /\ b.snapshot.generation \in Nat
           /\ b.candidate \in Reference /\ b.candidate.request \in Request
  BY SMT DEF Build, Snapshot

-----------------------------------------------------------------------------
(* The health group.                                                       *)

LEMMA MapReadyKeeps ==
    ASSUME IInv, NEW ready \in BOOLEAN, OnMapReady(ready)
    PROVE  IInv'
<1>1. lease' \in BOOLEAN /\ health' = health /\ planning' = planning /\ mapping' = mapping
  BY Zenon DEF OnMapReady, locals
<1>2. CASE ready
  <2> DEFINE m == [minco EXCEPT !.map_ready = TRUE]
  <2>1. minco' = m /\ Quiet /\ judged' = judged /\ losses' = losses
    BY <1>2, Zenon DEF OnMapReady
  <2>2. m \in Minco
    BY Unpacked, Zenon DEF Minco
  <2>3. /\ m.map_health_epoch = minco.map_health_epoch
        /\ m.next_map_generation = minco.next_map_generation
        /\ m.latest_map_snapshot = minco.latest_map_snapshot
        /\ m.active_safety_reference = minco.active_safety_reference
    BY Unpacked, SMT DEF Minco
  <2> HIDE DEF m
  <2> QED
    BY <1>1, <2>1, <2>2, <2>3, Unpacked, QuietSound, Steady, Zenon
<1>3. CASE ~ready
  <2>1. InvalidateMap
    BY <1>3, Zenon DEF OnMapReady
  <2> QED
    BY <1>1, <2>1, Unpacked, Lost, Zenon
<1> QED
  BY <1>2, <1>3

LEMMA WatchdogKeeps ==
    ASSUME IInv, OnMapReadyWatchdog
    PROVE  IInv'
<1>1. /\ InvalidateMap /\ lease' = lease /\ health' = health
      /\ planning' = planning /\ mapping' = mapping
  BY Zenon DEF OnMapReadyWatchdog, locals
<1> QED
  BY <1>1, Unpacked, Lost, Zenon

(* Nothing shared changes.                                                 *)
LEMMA QuietStepKeeps ==
    ASSUME IInv, Quiet, UNCHANGED <<minco, judged, losses>>,
           lease' \in BOOLEAN, health' \in Recheck,
           planning' \in Plan, planning' = planning \/ planning'.at # "PLANNING",
           mapping' \in Build,
           \/ mapping' = mapping
           \/ /\ mapping'.at \notin {"BUILDING", "JUDGED"}
              /\ mapping'.snapshot.generation <= minco.next_map_generation + 1
    PROVE  IInv'
<1>1. Outputs'
  BY Unpacked, QuietSound
<1> QED
  BY <1>1, Unpacked, Steady, Zenon

LEMMA LeaseRunsOutKeeps ==
    ASSUME IInv, LeaseRunsOut
    PROVE  IInv'
<1>1. /\ Quiet /\ UNCHANGED <<minco, judged, losses>> /\ lease' \in BOOLEAN
      /\ health' = health /\ planning' = planning /\ mapping' = mapping
  BY Zenon DEF LeaseRunsOut, locals
<1> QED
  BY <1>1, Unpacked, QuietStepKeeps, Zenon

LEMMA RecheckBeginsKeeps ==
    ASSUME IInv, RecheckBegins
    PROVE  IInv'
<1>1. /\ Quiet /\ UNCHANGED <<minco, judged, losses>> /\ lease' = lease
      /\ planning' = planning /\ mapping' = mapping
  BY Zenon DEF RecheckBegins
<1>2. minco.latest_map_snapshot.generation \in Nat
  BY Unpacked, SMT DEF Minco, Snapshot
<1>3. health' \in Recheck
  BY <1>2, Unpacked, MincoFields, SMT DEF RecheckBegins, Recheck
<1> QED
  BY <1>1, <1>3, Unpacked, QuietStepKeeps, Zenon

LEMMA RecheckPassesKeeps ==
    ASSUME IInv, RecheckPasses
    PROVE  IInv'
<1>1. /\ Quiet /\ UNCHANGED <<minco, judged, losses>> /\ lease' = lease
      /\ planning' = planning /\ mapping' = mapping /\ health' = NoRecheck
  BY Zenon DEF RecheckPasses
<1> QED
  BY <1>1, Unpacked, NoneTypes, QuietStepKeeps, Zenon

LEMMA RecheckCondemnsKeeps ==
    ASSUME IInv, RecheckCondemns
    PROVE  IInv'
<1>1. /\ judged' = judged /\ losses' = losses /\ lease' = lease
      /\ planning' = planning /\ mapping' = mapping /\ health' = NoRecheck
  BY Zenon DEF RecheckCondemns
<1>2. CASE StillInForce
  <2> DEFINE m == [minco EXCEPT !.active_safety_reference = NoReference,
                                !.plan_safe = FALSE]
             s == Failed(health.reference.request, health.generation, "RUNTIME_UNSAFE")
  <2>1. Publish(m, s)
    BY <1>2, Zenon DEF RecheckCondemns
  <2>2. m \in Minco
    BY Unpacked, NoneTypes, Zenon DEF Minco
  <2>3. /\ m.map_health_epoch = minco.map_health_epoch
        /\ m.next_map_generation = minco.next_map_generation
        /\ m.latest_map_snapshot = minco.latest_map_snapshot
        /\ m.active_safety_reference = NoReference
    BY Unpacked, SMT DEF Minco
  <2>4. health.reference.request \in Request /\ health.generation \in Nat
    BY Unpacked, SMT DEF Recheck
  <2>5. "RUNTIME_UNSAFE" \in Reasons
    BY SMT DEF Reasons
  <2>6. s \in PlannerStatus
    BY <2>4, <2>5, StatusType, SMT DEF Failed
  <2> HIDE DEF m, s
  <2>7. minco' \in Minco /\ SameMap(m, minco') /\ Outputs'
    BY <2>1, <2>2, <2>6, Unpacked, PublishSound, Zenon
  <2>8. /\ minco'.map_health_epoch = minco.map_health_epoch
        /\ minco'.next_map_generation = minco.next_map_generation
        /\ minco'.latest_map_snapshot = minco.latest_map_snapshot
        /\ minco'.active_safety_reference = NoReference
    BY <2>3, <2>7, Zenon DEF SameMap
  <2> QED
    BY <1>1, <2>7, <2>8, Unpacked, NoneTypes, Steady, Zenon
<1>3. CASE ~StillInForce
  <2>1. minco' = minco /\ Quiet
    BY <1>3, Zenon DEF RecheckCondemns
  <2> QED
    BY <1>1, <2>1, Unpacked, NoneTypes, QuietStepKeeps, Zenon
<1> QED
  BY <1>2, <1>3

-----------------------------------------------------------------------------
(* The map group.                                                          *)

LEMMA SnapshotWithdrawnKeeps ==
    ASSUME IInv, OnSnapshotWithdrawn
    PROVE  IInv'
<1>1. /\ InvalidateMap /\ lease' = lease /\ health' = health
      /\ planning' = planning /\ mapping' = mapping
  BY Zenon DEF OnSnapshotWithdrawn, locals
<1> QED
  BY <1>1, Unpacked, Lost, Zenon

LEMMA BuildFailsKeeps ==
    ASSUME IInv, BuildFails
    PROVE  IInv'
<1>1. /\ InvalidateMap /\ lease' = lease /\ health' = health
      /\ planning' = planning /\ mapping' = NoBuild
  BY Zenon DEF BuildFails
<1> QED
  BY <1>1, Unpacked, Lost, Zenon

(* A build leaves everything but the map group's own variables alone.      *)
LEMMA BuildStepKeeps ==
    ASSUME IInv, Quiet, UNCHANGED <<minco, lease, planning, health, judged, losses>>,
           mapping' \in Build, BuildSound',
           mapping'.snapshot.generation <= minco.next_map_generation + 1
    PROVE  IInv'
<1>1. Outputs'
  BY Unpacked, QuietSound
<1>2. MapSound' /\ PlanSound'
  BY SMT DEF IInv, JudgementInv, MapSound, PlanSound
<1>3. ReferenceJudgedOnItsMap'
  BY SMT DEF IInv, JudgementInv, ReferenceJudgedOnItsMap
<1>4. TypeOK'
  BY <1>1, Zenon DEF IInv, TypeOK, Outputs
<1> QED
  BY <1>2, <1>3, <1>4, Zenon DEF IInv, JudgementInv

LEMMA BuildBeginsKeeps ==
    ASSUME IInv, NEW content \in Contents, BuildBegins(content)
    PROVE  IInv'
<1>1. minco.next_map_generation \in Nat /\ minco.map_health_epoch \in Nat /\ losses \in Nat
  BY Unpacked, MincoFields
<1>2. /\ Quiet
      /\ UNCHANGED <<minco, lease, planning, health, judged, losses>>
      /\ mapping' = [at |-> "BUILDING",
                     snapshot |-> [generation |-> minco.next_map_generation + 1,
                                   content |-> content, received |-> losses],
                     health_epoch |-> minco.map_health_epoch,
                     candidate |-> NoReference]
  BY Zenon DEF BuildBegins
<1>3. mapping' \in Build
  BY <1>1, <1>2, SMT DEF Build, Snapshot
<1>4. BuildSound'
  BY <1>2, SMT DEF IInv, JudgementInv, MapSound, BuildSound
<1>5. mapping'.snapshot.generation <= minco.next_map_generation + 1
  BY <1>1, <1>2, SMT
<1> QED
  BY <1>2, <1>3, <1>4, <1>5, BuildStepKeeps

LEMMA BuildEndsKeeps ==
    ASSUME IInv, BuildEnds
    PROVE  IInv'
<1>1. /\ Quiet /\ mapping.at = "BUILDING"
      /\ UNCHANGED <<minco, lease, planning, health, judged, losses>>
  BY Zenon DEF BuildEnds
<1>2. PICK c \in {minco.active_safety_reference, NoReference} :
          mapping' = [mapping EXCEPT !.at = "JUDGED", !.candidate = c]
  BY Zenon DEF BuildEnds
<1>3. c \in Reference
  BY <1>2, Unpacked, MincoFields, NoneTypes, Zenon
<1>4. mapping' \in Build
  BY <1>2, <1>3, Unpacked, Zenon DEF Build
<1>5. mapping'.snapshot = mapping.snapshot /\ mapping'.health_epoch = mapping.health_epoch
  BY <1>2, Unpacked, SMT DEF Build
<1>6. BuildSound'
  BY <1>1, <1>5, SMT DEF IInv, JudgementInv, BuildSound
<1>7. mapping'.snapshot.generation <= minco.next_map_generation + 1
  BY <1>5, SMT DEF IInv, TypeOK
<1> QED
  BY <1>1, <1>4, <1>6, <1>7, BuildStepKeeps

LEMMA DiscardSnapshotKeeps ==
    ASSUME IInv, DiscardSnapshot
    PROVE  IInv'
<1>1. /\ Quiet /\ mapping' = NoBuild
      /\ UNCHANGED <<minco, lease, planning, health, judged, losses>>
  BY Zenon DEF DiscardSnapshot
<1>2. BuildSound'
  BY <1>1, SMT DEF BuildSound, NoBuild
<1>3. mapping'.snapshot.generation <= minco.next_map_generation + 1
  BY <1>1, Unpacked, MincoFields, SMT DEF NoBuild
<1> QED
  BY <1>1, <1>2, <1>3, NoneTypes, BuildStepKeeps, Zenon

LEMMA WithSnapshotSound ==
    ASSUME NEW m \in Minco, NEW snapshot \in Snapshot, NEW reference \in Reference
    PROVE  /\ WithSnapshot(m, snapshot, reference) \in Minco
           /\ WithSnapshot(m, snapshot, reference).map_health_epoch = m.map_health_epoch
           /\ WithSnapshot(m, snapshot, reference).next_map_generation = snapshot.generation
           /\ WithSnapshot(m, snapshot, reference).latest_map_snapshot = snapshot
           /\ WithSnapshot(m, snapshot, reference).active_safety_reference = reference
<1>1. snapshot.generation \in Nat
  BY SMT DEF Snapshot
<1>2. WithSnapshot(m, snapshot, reference) \in Minco
  BY <1>1, Zenon DEF Minco, WithSnapshot
<1>3. /\ WithSnapshot(m, snapshot, reference).map_health_epoch = m.map_health_epoch
      /\ WithSnapshot(m, snapshot, reference).next_map_generation = snapshot.generation
      /\ WithSnapshot(m, snapshot, reference).latest_map_snapshot = snapshot
      /\ WithSnapshot(m, snapshot, reference).active_safety_reference = reference
  BY SMT DEF Minco, WithSnapshot
<1> QED
  BY <1>2, <1>3, Zenon

LEMMA PlanInvalidatedSound ==
    ASSUME NEW m \in Minco, NEW g \in Nat
    PROVE  PlanInvalidated(m, g) \in Minco /\ SameMap(m, PlanInvalidated(m, g))
<1> DEFINE minimum == IF g > m.minimum_map_generation THEN g ELSE m.minimum_map_generation
<1>1. minimum \in Nat
  BY SMT DEF Minco
<1>2. PlanInvalidated(m, g) =
          [m EXCEPT !.plan_safe = FALSE, !.minimum_map_generation = minimum]
  BY Zenon DEF PlanInvalidated
<1> HIDE DEF minimum
<1>3. [m EXCEPT !.plan_safe = FALSE, !.minimum_map_generation = minimum] \in Minco
  BY <1>1, Zenon DEF Minco
<1>4. SameMap(m, [m EXCEPT !.plan_safe = FALSE, !.minimum_map_generation = minimum])
  BY SMT DEF Minco, SameMap
<1> QED
  BY <1>2, <1>3, <1>4, Zenon

(* A step that puts a snapshot in force, with a reference judged on it or  *)
(* with none.                                                              *)
LEMMA NewMap ==
    ASSUME IInv, mapping.at = "JUDGED", ~ChangedMeanwhile,
           minco' \in Minco, Outputs',
           minco'.map_health_epoch = minco.map_health_epoch,
           minco'.next_map_generation = mapping.snapshot.generation,
           minco'.latest_map_snapshot = mapping.snapshot,
           NEW reference \in Reference,
           minco'.active_safety_reference = reference,
           \/ reference = NoReference
           \/ /\ reference.map_generation = mapping.snapshot.generation
              /\ judged'.request = reference.request
              /\ judged'.snapshot = mapping.snapshot,
           judged' \in Judgement,
           UNCHANGED <<lease, planning, health, losses>>,
           mapping' \in Build, mapping'.at \notin {"BUILDING", "JUDGED"},
           mapping'.snapshot.generation <= mapping.snapshot.generation + 1
    PROVE  IInv'
<1> DEFINE g == mapping.snapshot.generation
<1>1. /\ mapping.health_epoch = minco.map_health_epoch
      /\ g = minco.next_map_generation + 1
  BY Zenon DEF ChangedMeanwhile
<1>2. mapping.snapshot.received = losses
  BY <1>1, SMT DEF IInv, JudgementInv, MapSound, BuildSound
<1>3. minco.next_map_generation \in Nat
  BY Unpacked, MincoFields
<1>4. MapSound'
  BY <1>2, SMT DEF IInv, JudgementInv, MapSound
<1>5. BuildSound'
  BY Zenon DEF BuildSound
<1>6. PlanSound'
  BY <1>1, <1>3, Unpacked, PlanFields, SMT DEF IInv, JudgementInv, PlanSound
<1>7. ReferenceJudgedOnItsMap'
  BY <1>2, SMT DEF ReferenceJudgedOnItsMap
<1>8. mapping'.snapshot.generation <= minco'.next_map_generation + 1
  BY Zenon
<1>9. minco'.latest_map_snapshot.generation \in {0, minco'.next_map_generation}
  BY Zenon
<1>10. TypeOK'
  BY <1>8, <1>9, Unpacked, Zenon DEF TypeOK, Outputs
<1> QED
  BY <1>4, <1>5, <1>6, <1>7, <1>10, Zenon DEF IInv, JudgementInv

LEMMA CommitRetainingKeeps ==
    ASSUME IInv, NEW verdict, CommitRetaining(verdict)
    PROVE  IInv'
<1> DEFINE g == mapping.snapshot.generation
           request == minco.active_safety_reference.request
           reference == Bound(request, mapping.snapshot)
           kept == WithSnapshot(minco, mapping.snapshot, reference)
<1>1. /\ mapping.at = "JUDGED" /\ ~ChangedMeanwhile /\ Retains(verdict) /\ Quiet
      /\ UNCHANGED <<lease, planning, health, losses>>
      /\ judged' = [request |-> mapping.candidate.request, snapshot |-> mapping.snapshot]
  BY Zenon DEF CommitRetaining
<1>2. minco' = kept \/ minco' = [kept EXCEPT !.replan_advised = request]
  BY Zenon DEF CommitRetaining
<1>3. g \in Nat /\ mapping.snapshot \in Snapshot
  BY Unpacked, BuildFields
<1>4. request \in Request
  BY Unpacked, MincoFields
<1>5. /\ reference \in Reference /\ reference.map_generation = g
      /\ reference.request = request
  BY <1>3, <1>4, SMT DEF Bound
<1> HIDE DEF reference
<1>6. /\ kept \in Minco
      /\ kept.map_health_epoch = minco.map_health_epoch
      /\ kept.next_map_generation = g
      /\ kept.latest_map_snapshot = mapping.snapshot
      /\ kept.active_safety_reference = reference
  <2>1. minco \in Minco /\ mapping.snapshot \in Snapshot /\ reference \in Reference
    BY <1>3, <1>5, Unpacked, Zenon
  <2> QED
    BY <2>1, WithSnapshotSound
<1> HIDE DEF kept
<1>7. [kept EXCEPT !.replan_advised = request] \in Minco
  BY <1>4, <1>6, Zenon DEF Minco
<1>8. SameMap(kept, [kept EXCEPT !.replan_advised = request])
  BY <1>6, SMT DEF Minco, SameMap
<1>9. /\ minco' \in Minco
      /\ minco'.map_health_epoch = minco.map_health_epoch
      /\ minco'.next_map_generation = g
      /\ minco'.latest_map_snapshot = mapping.snapshot
      /\ minco'.active_safety_reference = reference
  BY <1>2, <1>6, <1>7, <1>8, Zenon DEF SameMap
<1>10. mapping.candidate.request = request
  BY <1>1, Zenon DEF Retains
<1>11. judged' \in Judgement /\ judged'.request = request /\ judged'.snapshot = mapping.snapshot
  BY <1>1, <1>3, <1>4, <1>10, SMT DEF Judgement
<1>12. Outputs'
  BY <1>1, Unpacked, QuietSound, Zenon
<1>13. mapping' \in {NoBuild, [mapping EXCEPT !.at = "ADVISING"]}
  BY Zenon DEF CommitRetaining
<1>14. /\ mapping'.at \notin {"BUILDING", "JUDGED"} /\ mapping' \in Build
       /\ mapping'.snapshot.generation <= g + 1
  <2>1. [mapping EXCEPT !.at = "ADVISING"] \in Build
    BY Unpacked, SMT DEF Build
  <2>2. /\ [mapping EXCEPT !.at = "ADVISING"].at = "ADVISING"
        /\ [mapping EXCEPT !.at = "ADVISING"].snapshot = mapping.snapshot
    BY Unpacked, SMT DEF Build
  <2>3. CASE mapping' = NoBuild
    BY <1>3, <2>3, NoneTypes, SMT DEF NoBuild
  <2>4. CASE mapping' = [mapping EXCEPT !.at = "ADVISING"]
    <3>1. mapping'.at = "ADVISING" /\ mapping'.snapshot = mapping.snapshot
      BY <2>2, <2>4, Zenon
    <3>2. g <= g + 1
      BY <1>3, SMT
    <3> QED
      BY <2>1, <2>4, <3>1, <3>2, Zenon
  <2> QED
    BY <1>13, <2>3, <2>4, Zenon
<1> QED
  BY <1>1, <1>5, <1>9, <1>11, <1>12, <1>14, NewMap, Zenon

LEMMA CommitDroppingKeeps ==
    ASSUME IInv, NEW verdict, CommitDropping(verdict)
    PROVE  IInv'
<1> DEFINE g == mapping.snapshot.generation
           m == WithSnapshot(minco, mapping.snapshot, NoReference)
           n == PlanInvalidated(m, g)
<1>1. /\ mapping.at = "JUDGED" /\ ~ChangedMeanwhile /\ mapping' = NoBuild
      /\ UNCHANGED <<lease, planning, health, judged, losses>>
  BY Zenon DEF CommitDropping
<1>2. \/ minco' = m /\ Quiet
      \/ PublishInvalidation(n, g, "SNAPSHOT_CHANGED")
  BY Zenon DEF CommitDropping
<1>3. g \in Nat /\ mapping.snapshot \in Snapshot
  BY Unpacked, BuildFields
<1>4. /\ m \in Minco
      /\ m.map_health_epoch = minco.map_health_epoch
      /\ m.next_map_generation = g
      /\ m.latest_map_snapshot = mapping.snapshot
      /\ m.active_safety_reference = NoReference
  <2>1. minco \in Minco /\ mapping.snapshot \in Snapshot /\ NoReference \in Reference
    BY <1>3, Unpacked, NoneTypes, Zenon
  <2> QED
    BY <2>1, WithSnapshotSound
<1> HIDE DEF m
<1>5. n \in Minco /\ SameMap(m, n)
  BY <1>3, <1>4, PlanInvalidatedSound, Zenon
<1> HIDE DEF n
<1>6. SameMap(m, m) /\ "SNAPSHOT_CHANGED" \in Reasons
  BY Zenon DEF SameMap, Reasons
<1>7. minco' \in Minco /\ Outputs' /\ (SameMap(m, minco') \/ SameMap(n, minco'))
  BY <1>2, <1>3, <1>4, <1>5, <1>6, Unpacked, QuietSound, PublishInvalidationSound, Zenon
<1>8. /\ minco'.map_health_epoch = minco.map_health_epoch
      /\ minco'.next_map_generation = g
      /\ minco'.latest_map_snapshot = mapping.snapshot
      /\ minco'.active_safety_reference = NoReference
  BY <1>4, <1>5, <1>7, Zenon DEF SameMap
<1>9. mapping'.at = "IDLE" /\ mapping'.snapshot.generation <= g + 1
  BY <1>1, <1>3, SMT DEF NoBuild
<1>10. mapping'.at \notin {"BUILDING", "JUDGED"}
  BY <1>9, SMT
<1> QED
  BY <1>1, <1>7, <1>8, <1>9, <1>10, Unpacked, NoneTypes, NewMap, Zenon

LEMMA AdviseReplanKeeps ==
    ASSUME IInv, AdviseReplan
    PROVE  IInv'
<1>1. /\ Heard(Status(mapping.candidate.request, mapping.snapshot.generation,
                      "ACCEPTED", "REPLAN_ADVISED"))
      /\ mapping' = NoBuild
      /\ UNCHANGED <<minco, lease, planning, health, judged, losses>>
  BY Zenon DEF AdviseReplan
<1>2. Status(mapping.candidate.request, mapping.snapshot.generation,
             "ACCEPTED", "REPLAN_ADVISED") \in PlannerStatus
  BY Unpacked, BuildFields, StatusType, SMT DEF Reasons
<1>3. Outputs'
  BY <1>1, <1>2, Unpacked, HeardSound, Zenon
<1>4. NoBuild.at = "IDLE" /\ NoBuild.snapshot.generation <= minco.next_map_generation + 1
  BY Unpacked, MincoFields, SMT DEF NoBuild
<1>5. mapping'.at \notin {"BUILDING", "JUDGED"}
  BY <1>1, <1>4, SMT
<1> QED
  BY <1>1, <1>3, <1>4, <1>5, Unpacked, NoneTypes, Steady, Zenon

-----------------------------------------------------------------------------
(* The planning group.                                                     *)

LEMMA RequestsTyped == \A r \in Requests : r \in Request
<1>1. Goals \subseteq Nat /\ Epochs \subseteq Nat /\ Sequences \subseteq Nat
  BY MincoAssumption, Zenon
<1> SUFFICES ASSUME NEW r \in Requests PROVE r \in Request
  OBVIOUS
<1>2. r.goal \in Goals /\ r.epoch \in Epochs /\ r.sequence \in Sequences
  BY SMT
<1>3. r.goal \in Nat /\ r.epoch \in Nat /\ r.sequence \in Nat
  BY <1>1, <1>2, Zenon
<1>4. r = [goal |-> r.goal, epoch |-> r.epoch, sequence |-> r.sequence]
  BY SMT
<1> QED
  BY <1>3, <1>4, Zenon

LEMMA FailingType ==
    ASSUME IInv, NEW reason \in Reasons
    PROVE  LET p == [planning EXCEPT !.at = "FAILING", !.reason = reason]
           IN  p \in Plan /\ p.at # "PLANNING"
<1> DEFINE p == [planning EXCEPT !.at = "FAILING", !.reason = reason]
<1>1. "FAILING" \in {"IDLE", "ACCEPTED", "DISARMING", "STARTING", "PLANNING",
           "FAILING", "DROPPING", "FAILED_DISARMING", "REPORTING"}
  BY Zenon
<1>2. p \in Plan
  BY <1>1, Unpacked, Zenon DEF Plan
<1>3. p.at = "FAILING"
  BY Unpacked, SMT DEF Plan
<1> QED
  BY <1>2, <1>3, SMT

LEMMA ReceiveKeeps ==
    ASSUME IInv, NEW r \in Requests, NEW at \in {"ACCEPTED", "IDLE"},
           NEW s \in PlannerStatus, s.state \in {"ACCEPTED", "FAILED"},
           Receive(r, s, at)
    PROVE  IInv'
<1> DEFINE stamped == Stamped(minco, s)
<1>1. /\ minco' = Recorded(minco, stamped)
      /\ UNCHANGED <<lease, mapping, health, judged, losses>>
      /\ planning' = [at |-> at, request |-> r, keep |-> FALSE,
                      snapshot |-> NoSnapshot, health_epoch |-> 0, reason |-> "NONE"]
      /\ published' \in {stamped, s, Silence}
      /\ reply' \in {s.state, "NOTHING"}
      /\ granted' \in {NoRequest, granted}
  BY Zenon DEF Receive
<1>2. stamped \in PlannerStatus
  BY Unpacked, StampedType
<1> HIDE DEF stamped
<1>3. minco' \in Minco /\ SameMap(minco, minco')
  BY <1>1, <1>2, Unpacked, RecordedSound, Zenon
<1>4. published' \in PlannerStatus
  BY <1>1, <1>2, SilenceType, Zenon
<1>5. reply' \in {"NOTHING", "ACCEPTED", "ANSWERED", "FAILED"}
  BY <1>1, SMT
<1>6. granted' \in Request
  <2>1. granted \in Request
    BY Unpacked, Zenon DEF Outputs
  <2> QED
    BY <1>1, <2>1, NoneTypes, Zenon
<1>7. Outputs'
  BY <1>4, <1>5, <1>6, Zenon DEF Outputs
<1>8. r \in Request
  BY RequestsTyped
<1>9. planning' \in Plan /\ planning'.at # "PLANNING"
  BY <1>1, <1>8, NoneTypes, SMT DEF Plan, Reasons
<1>10. /\ minco'.map_health_epoch = minco.map_health_epoch
       /\ minco'.next_map_generation = minco.next_map_generation
       /\ minco'.latest_map_snapshot = minco.latest_map_snapshot
       /\ minco'.active_safety_reference = minco.active_safety_reference
  BY <1>3, Zenon DEF SameMap
<1> QED
  BY <1>1, <1>3, <1>7, <1>9, <1>10, Unpacked, Steady, Zenon

LEMMA PlannerGoalKeeps ==
    ASSUME IInv, NEW r \in Requests, OnPlannerGoal(r) \/ OnUnusableStart(r)
    PROVE  IInv'
<1>1. r \in Request
  BY RequestsTyped
<1>2. CASE OnPlannerGoal(r)
  <2> DEFINE s == Status(r, 0, "ACCEPTED", "NONE")
  <2>1. s \in PlannerStatus
    BY <1>1, StatusType, SMT DEF Reasons
  <2>2. s.state = "ACCEPTED"
    BY SMT DEF Status
  <2>3. Receive(r, s, "ACCEPTED")
    BY <1>2, Zenon DEF OnPlannerGoal
  <2> HIDE DEF s
  <2> QED
    BY <2>1, <2>2, <2>3, ReceiveKeeps, Zenon
<1>3. CASE OnUnusableStart(r)
  <2> DEFINE s == Failed(r, 0, "PLANNING")
  <2>1. s \in PlannerStatus
    BY <1>1, StatusType, SMT DEF Reasons, Failed
  <2>2. s.state = "FAILED"
    BY SMT DEF Status, Failed
  <2>3. Receive(r, s, "IDLE")
    BY <1>3, Zenon DEF OnUnusableStart
  <2> HIDE DEF s
  <2> QED
    BY <2>1, <2>2, <2>3, ReceiveKeeps, Zenon
<1> QED
  BY <1>2, <1>3

(* A step of the plan that at most drops or keeps the reference.           *)
LEMMA PlanStepKeeps ==
    ASSUME IInv, Outputs', UNCHANGED <<lease, mapping, health, judged, losses>>,
           NEW m \in Minco, minco' \in Minco, SameMap(m, minco'),
           m.map_health_epoch = minco.map_health_epoch,
           m.next_map_generation = minco.next_map_generation,
           m.latest_map_snapshot = minco.latest_map_snapshot,
           m.active_safety_reference
               \in {minco.active_safety_reference, NoReference},
           planning' \in Plan, planning'.at # "PLANNING"
    PROVE  IInv'
<1>1. /\ minco'.map_health_epoch = minco.map_health_epoch
      /\ minco'.next_map_generation = minco.next_map_generation
      /\ minco'.latest_map_snapshot = minco.latest_map_snapshot
      /\ minco'.active_safety_reference
             \in {minco.active_safety_reference, NoReference}
  BY Zenon DEF SameMap
<1> QED
  BY <1>1, Unpacked, Steady, Zenon

LEMMA StepType ==
    ASSUME IInv,
           NEW at \in {"IDLE", "STARTING", "DROPPING", "FAILED_DISARMING", "REPORTING"},
           Step(at)
    PROVE  planning' \in Plan /\ planning'.at # "PLANNING"
<1>1. planning' = [planning EXCEPT !.at = at]
  BY Zenon DEF Step
<1> QED
  BY <1>1, Unpacked, SMT DEF Plan

LEMMA DroppedSound ==
    ASSUME NEW m \in Minco
    PROVE  /\ [m EXCEPT !.active_safety_reference = NoReference] \in Minco
           /\ [m EXCEPT !.active_safety_reference = NoReference].map_health_epoch
                  = m.map_health_epoch
           /\ [m EXCEPT !.active_safety_reference = NoReference].next_map_generation
                  = m.next_map_generation
           /\ [m EXCEPT !.active_safety_reference = NoReference].latest_map_snapshot
                  = m.latest_map_snapshot
           /\ [m EXCEPT !.active_safety_reference = NoReference].active_safety_reference
                  = NoReference
<1>1. [m EXCEPT !.active_safety_reference = NoReference] \in Minco
  BY NoneTypes, Zenon DEF Minco
<1> QED
  BY <1>1, SMT DEF Minco

LEMMA SafetySound ==
    ASSUME NEW m \in Minco, NEW safe \in BOOLEAN
    PROVE  /\ [m EXCEPT !.plan_safe = safe] \in Minco
           /\ SameMap(m, [m EXCEPT !.plan_safe = safe])
<1>1. [m EXCEPT !.plan_safe = safe] \in Minco
  BY Zenon DEF Minco
<1>2. SameMap(m, [m EXCEPT !.plan_safe = safe])
  BY SMT DEF Minco, SameMap
<1> QED
  BY <1>1, <1>2, Zenon

LEMMA ForgottenAdviceSound ==
    ASSUME NEW m \in Minco
    PROVE  /\ [m EXCEPT !.replan_advised = NoRequest] \in Minco
           /\ SameMap(m, [m EXCEPT !.replan_advised = NoRequest])
<1>1. [m EXCEPT !.replan_advised = NoRequest] \in Minco
  BY NoneTypes, Zenon DEF Minco
<1>2. SameMap(m, [m EXCEPT !.replan_advised = NoRequest])
  BY SMT DEF Minco, SameMap
<1> QED
  BY <1>1, <1>2, Zenon

LEMMA SameMapReflexive == \A m : SameMap(m, m)
  BY Zenon DEF SameMap

LEMMA PlanBeginsKeeps ==
    ASSUME IInv, PlanBegins
    PROVE  IInv'
<1> DEFINE at == IF KeepsReference THEN "STARTING" ELSE "DISARMING"
           m == [minco EXCEPT !.active_safety_reference = NoReference]
<1>1. /\ Quiet /\ UNCHANGED <<lease, mapping, health, judged, losses>>
      /\ planning' = [planning EXCEPT !.keep = KeepsReference, !.at = at]
      /\ minco' \in {minco, m}
  BY Zenon DEF PlanBegins
<1>2. KeepsReference \in BOOLEAN
  BY Zenon DEF KeepsReference
<1>3. at \in {"STARTING", "DISARMING"}
  BY Zenon
<1> HIDE DEF at
<1>4. planning' \in Plan /\ planning'.at # "PLANNING"
  <2>1. at \in {"IDLE", "ACCEPTED", "DISARMING", "STARTING", "PLANNING",
           "FAILING", "DROPPING", "FAILED_DISARMING", "REPORTING"}
    BY <1>3, Zenon
  <2>2. planning' \in Plan
    BY <1>1, <1>2, <2>1, Unpacked, Zenon DEF Plan
  <2>3. planning'.at = at
    BY <1>1, Unpacked, Zenon DEF Plan
  <2> QED
    BY <1>3, <2>2, <2>3, SMT
<1>5. Outputs'
  BY <1>1, Unpacked, QuietSound, Zenon
<1>6. minco \in Minco
  BY Unpacked
<1>7. /\ m \in Minco
      /\ m.map_health_epoch = minco.map_health_epoch
      /\ m.next_map_generation = minco.next_map_generation
      /\ m.latest_map_snapshot = minco.latest_map_snapshot
      /\ m.active_safety_reference = NoReference
  BY <1>6, DroppedSound
<1> HIDE DEF m
<1>8. CASE minco' = minco
  BY <1>1, <1>4, <1>5, <1>6, <1>8, SameMapReflexive, PlanStepKeeps, Zenon
<1>9. CASE minco' = m
  BY <1>1, <1>4, <1>5, <1>7, <1>9, SameMapReflexive, PlanStepKeeps, Zenon
<1> QED
  BY <1>1, <1>8, <1>9, Zenon

LEMMA DisarmKeeps ==
    ASSUME IInv, Disarm
    PROVE  IInv'
<1>1. /\ Quiet /\ UNCHANGED <<lease, mapping, health, judged, losses>>
      /\ minco' = [minco EXCEPT !.plan_safe = FALSE]
      /\ Step("STARTING") \/ Step("REPORTING")
  BY Zenon DEF Disarm
<1>2. planning' \in Plan /\ planning'.at # "PLANNING"
  BY <1>1, StepType, Zenon
<1>3. Outputs'
  BY <1>1, Unpacked, QuietSound, Zenon
<1>4. minco' \in Minco /\ SameMap(minco, minco')
  BY <1>1, Unpacked, SafetySound, Zenon
<1> QED
  BY <1>1, <1>2, <1>3, <1>4, Unpacked, PlanStepKeeps, Zenon

(* The plan starts on the very map in force.                               *)
LEMMA CaptureMapKeeps ==
    ASSUME IInv, CaptureMap
    PROVE  IInv'
<1>1. /\ Quiet /\ UNCHANGED <<minco, lease, mapping, health, judged, losses>>
      /\ \/ planning' = [planning EXCEPT !.at = "PLANNING",
                                         !.snapshot = minco.latest_map_snapshot,
                                         !.health_epoch = minco.map_health_epoch]
         \/ planning' = [planning EXCEPT !.at = "FAILING", !.reason = "MAP_UNREADY"]
  BY Zenon DEF CaptureMap
<1>2. minco.latest_map_snapshot \in Snapshot /\ minco.map_health_epoch \in Nat
  BY Unpacked, MincoFields
<1>3. Outputs'
  BY <1>1, Unpacked, QuietSound, Zenon
<1>4. CASE planning' = [planning EXCEPT !.at = "PLANNING",
                                        !.snapshot = minco.latest_map_snapshot,
                                        !.health_epoch = minco.map_health_epoch]
  <2>1. planning' \in Plan
    BY <1>2, <1>4, Unpacked, Zenon DEF Plan
  <2>2. planning'.snapshot = minco.latest_map_snapshot
    BY <1>4, Unpacked, SMT DEF Plan
  <2>3. minco.next_map_generation \in Nat
    BY Unpacked, MincoFields
  <2>4. minco.latest_map_snapshot.generation <= minco.next_map_generation
    BY <2>3, SMT DEF IInv, TypeOK
  <2>5. PlanSound'
    BY <1>1, <2>2, <2>4, SMT DEF PlanSound
  <2>6. MapSound' /\ BuildSound'
    BY <1>1, SMT DEF IInv, JudgementInv, MapSound, BuildSound
  <2>7. ReferenceJudgedOnItsMap'
    BY <1>1, SMT DEF IInv, JudgementInv, ReferenceJudgedOnItsMap
  <2>8. TypeOK'
    BY <1>1, <1>3, <2>1, Zenon DEF IInv, TypeOK, Outputs
  <2> QED
    BY <2>5, <2>6, <2>7, <2>8, Zenon DEF IInv, JudgementInv
<1>5. CASE planning' = [planning EXCEPT !.at = "FAILING", !.reason = "MAP_UNREADY"]
  <2>1. planning' \in Plan /\ planning'.at # "PLANNING"
    BY <1>5, FailingType, Zenon DEF Reasons
  <2> QED
    BY <1>1, <1>3, <2>1, Unpacked, SameMapReflexive, PlanStepKeeps, Zenon
<1> QED
  BY <1>1, <1>4, <1>5, Zenon

LEMMA PlanFailsKeeps ==
    ASSUME IInv, PlanFails
    PROVE  IInv'
<1>1. /\ Quiet /\ UNCHANGED <<minco, lease, mapping, health, judged, losses>>
      /\ planning' = [planning EXCEPT !.at = "FAILING", !.reason = "PLANNING"]
  BY Zenon DEF PlanFails
<1>2. planning' \in Plan /\ planning'.at # "PLANNING"
  BY <1>1, FailingType, Zenon DEF Reasons
<1>3. Outputs'
  BY <1>1, Unpacked, QuietSound, Zenon
<1> QED
  BY <1>1, <1>2, <1>3, Unpacked, SameMapReflexive, PlanStepKeeps, Zenon

(* A plan is committed only on the map it was made on: by PlanSound, equal *)
(* generations mean equal snapshots.                                       *)
LEMMA CommitReferenceKeeps ==
    ASSUME IInv, CommitReference
    PROVE  IInv'
<1> DEFINE reference == Bound(planning.request, planning.snapshot)
           m == [minco EXCEPT !.plan_safe = TRUE, !.active_safety_reference = reference]
           s == Status(planning.request, planning.snapshot.generation, "READY", "NONE")
<1>1. /\ planning.at = "PLANNING" /\ Current /\ Publish(m, s) /\ Step("IDLE")
      /\ judged' = [request |-> planning.request, snapshot |-> planning.snapshot]
      /\ UNCHANGED <<lease, mapping, health, losses>>
  BY Zenon DEF CommitReference
<1>2. /\ planning.request \in Request /\ planning.snapshot \in Snapshot
      /\ planning.snapshot.generation \in Nat
  BY Unpacked, PlanFields
<1>3. /\ reference \in Reference /\ reference.request = planning.request
      /\ reference.map_generation = planning.snapshot.generation
  BY <1>2, SMT DEF Bound
<1>4. s \in PlannerStatus
  BY <1>2, StatusType, SMT DEF Reasons
<1> HIDE DEF reference, s
<1>5. m \in Minco
  BY <1>3, Unpacked, Zenon DEF Minco
<1>6. /\ m.map_health_epoch = minco.map_health_epoch
      /\ m.next_map_generation = minco.next_map_generation
      /\ m.latest_map_snapshot = minco.latest_map_snapshot
      /\ m.active_safety_reference = reference
  BY Unpacked, SMT DEF Minco
<1> HIDE DEF m
<1>7. minco' \in Minco /\ SameMap(m, minco') /\ Outputs'
  BY <1>1, <1>4, <1>5, Unpacked, PublishSound, Zenon
<1>8. /\ minco'.map_health_epoch = minco.map_health_epoch
      /\ minco'.next_map_generation = minco.next_map_generation
      /\ minco'.latest_map_snapshot = minco.latest_map_snapshot
      /\ minco'.active_safety_reference = reference
  BY <1>6, <1>7, Zenon DEF SameMap
<1>9. planning' \in Plan /\ planning'.at # "PLANNING"
  BY <1>1, StepType, Zenon
<1>10. /\ minco.latest_map_snapshot # NoSnapshot
       /\ planning.snapshot = minco.latest_map_snapshot
  BY <1>1, SMT DEF IInv, JudgementInv, PlanSound, Current
<1>11. minco.latest_map_snapshot.received = losses
  BY <1>10, SMT DEF IInv, JudgementInv, MapSound
<1>12. judged'.request = planning.request /\ judged'.snapshot = planning.snapshot
  BY <1>1, SMT
<1>13. judged' \in Judgement
  BY <1>1, <1>2, SMT DEF Judgement
<1>14. MapSound' /\ BuildSound'
  BY <1>1, <1>8, SMT DEF IInv, JudgementInv, MapSound, BuildSound
<1>15. PlanSound'
  BY <1>9, Zenon DEF PlanSound
<1>16. ReferenceJudgedOnItsMap'
  BY <1>1, <1>3, <1>8, <1>10, <1>11, <1>12, SMT DEF ReferenceJudgedOnItsMap
<1>17. minco'.latest_map_snapshot.generation \in {0, minco'.next_map_generation}
  BY <1>8, SMT DEF IInv, TypeOK
<1>18. mapping'.snapshot.generation <= minco'.next_map_generation + 1
  BY <1>1, <1>8, SMT DEF IInv, TypeOK
<1>19. TypeOK'
  BY <1>1, <1>7, <1>9, <1>13, <1>17, <1>18, Unpacked, Zenon DEF TypeOK, Outputs
<1> QED
  BY <1>14, <1>15, <1>16, <1>19, Zenon DEF IInv, JudgementInv

LEMMA CommitTooLateKeeps ==
    ASSUME IInv, CommitTooLate
    PROVE  IInv'
<1>1. /\ lease' = lease /\ mapping' = mapping /\ health' = health
      /\ planning' = [planning EXCEPT !.at = "FAILING", !.reason = "SNAPSHOT_CHANGED"]
  BY Zenon DEF CommitTooLate
<1>2. planning' \in Plan /\ planning'.at # "PLANNING"
  BY <1>1, FailingType, Zenon DEF Reasons
<1>3. CASE InvalidateMap
  BY <1>1, <1>2, <1>3, Unpacked, Lost, Zenon
<1>4. CASE ~InvalidateMap
  <2> DEFINE safe == minco.plan_safe /\ StillGuarded
  <2>1. /\ minco' = [minco EXCEPT !.plan_safe = safe]
        /\ Quiet /\ UNCHANGED <<judged, losses>>
    BY <1>4, Zenon DEF CommitTooLate
  <2>2. safe \in BOOLEAN
    BY Zenon
  <2> HIDE DEF safe
  <2>3. minco' \in Minco /\ SameMap(minco, minco')
    BY <2>1, <2>2, Unpacked, SafetySound, Zenon
  <2>4. Outputs'
    BY <2>1, Unpacked, QuietSound, Zenon
  <2> QED
    BY <1>1, <1>2, <2>1, <2>3, <2>4, Unpacked, PlanStepKeeps, Zenon
<1> QED
  BY <1>3, <1>4

LEMMA FailGuardedKeeps ==
    ASSUME IInv, FailGuarded
    PROVE  IInv'
<1> DEFINE g == IF planning.snapshot.generation # 0
                THEN planning.snapshot.generation ELSE minco.next_map_generation
           s == Status(planning.request, g, "ACCEPTED", planning.reason)
<1>1. /\ minco' = [minco EXCEPT !.replan_advised = NoRequest]
      /\ Heard(s) /\ Step("IDLE")
      /\ UNCHANGED <<lease, mapping, health, judged, losses>>
  BY Zenon DEF FailGuarded
<1>2. /\ planning.request \in Request /\ planning.snapshot.generation \in Nat
      /\ planning.reason \in Reasons /\ minco.next_map_generation \in Nat
  BY Unpacked, PlanFields, MincoFields
<1>3. g \in Nat
  BY <1>2, Zenon
<1> HIDE DEF g
<1>4. s \in PlannerStatus
  BY <1>2, <1>3, StatusType, Zenon
<1> HIDE DEF s
<1>5. Outputs'
  BY <1>1, <1>4, Unpacked, HeardSound, Zenon
<1>6. planning' \in Plan /\ planning'.at # "PLANNING"
  BY <1>1, StepType, Zenon
<1>7. minco' \in Minco /\ SameMap(minco, minco')
  BY <1>1, Unpacked, ForgottenAdviceSound, Zenon
<1> QED
  BY <1>1, <1>5, <1>6, <1>7, Unpacked, PlanStepKeeps, Zenon

LEMMA FailUnguardedKeeps ==
    ASSUME IInv, FailUnguarded
    PROVE  IInv'
<1>1. /\ minco' = [minco EXCEPT !.replan_advised = NoRequest]
      /\ Quiet /\ Step("DROPPING")
      /\ UNCHANGED <<lease, mapping, health, judged, losses>>
  BY Zenon DEF FailUnguarded
<1>2. Outputs'
  BY <1>1, Unpacked, QuietSound, Zenon
<1>3. planning' \in Plan /\ planning'.at # "PLANNING"
  BY <1>1, StepType, Zenon
<1>4. minco' \in Minco /\ SameMap(minco, minco')
  BY <1>1, Unpacked, ForgottenAdviceSound, Zenon
<1> QED
  BY <1>1, <1>2, <1>3, <1>4, Unpacked, PlanStepKeeps, Zenon

LEMMA DropReferenceKeeps ==
    ASSUME IInv, DropReference
    PROVE  IInv'
<1> DEFINE m == [minco EXCEPT !.active_safety_reference = NoReference]
<1>1. /\ minco' = m /\ Quiet /\ Step("FAILED_DISARMING")
      /\ UNCHANGED <<lease, mapping, health, judged, losses>>
  BY Zenon DEF DropReference
<1>2. Outputs'
  BY <1>1, Unpacked, QuietSound, Zenon
<1>3. planning' \in Plan /\ planning'.at # "PLANNING"
  BY <1>1, StepType, Zenon
<1>4. minco \in Minco
  BY Unpacked
<1>5. /\ m \in Minco
      /\ m.map_health_epoch = minco.map_health_epoch
      /\ m.next_map_generation = minco.next_map_generation
      /\ m.latest_map_snapshot = minco.latest_map_snapshot
      /\ m.active_safety_reference = NoReference
  BY <1>4, DroppedSound
<1> HIDE DEF m
<1> QED
  BY <1>1, <1>2, <1>3, <1>5, SameMapReflexive, PlanStepKeeps, Zenon

LEMMA ReportFailureKeeps ==
    ASSUME IInv, ReportFailure
    PROVE  IInv'
<1> DEFINE s == Failed(planning.request, planning.snapshot.generation, planning.reason)
<1>1. /\ Publish(minco, s) /\ Step("IDLE")
      /\ UNCHANGED <<lease, mapping, health, judged, losses>>
  BY Zenon DEF ReportFailure
<1>2. /\ planning.request \in Request /\ planning.snapshot.generation \in Nat
      /\ planning.reason \in Reasons
  BY Unpacked, PlanFields
<1>3. s \in PlannerStatus
  BY <1>2, StatusType, SMT DEF Failed
<1> HIDE DEF s
<1>4. minco' \in Minco /\ SameMap(minco, minco') /\ Outputs'
  BY <1>1, <1>3, Unpacked, PublishSound, Zenon
<1>5. planning' \in Plan /\ planning'.at # "PLANNING"
  BY <1>1, StepType, Zenon
<1> QED
  BY <1>1, <1>4, <1>5, Unpacked, PlanStepKeeps, Zenon

-----------------------------------------------------------------------------
(* The invariant.                                                          *)

LEMMA InitSound == Init => IInv
<1> SUFFICES ASSUME Init PROVE IInv
  OBVIOUS
<1>1. Silence \in PlannerStatus
  BY SilenceType
<1>2. minco \in Minco
  BY <1>1, NoneTypes, SMT DEF Init, Minco
<1>3. planning \in Plan /\ mapping \in Build /\ health \in Recheck
  BY NoneTypes, SMT DEF Init, NoPlan, Plan, Reasons
<1>4. judged \in Judgement /\ granted \in Request
  BY NoneTypes, SMT DEF Init, Judgement
<1>5. /\ minco.latest_map_snapshot.generation \in {0, minco.next_map_generation}
      /\ mapping.snapshot.generation <= minco.next_map_generation + 1
  BY SMT DEF Init, NoBuild
<1>6. TypeOK
  <2>1. /\ lease \in BOOLEAN /\ published \in PlannerStatus
        /\ reply \in {"NOTHING", "ACCEPTED", "ANSWERED", "FAILED"} /\ losses \in Nat
    BY <1>1, Zenon DEF Init
  <2> QED
    BY <1>2, <1>3, <1>4, <1>5, <2>1, Zenon DEF TypeOK
<1>7. MapSound /\ BuildSound /\ PlanSound
  BY SMT DEF Init, MapSound, BuildSound, PlanSound, NoBuild, NoPlan
<1>8. ReferenceJudgedOnItsMap
  BY SMT DEF Init, ReferenceJudgedOnItsMap
<1> QED
  BY <1>6, <1>7, <1>8, Zenon DEF IInv, JudgementInv

LEMMA Inductive == IInv /\ [Next]_vars => IInv'
<1> SUFFICES ASSUME IInv, [Next]_vars PROVE IInv'
  OBVIOUS
<1>1. CASE LeaseRunsOut
  BY <1>1, LeaseRunsOutKeeps
<1>2. CASE HealthStep
  <2>1. \/ \E ready \in BOOLEAN : OnMapReady(ready)
        \/ OnMapReadyWatchdog
        \/ RecheckBegins \/ RecheckPasses \/ RecheckCondemns
    BY <1>2, Zenon DEF HealthStep
  <2> QED
    BY <2>1, MapReadyKeeps, WatchdogKeeps, RecheckBeginsKeeps, RecheckPassesKeeps,
       RecheckCondemnsKeeps, Zenon
<1>3. CASE MapStep
  <2>1. \/ OnSnapshotWithdrawn
        \/ \E content \in Contents : BuildBegins(content)
        \/ BuildFails \/ BuildEnds \/ DiscardSnapshot
        \/ \E verdict \in Verdicts : CommitRetaining(verdict) \/ CommitDropping(verdict)
        \/ AdviseReplan
    BY <1>3, Zenon DEF MapStep
  <2>2. CASE \E verdict \in Verdicts : CommitRetaining(verdict) \/ CommitDropping(verdict)
    BY <2>2, CommitRetainingKeeps, CommitDroppingKeeps, Zenon
  <2> QED
    BY <2>1, <2>2, SnapshotWithdrawnKeeps, BuildBeginsKeeps, BuildFailsKeeps,
       BuildEndsKeeps, DiscardSnapshotKeeps, AdviseReplanKeeps, Zenon
<1>4. CASE PlanStep
  <2>1. \/ \E r \in Requests : OnPlannerGoal(r) \/ OnUnusableStart(r)
        \/ PlanBegins \/ Disarm \/ CaptureMap \/ PlanFails
        \/ CommitReference \/ CommitTooLate
        \/ FailGuarded \/ FailUnguarded \/ DropReference \/ ReportFailure
    BY <1>4, Zenon DEF PlanStep
  <2>2. CASE \E r \in Requests : OnPlannerGoal(r) \/ OnUnusableStart(r)
    BY <2>2, PlannerGoalKeeps
  <2> QED
    BY <2>1, <2>2, PlanBeginsKeeps, DisarmKeeps, CaptureMapKeeps, PlanFailsKeeps,
       CommitReferenceKeeps, CommitTooLateKeeps, FailGuardedKeeps, FailUnguardedKeeps,
       DropReferenceKeeps, ReportFailureKeeps, Zenon
<1>5. CASE UNCHANGED vars
  BY <1>5, SMT DEF vars, locals, history, IInv, TypeOK, JudgementInv, MapSound,
     BuildSound, PlanSound, ReferenceJudgedOnItsMap
<1> QED
  BY <1>1, <1>2, <1>3, <1>4, <1>5, Zenon DEF Next

(* Every reachable state is well typed, and the snapshot counter is never  *)
(* behind what was committed.                                              *)
THEOREM TypeCorrect == Spec => []TypeOK
<1>1. IInv => TypeOK
  BY Zenon DEF IInv
<1> QED
  BY <1>1, InitSound, Inductive, PTL DEF Spec

(* The judgement and the map it was made on hold together, inductively.    *)
THEOREM JudgementHolds == Spec => []JudgementInv
<1>1. IInv => JudgementInv
  BY Zenon DEF IInv
<1> QED
  BY <1>1, InitSound, Inductive, PTL DEF Spec

(* The reference the robot may follow was last found safe on the very map  *)
(* in force, received after the last loss, for every number of requests,   *)
(* maps and losses.                                                        *)
THEOREM Judged == Spec => []ReferenceJudgedOnItsMap
<1>1. IInv => ReferenceJudgedOnItsMap
  BY Zenon DEF IInv, JudgementInv
<1> QED
  BY <1>1, InitSound, Inductive, PTL DEF Spec

-----------------------------------------------------------------------------
(* What is announced.  The consumers hold on to the reference that is      *)
(* watched, and an accepted request is answered: both rest on statuses not *)
(* being dropped, which depends on the order of requests and generations.  *)

UpTo(r, s) ==
    /\ r.epoch <= s.epoch
    /\ r.goal < s.goal \/ (r.goal = s.goal /\ r.sequence <= s.sequence)

(* No status and no plan names a map that has not come yet, and a recheck  *)
(* looks at the map its reference was judged on.                           *)
RecordSound ==
    /\ minco.latest.state = "NONE" => minco.latest = Silence
    /\ minco.latest.generation <= minco.next_map_generation
    /\ planning.snapshot.generation <= minco.next_map_generation
    /\ minco.latest_map_snapshot = NoSnapshot =>
           minco.active_safety_reference = NoReference
    /\ health.at = "CHECKING" => health.generation = health.reference.map_generation

(* No request known to anyone is later than the one handled last.          *)
InOrder ==
    /\ UpTo(minco.latest.request, planning.request)
    /\ UpTo(minco.active_safety_reference.request, planning.request)
    /\ UpTo(health.reference.request, planning.request)
    /\ UpTo(granted, planning.request)

(* A READY stays the latest status only as long as no plan is under way    *)
(* and its reference, on whichever map since, is the one watched.          *)
GrantSound ==
    /\ minco.latest.state \in {"NONE", "FAILED"} => granted = NoRequest
    /\ minco.latest.state = "ACCEPTED" => granted # minco.latest.request
    /\ minco.latest.state = "READY" =>
           /\ planning.at = "IDLE"
           /\ granted = minco.latest.request
           /\ minco.active_safety_reference.request = granted
           /\ minco.latest.generation <= minco.active_safety_reference.map_generation
           /\ minco.plan_safe

(* An unanswered acceptance is still the latest status, on a map no newer  *)
(* than the one the plan is made on, so the answer will not be dropped.    *)
AnswerSound ==
    reply = "ACCEPTED" /\ minco.latest.request = planning.request =>
        /\ planning.at # "IDLE"
        /\ minco.latest.state = "ACCEPTED"
        /\ planning.snapshot.generation # 0 =>
               minco.latest.generation <= planning.snapshot.generation

Announced == RecordSound /\ InOrder /\ GrantSound /\ AnswerSound

AInv == IInv /\ Announced

(* What the record, the guarded reference and the recheck are made of.     *)
LEMMA AnnouncedFields ==
    ASSUME IInv
    PROVE  /\ minco \in Minco /\ minco.latest \in PlannerStatus
           /\ minco.latest.request \in Request /\ minco.latest.generation \in Nat
           /\ minco.latest.state \in {"NONE", "ACCEPTED", "READY", "FAILED"}
           /\ minco.next_map_generation \in Nat
           /\ minco.active_safety_reference.request \in Request
           /\ minco.active_safety_reference.map_generation \in Nat
           /\ health.reference.request \in Request /\ health.generation \in Nat
           /\ planning \in Plan /\ planning.request \in Request
           /\ planning.snapshot.generation \in Nat
           /\ granted \in Request
<1>1. minco \in Minco /\ planning \in Plan /\ health \in Recheck /\ granted \in Request
  BY Unpacked, Zenon DEF Outputs
<1>2. minco.latest \in PlannerStatus /\ minco.next_map_generation \in Nat
  BY <1>1, Zenon DEF Minco
<1>3. /\ minco.latest.request \in Request /\ minco.latest.generation \in Nat
      /\ minco.latest.state \in {"NONE", "ACCEPTED", "READY", "FAILED"}
  BY <1>2, Zenon DEF PlannerStatus
<1>4. /\ minco.active_safety_reference.request \in Request
      /\ minco.active_safety_reference.map_generation \in Nat
  BY <1>1, SMT DEF Minco
<1>5. health.reference.request \in Request /\ health.generation \in Nat
  BY <1>1, SMT DEF Recheck
<1> QED
  BY <1>1, <1>2, <1>3, <1>4, <1>5, PlanFields, Zenon

LEMMA UpToSelf ==
    ASSUME NEW r \in Request
    PROVE  UpTo(r, r) /\ UpTo(NoRequest, r)
  BY SMT DEF UpTo

(* A new request is later than every request up to the last one.           *)
LEMMA FollowingIsLater ==
    ASSUME NEW q \in Request, NEW last \in Request, NEW r \in Request,
           UpTo(q, last), Follows(r, last)
    PROVE  UpTo(q, r) /\ q # r
  BY SMT DEF UpTo, Follows

(* When a status is not dropped.                                           *)
LEMMA NotDropped ==
    ASSUME NEW latest \in PlannerStatus, NEW s \in PlannerStatus,
           UpTo(latest.request, s.request), latest.generation <= s.generation,
           \/ latest.state # "FAILED"
           \/ s.reason = "MAP_UNREADY"
           \/ latest.generation < s.generation
    PROVE  Admissible(latest, s)
<1>1. /\ latest.request \in Request /\ s.request \in Request
      /\ latest.generation \in Nat /\ s.generation \in Nat
  BY Zenon DEF PlannerStatus
<1>2. \/ s.request.epoch > latest.request.epoch
      \/ s.request.epoch = latest.request.epoch
  BY <1>1, SMT DEF UpTo
<1>3. ~Outdated(s.request, latest.request)
  BY <1>1, SMT DEF UpTo, Outdated
<1> QED
  BY <1>1, <1>2, <1>3, SMT DEF Admissible

(* A recorded status becomes the latest and leaves the rest.               *)
LEMMA RecordedFields ==
    ASSUME NEW m \in Minco, NEW s \in PlannerStatus
    PROVE  /\ Admissible(m.latest, s) =>
                  /\ Recorded(m, s).latest = s
                  /\ Recorded(m, s).plan_safe = m.plan_safe
                  /\ SameMap(m, Recorded(m, s))
           /\ ~Admissible(m.latest, s) => Recorded(m, s) = m
<1>1. [m EXCEPT !.latest = s].latest = s
  BY SMT DEF Minco
<1>2. [m EXCEPT !.latest = s].plan_safe = m.plan_safe
  BY SMT DEF Minco
<1>3. SameMap(m, Recorded(m, s))
  BY RecordedSound
<1> QED
  BY <1>1, <1>2, <1>3, Zenon DEF Recorded

LEMMA StampedFields ==
    ASSUME NEW m \in Minco, NEW s \in PlannerStatus
    PROVE  /\ Stamped(m, s).request = s.request /\ Stamped(m, s).state = s.state
           /\ Stamped(m, s).reason = s.reason
           /\ Stamped(m, s).generation =
                  IF s.generation = 0 THEN m.next_map_generation ELSE s.generation
  BY SMT DEF Stamped, PlannerStatus

LEMMA StatusFields ==
    ASSUME NEW r, NEW g, NEW state, NEW reason
    PROVE  /\ Status(r, g, state, reason).request = r
           /\ Status(r, g, state, reason).generation = g
           /\ Status(r, g, state, reason).state = state
           /\ Status(r, g, state, reason).reason = reason
  BY SMT DEF Status

-----------------------------------------------------------------------------
(* The kinds of steps, as far as announcements go.                         *)

(* A step that records no status.                                          *)
LEMMA SilentKeeps ==
    ASSUME AInv, IInv', RecordSound',
           minco'.latest = minco.latest, granted' = granted,
           planning'.request = planning.request,
           \/ minco'.active_safety_reference.request
                  \in {minco.active_safety_reference.request, NoRequest}
           \/ minco'.active_safety_reference.request = planning.request,
           health'.reference.request \in
               {health.reference.request, minco.active_safety_reference.request,
                NoRequest},
           minco.latest.state = "READY" =>
               /\ planning'.at = "IDLE" /\ minco'.plan_safe
               /\ minco'.active_safety_reference.request =
                      minco.active_safety_reference.request
               /\ minco.active_safety_reference.map_generation <=
                      minco'.active_safety_reference.map_generation,
           reply' \in {reply, "ANSWERED"},
           AnswerSound'
    PROVE  AInv'
<1>1. InOrder'
  BY AnnouncedFields, UpToSelf, Zenon DEF AInv, Announced, InOrder
<1>2. /\ minco.latest.generation \in Nat
      /\ minco.active_safety_reference.map_generation \in Nat
      /\ minco'.active_safety_reference.map_generation \in Nat
  <2>1. minco'.active_safety_reference.map_generation \in Nat
    BY SMT DEF IInv, TypeOK, Minco
  <2> QED
    BY <2>1, AnnouncedFields, Zenon DEF AInv
<1>3. GrantSound'
  BY <1>2, SMT DEF AInv, Announced, GrantSound
<1> QED
  BY <1>1, <1>3, Zenon DEF AInv, Announced

(* A step that takes back whatever was offered.                            *)
LEMMA FailureKeeps ==
    ASSUME AInv, IInv', RecordSound',
           minco'.latest.state \in {"NONE", "FAILED"}, granted' = NoRequest,
           UpTo(minco'.latest.request, planning'.request),
           UpTo(minco'.active_safety_reference.request, planning'.request),
           UpTo(health'.reference.request, planning'.request),
           reply' = "ACCEPTED" => minco'.latest.request # planning'.request
    PROVE  AInv'
<1>1. planning'.request \in Request
  BY Zenon DEF IInv, TypeOK, Plan
<1>2. InOrder'
  BY <1>1, UpToSelf, Zenon DEF InOrder
<1>3. GrantSound'
  BY SMT DEF GrantSound
<1>4. AnswerSound'
  BY Zenon DEF AnswerSound
<1> QED
  BY <1>2, <1>3, <1>4, Zenon DEF AInv, Announced

(* What becomes of the record when the latest status is invalidated.       *)
LEMMA Invalidated ==
    ASSUME AInv, NEW m \in Minco, m.latest = minco.latest,
           NEW g \in Nat, NEW reason \in Reasons,
           minco.latest.generation <= g,
           reason = "MAP_UNREADY" \/ minco.latest.generation < g,
           PublishInvalidation(m, g, reason)
    PROVE  /\ minco'.latest.state \in {"NONE", "FAILED"}
           /\ minco'.latest.state = "NONE" => minco'.latest = Silence
           /\ minco'.latest.request = minco.latest.request
           /\ minco'.latest.generation \in {minco.latest.generation, g}
           /\ granted' = NoRequest
           /\ reply' = "ACCEPTED" => minco.latest.request # planning.request
           /\ SameMap(m, minco')
<1> DEFINE s == Failed(m.latest.request, g, reason)
<1>1. /\ minco.latest \in PlannerStatus /\ minco.latest.request \in Request
      /\ minco.latest.generation \in Nat
  BY AnnouncedFields DEF AInv
<1>2. CASE m.latest = Silence
  <2>1. minco' = m /\ reply' = reply /\ granted' = granted
    BY <1>2, Zenon DEF PublishInvalidation, Quiet
  <2>2. minco.latest.state = "NONE" /\ minco.latest = Silence
    BY <1>2, SMT DEF Silence
  <2>3. granted = NoRequest
    BY <2>2, Zenon DEF AInv, Announced, GrantSound
  <2>4. reply = "ACCEPTED" => minco.latest.request # planning.request
    BY <2>2, SMT DEF AInv, Announced, AnswerSound
  <2> QED
    BY <2>1, <2>2, <2>3, <2>4, SameMapReflexive, Zenon
<1>3. CASE m.latest # Silence
  <2>1. /\ s \in PlannerStatus /\ s.request = minco.latest.request
        /\ s.generation = g /\ s.state = "FAILED" /\ s.reason = reason
    BY <1>1, StatusType, StatusFields, SMT DEF Failed
  <2>2. /\ minco' = Recorded(m, s)
        /\ IF Admissible(m.latest, s) THEN Heard(s) ELSE Quiet
    BY <1>3, Zenon DEF PublishInvalidation
  <2> HIDE DEF s
  <2>3. Admissible(m.latest, s)
    <3>1. UpTo(minco.latest.request, s.request)
      BY <1>1, <2>1, UpToSelf
    <3> QED
      BY <1>1, <2>1, <3>1, NotDropped, Zenon
  <2>4. minco'.latest = s /\ SameMap(m, minco')
    BY <2>1, <2>2, <2>3, RecordedFields, Zenon
  <2>5. granted' = NoRequest
    BY <2>1, <2>2, <2>3, SMT DEF Heard
  <2>6. reply' = "ACCEPTED" => minco.latest.request # planning.request
    BY <2>1, <2>2, <2>3, SMT DEF Heard
  <2>7. minco'.latest.state = "FAILED"
    BY <2>1, <2>4, Zenon
  <2>8. minco'.latest.state # "NONE" /\ minco'.latest.state \in {"NONE", "FAILED"}
    BY <2>7, SMT
  <2> QED
    BY <2>1, <2>4, <2>5, <2>6, <2>8, Zenon
<1> QED
  BY <1>2, <1>3

(* Losing the map takes back the latest reference, if it was offered.      *)
LEMMA LostAnnounces ==
    ASSUME AInv, IInv', InvalidateMap,
           health' = health, planning'.request = planning.request,
           planning'.snapshot = planning.snapshot
    PROVE  AInv'
<1> DEFINE m == LostMap(minco)
           g == minco.next_map_generation
<1>1. minco \in Minco /\ g \in Nat /\ minco.latest.generation <= g
  BY AnnouncedFields, Zenon DEF AInv, Announced, RecordSound
<1>2. /\ m \in Minco /\ m.next_map_generation = g
      /\ m.latest_map_snapshot = NoSnapshot
      /\ m.active_safety_reference = NoReference
  BY <1>1, LostMapSound
<1>3. m.latest = minco.latest
  BY <1>1, SMT DEF Minco, LostMap
<1>4. PublishInvalidation(m, g, "MAP_UNREADY") /\ "MAP_UNREADY" \in Reasons
  BY Zenon DEF InvalidateMap, Reasons
<1> HIDE DEF m
<1>5. /\ minco'.latest.state \in {"NONE", "FAILED"}
      /\ minco'.latest.state = "NONE" => minco'.latest = Silence
      /\ minco'.latest.request = minco.latest.request
      /\ minco'.latest.generation \in {minco.latest.generation, g}
      /\ granted' = NoRequest
      /\ reply' = "ACCEPTED" => minco.latest.request # planning.request
      /\ SameMap(m, minco')
  BY <1>1, <1>2, <1>3, <1>4, Invalidated, Zenon
<1>6. /\ minco'.next_map_generation = g
      /\ minco'.active_safety_reference = NoReference
  BY <1>2, <1>5, Zenon DEF SameMap
<1>7. RecordSound'
  BY <1>1, <1>5, <1>6, SMT DEF AInv, Announced, RecordSound
<1>8. /\ UpTo(minco'.latest.request, planning'.request)
      /\ UpTo(health'.reference.request, planning'.request)
  BY <1>5, Zenon DEF AInv, Announced, InOrder
<1>9. UpTo(minco'.active_safety_reference.request, planning'.request)
  <2>1. minco'.active_safety_reference.request = NoRequest
    BY <1>6, SMT
  <2> QED
    BY <2>1, AnnouncedFields, UpToSelf, Zenon DEF AInv
<1> QED
  BY <1>5, <1>7, <1>8, <1>9, FailureKeeps, Zenon

(* A step that announces nothing new, besides plans.                       *)
LEMMA AsideKeeps ==
    ASSUME AInv, IInv', granted' = granted, reply' \in {reply, "ANSWERED"},
           planning' = planning,
           minco'.latest = minco.latest, minco'.plan_safe = minco.plan_safe,
           minco'.active_safety_reference = minco.active_safety_reference,
           minco'.next_map_generation = minco.next_map_generation,
           minco'.latest_map_snapshot = minco.latest_map_snapshot,
           health' \in {health, NoRecheck}
    PROVE  AInv'
<1>1. health' = health \/ (health'.at = "IDLE" /\ health'.reference.request = NoRequest)
  <2>1. NoRecheck.at = "IDLE" /\ NoRecheck.reference.request = NoRequest
    BY SMT DEF NoRecheck
  <2> QED
    BY <2>1, Zenon
<1>2. RecordSound'
  BY <1>1, SMT DEF AInv, Announced, RecordSound
<1>3. AnswerSound'
  BY SMT DEF AInv, Announced, AnswerSound
<1>4. minco.latest.state = "READY" => planning.at = "IDLE" /\ minco.plan_safe
  BY Zenon DEF AInv, Announced, GrantSound
<1>5. minco.active_safety_reference.map_generation <=
          minco.active_safety_reference.map_generation
  BY AnnouncedFields, SMT DEF AInv
<1>6. health'.reference.request \in
          {health.reference.request, minco.active_safety_reference.request, NoRequest}
  BY <1>1, Zenon
<1> QED
  BY <1>2, <1>3, <1>4, <1>5, <1>6, SilentKeeps, Zenon

(* A step of a plan that announces nothing new.                            *)
LEMMA UnderWayKeeps ==
    ASSUME AInv, IInv', granted' = granted, reply' \in {reply, "ANSWERED"},
           planning.at # "IDLE", planning'.request = planning.request,
           health' = health,
           minco'.latest = minco.latest,
           minco'.active_safety_reference
               \in {minco.active_safety_reference, NoReference},
           minco'.next_map_generation = minco.next_map_generation,
           minco'.latest_map_snapshot = minco.latest_map_snapshot,
           reply' = "ACCEPTED" => planning'.at # "IDLE",
           \/ planning'.snapshot = planning.snapshot
           \/ /\ minco.latest.generation <= planning'.snapshot.generation
              /\ planning'.snapshot.generation <= minco.next_map_generation
    PROVE  AInv'
<1>1. NoReference.request = NoRequest
  BY SMT
<1>2. minco'.active_safety_reference.request \in
          {minco.active_safety_reference.request, NoRequest}
  BY <1>1, Zenon
<1>3. RecordSound'
  BY SMT DEF AInv, Announced, RecordSound
<1>4. AnswerSound'
  BY SMT DEF AInv, Announced, AnswerSound
<1>5. minco.latest.state # "READY"
  BY Zenon DEF AInv, Announced, GrantSound
<1> QED
  BY <1>2, <1>3, <1>4, <1>5, SilentKeeps, Zenon

-----------------------------------------------------------------------------
(* What is announced, action by action.                                    *)

LEMMA MapReadyAnnounces ==
    ASSUME AInv, IInv', NEW ready \in BOOLEAN, OnMapReady(ready)
    PROVE  AInv'
<1>1. health' = health /\ planning' = planning
  BY Zenon DEF OnMapReady, locals
<1>2. CASE ready
  <2>1. minco' = [minco EXCEPT !.map_ready = TRUE] /\ Quiet
    BY <1>2, Zenon DEF OnMapReady
  <2>2. /\ minco'.latest = minco.latest /\ minco'.plan_safe = minco.plan_safe
        /\ minco'.active_safety_reference = minco.active_safety_reference
        /\ minco'.next_map_generation = minco.next_map_generation
        /\ minco'.latest_map_snapshot = minco.latest_map_snapshot
    BY <2>1, AnnouncedFields, SMT DEF AInv, Minco
  <2> QED
    BY <1>1, <2>1, <2>2, AsideKeeps, Zenon DEF Quiet
<1>3. CASE ~ready
  BY <1>1, <1>3, LostAnnounces, Zenon DEF OnMapReady
<1> QED
  BY <1>2, <1>3

LEMMA LossesAnnounce ==
    ASSUME AInv, IInv', OnMapReadyWatchdog \/ OnSnapshotWithdrawn \/ BuildFails
    PROVE  AInv'
<1>1. InvalidateMap /\ health' = health /\ planning' = planning
  BY Zenon DEF OnMapReadyWatchdog, OnSnapshotWithdrawn, BuildFails, locals
<1> QED
  BY <1>1, LostAnnounces, Zenon

LEMMA AsidesAnnounce ==
    ASSUME AInv, IInv',
           \/ LeaseRunsOut \/ RecheckPasses \/ BuildEnds \/ DiscardSnapshot
           \/ \E content \in Contents : BuildBegins(content)
    PROVE  AInv'
<1>1. Quiet /\ minco' = minco /\ planning' = planning /\ health' \in {health, NoRecheck}
  BY Zenon DEF LeaseRunsOut, RecheckPasses, BuildEnds, DiscardSnapshot, BuildBegins, locals
<1> QED
  BY <1>1, AsideKeeps, Zenon DEF Quiet

LEMMA AdviseAnnounces ==
    ASSUME AInv, IInv', AdviseReplan
    PROVE  AInv'
<1> DEFINE s == Status(mapping.candidate.request, mapping.snapshot.generation,
                       "ACCEPTED", "REPLAN_ADVISED")
<1>1. Heard(s) /\ minco' = minco /\ planning' = planning /\ health' = health
  BY Zenon DEF AdviseReplan
<1>2. s.state = "ACCEPTED"
  BY StatusFields
<1> HIDE DEF s
<1>3. granted' = granted /\ reply' \in {reply, "ANSWERED"}
  BY <1>1, <1>2, SMT DEF Heard
<1> QED
  BY <1>1, <1>3, AsideKeeps, Zenon

(* The recheck looks at the map its reference was judged on.               *)
LEMMA RecheckBeginsAnnounces ==
    ASSUME AInv, IInv', RecheckBegins
    PROVE  AInv'
<1>1. /\ Quiet /\ minco' = minco /\ planning' = planning
      /\ minco.active_safety_reference # NoReference
      /\ health' = [at |-> "CHECKING",
                    reference |-> minco.active_safety_reference,
                    generation |-> minco.latest_map_snapshot.generation]
  BY Zenon DEF RecheckBegins
<1>2. /\ health'.reference = minco.active_safety_reference
      /\ health'.generation = minco.latest_map_snapshot.generation
  BY <1>1, SMT
<1>3. health'.generation = health'.reference.map_generation
  BY <1>1, <1>2, Zenon DEF AInv, IInv, JudgementInv, ReferenceJudgedOnItsMap
<1>4. RecordSound'
  BY <1>1, <1>3, SMT DEF AInv, Announced, RecordSound
<1>5. AnswerSound'
  BY <1>1, SMT DEF AInv, Announced, AnswerSound, Quiet
<1>6. minco.latest.state = "READY" => planning.at = "IDLE" /\ minco.plan_safe
  BY Zenon DEF AInv, Announced, GrantSound
<1>7. minco.active_safety_reference.map_generation <=
          minco.active_safety_reference.map_generation
  BY AnnouncedFields, SMT DEF AInv
<1> QED
  BY <1>1, <1>2, <1>4, <1>5, <1>6, <1>7, SilentKeeps, Zenon DEF Quiet

(* The reference in force names the map in force.                          *)
LEMMA ActiveGeneration ==
    ASSUME IInv
    PROVE  minco.active_safety_reference.map_generation <= minco.next_map_generation
<1>1. minco.next_map_generation \in Nat
  BY AnnouncedFields
<1>2. CASE minco.active_safety_reference = NoReference
  BY <1>1, <1>2, SMT
<1>3. CASE minco.active_safety_reference # NoReference
  BY <1>1, <1>3, SMT DEF IInv, TypeOK, JudgementInv, ReferenceJudgedOnItsMap
<1> QED
  BY <1>2, <1>3

(* What publishing a status of a request up to the last one comes to.      *)
LEMMA Published ==
    ASSUME AInv, NEW m \in Minco, m.latest = minco.latest,
           m.next_map_generation = minco.next_map_generation,
           NEW s \in PlannerStatus, s.generation <= minco.next_map_generation,
           UpTo(s.request, planning.request),
           Publish(m, s)
    PROVE  \/ /\ minco'.latest = Stamped(m, s) /\ SameMap(m, minco')
              /\ minco'.plan_safe = m.plan_safe
              /\ Heard(Stamped(m, s))
           \/ /\ minco' = m /\ Quiet
              /\ ~Admissible(minco.latest, Stamped(m, s))
<1>1. Stamped(m, s) \in PlannerStatus
  BY StampedType
<1> QED
  BY <1>1, RecordedFields, Zenon DEF Publish

(* A condemned reference that was offered is taken back.                   *)
LEMMA RecheckCondemnsAnnounces ==
    ASSUME AInv, IInv', RecheckCondemns
    PROVE  AInv'
<1>1. health.at = "CHECKING" /\ health' = NoRecheck /\ planning' = planning
  BY Zenon DEF RecheckCondemns
<1>2. CASE ~StillInForce
  <2>1. minco' = minco /\ Quiet
    BY <1>2, Zenon DEF RecheckCondemns
  <2> QED
    BY <1>1, <2>1, AsideKeeps, Zenon DEF Quiet
<1>3. CASE StillInForce
  <2> DEFINE m == [minco EXCEPT !.active_safety_reference = NoReference,
                                !.plan_safe = FALSE]
             s == Failed(health.reference.request, health.generation, "RUNTIME_UNSAFE")
             t == Stamped(m, s)
  <2>1. Publish(m, s) /\ health.reference = minco.active_safety_reference
    BY <1>3, Zenon DEF RecheckCondemns, StillInForce
  <2>2. /\ minco \in Minco /\ minco.latest \in PlannerStatus
        /\ minco.latest.request \in Request /\ minco.latest.generation \in Nat
        /\ health.reference.request \in Request /\ health.generation \in Nat
        /\ minco.next_map_generation \in Nat /\ planning.request \in Request
    BY AnnouncedFields, Zenon DEF AInv
  <2>3. m \in Minco
    BY <2>2, NoneTypes, Zenon DEF Minco
  <2>4. /\ m.latest = minco.latest
        /\ m.next_map_generation = minco.next_map_generation
        /\ m.latest_map_snapshot = minco.latest_map_snapshot
        /\ m.active_safety_reference = NoReference
    BY <2>2, SMT DEF Minco
  <2>5. /\ s \in PlannerStatus /\ s.request = health.reference.request
        /\ s.generation = health.generation /\ s.state = "FAILED"
    <3>1. "RUNTIME_UNSAFE" \in Reasons
      BY SMT DEF Reasons
    <3>2. "FAILED" \in {"NONE", "ACCEPTED", "READY", "FAILED"}
      OBVIOUS
    <3>3. s \in PlannerStatus
      BY <2>2, <3>1, <3>2, StatusType, Zenon DEF Failed
    <3> QED
      BY <3>3, StatusFields, SMT DEF Failed
  <2>6. health.generation = minco.active_safety_reference.map_generation
    BY <1>1, <2>1, Zenon DEF AInv, Announced, RecordSound
  <2>7. s.generation <= minco.next_map_generation
    BY <2>5, <2>6, ActiveGeneration, Zenon DEF AInv
  <2>8. UpTo(s.request, planning.request)
    BY <2>5, Zenon DEF AInv, Announced, InOrder
  <2> HIDE DEF m, s
  <2>9. /\ t \in PlannerStatus /\ t.request = s.request /\ t.state = "FAILED"
        /\ t.generation = IF health.generation = 0 THEN minco.next_map_generation
                          ELSE health.generation
    BY <2>3, <2>4, <2>5, StampedType, StampedFields, Zenon
  <2>10. \/ /\ minco'.latest = t /\ SameMap(m, minco') /\ Heard(t)
         \/ /\ minco' = m /\ Quiet /\ ~Admissible(minco.latest, t)
    BY <2>1, <2>3, <2>4, <2>5, <2>7, <2>8, Published, Zenon
  <2> HIDE DEF t
  <2>11. NoRecheck.at = "IDLE" /\ NoRecheck.reference.request = NoRequest
    BY SMT DEF NoRecheck
  <2>12. NoReference.request = NoRequest /\ UpTo(NoRequest, planning.request)
    BY <2>2, UpToSelf, SMT
  <2>13. CASE minco'.latest = t /\ SameMap(m, minco') /\ Heard(t)
    <3>1. granted' = NoRequest /\ (reply' = "ACCEPTED" => t.request # planning.request)
      BY <2>9, <2>13, SMT DEF Heard
    <3>2. /\ minco'.next_map_generation = minco.next_map_generation
          /\ minco'.active_safety_reference = NoReference
      BY <2>4, <2>13, Zenon DEF SameMap
    <3>3. t.generation <= minco.next_map_generation
      BY <2>2, <2>5, <2>7, <2>9, SMT
    <3>4. RecordSound'
      <4>1. planning'.snapshot.generation <= minco.next_map_generation
        BY <1>1, Zenon DEF AInv, Announced, RecordSound
      <4> QED
        BY <1>1, <2>9, <2>11, <2>13, <3>2, <3>3, <4>1, SMT DEF RecordSound
    <3>5. minco'.latest.state \in {"NONE", "FAILED"}
      BY <2>9, <2>13, SMT
    <3> QED
      BY <1>1, <2>8, <2>9, <2>11, <2>12, <2>13, <3>1, <3>2, <3>4, <3>5, FailureKeeps,
         Zenon
  <2>14. CASE minco' = m /\ Quiet /\ ~Admissible(minco.latest, t)
    <3>1. minco.latest.state # "READY"
      <4> SUFFICES ASSUME minco.latest.state = "READY" PROVE FALSE
        OBVIOUS
      <4>1. /\ minco.latest.request = t.request
            /\ minco.latest.generation <= health.generation
        BY <2>1, <2>5, <2>6, <2>9, Zenon DEF AInv, Announced, GrantSound
      <4>2. minco.latest.generation <= minco.next_map_generation
        BY Zenon DEF AInv, Announced, RecordSound
      <4>3. minco.latest.generation <= t.generation
        BY <2>9, <4>1, <4>2, Zenon
      <4>4. UpTo(minco.latest.request, t.request)
        BY <2>2, <4>1, UpToSelf
      <4>5. minco.latest.state # "FAILED"
        BY SMT
      <4> QED
        BY <2>2, <2>9, <2>14, <4>3, <4>4, <4>5, NotDropped, Zenon
    <3>2. RecordSound'
      BY <1>1, <2>4, <2>11, <2>14, SMT DEF AInv, Announced, RecordSound
    <3>3. AnswerSound'
      BY <1>1, <2>4, <2>14, SMT DEF AInv, Announced, AnswerSound, Quiet
    <3> QED
      BY <1>1, <2>4, <2>11, <2>12, <2>14, <3>1, <3>2, <3>3, SilentKeeps, Zenon DEF Quiet
  <2> QED
    BY <2>10, <2>13, <2>14
<1> QED
  BY <1>2, <1>3

LEMMA WithSnapshotFields ==
    ASSUME NEW m \in Minco, NEW snapshot \in Snapshot, NEW reference \in Reference
    PROVE  /\ WithSnapshot(m, snapshot, reference).latest = m.latest
           /\ WithSnapshot(m, snapshot, reference).plan_safe = m.plan_safe
  BY SMT DEF Minco, WithSnapshot

(* A reference that is retained moves on to the new map with its request.  *)
LEMMA RetainingAnnounces ==
    ASSUME AInv, IInv', NEW verdict, CommitRetaining(verdict)
    PROVE  AInv'
<1> DEFINE g == mapping.snapshot.generation
           request == minco.active_safety_reference.request
           reference == Bound(request, mapping.snapshot)
           kept == WithSnapshot(minco, mapping.snapshot, reference)
<1>1. /\ ~ChangedMeanwhile /\ Quiet /\ planning' = planning /\ health' = health
      /\ minco' = kept \/ minco' = [kept EXCEPT !.replan_advised = request]
  BY Zenon DEF CommitRetaining
<1>2. /\ minco \in Minco /\ request \in Request /\ minco.next_map_generation \in Nat
      /\ minco.latest.generation \in Nat /\ planning.snapshot.generation \in Nat
      /\ minco.active_safety_reference.map_generation \in Nat
  BY AnnouncedFields, Zenon DEF AInv
<1>3. g \in Nat /\ mapping.snapshot \in Snapshot
  BY Unpacked, BuildFields DEF AInv
<1>4. g = minco.next_map_generation + 1
  BY <1>1, Zenon DEF ChangedMeanwhile
<1>5. /\ reference \in Reference /\ reference.map_generation = g
      /\ reference.request = request
  BY <1>2, <1>3, SMT DEF Bound
<1> HIDE DEF reference
<1>6. /\ kept \in Minco
      /\ kept.next_map_generation = g
      /\ kept.latest_map_snapshot = mapping.snapshot
      /\ kept.active_safety_reference = reference
      /\ kept.latest = minco.latest /\ kept.plan_safe = minco.plan_safe
  <2>1. minco \in Minco /\ mapping.snapshot \in Snapshot /\ reference \in Reference
    BY <1>2, <1>3, <1>5, Zenon
  <2> QED
    BY <2>1, WithSnapshotSound, WithSnapshotFields
<1> HIDE DEF kept
<1>7. /\ [kept EXCEPT !.replan_advised = request].next_map_generation = g
      /\ [kept EXCEPT !.replan_advised = request].latest_map_snapshot = mapping.snapshot
      /\ [kept EXCEPT !.replan_advised = request].active_safety_reference = reference
      /\ [kept EXCEPT !.replan_advised = request].latest = minco.latest
      /\ [kept EXCEPT !.replan_advised = request].plan_safe = minco.plan_safe
  BY <1>6, SMT DEF Minco
<1>8. /\ minco'.next_map_generation = g
      /\ minco'.latest_map_snapshot = mapping.snapshot
      /\ minco'.active_safety_reference = reference
      /\ minco'.latest = minco.latest /\ minco'.plan_safe = minco.plan_safe
  BY <1>1, <1>6, <1>7, Zenon
<1>9. mapping.snapshot # NoSnapshot
  BY <1>2, <1>4, SMT
<1>10. RecordSound'
  BY <1>1, <1>2, <1>4, <1>8, <1>9, SMT DEF AInv, Announced, RecordSound
<1>11. AnswerSound'
  BY <1>1, <1>8, SMT DEF AInv, Announced, AnswerSound, Quiet
<1>12. minco.active_safety_reference.map_generation <= g
  BY <1>2, <1>4, ActiveGeneration, SMT DEF AInv
<1>13. minco.latest.state = "READY" => planning.at = "IDLE" /\ minco.plan_safe
  BY Zenon DEF AInv, Announced, GrantSound
<1> QED
  BY <1>1, <1>5, <1>8, <1>10, <1>11, <1>12, <1>13, SilentKeeps, Zenon DEF Quiet

(* A new map without the reference takes it back, if it was offered.       *)
LEMMA DroppingAnnounces ==
    ASSUME AInv, IInv', NEW verdict, CommitDropping(verdict)
    PROVE  AInv'
<1> DEFINE g == mapping.snapshot.generation
           m == WithSnapshot(minco, mapping.snapshot, NoReference)
           n == PlanInvalidated(m, g)
<1>1. /\ ~ChangedMeanwhile /\ planning' = planning /\ health' = health
      /\ IF minco.latest_map_snapshot = NoSnapshot THEN minco' = m /\ Quiet
         ELSE PublishInvalidation(n, g, "SNAPSHOT_CHANGED")
  BY Zenon DEF CommitDropping
<1>2. /\ minco \in Minco /\ minco.next_map_generation \in Nat
      /\ minco.latest.generation \in Nat /\ planning.request \in Request
      /\ planning.snapshot.generation \in Nat
  BY AnnouncedFields, Zenon DEF AInv
<1>3. g \in Nat /\ mapping.snapshot \in Snapshot
  BY Unpacked, BuildFields DEF AInv
<1>4. g = minco.next_map_generation + 1
  BY <1>1, Zenon DEF ChangedMeanwhile
<1>5. /\ m \in Minco
      /\ m.next_map_generation = g
      /\ m.latest_map_snapshot = mapping.snapshot
      /\ m.active_safety_reference = NoReference
      /\ m.latest = minco.latest /\ m.plan_safe = minco.plan_safe
  <2>1. minco \in Minco /\ mapping.snapshot \in Snapshot /\ NoReference \in Reference
    BY <1>2, <1>3, NoneTypes, Zenon
  <2> QED
    BY <2>1, WithSnapshotSound, WithSnapshotFields
<1> HIDE DEF m
<1>6. mapping.snapshot # NoSnapshot
  BY <1>2, <1>4, SMT
<1>7. /\ minco.latest.generation < g /\ planning.snapshot.generation <= g
      /\ minco.latest.state = "NONE" => minco.latest = Silence
      /\ health.at = "CHECKING" => health.generation = health.reference.map_generation
  BY <1>2, <1>4, SMT DEF AInv, Announced, RecordSound
<1>8. NoReference.request = NoRequest /\ UpTo(NoRequest, planning.request)
  BY <1>2, UpToSelf, SMT
<1>9. CASE minco.latest_map_snapshot = NoSnapshot
  <2>1. minco' = m /\ Quiet
    BY <1>1, <1>9, Zenon
  <2>2. minco.active_safety_reference = NoReference
    BY <1>9, Zenon DEF AInv, Announced, RecordSound
  <2>3. RecordSound'
    BY <1>1, <1>2, <1>3, <1>5, <1>7, <2>1, SMT DEF RecordSound
  <2>4. AnswerSound'
    BY <1>1, <1>5, <2>1, SMT DEF AInv, Announced, AnswerSound, Quiet
  <2>5. minco.latest.state = "READY" => planning.at = "IDLE" /\ minco.plan_safe
    BY Zenon DEF AInv, Announced, GrantSound
  <2>6. minco.active_safety_reference.map_generation <=
            minco'.active_safety_reference.map_generation
    BY <1>5, <2>1, <2>2, SMT
  <2> QED
    BY <1>1, <1>5, <2>1, <2>2, <2>3, <2>4, <2>5, <2>6, SilentKeeps, Zenon DEF Quiet
<1>10. CASE minco.latest_map_snapshot # NoSnapshot
  <2>1. PublishInvalidation(n, g, "SNAPSHOT_CHANGED") /\ "SNAPSHOT_CHANGED" \in Reasons
    BY <1>1, <1>10, Zenon DEF Reasons
  <2>2. n \in Minco /\ SameMap(m, n)
    BY <1>3, <1>5, PlanInvalidatedSound, Zenon
  <2>3. n.latest = minco.latest
    BY <1>5, SMT DEF Minco, PlanInvalidated
  <2> HIDE DEF n
  <2>4. /\ minco'.latest.state \in {"NONE", "FAILED"}
        /\ minco'.latest.state = "NONE" => minco'.latest = Silence
        /\ minco'.latest.request = minco.latest.request
        /\ minco'.latest.generation \in {minco.latest.generation, g}
        /\ granted' = NoRequest
        /\ reply' = "ACCEPTED" => minco.latest.request # planning.request
        /\ SameMap(n, minco')
    <3>1. minco.latest.generation <= g
      BY <1>2, <1>3, <1>7, SMT
    <3> QED
      BY <1>3, <1>7, <2>1, <2>2, <2>3, <3>1, Invalidated, Zenon
  <2>5. /\ minco'.next_map_generation = g
        /\ minco'.active_safety_reference = NoReference
    BY <1>5, <2>2, <2>4, Zenon DEF SameMap
  <2>6. RecordSound'
    <3>1. minco'.latest.generation <= g
      BY <1>2, <1>3, <1>7, <2>4, SMT
    <3> QED
      BY <1>1, <1>7, <2>4, <2>5, <3>1, Zenon DEF RecordSound
  <2>7. /\ UpTo(minco'.latest.request, planning'.request)
        /\ UpTo(health'.reference.request, planning'.request)
    BY <1>1, <2>4, Zenon DEF AInv, Announced, InOrder
  <2> QED
    BY <1>1, <1>8, <2>4, <2>5, <2>6, <2>7, FailureKeeps, Zenon
<1> QED
  BY <1>9, <1>10

(* An acceptance outranks what was offered before; a refusal takes it back.*)
LEMMA ReceiveAnnounces ==
    ASSUME AInv, IInv', NEW r \in Requests, NEW at \in {"ACCEPTED", "IDLE"},
           NEW s \in PlannerStatus, s.request = r, s.generation = 0,
           \/ s.state = "ACCEPTED" /\ at = "ACCEPTED"
           \/ s.state = "FAILED" /\ at = "IDLE",
           Receive(r, s, at)
    PROVE  AInv'
<1> DEFINE t == Stamped(minco, s)
<1>1. /\ Follows(r, planning.request)
      /\ minco' = Recorded(minco, t)
      /\ planning' = [at |-> at, request |-> r, keep |-> FALSE,
                      snapshot |-> NoSnapshot, health_epoch |-> 0, reason |-> "NONE"]
      /\ reply' = IF Admissible(minco.latest, t) THEN s.state ELSE "NOTHING"
      /\ granted' = IF Admissible(minco.latest, t) /\ s.state = "FAILED"
                    THEN NoRequest ELSE granted
      /\ health' = health
  BY Zenon DEF Receive
<1>2. /\ minco \in Minco /\ minco.latest \in PlannerStatus
      /\ minco.latest.request \in Request /\ minco.latest.generation \in Nat
      /\ minco.active_safety_reference.request \in Request
      /\ health.reference.request \in Request
      /\ minco.next_map_generation \in Nat /\ planning.request \in Request
      /\ granted \in Request
  BY AnnouncedFields, Zenon DEF AInv
<1>3. r \in Request
  BY RequestsTyped
<1>4. /\ t \in PlannerStatus /\ t.request = r /\ t.state = s.state
      /\ t.generation = minco.next_map_generation
  BY <1>2, StampedType, StampedFields, Zenon
<1> HIDE DEF t
<1>5. /\ planning'.at = at /\ planning'.request = r
      /\ planning'.snapshot.generation = 0
  BY <1>1, SMT
<1>6. /\ UpTo(minco.latest.request, r) /\ minco.latest.request # r
      /\ UpTo(minco.active_safety_reference.request, r)
      /\ UpTo(health.reference.request, r)
      /\ UpTo(granted, r) /\ granted # r
  BY <1>1, <1>2, <1>3, FollowingIsLater, Zenon DEF AInv, Announced, InOrder
<1>7. minco.latest.generation <= minco.next_map_generation
  BY Zenon DEF AInv, Announced, RecordSound
<1>8. UpTo(r, r)
  BY <1>3, UpToSelf
<1>9. /\ minco'.next_map_generation = minco.next_map_generation
      /\ minco'.latest_map_snapshot = minco.latest_map_snapshot
      /\ minco'.active_safety_reference = minco.active_safety_reference
  BY <1>1, <1>2, <1>4, RecordedSound, Zenon DEF SameMap
<1>10. CASE Admissible(minco.latest, t)
  <2>1. minco'.latest = t
    BY <1>1, <1>2, <1>4, <1>10, RecordedFields, Zenon
  <2>2. RecordSound'
    BY <1>1, <1>2, <1>4, <1>5, <1>9, <2>1, SMT DEF AInv, Announced, RecordSound
  <2>3. CASE s.state = "ACCEPTED"
    <3>1. granted' = granted /\ reply' = "ACCEPTED" /\ at = "ACCEPTED"
      BY <1>1, <1>10, <2>3, SMT
    <3>2. InOrder'
      BY <1>1, <1>4, <1>5, <1>6, <1>8, <1>9, <2>1, <3>1, Zenon DEF InOrder
    <3>3. GrantSound'
      BY <1>4, <1>6, <2>1, <2>3, <3>1, SMT DEF GrantSound
    <3>4. AnswerSound'
      BY <1>4, <1>5, <2>1, <2>3, <3>1, SMT DEF AnswerSound
    <3> QED
      BY <2>2, <3>2, <3>3, <3>4, Zenon DEF AInv, Announced
  <2>4. CASE s.state = "FAILED"
    <3>1. granted' = NoRequest /\ reply' = "FAILED"
      BY <1>1, <1>10, <2>4, SMT
    <3>2. reply' # "ACCEPTED" /\ minco'.latest.state \in {"NONE", "FAILED"}
      BY <1>4, <2>1, <2>4, <3>1, SMT
    <3> QED
      BY <1>1, <1>4, <1>5, <1>6, <1>8, <1>9, <2>1, <2>2, <3>1, <3>2, FailureKeeps, Zenon
  <2> QED
    BY <2>3, <2>4
<1>11. CASE ~Admissible(minco.latest, t)
  <2>1. minco' = minco /\ reply' = "NOTHING" /\ granted' = granted
    BY <1>1, <1>2, <1>4, <1>11, RecordedFields, Zenon
  <2>2. minco.latest.state # "READY"
    <3> SUFFICES ASSUME minco.latest.state = "READY" PROVE FALSE
      OBVIOUS
    <3>1. minco.latest.state # "FAILED"
      BY SMT
    <3> QED
      BY <1>2, <1>4, <1>6, <1>7, <1>11, <3>1, NotDropped, Zenon
  <2>3. RecordSound'
    BY <1>1, <1>2, <1>5, <2>1, SMT DEF AInv, Announced, RecordSound
  <2>4. InOrder'
    BY <1>1, <1>5, <1>6, <2>1, Zenon DEF InOrder
  <2>5. GrantSound'
    BY <2>1, <2>2, SMT DEF AInv, Announced, GrantSound
  <2>6. AnswerSound'
    BY <2>1, SMT DEF AnswerSound
  <2> QED
    BY <2>3, <2>4, <2>5, <2>6, Zenon DEF AInv, Announced
<1> QED
  BY <1>10, <1>11

LEMMA RequestAnnounces ==
    ASSUME AInv, IInv', NEW r \in Requests, OnPlannerGoal(r) \/ OnUnusableStart(r)
    PROVE  AInv'
<1>1. r \in Request
  BY RequestsTyped
<1>2. CASE OnPlannerGoal(r)
  <2> DEFINE s == Status(r, 0, "ACCEPTED", "NONE")
  <2>1. s \in PlannerStatus
    BY <1>1, StatusType, SMT DEF Reasons
  <2>2. s.state = "ACCEPTED" /\ s.request = r /\ s.generation = 0
    BY StatusFields, SMT
  <2>3. Receive(r, s, "ACCEPTED")
    BY <1>2, Zenon DEF OnPlannerGoal
  <2> HIDE DEF s
  <2> QED
    BY <2>1, <2>2, <2>3, ReceiveAnnounces, Zenon
<1>3. CASE OnUnusableStart(r)
  <2> DEFINE s == Failed(r, 0, "PLANNING")
  <2>1. s \in PlannerStatus
    BY <1>1, StatusType, SMT DEF Reasons, Failed
  <2>2. s.state = "FAILED" /\ s.request = r /\ s.generation = 0
    BY StatusFields, SMT DEF Failed
  <2>3. Receive(r, s, "IDLE")
    BY <1>3, Zenon DEF OnUnusableStart
  <2> HIDE DEF s
  <2> QED
    BY <2>1, <2>2, <2>3, ReceiveAnnounces, Zenon
<1> QED
  BY <1>2, <1>3

LEMMA StepFields ==
    ASSUME IInv, NEW at, Step(at)
    PROVE  /\ planning'.at = at /\ planning'.request = planning.request
           /\ planning'.snapshot = planning.snapshot
  BY Unpacked, SMT DEF Step, Plan

LEMMA FailingFields ==
    ASSUME IInv, NEW reason,
           planning' = [planning EXCEPT !.at = "FAILING", !.reason = reason]
    PROVE  /\ planning'.at # "IDLE" /\ planning'.request = planning.request
           /\ planning'.snapshot = planning.snapshot
  BY Unpacked, SMT DEF Plan

LEMMA DroppedFields ==
    ASSUME NEW m \in Minco, NEW safe
    PROVE  /\ [m EXCEPT !.active_safety_reference = NoReference].latest = m.latest
           /\ [m EXCEPT !.plan_safe = safe].latest = m.latest
           /\ [m EXCEPT !.replan_advised = NoRequest].latest = m.latest
  BY SMT DEF Minco

LEMMA PlanBeginsAnnounces ==
    ASSUME AInv, IInv', PlanBegins
    PROVE  AInv'
<1> DEFINE at == IF KeepsReference THEN "STARTING" ELSE "DISARMING"
           m == [minco EXCEPT !.active_safety_reference = NoReference]
<1>1. /\ Quiet /\ health' = health /\ planning.at = "ACCEPTED"
      /\ planning' = [planning EXCEPT !.keep = KeepsReference, !.at = at]
      /\ minco' \in {minco, m}
  BY Zenon DEF PlanBegins
<1>2. at \in {"STARTING", "DISARMING"}
  BY Zenon
<1> HIDE DEF at
<1>3. /\ planning'.at = at /\ planning'.request = planning.request
      /\ planning'.snapshot = planning.snapshot
  BY <1>1, AnnouncedFields, SMT DEF AInv, Plan
<1>4. planning.at # "IDLE" /\ planning'.at # "IDLE"
  BY <1>1, <1>2, <1>3, SMT
<1>5. minco \in Minco
  BY AnnouncedFields DEF AInv
<1>6. /\ m.latest = minco.latest
      /\ m.next_map_generation = minco.next_map_generation
      /\ m.latest_map_snapshot = minco.latest_map_snapshot
      /\ m.active_safety_reference = NoReference
  BY <1>5, DroppedSound, DroppedFields
<1> HIDE DEF m
<1>7. /\ minco'.latest = minco.latest
      /\ minco'.next_map_generation = minco.next_map_generation
      /\ minco'.latest_map_snapshot = minco.latest_map_snapshot
      /\ minco'.active_safety_reference \in {minco.active_safety_reference, NoReference}
  BY <1>1, <1>6, Zenon
<1> QED
  BY <1>1, <1>3, <1>4, <1>7, UnderWayKeeps, Zenon DEF Quiet

LEMMA DisarmAnnounces ==
    ASSUME AInv, IInv', Disarm
    PROVE  AInv'
<1>1. /\ Quiet /\ health' = health
      /\ planning.at \in {"DISARMING", "FAILED_DISARMING"}
      /\ minco' = [minco EXCEPT !.plan_safe = FALSE]
      /\ Step("STARTING") \/ Step("REPORTING")
  BY Zenon DEF Disarm
<1>2. /\ planning'.at \in {"STARTING", "REPORTING"}
      /\ planning'.request = planning.request
      /\ planning'.snapshot = planning.snapshot
  BY <1>1, StepFields, Zenon DEF AInv
<1>3. planning.at # "IDLE" /\ planning'.at # "IDLE"
  BY <1>1, <1>2, SMT
<1>4. minco'.latest = minco.latest /\ SameMap(minco, minco')
  BY <1>1, AnnouncedFields, DroppedFields, SafetySound, Zenon DEF AInv
<1> QED
  BY <1>1, <1>2, <1>3, <1>4, UnderWayKeeps, Zenon DEF Quiet, SameMap

LEMMA CaptureMapAnnounces ==
    ASSUME AInv, IInv', CaptureMap
    PROVE  AInv'
<1> DEFINE snapshot == minco.latest_map_snapshot
<1>1. /\ Quiet /\ health' = health /\ minco' = minco /\ planning.at = "STARTING"
      /\ \/ /\ snapshot # NoSnapshot
            /\ planning' = [planning EXCEPT !.at = "PLANNING", !.snapshot = snapshot,
                                            !.health_epoch = minco.map_health_epoch]
         \/ planning' = [planning EXCEPT !.at = "FAILING", !.reason = "MAP_UNREADY"]
  BY Zenon DEF CaptureMap
<1>2. planning.at # "IDLE"
  BY <1>1, SMT
<1>3. CASE /\ snapshot # NoSnapshot
           /\ planning' = [planning EXCEPT !.at = "PLANNING", !.snapshot = snapshot,
                                           !.health_epoch = minco.map_health_epoch]
  <2>1. /\ planning'.at # "IDLE" /\ planning'.request = planning.request
        /\ planning'.snapshot = snapshot
    BY <1>3, AnnouncedFields, SMT DEF AInv, Plan
  <2>2. snapshot.generation = minco.next_map_generation
    BY <1>3, Zenon DEF AInv, IInv, JudgementInv, MapSound
  <2>3. /\ minco.latest.generation <= planning'.snapshot.generation
        /\ planning'.snapshot.generation <= minco.next_map_generation
    BY <2>1, <2>2, AnnouncedFields, SMT DEF AInv, Announced, RecordSound
  <2> QED
    BY <1>1, <1>2, <2>1, <2>3, UnderWayKeeps, Zenon DEF Quiet
<1>4. CASE planning' = [planning EXCEPT !.at = "FAILING", !.reason = "MAP_UNREADY"]
  <2>1. /\ planning'.at # "IDLE" /\ planning'.request = planning.request
        /\ planning'.snapshot = planning.snapshot
    BY <1>4, FailingFields, Zenon DEF AInv
  <2> QED
    BY <1>1, <1>2, <2>1, UnderWayKeeps, Zenon DEF Quiet
<1> QED
  BY <1>1, <1>3, <1>4

LEMMA PlanFailsAnnounces ==
    ASSUME AInv, IInv', PlanFails
    PROVE  AInv'
<1>1. /\ Quiet /\ health' = health /\ minco' = minco /\ planning.at = "PLANNING"
      /\ planning' = [planning EXCEPT !.at = "FAILING", !.reason = "PLANNING"]
  BY Zenon DEF PlanFails
<1>2. planning.at # "IDLE"
  BY <1>1, SMT
<1>3. /\ planning'.at # "IDLE" /\ planning'.request = planning.request
      /\ planning'.snapshot = planning.snapshot
  BY <1>1, FailingFields, Zenon DEF AInv
<1> QED
  BY <1>1, <1>2, <1>3, UnderWayKeeps, Zenon DEF Quiet

LEMMA CommitTooLateAnnounces ==
    ASSUME AInv, IInv', CommitTooLate
    PROVE  AInv'
<1>1. /\ health' = health /\ planning.at = "PLANNING"
      /\ planning' = [planning EXCEPT !.at = "FAILING", !.reason = "SNAPSHOT_CHANGED"]
  BY Zenon DEF CommitTooLate
<1>2. planning.at # "IDLE"
  BY <1>1, SMT
<1>3. /\ planning'.at # "IDLE" /\ planning'.request = planning.request
      /\ planning'.snapshot = planning.snapshot
  BY <1>1, FailingFields, Zenon DEF AInv
<1>4. CASE InvalidateMap
  BY <1>1, <1>3, <1>4, LostAnnounces, Zenon
<1>5. CASE ~InvalidateMap
  <2> DEFINE safe == minco.plan_safe /\ StillGuarded
  <2>1. minco' = [minco EXCEPT !.plan_safe = safe] /\ Quiet
    BY <1>5, Zenon DEF CommitTooLate
  <2>2. safe \in BOOLEAN
    BY Zenon
  <2> HIDE DEF safe
  <2>3. minco'.latest = minco.latest /\ SameMap(minco, minco')
    BY <2>1, <2>2, AnnouncedFields, DroppedFields, SafetySound, Zenon DEF AInv
  <2> QED
    BY <1>1, <1>2, <1>3, <2>1, <2>3, UnderWayKeeps, Zenon DEF Quiet, SameMap
<1> QED
  BY <1>4, <1>5

LEMMA FailUnguardedAnnounces ==
    ASSUME AInv, IInv', FailUnguarded
    PROVE  AInv'
<1>1. /\ Quiet /\ health' = health /\ planning.at = "FAILING" /\ Step("DROPPING")
      /\ minco' = [minco EXCEPT !.replan_advised = NoRequest]
  BY Zenon DEF FailUnguarded
<1>2. /\ planning'.at = "DROPPING" /\ planning'.request = planning.request
      /\ planning'.snapshot = planning.snapshot
  BY <1>1, StepFields, Zenon DEF AInv
<1>3. planning.at # "IDLE" /\ planning'.at # "IDLE"
  BY <1>1, <1>2, SMT
<1>4. minco'.latest = minco.latest /\ SameMap(minco, minco')
  BY <1>1, AnnouncedFields, DroppedFields, ForgottenAdviceSound, Zenon DEF AInv
<1> QED
  BY <1>1, <1>2, <1>3, <1>4, UnderWayKeeps, Zenon DEF Quiet, SameMap

LEMMA DropReferenceAnnounces ==
    ASSUME AInv, IInv', DropReference
    PROVE  AInv'
<1>1. /\ Quiet /\ health' = health /\ planning.at \in {"DROPPING", "FAILING"}
      /\ Step("FAILED_DISARMING")
      /\ minco' = [minco EXCEPT !.active_safety_reference = NoReference]
  BY Zenon DEF DropReference
<1>2. /\ planning'.at = "FAILED_DISARMING" /\ planning'.request = planning.request
      /\ planning'.snapshot = planning.snapshot
  BY <1>1, StepFields, Zenon DEF AInv
<1>3. planning.at # "IDLE" /\ planning'.at # "IDLE"
  BY <1>1, <1>2, SMT
<1>4. minco \in Minco
  BY AnnouncedFields DEF AInv
<1>5. /\ minco'.latest = minco.latest
      /\ minco'.next_map_generation = minco.next_map_generation
      /\ minco'.latest_map_snapshot = minco.latest_map_snapshot
      /\ minco'.active_safety_reference = NoReference
  BY <1>1, <1>4, DroppedSound, DroppedFields, Zenon
<1> QED
  BY <1>1, <1>2, <1>3, <1>5, UnderWayKeeps, Zenon DEF Quiet

(* The guarded replan's failure answers the request and offers nothing.    *)
LEMMA FailGuardedAnnounces ==
    ASSUME AInv, IInv', FailGuarded
    PROVE  AInv'
<1> DEFINE g == IF planning.snapshot.generation # 0
                THEN planning.snapshot.generation ELSE minco.next_map_generation
           s == Status(planning.request, g, "ACCEPTED", planning.reason)
<1>1. /\ minco' = [minco EXCEPT !.replan_advised = NoRequest]
      /\ Heard(s) /\ Step("IDLE") /\ health' = health /\ planning.at = "FAILING"
  BY Zenon DEF FailGuarded
<1>2. s.request = planning.request /\ s.state = "ACCEPTED"
  BY StatusFields, SMT
<1> HIDE DEF s
<1>3. granted' = granted /\ reply' = "ANSWERED"
  BY <1>1, <1>2, SMT DEF Heard
<1>4. planning'.request = planning.request /\ planning'.snapshot = planning.snapshot
  BY <1>1, StepFields, Zenon DEF AInv
<1>5. planning.at # "IDLE" /\ reply' # "ACCEPTED"
  BY <1>1, <1>3, SMT
<1>6. minco'.latest = minco.latest /\ SameMap(minco, minco')
  BY <1>1, AnnouncedFields, DroppedFields, ForgottenAdviceSound, Zenon DEF AInv
<1> QED
  BY <1>1, <1>3, <1>4, <1>5, <1>6, UnderWayKeeps, Zenon DEF SameMap

(* A plan is offered, or what has outranked it is not to be answered.      *)
LEMMA CommitAnnounces ==
    ASSUME AInv, IInv', CommitReference
    PROVE  AInv'
<1> DEFINE reference == Bound(planning.request, planning.snapshot)
           m == [minco EXCEPT !.plan_safe = TRUE, !.active_safety_reference = reference]
           s == Status(planning.request, planning.snapshot.generation, "READY", "NONE")
           t == Stamped(m, s)
<1>1. /\ planning.at = "PLANNING" /\ Current /\ Publish(m, s) /\ Step("IDLE")
      /\ health' = health
  BY Zenon DEF CommitReference
<1>2. /\ minco \in Minco /\ minco.latest \in PlannerStatus
      /\ minco.latest.request \in Request /\ minco.latest.generation \in Nat
      /\ minco.next_map_generation \in Nat /\ planning.request \in Request
      /\ planning.snapshot.generation \in Nat /\ health.reference.request \in Request
      /\ planning \in Plan
  BY AnnouncedFields, Zenon DEF AInv
<1>3. /\ reference \in Reference /\ reference.request = planning.request
      /\ reference.map_generation = planning.snapshot.generation
  BY <1>2, SMT DEF Bound
<1> HIDE DEF reference
<1>4. m \in Minco
  BY <1>2, <1>3, Zenon DEF Minco
<1>5. /\ m.latest = minco.latest /\ m.plan_safe = TRUE
      /\ m.next_map_generation = minco.next_map_generation
      /\ m.latest_map_snapshot = minco.latest_map_snapshot
      /\ m.active_safety_reference = reference
  BY <1>2, SMT DEF Minco
<1>6. s \in PlannerStatus
  BY <1>2, StatusType, SMT DEF Reasons
<1>7. /\ s.request = planning.request /\ s.state = "READY"
      /\ s.generation = planning.snapshot.generation
  BY StatusFields, SMT
<1> HIDE DEF m, s
<1>8. /\ minco.latest_map_snapshot # NoSnapshot
      /\ planning.snapshot.generation = minco.next_map_generation
  BY <1>1, Zenon DEF AInv, IInv, JudgementInv, MapSound, Current
<1>9. /\ t \in PlannerStatus /\ t.request = planning.request /\ t.state = "READY"
      /\ t.generation = minco.next_map_generation
  BY <1>4, <1>5, <1>6, <1>7, <1>8, StampedType, StampedFields, Zenon
<1>10. UpTo(planning.request, planning.request)
  BY <1>2, UpToSelf
<1>11. \/ /\ minco'.latest = t /\ SameMap(m, minco') /\ minco'.plan_safe = m.plan_safe
          /\ Heard(t)
       \/ /\ minco' = m /\ Quiet /\ ~Admissible(minco.latest, t)
  <2>1. s.generation <= minco.next_map_generation
    BY <1>2, <1>7, <1>8, SMT
  <2> QED
    BY <1>1, <1>4, <1>5, <1>6, <1>7, <1>10, <2>1, Published, Zenon
<1> HIDE DEF t
<1>12. /\ planning'.at = "IDLE" /\ planning'.request = planning.request
       /\ planning'.snapshot = planning.snapshot
  BY <1>1, StepFields, Zenon DEF AInv
<1>13. minco.latest.generation <= minco.next_map_generation
  BY Zenon DEF AInv, Announced, RecordSound
<1>14. CASE /\ minco'.latest = t /\ SameMap(m, minco') /\ minco'.plan_safe = m.plan_safe
            /\ Heard(t)
  <2>1. granted' = planning.request /\ reply' = "ANSWERED"
    BY <1>9, <1>14, SMT DEF Heard
  <2>2. /\ minco'.next_map_generation = minco.next_map_generation
        /\ minco'.latest_map_snapshot = minco.latest_map_snapshot
        /\ minco'.active_safety_reference = reference
        /\ minco'.plan_safe = TRUE
    BY <1>5, <1>14, Zenon DEF SameMap
  <2>3. RecordSound'
    BY <1>1, <1>2, <1>8, <1>9, <1>12, <1>14, <2>2, SMT DEF AInv, Announced, RecordSound
  <2>4. InOrder'
    BY <1>1, <1>3, <1>9, <1>10, <1>12, <1>14, <2>1, <2>2, Zenon
       DEF AInv, Announced, InOrder
  <2>5. GrantSound'
    BY <1>2, <1>3, <1>8, <1>9, <1>12, <1>14, <2>1, <2>2, SMT DEF GrantSound
  <2>6. AnswerSound'
    BY <2>1, SMT DEF AnswerSound
  <2> QED
    BY <2>3, <2>4, <2>5, <2>6, Zenon DEF AInv, Announced
<1>15. CASE minco' = m /\ Quiet /\ ~Admissible(minco.latest, t)
  <2>1. minco.latest.state # "READY"
    BY <1>1, SMT DEF AInv, Announced, GrantSound
  <2>2. reply = "ACCEPTED" => minco.latest.request # planning.request
    <3> SUFFICES ASSUME reply = "ACCEPTED", minco.latest.request = planning.request
                 PROVE  FALSE
      OBVIOUS
    <3>1. minco.latest.state = "ACCEPTED"
      BY Zenon DEF AInv, Announced, AnswerSound
    <3>2. minco.latest.state # "FAILED"
      BY <3>1, SMT
    <3> QED
      BY <1>2, <1>9, <1>10, <1>13, <1>15, <3>2, NotDropped, Zenon
  <2>3. RecordSound'
    BY <1>1, <1>5, <1>8, <1>12, <1>15, SMT DEF AInv, Announced, RecordSound
  <2>4. AnswerSound'
    BY <1>5, <1>12, <1>15, <2>2, Zenon DEF AnswerSound, Quiet
  <2> QED
    BY <1>1, <1>3, <1>5, <1>12, <1>15, <2>1, <2>3, <2>4, SilentKeeps, Zenon DEF Quiet
<1> QED
  BY <1>11, <1>14, <1>15

(* A failure answers its request, or what has outranked it.                *)
LEMMA ReportAnnounces ==
    ASSUME AInv, IInv', ReportFailure
    PROVE  AInv'
<1> DEFINE s == Failed(planning.request, planning.snapshot.generation, planning.reason)
           t == Stamped(minco, s)
<1>1. /\ planning.at = "REPORTING" /\ Publish(minco, s) /\ Step("IDLE")
      /\ health' = health
  BY Zenon DEF ReportFailure
<1>2. /\ minco \in Minco /\ minco.latest \in PlannerStatus
      /\ minco.latest.request \in Request /\ minco.latest.generation \in Nat
      /\ minco.next_map_generation \in Nat /\ planning.request \in Request
      /\ planning.snapshot.generation \in Nat /\ health.reference.request \in Request
      /\ planning \in Plan
  BY AnnouncedFields, Zenon DEF AInv
<1>3. planning.reason \in Reasons
  BY <1>2, PlanFields
<1>4. s \in PlannerStatus
  BY <1>2, <1>3, StatusType, SMT DEF Failed
<1>5. /\ s.request = planning.request /\ s.state = "FAILED"
      /\ s.generation = planning.snapshot.generation
  BY StatusFields, SMT DEF Failed
<1> HIDE DEF s
<1>6. /\ minco.latest.generation <= minco.next_map_generation
      /\ planning.snapshot.generation <= minco.next_map_generation
  BY Zenon DEF AInv, Announced, RecordSound
<1>7. /\ t \in PlannerStatus /\ t.request = planning.request /\ t.state = "FAILED"
      /\ t.generation = IF planning.snapshot.generation = 0
                        THEN minco.next_map_generation
                        ELSE planning.snapshot.generation
  BY <1>2, <1>4, <1>5, StampedType, StampedFields, Zenon
<1>8. UpTo(planning.request, planning.request)
  BY <1>2, UpToSelf
<1>9. \/ minco'.latest = t /\ SameMap(minco, minco') /\ Heard(t)
      \/ minco' = minco /\ Quiet /\ ~Admissible(minco.latest, t)
  <2>1. s.generation <= minco.next_map_generation
    BY <1>5, <1>6, Zenon
  <2> QED
    BY <1>1, <1>2, <1>4, <1>5, <1>8, <2>1, Published, Zenon
<1> HIDE DEF t
<1>10. /\ planning'.at = "IDLE" /\ planning'.request = planning.request
       /\ planning'.snapshot = planning.snapshot
  BY <1>1, StepFields, Zenon DEF AInv
<1>11. CASE minco'.latest = t /\ SameMap(minco, minco') /\ Heard(t)
  <2>1. granted' = NoRequest /\ reply' = "ANSWERED"
    BY <1>7, <1>11, SMT DEF Heard
  <2>2. /\ minco'.next_map_generation = minco.next_map_generation
        /\ minco'.latest_map_snapshot = minco.latest_map_snapshot
        /\ minco'.active_safety_reference = minco.active_safety_reference
    BY <1>11, Zenon DEF SameMap
  <2>3. RecordSound'
    BY <1>1, <1>2, <1>6, <1>7, <1>10, <1>11, <2>2, SMT
       DEF AInv, Announced, RecordSound
  <2>4. minco'.latest.state \in {"NONE", "FAILED"} /\ reply' # "ACCEPTED"
    BY <1>7, <1>11, <2>1, SMT
  <2>5. /\ UpTo(minco'.active_safety_reference.request, planning'.request)
        /\ UpTo(health'.reference.request, planning'.request)
    BY <1>1, <1>10, <2>2, Zenon DEF AInv, Announced, InOrder
  <2> QED
    BY <1>7, <1>8, <1>10, <1>11, <2>1, <2>3, <2>4, <2>5, FailureKeeps, Zenon
<1>12. CASE minco' = minco /\ Quiet /\ ~Admissible(minco.latest, t)
  <2>1. minco.latest.state # "READY"
    BY <1>1, SMT DEF AInv, Announced, GrantSound
  <2>2. reply = "ACCEPTED" => minco.latest.request # planning.request
    <3> SUFFICES ASSUME reply = "ACCEPTED", minco.latest.request = planning.request
                 PROVE  FALSE
      OBVIOUS
    <3>1. /\ minco.latest.state = "ACCEPTED"
          /\ planning.snapshot.generation # 0 =>
                 minco.latest.generation <= planning.snapshot.generation
      BY Zenon DEF AInv, Announced, AnswerSound
    <3>2. minco.latest.generation <= t.generation
      BY <1>6, <1>7, <3>1, Zenon
    <3>3. minco.latest.state # "FAILED"
      BY <3>1, SMT
    <3> QED
      BY <1>2, <1>7, <1>8, <1>12, <3>2, <3>3, NotDropped, Zenon
  <2>3. RecordSound'
    BY <1>1, <1>10, <1>12, SMT DEF AInv, Announced, RecordSound
  <2>4. AnswerSound'
    BY <1>10, <1>12, <2>2, Zenon DEF AnswerSound, Quiet
  <2> QED
    BY <1>1, <1>10, <1>12, <2>1, <2>3, <2>4, SilentKeeps, Zenon DEF Quiet
<1> QED
  BY <1>9, <1>11, <1>12

-----------------------------------------------------------------------------
(* The invariant of what is announced.                                     *)

LEMMA InitAnnounced == Init => AInv
<1> SUFFICES ASSUME Init PROVE AInv
  OBVIOUS
<1>1. IInv
  BY InitSound
<1>2. RecordSound
  BY SMT DEF Init, RecordSound, NoRecheck, NoPlan, Silence
<1>3. InOrder
  BY SMT DEF Init, InOrder, UpTo, NoRecheck, NoPlan, Silence
<1>4. GrantSound /\ AnswerSound
  BY SMT DEF Init, GrantSound, AnswerSound, Silence
<1> QED
  BY <1>1, <1>2, <1>3, <1>4, Zenon DEF AInv, Announced

LEMMA AInductive == AInv /\ [Next]_vars => AInv'
<1> SUFFICES ASSUME AInv, [Next]_vars PROVE AInv'
  OBVIOUS
<1>1. IInv'
  BY Inductive, Zenon DEF AInv
<1>2. CASE LeaseRunsOut
  BY <1>1, <1>2, AsidesAnnounce
<1>3. CASE HealthStep
  <2>1. \/ \E ready \in BOOLEAN : OnMapReady(ready)
        \/ OnMapReadyWatchdog
        \/ RecheckBegins \/ RecheckPasses \/ RecheckCondemns
    BY <1>3, Zenon DEF HealthStep
  <2> QED
    BY <1>1, <2>1, MapReadyAnnounces, LossesAnnounce, AsidesAnnounce,
       RecheckBeginsAnnounces, RecheckCondemnsAnnounces, Zenon
<1>4. CASE MapStep
  <2>1. \/ OnSnapshotWithdrawn
        \/ \E content \in Contents : BuildBegins(content)
        \/ BuildFails \/ BuildEnds \/ DiscardSnapshot
        \/ \E verdict \in Verdicts : CommitRetaining(verdict) \/ CommitDropping(verdict)
        \/ AdviseReplan
    BY <1>4, Zenon DEF MapStep
  <2> QED
    BY <1>1, <2>1, LossesAnnounce, AsidesAnnounce, RetainingAnnounces,
       DroppingAnnounces, AdviseAnnounces, Zenon
<1>5. CASE PlanStep
  <2>1. \/ \E r \in Requests : OnPlannerGoal(r) \/ OnUnusableStart(r)
        \/ PlanBegins \/ Disarm \/ CaptureMap \/ PlanFails
        \/ CommitReference \/ CommitTooLate
        \/ FailGuarded \/ FailUnguarded \/ DropReference \/ ReportFailure
    BY <1>5, Zenon DEF PlanStep
  <2> QED
    BY <1>1, <2>1, RequestAnnounces, PlanBeginsAnnounces, DisarmAnnounces,
       CaptureMapAnnounces, PlanFailsAnnounces, CommitAnnounces, CommitTooLateAnnounces,
       FailGuardedAnnounces, FailUnguardedAnnounces, DropReferenceAnnounces,
       ReportAnnounces, Zenon
<1>6. CASE UNCHANGED vars
  <2>1. /\ minco' = minco /\ planning' = planning /\ health' = health
        /\ granted' = granted /\ reply' = reply
    BY <1>6, Zenon DEF vars, locals, history
  <2> QED
    BY <1>1, <2>1, AsideKeeps, Zenon
<1> QED
  BY <1>2, <1>3, <1>4, <1>5, <1>6, Zenon DEF Next

(* The request the consumers hold on to is the one the runtime recheck     *)
(* watches, until a later request of the goal is accepted, for every       *)
(* interleaving of the callback groups and every number of requests, maps, *)
(* losses and condemned references.                                        *)
THEOREM GrantGuarded == Spec => []GrantIsGuardedUntilReplan
<1>1. AInv => GrantIsGuardedUntilReplan
  <2> SUFFICES ASSUME AInv, granted # NoRequest, minco.latest.request = granted
               PROVE  minco.active_safety_reference.request = granted /\ minco.plan_safe
    BY Zenon DEF GrantIsGuardedUntilReplan
  <2>1. minco.latest.state \in {"NONE", "ACCEPTED", "READY", "FAILED"}
    BY AnnouncedFields DEF AInv
  <2>2. minco.latest.state = "READY"
    BY <2>1, SMT DEF AInv, Announced, GrantSound
  <2> QED
    BY <2>2, Zenon DEF AInv, Announced, GrantSound
<1> QED
  BY <1>1, InitAnnounced, AInductive, PTL DEF Spec

(* Whenever no request is in hand, the last one whose acceptance was       *)
(* published has been answered, unless the record was put back to another  *)
(* request by a recheck: no drop of a status and no loss of the map leaves *)
(* the goal manager waiting.                                               *)
THEOREM RequestsAnswered == Spec => []AcceptedRequestsAreAnswered
<1>1. AInv => AcceptedRequestsAreAnswered
  BY SMT DEF AInv, Announced, AnswerSound, AcceptedRequestsAreAnswered
<1> QED
  BY <1>1, InitAnnounced, AInductive, PTL DEF Spec
=============================================================================
