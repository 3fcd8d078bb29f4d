---------------------- MODULE GoalManagerAuthorityProofs ----------------------
(* Proofs about the history of the goal manager: no plan made on a          *)
(* condemned map publication is executed, and execution is only passed on   *)
(* as the abstract authority allows.                                        *)
EXTENDS GoalManagerProofs

-----------------------------------------------------------------------------
(* Condemned publications.  c is the newest one on which the plan of the    *)
(* active goal was found unsafe.                                            *)

(* Either the goal still waits for a publication after c, or a map and a    *)
(* snapshot after c are in hand; and the reference in force is of one.      *)
Past(m, c) ==
    /\ c > m.after => c < m.map.pub /\ (RequireSnapshot => c < m.snapshot.pub)
    /\ Commanding(m) => c < m.command.of.pub
    /\ m.map.ready => m.map.pub # 0

(* So is the answer the goal waits for, unless it is yet to ask for it.     *)
Awaited(m, c) ==
    m.state # "WAITING" \/ Commanding(m) =>
        \A r \in m.requests : Expected(m, r) => c < r.pub

Spared(m, c) == Past(m, c) /\ Awaited(m, c)

(* CondemnedMapStaysDead, of a manager in the middle of a callback.         *)
Heeds(m, c) == m.sent.mode = "EXECUTE" => c < m.sent.of.pub

(* A new goal, or none, has nothing to remember.                            *)
Due(m, n, c) == IF n.goal = m.goal THEN c ELSE 0

(* Maps and snapshots are only replaced by later ones.                      *)
Ahead(m, n) ==
    /\ n.map.pub >= m.map.pub /\ n.snapshot.pub >= m.snapshot.pub
    /\ n.map.ready => n.map.pub # 0

LEMMA SparedForgets ==
    ASSUME NEW m, Sound(m), NEW c \in Nat, Spared(m, c)
    PROVE  Spared(m, 0)
<1>1. /\ m.after \in Nat /\ m.requests \subseteq Requests
      /\ m.command.of \in MaybeRequest
  BY WideFields DEF Sound
<1>2. \A r \in m.requests : r.pub \in Nat
  BY <1>1, RequestFields
<1>3. m.command.of.pub \in Nat
  BY <1>1, RequestFields DEF MaybeRequest, NoRequest
<1> QED BY <1>1, <1>2, <1>3 DEF Spared, Past, Awaited

LEMMA AsideSpared ==
    ASSUME NEW m, Sound(m), NEW n \in Wide, Aside(m, n), Ahead(m, n),
           NEW c \in Nat, Spared(m, c)
    PROVE  Spared(n, c)
<1>1. m \in Wide
  BY DEF Sound
<1> QED
  BY <1>1, WideFields
     DEF Spared, Past, Awaited, Aside, Ahead, SameGoal, SameRequests, Commanding,
         Expected

LEMMA SuspendedSpared ==
    ASSUME NEW m, Sound(m), NEW since, NEW after \in 0..MaxPublications,
           NEW c \in Nat, Past(m, c)
    PROVE  Spared(Suspended(m, since, after), c)
<1> DEFINE n == Suspended(m, since, after)
<1>1. m \in Wide
  BY DEF Sound
<1>2. /\ SameInputs(m, n) /\ Bare(n) /\ n.state = "WAITING"
      /\ n.after = Larger(m.after, after)
  BY <1>1, SuspendedEffect
<1> HIDE DEF n
<1>3. n.after \in Nat /\ n.after >= m.after /\ m.after \in Nat
  BY <1>1, <1>2, WideFields, ConfigAssumption DEF Larger
<1>4. Past(n, c) /\ Awaited(n, c)
  BY <1>2, <1>3 DEF Past, Awaited, SameInputs, Bare, Commanding
<1> QED BY <1>4 DEF Spared, n

(* A suspension that waits for more than c is free of c.                    *)
LEMMA SuspendedCondemns ==
    ASSUME NEW m, Sound(m), NEW since, NEW after \in 0..MaxPublications,
           NEW c \in Nat, Past(m, c)
    PROVE  Spared(Suspended(m, since, after), Larger(c, after))
<1> DEFINE n == Suspended(m, since, after)
<1>1. m \in Wide
  BY DEF Sound
<1>2. /\ SameInputs(m, n) /\ Bare(n) /\ n.state = "WAITING"
      /\ n.after = Larger(m.after, after)
  BY <1>1, SuspendedEffect
<1> HIDE DEF n
<1>3. n.after \in Nat /\ n.after >= m.after /\ n.after >= after /\ m.after \in Nat
  BY <1>1, <1>2, WideFields, ConfigAssumption DEF Larger
<1>4. Past(n, Larger(c, after)) /\ Awaited(n, Larger(c, after))
  BY <1>2, <1>3 DEF Past, Awaited, SameInputs, Bare, Commanding, Larger
<1> QED BY <1>4 DEF Spared, n

LEMMA FinishedSpared ==
    ASSUME NEW m, Sound(m), m.map.ready => m.map.pub # 0
    PROVE  Spared(Finished(m), 0)
<1> DEFINE n == Finished(m)
<1>1. /\ SameInputs(m, n) /\ Bare(n) /\ n.goal = 0 /\ n.after = 0
  BY FinishedEffect DEF Sound
<1> HIDE DEF n
<1>2. Past(n, 0) /\ Awaited(n, 0)
  BY <1>1 DEF Past, Awaited, SameInputs, Bare, Commanding, Expected
<1> QED BY <1>2 DEF Spared, n

(* A request made on a publication after c.                                 *)
LEMMA DispatchedSpared ==
    ASSUME NEW m, Sound(m), NEW v \in Surroundings,
           NEW required \in 0..MaxPublications, m.goal # 0, m.next <= MaxRequests,
           NEW c \in Nat, Past(m, c),
           c < IF required # 0 THEN required ELSE m.map.pub
    PROVE  Spared(Dispatched(m, v, required), c)
<1> DEFINE n == Dispatched(m, v, required)
<1>1. m \in Wide
  BY DEF Sound
<1>2. PICK r \in Requests :
        IsNext(m, r, required) /\ n.requests = m.requests \cup {r}
  BY <1>1, DispatchedEffect
<1>3. /\ SameInputs(m, n) /\ SameGoal(m, n) /\ n.expected = m.next + 1
      /\ n.epoch = m.epoch /\ n.command = m.command /\ n.after = m.after
  BY <1>1, DispatchedEffect
<1> HIDE DEF n
<1>4. \A q \in m.requests : q.goal = m.goal => q.request # m.next + 1
  <2>1. m.next \in Nat /\ \A q \in m.requests : q.request \in Nat
    BY <1>1, WideFields, RequestFields
  <2> QED BY <2>1 DEF Sound, Numbered
<1>5. Past(n, c)
  BY <1>3 DEF Past, SameInputs, Commanding
<1>6. Awaited(n, c)
  BY <1>2, <1>3, <1>4 DEF Awaited, Expected, SameGoal, IsNext
<1> QED BY <1>5, <1>6 DEF Spared, n

LEMMA DispatchedOrSuspendedSpared ==
    ASSUME NEW m, Sound(m), NEW v \in Surroundings,
           NEW required \in 0..MaxPublications, NEW since, m.goal # 0,
           m.next <= MaxRequests, NEW c \in Nat, Past(m, c),
           CanDispatch(m, required) =>
               c < IF required # 0 THEN required ELSE m.map.pub
    PROVE  /\ Spared(DispatchedOrSuspended(m, v, required, since), c)
           /\ DispatchedOrSuspended(m, v, required, since).goal = m.goal
<1>1. CASE CanDispatch(m, required)
  <2>1. Dispatched(m, v, required).goal = m.goal
    BY DispatchedEffect DEF Sound, SameGoal
  <2> QED BY <1>1, <2>1, DispatchedSpared DEF DispatchedOrSuspended
<1>2. CASE ~CanDispatch(m, required)
  <2>1. Suspended(m, since, 0).goal = m.goal
    BY SuspendedEffect DEF Sound, SameGoal
  <2> QED BY <1>2, <2>1, SuspendedSpared, Words DEF DispatchedOrSuspended
<1> QED BY <1>1, <1>2

(* While a goal waits for nothing the map in hand is after c.               *)
LEMMA MapIsPast ==
    ASSUME NEW m, Sound(m), NEW c \in Nat, Past(m, c), m.after = 0, MapReady(m)
    PROVE  c < m.map.pub
BY WideFields DEF Sound, Past, MapReady

(* Committing what was planned after c.                                     *)
LEMMA CommittedSpared ==
    ASSUME NEW m, Sound(m), NEW gimbal \in Nat, NEW c \in Nat, Spared(m, c),
           m.state # "WAITING", m.ready # NoRequest, Expected(m, m.ready),
           m.ready.pub <= m.map.pub, m.map.ready,
           RequireSnapshot => m.snapshot.pub = m.map.pub
    PROVE  LET n == Committed(m, gimbal)
           IN  Spared(n, c) /\ Heeds(n, c) /\ n.goal = m.goal
<1> DEFINE n == Committed(m, gimbal)
<1>1. /\ m \in Wide /\ m.ready \in m.requests /\ m.ready \in Requests
      /\ m.ready.pub \in Nat /\ m.map.pub \in Nat
  BY WideFields, RequestFields DEF Sound, Staged
<1>2. /\ SameInputs(m, n) /\ SameGoal(m, n) /\ n.expected = m.expected
      /\ n.requests = m.requests /\ n.epoch = m.epoch
      /\ n.command = [of |-> m.ready, gimbal |-> gimbal]
      /\ n.after = 0 /\ n.sent = Execute(n.command)
  BY <1>1, CommittedEffect
<1> HIDE DEF n
<1>3. n.command.of = m.ready /\ n.sent.of = m.ready
  BY <1>2 DEF Execute
<1>4. c < m.ready.pub
  BY <1>1 DEF Spared, Awaited
<1>5. c < m.map.pub
  BY <1>1, <1>4
<1>6. Past(n, c)
  BY <1>1, <1>2, <1>3, <1>4, <1>5 DEF Past, SameInputs
<1>7. Awaited(n, c)
  BY <1>2 DEF Spared, Awaited, Expected, SameGoal
<1>8. Heeds(n, c)
  BY <1>3, <1>4 DEF Heeds
<1> QED BY <1>2, <1>6, <1>7, <1>8 DEF Spared, SameGoal, n

LEMMA FailStopSpared ==
    ASSUME NEW m, Sound(m), NEW c \in Nat, Spared(m, c)
    PROVE  LET n == [m EXCEPT !.fail_stop = TRUE]
           IN  Spared(n, c) /\ n.goal = m.goal /\ n.sent = m.sent
BY DEF Sound, Wide, Spared, Past, Awaited, Commanding, Expected

(* A callback that executes nothing condemned, and leaves the rest in order.*)
Minds(m, n, c) == Spared(n, Due(m, n, c)) /\ Heeds(n, Due(m, n, c))

LEMMA MuteMinds ==
    ASSUME NEW m, NEW n, NEW c, Mute(n), Spared(n, Due(m, n, c))
    PROVE  Minds(m, n, c)
BY DEF Mute, Minds, Heeds

LEMMA SameGoalMinds ==
    ASSUME NEW m, NEW n, NEW c, n.goal = m.goal, Spared(n, c), Mute(n) \/ Heeds(n, c)
    PROVE  Minds(m, n, c)
BY DEF Mute, Minds, Heeds, Due

LEMMA CommitReplacementMinds ==
    ASSUME NEW m, Sound(m), Mute(m), NEW v, NEW c \in Nat, Spared(m, c),
           Committable(m, v), Replacing(m)
    PROVE  Minds(m, CommitReplacement(m), c)
<1>1. /\ m.command.gimbal \in Nat /\ m.state # "WAITING"
      /\ m.ready # NoRequest /\ Expected(m, m.ready)
      /\ m.ready.pub <= m.map.pub /\ m.map.ready
      /\ RequireSnapshot => m.snapshot.pub = m.map.pub
  BY DEF Sound, Wide, CommandRecord, Committable, Replacing, MapReady,
         CandidateMapUsable, SnapshotUsable
<1>2. CASE GimbalSatisfies(m, m.ready.yaw, m.command.gimbal)
  <2>1. CommitReplacement(m) = Committed(m, m.command.gimbal)
    BY <1>2 DEF CommitReplacement
  <2> QED BY <1>1, <2>1, CommittedSpared, SameGoalMinds
<1>3. CASE ~GimbalSatisfies(m, m.ready.yaw, m.command.gimbal)
  <2>1. CommitReplacement(m) = [m EXCEPT !.fail_stop = TRUE]
    BY <1>3 DEF CommitReplacement
  <2> QED BY <2>1, FailStopSpared, FailStopSound, SameGoalMinds
<1> QED BY <1>2, <1>3

LEMMA CommitNewMinds ==
    ASSUME NEW m, Sound(m), Mute(m), NEW c \in Nat, Spared(m, c),
           m.ready # NoRequest, Expected(m, m.ready),
           m.ready.pub <= m.map.pub, m.map.ready,
           RequireSnapshot => m.snapshot.pub = m.map.pub
    PROVE  Minds(m, CommitNew(m), c)
<1> DEFINE sequence == m.yaw_request.sequence
<1>1. sequence \in Nat
  BY DEF Sound, Wide, YawRecord
<1>2. \/ CommitNew(m) = [m EXCEPT !.fail_stop = TRUE]
      \/ CommitNew(m) = m
      \/ m.state = "PLANNING" /\ CommitNew(m) = Committed(m, sequence)
  BY DEF CommitNew
<1> HIDE DEF sequence
<1>3. CASE CommitNew(m) = [m EXCEPT !.fail_stop = TRUE]
  BY <1>3, FailStopSpared, FailStopSound, SameGoalMinds
<1>4. CASE CommitNew(m) = m
  BY <1>4, SameGoalMinds
<1>5. CASE m.state = "PLANNING" /\ CommitNew(m) = Committed(m, sequence)
  BY <1>1, <1>5, CommittedSpared, SameGoalMinds
<1> QED BY <1>2, <1>3, <1>4, <1>5

LEMMA DropSpared ==
    ASSUME NEW m, Sound(m), NEW c \in Nat, Spared(m, c)
    PROVE  LET n == DropCandidate(m) IN Spared(n, c) /\ n.goal = m.goal
<1> DEFINE n == DropCandidate(m)
<1>1. /\ SameInputs(m, n) /\ SameGoal(m, n) /\ SameRequests(m, n)
      /\ n.epoch = m.epoch /\ n.state = m.state
      /\ n.command = m.command /\ n.after = m.after
  BY DropEffect DEF Sound
<1> HIDE DEF n
<1>2. Spared(n, c)
  BY <1>1 DEF Spared, Past, Awaited, SameInputs, SameGoal, SameRequests,
              Commanding, Expected
<1> QED BY <1>1, <1>2 DEF SameGoal, n

LEMMA ReplannedMinds ==
    ASSUME NEW m, Sound(m), Mute(m), NEW v \in Surroundings, NEW c \in Nat,
           Spared(m, c), m.goal # 0, m.next <= MaxRequests
    PROVE  Minds(m, Replanned(m, v), c)
<1> DEFINE d == DropCandidate(m)
           n == DispatchedOrSuspended(d, v, 0, "NONE")
<1>1. /\ Sound(d) /\ Mute(d) /\ d.goal = m.goal /\ d.next <= MaxRequests
      /\ d.state = m.state
  BY DropSound, DropEffect DEF Sound, SameGoal, SameRequests
<1>2. Spared(d, c)
  BY DropSpared
<1>3. /\ m.replacing /\ Commanding(m) /\ m.state = "TRACKING" => Replanned(m, v) = n
      /\ ~(m.replacing /\ Commanding(m) /\ m.state = "TRACKING") =>
            Replanned(m, v) = Suspended(m, "NONE", 0)
  BY DEF Replanned
<1> HIDE DEF d
<1>4. CASE m.replacing /\ Commanding(m) /\ m.state = "TRACKING"
  <2>1. CanDispatch(d, 0) => c < d.map.pub
    BY <1>1, <1>2, <1>4, MapIsPast DEF CanDispatch, Sound, Staged, Spared
  <2>2. Spared(n, c) /\ n.goal = d.goal
    BY <1>1, <1>2, <2>1, Words, DispatchedOrSuspendedSpared DEF Spared
  <2>3. Mute(n)
    BY <1>1, Words, DispatchedOrSuspendedSound
  <2> QED BY <1>1, <1>3, <1>4, <2>2, <2>3, SameGoalMinds
<1>5. CASE ~(m.replacing /\ Commanding(m) /\ m.state = "TRACKING")
  <2>1. Suspended(m, "NONE", 0).goal = m.goal
    BY SuspendedEffect DEF Sound, SameGoal
  <2>2. Spared(Suspended(m, "NONE", 0), c) /\ Mute(Suspended(m, "NONE", 0))
    BY Words, SuspendedSpared, SuspendedSound DEF Spared
  <2> QED BY <1>3, <1>5, <2>1, <2>2, SameGoalMinds
<1> QED BY <1>4, <1>5

LEMMA TryCommitMinds ==
    ASSUME NEW m, Sound(m), Mute(m), NEW v \in Surroundings, NEW c \in Nat,
           Spared(m, c), m.next <= MaxRequests
    PROVE  Minds(m, TryCommit(m, v), c)
<1>1. CASE StaleCandidate(m, v)
  <2>1. m.goal # 0
    BY <1>1 DEF StaleCandidate, Expected
  <2> QED BY <1>1, <2>1, ReplannedMinds DEF TryCommit
<1>2. CASE ~StaleCandidate(m, v) /\ ~Committable(m, v)
  BY <1>2, SameGoalMinds DEF TryCommit
<1>3. CASE ~StaleCandidate(m, v) /\ Committable(m, v) /\ Replacing(m)
  BY <1>3, CommitReplacementMinds DEF TryCommit
<1>4. CASE ~StaleCandidate(m, v) /\ Committable(m, v) /\ ~Replacing(m)
  <2> DEFINE y == YawRequested(m)
  <2>1. m.ready \in Requests
    BY <1>4, WideFields DEF Sound, Staged, Committable
  <2>2. y \in Wide /\ SameInputs(m, y) /\ Aside(m, y)
    BY <2>1, YawRequestedEffect DEF Sound
  <2> HIDE DEF y
  <2>3. Sound(y) /\ Mute(y)
    BY <2>2, AsideSound
  <2>4. Spared(y, c)
    <3>1. Ahead(m, y)
      BY <2>2, WideFields DEF Sound, Ahead, SameInputs, Spared, Past
    <3> QED BY <2>2, <3>1, AsideSpared
  <2>5. /\ y.ready # NoRequest /\ Expected(y, y.ready)
        /\ y.ready.pub <= y.map.pub /\ y.map.ready
        /\ RequireSnapshot => y.snapshot.pub = y.map.pub
    BY <1>4, <2>2
       DEF Committable, Expected, Aside, SameGoal, SameRequests, SameInputs,
           MapReady, CandidateMapUsable, SnapshotUsable
  <2>6. TryCommit(m, v) = CommitNew(y) /\ y.goal = m.goal
    BY <1>4, <2>2 DEF TryCommit, y, Aside, SameGoal
  <2>7. Minds(y, CommitNew(y), c)
    BY <2>3, <2>4, <2>5, CommitNewMinds
  <2> QED BY <2>6, <2>7 DEF Minds, Due
<1> QED BY <1>1, <1>2, <1>3, <1>4

-----------------------------------------------------------------------------
(* The callbacks do so one by one.                                          *)

LEMMA UnmovedSpared ==
    ASSUME NEW m, NEW n, Unmoved(m, n), NEW c, Spared(m, c)
    PROVE  Spared(n, c)
BY DEF Unmoved, SameInputs, SameGoal, SameRequests, Spared, Past, Awaited,
       Commanding, Expected

LEMMA FollowsSpared ==
    ASSUME NEW m, Sound(m), NEW n, Follows(m, n), Ahead(m, n),
           NEW c \in Nat, Spared(m, c)
    PROVE  Spared(n, c)
BY AsideSpared DEF Follows, Sound

LEMMA StartedMinds ==
    ASSUME NEW m, Sound(m), NEW v \in Surroundings, m.next_goal < MaxGoals,
           NEW c \in Nat, Spared(m, c)
    PROVE  Minds(m, Started(m, v), c)
<1> DEFINE n == Accepted(m)
           s == Started(m, v)
<1>1. /\ Sound(n) /\ SameInputs(m, n) /\ n.goal = m.next_goal + 1 /\ n.goal # 0
      /\ n.next = 0 /\ n.after = 0 /\ Bare(n)
      /\ n.state = IF Healthy(m) THEN "PLANNING" ELSE "WAITING"
  BY AcceptedSound
<1>2. s = IF Healthy(m) THEN DispatchedOrSuspended(n, v, 0, "NONE") ELSE n
  BY StartedIs
<1>3. Mute(s)
  BY StartedSound
<1> HIDE DEF n, s
<1>4. n.goal # m.goal /\ n.next <= MaxRequests
  BY <1>1, WideFields, ConfigAssumption DEF Sound, Numbered
<1>5. Past(n, 0)
  BY <1>1 DEF Past, Bare, Commanding, SameInputs, Spared
<1>6. CASE Healthy(m)
  <2>1. CanDispatch(n, 0) => 0 < n.map.pub
    BY <1>1, <1>5, MapIsPast DEF CanDispatch
  <2>2. Spared(s, 0) /\ s.goal = n.goal
    BY <1>1, <1>2, <1>4, <1>5, <1>6, <2>1, Words, DispatchedOrSuspendedSpared
  <2> QED BY <1>3, <1>4, <2>2, MuteMinds DEF Due, s
<1>7. CASE ~Healthy(m)
  <2>1. Spared(n, 0)
    BY <1>1, <1>5, <1>7 DEF Spared, Awaited, Bare, Commanding
  <2> QED BY <1>2, <1>3, <1>4, <1>7, <2>1, MuteMinds DEF Due, s
<1> QED BY <1>6, <1>7

LEMMA CancelledSpared ==
    ASSUME NEW m, Sound(m), NEW c \in Nat, Spared(m, c)
    PROVE  Spared(Cancelled(m), c) /\ Cancelled(m).goal = m.goal
BY DEF Cancelled, Sound, Wide, Spared, Past, Awaited, Commanding, Expected

(* A failure that condemns a publication suspends the goal until a later one.*)
Condemns(m, r, reason) ==
    ConcernsActive(m, r) /\ reason \in {"UNSAFE", "SNAPSHOT_CHANGED"}

LEMMA PlanFailedSpared ==
    ASSUME NEW m, Sound(m), NEW r \in m.requests, NEW reason \in Reasons,
           NEW c \in Nat, Spared(m, c)
    PROVE  LET n == PlanFailed(m, r, reason)
           IN  /\ Condemns(m, r, reason) =>
                    n.goal = m.goal /\ n.goal # 0 /\ Spared(n, Larger(c, r.pub))
               /\ ~Condemns(m, r, reason) => Spared(n, Due(m, n, c))
<1> DEFINE keep == reason = "SNAPSHOT_CHANGED" /\ NewerMapArrived(m, r)
           word == m.map.ready /\ keep
           map == [m.map EXCEPT !.ready = word]
           n == [m EXCEPT !.map = map]
           after == IF reason = "TRANSIENT" THEN 0 ELSE r.pub
           s == Suspended(n, "NONE", after)
<1>1. m \in Wide /\ r \in Requests
  BY WideFields DEF Sound
<1>2. word \in BOOLEAN /\ (word => m.map.ready)
  OBVIOUS
<1>3. PlanFailed(m, r, reason) =
        IF ~ConcernsActive(m, r) THEN m
        ELSE IF reason = "FATAL" THEN Finished(m) ELSE s
  <2>1. [m EXCEPT !.map.ready = @ /\ keep] = n
    BY <1>1 DEF Wide
  <2> QED BY <2>1 DEF PlanFailed
<1> HIDE DEF word
<1>4. map \in MapRecord /\ map.pub = m.map.pub /\ map.ready = word
  <2>1. map \in MapRecord
    BY <1>1, <1>2, WideFields, Zenon DEF MapRecord
  <2> QED BY <1>1, <2>1 DEF Wide, MapRecord
<1> HIDE DEF map
<1>5. n \in Wide
  BY <1>1, <1>4, Zenon DEF Wide
<1>6. Aside(m, n) /\ n.map = map /\ n.snapshot = m.snapshot
  BY <1>1 DEF Wide, Aside, SameGoal, SameRequests
<1> HIDE DEF n
<1>7. Ahead(m, n)
  BY <1>1, <1>2, <1>4, <1>6, WideFields DEF Ahead, Spared, Past
<1>8. Sound(n) /\ Spared(n, c)
  BY <1>5, <1>6, <1>7, AsideSound, AsideSpared
<1>9. after \in 0..MaxPublications /\ r.pub \in 0..MaxPublications
  BY <1>1, Words, RequestFields
<1>10. s.goal = m.goal
  BY <1>5, <1>6, SuspendedEffect DEF Aside, SameGoal
<1> HIDE DEF after
<1>11. Spared(s, c) /\ Spared(s, Larger(c, after))
  BY <1>8, <1>9, SuspendedSpared, SuspendedCondemns DEF Spared
<1>12. Condemns(m, r, reason) =>
         after = r.pub /\ m.goal # 0 /\ PlanFailed(m, r, reason) = s
  BY <1>3 DEF Condemns, ConcernsActive, after
<1>13. ConcernsActive(m, r) => Finished(m).goal # m.goal /\ Spared(Finished(m), 0)
  BY <1>1, FinishedEffect, FinishedSpared DEF ConcernsActive, Spared, Past
<1> HIDE DEF s
<1>14. Condemns(m, r, reason) =>
         LET k == PlanFailed(m, r, reason)
         IN  k.goal = m.goal /\ k.goal # 0 /\ Spared(k, Larger(c, r.pub))
  BY <1>10, <1>11, <1>12
<1>15. ~Condemns(m, r, reason) =>
         LET k == PlanFailed(m, r, reason) IN Spared(k, Due(m, k, c))
  BY <1>3, <1>10, <1>11, <1>13 DEF Due
<1> QED BY <1>14, <1>15

LEMMA ModeSwitchedSpared ==
    ASSUME NEW m, Sound(m), Commanding(m), NEW c \in Nat, Spared(m, c)
    PROVE  Spared(ModeSwitched(m), c) /\ ModeSwitched(m).goal = m.goal
BY DEF ModeSwitched, Stopped, Sound, Wide, Spared, Past, Awaited, Commanding,
       Expected

LEMMA AnswerSpared ==
    ASSUME NEW m, Sound(m), NEW r, NEW c \in Nat, Spared(m, c)
    PROVE  /\ LET n == [m EXCEPT !.ready = r] IN Spared(n, c) /\ n.goal = m.goal
           /\ LET n == [m EXCEPT !.candidate = r] IN Spared(n, c) /\ n.goal = m.goal
BY DEF Sound, Wide, Spared, Past, Awaited, Commanding, Expected

LEMMA ReferenceReadyMinds ==
    ASSUME NEW m, Sound(m), Mute(m), NEW v \in Surroundings, NEW r \in m.requests,
           m.next <= MaxRequests, NEW c \in Nat, Spared(m, c)
    PROVE  Minds(m, ReferenceReady(m, v, r), c)
<1> DEFINE switches == Commanding(m) /\ m.command.of.yaw # r.yaw
           n == IF switches THEN ModeSwitched(m) ELSE m
           k == [n EXCEPT !.ready = r]
           t == IF Expected(m, r) THEN k ELSE m
<1>1. Sound(n) /\ Mute(n) /\ n.requests = m.requests /\ n.next = m.next
  BY ModeSwitchedSound DEF Sound, Commanded, SameRequests
<1>2. Spared(n, c) /\ n.goal = m.goal
  BY ModeSwitchedSpared
<1>3. ReferenceReady(m, v, r) = TryCommit(t, v)
  BY DEF ReferenceReady
<1> HIDE DEF n
<1>4. Sound(k) /\ Mute(k) /\ k.next = m.next
  BY <1>1, AnswerSound
<1>5. Spared(k, c) /\ k.goal = m.goal
  BY <1>1, <1>2, AnswerSpared
<1> HIDE DEF k
<1>6. Sound(t) /\ Mute(t) /\ t.next <= MaxRequests /\ Spared(t, c) /\ t.goal = m.goal
  BY <1>4, <1>5
<1> HIDE DEF t
<1>7. Minds(t, TryCommit(t, v), c)
  BY <1>6, TryCommitMinds
<1> QED BY <1>3, <1>6, <1>7 DEF Minds, Due

(* A map or a snapshot received is not older than the one before it.        *)
LEMMA MapStatusMinds ==
    ASSUME NEW m, Sound(m), Mute(m), m.next <= MaxRequests, NEW v \in Surroundings,
           NEW ready \in BOOLEAN, NEW epoch \in 0..MaxEpochs,
           NEW pub \in 1..MaxPublications, pub >= m.map.pub,
           NEW c \in Nat, Spared(m, c)
    PROVE  Minds(m, MapStatusReceived(m, v, ready, epoch, pub), c)
<1> DEFINE map == [ready |-> ready, alive |-> ready, fresh |-> TRUE,
                   epoch |-> epoch, pub |-> pub]
           n == [m EXCEPT !.map = map]
           current == m.loc.epoch = 0 \/ epoch = m.loc.epoch
           s == Suspended(n, "NONE", 0)
<1>1. map \in MapRecord /\ map.pub = pub
  BY ConfigAssumption DEF MapRecord
<1>2. MapStatusReceived(m, v, ready, epoch, pub) =
        IF m.goal # 0 /\ current /\ ~ready THEN s ELSE TryCommit(n, v)
  BY DEF MapStatusReceived
<1> HIDE DEF map
<1>3. m \in Wide
  BY DEF Sound
<1>4. Follows(m, n)
  <2> PICK p \in SnapshotRecord, l \in LocRecord, g \in GimbalRecord :
        p = m.snapshot /\ l = m.loc /\ g = m.gimbal
    BY <1>3 DEF Wide
  <2> QED BY <1>1, HeardSound
<1>5. Ahead(m, n)
  <2>1. n.map = map /\ n.snapshot = m.snapshot
    BY <1>3 DEF Wide
  <2> QED BY <1>1, <1>3, <2>1, WideFields DEF Ahead
<1> HIDE DEF n, current
<1>6. Spared(n, c) /\ Sound(n) /\ Mute(n) /\ n.goal = m.goal /\ n.next = m.next
  BY <1>4, <1>5, FollowsSpared DEF Follows
<1>7. Minds(n, TryCommit(n, v), c)
  BY <1>6, TryCommitMinds
<1>8. m.goal # 0 => Spared(s, c) /\ Mute(s) /\ s.goal = m.goal
  BY <1>6, SuspendedSpared, SuspendedSound, SuspendedEffect, Words
     DEF Sound, Spared, SameGoal
<1> QED BY <1>2, <1>6, <1>7, <1>8, SameGoalMinds DEF Minds, Due

LEMMA SnapshotMinds ==
    ASSUME NEW m, Sound(m), Mute(m), m.next <= MaxRequests, NEW v \in Surroundings,
           NEW valid \in BOOLEAN, NEW epoch \in 0..MaxEpochs,
           NEW pub \in 1..MaxPublications, pub >= m.snapshot.pub,
           NEW c \in Nat, Spared(m, c)
    PROVE  Minds(m, SnapshotReceived(m, v, valid, epoch, pub), c)
<1> DEFINE snapshot == [valid |-> valid, fresh |-> TRUE, epoch |-> epoch,
                        pub |-> pub]
           n == [m EXCEPT !.snapshot = snapshot]
           s == Suspended(n, "NONE", 0)
<1>1. snapshot \in SnapshotRecord /\ snapshot.pub = pub
  BY ConfigAssumption DEF SnapshotRecord
<1>2. \/ SnapshotReceived(m, v, valid, epoch, pub) = m
      \/ m.goal # 0 /\ SnapshotReceived(m, v, valid, epoch, pub) = s
      \/ SnapshotReceived(m, v, valid, epoch, pub) = TryCommit(n, v)
  BY DEF SnapshotReceived
<1> HIDE DEF snapshot
<1>3. m \in Wide
  BY DEF Sound
<1>4. Follows(m, n)
  <2> PICK p \in MapRecord, l \in LocRecord, g \in GimbalRecord :
        p = m.map /\ l = m.loc /\ g = m.gimbal
    BY <1>3 DEF Wide
  <2> QED BY <1>1, HeardSound
<1>5. Ahead(m, n)
  <2>1. n.snapshot = snapshot /\ n.map = m.map
    BY <1>3 DEF Wide
  <2> QED BY <1>1, <1>3, <2>1, WideFields DEF Ahead, Spared, Past
<1> HIDE DEF n
<1>6. Spared(n, c) /\ Sound(n) /\ Mute(n) /\ n.goal = m.goal /\ n.next = m.next
  BY <1>4, <1>5, FollowsSpared DEF Follows
<1>7. Minds(n, TryCommit(n, v), c)
  BY <1>6, TryCommitMinds
<1>8. m.goal # 0 => Spared(s, c) /\ Mute(s) /\ s.goal = m.goal
  BY <1>6, SuspendedSpared, SuspendedSound, SuspendedEffect, Words
     DEF Sound, Spared, SameGoal
<1> QED BY <1>2, <1>6, <1>7, <1>8, SameGoalMinds DEF Minds, Due

LEMMA LocalizationInterruptedSpared ==
    ASSUME NEW m, Sound(m), NEW c \in Nat, Spared(m, c)
    PROVE  /\ Spared(LocalizationInterrupted(m), c)
           /\ LocalizationInterrupted(m).goal = m.goal
<1> DEFINE n == LocalizationInterrupted(m)
<1>1. m \in Wide
  BY DEF Sound
<1>2. /\ n.goal = m.goal /\ n.after = m.after /\ n.state = "WAITING"
      /\ n.command = NoCommand /\ n.snapshot = m.snapshot
      /\ n.map.pub = m.map.pub /\ ~n.map.ready
  BY <1>1 DEF Wide, MapRecord, LocalizationInterrupted, Stopped, DropCandidate
<1> HIDE DEF n
<1>3. Past(n, c) /\ Awaited(n, c)
  BY <1>2 DEF Spared, Past, Awaited, Commanding
<1> QED BY <1>2, <1>3 DEF Spared, n

LEMMA LocalizationMinds ==
    ASSUME NEW m, Sound(m), Mute(m), NEW healthy \in BOOLEAN,
           NEW epoch \in 0..MaxEpochs, NEW c \in Nat, Spared(m, c)
    PROVE  Minds(m, LocalizationReceived(m, healthy, epoch), c)
<1> DEFINE loc == [healthy |-> healthy, fresh |-> TRUE, epoch |-> epoch]
           n == [m EXCEPT !.loc = loc]
           s == LocalizationReceived(m, healthy, epoch)
<1>1. loc \in LocRecord
  BY DEF LocRecord
<1>2. s = LocalizationInterrupted(n) \/ s = n
  BY DEF LocalizationReceived
<1>3. Mute(s)
  BY LocalizationSound
<1> HIDE DEF loc
<1>4. m \in Wide
  BY DEF Sound
<1>5. Follows(m, n)
  <2> PICK p \in MapRecord, q \in SnapshotRecord, g \in GimbalRecord :
        p = m.map /\ q = m.snapshot /\ g = m.gimbal
    BY <1>4 DEF Wide
  <2> QED BY <1>1, HeardSound
<1>6. Ahead(m, n)
  <2>1. n.map = m.map /\ n.snapshot = m.snapshot
    BY <1>4 DEF Wide
  <2> QED BY <1>4, <2>1, WideFields DEF Ahead, Spared, Past
<1> HIDE DEF n, s
<1>7. Sound(n) /\ Spared(n, c) /\ n.goal = m.goal
  BY <1>5, <1>6, FollowsSpared DEF Follows
<1>8. Spared(s, c) /\ s.goal = m.goal
  BY <1>2, <1>7, LocalizationInterruptedSpared
<1> QED BY <1>3, <1>8, SameGoalMinds DEF s

LEMMA GimbalMinds ==
    ASSUME NEW m, Sound(m), Mute(m), m.next <= MaxRequests, NEW v \in Surroundings,
           NEW mode \in YawAuthorities, NEW sound \in BOOLEAN, NEW request \in Nat,
           NEW c \in Nat, Spared(m, c)
    PROVE  Minds(m, GimbalReceived(m, v, mode, sound, request), c)
<1> DEFINE gimbal == [mode |-> mode, sound |-> sound, fresh |-> TRUE,
                      request |-> request]
           n == [m EXCEPT !.gimbal = gimbal]
           t == IF GimbalHolds(n) THEN n ELSE Suspended(n, "NONE", 0)
<1>1. gimbal \in GimbalRecord
  BY DEF GimbalRecord
<1>2. GimbalReceived(m, v, mode, sound, request) = TryCommit(t, v)
  BY DEF GimbalReceived
<1> HIDE DEF gimbal
<1>3. m \in Wide
  BY DEF Sound
<1>4. Follows(m, n)
  <2> PICK p \in MapRecord, q \in SnapshotRecord, l \in LocRecord :
        p = m.map /\ q = m.snapshot /\ l = m.loc
    BY <1>3 DEF Wide
  <2> QED BY <1>1, HeardSound
<1>5. Ahead(m, n)
  <2>1. n.map = m.map /\ n.snapshot = m.snapshot
    BY <1>3 DEF Wide
  <2> QED BY <1>3, <2>1, WideFields DEF Ahead, Spared, Past
<1> HIDE DEF n
<1>6. Sound(n) /\ Mute(n) /\ Spared(n, c) /\ n.goal = m.goal /\ n.next = m.next
  BY <1>4, <1>5, FollowsSpared DEF Follows
<1>7. Sound(t) /\ Mute(t) /\ Spared(t, c) /\ t.goal = m.goal /\ t.next <= MaxRequests
  <2>1. CASE GimbalHolds(n)
    BY <1>6, <2>1
  <2>2. CASE ~GimbalHolds(n)
    <3>1. n.goal # 0
      BY <1>6, <2>2 DEF GimbalHolds, Sound, Commanded
    <3> QED
      BY <1>6, <2>2, <3>1, SuspendedSpared, SuspendedSound, SuspendedEffect, Words
         DEF Sound, Spared, SameGoal
  <2> QED BY <2>1, <2>2
<1> HIDE DEF t
<1>8. Minds(t, TryCommit(t, v), c)
  BY <1>7, TryCommitMinds
<1> QED BY <1>2, <1>7, <1>8 DEF Minds, Due

LEMMA OdometryMinds ==
    ASSUME NEW m, Sound(m), Mute(m), NEW quality \in {"LOST", "BLIND", "OK"},
           NEW c \in Nat, Spared(m, c)
    PROVE  Minds(m, OdometryReceived(m, quality), c)
<1> DEFINE n == [m EXCEPT !.odom = quality]
           s == OdometryReceived(m, quality)
<1>1. s = Suspended(n, "NONE", 0) \/ s = n
  BY DEF OdometryReceived
<1>2. Mute(s)
  BY OdometrySound
<1>3. m \in Wide
  BY DEF Sound
<1>4. Follows(m, n)
  <2> PICK p \in MapRecord, q \in SnapshotRecord, l \in LocRecord, g \in GimbalRecord :
        p = m.map /\ q = m.snapshot /\ l = m.loc /\ g = m.gimbal
    BY <1>3 DEF Wide
  <2> QED BY HeardSound
<1>5. Ahead(m, n)
  <2>1. n.map = m.map /\ n.snapshot = m.snapshot
    BY <1>3 DEF Wide
  <2> QED BY <1>3, <2>1, WideFields DEF Ahead, Spared, Past
<1> HIDE DEF n, s
<1>6. Sound(n) /\ Spared(n, c) /\ n.goal = m.goal
  BY <1>4, <1>5, FollowsSpared DEF Follows
<1>7. Spared(s, c) /\ s.goal = m.goal
  <2>1. /\ Spared(Suspended(n, "NONE", 0), c)
        /\ Suspended(n, "NONE", 0).goal = n.goal
    BY <1>6, SuspendedSpared, SuspendedEffect, Words DEF Sound, Spared, SameGoal
  <2> QED BY <1>1, <1>6, <2>1
<1> QED BY <1>2, <1>7, SameGoalMinds DEF s

-----------------------------------------------------------------------------
(* The timer.                                                               *)

LEMMA ChecksSpared ==
    ASSUME NEW m, Sound(m), NEW c \in Nat, Spared(m, c)
    PROVE  /\ Spared(GimbalChecked(m), c) /\ GimbalChecked(m).goal = m.goal
           /\ Spared(LocalizationChecked(m), c)
           /\ LocalizationChecked(m).goal = m.goal
<1> DEFINE g == GimbalChecked(m)
           l == LocalizationChecked(m)
<1>1. m \in Wide
  BY DEF Sound
<1>2. /\ g.goal = m.goal /\ g.after = m.after /\ g.state = m.state
      /\ g.command \in {m.command, NoCommand} /\ g.snapshot = m.snapshot
      /\ g.map = m.map /\ g.requests = m.requests /\ g.epoch = m.epoch
      /\ g.expected = m.expected
  BY <1>1 DEF Wide, GimbalChecked, DropCandidate
<1>3. /\ l.goal = m.goal /\ l.after = m.after /\ l.state \in {m.state, "WAITING"}
      /\ l.command = m.command /\ l.snapshot = m.snapshot
      /\ l.map.pub = m.map.pub /\ (l.map.ready => m.map.ready)
      /\ l.requests = m.requests /\ l.epoch = m.epoch /\ l.expected = m.expected
  BY <1>1 DEF Wide, MapRecord, LocalizationChecked, DropCandidate
<1> HIDE DEF g, l
<1>4. Past(g, c) /\ Awaited(g, c)
  BY <1>2 DEF Spared, Past, Awaited, Commanding, Expected
<1>5. Past(l, c) /\ Awaited(l, c)
  BY <1>3 DEF Spared, Past, Awaited, Commanding, Expected
<1> QED BY <1>2, <1>3, <1>4, <1>5 DEF Spared, g, l

LEMMA SuspensionChargedSpared ==
    ASSUME NEW m, Sound(m), NEW c \in Nat, Spared(m, c)
    PROVE  /\ Spared(SuspensionCharged(m), c)
           /\ SuspensionCharged(m).goal = m.goal
<1> DEFINE n == SuspensionCharged(m)
<1>1. n.map = m.map /\ n.snapshot = m.snapshot
  BY DEF Sound, Wide, SuspensionCharged
<1>2. Follows(m, n)
  BY SuspensionChargedSound
<1> HIDE DEF n
<1>3. Ahead(m, n)
  BY <1>1, WideFields DEF Sound, Ahead, Spared, Past
<1> QED BY <1>2, <1>3, FollowsSpared DEF Follows, n

LEMMA TrackedSpared ==
    ASSUME NEW m, Sound(m), NEW s \in Sightings, NEW c \in Nat, Spared(m, c)
    PROVE  Spared(Tracked(m, s), c)
<1> DEFINE n == Tracked(m, s)
<1>1. Follows(m, n) /\ Driven(m, n)
  BY TrackedSound
<1> HIDE DEF n
<1>2. Ahead(m, n)
  BY <1>1, WideFields DEF Sound, Driven, SameInputs, Ahead, Spared, Past
<1> QED BY <1>1, <1>2, FollowsSpared DEF n

LEMMA ProgressReplannedSpared ==
    ASSUME NEW m, Sound(m), NEW v \in Surroundings,
           m.goal # 0, m.next <= MaxRequests, m.state = "TRACKING", RequireSnapshot,
           NEW c \in Nat, Spared(m, c)
    PROVE  LET n == ProgressReplanned(m, v) IN Spared(n, c) /\ n.goal = m.goal
<1> DEFINE r == Revoked(m)
           k == [r EXCEPT !.state = "PLANNING", !.wait = "NONE"]
           n == Stopped(k)
           pub == m.snapshot.pub
<1>1. m \in Wide /\ r \in Wide /\ pub \in 0..MaxPublications /\ pub \in Nat
  BY RevokedType, WideFields DEF Sound
<1>2. /\ SameInputs(m, r) /\ SameGoal(m, r) /\ SameRequests(m, r) /\ Bare(r)
      /\ r.after = m.after
  BY <1>1 DEF Wide, Revoked, DropCandidate, SameInputs, SameGoal, SameRequests, Bare
<1>3. ProgressReplanned(m, v) = DispatchedOrSuspended(n, v, pub, "NONE")
  BY DEF ProgressReplanned
<1>4. pub = m.snapshot.pub
  OBVIOUS
<1> HIDE DEF r, pub
<1>5. k \in Wide
  BY <1>1, Words, Zenon DEF Wide
<1>6. /\ SameInputs(r, k) /\ SameGoal(r, k) /\ SameRequests(r, k) /\ Bare(k)
      /\ k.state = "PLANNING" /\ k.after = r.after
  BY <1>1, <1>2 DEF Wide, SameInputs, SameGoal, SameRequests, Bare
<1> HIDE DEF k
<1>7. n \in Wide
  BY <1>5, StoppedType
<1>8. /\ SameInputs(k, n) /\ SameGoal(k, n) /\ SameRequests(k, n) /\ Bare(n)
      /\ n.state = "PLANNING" /\ n.after = k.after /\ n.sent = Stop
  BY <1>5, <1>6 DEF Wide, SameInputs, SameGoal, SameRequests, Bare, Stopped
<1> HIDE DEF n
<1>9. Restaged(m, n) /\ SameInputs(m, n) /\ n.after = m.after
      /\ n.goal = m.goal /\ n.next = m.next
  BY <1>1, <1>2, <1>5, <1>6, <1>7, <1>8, WideFields
     DEF Restaged, SameInputs, SameGoal, SameRequests
<1>10. Sound(n)
  BY <1>7, <1>9, RestagedSound
<1>11. m.after = 0
  BY DEF Sound, Staged
<1>12. Past(n, c)
  BY <1>8, <1>9 DEF Spared, Past, Bare, Commanding, SameInputs
<1>13. CanDispatch(n, pub) => c < IF pub # 0 THEN pub ELSE n.map.pub
  <2>1. CASE c = 0
    BY <1>1, <1>9, <1>10, <1>11, <1>12, <2>1, MapIsPast DEF CanDispatch
  <2>2. CASE c > 0
    BY <1>1, <1>4, <1>11, <2>2 DEF Spared, Past
  <2> QED BY <2>1, <2>2
<1> QED
  BY <1>1, <1>3, <1>9, <1>10, <1>12, <1>13, DispatchedOrSuspendedSpared

LEMMA ReplanAdvisedSpared ==
    ASSUME NEW m, Sound(m), NEW v \in Surroundings, NEW r, m.next <= MaxRequests,
           NEW c \in Nat, Spared(m, c)
    PROVE  LET n == ReplanAdvised(m, v, r) IN Spared(n, c) /\ n.goal = m.goal
<1> DEFINE k == [m EXCEPT !.replacing = TRUE]
           n == Dispatched(k, v, 0)
           d == Dispatched(m, v, 0)
<1>1. m \in Wide
  BY DEF Sound
<1>2. CASE ReplanAdvised(m, v, r) = m
  BY <1>2
<1>3. CASE /\ m.goal # 0 /\ m.state = "TRACKING" /\ CanDispatch(m, 0)
           /\ ReplanAdvised(m, v, r) = n
  <2>1. c < m.map.pub
    BY <1>3, MapIsPast DEF CanDispatch, Sound, Staged, Spared
  <2>2. Spared(d, c)
    BY <1>3, <2>1, Words, DispatchedSpared DEF Spared
  <2>3. k \in Wide
    BY <1>1, Zenon DEF Wide
  <2>4. /\ k.goal = m.goal /\ k.next = m.next /\ k.epoch = m.epoch
        /\ k.map = m.map
    BY <1>1 DEF Wide
  <2>5. /\ SameInputs(d, n) /\ SameGoal(d, n) /\ SameRequests(d, n)
        /\ n.epoch = d.epoch /\ n.state = d.state /\ n.after = d.after
        /\ n.command = d.command /\ n.goal = m.goal
    BY <1>1, <2>3, <2>4
       DEF Wide, Dispatched, SameGoal, SameRequests, SameInputs
  <2> HIDE DEF n, d
  <2>6. Spared(n, c)
    BY <2>2, <2>5 DEF Spared, Past, Awaited, SameInputs, SameGoal, SameRequests,
                      Commanding, Expected
  <2> QED BY <1>3, <2>5, <2>6
<1> QED BY <1>2, <1>3 DEF ReplanAdvised

LEMMA TrackingActedSpared ==
    ASSUME NEW m, Sound(m), NEW v \in Surroundings, NEW s \in Sightings,
           m.goal # 0, m.next <= MaxRequests, m.state = "TRACKING",
           NEW c \in Nat, Spared(m, c)
    PROVE  LET n == TrackingActed(m, v, s) IN Spared(n, c) /\ n.goal = m.goal
<1> DEFINE t == Tracked(m, s)
           after == IF ProgressGateHealthy(m) THEN m.snapshot.pub ELSE 0
           r == [goal |-> t.goal, epoch |-> t.epoch, request |-> t.committed]
<1>1. /\ Sound(t) /\ t.goal = m.goal /\ t.next <= MaxRequests
      /\ t.state = "TRACKING" /\ Spared(t, c)
  BY TrackedSound, TrackedSpared DEF Follows, Aside
<1>2. after \in 0..MaxPublications
  BY WideFields, Words DEF Sound
<1>3. \/ RequireSnapshot /\ TrackingActed(m, v, s) = ProgressReplanned(t, v)
      \/ TrackingActed(m, v, s) = Suspended(t, "NONE", after)
      \/ TrackingActed(m, v, s) = ReplanAdvised(t, v, r)
      \/ TrackingActed(m, v, s) = t
  BY DEF TrackingActed, Decision, Watched
<1> HIDE DEF t, after, r
<1>4. CASE RequireSnapshot /\ TrackingActed(m, v, s) = ProgressReplanned(t, v)
  BY <1>1, <1>4, ProgressReplannedSpared
<1>5. CASE TrackingActed(m, v, s) = Suspended(t, "NONE", after)
  <2>1. Spared(Suspended(t, "NONE", after), c)
    BY <1>1, <1>2, SuspendedSpared DEF Spared
  <2>2. Suspended(t, "NONE", after).goal = t.goal
    BY <1>1, SuspendedEffect DEF Sound, SameGoal
  <2> QED BY <1>1, <1>5, <2>1, <2>2
<1>6. CASE TrackingActed(m, v, s) = ReplanAdvised(t, v, r)
  BY <1>1, <1>6, ReplanAdvisedSpared
<1> QED BY <1>1, <1>3, <1>4, <1>5, <1>6

LEMMA ActedSpared ==
    ASSUME NEW m, Sound(m), NEW v \in Surroundings, NEW s \in Sightings,
           NEW lost \in BOOLEAN, m.goal # 0, m.next <= MaxRequests,
           NEW c \in Nat, Spared(m, c)
    PROVE  LET n == Acted(m, v, s, lost) IN Spared(n, c) /\ n.goal = m.goal
<1>1. CASE MapRecovered(m)
  <2> DEFINE k == Recovering(m)
             n == DispatchedOrSuspended(k, v, 0, m.wait)
  <2>1. /\ Sound(k) /\ SameInputs(m, k) /\ k.goal = m.goal /\ k.next = m.next
        /\ k.after = m.after /\ k.command = m.command
    BY <1>1, RecoveringSound DEF MapRecovered
  <2>2. Acted(m, v, s, lost) = n
    BY <1>1 DEF Acted, Recovering, MapRecovered
  <2> HIDE DEF k
  <2>3. Past(k, c)
    BY <2>1 DEF Spared, Past, SameInputs, Commanding
  <2>4. CanDispatch(k, 0) => c < k.map.pub
    <3>1. m.after \in Nat /\ m.map.pub \in Nat
      BY WideFields DEF Sound
    <3>2. c < m.map.pub
      <4>1. CASE m.after = 0
        BY <1>1, <4>1, MapIsPast DEF MapRecovered, Spared
      <4>2. CASE m.after # 0
        BY <1>1, <3>1, <4>2
           DEF MapRecovered, RecoverySnapshotReady, Spared, Past
      <4> QED BY <4>1, <4>2
    <3> QED BY <2>1, <3>2 DEF SameInputs
  <2>5. Spared(n, c) /\ n.goal = k.goal
    BY <2>1, <2>3, <2>4, Words, DispatchedOrSuspendedSpared
  <2> QED BY <2>1, <2>2, <2>5
<1>2. CASE ~MapRecovered(m) /\ m.state = "WAITING"
  <2>1. Acted(m, v, s, lost) = SuspensionCharged(m)
    BY <1>2 DEF Acted
  <2> QED BY <2>1, SuspensionChargedSpared
<1>3. CASE ~MapRecovered(m) /\ m.state = "TRACKING"
  <2>1. Acted(m, v, s, lost) = IF lost THEN Tracked(m, s) ELSE TrackingActed(m, v, s)
    BY <1>3 DEF Acted
  <2>2. Spared(Tracked(m, s), c) /\ Tracked(m, s).goal = m.goal
    BY TrackedSpared, TrackedSound DEF Follows
  <2> QED BY <1>3, <2>1, <2>2, TrackingActedSpared
<1>4. CASE ~MapRecovered(m) /\ m.state \notin {"WAITING", "TRACKING"}
  <2>1. Acted(m, v, s, lost) = m
    BY <1>4 DEF Acted
  <2> QED BY <2>1
<1> QED BY <1>1, <1>2, <1>3, <1>4

LEMMA SupervisedMinds ==
    ASSUME NEW m, Sound(m), Mute(m), NEW v \in Surroundings, NEW s \in Sightings,
           m.goal # 0, m.next <= MaxRequests, NEW c \in Nat, Spared(m, c)
    PROVE  LET k == Supervised(m, v, s)
           IN  Spared(k, Due(m, k, c)) /\ (k.goal = m.goal \/ k.goal = 0)
<1> DEFINE lost == ~GimbalHolds(m)
           g == GimbalChecked(m)
           n == LocalizationChecked(g)
           acted == Acted(n, v, s, lost)
           recovering == IF lost THEN Suspended(acted, "NONE", 0) ELSE acted
           k == Supervised(m, v, s)
<1>1. /\ Sound(g) /\ Mute(g) /\ g.goal = m.goal /\ g.next = m.next /\ Spared(g, c)
  BY GimbalCheckedSound, ChecksSpared
<1>2. k = Finished(recovering) \/ k = recovering
  BY DEF Supervised
<1>3. lost \in BOOLEAN
  BY DEF GimbalHolds
<1> HIDE DEF g, lost, k
<1>4. /\ Sound(n) /\ Mute(n) /\ n.goal = m.goal /\ n.next = m.next /\ Spared(n, c)
  BY <1>1, LocalizationCheckedSound, ChecksSpared
<1> HIDE DEF n
<1>5. Sound(acted) /\ Spared(acted, c) /\ acted.goal = m.goal
  BY <1>3, <1>4, ActedSound, ActedSpared
<1> HIDE DEF acted
<1>6. Sound(recovering) /\ Spared(recovering, c) /\ recovering.goal = m.goal
  <2>1. Spared(Suspended(acted, "NONE", 0), c) /\ Sound(Suspended(acted, "NONE", 0))
    BY <1>5, SuspendedSpared, SuspendedSound, Words DEF Spared
  <2>2. Suspended(acted, "NONE", 0).goal = acted.goal
    BY <1>5, SuspendedEffect DEF Sound, SameGoal
  <2> QED BY <1>5, <2>1, <2>2
<1> HIDE DEF recovering
<1>7. Spared(Finished(recovering), 0) /\ Finished(recovering).goal = 0
  BY <1>6, FinishedSpared, FinishedEffect DEF Sound, Spared, Past
<1>8. Spared(k, Due(m, k, c)) /\ (k.goal = m.goal \/ k.goal = 0)
  BY <1>2, <1>6, <1>7 DEF Due
<1> QED BY <1>8 DEF k

LEMMA HeartbeatSpared ==
    ASSUME NEW m, Sound(m), Mute(m), NEW c \in Nat, Spared(m, c)
    PROVE  LET n == Heartbeat(m)
           IN  Spared(n, c) /\ Heeds(n, c) /\ n.goal = m.goal
<1> DEFINE n == Heartbeat(m)
           word == Execute(m.command)
<1>1. CASE m.fail_stop \/ m.state # "TRACKING"
  <2>1. n = Said(m, TRUE, Stop)
    BY <1>1 DEF Heartbeat, Stopped, Said
  <2> HIDE DEF n
  <2>2. n.sent = Stop /\ Unmoved(m, n)
    BY <2>1, SaidSound, Words
  <2>3. Spared(n, c) /\ n.goal = m.goal
    BY <2>2, UnmovedSpared DEF Unmoved, SameGoal
  <2> QED BY <2>2, <2>3, Words DEF Heeds, n
<1>2. CASE ~(m.fail_stop \/ m.state # "TRACKING")
  <2>1. Commanding(m) /\ m.command \in CommandRecord
    BY <1>2, WideFields DEF Sound, Backed
  <2>2. n = Said(m, FALSE, word)
    BY <1>2, <2>1 DEF Heartbeat, Said
  <2>3. word \in SentRecord /\ word.of = m.command.of
    BY <2>1 DEF CommandRecord, SentRecord, Execute
  <2> HIDE DEF n, word
  <2>4. n.sent = word /\ Unmoved(m, n)
    BY <2>2, <2>3, SaidSound
  <2>5. Spared(n, c) /\ n.goal = m.goal
    BY <2>4, UnmovedSpared DEF Unmoved, SameGoal
  <2>6. Heeds(n, c)
    BY <2>1, <2>3, <2>4 DEF Heeds, Spared, Past
  <2> QED BY <2>5, <2>6 DEF n
<1> QED BY <1>1, <1>2

LEMMA TickedMinds ==
    ASSUME NEW m, Sound(m), Mute(m), NEW v \in Surroundings, NEW s \in Sightings,
           m.next <= MaxRequests, NEW c \in Nat, Spared(m, c)
    PROVE  Minds(m, Ticked(m, v, s), c)
<1>1. CASE m.goal = 0
  <2>1. Ticked(m, v, s) = Heartbeat(m)
    BY <1>1 DEF Ticked
  <2> QED BY <2>1, HeartbeatSpared, SameGoalMinds
<1>2. CASE m.goal # 0 /\ ~m.goal_tf
  <2>1. Ticked(m, v, s) = Suspended(m, "NONE", 0)
    BY <1>2 DEF Ticked
  <2>2. /\ Spared(Suspended(m, "NONE", 0), c) /\ Mute(Suspended(m, "NONE", 0))
        /\ Suspended(m, "NONE", 0).goal = m.goal
    BY <1>2, SuspendedSpared, SuspendedSound, SuspendedEffect, Words
       DEF Sound, Spared, SameGoal
  <2> QED BY <2>1, <2>2, SameGoalMinds
<1>3. CASE m.goal # 0 /\ m.goal_tf
  <2> DEFINE k == Supervised(m, v, s)
             d == Due(m, k, c)
  <2>1. Sound(k) /\ Mute(k)
    BY <1>3, SupervisedSound
  <2>2. Spared(k, d)
    BY <1>3, SupervisedMinds
  <2>3. Ticked(m, v, s) = Heartbeat(k)
    BY <1>3 DEF Ticked
  <2>4. d \in Nat
    BY DEF Due
  <2> HIDE DEF k, d
  <2>5. Spared(Heartbeat(k), d) /\ Heeds(Heartbeat(k), d) /\ Heartbeat(k).goal = k.goal
    BY <2>1, <2>2, <2>4, HeartbeatSpared
  <2> QED BY <2>3, <2>5 DEF Minds, Due, d
<1> QED BY <1>1, <1>2, <1>3

-----------------------------------------------------------------------------
(* No step of the manager executes a condemned plan.                       *)

CInv ==
    /\ IInv
    /\ Spared(mgr, history.condemned) /\ Heeds(mgr, history.condemned)

LEMMA AwakeSpared ==
    ASSUME CInv
    PROVE  /\ history.condemned \in Nat /\ Spared(Awake, history.condemned)
           /\ Sound(Awake) /\ Mute(Awake) /\ Awake.next <= MaxRequests
           /\ Awake.goal = mgr.goal /\ Awake.next_goal = mgr.next_goal
           /\ Awake.requests = mgr.requests
<1>1. history.condemned \in Nat
  BY ConfigAssumption DEF CInv, IInv, HistoryOK
<1>2. Unmoved(mgr, Awake) /\ Spared(mgr, history.condemned)
  BY AwakeSound DEF CInv
<1>3. Spared(Awake, history.condemned)
  BY <1>2, UnmovedSpared
<1> QED BY <1>1, <1>3, AwakeSound DEF CInv

LEMMA BecomesMinds ==
    ASSUME CInv, IInv', NEW m, Minds(Awake, m, history.condemned), Becomes(m)
    PROVE  CInv'
<1>1. mgr' = m /\ history' = Remembered(m)
  BY DEF Becomes
<1>2. Awake.goal = mgr.goal
  BY AwakeSpared
<1>3. history \in [barrier : 0..MaxRequests, condemned : 0..MaxPublications]
  BY DEF CInv, IInv, HistoryOK
<1>4. history'.condemned = Due(Awake, m, history.condemned)
  BY <1>1, <1>2, <1>3 DEF Remembered, NothingHappened, Due
<1>5. Spared(m, history'.condemned) /\ Heeds(m, history'.condemned)
  BY <1>4 DEF Minds
<1>6. Spared(mgr, history.condemned)' /\ Heeds(mgr, history.condemned)'
  BY <1>1, <1>5, Zenon
<1> QED BY <1>6 DEF CInv

(* An input that is heard, or time that passes, condemns nothing.          *)
LEMMA FollowsMinds ==
    ASSUME CInv, IInv', NEW m, Follows(Awake, m), Ahead(Awake, m), Becomes(m)
    PROVE  CInv'
<1>1. Spared(m, history.condemned) /\ Mute(m) /\ m.goal = Awake.goal
  BY AwakeSpared, FollowsSpared DEF Follows
<1>2. Minds(Awake, m, history.condemned)
  BY <1>1, SameGoalMinds
<1> QED BY <1>2, BecomesMinds

LEMMA PlannerFailureMinds ==
    ASSUME CInv, OnPlannerFailure PROVE CInv'
<1>1. PICK r \in mgr.requests, reason \in Reasons :
        OnPlanFailed(r, reason) \/ OnPlanAcceptedInVain(r, reason)
  BY DEF OnPlannerFailure
<1> DEFINE a == Awake
           c == history.condemned
<1>2. /\ IInv /\ IInv' /\ c \in Nat /\ Spared(a, c) /\ Sound(a) /\ Mute(a)
      /\ a.goal = mgr.goal /\ r \in a.requests
      /\ history \in [barrier : 0..MaxRequests, condemned : 0..MaxPublications]
  BY AwakeSpared, PlannerFailureSound DEF CInv, IInv, HistoryOK
<1>3. Condemns(mgr, r, reason) <=> Condemns(a, r, reason)
  BY AwakeSound, <1>2
     DEF Unmoved, SameRequests, SameGoal, Condemns, ConcernsActive, Commanding
<1>4. CASE OnPlanFailed(r, reason)
  <2> DEFINE m == PlanFailed(a, r, reason)
             d == IF Condemns(mgr, r, reason) /\ m.goal # 0
                  THEN Larger(Remembered(m).condemned, r.pub)
                  ELSE Remembered(m).condemned
  <2>1. mgr' = m /\ history' = [Remembered(m) EXCEPT !.condemned = d]
    BY <1>2, <1>4, RememberedType DEF OnPlanFailed, Condemns
  <2>2. /\ Condemns(a, r, reason) =>
             m.goal = a.goal /\ m.goal # 0 /\ Spared(m, Larger(c, r.pub))
        /\ ~Condemns(a, r, reason) => Spared(m, Due(a, m, c))
    BY <1>2, PlanFailedSpared
  <2>3. Mute(m)
    BY <1>2, AwakeSpared, PlanFailedSound
  <2> HIDE DEF a, m
  <2>4. Remembered(m).condemned = Due(a, m, c)
    BY <1>2 DEF Remembered, NothingHappened, Due
  <2>5. Spared(m, d)
    BY <1>3, <2>2, <2>4 DEF Due
  <2>6. history'.condemned = d
    BY <1>2, <2>1, RememberedType
  <2> HIDE DEF d
  <2>7. Heeds(m, d)
    BY <2>3 DEF Mute, Heeds
  <2>8. Spared(mgr, history.condemned)' /\ Heeds(mgr, history.condemned)'
    BY <2>1, <2>5, <2>6, <2>7, Zenon
  <2> QED BY <1>2, <2>8 DEF CInv
<1>5. CASE mgr' = [a EXCEPT !.replacing = FALSE] /\ history' = history
  <2> DEFINE m == [a EXCEPT !.replacing = FALSE]
  <2>1. Mute(m)
    BY <1>2, NotReplacingSound
  <2>2. Spared(m, c)
    <3>1. a \in Wide
      BY <1>2 DEF Sound
    <3> HIDE DEF a
    <3>2. /\ m.map = a.map /\ m.snapshot = a.snapshot /\ m.after = a.after
          /\ m.command = a.command /\ m.state = a.state
          /\ m.requests = a.requests /\ m.goal = a.goal /\ m.epoch = a.epoch
          /\ m.expected = a.expected
      BY <3>1 DEF Wide
    <3> HIDE DEF m
    <3> QED BY <1>2, <3>2 DEF Spared, Past, Awaited, Expected, Commanding
  <2>3. mgr' = m
    BY <1>5
  <2> HIDE DEF a, m
  <2>4. Spared(m, c) /\ Heeds(m, c)
    BY <2>1, <2>2 DEF Mute, Heeds
  <2>5. Spared(mgr, history.condemned)' /\ Heeds(mgr, history.condemned)'
    BY <1>5, <2>3, <2>4, Zenon
  <2> QED BY <1>2, <2>5 DEF CInv
<1> QED BY <1>1, <1>4, <1>5 DEF OnPlanAcceptedInVain

LEMMA CallsMind ==
    ASSUME CInv
    PROVE  /\ OnActionAccepted => CInv'
           /\ OnActionCancel => CInv'
           /\ OnGoalRefused => CInv'
           /\ OnReplanAdvised => CInv'
           /\ OnReferenceReady => CInv'
           /\ OnCandidateReference => CInv'
<1> DEFINE a == Awake
           c == history.condemned
<1>1. /\ c \in Nat /\ Spared(a, c) /\ Sound(a) /\ Mute(a)
      /\ a.next <= MaxRequests /\ a.goal = mgr.goal
      /\ a.next_goal = mgr.next_goal /\ a.requests = mgr.requests
  BY AwakeSpared
<1>2. Prospects \subseteq Surroundings
  BY DEF Prospects
<1>3. ASSUME NEW m, Becomes(m), Minds(a, m, c), IInv' PROVE CInv'
  BY <1>3, BecomesMinds
<1>4. IInv
  BY DEF CInv
<1>5. OnActionAccepted => CInv'
  <2> SUFFICES ASSUME OnActionAccepted, mgr.next_goal < MaxGoals,
                      NEW v \in Prospects, Becomes(Started(a, v))
               PROVE  CInv'
    BY DEF OnActionAccepted
  <2>1. IInv'
    BY <1>4, CallsSound
  <2> HIDE DEF a, c
  <2> QED BY <1>1, <1>2, <1>3, <2>1, StartedMinds
<1>6. OnActionCancel => CInv'
  <2> SUFFICES ASSUME OnActionCancel, mgr.goal # 0, Becomes(Cancelled(a))
               PROVE  CInv'
    BY DEF OnActionCancel
  <2>1. IInv'
    BY <1>4, CallsSound
  <2> HIDE DEF a, c
  <2>2. Spared(Cancelled(a), c) /\ Cancelled(a).goal = a.goal /\ Mute(Cancelled(a))
    BY <1>1, CancelledSpared, CancelledSound
  <2> QED BY <1>3, <2>1, <2>2, SameGoalMinds
<1>7. OnGoalRefused => CInv'
  <2> DEFINE word == a.sent
             m == Said(a, TRUE, word)
  <2> SUFFICES ASSUME OnGoalRefused, Becomes([a EXCEPT !.estop = TRUE])
               PROVE  CInv'
    BY DEF OnGoalRefused
  <2>1. IInv'
    BY <1>4, CallsSound
  <2> HIDE DEF a, c
  <2>2. a \in Wide /\ word \in SentRecord
    BY <1>1 DEF Sound, Wide
  <2>3. [a EXCEPT !.estop = TRUE] = m
    BY <2>2 DEF Wide, Said
  <2> HIDE DEF word
  <2>4. m.sent = word /\ Unmoved(a, m)
    BY <1>1, <2>2, SaidSound
  <2>5. Mute(m)
    BY <1>1, <2>4 DEF Mute, word
  <2> HIDE DEF m
  <2>6. Spared(m, c) /\ m.goal = a.goal
    BY <1>1, <2>4, UnmovedSpared DEF Unmoved, SameGoal
  <2> QED BY <1>3, <2>1, <2>3, <2>5, <2>6, SameGoalMinds
<1>8. OnReplanAdvised => CInv'
  <2> SUFFICES ASSUME OnReplanAdvised, NEW r \in mgr.requests, NEW v \in Prospects,
                      Becomes(ReplanAdvised(a, v, r))
               PROVE  CInv'
    BY DEF OnReplanAdvised
  <2>1. IInv'
    BY <1>4, CallsSound
  <2> HIDE DEF a, c
  <2>2. /\ Spared(ReplanAdvised(a, v, r), c) /\ Mute(ReplanAdvised(a, v, r))
        /\ ReplanAdvised(a, v, r).goal = a.goal
    BY <1>1, <1>2, ReplanAdvisedSpared, ReplanAdvisedSound
  <2> QED BY <1>3, <2>1, <2>2, SameGoalMinds
<1>9. OnReferenceReady => CInv'
  <2> SUFFICES ASSUME OnReferenceReady, NEW r \in mgr.requests,
                      NEW v \in Surroundings, Becomes(ReferenceReady(a, v, r))
               PROVE  CInv'
    BY DEF OnReferenceReady
  <2>1. IInv'
    BY <1>4, CallsSound
  <2> HIDE DEF a, c
  <2> QED BY <1>1, <1>3, <2>1, ReferenceReadyMinds
<1>10. OnCandidateReference => CInv'
  <2> SUFFICES ASSUME OnCandidateReference, NEW r \in mgr.requests,
                      NEW v \in Surroundings,
                      Becomes(TryCommit([a EXCEPT !.candidate = r], v))
               PROVE  CInv'
    BY DEF OnCandidateReference
  <2>1. IInv'
    BY <1>4, CallsSound
  <2> HIDE DEF a, c
  <2> DEFINE n == [a EXCEPT !.candidate = r]
  <2>2. /\ Sound(n) /\ Mute(n) /\ n.next <= MaxRequests
        /\ Spared(n, c) /\ n.goal = a.goal
    BY <1>1, AnswerSound, AnswerSpared
  <2>3. Becomes(TryCommit(n, v))
    OBVIOUS
  <2> HIDE DEF n
  <2>4. Minds(n, TryCommit(n, v), c)
    BY <1>1, <2>2, TryCommitMinds
  <2>5. Minds(a, TryCommit(n, v), c)
    BY <2>2, <2>4 DEF Minds, Due
  <2> QED BY <1>3, <2>1, <2>3, <2>5
<1> QED BY <1>5, <1>6, <1>7, <1>8, <1>9, <1>10

(* Unless the adapter restarts, what it says of the map is never older than *)
(* what it said before.                                                     *)
LEMMA InputsMind ==
    ASSUME CInv, "RESTART" \notin Faults
    PROVE  /\ OnMapStatus => CInv'
           /\ OnPlanningSnapshot => CInv'
           /\ OnLocalizationStatus => CInv'
           /\ OnGimbalYawStatus => CInv'
           /\ OnOdometry => CInv'
           /\ OnTick => CInv'
<1> DEFINE a == Awake
           c == history.condemned
<1>1. /\ c \in Nat /\ Spared(a, c) /\ Sound(a) /\ Mute(a)
      /\ a.next <= MaxRequests
  BY AwakeSpared
<1>2. /\ \A fault : Outcomes(fault) \subseteq BOOLEAN
      /\ Prospects \subseteq Surroundings
      /\ 1..MaxEpochs \subseteq 0..MaxEpochs
  <2>1. \A fault : Outcomes(fault) \subseteq BOOLEAN
    BY Zenon DEF Outcomes
  <2> QED BY <2>1, ConfigAssumption DEF Prospects
<1>3. /\ mgr.map.epoch \in 0..MaxEpochs /\ mgr.loc.epoch \in 0..MaxEpochs
      /\ mgr.next_yaw \in Nat
      /\ a.map = mgr.map /\ a.snapshot = mgr.snapshot
  BY WideFields, AwakeSound DEF CInv, IInv, Sound, Unmoved, SameInputs
<1>4. /\ Larger(1, mgr.map.epoch)..MaxEpochs \subseteq 0..MaxEpochs
      /\ Larger(1, mgr.loc.epoch)..MaxEpochs \subseteq 0..MaxEpochs
      /\ 0..mgr.next_yaw \subseteq Nat
  BY <1>3, ConfigAssumption DEF Larger
<1>5. ASSUME NEW m, Becomes(m), Minds(a, m, c), IInv' PROVE CInv'
  BY <1>5, BecomesMinds
<1>6. IInv
  BY DEF CInv
<1>7. OnMapStatus => CInv'
  <2> SUFFICES ASSUME OnMapStatus,
                      NEW v \in Surroundings, NEW ready \in Outcomes("MAP"),
                      NEW epoch \in Larger(1, mgr.map.epoch)..MaxEpochs,
                      NEW pub \in 1..MaxPublications, pub >= mgr.map.pub,
                      Becomes(MapStatusReceived(a, v, ready, epoch, pub))
               PROVE  CInv'
    BY DEF OnMapStatus
  <2>1. ready \in BOOLEAN /\ epoch \in 0..MaxEpochs /\ pub >= a.map.pub
    BY <1>2, <1>3, <1>4, Zenon
  <2>2. IInv'
    BY <1>6, InputsSound
  <2> HIDE DEF a, c
  <2> QED BY <1>1, <1>5, <2>1, <2>2, MapStatusMinds
<1>8. OnPlanningSnapshot => CInv'
  <2> SUFFICES ASSUME OnPlanningSnapshot,
                      NEW v \in Surroundings, NEW valid \in Outcomes("SNAPSHOT"),
                      NEW epoch \in 1..MaxEpochs, NEW pub \in 1..MaxPublications,
                      pub >= mgr.snapshot.pub,
                      Becomes(SnapshotReceived(a, v, valid, epoch, pub))
               PROVE  CInv'
    BY DEF OnPlanningSnapshot
  <2>1. valid \in BOOLEAN /\ epoch \in 0..MaxEpochs /\ pub >= a.snapshot.pub
    BY <1>2, <1>3, Zenon
  <2>2. IInv'
    BY <1>6, InputsSound
  <2> HIDE DEF a, c
  <2> QED BY <1>1, <1>5, <2>1, <2>2, SnapshotMinds
<1>9. OnLocalizationStatus => CInv'
  <2> SUFFICES ASSUME OnLocalizationStatus,
                      NEW healthy \in Outcomes("LOCALIZATION"),
                      NEW epoch \in Larger(1, mgr.loc.epoch)..MaxEpochs,
                      Becomes(LocalizationReceived(a, healthy, epoch))
               PROVE  CInv'
    BY DEF OnLocalizationStatus
  <2>1. healthy \in BOOLEAN /\ epoch \in 0..MaxEpochs
    BY <1>2, <1>4, Zenon
  <2>2. IInv'
    BY <1>6, InputsSound
  <2> HIDE DEF a, c
  <2> QED BY <1>1, <1>5, <2>1, <2>2, LocalizationMinds
<1>10. OnGimbalYawStatus => CInv'
  <2> SUFFICES ASSUME OnGimbalYawStatus, NEW v \in Surroundings,
                      NEW mode \in YawModes, NEW sound \in Outcomes("GIMBAL"),
                      NEW request \in 0..mgr.next_yaw,
                      Becomes(GimbalReceived(a, v, mode, sound, request))
               PROVE  CInv'
    BY DEF OnGimbalYawStatus
  <2>1. sound \in BOOLEAN /\ mode \in YawAuthorities /\ request \in Nat
    BY <1>2, <1>4, Zenon DEF YawAuthorities
  <2>2. IInv'
    BY <1>6, InputsSound
  <2> HIDE DEF a, c
  <2> QED BY <1>1, <1>5, <2>1, <2>2, GimbalMinds
<1>11. OnOdometry => CInv'
  <2> SUFFICES ASSUME OnOdometry, NEW quality \in {"LOST", "BLIND", "OK"},
                      Becomes(OdometryReceived(a, quality))
               PROVE  CInv'
    BY DEF OnOdometry
  <2>2. IInv'
    BY <1>6, InputsSound
  <2> HIDE DEF a, c
  <2> QED BY <1>1, <1>5, <2>2, OdometryMinds
<1>12. OnTick => CInv'
  <2> SUFFICES ASSUME OnTick, NEW v \in Prospects, NEW s \in Sightings,
                      Becomes(Ticked(a, v, s))
               PROVE  CInv'
    BY DEF OnTick
  <2>2. IInv'
    BY <1>6, InputsSound
  <2> HIDE DEF a, c
  <2> QED BY <1>1, <1>2, <1>5, <2>2, TickedMinds
<1> QED BY <1>7, <1>8, <1>9, <1>10, <1>11, <1>12

LEMMA EnvironmentMinds ==
    ASSUME CInv
    PROVE  /\ Lapse => CInv'
           /\ DeadlinePasses => CInv'
           /\ Elapse => CInv'
           /\ TransformChanges => CInv'
<1> DEFINE a == Awake
<1>1. Sound(a) /\ Mute(a) /\ a \in Wide /\ Ahead(a, a) /\ IInv
  <2>1. Sound(a) /\ Mute(a) /\ a \in Wide /\ Spared(a, history.condemned)
    BY AwakeSpared DEF Sound
  <2> HIDE DEF a
  <2> QED BY <2>1, WideFields DEF Ahead, Spared, Past, CInv
<1>2. ASSUME NEW m, Follows(a, m), Ahead(a, m), Becomes(m), IInv' PROVE CInv'
  BY <1>2, FollowsMinds
<1>3. Lapse => CInv'
  <2> SUFFICES ASSUME Lapse PROVE CInv'
    OBVIOUS
  <2> DEFINE map == [a.map EXCEPT !.fresh = FALSE]
             snapshot == [a.snapshot EXCEPT !.fresh = FALSE]
             loc == [a.loc EXCEPT !.fresh = FALSE]
             gimbal == [a.gimbal EXCEPT !.fresh = FALSE]
             odom == a.odom
  <2>1. IInv'
    BY <1>1, EnvironmentSound
  <2>2. \/ Becomes([a EXCEPT !.map.fresh = FALSE])
        \/ Becomes([a EXCEPT !.snapshot.fresh = FALSE])
        \/ Becomes([a EXCEPT !.loc.fresh = FALSE])
        \/ Becomes([a EXCEPT !.gimbal.fresh = FALSE])
    BY DEF Lapse, a
  <2> HIDE DEF a
  <2>3. a.map \in MapRecord /\ a.snapshot \in SnapshotRecord /\ a.loc \in LocRecord
        /\ a.gimbal \in GimbalRecord /\ odom \in {"NONE", "LOST", "BLIND", "OK"}
    BY <1>1 DEF Wide
  <2>4. map \in MapRecord /\ snapshot \in SnapshotRecord /\ loc \in LocRecord
        /\ gimbal \in GimbalRecord
    BY <2>3, Zenon DEF MapRecord, SnapshotRecord, LocRecord, GimbalRecord
  <2>5. /\ [a EXCEPT !.map.fresh = FALSE] = [a EXCEPT !.map = map]
        /\ [a EXCEPT !.snapshot.fresh = FALSE] = [a EXCEPT !.snapshot = snapshot]
        /\ [a EXCEPT !.loc.fresh = FALSE] = [a EXCEPT !.loc = loc]
        /\ [a EXCEPT !.gimbal.fresh = FALSE] = [a EXCEPT !.gimbal = gimbal]
    BY <1>1 DEF Wide
  <2>6. /\ map.pub = a.map.pub /\ map.ready = a.map.ready
        /\ snapshot.pub = a.snapshot.pub
    BY <2>3 DEF MapRecord, SnapshotRecord
  <2> HIDE DEF map, snapshot, loc, gimbal, odom
  <2>7. /\ Follows(a, [a EXCEPT !.map = map])
        /\ Follows(a, [a EXCEPT !.snapshot = snapshot])
        /\ Follows(a, [a EXCEPT !.loc = loc])
        /\ Follows(a, [a EXCEPT !.gimbal = gimbal])
    BY <1>1, <2>3, <2>4, HeardSound
  <2>8. /\ Ahead(a, [a EXCEPT !.map = map])
        /\ Ahead(a, [a EXCEPT !.snapshot = snapshot])
        /\ Ahead(a, [a EXCEPT !.loc = loc])
        /\ Ahead(a, [a EXCEPT !.gimbal = gimbal])
    BY <1>1, <2>6 DEF Wide, Ahead
  <2> QED BY <1>2, <2>1, <2>2, <2>5, <2>7, <2>8
<1>4. /\ DeadlinePasses => CInv'
      /\ Elapse => CInv'
      /\ TransformChanges => CInv'
  <2> SUFFICES ASSUME DeadlinePasses \/ Elapse \/ TransformChanges PROVE CInv'
    OBVIOUS
  <2> DEFINE known == ~a.goal_tf
  <2>1. known \in BOOLEAN /\ "ELAPSED" \in Timers
    BY Words
  <2>2. IInv'
    BY <1>1, EnvironmentSound
  <2>3. \/ Becomes([a EXCEPT !.deadline = "ELAPSED"])
        \/ Becomes([a EXCEPT !.wait = "ELAPSED"])
        \/ Becomes([a EXCEPT !.noplan = "ELAPSED"])
        \/ Becomes([a EXCEPT !.dwell = "ELAPSED"])
        \/ Becomes([a EXCEPT !.goal_tf = known])
    BY DEF DeadlinePasses, Elapse, TransformChanges
  <2> HIDE DEF a, known
  <2>4. /\ Follows(a, [a EXCEPT !.wait = "ELAPSED"])
        /\ Follows(a, [a EXCEPT !.noplan = "ELAPSED"])
        /\ Follows(a, [a EXCEPT !.dwell = "ELAPSED"])
        /\ Follows(a, [a EXCEPT !.deadline = "ELAPSED"])
        /\ Follows(a, [a EXCEPT !.goal_tf = known])
    BY <1>1, <2>1, PassedSound
  <2>5. /\ Ahead(a, [a EXCEPT !.wait = "ELAPSED"])
        /\ Ahead(a, [a EXCEPT !.noplan = "ELAPSED"])
        /\ Ahead(a, [a EXCEPT !.dwell = "ELAPSED"])
        /\ Ahead(a, [a EXCEPT !.deadline = "ELAPSED"])
        /\ Ahead(a, [a EXCEPT !.goal_tf = known])
    BY <1>1 DEF Wide, Ahead
  <2> QED BY <1>2, <2>2, <2>3, <2>4, <2>5
<1> QED BY <1>3, <1>4

LEMMA InitMinds == ASSUME Init PROVE CInv
<1>1. IInv /\ mgr = InitialManager /\ history = NothingHappened
  BY InitSound DEF Init
<1>2. /\ InitialManager.after = 0 /\ InitialManager.command = NoCommand
      /\ InitialManager.requests = {} /\ InitialManager.sent.mode # "EXECUTE"
      /\ ~InitialManager.map.ready
  BY DEF InitialManager, Stop
<1>3. NothingHappened.condemned = 0
  BY DEF NothingHappened
<1> QED
  BY <1>1, <1>2, <1>3 DEF CInv, Spared, Past, Awaited, Heeds, Commanding

(* The plan of a map publication on which MINCO found this goal's plan     *)
(* unsafe or superseded, or of an older one, is never executed afterwards: *)
(* neither a further suspension for another reason, nor a recovery, a      *)
(* replan, or an answer that was under way brings it back.  It is proved   *)
(* for an adapter that does not restart: a restart numbers the publications *)
(* from one again, and the number then says nothing of the age of a map.   *)
THEOREM CondemnedStaysDead ==
    ASSUME "RESTART" \notin Faults
    PROVE  Spec => []CondemnedMapStaysDead
<1>1. Init => CInv
  BY InitMinds
<1>2. CInv /\ [Next]_vars => CInv'
  <2> SUFFICES ASSUME CInv, [Next]_vars PROVE CInv'
    OBVIOUS
  <2>1. CASE UNCHANGED vars
    <3>1. mgr' = mgr /\ history' = history
      BY <2>1 DEF vars
    <3>2. IInv'
      BY <3>1 DEF CInv, IInv, HistoryOK
    <3>3. Spared(mgr, history.condemned)' /\ Heeds(mgr, history.condemned)'
      BY <3>1, Zenon DEF CInv
    <3> QED BY <3>2, <3>3 DEF CInv
  <2>2. CASE Next
    BY <2>2, PlannerFailureMinds, CallsMind, InputsMind, EnvironmentMinds, Zenon
       DEF Next
  <2> QED BY <2>1, <2>2
<1>3. CInv => CondemnedMapStaysDead
  BY AwakeSpared DEF CInv, Heeds, CondemnedMapStaysDead
<1> QED BY <1>1, <1>2, <1>3, PTL DEF Spec

-----------------------------------------------------------------------------
(* Execution.  What a callback may do to it, from the manager m it finds to *)
(* the manager n it leaves.                                                 *)

SameTask(m, n) == n.goal = m.goal /\ n.next_goal = m.next_goal

(* Nothing is executed that was not executed before.                        *)
StillRuns(m, n) == ~n.fail_stop => ~m.fail_stop /\ n.committed = m.committed

(* Nothing is asked for; the goal may be put off or replanned from a stop.  *)
Held(m, n) ==
    /\ SameTask(m, n) /\ n.next = m.next /\ n.expected = m.expected
    /\ StillRuns(m, n)
    /\ \/ n.state = m.state \/ n.state = "WAITING"
       \/ m.state = "TRACKING" /\ n.state = "PLANNING"

(* The next request, with execution going on as it was.                     *)
Asked(m, n) ==
    /\ SameTask(m, n) /\ n.next = m.next + 1 /\ n.expected = m.next + 1
    /\ StillRuns(m, n) /\ (n.fail_stop => m.fail_stop)
    /\ n.state = m.state \/ (m.state = "WAITING" /\ n.state = "PLANNING")

(* The next request, from a stop.                                           *)
Renewed(m, n) ==
    /\ SameTask(m, n) /\ n.next = m.next + 1 /\ n.expected = m.next + 1
    /\ m.state = "TRACKING" /\ n.state = "PLANNING"

(* The request that was expected is executed, in place of an earlier one.   *)
Granted(m, n) ==
    /\ SameTask(m, n) /\ n.next = m.next /\ n.expected = m.expected
    /\ m.state \in {"PLANNING", "TRACKING"} /\ n.state = "TRACKING"
    /\ n.committed = m.expected
    /\ ~m.fail_stop => m.committed < m.expected

Ended(m, n) == m.goal # 0 /\ n.goal = 0 /\ n.next_goal = m.next_goal

Begun(m, n) ==
    /\ n.next_goal = m.next_goal + 1 /\ n.goal = n.next_goal
    /\ \/ n.state = "WAITING" /\ n.next = 0
       \/ n.state = "PLANNING" /\ n.next = 1 /\ n.expected = 1

Move(m, n) ==
    \/ Held(m, n) \/ Asked(m, n) \/ Renewed(m, n) \/ Granted(m, n)
    \/ Ended(m, n) \/ Begun(m, n)

(* Only the loss of the localization leaves a command with a waiting goal.  *)
Loyal(m, n) ==
    Commanding(n) /\ n.state = "WAITING" =>
        RequireLocalization \/ (Commanding(m) /\ m.state = "WAITING")

Lawful(m, n) == Move(m, n) /\ Loyal(m, n)

(* What does not matter to execution may differ.                            *)
Like(m, n) ==
    /\ SameTask(m, n) /\ n.next = m.next /\ n.expected = m.expected
    /\ n.committed = m.committed /\ n.state = m.state
    /\ n.fail_stop = m.fail_stop /\ n.command = m.command

LEMMA LikeLawful ==
    ASSUME NEW m, NEW k, NEW n
    PROVE  /\ Like(m, k) /\ Lawful(k, n) => Lawful(m, n)
           /\ Lawful(m, k) /\ Like(k, n) => Lawful(m, n)
<1>1. Like(m, k) /\ Loyal(k, n) => Loyal(m, n)
  BY DEF Like, Loyal, Commanding
<1>2. Loyal(m, k) /\ Like(k, n) => Loyal(m, n)
  BY DEF Like, Loyal, Commanding
<1>3. Like(m, k) /\ Move(k, n) => Move(m, n)
  BY DEF Like, Move, SameTask, StillRuns, Held, Asked, Renewed, Granted, Ended,
         Begun
<1>4. Move(m, k) /\ Like(k, n) => Move(m, n)
  BY DEF Like, Move, SameTask, StillRuns, Held, Asked, Renewed, Granted, Ended,
         Begun
<1> QED BY <1>1, <1>2, <1>3, <1>4 DEF Lawful

LEMMA HeldHeld ==
    ASSUME NEW m, NEW k, NEW n, Held(m, k), Loyal(m, k), Held(k, n), Loyal(k, n)
    PROVE  Held(m, n) /\ Loyal(m, n)
BY DEF Held, Loyal, SameTask, StillRuns

LEMMA LikeHeld ==
    ASSUME NEW m, NEW n, Like(m, n) PROVE Held(m, n) /\ Loyal(m, n)
BY DEF Like, Held, Loyal, StillRuns, Commanding

LEMMA AsideLike ==
    ASSUME NEW m, NEW n
    PROVE  (Aside(m, n) => Like(m, n)) /\ (Unmoved(m, n) => Like(m, n))
BY DEF Aside, Unmoved, Like, SameTask, SameGoal, SameRequests

LEMMA SuspendedHeld ==
    ASSUME NEW m \in Wide, NEW since, NEW after
    PROVE  LET n == Suspended(m, since, after)
           IN  Held(m, n) /\ Loyal(m, n) /\ Bare(n) /\ n.state = "WAITING"
<1> DEFINE n == Suspended(m, since, after)
<1>1. /\ SameGoal(m, n) /\ SameRequests(m, n) /\ Bare(n) /\ n.state = "WAITING"
  BY SuspendedEffect
<1> HIDE DEF n
<1>2. Held(m, n) /\ Loyal(m, n)
  BY <1>1 DEF Held, Loyal, Commanding, Bare, SameTask, StillRuns, SameGoal,
              SameRequests
<1> QED BY <1>1, <1>2 DEF n

LEMMA DispatchedAsked ==
    ASSUME NEW m \in Wide, NEW v \in Surroundings,
           NEW required \in 0..MaxPublications, m.goal # 0, m.next <= MaxRequests
    PROVE  LET n == Dispatched(m, v, required)
           IN  Asked(m, n) /\ Loyal(m, n) /\ n.state = m.state
<1> DEFINE n == Dispatched(m, v, required)
<1>1. /\ SameGoal(m, n) /\ n.next = m.next + 1 /\ n.expected = m.next + 1
      /\ n.committed = m.committed /\ n.state = m.state
      /\ n.fail_stop = m.fail_stop /\ n.command = m.command
  BY DispatchedEffect
<1> HIDE DEF n
<1>2. Asked(m, n) /\ Loyal(m, n)
  BY <1>1 DEF Asked, Loyal, Commanding, SameTask, StillRuns, SameGoal
<1> QED BY <1>1, <1>2 DEF n

LEMMA DispatchedOrSuspendedMoves ==
    ASSUME NEW m \in Wide, NEW v \in Surroundings,
           NEW required \in 0..MaxPublications, NEW since,
           m.goal # 0, m.next <= MaxRequests
    PROVE  LET n == DispatchedOrSuspended(m, v, required, since)
           IN  /\ Loyal(m, n)
               /\ \/ Asked(m, n) /\ n.state = m.state
                  \/ Held(m, n) /\ n.state = "WAITING"
BY DispatchedAsked, SuspendedHeld DEF DispatchedOrSuspended

(* tryCommitReference.                                                      *)
LEMMA CommittedGranted ==
    ASSUME NEW m, Sound(m), NEW gimbal \in Nat, m.ready # NoRequest,
           Expected(m, m.ready), m.state \in {"PLANNING", "TRACKING"},
           ~m.fail_stop => m.committed < m.expected
    PROVE  LET n == Committed(m, gimbal) IN Granted(m, n) /\ Loyal(m, n)
<1> DEFINE n == Committed(m, gimbal)
<1>1. m \in Wide
  BY DEF Sound
<1>2. /\ SameGoal(m, n) /\ n.next = m.next /\ n.expected = m.expected
      /\ n.committed = IF m.ready = NoRequest THEN n.committed ELSE m.ready.request
      /\ n.state = "TRACKING"
  BY <1>1, CommittedEffect
<1> HIDE DEF n
<1>3. n.committed = m.expected
  BY <1>2 DEF Expected
<1>4. Granted(m, n) /\ Loyal(m, n)
  BY <1>2, <1>3 DEF Granted, Loyal, SameTask, SameGoal
<1> QED BY <1>4 DEF n

LEMMA FailStopHeld ==
    ASSUME NEW m \in Wide
    PROVE  LET n == [m EXCEPT !.fail_stop = TRUE] IN Held(m, n) /\ Loyal(m, n)
<1> DEFINE n == [m EXCEPT !.fail_stop = TRUE]
<1>1. /\ SameGoal(m, n) /\ SameRequests(m, n) /\ n.state = m.state
      /\ n.fail_stop /\ n.command = m.command
  BY DEF Wide, SameGoal, SameRequests
<1> HIDE DEF n
<1>2. Held(m, n) /\ Loyal(m, n)
  BY <1>1 DEF Held, Loyal, StillRuns, SameTask, SameGoal, SameRequests, Commanding
<1> QED BY <1>2 DEF n

LEMMA LikeRefl == ASSUME NEW m PROVE Like(m, m) /\ Held(m, m) /\ Loyal(m, m)
BY DEF Like, Held, Loyal, SameTask, StillRuns

(* A candidate is granted or nothing happens; what is asked for is asked    *)
(* for while a reference is driven.                                         *)
Tries(m, n) ==
    /\ Loyal(m, n)
    /\ Held(m, n) \/ Granted(m, n) \/ (Asked(m, n) /\ Commanding(m))

LEMMA CommitReplacementTries ==
    ASSUME NEW m, Sound(m), NEW v, Committable(m, v), Replacing(m)
    PROVE  Tries(m, CommitReplacement(m))
<1>1. m.command.gimbal \in Nat /\ m \in Wide
  BY DEF Sound, Wide, CommandRecord
<1>2. /\ m.ready # NoRequest /\ Expected(m, m.ready) /\ m.state = "TRACKING"
      /\ m.committed < m.expected
  BY DEF Committable, Replacing, Sound, Commanded
<1> QED
  BY <1>1, <1>2, CommittedGranted, FailStopHeld DEF CommitReplacement, Tries

LEMMA CommitNewTries ==
    ASSUME NEW m, Sound(m), m.ready # NoRequest, Expected(m, m.ready)
    PROVE  Tries(m, CommitNew(m))
<1> DEFINE sequence == m.yaw_request.sequence
<1>1. sequence \in Nat /\ m \in Wide
  BY DEF Sound, Wide, YawRecord
<1>2. m.state = "PLANNING" => m.fail_stop
  BY DEF Sound, Backed
<1> QED
  BY <1>1, <1>2, CommittedGranted, FailStopHeld, LikeRefl DEF CommitNew, Tries

LEMMA ReplannedTries ==
    ASSUME NEW m, Sound(m), NEW v \in Surroundings, m.goal # 0,
           m.next <= MaxRequests
    PROVE  Tries(m, Replanned(m, v))
<1> DEFINE d == DropCandidate(m)
           n == DispatchedOrSuspended(d, v, 0, "NONE")
<1>1. m \in Wide /\ d \in Wide /\ Like(m, d) /\ Commanding(d) = Commanding(m)
  BY DropEffect, DropType
     DEF Sound, Like, SameTask, SameGoal, SameRequests, Commanding
<1> HIDE DEF d
<1>2. d.goal # 0 /\ d.next <= MaxRequests
  BY <1>1 DEF Like, SameTask
<1>3. /\ Loyal(d, n)
      /\ Asked(d, n) \/ Held(d, n)
  BY <1>1, <1>2, Words, DispatchedOrSuspendedMoves
<1> HIDE DEF n
<1>4. Loyal(m, n) /\ (Asked(m, n) \/ Held(m, n))
  BY <1>1, <1>3
     DEF Like, Asked, Held, Loyal, Commanding, SameTask, StillRuns
<1>5. Replanned(m, v) = IF m.replacing /\ Commanding(m) /\ m.state = "TRACKING"
                        THEN n ELSE Suspended(m, "NONE", 0)
  BY DEF Replanned, n, d
<1> QED BY <1>1, <1>4, <1>5, SuspendedHeld DEF Tries

LEMMA TryCommitTries ==
    ASSUME NEW m, Sound(m), NEW v \in Surroundings, m.next <= MaxRequests
    PROVE  Tries(m, TryCommit(m, v))
<1>1. CASE StaleCandidate(m, v)
  <2>1. m.goal # 0
    BY <1>1 DEF StaleCandidate, Expected
  <2> QED BY <1>1, <2>1, ReplannedTries DEF TryCommit
<1>2. CASE ~StaleCandidate(m, v) /\ ~Committable(m, v)
  BY <1>2, LikeRefl DEF TryCommit, Tries
<1>3. CASE ~StaleCandidate(m, v) /\ Committable(m, v) /\ Replacing(m)
  BY <1>3, CommitReplacementTries DEF TryCommit
<1>4. CASE ~StaleCandidate(m, v) /\ Committable(m, v) /\ ~Replacing(m)
  <2> DEFINE y == YawRequested(m)
  <2>1. m.ready \in Requests
    BY <1>4, WideFields DEF Sound, Staged, Committable
  <2>2. y \in Wide /\ Aside(m, y)
    BY <2>1, YawRequestedEffect DEF Sound
  <2> HIDE DEF y
  <2>3. Sound(y)
    BY <2>2, AsideSound
  <2>4. y.ready # NoRequest /\ Expected(y, y.ready)
    BY <1>4, <2>2 DEF Committable, Expected, Aside, SameGoal, SameRequests
  <2>5. TryCommit(m, v) = CommitNew(y)
    BY <1>4 DEF TryCommit, y
  <2>6. Tries(y, CommitNew(y)) /\ Like(m, y)
    BY <2>2, <2>3, <2>4, CommitNewTries, AsideLike
  <2> DEFINE n == CommitNew(y)
  <2> HIDE DEF n
  <2>7. Tries(m, n)
    <3>1. Tries(y, n)
      BY <2>6 DEF n
    <3> QED
      BY <2>6, <3>1
         DEF Tries, Like, Held, Granted, Asked, Loyal, SameTask, StillRuns,
             Commanding
  <2> QED BY <2>5, <2>7 DEF n
<1> QED BY <1>1, <1>2, <1>3, <1>4

LEMMA TriesLawful ==
    ASSUME NEW m, NEW n, Tries(m, n) PROVE Lawful(m, n)
BY DEF Tries, Lawful, Move

(* Without a candidate nothing is tried.                                    *)
LEMMA BareTries ==
    ASSUME NEW m, Bare(m), NEW v PROVE TryCommit(m, v) = m
BY DEF Bare, TryCommit, StaleCandidate, Committable

(* The callbacks of the action server and of MINCO.                         *)
LEMMA StartedLawful ==
    ASSUME NEW m, Sound(m), NEW v \in Surroundings, m.next_goal < MaxGoals
    PROVE  Lawful(m, Started(m, v))
<1> DEFINE a == Accepted(m)
           n == DispatchedOrSuspended(a, v, 0, "NONE")
<1>1. /\ Sound(a) /\ a \in Wide /\ a.next_goal = m.next_goal + 1
      /\ a.goal = a.next_goal /\ a.goal # 0 /\ a.next = 0 /\ a.expected = 0
      /\ a.state = IF Healthy(m) THEN "PLANNING" ELSE "WAITING"
      /\ ~Commanding(a)
  BY AcceptedSound DEF Sound, Bare, Commanding
<1> HIDE DEF a
<1>2. /\ Loyal(a, n)
      /\ \/ Asked(a, n) /\ n.state = a.state
         \/ Held(a, n) /\ n.state = "WAITING"
  <2>1. a.next <= MaxRequests
    BY <1>1, ConfigAssumption
  <2> QED BY <1>1, <2>1, Words, DispatchedOrSuspendedMoves
<1>3. Started(m, v) = IF Healthy(m) THEN n ELSE a
  BY StartedIs DEF a, n
<1> HIDE DEF n
<1>4. CASE Healthy(m)
  <2>1. Begun(m, n) /\ Loyal(m, n)
    BY <1>1, <1>2, <1>4 DEF Begun, Loyal, Asked, Held, SameTask
  <2> QED BY <1>3, <1>4, <2>1 DEF Lawful, Move
<1>5. CASE ~Healthy(m)
  <2>1. Begun(m, a) /\ Loyal(m, a)
    BY <1>1, <1>5 DEF Begun, Loyal
  <2> QED BY <1>3, <1>5, <2>1 DEF Lawful, Move
<1> QED BY <1>4, <1>5

LEMMA CancelledHeld ==
    ASSUME NEW m \in Wide PROVE Lawful(m, Cancelled(m))
<1> DEFINE n == Cancelled(m)
<1>1. /\ SameRequests(m, n) /\ n.goal = m.goal /\ n.next_goal = m.next_goal
      /\ n.state = m.state /\ n.fail_stop /\ n.command = m.command
  BY DEF Wide, Cancelled, SameRequests
<1> HIDE DEF n
<1>2. Held(m, n) /\ Loyal(m, n)
  BY <1>1 DEF Held, Loyal, StillRuns, SameTask, SameRequests, Commanding
<1> QED BY <1>2 DEF n, Lawful, Move

LEMMA FinishedEnded ==
    ASSUME NEW m \in Wide, NEW k \in Wide, SameTask(k, m), k.goal # 0
    PROVE  Lawful(k, Finished(m))
<1> DEFINE n == Finished(m)
<1>1. n.goal = 0 /\ n.next_goal = m.next_goal /\ Bare(n)
  BY FinishedEffect
<1> HIDE DEF n
<1>2. Ended(k, n) /\ Loyal(k, n)
  BY <1>1 DEF Ended, Loyal, SameTask, Bare, Commanding
<1> QED BY <1>2 DEF n, Lawful, Move

LEMMA HeldLawful ==
    ASSUME NEW m, NEW n, Held(m, n), Loyal(m, n) PROVE Lawful(m, n)
BY DEF Lawful, Move

LEMMA LikeSuspended ==
    ASSUME NEW m, NEW k \in Wide, Like(m, k), NEW since, NEW after
    PROVE  Lawful(m, Suspended(k, since, after))
BY SuspendedHeld, HeldLawful, LikeLawful

LEMMA PlanFailedLawful ==
    ASSUME NEW m, Sound(m), NEW r, NEW reason
    PROVE  Lawful(m, PlanFailed(m, r, reason))
<1>1. m \in Wide
  BY DEF Sound
<1>2. CASE ~ConcernsActive(m, r)
  BY <1>2, LikeRefl, HeldLawful DEF PlanFailed
<1>3. CASE ConcernsActive(m, r) /\ reason = "FATAL"
  BY <1>1, <1>3, FinishedEnded DEF PlanFailed, ConcernsActive, SameTask
<1>4. CASE ConcernsActive(m, r) /\ reason # "FATAL"
  <2> DEFINE ready == m.map.ready /\ reason = "SNAPSHOT_CHANGED"
                                  /\ NewerMapArrived(m, r)
             map == [m.map EXCEPT !.ready = ready]
             k == [m EXCEPT !.map = map]
             after == IF reason = "TRANSIENT" THEN 0 ELSE r.pub
  <2>1. PlanFailed(m, r, reason) = Suspended(k, "NONE", after)
    BY <1>1, <1>4 DEF PlanFailed, Wide
  <2>2. map \in MapRecord
    <3>1. ready \in BOOLEAN
      BY <1>1 DEF Wide, MapRecord
    <3> HIDE DEF ready
    <3> QED BY <1>1, <3>1, Zenon DEF Wide, MapRecord
  <2> HIDE DEF map
  <2>3. k \in Wide
    BY <1>1, <2>2, Zenon DEF Wide
  <2>4. Like(m, k)
    BY <1>1 DEF Wide, Like, SameTask
  <2> HIDE DEF k, after
  <2> QED BY <2>1, <2>3, <2>4, LikeSuspended
<1> QED BY <1>2, <1>3, <1>4

(* Where the localization is not required, or one yaw authority is all      *)
(* there is, no command waits for a change of the authority.                *)
OneMode == \A x, y \in YawModes : x = y

Steady(m) == OneMode \/ (Commanding(m) => m.state # "WAITING")

LEMMA ReferenceReadyLawful ==
    ASSUME NEW m, Sound(m), Steady(m), NEW v \in Surroundings, NEW r \in m.requests,
           m.next <= MaxRequests
    PROVE  Lawful(m, ReferenceReady(m, v, r))
<1> DEFINE switches == Commanding(m) /\ m.command.of.yaw # r.yaw
           k == IF switches THEN ModeSwitched(m) ELSE m
           a == [k EXCEPT !.ready = r]
           n == TryCommit(a, v)
<1>1. CASE ~Expected(m, r)
  BY <1>1, TryCommitTries, TriesLawful DEF ReferenceReady
<1>2. m \in Wide /\ r \in Requests
  BY WideFields DEF Sound
<1>3. Sound(k) /\ SameGoal(m, k) /\ SameRequests(m, k)
  BY ModeSwitchedSound DEF Sound, Commanded, SameGoal, SameRequests, Wide
<1>4. Sound(a) /\ a.next = m.next
  BY <1>3, AnswerSound DEF SameRequests
<1>5. Like(k, a)
  <2>1. k \in Wide
    BY <1>3 DEF Sound
  <2> HIDE DEF k
  <2> QED BY <2>1, LikeRefl DEF Wide, Like, SameTask
<1>6. Tries(a, n)
  BY <1>4, TryCommitTries
<1>7. CASE Expected(m, r) /\ ~switches
  <2>1. Like(m, a) /\ Lawful(a, n)
    BY <1>5, <1>6, <1>7, TriesLawful
  <2>2. ReferenceReady(m, v, r) = n
    BY <1>7 DEF ReferenceReady
  <2> HIDE DEF a, n
  <2> QED BY <2>1, <2>2, LikeLawful
<1>8. CASE Expected(m, r) /\ switches
  <2>1. /\ k.state = "PLANNING" /\ k.fail_stop /\ k.command = NoCommand
    <3>1. k = ModeSwitched(m)
      BY <1>8
    <3> HIDE DEF k
    <3> QED BY <1>2, <3>1 DEF Wide, ModeSwitched, Stopped
  <2>2. /\ a.state = "PLANNING" /\ a.fail_stop /\ a.command = NoCommand
        /\ SameTask(m, a) /\ SameRequests(m, k)
        /\ a.expected = m.expected /\ a.next = m.next
    BY <1>3, <1>5, <2>1 DEF Like, SameTask, SameGoal, SameRequests
  <2>3. m.state \in {"PLANNING", "TRACKING"}
    <3>1. ~OneMode
      <4>1. m.command.of \in Requests
        BY <1>2, <1>8, WideFields DEF Sound, Commanded
      <4> QED BY <1>2, <1>8, <4>1, RequestFields DEF OneMode
    <3>2. m.state \in States /\ m.state # "WAITING" /\ m.state # "IDLE"
      BY <1>2, <1>8, <3>1, WideFields DEF Sound, Commanded, Staged, Steady
    <3> QED BY <3>2 DEF States
  <2>4. m.committed <= m.expected /\ m.committed \in Nat /\ m.expected \in Nat
    BY <1>2, WideFields DEF Sound, Numbered
  <2>5. ReferenceReady(m, v, r) = n
    BY <1>8 DEF ReferenceReady
  <2> HIDE DEF switches, k, a, n
  <2>6. ~Commanding(a)
    BY <2>2 DEF Commanding
  <2>7. CASE Held(a, n)
    <3>1. Held(m, n) /\ Loyal(m, n)
      BY <1>6, <2>2, <2>3, <2>6, <2>7
         DEF Held, Tries, Loyal, SameTask, StillRuns
    <3> QED BY <2>5, <3>1, HeldLawful
  <2>8. CASE Granted(a, n)
    <3>1. Loyal(m, n) /\ SameTask(m, n)
      BY <2>2, <2>8 DEF Granted, Loyal, SameTask
    <3>2. CASE ~m.fail_stop => m.committed < m.expected
      <4>1. Granted(m, n)
        BY <2>2, <2>3, <2>8, <3>1, <3>2 DEF Granted
      <4> QED BY <2>5, <3>1, <4>1 DEF Lawful, Move
    <3>3. CASE ~(~m.fail_stop => m.committed < m.expected)
      <4>1. m.committed = m.expected /\ ~m.fail_stop
        BY <2>4, <3>3
      <4>2. m.state = "TRACKING"
        BY <4>1 DEF Sound, Backed
      <4>3. Held(m, n)
        BY <2>2, <2>8, <3>1, <4>1, <4>2 DEF Granted, Held, StillRuns
      <4> QED BY <2>5, <3>1, <4>3, HeldLawful
    <3> QED BY <3>2, <3>3
  <2> QED BY <1>6, <2>6, <2>7, <2>8 DEF Tries
<1> QED BY <1>1, <1>7, <1>8

LEMMA CandidateLawful ==
    ASSUME NEW m, Sound(m), NEW v \in Surroundings, NEW r \in m.requests,
           m.next <= MaxRequests
    PROVE  Lawful(m, TryCommit([m EXCEPT !.candidate = r], v))
<1> DEFINE k == [m EXCEPT !.candidate = r]
<1>1. Sound(k) /\ k.next <= MaxRequests
  BY AnswerSound
<1>2. Like(m, k)
  <2>1. m \in Wide
    BY DEF Sound
  <2> QED BY <2>1 DEF Wide, Like, SameTask
<1> HIDE DEF k
<1>3. Lawful(k, TryCommit(k, v))
  BY <1>1, TryCommitTries, TriesLawful
<1>4. Lawful(m, TryCommit(k, v))
  BY <1>2, <1>3, LikeLawful
<1> QED BY <1>4 DEF k

(* An input is heard, and then nothing, a suspension or an attempt follows. *)
LEMMA HeardLawful ==
    ASSUME NEW m, Sound(m), NEW n, Follows(m, n), NEW v \in Surroundings,
           m.next <= MaxRequests
    PROVE  /\ Lawful(m, n) /\ Lawful(m, Suspended(n, "NONE", 0))
           /\ Lawful(m, TryCommit(n, v)) /\ Like(m, n) /\ n \in Wide
<1>1. Like(m, n) /\ Sound(n) /\ n \in Wide /\ n.next <= MaxRequests
  BY AsideLike DEF Follows, Sound
<1>2. Lawful(n, TryCommit(n, v))
  BY <1>1, TryCommitTries, TriesLawful
<1> QED BY <1>1, <1>2, LikeHeld, HeldLawful, LikeSuspended, LikeLawful

LEMMA MapStatusLawful ==
    ASSUME NEW m, Sound(m), m.next <= MaxRequests, NEW v \in Surroundings,
           NEW ready \in BOOLEAN, NEW epoch \in 0..MaxEpochs,
           NEW pub \in 0..MaxPublications
    PROVE  Lawful(m, MapStatusReceived(m, v, ready, epoch, pub))
<1> DEFINE map == [ready |-> ready, alive |-> ready, fresh |-> TRUE,
                   epoch |-> epoch, pub |-> pub]
           n == [m EXCEPT !.map = map]
           current == m.loc.epoch = 0 \/ epoch = m.loc.epoch
           s == Suspended(n, "NONE", 0)
<1>1. map \in MapRecord
  BY ConfigAssumption DEF MapRecord
<1>2. MapStatusReceived(m, v, ready, epoch, pub) =
        IF m.goal # 0 /\ current /\ ~ready THEN s ELSE TryCommit(n, v)
  BY DEF MapStatusReceived
<1> HIDE DEF map
<1>3. Follows(m, n)
  <2> PICK p \in SnapshotRecord, l \in LocRecord, g \in GimbalRecord :
        p = m.snapshot /\ l = m.loc /\ g = m.gimbal
    BY DEF Sound, Wide
  <2> QED BY <1>1, HeardSound
<1> HIDE DEF n, current
<1> QED BY <1>2, <1>3, HeardLawful

LEMMA SnapshotLawful ==
    ASSUME NEW m, Sound(m), m.next <= MaxRequests, NEW v \in Surroundings,
           NEW valid \in BOOLEAN, NEW epoch \in 0..MaxEpochs,
           NEW pub \in 0..MaxPublications
    PROVE  Lawful(m, SnapshotReceived(m, v, valid, epoch, pub))
<1> DEFINE snapshot == [valid |-> valid, fresh |-> TRUE, epoch |-> epoch,
                        pub |-> pub]
           n == [m EXCEPT !.snapshot = snapshot]
           s == Suspended(n, "NONE", 0)
<1>1. snapshot \in SnapshotRecord
  BY ConfigAssumption DEF SnapshotRecord
<1>2. \/ SnapshotReceived(m, v, valid, epoch, pub) = m
      \/ SnapshotReceived(m, v, valid, epoch, pub) = s
      \/ SnapshotReceived(m, v, valid, epoch, pub) = TryCommit(n, v)
  BY DEF SnapshotReceived
<1> HIDE DEF snapshot
<1>3. Follows(m, n)
  <2> PICK p \in MapRecord, l \in LocRecord, g \in GimbalRecord :
        p = m.map /\ l = m.loc /\ g = m.gimbal
    BY DEF Sound, Wide
  <2> QED BY <1>1, HeardSound
<1> HIDE DEF n
<1> QED BY <1>2, <1>3, HeardLawful, LikeRefl, HeldLawful

LEMMA LocalizationInterruptedHeld ==
    ASSUME NEW m \in Wide
    PROVE  LET n == LocalizationInterrupted(m) IN Held(m, n) /\ Loyal(m, n)
<1> DEFINE n == LocalizationInterrupted(m)
<1>1. /\ SameTask(m, n) /\ SameRequests(m, n) /\ n.state = "WAITING"
      /\ n.command = NoCommand /\ n.fail_stop
  BY DEF Wide, LocalizationInterrupted, Stopped, DropCandidate, SameTask,
         SameRequests
<1> HIDE DEF n
<1>2. Held(m, n) /\ Loyal(m, n)
  BY <1>1 DEF Held, Loyal, StillRuns, SameRequests, Commanding
<1> QED BY <1>2 DEF n

LEMMA LocalizationLawful ==
    ASSUME NEW m, Sound(m), m.next <= MaxRequests, NEW healthy \in BOOLEAN,
           NEW epoch \in 0..MaxEpochs, NEW v \in Surroundings
    PROVE  Lawful(m, LocalizationReceived(m, healthy, epoch))
<1> DEFINE loc == [healthy |-> healthy, fresh |-> TRUE, epoch |-> epoch]
           n == [m EXCEPT !.loc = loc]
           s == LocalizationReceived(m, healthy, epoch)
<1>1. loc \in LocRecord
  BY DEF LocRecord
<1>2. s = LocalizationInterrupted(n) \/ s = n
  BY DEF LocalizationReceived
<1> HIDE DEF loc
<1>3. Follows(m, n)
  <2> PICK p \in MapRecord, q \in SnapshotRecord, g \in GimbalRecord :
        p = m.map /\ q = m.snapshot /\ g = m.gimbal
    BY DEF Sound, Wide
  <2> QED BY <1>1, HeardSound
<1> HIDE DEF n, s
<1>4. Lawful(m, n) /\ Like(m, n) /\ n \in Wide
  BY <1>3, HeardLawful
<1>5. Lawful(m, LocalizationInterrupted(n))
  BY <1>4, LocalizationInterruptedHeld, HeldLawful, LikeLawful
<1> QED BY <1>2, <1>4, <1>5 DEF s

LEMMA GimbalLawful ==
    ASSUME NEW m, Sound(m), m.next <= MaxRequests, NEW v \in Surroundings,
           NEW mode \in YawAuthorities, NEW sound \in BOOLEAN, NEW request \in Nat
    PROVE  Lawful(m, GimbalReceived(m, v, mode, sound, request))
<1> DEFINE gimbal == [mode |-> mode, sound |-> sound, fresh |-> TRUE,
                      request |-> request]
           n == [m EXCEPT !.gimbal = gimbal]
           s == Suspended(n, "NONE", 0)
<1>1. gimbal \in GimbalRecord
  BY DEF GimbalRecord
<1>2. \/ GimbalReceived(m, v, mode, sound, request) = TryCommit(n, v)
      \/ GimbalReceived(m, v, mode, sound, request) = TryCommit(s, v)
  BY DEF GimbalReceived
<1> HIDE DEF gimbal
<1>3. Follows(m, n)
  <2> PICK p \in MapRecord, q \in SnapshotRecord, l \in LocRecord :
        p = m.map /\ q = m.snapshot /\ l = m.loc
    BY DEF Sound, Wide
  <2> QED BY <1>1, HeardSound
<1> HIDE DEF n
<1>4. Lawful(m, TryCommit(n, v)) /\ Lawful(m, s) /\ n \in Wide
  BY <1>3, HeardLawful
<1>5. TryCommit(s, v) = s
  BY <1>4, SuspendedHeld, BareTries
<1> QED BY <1>2, <1>4, <1>5

LEMMA OdometryLawful ==
    ASSUME NEW m, Sound(m), m.next <= MaxRequests, NEW v \in Surroundings,
           NEW quality \in {"LOST", "BLIND", "OK"}
    PROVE  Lawful(m, OdometryReceived(m, quality))
<1> DEFINE n == [m EXCEPT !.odom = quality]
           s == OdometryReceived(m, quality)
<1>1. s = Suspended(n, "NONE", 0) \/ s = n
  BY DEF OdometryReceived
<1>2. Follows(m, n)
  <2> PICK p \in MapRecord, q \in SnapshotRecord, l \in LocRecord, g \in GimbalRecord :
        p = m.map /\ q = m.snapshot /\ l = m.loc /\ g = m.gimbal
    BY DEF Sound, Wide
  <2> QED BY HeardSound
<1> HIDE DEF n, s
<1> QED BY <1>1, <1>2, HeardLawful DEF s

(* The timer.                                                               *)
LEMMA HeartbeatLike ==
    ASSUME NEW m, Sound(m) PROVE Like(m, Heartbeat(m))
<1> DEFINE word == Execute(m.command)
<1>1. CASE m.fail_stop \/ m.state # "TRACKING"
  <2>1. Heartbeat(m) = Said(m, TRUE, Stop)
    BY <1>1 DEF Heartbeat, Stopped, Said
  <2> QED BY <2>1, SaidSound, Words, AsideLike
<1>2. CASE ~(m.fail_stop \/ m.state # "TRACKING")
  <2>1. Commanding(m) /\ m.command \in CommandRecord
    BY <1>2, WideFields DEF Sound, Backed
  <2>2. Heartbeat(m) = Said(m, FALSE, word)
    BY <1>2, <2>1 DEF Heartbeat, Said
  <2>3. word \in SentRecord
    BY <2>1 DEF CommandRecord, SentRecord, Execute
  <2> HIDE DEF word
  <2> QED BY <2>2, <2>3, SaidSound, AsideLike
<1> QED BY <1>1, <1>2

LEMMA ChecksHeld ==
    ASSUME NEW m \in Wide
    PROVE  /\ Held(m, GimbalChecked(m)) /\ Loyal(m, GimbalChecked(m))
           /\ GimbalChecked(m).state = m.state
           /\ Held(m, LocalizationChecked(m)) /\ Loyal(m, LocalizationChecked(m))
<1> DEFINE g == GimbalChecked(m)
           l == LocalizationChecked(m)
<1>1. /\ SameTask(m, g) /\ SameRequests(m, g) /\ g.state = m.state
      /\ g.fail_stop \/ g.fail_stop = m.fail_stop
      /\ g.command \in {m.command, NoCommand}
  BY DEF Wide, GimbalChecked, DropCandidate, SameTask, SameRequests
<1>2. /\ SameTask(m, l) /\ SameRequests(m, l) /\ l.command = m.command
      /\ \/ l.state = m.state /\ l.fail_stop = m.fail_stop
         \/ RequireLocalization /\ l.state = "WAITING" /\ l.fail_stop
  BY DEF Wide, LocalizationChecked, LocalizationHealthy, DropCandidate, SameTask,
         SameRequests
<1> HIDE DEF g, l
<1>3. Held(m, g) /\ Loyal(m, g)
  BY <1>1 DEF Held, Loyal, StillRuns, SameRequests, Commanding
<1>4. Held(m, l) /\ Loyal(m, l)
  BY <1>2 DEF Held, Loyal, StillRuns, SameRequests, Commanding
<1> QED BY <1>1, <1>3, <1>4 DEF g, l

(* What the work of the timer may do to a goal that does not end.           *)
Goes(m, n) == Loyal(m, n) /\ (Held(m, n) \/ Asked(m, n) \/ Renewed(m, n))

LEMMA ProgressReplannedGoes ==
    ASSUME NEW m, Sound(m), NEW v \in Surroundings,
           m.goal # 0, m.next <= MaxRequests, m.state = "TRACKING"
    PROVE  Goes(m, ProgressReplanned(m, v))
<1> DEFINE r == Revoked(m)
           k == [r EXCEPT !.state = "PLANNING", !.wait = "NONE"]
           n == Stopped(k)
           pub == m.snapshot.pub
           p == DispatchedOrSuspended(n, v, pub, "NONE")
<1>1. m \in Wide /\ r \in Wide /\ pub \in 0..MaxPublications
  BY RevokedType, WideFields DEF Sound
<1>2. SameTask(m, r) /\ SameRequests(m, r) /\ Bare(r)
  BY <1>1 DEF Wide, Revoked, DropCandidate, SameTask, SameRequests, Bare
<1>3. ProgressReplanned(m, v) = p
  BY DEF ProgressReplanned
<1> HIDE DEF r, pub
<1>4. k \in Wide
  BY <1>1, Words, Zenon DEF Wide
<1>5. SameTask(r, k) /\ SameRequests(r, k) /\ Bare(k) /\ k.state = "PLANNING"
  BY <1>1, <1>2 DEF Wide, SameTask, SameRequests, Bare
<1> HIDE DEF k
<1>6. n \in Wide
  BY <1>4, StoppedType
<1>7. /\ SameTask(k, n) /\ SameRequests(k, n) /\ Bare(n) /\ n.state = "PLANNING"
  BY <1>4, <1>5 DEF Wide, SameTask, SameRequests, Bare, Stopped
<1> HIDE DEF n
<1>8. SameTask(m, n) /\ SameRequests(m, n)
  BY <1>2, <1>5, <1>7 DEF SameTask, SameRequests
<1>9. /\ Loyal(n, p)
      /\ \/ Asked(n, p) /\ p.state = n.state
         \/ Held(n, p) /\ p.state = "WAITING"
  <2>1. n.goal # 0 /\ n.next <= MaxRequests
    BY <1>8 DEF SameTask, SameRequests
  <2> QED BY <1>1, <1>6, <2>1, DispatchedOrSuspendedMoves
<1> HIDE DEF p
<1>10. Loyal(m, p)
  BY <1>7, <1>9 DEF Loyal, Bare, Commanding
<1>11. Renewed(m, p) \/ Held(m, p)
  BY <1>7, <1>8, <1>9
     DEF Asked, Held, Renewed, SameTask, SameRequests, StillRuns, Bare
<1> QED BY <1>3, <1>10, <1>11 DEF Goes

LEMMA ReplanAdvisedGoes ==
    ASSUME NEW m, Sound(m), NEW v \in Surroundings, NEW r, m.next <= MaxRequests
    PROVE  Goes(m, ReplanAdvised(m, v, r))
<1> DEFINE k == [m EXCEPT !.replacing = TRUE]
           n == Dispatched(k, v, 0)
<1>1. m \in Wide
  BY DEF Sound
<1>2. CASE ReplanAdvised(m, v, r) = m
  BY <1>2, LikeRefl DEF Goes
<1>3. CASE m.goal # 0 /\ ReplanAdvised(m, v, r) = n
  <2>1. k \in Wide
    BY <1>1, Zenon DEF Wide
  <2>2. Like(m, k)
    BY <1>1 DEF Wide, Like, SameTask
  <2> HIDE DEF k
  <2>3. Asked(k, n) /\ Loyal(k, n)
    BY <1>3, <2>1, <2>2, Words, DispatchedAsked DEF Like, SameTask
  <2> HIDE DEF n
  <2>4. Asked(m, n) /\ Loyal(m, n)
    BY <2>2, <2>3 DEF Like, Asked, Loyal, SameTask, StillRuns, Commanding
  <2> QED BY <1>3, <2>4 DEF Goes
<1> QED BY <1>2, <1>3 DEF ReplanAdvised

LEMMA LikeGoes ==
    ASSUME NEW m, NEW k, NEW n, Like(m, k), Goes(k, n) PROVE Goes(m, n)
BY DEF Like, Goes, Held, Asked, Renewed, Loyal, SameTask, StillRuns, Commanding

LEMMA TrackingActedGoes ==
    ASSUME NEW m, Sound(m), NEW v \in Surroundings, NEW s \in Sightings,
           m.goal # 0, m.next <= MaxRequests, m.state = "TRACKING"
    PROVE  Goes(m, TrackingActed(m, v, s))
<1> DEFINE t == Tracked(m, s)
           after == IF ProgressGateHealthy(m) THEN m.snapshot.pub ELSE 0
           r == [goal |-> t.goal, epoch |-> t.epoch, request |-> t.committed]
           n == TrackingActed(m, v, s)
<1>1. /\ Sound(t) /\ t.goal = m.goal /\ t.next <= MaxRequests
      /\ t.state = "TRACKING" /\ Like(m, t)
  BY TrackedSound, AsideLike DEF Follows, Aside
<1>2. \/ n = ProgressReplanned(t, v)
      \/ n = Suspended(t, "NONE", after)
      \/ n = ReplanAdvised(t, v, r)
      \/ n = t
  BY DEF TrackingActed
<1> HIDE DEF t, after, r, n
<1>3. Goes(t, ProgressReplanned(t, v))
  BY <1>1, ProgressReplannedGoes
<1>4. Goes(t, Suspended(t, "NONE", after))
  BY <1>1, SuspendedHeld DEF Sound, Goes
<1>5. Goes(t, ReplanAdvised(t, v, r))
  BY <1>1, ReplanAdvisedGoes
<1>6. Goes(t, t)
  BY LikeRefl DEF Goes
<1>7. Goes(t, n)
  BY <1>2, <1>3, <1>4, <1>5, <1>6
<1> QED BY <1>1, <1>7, LikeGoes DEF n

(* The map of a waiting goal came back: the next request, from a stop.      *)
LEMMA RecoveredGoes ==
    ASSUME NEW m, Sound(m), m.state = "WAITING", m.goal # 0, m.next <= MaxRequests,
           NEW v \in Surroundings, NEW since
    PROVE  Goes(m, DispatchedOrSuspended(Recovering(m), v, 0, since))
<1> DEFINE k == Recovering(m)
           n == DispatchedOrSuspended(k, v, 0, since)
<1>1. /\ Sound(k) /\ k \in Wide /\ SameGoal(m, k) /\ SameRequests(m, k)
      /\ k.fail_stop /\ k.state = "PLANNING"
  BY RecoveringSound DEF Sound
<1> HIDE DEF k
<1>2. /\ Loyal(k, n)
      /\ \/ Asked(k, n) /\ n.state = k.state
         \/ Held(k, n) /\ n.state = "WAITING"
  <2>1. k.goal # 0 /\ k.next <= MaxRequests
    BY <1>1 DEF SameGoal, SameRequests
  <2> QED BY <1>1, <2>1, Words, DispatchedOrSuspendedMoves
<1>3. m.fail_stop
  BY DEF Sound, Backed
<1> HIDE DEF n
<1>4. Loyal(m, n)
  BY <1>1, <1>2 DEF Loyal
<1>5. Asked(m, n) \/ Held(m, n)
  BY <1>1, <1>2, <1>3
     DEF Asked, Held, SameTask, SameGoal, SameRequests, StillRuns
<1> QED BY <1>4, <1>5 DEF Goes, n, k

(* From a stop, what is put off before and after changes nothing.           *)
LEMMA WaitingGoes ==
    ASSUME NEW m, m.state = "WAITING", m.fail_stop, NEW k, NEW n
    PROVE  /\ Held(m, k) /\ Loyal(m, k) /\ Goes(k, n) => Goes(m, n)
           /\ Goes(m, k) /\ Held(k, n) /\ Loyal(k, n) /\ n.state = "WAITING" =>
                Goes(m, n)
<1>1. ASSUME Held(m, k), Loyal(m, k), Goes(k, n) PROVE Goes(m, n)
  <2>1. Loyal(m, n)
    BY <1>1 DEF Goes, Loyal
  <2>2. Held(m, n) \/ Asked(m, n)
    BY <1>1 DEF Goes, Held, Asked, Renewed, SameTask, StillRuns
  <2> QED BY <2>1, <2>2 DEF Goes
<1>2. ASSUME Goes(m, k), Held(k, n), Loyal(k, n), n.state = "WAITING"
      PROVE  Goes(m, n)
  <2>1. Loyal(m, n)
    BY <1>2 DEF Goes, Loyal
  <2>2. Held(m, n) \/ Asked(m, n)
    BY <1>2 DEF Goes, Held, Asked, Renewed, SameTask, StillRuns
  <2> QED BY <2>1, <2>2 DEF Goes
<1> QED BY <1>1, <1>2

LEMMA SupervisedLawful ==
    ASSUME NEW m, Sound(m), Mute(m), NEW v \in Surroundings, NEW s \in Sightings,
           m.goal # 0, m.next <= MaxRequests
    PROVE  Lawful(m, Supervised(m, v, s))
<1> DEFINE lost == ~GimbalHolds(m)
           g == GimbalChecked(m)
           n == LocalizationChecked(g)
           acted == Acted(n, v, s, lost)
           put_off == Suspended(acted, "NONE", 0)
           f == IF lost THEN put_off ELSE acted
           k == Supervised(m, v, s)
<1>1. /\ Sound(g) /\ Mute(g) /\ g.goal = m.goal /\ g.next = m.next
      /\ g \in Wide /\ m \in Wide
  BY GimbalCheckedSound DEF Sound
<1>2. k = Finished(f) \/ k = f
  BY DEF Supervised
<1>3. lost \in BOOLEAN
  BY DEF GimbalHolds
<1>4. Held(m, g) /\ Loyal(m, g) /\ g.state = m.state /\ (~lost => g = m)
  BY <1>1, ChecksHeld DEF GimbalChecked
<1>5. /\ Sound(n) /\ n.goal = m.goal /\ n.next = m.next /\ Mute(n)
      /\ n.state # "WAITING" => n = g
      /\ Held(g, n) /\ Loyal(g, n)
  BY <1>1, LocalizationCheckedSound, ChecksHeld
<1>6. MapRecovered(n) => n = g
  <2>1. n = g \/ ~n.map.ready
    BY <1>1 DEF LocalizationChecked, DropCandidate, Wide, MapRecord
  <2> QED BY <2>1 DEF MapRecovered, MapReady
<1> HIDE DEF g, lost, k
<1>7. Held(m, n) /\ Loyal(m, n)
  BY <1>4, <1>5, HeldHeld
<1>8. MapRecovered(n) => m.state = "WAITING"
  BY <1>4, <1>6 DEF MapRecovered
<1> HIDE DEF n
<1>9. Sound(acted) /\ acted \in Wide
  BY <1>1, <1>3, <1>5, ActedSound DEF Sound
<1>10. /\ Held(acted, put_off) /\ Loyal(acted, put_off)
       /\ put_off.state = "WAITING" /\ put_off \in Wide
  BY <1>9, SuspendedHeld, SuspendedType, Words
<1>11. Goes(m, f)
  <2>1. CASE MapRecovered(n)
    <3>1. m.state = "WAITING" /\ m.fail_stop
      BY <1>8, <2>1 DEF Sound, Backed
    <3> DEFINE wait == n.wait
    <3>2. acted = DispatchedOrSuspended(Recovering(n), v, 0, wait)
      BY <2>1 DEF Acted, Recovering, MapRecovered
    <3> HIDE DEF wait, acted
    <3>3. Goes(n, acted)
      BY <1>5, <2>1, <3>2, RecoveredGoes DEF MapRecovered
    <3>4. Goes(m, acted)
      BY <1>7, <3>1, <3>3, WaitingGoes
    <3> HIDE DEF put_off
    <3>5. Goes(m, put_off)
      BY <1>10, <3>1, <3>4, WaitingGoes
    <3> QED BY <3>4, <3>5
  <2>2. CASE ~MapRecovered(n) /\ n.state = "TRACKING" /\ ~lost
    <3>1. n = m /\ f = TrackingActed(n, v, s)
      BY <1>4, <1>5, <2>2 DEF Acted
    <3>2. Goes(n, TrackingActed(n, v, s))
      BY <1>1, <1>5, <2>2, TrackingActedGoes
    <3> QED BY <3>1, <3>2
  <2>3. CASE ~MapRecovered(n) /\ ~(n.state = "TRACKING" /\ ~lost)
    <3>1. \/ acted = SuspensionCharged(n)
          \/ acted = Tracked(n, s)
          \/ acted = n
      BY <2>3 DEF Acted
    <3>2. Like(n, acted)
      BY <1>5, <3>1, SuspensionChargedSound, TrackedSound, AsideLike, LikeRefl
         DEF Follows
    <3> HIDE DEF acted
    <3>3. Held(m, acted) /\ Loyal(m, acted)
      BY <1>7, <3>2, LikeHeld, HeldHeld
    <3> HIDE DEF put_off
    <3>4. Held(m, put_off) /\ Loyal(m, put_off)
      BY <1>10, <3>3, HeldHeld
    <3> QED BY <3>3, <3>4 DEF Goes
  <2> QED BY <2>1, <2>2, <2>3
<1>12. f \in Wide
  BY <1>9, <1>10
<1> HIDE DEF f
<1>13. SameTask(m, f) /\ Lawful(m, f)
  BY <1>11 DEF Goes, Held, Asked, Renewed, Lawful, Move
<1>14. Lawful(m, Finished(f))
  BY <1>1, <1>12, <1>13, FinishedEnded
<1> QED BY <1>2, <1>13, <1>14 DEF k

LEMMA TickedLawful ==
    ASSUME NEW m, Sound(m), Mute(m), NEW v \in Surroundings, NEW s \in Sightings,
           m.next <= MaxRequests
    PROVE  Lawful(m, Ticked(m, v, s))
<1>1. CASE m.goal = 0
  <2>1. Ticked(m, v, s) = Heartbeat(m)
    BY <1>1 DEF Ticked
  <2> QED BY <2>1, HeartbeatLike, LikeHeld, HeldLawful
<1>2. CASE m.goal # 0 /\ ~m.goal_tf
  <2>1. Ticked(m, v, s) = Suspended(m, "NONE", 0)
    BY <1>2 DEF Ticked
  <2> QED BY <2>1, SuspendedHeld, HeldLawful DEF Sound
<1>3. CASE m.goal # 0 /\ m.goal_tf
  <2> DEFINE k == Supervised(m, v, s)
  <2>1. Sound(k) /\ Lawful(m, k)
    BY <1>3, SupervisedSound, SupervisedLawful
  <2>2. Ticked(m, v, s) = Heartbeat(k)
    BY <1>3 DEF Ticked
  <2> HIDE DEF k
  <2> QED BY <2>1, <2>2, HeartbeatLike, LikeLawful
<1> QED BY <1>1, <1>2, <1>3

-----------------------------------------------------------------------------
(* Every lawful move is a step of the abstract authority.                   *)

(* What was requested before the last break, up to the request b, is not    *)
(* executed and is not waited for.                                          *)
Barred(m, b) ==
    /\ b \in Nat /\ b <= m.next
    /\ ~m.fail_stop => b < m.committed
    /\ m.state \in {"PLANNING", "TRACKING"} => b < m.expected

Run(m) == IF m.state = "TRACKING" /\ ~m.fail_stop THEN m.command.of.request ELSE 0

LEMMA RunIs ==
    ASSUME NEW m, Sound(m)
    PROVE  /\ Run(m) = IF m.fail_stop THEN 0 ELSE m.committed
           /\ ~m.fail_stop => m.committed # 0 /\ m.state = "TRACKING"
           /\ m.committed \in Nat /\ m.expected \in Nat /\ m.next \in Nat
           /\ m.next_goal \in Nat /\ m.expected <= m.next /\ m.goal <= m.next_goal
           /\ m.goal \in Nat
<1>1. ASSUME ~m.fail_stop
      PROVE  /\ m.state = "TRACKING" /\ m.command.of.request = m.committed
             /\ m.committed # 0
  <2>1. /\ m.state = "TRACKING" /\ m.command.of.request = m.committed
        /\ m.command.of \in m.requests
    BY <1>1 DEF Sound, Backed, Commanded
  <2>2. m.command.of \in Requests
    BY <2>1, WideFields DEF Sound
  <2>3. m.command.of.request # 0
    BY <2>2, ConfigAssumption DEF Requests
  <2> QED BY <2>1, <2>3
<1> QED BY <1>1, WideFields DEF Run, Sound, Numbered

(* The last break, after the step: as Remembered has it.                    *)
BarrierMoves ==
    history'.barrier = IF mgr'.goal # mgr.goal THEN 0
                       ELSE IF BreaksOff(mgr') THEN mgr.next ELSE history.barrier

LEMMA MoveImplements ==
    ASSUME Sound(mgr), Sound(mgr)', Barred(mgr, history.barrier),
           Move(mgr, mgr'), BarrierMoves
    PROVE  Barred(mgr, history.barrier)' /\ [Authority!Next]_(Authority!vars)
<1> DEFINE b == history.barrier
           r == Run(mgr)
<1>1. /\ r = IF mgr.fail_stop THEN 0 ELSE mgr.committed
      /\ ~mgr.fail_stop => mgr.committed # 0 /\ mgr.state = "TRACKING"
      /\ mgr.committed \in Nat /\ mgr.expected \in Nat /\ mgr.next \in Nat
      /\ mgr.next_goal \in Nat /\ mgr.expected <= mgr.next
      /\ mgr.goal <= mgr.next_goal /\ mgr.goal \in Nat
  BY RunIs
<1>2. /\ r' = IF mgr'.fail_stop THEN 0 ELSE mgr'.committed
      /\ ~mgr'.fail_stop => mgr'.committed # 0 /\ mgr'.state = "TRACKING"
      /\ mgr'.committed \in Nat /\ mgr'.expected \in Nat /\ mgr'.next \in Nat
      /\ mgr'.next_goal \in Nat /\ mgr'.expected <= mgr'.next
  <2>1. /\ Run(mgr') = IF mgr'.fail_stop THEN 0 ELSE mgr'.committed
        /\ ~mgr'.fail_stop => mgr'.committed # 0 /\ mgr'.state = "TRACKING"
        /\ mgr'.committed \in Nat /\ mgr'.expected \in Nat /\ mgr'.next \in Nat
        /\ mgr'.next_goal \in Nat /\ mgr'.expected <= mgr'.next
    BY RunIs
  <2> QED BY <2>1 DEF Run
<1>3. /\ b \in Nat /\ b <= mgr.next
      /\ ~mgr.fail_stop => b < mgr.committed
      /\ mgr.state \in {"PLANNING", "TRACKING"} => b < mgr.expected
  BY DEF Barred
<1>4. SUFFICES
        /\ /\ b' \in Nat /\ b' <= mgr'.next
           /\ ~mgr'.fail_stop => b' < mgr'.committed
           /\ mgr'.state \in {"PLANNING", "TRACKING"} => b' < mgr'.expected
        /\ \/ mgr'.next_goal = mgr.next_goal + 1 /\ mgr'.next \in {0, 1}
              /\ b' = 0 /\ r' = 0
           \/ mgr'.next = mgr.next + 1
              /\ mgr'.next_goal = mgr.next_goal /\ b' = b /\ r' = r
           \/ r = 0 /\ r' \in (b + 1)..mgr.next
              /\ mgr'.next_goal = mgr.next_goal /\ mgr'.next = mgr.next /\ b' = b
           \/ r # 0 /\ r' \in (r + 1)..mgr.next
              /\ mgr'.next_goal = mgr.next_goal /\ mgr'.next = mgr.next /\ b' = b
           \/ r' = 0 /\ mgr'.next_goal = mgr.next_goal /\ mgr'.next = mgr.next
              /\ b' = b
           \/ r' = 0 /\ b' = mgr.next /\ mgr'.next \in {mgr.next, mgr.next + 1}
              /\ mgr'.next_goal = mgr.next_goal
           \/ mgr'.next = 0 /\ b' = 0 /\ r' = 0 /\ mgr'.next_goal = mgr.next_goal
           \/ r' = r /\ mgr'.next_goal = mgr.next_goal /\ mgr'.next = mgr.next
              /\ b' = b
  BY DEF Barred, Run, Authority!Next, Authority!vars, Authority!Begin,
         Authority!Issue, Authority!Grant, Authority!Replace, Authority!Pause,
         Authority!Break, Authority!End
<1>5. b' = IF mgr'.goal # mgr.goal THEN 0
           ELSE IF BreaksOff(mgr') THEN mgr.next ELSE b
  BY DEF BarrierMoves
<1> HIDE DEF b, r
<1>6. CASE Held(mgr, mgr')
  BY <1>1, <1>2, <1>3, <1>5, <1>6 DEF Held, SameTask, StillRuns, BreaksOff
<1>7. CASE Asked(mgr, mgr')
  BY <1>1, <1>2, <1>3, <1>5, <1>7 DEF Asked, SameTask, StillRuns, BreaksOff
<1>8. CASE Renewed(mgr, mgr')
  BY <1>1, <1>2, <1>3, <1>5, <1>8 DEF Renewed, SameTask, BreaksOff
<1>9. CASE Granted(mgr, mgr')
  BY <1>1, <1>2, <1>3, <1>5, <1>9 DEF Granted, SameTask, BreaksOff
<1>10. CASE Ended(mgr, mgr')
  <2>1. mgr'.state = "IDLE" /\ mgr'.next = 0
    BY <1>10 DEF Ended, Sound, Staged
  <2> QED BY <1>1, <1>2, <1>5, <1>10, <2>1 DEF Ended
<1>11. CASE Begun(mgr, mgr')
  BY <1>1, <1>2, <1>5, <1>11 DEF Begun
<1> QED BY <1>6, <1>7, <1>8, <1>9, <1>10, <1>11 DEF Move

AInv == IInv /\ Barred(mgr, history.barrier) /\ Steady(mgr)

LEMMA BecomesLawful ==
    ASSUME IInv, NEW m, Lawful(Awake, m), Becomes(m)
    PROVE  Lawful(mgr, mgr') /\ BarrierMoves
<1>1. mgr' = m /\ history' = Remembered(mgr')
  BY DEF Becomes
<1>2. Lawful(mgr, m)
  BY AwakeSound, AsideLike, LikeLawful
<1>3. BarrierMoves
  BY <1>1 DEF BarrierMoves, Remembered, NothingHappened, IInv, HistoryOK
<1> QED BY <1>1, <1>2, <1>3

LEMMA PlannerFailureLawful ==
    ASSUME IInv, OnPlannerFailure PROVE Lawful(mgr, mgr') /\ BarrierMoves
<1>1. PICK r \in mgr.requests, reason \in Reasons :
        OnPlanFailed(r, reason) \/ OnPlanAcceptedInVain(r, reason)
  BY DEF OnPlannerFailure
<1> DEFINE a == Awake
<1>2. /\ Sound(a) /\ Like(mgr, a)
      /\ history \in [barrier : 0..MaxRequests, condemned : 0..MaxPublications]
  BY AwakeSound, AsideLike DEF IInv, HistoryOK
<1>3. CASE OnPlanFailed(r, reason)
  <2> DEFINE m == PlanFailed(a, r, reason)
  <2>1. Lawful(mgr, m)
    BY <1>2, PlanFailedLawful, LikeLawful
  <2>2. mgr' = m /\ history'.barrier = Remembered(m).barrier
    BY <1>3, RememberedType DEF OnPlanFailed
  <2> HIDE DEF m
  <2>3. BarrierMoves
    BY <1>2, <2>2 DEF BarrierMoves, Remembered, NothingHappened
  <2> QED BY <2>1, <2>2, <2>3
<1>4. CASE mgr' = [a EXCEPT !.replacing = FALSE] /\ history' = history
  <2> DEFINE m == [a EXCEPT !.replacing = FALSE]
  <2>1. Like(a, m)
    <3>1. a \in Wide
      BY <1>2 DEF Sound
    <3> HIDE DEF a
    <3> QED BY <3>1 DEF Wide, Like, SameTask
  <2> HIDE DEF a, m
  <2>2. mgr' = m
    BY <1>4 DEF m
  <2>3. Like(mgr, mgr')
    BY <1>2, <2>1, <2>2 DEF Like, SameTask
  <2>4. BarrierMoves
    BY <1>4, <2>3 DEF BarrierMoves, BreaksOff, Like, SameTask
  <2> QED BY <2>3, <2>4, LikeHeld, HeldLawful
<1> QED BY <1>1, <1>3, <1>4 DEF OnPlanAcceptedInVain

LEMMA StepLawful ==
    ASSUME IInv, Steady(mgr), Next
    PROVE  Lawful(mgr, mgr') /\ BarrierMoves
<1> DEFINE a == Awake
           Good == Lawful(mgr, mgr') /\ BarrierMoves
<1>1. /\ Sound(a) /\ Mute(a) /\ a.next <= MaxRequests /\ a \in Wide
      /\ a.goal = mgr.goal /\ a.next_goal = mgr.next_goal
      /\ a.requests = mgr.requests /\ Steady(a)
  BY AwakeSound, Zenon DEF Sound, Unmoved, Steady, Commanding
<1>2. /\ \A fault : Outcomes(fault) \subseteq BOOLEAN
      /\ Prospects \subseteq Surroundings
      /\ 1..MaxEpochs \subseteq 0..MaxEpochs
      /\ 1..MaxPublications \subseteq 0..MaxPublications
  <2>1. \A fault : Outcomes(fault) \subseteq BOOLEAN
    BY Zenon DEF Outcomes
  <2> QED BY <2>1, ConfigAssumption DEF Prospects
<1>3. /\ mgr.map.epoch \in 0..MaxEpochs /\ mgr.loc.epoch \in 0..MaxEpochs
      /\ mgr.next_yaw \in Nat
  BY WideFields DEF IInv, Sound
<1>4. /\ Larger(1, mgr.map.epoch)..MaxEpochs \subseteq 0..MaxEpochs
      /\ Larger(1, mgr.loc.epoch)..MaxEpochs \subseteq 0..MaxEpochs
      /\ 0..mgr.next_yaw \subseteq Nat
  BY <1>3, ConfigAssumption DEF Larger
<1>5. ASSUME NEW m, Becomes(m), Lawful(a, m) PROVE Good
  BY <1>5, BecomesLawful
<1>6. ASSUME NEW m, Becomes(m), Like(a, m) PROVE Good
  BY <1>5, <1>6, LikeHeld, HeldLawful
<1> HIDE DEF Good
<1>7. OnActionAccepted => Good
  <2> SUFFICES ASSUME mgr.next_goal < MaxGoals,
                      NEW v \in Prospects, Becomes(Started(a, v))
               PROVE  Good
    BY DEF OnActionAccepted
  <2> HIDE DEF a
  <2> QED BY <1>1, <1>2, <1>5, StartedLawful
<1>8. OnActionCancel => Good
  <2> SUFFICES ASSUME Becomes(Cancelled(a)) PROVE Good
    BY DEF OnActionCancel
  <2> HIDE DEF a
  <2> QED BY <1>1, <1>5, CancelledHeld
<1>9. OnGoalRefused => Good
  <2> DEFINE m == [a EXCEPT !.estop = TRUE]
  <2> SUFFICES ASSUME Becomes(m) PROVE Good
    BY DEF OnGoalRefused
  <2> HIDE DEF a
  <2>1. Like(a, m)
    BY <1>1 DEF Wide, Like, SameTask
  <2> QED BY <1>6, <2>1
<1>10. OnReplanAdvised => Good
  <2> SUFFICES ASSUME NEW r \in mgr.requests, NEW v \in Prospects,
                      Becomes(ReplanAdvised(a, v, r))
               PROVE  Good
    BY DEF OnReplanAdvised
  <2> HIDE DEF a
  <2>1. Goes(a, ReplanAdvised(a, v, r))
    BY <1>1, <1>2, ReplanAdvisedGoes
  <2>2. Lawful(a, ReplanAdvised(a, v, r))
    BY <2>1 DEF Goes, Lawful, Move
  <2> QED BY <1>5, <2>2
<1>11. OnReferenceReady => Good
  <2> SUFFICES ASSUME NEW r \in mgr.requests, NEW v \in Surroundings,
                      Becomes(ReferenceReady(a, v, r))
               PROVE  Good
    BY DEF OnReferenceReady
  <2> HIDE DEF a
  <2> QED BY <1>1, <1>5, ReferenceReadyLawful
<1>12. OnCandidateReference => Good
  <2> SUFFICES ASSUME NEW r \in mgr.requests, NEW v \in Surroundings,
                      Becomes(TryCommit([a EXCEPT !.candidate = r], v))
               PROVE  Good
    BY DEF OnCandidateReference
  <2> HIDE DEF a
  <2> QED BY <1>1, <1>5, CandidateLawful
<1>13. OnMapStatus => Good
  <2> SUFFICES ASSUME NEW v \in Surroundings, NEW ready \in Outcomes("MAP"),
                      NEW epoch \in Larger(1, mgr.map.epoch)..MaxEpochs,
                      NEW pub \in 1..MaxPublications,
                      Becomes(MapStatusReceived(a, v, ready, epoch, pub))
               PROVE  Good
    BY DEF OnMapStatus
  <2>1. ready \in BOOLEAN /\ epoch \in 0..MaxEpochs /\ pub \in 0..MaxPublications
    BY <1>2, <1>4, Zenon
  <2> HIDE DEF a
  <2> QED BY <1>1, <1>5, <2>1, MapStatusLawful
<1>14. OnPlanningSnapshot => Good
  <2> SUFFICES ASSUME NEW v \in Surroundings, NEW valid \in Outcomes("SNAPSHOT"),
                      NEW epoch \in 1..MaxEpochs, NEW pub \in 1..MaxPublications,
                      Becomes(SnapshotReceived(a, v, valid, epoch, pub))
               PROVE  Good
    BY DEF OnPlanningSnapshot
  <2>1. valid \in BOOLEAN /\ epoch \in 0..MaxEpochs /\ pub \in 0..MaxPublications
    BY <1>2, Zenon
  <2> HIDE DEF a
  <2> QED BY <1>1, <1>5, <2>1, SnapshotLawful
<1>15. \E v : v \in Surroundings
  <2>1. PICK y : y \in YawModes
    BY ConfigAssumption
  <2>2. [safe |-> TRUE, yaw |-> y] \in Surroundings
    BY <2>1 DEF Surroundings
  <2> QED BY <2>2
<1>16. OnLocalizationStatus => Good
  <2> SUFFICES ASSUME NEW healthy \in Outcomes("LOCALIZATION"),
                      NEW epoch \in Larger(1, mgr.loc.epoch)..MaxEpochs,
                      Becomes(LocalizationReceived(a, healthy, epoch))
               PROVE  Good
    BY DEF OnLocalizationStatus
  <2>1. healthy \in BOOLEAN /\ epoch \in 0..MaxEpochs
    BY <1>2, <1>4, Zenon
  <2> HIDE DEF a
  <2> QED BY <1>1, <1>5, <1>15, <2>1, LocalizationLawful
<1>17. OnGimbalYawStatus => Good
  <2> SUFFICES ASSUME NEW v \in Surroundings, NEW mode \in YawModes,
                      NEW sound \in Outcomes("GIMBAL"),
                      NEW request \in 0..mgr.next_yaw,
                      Becomes(GimbalReceived(a, v, mode, sound, request))
               PROVE  Good
    BY DEF OnGimbalYawStatus
  <2>1. sound \in BOOLEAN /\ mode \in YawAuthorities /\ request \in Nat
    BY <1>2, <1>4, Zenon DEF YawAuthorities
  <2> HIDE DEF a
  <2> QED BY <1>1, <1>5, <2>1, GimbalLawful
<1>18. OnOdometry => Good
  <2> SUFFICES ASSUME NEW quality \in {"LOST", "BLIND", "OK"},
                      Becomes(OdometryReceived(a, quality))
               PROVE  Good
    BY DEF OnOdometry
  <2> HIDE DEF a
  <2> QED BY <1>1, <1>5, <1>15, OdometryLawful
<1>19. OnTick => Good
  <2> SUFFICES ASSUME NEW v \in Prospects, NEW s \in Sightings,
                      Becomes(Ticked(a, v, s))
               PROVE  Good
    BY DEF OnTick
  <2> HIDE DEF a
  <2> QED BY <1>1, <1>2, <1>5, TickedLawful
<1>20. Lapse \/ DeadlinePasses \/ Elapse \/ TransformChanges => Good
  <2> SUFFICES ASSUME Lapse \/ DeadlinePasses \/ Elapse \/ TransformChanges
               PROVE  Good
    OBVIOUS
  <2> DEFINE known == ~a.goal_tf
             E == {[a EXCEPT !.map.fresh = FALSE], [a EXCEPT !.snapshot.fresh = FALSE],
                   [a EXCEPT !.loc.fresh = FALSE], [a EXCEPT !.gimbal.fresh = FALSE],
                   [a EXCEPT !.deadline = "ELAPSED"], [a EXCEPT !.wait = "ELAPSED"],
                   [a EXCEPT !.noplan = "ELAPSED"], [a EXCEPT !.dwell = "ELAPSED"],
                   [a EXCEPT !.goal_tf = known]}
  <2>1. PICK m \in E : Becomes(m)
    BY DEF Lapse, DeadlinePasses, Elapse, TransformChanges
  <2> HIDE DEF a, known
  <2>2. Like(a, m)
    BY <1>1, <2>1 DEF Wide, Like, SameTask
  <2> QED BY <1>6, <2>1, <2>2
<1>21. Good
  BY <1>7, <1>8, <1>9, <1>10, <1>11, <1>12, <1>13, <1>14, <1>16, <1>17, <1>18,
     <1>19, <1>20, PlannerFailureLawful, Zenon DEF Next, Good
<1> QED BY <1>21 DEF Good

(* Where the localization is required and MINCO chooses between several yaw *)
(* authorities, a candidate of another authority can revive a goal that     *)
(* waits: this is the case the theorem excludes.                            *)
Cautious == OneMode \/ ~RequireLocalization

LEMMA LawfulSteady ==
    ASSUME Cautious, NEW m, NEW n, Steady(m), Lawful(m, n)
    PROVE  Steady(n)
BY DEF Cautious, Steady, Lawful, Loyal

LEMMA InitAuthority == ASSUME Init PROVE AInv /\ Authority!Init
<1>1. IInv /\ mgr = InitialManager /\ history = NothingHappened
  BY InitSound DEF Init
<1>2. /\ InitialManager.next = 0 /\ InitialManager.fail_stop
      /\ InitialManager.state = "IDLE" /\ InitialManager.command = NoCommand
      /\ InitialManager.next_goal = 0 /\ NothingHappened.barrier = 0
  BY DEF InitialManager, NothingHappened
<1> QED
  BY <1>1, <1>2
     DEF AInv, Barred, Steady, Commanding, Authority!Init

(* Execution is only passed on as the abstract authority allows: a request  *)
(* is executed after it was made, in place of an earlier one or from a      *)
(* stop, and once execution was broken off none of the requests made before *)
(* is executed any more, however late their answers come; for any number of *)
(* goals and requests, whatever fails, lapses or restarts.  It is proved    *)
(* where the localization is not required or one yaw authority is all there *)
(* is: the run ManagerLateCandidate shows that the code breaks the promise  *)
(* otherwise.                                                               *)
THEOREM ManagerImplementsAuthority ==
    ASSUME Cautious
    PROVE  Spec => ImplementsAuthority
<1>1. Init => AInv /\ Authority!Init
  BY InitAuthority
<1>2. AInv /\ [Next]_vars => AInv' /\ [Authority!Next]_(Authority!vars)
  <2> SUFFICES ASSUME AInv, [Next]_vars
               PROVE  AInv' /\ [Authority!Next]_(Authority!vars)
    OBVIOUS
  <2>1. IInv'
    <3>1. CASE UNCHANGED vars
      BY <3>1 DEF vars, AInv, IInv, HistoryOK
    <3>2. CASE Next
      BY <3>2, PlannerFailureSound, CallsSound, InputsSound, EnvironmentSound, Zenon
         DEF Next, AInv
    <3> QED BY <3>1, <3>2
  <2>2. CASE UNCHANGED vars
    <3>1. mgr' = mgr /\ history' = history
      BY <2>2 DEF vars
    <3>2. Barred(mgr, history.barrier)' /\ Steady(mgr)'
      BY <3>1, Zenon DEF AInv
    <3>3. UNCHANGED Authority!vars
      BY <3>1 DEF Authority!vars
    <3> QED BY <2>1, <3>2, <3>3 DEF AInv
  <2>3. CASE Next
    <3>1. Lawful(mgr, mgr') /\ BarrierMoves
      BY <2>3, StepLawful DEF AInv
    <3>2. Sound(mgr) /\ Sound(mgr)' /\ Move(mgr, mgr')
      BY <2>1, <3>1 DEF AInv, IInv, Lawful
    <3>3. Barred(mgr, history.barrier)' /\ [Authority!Next]_(Authority!vars)
      BY <3>1, <3>2, MoveImplements DEF AInv
    <3>4. Steady(mgr')
      BY <3>1, LawfulSteady DEF AInv
    <3>5. Steady(mgr)'
      BY <3>4, Zenon
    <3> QED BY <2>1, <3>3, <3>5 DEF AInv
  <2> QED BY <2>2, <2>3
<1> QED BY <1>1, <1>2, PTL DEF Spec, ImplementsAuthority, Authority!Spec

=============================================================================
