------------------------- MODULE GoalManagerProofs -------------------------
(* Proofs about the goal manager, for every value of the constants: its    *)
(* state is well typed, an EXECUTE is only sent in full health, and the    *)
(* release of the emergency stop is backed by an execution.                *)
EXTENDS GoalManager, TLAPS

-----------------------------------------------------------------------------
(* Types.  In the middle of a callback the number of requests may exceed   *)
(* its bound, which is applied when the callback ends: Wide is Manager     *)
(* without it.                                                             *)

MapRecord ==
    [ready : BOOLEAN, alive : BOOLEAN, fresh : BOOLEAN,
     epoch : 0..MaxEpochs, pub : 0..MaxPublications]

SnapshotRecord ==
    [valid : BOOLEAN, fresh : BOOLEAN, epoch : 0..MaxEpochs,
     pub : 0..MaxPublications]

LocRecord == [healthy : BOOLEAN, fresh : BOOLEAN, epoch : 0..MaxEpochs]

GimbalRecord ==
    [sound : BOOLEAN, fresh : BOOLEAN, mode : YawAuthorities, request : Nat]

SentRecord ==
    [mode : {"NONE", "STOP", "EXECUTE"}, of : MaybeRequest, gimbal : Nat]

CommandRecord == [of : MaybeRequest, gimbal : Nat]

YawRecord ==
    [sequence : Nat, epoch : 0..MaxEpochs, pub : 0..MaxPublications,
     yaw : YawAuthorities]

States == {"IDLE", "WAITING", "PLANNING", "TRACKING"}

Wide ==
    [goal : 0..MaxGoals, epoch : 0..MaxEpochs, next : Nat,
     expected : Nat, committed : Nat,
     cancel : BOOLEAN, replacing : BOOLEAN, after : 0..MaxPublications,
     wait : Timers, deadline : Timers,
     state : States, fail_stop : BOOLEAN,
     candidate : MaybeRequest, ready : MaybeRequest,
     command : CommandRecord, yaw_request : YawRecord,
     dwell : Timers, noplan : Timers, replans : 0..MaxReplans,
     next_goal : 0..MaxGoals, next_yaw : Nat,
     map : MapRecord, snapshot : SnapshotRecord, loc : LocRecord,
     odom : {"NONE", "LOST", "BLIND", "OK"},
     goal_tf : BOOLEAN, gimbal : GimbalRecord,
     requests : SUBSET Requests, estop : BOOLEAN, sent : SentRecord]

(* The constants of the model are in their types.                          *)
LEMMA Words ==
    /\ NoRequest \in MaybeRequest /\ NoCommand \in CommandRecord
    /\ NoYawRequest \in YawRecord
    /\ Stop \in SentRecord /\ Silent \in SentRecord
    /\ "NONE" \in Timers /\ "RUNNING" \in Timers /\ "ELAPSED" \in Timers
    /\ 0 \in 0..MaxGoals /\ 0 \in 0..MaxEpochs /\ 0 \in 0..MaxPublications
    /\ 0 \in 0..MaxReplans /\ 0 \in Nat
    /\ \A s \in {"IDLE", "WAITING", "PLANNING", "TRACKING"} : s \in States
    /\ Stop.mode # "EXECUTE" /\ Silent.mode # "EXECUTE"
<1>1. NoRequest \in MaybeRequest
  BY DEF MaybeRequest
<1>2. "NONE" \in YawAuthorities /\ 0 \in 0..MaxEpochs /\ 0 \in 0..MaxPublications
      /\ 0 \in 0..MaxGoals /\ 0 \in 0..MaxReplans
  BY ConfigAssumption DEF YawAuthorities
<1> QED
  BY <1>1, <1>2 DEF CommandRecord, YawRecord, SentRecord, States, NoCommand,
                    NoYawRequest, Stop, Silent, Timers

(* The fields that the arguments below compare as numbers or records.      *)
LEMMA WideFields ==
    ASSUME NEW m \in Wide
    PROVE  /\ m.goal \in 0..MaxGoals /\ m.goal \in Nat
           /\ m.epoch \in 0..MaxEpochs
           /\ m.next \in Nat /\ m.expected \in Nat /\ m.committed \in Nat
           /\ m.next_goal \in 0..MaxGoals /\ m.next_goal \in Nat
           /\ m.after \in 0..MaxPublications /\ m.after \in Nat
           /\ m.state \in States
           /\ m.candidate \in MaybeRequest /\ m.ready \in MaybeRequest
           /\ m.command \in CommandRecord /\ m.command.of \in MaybeRequest
           /\ m.requests \subseteq Requests
           /\ m.map \in MapRecord /\ m.snapshot \in SnapshotRecord
           /\ m.map.pub \in 0..MaxPublications /\ m.map.pub \in Nat
           /\ m.snapshot.pub \in 0..MaxPublications /\ m.snapshot.pub \in Nat
           /\ m.map.epoch \in 0..MaxEpochs /\ m.loc.epoch \in 0..MaxEpochs
           /\ m.next_yaw \in Nat
           /\ m.wait \in Timers /\ m.noplan \in Timers /\ m.dwell \in Timers
BY DEF Wide, CommandRecord, MapRecord, SnapshotRecord, LocRecord

LEMMA RequestFields ==
    ASSUME NEW r \in Requests
    PROVE  /\ r.goal \in 1..MaxGoals /\ r.goal # 0
           /\ r.request \in 1..(MaxRequests + 1) /\ r.request \in Nat
           /\ r.epoch \in 0..MaxEpochs /\ r.pub \in 0..MaxPublications
           /\ r.pub \in Nat /\ r.yaw \in YawModes
           /\ r # NoRequest /\ r \in MaybeRequest
BY ConfigAssumption DEF Requests, NoRequest, MaybeRequest

-----------------------------------------------------------------------------
(* What the shared steps do.                                               *)

SameInputs(m, n) ==
    /\ n.map = m.map /\ n.snapshot = m.snapshot /\ n.loc = m.loc
    /\ n.odom = m.odom /\ n.gimbal = m.gimbal /\ n.goal_tf = m.goal_tf

SameGoal(m, n) ==
    /\ n.goal = m.goal /\ n.cancel = m.cancel /\ n.next_goal = m.next_goal
    /\ n.next_yaw >= m.next_yaw

SameRequests(m, n) ==
    /\ n.next = m.next /\ n.expected = m.expected /\ n.committed = m.committed
    /\ n.requests = m.requests

(* No authority, and nothing left that could become one without an answer. *)
Bare(n) ==
    /\ n.fail_stop /\ n.command = NoCommand
    /\ n.candidate = NoRequest /\ n.ready = NoRequest

LEMMA DropType ==
    ASSUME NEW m \in Wide PROVE DropCandidate(m) \in Wide
BY Words, Zenon DEF Wide, DropCandidate

LEMMA RevokedType ==
    ASSUME NEW m \in Wide PROVE Revoked(m) \in Wide
<1> DEFINE d == DropCandidate(m)
<1>1. d \in Wide
  BY DropType
<1>2. Revoked(m) = [d EXCEPT !.command = NoCommand, !.yaw_request = NoYawRequest,
                             !.dwell = "NONE", !.fail_stop = TRUE]
  BY DEF Revoked
<1> HIDE DEF d
<1>3. [d EXCEPT !.command = NoCommand, !.yaw_request = NoYawRequest,
                !.dwell = "NONE", !.fail_stop = TRUE] \in Wide
  BY <1>1, Words, Zenon DEF Wide
<1> QED BY <1>2, <1>3

LEMMA StoppedType ==
    ASSUME NEW m \in Wide PROVE Stopped(m) \in Wide
BY Words, Zenon DEF Wide, Stopped

LEMMA SuspendedType ==
    ASSUME NEW m \in Wide, NEW since \in Timers, NEW after \in 0..MaxPublications
    PROVE  Suspended(m, since, after) \in Wide
<1> DEFINE r == Revoked(m)
           w == Waiting(m, since)
           l == Larger(r.after, after)
           n == [r EXCEPT !.replacing = FALSE, !.wait = w, !.state = "WAITING",
                          !.after = l]
<1>1. r \in Wide
  BY RevokedType
<1>2. w \in Timers
  BY Words DEF Waiting, Wide
<1> HIDE DEF r
<1>3. l \in 0..MaxPublications
  BY <1>1 DEF Larger, Wide
<1>4. Suspended(m, since, after) = Stopped(n)
  BY DEF Suspended, r
<1> HIDE DEF w, l
<1>5. n \in Wide
  BY <1>1, <1>2, <1>3, Words, Zenon DEF Wide
<1> HIDE DEF n
<1> QED BY <1>4, <1>5, StoppedType

LEMMA SuspendedEffect ==
    ASSUME NEW m \in Wide, NEW since, NEW after
    PROVE  LET n == Suspended(m, since, after)
           IN  /\ SameInputs(m, n) /\ SameGoal(m, n) /\ SameRequests(m, n)
               /\ n.epoch = m.epoch /\ Bare(n)
               /\ n.state = "WAITING" /\ ~n.replacing
               /\ n.after = Larger(m.after, after) /\ n.sent = Stop
BY DEF Wide, Suspended, Stopped, Revoked, DropCandidate, SameInputs, SameGoal,
       SameRequests, Bare

LEMMA FinishedType ==
    ASSUME NEW m \in Wide PROVE Finished(m) \in Wide
<1> DEFINE r == Revoked(m)
           n == [r EXCEPT
                   !.goal = 0, !.epoch = 0, !.next = 0, !.expected = 0,
                   !.committed = 0, !.cancel = FALSE, !.replacing = FALSE,
                   !.after = 0, !.wait = "NONE", !.deadline = "NONE",
                   !.state = "IDLE", !.noplan = "NONE", !.replans = 0]
<1>1. r \in Wide
  BY RevokedType
<1>2. Finished(m) = Stopped(n)
  BY DEF Finished
<1> HIDE DEF r
<1>3. n \in Wide
  BY <1>1, Words, Zenon DEF Wide
<1> HIDE DEF n
<1> QED BY <1>2, <1>3, StoppedType

LEMMA FinishedEffect ==
    ASSUME NEW m \in Wide
    PROVE  LET n == Finished(m)
           IN  /\ SameInputs(m, n) /\ n.requests = m.requests
               /\ n.next_goal = m.next_goal /\ n.next_yaw = m.next_yaw
               /\ n.goal = 0 /\ n.epoch = 0 /\ n.next = 0 /\ n.expected = 0
               /\ n.committed = 0 /\ ~n.cancel /\ ~n.replacing /\ n.after = 0
               /\ n.state = "IDLE" /\ Bare(n) /\ n.sent = Stop
BY DEF Wide, Finished, Stopped, Revoked, DropCandidate, SameInputs, Bare

LEMMA DropEffect ==
    ASSUME NEW m \in Wide
    PROVE  LET n == DropCandidate(m)
           IN  /\ SameInputs(m, n) /\ SameGoal(m, n) /\ SameRequests(m, n)
               /\ n.epoch = m.epoch /\ n.state = m.state
               /\ n.fail_stop = m.fail_stop /\ n.command = m.command
               /\ n.candidate = NoRequest /\ n.ready = NoRequest
               /\ n.replacing = m.replacing /\ n.after = m.after
               /\ n.sent = m.sent
BY DEF Wide, DropCandidate, SameInputs, SameGoal, SameRequests

(* A request that Dispatched adds: of this goal, with the next number.     *)
IsNext(m, r, required) ==
    /\ r.goal = m.goal /\ r.request = m.next + 1 /\ r.epoch = m.epoch
    /\ r.pub = IF required # 0 THEN required ELSE m.map.pub

LEMMA DispatchedEffect ==
    ASSUME NEW m \in Wide, NEW v \in Surroundings,
           NEW required \in 0..MaxPublications, m.goal # 0, m.next <= MaxRequests
    PROVE  LET n == Dispatched(m, v, required)
           IN  /\ n \in Wide
               /\ \E r \in Requests :
                    IsNext(m, r, required) /\ n.requests = m.requests \cup {r}
               /\ SameInputs(m, n) /\ SameGoal(m, n)
               /\ n.next = m.next + 1 /\ n.expected = m.next + 1
               /\ n.committed = m.committed
               /\ n.epoch = m.epoch /\ n.state = m.state
               /\ n.fail_stop = m.fail_stop /\ n.command = m.command
               /\ n.candidate = m.candidate /\ n.ready = m.ready
               /\ n.replacing = m.replacing /\ n.after = m.after
               /\ n.sent = m.sent
<1> DEFINE r == [goal |-> m.goal, request |-> m.next + 1, epoch |-> m.epoch,
                 pub |-> IF required # 0 THEN required ELSE m.map.pub,
                 yaw |-> v.yaw]
           more == m.requests \cup {r}
           p == m.next + 1
           n == [m EXCEPT !.next = p, !.expected = p, !.requests = more]
<1>1. r \in Requests
  <2>1. v.yaw \in YawModes
    BY DEF Surroundings
  <2>2. m.goal \in 1..MaxGoals /\ m.next + 1 \in 1..(MaxRequests + 1)
    BY WideFields, ConfigAssumption
  <2>3. (IF required # 0 THEN required ELSE m.map.pub) \in 0..MaxPublications
    BY WideFields
  <2> QED BY <2>1, <2>2, <2>3, WideFields DEF Requests
<1>2. IsNext(m, r, required)
  BY DEF IsNext
<1>3. Dispatched(m, v, required) = n
  BY DEF Dispatched, Wide
<1> HIDE DEF r
<1>4. more \subseteq Requests /\ p \in Nat
  BY <1>1, WideFields
<1>5. n.requests = more
  BY DEF Wide
<1>6. n.requests = m.requests \cup {r}
  BY <1>5
<1> HIDE DEF more
<1>7. n \in Wide
  <2> HIDE DEF p
  <2> QED BY <1>4, Zenon DEF Wide
<1>8. /\ SameInputs(m, n) /\ SameGoal(m, n)
      /\ n.next = m.next + 1 /\ n.expected = m.next + 1
      /\ n.committed = m.committed
      /\ n.epoch = m.epoch /\ n.state = m.state
      /\ n.fail_stop = m.fail_stop /\ n.command = m.command
      /\ n.candidate = m.candidate /\ n.ready = m.ready
      /\ n.replacing = m.replacing /\ n.after = m.after
      /\ n.sent = m.sent
  BY DEF Wide, SameInputs, SameGoal
<1> HIDE DEF n
<1> QED BY <1>1, <1>2, <1>3, <1>6, <1>7, <1>8

LEMMA CommittedEffect ==
    ASSUME NEW m \in Wide, NEW gimbal \in Nat
    PROVE  LET n == Committed(m, gimbal)
           IN  /\ n \in Wide
               /\ SameInputs(m, n) /\ SameGoal(m, n)
               /\ n.next = m.next /\ n.expected = m.expected
               /\ n.requests = m.requests /\ n.epoch = m.epoch
               /\ n.committed =
                    IF m.ready = NoRequest THEN n.committed ELSE m.ready.request
               /\ n.candidate = NoRequest /\ n.ready = NoRequest
               /\ n.command = [of |-> m.ready, gimbal |-> gimbal]
               /\ ~n.fail_stop /\ n.after = 0 /\ ~n.replacing
               /\ n.state = "TRACKING" /\ ~n.estop
               /\ n.yaw_request = NoYawRequest
               /\ n.sent = Execute(n.command)
<1> DEFINE d == DropCandidate(m)
           command == [of |-> m.ready, gimbal |-> gimbal]
           number == m.ready.request
           word == Execute(command)
           n == [d EXCEPT
                   !.fail_stop = FALSE, !.after = 0, !.replacing = FALSE,
                   !.committed = number, !.command = command,
                   !.state = "TRACKING", !.noplan = "NONE",
                   !.yaw_request = NoYawRequest,
                   !.estop = FALSE, !.sent = word]
<1>1. d \in Wide /\ m.ready \in MaybeRequest
  BY DropType, WideFields
<1>2. number \in Nat
  BY <1>1, RequestFields DEF MaybeRequest, NoRequest
<1>3. command \in CommandRecord
  BY <1>1 DEF CommandRecord
<1>4. word \in SentRecord /\ word = Execute(command)
  BY <1>1 DEF SentRecord, Execute
<1>5. Committed(m, gimbal) = n
  BY DEF Committed
<1>6. /\ SameInputs(m, d) /\ SameGoal(m, d) /\ SameRequests(m, d)
      /\ d.epoch = m.epoch /\ d.candidate = NoRequest /\ d.ready = NoRequest
  BY DropEffect
<1> HIDE DEF d, number, word
<1>7. n \in Wide
  <2> HIDE DEF command
  <2> QED BY <1>1, <1>2, <1>3, <1>4, Words, Zenon DEF Wide
<1>8. /\ SameInputs(d, n) /\ SameGoal(d, n)
      /\ n.next = d.next /\ n.expected = d.expected
      /\ n.requests = d.requests /\ n.epoch = d.epoch
      /\ n.committed = number
      /\ n.candidate = d.candidate /\ n.ready = d.ready
      /\ n.command = command
      /\ ~n.fail_stop /\ n.after = 0 /\ ~n.replacing
      /\ n.state = "TRACKING" /\ ~n.estop
      /\ n.yaw_request = NoYawRequest
      /\ n.sent = word
  <2> HIDE DEF command
  <2> QED BY <1>1 DEF Wide, SameInputs, SameGoal
<1> HIDE DEF n
<1>9. SameInputs(m, n) /\ SameGoal(m, n) /\ n.sent = Execute(n.command)
  BY <1>1, <1>4, <1>6, <1>7, <1>8, WideFields DEF SameInputs, SameGoal
<1> QED
  BY <1>5, <1>6, <1>7, <1>8, <1>9 DEF number, SameRequests

(* Steps that leave the goal, its requests and the authority alone.        *)
Aside(m, n) ==
    /\ SameGoal(m, n) /\ SameRequests(m, n)
    /\ n.epoch = m.epoch /\ n.state = m.state
    /\ n.fail_stop = m.fail_stop /\ n.command = m.command
    /\ n.candidate = m.candidate /\ n.ready = m.ready
    /\ n.replacing = m.replacing /\ n.after = m.after
    /\ n.sent = m.sent

LEMMA YawRequestedEffect ==
    ASSUME NEW m \in Wide, m.ready \in Requests
    PROVE  LET n == YawRequested(m)
           IN  /\ n \in Wide /\ SameInputs(m, n) /\ Aside(m, n)
               /\ RequireGimbal => n.yaw_request # NoYawRequest
<1> DEFINE request == [sequence |-> m.next_yaw + 1, epoch |-> m.ready.epoch,
                       pub |-> m.ready.pub, yaw |-> m.ready.yaw]
           pending == [request EXCEPT !.sequence = m.yaw_request.sequence]
           number == m.next_yaw + 1
           n == [m EXCEPT !.yaw_request = request, !.next_yaw = number]
<1>1. \/ /\ YawRequested(m) = m
         /\ ~RequireGimbal \/ m.yaw_request = pending
      \/ YawRequested(m) = n
  BY DEF YawRequested
<1>2. m.ready.yaw \in YawModes /\ m.ready.yaw # "NONE"
  BY RequestFields, ConfigAssumption
<1>3. pending # NoYawRequest /\ request # NoYawRequest
  BY <1>2 DEF NoYawRequest
<1>4. request \in YawRecord /\ number \in Nat
  BY <1>2, RequestFields DEF Wide, YawRecord, YawAuthorities
<1> HIDE DEF request, number
<1>5. n \in Wide
  BY <1>4, Zenon DEF Wide
<1>6. /\ SameInputs(m, n) /\ Aside(m, n) /\ n.yaw_request = request
  BY <1>4 DEF Wide, SameInputs, Aside, SameGoal, SameRequests, number
<1>7. SameInputs(m, m) /\ Aside(m, m)
  BY DEF Wide, SameInputs, Aside, SameGoal, SameRequests
<1> HIDE DEF n, pending
<1> QED BY <1>1, <1>3, <1>5, <1>6, <1>7

-----------------------------------------------------------------------------
(* The inductive invariant, of a manager in or between callbacks.          *)

(* Without the fail stop the goal is tracked under a command.              *)
Backed(m) == m.fail_stop \/ (m.state = "TRACKING" /\ Commanding(m))

(* Requests are numbered in the order they are made, goal by goal, and     *)
(* what was committed is not younger than what is expected.                *)
Numbered(m) ==
    /\ m.committed <= m.expected /\ m.expected <= m.next
    /\ m.goal <= m.next_goal
    /\ \A r \in m.requests :
        r.goal <= m.next_goal /\ (r.goal = m.goal => r.request <= m.next)
    /\ \A r, q \in m.requests :
        r.goal = q.goal /\ r.request = q.request => r = q

(* A command is the answer to the request that was committed last.         *)
Commanded(m) ==
    Commanding(m) =>
        /\ m.goal # 0 /\ m.after = 0
        /\ m.command.of \in m.requests
        /\ m.command.of.goal = m.goal /\ m.command.of.epoch = m.epoch
        /\ m.command.of.request = m.committed
        /\ m.replacing => m.committed < m.expected

Staged(m) ==
    /\ m.goal = 0 <=> m.state = "IDLE"
    /\ m.goal = 0 => m.next = 0
    /\ m.state = "TRACKING" => m.after = 0
    /\ m.candidate = NoRequest \/ m.candidate \in m.requests
    /\ m.ready = NoRequest \/ m.ready \in m.requests

Sound(m) ==
    m \in Wide /\ Backed(m) /\ Numbered(m) /\ Commanded(m) /\ Staged(m)

(* Nothing, or a STOP, was said so far.                                    *)
Mute(m) == m.sent.mode # "EXECUTE"

(* ExecuteInFullHealth, of a manager in the middle of a callback.          *)
Vouched(m) ==
    m.sent.mode = "EXECUTE" =>
        /\ MapReady(m) /\ LocalizationHealthy(m)
        /\ GimbalSatisfies(m, m.sent.of.yaw, m.sent.gimbal)
        /\ ~m.cancel /\ ~m.estop
        /\ m.sent.of.goal = m.goal /\ m.sent.of.epoch = m.epoch

LEMMA AsideSound ==
    ASSUME NEW m, Sound(m), NEW n \in Wide, Aside(m, n)
    PROVE  Sound(n) /\ (Mute(m) => Mute(n))
BY DEF Sound, Aside, SameGoal, SameRequests, Backed, Numbered, Commanded, Staged,
       Commanding, Mute

LEMMA SuspendedSound ==
    ASSUME NEW m, Sound(m), NEW since \in Timers, NEW after \in 0..MaxPublications,
           m.goal # 0
    PROVE  LET n == Suspended(m, since, after)
           IN  Sound(n) /\ Mute(n) /\ n.next = m.next
<1> DEFINE n == Suspended(m, since, after)
<1>1. n \in Wide
  BY SuspendedType DEF Sound
<1>2. /\ SameInputs(m, n) /\ SameGoal(m, n) /\ SameRequests(m, n)
      /\ n.epoch = m.epoch /\ Bare(n)
      /\ n.state = "WAITING" /\ ~n.replacing
      /\ n.after = Larger(m.after, after) /\ n.sent = Stop
  BY SuspendedEffect DEF Sound
<1> HIDE DEF n
<1>3. Backed(n) /\ Commanded(n) /\ Staged(n)
  BY <1>2 DEF Backed, Commanded, Commanding, Bare, Staged, SameGoal
<1>4. Numbered(n)
  BY <1>2 DEF Sound, Numbered, SameGoal, SameRequests
<1>5. Sound(n)
  BY <1>1, <1>3, <1>4, Zenon DEF Sound
<1> QED BY <1>2, <1>5, Words DEF Mute, SameRequests, n

LEMMA FinishedSound ==
    ASSUME NEW m, Sound(m)
    PROVE  LET n == Finished(m) IN Sound(n) /\ Mute(n) /\ n.next = 0
<1> DEFINE n == Finished(m)
<1>1. n \in Wide
  BY FinishedType DEF Sound
<1>2. /\ n.requests = m.requests
      /\ n.next_goal = m.next_goal
      /\ n.goal = 0 /\ n.next = 0 /\ n.expected = 0
      /\ n.committed = 0 /\ n.after = 0
      /\ n.state = "IDLE" /\ Bare(n) /\ n.sent = Stop
  BY FinishedEffect DEF Sound
<1> HIDE DEF n
<1>3. Backed(n) /\ Commanded(n) /\ Staged(n)
  BY <1>2 DEF Backed, Commanded, Commanding, Bare, Staged
<1>4. Numbered(n)
  <2>1. \A r \in n.requests : r.goal # 0
    BY <1>1, WideFields, RequestFields
  <2>2. n.next_goal \in Nat
    BY <1>1, WideFields
  <2> QED BY <1>2, <2>1, <2>2 DEF Sound, Numbered
<1>5. Sound(n)
  BY <1>1, <1>3, <1>4, Zenon DEF Sound
<1> QED BY <1>2, <1>5, Words DEF Mute, n

LEMMA DropSound ==
    ASSUME NEW m, Sound(m)
    PROVE  LET n == DropCandidate(m) IN Sound(n) /\ (Mute(m) => Mute(n))
<1> DEFINE n == DropCandidate(m)
<1>1. n \in Wide
  BY DropType DEF Sound
<1>2. /\ SameInputs(m, n) /\ SameGoal(m, n) /\ SameRequests(m, n)
      /\ n.epoch = m.epoch /\ n.state = m.state
      /\ n.fail_stop = m.fail_stop /\ n.command = m.command
      /\ n.candidate = NoRequest /\ n.ready = NoRequest
      /\ n.replacing = m.replacing /\ n.after = m.after
      /\ n.sent = m.sent
  BY DropEffect DEF Sound
<1> HIDE DEF n
<1>3. Backed(n) /\ Commanded(n) /\ Staged(n)
  BY <1>2 DEF Sound, SameGoal, SameRequests, Backed, Commanded, Staged, Commanding
<1>4. Numbered(n)
  BY <1>2 DEF Sound, Numbered, SameGoal, SameRequests
<1>5. Sound(n)
  BY <1>1, <1>3, <1>4, Zenon DEF Sound
<1> QED BY <1>2, <1>5 DEF Mute, n

LEMMA DispatchedSound ==
    ASSUME NEW m, Sound(m), NEW v \in Surroundings,
           NEW required \in 0..MaxPublications, m.goal # 0, m.next <= MaxRequests
    PROVE  LET n == Dispatched(m, v, required)
           IN  Sound(n) /\ (Mute(m) => Mute(n))
<1> DEFINE n == Dispatched(m, v, required)
<1>1. m \in Wide
  BY DEF Sound
<1>2. PICK r \in Requests :
        IsNext(m, r, required) /\ n.requests = m.requests \cup {r}
  BY <1>1, DispatchedEffect
<1>3. /\ n \in Wide
      /\ SameInputs(m, n) /\ SameGoal(m, n)
      /\ n.next = m.next + 1 /\ n.expected = m.next + 1
      /\ n.committed = m.committed
      /\ n.epoch = m.epoch /\ n.state = m.state
      /\ n.fail_stop = m.fail_stop /\ n.command = m.command
      /\ n.candidate = m.candidate /\ n.ready = m.ready
      /\ n.replacing = m.replacing /\ n.after = m.after
      /\ n.sent = m.sent
  BY <1>1, DispatchedEffect
<1> HIDE DEF n
<1>4. /\ m.next \in Nat /\ m.expected \in Nat /\ m.committed \in Nat
      /\ m.requests \subseteq Requests
  BY <1>1, WideFields
<1>5. \A q \in m.requests : q.request \in Nat
  BY <1>4, RequestFields
<1>6. Numbered(n)
  <2>1. r.goal = m.goal /\ r.request = m.next + 1
    BY <1>2 DEF IsNext
  <2>2. \A q \in n.requests :
          q.goal <= n.next_goal /\ (q.goal = n.goal => q.request <= n.next)
    BY <1>2, <1>3, <1>4, <1>5, <2>1 DEF Sound, Numbered, SameGoal
  <2>3. \A q \in m.requests : q.goal = r.goal => q.request # r.request
    BY <1>4, <1>5, <2>1 DEF Sound, Numbered
  <2>4. \A p, q \in n.requests :
          p.goal = q.goal /\ p.request = q.request => p = q
    BY <1>2, <2>3 DEF Sound, Numbered
  <2> QED BY <1>3, <1>4, <2>2, <2>4 DEF Sound, Numbered, SameGoal
<1>7. Commanded(n)
  BY <1>2, <1>3, <1>4 DEF Sound, Commanded, Commanding, Numbered, SameGoal
<1>8. Backed(n) /\ Staged(n)
  BY <1>2, <1>3 DEF Sound, Backed, Commanding, Staged, SameGoal
<1>9. Sound(n)
  BY <1>3, <1>6, <1>7, <1>8, Zenon DEF Sound
<1> QED BY <1>3, <1>9 DEF Mute, n

(* Committing the candidate that was expected.                             *)
LEMMA CommittedSound ==
    ASSUME NEW m, Sound(m), NEW gimbal \in Nat, m.ready # NoRequest,
           Expected(m, m.ready)
    PROVE  Sound(Committed(m, gimbal))
<1> DEFINE n == Committed(m, gimbal)
<1>1. m \in Wide /\ m.ready \in m.requests /\ m.ready \in Requests
  BY WideFields DEF Sound, Staged
<1>2. /\ n \in Wide
      /\ SameGoal(m, n)
      /\ n.next = m.next /\ n.expected = m.expected
      /\ n.requests = m.requests /\ n.epoch = m.epoch
      /\ n.committed = m.ready.request
      /\ n.candidate = NoRequest /\ n.ready = NoRequest
      /\ n.command = [of |-> m.ready, gimbal |-> gimbal]
      /\ ~n.fail_stop /\ n.after = 0 /\ ~n.replacing
      /\ n.state = "TRACKING"
  BY <1>1, CommittedEffect
<1> HIDE DEF n
<1>3. /\ m.goal # 0 /\ m.ready.goal = m.goal /\ m.ready.epoch = m.epoch
      /\ m.ready.request = m.expected
  BY DEF Expected
<1>4. n.command.of = m.ready /\ n.command # NoCommand
  BY <1>2 DEF NoCommand
<1>5. Numbered(n)
  BY <1>1, <1>2, <1>3, WideFields DEF Sound, Numbered, SameGoal
<1>6. Commanded(n)
  BY <1>1, <1>2, <1>3, <1>4 DEF Commanded, SameGoal
<1>7. Backed(n) /\ Staged(n)
  BY <1>2, <1>3, <1>4 DEF Backed, Commanding, Staged, SameGoal
<1>8. Sound(n)
  BY <1>2, <1>5, <1>6, <1>7, Zenon DEF Sound
<1> QED BY <1>8 DEF n

LEMMA FailStopSound ==
    ASSUME NEW m, Sound(m)
    PROVE  LET n == [m EXCEPT !.fail_stop = TRUE]
           IN  Sound(n) /\ (Mute(m) => Mute(n)) /\ SameInputs(m, n)
<1> DEFINE n == [m EXCEPT !.fail_stop = TRUE]
<1>1. n \in Wide
  <2>1. m \in Wide
    BY DEF Sound
  <2> QED BY <2>1, Zenon DEF Wide
<1>2. /\ SameGoal(m, n) /\ SameRequests(m, n) /\ SameInputs(m, n)
      /\ n.epoch = m.epoch /\ n.state = m.state
      /\ n.fail_stop /\ n.command = m.command
      /\ n.candidate = m.candidate /\ n.ready = m.ready
      /\ n.replacing = m.replacing /\ n.after = m.after
      /\ n.sent = m.sent
  <2>1. m \in Wide
    BY DEF Sound
  <2> QED BY <2>1 DEF Wide, SameGoal, SameRequests, SameInputs
<1> HIDE DEF n
<1>3. Backed(n) /\ Commanded(n) /\ Staged(n)
  BY <1>2 DEF Sound, SameGoal, SameRequests, Backed, Commanded, Staged, Commanding
<1>4. Numbered(n)
  BY <1>2 DEF Sound, Numbered, SameGoal, SameRequests
<1>5. Sound(n)
  BY <1>1, <1>3, <1>4, Zenon DEF Sound
<1> QED BY <1>2, <1>5 DEF Mute, n

LEMMA DispatchedOrSuspendedSound ==
    ASSUME NEW m, Sound(m), NEW v \in Surroundings,
           NEW required \in 0..MaxPublications, NEW since \in Timers,
           m.goal # 0, m.next <= MaxRequests, Mute(m)
    PROVE  LET n == DispatchedOrSuspended(m, v, required, since)
           IN  Sound(n) /\ Mute(n)
<1>1. Sound(Dispatched(m, v, required)) /\ Mute(Dispatched(m, v, required))
  BY DispatchedSound
<1>2. Sound(Suspended(m, since, 0)) /\ Mute(Suspended(m, since, 0))
  BY SuspendedSound, Words
<1> QED BY <1>1, <1>2 DEF DispatchedOrSuspended

-----------------------------------------------------------------------------
(* tryCommitReference: what it commits is expected and in full health.     *)

LEMMA ReplannedSound ==
    ASSUME NEW m, Sound(m), Mute(m), NEW v \in Surroundings,
           m.goal # 0, m.next <= MaxRequests
    PROVE  Sound(Replanned(m, v)) /\ Mute(Replanned(m, v))
<1> DEFINE d == DropCandidate(m)
<1>1. Sound(d) /\ Mute(d) /\ d.goal # 0 /\ d.next <= MaxRequests
  BY DropSound, DropEffect DEF Sound, SameGoal, SameRequests
<1> HIDE DEF d
<1>2. /\ Sound(DispatchedOrSuspended(d, v, 0, "NONE"))
      /\ Mute(DispatchedOrSuspended(d, v, 0, "NONE"))
  BY <1>1, DispatchedOrSuspendedSound, Words
<1>3. Sound(Suspended(m, "NONE", 0)) /\ Mute(Suspended(m, "NONE", 0))
  BY SuspendedSound, Words
<1> QED BY <1>2, <1>3 DEF Replanned, d

(* A commit is sent in full health if it is made in full health.           *)
LEMMA CommittedVouched ==
    ASSUME NEW m, Sound(m), NEW gimbal \in Nat, m.ready # NoRequest,
           Expected(m, m.ready), ~m.cancel, MapReady(m), LocalizationHealthy(m),
           GimbalSatisfies(m, m.ready.yaw, gimbal)
    PROVE  Sound(Committed(m, gimbal)) /\ Vouched(Committed(m, gimbal))
<1> DEFINE n == Committed(m, gimbal)
<1>1. /\ SameInputs(m, n) /\ SameGoal(m, n) /\ n.epoch = m.epoch
      /\ n.command = [of |-> m.ready, gimbal |-> gimbal]
      /\ ~n.estop /\ n.yaw_request = NoYawRequest
      /\ n.sent = Execute(n.command)
  BY CommittedEffect DEF Sound
<1> HIDE DEF n
<1>2. n.sent.of = m.ready /\ n.sent.gimbal = gimbal
  BY <1>1 DEF Execute
<1>3. MapReady(n) /\ LocalizationHealthy(n)
  BY <1>1 DEF SameInputs, MapReady, EpochAgrees, LocalizationHealthy
<1>4. GimbalSatisfies(n, m.ready.yaw, gimbal)
  BY <1>1 DEF SameInputs, GimbalSatisfies
<1>5. Vouched(n)
  BY <1>1, <1>2, <1>3, <1>4 DEF Vouched, SameGoal, Expected
<1> QED BY <1>5, CommittedSound DEF n

LEMMA CommitReplacementSound ==
    ASSUME NEW m, Sound(m), Mute(m), NEW v, Committable(m, v), Replacing(m)
    PROVE  Sound(CommitReplacement(m)) /\ Vouched(CommitReplacement(m))
<1>1. m.command.gimbal \in Nat
  BY DEF Sound, Wide, CommandRecord
<1>2. CASE GimbalSatisfies(m, m.ready.yaw, m.command.gimbal)
  BY <1>1, <1>2, CommittedVouched DEF CommitReplacement, Committable
<1>3. CASE ~GimbalSatisfies(m, m.ready.yaw, m.command.gimbal)
  BY <1>3, FailStopSound DEF CommitReplacement, Mute, Vouched
<1> QED BY <1>2, <1>3

LEMMA CommitNewSound ==
    ASSUME NEW m, Sound(m), Mute(m), m.ready # NoRequest, Expected(m, m.ready),
           ~m.cancel, MapReady(m), LocalizationHealthy(m),
           RequireGimbal => m.yaw_request # NoYawRequest
    PROVE  Sound(CommitNew(m)) /\ Vouched(CommitNew(m))
<1> DEFINE sequence == m.yaw_request.sequence
<1>1. sequence \in Nat
  BY DEF Sound, Wide, YawRecord
<1>2. CASE RequireGimbal /\ ~GimbalSatisfies(m, m.ready.yaw, 0)
  BY <1>2, FailStopSound DEF CommitNew, Mute, Vouched
<1>3. CASE ~(RequireGimbal /\ ~GimbalSatisfies(m, m.ready.yaw, 0))
  <2>1. GimbalSatisfies(m, m.ready.yaw, sequence)
    BY <1>3 DEF GimbalSatisfies
  <2>2. Sound(Committed(m, sequence)) /\ Vouched(Committed(m, sequence))
    BY <1>1, <2>1, CommittedVouched
  <2>3. CommitNew(m) = IF m.state = "PLANNING" THEN Committed(m, sequence) ELSE m
    BY <1>3 DEF CommitNew
  <2> QED BY <2>2, <2>3 DEF Mute, Vouched
<1> QED BY <1>2, <1>3

LEMMA TryCommitSound ==
    ASSUME NEW m, Sound(m), Mute(m), NEW v \in Surroundings, m.next <= MaxRequests
    PROVE  Sound(TryCommit(m, v)) /\ Vouched(TryCommit(m, v))
<1>1. CASE StaleCandidate(m, v)
  <2>1. m.goal # 0
    BY <1>1 DEF StaleCandidate, Expected
  <2> QED BY <1>1, <2>1, ReplannedSound DEF TryCommit, Mute, Vouched
<1>2. CASE ~StaleCandidate(m, v) /\ ~Committable(m, v)
  BY <1>2 DEF TryCommit, Mute, Vouched
<1>3. CASE ~StaleCandidate(m, v) /\ Committable(m, v) /\ Replacing(m)
  BY <1>3, CommitReplacementSound DEF TryCommit
<1>4. CASE ~StaleCandidate(m, v) /\ Committable(m, v) /\ ~Replacing(m)
  <2> DEFINE y == YawRequested(m)
  <2>1. m.ready \in Requests
    BY <1>4, WideFields DEF Sound, Staged, Committable
  <2>2. /\ y \in Wide /\ SameInputs(m, y) /\ Aside(m, y)
        /\ RequireGimbal => y.yaw_request # NoYawRequest
    BY <2>1, YawRequestedEffect DEF Sound
  <2> HIDE DEF y
  <2>3. Sound(y) /\ Mute(y)
    BY <2>2, AsideSound
  <2>4. /\ y.ready # NoRequest /\ Expected(y, y.ready) /\ ~y.cancel
    BY <1>4, <2>2 DEF Committable, Expected, Aside, SameGoal, SameRequests
  <2>5. MapReady(y) /\ LocalizationHealthy(y)
    BY <1>4, <2>2
       DEF Committable, SameInputs, MapReady, EpochAgrees, LocalizationHealthy
  <2>6. TryCommit(m, v) = CommitNew(y)
    BY <1>4 DEF TryCommit, y
  <2> QED BY <2>2, <2>3, <2>4, <2>5, <2>6, CommitNewSound
<1> QED BY <1>1, <1>2, <1>3, <1>4

-----------------------------------------------------------------------------
(* The callbacks of the action server and of MINCO's status.               *)

(* A step that revokes everything and changes only the goal's stage.       *)
Restaged(m, n) ==
    /\ SameGoal(m, n) /\ SameRequests(m, n) /\ Bare(n)
    /\ n.state \in {"WAITING", "PLANNING"}
    /\ n.sent = m.sent \/ n.sent = Stop

LEMMA RestagedSound ==
    ASSUME NEW m, Sound(m), NEW n \in Wide, Restaged(m, n), m.goal # 0
    PROVE  Sound(n) /\ (Mute(m) => Mute(n))
<1>1. Backed(n) /\ Commanded(n) /\ Staged(n)
  BY DEF Restaged, Bare, SameGoal, Backed, Commanded, Staged, Commanding
<1>2. Numbered(n)
  BY DEF Sound, Numbered, Restaged, SameGoal, SameRequests
<1>3. Sound(n)
  BY <1>1, <1>2, Zenon DEF Sound
<1> QED BY <1>3, Words DEF Restaged, Mute

(* A goal that was just accepted, before anything is asked for it.         *)
Healthy(m) == MapReady(m) /\ LocalizationHealthy(m)

Accepted(m) ==
    [Finished(m) EXCEPT
        !.goal = m.next_goal + 1, !.next_goal = m.next_goal + 1,
        !.epoch = IF m.loc.epoch # 0 THEN m.loc.epoch ELSE m.map.epoch,
        !.wait = IF Healthy(m) THEN "NONE" ELSE "RUNNING",
        !.deadline = "RUNNING",
        !.state = IF Healthy(m) THEN "PLANNING" ELSE "WAITING"]

LEMMA StartedIs ==
    ASSUME NEW m, NEW v
    PROVE  Started(m, v) =
             IF Healthy(m) THEN DispatchedOrSuspended(Accepted(m), v, 0, "NONE")
             ELSE Accepted(m)
BY DEF Started, Accepted, Healthy

LEMMA AcceptedSound ==
    ASSUME NEW m, Sound(m), m.next_goal < MaxGoals
    PROVE  LET n == Accepted(m)
           IN  /\ Sound(n) /\ Mute(n) /\ SameInputs(m, n)
               /\ n.goal = m.next_goal + 1 /\ n.next_goal = n.goal /\ n.goal # 0
               /\ n.next = 0 /\ n.expected = 0 /\ n.committed = 0 /\ n.after = 0
               /\ n.state = IF Healthy(m) THEN "PLANNING" ELSE "WAITING"
               /\ Bare(n)
<1> DEFINE f == Finished(m)
           number == m.next_goal + 1
           epoch == IF m.loc.epoch # 0 THEN m.loc.epoch ELSE m.map.epoch
           wait == IF Healthy(m) THEN "NONE" ELSE "RUNNING"
           state == IF Healthy(m) THEN "PLANNING" ELSE "WAITING"
           n == [f EXCEPT !.goal = number, !.next_goal = number, !.epoch = epoch,
                          !.wait = wait, !.deadline = "RUNNING", !.state = state]
<1>1. m \in Wide /\ f \in Wide /\ Sound(f) /\ Mute(f)
  BY FinishedType, FinishedSound DEF Sound
<1>2. /\ f.requests = m.requests /\ f.next_goal = m.next_goal
      /\ f.next = 0 /\ f.expected = 0 /\ f.committed = 0 /\ f.after = 0
      /\ Bare(f) /\ f.sent = Stop /\ SameInputs(m, f)
  BY <1>1, FinishedEffect
<1>3. /\ number \in 0..MaxGoals /\ number # 0 /\ epoch \in 0..MaxEpochs
      /\ wait \in Timers /\ state \in States /\ state \in {"WAITING", "PLANNING"}
      /\ number \in Nat
  BY <1>1, WideFields, ConfigAssumption, Words
<1>4. Accepted(m) = n
  BY DEF Accepted
<1>5. number = m.next_goal + 1
  OBVIOUS
<1>6. state = IF Healthy(m) THEN "PLANNING" ELSE "WAITING"
  OBVIOUS
<1> HIDE DEF f, number, epoch, wait, state
<1>7. n \in Wide
  BY <1>1, <1>3, Words, Zenon DEF Wide
<1>8. /\ n.goal = number /\ n.next_goal = number /\ n.state = state
      /\ n.requests = f.requests
      /\ n.next = f.next /\ n.expected = f.expected /\ n.committed = f.committed
      /\ n.after = f.after /\ n.fail_stop = f.fail_stop
      /\ n.command = f.command /\ n.candidate = f.candidate /\ n.ready = f.ready
      /\ n.sent = f.sent /\ SameInputs(f, n)
  BY <1>1 DEF Wide, SameInputs
<1> HIDE DEF n
<1>9. Backed(n) /\ Commanded(n) /\ Staged(n)
  BY <1>2, <1>3, <1>8 DEF Bare, Backed, Commanded, Staged, Commanding
<1>10. Numbered(n)
  <2>1. \A r \in m.requests : r.goal \in Nat /\ r.goal <= m.next_goal
    BY <1>1, WideFields, RequestFields DEF Sound, Numbered
  <2>2. \A r, q \in m.requests : r.goal = q.goal /\ r.request = q.request => r = q
    BY DEF Sound, Numbered
  <2>3. \A r \in n.requests : r.goal <= n.next_goal /\ r.goal # n.goal
    BY <1>1, <1>2, <1>5, <1>8, <2>1, WideFields
  <2> QED BY <1>2, <1>3, <1>8, <2>2, <2>3 DEF Numbered
<1>11. Sound(n)
  BY <1>7, <1>9, <1>10, Zenon DEF Sound
<1>12. SameInputs(m, n) /\ Bare(n) /\ Mute(n)
  BY <1>2, <1>8, Words DEF SameInputs, Bare, Mute
<1> QED BY <1>2, <1>3, <1>4, <1>5, <1>6, <1>8, <1>11, <1>12

LEMMA StartedSound ==
    ASSUME NEW m, Sound(m), NEW v \in Surroundings, m.next_goal < MaxGoals
    PROVE  Sound(Started(m, v)) /\ Mute(Started(m, v))
<1> DEFINE n == Accepted(m)
<1>1. Sound(n) /\ Mute(n) /\ n.goal # 0 /\ n.next = 0
  BY AcceptedSound
<1> HIDE DEF n
<1>2. n.next <= MaxRequests
  BY <1>1, ConfigAssumption
<1>3. Started(m, v) = IF Healthy(m) THEN DispatchedOrSuspended(n, v, 0, "NONE") ELSE n
  BY StartedIs DEF n
<1> QED BY <1>1, <1>2, <1>3, DispatchedOrSuspendedSound, Words

LEMMA CancelledSound ==
    ASSUME NEW m, Sound(m), Mute(m), m.goal # 0
    PROVE  Sound(Cancelled(m)) /\ Mute(Cancelled(m))
<1> DEFINE n == Cancelled(m)
<1>1. m \in Wide
  BY DEF Sound
<1>2. n \in Wide
  BY <1>1, Zenon DEF Wide, Cancelled
<1>3. /\ n.goal = m.goal /\ n.next_goal = m.next_goal /\ SameRequests(m, n)
      /\ n.epoch = m.epoch /\ n.state = m.state
      /\ n.fail_stop /\ n.command = m.command
      /\ n.candidate = m.candidate /\ n.ready = m.ready
      /\ n.replacing = m.replacing /\ n.after = m.after
      /\ n.sent = m.sent
  BY <1>1 DEF Wide, Cancelled, SameRequests
<1> HIDE DEF n
<1>4. Backed(n) /\ Commanded(n) /\ Staged(n)
  BY <1>3 DEF Sound, SameRequests, Backed, Commanded, Staged, Commanding
<1>5. Numbered(n)
  BY <1>3 DEF Sound, Numbered, SameRequests
<1>6. Sound(n)
  BY <1>2, <1>4, <1>5, Zenon DEF Sound
<1> QED BY <1>3, <1>6 DEF Mute, n

LEMMA AsideRefl ==
    ASSUME NEW m \in Wide PROVE Aside(m, m)
BY WideFields DEF Aside, SameGoal, SameRequests

LEMMA PlanFailedSound ==
    ASSUME NEW m, Sound(m), Mute(m), NEW r \in m.requests, NEW reason \in Reasons
    PROVE  /\ Sound(PlanFailed(m, r, reason)) /\ Mute(PlanFailed(m, r, reason))
           /\ PlanFailed(m, r, reason).next \in {0, m.next}
<1> DEFINE keep == reason = "SNAPSHOT_CHANGED" /\ NewerMapArrived(m, r)
           word == m.map.ready /\ keep
           map == [m.map EXCEPT !.ready = word]
           n == [m EXCEPT !.map = map]
           after == IF reason = "TRANSIENT" THEN 0 ELSE r.pub
<1>1. m \in Wide /\ r \in Requests
  BY WideFields DEF Sound
<1>2. word \in BOOLEAN
  OBVIOUS
<1>3. /\ PlanFailed(m, r, reason) = m
      \/ PlanFailed(m, r, reason) = Finished(m)
      \/ /\ ConcernsActive(m, r)
         /\ PlanFailed(m, r, reason) = Suspended(n, "NONE", after)
  <2>1. [m EXCEPT !.map.ready = @ /\ keep] = n
    BY <1>1 DEF Wide
  <2> QED BY <2>1 DEF PlanFailed
<1> HIDE DEF word
<1>4. map \in MapRecord
  BY <1>1, <1>2, WideFields, Zenon DEF MapRecord
<1> HIDE DEF map
<1>5. n \in Wide
  BY <1>1, <1>4, Zenon DEF Wide
<1>6. Aside(m, n)
  BY <1>1 DEF Wide, Aside, SameGoal, SameRequests
<1> HIDE DEF n
<1>7. Sound(n) /\ Mute(n)
  BY <1>5, <1>6, AsideSound
<1>8. after \in 0..MaxPublications
  BY <1>1, Words, RequestFields
<1>9. n.next = m.next /\ (ConcernsActive(m, r) => n.goal # 0)
  BY <1>6 DEF ConcernsActive, Aside, SameGoal, SameRequests
<1> HIDE DEF after
<1> QED
  BY <1>3, <1>7, <1>8, <1>9, Words, FinishedSound, SuspendedSound

LEMMA ModeSwitchedSound ==
    ASSUME NEW m, Sound(m), m.goal # 0
    PROVE  LET n == ModeSwitched(m)
           IN  /\ Sound(n) /\ Mute(n)
               /\ SameGoal(m, n) /\ SameRequests(m, n) /\ n.epoch = m.epoch
<1> DEFINE d == [m EXCEPT !.command = NoCommand, !.yaw_request = NoYawRequest,
                          !.fail_stop = TRUE, !.state = "PLANNING"]
           n == Stopped(d)
<1>1. m \in Wide
  BY DEF Sound
<1>2. n \in Wide
  <2>1. d \in Wide
    BY <1>1, Words, Zenon DEF Wide
  <2> HIDE DEF d
  <2> QED BY <2>1, StoppedType
<1>3. /\ SameGoal(m, n) /\ SameRequests(m, n)
      /\ n.epoch = m.epoch /\ n.state = "PLANNING"
      /\ n.fail_stop /\ n.command = NoCommand
      /\ n.candidate = m.candidate /\ n.ready = m.ready
      /\ n.replacing = m.replacing /\ n.after = m.after
      /\ n.sent = Stop
  BY <1>1 DEF Wide, Stopped, SameGoal, SameRequests
<1>4. ModeSwitched(m) = n
  BY DEF ModeSwitched
<1> HIDE DEF n
<1>5. Backed(n) /\ Commanded(n) /\ Staged(n)
  BY <1>3 DEF Sound, SameGoal, SameRequests, Backed, Commanded, Staged, Commanding
<1>6. Numbered(n)
  BY <1>3 DEF Sound, Numbered, SameGoal, SameRequests
<1>7. Sound(n)
  BY <1>2, <1>5, <1>6, Zenon DEF Sound
<1> QED BY <1>3, <1>4, <1>7, Words DEF Mute

(* An answer of MINCO is kept as the ready status or as the candidate.     *)
LEMMA AnswerSound ==
    ASSUME NEW m, Sound(m), NEW r \in m.requests
    PROVE  /\ LET n == [m EXCEPT !.ready = r]
              IN  Sound(n) /\ (Mute(m) => Mute(n)) /\ n.next = m.next
           /\ LET n == [m EXCEPT !.candidate = r]
              IN  Sound(n) /\ (Mute(m) => Mute(n)) /\ n.next = m.next
<1> DEFINE n == [m EXCEPT !.ready = r]
           k == [m EXCEPT !.candidate = r]
<1>1. m \in Wide /\ r \in MaybeRequest
  BY WideFields, RequestFields DEF Sound
<1>2. n \in Wide /\ k \in Wide
  BY <1>1, Zenon DEF Wide
<1>3. /\ SameGoal(m, n) /\ SameRequests(m, n)
      /\ n.epoch = m.epoch /\ n.state = m.state
      /\ n.fail_stop = m.fail_stop /\ n.command = m.command
      /\ n.candidate = m.candidate /\ n.ready = r
      /\ n.replacing = m.replacing /\ n.after = m.after
      /\ n.sent = m.sent
  BY <1>1 DEF Wide, SameGoal, SameRequests
<1>4. /\ SameGoal(m, k) /\ SameRequests(m, k)
      /\ k.epoch = m.epoch /\ k.state = m.state
      /\ k.fail_stop = m.fail_stop /\ k.command = m.command
      /\ k.candidate = r /\ k.ready = m.ready
      /\ k.replacing = m.replacing /\ k.after = m.after
      /\ k.sent = m.sent
  BY <1>1 DEF Wide, SameGoal, SameRequests
<1> HIDE DEF n, k
<1>5. Backed(n) /\ Commanded(n) /\ Staged(n)
  BY <1>3 DEF Sound, SameGoal, SameRequests, Backed, Commanded, Staged, Commanding
<1>6. Backed(k) /\ Commanded(k) /\ Staged(k)
  BY <1>4 DEF Sound, SameGoal, SameRequests, Backed, Commanded, Staged, Commanding
<1>7. Numbered(n) /\ Numbered(k)
  BY <1>3, <1>4 DEF Sound, Numbered, SameGoal, SameRequests
<1>8. Sound(n) /\ Sound(k)
  BY <1>2, <1>5, <1>6, <1>7, Zenon DEF Sound
<1> QED BY <1>3, <1>4, <1>8 DEF Mute, SameRequests, n, k

LEMMA ReferenceReadySound ==
    ASSUME NEW m, Sound(m), Mute(m), NEW v \in Surroundings, NEW r \in m.requests,
           m.next <= MaxRequests
    PROVE  Sound(ReferenceReady(m, v, r)) /\ Vouched(ReferenceReady(m, v, r))
<1> DEFINE switches == Commanding(m) /\ m.command.of.yaw # r.yaw
           n == IF switches THEN ModeSwitched(m) ELSE m
           k == [n EXCEPT !.ready = r]
<1>1. Sound(n) /\ Mute(n) /\ n.requests = m.requests /\ n.next = m.next
  BY ModeSwitchedSound DEF Sound, Commanded, SameRequests
<1>2. ReferenceReady(m, v, r) = TryCommit(IF Expected(m, r) THEN k ELSE m, v)
  BY DEF ReferenceReady
<1> HIDE DEF n
<1>3. Sound(k) /\ Mute(k) /\ k.next = m.next
  BY <1>1, AnswerSound
<1> HIDE DEF k
<1> QED BY <1>2, <1>3, TryCommitSound

-----------------------------------------------------------------------------
(* The inputs, and what passes with time.                                  *)

(* A step that keeps the invariant and makes no request.                   *)
Follows(m, n) ==
    /\ Sound(n) /\ (Mute(m) => Mute(n)) /\ Aside(m, n)
    /\ n.goal = m.goal /\ n.next = m.next

LEMMA HeardSound ==
    ASSUME NEW m, Sound(m), NEW map \in MapRecord, NEW snapshot \in SnapshotRecord,
           NEW loc \in LocRecord, NEW gimbal \in GimbalRecord,
           NEW odom \in {"NONE", "LOST", "BLIND", "OK"}
    PROVE  /\ Follows(m, [m EXCEPT !.map = map])
           /\ Follows(m, [m EXCEPT !.snapshot = snapshot])
           /\ Follows(m, [m EXCEPT !.loc = loc])
           /\ Follows(m, [m EXCEPT !.gimbal = gimbal])
           /\ Follows(m, [m EXCEPT !.odom = odom])
<1> DEFINE a == [m EXCEPT !.map = map]
           b == [m EXCEPT !.snapshot = snapshot]
           c == [m EXCEPT !.loc = loc]
           d == [m EXCEPT !.gimbal = gimbal]
           e == [m EXCEPT !.odom = odom]
<1>1. m \in Wide
  BY DEF Sound
<1>2. a \in Wide /\ b \in Wide /\ c \in Wide /\ d \in Wide /\ e \in Wide
  BY <1>1, Zenon DEF Wide
<1>3. Aside(m, a) /\ Aside(m, b) /\ Aside(m, c) /\ Aside(m, d) /\ Aside(m, e)
  BY <1>1 DEF Wide, Aside, SameGoal, SameRequests
<1> HIDE DEF a, b, c, d, e
<1>4. \A n \in {a, b, c, d, e} : Follows(m, n)
  BY <1>2, <1>3, AsideSound DEF Follows, Aside, SameGoal, SameRequests
<1> QED BY <1>4 DEF a, b, c, d, e

LEMMA PassedSound ==
    ASSUME NEW m, Sound(m), NEW timer \in Timers, NEW known \in BOOLEAN
    PROVE  /\ Follows(m, [m EXCEPT !.wait = timer])
           /\ Follows(m, [m EXCEPT !.noplan = timer])
           /\ Follows(m, [m EXCEPT !.dwell = timer])
           /\ Follows(m, [m EXCEPT !.deadline = timer])
           /\ Follows(m, [m EXCEPT !.goal_tf = known])
<1> DEFINE a == [m EXCEPT !.wait = timer]
           b == [m EXCEPT !.noplan = timer]
           c == [m EXCEPT !.dwell = timer]
           d == [m EXCEPT !.deadline = timer]
           e == [m EXCEPT !.goal_tf = known]
<1>1. m \in Wide
  BY DEF Sound
<1>2. a \in Wide /\ b \in Wide /\ c \in Wide /\ d \in Wide /\ e \in Wide
  BY <1>1, Zenon DEF Wide
<1>3. Aside(m, a) /\ Aside(m, b) /\ Aside(m, c) /\ Aside(m, d) /\ Aside(m, e)
  BY <1>1 DEF Wide, Aside, SameGoal, SameRequests
<1> HIDE DEF a, b, c, d, e
<1>4. \A n \in {a, b, c, d, e} : Follows(m, n)
  BY <1>2, <1>3, AsideSound DEF Follows, Aside, SameGoal, SameRequests
<1> QED BY <1>4 DEF a, b, c, d, e

(* What is said changes nothing else.                                      *)
Said(m, stop, word) == [m EXCEPT !.estop = stop, !.sent = word]

Unmoved(m, n) ==
    /\ SameInputs(m, n) /\ SameGoal(m, n) /\ SameRequests(m, n)
    /\ n.epoch = m.epoch /\ n.state = m.state
    /\ n.fail_stop = m.fail_stop /\ n.command = m.command
    /\ n.candidate = m.candidate /\ n.ready = m.ready
    /\ n.replacing = m.replacing /\ n.after = m.after
    /\ n.yaw_request = m.yaw_request

LEMMA SaidSound ==
    ASSUME NEW m, Sound(m), NEW word \in SentRecord, NEW stop \in BOOLEAN
    PROVE  LET n == Said(m, stop, word)
           IN  Sound(n) /\ n.sent = word /\ n.estop = stop /\ Unmoved(m, n)
<1> DEFINE n == Said(m, stop, word)
<1>1. m \in Wide
  BY DEF Sound
<1>2. n \in Wide
  BY <1>1, Zenon DEF Wide, Said
<1>3. Unmoved(m, n) /\ n.sent = word /\ n.estop = stop
  BY <1>1 DEF Wide, Said, Unmoved, SameInputs, SameGoal, SameRequests
<1> HIDE DEF n
<1>4. Backed(n) /\ Commanded(n) /\ Staged(n)
  BY <1>3 DEF Unmoved, Sound, SameGoal, SameRequests, Backed, Commanded, Staged,
              Commanding
<1>5. Numbered(n)
  BY <1>3 DEF Unmoved, Sound, Numbered, SameGoal, SameRequests
<1>6. Sound(n)
  BY <1>2, <1>4, <1>5, Zenon DEF Sound
<1> QED BY <1>3, <1>6 DEF n

LEMMA MapStatusSound ==
    ASSUME NEW m, Sound(m), Mute(m), m.next <= MaxRequests, NEW v \in Surroundings,
           NEW ready \in BOOLEAN, NEW epoch \in 0..MaxEpochs,
           NEW pub \in 0..MaxPublications
    PROVE  LET n == MapStatusReceived(m, v, ready, epoch, pub)
           IN  Sound(n) /\ Vouched(n)
<1> DEFINE map == [ready |-> ready, alive |-> ready, fresh |-> TRUE,
                   epoch |-> epoch, pub |-> pub]
           n == [m EXCEPT !.map = map]
           current == m.loc.epoch = 0 \/ epoch = m.loc.epoch
<1>1. map \in MapRecord
  BY DEF MapRecord
<1>2. MapStatusReceived(m, v, ready, epoch, pub) =
        IF m.goal # 0 /\ current /\ ~ready THEN Suspended(n, "NONE", 0)
        ELSE TryCommit(n, v)
  BY DEF MapStatusReceived
<1> HIDE DEF map
<1>3. Follows(m, n)
  <2> PICK s \in SnapshotRecord, l \in LocRecord, g \in GimbalRecord :
        s = m.snapshot /\ l = m.loc /\ g = m.gimbal
    BY DEF Sound, Wide
  <2> QED BY <1>1, HeardSound
<1> HIDE DEF n, current
<1>4. Sound(TryCommit(n, v)) /\ Vouched(TryCommit(n, v))
  BY <1>3, TryCommitSound DEF Follows
<1>5. m.goal # 0 => Sound(Suspended(n, "NONE", 0)) /\ Vouched(Suspended(n, "NONE", 0))
  BY <1>3, SuspendedSound, Words DEF Follows, Mute, Vouched
<1> QED BY <1>2, <1>4, <1>5

LEMMA SnapshotSound ==
    ASSUME NEW m, Sound(m), Mute(m), m.next <= MaxRequests, NEW v \in Surroundings,
           NEW valid \in BOOLEAN, NEW epoch \in 0..MaxEpochs,
           NEW pub \in 0..MaxPublications
    PROVE  LET n == SnapshotReceived(m, v, valid, epoch, pub)
           IN  Sound(n) /\ Vouched(n)
<1> DEFINE snapshot == [valid |-> valid, fresh |-> TRUE, epoch |-> epoch,
                        pub |-> pub]
           n == [m EXCEPT !.snapshot = snapshot]
<1>1. snapshot \in SnapshotRecord
  BY DEF SnapshotRecord
<1>2. \/ SnapshotReceived(m, v, valid, epoch, pub) = m
      \/ /\ m.goal # 0
         /\ SnapshotReceived(m, v, valid, epoch, pub) = Suspended(n, "NONE", 0)
      \/ SnapshotReceived(m, v, valid, epoch, pub) = TryCommit(n, v)
  BY DEF SnapshotReceived
<1> HIDE DEF snapshot
<1>3. Follows(m, n)
  <2> PICK p \in MapRecord, l \in LocRecord, g \in GimbalRecord :
        p = m.map /\ l = m.loc /\ g = m.gimbal
    BY DEF Sound, Wide
  <2> QED BY <1>1, HeardSound
<1> HIDE DEF n
<1>4. Sound(TryCommit(n, v)) /\ Vouched(TryCommit(n, v))
  BY <1>3, TryCommitSound DEF Follows
<1>5. m.goal # 0 => Sound(Suspended(n, "NONE", 0)) /\ Vouched(Suspended(n, "NONE", 0))
  BY <1>3, SuspendedSound, Words DEF Follows, Mute, Vouched
<1>6. Vouched(m)
  BY DEF Vouched, Mute
<1> QED BY <1>2, <1>4, <1>5, <1>6

LEMMA LocalizationInterruptedSound ==
    ASSUME NEW m, Sound(m), m.goal # 0
    PROVE  Sound(LocalizationInterrupted(m)) /\ Mute(LocalizationInterrupted(m))
<1> DEFINE d == DropCandidate(m)
           wait == IF m.state = "WAITING" /\ d.wait # "NONE" THEN d.wait ELSE "RUNNING"
           map == [d.map EXCEPT !.ready = FALSE]
           epoch == m.loc.epoch
           k == [d EXCEPT !.command = NoCommand, !.fail_stop = TRUE,
                          !.epoch = epoch, !.state = "WAITING",
                          !.wait = wait, !.map = map]
           n == Stopped(k)
<1>1. m \in Wide /\ d \in Wide
  BY DropType DEF Sound
<1>2. /\ SameGoal(m, d) /\ SameRequests(m, d)
      /\ d.candidate = NoRequest /\ d.ready = NoRequest
  BY <1>1, DropEffect
<1>3. LocalizationInterrupted(m) = n
  <2>1. [d EXCEPT !.command = NoCommand, !.fail_stop = TRUE, !.epoch = m.loc.epoch,
                  !.state = "WAITING",
                  !.wait = IF m.state = "WAITING" /\ @ # "NONE" THEN @ ELSE "RUNNING",
                  !.map.ready = FALSE] = k
    <3> HIDE DEF d
    <3> QED BY <1>1 DEF Wide
  <2> QED BY <2>1 DEF LocalizationInterrupted
<1> HIDE DEF d
<1>4. wait \in Timers /\ epoch \in 0..MaxEpochs
  BY <1>1, WideFields, Words
<1>5. map \in MapRecord
  BY <1>1, WideFields, Zenon DEF MapRecord
<1> HIDE DEF wait, map, epoch
<1>6. k \in Wide
  BY <1>1, <1>4, <1>5, Words, Zenon DEF Wide
<1>7. /\ k.goal = d.goal /\ k.cancel = d.cancel /\ k.next_goal = d.next_goal
      /\ k.next_yaw = d.next_yaw
      /\ SameRequests(d, k) /\ k.fail_stop /\ k.command = NoCommand
      /\ k.candidate = d.candidate /\ k.ready = d.ready /\ k.state = "WAITING"
  BY <1>1 DEF Wide, SameRequests
<1> HIDE DEF k
<1>8. n \in Wide
  BY <1>6, StoppedType
<1>9. /\ n.goal = k.goal /\ n.cancel = k.cancel /\ n.next_goal = k.next_goal
      /\ n.next_yaw = k.next_yaw
      /\ SameRequests(k, n) /\ n.fail_stop = k.fail_stop /\ n.command = k.command
      /\ n.candidate = k.candidate /\ n.ready = k.ready /\ n.state = k.state
      /\ n.sent = Stop
  BY <1>6 DEF Wide, SameRequests, Stopped
<1> HIDE DEF n
<1>10. Restaged(m, n)
  BY <1>2, <1>7, <1>9 DEF Restaged, SameGoal, SameRequests, Bare
<1> QED BY <1>3, <1>8, <1>9, <1>10, RestagedSound, Words DEF Mute

LEMMA LocalizationSound ==
    ASSUME NEW m, Sound(m), Mute(m), NEW healthy \in BOOLEAN,
           NEW epoch \in 0..MaxEpochs
    PROVE  LET n == LocalizationReceived(m, healthy, epoch)
           IN  Sound(n) /\ Mute(n)
<1> DEFINE loc == [healthy |-> healthy, fresh |-> TRUE, epoch |-> epoch]
           n == [m EXCEPT !.loc = loc]
<1>1. loc \in LocRecord
  BY DEF LocRecord
<1>2. \/ /\ m.goal # 0
         /\ LocalizationReceived(m, healthy, epoch) = LocalizationInterrupted(n)
      \/ LocalizationReceived(m, healthy, epoch) = n
  BY DEF LocalizationReceived
<1> HIDE DEF loc
<1>3. Follows(m, n)
  <2> PICK p \in MapRecord, s \in SnapshotRecord, g \in GimbalRecord :
        p = m.map /\ s = m.snapshot /\ g = m.gimbal
    BY DEF Sound, Wide
  <2> QED BY <1>1, HeardSound
<1> HIDE DEF n
<1> QED BY <1>2, <1>3, LocalizationInterruptedSound DEF Follows

LEMMA GimbalSound ==
    ASSUME NEW m, Sound(m), Mute(m), m.next <= MaxRequests, NEW v \in Surroundings,
           NEW mode \in YawAuthorities, NEW sound \in BOOLEAN, NEW request \in Nat
    PROVE  LET n == GimbalReceived(m, v, mode, sound, request)
           IN  Sound(n) /\ Vouched(n)
<1> DEFINE gimbal == [mode |-> mode, sound |-> sound, fresh |-> TRUE,
                      request |-> request]
           n == [m EXCEPT !.gimbal = gimbal]
<1>1. gimbal \in GimbalRecord
  BY DEF GimbalRecord
<1>2. GimbalReceived(m, v, mode, sound, request) =
        TryCommit(IF GimbalHolds(n) THEN n ELSE Suspended(n, "NONE", 0), v)
  BY DEF GimbalReceived
<1> HIDE DEF gimbal
<1>3. Follows(m, n)
  <2> PICK p \in MapRecord, s \in SnapshotRecord, l \in LocRecord :
        p = m.map /\ s = m.snapshot /\ l = m.loc
    BY DEF Sound, Wide
  <2> QED BY <1>1, HeardSound
<1> HIDE DEF n
<1>4. CASE GimbalHolds(n)
  BY <1>2, <1>3, <1>4, TryCommitSound DEF Follows
<1>5. CASE ~GimbalHolds(n)
  <2>1. n.goal # 0
    BY <1>3, <1>5 DEF Follows, GimbalHolds, Sound, Commanded
  <2>2. /\ Sound(Suspended(n, "NONE", 0)) /\ Mute(Suspended(n, "NONE", 0))
        /\ Suspended(n, "NONE", 0).next <= MaxRequests
    BY <1>3, <2>1, SuspendedSound, Words DEF Follows
  <2> QED BY <1>2, <1>5, <2>2, TryCommitSound
<1> QED BY <1>4, <1>5

LEMMA OdometrySound ==
    ASSUME NEW m, Sound(m), Mute(m), NEW quality \in {"LOST", "BLIND", "OK"}
    PROVE  LET n == OdometryReceived(m, quality) IN Sound(n) /\ Mute(n)
<1> DEFINE n == [m EXCEPT !.odom = quality]
<1>1. Follows(m, n)
  <2> PICK p \in MapRecord, s \in SnapshotRecord, l \in LocRecord, g \in GimbalRecord :
        p = m.map /\ s = m.snapshot /\ l = m.loc /\ g = m.gimbal
    BY DEF Sound, Wide
  <2> QED BY HeardSound
<1>2. OdometryReceived(m, quality) =
        IF quality = "LOST" /\ m.goal # 0 THEN Suspended(n, "NONE", 0) ELSE n
  BY DEF OdometryReceived
<1> HIDE DEF n
<1> QED BY <1>1, <1>2, SuspendedSound, Words DEF Follows

-----------------------------------------------------------------------------
(* The timer.                                                              *)

(* The checks that open the tick may break off, and never request.         *)
LEMMA GimbalCheckedSound ==
    ASSUME NEW m, Sound(m), Mute(m)
    PROVE  LET n == GimbalChecked(m)
           IN  Sound(n) /\ Mute(n) /\ n.goal = m.goal /\ n.next = m.next
<1>1. CASE GimbalHolds(m)
  BY <1>1 DEF GimbalChecked
<1>2. CASE ~GimbalHolds(m)
  <2> DEFINE d == DropCandidate(m)
             n == [d EXCEPT !.command = NoCommand, !.fail_stop = TRUE]
  <2>1. d \in Wide /\ Sound(d) /\ Mute(d) /\ SameGoal(m, d) /\ SameRequests(m, d)
    BY DropSound, DropEffect DEF Sound
  <2>2. GimbalChecked(m) = n
    BY <1>2 DEF GimbalChecked
  <2> HIDE DEF d
  <2>3. n \in Wide
    BY <2>1, Words, Zenon DEF Wide
  <2>4. /\ SameGoal(d, n) /\ SameRequests(d, n)
        /\ n.state = d.state /\ n.fail_stop /\ n.command = NoCommand
        /\ n.candidate = d.candidate /\ n.ready = d.ready
        /\ n.after = d.after /\ n.sent = d.sent
    BY <2>1 DEF Wide, SameGoal, SameRequests
  <2> HIDE DEF n
  <2>5. Backed(n) /\ Commanded(n) /\ Staged(n)
    BY <2>1, <2>4
       DEF Sound, SameGoal, SameRequests, Backed, Commanded, Staged, Commanding
  <2>6. Numbered(n)
    BY <2>1, <2>4 DEF Sound, Numbered, SameGoal, SameRequests
  <2>7. Sound(n)
    BY <2>3, <2>5, <2>6, Zenon DEF Sound
  <2> QED BY <2>1, <2>2, <2>4, <2>7 DEF Mute, SameGoal, SameRequests
<1> QED BY <1>1, <1>2

LEMMA LocalizationCheckedSound ==
    ASSUME NEW m, Sound(m), Mute(m), m.goal # 0
    PROVE  LET n == LocalizationChecked(m)
           IN  /\ Sound(n) /\ Mute(n) /\ n.goal = m.goal /\ n.next = m.next
               /\ n.state # "WAITING" => n = m /\ LocalizationHealthy(m)
<1>1. CASE LocalizationHealthy(m) \/ m.state = "WAITING"
  BY <1>1 DEF LocalizationChecked
<1>2. CASE ~(LocalizationHealthy(m) \/ m.state = "WAITING")
  <2> DEFINE d == DropCandidate(m)
             map == [d.map EXCEPT !.ready = FALSE]
             n == [d EXCEPT !.fail_stop = TRUE, !.estop = TRUE,
                            !.state = "WAITING", !.wait = "RUNNING", !.map = map]
  <2>1. /\ d \in Wide /\ Sound(d) /\ Mute(d) /\ SameGoal(m, d)
        /\ SameRequests(m, d)
    BY DropSound, DropEffect DEF Sound
  <2>2. LocalizationChecked(m) = n
    <3>1. [d EXCEPT !.fail_stop = TRUE, !.estop = TRUE, !.state = "WAITING",
                    !.wait = "RUNNING", !.map.ready = FALSE] = n
      <4> HIDE DEF d
      <4> QED BY <2>1 DEF Wide
    <3> QED BY <1>2, <3>1 DEF LocalizationChecked
  <2> HIDE DEF d
  <2>3. map \in MapRecord
    BY <2>1, WideFields, Zenon DEF MapRecord
  <2> HIDE DEF map
  <2>4. n \in Wide
    BY <2>1, <2>3, Words, Zenon DEF Wide
  <2>5. /\ SameGoal(d, n) /\ SameRequests(d, n) /\ n.epoch = d.epoch
        /\ n.state = "WAITING" /\ n.fail_stop /\ n.command = d.command
        /\ n.candidate = d.candidate /\ n.ready = d.ready
        /\ n.replacing = d.replacing /\ n.after = d.after /\ n.sent = d.sent
    BY <2>1 DEF Wide, SameGoal, SameRequests
  <2> HIDE DEF n
  <2>6. d.goal # 0
    BY <2>1 DEF SameGoal
  <2>7. Backed(n) /\ Commanded(n) /\ Staged(n)
    BY <2>1, <2>5, <2>6
       DEF Sound, SameGoal, SameRequests, Backed, Commanded, Staged, Commanding
  <2>8. Numbered(n)
    BY <2>1, <2>5 DEF Sound, Numbered, SameGoal, SameRequests
  <2>9. Sound(n)
    BY <2>4, <2>7, <2>8, Zenon DEF Sound
  <2> QED BY <2>1, <2>2, <2>5, <2>9 DEF Mute, SameGoal, SameRequests
<1> QED BY <1>1, <1>2

(* What an EXECUTE of the heartbeat rests on, untouched.                   *)
Driven(m, n) ==
    /\ SameInputs(m, n) /\ n.goal = m.goal /\ n.epoch = m.epoch
    /\ n.cancel = m.cancel /\ n.command = m.command
    /\ n.yaw_request = m.yaw_request

LEMMA SuspensionChargedSound ==
    ASSUME NEW m, Sound(m)
    PROVE  LET n == SuspensionCharged(m) IN Follows(m, n) /\ n.state = m.state
<1> DEFINE timer == IF MapSourceAlive(m) /\ LocalizationHealthy(m)
                    THEN Charged(m.noplan) ELSE "NONE"
           n == [m EXCEPT !.noplan = timer]
<1>1. m \in Wide
  BY DEF Sound
<1>2. timer \in Timers
  BY <1>1, WideFields, Words DEF Charged
<1>3. SuspensionCharged(m) = m \/ SuspensionCharged(m) = n
  BY DEF SuspensionCharged
<1> HIDE DEF timer
<1>4. Follows(m, n)
  BY <1>2, PassedSound
<1>5. n.state = m.state
  BY <1>1 DEF Wide
<1> HIDE DEF n
<1> QED BY <1>1, <1>3, <1>4, <1>5, AsideRefl DEF Follows

LEMMA TrackedSound ==
    ASSUME NEW m, Sound(m), NEW s \in Sightings
    PROVE  LET n == Tracked(m, s)
           IN  /\ Follows(m, n) /\ Driven(m, n) /\ Aside(m, n)
<1> DEFINE noplan == IF ~ProgressGateHealthy(m) \/ s.footing = "OUTSIDE"
                     THEN "NONE"
                     ELSE IF s.footing = "BLOCKED" THEN m.noplan
                     ELSE IF Executable(m) THEN "NONE" ELSE Charged(m.noplan)
           replans == IF Decision(m, s) = "REPLAN" THEN m.replans + 1 ELSE m.replans
           k == [m EXCEPT !.noplan = noplan, !.replans = replans]
           p == ProgressCharged(m, s)
           dwell == IF Settling(m, s) THEN Charged(p.dwell) ELSE "NONE"
           n == [p EXCEPT !.dwell = dwell]
<1>1. m \in Wide
  BY DEF Sound
<1>2. noplan \in Timers
  BY <1>1, WideFields, Words DEF Charged
<1>3. replans \in 0..MaxReplans
  <2>1. m.replans \in 0..MaxReplans
    BY <1>1 DEF Wide
  <2>2. Decision(m, s) = "REPLAN" => m.replans < MaxReplans
    BY DEF Decision
  <2> QED BY <2>1, <2>2, ConfigAssumption
<1>4. p = m \/ p = k
  BY DEF ProgressCharged
<1> HIDE DEF noplan, replans
<1>5. k \in Wide
  BY <1>1, <1>2, <1>3, Zenon DEF Wide
<1>6. Driven(m, k) /\ Aside(m, k)
  BY <1>1 DEF Wide, Driven, SameInputs, Aside, SameGoal, SameRequests
<1>7. Driven(m, m) /\ Aside(m, m)
  BY <1>1, AsideRefl DEF Driven, SameInputs
<1>8. Tracked(m, s) = n
  BY DEF Tracked
<1> HIDE DEF k, p
<1>9. p \in Wide /\ Driven(m, p) /\ Aside(m, p)
  BY <1>1, <1>4, <1>5, <1>6, <1>7
<1>10. dwell \in Timers
  BY <1>9, WideFields, Words DEF Charged
<1> HIDE DEF dwell
<1>11. n \in Wide
  BY <1>9, <1>10, Zenon DEF Wide
<1>12. Driven(p, n) /\ Aside(p, n)
  BY <1>9 DEF Wide, Driven, SameInputs, Aside, SameGoal, SameRequests
<1> HIDE DEF n
<1>13. Driven(m, n) /\ Aside(m, n)
  BY <1>1, <1>9, <1>11, <1>12, WideFields
     DEF Driven, SameInputs, Aside, SameGoal, SameRequests
<1>14. Follows(m, n)
  BY <1>11, <1>13, AsideSound DEF Follows, Aside, SameGoal, SameRequests
<1> QED BY <1>8, <1>13, <1>14

LEMMA DispatchedStage ==
    ASSUME NEW m, Sound(m), NEW v \in Surroundings,
           NEW required \in 0..MaxPublications, NEW since \in Timers,
           m.goal # 0, m.next <= MaxRequests
    PROVE  DispatchedOrSuspended(m, v, required, since).state \in {m.state, "WAITING"}
<1>1. Dispatched(m, v, required).state = m.state
  BY DispatchedEffect DEF Sound
<1>2. Suspended(m, since, 0).state = "WAITING"
  BY SuspendedEffect DEF Sound
<1> QED BY <1>1, <1>2 DEF DispatchedOrSuspended

LEMMA ProgressReplannedSound ==
    ASSUME NEW m, Sound(m), Mute(m), NEW v \in Surroundings,
           m.goal # 0, m.next <= MaxRequests
    PROVE  LET n == ProgressReplanned(m, v)
           IN  Sound(n) /\ Mute(n) /\ n.state \in {"PLANNING", "WAITING"}
<1> DEFINE r == Revoked(m)
           k == [r EXCEPT !.state = "PLANNING", !.wait = "NONE"]
           n == Stopped(k)
           pub == m.snapshot.pub
<1>1. m \in Wide /\ r \in Wide /\ pub \in 0..MaxPublications
  BY RevokedType, WideFields DEF Sound
<1>2. SameGoal(m, r) /\ SameRequests(m, r) /\ Bare(r)
  BY <1>1 DEF Wide, Revoked, DropCandidate, SameGoal, SameRequests, Bare
<1>3. ProgressReplanned(m, v) = DispatchedOrSuspended(n, v, pub, "NONE")
  BY DEF ProgressReplanned
<1> HIDE DEF r, pub
<1>4. k \in Wide
  BY <1>1, Words, Zenon DEF Wide
<1>5. SameGoal(r, k) /\ SameRequests(r, k) /\ Bare(k) /\ k.state = "PLANNING"
  BY <1>1, <1>2 DEF Wide, SameGoal, SameRequests, Bare
<1> HIDE DEF k
<1>6. n \in Wide
  BY <1>4, StoppedType
<1>7. /\ SameGoal(k, n) /\ SameRequests(k, n) /\ Bare(n) /\ n.state = "PLANNING"
      /\ n.sent = Stop
  BY <1>4, <1>5 DEF Wide, SameGoal, SameRequests, Bare, Stopped
<1> HIDE DEF n
<1>8. Restaged(m, n) /\ n.goal = m.goal /\ n.next = m.next
  BY <1>1, <1>2, <1>4, <1>5, <1>6, <1>7, WideFields
     DEF Restaged, SameGoal, SameRequests
<1>9. Sound(n) /\ Mute(n)
  BY <1>6, <1>8, RestagedSound
<1>10. /\ Sound(DispatchedOrSuspended(n, v, pub, "NONE"))
       /\ Mute(DispatchedOrSuspended(n, v, pub, "NONE"))
       /\ DispatchedOrSuspended(n, v, pub, "NONE").state \in {n.state, "WAITING"}
  BY <1>1, <1>8, <1>9, DispatchedOrSuspendedSound, DispatchedStage, Words
<1> QED BY <1>3, <1>7, <1>10

(* A replacement is requested while the reference in force is driven.      *)
LEMMA ReplanAdvisedSound ==
    ASSUME NEW m, Sound(m), Mute(m), NEW v \in Surroundings, NEW r,
           m.next <= MaxRequests
    PROVE  LET n == ReplanAdvised(m, v, r)
           IN  Sound(n) /\ Mute(n) /\ Driven(m, n) /\ n.state = m.state
<1> DEFINE k == [m EXCEPT !.replacing = TRUE]
           n == Dispatched(k, v, 0)
           d == Dispatched(m, v, 0)
<1>1. m \in Wide
  BY DEF Sound
<1>2. CASE ReplanAdvised(m, v, r) = m
  BY <1>1, <1>2 DEF Driven, SameInputs
<1>3. CASE m.goal # 0 /\ ReplanAdvised(m, v, r) = n
  <2>1. k \in Wide
    BY <1>1, Zenon DEF Wide
  <2>2. /\ k.goal = m.goal /\ k.next = m.next /\ k.epoch = m.epoch
        /\ k.map = m.map
    BY <1>1 DEF Wide
  <2>3. n \in Wide
    BY <1>3, <2>1, <2>2, Words, DispatchedEffect
  <2>4. Sound(d) /\ Mute(d)
    BY <1>3, Words, DispatchedSound
  <2>5. /\ d.goal = m.goal /\ d.next = m.next + 1 /\ d.expected = m.next + 1
        /\ d.committed = m.committed /\ d.sent = m.sent
    BY <1>1, <1>3, Words, DispatchedEffect DEF SameGoal
  <2>6. /\ SameGoal(d, n) /\ SameRequests(d, n) /\ n.epoch = d.epoch
        /\ n.state = d.state /\ n.fail_stop = d.fail_stop
        /\ n.command = d.command /\ n.candidate = d.candidate
        /\ n.ready = d.ready /\ n.after = d.after /\ n.sent = d.sent
        /\ Driven(m, n) /\ n.state = m.state
    BY <1>1, <2>1, <2>2
       DEF Wide, Dispatched, SameGoal, SameRequests, Driven, SameInputs
  <2> HIDE DEF n, d
  <2>7. Backed(n) /\ Staged(n)
    BY <2>4, <2>6
       DEF Sound, SameGoal, SameRequests, Backed, Staged, Commanding
  <2>8. Numbered(n)
    BY <2>4, <2>6 DEF Sound, Numbered, SameGoal, SameRequests
  <2>9. Commanded(n)
    <3>1. n.committed < n.expected
      BY <1>1, <2>5, <2>6, WideFields DEF Sound, Numbered, SameRequests
    <3> QED
      BY <2>4, <2>6, <3>1 DEF Sound, SameGoal, SameRequests, Commanded, Commanding
  <2>10. Sound(n)
    BY <2>3, <2>7, <2>8, <2>9, Zenon DEF Sound
  <2> QED BY <1>3, <2>5, <2>6, <2>10 DEF Mute
<1> QED BY <1>2, <1>3 DEF ReplanAdvised

LEMMA TrackingActedSound ==
    ASSUME NEW m, Sound(m), Mute(m), NEW v \in Surroundings, NEW s \in Sightings,
           m.goal # 0, m.next <= MaxRequests
    PROVE  LET n == TrackingActed(m, v, s)
           IN  /\ Sound(n) /\ Mute(n) /\ n.goal # 0
               /\ n.state = "TRACKING" => Driven(m, n)
<1> DEFINE t == Tracked(m, s)
           after == IF ProgressGateHealthy(m) THEN m.snapshot.pub ELSE 0
           r == [goal |-> t.goal, epoch |-> t.epoch, request |-> t.committed]
<1>1. /\ Sound(t) /\ Mute(t) /\ t.goal # 0 /\ t.next <= MaxRequests
      /\ Driven(m, t)
  BY TrackedSound DEF Follows
<1>2. after \in 0..MaxPublications
  BY WideFields, Words DEF Sound
<1>3. \/ TrackingActed(m, v, s) = ProgressReplanned(t, v)
      \/ TrackingActed(m, v, s) = Suspended(t, "NONE", after)
      \/ TrackingActed(m, v, s) = ReplanAdvised(t, v, r)
      \/ TrackingActed(m, v, s) = t
  BY DEF TrackingActed
<1> HIDE DEF t, after, r
<1>4. CASE TrackingActed(m, v, s) = ProgressReplanned(t, v)
  BY <1>1, <1>4, ProgressReplannedSound DEF Sound, Staged
<1>5. CASE TrackingActed(m, v, s) = Suspended(t, "NONE", after)
  <2>1. Suspended(t, "NONE", after).state = "WAITING"
    BY <1>1, SuspendedEffect DEF Sound
  <2>2. /\ Sound(Suspended(t, "NONE", after)) /\ Mute(Suspended(t, "NONE", after))
    BY <1>1, <1>2, SuspendedSound, Words
  <2> QED BY <1>5, <2>1, <2>2 DEF Sound, Staged
<1>6. CASE TrackingActed(m, v, s) = ReplanAdvised(t, v, r)
  <2>1. /\ Sound(ReplanAdvised(t, v, r)) /\ Mute(ReplanAdvised(t, v, r))
        /\ Driven(t, ReplanAdvised(t, v, r))
    BY <1>1, ReplanAdvisedSound
  <2> QED BY <1>1, <1>6, <2>1 DEF Driven, SameInputs
<1> QED BY <1>1, <1>3, <1>4, <1>5, <1>6

(* The goal returns to planning when the map has recovered.                *)
Recovering(m) == [m EXCEPT !.state = "PLANNING", !.wait = "NONE"]

LEMMA RecoveringSound ==
    ASSUME NEW m, Sound(m), m.state = "WAITING"
    PROVE  LET k == Recovering(m)
           IN  /\ Sound(k) /\ (Mute(m) => Mute(k)) /\ SameInputs(m, k)
               /\ SameGoal(m, k) /\ SameRequests(m, k) /\ k.goal = m.goal
               /\ k.next = m.next /\ k.after = m.after /\ k.epoch = m.epoch
               /\ k.command = m.command /\ k.fail_stop /\ k.state = "PLANNING"
<1> DEFINE k == Recovering(m)
<1>1. m \in Wide
  BY DEF Sound
<1>2. k \in Wide
  BY <1>1, Words, Zenon DEF Wide, Recovering
<1>3. /\ SameGoal(m, k) /\ SameRequests(m, k) /\ k.epoch = m.epoch
      /\ SameInputs(m, k)
      /\ k.state = "PLANNING" /\ k.fail_stop = m.fail_stop
      /\ k.command = m.command /\ k.candidate = m.candidate
      /\ k.ready = m.ready /\ k.replacing = m.replacing
      /\ k.after = m.after /\ k.sent = m.sent
  BY <1>1 DEF Wide, Recovering, SameInputs, SameGoal, SameRequests
<1> HIDE DEF k
<1>4. m.fail_stop
  BY DEF Sound, Backed
<1>5. Backed(k) /\ Commanded(k) /\ Staged(k)
  BY <1>3, <1>4
     DEF Sound, SameGoal, SameRequests, Backed, Commanded, Staged, Commanding
<1>6. Numbered(k)
  BY <1>3 DEF Sound, Numbered, SameGoal, SameRequests
<1>7. Sound(k)
  BY <1>2, <1>5, <1>6, Zenon DEF Sound
<1> QED BY <1>3, <1>4, <1>7 DEF Mute, SameGoal, SameRequests, k

LEMMA ActedSound ==
    ASSUME NEW m, Sound(m), Mute(m), NEW v \in Surroundings, NEW s \in Sightings,
           NEW lost \in BOOLEAN, m.goal # 0, m.next <= MaxRequests
    PROVE  LET n == Acted(m, v, s, lost)
           IN  /\ Sound(n) /\ Mute(n) /\ n.goal # 0
               /\ n.state = "TRACKING" => m.state = "TRACKING" /\ Driven(m, n)
<1>1. m \in Wide
  BY DEF Sound
<1>2. CASE MapRecovered(m)
  <2> DEFINE k == Recovering(m)
             wait == m.wait
             n == DispatchedOrSuspended(k, v, 0, wait)
  <2>1. wait \in Timers
    BY <1>1, WideFields
  <2>2. /\ Sound(k) /\ Mute(k) /\ k.goal # 0 /\ k.next <= MaxRequests
        /\ k.state = "PLANNING"
    BY <1>2, RecoveringSound DEF MapRecovered
  <2>3. Acted(m, v, s, lost) = n
    BY <1>2 DEF Acted, Recovering, MapRecovered
  <2> HIDE DEF k, wait
  <2>4. Sound(n) /\ Mute(n) /\ n.state \in {k.state, "WAITING"}
    BY <2>1, <2>2, DispatchedOrSuspendedSound, DispatchedStage, Words
  <2> QED BY <2>2, <2>3, <2>4 DEF Sound, Staged
<1>3. CASE ~MapRecovered(m) /\ m.state = "WAITING"
  <2>1. Acted(m, v, s, lost) = SuspensionCharged(m)
    BY <1>3 DEF Acted
  <2> QED BY <1>3, <2>1, SuspensionChargedSound DEF Follows
<1>4. CASE ~MapRecovered(m) /\ m.state = "TRACKING"
  <2>1. Acted(m, v, s, lost) = IF lost THEN Tracked(m, s) ELSE TrackingActed(m, v, s)
    BY <1>4 DEF Acted
  <2>2. /\ Sound(Tracked(m, s)) /\ Mute(Tracked(m, s)) /\ Tracked(m, s).goal # 0
        /\ Driven(m, Tracked(m, s))
    BY TrackedSound DEF Follows
  <2> QED BY <1>4, <2>1, <2>2, TrackingActedSound
<1>5. CASE ~MapRecovered(m) /\ m.state \notin {"WAITING", "TRACKING"}
  <2>1. Acted(m, v, s, lost) = m
    BY <1>5 DEF Acted
  <2> QED BY <1>5, <2>1
<1> QED BY <1>2, <1>3, <1>4, <1>5

LEMMA HeartbeatSound ==
    ASSUME NEW m, Sound(m), Mute(m),
           m.state = "TRACKING" /\ ~m.fail_stop =>
               /\ MapReady(m) /\ LocalizationHealthy(m) /\ GimbalHolds(m)
               /\ ~m.cancel
    PROVE  Sound(Heartbeat(m)) /\ Vouched(Heartbeat(m))
<1>1. CASE m.fail_stop \/ m.state # "TRACKING"
  <2> DEFINE n == Said(m, TRUE, Stop)
  <2>1. Heartbeat(m) = n
    BY <1>1 DEF Heartbeat, Stopped, Said
  <2>2. Sound(n) /\ n.sent = Stop
    BY SaidSound, Words
  <2> HIDE DEF n
  <2> QED BY <2>1, <2>2, Words DEF Vouched
<1>2. CASE ~(m.fail_stop \/ m.state # "TRACKING")
  <2> DEFINE word == Execute(m.command)
             n == Said(m, FALSE, word)
  <2>1. Commanding(m) /\ m.command \in CommandRecord
    BY <1>2, WideFields DEF Sound, Backed
  <2>2. /\ word \in SentRecord /\ word.of = m.command.of
        /\ word.gimbal = m.command.gimbal
    BY <2>1 DEF CommandRecord, SentRecord, Execute
  <2>3. Heartbeat(m) = n
    BY <1>2, <2>1 DEF Heartbeat, Said
  <2> HIDE DEF word
  <2>4. /\ Sound(n) /\ n.sent = word /\ ~n.estop
        /\ SameInputs(m, n) /\ SameGoal(m, n) /\ n.epoch = m.epoch
        /\ n.yaw_request = m.yaw_request
    BY <2>2, SaidSound DEF Unmoved
  <2> HIDE DEF n
  <2>5. MapReady(n) /\ LocalizationHealthy(n)
    BY <1>2, <2>4 DEF SameInputs, MapReady, EpochAgrees, LocalizationHealthy
  <2>6. GimbalSatisfies(n, m.command.of.yaw, m.command.gimbal)
    BY <1>2, <2>1, <2>4 DEF SameInputs, GimbalHolds, GimbalSatisfies
  <2>7. m.command.of.goal = m.goal /\ m.command.of.epoch = m.epoch
    BY <2>1 DEF Sound, Commanded
  <2>8. Vouched(n)
    BY <1>2, <2>2, <2>4, <2>5, <2>6, <2>7 DEF Vouched, SameGoal
  <2> QED BY <2>3, <2>4, <2>8
<1> QED BY <1>1, <1>2

(* After the work of the tick the heartbeat may vouch for the execution.   *)
LEMMA SupervisedSound ==
    ASSUME NEW m, Sound(m), Mute(m), NEW v \in Surroundings, NEW s \in Sightings,
           m.goal # 0, m.next <= MaxRequests
    PROVE  LET k == Supervised(m, v, s)
           IN  /\ Sound(k) /\ Mute(k)
               /\ k.state = "TRACKING" /\ ~k.fail_stop =>
                    /\ MapReady(k) /\ LocalizationHealthy(k) /\ GimbalHolds(k)
                    /\ ~k.cancel
<1> DEFINE lost == ~GimbalHolds(m)
           g == GimbalChecked(m)
           n == LocalizationChecked(g)
           acted == Acted(n, v, s, lost)
           recovering == IF lost THEN Suspended(acted, "NONE", 0) ELSE acted
<1>1. Sound(g) /\ Mute(g) /\ g.goal # 0 /\ g.next = m.next
  BY GimbalCheckedSound
<1>2. lost \in BOOLEAN /\ (~lost => g = m)
  BY DEF GimbalChecked, GimbalHolds
<1>3. Supervised(m, v, s) =
        IF GoalEnds(n, s) THEN Finished(recovering) ELSE recovering
  BY DEF Supervised
<1>4. ~lost => GimbalHolds(m)
  OBVIOUS
<1> HIDE DEF lost, g
<1>5. /\ Sound(n) /\ Mute(n) /\ n.goal # 0 /\ n.next <= MaxRequests
      /\ n.state # "WAITING" => n = g /\ LocalizationHealthy(g)
  BY <1>1, LocalizationCheckedSound
<1> HIDE DEF n
<1>6. /\ Sound(acted) /\ Mute(acted) /\ acted.goal # 0
      /\ acted.state = "TRACKING" => n.state = "TRACKING" /\ Driven(n, acted)
  BY <1>2, <1>5, ActedSound
<1> HIDE DEF acted
<1>7. /\ Sound(recovering) /\ Mute(recovering)
      /\ lost => recovering.state = "WAITING"
      /\ ~lost => recovering = acted
  <2>1. /\ Sound(Suspended(acted, "NONE", 0)) /\ Mute(Suspended(acted, "NONE", 0))
        /\ Suspended(acted, "NONE", 0).state = "WAITING"
    BY <1>6, SuspendedSound, SuspendedEffect, Words DEF Sound
  <2> QED BY <1>6, <2>1
<1> HIDE DEF recovering
<1>8. CASE GoalEnds(n, s) \/ lost
  <2>1. /\ Sound(Finished(recovering)) /\ Mute(Finished(recovering))
        /\ Finished(recovering).state = "IDLE"
    BY <1>7, FinishedSound, FinishedEffect DEF Sound
  <2> QED BY <1>3, <1>7, <1>8, <2>1
<1>9. CASE ~GoalEnds(n, s) /\ ~lost
  <2>1. Supervised(m, v, s) = acted
    BY <1>3, <1>7, <1>9
  <2>2. SUFFICES ASSUME acted.state = "TRACKING"
                 PROVE  /\ MapReady(acted) /\ LocalizationHealthy(acted)
                        /\ GimbalHolds(acted) /\ ~acted.cancel
    BY <1>6, <2>1
  <2>3. n.state = "TRACKING" /\ Driven(n, acted) /\ n = m /\ LocalizationHealthy(n)
    BY <1>2, <1>5, <1>6, <1>9, <2>2
  <2>4. ~n.cancel /\ MapReady(n)
    BY <1>9, <2>3 DEF GoalEnds, MapStale
  <2>5. MapReady(acted) /\ LocalizationHealthy(acted)
    BY <2>3, <2>4
       DEF Driven, SameInputs, MapReady, EpochAgrees, LocalizationHealthy
  <2>6. GimbalHolds(acted)
    BY <1>4, <1>9, <2>3
       DEF Driven, SameInputs, GimbalHolds, GimbalSatisfies, Commanding
  <2> QED BY <2>3, <2>4, <2>5, <2>6 DEF Driven
<1> QED BY <1>8, <1>9

LEMMA TickedSound ==
    ASSUME NEW m, Sound(m), Mute(m), NEW v \in Surroundings, NEW s \in Sightings,
           m.next <= MaxRequests
    PROVE  Sound(Ticked(m, v, s)) /\ Vouched(Ticked(m, v, s))
<1>1. CASE m.goal = 0
  <2>1. m.state # "TRACKING"
    BY <1>1 DEF Sound, Staged
  <2> QED BY <1>1, <2>1, HeartbeatSound DEF Ticked
<1>2. CASE m.goal # 0 /\ ~m.goal_tf
  BY <1>2, SuspendedSound, Words DEF Ticked, Mute, Vouched
<1>3. CASE m.goal # 0 /\ m.goal_tf
  <2> DEFINE k == Supervised(m, v, s)
  <2>1. /\ Sound(k) /\ Mute(k)
        /\ k.state = "TRACKING" /\ ~k.fail_stop =>
             /\ MapReady(k) /\ LocalizationHealthy(k) /\ GimbalHolds(k)
             /\ ~k.cancel
    BY <1>3, SupervisedSound
  <2>2. Ticked(m, v, s) = Heartbeat(k)
    BY <1>3 DEF Ticked
  <2> HIDE DEF k
  <2> QED BY <2>1, <2>2, HeartbeatSound
<1> QED BY <1>1, <1>2, <1>3

-----------------------------------------------------------------------------
(* The inductive invariant of the specification.                           *)

HistoryOK ==
    history \in [barrier : 0..MaxRequests, condemned : 0..MaxPublications]

IInv == Sound(mgr) /\ Vouched(mgr) /\ mgr.next <= MaxRequests /\ HistoryOK

(* A callback starts from an invariant that says nothing.                  *)
LEMMA AwakeSound ==
    ASSUME IInv
    PROVE  /\ Sound(Awake) /\ Mute(Awake) /\ Awake.next <= MaxRequests
           /\ Awake.next = mgr.next /\ Awake.goal = mgr.goal
           /\ Awake.next_goal = mgr.next_goal /\ Awake.requests = mgr.requests
           /\ Unmoved(mgr, Awake)
<1> DEFINE stop == mgr.estop
           n == Said(mgr, stop, Silent)
<1>1. Sound(mgr) /\ mgr \in Wide /\ mgr.next <= MaxRequests
  BY DEF IInv, Sound
<1>2. Awake = n
  BY <1>1 DEF Awake, Wide, Said
<1>3. stop \in BOOLEAN /\ Silent \in SentRecord
  BY <1>1, Words DEF Wide
<1> HIDE DEF stop
<1>4. Sound(n) /\ n.sent = Silent /\ Unmoved(mgr, n)
  BY <1>1, <1>3, SaidSound
<1> HIDE DEF n
<1> QED BY <1>1, <1>2, <1>4, Words DEF Mute, Unmoved, SameGoal, SameRequests

LEMMA RememberedType ==
    ASSUME IInv, NEW m
    PROVE  Remembered(m) \in [barrier : 0..MaxRequests, condemned : 0..MaxPublications]
<1> DEFINE barrier == IF BreaksOff(m) THEN mgr.next ELSE history.barrier
<1>1. barrier \in 0..MaxRequests
  BY ConfigAssumption, WideFields DEF IInv, HistoryOK, Sound
<1>2. NothingHappened \in [barrier : 0..MaxRequests, condemned : 0..MaxPublications]
  BY ConfigAssumption DEF NothingHappened
<1>3. Remembered(m) =
        IF m.goal # mgr.goal THEN NothingHappened
        ELSE [history EXCEPT !.barrier = barrier]
  BY DEF Remembered, IInv, HistoryOK
<1> HIDE DEF barrier
<1> QED BY <1>1, <1>2, <1>3 DEF IInv, HistoryOK

(* A callback that leaves a sound and vouched manager keeps the invariant. *)
LEMMA BecomesSound ==
    ASSUME IInv, NEW m, Sound(m), Vouched(m), Becomes(m)
    PROVE  IInv'
<1>1. mgr' = m /\ m.next <= MaxRequests /\ history' = Remembered(mgr')
  BY DEF Becomes
<1>2. HistoryOK'
  BY <1>1, RememberedType DEF HistoryOK
<1>3. Sound(mgr)' /\ Vouched(mgr)'
  BY <1>1, Zenon
<1>4. (mgr.next <= MaxRequests)'
  BY <1>1
<1> QED BY <1>2, <1>3, <1>4, Zenon DEF IInv

LEMMA MuteVouched ==
    ASSUME NEW m, Mute(m) PROVE Vouched(m)
BY DEF Mute, Vouched

(* A replacement that failed while the reference in force is guarded.      *)
LEMMA NotReplacingSound ==
    ASSUME NEW m, Sound(m)
    PROVE  LET n == [m EXCEPT !.replacing = FALSE]
           IN  Sound(n) /\ (Mute(m) => Mute(n)) /\ n.next = m.next
<1> DEFINE n == [m EXCEPT !.replacing = FALSE]
<1>1. m \in Wide
  BY DEF Sound
<1>2. n \in Wide
  BY <1>1, Zenon DEF Wide
<1>3. /\ SameGoal(m, n) /\ SameRequests(m, n)
      /\ n.epoch = m.epoch /\ n.state = m.state
      /\ n.fail_stop = m.fail_stop /\ n.command = m.command
      /\ n.candidate = m.candidate /\ n.ready = m.ready
      /\ ~n.replacing /\ n.after = m.after /\ n.sent = m.sent
  BY <1>1 DEF Wide, SameGoal, SameRequests
<1> HIDE DEF n
<1>4. Backed(n) /\ Commanded(n) /\ Staged(n)
  BY <1>3 DEF Sound, SameGoal, SameRequests, Backed, Commanded, Staged, Commanding
<1>5. Numbered(n)
  BY <1>3 DEF Sound, Numbered, SameGoal, SameRequests
<1>6. Sound(n)
  BY <1>2, <1>4, <1>5, Zenon DEF Sound
<1> QED BY <1>3, <1>6 DEF Mute, SameRequests, n

LEMMA PlannerFailureSound ==
    ASSUME IInv, OnPlannerFailure PROVE IInv'
<1>1. PICK r \in mgr.requests, reason \in Reasons :
        OnPlanFailed(r, reason) \/ OnPlanAcceptedInVain(r, reason)
  BY DEF OnPlannerFailure
<1>2. /\ Sound(Awake) /\ Mute(Awake) /\ Awake.next <= MaxRequests
      /\ r \in Awake.requests
  BY AwakeSound
<1>3. CASE OnPlanFailed(r, reason)
  <2> DEFINE m == PlanFailed(Awake, r, reason)
             condemned == IF ConcernsActive(mgr, r)
                             /\ reason \in {"UNSAFE", "SNAPSHOT_CHANGED"} /\ m.goal # 0
                          THEN Larger(Remembered(m).condemned, r.pub)
                          ELSE Remembered(m).condemned
  <2>1. Sound(m) /\ Mute(m) /\ m.next \in {0, Awake.next}
    BY <1>2, PlanFailedSound
  <2>2. mgr' = m /\ history' = [Remembered(m) EXCEPT !.condemned = condemned]
    BY <1>3, RememberedType DEF OnPlanFailed
  <2> HIDE DEF m
  <2>3. condemned \in 0..MaxPublications
    <3>1. r \in Requests
      BY <1>2, WideFields DEF Sound
    <3> QED BY <3>1, RequestFields, RememberedType DEF Larger
  <2> HIDE DEF condemned
  <2>4. HistoryOK'
    BY <2>2, <2>3, RememberedType DEF HistoryOK
  <2>5. Sound(mgr)' /\ Vouched(mgr)'
    BY <2>1, <2>2, MuteVouched
  <2>6. (mgr.next <= MaxRequests)'
    BY <1>2, <2>1, <2>2, ConfigAssumption
  <2> QED BY <2>4, <2>5, <2>6, Zenon DEF IInv
<1>4. CASE mgr' = [Awake EXCEPT !.replacing = FALSE] /\ history' = history
  <2> DEFINE m == [Awake EXCEPT !.replacing = FALSE]
  <2>1. Sound(m) /\ Mute(m) /\ m.next <= MaxRequests
    BY <1>2, NotReplacingSound
  <2>2. mgr' = m
    BY <1>4
  <2> HIDE DEF m
  <2>3. HistoryOK'
    BY <1>4 DEF IInv, HistoryOK
  <2>4. Sound(mgr)' /\ Vouched(mgr)'
    BY <2>1, <2>2, MuteVouched
  <2>5. (mgr.next <= MaxRequests)'
    BY <2>1, <2>2
  <2> QED BY <2>3, <2>4, <2>5, Zenon DEF IInv
<1> QED BY <1>1, <1>3, <1>4 DEF OnPlanAcceptedInVain

(* The answers of MINCO and the calls of the action server.                *)
LEMMA CallsSound ==
    ASSUME IInv
    PROVE  /\ OnActionAccepted => IInv'
           /\ OnActionCancel => IInv'
           /\ OnGoalRefused => IInv'
           /\ OnReplanAdvised => IInv'
           /\ OnReferenceReady => IInv'
           /\ OnCandidateReference => IInv'
<1> DEFINE a == Awake
<1>1. /\ Sound(a) /\ Mute(a) /\ a.next <= MaxRequests
      /\ a.goal = mgr.goal /\ a.next_goal = mgr.next_goal
      /\ a.requests = mgr.requests
  BY AwakeSound
<1>2. Prospects \subseteq Surroundings
  BY DEF Prospects
<1>3. OnActionAccepted => IInv'
  <2> SUFFICES ASSUME mgr.next_goal < MaxGoals,
                      NEW v \in Prospects, Becomes(Started(a, v))
               PROVE  IInv'
    BY DEF OnActionAccepted
  <2> HIDE DEF a
  <2> QED BY <1>1, <1>2, StartedSound, MuteVouched, BecomesSound
<1>4. OnActionCancel => IInv'
  <2> SUFFICES ASSUME mgr.goal # 0, Becomes(Cancelled(a))
               PROVE  IInv'
    BY DEF OnActionCancel
  <2> HIDE DEF a
  <2> QED BY <1>1, CancelledSound, MuteVouched, BecomesSound
<1>5. OnGoalRefused => IInv'
  <2> DEFINE word == a.sent
             m == Said(a, TRUE, word)
  <2> SUFFICES ASSUME Becomes([a EXCEPT !.estop = TRUE])
               PROVE  IInv'
    BY DEF OnGoalRefused
  <2> HIDE DEF a
  <2>1. a \in Wide /\ word \in SentRecord
    BY <1>1 DEF Sound, Wide
  <2>2. [a EXCEPT !.estop = TRUE] = m
    BY <2>1 DEF Wide, Said
  <2> HIDE DEF word
  <2>3. Sound(m) /\ m.sent = word
    BY <1>1, <2>1, SaidSound
  <2>4. Mute(m)
    BY <1>1, <2>3 DEF Mute, word
  <2> HIDE DEF m
  <2> QED BY <2>2, <2>3, <2>4, MuteVouched, BecomesSound
<1>6. OnReplanAdvised => IInv'
  <2> SUFFICES ASSUME NEW r \in mgr.requests, NEW v \in Prospects,
                      Becomes(ReplanAdvised(a, v, r))
               PROVE  IInv'
    BY DEF OnReplanAdvised
  <2> HIDE DEF a
  <2> QED BY <1>1, <1>2, ReplanAdvisedSound, MuteVouched, BecomesSound
<1>7. OnReferenceReady => IInv'
  <2> SUFFICES ASSUME NEW r \in mgr.requests, NEW v \in Surroundings,
                      Becomes(ReferenceReady(a, v, r))
               PROVE  IInv'
    BY DEF OnReferenceReady
  <2> HIDE DEF a
  <2> QED BY <1>1, ReferenceReadySound, BecomesSound
<1>8. OnCandidateReference => IInv'
  <2> SUFFICES ASSUME NEW r \in mgr.requests, NEW v \in Surroundings,
                      Becomes(TryCommit([a EXCEPT !.candidate = r], v))
               PROVE  IInv'
    BY DEF OnCandidateReference
  <2> HIDE DEF a
  <2> DEFINE n == [a EXCEPT !.candidate = r]
  <2>1. Sound(n) /\ Mute(n) /\ n.next <= MaxRequests
    BY <1>1, AnswerSound
  <2> HIDE DEF n
  <2>2. Sound(TryCommit(n, v)) /\ Vouched(TryCommit(n, v))
    BY <2>1, TryCommitSound
  <2>3. Becomes(TryCommit(n, v))
    BY DEF n
  <2> QED BY <2>2, <2>3, BecomesSound
<1> QED BY <1>3, <1>4, <1>5, <1>6, <1>7, <1>8

(* The inputs and the timer.                                               *)
LEMMA InputsSound ==
    ASSUME IInv
    PROVE  /\ OnMapStatus => IInv'
           /\ OnPlanningSnapshot => IInv'
           /\ OnLocalizationStatus => IInv'
           /\ OnGimbalYawStatus => IInv'
           /\ OnOdometry => IInv'
           /\ OnTick => IInv'
<1> DEFINE a == Awake
<1>1. Sound(a) /\ Mute(a) /\ a.next <= MaxRequests
  BY AwakeSound
<1>2. /\ \A fault : Outcomes(fault) \subseteq BOOLEAN
      /\ Prospects \subseteq Surroundings
      /\ 1..MaxEpochs \subseteq 0..MaxEpochs
      /\ 1..MaxPublications \subseteq 0..MaxPublications
  <2>1. \A fault : Outcomes(fault) \subseteq BOOLEAN
    BY Zenon DEF Outcomes
  <2> QED BY <2>1, ConfigAssumption DEF Prospects
<1>3. /\ mgr.map.epoch \in 0..MaxEpochs /\ mgr.loc.epoch \in 0..MaxEpochs
      /\ mgr.next_yaw \in Nat
  BY WideFields DEF IInv, Sound
<1>4. /\ Larger(1, mgr.map.epoch)..MaxEpochs \subseteq 0..MaxEpochs
      /\ Larger(1, mgr.loc.epoch)..MaxEpochs \subseteq 0..MaxEpochs
      /\ 0..mgr.next_yaw \subseteq Nat
  BY <1>3, ConfigAssumption DEF Larger
<1>5. OnMapStatus => IInv'
  <2> SUFFICES ASSUME NEW v \in Surroundings, NEW ready \in Outcomes("MAP"),
                      NEW epoch \in Larger(1, mgr.map.epoch)..MaxEpochs,
                      NEW pub \in 1..MaxPublications,
                      Becomes(MapStatusReceived(a, v, ready, epoch, pub))
               PROVE  IInv'
    BY DEF OnMapStatus
  <2>1. ready \in BOOLEAN /\ epoch \in 0..MaxEpochs /\ pub \in 0..MaxPublications
    BY <1>2, <1>4, Zenon
  <2> HIDE DEF a
  <2> QED BY <1>1, <2>1, MapStatusSound, BecomesSound
<1>6. OnPlanningSnapshot => IInv'
  <2> SUFFICES ASSUME NEW v \in Surroundings, NEW valid \in Outcomes("SNAPSHOT"),
                      NEW epoch \in 1..MaxEpochs, NEW pub \in 1..MaxPublications,
                      Becomes(SnapshotReceived(a, v, valid, epoch, pub))
               PROVE  IInv'
    BY DEF OnPlanningSnapshot
  <2>1. valid \in BOOLEAN /\ epoch \in 0..MaxEpochs /\ pub \in 0..MaxPublications
    BY <1>2, Zenon
  <2> HIDE DEF a
  <2> QED BY <1>1, <2>1, SnapshotSound, BecomesSound
<1>7. OnLocalizationStatus => IInv'
  <2> SUFFICES ASSUME NEW healthy \in Outcomes("LOCALIZATION"),
                      NEW epoch \in Larger(1, mgr.loc.epoch)..MaxEpochs,
                      Becomes(LocalizationReceived(a, healthy, epoch))
               PROVE  IInv'
    BY DEF OnLocalizationStatus
  <2>1. healthy \in BOOLEAN /\ epoch \in 0..MaxEpochs
    BY <1>2, <1>4, Zenon
  <2> HIDE DEF a
  <2> QED BY <1>1, <2>1, LocalizationSound, MuteVouched, BecomesSound
<1>8. OnGimbalYawStatus => IInv'
  <2> SUFFICES ASSUME NEW v \in Surroundings, NEW mode \in YawModes,
                      NEW sound \in Outcomes("GIMBAL"),
                      NEW request \in 0..mgr.next_yaw,
                      Becomes(GimbalReceived(a, v, mode, sound, request))
               PROVE  IInv'
    BY DEF OnGimbalYawStatus
  <2>1. sound \in BOOLEAN /\ mode \in YawAuthorities /\ request \in Nat
    BY <1>2, <1>4, Zenon DEF YawAuthorities
  <2> HIDE DEF a
  <2> QED BY <1>1, <2>1, GimbalSound, BecomesSound
<1>9. OnOdometry => IInv'
  <2> SUFFICES ASSUME NEW quality \in {"LOST", "BLIND", "OK"},
                      Becomes(OdometryReceived(a, quality))
               PROVE  IInv'
    BY DEF OnOdometry
  <2> HIDE DEF a
  <2> QED BY <1>1, OdometrySound, MuteVouched, BecomesSound
<1>10. OnTick => IInv'
  <2> SUFFICES ASSUME NEW v \in Prospects, NEW s \in Sightings,
                      Becomes(Ticked(a, v, s))
               PROVE  IInv'
    BY DEF OnTick
  <2> HIDE DEF a
  <2> QED BY <1>1, <1>2, TickedSound, BecomesSound
<1> QED BY <1>5, <1>6, <1>7, <1>8, <1>9, <1>10

(* What passes with time.                                                  *)
LEMMA EnvironmentSound ==
    ASSUME IInv
    PROVE  /\ Lapse => IInv'
           /\ DeadlinePasses => IInv'
           /\ Elapse => IInv'
           /\ TransformChanges => IInv'
<1> DEFINE a == Awake
<1>1. Sound(a) /\ Mute(a) /\ a \in Wide
  BY AwakeSound DEF Sound
<1>2. \A m : Follows(a, m) /\ Becomes(m) => IInv'
  BY <1>1, MuteVouched, BecomesSound DEF Follows
<1>3. Lapse => IInv'
  <2> DEFINE map == [a.map EXCEPT !.fresh = FALSE]
             snapshot == [a.snapshot EXCEPT !.fresh = FALSE]
             loc == [a.loc EXCEPT !.fresh = FALSE]
             gimbal == [a.gimbal EXCEPT !.fresh = FALSE]
             odom == a.odom
  <2> HIDE DEF a
  <2>1. a.map \in MapRecord /\ a.snapshot \in SnapshotRecord /\ a.loc \in LocRecord
        /\ a.gimbal \in GimbalRecord /\ odom \in {"NONE", "LOST", "BLIND", "OK"}
    BY <1>1 DEF Wide
  <2>2. map \in MapRecord /\ snapshot \in SnapshotRecord /\ loc \in LocRecord
        /\ gimbal \in GimbalRecord
    BY <2>1, Zenon DEF MapRecord, SnapshotRecord, LocRecord, GimbalRecord
  <2>3. /\ [a EXCEPT !.map.fresh = FALSE] = [a EXCEPT !.map = map]
        /\ [a EXCEPT !.snapshot.fresh = FALSE] = [a EXCEPT !.snapshot = snapshot]
        /\ [a EXCEPT !.loc.fresh = FALSE] = [a EXCEPT !.loc = loc]
        /\ [a EXCEPT !.gimbal.fresh = FALSE] = [a EXCEPT !.gimbal = gimbal]
    BY <1>1 DEF Wide
  <2> HIDE DEF map, snapshot, loc, gimbal, odom
  <2>4. /\ Follows(a, [a EXCEPT !.map = map])
        /\ Follows(a, [a EXCEPT !.snapshot = snapshot])
        /\ Follows(a, [a EXCEPT !.loc = loc])
        /\ Follows(a, [a EXCEPT !.gimbal = gimbal])
    BY <1>1, <2>1, <2>2, HeardSound
  <2>5. Lapse => \/ Becomes([a EXCEPT !.map.fresh = FALSE])
                 \/ Becomes([a EXCEPT !.snapshot.fresh = FALSE])
                 \/ Becomes([a EXCEPT !.loc.fresh = FALSE])
                 \/ Becomes([a EXCEPT !.gimbal.fresh = FALSE])
    BY DEF Lapse, a
  <2> QED BY <1>2, <2>3, <2>4, <2>5
<1>4. /\ DeadlinePasses => IInv'
      /\ Elapse => IInv'
      /\ TransformChanges => IInv'
  <2> DEFINE known == ~a.goal_tf
  <2>1. known \in BOOLEAN /\ "ELAPSED" \in Timers
    BY Words
  <2>2. DeadlinePasses => Becomes([a EXCEPT !.deadline = "ELAPSED"])
    BY DEF DeadlinePasses
  <2>3. Elapse => \/ Becomes([a EXCEPT !.wait = "ELAPSED"])
                  \/ Becomes([a EXCEPT !.noplan = "ELAPSED"])
                  \/ Becomes([a EXCEPT !.dwell = "ELAPSED"])
    BY DEF Elapse
  <2>4. TransformChanges => Becomes([a EXCEPT !.goal_tf = known])
    BY DEF TransformChanges
  <2> HIDE DEF a, known
  <2>5. /\ Follows(a, [a EXCEPT !.wait = "ELAPSED"])
        /\ Follows(a, [a EXCEPT !.noplan = "ELAPSED"])
        /\ Follows(a, [a EXCEPT !.dwell = "ELAPSED"])
        /\ Follows(a, [a EXCEPT !.deadline = "ELAPSED"])
        /\ Follows(a, [a EXCEPT !.goal_tf = known])
    BY <1>1, <2>1, PassedSound
  <2> QED BY <1>2, <2>2, <2>3, <2>4, <2>5
<1> QED BY <1>3, <1>4

LEMMA InitSound == ASSUME Init PROVE IInv
<1>1. mgr = InitialManager /\ history = NothingHappened
  BY DEF Init
<1>2. InitialManager \in Wide
  <2>1. NoRequest \in MaybeRequest /\ NoCommand \in CommandRecord
        /\ NoYawRequest \in YawRecord /\ Stop \in SentRecord
    BY Words
  <2>2. InitialManager.map \in MapRecord /\ InitialManager.snapshot \in SnapshotRecord
        /\ InitialManager.loc \in LocRecord /\ InitialManager.gimbal \in GimbalRecord
    BY ConfigAssumption
       DEF InitialManager, MapRecord, SnapshotRecord, LocRecord, GimbalRecord,
           YawAuthorities
  <2> QED
    BY <2>1, <2>2, ConfigAssumption DEF InitialManager, Wide, Timers, States
<1>3. /\ InitialManager.goal = 0 /\ InitialManager.next = 0
      /\ InitialManager.expected = 0 /\ InitialManager.committed = 0
      /\ InitialManager.next_goal = 0 /\ InitialManager.state = "IDLE"
      /\ InitialManager.fail_stop /\ InitialManager.command = NoCommand
      /\ InitialManager.candidate = NoRequest /\ InitialManager.ready = NoRequest
      /\ InitialManager.requests = {} /\ InitialManager.sent = Stop
  BY DEF InitialManager
<1>4. Sound(mgr)
  BY <1>1, <1>2, <1>3
     DEF Sound, Backed, Numbered, Commanded, Commanding, Staged
<1>5. Vouched(mgr) /\ mgr.next <= MaxRequests
  BY <1>1, <1>3, Words, ConfigAssumption DEF Vouched
<1>6. HistoryOK
  BY <1>1, ConfigAssumption DEF HistoryOK, NothingHappened
<1> QED BY <1>4, <1>5, <1>6 DEF IInv

LEMMA Invariance == Spec => []IInv
<1>1. Init => IInv
  BY InitSound
<1>2. IInv /\ [Next]_vars => IInv'
  <2> SUFFICES ASSUME IInv, [Next]_vars PROVE IInv'
    OBVIOUS
  <2>1. CASE UNCHANGED vars
    BY <2>1 DEF vars, IInv, HistoryOK
  <2>2. CASE Next
    BY <2>2, PlannerFailureSound, CallsSound, InputsSound, EnvironmentSound, Zenon
       DEF Next
  <2> QED BY <2>1, <2>2
<1> QED BY <1>1, <1>2, PTL DEF Spec

-----------------------------------------------------------------------------
(* The theorems.                                                           *)

(* Every state of the manager is well typed, whatever callbacks ran in     *)
(* whatever order: in particular every request it ever publishes carries a *)
(* goal, a number, an epoch and a publication that some input or callback  *)
(* put there, and the counters stay within the bounds applied to them.     *)
THEOREM TypeCorrect == Spec => []TypeOK
<1>1. IInv => TypeOK
  <2> SUFFICES ASSUME IInv PROVE TypeOK
    OBVIOUS
  <2>1. mgr \in Wide
    BY DEF IInv, Sound
  <2>2. /\ mgr.next \in 0..MaxRequests /\ mgr.expected \in 0..MaxRequests
        /\ mgr.committed \in 0..MaxRequests
    BY <2>1, WideFields, ConfigAssumption DEF IInv, Sound, Numbered
  <2>3. mgr \in Manager
    BY <2>1, <2>2
       DEF Wide, Manager, MapRecord, SnapshotRecord, LocRecord, GimbalRecord,
           SentRecord, CommandRecord, YawRecord, States
  <2> QED BY <2>3 DEF TypeOK, IInv, HistoryOK
<1> QED BY <1>1, Invariance, PTL

(* Whichever callback sends an EXECUTE (the commit in tryCommitReference or *)
(* the heartbeat of onTick), at that moment the map and the localization    *)
(* are healthy in one epoch, the gimbal holds the granted authority, the    *)
(* goal is not being canceled and the emergency stop is released: for any   *)
(* number of goals, requests, epochs and publications, any faults and any   *)
(* configuration of the gates.                                              *)
THEOREM FullHealth == Spec => []ExecuteInFullHealth
<1>1. IInv => ExecuteInFullHealth
  BY DEF IInv, Vouched, ExecuteInFullHealth
<1> QED BY <1>1, Invariance, PTL

(* While the last word on the emergency stop is a release and no stop is   *)
(* pending, the goal is tracked under a command of its own, and runtime    *)
(* failures and replan advice of MINCO are matched against its number.     *)
THEOREM ReleaseBacked == Spec => []ReleaseIsBacked
<1>1. IInv => ReleaseIsBacked
  BY DEF IInv, Sound, Backed, Commanded, ReleaseIsBacked
<1> QED BY <1>1, Invariance, PTL

=============================================================================
