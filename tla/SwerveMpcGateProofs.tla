------------------------ MODULE SwerveMpcGateProofs ------------------------
(* Proofs about the gate of the MPC node, for every value of the constants.*)
EXTENDS SwerveMpcGate, TLAPS

-----------------------------------------------------------------------------
(* The fields of a gate in groups: what the transformations leave alone.   *)

SameCommand(f, g) ==
    f.incarnation = g.incarnation /\ f.sequence = g.sequence /\ f.signal = g.signal

SameMap(f, g) ==
    /\ f.planner_epoch = g.planner_epoch
    /\ f.planner_generation = g.planner_generation
    /\ f.retired = g.retired /\ f.lease_generation = g.lease_generation
    /\ f.map_ready = g.map_ready /\ f.map_signal = g.map_signal

SameGrace(f, g) ==
    f.supersede_deadline = g.supersede_deadline /\ f.superseded = g.superseded

SameSensors(f, g) ==
    /\ f.tracking = g.tracking /\ f.epoch = g.epoch
    /\ f.gimbal = g.gimbal /\ f.gimbal_signal = g.gimbal_signal

SameMotion(f, g) ==
    /\ f.fail_stop = g.fail_stop /\ f.trajectory = g.trajectory
    /\ f.last_stop = g.last_stop

LEMMA NumberTypes == Never \in Int /\ Empty \in Int /\ NoCommand \in Grants
BY DEF Never, Empty, NoCommand, Grants

LEMMA CommandFields ==
    ASSUME NEW c \in Commands
    PROVE  /\ c.incarnation \in Nat /\ c.sequence \in Nat /\ c.goal \in Nat
           /\ c.epoch \in Nat /\ c.generation \in Nat /\ c.request \in Nat
           /\ c.age \in Int /\ c.pathAge \in Nat /\ c.sound \in BOOLEAN
<1> DEFINE grants ==
             [mode : Modes \ {"STOP"}, incarnation : Incarnations,
              sequence : Sequences, goal : Goals, epoch : Epochs,
              generation : Generations, request : GimbalRequests, age : Ages,
              pathAge : PathAges, sound : BOOLEAN]
           stops ==
             [mode : Modes \cap {"STOP"}, incarnation : Incarnations,
              sequence : Sequences, goal : {0}, epoch : {0}, generation : {0},
              request : {0}, age : Ages, pathAge : {0}, sound : {FALSE}]
<1>1. c \in grants \/ c \in stops
  BY DEF Commands
<1>2. CASE c \in grants
  BY <1>2, InputAssumption
<1>3. CASE c \in stops
  <2>1. /\ c.goal = 0 /\ c.epoch = 0 /\ c.generation = 0 /\ c.request = 0
        /\ c.pathAge = 0 /\ c.sound = FALSE
    BY <1>3, Zenon
  <2>2. /\ c.incarnation \in Incarnations /\ c.sequence \in Sequences
        /\ c.age \in Ages
    BY <1>3, Zenon
  <2>3. c.sound \in BOOLEAN
    BY <2>1, Zenon
  <2>4. c.incarnation \in Nat /\ c.sequence \in Nat /\ c.age \in Int
    BY <2>2, InputAssumption
  <2> QED BY <2>1, <2>3, <2>4
<1> QED BY <1>1, <1>2, <1>3

LEMMA FailStoppedFacts ==
    ASSUME clock \in Nat, NEW g \in Gate, NEW r
    PROVE  LET f == FailStopped(g, r)
           IN  /\ f \in Gate
               /\ SameCommand(f, g) /\ SameMap(f, g) /\ SameGrace(f, g)
               /\ SameSensors(f, g)
               /\ f.active = g.active /\ f.usable = g.usable
               /\ f.fail_stop = TRUE
               /\ g.fail_stop => f = g
               /\ ~g.fail_stop => f.trajectory = Empty
               /\ ~g.fail_stop /\ r => f.last_stop = clock
               /\ ~r => f.last_stop = g.last_stop
<1> DEFINE f == FailStopped(g, r)
<1>1. f \in Gate
  <2> DEFINE stamp == IF r THEN clock ELSE g.last_stop
  <2>1. stamp \in Int
    BY DEF Gate
  <2> HIDE DEF stamp
  <2>2. [g EXCEPT !.fail_stop = TRUE, !.trajectory = Empty, !.last_stop = stamp]
          \in Gate
    BY <2>1, NumberTypes, Zenon DEF Gate
  <2> QED BY <2>2 DEF FailStopped, stamp
<1> QED
  BY <1>1, SMT DEF FailStopped, Gate, SameCommand, SameMap, SameGrace, SameSensors

LEMMA DroppedFacts ==
    ASSUME NEW g \in Gate
    PROVE  LET f == Dropped(g)
           IN  /\ f \in Gate
               /\ SameCommand(f, g) /\ SameMap(f, g) /\ SameGrace(f, g)
               /\ SameSensors(f, g) /\ SameMotion(f, g)
               /\ f.active = NoCommand /\ f.usable = g.usable
<1>1. Dropped(g) \in Gate
  BY NumberTypes, Zenon DEF Dropped, Gate
<1> QED
  BY <1>1, SMT DEF Dropped, Gate, SameCommand, SameMap, SameGrace, SameSensors,
                   SameMotion

LEMMA RevokedFacts ==
    ASSUME NEW g \in Gate
    PROVE  LET f == Revoked(g)
           IN  /\ f \in Gate
               /\ SameCommand(f, g) /\ SameMap(f, g)
               /\ SameSensors(f, g) /\ SameMotion(f, g)
               /\ f.active = NoCommand /\ f.usable = g.usable
               /\ f.supersede_deadline = Never /\ f.superseded = g.superseded
<1>1. Dropped(g) \in Gate
  BY DroppedFacts
<1>2. Revoked(g) \in Gate
  BY <1>1, NumberTypes, Zenon DEF Revoked, Gate
<1> QED
  BY <1>2, SMT DEF Revoked, Dropped, Gate, SameCommand, SameMap, SameSensors,
                   SameMotion

LEMMA NotedFacts ==
    ASSUME clock \in Nat, gate \in Gate, NEW c \in Commands, ~Replayed(c)
    PROVE  LET f == Noted(c)
           IN  /\ f \in Gate
               /\ SameMap(f, gate) /\ SameGrace(f, gate)
               /\ SameSensors(f, gate) /\ SameMotion(f, gate)
               /\ f.usable = gate.usable /\ f.signal = clock - c.age
               /\ f.active \in {gate.active, NoCommand}
               /\ NewManager(c) => f.active = NoCommand
               /\ ~NewManager(c) => f.active = gate.active
               /\ ~NewManager(c) => /\ f.incarnation = gate.incarnation
                                    /\ f.incarnation = c.incarnation
                                    /\ f.sequence = c.sequence
                                    /\ f.sequence > gate.sequence
               /\ NewManager(c) =>
                    \/ /\ f.incarnation = gate.incarnation
                       /\ f.sequence = gate.sequence
                    \/ f.incarnation > gate.incarnation
<1> DEFINE heard == [gate EXCEPT !.signal = clock - c.age]
           numbered == [heard EXCEPT !.sequence = c.sequence]
           adopted == [Dropped(heard) EXCEPT !.incarnation = c.incarnation,
                                             !.sequence = c.sequence]
<1>1. clock - c.age \in Int /\ c.sequence \in Nat /\ c.incarnation \in Nat
  BY CommandFields
<1>2. heard \in Gate
  BY <1>1, Zenon DEF Gate
<1>3. Dropped(heard) \in Gate
  BY <1>2, DroppedFacts
<1>4. numbered \in Gate /\ adopted \in Gate
  BY <1>1, <1>2, <1>3, Zenon DEF Gate
<1>5. Noted(c) \in Gate
  BY <1>2, <1>3, <1>4 DEF Noted
<1> QED
  BY <1>1, <1>5, SMT DEF Noted, Dropped, NewManager, Replayed, Gate, SameMap,
                         SameGrace, SameSensors, SameMotion

-----------------------------------------------------------------------------
(* What every gate satisfies, also between the steps of a handler: nothing *)
(* lies in the future, an engaged fail stop leaves nothing to track, and a *)
(* command that is held is one the planner has not given up.               *)

HeldSound(g) ==
    Holds(g) => /\ g.active.incarnation # 0 /\ g.active.generation # 0
                /\ g.active.epoch # 0 /\ g.active.epoch = g.planner_epoch
                /\ g.active.generation <= g.planner_generation
                /\ g.active.generation > g.retired

Weak(g) ==
    /\ g \in Gate
    /\ g.fail_stop => g.trajectory = Empty
    /\ g.trajectory # Empty => g.trajectory \in 0..clock
    /\ g.last_stop <= clock /\ g.map_signal <= clock
    /\ HeldSound(g)

(* What a gate satisfies in which fail stop is not engaged.                *)
Running(g) ==
    /\ Holds(g)
    /\ g.tracking /\ g.epoch = g.active.epoch
    /\ g.trajectory \in {Empty, g.active.reference}
    /\ g.trajectory # Empty /\ g.last_stop # Never => g.trajectory > g.last_stop

Sound(g) == Weak(g) /\ (~g.fail_stop => Running(g))

LEMMA FailStoppedSound ==
    ASSUME clock \in Nat, NEW g, Weak(g), NEW r
    PROVE  Sound(FailStopped(g, r))
<1> DEFINE f == FailStopped(g, r)
<1>1. g \in Gate
  BY DEF Weak
<1>2. /\ f \in Gate /\ SameMap(f, g) /\ f.active = g.active
      /\ f.fail_stop = TRUE
      /\ g.fail_stop => f = g
      /\ ~g.fail_stop => f.trajectory = Empty
      /\ ~g.fail_stop /\ r => f.last_stop = clock
      /\ ~r => f.last_stop = g.last_stop
  BY <1>1, FailStoppedFacts
<1> HIDE DEF f
<1>3. HeldSound(f)
  BY <1>2 DEF Weak, HeldSound, Holds, SameMap
<1>4. f.trajectory = Empty
  BY <1>2 DEF Weak
<1>5. f.last_stop <= clock /\ f.map_signal <= clock
  BY <1>2 DEF Weak, SameMap
<1>6. Sound(f)
  BY <1>2, <1>3, <1>4, <1>5 DEF Sound, Weak
<1> QED BY <1>6 DEF f

(* Transformations that touch neither the map nor the motion keep the      *)
(* gate sound as far as it was, when the command stays or goes.            *)
LEMMA FrameWeak ==
    ASSUME NEW g, Weak(g), NEW f \in Gate, SameMap(f, g), SameMotion(f, g),
           f.active \in {g.active, NoCommand}
    PROVE  Weak(f)
<1>1. CASE f.active = g.active
  <2>1. HeldSound(f)
    BY <1>1 DEF Weak, HeldSound, Holds, SameMap
  <2> QED BY <2>1 DEF Weak, SameMap, SameMotion
<1>2. CASE f.active = NoCommand
  <2>1. HeldSound(f)
    BY <1>2 DEF HeldSound, Holds
  <2> QED BY <2>1 DEF Weak, SameMap, SameMotion
<1> QED BY <1>1, <1>2

-----------------------------------------------------------------------------
(* What an execution command does to the gate: the robot goes on as it     *)
(* was, or runs under the new command, or stops.                           *)

LaterOrder(f) ==
    f.incarnation = gate.incarnation /\ f.sequence > gate.sequence

SameOrLaterOrder(f) ==
    \/ f.incarnation = gate.incarnation /\ f.sequence = gate.sequence
    \/ f.incarnation > gate.incarnation
    \/ LaterOrder(f)

LivesOn(f) ==
    /\ LaterOrder(f)
    /\ ~f.fail_stop /\ SameMotion(f, gate) /\ SameGrace(f, gate)
    /\ f.active = gate.active
    /\ clock - f.signal <= ExecutionCommandTimeout

Granted(f) ==
    /\ f.supersede_deadline = Never
    /\ f.active.generation = gate.planner_generation

Honoured(f) ==
    /\ LaterOrder(f)
    /\ ~f.fail_stop /\ Granted(f) /\ f.last_stop = gate.last_stop
    /\ f.active.incarnation = f.incarnation /\ f.active.sequence = f.sequence
    /\ clock - f.signal <= ExecutionCommandTimeout
    /\ gate.map_ready /\ clock - gate.map_signal <= MapReadyTimeout
    /\ gate.gimbal = f.active.request
    /\ clock - gate.gimbal_signal <= GimbalTimeout
    /\ ~gate.fail_stop /\ gate.trajectory = gate.active.reference
          => f.trajectory = f.active.reference

Stops(f) ==
    /\ SameOrLaterOrder(f)
    /\ f.fail_stop /\ f.last_stop \in {gate.last_stop, clock}
    /\ gate.trajectory # Empty => f.last_stop = clock
    /\ Holds(f) => \/ f.active = gate.active /\ SameGrace(f, gate)
                   \/ Granted(f)

LEMMA GrantType ==
    ASSUME clock \in Nat, NEW c \in Commands
    PROVE  GrantOf(c) \in Grants /\ clock - c.pathAge \in Int
<1>1. clock - c.pathAge \in Int
  BY CommandFields
<1> QED BY <1>1, CommandFields DEF GrantOf, Grants

LEMMA AdoptedFacts ==
    ASSUME clock \in Nat, NEW g \in Gate, NEW c \in Commands
    PROVE  LET f == Adopted(g, c)
           IN  /\ f \in Gate
               /\ SameCommand(f, g) /\ SameMap(f, g)
               /\ SameSensors(f, g) /\ SameMotion(f, g)
               /\ f.active = GrantOf(c) /\ f.supersede_deadline = Never
<1>1. Adopted(g, c) \in Gate
  BY GrantType, NumberTypes, Zenon DEF Adopted, Gate
<1> QED
  BY <1>1, SMT DEF Adopted, Gate, SameCommand, SameMap, SameSensors, SameMotion

(* A command that is not replayed leaves the gate sound.                   *)
LEMMA NotedWeak ==
    ASSUME clock \in Nat, Weak(gate), NEW c \in Commands, ~Replayed(c)
    PROVE  Weak(Noted(c)) /\ SameOrLaterOrder(Noted(c))
<1>1. gate \in Gate
  BY DEF Weak
<1>2. /\ Noted(c) \in Gate /\ SameMap(Noted(c), gate)
      /\ SameMotion(Noted(c), gate)
      /\ Noted(c).active \in {gate.active, NoCommand}
  BY <1>1, NotedFacts
<1>3. SameOrLaterOrder(Noted(c))
  BY <1>1, NotedFacts DEF SameOrLaterOrder, LaterOrder
<1> QED BY <1>2, <1>3, FrameWeak

LEMMA DroppedStops ==
    ASSUME clock \in Nat, Weak(gate), NEW g, Weak(g),
           SameMap(g, gate), SameSensors(g, gate), SameMotion(g, gate),
           SameOrLaterOrder(g)
    PROVE  LET f == FailStopped(Dropped(g), TRUE)
           IN  Sound(f) /\ SameMap(f, gate) /\ SameSensors(f, gate) /\ Stops(f)
<1> DEFINE d == Dropped(g)
           f == FailStopped(d, TRUE)
<1>1. g \in Gate
  BY DEF Weak
<1>2. /\ d \in Gate /\ SameCommand(d, g) /\ SameMap(d, g)
      /\ SameSensors(d, g) /\ SameMotion(d, g) /\ d.active = NoCommand
  BY <1>1, DroppedFacts
<1> HIDE DEF d
<1>3. Weak(d)
  BY <1>2, FrameWeak
<1>4. /\ f \in Gate /\ SameCommand(f, d) /\ SameMap(f, d)
      /\ SameSensors(f, d) /\ f.active = d.active /\ f.fail_stop = TRUE
      /\ d.fail_stop => f = d
      /\ ~d.fail_stop => f.last_stop = clock
  BY <1>2, FailStoppedFacts
<1>5. Sound(f)
  BY <1>3, FailStoppedSound
<1> HIDE DEF f
<1>6. SameMap(f, gate) /\ SameSensors(f, gate)
  BY <1>2, <1>4 DEF SameMap, SameSensors
<1>7. SameOrLaterOrder(f)
  BY <1>2, <1>4 DEF SameOrLaterOrder, LaterOrder, SameCommand
<1>8. f.last_stop \in {gate.last_stop, clock}
  BY <1>2, <1>4 DEF SameMotion
<1>9. gate.trajectory # Empty => f.last_stop = clock
  BY <1>2, <1>4 DEF SameMotion, Weak
<1>10. ~Holds(f)
  BY <1>2, <1>4 DEF Holds
<1>11. Stops(f)
  BY <1>4, <1>7, <1>8, <1>9, <1>10 DEF Stops
<1> QED BY <1>5, <1>6, <1>11 DEF f, d

(* An admissible command is adopted whether or not its path is installed.  *)
LEMMA AdoptedWeak ==
    ASSUME clock \in Nat, NEW g, Weak(g), NEW c \in Commands,
           ~Malformed(c), Admissible(g, c)
    PROVE  Weak(Adopted(g, c))
<1> DEFINE f == Adopted(g, c)
<1>1. g \in Gate
  BY DEF Weak
<1>2. /\ f \in Gate /\ SameMap(f, g) /\ SameMotion(f, g) /\ f.active = GrantOf(c)
  BY <1>1, AdoptedFacts
<1> HIDE DEF f
<1>3. /\ c.epoch = g.planner_epoch /\ c.generation = g.planner_generation
      /\ c.generation # 0 /\ c.generation > g.retired /\ c.epoch # 0
  BY DEF Admissible, MapExecutionValid
<1>4. /\ f.active.incarnation = c.incarnation /\ f.active.epoch = c.epoch
      /\ f.active.generation = c.generation
  BY <1>2 DEF GrantOf
<1>5. c.generation \in Nat /\ c.incarnation # 0
  BY CommandFields DEF Malformed
<1>6. HeldSound(f)
  BY <1>2, <1>3, <1>4, <1>5 DEF HeldSound, SameMap
<1>7. Weak(f)
  BY <1>2, <1>6 DEF Weak, SameMap, SameMotion
<1> QED BY <1>7 DEF f

LEMMA AdmissibleHealth ==
    ASSUME clock \in Nat, NEW g \in Gate, NEW c \in Commands, Admissible(g, c)
    PROVE  /\ ~NewManager(c) /\ g.tracking /\ g.epoch = c.epoch
           /\ c.generation = g.planner_generation
           /\ g.map_ready /\ clock - g.map_signal <= MapReadyTimeout
           /\ g.gimbal = c.request /\ clock - g.gimbal_signal <= GimbalTimeout
BY ConfigAssumption
   DEF Admissible, MapExecutionValid, MapReadyFresh, GimbalValid, Gate

(* The path of an adopted command is installed, or was before.             *)
LEMMA AcceptedHonoured ==
    ASSUME clock \in Nat, Sound(gate), NEW c \in Commands, c.pathAge <= clock,
           ~Malformed(c), ~Replayed(c), NEW g, g = Noted(c), Admissible(g, c),
           SameReference(g, c) \/ Installable(g, c)
    PROVE  LET f == Accepted(g, c)
           IN  Sound(f) /\ SameMap(f, gate) /\ SameSensors(f, gate) /\ Honoured(f)
<1> DEFINE a == Adopted(g, c)
           path == IF SameReference(g, c) THEN a.trajectory ELSE clock - c.pathAge
           f == [a EXCEPT !.fail_stop = FALSE, !.trajectory = path]
<1>1. gate \in Gate /\ Weak(gate)
  BY DEF Sound, Weak
<1>2. ~NewManager(c)
  BY DEF Admissible
<1>3. /\ g \in Gate /\ SameMap(g, gate) /\ SameSensors(g, gate)
      /\ SameMotion(g, gate) /\ g.signal = clock - c.age
      /\ g.active = gate.active
      /\ g.incarnation = gate.incarnation /\ g.incarnation = c.incarnation
      /\ g.sequence = c.sequence /\ g.sequence > gate.sequence
  BY <1>1, <1>2, NotedFacts
<1>4. Weak(g)
  BY <1>1, NotedWeak
<1>5. /\ a \in Gate /\ SameCommand(a, g) /\ SameMap(a, g) /\ SameSensors(a, g)
      /\ SameMotion(a, g) /\ a.active = GrantOf(c)
      /\ a.supersede_deadline = Never
  BY <1>3, AdoptedFacts
<1>6. Weak(a)
  BY <1>4, AdoptedWeak
<1>7. Accepted(g, c) = f
  BY DEF Accepted
<1> HIDE DEF a
<1>8. path \in Int
  BY <1>5, GrantType DEF Gate
<1>9. path = a.trajectory \/ path = clock - c.pathAge
  OBVIOUS
<1>10. SameReference(g, c) => path = a.trajectory
  OBVIOUS
<1>11. ~SameReference(g, c) => path = clock - c.pathAge
  OBVIOUS
<1> HIDE DEF path
<1>12. f \in Gate
  BY <1>5, <1>8, Zenon DEF Gate
<1>13. /\ SameCommand(f, a) /\ SameMap(f, a) /\ SameSensors(f, a)
       /\ f.active = a.active /\ f.supersede_deadline = a.supersede_deadline
       /\ f.fail_stop = FALSE /\ f.trajectory = path /\ f.last_stop = a.last_stop
  BY <1>5, SMT DEF Gate, SameCommand, SameMap, SameSensors
<1> HIDE DEF f
<1>14. /\ c.pathAge \in Nat /\ c.age \in Int /\ c.epoch \in Nat
       /\ c.generation \in Nat /\ c.request \in Nat
  BY CommandFields
<1>15. /\ f.active.incarnation = c.incarnation /\ f.active.sequence = c.sequence
       /\ f.active.epoch = c.epoch /\ f.active.generation = c.generation
       /\ f.active.request = c.request
       /\ f.active.reference = clock - c.pathAge
  BY <1>5, <1>13 DEF GrantOf
<1>16. c.age <= ExecutionCommandTimeout
  BY <1>14, ConfigAssumption DEF Malformed
<1>17. /\ g.tracking /\ g.epoch = c.epoch
       /\ c.generation = g.planner_generation
       /\ g.map_ready /\ clock - g.map_signal <= MapReadyTimeout
       /\ g.gimbal = c.request /\ clock - g.gimbal_signal <= GimbalTimeout
  BY <1>3, AdmissibleHealth
<1>18. SameReference(g, c) => gate.active.reference = clock - c.pathAge
  BY <1>3 DEF SameReference
<1>19. ~gate.fail_stop /\ SameReference(g, c)
         => path \in {Empty, clock - c.pathAge}
  BY <1>3, <1>5, <1>10, <1>18 DEF Sound, Running, SameMotion
<1>20. gate.fail_stop /\ SameReference(g, c) => path = Empty
  BY <1>3, <1>5, <1>10 DEF Sound, Weak, SameMotion
<1>21. path \in {Empty, clock - c.pathAge}
  BY <1>11, <1>19, <1>20
<1>22. path # Empty /\ f.last_stop # Never => path > f.last_stop
  <2>1. CASE SameReference(g, c)
    BY <2>1, <1>3, <1>5, <1>10, <1>13, <1>20 DEF Sound, Running, SameMotion
  <2>2. CASE ~SameReference(g, c)
    BY <2>2, <1>3, <1>5, <1>11, <1>13 DEF Installable, SameMotion
  <2> QED BY <2>1, <2>2
<1>23. Holds(f)
  <2>1. f.active.incarnation # 0
    BY <1>14, <1>15, CommandFields DEF Malformed
  <2> QED BY <2>1 DEF Holds, NoCommand
<1>24. Running(f)
  BY <1>3, <1>5, <1>13, <1>15, <1>17, <1>21, <1>22, <1>23
     DEF Running, SameSensors
<1>25. Weak(f)
  <2>1. HeldSound(f)
    BY <1>6, <1>13 DEF Weak, HeldSound, Holds, SameMap
  <2>2. path # Empty => path \in 0..clock
    BY <1>14, <1>21
  <2>3. f.last_stop <= clock /\ f.map_signal <= clock
    BY <1>6, <1>13 DEF Weak, SameMap
  <2> QED BY <1>12, <1>13, <2>1, <2>2, <2>3 DEF Weak
<1>26. SameMap(f, gate) /\ SameSensors(f, gate)
  BY <1>3, <1>5, <1>13 DEF SameMap, SameSensors
<1>27. LaterOrder(f)
  BY <1>3, <1>5, <1>13 DEF LaterOrder, SameCommand
<1>28. f.active.incarnation = f.incarnation /\ f.active.sequence = f.sequence
  BY <1>3, <1>5, <1>13, <1>15 DEF SameCommand
<1>29. clock - f.signal <= ExecutionCommandTimeout
  BY <1>3, <1>5, <1>13, <1>14, <1>16, ConfigAssumption DEF SameCommand
<1>30. f.last_stop = gate.last_stop /\ Granted(f)
  BY <1>3, <1>5, <1>13, <1>15, <1>17 DEF SameMotion, Granted, SameMap
<1>31. ASSUME ~gate.fail_stop, gate.trajectory = gate.active.reference
       PROVE  f.trajectory = f.active.reference
  BY <1>31, <1>3, <1>5, <1>10, <1>11, <1>13, <1>15, <1>18 DEF SameMotion
<1>32. Honoured(f)
  BY <1>3, <1>13, <1>15, <1>17, <1>27, <1>28, <1>29, <1>30, <1>31
     DEF Honoured, SameMap, SameSensors
<1> QED BY <1>7, <1>13, <1>24, <1>25, <1>26, <1>32 DEF Sound

(* A path that cannot be installed stops a command that stays adopted.     *)
LEMMA UninstallableStops ==
    ASSUME clock \in Nat, Sound(gate), NEW c \in Commands,
           ~Malformed(c), ~Replayed(c), NEW g, g = Noted(c), Admissible(g, c)
    PROVE  LET f == FailStopped(Adopted(g, c), TRUE)
           IN  Sound(f) /\ SameMap(f, gate) /\ SameSensors(f, gate) /\ Stops(f)
<1> DEFINE a == Adopted(g, c)
           f == FailStopped(a, TRUE)
<1>1. gate \in Gate /\ Weak(gate)
  BY DEF Sound, Weak
<1>2. ~NewManager(c)
  BY DEF Admissible
<1>3. /\ g \in Gate /\ SameMap(g, gate) /\ SameSensors(g, gate)
      /\ SameMotion(g, gate)
      /\ g.incarnation = gate.incarnation /\ g.sequence > gate.sequence
  BY <1>1, <1>2, NotedFacts
<1>4. Weak(g)
  BY <1>1, NotedWeak
<1>5. /\ a \in Gate /\ SameCommand(a, g) /\ SameMap(a, g) /\ SameSensors(a, g)
      /\ SameMotion(a, g) /\ a.active = GrantOf(c)
      /\ a.supersede_deadline = Never
  BY <1>3, AdoptedFacts
<1>6. Weak(a)
  BY <1>4, AdoptedWeak
<1> HIDE DEF a
<1>7. /\ f \in Gate /\ SameCommand(f, a) /\ SameMap(f, a) /\ SameGrace(f, a)
      /\ SameSensors(f, a) /\ f.active = a.active /\ f.fail_stop = TRUE
      /\ a.fail_stop => f = a
      /\ ~a.fail_stop => f.last_stop = clock
  BY <1>5, FailStoppedFacts
<1>8. Sound(f)
  BY <1>6, FailStoppedSound
<1> HIDE DEF f
<1>9. SameMap(f, gate) /\ SameSensors(f, gate)
  BY <1>3, <1>5, <1>7 DEF SameMap, SameSensors
<1>10. SameOrLaterOrder(f)
  BY <1>3, <1>5, <1>7 DEF SameOrLaterOrder, LaterOrder, SameCommand
<1>11. f.last_stop \in {gate.last_stop, clock}
  BY <1>3, <1>5, <1>7 DEF SameMotion
<1>12. gate.trajectory # Empty => f.last_stop = clock
  BY <1>1, <1>3, <1>5, <1>7 DEF SameMotion, Weak
<1>13. Granted(f)
  <2>1. c.generation = g.planner_generation
    BY <1>3, AdmissibleHealth
  <2> QED BY <2>1, <1>3, <1>5, <1>7 DEF Granted, GrantOf, SameMap, SameGrace
<1>14. Stops(f)
  BY <1>7, <1>10, <1>11, <1>12, <1>13 DEF Stops
<1> QED BY <1>8, <1>9, <1>14 DEF f, a

(* A heartbeat of the superseded generation only renews the lease.         *)
LEMMA ToleratedLivesOn ==
    ASSUME clock \in Nat, Sound(gate), NEW c \in Commands,
           ~Malformed(c), ~Replayed(c), GraceHeartbeat(Noted(c), c)
    PROVE  LET f == Tolerated(c)
           IN  Sound(f) /\ SameMap(f, gate) /\ SameSensors(f, gate) /\ LivesOn(f)
<1> DEFINE f == Noted(c)
<1>1. gate \in Gate /\ Weak(gate)
  BY DEF Sound, Weak
<1>2. ~NewManager(c) /\ GraceActive(f)
  BY DEF GraceHeartbeat
<1>3. /\ f \in Gate /\ SameMap(f, gate) /\ SameGrace(f, gate)
      /\ SameSensors(f, gate) /\ SameMotion(f, gate) /\ f.signal = clock - c.age
      /\ f.active = gate.active
      /\ f.incarnation = gate.incarnation /\ f.sequence > gate.sequence
  BY <1>1, <1>2, NotedFacts
<1>4. Weak(f)
  BY <1>1, NotedWeak
<1>5. ~f.fail_stop /\ Holds(f)
  BY <1>2 DEF GraceActive
<1>6. clock - f.signal <= ExecutionCommandTimeout
  BY <1>3, CommandFields, ConfigAssumption DEF Malformed
<1> HIDE DEF f
<1>7. Running(f)
  BY <1>3, <1>5 DEF Sound, Running, Holds, SameMotion, SameSensors
<1>8. LivesOn(f)
  BY <1>3, <1>5, <1>6 DEF LivesOn, LaterOrder
<1> QED BY <1>3, <1>4, <1>7, <1>8 DEF Sound, f, Tolerated

LEMMA CommandedFacts ==
    ASSUME clock \in Nat, Sound(gate), NEW c \in Commands, c.pathAge <= clock
    PROVE  LET f == Commanded(c)
           IN  /\ Sound(f) /\ SameMap(f, gate) /\ SameSensors(f, gate)
               /\ LivesOn(f) \/ Honoured(f) \/ Stops(f)
<1>1. gate \in Gate /\ Weak(gate)
  BY DEF Sound, Weak
<1>2. SameMap(gate, gate) /\ SameSensors(gate, gate) /\ SameMotion(gate, gate)
      /\ SameOrLaterOrder(gate)
  BY DEF SameMap, SameSensors, SameMotion, SameOrLaterOrder
<1>3. CASE Malformed(c)
  <2> DEFINE f == FailStopped(gate, TRUE)
  <2>1. Sound(f)
    BY <1>1, FailStoppedSound
  <2>2. /\ SameCommand(f, gate) /\ SameMap(f, gate) /\ SameGrace(f, gate)
        /\ SameSensors(f, gate) /\ f.active = gate.active /\ f.fail_stop = TRUE
        /\ gate.fail_stop => f = gate
        /\ ~gate.fail_stop => f.last_stop = clock
    BY <1>1, FailStoppedFacts
  <2> HIDE DEF f
  <2>3. Stops(f)
    BY <1>1, <2>2 DEF Stops, SameOrLaterOrder, SameCommand, Weak
  <2>4. f = Commanded(c)
    BY <1>3 DEF f, Commanded
  <2> QED BY <2>1, <2>2, <2>3, <2>4
<1>4. CASE ~Malformed(c) /\ Replayed(c)
  <2>1. Commanded(c) = FailStopped(Dropped(gate), TRUE)
    BY <1>4 DEF Commanded
  <2> QED BY <1>1, <1>2, <2>1, DroppedStops
<1>5. CASE ~Malformed(c) /\ ~Replayed(c) /\ GraceHeartbeat(Noted(c), c)
  <2>1. Commanded(c) = Tolerated(c)
    BY <1>5 DEF Commanded
  <2> QED BY <1>5, <2>1, ToleratedLivesOn
<1>6. CASE /\ ~Malformed(c) /\ ~Replayed(c) /\ ~GraceHeartbeat(Noted(c), c)
           /\ Admissible(Noted(c), c)
  <2> DEFINE g == Noted(c)
  <2>1. Commanded(c) = Accepted(g, c)
    BY <1>6 DEF Commanded
  <2> HIDE DEF g
  <2>2. CASE SameReference(g, c) \/ Installable(g, c)
    BY <1>6, <2>1, <2>2, AcceptedHonoured DEF g
  <2>3. CASE ~SameReference(g, c) /\ ~Installable(g, c)
    <3>1. Commanded(c) = FailStopped(Adopted(g, c), TRUE)
      BY <2>1, <2>3 DEF Accepted
    <3> QED BY <1>6, <3>1, UninstallableStops DEF g
  <2> QED BY <2>2, <2>3
<1>7. CASE /\ ~Malformed(c) /\ ~Replayed(c) /\ ~GraceHeartbeat(Noted(c), c)
           /\ ~Admissible(Noted(c), c)
  <2>1. Commanded(c) = FailStopped(Dropped(Noted(c)), TRUE)
    BY <1>7 DEF Commanded
  <2>2. /\ SameMap(Noted(c), gate) /\ SameSensors(Noted(c), gate)
        /\ SameMotion(Noted(c), gate)
    BY <1>1, <1>7, NotedFacts
  <2>3. Weak(Noted(c)) /\ SameOrLaterOrder(Noted(c))
    BY <1>1, <1>7, NotedWeak
  <2> QED BY <1>1, <2>1, <2>2, <2>3, DroppedStops
<1> QED BY <1>3, <1>4, <1>5, <1>6, <1>7

-----------------------------------------------------------------------------
(* What a planner status does to the gate.                                 *)

SameHeartbeat(f, g) == f.map_ready = g.map_ready /\ f.map_signal = g.map_signal

LEMMA StatusFields ==
    ASSUME NEW s \in Statuses
    PROVE  s.epoch \in Nat /\ s.generation \in Nat /\ s.stamp \in Nat
BY InputAssumption DEF Statuses

LEMMA IdentifiedFacts ==
    ASSUME gate \in Gate, NEW s \in Statuses
    PROVE  LET f == Identified(s)
           IN  /\ f \in Gate
               /\ SameCommand(f, gate) /\ SameGrace(f, gate)
               /\ SameSensors(f, gate) /\ SameMotion(f, gate)
               /\ SameHeartbeat(f, gate) /\ f.active = gate.active
               /\ f.lease_generation = gate.lease_generation
               /\ f.planner_epoch = s.epoch
               /\ f.planner_generation = s.generation
               /\ ChangedEpoch(s) => f.retired = 0
               /\ ~ChangedEpoch(s) => f.retired = gate.retired
<1> DEFINE floor == IF ChangedEpoch(s) THEN 0 ELSE gate.retired
           usable == gate.usable /\ ~ChangedIdentity(s)
<1>1. floor \in Nat /\ usable \in BOOLEAN
  BY DEF Gate
<1>2. /\ ChangedEpoch(s) => floor = 0
      /\ ~ChangedEpoch(s) => floor = gate.retired
  OBVIOUS
<1>3. Identified(s) =
        [gate EXCEPT !.planner_epoch = s.epoch,
                     !.planner_generation = s.generation,
                     !.planner_stamp = s.stamp,
                     !.retired = floor, !.usable = usable]
  BY DEF Identified
<1> HIDE DEF floor, usable
<1>4. Identified(s) \in Gate
  <2>1. s.epoch \in Nat /\ s.generation \in Nat /\ s.stamp \in Nat
    BY StatusFields
  <2>2. [gate EXCEPT !.planner_epoch = s.epoch,
                     !.planner_generation = s.generation,
                     !.planner_stamp = s.stamp,
                     !.retired = floor, !.usable = usable] \in Gate
    BY <1>1, <2>1, ZenonT(60) DEF Gate
  <2> QED BY <1>3, <2>2
<1> QED
  BY <1>2, <1>3, <1>4, SMT DEF Gate, SameCommand, SameGrace, SameSensors,
                               SameMotion, SameHeartbeat

LEMMA ReadiedFacts ==
    ASSUME NEW g \in Gate
    PROVE  LET f == Readied(g)
           IN  /\ f \in Gate
               /\ SameCommand(f, g) /\ SameGrace(f, g)
               /\ SameSensors(f, g) /\ SameMotion(f, g) /\ SameHeartbeat(f, g)
               /\ f.active = g.active
               /\ f.planner_epoch = g.planner_epoch
               /\ f.planner_generation = g.planner_generation
               /\ f.retired = g.retired
               /\ g.planner_generation > g.retired /\ MapReadyFresh(g)
                    => f.lease_generation = g.planner_generation
               /\ ~MapReadyFresh(g) => f.lease_generation = g.lease_generation
<1> DEFINE usable == g.planner_generation > g.retired
           covered == IF usable /\ MapReadyFresh(g)
                      THEN g.planner_generation ELSE g.lease_generation
<1>1. usable \in BOOLEAN /\ covered \in Nat
  BY DEF Gate
<1>2. /\ g.planner_generation > g.retired /\ MapReadyFresh(g)
           => covered = g.planner_generation
      /\ ~MapReadyFresh(g) => covered = g.lease_generation
  OBVIOUS
<1>3. Readied(g) = [g EXCEPT !.usable = usable, !.lease_generation = covered]
  BY DEF Readied
<1> HIDE DEF usable, covered
<1>4. Readied(g) \in Gate
  BY <1>1, <1>3, Zenon DEF Gate
<1> QED
  BY <1>2, <1>3, <1>4, SMT DEF Gate, SameCommand, SameGrace, SameSensors,
                               SameMotion, SameHeartbeat

LEMMA GraceOpenedFacts ==
    ASSUME clock \in Nat, NEW g \in Gate
    PROVE  LET f == GraceOpened(g)
           IN  /\ f \in Gate
               /\ SameCommand(f, g) /\ SameMap(f, g)
               /\ SameSensors(f, g) /\ SameMotion(f, g) /\ f.active = g.active
               /\ g.supersede_deadline # Never => SameGrace(f, g)
               /\ g.supersede_deadline = Never
                    => /\ f.supersede_deadline = clock + SupersedeGrace
                       /\ f.superseded = g.active.generation
<1> DEFINE opened == [g EXCEPT !.supersede_deadline = clock + SupersedeGrace,
                              !.superseded = g.active.generation]
<1>1. clock + SupersedeGrace \in Int
  BY ConfigAssumption
<1>2. g.active.generation \in Nat
  BY DEF Gate, Grants
<1>3. opened \in Gate
  BY <1>1, <1>2, Zenon DEF Gate
<1>4. CASE g.supersede_deadline # Never
  BY <1>4 DEF GraceOpened, SameCommand, SameMap, SameSensors, SameMotion,
              SameGrace
<1>5. CASE g.supersede_deadline = Never
  <2>1. GraceOpened(g) = opened
    BY <1>5 DEF GraceOpened
  <2> QED
    BY <1>3, <1>5, <2>1, SMT DEF Gate, SameCommand, SameMap, SameSensors, SameMotion
<1> QED BY <1>4, <1>5

(* Giving a generation up with its map.                                    *)
LEMMA LargerFacts ==
    ASSUME NEW a \in Nat, NEW b \in Nat
    PROVE  Larger(a, b) \in Nat /\ Larger(a, b) >= a /\ Larger(a, b) >= b
BY DEF Larger

LEMMA GivenUpFacts ==
    ASSUME NEW g \in Gate, NEW floor \in Nat
    PROVE  LET f == [Revoked(g) EXCEPT !.usable = FALSE, !.retired = floor]
           IN  /\ f \in Gate
               /\ SameCommand(f, g) /\ SameSensors(f, g) /\ SameMotion(f, g)
               /\ SameHeartbeat(f, g) /\ f.active = NoCommand
               /\ f.planner_epoch = g.planner_epoch
               /\ f.planner_generation = g.planner_generation
               /\ f.lease_generation = g.lease_generation
               /\ f.retired = floor
<1> DEFINE r == Revoked(g)
<1>1. /\ r \in Gate /\ SameCommand(r, g) /\ SameMap(r, g) /\ SameSensors(r, g)
      /\ SameMotion(r, g) /\ r.active = NoCommand
  BY RevokedFacts
<1> HIDE DEF r
<1>2. [r EXCEPT !.usable = FALSE, !.retired = floor] \in Gate
  BY <1>1, Zenon DEF Gate
<1>3. LET f == [r EXCEPT !.usable = FALSE, !.retired = floor]
      IN  /\ f \in Gate
          /\ SameCommand(f, g) /\ SameSensors(f, g) /\ SameMotion(f, g)
          /\ SameHeartbeat(f, g) /\ f.active = NoCommand
          /\ f.planner_epoch = g.planner_epoch
          /\ f.planner_generation = g.planner_generation
          /\ f.lease_generation = g.lease_generation
          /\ f.retired = floor
  BY <1>1, <1>2, SMT DEF Gate, SameCommand, SameMap, SameSensors, SameMotion,
                         SameHeartbeat
<1> QED BY <1>3 DEF r

(* A map version that no longer drives the robot in g does not in f.       *)
OutOfForce(g, id) ==
    \/ id[1] < g.planner_epoch
    \/ /\ id[1] = g.planner_epoch
       /\ id[2] <= g.retired \/ (MapLapsed(g) /\ id[2] <= LeaseFloor(g))

(* The version a map heartbeat last stood for.                             *)
Covered(g, id) ==
    \/ id[1] < g.planner_epoch
    \/ id[1] = g.planner_epoch /\ (id[2] <= g.retired \/ id[2] <= LeaseFloor(g))

Pairs == Nat \X Nat

(* The map's identity only moves on.                                       *)
Onward(f, g) ==
    \A id \in Pairs : OutOfForce(g, id) => OutOfForce(f, id)

CoverKept(f, g) ==
    \A id \in Pairs : Covered(g, id) => Covered(f, id)

LEMMA SameMapOnward ==
    ASSUME NEW f, NEW g, SameMap(f, g) PROVE Onward(f, g) /\ CoverKept(f, g)
<1>1. MapLapsed(f) = MapLapsed(g) /\ LeaseFloor(f) = LeaseFloor(g)
  BY DEF SameMap, MapLapsed, MapReadyFresh, LeaseFloor
<1> QED BY <1>1 DEF SameMap, Onward, CoverKept, OutOfForce, Covered

(* The outcomes of a status that is not ignored, f being the gate after it.*)
Renewed(s) == <<s.epoch, s.generation>>

MapMoves(f, s) ==
    /\ Onward(f, gate) /\ SameHeartbeat(f, gate)
    /\ f.planner_epoch = s.epoch /\ f.planner_generation = s.generation
    /\ s.verdict = "READY" /\ MapReadyFresh(gate) => Covered(f, Renewed(s))
    /\ s.verdict # "READY" \/ ~MapReadyFresh(gate) => CoverKept(f, gate)
    /\ s.verdict = "MAP_UNREADY" => OutOfForce(f, Renewed(s))

GoesOn(f, s) ==
    /\ SameMotion(f, gate) /\ f.active = gate.active
    /\ ~ChangedEpoch(s) /\ s.verdict = "READY"
    /\ ~ChangedIdentity(s) => SameGrace(f, gate)
    /\ ChangedIdentity(s) =>
         /\ ~gate.fail_stop
         /\ gate.supersede_deadline # Never => SameGrace(f, gate)
         /\ gate.supersede_deadline = Never
              => /\ f.supersede_deadline = clock + SupersedeGrace
                 /\ f.superseded = gate.active.generation

Ends(f, s) ==
    /\ f.fail_stop /\ ~Holds(f)
    /\ s.verdict # "READY" \/ ChangedEpoch(s) =>
         /\ gate.trajectory # Empty => f.last_stop = clock
    /\ f.last_stop \in {gate.last_stop, clock}

(* A status moves the map's identity on whatever it does to the motion.    *)
LEMMA MapMovesOn ==
    ASSUME clock \in Nat, gate \in Gate, NEW s \in Statuses, ~StatusIgnored(s),
           NEW f \in Gate, SameHeartbeat(f, gate),
           f.planner_epoch = s.epoch, f.planner_generation = s.generation,
           ~ChangedEpoch(s) => f.retired >= gate.retired,
           s.verdict = "MAP_UNREADY" => f.retired >= s.generation,
           s.verdict = "READY" /\ MapReadyFresh(gate)
              => f.retired >= s.generation \/ f.lease_generation = s.generation,
           s.verdict # "READY" \/ ~MapReadyFresh(gate)
              => f.lease_generation = gate.lease_generation
    PROVE  MapMoves(f, s)
<1>1. s.epoch \in Nat /\ s.generation \in Nat
  BY StatusFields
<1>2. /\ s.epoch >= gate.planner_epoch
      /\ ChangedEpoch(s) \/ s.generation >= gate.planner_generation
      /\ ~ChangedEpoch(s) => s.epoch = gate.planner_epoch
  BY <1>1 DEF StatusIgnored, ChangedEpoch, Gate
<1>3. MapLapsed(f) = MapLapsed(gate) /\ MapReadyFresh(f) = MapReadyFresh(gate)
  BY DEF MapLapsed, MapReadyFresh, SameHeartbeat
<1>4. LeaseFloor(gate) \in Nat /\ LeaseFloor(f) \in Nat
  BY DEF LeaseFloor, Gate
<1>5. f.lease_generation = gate.lease_generation /\ ~ChangedEpoch(s)
        => LeaseFloor(f) >= LeaseFloor(gate)
  BY <1>1, <1>2 DEF LeaseFloor, Gate
<1>6. MapLapsed(gate) => ~MapReadyFresh(gate)
  BY DEF MapLapsed
<1>7. Onward(f, gate)
  <2> SUFFICES ASSUME NEW id \in Pairs, OutOfForce(gate, id)
               PROVE  OutOfForce(f, id)
    BY DEF Onward
  <2>1. id[1] \in Nat /\ id[2] \in Nat
    BY DEF Pairs
  <2>2. CASE ChangedEpoch(s)
    BY <1>1, <1>2, <2>1, <2>2 DEF OutOfForce, ChangedEpoch, Gate
  <2>3. CASE ~ChangedEpoch(s)
    BY <1>1, <1>2, <1>3, <1>4, <1>5, <1>6, <2>1, <2>3 DEF OutOfForce, Gate
  <2> QED BY <2>2, <2>3
<1>8. s.verdict # "READY" \/ ~MapReadyFresh(gate) => CoverKept(f, gate)
  <2> SUFFICES ASSUME s.verdict # "READY" \/ ~MapReadyFresh(gate),
                      NEW id \in Pairs, Covered(gate, id)
               PROVE  Covered(f, id)
    BY DEF CoverKept
  <2>1. id[1] \in Nat /\ id[2] \in Nat
    BY DEF Pairs
  <2>2. CASE ChangedEpoch(s)
    BY <1>1, <1>2, <2>1, <2>2 DEF Covered, ChangedEpoch, Gate
  <2>3. CASE ~ChangedEpoch(s)
    BY <1>1, <1>2, <1>4, <1>5, <2>1, <2>3 DEF Covered, Gate
  <2> QED BY <2>2, <2>3
<1>9. ASSUME s.verdict = "READY", MapReadyFresh(gate)
      PROVE  Covered(f, Renewed(s))
  <2>1. f.lease_generation = s.generation => LeaseFloor(f) = s.generation
    BY DEF LeaseFloor
  <2> QED BY <1>1, <1>9, <2>1 DEF Covered, Renewed
<1>10. s.verdict = "MAP_UNREADY" => OutOfForce(f, Renewed(s))
  BY <1>1 DEF OutOfForce, Renewed
<1> QED BY <1>7, <1>8, <1>9, <1>10 DEF MapMoves

(* Whatever leaves no command held is sound once fail stop is engaged.     *)
LEMMA EmptiedWeak ==
    ASSUME Weak(gate), NEW f \in Gate, SameMotion(f, gate), f.active = NoCommand,
           f.map_signal = gate.map_signal
    PROVE  Weak(f)
BY DEF Weak, HeldSound, Holds, SameMotion

LEMMA EndedFacts ==
    ASSUME clock \in Nat, Weak(gate), NEW s, NEW r, r \in BOOLEAN, NEW g \in Gate,
           SameCommand(g, gate), SameSensors(g, gate), SameMotion(g, gate),
           SameHeartbeat(g, gate), g.active = NoCommand,
           MapMoves(g, s), s.verdict # "READY" \/ ChangedEpoch(s) => r
    PROVE  LET f == FailStopped(g, r)
           IN  /\ Sound(f) /\ SameCommand(f, gate) /\ SameSensors(f, gate)
               /\ MapMoves(f, s) /\ Ends(f, s)
<1> DEFINE f == FailStopped(g, r)
<1>1. Weak(g)
  BY EmptiedWeak DEF SameHeartbeat
<1>2. Sound(f)
  BY <1>1, FailStoppedSound
<1>3. /\ f \in Gate /\ SameCommand(f, g) /\ SameMap(f, g)
      /\ SameSensors(f, g) /\ f.active = g.active /\ f.fail_stop = TRUE
      /\ g.fail_stop => f = g
      /\ ~g.fail_stop /\ r => f.last_stop = clock
      /\ ~r => f.last_stop = g.last_stop
  BY FailStoppedFacts
<1> HIDE DEF f
<1>4. SameCommand(f, gate) /\ SameSensors(f, gate)
  BY <1>3 DEF SameCommand, SameSensors
<1>5. MapMoves(f, s)
  <2>1. MapLapsed(f) = MapLapsed(g) /\ LeaseFloor(f) = LeaseFloor(g)
    BY <1>3 DEF SameMap, MapLapsed, MapReadyFresh, LeaseFloor
  <2> QED
    BY <1>3, <2>1 DEF MapMoves, Onward, CoverKept, OutOfForce, Covered, SameMap,
                      SameHeartbeat
<1>6. ~Holds(f)
  BY <1>3 DEF Holds
<1>7. f.last_stop \in {gate.last_stop, clock}
  BY <1>3 DEF SameMotion
<1>8. s.verdict # "READY" \/ ChangedEpoch(s) =>
         /\ gate.trajectory # Empty => f.last_stop = clock
  BY <1>3 DEF SameMotion, Weak
<1>9. Ends(f, s)
  BY <1>3, <1>6, <1>7, <1>8 DEF Ends
<1> QED BY <1>2, <1>4, <1>5, <1>9 DEF f

LEMMA UnusableEnds ==
    ASSUME clock \in Nat, Sound(gate), NEW s \in Statuses, ~StatusIgnored(s),
           s.verdict # "READY"
    PROVE  LET f == Reported(s)
           IN  /\ Sound(f) /\ SameCommand(f, gate) /\ SameSensors(f, gate)
               /\ MapMoves(f, s) /\ Ends(f, s)
<1> DEFINE g == Identified(s)
           floor == IF s.verdict = "MAP_UNREADY"
                    THEN Larger(g.retired, g.planner_generation) ELSE g.retired
           u == [Revoked(g) EXCEPT !.usable = FALSE, !.retired = floor]
<1>1. gate \in Gate /\ Weak(gate)
  BY DEF Sound, Weak
<1>2. /\ g \in Gate /\ SameCommand(g, gate) /\ SameSensors(g, gate)
      /\ SameMotion(g, gate) /\ SameHeartbeat(g, gate)
      /\ g.lease_generation = gate.lease_generation
      /\ g.planner_epoch = s.epoch /\ g.planner_generation = s.generation
      /\ ~ChangedEpoch(s) => g.retired = gate.retired
  BY <1>1, IdentifiedFacts
<1>3. Reported(s) = FailStopped(u, TRUE)
  BY DEF Reported
<1> HIDE DEF g
<1>4. floor \in Nat /\ floor >= g.retired
  <2>1. g.retired \in Nat /\ g.planner_generation \in Nat
    BY <1>2 DEF Gate
  <2>2. /\ Larger(g.retired, g.planner_generation) \in Nat
        /\ Larger(g.retired, g.planner_generation) >= g.retired
    BY <2>1, LargerFacts
  <2> QED BY <2>1, <2>2
<1>5. s.verdict = "MAP_UNREADY" => floor >= s.generation
  BY <1>2, LargerFacts DEF Gate
<1> HIDE DEF floor
<1>6. /\ u \in Gate /\ SameCommand(u, g) /\ SameSensors(u, g) /\ SameMotion(u, g)
      /\ SameHeartbeat(u, g) /\ u.active = NoCommand
      /\ u.planner_epoch = g.planner_epoch
      /\ u.planner_generation = g.planner_generation
      /\ u.lease_generation = g.lease_generation /\ u.retired = floor
  BY <1>2, <1>4, GivenUpFacts
<1> HIDE DEF u
<1>7. /\ SameCommand(u, gate) /\ SameSensors(u, gate) /\ SameMotion(u, gate)
      /\ SameHeartbeat(u, gate)
  BY <1>2, <1>6 DEF SameCommand, SameSensors, SameMotion, SameHeartbeat
<1>8. MapMoves(u, s)
  BY <1>1, <1>2, <1>4, <1>5, <1>6, <1>7, MapMovesOn
<1> QED BY <1>1, <1>3, <1>6, <1>7, <1>8, EndedFacts

LEMMA ReadyFacts ==
    ASSUME clock \in Nat, Sound(gate), NEW s \in Statuses, ~StatusIgnored(s),
           s.verdict = "READY"
    PROVE  LET f == Reported(s)
           IN  /\ Sound(f) /\ SameCommand(f, gate) /\ SameSensors(f, gate)
               /\ MapMoves(f, s) /\ (GoesOn(f, s) \/ Ends(f, s))
<1> DEFINE g == Identified(s)
           ready == Readied(g)
<1>1. gate \in Gate /\ Weak(gate)
  BY DEF Sound, Weak
<1>2. /\ g \in Gate /\ SameCommand(g, gate) /\ SameGrace(g, gate)
      /\ SameSensors(g, gate) /\ SameMotion(g, gate) /\ SameHeartbeat(g, gate)
      /\ g.active = gate.active
      /\ g.lease_generation = gate.lease_generation
      /\ g.planner_epoch = s.epoch /\ g.planner_generation = s.generation
      /\ ~ChangedEpoch(s) => g.retired = gate.retired
  BY <1>1, IdentifiedFacts
<1>3. Reported(s) = IF Graced(ready, s) THEN GraceOpened(ready)
                    ELSE IF ChangedIdentity(s)
                    THEN FailStopped(Revoked(ready), ~SupersededOnly(s))
                    ELSE ready
  BY DEF Reported
<1> HIDE DEF g
<1>4. /\ ready \in Gate /\ SameCommand(ready, g) /\ SameGrace(ready, g)
      /\ SameSensors(ready, g) /\ SameMotion(ready, g) /\ SameHeartbeat(ready, g)
      /\ ready.active = g.active
      /\ ready.planner_epoch = g.planner_epoch
      /\ ready.planner_generation = g.planner_generation
      /\ ready.retired = g.retired
      /\ g.planner_generation > g.retired /\ MapReadyFresh(g)
           => ready.lease_generation = g.planner_generation
      /\ ~MapReadyFresh(g) => ready.lease_generation = g.lease_generation
  BY <1>2, ReadiedFacts
<1> HIDE DEF ready
<1>5. /\ SameCommand(ready, gate) /\ SameGrace(ready, gate)
      /\ SameSensors(ready, gate) /\ SameMotion(ready, gate)
      /\ SameHeartbeat(ready, gate)
  BY <1>2, <1>4 DEF SameCommand, SameGrace, SameSensors, SameMotion, SameHeartbeat
<1>6. MapReadyFresh(g) = MapReadyFresh(gate)
  BY <1>2 DEF MapReadyFresh, SameHeartbeat
<1>7. s.generation \in Nat /\ s.epoch \in Nat
  BY StatusFields
<1>8. MapMoves(ready, s)
  BY <1>1, <1>2, <1>4, <1>5, <1>6, <1>7, MapMovesOn DEF Gate
<1>9. ASSUME NEW f \in Gate, SameMap(f, ready)
      PROVE  MapMoves(f, s)
  <2>1. MapLapsed(f) = MapLapsed(ready) /\ LeaseFloor(f) = LeaseFloor(ready)
    BY <1>9 DEF SameMap, MapLapsed, MapReadyFresh, LeaseFloor
  <2> QED
    BY <1>8, <1>9, <2>1 DEF MapMoves, Onward, CoverKept, OutOfForce, Covered,
                            SameMap, SameHeartbeat
<1>10. CASE Graced(ready, s)
  <2> DEFINE f == GraceOpened(ready)
  <2>1. /\ f \in Gate /\ SameCommand(f, ready) /\ SameMap(f, ready)
        /\ SameSensors(f, ready) /\ SameMotion(f, ready)
        /\ f.active = ready.active
        /\ ready.supersede_deadline # Never => SameGrace(f, ready)
        /\ ready.supersede_deadline = Never
             => /\ f.supersede_deadline = clock + SupersedeGrace
                /\ f.superseded = ready.active.generation
    BY <1>4, GraceOpenedFacts
  <2> HIDE DEF f
  <2>2. /\ ChangedIdentity(s) /\ ~ChangedEpoch(s) /\ ~gate.fail_stop
    BY <1>5, <1>10 DEF Graced, SupersededOnly, SameMotion
  <2>3. s.generation > gate.planner_generation /\ s.epoch = gate.planner_epoch
    BY <1>1, <1>7, <2>2 DEF ChangedIdentity, ChangedEpoch, StatusIgnored, Gate
  <2>4. f.active = gate.active /\ SameMotion(f, gate) /\ SameSensors(f, gate)
        /\ SameCommand(f, gate)
    BY <1>2, <1>4, <1>5, <2>1 DEF SameMotion, SameSensors, SameCommand
  <2>5. HeldSound(f)
    <3>1. gate.active.generation \in Nat
      BY <1>1 DEF Gate, Grants
    <3> QED
      BY <1>1, <1>2, <1>4, <1>7, <2>1, <2>2, <2>3, <2>4, <3>1
         DEF Weak, HeldSound, Holds, SameMap, Gate
  <2>6. Weak(f)
    BY <1>1, <1>5, <2>1, <2>4, <2>5 DEF Weak, SameMotion, SameMap, SameHeartbeat
  <2>7. Running(f)
    BY <2>2, <2>4 DEF Sound, Running, SameMotion, SameSensors, Holds
  <2>8. GoesOn(f, s)
    BY <1>2, <1>4, <1>5, <2>1, <2>2, <2>4 DEF GoesOn, SameGrace
  <2>9. MapMoves(f, s)
    BY <1>9, <2>1
  <2>10. Reported(s) = f
    BY <1>3, <1>10 DEF f
  <2> QED BY <2>4, <2>6, <2>7, <2>8, <2>9, <2>10 DEF Sound
<1>11. CASE ~Graced(ready, s) /\ ChangedIdentity(s)
  <2> DEFINE r == Revoked(ready)
             recorded == ~SupersededOnly(s)
  <2>1. /\ r \in Gate /\ SameCommand(r, ready) /\ SameMap(r, ready)
        /\ SameSensors(r, ready) /\ SameMotion(r, ready) /\ r.active = NoCommand
    BY <1>4, RevokedFacts
  <2>2. Reported(s) = FailStopped(r, recorded)
    BY <1>3, <1>11
  <2>3. ChangedEpoch(s) => recorded
    BY DEF SupersededOnly
  <2>4. recorded \in BOOLEAN
    OBVIOUS
  <2> HIDE DEF r, recorded
  <2>5. /\ SameCommand(r, gate) /\ SameSensors(r, gate) /\ SameMotion(r, gate)
        /\ SameHeartbeat(r, gate)
    BY <1>5, <2>1 DEF SameCommand, SameSensors, SameMotion, SameHeartbeat, SameMap
  <2>6. MapMoves(r, s)
    BY <1>9, <2>1
  <2> QED BY <1>1, <2>1, <2>2, <2>3, <2>4, <2>5, <2>6, EndedFacts
<1>12. CASE ~ChangedIdentity(s)
  <2>1. Reported(s) = ready
    BY <1>3, <1>12 DEF Graced, SupersededOnly
  <2>2. s.epoch = gate.planner_epoch /\ s.generation = gate.planner_generation
    BY <1>1, <1>7, <1>12 DEF ChangedIdentity, ChangedEpoch, StatusIgnored, Gate
  <2>3. ~ChangedEpoch(s)
    BY <1>12 DEF ChangedIdentity
  <2>4. HeldSound(ready)
    BY <1>1, <1>2, <1>4, <2>2, <2>3 DEF Weak, HeldSound, Holds
  <2>5. Weak(ready)
    BY <1>1, <1>4, <1>5, <2>4 DEF Weak, SameMotion, SameHeartbeat
  <2>6. ~ready.fail_stop => Running(ready)
    BY <1>2, <1>4, <1>5 DEF Sound, Running, SameMotion, SameSensors, Holds
  <2>7. GoesOn(ready, s)
    BY <1>2, <1>4, <1>5, <1>12, <2>3 DEF GoesOn
  <2> QED BY <1>5, <1>8, <2>1, <2>5, <2>6, <2>7 DEF Sound
<1> QED BY <1>10, <1>11, <1>12

-----------------------------------------------------------------------------
(* What a map heartbeat does to the gate.                                  *)

Heard(g, ready) ==
    [g EXCEPT !.map_ready = ready, !.map_signal = clock,
              !.lease_generation = IF ready THEN g.planner_generation ELSE @]

HeartbeatKeeps(f) ==
    /\ SameMotion(f, gate) /\ SameGrace(f, gate) /\ f.active = gate.active
    /\ f.map_ready

HeartbeatStops(f) ==
    /\ f.fail_stop /\ ~Holds(f)
    /\ f.last_stop \in {gate.last_stop, clock}
    /\ gate.trajectory # Empty => f.last_stop = clock

LEMMA HeardFacts ==
    ASSUME clock \in Nat, NEW g \in Gate, NEW ready \in BOOLEAN
    PROVE  LET f == Heard(g, ready)
           IN  /\ f \in Gate
               /\ SameCommand(f, g) /\ SameGrace(f, g) /\ SameSensors(f, g)
               /\ SameMotion(f, g) /\ f.active = g.active
               /\ f.planner_epoch = g.planner_epoch
               /\ f.planner_generation = g.planner_generation
               /\ f.retired = g.retired
               /\ f.map_ready = ready /\ f.map_signal = clock
               /\ ready => f.lease_generation = g.planner_generation
<1> DEFINE lease == IF ready THEN g.planner_generation ELSE g.lease_generation
<1>1. lease \in Nat /\ clock \in Int
  BY DEF Gate
<1>2. ready => lease = g.planner_generation
  OBVIOUS
<1>3. Heard(g, ready) = [g EXCEPT !.map_ready = ready, !.map_signal = clock,
                                  !.lease_generation = lease]
  BY DEF Heard
<1> HIDE DEF lease
<1>4. Heard(g, ready) \in Gate
  BY <1>1, <1>3, Zenon DEF Gate
<1> QED
  BY <1>2, <1>3, <1>4, SMT DEF Gate, SameCommand, SameGrace, SameSensors, SameMotion

LEMMA LeaseFloorType ==
    ASSUME NEW g \in Gate PROVE LeaseFloor(g) \in Nat
BY DEF LeaseFloor, Gate

(* A map version given up with the heartbeat's lease stays given up.       *)
LEMMA FloorOnward ==
    ASSUME NEW g \in Gate, NEW f \in Gate, f.planner_epoch = g.planner_epoch,
           f.retired >= g.retired, MapLapsed(g) => f.retired >= LeaseFloor(g)
    PROVE  Onward(f, g)
<1> SUFFICES ASSUME NEW id \in Pairs, OutOfForce(g, id) PROVE OutOfForce(f, id)
  BY DEF Onward
<1> QED BY LeaseFloorType DEF OutOfForce, Pairs, Gate

LEMMA HeartbeatFacts ==
    ASSUME clock \in Nat, Sound(gate), NEW ready \in BOOLEAN
    PROVE  LET f == HeartbeatReceived(ready)
           IN  /\ Sound(f) /\ SameCommand(f, gate) /\ SameSensors(f, gate)
               /\ Onward(f, gate)
               /\ f.planner_epoch = gate.planner_epoch
               /\ f.planner_generation = gate.planner_generation
               /\ f.map_ready = ready /\ f.map_signal = clock
               /\ ready => Covered(f, PlannerIdentity(gate))
               /\ ~ready /\ ~MapLapsed(gate)
                    => OutOfForce(f, PlannerIdentity(gate))
               /\ IF ready /\ ~MapLapsed(gate) THEN HeartbeatKeeps(f)
                  ELSE HeartbeatStops(f)
<1>1. gate \in Gate /\ Weak(gate)
  BY DEF Sound, Weak
<1>2. gate.planner_epoch \in Nat /\ gate.planner_generation \in Nat
      /\ gate.retired \in Nat
  BY <1>1 DEF Gate
<1>3. CASE ready /\ ~MapLapsed(gate)
  <2> DEFINE f == Heard(gate, ready)
  <2>1. HeartbeatReceived(ready) = f
    BY <1>3 DEF HeartbeatReceived, Heard
  <2>2. /\ f \in Gate /\ SameCommand(f, gate) /\ SameGrace(f, gate)
        /\ SameSensors(f, gate) /\ SameMotion(f, gate) /\ f.active = gate.active
        /\ f.planner_epoch = gate.planner_epoch
        /\ f.planner_generation = gate.planner_generation
        /\ f.retired = gate.retired
        /\ f.map_ready = ready /\ f.map_signal = clock
        /\ f.lease_generation = gate.planner_generation
    BY <1>1, <1>3, HeardFacts
  <2> HIDE DEF f
  <2>3. HeldSound(f)
    BY <1>1, <2>2 DEF Weak, HeldSound, Holds
  <2>4. Weak(f)
    BY <1>1, <2>2, <2>3 DEF Weak, SameMotion
  <2>5. ~f.fail_stop => Running(f)
    BY <2>2 DEF Sound, Running, Holds, SameMotion, SameSensors
  <2>6. Onward(f, gate)
    BY <1>1, <1>2, <1>3, <2>2, FloorOnward
  <2>7. Covered(f, PlannerIdentity(gate))
    BY <1>2, <2>2 DEF Covered, PlannerIdentity, LeaseFloor
  <2>8. HeartbeatKeeps(f)
    BY <1>3, <2>2 DEF HeartbeatKeeps
  <2> QED BY <1>3, <2>1, <2>2, <2>4, <2>5, <2>6, <2>7, <2>8 DEF Sound
<1>4. CASE ~(ready /\ ~MapLapsed(gate))
  <2> DEFINE base == IF MapLapsed(gate) THEN LeaseFloor(gate)
                     ELSE gate.planner_generation
             floor == Larger(gate.retired, base)
             u == [Revoked(gate) EXCEPT !.usable = FALSE, !.retired = floor]
             h == Heard(u, ready)
             f == FailStopped(h, TRUE)
  <2>1. base \in Nat /\ (MapLapsed(gate) => base = LeaseFloor(gate))
        /\ (~MapLapsed(gate) => base = gate.planner_generation)
    BY <1>1, <1>2, LeaseFloorType
  <2>2. HeartbeatReceived(ready) = f
    <3>1. Revoked(gate).retired = gate.retired
      BY <1>1, RevokedFacts DEF SameMap
    <3>2. Retired(gate, base) = u
      BY <3>1 DEF Retired
    <3> QED BY <1>4, <3>2 DEF HeartbeatReceived, Heard
  <2> HIDE DEF base
  <2>3. floor \in Nat /\ floor >= gate.retired /\ floor >= base
    BY <1>2, <2>1, LargerFacts
  <2> HIDE DEF floor
  <2>4. /\ u \in Gate /\ SameCommand(u, gate) /\ SameSensors(u, gate)
        /\ SameMotion(u, gate) /\ u.active = NoCommand
        /\ u.planner_epoch = gate.planner_epoch
        /\ u.planner_generation = gate.planner_generation /\ u.retired = floor
    BY <1>1, <2>3, GivenUpFacts
  <2> HIDE DEF u
  <2>5. /\ h \in Gate /\ SameCommand(h, u) /\ SameSensors(h, u)
        /\ SameMotion(h, u) /\ h.active = u.active
        /\ h.planner_epoch = u.planner_epoch
        /\ h.planner_generation = u.planner_generation /\ h.retired = u.retired
        /\ h.map_ready = ready /\ h.map_signal = clock
        /\ ready => h.lease_generation = u.planner_generation
    BY <2>4, HeardFacts
  <2> HIDE DEF h
  <2>6. Weak(h)
    BY <1>1, <2>4, <2>5 DEF Weak, HeldSound, Holds, SameMotion
  <2>7. Sound(f)
    BY <2>6, FailStoppedSound
  <2>8. /\ f \in Gate /\ SameCommand(f, h) /\ SameMap(f, h)
        /\ SameSensors(f, h) /\ f.active = h.active /\ f.fail_stop = TRUE
        /\ h.fail_stop => f = h
        /\ ~h.fail_stop => f.last_stop = clock
    BY <2>5, FailStoppedFacts
  <2> HIDE DEF f
  <2>9. SameCommand(f, gate) /\ SameSensors(f, gate)
    BY <2>4, <2>5, <2>8 DEF SameCommand, SameSensors
  <2>10. /\ f.planner_epoch = gate.planner_epoch /\ f.retired = floor
         /\ f.planner_generation = gate.planner_generation
         /\ f.map_ready = ready /\ f.map_signal = clock
         /\ ready => f.lease_generation = gate.planner_generation
    BY <2>4, <2>5, <2>8 DEF SameMap
  <2>11. Onward(f, gate)
    BY <1>1, <2>1, <2>3, <2>8, <2>10, FloorOnward
  <2>12. ready => Covered(f, PlannerIdentity(gate))
    BY <1>2, <2>10 DEF Covered, PlannerIdentity, LeaseFloor
  <2>13. ~MapLapsed(gate) => OutOfForce(f, PlannerIdentity(gate))
    BY <1>2, <2>1, <2>3, <2>10 DEF OutOfForce, PlannerIdentity
  <2>14. ~Holds(f)
    BY <2>4, <2>5, <2>8 DEF Holds
  <2>15. f.last_stop \in {gate.last_stop, clock}
    BY <2>4, <2>5, <2>8 DEF SameMotion
  <2>16. gate.trajectory # Empty => f.last_stop = clock
    BY <1>1, <2>4, <2>5, <2>8 DEF SameMotion, Weak
  <2>17. HeartbeatStops(f)
    BY <2>8, <2>14, <2>15, <2>16 DEF HeartbeatStops
  <2> QED BY <1>4, <2>2, <2>7, <2>9, <2>10, <2>11, <2>12, <2>13, <2>17
<1> QED BY <1>3, <1>4

-----------------------------------------------------------------------------
(* The other callbacks and the control cycle.                              *)

LEMMA StopFacts ==
    ASSUME clock \in Nat, NEW g, Weak(g), NEW r, r \in BOOLEAN
    PROVE  LET f == FailStopped(g, r)
           IN  /\ Sound(f) /\ SameCommand(f, g) /\ SameMap(f, g)
               /\ SameGrace(f, g) /\ SameSensors(f, g)
               /\ f.active = g.active /\ f.fail_stop
               /\ f.last_stop \in {g.last_stop, clock}
               /\ r /\ g.trajectory # Empty => f.last_stop = clock
<1> DEFINE f == FailStopped(g, r)
<1>1. g \in Gate
  BY DEF Weak
<1>2. /\ SameCommand(f, g) /\ SameMap(f, g) /\ SameGrace(f, g)
      /\ SameSensors(f, g) /\ f.active = g.active /\ f.fail_stop = TRUE
      /\ g.fail_stop => f = g
      /\ ~g.fail_stop /\ r => f.last_stop = clock
      /\ ~r => f.last_stop = g.last_stop
  BY <1>1, FailStoppedFacts
<1>3. Sound(f)
  BY FailStoppedSound
<1> HIDE DEF f
<1>4. f.last_stop \in {g.last_stop, clock}
  BY <1>2
<1>5. r /\ g.trajectory # Empty => f.last_stop = clock
  BY <1>2 DEF Weak
<1> QED BY <1>2, <1>3, <1>4, <1>5 DEF f

(* A localization that is in force keeps the gate sound.                   *)
LEMMA LocalizedFacts ==
    ASSUME clock \in Nat, Sound(gate), NEW epoch \in Epochs, NEW healthy \in BOOLEAN
    PROVE  LET f == IF healthy THEN Localized(epoch) ELSE Unlocalized
           IN  /\ Sound(f) /\ SameCommand(f, gate) /\ SameMap(f, gate)
               /\ SameGrace(f, gate) /\ f.active = gate.active
               /\ f.gimbal = gate.gimbal /\ f.gimbal_signal = gate.gimbal_signal
               /\ f.last_stop \in {gate.last_stop, clock}
               /\ ~(healthy /\ gate.epoch \in {0, epoch}) =>
                     f.fail_stop /\ (gate.trajectory # Empty => f.last_stop = clock)
               /\ ~f.fail_stop => SameMotion(f, gate)
<1> DEFINE known == [gate EXCEPT !.tracking = TRUE, !.epoch = epoch]
           lost == [gate EXCEPT !.tracking = FALSE]
<1>1. gate \in Gate /\ Weak(gate)
  BY DEF Sound, Weak
<1>2. epoch \in Nat
  BY InputAssumption
<1>3. known \in Gate /\ lost \in Gate
  BY <1>1, <1>2, Zenon DEF Gate
<1>4. /\ SameCommand(known, gate) /\ SameMap(known, gate)
      /\ SameGrace(known, gate) /\ SameMotion(known, gate)
      /\ known.active = gate.active /\ known.gimbal = gate.gimbal
      /\ known.gimbal_signal = gate.gimbal_signal
      /\ known.tracking = TRUE /\ known.epoch = epoch
  BY <1>1, <1>3, SMT DEF Gate, SameCommand, SameMap, SameGrace, SameMotion
<1>5. /\ SameCommand(lost, gate) /\ SameMap(lost, gate)
      /\ SameGrace(lost, gate) /\ SameMotion(lost, gate)
      /\ lost.active = gate.active /\ lost.gimbal = gate.gimbal
      /\ lost.gimbal_signal = gate.gimbal_signal
  BY <1>1, <1>3, SMT DEF Gate, SameCommand, SameMap, SameGrace, SameMotion
<1>6. Localized(epoch) = IF gate.epoch \notin {0, epoch}
                         THEN FailStopped(known, TRUE) ELSE known
  BY DEF Localized
<1>7. Unlocalized = FailStopped(lost, TRUE)
  BY DEF Unlocalized
<1> HIDE DEF known, lost
<1>8. Weak(known) /\ Weak(lost)
  BY <1>1, <1>3, <1>4, <1>5, FrameWeak
<1>9. ASSUME NEW g, Weak(g), SameCommand(g, gate), SameMap(g, gate),
             SameGrace(g, gate), SameMotion(g, gate), g.active = gate.active,
             g.gimbal = gate.gimbal, g.gimbal_signal = gate.gimbal_signal
      PROVE  LET f == FailStopped(g, TRUE)
             IN  /\ Sound(f) /\ SameCommand(f, gate) /\ SameMap(f, gate)
                 /\ SameGrace(f, gate) /\ f.active = gate.active
                 /\ f.gimbal = gate.gimbal /\ f.gimbal_signal = gate.gimbal_signal
                 /\ f.last_stop \in {gate.last_stop, clock} /\ f.fail_stop
                 /\ gate.trajectory # Empty => f.last_stop = clock
  <2> DEFINE f == FailStopped(g, TRUE)
  <2>1. TRUE \in BOOLEAN
    OBVIOUS
  <2>2. /\ Sound(f) /\ SameCommand(f, g) /\ SameMap(f, g)
        /\ SameGrace(f, g) /\ SameSensors(f, g)
        /\ f.active = g.active /\ f.fail_stop
        /\ f.last_stop \in {g.last_stop, clock}
        /\ g.trajectory # Empty => f.last_stop = clock
    BY <1>9, <2>1, StopFacts
  <2> HIDE DEF f
  <2>3. /\ SameCommand(f, gate) /\ SameMap(f, gate) /\ SameGrace(f, gate)
        /\ f.active = gate.active
        /\ f.gimbal = gate.gimbal /\ f.gimbal_signal = gate.gimbal_signal
        /\ f.last_stop \in {gate.last_stop, clock}
        /\ gate.trajectory # Empty => f.last_stop = clock
    BY <1>9, <2>2 DEF SameCommand, SameMap, SameGrace, SameSensors, SameMotion
  <2> QED BY <2>2, <2>3 DEF f
<1>10. CASE ~healthy
  BY <1>5, <1>7, <1>8, <1>9, <1>10
<1>11. CASE healthy /\ gate.epoch \notin {0, epoch}
  BY <1>4, <1>6, <1>8, <1>9, <1>11
<1>12. CASE healthy /\ gate.epoch \in {0, epoch}
  <2>1. Localized(epoch) = known
    BY <1>6, <1>12
  <2>2. ~gate.fail_stop => gate.epoch # 0
    BY <1>1 DEF Sound, Running, Weak, HeldSound
  <2>3. ~known.fail_stop => Running(known)
    BY <1>4, <1>12, <2>2 DEF Sound, Running, SameMotion, Holds
  <2>4. known.last_stop \in {gate.last_stop, clock}
    BY <1>4 DEF SameMotion
  <2> QED BY <1>4, <1>8, <1>12, <2>1, <2>3, <2>4 DEF Sound
<1> QED BY <1>10, <1>11, <1>12

LEMMA GimbalFacts ==
    ASSUME clock \in Nat, Sound(gate), NEW request \in GimbalRequests \cup {0}
    PROVE  LET f == [gate EXCEPT !.gimbal = request, !.gimbal_signal = clock]
           IN  /\ Sound(f) /\ SameCommand(f, gate) /\ SameMap(f, gate)
               /\ SameGrace(f, gate) /\ SameMotion(f, gate)
               /\ f.active = gate.active
               /\ f.tracking = gate.tracking /\ f.epoch = gate.epoch
               /\ f.gimbal = request /\ f.gimbal_signal = clock
<1> DEFINE f == [gate EXCEPT !.gimbal = request, !.gimbal_signal = clock]
<1>1. gate \in Gate /\ Weak(gate)
  BY DEF Sound, Weak
<1>2. request \in Nat /\ clock \in Int
  BY InputAssumption
<1>3. f \in Gate
  BY <1>1, <1>2, Zenon DEF Gate
<1>4. /\ SameCommand(f, gate) /\ SameMap(f, gate)
      /\ SameGrace(f, gate) /\ SameMotion(f, gate)
      /\ f.active = gate.active
      /\ f.tracking = gate.tracking /\ f.epoch = gate.epoch
      /\ f.gimbal = request /\ f.gimbal_signal = clock
  BY <1>1, <1>3, SMT DEF Gate, SameCommand, SameMap, SameGrace, SameMotion
<1> HIDE DEF f
<1>5. Weak(f)
  BY <1>1, <1>3, <1>4, FrameWeak
<1>6. ~f.fail_stop => Running(f)
  BY <1>4 DEF Sound, Running, SameMotion, Holds
<1> QED BY <1>4, <1>5, <1>6 DEF Sound, f

(* The control cycle first ends what has run out.                          *)
LEMMA GraceSettledFacts ==
    ASSUME clock \in Nat, gate \in Gate
    PROVE  LET f == GraceSettled(gate)
           IN  /\ f \in Gate
               /\ SameCommand(f, gate) /\ SameMap(f, gate)
               /\ SameSensors(f, gate) /\ SameMotion(f, gate)
               /\ f.active \in {gate.active, NoCommand}
               /\ f.supersede_deadline \in {gate.supersede_deadline, Never}
<1> DEFINE cleared == [gate EXCEPT !.supersede_deadline = Never]
<1>1. CASE ~GraceExpired(gate)
  BY <1>1 DEF GraceSettled, SameCommand, SameMap, SameSensors, SameMotion
<1>2. CASE GraceExpired(gate) /\ Holds(gate) /\ gate.active.generation = gate.superseded
  BY <1>2, RevokedFacts DEF GraceSettled
<1>3. CASE /\ GraceExpired(gate)
           /\ ~(Holds(gate) /\ gate.active.generation = gate.superseded)
  <2>1. GraceSettled(gate) = cleared
    BY <1>3 DEF GraceSettled
  <2>2. cleared \in Gate
    BY NumberTypes, Zenon DEF Gate
  <2>3. /\ SameCommand(cleared, gate) /\ SameMap(cleared, gate)
        /\ SameSensors(cleared, gate) /\ SameMotion(cleared, gate)
        /\ cleared.active = gate.active /\ cleared.supersede_deadline = Never
    BY <2>2, SMT DEF Gate, SameCommand, SameMap, SameSensors, SameMotion
  <2> QED BY <2>1, <2>2, <2>3
<1> QED BY <1>1, <1>2, <1>3

LEMMA MapSettledFacts ==
    ASSUME clock \in Nat, NEW g \in Gate
    PROVE  LET f == MapSettled(g)
           IN  /\ f \in Gate
               /\ SameCommand(f, g) /\ SameGrace(f, g)
               /\ SameSensors(f, g) /\ SameMotion(f, g)
               /\ f.active \in {g.active, NoCommand}
               /\ f.map_signal = g.map_signal
               /\ f.planner_epoch = g.planner_epoch
               /\ f.planner_generation = g.planner_generation
               /\ f.retired >= g.retired
               /\ MapLapsed(g) => /\ f.retired >= LeaseFloor(g)
                                  /\ ~f.map_ready /\ ~Holds(f)
               /\ ~MapLapsed(g) => f = g
<1> DEFINE d == Dropped(g)
           floor == Larger(g.retired, LeaseFloor(g))
           settled == [d EXCEPT !.retired = floor, !.usable = FALSE, !.map_ready = FALSE]
<1>1. CASE MapLapsed(g)
  <2>1. /\ d \in Gate /\ SameCommand(d, g) /\ SameMap(d, g) /\ SameGrace(d, g)
        /\ SameSensors(d, g) /\ SameMotion(d, g) /\ d.active = NoCommand
    BY DroppedFacts
  <2>2. MapSettled(g) = settled
    <3>1. d.retired = g.retired
      BY <2>1 DEF SameMap
    <3> QED BY <1>1, <3>1 DEF MapSettled
  <2>3. g.retired \in Nat /\ LeaseFloor(g) \in Nat
    BY LeaseFloorType DEF Gate
  <2>4. floor \in Nat /\ floor >= g.retired /\ floor >= LeaseFloor(g)
    BY <2>3, LargerFacts
  <2> HIDE DEF d, floor
  <2>5. settled \in Gate
    BY <2>1, <2>4, Zenon DEF Gate
  <2>6. /\ SameCommand(settled, d) /\ SameGrace(settled, d)
        /\ SameSensors(settled, d) /\ SameMotion(settled, d)
        /\ settled.active = d.active /\ settled.map_signal = d.map_signal
        /\ settled.planner_epoch = d.planner_epoch
        /\ settled.planner_generation = d.planner_generation
        /\ settled.retired = floor /\ settled.map_ready = FALSE
    BY <2>1, <2>5, SMT DEF Gate, SameCommand, SameGrace, SameSensors, SameMotion
  <2> HIDE DEF settled
  <2>7. ~Holds(settled)
    BY <2>1, <2>6 DEF Holds
  <2>8. /\ SameCommand(settled, g) /\ SameGrace(settled, g)
        /\ SameSensors(settled, g) /\ SameMotion(settled, g)
        /\ settled.map_signal = g.map_signal
        /\ settled.planner_epoch = g.planner_epoch
        /\ settled.planner_generation = g.planner_generation
    BY <2>1, <2>6 DEF SameCommand, SameGrace, SameSensors, SameMotion, SameMap
  <2> QED BY <1>1, <2>1, <2>2, <2>4, <2>5, <2>6, <2>7, <2>8
<1>2. CASE ~MapLapsed(g)
  <2>1. MapSettled(g) = g
    BY <1>2 DEF MapSettled
  <2>2. g.retired >= g.retired
    BY DEF Gate
  <2> QED
    BY <1>2, <2>1, <2>2 DEF SameCommand, SameGrace, SameSensors, SameMotion
<1> QED BY <1>1, <1>2

LEMMA SettledFacts ==
    ASSUME clock \in Nat, Weak(gate)
    PROVE  LET f == Settled(gate)
           IN  /\ Weak(f) /\ SameCommand(f, gate)
               /\ SameSensors(f, gate) /\ SameMotion(f, gate)
               /\ f.active \in {gate.active, NoCommand}
               /\ f.supersede_deadline \in {gate.supersede_deadline, Never}
               /\ f.planner_epoch = gate.planner_epoch
               /\ f.planner_generation = gate.planner_generation
               /\ f.map_signal = gate.map_signal
               /\ f.map_ready => SameMap(f, gate)
               /\ Onward(f, gate)
<1> DEFINE g == GraceSettled(gate)
           f == MapSettled(g)
<1>1. gate \in Gate
  BY DEF Weak
<1>2. /\ g \in Gate /\ SameCommand(g, gate) /\ SameMap(g, gate)
      /\ SameSensors(g, gate) /\ SameMotion(g, gate)
      /\ g.active \in {gate.active, NoCommand}
      /\ g.supersede_deadline \in {gate.supersede_deadline, Never}
  BY <1>1, GraceSettledFacts
<1> HIDE DEF g
<1>3. Weak(g)
  BY <1>2, FrameWeak
<1>4. /\ f \in Gate
      /\ SameCommand(f, g) /\ SameGrace(f, g)
      /\ SameSensors(f, g) /\ SameMotion(f, g)
      /\ f.active \in {g.active, NoCommand}
      /\ f.map_signal = g.map_signal
      /\ f.planner_epoch = g.planner_epoch
      /\ f.planner_generation = g.planner_generation
      /\ f.retired >= g.retired
      /\ MapLapsed(g) => /\ f.retired >= LeaseFloor(g)
                         /\ ~f.map_ready /\ ~Holds(f)
      /\ ~MapLapsed(g) => f = g
  BY <1>2, MapSettledFacts
<1> HIDE DEF f
<1>5. Weak(f)
  <2>1. CASE MapLapsed(g)
    BY <1>3, <1>4, <2>1 DEF Weak, HeldSound, SameMotion
  <2>2. CASE ~MapLapsed(g)
    BY <1>3, <1>4, <2>2
  <2> QED BY <2>1, <2>2
<1>6. MapLapsed(g) = MapLapsed(gate) /\ LeaseFloor(g) = LeaseFloor(gate)
  BY <1>2 DEF SameMap, MapLapsed, MapReadyFresh, LeaseFloor
<1>7. f.planner_epoch = gate.planner_epoch /\ f.retired >= gate.retired
  BY <1>2, <1>4 DEF SameMap
<1>8. Onward(f, gate)
  BY <1>1, <1>4, <1>6, <1>7, FloorOnward, SameMapOnward, <1>2
<1>9. f.map_ready => SameMap(f, gate)
  BY <1>2, <1>4
<1>10. SameCommand(f, gate) /\ SameSensors(f, gate) /\ SameMotion(f, gate)
  BY <1>2, <1>4 DEF SameCommand, SameSensors, SameMotion
<1>11. f.supersede_deadline \in {gate.supersede_deadline, Never}
  BY <1>2, <1>4 DEF SameGrace
<1>12. f.map_signal = gate.map_signal
       /\ f.planner_generation = gate.planner_generation
  BY <1>2, <1>4 DEF SameMap
<1>13. f.active \in {gate.active, NoCommand}
  BY <1>2, <1>4
<1> QED
  BY <1>5, <1>7, <1>8, <1>9, <1>10, <1>11, <1>12, <1>13 DEF f, g, Settled

-----------------------------------------------------------------------------
(* The inductive invariant.                                                *)

Histories ==
    [covered : Pairs, lost : SUBSET Pairs, interrupted : SUBSET Nat,
     outdated : Int]

(* A lost map version is out of force, and the version the last heartbeat  *)
(* stood for goes out of force when its lease lapses.                      *)
MapHistory(f, h) ==
    /\ \A id \in h.lost : OutOfForce(f, id)
    /\ f.map_ready => Covered(f, h.covered)

(* No interrupted reference is younger than the last recorded stop.        *)
MotionHistory(f, h) ==
    \A t \in h.interrupted : f.last_stop # Never /\ t <= f.last_stop

(* A command outlives its generation only in the grace that was opened for *)
(* it when the first newer generation was announced.                       *)
GraceHistory(f, h) ==
    Holds(f) =>
      /\ f.supersede_deadline # Never
           => /\ f.supersede_deadline <= clock + SupersedeGrace
              /\ f.active.generation = f.superseded
      /\ h.outdated # Never
           => /\ f.active.generation < f.planner_generation
              /\ ~f.fail_stop => f.supersede_deadline # Never
              /\ f.supersede_deadline # Never
                   => f.supersede_deadline <= h.outdated + SupersedeGrace

IInv ==
    /\ clock \in Nat /\ polled \in BOOLEAN /\ moving \in BOOLEAN
    /\ history \in Histories
    /\ Sound(gate) /\ (moving => ~gate.fail_stop)
    /\ MapHistory(gate, history)
    /\ MotionHistory(gate, history)
    /\ GraceHistory(gate, history)
    /\ MotionRestsOnLiveInputs
    /\ GraceIsBounded

LEMMA InitInvariant == Init => IInv
<1> SUFFICES ASSUME Init PROVE IInv
  OBVIOUS
<1>1. gate = InitialGate /\ clock = 0 /\ polled = FALSE /\ moving = FALSE
      /\ history = NoHistory
  BY DEF Init
<1>2. gate \in Gate
  BY <1>1, NumberTypes, Zenon DEF InitialGate, Gate
<1>3. history \in Histories
  <2>1. <<0, 0>> \in Pairs
    BY DEF Pairs
  <2>2. {} \in SUBSET Pairs /\ {} \in SUBSET Nat
    OBVIOUS
  <2> QED BY <1>1, <2>1, <2>2, NumberTypes, Zenon DEF NoHistory, Histories
<1>4. Sound(gate)
  BY <1>1, <1>2 DEF Sound, Weak, HeldSound, Holds, InitialGate, Never, Empty
<1>5. MapHistory(gate, history) /\ MotionHistory(gate, history)
  BY <1>1 DEF MapHistory, MotionHistory, InitialGate, NoHistory
<1>6. GraceHistory(gate, history)
  BY <1>1, ConfigAssumption
     DEF GraceHistory, Holds, InitialGate, NoHistory, Never
<1> QED
  BY <1>1, <1>3, <1>4, <1>5, <1>6
     DEF IInv, MotionRestsOnLiveInputs, GraceIsBounded

(* A step in which no time passes is judged in the present.                *)
LEMMA Preserved ==
    ASSUME IInv, clock' = clock, polled' \in BOOLEAN, moving' \in BOOLEAN,
           history' \in Histories, Sound(gate'), moving' => ~gate'.fail_stop,
           MapHistory(gate', history'), MotionHistory(gate', history'),
           GraceHistory(gate', history'),
           MotionRestsOnLiveInputs', GraceIsBounded'
    PROVE  IInv'
<1>1. Sound(gate)'
  BY DEF Sound, Weak, HeldSound, Running, Holds
<1>2. MapHistory(gate, history)'
  BY DEF MapHistory, OutOfForce, Covered, MapLapsed, MapReadyFresh, LeaseFloor
<1>3. MotionHistory(gate, history)'
  BY DEF MotionHistory
<1>4. GraceHistory(gate, history)'
  BY DEF GraceHistory, Holds
<1>5. clock' \in Nat
  BY DEF IInv
<1> QED BY <1>1, <1>2, <1>3, <1>4, <1>5 DEF IInv

(* The records of the history.                                             *)
LEMMA InterruptedFacts ==
    ASSUME clock \in Nat, Weak(gate), NEW h \in Histories
    PROVE  LET k == Interrupted(h)
           IN  /\ k \in Histories
               /\ k.covered = h.covered /\ k.lost = h.lost
               /\ k.outdated = h.outdated
               /\ \A t \in k.interrupted :
                    t \in h.interrupted \/ (t = gate.trajectory /\ t # Empty)
<1> DEFINE paths == IF gate.trajectory = Empty THEN h.interrupted
                    ELSE h.interrupted \cup {gate.trajectory}
<1>1. paths \in SUBSET Nat
  BY DEF Weak, Histories
<1>2. \A t \in paths : t \in h.interrupted \/ (t = gate.trajectory /\ t # Empty)
  OBVIOUS
<1>3. Interrupted(h) = [h EXCEPT !.interrupted = paths]
  BY DEF Interrupted, Histories
<1> HIDE DEF paths
<1>4. Interrupted(h) \in Histories
  BY <1>1, <1>3, Zenon DEF Histories
<1> QED BY <1>2, <1>3, <1>4, SMT DEF Histories

(* A stop that is recorded outdates what it interrupts.                    *)
LEMMA MotionHistoryKept ==
    ASSUME clock \in Nat, Weak(gate), NEW h \in Histories, NEW k \in Histories,
           MotionHistory(gate, h), NEW f,
           f.last_stop \in {gate.last_stop, clock},
           \A t \in k.interrupted :
              \/ t \in h.interrupted
              \/ t = gate.trajectory /\ t # Empty /\ f.last_stop = clock
    PROVE  MotionHistory(f, k)
<1> SUFFICES ASSUME NEW t \in k.interrupted
             PROVE  f.last_stop # Never /\ t <= f.last_stop
  BY DEF MotionHistory
<1>1. clock # Never /\ gate.last_stop \in Int /\ t \in Nat
  BY DEF Never, Weak, Gate, Histories
<1>2. CASE t \in h.interrupted
  BY <1>1, <1>2 DEF MotionHistory, Weak
<1>3. CASE t = gate.trajectory /\ t # Empty /\ f.last_stop = clock
  BY <1>1, <1>3 DEF Weak
<1> QED BY <1>2, <1>3

-----------------------------------------------------------------------------
(* Each action preserves the invariant.                                    *)

LEMMA InvariantParts ==
    ASSUME IInv
    PROVE  /\ clock \in Nat /\ gate \in Gate /\ Weak(gate) /\ Sound(gate)
           /\ polled \in BOOLEAN /\ moving \in BOOLEAN /\ history \in Histories
           /\ moving => ~gate.fail_stop /\ Running(gate)
           /\ MapHistory(gate, history) /\ MotionHistory(gate, history)
           /\ GraceHistory(gate, history)
BY DEF IInv, Sound, Weak

LEMMA MapHistoryKept ==
    ASSUME NEW g, NEW f, SameMap(f, g), NEW h \in Histories, NEW k,
           k.covered = h.covered, k.lost = h.lost, MapHistory(g, h)
    PROVE  MapHistory(f, k)
<1>1. Onward(f, g) /\ CoverKept(f, g)
  BY SameMapOnward
<1>2. h.covered \in Pairs /\ h.lost \subseteq Pairs
  BY DEF Histories
<1> QED BY <1>1, <1>2 DEF MapHistory, Onward, CoverKept, SameMap

LEMMA CommandInvariant ==
    ASSUME IInv, NEW c \in Commands, OnExecutionCommand(c)
    PROVE  IInv'
<1> DEFINE f == Commanded(c)
           h == [history EXCEPT !.outdated =
                   IF f.active.generation = gate.active.generation THEN @ ELSE Never]
<1>1. /\ clock \in Nat /\ gate \in Gate /\ Weak(gate) /\ Sound(gate)
      /\ history \in Histories /\ moving \in BOOLEAN /\ polled \in BOOLEAN
      /\ moving => ~gate.fail_stop /\ Running(gate)
      /\ MapHistory(gate, history) /\ MotionHistory(gate, history)
      /\ GraceHistory(gate, history)
  BY InvariantParts
<1>2. /\ gate' = f /\ clock' = clock /\ polled' = polled
      /\ moving' = (moving /\ ~f.fail_stop)
      /\ history' = IF f.fail_stop THEN Interrupted(h) ELSE h
      /\ c.pathAge <= clock
  BY DEF OnExecutionCommand
<1>3. /\ Sound(f) /\ SameMap(f, gate) /\ SameSensors(f, gate)
      /\ LivesOn(f) \/ Honoured(f) \/ Stops(f)
  BY <1>1, <1>2, CommandedFacts
<1> HIDE DEF f
<1>4. h \in Histories
  <2> DEFINE since == IF f.active.generation = gate.active.generation
                      THEN history.outdated ELSE Never
  <2>1. since \in Int
    BY <1>1, NumberTypes DEF Histories
  <2>2. h = [history EXCEPT !.outdated = since]
    BY <1>1 DEF Histories
  <2> HIDE DEF since
  <2> QED BY <1>1, <2>1, <2>2, Zenon DEF Histories
<1>5. /\ h.covered = history.covered /\ h.lost = history.lost
      /\ h.interrupted = history.interrupted
      /\ f.active.generation = gate.active.generation
           => h.outdated = history.outdated
      /\ f.active.generation # gate.active.generation => h.outdated = Never
  BY <1>1 DEF Histories
<1> HIDE DEF h
<1>6. /\ history' \in Histories
      /\ history'.covered = h.covered /\ history'.lost = h.lost
      /\ history'.outdated = h.outdated
      /\ \A t \in history'.interrupted :
           \/ t \in h.interrupted
           \/ t = gate.trajectory /\ t # Empty /\ f.fail_stop
  BY <1>1, <1>2, <1>4, InterruptedFacts
<1>7. f.fail_stop => Stops(f)
  BY <1>3 DEF LivesOn, Honoured
<1>8. f.last_stop \in {gate.last_stop, clock}
  BY <1>3 DEF LivesOn, Honoured, Stops, SameMotion
<1>9. MotionHistory(f, history')
  <2>1. \A t \in history'.interrupted :
          \/ t \in history.interrupted
          \/ t = gate.trajectory /\ t # Empty /\ f.last_stop = clock
    BY <1>5, <1>6, <1>7 DEF Stops
  <2> QED BY <1>1, <1>6, <1>8, <2>1, MotionHistoryKept
<1>10. MapHistory(f, history')
  BY <1>1, <1>3, <1>5, <1>6, MapHistoryKept
<1>11. GraceHistory(f, history')
  <2>1. CASE /\ f.active = gate.active /\ SameGrace(f, gate)
             /\ ~f.fail_stop => ~gate.fail_stop
    BY <1>1, <1>3, <1>5, <1>6, <2>1 DEF GraceHistory, Holds, SameMap, SameGrace
  <2>2. CASE Granted(f)
    <3> SUFFICES ASSUME Holds(f) PROVE history'.outdated = Never
      BY <2>2 DEF Granted, GraceHistory
    <3>1. f.active.generation = gate.planner_generation
      BY <2>2 DEF Granted
    <3>2. f.active.generation # 0
      BY <1>3 DEF Sound, Weak, HeldSound
    <3>3. CASE Holds(gate)
      <4>1. gate.active.generation \in Nat /\ gate.planner_generation \in Nat
        BY <1>1 DEF Gate, Grants
      <4> QED BY <1>1, <1>5, <1>6, <3>1, <3>3, <4>1 DEF GraceHistory
    <3>4. CASE ~Holds(gate)
      BY <1>5, <1>6, <3>2, <3>4 DEF Holds, NoCommand
    <3> QED BY <3>3, <3>4
  <2>3. CASE ~Holds(f)
    BY <2>3 DEF GraceHistory
  <2> QED BY <1>3, <2>1, <2>2, <2>3 DEF LivesOn, Honoured, Stops, SameMotion
<1>12. moving' => moving /\ (LivesOn(f) \/ Honoured(f))
  BY <1>2, <1>3 DEF Stops
<1>13. MotionRestsOnLiveInputs'
  <2> SUFFICES ASSUME moving' PROVE MotionRestsOnLiveInputs'
    BY DEF MotionRestsOnLiveInputs
  <2>1. moving /\ MotionRestsOnLiveInputs /\ ~gate.fail_stop
    BY <1>1, <1>12 DEF IInv
  <2>2. CASE LivesOn(f)
    BY <1>2, <1>3, <2>1, <2>2
       DEF LivesOn, SameMotion, SameMap, SameSensors, MotionRestsOnLiveInputs
  <2>3. CASE Honoured(f)
    <3>1. f.tracking /\ f.epoch = f.active.epoch
      BY <1>3, <2>3 DEF Honoured, Sound, Running
    <3>2. f.trajectory = f.active.reference
      BY <2>1, <2>3 DEF Honoured, MotionRestsOnLiveInputs
    <3> QED
      BY <1>2, <1>3, <2>3, <3>1, <3>2
         DEF Honoured, SameMap, SameSensors, MotionRestsOnLiveInputs
  <2> QED BY <1>12, <2>2, <2>3
<1>14. GraceIsBounded'
  BY <1>2, <1>5, <1>6, <1>12 DEF IInv, GraceIsBounded
<1>15. moving' \in BOOLEAN /\ polled' \in BOOLEAN /\ (moving' => ~f.fail_stop)
  BY <1>1, <1>2
<1> QED
  BY <1>2, <1>3, <1>6, <1>9, <1>10, <1>11, <1>13, <1>14, <1>15, Preserved

LEMMA StatusInvariant ==
    ASSUME IInv, NEW s \in Statuses, OnPlannerStatus(s)
    PROVE  IInv'
<1> DEFINE f == Reported(s)
           covers == s.verdict = "READY" /\ ~StatusIgnored(s) /\ MapReadyFresh(gate)
           loses == s.verdict = "MAP_UNREADY" /\ ~StatusIgnored(s)
           superseded == Holds(gate) /\ ChangedIdentity(s) /\ ~StatusIgnored(s)
           ends == ~StatusIgnored(s) /\ (s.verdict # "READY" \/ ChangedEpoch(s))
           covered == IF covers THEN Renewed(s) ELSE history.covered
           lost == IF loses THEN history.lost \cup {Renewed(s)} ELSE history.lost
           outdated == IF superseded /\ history.outdated = Never
                       THEN clock ELSE history.outdated
           h == [history EXCEPT !.covered = covered, !.lost = lost,
                                !.outdated = outdated]
<1>1. /\ clock \in Nat /\ gate \in Gate /\ Weak(gate) /\ Sound(gate)
      /\ history \in Histories /\ moving \in BOOLEAN /\ polled \in BOOLEAN
      /\ moving => ~gate.fail_stop /\ Running(gate)
      /\ MapHistory(gate, history) /\ MotionHistory(gate, history)
      /\ GraceHistory(gate, history)
  BY InvariantParts
<1>2. /\ gate' = f /\ clock' = clock /\ polled' = polled
      /\ moving' = (moving /\ ~f.fail_stop)
  BY DEF OnPlannerStatus
<1>3. history' = IF ends THEN Interrupted(h) ELSE h
  BY <1>1 DEF OnPlannerStatus, Histories, Renewed
<1>4. Renewed(s) \in Pairs
  BY StatusFields DEF Renewed, Pairs
<1>5. covered \in Pairs /\ lost \in SUBSET Pairs /\ outdated \in Int
  BY <1>1, <1>4 DEF Histories
<1> HIDE DEF covered, lost, outdated
<1>6. h \in Histories
  BY <1>1, <1>5, Zenon DEF Histories
<1>7. /\ h.covered = covered /\ h.lost = lost /\ h.outdated = outdated
      /\ h.interrupted = history.interrupted
  BY <1>1 DEF Histories
<1> HIDE DEF h
<1>8. /\ history' \in Histories
      /\ history'.covered = covered /\ history'.lost = lost
      /\ history'.outdated = outdated
      /\ \A t \in history'.interrupted :
           \/ t \in history.interrupted
           \/ t = gate.trajectory /\ t # Empty /\ ends
  BY <1>1, <1>3, <1>6, <1>7, InterruptedFacts
<1>9. StatusIgnored(s) => f = gate
  BY DEF Reported
<1>10. ~StatusIgnored(s) =>
         /\ Sound(f) /\ SameCommand(f, gate) /\ SameSensors(f, gate)
         /\ MapMoves(f, s) /\ (GoesOn(f, s) \/ Ends(f, s))
  BY <1>1, ReadyFacts, UnusableEnds
<1> HIDE DEF f
<1>11. Sound(f)
  BY <1>1, <1>9, <1>10
<1>12. MapHistory(f, history')
  <2>1. CASE StatusIgnored(s)
    BY <1>1, <1>8, <1>9, <2>1 DEF covered, lost, MapHistory
  <2>2. CASE ~StatusIgnored(s)
    <3>1. MapMoves(f, s)
      BY <1>10, <2>2
    <3>2. \A id \in history'.lost : OutOfForce(f, id)
      BY <1>1, <1>8, <3>1 DEF lost, MapHistory, MapMoves, Onward, Histories
    <3>3. f.map_ready => Covered(f, history'.covered)
      <4>1. CASE covers
        BY <1>8, <3>1, <4>1 DEF covered, MapMoves
      <4>2. CASE ~covers
        BY <1>1, <1>8, <2>2, <3>1, <4>2
           DEF covered, MapMoves, MapHistory, CoverKept, Histories, SameHeartbeat
      <4> QED BY <4>1, <4>2
    <3> QED BY <3>2, <3>3 DEF MapHistory
  <2> QED BY <2>1, <2>2
<1>13. MotionHistory(f, history')
  <2>1. f.last_stop \in {gate.last_stop, clock}
    BY <1>9, <1>10 DEF GoesOn, Ends, SameMotion
  <2>2. ends /\ gate.trajectory # Empty => f.last_stop = clock
    BY <1>10 DEF GoesOn, Ends
  <2>3. \A t \in history'.interrupted :
          \/ t \in history.interrupted
          \/ t = gate.trajectory /\ t # Empty /\ f.last_stop = clock
    BY <1>8, <2>2
  <2> QED BY <1>1, <1>8, <2>1, <2>3, MotionHistoryKept
<1>14. GraceHistory(f, history')
  <2>1. CASE StatusIgnored(s)
    BY <1>1, <1>8, <1>9, <2>1 DEF outdated, GraceHistory
  <2>2. CASE ~StatusIgnored(s) /\ Ends(f, s)
    BY <2>2 DEF Ends, GraceHistory
  <2>3. CASE ~StatusIgnored(s) /\ GoesOn(f, s) /\ ~ChangedIdentity(s)
    <3>1. f.planner_generation = gate.planner_generation
      BY <1>1, <1>10, <2>3, StatusFields
         DEF MapMoves, ChangedIdentity, ChangedEpoch, StatusIgnored, Gate
    <3>2. history'.outdated = history.outdated
      BY <1>8, <2>3 DEF outdated
    <3> QED
      BY <1>1, <2>3, <3>1, <3>2 DEF GoesOn, GraceHistory, SameGrace, SameMotion, Holds
  <2>4. CASE ~StatusIgnored(s) /\ GoesOn(f, s) /\ ChangedIdentity(s)
    <3>1. Holds(gate) /\ ~gate.fail_stop
      BY <1>1, <2>4 DEF GoesOn, Sound, Running
    <3>2. /\ f.planner_generation = s.generation
          /\ s.generation > gate.planner_generation
          /\ gate.active.generation <= gate.planner_generation
          /\ f.active = gate.active
      BY <1>1, <1>10, <2>4, <3>1, StatusFields
         DEF MapMoves, ChangedIdentity, GoesOn, Weak, HeldSound
    <3>3. f.active.generation < f.planner_generation
      <4>1. /\ gate.active.generation \in Nat /\ gate.planner_generation \in Nat
            /\ s.generation \in Nat
        BY <1>1, StatusFields DEF Gate, Grants
      <4> QED BY <3>2, <4>1
    <3>4. history.outdated = Never => history'.outdated = clock
      BY <1>8, <2>4, <3>1 DEF outdated
    <3>5. history.outdated # Never => history'.outdated = history.outdated
      BY <1>8 DEF outdated
    <3>6. clock + SupersedeGrace # Never
      BY <1>1, ConfigAssumption DEF Never
    <3>7. CASE gate.supersede_deadline = Never
      <4>1. history.outdated = Never
        BY <1>1, <3>1, <3>7 DEF GraceHistory
      <4>2. /\ f.supersede_deadline = clock + SupersedeGrace
            /\ f.superseded = gate.active.generation
        BY <2>4, <3>7 DEF GoesOn
      <4>3. clock + SupersedeGrace \in Int
        BY <1>1, ConfigAssumption
      <4> QED
        BY <3>2, <3>3, <3>4, <3>6, <4>1, <4>2, <4>3 DEF GraceHistory
    <3>8. CASE gate.supersede_deadline # Never
      <4>1. SameGrace(f, gate)
        BY <2>4, <3>8 DEF GoesOn
      <4>2. /\ gate.supersede_deadline <= clock + SupersedeGrace
            /\ gate.active.generation = gate.superseded
            /\ history.outdated # Never
                 => gate.supersede_deadline <= history.outdated + SupersedeGrace
        BY <1>1, <3>1, <3>8 DEF GraceHistory
      <4> QED
        BY <3>2, <3>3, <3>4, <3>5, <3>8, <4>1, <4>2 DEF GraceHistory, SameGrace
    <3> QED BY <3>7, <3>8
  <2> QED BY <1>10, <2>1, <2>2, <2>3, <2>4
<1>15. moving' => /\ moving /\ ~f.fail_stop
                  /\ f = gate \/ (GoesOn(f, s) /\ ~StatusIgnored(s))
  BY <1>2, <1>9, <1>10 DEF Ends
<1>16. MotionRestsOnLiveInputs'
  <2> SUFFICES ASSUME moving' PROVE MotionRestsOnLiveInputs'
    BY DEF MotionRestsOnLiveInputs
  <2>1. moving /\ MotionRestsOnLiveInputs
    BY <1>15 DEF IInv
  <2>2. CASE f = gate
    BY <1>2, <2>1, <2>2 DEF MotionRestsOnLiveInputs
  <2>3. CASE GoesOn(f, s) /\ ~StatusIgnored(s)
    BY <1>2, <1>10, <2>1, <2>3
       DEF GoesOn, SameMotion, SameSensors, SameCommand, MapMoves, SameHeartbeat,
           MotionRestsOnLiveInputs
  <2> QED BY <1>15, <2>2, <2>3
<1>17. GraceIsBounded'
  <2> SUFFICES ASSUME moving', polled', history'.outdated # Never
               PROVE  clock' - history'.outdated <= SupersedeGrace
    BY DEF GraceIsBounded
  <2>1. CASE history.outdated # Never
    BY <1>2, <1>8, <1>15, <2>1 DEF outdated, IInv, GraceIsBounded
  <2>2. CASE history.outdated = Never
    <3>1. history'.outdated = clock
      BY <1>8, <2>2 DEF outdated
    <3> QED BY <1>1, <1>2, <3>1, ConfigAssumption
  <2> QED BY <2>1, <2>2
<1>18. moving' \in BOOLEAN /\ polled' \in BOOLEAN /\ (moving' => ~f.fail_stop)
  BY <1>1, <1>2
<1> QED
  BY <1>2, <1>8, <1>11, <1>12, <1>13, <1>14, <1>16, <1>17, <1>18, Preserved

LEMMA HeartbeatInvariant ==
    ASSUME IInv, NEW ready \in BOOLEAN, OnMapReady(ready)
    PROVE  IInv'
<1> DEFINE f == HeartbeatReceived(ready)
           goes == ready /\ ~MapLapsed(gate)
           covered == IF ready THEN PlannerIdentity(gate) ELSE history.covered
           lost == IF ready \/ MapLapsed(gate) THEN history.lost
                   ELSE history.lost \cup {PlannerIdentity(gate)}
           h == [history EXCEPT !.covered = covered, !.lost = lost]
<1>1. /\ clock \in Nat /\ gate \in Gate /\ Weak(gate) /\ Sound(gate)
      /\ history \in Histories /\ moving \in BOOLEAN /\ polled \in BOOLEAN
      /\ moving => ~gate.fail_stop /\ Running(gate)
      /\ MapHistory(gate, history) /\ MotionHistory(gate, history)
      /\ GraceHistory(gate, history)
  BY InvariantParts
<1>2. /\ gate' = f /\ clock' = clock /\ polled' = polled
      /\ moving' = (moving /\ ~f.fail_stop)
  BY DEF OnMapReady
<1>3. history' = IF goes THEN h ELSE Interrupted(h)
  BY <1>1 DEF OnMapReady, Histories
<1>4. PlannerIdentity(gate) \in Pairs
  BY <1>1 DEF PlannerIdentity, Pairs, Gate
<1>5. covered \in Pairs /\ lost \in SUBSET Pairs
  BY <1>1, <1>4 DEF Histories
<1> HIDE DEF covered, lost
<1>6. h \in Histories
  BY <1>1, <1>5, Zenon DEF Histories
<1>7. /\ h.covered = covered /\ h.lost = lost /\ h.outdated = history.outdated
      /\ h.interrupted = history.interrupted
  BY <1>1 DEF Histories
<1> HIDE DEF h
<1>8. /\ history' \in Histories
      /\ history'.covered = covered /\ history'.lost = lost
      /\ history'.outdated = history.outdated
      /\ \A t \in history'.interrupted :
           \/ t \in history.interrupted
           \/ t = gate.trajectory /\ t # Empty /\ ~goes
  BY <1>1, <1>3, <1>6, <1>7, InterruptedFacts
<1>9. /\ Sound(f) /\ SameCommand(f, gate) /\ SameSensors(f, gate)
      /\ Onward(f, gate)
      /\ f.planner_epoch = gate.planner_epoch
      /\ f.planner_generation = gate.planner_generation
      /\ f.map_ready = ready /\ f.map_signal = clock
      /\ ready => Covered(f, PlannerIdentity(gate))
      /\ ~ready /\ ~MapLapsed(gate) => OutOfForce(f, PlannerIdentity(gate))
      /\ IF goes THEN HeartbeatKeeps(f) ELSE HeartbeatStops(f)
  BY <1>1, HeartbeatFacts
<1> HIDE DEF f
<1>10. MapHistory(f, history')
  <2>1. \A id \in history'.lost : OutOfForce(f, id)
    BY <1>1, <1>8, <1>9 DEF lost, MapHistory, Onward, Histories
  <2>2. f.map_ready => Covered(f, history'.covered)
    BY <1>8, <1>9 DEF covered
  <2> QED BY <2>1, <2>2 DEF MapHistory
<1>11. MotionHistory(f, history')
  <2>1. f.last_stop \in {gate.last_stop, clock}
    BY <1>9 DEF HeartbeatKeeps, HeartbeatStops, SameMotion
  <2>2. ~goes /\ gate.trajectory # Empty => f.last_stop = clock
    BY <1>9 DEF HeartbeatStops
  <2>3. \A t \in history'.interrupted :
          \/ t \in history.interrupted
          \/ t = gate.trajectory /\ t # Empty /\ f.last_stop = clock
    BY <1>8, <2>2
  <2> QED BY <1>1, <1>8, <2>1, <2>3, MotionHistoryKept
<1>12. GraceHistory(f, history')
  BY <1>1, <1>8, <1>9
     DEF GraceHistory, HeartbeatKeeps, HeartbeatStops, SameGrace, SameMotion, Holds
<1>13. moving' => moving /\ ~f.fail_stop /\ HeartbeatKeeps(f)
  BY <1>2, <1>9 DEF HeartbeatStops
<1>14. MotionRestsOnLiveInputs'
  <2> SUFFICES ASSUME moving' PROVE MotionRestsOnLiveInputs'
    BY DEF MotionRestsOnLiveInputs
  <2>1. clock - clock <= MapReadyTimeout
    BY <1>1, ConfigAssumption
  <2> QED
    BY <1>2, <1>9, <1>13, <2>1
       DEF IInv, HeartbeatKeeps, SameMotion, SameSensors, SameCommand,
           MotionRestsOnLiveInputs
<1>15. GraceIsBounded'
  BY <1>2, <1>8, <1>13 DEF IInv, GraceIsBounded
<1>16. moving' \in BOOLEAN /\ polled' \in BOOLEAN /\ (moving' => ~f.fail_stop)
  BY <1>1, <1>2
<1> QED
  BY <1>2, <1>8, <1>9, <1>10, <1>11, <1>12, <1>14, <1>15, <1>16, Preserved

(* A callback that leaves the command and the map alone, and stops the     *)
(* robot or leaves the motion alone as well.                               *)
LEMMA SensorInvariant ==
    ASSUME IInv, NEW f, gate' = f, Sound(f), SameCommand(f, gate),
           SameMap(f, gate), SameGrace(f, gate), f.active = gate.active,
           f.last_stop \in {gate.last_stop, clock},
           ~f.fail_stop => SameMotion(f, gate),
           UNCHANGED <<clock, polled>>,
           moving' \in BOOLEAN,
           moving' => moving /\ ~f.fail_stop /\ f.gimbal = f.active.request,
           moving' => clock - f.gimbal_signal <= GimbalTimeout \/ ~polled,
           history' \in {history, Interrupted(history)},
           history' # history /\ gate.trajectory # Empty => f.last_stop = clock
    PROVE  IInv'
<1>1. /\ clock \in Nat /\ gate \in Gate /\ Weak(gate) /\ Sound(gate)
      /\ history \in Histories /\ moving \in BOOLEAN /\ polled \in BOOLEAN
      /\ moving => ~gate.fail_stop /\ Running(gate)
      /\ MapHistory(gate, history) /\ MotionHistory(gate, history)
      /\ GraceHistory(gate, history)
  BY InvariantParts
<1>2. /\ history' \in Histories
      /\ history'.covered = history.covered /\ history'.lost = history.lost
      /\ history'.outdated = history.outdated
      /\ \A t \in history'.interrupted :
           \/ t \in history.interrupted
           \/ t = gate.trajectory /\ t # Empty /\ f.last_stop = clock
  <2>1. CASE history' = history
    BY <1>1, <2>1
  <2>2. CASE history' = Interrupted(history) /\ history' # history
    BY <1>1, <2>2, InterruptedFacts
  <2> QED BY <2>1, <2>2
<1>3. MapHistory(f, history')
  BY <1>1, <1>2, MapHistoryKept
<1>4. MotionHistory(f, history')
  BY <1>1, <1>2, MotionHistoryKept
<1>5. GraceHistory(f, history')
  BY <1>1, <1>2 DEF GraceHistory, SameGrace, SameMotion, SameMap, Holds
<1>6. MotionRestsOnLiveInputs'
  <2> SUFFICES ASSUME moving' PROVE MotionRestsOnLiveInputs'
    BY DEF MotionRestsOnLiveInputs
  <2>1. f.tracking /\ f.epoch = f.active.epoch
    BY DEF Sound, Running
  <2> QED
    BY <2>1 DEF IInv, SameCommand, SameMap, SameMotion, MotionRestsOnLiveInputs
<1>7. GraceIsBounded'
  BY <1>2 DEF IInv, GraceIsBounded
<1> QED
  BY <1>1, <1>2, <1>3, <1>4, <1>5, <1>6, <1>7, Preserved

LEMMA StopInvariant ==
    ASSUME IInv, OnEmergencyStop PROVE IInv'
<1> DEFINE f == FailStopped(gate, TRUE)
<1>1. clock \in Nat /\ gate \in Gate /\ Weak(gate)
  BY InvariantParts
<1>2. /\ Sound(f) /\ SameCommand(f, gate) /\ SameMap(f, gate)
      /\ SameGrace(f, gate) /\ f.active = gate.active /\ f.fail_stop
      /\ f.last_stop \in {gate.last_stop, clock}
      /\ gate.trajectory # Empty => f.last_stop = clock
  BY <1>1, StopFacts
<1>3. gate' = f
  BY DEF OnEmergencyStop
<1> HIDE DEF f
<1> QED BY <1>2, <1>3, SensorInvariant DEF OnEmergencyStop

LEMMA LocalizationInvariant ==
    ASSUME IInv, NEW healthy \in BOOLEAN, NEW epoch \in Epochs,
           OnLocalizationStatus(healthy, epoch)
    PROVE  IInv'
<1> DEFINE f == IF healthy THEN Localized(epoch) ELSE Unlocalized
<1>1. clock \in Nat /\ Sound(gate)
  BY InvariantParts
<1>2. /\ Sound(f) /\ SameCommand(f, gate) /\ SameMap(f, gate)
      /\ SameGrace(f, gate) /\ f.active = gate.active
      /\ f.gimbal = gate.gimbal /\ f.gimbal_signal = gate.gimbal_signal
      /\ f.last_stop \in {gate.last_stop, clock}
      /\ ~(healthy /\ gate.epoch \in {0, epoch}) =>
            f.fail_stop /\ (gate.trajectory # Empty => f.last_stop = clock)
      /\ ~f.fail_stop => SameMotion(f, gate)
  BY <1>1, LocalizedFacts
<1>3. gate' = f
  BY DEF OnLocalizationStatus
<1> HIDE DEF f
<1>4. /\ UNCHANGED <<clock, polled>>
      /\ moving' = (moving /\ ~f.fail_stop)
      /\ history' \in {history, Interrupted(history)}
      /\ history' # history => ~(healthy /\ gate.epoch \in {0, epoch})
  BY <1>3 DEF OnLocalizationStatus
<1>5. moving' => /\ f.gimbal = f.active.request
                 /\ polled => clock - f.gimbal_signal <= GimbalTimeout
  BY <1>2, <1>4 DEF IInv, MotionRestsOnLiveInputs
<1> QED BY <1>2, <1>3, <1>4, <1>5, SensorInvariant DEF IInv

LEMMA GimbalInvariant ==
    ASSUME IInv, NEW request \in GimbalRequests \cup {0},
           OnGimbalYawStatus(request)
    PROVE  IInv'
<1> DEFINE g == [gate EXCEPT !.gimbal = request, !.gimbal_signal = clock]
           f == FailStopped(g, TRUE)
           stop == Holds(g) /\ ~GimbalValid(g, g.active.request)
<1>1. clock \in Nat /\ Sound(gate) /\ (moving => Running(gate)) /\ moving \in BOOLEAN
  BY InvariantParts
<1>2. /\ Sound(g) /\ SameCommand(g, gate) /\ SameMap(g, gate)
      /\ SameGrace(g, gate) /\ SameMotion(g, gate) /\ g.active = gate.active
      /\ g.gimbal = request /\ g.gimbal_signal = clock
  BY <1>1, GimbalFacts
<1>3. /\ gate' = IF stop THEN f ELSE g
      /\ moving' = (moving /\ ~stop)
      /\ history' = IF stop THEN Interrupted(history) ELSE history
      /\ UNCHANGED <<clock, polled>>
  BY DEF OnGimbalYawStatus
<1> HIDE DEF g
<1>4. /\ Sound(f) /\ SameCommand(f, g) /\ SameMap(f, g)
      /\ SameGrace(f, g) /\ f.active = g.active /\ f.fail_stop
      /\ f.last_stop \in {g.last_stop, clock}
      /\ g.trajectory # Empty => f.last_stop = clock
  BY <1>1, <1>2, StopFacts DEF Sound
<1> HIDE DEF f
<1>5. CASE stop
  <2>1. /\ SameCommand(f, gate) /\ SameMap(f, gate) /\ SameGrace(f, gate)
        /\ f.active = gate.active /\ f.last_stop \in {gate.last_stop, clock}
        /\ gate.trajectory # Empty => f.last_stop = clock
    BY <1>2, <1>4 DEF SameCommand, SameMap, SameGrace, SameMotion
  <2> QED BY <1>3, <1>4, <1>5, <2>1, SensorInvariant
<1>6. CASE ~stop
  <2>1. clock - clock <= GimbalTimeout
    BY <1>1, ConfigAssumption
  <2>2. moving => g.gimbal = g.active.request /\ ~g.fail_stop
    BY <1>1, <1>2, <1>6 DEF Running, Holds, GimbalValid, SameMotion, IInv
  <2>3. g.last_stop = gate.last_stop
    BY <1>2 DEF SameMotion
  <2> QED BY <1>1, <1>2, <1>3, <1>6, <2>1, <2>2, <2>3, SensorInvariant
<1> QED BY <1>5, <1>6

(* The gate as the control cycle settles it, judged by the same history.   *)
Settles(g) ==
    /\ Weak(g) /\ SameMotion(g, gate) /\ SameSensors(g, gate)
    /\ g.active \in {gate.active, NoCommand}
    /\ g.planner_generation = gate.planner_generation
    /\ Onward(g, gate) /\ (g.map_ready => SameMap(g, gate))
    /\ Holds(g) => SameGrace(g, gate)

LEMMA SettledSettles ==
    ASSUME IInv PROVE Settles(Settled(gate)) /\ Settles(gate)
<1> DEFINE f == Settled(gate)
           g == GraceSettled(gate)
<1>1. clock \in Nat /\ gate \in Gate /\ Weak(gate) /\ GraceHistory(gate, history)
  BY InvariantParts
<1>2. /\ Weak(f) /\ SameSensors(f, gate) /\ SameMotion(f, gate)
      /\ f.active \in {gate.active, NoCommand}
      /\ f.planner_generation = gate.planner_generation
      /\ f.map_ready => SameMap(f, gate)
      /\ Onward(f, gate)
  BY <1>1, SettledFacts
<1>3. Holds(g) => SameGrace(g, gate)
  <2>1. CASE ~GraceExpired(gate)
    BY <2>1 DEF GraceSettled, SameGrace
  <2>2. CASE GraceExpired(gate) /\ Holds(gate)
    <3>1. gate.active.generation = gate.superseded
      BY <1>1, <2>2 DEF GraceHistory, GraceExpired
    <3> QED BY <1>1, <2>2, <3>1, RevokedFacts DEF GraceSettled, Holds
  <2>3. CASE ~Holds(gate)
    BY <1>1, <2>3, GraceSettledFacts DEF Holds
  <2> QED BY <2>1, <2>2, <2>3
<1>4. g \in Gate
  BY <1>1, GraceSettledFacts
<1>5. f.active \in {g.active, NoCommand} /\ SameGrace(f, g)
  BY <1>1, <1>4, MapSettledFacts DEF Settled
<1>6. Holds(f) => SameGrace(f, gate)
  BY <1>3, <1>5 DEF Holds, SameGrace
<1>7. Settles(f)
  BY <1>2, <1>6 DEF Settles
<1>8. Settles(gate)
  BY <1>1 DEF Settles, SameMotion, SameSensors, SameMap, SameGrace, Onward
<1> QED BY <1>7, <1>8

LEMMA SettledHistory ==
    ASSUME IInv, NEW g, Settles(g), NEW f, SameMap(f, g),
           f.active = g.active, SameGrace(f, g), g.fail_stop => f.fail_stop
    PROVE  MapHistory(f, history) /\ GraceHistory(f, history)
<1>1. /\ history \in Histories
      /\ MapHistory(gate, history) /\ GraceHistory(gate, history)
  BY InvariantParts
<1>2. MapHistory(g, history)
  <2>1. \A id \in history.lost : OutOfForce(g, id)
    BY <1>1 DEF MapHistory, Settles, Onward, Histories
  <2>2. g.map_ready => Covered(g, history.covered)
    BY <1>1, SameMapOnward DEF MapHistory, Settles, CoverKept, SameMap, Histories
  <2> QED BY <2>1, <2>2 DEF MapHistory
<1>3. MapHistory(f, history)
  BY <1>1, <1>2, MapHistoryKept
<1>4. GraceHistory(f, history)
  BY <1>1 DEF GraceHistory, Settles, SameGrace, SameMap, SameMotion, Holds
<1> QED BY <1>3, <1>4

LEMMA CycleStopInvariant ==
    ASSUME IInv, NEW g, Settles(g), NEW r, r \in BOOLEAN, CycleStops(g, r),
           clock' = clock, polled' = TRUE
    PROVE  IInv'
<1> DEFINE f == FailStopped(g, r)
<1>1. /\ clock \in Nat /\ Weak(gate) /\ history \in Histories
      /\ MotionHistory(gate, history)
  BY InvariantParts
<1>2. /\ gate' = f /\ moving' = FALSE
      /\ history' = IF r THEN Interrupted(history) ELSE history
  BY DEF CycleStops
<1>3. /\ Sound(f) /\ SameMap(f, g) /\ SameGrace(f, g)
      /\ f.active = g.active /\ f.fail_stop
      /\ f.last_stop \in {g.last_stop, clock}
      /\ r /\ g.trajectory # Empty => f.last_stop = clock
  BY <1>1, StopFacts DEF Settles
<1> HIDE DEF f
<1>4. /\ history' \in Histories
      /\ history'.covered = history.covered /\ history'.lost = history.lost
      /\ history'.outdated = history.outdated
      /\ \A t \in history'.interrupted :
           \/ t \in history.interrupted
           \/ t = gate.trajectory /\ t # Empty /\ r
  BY <1>1, <1>2, InterruptedFacts
<1>5. MapHistory(f, history) /\ GraceHistory(f, history)
  BY <1>3, SettledHistory
<1>6. MapHistory(f, history') /\ GraceHistory(f, history')
  BY <1>4, <1>5 DEF MapHistory, GraceHistory
<1>7. MotionHistory(f, history')
  <2>1. /\ f.last_stop \in {gate.last_stop, clock}
        /\ r /\ gate.trajectory # Empty => f.last_stop = clock
    BY <1>3 DEF Settles, SameMotion
  <2>2. \A t \in history'.interrupted :
          \/ t \in history.interrupted
          \/ t = gate.trajectory /\ t # Empty /\ f.last_stop = clock
    BY <1>4, <2>1
  <2> QED BY <1>1, <1>4, <2>1, <2>2, MotionHistoryKept
<1>8. MotionRestsOnLiveInputs' /\ GraceIsBounded'
  BY <1>2 DEF MotionRestsOnLiveInputs, GraceIsBounded
<1> QED BY <1>2, <1>3, <1>4, <1>6, <1>7, <1>8, Preserved

LEMMA CycleInvariant ==
    ASSUME IInv, OnControlTimer PROVE IInv'
<1> DEFINE g == Settled(gate)
           graceStop == Holds(gate) /\ ~Holds(GraceSettled(gate))
<1>1. /\ clock \in Nat /\ gate \in Gate /\ Weak(gate) /\ Sound(gate)
      /\ history \in Histories /\ MotionHistory(gate, history)
      /\ GraceHistory(gate, history)
  BY InvariantParts
<1>2. Settles(g) /\ Settles(gate)
  BY SettledSettles
<1>3. /\ polled' = TRUE /\ clock' = clock
      /\ \/ \E r \in BOOLEAN : CycleStops(gate, r) \/ CycleStops(g, r)
         \/ /\ ExecutionLeaseValid(g) /\ ~g.fail_stop
            /\ gate' = g
            /\ moving' \in {FALSE, g.trajectory # Empty}
            /\ UNCHANGED history
  BY DEF OnControlTimer
<1> HIDE DEF g
<1>4. CASE \E r \in BOOLEAN : CycleStops(gate, r) \/ CycleStops(g, r)
  BY <1>2, <1>3, <1>4, CycleStopInvariant
<1>5. CASE /\ ExecutionLeaseValid(g) /\ ~g.fail_stop
           /\ gate' = g
           /\ moving' \in {FALSE, g.trajectory # Empty}
           /\ UNCHANGED history
  <2>1. /\ Holds(g) /\ clock - g.signal <= ExecutionCommandTimeout
        /\ ActiveExecutionValid(g) /\ GimbalValid(g, g.active.request)
    BY <1>5 DEF ExecutionLeaseValid
  <2>2. g.active = gate.active /\ ~gate.fail_stop
    BY <1>2, <1>5, <2>1 DEF Settles, Holds, SameMotion
  <2>3. Running(gate)
    BY <1>1, <2>2 DEF Sound
  <2>4. Running(g)
    BY <1>2, <2>1, <2>2, <2>3 DEF Running, Settles, SameMotion, SameSensors
  <2>5. Sound(g)
    BY <1>2, <2>4 DEF Sound, Settles
  <2>6. MapHistory(g, history) /\ GraceHistory(g, history)
    BY <1>2, SettledHistory DEF SameMap, SameGrace
  <2>7. MotionHistory(g, history)
    BY <1>1, <1>2 DEF MotionHistory, Settles, SameMotion
  <2>8. MapReadyFresh(g)
    BY <2>1 DEF ActiveExecutionValid, MapExecutionValid
  <2>9. MotionRestsOnLiveInputs'
    <3> SUFFICES ASSUME moving' PROVE MotionRestsOnLiveInputs'
      BY DEF MotionRestsOnLiveInputs
    <3>1. g.trajectory = g.active.reference
      BY <1>5, <2>4 DEF Running
    <3>2. g.map_ready /\ clock - g.map_signal <= MapReadyTimeout
      BY <2>8 DEF MapReadyFresh
    <3>3. g.gimbal = g.active.request /\ clock - g.gimbal_signal <= GimbalTimeout
      BY <2>1 DEF GimbalValid
    <3> QED BY <1>3, <1>5, <2>1, <2>4, <3>1, <3>2, <3>3
               DEF MotionRestsOnLiveInputs, Running
  <2>10. GraceIsBounded'
    <3> SUFFICES ASSUME history.outdated # Never
                 PROVE  clock - history.outdated <= SupersedeGrace
      BY <1>3, <1>5 DEF GraceIsBounded
    <3>1. g.active.generation < g.planner_generation
          /\ (g.supersede_deadline # Never =>
                g.supersede_deadline <= history.outdated + SupersedeGrace)
      BY <2>1, <2>6 DEF GraceHistory
    <3>2. g \in Gate
      BY <1>2 DEF Settles, Weak
    <3>3. g.active.generation \in Nat /\ g.planner_generation \in Nat
          /\ g.supersede_deadline \in Int /\ history.outdated \in Int
      BY <1>1, <3>2 DEF Gate, Grants, Histories
    <3>4. GraceActive(g)
      BY <2>1, <3>1, <3>3 DEF ActiveExecutionValid, MapExecutionValid
    <3> QED
      BY <1>1, <3>1, <3>3, <3>4, ConfigAssumption DEF GraceActive
  <2>11. moving' \in BOOLEAN
    BY <1>5
  <2> QED
    BY <1>1, <1>3, <1>5, <2>5, <2>6, <2>7, <2>9, <2>10, <2>11, Preserved
<1> QED BY <1>3, <1>4, <1>5

LEMMA TickInvariant ==
    ASSUME IInv, Tick PROVE IInv'
<1> DEFINE lapses == MapReadyFresh(gate) /\ clock' - gate.map_signal > MapReadyTimeout
           lost == IF lapses THEN history.lost \cup {history.covered}
                   ELSE history.lost
<1>1. /\ clock \in Nat /\ gate \in Gate /\ Weak(gate) /\ Sound(gate)
      /\ history \in Histories /\ moving \in BOOLEAN
      /\ moving => ~gate.fail_stop /\ Running(gate)
      /\ MapHistory(gate, history) /\ MotionHistory(gate, history)
      /\ GraceHistory(gate, history)
  BY InvariantParts
<1>2. /\ clock' = clock + 1 /\ polled' = FALSE
      /\ gate' = gate /\ moving' = moving
      /\ history' = [history EXCEPT !.lost = lost]
  BY <1>1 DEF Tick, Histories
<1>3. lost \in SUBSET Pairs
  BY <1>1 DEF Histories
<1>4. /\ history' \in Histories
      /\ history'.lost = lost /\ history'.covered = history.covered
      /\ history'.interrupted = history.interrupted
      /\ history'.outdated = history.outdated
  <2> HIDE DEF lost
  <2>1. history' \in Histories
    BY <1>1, <1>2, <1>3, Zenon DEF Histories
  <2> QED BY <1>1, <1>2, <2>1, SMT DEF Histories
<1>5. clock' \in Nat /\ gate.map_signal \in Int /\ gate.map_signal <= clock
  BY <1>1, <1>2 DEF Weak, Gate
<1>6. MapLapsed(gate) => MapLapsed(gate)'
  BY <1>1, <1>2, <1>5, ConfigAssumption DEF MapLapsed, MapReadyFresh
<1>7. lapses => MapLapsed(gate)' /\ gate.map_ready
  BY <1>1, <1>2, <1>5, ConfigAssumption DEF MapLapsed, MapReadyFresh
<1>8. MapHistory(gate, history)'
  <2>1. ASSUME NEW id \in history.lost PROVE OutOfForce(gate, id)'
    <3>1. OutOfForce(gate, id)
      BY <1>1 DEF MapHistory
    <3> QED BY <1>2, <1>6, <3>1 DEF OutOfForce, LeaseFloor
  <2>2. lapses => OutOfForce(gate, history.covered)'
    BY <1>1, <1>2, <1>4, <1>7 DEF MapHistory, Covered, OutOfForce, LeaseFloor
  <2>3. \A id \in history'.lost : OutOfForce(gate, id)'
    BY <1>4, <2>1, <2>2
  <2>4. (gate.map_ready => Covered(gate, history.covered))'
    BY <1>1, <1>2, <1>4 DEF MapHistory, Covered, LeaseFloor
  <2> QED BY <1>2, <2>3, <2>4 DEF MapHistory, OutOfForce, MapLapsed, MapReadyFresh
<1>9. MotionHistory(gate, history)'
  BY <1>1, <1>2, <1>4 DEF MotionHistory
<1>10. GraceHistory(gate, history)'
  <2>1. gate.supersede_deadline \in Int
    BY <1>1 DEF Gate
  <2> QED
    BY <1>1, <1>2, <1>4, <1>5, <2>1, ConfigAssumption DEF GraceHistory, Holds
<1>11. Sound(gate)'
  <2>1. Weak(gate)'
    BY <1>1, <1>2, <1>5 DEF Weak, HeldSound, Holds, Gate
  <2> QED BY <1>1, <1>2, <2>1 DEF Sound, Running, Holds
<1>12. MotionRestsOnLiveInputs' /\ GraceIsBounded'
  BY <1>2 DEF IInv, MotionRestsOnLiveInputs, GraceIsBounded
<1> QED
  BY <1>1, <1>2, <1>4, <1>5, <1>8, <1>9, <1>10, <1>11, <1>12 DEF IInv

LEMMA StutterInvariant ==
    ASSUME IInv, UNCHANGED vars PROVE IInv'
<1>1. /\ gate' = gate /\ clock' = clock /\ polled' = polled
      /\ moving' = moving /\ history' = history
  BY DEF vars
<1> QED
  BY <1>1, InvariantParts, Preserved
     DEF IInv, MotionRestsOnLiveInputs, GraceIsBounded

LEMMA NextInvariant ==
    ASSUME IInv, [Next]_vars PROVE IInv'
BY CommandInvariant, StatusInvariant, HeartbeatInvariant, StopInvariant,
   LocalizationInvariant, GimbalInvariant, CycleInvariant, TickInvariant,
   StutterInvariant DEF Next

LEMMA Invariance == Spec => []IInv
<1>1. Init => IInv
  BY InitInvariant
<1>2. IInv /\ [Next]_vars => IInv'
  BY NextInvariant
<1> QED BY <1>1, <1>2, PTL DEF Spec

-----------------------------------------------------------------------------
(* The theorems.                                                           *)

(* The gate is well typed, and an engaged fail stop leaves nothing to      *)
(* track (engageFailStop, installPath).                                    *)
THEOREM TypeCorrect == Spec => []TypeOK
<1>1. IInv => TypeOK
  BY DEF IInv, Sound, Weak, TypeOK
<1> QED BY <1>1, Invariance, PTL

(* The robot moves on live inputs only, whatever the callbacks do between  *)
(* control cycles (onControlTimer and the stops of every callback).        *)
THEOREM LiveInputs == Spec => []MotionRestsOnLiveInputs
<1>1. IInv => MotionRestsOnLiveInputs
  BY DEF IInv
<1> QED BY <1>1, Invariance, PTL

(* Announcements of newer generations never prolong a superseded reference *)
(* (onPlannerStatus, supersedeGraceActiveLocked).                          *)
THEOREM GraceBound == Spec => []GraceIsBounded
<1>1. IInv => GraceIsBounded
  BY DEF IInv
<1> QED BY <1>1, Invariance, PTL

(* A reference that a recorded stop interrupted is never tracked again     *)
(* (installPath, engageFailStop).                                          *)
THEOREM InterruptedStaysDead == Spec => []InterruptedPathStaysDead
<1>1. IInv => InterruptedPathStaysDead
  <2> SUFFICES ASSUME IInv, gate.trajectory \in history.interrupted PROVE FALSE
    BY DEF InterruptedPathStaysDead
  <2>1. /\ gate.last_stop # Never /\ gate.trajectory <= gate.last_stop
    BY InvariantParts DEF MotionHistory
  <2>2. gate.trajectory \in Nat /\ gate.trajectory # Empty
    BY InvariantParts DEF Histories, Empty
  <2>3. Running(gate)
    BY <2>2, InvariantParts DEF Sound, Weak
  <2> QED BY <2>1, <2>2, <2>3, InvariantParts DEF Running, Gate
<1> QED BY <1>1, Invariance, PTL

(* A map version that was lost in force never drives the robot again past  *)
(* the next control cycle (onMapReady, onPlannerStatus, onControlTimer).   *)
THEOREM LostStaysLost == Spec => []LostGenerationStaysLost
<1>1. IInv => LostGenerationStaysLost
  <2> SUFFICES ASSUME IInv, moving, polled, Identity(gate.active) \in history.lost
               PROVE  FALSE
    BY DEF LostGenerationStaysLost
  <2> DEFINE id == Identity(gate.active)
  <2>1. OutOfForce(gate, id)
    BY InvariantParts DEF MapHistory
  <2>2. Holds(gate) /\ gate \in Gate /\ clock \in Nat
    BY InvariantParts DEF Running
  <2>3. /\ id[1] = gate.planner_epoch /\ id[2] = gate.active.generation
        /\ gate.active.generation > gate.retired
    BY <2>2, InvariantParts DEF Identity, Weak, HeldSound
  <2>4. ~MapLapsed(gate)
    BY <2>2, InvariantParts
       DEF IInv, MotionRestsOnLiveInputs, MapLapsed, MapReadyFresh, Weak, Gate
  <2>5. gate.active.generation \in Nat /\ gate.retired \in Nat
        /\ gate.planner_epoch \in Nat
    BY <2>2 DEF Gate, Grants
  <2> HIDE DEF id
  <2> QED BY <2>1, <2>3, <2>4, <2>5 DEF OutOfForce
<1> QED BY <1>1, Invariance, PTL

-----------------------------------------------------------------------------
(* The gate implements the promise of both gates.                          *)

Order(f) == <<f.incarnation, f.sequence>>

LicenceOf(f) ==
    IF Holds(f) /\ ~f.fail_stop
    THEN <<f.active.incarnation, f.active.sequence>> ELSE <<0, 0>>

(* A step of the gate, seen from the promise.                              *)
Promised ==
    LET seen == Order(gate)  new == Order(gate')
        granted == LicenceOf(gate)  held == LicenceOf(gate')
    IN  \/ /\ new = seen /\ held = granted
           /\ moving' = moving \/ moving' = FALSE \/ (moving' /\ held # <<0, 0>>)
        \/ /\ LaterOrder(gate') /\ held \in {new, granted} /\ moving' = moving
        \/ /\ SameOrLaterOrder(gate') /\ held = <<0, 0>> /\ moving' = FALSE

LEMMA PromisedImplements ==
    ASSUME gate \in Gate, gate' \in Gate, moving \in BOOLEAN, moving' \in BOOLEAN,
           Promised
    PROVE  [Abstract!Next]_(Abstract!vars)
<1>1. /\ gate.incarnation \in Nat /\ gate.sequence \in Nat
      /\ gate'.incarnation \in Nat /\ gate'.sequence \in Nat
  BY DEF Gate
<1>2. Order(gate') \in Abstract!Orders
  BY <1>1 DEF Order, Abstract!Orders
<1>3. Licence = LicenceOf(gate) /\ Licence' = LicenceOf(gate')
  BY DEF Licence, LicenceOf, Holds
<1>4. LaterOrder(gate') =>
        Abstract!After(Order(gate'), Order(gate)) /\ Order(gate')[1] = Order(gate)[1]
  BY <1>1 DEF LaterOrder, Abstract!After, Order
<1>5. SameOrLaterOrder(gate') =>
        Order(gate') = Order(gate) \/ Abstract!After(Order(gate'), Order(gate))
  BY <1>1, <1>4 DEF SameOrLaterOrder, Abstract!After, Order
<1>6. CASE /\ Order(gate') = Order(gate) /\ LicenceOf(gate') = LicenceOf(gate)
           /\ \/ moving' = moving \/ moving' = FALSE
              \/ moving' /\ LicenceOf(gate') # <<0, 0>>
  <2>1. CASE moving' = moving
    BY <1>3, <1>6, <2>1 DEF Abstract!vars, Order
  <2>2. CASE moving' = FALSE
    BY <1>3, <1>6, <2>2 DEF Abstract!Next, Abstract!Halt, Order
  <2>3. CASE moving' /\ LicenceOf(gate') # <<0, 0>>
    BY <1>3, <1>6, <2>3
       DEF Abstract!Next, Abstract!Move, Abstract!NoLicence, Order
  <2> QED BY <1>6, <2>1, <2>2, <2>3
<1>7. CASE /\ LaterOrder(gate') /\ LicenceOf(gate') \in {Order(gate'), LicenceOf(gate)}
           /\ moving' = moving
  <2>1. CASE LicenceOf(gate') = Order(gate')
    BY <1>2, <1>3, <1>4, <1>7, <2>1 DEF Abstract!Next, Abstract!Grant, Order
  <2>2. CASE LicenceOf(gate') = LicenceOf(gate)
    BY <1>2, <1>3, <1>4, <1>7, <2>2 DEF Abstract!Next, Abstract!Note, Order
  <2> QED BY <1>7, <2>1, <2>2
<1>8. CASE /\ SameOrLaterOrder(gate') /\ LicenceOf(gate') = <<0, 0>>
           /\ moving' = FALSE
  BY <1>2, <1>3, <1>5, <1>8
     DEF Abstract!Next, Abstract!Revoke, Abstract!NoLicence, Order
<1> QED BY <1>6, <1>7, <1>8 DEF Promised

(* Steps in which no command is honoured keep the licence or revoke it.    *)
LEMMA StopsArePromised ==
    ASSUME SameCommand(gate', gate), gate'.fail_stop, moving' = FALSE
    PROVE  Promised
BY DEF Promised, LicenceOf, SameCommand, SameOrLaterOrder

LEMMA UnchangedIsPromised ==
    ASSUME SameCommand(gate', gate), gate'.active = gate.active,
           gate'.fail_stop = gate.fail_stop,
           moving' = moving \/ moving' = FALSE
    PROVE  Promised
BY DEF Promised, Order, LicenceOf, SameCommand, Holds

LEMMA CommandPromised ==
    ASSUME IInv, NEW c \in Commands, OnExecutionCommand(c)
    PROVE  Promised
<1>1. clock \in Nat /\ Sound(gate) /\ moving \in BOOLEAN /\ (moving => ~gate.fail_stop)
  BY InvariantParts
<1>2. /\ gate' = Commanded(c) /\ c.pathAge <= clock
      /\ moving' = (moving /\ ~gate'.fail_stop)
  BY DEF OnExecutionCommand
<1>3. Sound(gate') /\ (LivesOn(gate') \/ Honoured(gate') \/ Stops(gate'))
  BY <1>1, <1>2, CommandedFacts
<1>4. CASE LivesOn(gate')
  BY <1>1, <1>2, <1>4 DEF LivesOn, SameMotion, Promised, LicenceOf, Holds
<1>5. CASE Honoured(gate')
  BY <1>1, <1>2, <1>3, <1>5 DEF Honoured, Sound, Running, Promised, LicenceOf, Order
<1>6. CASE Stops(gate')
  BY <1>1, <1>2, <1>6 DEF Stops, Promised, LicenceOf
<1> QED BY <1>3, <1>4, <1>5, <1>6

LEMMA StatusPromised ==
    ASSUME IInv, NEW s \in Statuses, OnPlannerStatus(s)
    PROVE  Promised
<1>1. clock \in Nat /\ Sound(gate) /\ moving \in BOOLEAN /\ (moving => ~gate.fail_stop)
  BY InvariantParts
<1>2. gate' = Reported(s) /\ moving' = (moving /\ ~gate'.fail_stop)
  BY DEF OnPlannerStatus
<1>3. CASE StatusIgnored(s)
  BY <1>1, <1>2, <1>3, UnchangedIsPromised DEF Reported, SameCommand
<1>4. CASE ~StatusIgnored(s)
  <2>1. SameCommand(gate', gate) /\ (GoesOn(gate', s) \/ Ends(gate', s))
    BY <1>1, <1>2, <1>4, ReadyFacts, UnusableEnds
  <2> QED
    BY <1>1, <1>2, <2>1, UnchangedIsPromised, StopsArePromised
       DEF GoesOn, Ends, SameMotion
<1> QED BY <1>3, <1>4

LEMMA HeartbeatPromised ==
    ASSUME IInv, NEW ready \in BOOLEAN, OnMapReady(ready) PROVE Promised
<1>1. clock \in Nat /\ Sound(gate) /\ Weak(gate) /\ moving \in BOOLEAN
      /\ (moving => ~gate.fail_stop)
  BY InvariantParts
<1>2. gate' = HeartbeatReceived(ready) /\ moving' = (moving /\ ~gate'.fail_stop)
  BY DEF OnMapReady
<1>3. SameCommand(gate', gate) /\ (HeartbeatKeeps(gate') \/ HeartbeatStops(gate'))
  BY <1>1, <1>2, HeartbeatFacts
<1> QED
  BY <1>1, <1>2, <1>3, UnchangedIsPromised, StopsArePromised
     DEF HeartbeatKeeps, HeartbeatStops, SameMotion

LEMMA StopPromised ==
    ASSUME IInv, OnEmergencyStop PROVE Promised
<1>1. clock \in Nat /\ Weak(gate)
  BY InvariantParts
<1> QED BY <1>1, StopFacts, StopsArePromised DEF OnEmergencyStop

LEMMA LocalizationPromised ==
    ASSUME IInv, NEW healthy \in BOOLEAN, NEW epoch \in Epochs,
           OnLocalizationStatus(healthy, epoch)
    PROVE  Promised
<1>1. clock \in Nat /\ Sound(gate) /\ Weak(gate) /\ moving \in BOOLEAN
      /\ (moving => ~gate.fail_stop)
  BY InvariantParts
<1>2. /\ gate' = (IF healthy THEN Localized(epoch) ELSE Unlocalized)
      /\ moving' = (moving /\ ~gate'.fail_stop)
  BY DEF OnLocalizationStatus
<1>3. /\ SameCommand(gate', gate) /\ gate'.active = gate.active
      /\ gate'.fail_stop \/ SameMotion(gate', gate)
  BY <1>1, <1>2, LocalizedFacts
<1> QED
  BY <1>1, <1>2, <1>3, UnchangedIsPromised, StopsArePromised DEF SameMotion

LEMMA GimbalPromised ==
    ASSUME IInv, NEW request \in GimbalRequests \cup {0},
           OnGimbalYawStatus(request)
    PROVE  Promised
<1> DEFINE g == [gate EXCEPT !.gimbal = request, !.gimbal_signal = clock]
           stop == Holds(g) /\ ~GimbalValid(g, g.active.request)
<1>1. clock \in Nat /\ Sound(gate) /\ Weak(gate) /\ moving \in BOOLEAN
      /\ (moving => ~gate.fail_stop)
  BY InvariantParts
<1>2. /\ gate' = IF stop THEN FailStopped(g, TRUE) ELSE g
      /\ moving' = (moving /\ ~stop)
  BY DEF OnGimbalYawStatus
<1>3. Sound(g) /\ SameCommand(g, gate) /\ SameMotion(g, gate) /\ g.active = gate.active
  BY <1>1, GimbalFacts
<1> HIDE DEF g
<1>4. CASE stop
  <2>1. SameCommand(FailStopped(g, TRUE), g) /\ FailStopped(g, TRUE).fail_stop
    BY <1>1, <1>3, StopFacts DEF Sound
  <2> QED BY <1>2, <1>3, <1>4, <2>1, StopsArePromised DEF SameCommand
<1>5. CASE ~stop
  BY <1>1, <1>2, <1>3, <1>5, UnchangedIsPromised DEF SameMotion
<1> QED BY <1>4, <1>5

LEMMA CyclePromised ==
    ASSUME IInv, OnControlTimer PROVE Promised
<1> DEFINE g == Settled(gate)
           graceStop == Holds(gate) /\ ~Holds(GraceSettled(gate))
<1>1. clock \in Nat /\ Weak(gate)
  BY InvariantParts
<1>2. Settles(g) /\ SameCommand(g, gate) /\ Weak(g)
  BY <1>1, SettledSettles, SettledFacts
<1>3. \/ \E r \in BOOLEAN : CycleStops(gate, r) \/ CycleStops(g, r)
      \/ /\ ExecutionLeaseValid(g) /\ ~g.fail_stop
         /\ gate' = g
         /\ moving' \in {FALSE, g.trajectory # Empty}
  BY DEF OnControlTimer
<1> HIDE DEF g
<1>4. ASSUME NEW k, Weak(k), SameCommand(k, gate), NEW r \in BOOLEAN, CycleStops(k, r)
      PROVE  Promised
  <2>1. SameCommand(gate', k) /\ gate'.fail_stop /\ moving' = FALSE
    BY <1>1, <1>4, StopFacts DEF CycleStops
  <2> QED BY <1>4, <2>1, StopsArePromised DEF SameCommand
<1>5. CASE \E r \in BOOLEAN : CycleStops(gate, r) \/ CycleStops(g, r)
  BY <1>1, <1>2, <1>4, <1>5 DEF SameCommand
<1>6. CASE /\ ExecutionLeaseValid(g) /\ ~g.fail_stop
           /\ gate' = g
           /\ moving' \in {FALSE, g.trajectory # Empty}
  <2>1. Holds(g)
    BY <1>6 DEF ExecutionLeaseValid
  <2>2. g.active = gate.active /\ g.fail_stop = gate.fail_stop
    BY <1>2, <2>1 DEF Settles, Holds, SameMotion
  <2>3. g.active.incarnation # 0
    BY <1>2, <2>1 DEF Weak, HeldSound
  <2>4. LicenceOf(gate') = LicenceOf(gate) /\ LicenceOf(gate') # <<0, 0>>
    BY <1>6, <2>1, <2>2, <2>3 DEF LicenceOf, Holds
  <2>5. Order(gate') = Order(gate)
    BY <1>2, <1>6 DEF Order, SameCommand
  <2> QED BY <1>6, <2>4, <2>5 DEF Promised
<1> QED BY <1>3, <1>5, <1>6

LEMMA IdlePromised ==
    ASSUME IInv, Tick \/ UNCHANGED vars PROVE Promised
<1>1. gate' = gate /\ moving' = moving
  BY DEF Tick, vars
<1> QED BY <1>1, UnchangedIsPromised DEF SameCommand

LEMMA NextPromised ==
    ASSUME IInv, [Next]_vars PROVE Promised
BY CommandPromised, StatusPromised, HeartbeatPromised, StopPromised,
   LocalizationPromised, GimbalPromised, CyclePromised, IdlePromised DEF Next

(* The gate implements the promise: every Twist that moves the robot does  *)
(* so under an EXECUTE, in the order of the goal managers, and no licence  *)
(* passes from one manager to the next (onExecutionCommand).               *)
THEOREM GateImplementsLicence == Spec => ImplementsLicence
<1>1. Init => Abstract!Init
  BY DEF Init, InitialGate, Abstract!Init, Abstract!NoLicence, Licence
<1>2. IInv /\ IInv' /\ [Next]_vars => [Abstract!Next]_(Abstract!vars)
  <2> SUFFICES ASSUME IInv, IInv', [Next]_vars
               PROVE  [Abstract!Next]_(Abstract!vars)
    OBVIOUS
  <2>1. gate \in Gate /\ moving \in BOOLEAN
    BY InvariantParts
  <2>2. gate' \in Gate /\ moving' \in BOOLEAN
    BY DEF IInv, Sound, Weak
  <2>3. Promised
    BY NextPromised
  <2> QED BY <2>1, <2>2, <2>3, PromisedImplements
<1> QED BY <1>1, <1>2, Invariance, PTL DEF Spec, ImplementsLicence, Abstract!Spec

=============================================================================
