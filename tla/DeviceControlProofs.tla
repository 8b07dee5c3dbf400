------------------------ MODULE DeviceControlProofs ------------------------
(***************************************************************************)
(* Proofs about the two controllers of a device: the DEYE controller, for  *)
(* any chargers, frequencies, thresholds in order, delays, freshness       *)
(* window and ticker lag; then the client of an air conditioner, for any   *)
(* settings, handshake, delays and number of commands and faults.          *)
(***************************************************************************)
EXTENDS MCDeviceControl, SiftingProofs

-----------------------------------------------------------------------------
(* Types.                                                                  *)

LEMMA Bounds == /\ Horizon \in Nat /\ Stale \in Nat
                /\ CutDelay + MaxLag < Horizon + 1 /\ ReenableDelay + MaxLag < Horizon + 1
                /\ MaxLag < Horizon /\ None = -1
  BY DelaysAreNatural DEF Horizon, Stale, None

LEMMA AgedType ==
    ASSUME NEW limit \in Nat, NEW age \in -1..limit, NEW d \in Nat
    PROVE  /\ Aged(age, d, limit) \in -1..limit
           /\ age \in 0..limit => Aged(age, d, limit) \in 0..limit
  BY DEF Aged, None

LEMMA ClockMovesType ==
    ASSUME TypeOK, NEW d \in Nat, ClockMoves(d)
    PROVE  /\ relayOn' \in BOOLEAN
           /\ cutFor' \in None..Horizon /\ restoreFor' \in None..Horizon
           /\ freq' \in Freqs /\ freqAge' \in 0..Stale
           /\ full' \in [Chargers -> BOOLEAN]
           /\ mpptAge' \in [Chargers -> 0..Stale]
<1>1. cutFor' \in None..Horizon /\ restoreFor' \in None..Horizon
  BY AgedType, Bounds DEF TypeOK, ClockMoves
<1>2. freqAge' \in 0..Stale
  BY AgedType, Bounds DEF TypeOK, ClockMoves
<1>3. \A c \in Chargers : Aged(mpptAge[c], d, Stale) \in 0..Stale
  BY AgedType, Bounds DEF TypeOK
<1>4. mpptAge' \in [Chargers -> 0..Stale]
  BY <1>3 DEF ClockMoves
<1>5. relayOn' \in BOOLEAN /\ freq' \in Freqs /\ full' \in [Chargers -> BOOLEAN]
  BY DEF TypeOK, ClockMoves
<1>. QED BY <1>1, <1>2, <1>4, <1>5

\* Whatever the condition does, its age is the one given, or 0.
LEMMA SteadiedType ==
    ASSUME NEW age \in 0..Horizon, Steadied(age)
    PROVE  steadyFor' \in 0..Horizon
  BY Bounds DEF Steadied

LEMMA TypeNext == TypeOK /\ [Next]_vars => TypeOK'
<1>. SUFFICES ASSUME TypeOK, [Next]_vars PROVE TypeOK'
  OBVIOUS
<1>1. CASE Second
  <2>1. ClockMoves(1) /\ sinceTick' \in 0..MaxLag
    BY <1>1, DelaysAreNatural DEF Second, TypeOK
  <2>2. offFor' \in 0..Horizon
    BY <1>1, AgedType, Bounds DEF Second, TypeOK
  <2>3. Aged(steadyFor, 1, Horizon) \in 0..Horizon
    BY Bounds DEF TypeOK, Aged
  <2>4. steadyFor' \in 0..Horizon
    BY <1>1, <2>3, SteadiedType DEF Second
  <2>. QED BY <2>1, <2>2, <2>4, ClockMovesType DEF TypeOK
<1>2. CASE ClockStep
  <2>1. PICK d \in Nat : ClockMoves(d)
    BY <1>2, Bounds DEF ClockStep
  <2>2. steadyFor' \in 0..Horizon
    BY <1>2, SteadiedType DEF ClockStep, TypeOK
  <2>. QED BY <1>2, <2>1, <2>2, ClockMovesType, Bounds DEF TypeOK, ClockStep
<1>3. CASE Evaluate
  <2>1. relayOn' \in BOOLEAN
    BY <1>3 DEF Evaluate, Decide, Held
  <2>2. cutFor' \in None..Horizon /\ restoreFor' \in None..Horizon
    BY <1>3, Bounds DEF Evaluate, Flags, Anchored, TypeOK
  <2>3. sinceTick' \in 0..MaxLag /\ offFor' \in 0..Horizon
    BY <1>3, Bounds, DelaysAreNatural DEF Evaluate, TypeOK
  <2>. QED BY <1>3, <2>1, <2>2, <2>3 DEF Evaluate, TypeOK, telemetry
<1>4. CASE FreqMessage
  <2>1. steadyFor' \in 0..Horizon
    BY <1>4, SteadiedType DEF FreqMessage, TypeOK
  <2>. QED BY <1>4, <2>1, Bounds DEF FreqMessage, TypeOK, deciding
<1>5. ASSUME NEW c \in Chargers, MpptMessage(c) PROVE TypeOK'
  <2>1. steadyFor' \in 0..Horizon
    BY <1>5, SteadiedType DEF MpptMessage, TypeOK
  <2>2. full' \in [Chargers -> BOOLEAN] /\ mpptAge' \in [Chargers -> 0..Stale]
    BY <1>5, Bounds DEF MpptMessage, TypeOK
  <2>. QED BY <1>5, <2>1, <2>2 DEF MpptMessage, TypeOK, deciding
<1>6. CASE UNCHANGED vars
  BY <1>6 DEF vars, deciding, telemetry, TypeOK
<1>. QED BY <1>1, <1>2, <1>3, <1>4, <1>5, <1>6 DEF Next

LEMMA TypeInit == Init => TypeOK
  BY Bounds, ThresholdsOrdered, DelaysAreNatural DEF Init, TypeOK

\* Every variable of the controller keeps its type (DeyeController::flags,
\* DeyeController::set, read_inputs).
THEOREM TypeCorrect == Spec => []TypeOK
  BY TypeInit, TypeNext, PTL DEF Spec
-----------------------------------------------------------------------------
(* The relay stays off for reenable_delay_secs.                            *)

\* A hard cut or a debounced one happens under the cut condition only.
LEMMA CutsWhenAsked ==
    ASSUME TypeOK, Evaluate, relayOn, ~relayOn'
    PROVE  restoreFor' = None
<1>1. CASE ShouldCut
  BY <1>1 DEF Evaluate, Flags
<1>2. CASE ~ShouldCut
  <2>1. cutFor' = None
    BY <1>2 DEF Evaluate, Flags
  <2>2. ~HardCut
    <3>1. FreqRead \in Int
      BY ThresholdsOrdered DEF FreqRead, TypeOK
    <3>. QED BY <1>2, <3>1, ThresholdsOrdered DEF ShouldCut, HardCut
  <2>. QED BY <2>1, <2>2 DEF Evaluate, Decide, Held
<1>. QED BY <1>1, <1>2

\* While the relay is off, the restore anchor is not older than the cut.
OffInv == ~relayOn => restoreFor = None \/ restoreFor <= offFor

LEMMA OffInvNext ==
    ASSUME TypeOK, OffInv, [Next]_vars
    PROVE  OffInv'
<1>1. CASE Second
  BY <1>1, Bounds DEF Second, ClockMoves, Aged, OffInv, TypeOK
<1>2. CASE Evaluate
  <2>1. SUFFICES ASSUME ~relayOn' PROVE restoreFor' = None \/ restoreFor' <= offFor'
    BY DEF OffInv
  <2>2. CASE relayOn
    BY <1>2, <2>1, <2>2, CutsWhenAsked
  <2>3. CASE ~relayOn
    BY <1>2, <2>3, Bounds DEF Evaluate, Flags, Anchored, OffInv, TypeOK
  <2>. QED BY <2>2, <2>3
<1>3. CASE ClockStep
  <2>1. PICK d \in 1..(Horizon + Stale) : ClockMoves(d)
    BY <1>3 DEF ClockStep
  <2>2. restoreFor' = None \/ restoreFor' <= Horizon
    BY <2>1, Bounds DEF ClockMoves, Aged, TypeOK
  <2>. QED BY <1>3, <2>2 DEF ClockStep, OffInv
<1>4. CASE FreqMessage \/ (\E c \in Chargers : MpptMessage(c)) \/ UNCHANGED vars
  BY <1>4 DEF FreqMessage, MpptMessage, vars, deciding, OffInv
<1>. QED BY <1>1, <1>2, <1>3, <1>4 DEF Next

\* A restore finds an anchor that is old enough.
LEMMA RestoresLate ==
    ASSUME TypeOK, OffInv, [Next]_vars, ~relayOn, relayOn'
    PROVE  offFor >= ReenableDelay
<1>1. Evaluate
  BY DEF Next, vars, deciding, Second, ClockStep, ClockMoves, FreqMessage, MpptMessage
<1>2. Held(restoreFor', ReenableDelay) /\ restoreFor' # None
  BY <1>1 DEF Evaluate, Decide, Held
<1>3. restoreFor' = Anchored(restoreFor)
  BY <1>1, <1>2 DEF Evaluate, Flags
<1>4. Anchored(restoreFor) <= offFor /\ Anchored(restoreFor) \in Int
  BY Bounds DEF OffInv, Anchored, TypeOK
<1>. QED BY <1>2, <1>3, <1>4, DelaysAreNatural DEF Held, TypeOK

\* A DEYE that was cut stays off for at least reenable_delay_secs, as long
\* as the wall clock is not stepped (config.rs, reenable_delay_secs).
THEOREM StaysOff == Spec => MinOffTime
<1>1. Init => OffInv
  BY DEF Init, OffInv
<1>2. TypeOK /\ OffInv /\ [Next]_vars => OffInv'
  BY OffInvNext
<1>3. TypeOK /\ OffInv /\ [Next]_vars
        => [~relayOn /\ relayOn' => offFor >= ReenableDelay]_vars
  BY RestoresLate
<1>. QED BY <1>1, <1>2, <1>3, TypeInit, TypeNext, PTL DEF Spec, MinOffTime

-----------------------------------------------------------------------------
(* The relay follows a steady condition.                                   *)

\* Nothing the controller decides changes what it reads.
LEMMA EvaluateReads == Evaluate => (ShouldCut' <=> ShouldCut)
  BY DEF Evaluate, telemetry, ShouldCut, MpptFull, MpptStale, FreqRead

\* Once a tick has seen the condition clear, the restore anchor is as old
\* as the condition but for one late tick, and a tick that came late enough
\* found the relay on or restored it.
ClearInv ==
    ~ShouldCut /\ steadyFor > sinceTick =>
        /\ restoreFor >= 0 /\ restoreFor >= steadyFor - MaxLag
        /\ steadyFor - sinceTick >= ReenableDelay + MaxLag => relayOn

HotInv ==
    ShouldCut /\ steadyFor > sinceTick =>
        /\ cutFor >= 0 /\ cutFor >= steadyFor - MaxLag
        /\ steadyFor - sinceTick >= CutDelay + MaxLag => ~relayOn

TrackInv == ClearInv /\ HotInv

\* A condition that changes starts a new steady period, of which no tick has
\* seen anything yet.
LEMMA NewPeriod ==
    ASSUME TypeOK', steadyFor' = 0
    PROVE  TrackInv'
<1>1. ~(steadyFor' > sinceTick')
  BY DelaysAreNatural DEF TypeOK
<1>. QED BY <1>1 DEF TrackInv, ClearInv, HotInv

LEMMA TrackSecond ==
    ASSUME TypeOK, TypeOK', TrackInv, Second
    PROVE  TrackInv'
<1>1. CASE steadyFor' = 0
  BY <1>1, NewPeriod
<1>2. CASE (ShouldCut' <=> ShouldCut) /\ steadyFor' = Aged(steadyFor, 1, Horizon)
  <2>1. ClearInv'
    BY <1>2, Bounds, DelaysAreNatural
       DEF TrackInv, ClearInv, Second, ClockMoves, Aged, TypeOK
  <2>2. HotInv'
    BY <1>2, Bounds, DelaysAreNatural
       DEF TrackInv, HotInv, Second, ClockMoves, Aged, TypeOK
  <2>. QED BY <2>1, <2>2 DEF TrackInv
<1>. QED BY <1>1, <1>2 DEF Second, Steadied

LEMMA TrackStep ==
    ASSUME TypeOK, TypeOK', TrackInv, ClockStep
    PROVE  TrackInv'
<1>1. CASE steadyFor' = 0
  BY <1>1, NewPeriod
<1>2. CASE (ShouldCut' <=> ShouldCut) /\ steadyFor' = steadyFor
  <2>1. PICK d \in Nat : ClockMoves(d)
    BY Bounds DEF ClockStep
  <2>2. ClearInv'
    BY <1>2, <2>1, Bounds, DelaysAreNatural
       DEF TrackInv, ClearInv, ClockStep, ClockMoves, Aged, TypeOK
  <2>3. HotInv'
    BY <1>2, <2>1, Bounds, DelaysAreNatural
       DEF TrackInv, HotInv, ClockStep, ClockMoves, Aged, TypeOK
  <2>. QED BY <2>2, <2>3 DEF TrackInv
<1>. QED BY <1>1, <1>2 DEF ClockStep, Steadied

LEMMA TrackMessage ==
    ASSUME TypeOK, TypeOK', TrackInv,
           FreqMessage \/ \E c \in Chargers : MpptMessage(c)
    PROVE  TrackInv'
<1>1. CASE steadyFor' = 0
  BY <1>1, NewPeriod
<1>2. CASE (ShouldCut' <=> ShouldCut) /\ steadyFor' = steadyFor
  <2>1. UNCHANGED <<relayOn, cutFor, restoreFor, sinceTick>>
    BY DEF FreqMessage, MpptMessage, deciding
  <2>. QED BY <1>2, <2>1 DEF TrackInv, ClearInv, HotInv
<1>. QED BY <1>1, <1>2 DEF FreqMessage, MpptMessage, Steadied

LEMMA TrackEvaluate ==
    ASSUME TypeOK, TypeOK', TrackInv, Evaluate
    PROVE  TrackInv'
<1>1. /\ (ShouldCut' <=> ShouldCut)
      /\ steadyFor' = steadyFor /\ sinceTick' = 0
  BY EvaluateReads DEF Evaluate
<1>2. CASE ShouldCut
  <2>1. cutFor' = Anchored(cutFor) /\ restoreFor' = None
    BY <1>2 DEF Evaluate, Flags
  <2>2. cutFor' >= 0 /\ cutFor' >= steadyFor - MaxLag
    BY <1>2, <2>1, Bounds, DelaysAreNatural DEF TrackInv, HotInv, Anchored, TypeOK
  <2>3. steadyFor >= CutDelay + MaxLag => Held(cutFor', CutDelay)
    BY <2>2, Bounds, DelaysAreNatural DEF Held, TypeOK
  <2>4. steadyFor >= CutDelay + MaxLag => ~relayOn'
    BY <2>1, <2>3 DEF Evaluate, Decide, Held
  <2>. QED BY <1>1, <1>2, <2>2, <2>4, DelaysAreNatural DEF TrackInv, HotInv, ClearInv, TypeOK
<1>3. CASE ~ShouldCut
  <2>1. restoreFor' = Anchored(restoreFor) /\ cutFor' = None
    BY <1>3 DEF Evaluate, Flags
  <2>2. restoreFor' >= 0 /\ restoreFor' >= steadyFor - MaxLag
    BY <1>3, <2>1, Bounds, DelaysAreNatural DEF TrackInv, ClearInv, Anchored, TypeOK
  <2>3. steadyFor >= ReenableDelay + MaxLag => Held(restoreFor', ReenableDelay)
    BY <2>2, Bounds, DelaysAreNatural DEF Held, TypeOK
  <2>4. relayOn => relayOn'
    BY <2>1, CutsWhenAsked, <2>2, Bounds
  <2>5. steadyFor >= ReenableDelay + MaxLag => relayOn'
    BY <2>3, <2>4 DEF Evaluate, Decide
  <2>. QED BY <1>1, <1>3, <2>2, <2>5, DelaysAreNatural DEF TrackInv, HotInv, ClearInv, TypeOK
<1>. QED BY <1>2, <1>3

LEMMA TrackNext == TypeOK /\ TypeOK' /\ TrackInv /\ [Next]_vars => TrackInv'
<1>. SUFFICES ASSUME TypeOK, TypeOK', TrackInv, [Next]_vars PROVE TrackInv'
  OBVIOUS
<1>1. CASE UNCHANGED vars
  <2>1. ShouldCut' <=> ShouldCut
    BY <1>1 DEF vars, telemetry, ShouldCut, MpptFull, MpptStale, FreqRead
  <2>. QED BY <1>1, <2>1 DEF vars, deciding, TrackInv, ClearInv, HotInv
<1>. QED BY <1>1, TrackSecond, TrackStep, TrackMessage, TrackEvaluate DEF Next

LEMMA TrackInit == Init => TrackInv
  BY DEF Init, TrackInv, ClearInv, HotInv

\* Once the condition has been steady for the delay and two late ticks, the
\* relay is where the condition wants it.
LEMMA TrackImplies == TypeOK /\ TrackInv => RestoreInTime /\ CutInTime
  BY DelaysAreNatural, Bounds
     DEF TypeOK, TrackInv, ClearInv, HotInv, RestoreInTime, CutInTime

\* The relay is never stranded off: nothing having asked for the cut for
\* reenable_delay_secs and two late ticks, it is on (mod.rs, rules::decide).
THEOREM NeverStranded == Spec => []RestoreInTime
  BY TypeInit, TypeNext, TrackInit, TrackNext, TrackImplies, PTL DEF Spec

\* Nor is it left on: the cut having been asked for during cut_delay_secs
\* and two late ticks, it is off (mod.rs, rules::decide).
THEOREM NeverLeftOn == Spec => []CutInTime
  BY TypeInit, TypeNext, TrackInit, TrackNext, TrackImplies, PTL DEF Spec

-----------------------------------------------------------------------------
(* The client of the air conditioner: what a frame, the view and the unit  *)
(* may hold.  A target of the unit, or of a frame, is a byte.              *)

Values(s) == IF s = "target" THEN Toshiba!Wire ELSE Toshiba!Possible(s)
AnyValue == {Unknown} \cup UNION {Values(s) : s \in Toshiba!Settings}

Views == {w \in [Toshiba!Settings -> AnyValue] :
             \A s \in Toshiba!Settings : w[s] \in {Unknown} \cup Values(s)}
UnitStates == {w \in Views : \A s \in Toshiba!Settings : w[s] \in Values(s)}

Writes == UNION {{Toshiba!Write(s, v) : v \in Values(s)} : s \in Toshiba!Settings}
Frames == {Toshiba!Delay, Toshiba!Greeting} \cup {Toshiba!Read(s) : s \in Toshiba!Settings}
              \cup Writes
Replies == UNION {{Toshiba!Reply(s, v) : v \in Values(s)} : s \in Toshiba!Settings}

\* What the commands of a payload are applied to, and the commands.
Plans == [queue : Seq(Frames), view : Views]
Orders == UNION {{[set |-> s, to |-> v] : v \in Toshiba!Possible(s)} : s \in Toshiba!Settings}

LEMMA ClientBounds ==
    /\ HelloFrames \in Nat \ {0} /\ AfterFrames \in Nat \ {0}
    /\ HandshakeDelay \in Nat \ {0} /\ Watchdog \in Nat
    /\ MaxPayloads \in Nat /\ MaxRemote \in Nat /\ MaxFaults \in Nat
    /\ InitQueries \in Seq(Toshiba!Settings)
  BY ToshibaBounds DEF Toshiba!ToshibaAssumption

LEMMA BytesKept ==
    ASSUME NEW v \in Toshiba!Wire, NEW e
    PROVE  Toshiba!OnWire(v, e) \in Toshiba!Wire /\ Toshiba!FromWire(v, e) \in Toshiba!Wire
  BY DEF Toshiba!Wire, Toshiba!OnWire, Toshiba!FromWire, Toshiba!Offset

\* What a unit may be set to by hand or by a command is one of its values.
LEMMA PossibleValues ==
    /\ \A s \in Toshiba!Settings : Toshiba!Possible(s) \subseteq Values(s)
    /\ \A s \in Toshiba!Settings : Unknown \notin Values(s)
    /\ \A s \in Toshiba!Settings : Values(s) \subseteq AnyValue
  <1>1. ASSUME NEW u \in Toshiba!Units
        PROVE  /\ u["power"] \in {"On", "Off"} /\ u["mode"] \in Modes
               /\ u["target"] \in Targets /\ u["special"] \in Specials
    BY <1>1 DEF Toshiba!Units
  <1>2. Targets \subseteq Toshiba!Wire
    BY ToshibaBounds DEF Toshiba!ToshibaAssumption, Toshiba!Wire
  <1>3. \A s \in Toshiba!Settings : Toshiba!Possible(s) \subseteq Values(s)
    BY <1>1, <1>2 DEF Values, Toshiba!Possible
  <1>4. ASSUME NEW s \in Toshiba!Settings PROVE Unknown \notin Values(s)
    <2>1. Unknown \notin {"On", "Off"} \cup Modes \cup Specials /\ Unknown \notin 0..255
      BY ToshibaBounds, Zenon DEF Toshiba!ToshibaAssumption
    <2>2. CASE s = "target"
      BY <2>1, <2>2 DEF Values, Toshiba!Wire
    <2>3. CASE s # "target"
      <3>1. \A u \in Toshiba!Units : u[s] \in {"On", "Off"} \cup Modes \cup Specials
        BY <1>1, <2>3 DEF Toshiba!Settings
      <3>. QED BY <2>1, <2>3, <3>1 DEF Values, Toshiba!Possible
    <2>. QED BY <2>2, <2>3
  <1>. QED BY <1>3, <1>4 DEF AnyValue

LEMMA UnitsAreStates == Toshiba!Units \subseteq UnitStates
  <1> SUFFICES ASSUME NEW u \in Toshiba!Units PROVE u \in UnitStates
    OBVIOUS
  <1>1. u = [s \in Toshiba!Settings |-> u[s]]
    BY DEF Toshiba!Units, Toshiba!Settings
  <1>2. \A s \in Toshiba!Settings : u[s] \in Values(s)
    BY PossibleValues DEF Toshiba!Possible
  <1>3. \A s \in Toshiba!Settings : u[s] \in AnyValue
    BY <1>2, PossibleValues
  <1>4. u \in [Toshiba!Settings -> AnyValue]
    BY <1>1, <1>3
  <1>. QED BY <1>2, <1>4 DEF UnitStates, Views

LEMMA ViewSet ==
    ASSUME NEW w \in Views, NEW s \in Toshiba!Settings, NEW v \in Values(s)
    PROVE  /\ [w EXCEPT ![s] = v] \in Views
           /\ w \in UnitStates => [w EXCEPT ![s] = v] \in UnitStates
  BY PossibleValues DEF Views, UnitStates

\* Some of the settings a unit may have.
LEMMA AlwaysPossible ==
    /\ {"On", "Off"} \subseteq Toshiba!Possible("power")
    /\ {"Standard", "EightDeg"} \subseteq Toshiba!Possible("special")
  <1>1. PICK u \in Toshiba!Units : TRUE
    <2>1. PICK m \in Modes, t \in Targets, x \in Specials : TRUE
      <3>1. Modes # {} /\ Targets # {} /\ "Standard" \in Specials
        BY ToshibaBounds DEF Toshiba!ToshibaAssumption
      <3>. QED BY <3>1, Zenon
    <2>2. [power |-> "On", mode |-> m, target |-> t, special |-> x] \in Toshiba!Units
      BY DEF Toshiba!Units
    <2>. QED BY <2>2
  <1>2. \A x \in {"On", "Off"} : [u EXCEPT !.power = x] \in Toshiba!Units
    BY DEF Toshiba!Units
  <1>3. \A x \in Specials : [u EXCEPT !.special = x] \in Toshiba!Units
    BY DEF Toshiba!Units
  <1>4. {"Standard", "EightDeg"} \subseteq Specials
    BY ToshibaBounds DEF Toshiba!ToshibaAssumption
  <1>5. \A x \in {"On", "Off"} : [u EXCEPT !.power = x]["power"] = x
    BY DEF Toshiba!Units
  <1>6. \A x \in Specials : [u EXCEPT !.special = x]["special"] = x
    BY DEF Toshiba!Units
  <1>. QED BY <1>2, <1>3, <1>4, <1>5, <1>6 DEF Toshiba!Possible

-----------------------------------------------------------------------------
(* What a command adds to the queue.                                       *)

\* n frames more, whatever becomes of the view.
Longer(c, d, n) == d \in Plans /\ Len(d.queue) <= Len(c.queue) + n

LEMMA QueuedAddsOne ==
    ASSUME NEW c \in Plans, NEW s \in Toshiba!Settings, NEW v \in Values(s)
    PROVE  /\ Toshiba!Queued(c, s, v) \in Plans
           /\ Toshiba!Queued(c, s, v).view = c.view
           /\ Len(Toshiba!Queued(c, s, v).queue) = Len(c.queue) + 1
           /\ Len(c.queue) \in Nat
  <1>1. Toshiba!Write(s, v) \in Frames
    BY DEF Frames, Writes
  <1>2. PICK q \in Seq(Frames) : q = c.queue
    BY DEF Plans
  <1>3. PICK e \in Frames : e = Toshiba!Write(s, v)
    BY <1>1
  <1>4. Toshiba!Queued(c, s, v) = [queue |-> Append(q, e), view |-> c.view]
    BY <1>2, <1>3 DEF Toshiba!Queued, Plans
  <1>5. Append(q, e) \in Seq(Frames) /\ Len(Append(q, e)) = Len(q) + 1 /\ Len(q) \in Nat
    BY QueueAppend
  <1>. QED BY <1>2, <1>4, <1>5 DEF Plans

LEMMA SetPresetAddsOne ==
    ASSUME NEW c \in Plans, NEW p \in Toshiba!Possible("special")
    PROVE  /\ Longer(c, Toshiba!SetPreset(c, p), 1)
           /\ Len(c.queue) \in Nat /\ Len(Toshiba!SetPreset(c, p).queue) \in Nat
  <1>1. "special" \in Toshiba!Settings /\ p \in Values("special")
    BY PossibleValues DEF Toshiba!Settings
  <1>2. PICK d \in Plans : d = Toshiba!Queued(c, "special", p)
    BY <1>1, QueuedAddsOne
  <1>3. d.view = c.view /\ Len(d.queue) = Len(c.queue) + 1 /\ Len(c.queue) \in Nat
    BY <1>1, <1>2, QueuedAddsOne
  <1>4. [d EXCEPT !.view["special"] = p]
            = [queue |-> d.queue, view |-> [d.view EXCEPT !["special"] = p]]
    BY DEF Plans
  <1>5. d.view \in Views /\ d.queue \in Seq(Frames)
    BY DEF Plans
  <1>6. [d.view EXCEPT !["special"] = p] \in Views
    BY <1>1, <1>5, ViewSet
  <1>7. Toshiba!SetPreset(c, p) = [d EXCEPT !.view["special"] = p]
    BY <1>2 DEF Toshiba!SetPreset
  <1>. QED BY <1>3, <1>4, <1>5, <1>6, <1>7 DEF Longer, Plans

LEMMA SetModeAddsTwo ==
    ASSUME NEW c \in Plans, NEW m \in Toshiba!Possible("mode")
    PROVE  Longer(c, Toshiba!SetMode(c, m), 2)
  <1>1. "mode" \in Toshiba!Settings /\ "power" \in Toshiba!Settings
    BY DEF Toshiba!Settings
  <1>2. m \in Values("mode") /\ "On" \in Values("power")
    BY <1>1, PossibleValues, AlwaysPossible
  <1>3. Longer(c, Toshiba!Queued(c, "mode", m), 2)
    BY <1>1, <1>2, QueuedAddsOne DEF Longer
  <1>4. PICK d \in Plans : d = Toshiba!Queued(c, "power", "On")
    BY <1>1, <1>2, QueuedAddsOne
  <1>5. Len(d.queue) = Len(c.queue) + 1 /\ Len(c.queue) \in Nat
    BY <1>1, <1>2, <1>4, QueuedAddsOne
  <1>6. Toshiba!Queued(d, "mode", m) \in Plans
        /\ Len(Toshiba!Queued(d, "mode", m).queue) = Len(d.queue) + 1
    BY <1>1, <1>2, QueuedAddsOne
  <1>7. Longer(c, Toshiba!Queued(d, "mode", m), 2)
    BY <1>5, <1>6 DEF Longer
  <1>. QED BY <1>3, <1>4, <1>7 DEF Toshiba!SetMode

LEMMA SetTargetTempAddsTwo ==
    ASSUME NEW c \in Plans, NEW t \in Toshiba!Possible("target")
    PROVE  Longer(c, Toshiba!SetTargetTemp(c, t), 2)
  <1>1. "target" \in Toshiba!Settings /\ t \in Toshiba!Wire
    BY PossibleValues DEF Toshiba!Settings, Values
  <1>2. {"Standard", "EightDeg"} \subseteq Toshiba!Possible("special")
    BY <1>1, AlwaysPossible
  <1> DEFINE want == t < Toshiba!MinTempStandard
             now == IF want /\ ~Toshiba!Eight(c.view) THEN Toshiba!SetPreset(c, "EightDeg")
                    ELSE IF ~want /\ Toshiba!Eight(c.view) THEN Toshiba!SetPreset(c, "Standard")
                    ELSE c
             byte == Toshiba!OnWire(t, Toshiba!Eight(now.view))
  <1>3. now \in Plans /\ Len(now.queue) <= Len(c.queue) + 1 /\ Len(now.queue) \in Nat
        /\ Len(c.queue) \in Nat
    <2>1. Longer(c, Toshiba!SetPreset(c, "EightDeg"), 1)
          /\ Longer(c, Toshiba!SetPreset(c, "Standard"), 1)
      BY <1>2, SetPresetAddsOne
    <2>2. \A d \in Plans : Len(d.queue) \in Nat
      BY DEF Plans
    <2>. QED BY <2>1, <2>2 DEF Longer
  <1>4. byte \in Toshiba!Wire
    BY <1>1, BytesKept
  <1>5. Toshiba!SetTargetTemp(c, t)
            = [now EXCEPT !.queue = Append(@, Toshiba!Write("target", byte))]
    BY DEF Toshiba!SetTargetTemp
  <1> HIDE DEF now, byte
  <1>6. Toshiba!SetTargetTemp(c, t) = Toshiba!Queued(now, "target", byte)
    BY <1>5 DEF Toshiba!Queued
  <1>7. byte \in Values("target")
    BY <1>4 DEF Values
  <1>8. Toshiba!Queued(now, "target", byte) \in Plans
        /\ Len(Toshiba!Queued(now, "target", byte).queue) = Len(now.queue) + 1
    BY <1>1, <1>3, <1>7, QueuedAddsOne
  <1>. QED BY <1>3, <1>6, <1>8 DEF Longer

\* The most frames a command to the setting may queue.
Cost(s) == IF s \in {"mode", "target"} THEN 2 ELSE 1

LEMMA CommandAdds ==
    ASSUME NEW c \in Plans, NEW o \in Orders
    PROVE  Longer(c, Toshiba!ApplyCommand(c, o), Cost(o.set))
  <1>1. o.set \in Toshiba!Settings /\ o.to \in Toshiba!Possible(o.set)
    BY DEF Orders
  <1>2. CASE o.set = "special"
    BY <1>1, <1>2, SetPresetAddsOne DEF Toshiba!ApplyCommand, Cost
  <1>3. CASE o.set = "mode"
    BY <1>1, <1>3, SetModeAddsTwo DEF Toshiba!ApplyCommand, Cost
  <1>4. CASE o.set = "target"
    BY <1>1, <1>4, SetTargetTempAddsTwo DEF Toshiba!ApplyCommand, Cost
  <1>5. CASE o.set = "power"
    <2>1. o.to \in Values(o.set)
      BY <1>1, PossibleValues
    <2>2. Longer(c, Toshiba!Queued(c, o.set, o.to), 1)
      BY <1>1, <2>1, QueuedAddsOne DEF Longer
    <2>. QED BY <1>5, <2>2 DEF Toshiba!ApplyCommand, Cost
  <1>. QED BY <1>1, <1>2, <1>3, <1>4, <1>5 DEF Toshiba!Settings

-----------------------------------------------------------------------------
(* A payload.                                                              *)

\* Commands that queue at most n frames: a budget says how many up to each.
Within(cmds, n) ==
    /\ cmds \in Seq(Orders)
    /\ \E b \in [0 .. Len(cmds) -> Nat] :
          /\ b[0] = 0 /\ b[Len(cmds)] <= n
          /\ \A i \in 1 .. Len(cmds) : b[i - 1] + Cost(cmds[i].set) <= b[i]

LEMMA CommandAdded ==
    ASSUME NEW n \in Nat, NEW cmds, Within(cmds, n), NEW o \in Orders, NEW m \in Nat,
           n + Cost(o.set) <= m
    PROVE  Within(cmds \o <<o>>, m)
  <1>1. PICK l \in Nat : l = Len(cmds)
    BY DEF Within
  <1>2. PICK b \in [0 .. l -> Nat] :
           /\ b[0] = 0 /\ b[l] <= n
           /\ \A i \in 1 .. l : b[i - 1] + Cost(cmds[i].set) <= b[i]
    BY <1>1 DEF Within
  <1>3. PICK r : r = cmds \o <<o>>
    OBVIOUS
  <1>4. /\ r \in Seq(Orders) /\ Len(r) = l + 1 /\ r[l + 1] = o
        /\ \A i \in 1 .. l : r[i] = cmds[i]
    BY <1>1, <1>3 DEF Within
  <1> DEFINE e == [i \in 0 .. l + 1 |-> IF i <= l THEN b[i] ELSE m]
  <1>5. /\ e \in [0 .. l + 1 -> Nat] /\ e[l + 1] = m
        /\ \A i \in 0 .. l : e[i] = b[i]
    OBVIOUS
  <1> HIDE DEF e
  <1>6. Cost(o.set) \in Nat /\ l \in 0 .. l /\ 0 \in 0 .. l
    BY DEF Cost
  <1>7. ASSUME NEW i \in 1 .. l + 1 PROVE e[i - 1] + Cost(r[i].set) <= e[i]
    <2>1. CASE i = l + 1
      BY <1>2, <1>4, <1>5, <1>6, <2>1
    <2>2. CASE i # l + 1
      <3>1. i \in 1 .. l /\ i - 1 \in 0 .. l /\ i \in 0 .. l
        BY <2>2
      <3>. QED BY <1>2, <1>4, <1>5, <3>1
    <2>. QED BY <2>1, <2>2
  <1>8. e[0] = 0 /\ e[l + 1] <= m
    BY <1>2, <1>5, <1>6
  <1>. QED BY <1>3, <1>4, <1>5, <1>7, <1>8 DEF Within

LEMMA FieldAdded ==
    ASSUME NEW n \in Nat, NEW cmds, Within(cmds, n), NEW s \in Toshiba!Settings,
           NEW x \in Toshiba!Field(s)
    PROVE  Within(cmds \o x, n + Cost(s))
  <1>1. Cost(s) \in Nat /\ Cost("mode") = 2 /\ Cost("power") = 1
    BY DEF Cost
  <1>2. CASE x = <<>>
    <2>1. cmds \o x = cmds
      BY <1>2 DEF Within
    <2>2. PICK b \in [0 .. Len(cmds) -> Nat] :
             /\ b[0] = 0 /\ b[Len(cmds)] <= n
             /\ \A i \in 1 .. Len(cmds) : b[i - 1] + Cost(cmds[i].set) <= b[i]
      BY DEF Within
    <2>3. b[Len(cmds)] \in Nat
      BY <2>2 DEF Within
    <2>4. b[Len(cmds)] <= n + Cost(s)
      BY <1>1, <2>2, <2>3
    <2>. QED BY <2>1, <2>2, <2>4 DEF Within
  <1>3. ASSUME NEW r \in Toshiba!Settings, NEW v \in Toshiba!Possible(r),
               Cost(r) <= Cost(s), x = <<[set |-> r, to |-> v]>>
        PROVE  Within(cmds \o x, n + Cost(s))
    <2>1. PICK o \in Orders : o = [set |-> r, to |-> v]
      <3>1. [set |-> r, to |-> v] \in {[set |-> r, to |-> w] : w \in Toshiba!Possible(r)}
        BY Zenon
      <3>2. [set |-> r, to |-> v] \in Orders
        BY <3>1, Zenon DEF Orders
      <3>. QED BY <3>2, Zenon
    <2>2. o.set = r /\ x = <<o>> /\ Cost(r) \in Nat
      BY <1>3, <2>1 DEF Cost
    <2>3. n + Cost(s) \in Nat /\ n + Cost(o.set) <= n + Cost(s)
      BY <1>1, <1>3, <2>2
    <2>4. Within(cmds \o <<o>>, n + Cost(s))
      BY <2>3, CommandAdded
    <2>. QED BY <2>2, <2>4
  <1>4. \/ x = <<>>
        \/ \E v \in Toshiba!Possible(s) : x = <<[set |-> s, to |-> v]>>
        \/ s = "mode" /\ x = <<[set |-> "power", to |-> "Off"]>>
    BY Zenon DEF Toshiba!Field
  <1>5. "power" \in Toshiba!Settings /\ "Off" \in Toshiba!Possible("power")
    BY AlwaysPossible DEF Toshiba!Settings
  <1>. QED BY <1>1, <1>2, <1>3, <1>4, <1>5

LEMMA PayloadsWithin ==
    ASSUME NEW cmds \in Toshiba!Payloads
    PROVE  Within(cmds, 6)
  <1>1. PICK p \in Toshiba!Field("power"), m \in Toshiba!Field("mode"),
             t \in Toshiba!Field("target"), x \in Toshiba!Field("special") :
           cmds = p \o m \o t \o x
    BY DEF Toshiba!Payloads
  <1>2. /\ {"power", "mode", "target", "special"} \subseteq Toshiba!Settings
        /\ 0 + Cost("power") = 1 /\ 1 + Cost("mode") = 3 /\ 3 + Cost("target") = 5
        /\ 5 + Cost("special") = 6
    BY DEF Toshiba!Settings, Cost
  <1>3. PICK e : e = <<>>
    OBVIOUS
  <1>4. Within(e, 0)
    <2>1. e \in Seq(Orders) /\ Len(e) = 0
      BY <1>3
    <2>2. PICK b : b = [i \in 0 .. 0 |-> 0]
      OBVIOUS
    <2>3. b \in [0 .. Len(e) -> Nat] /\ b[0] = 0 /\ b[Len(e)] <= 0
      BY <2>1, <2>2
    <2>4. \A i \in 1 .. Len(e) : b[i - 1] + Cost(e[i].set) <= b[i]
      BY <2>1
    <2>. QED BY <2>1, <2>3, <2>4 DEF Within
  <1>5. Within(e \o p, 1)
    BY <1>2, <1>4, FieldAdded
  <1>6. Within((e \o p) \o m, 3)
    BY <1>2, <1>5, FieldAdded
  <1>7. Within(((e \o p) \o m) \o t, 5)
    BY <1>2, <1>6, FieldAdded
  <1>8. Within((((e \o p) \o m) \o t) \o x, 6)
    BY <1>2, <1>7, FieldAdded
  <1>9. e \o p = p
    BY <1>3 DEF Toshiba!Field
  <1>. QED BY <1>1, <1>8, <1>9

-----------------------------------------------------------------------------
(* The fold of the commands of a payload.                                  *)

Most(T) == CHOOSE x \in T : \A y \in T : x >= y

LEMMA MostOfCount ==
    /\ \A n \in Nat : \A T \in SUBSET (1 .. n) : T # {} => Most(T) \in T
    /\ \A k \in Nat \ {0} : Most(1 .. k) = k
  <1>1. ASSUME NEW n \in Nat, NEW T \in SUBSET (1 .. n), T # {} PROVE Most(T) \in T
    <2> DEFINE Above == {n - y : y \in T}
    <2>1. PICK a \in Above : \A b \in Above : a <= b
      <3>1. \A y \in T : n - y \in Nat
        BY <1>1
      <3>2. Above \subseteq Nat /\ Above # {}
        BY <1>1, <3>1
      <3> HIDE DEF Above
      <3>. QED BY <3>2, LeastNatural
    <2>2. PICK x \in T : a = n - x
      BY <2>1
    <2>3. \A y \in T : n - x <= n - y
      BY <2>1, <2>2
    <2>4. \A y \in T : x >= y
      BY <2>3
    <2>. QED BY <2>4, Zenon DEF Most
  <1>2. ASSUME NEW k \in Nat \ {0} PROVE Most(1 .. k) = k
    <2>1. Most(1 .. k) \in 1 .. k
      <3>1. k \in 1 .. k /\ 1 .. k \in SUBSET (1 .. k) /\ k \in Nat
        OBVIOUS
      <3>. QED BY <1>1, <3>1, Zenon
    <2>2. k \in 1 .. k /\ \A y \in 1 .. k : k >= y
      OBVIOUS
    <2>3. \A y \in 1 .. k : Most(1 .. k) >= y
      BY <2>2, Zenon DEF Most
    <2>. QED BY <2>1, <2>2, <2>3
  <1>. QED BY <1>1, <1>2

LEMMA FoldOfPayload ==
    ASSUME NEW c \in Plans, NEW cmds \in Seq(Orders)
    PROVE  \E f : /\ f[{}] = c
                  /\ \A k \in 1 .. Len(cmds) :
                        f[1 .. k] = Toshiba!ApplyCommand(f[1 .. k - 1], cmds[k])
                  /\ Toshiba!FoldLeft(Toshiba!ApplyCommand, c, cmds) = f[1 .. Len(cmds)]
  <1>1. PICK n \in Nat : n = Len(cmds)
    OBVIOUS
  <1> DEFINE T == 1 .. n
             g == [p \in T \X Plans |-> Toshiba!ApplyCommand(p[2], cmds[p[1]])]
             pick == [s \in SUBSET T |-> Most(s)]
             Is(f) == f = [s \in SUBSET T |->
                              IF s = {} THEN c
                              ELSE Toshiba!ApplyCommand(f[s \ {Most(s)}], cmds[Most(s)])]
             F == CHOOSE f : Is(f)
  <1>2. IsFiniteSet(T) /\ DOMAIN cmds = T
    BY <1>1, FS_Interval
  <1>3. \A b \in Plans, x \in T : Toshiba!ApplyCommand(b, cmds[x]) \in Plans
    BY <1>1, CommandAdds DEF Longer
  <1>4. g \in [T \X Plans -> Plans]
    BY <1>3
  <1>g. \A x \in T, b \in Plans : g[<<x, b>>] = Toshiba!ApplyCommand(b, cmds[x])
    OBVIOUS
  <1>5. \A s \in SUBSET T : pick[s] = Most(s) /\ (s # {} => Most(s) \in s)
    BY MostOfCount
  <1>6. \A s \in SUBSET T : s # {} => pick[s] \in s
    BY <1>5
  <1>k. \A k \in 1 .. n : /\ 1 .. k \in SUBSET T /\ 1 .. k # {} /\ Most(1 .. k) = k
                          /\ (1 .. k) \ {Most(1 .. k)} = 1 .. k - 1
    <2> SUFFICES ASSUME NEW k \in 1 .. n
                 PROVE  /\ 1 .. k \in SUBSET T /\ 1 .. k # {} /\ Most(1 .. k) = k
                        /\ (1 .. k) \ {Most(1 .. k)} = 1 .. k - 1
      OBVIOUS
    <2>1. Most(1 .. k) = k
      BY MostOfCount
    <2>2. 1 .. k \in SUBSET T
      OBVIOUS
    <2>3. k \in 1 .. k
      OBVIOUS
    <2>4. (1 .. k) \ {k} = 1 .. k - 1
      OBVIOUS
    <2>. QED BY <2>1, <2>2, <2>3, <2>4
  <1>e. {} \in SUBSET T
    OBVIOUS
  <1> HIDE DEF g, pick, T
  <1>7. PICK f \in [SUBSET T -> Plans] : FoldedBy(f, T, pick, g, c)
    BY <1>2, <1>4, <1>6, FoldByExists, Zenon
  <1>8. \A s \in SUBSET T : f[s] = IF s = {} THEN c
                                   ELSE Toshiba!ApplyCommand(f[s \ {Most(s)}], cmds[Most(s)])
    <2> SUFFICES ASSUME NEW s \in SUBSET T, s # {}
                 PROVE  f[s] = Toshiba!ApplyCommand(f[s \ {Most(s)}], cmds[Most(s)])
      BY <1>7, Zenon DEF FoldedBy
    <2>1. Most(s) \in T /\ s \ {Most(s)} \in SUBSET T
      BY <1>5
    <2>2. f[s \ {Most(s)}] \in Plans
      BY <2>1
    <2>. QED BY <1>5, <1>7, <2>1, <2>2, <1>g, Zenon DEF FoldedBy
  <1>9. Is(f)
    <2>1. f = [s \in SUBSET T |-> f[s]]
      OBVIOUS
    <2>. QED BY <1>8, <2>1, Zenon
  <1>10. Is(F)
    BY <1>9, Zenon
  <1>11. Toshiba!FoldLeft(Toshiba!ApplyCommand, c, cmds) = F[T]
    BY <1>2, Zenon DEF Toshiba!FoldLeft, Toshiba!MapThenFoldSet, Toshiba!Max, Most
  <1> HIDE DEF F
  <1>12. \A s \in SUBSET T :
            F[s] = IF s = {} THEN c
                   ELSE Toshiba!ApplyCommand(F[s \ {Most(s)}], cmds[Most(s)])
    BY <1>10, Zenon
  <1>13. F[{}] = c
    BY <1>12, <1>e, Zenon
  <1>14. \A k \in 1 .. n : F[1 .. k] = Toshiba!ApplyCommand(F[1 .. k - 1], cmds[k])
    BY <1>12, <1>k, Zenon
  <1>. QED BY <1>1, <1>11, <1>13, <1>14, Zenon DEF T

\* A payload leaves a plan, of at most six frames more.
LEMMA PayloadAdds ==
    ASSUME NEW c \in Plans, NEW cmds \in Toshiba!Payloads
    PROVE  Longer(c, Toshiba!FoldLeft(Toshiba!ApplyCommand, c, cmds), 6)
  <1>1. Within(cmds, 6) /\ cmds \in Seq(Orders)
    BY PayloadsWithin DEF Within
  <1>2. PICK n \in Nat : n = Len(cmds)
    BY <1>1
  <1>f. PICK f : /\ f[{}] = c
                 /\ \A k \in 1 .. Len(cmds) :
                       f[1 .. k] = Toshiba!ApplyCommand(f[1 .. k - 1], cmds[k])
                 /\ Toshiba!FoldLeft(Toshiba!ApplyCommand, c, cmds) = f[1 .. Len(cmds)]
    BY <1>1, FoldOfPayload, Zenon
  <1>3. /\ f[{}] = c
        /\ \A k \in 1 .. n : f[1 .. k] = Toshiba!ApplyCommand(f[1 .. k - 1], cmds[k])
        /\ Toshiba!FoldLeft(Toshiba!ApplyCommand, c, cmds) = f[1 .. n]
    BY <1>f, <1>2, Zenon
  <1>4. PICK b \in [0 .. n -> Nat] :
           /\ b[0] = 0 /\ b[n] <= 6
           /\ \A i \in 1 .. n : b[i - 1] + Cost(cmds[i].set) <= b[i]
    BY <1>1, <1>2 DEF Within
  <1>5. \A k \in 1 .. n : cmds[k] \in Orders /\ Cost(cmds[k].set) \in Nat
    BY <1>1, <1>2 DEF Cost
  <1>6. \A d \in Plans : Len(d.queue) \in Nat
    BY DEF Plans
  <1> DEFINE P == {k \in 0 .. n : Longer(c, f[1 .. k], b[k])}
  <1>7. 0 \in P
    <2>1. 1 .. 0 = {}
      OBVIOUS
    <2>. QED BY <1>3, <1>4, <1>6, <2>1 DEF Longer
  <1>8. ASSUME NEW k \in 1 .. n, k - 1 \in P PROVE k \in P
    <2>1. PICK d, e : d = f[1 .. k - 1] /\ e = f[1 .. k]
      OBVIOUS
    <2>2. d \in Plans /\ Len(d.queue) <= Len(c.queue) + b[k - 1]
      BY <1>8, <2>1 DEF Longer
    <2>3. e \in Plans /\ Len(e.queue) <= Len(d.queue) + Cost(cmds[k].set)
      BY <1>3, <1>5, <2>1, <2>2, CommandAdds DEF Longer
    <2>4. b[k - 1] \in Nat /\ b[k] \in Nat /\ b[k - 1] + Cost(cmds[k].set) <= b[k]
      BY <1>4
    <2>5. PICK l, m, h, z : l = Len(c.queue) /\ m = Len(d.queue) /\ h = Len(e.queue)
                            /\ z = Cost(cmds[k].set)
      OBVIOUS
    <2>6. l \in Nat /\ m \in Nat /\ h \in Nat /\ z \in Nat
      BY <1>5, <1>6, <2>2, <2>3, <2>5
    <2>7. m <= l + b[k - 1] /\ h <= m + z /\ b[k - 1] + z <= b[k]
      BY <2>2, <2>3, <2>4, <2>5
    <2>8. h <= l + b[k]
      BY <2>4, <2>6, <2>7
    <2>. QED BY <2>1, <2>3, <2>5, <2>8 DEF Longer
  <1>9. n \in P
    <2> HIDE DEF P
    <2>1. 0 .. n \subseteq P
      BY <1>7, <1>8, CountUp
    <2>. QED BY <2>1
  <1>10. b[n] \in Nat
    BY <1>4
  <1>. QED BY <1>3, <1>4, <1>6, <1>9, <1>10 DEF Longer

-----------------------------------------------------------------------------
(* Every step of the client keeps what its variables may hold.             *)

\* Between two handshakes the queue grows by payloads only.
QueueInv ==
    /\ queue \in Seq(Frames)
    /\ Len(queue) <= Len(Toshiba!Greetings) + 6 * payloads

ClockInv ==
    /\ phase \in {"Idle", "Handshaking", "Online"} /\ partial \in BOOLEAN
    /\ sinceTx \in 0..HandshakeDelay /\ sinceRx \in 0..(Watchdog + 1)
    /\ payloads \in 0..MaxPayloads /\ remote \in 0..MaxRemote /\ faults \in 0..MaxFaults

SettingsInv == view \in Views /\ unit \in UnitStates /\ line \in Seq(Replies)

ClientInv == QueueInv /\ ClockInv /\ SettingsInv

LEMMA GreetingsType ==
    Toshiba!Greetings \in Seq(Frames) /\ Len(Toshiba!Greetings) \in Nat
  <1>1. /\ [k \in 1..HelloFrames |-> Toshiba!Greeting] \in Seq(Frames)
        /\ [k \in 1..AfterFrames |-> Toshiba!Greeting] \in Seq(Frames)
    <2>1. Toshiba!Greeting \in Frames
      BY DEF Frames
    <2> HIDE DEF Frames
    <2>. QED BY <2>1, ClientBounds
  <1>2. <<Toshiba!Delay>> \in Seq(Frames)
    BY DEF Frames
  <1>3. [k \in 1..Len(InitQueries) |-> Toshiba!Read(InitQueries[k])] \in Seq(Frames)
    <2>1. \A k \in 1..Len(InitQueries) : Toshiba!Read(InitQueries[k]) \in Frames
      BY ClientBounds DEF Frames
    <2>2. Len(InitQueries) \in Nat
      BY ClientBounds
    <2>. QED BY <2>1, <2>2
  <1>4. Toshiba!Greetings \in Seq(Frames)
    BY <1>1, <1>2, <1>3 DEF Toshiba!Greetings
  <1>. QED BY <1>4

LEMMA ReplyType ==
    ASSUME NEW s \in Toshiba!Settings, NEW v \in Values(s)
    PROVE  Toshiba!Reply(s, v) \in Replies
  BY DEF Replies

LEMMA ClientStarts == Toshiba!Init => ClientInv
  <1> SUFFICES ASSUME Toshiba!Init PROVE ClientInv
    OBVIOUS
  <1>1. QueueInv
    BY GreetingsType, ClientBounds DEF Toshiba!Init, QueueInv
  <1>2. ClockInv
    <2>1. partial \in BOOLEAN
      BY Zenon DEF Toshiba!Init
    <2>. QED BY <2>1, ClientBounds DEF Toshiba!Init, ClockInv
  <1>3. view \in Views
    BY DEF Toshiba!Init, Views, AnyValue
  <1>4. SettingsInv
    BY <1>3, UnitsAreStates DEF Toshiba!Init, SettingsInv
  <1>. QED BY <1>1, <1>2, <1>4 DEF ClientInv

LEMMA RestartKeeps ==
    ASSUME ClientInv, Toshiba!Restarted,
           UNCHANGED <<view, unit, line, payloads, remote, faults>>
    PROVE  ClientInv'
  <1>1. QueueInv'
    BY GreetingsType, ClientBounds DEF ClientInv, ClockInv, Toshiba!Restarted, QueueInv
  <1>2. ClockInv'
    <2>1. partial' \in BOOLEAN
      BY Zenon DEF Toshiba!Restarted
    <2>. QED BY <2>1, ClientBounds DEF ClientInv, ClockInv, Toshiba!Restarted
  <1>. QED BY <1>1, <1>2 DEF ClientInv, SettingsInv

\* What the queue holds once a delay is over.
LEMMA UpcomingType ==
    ASSUME QueueInv, Toshiba!Upcoming # <<>>
    PROVE  /\ Head(Toshiba!Upcoming) \in Frames /\ Tail(Toshiba!Upcoming) \in Seq(Frames)
           /\ Len(Tail(Toshiba!Upcoming)) \in Nat /\ Len(Tail(Toshiba!Upcoming)) <= Len(queue)
  <1>1. PICK q : q = queue
    OBVIOUS
  <1>2. q \in Seq(Frames)
    BY <1>1 DEF QueueInv
  <1>3. CASE Toshiba!Upcoming = queue
    BY <1>1, <1>2, <1>3, QueueTail
  <1>4. CASE queue # <<>> /\ Toshiba!Upcoming = Tail(queue)
    <2>1. PICK r : r = Tail(q)
      OBVIOUS
    <2>2. r \in Seq(Frames) /\ Len(r) = Len(q) - 1 /\ Len(q) \in Nat
      BY <1>1, <1>2, <1>4, <2>1, QueueTail
    <2>3. Toshiba!Upcoming = r /\ r # <<>>
      BY <1>1, <1>4, <2>1
    <2>4. Tail(r) \in Seq(Frames) /\ Head(r) \in Frames /\ Len(Tail(r)) = Len(r) - 1
          /\ Len(r) \in Nat \ {0}
      BY <2>2, <2>3, QueueTail
    <2>. QED BY <1>1, <2>2, <2>3, <2>4
  <1>. QED BY <1>3, <1>4 DEF Toshiba!Upcoming

LEMMA SendsKeeps ==
    ASSUME ClientInv, Toshiba!Sends, payloads' = payloads,
           remote' = remote, faults' \in 0..MaxFaults
    PROVE  QueueInv' /\ ClockInv' /\ view' \in Views
  <1>1. Toshiba!Upcoming # <<>> /\ queue' = Tail(Toshiba!Upcoming)
    BY DEF Toshiba!Sends, Toshiba!CanSend
  <1>2. QueueInv'
    <2>1. queue' \in Seq(Frames) /\ Len(queue') \in Nat /\ Len(queue') <= Len(queue)
      BY <1>1, UpcomingType DEF ClientInv
    <2>2. Len(queue) \in Nat /\ payloads \in Nat
      BY ClientBounds DEF ClientInv, QueueInv, ClockInv
    <2>3. Len(queue) <= Len(Toshiba!Greetings) + 6 * payloads
      BY DEF ClientInv, QueueInv
    <2>4. Len(queue') <= Len(Toshiba!Greetings) + 6 * payloads
      BY <2>1, <2>2, <2>3, GreetingsType
    <2>. QED BY <2>1, <2>4 DEF QueueInv
  <1>3. phase' \in {"Idle", "Handshaking", "Online"}
    BY DEF Toshiba!Sends, ClientInv, ClockInv
  <1>4. ClockInv'
    BY <1>3, ClientBounds DEF Toshiba!Sends, ClientInv, ClockInv
  <1>. QED BY <1>2, <1>4 DEF Toshiba!Sends, ClientInv, SettingsInv

LEMMA UnitTakesKeeps ==
    ASSUME SettingsInv, NEW f \in Frames, f # Toshiba!Delay, Toshiba!UnitTakes(f)
    PROVE  unit' \in UnitStates /\ line' \in Seq(Replies)
  <1>1. unit \in UnitStates /\ line \in Seq(Replies)
    BY DEF SettingsInv
  <1>2. "target" \in Toshiba!Settings /\ Values("target") = Toshiba!Wire
    BY DEF Toshiba!Settings, Values
  <1>3. CASE f = Toshiba!Greeting
    BY <1>1, <1>3 DEF Toshiba!Greeting, Toshiba!UnitTakes, Toshiba!unitVars
  <1>4. ASSUME NEW s \in Toshiba!Settings, f = Toshiba!Read(s)
        PROVE  unit' \in UnitStates /\ line' \in Seq(Replies)
    <2> DEFINE v == IF s = "target"
                    THEN Toshiba!OnWire(unit["target"], Toshiba!Eight(unit)) ELSE unit[s]
    <2>1. unit[s] \in Values(s) /\ unit["target"] \in Values("target")
      BY <1>1, <1>2 DEF UnitStates
    <2>2. v \in Values(s)
      BY <1>2, <2>1, BytesKept
    <2>3. line' = Append(line, Toshiba!Reply(s, v)) /\ unit' = unit
      BY <1>4 DEF Toshiba!Read, Toshiba!UnitTakes
    <2> HIDE DEF v
    <2>4. Toshiba!Reply(s, v) \in Replies
      BY <2>2, ReplyType
    <2>. QED BY <1>1, <2>3, <2>4
  <1>5. ASSUME NEW s \in Toshiba!Settings, NEW w \in Values(s), f = Toshiba!Write(s, w)
        PROVE  unit' \in UnitStates /\ line' \in Seq(Replies)
    <2> DEFINE v == IF s = "target" THEN Toshiba!FromWire(w, Toshiba!Eight(unit)) ELSE w
    <2>1. v \in Values(s)
      BY <1>2, <1>5, BytesKept
    <2>2. unit' = [unit EXCEPT ![s] = v] /\ line' = line
      BY <1>5 DEF Toshiba!Write, Toshiba!UnitTakes
    <2> HIDE DEF v
    <2>3. [unit EXCEPT ![s] = v] \in UnitStates
      BY <1>1, <2>1, ViewSet DEF UnitStates
    <2>. QED BY <1>1, <2>2, <2>3
  <1>. QED BY <1>3, <1>4, <1>5 DEF Frames, Writes

LEMMA FrameTaken ==
    ASSUME QueueInv, Toshiba!CanSend
    PROVE  Head(Toshiba!Upcoming) \in Frames /\ Head(Toshiba!Upcoming) # Toshiba!Delay
  BY UpcomingType DEF Toshiba!CanSend

\* What comes next on the line.
LEMMA LineHead ==
    ASSUME SettingsInv, line # <<>>
    PROVE  /\ Tail(line) \in Seq(Replies) /\ Head(line).of \in Toshiba!Settings
           /\ Head(line).value \in Values(Head(line).of)
  <1>1. line \in Seq(Replies)
    BY DEF SettingsInv
  <1>2. Tail(line) \in Seq(Replies) /\ Head(line) \in Replies
    BY <1>1, QueueTail
  <1>3. \A r \in Replies : r.of \in Toshiba!Settings /\ r.value \in Values(r.of)
    BY DEF Replies, Toshiba!Reply
  <1>. QED BY <1>2, <1>3

LEMMA ClientNext == ClientInv /\ [Toshiba!Next]_Toshiba!toshibaVars => ClientInv'
  <1> SUFFICES ASSUME ClientInv, [Toshiba!Next]_Toshiba!toshibaVars PROVE ClientInv'
    OBVIOUS
  <1> USE DEF Toshiba!clientVars, Toshiba!unitVars, Toshiba!bounds
  <1>0. QueueInv /\ ClockInv /\ SettingsInv
    BY DEF ClientInv
  <1>1. CASE Toshiba!Start
    BY <1>1, RestartKeeps DEF Toshiba!Start
  <1>2. CASE Toshiba!PollTx
    <2>1. Toshiba!Sends /\ Toshiba!UnitTakes(Head(Toshiba!Upcoming))
          /\ UNCHANGED <<payloads, remote, faults>>
      BY <1>2 DEF Toshiba!PollTx
    <2>2. QueueInv' /\ ClockInv' /\ view' \in Views
      BY <1>0, <2>1, SendsKeeps DEF ClockInv
    <2>3. unit' \in UnitStates /\ line' \in Seq(Replies)
      BY <1>0, <2>1, FrameTaken, UnitTakesKeeps DEF Toshiba!Sends
    <2>. QED BY <2>2, <2>3 DEF ClientInv, SettingsInv
  <1>3. CASE Toshiba!SendLost
    <2>1. Toshiba!Sends /\ UNCHANGED <<unit, line, payloads, remote>>
          /\ faults' = faults + 1 /\ faults < MaxFaults
      BY <1>3 DEF Toshiba!SendLost
    <2>2. faults' \in 0..MaxFaults
      BY <1>0, <2>1, ClientBounds DEF ClockInv
    <2>3. QueueInv' /\ ClockInv' /\ view' \in Views
      BY <2>1, <2>2, SendsKeeps
    <2>. QED BY <1>0, <2>1, <2>3 DEF ClientInv, SettingsInv
  <1>4. CASE Toshiba!Receive
    <2>1. line # <<>> /\ line' = Tail(line) /\ sinceRx' = 0
          /\ UNCHANGED <<phase, queue, sinceTx, unit, payloads, remote, faults>>
      BY <1>4 DEF Toshiba!Receive
    <2>2. Tail(line) \in Seq(Replies) /\ Head(line).of \in Toshiba!Settings
          /\ Head(line).value \in Values(Head(line).of)
      BY <1>0, <2>1, LineHead
    <2>3. QueueInv'
      BY <1>0, <2>1 DEF QueueInv
    <2>4. CASE partial
      <3>1. partial' \in BOOLEAN /\ view' = view
        BY <1>4, <2>4 DEF Toshiba!Receive
      <3>2. ClockInv'
        BY <1>0, <2>1, <3>1, ClientBounds DEF ClockInv
      <3>. QED BY <1>0, <2>1, <2>2, <2>3, <3>1, <3>2 DEF ClientInv, SettingsInv
    <2>5. CASE ~partial
      <3> DEFINE s == Head(line).of
                 v == IF s = "target"
                      THEN Toshiba!FromWire(Head(line).value, Toshiba!Eight(view))
                      ELSE Head(line).value
      <3>1. partial' = partial /\ view' = [view EXCEPT ![s] = v]
        BY <1>4, <2>5 DEF Toshiba!Receive
      <3>2. v \in Values(s) /\ s \in Toshiba!Settings
        BY <2>2, BytesKept DEF Values
      <3> HIDE DEF s, v
      <3>3. view' \in Views
        BY <1>0, <3>1, <3>2, ViewSet DEF SettingsInv
      <3>4. ClockInv'
        BY <1>0, <2>1, <3>1, ClientBounds DEF ClockInv
      <3>. QED BY <1>0, <2>1, <2>2, <2>3, <3>3, <3>4 DEF ClientInv, SettingsInv
    <2>. QED BY <2>4, <2>5
  <1>5. CASE Toshiba!ReplyLost
    <2>1. line # <<>> /\ line' = Tail(line) /\ faults < MaxFaults /\ faults' = faults + 1
          /\ UNCHANGED <<phase, queue, partial, view, sinceTx, sinceRx, unit, payloads, remote>>
      BY <1>5 DEF Toshiba!ReplyLost
    <2>2. ClockInv'
      BY <1>0, <2>1, ClientBounds DEF ClockInv
    <2>. QED BY <1>0, <2>1, <2>2, LineHead DEF ClientInv, SettingsInv, QueueInv
  <1>6. ASSUME Toshiba!Garbled, line' = line \/ (line # <<>> /\ line' = Tail(line))
        PROVE  ClientInv'
    <2>1. partial' \in BOOLEAN /\ sinceRx' = 0 /\ faults < MaxFaults /\ faults' = faults + 1
          /\ UNCHANGED <<phase, queue, view, sinceTx, unit, payloads, remote>>
      BY <1>6 DEF Toshiba!Garbled
    <2>2. ClockInv'
      BY <1>0, <2>1, ClientBounds DEF ClockInv
    <2>3. line' \in Seq(Replies)
      BY <1>0, <1>6, LineHead DEF SettingsInv
    <2>. QED BY <1>0, <2>1, <2>2, <2>3 DEF ClientInv, SettingsInv, QueueInv
  <1>7. CASE Toshiba!Tick
    <2>1. CASE Toshiba!Mute
      BY <1>7, <2>1, RestartKeeps DEF Toshiba!Tick
    <2>2. CASE ~Toshiba!Mute
      <3>1. /\ partial' = Toshiba!StillPartial
            /\ sinceRx' = Toshiba!Limit(sinceRx + 1, Watchdog + 1)
            /\ sinceTx' = Toshiba!Limit(sinceTx + 1, HandshakeDelay)
            /\ UNCHANGED <<phase, queue, view, unit, line, payloads, remote, faults>>
        BY <1>7, <2>2 DEF Toshiba!Tick
      <3>2. partial' \in BOOLEAN
        BY <3>1, Zenon DEF Toshiba!StillPartial
      <3>3. ClockInv'
        BY <1>0, <3>1, <3>2, ClientBounds DEF ClockInv, Toshiba!Limit
      <3>. QED BY <1>0, <3>1, <3>3 DEF ClientInv, SettingsInv, QueueInv
    <2>. QED BY <2>1, <2>2
  <1>8. CASE Toshiba!Command
    <2>1. PICK cmds \in Toshiba!Payloads :
             LET c == Toshiba!FoldLeft(Toshiba!ApplyCommand,
                                       [queue |-> queue, view |-> view], cmds)
             IN  queue' = c.queue /\ view' = c.view
      BY <1>8, Zenon DEF Toshiba!Command
    <2>2. PICK c, d : /\ c = [queue |-> queue, view |-> view]
                      /\ d = Toshiba!FoldLeft(Toshiba!ApplyCommand, c, cmds)
      OBVIOUS
    <2>3. queue' = d.queue /\ view' = d.view
      BY <2>1, <2>2, Zenon
    <2>4. c \in Plans
      BY <1>0, <2>2 DEF Plans, QueueInv, SettingsInv
    <2>5. Longer(c, d, 6)
      BY <2>2, <2>4, PayloadAdds, Zenon
    <2>6. /\ payloads < MaxPayloads /\ payloads' = payloads + 1
          /\ UNCHANGED <<phase, partial, sinceTx, sinceRx, unit, line, remote, faults>>
      BY <1>8 DEF Toshiba!Command
    <2>7. ClockInv'
      BY <1>0, <2>6, ClientBounds DEF ClockInv
    <2>8. d \in Plans /\ Len(d.queue) <= Len(queue) + 6
      BY <2>2, <2>5 DEF Longer
    <2>9. Len(d.queue) \in Nat /\ Len(queue) \in Nat /\ payloads \in Nat
      BY <1>0, <2>8, ClientBounds DEF Plans, QueueInv, ClockInv
    <2>10. Len(queue') <= Len(Toshiba!Greetings) + 6 * payloads'
      BY <1>0, <2>3, <2>6, <2>8, <2>9, GreetingsType DEF QueueInv
    <2>11. queue' \in Seq(Frames) /\ view' \in Views
      BY <2>3, <2>8 DEF Plans
    <2>. QED BY <1>0, <2>6, <2>7, <2>10, <2>11 DEF ClientInv, SettingsInv, QueueInv
  <1>9. CASE Toshiba!RemoteControl
    <2>1. PICK s \in Toshiba!Settings : \E v \in Toshiba!Possible(s) :
             /\ unit' = [unit EXCEPT ![s] = v]
             /\ line' = Append(line, Toshiba!Reply(s,
                            IF s = "target" THEN Toshiba!OnWire(v, Toshiba!Eight(unit))
                            ELSE v))
      BY <1>9 DEF Toshiba!RemoteControl
    <2>2. PICK v \in Toshiba!Possible(s) :
             /\ unit' = [unit EXCEPT ![s] = v]
             /\ line' = Append(line, Toshiba!Reply(s,
                            IF s = "target" THEN Toshiba!OnWire(v, Toshiba!Eight(unit))
                            ELSE v))
      BY <2>1
    <2> DEFINE b == IF s = "target" THEN Toshiba!OnWire(v, Toshiba!Eight(unit)) ELSE v
    <2>3. v \in Values(s) /\ b \in Values(s)
      BY PossibleValues, BytesKept DEF Values
    <2>4. line' = Append(line, Toshiba!Reply(s, b))
      BY <2>2
    <2> HIDE DEF b
    <2>5. line' \in Seq(Replies)
      BY <1>0, <2>3, <2>4, ReplyType DEF SettingsInv
    <2>6. unit' \in UnitStates
      BY <1>0, <2>2, <2>3, ViewSet DEF SettingsInv, UnitStates
    <2>7. remote < MaxRemote /\ remote' = remote + 1
          /\ UNCHANGED <<phase, queue, partial, view, sinceTx, sinceRx, payloads, faults>>
      BY <1>9 DEF Toshiba!RemoteControl
    <2>8. ClockInv'
      BY <1>0, <2>7, ClientBounds DEF ClockInv
    <2>. QED BY <1>0, <2>5, <2>6, <2>7, <2>8 DEF ClientInv, SettingsInv, QueueInv
  <1>10. CASE UNCHANGED Toshiba!toshibaVars
    BY <1>0, <1>10 DEF Toshiba!toshibaVars, ClientInv, QueueInv, ClockInv, SettingsInv
  <1>11. Toshiba!ReplyCut \/ Toshiba!Noise => ClientInv'
    BY <1>6 DEF Toshiba!ReplyCut, Toshiba!Noise
  <1>. QED BY <1>1, <1>2, <1>3, <1>4, <1>5, <1>7, <1>8, <1>9, <1>10, <1>11 DEF Toshiba!Next

LEMMA ClientTypes == ClientInv => Toshiba!TypeOK
  <1> SUFFICES ASSUME ClientInv PROVE Toshiba!TypeOK
    OBVIOUS
  <1>0. QueueInv /\ ClockInv /\ SettingsInv
    BY DEF ClientInv
  <1>1. \A k \in DOMAIN queue : queue[k].kind \in {"delay", "greeting", "read", "write"}
    <2>1. \A f \in Frames : f.kind \in {"delay", "greeting", "read", "write"}
      BY DEF Frames, Writes, Toshiba!Delay, Toshiba!Greeting, Toshiba!Read, Toshiba!Write
    <2>2. \A k \in DOMAIN queue : queue[k] \in Frames
      BY <1>0 DEF QueueInv
    <2>. QED BY <2>1, <2>2
  <1>2. Len(queue) <= Len(Toshiba!Greetings) + 6 * MaxPayloads
    <2>1. Len(queue) \in Nat /\ payloads \in Nat /\ payloads <= MaxPayloads
      BY <1>0, ClientBounds DEF QueueInv, ClockInv
    <2>. QED BY <1>0, <2>1, GreetingsType, ClientBounds DEF QueueInv
  <1>3. DOMAIN view = Toshiba!Settings
        /\ \A s \in Toshiba!Settings : view[s] \in Toshiba!Known(s)
    BY <1>0 DEF SettingsInv, Views, Toshiba!Known, Values
  <1>4. DOMAIN unit = Toshiba!Settings
        /\ \A s \in Toshiba!Settings : unit[s] \in Toshiba!Known(s) \ {Unknown}
    BY <1>0, PossibleValues DEF SettingsInv, UnitStates, Views, Toshiba!Known, Values
  <1>5. \A k \in DOMAIN line : line[k].of \in Toshiba!Settings
    <2>1. \A r \in Replies : r.of \in Toshiba!Settings
      BY DEF Replies, Toshiba!Reply
    <2>2. \A k \in DOMAIN line : line[k] \in Replies
      BY <1>0 DEF SettingsInv
    <2>. QED BY <2>1, <2>2
  <1>. QED BY <1>0, <1>1, <1>2, <1>3, <1>4, <1>5 DEF Toshiba!TypeOK, ClockInv

\* The client keeps its types, the controller beside it too: no sequence of
\* payloads, lost or cut frames, silences and remote control makes the queue
\* longer than a session and what the payloads may add, or puts a value of
\* another setting, or no byte, into a frame, the view or the unit
\* (Client::start, Client::queue_write, Client::apply_command,
\* DeyeController::flags).
THEOREM ControlTypesKept == AllSpec => []ControlTypesOK
  <1>1. AllInit => TypeOK /\ ClientInv
    BY TypeInit, ClientStarts DEF AllInit
  <1>2. TypeOK /\ ClientInv /\ [AllNext]_allVars => TypeOK' /\ ClientInv'
    <2> SUFFICES ASSUME TypeOK, ClientInv, [AllNext]_allVars PROVE TypeOK' /\ ClientInv'
      OBVIOUS
    <2>1. [Next]_vars
      BY DEF AllNext, allVars
    <2>2. [Toshiba!Next]_Toshiba!toshibaVars
      BY DEF AllNext, allVars, toshibaVars, Toshiba!toshibaVars, Toshiba!clientVars,
             Toshiba!unitVars, Toshiba!bounds
    <2>. QED BY <2>1, <2>2, TypeNext, ClientNext
  <1>3. TypeOK /\ ClientInv => ControlTypesOK
    BY ClientTypes DEF ControlTypesOK
  <1>. QED BY <1>1, <1>2, <1>3, PTL DEF AllSpec
=============================================================================
