---------------------------- MODULE ToshibaClient ----------------------------
(***************************************************************************)
(* firmware/toshiba-suzumi-rs: the client of an air conditioner on a       *)
(* serial line.  It plays a handshake, reads the settings of the unit,     *)
(* then sends commands, one frame at a time, and plays the handshake again *)
(* when the unit is silent.  The caller does the input and output: it      *)
(* calls poll_tx and on_tick far more often than every COMMAND_DELAY_MS,   *)
(* which is the tick of this model.                                        *)
(*                                                                         *)
(* Below EIGHT degrees of frost guard the unit counts its target 16 higher *)
(* on the wire: the client adds and subtracts by the special mode it       *)
(* believes the unit in, which set_target_temp sets before the unit knows. *)
(* A setting with nothing of its own (fan, swing, power level) is like the *)
(* mode, without the power.                                                *)
(***************************************************************************)
EXTENDS Integers, Sequences, SequencesExt

CONSTANTS
    Modes,          \* enum Mode
    Targets,        \* target temperatures asked for
    Specials,       \* enum SpecialMode
    Unknown,        \* a setting not read yet (None)
    HelloFrames, AfterFrames, \* HANDSHAKE and AFTER_HANDSHAKE: how many frames
    InitQueries,    \* the settings read after the handshake, in order
    HandshakeDelay, \* HANDSHAKE_DELAY_MS, in ticks
    ReceiveTimeout, \* RECEIVE_TIMEOUT_MS
    Watchdog,       \* WATCHDOG_MS
    MaxPayloads,    \* bound: payloads received
    MaxFields,      \* bound: commands in one of them
    MaxRemote,      \* bound: changes made with the remote control
    MaxFaults       \* bound: frames lost or cut, stray bytes

Settings == {"power", "mode", "target", "special"}

\* The settings a unit may have.
Units == [power : {"On", "Off"}, mode : Modes, target : Targets, special : Specials]
Possible(s) == {u[s] : u \in Units}

ToshibaAssumption ==
    /\ {"Standard", "EightDeg"} \subseteq Specials
    /\ Modes # {} /\ Targets # {} /\ Targets \subseteq 0..30
    /\ Unknown \notin {"On", "Off"} \cup Modes \cup Specials /\ Unknown \notin 0..255
    /\ InitQueries \in Seq(Settings)
    /\ HelloFrames \in Nat \ {0} /\ AfterFrames \in Nat \ {0}
    /\ HandshakeDelay \in Nat \ {0} /\ ReceiveTimeout \in Nat \ {0} /\ Watchdog \in Nat
    \* The watchdog is longer than a handshake (60 s to less than 4).
    /\ HelloFrames + HandshakeDelay + AfterFrames + Len(InitQueries) < Watchdog
    /\ MaxPayloads \in Nat /\ MaxFields \in Nat /\ MaxRemote \in Nat /\ MaxFaults \in Nat

VARIABLES
    phase,          \* Client::phase
    queue,          \* Client::queue
    partial,        \* whether the accumulator holds bytes
    view,           \* ToshibaState: what the client knows of the unit
    sinceTx,        \* time since last_tx_ms
    sinceRx,        \* time since last_rx_ms
    unit,           \* the settings of the unit, its target in degrees
    line,           \* frames of the unit on their way to the client
    payloads, remote, faults

clientVars == <<phase, queue, partial, view, sinceTx, sinceRx>>
unitVars == <<unit, line>>
bounds == <<payloads, remote, faults>>
toshibaVars == <<clientVars, unitVars, bounds>>

Limit(n, most) == IF n < most THEN n ELSE most

-----------------------------------------------------------------------------
(* Frames.                                                                 *)

Delay == [kind |-> "delay"]
Greeting == [kind |-> "greeting"]
Read(s) == [kind |-> "read", of |-> s]
Write(s, v) == [kind |-> "write", of |-> s, value |-> v]
Reply(s, v) == [of |-> s, value |-> v]

Offset == 16
MinTempStandard == 17

\* build_target_temp and parse_response, both u8.
OnWire(celsius, eight) == IF eight THEN (celsius + Offset) % 256 ELSE celsius
FromWire(v, eight) == IF eight THEN (v - Offset) % 256 ELSE v

Eight(settings) == settings["special"] = "EightDeg"

\* What a session starts with.
Greetings ==
    [k \in 1..HelloFrames |-> Greeting] \o <<Delay>> \o [k \in 1..AfterFrames |-> Greeting]
        \o [k \in 1..Len(InitQueries) |-> Read(InitQueries[k])]

-----------------------------------------------------------------------------
Init ==
    /\ phase = "Idle" /\ queue = <<>> /\ partial = FALSE
    /\ view = [s \in Settings |-> Unknown]
    /\ sinceTx = 0 /\ sinceRx = 0
    /\ unit \in Units
    /\ line = <<>>
    /\ payloads = 0 /\ remote = 0 /\ faults = 0

\* start(): what was queued is forgotten, what was taken for set is not.
Restarted ==
    /\ queue' = Greetings
    /\ partial' = FALSE
    /\ phase' = "Handshaking"
    /\ sinceRx' = 0
    /\ sinceTx' = 1

Start ==
    /\ phase = "Idle"
    /\ Restarted
    /\ UNCHANGED <<view, unitVars, bounds>>

\* poll_tx: the queue once a delay that is over has been taken from it.
Upcoming == IF queue # <<>> /\ Head(queue) = Delay /\ sinceTx >= HandshakeDelay
            THEN Tail(queue) ELSE queue

CanSend ==
    /\ ~partial
    /\ sinceTx >= 1
    /\ Upcoming # <<>> /\ Head(Upcoming) # Delay

\* The unit ignores the handshake, answers what it is asked and obeys.
UnitTakes(f) ==
    CASE f.kind = "greeting" -> UNCHANGED unitVars
      [] f.kind = "read" ->
            /\ line' = Append(line, Reply(f.of,
                           IF f.of = "target" THEN OnWire(unit["target"], Eight(unit))
                           ELSE unit[f.of]))
            /\ UNCHANGED unit
      [] f.kind = "write" ->
            /\ unit' = [unit EXCEPT ![f.of] =
                           IF f.of = "target" THEN FromWire(f.value, Eight(unit))
                           ELSE f.value]
            /\ UNCHANGED line

Sends ==
    /\ CanSend
    /\ queue' = Tail(Upcoming)
    /\ sinceTx' = 0
    /\ phase' = IF Tail(Upcoming) = <<>> /\ phase = "Handshaking" THEN "Online" ELSE phase
    /\ UNCHANGED <<partial, view, sinceRx>>

PollTx ==
    /\ Sends
    /\ UnitTakes(Head(Upcoming))
    /\ UNCHANGED bounds

\* A frame the unit does not get.
SendLost ==
    /\ faults < MaxFaults
    /\ Sends
    /\ faults' = faults + 1
    /\ UNCHANGED <<unitVars, payloads, remote>>

\* on_rx_byte, up to the end of a frame.  Behind the rest of another it
\* fails the checksum, and its own rest may stay in the accumulator.
Receive ==
    /\ line # <<>>
    /\ line' = Tail(line)
    /\ sinceRx' = 0
    /\ LET r == Head(line)
       IN  IF partial
           THEN partial' \in BOOLEAN /\ UNCHANGED view
           ELSE /\ view' = [view EXCEPT ![r.of] =
                               IF r.of = "target" THEN FromWire(r.value, Eight(view))
                               ELSE r.value]
                /\ UNCHANGED partial
    /\ UNCHANGED <<phase, queue, sinceTx, unit, bounds>>

\* A frame of the unit is lost, or cut.
ReplyLost ==
    /\ line # <<>> /\ faults < MaxFaults
    /\ line' = Tail(line)
    /\ faults' = faults + 1
    /\ UNCHANGED <<clientVars, unit, payloads, remote>>

Garbled ==
    /\ partial' \in BOOLEAN
    /\ sinceRx' = 0
    /\ faults < MaxFaults
    /\ faults' = faults + 1
    /\ UNCHANGED <<phase, queue, view, sinceTx, unit, payloads, remote>>

ReplyCut == line # <<>> /\ line' = Tail(line) /\ Garbled

\* Bytes of no frame.
Noise == phase # "Idle" /\ UNCHANGED line /\ Garbled

\* Variant: a partial frame stays until the rest of it comes.
KeptPartial == partial

\* What on_tick leaves of a frame not completed in time.
StillPartial == partial /\ Limit(sinceRx + 1, Watchdog + 1) <= ReceiveTimeout

\* The unit has been mute for too long.
Mute == phase = "Online" /\ Limit(sinceRx + 1, Watchdog + 1) > Watchdog

\* A tick and its on_tick.  poll_tx has been called, and the unit has
\* answered, well before.
Tick ==
    /\ phase # "Idle"
    /\ ~CanSend /\ line = <<>>
    /\ IF Mute THEN Restarted
       ELSE /\ partial' = StillPartial
            /\ sinceRx' = Limit(sinceRx + 1, Watchdog + 1)
            /\ sinceTx' = Limit(sinceTx + 1, HandshakeDelay)
            /\ UNCHANGED <<phase, queue>>
    /\ UNCHANGED <<view, unitVars, bounds>>

-----------------------------------------------------------------------------
(* Commands: each adds frames to the queue, and may change the special     *)
(* mode of the view.                                                       *)

Queued(c, s, v) == [c EXCEPT !.queue = Append(@, Write(s, v))]

\* set_preset.
SetPreset(c, p) == [Queued(c, "special", p) EXCEPT !.view["special"] = p]

\* set_mode turns the unit on first, unless it is known to be on.
SetMode(c, m) ==
    IF c.view["power"] = "On" THEN Queued(c, "mode", m)
    ELSE Queued(Queued(c, "power", "On"), "mode", m)

\* set_target_temp enters or leaves the frost guard first.
SetTargetTemp(c, t) ==
    LET want == t < MinTempStandard
        now == IF want /\ ~Eight(c.view) THEN SetPreset(c, "EightDeg")
               ELSE IF ~want /\ Eight(c.view) THEN SetPreset(c, "Standard")
               ELSE c
    IN  [now EXCEPT !.queue =
            Append(@, Write("target", OnWire(t, Eight(now.view))))]

\* apply_command.
ApplyCommand(c, cmd) ==
    CASE cmd.set = "special" -> SetPreset(c, cmd.to)
      [] cmd.set = "mode"    -> SetMode(c, cmd.to)
      [] cmd.set = "target"  -> SetTargetTemp(c, cmd.to)
      [] OTHER               -> Queued(c, cmd.set, cmd.to)

\* A field of a payload: absent, or a command.  The mode "off" is one to the
\* power.
Field(s) ==
    {<<>>} \cup {<<[set |-> s, to |-> v]>> : v \in Possible(s)}
        \cup (IF s = "mode" THEN {<<[set |-> "power", to |-> "Off"]>>} ELSE {})

\* parse_command: the fields in a fixed order.
Payloads ==
    {c \in {p \o m \o t \o x : p \in Field("power"), m \in Field("mode"),
                                t \in Field("target"), x \in Field("special")} :
        Len(c) \in 1..MaxFields}

\* A payload arrives on the command topic.
Command ==
    /\ phase # "Idle" /\ payloads < MaxPayloads
    /\ \E cmds \in Payloads :
          LET c == FoldLeft(ApplyCommand, [queue |-> queue, view |-> view], cmds)
          IN  queue' = c.queue /\ view' = c.view
    /\ payloads' = payloads + 1
    /\ UNCHANGED <<phase, partial, sinceTx, sinceRx, unitVars, remote, faults>>

\* Somebody uses the remote control; the unit tells the client.
RemoteControl ==
    /\ remote < MaxRemote
    /\ \E s \in Settings : \E v \in Possible(s) \ {unit[s]} :
          /\ unit' = [unit EXCEPT ![s] = v]
          /\ line' = Append(line, Reply(s, IF s = "target" THEN OnWire(v, Eight(unit))
                                           ELSE v))
    /\ remote' = remote + 1
    /\ UNCHANGED <<clientVars, payloads, faults>>

Next ==
    \/ Start \/ PollTx \/ SendLost \/ Receive \/ ReplyLost \/ ReplyCut \/ Noise
    \/ Tick \/ Command \/ RemoteControl

Spec == Init /\ [][Next]_toshibaVars

\* The caller keeps calling, and the unit answers.
Fairness ==
    /\ WF_toshibaVars(Start) /\ WF_toshibaVars(PollTx)
    /\ WF_toshibaVars(Receive) /\ WF_toshibaVars(Tick)

FairSpec == Spec /\ Fairness

-----------------------------------------------------------------------------
Wire == 0..255
Known(s) == {Unknown} \cup (IF s = "target" THEN Wire ELSE Possible(s))

TypeOK ==
    /\ phase \in {"Idle", "Handshaking", "Online"}
    /\ \A k \in DOMAIN queue : queue[k].kind \in {"delay", "greeting", "read", "write"}
    /\ Len(queue) <= Len(Greetings) + 6 * MaxPayloads
    /\ partial \in BOOLEAN
    /\ DOMAIN view = Settings /\ \A s \in Settings : view[s] \in Known(s)
    /\ sinceTx \in 0..HandshakeDelay /\ sinceRx \in 0..(Watchdog + 1)
    /\ DOMAIN unit = Settings /\ \A s \in Settings : unit[s] \in Known(s) \ {Unknown}
    /\ \A k \in DOMAIN line : line[k].of \in Settings
    /\ payloads \in 0..MaxPayloads /\ remote \in 0..MaxRemote /\ faults \in 0..MaxFaults

\* Once nobody touches the unit and no frame is lost any more, what the
\* client shows ends up being what the unit does: after commands lost in a
\* handshake, writes that never arrived, targets read in the wrong special
\* mode, and frames cut in two (the purpose of the watchdog, "unité muette
\* -> on rejoue tout").
ShowsTheUnit == <>[](\A k \in DOMAIN InitQueries : view[InitQueries[k]] = unit[InitQueries[k]])
=============================================================================
