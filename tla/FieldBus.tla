------------------------------ MODULE FieldBus ------------------------------
(***************************************************************************)
(* The RS485 bus of daly-bms-server (rs485-bus, daly-bms-core) and the     *)
(* tasks that share it: the poll loop of the Daly BMSs, with retries and   *)
(* the reopening of the port, and the Modbus drivers (ATS, ET112).         *)
(*                                                                         *)
(* A driver goes through its program, one request after the other, each a  *)
(* transaction under the lock of the bus: empty the receive buffer, write, *)
(* wait, read.  A frame is two chunks, so that it may be cut by a timeout; *)
(* time is a number of ticks.                                              *)
(***************************************************************************)
EXTENDS Integers, Sequences, SequencesExt

CONSTANTS
    Drivers,        \* the tasks
    Daly,           \* the one which is poll_loop
    Program,        \* of each driver, its steps [dev, reg, frames, optional]
    Master,         \* the BMS that may answer what another one was asked
    Retries,        \* PollConfig::retries
    Turnaround,     \* inter_frame_ms, in ticks
    Timeout,        \* timeout_ms
    Gap,            \* ticks before each request of a driver
    RetryPause,     \* ticks before a retry
    Rest,           \* ticks of the commands of a BMS its program leaves out
    BackoffInitial, BackoffMax,
    Latest          \* the age a late answer may reach

Steps == UNION {ToSet(Program[w]) : w \in Drivers}
Devices == {s.dev : s \in Steps}
Nobody == "none"

\* What the tasks read, and how late an answer may be.  A device belongs to
\* one task, and a BMS that answers for another one is no other task's; the
\* poll loop reads two BMSs at least, each in one go and a register once a
\* cycle (poll_device), and asks again after an error.
ProgramsApart ==
    /\ \A v, w \in Drivers : \A i \in DOMAIN Program[v], k \in DOMAIN Program[w] :
          Program[v][i].dev = Program[w][k].dev => v = w
    /\ \A w \in Drivers \ {Daly} : \A i \in DOMAIN Program[w] : Program[w][i].dev # Master
    /\ \A i, k \in DOMAIN Program[Daly] :
          /\ Program[Daly][i].dev = Program[Daly][k].dev =>
                \A j \in i..k : Program[Daly][j].dev = Program[Daly][i].dev
          /\ Program[Daly][i].dev = Program[Daly][k].dev
                /\ Program[Daly][i].reg = Program[Daly][k].reg => i = k
    /\ \E i, k \in DOMAIN Program[Daly] : Program[Daly][i].dev # Program[Daly][k].dev

\* The bounds on Latest keep an answer apart from those to earlier requests
\* of the same device: not the timeout, since a stray frame may end a
\* transaction before it.
ASSUME BusAssumption ==
    /\ Daly \in Drivers /\ Nobody \notin Devices \cup Drivers
    /\ Program \in [Drivers -> Seq(Steps)]
    /\ \A w \in Drivers : Program[w] # <<>>
    /\ \A s \in Steps : /\ DOMAIN s = {"dev", "reg", "frames", "optional"}
                        /\ s.frames \in 1..2 /\ s.optional \in BOOLEAN
    /\ ProgramsApart
    /\ {Timeout, RetryPause, Rest, BackoffInitial, BackoffMax, Latest} \subseteq Nat
    /\ {Retries, Turnaround} \subseteq Nat \ {0}
    /\ Gap \in [Drivers -> Nat]
    /\ Turnaround <= Latest
    /\ Latest < Turnaround + RetryPause /\ Latest < 2 * Turnaround + Rest
    /\ \A w \in Drivers \ {Daly} : Latest < Turnaround + Gap[w]

VARIABLES
    online,         \* once calm, the devices that answer
    calm,           \* nothing goes wrong any more
    plugged,        \* the USB adapter is there
    handle,         \* the open port is the one of the adapter
    air,            \* answers not yet received in full, with their age
    rx,             \* the receive buffer of the port, a sequence of chunks
    holder,         \* who holds the lock
    waited,         \* ticks since the write or the last frame
    second,         \* the second frame is being read
    got,            \* frames accepted by the current transaction
    step,           \* of each driver, where it is in its program
    attempt,        \* ... the attempt of that step
    pause,          \* ... the ticks until it asks for the bus
    backoff, lost,  \* poll_loop: backoff_ms, and whether it is backing off
    accepted,       \* the answer just given to a driver, with what it asked
    reported        \* the device of the last snapshot

envVars == <<online, calm, plugged>>
portVars == <<handle, air, rx>>
transVars == <<holder, waited, second, got>>
driverVars == <<step, attempt, pause, backoff, lost>>
outVars == <<accepted, reported>>
busVars == <<envVars, portVars, transVars, driverVars, outVars>>

NoAnswer == [dev |-> Nobody, reg |-> Nobody, frames |-> <<>>]

BusInit ==
    /\ online = {} /\ calm = FALSE
    /\ plugged = TRUE /\ handle = TRUE
    /\ air = <<>> /\ rx = <<>>
    /\ holder = Nobody /\ waited = 0 /\ second = FALSE /\ got = <<>>
    /\ step = [w \in Drivers |-> 1] /\ attempt = [w \in Drivers |-> 0]
    /\ pause = [w \in Drivers |-> Gap[w]]
    /\ backoff = BackoffInitial /\ lost = FALSE
    /\ accepted = NoAnswer /\ reported = Nobody

Current(w) == Program[w][step[w]]
WindowEnd == Turnaround + Timeout

-----------------------------------------------------------------------------
(* The wire.  fresh tells the answers to the request last written from     *)
(* those to earlier ones.                                                  *)

Chunk(d, r, i, half) == [dev |-> d, reg |-> r, frame |-> i, half |-> half, fresh |-> TRUE]
Frame(d, r, i) == <<Chunk(d, r, i, 1), Chunk(d, r, i, 2)>>
Frames(d, r, n) == IF n = 1 THEN Frame(d, r, 1) ELSE Frame(d, r, 1) \o Frame(d, r, 2)
Stale(a) == [a EXCEPT !.chunks = [i \in DOMAIN a.chunks |-> [a.chunks[i] EXCEPT !.fresh = FALSE]]]

Answer(d, s, limit) == <<[chunks |-> Frames(d, s.reg, s.frames), age |-> 0, limit |-> limit]>>

\* What a device makes of a request: an answer that is in time, or one that
\* is late, or none; when all is calm, no lateness.
Answers(s) ==
    IF calm THEN {IF s.dev \in online THEN Answer(s.dev, s, Turnaround) ELSE <<>>}
            ELSE {<<>>, Answer(s.dev, s, Turnaround), Answer(s.dev, s, Latest)}

\* The master may answer in front of another BMS; this is only provided for
\* in answers of one frame.
Interjections(s) ==
    IF s \in ToSet(Program[Daly]) /\ s.dev # Master /\ (calm => s.frames = 1)
    THEN {<<>>, Answer(Master, s, Turnaround)} ELSE {<<>>}

\* The next chunk of an answer; those of one request come in order.
Arrives ==
    \E i \in DOMAIN air :
        LET a == air[i] IN
        /\ \A j \in 1..(i - 1) : Head(air[j].chunks).fresh # Head(a.chunks).fresh
        /\ rx' = Append(rx, Head(a.chunks))
        /\ air' = IF Len(a.chunks) = 1 THEN RemoveAt(air, i)
                  ELSE [air EXCEPT ![i].chunks = Tail(a.chunks)]
        /\ UNCHANGED <<envVars, handle, transVars, driverVars, outVars>>

-----------------------------------------------------------------------------
(* How a driver goes on.                                                   *)

\* The step after step i, and the first one of the next device.
After(w, i) == IF i = Len(Program[w]) THEN 1 ELSE i + 1
NextDevice(w, i) ==
    LET later == {j \in i..Len(Program[w]) : Program[w][j].dev # Program[w][i].dev}
    IN  IF later = {} THEN 1 ELSE CHOOSE j \in later : \A k \in later : j <= k

LastOfDevice(w, i) == After(w, i) = NextDevice(w, i)

\* The step of driver w is over, with an answer or with its default value;
\* after the last step of a device its snapshot is reported.
Advance(w) ==
    /\ step' = [step EXCEPT ![w] = After(w, step[w])]
    /\ attempt' = [attempt EXCEPT ![w] = 0]
    /\ pause' = [pause EXCEPT ![w] =
                    IF w = Daly /\ LastOfDevice(w, step[w]) THEN Rest ELSE Gap[w]]
    /\ IF LastOfDevice(w, step[w])
       THEN /\ reported' = Current(w).dev
            /\ backoff' = IF w = Daly THEN BackoffInitial ELSE backoff
       ELSE reported' = Nobody /\ UNCHANGED backoff
    /\ UNCHANGED lost

\* The device is given up for this cycle.
GiveUp(w) ==
    /\ step' = [step EXCEPT ![w] = NextDevice(w, step[w])]
    /\ attempt' = [attempt EXCEPT ![w] = 0]
    /\ pause' = [pause EXCEPT ![w] = Gap[w]]
    /\ reported' = Nobody
    /\ UNCHANGED <<backoff, lost>>

\* An error other than of the port: retry, unwrap_or, or give up.
Fails(w) ==
    IF w = Daly /\ attempt[w] < Retries
    THEN /\ attempt' = [attempt EXCEPT ![w] = @ + 1]
         /\ pause' = [pause EXCEPT ![w] = RetryPause]
         /\ reported' = Nobody
         /\ UNCHANGED <<step, backoff, lost>>
    ELSE IF Current(w).optional THEN Advance(w) ELSE GiveUp(w)

\* An I/O error: never retried, and for poll_loop the end of the cycle and a
\* backoff, unless the step has a default value.
PortFails(w) ==
    IF Current(w).optional THEN Advance(w)
    ELSE IF w # Daly THEN GiveUp(w)
    ELSE /\ lost' = TRUE
         /\ step' = [step EXCEPT ![w] = 1]
         /\ attempt' = [attempt EXCEPT ![w] = 0]
         /\ pause' = [pause EXCEPT ![w] = backoff]
         /\ backoff' = IF 2 * backoff < BackoffMax THEN 2 * backoff ELSE BackoffMax
         /\ reported' = Nobody

Release == holder' = Nobody /\ waited' = 0 /\ second' = FALSE /\ got' = <<>>

-----------------------------------------------------------------------------
(* A transaction.                                                          *)

Ready(w) == holder = Nobody /\ pause[w] = 0 /\ ~(w = Daly /\ lost)

\* Variant: flush_rx as it was, a single read().
FlushedOnce(q) == IF q = <<>> THEN q ELSE Tail(q)

\* flush_rx.
Flushed(q) == <<>>

\* acquire, flush_rx, write_all.  flush_rx goes on reading for 10 ms, less
\* than a tick: what was to come by now is in the buffer and is thrown away.
Begin(w) ==
    /\ Ready(w)
    /\ \A i \in DOMAIN air : air[i].age < air[i].limit
    /\ IF handle
       THEN /\ holder' = w /\ waited' = 0 /\ second' = FALSE /\ got' = <<>>
            /\ rx' = [i \in DOMAIN Flushed(rx) |-> [Flushed(rx)[i] EXCEPT !.fresh = FALSE]]
            /\ \E m \in Interjections(Current(w)), a \in Answers(Current(w)) :
                  air' = [i \in DOMAIN air |-> Stale(air[i])] \o m \o a
            /\ reported' = Nobody
            /\ UNCHANGED driverVars
       ELSE /\ PortFails(w)
            /\ UNCHANGED <<air, rx, transVars>>
    /\ accepted' = NoAnswer
    /\ UNCHANGED <<envVars, handle>>

CanRead(w) == holder = w /\ waited >= Turnaround /\ Len(rx) >= 2

\* ResponseFrame::parse, or the CRC: the two chunks are one frame.
Parses == rx[1].half = 1 /\ rx[2] = [rx[1] EXCEPT !.half = 2]

\* validate_for; a Modbus answer does not name its register.
Valid(w) ==
    /\ Parses
    /\ rx[1].dev = Current(w).dev
    /\ w = Daly => rx[1].reg = Current(w).reg

\* A frame that is accepted: the last one ends the transaction.
ReadValid(w) ==
    /\ CanRead(w) /\ Valid(w)
    /\ rx' = Tail(Tail(rx))
    /\ IF Len(got) + 1 = Current(w).frames
       THEN /\ accepted' = [dev |-> Current(w).dev, reg |-> Current(w).reg,
                         frames |-> Append(got, rx[1])]
            /\ Release /\ Advance(w)
       ELSE /\ got' = Append(got, rx[1])
            /\ waited' = Turnaround
            /\ UNCHANGED <<holder, second, driverVars, outVars>>
    /\ UNCHANGED <<envVars, handle, air>>

\* Variant: an answer from another BMS is an error.
NoSecondFrame(w) == FALSE

\* An answer from another BMS to a request of one frame: the right one may
\* follow, under the same lock.
TriesSecond(w) ==
    /\ w = Daly /\ Current(w).frames = 1 /\ ~second
    /\ Parses /\ rx[1].dev # Current(w).dev

ReadOther(w) ==
    /\ CanRead(w) /\ TriesSecond(w)
    /\ rx' = Tail(Tail(rx))
    /\ second' = TRUE /\ waited' = Turnaround
    /\ UNCHANGED <<envVars, handle, air, holder, got, driverVars, outVars>>

\* Anything else is an error, after which the Daly driver empties the buffer.
ReadInvalid(w) ==
    /\ CanRead(w) /\ ~Valid(w) /\ ~TriesSecond(w)
    /\ rx' = IF w = Daly THEN Flushed(rx) ELSE Tail(Tail(rx))
    /\ Release /\ Fails(w)
    /\ UNCHANGED <<envVars, handle, air, accepted>>

\* The chunks of a frame that is cut are read, and thrown away.
TimesOut(w) ==
    /\ holder = w /\ waited = WindowEnd /\ Len(rx) < 2 /\ handle
    /\ rx' = <<>>
    /\ Release /\ Fails(w)
    /\ UNCHANGED <<envVars, handle, air, accepted>>

\* The adapter has gone in the middle of a transaction; with a second frame
\* the error reported is the address of the first.
ReadFails(w) ==
    /\ holder = w /\ ~handle
    /\ Release
    /\ IF second THEN Fails(w) ELSE PortFails(w)
    /\ UNCHANGED <<envVars, portVars, accepted>>

Driver(w) ==
    \/ Begin(w)
    \/ ReadValid(w) \/ ReadOther(w) \/ ReadInvalid(w)
    \/ TimesOut(w) \/ ReadFails(w)

\* poll_loop, after the backoff; the new stream waits for the lock.
Reopen ==
    /\ lost /\ pause[Daly] = 0 /\ holder = Nobody
    /\ lost' = FALSE
    /\ IF plugged
       THEN handle' = TRUE /\ backoff' = BackoffInitial /\ rx' = <<>>
       ELSE UNCHANGED <<handle, backoff, rx>>
    /\ UNCHANGED <<envVars, air, transVars, step, attempt, pause, outVars>>

-----------------------------------------------------------------------------
(* Time and the world.                                                     *)

Tick ==
    /\ \A i \in DOMAIN air : air[i].age < air[i].limit
    /\ IF holder = Nobody THEN \A w \in Drivers : ~Ready(w)
       ELSE waited < WindowEnd /\ ~(waited >= Turnaround /\ Len(rx) >= 2) /\ handle
    /\ air' = [i \in DOMAIN air |-> [air[i] EXCEPT !.age = @ + 1]]
    /\ waited' = IF holder = Nobody THEN 0 ELSE waited + 1
    /\ pause' = [w \in Drivers |-> IF pause[w] = 0 THEN 0 ELSE pause[w] - 1]
    /\ reported' = Nobody
    /\ UNCHANGED <<envVars, handle, rx, holder, second, got, step, attempt,
                   backoff, lost, accepted>>

Unplug ==
    /\ ~calm /\ plugged
    /\ plugged' = FALSE /\ handle' = FALSE
    /\ air' = <<>> /\ rx' = <<>>
    /\ UNCHANGED <<online, calm, transVars, driverVars, outVars>>

Plug ==
    /\ ~plugged /\ plugged' = TRUE
    /\ UNCHANGED <<online, calm, portVars, transVars, driverVars, outVars>>

\* From some moment on, between two transactions.
CalmsDown ==
    /\ ~calm /\ calm' = TRUE
    /\ holder = Nobody /\ air = <<>>
    /\ online' \in SUBSET Devices
    /\ UNCHANGED <<plugged, portVars, transVars, driverVars, outVars>>

BusNext ==
    \/ \E w \in Drivers : Driver(w)
    \/ Reopen
    \/ Arrives \/ Tick
    \/ Unplug \/ Plug \/ CalmsDown

BusSpec == BusInit /\ [][BusNext]_busVars

\* The lock is fair, the tasks run and time passes; the adapter comes back.
BusFairSpec ==
    /\ BusSpec
    /\ \A w \in Drivers : SF_busVars(Begin(w)) /\ WF_busVars(Driver(w))
    /\ SF_busVars(Reopen) /\ WF_busVars(Arrives) /\ WF_busVars(Tick) /\ WF_busVars(Plug)

-----------------------------------------------------------------------------
\* What a driver accepts is the answer to what it asked: from the device,
\* for the register, every frame in its place, and to this request rather
\* than to an earlier one whose answer came late.  Only the Data ID of a
\* Daly frame is checked, a Modbus answer names no register, and the number
\* of a frame is never looked at.
AnswersRequest ==
    \A i \in DOMAIN accepted.frames :
        accepted.frames[i] = Chunk(accepted.dev, accepted.reg, i, 1)

\* Once nothing goes wrong, every device that answers is reported again and
\* again, however many others do not and whatever the port went through.
AnsweringReported ==
    \A d \in Devices : <>[](calm /\ d \in online) => []<>(reported = d)
=============================================================================
