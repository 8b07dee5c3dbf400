----------------------------- MODULE BmsCommands -----------------------------
(***************************************************************************)
(* What the REST API asks of a BMS: its settings, six registers read one   *)
(* after the other and up to three times (api/bms.rs, commands.rs), and    *)
(* writes of thresholds (write.rs).  Each register is a transaction of its *)
(* own on the bus, between which other requests come.  A transaction gets  *)
(* the answer to its own request (FieldBus), or none, or an error; in the  *)
(* last two cases the BMS may have done what it was asked for.             *)
(*                                                                         *)
(* Thresholds are tuples of 16-bit integers; currents are in 0.1 A, with   *)
(* the sign of the request, and are held with an offset of 30000.          *)
(***************************************************************************)
EXTENDS Integers, Sequences

CONSTANTS
    Clients,        \* requests of the API that are served at the same time
    Factory,        \* the settings of the BMS at first
    Settable,       \* of some registers, the values requests may carry
    MaxFaults,      \* bound: transactions that fail
    MaxRequests     \* bound: requests

VARIABLES
    access,         \* "full", read_only.enabled, or no port
    bms,            \* the registers of the BMS
    client,         \* of each client, its request and what it was answered
    faults, requests,
    \* history variables
    setTo,          \* of each register, the value last written to it
    overwritten     \* of each client, the registers others have written since

commandVars == <<access, bms, client, faults, requests, setTo, overwritten>>

Registers == <<"rated", "balancing", "cell", "pack", "current", "delta">>
Register == DOMAIN Factory
Idle == [op |-> "none", register |-> "none", value |-> <<>>, attempt |-> 0,
         got |-> <<>>, answer |-> "none"]

MaxU16 == 65535
U16 == 0..MaxU16
Zero == 30000       \* what a current of 0 A is held as

\* The thresholds of a register.
Thresholds(r) == IF r = "current" THEN {v \in Seq(Int) : Len(v) = 2} ELSE Seq(U16)

CommandsAssumption ==
    /\ Register = {Registers[i] : i \in DOMAIN Registers}
    /\ Factory \in [Register -> Seq(Int)]
    /\ \A r \in Register : Factory[r] \in Thresholds(r)
    /\ DOMAIN Settable \subseteq Register
    /\ \A r \in DOMAIN Settable : Settable[r] \subseteq Thresholds(r)
    /\ MaxFaults \in Nat /\ MaxRequests \in Nat

-----------------------------------------------------------------------------
\* A conversion `as u16`.
Saturated(n) == IF n < 0 THEN 0 ELSE IF n > MaxU16 THEN MaxU16 ELSE n
Magnitude(n) == IF n < 0 THEN -n ELSE n

\* set_current_alarms, and get_current_alarms.
Encoded(r, v) ==
    IF r = "current" THEN <<Saturated(Zero - v[1]), Saturated(Zero + v[2])>> ELSE v
Decoded(r, raw) ==
    IF r = "current" THEN <<Magnitude(Zero - raw[1]), Magnitude(raw[2] - Zero)>> ELSE raw

\* The values the offset has room for, which no handler checks.
Representable(r, v) == r = "current" => v[1] \in 0..Zero /\ v[2] \in 0..MaxU16 - Zero

CommandsInit ==
    /\ access \in {"full", "read_only", "no_port"}
    /\ bms = [r \in Register |-> Encoded(r, Factory[r])]
    /\ client = [c \in Clients |-> Idle]
    /\ faults = 0 /\ requests = 0
    /\ setTo = Factory
    /\ overwritten = [c \in Clients |-> {}]

Free(c) == client[c].op = "none" /\ requests < MaxRequests
Fault == faults < MaxFaults /\ faults' = faults + 1

\* A request begins; what the client was answered before is forgotten.
Ask(c, request) ==
    /\ Free(c)
    /\ requests' = requests + 1
    /\ client' = [client EXCEPT ![c] = request]
    /\ overwritten' = [overwritten EXCEPT ![c] = {}]
    /\ UNCHANGED <<access, bms, faults, setTo>>

Answer(c, answer) == client' = [client EXCEPT ![c].op = "none", ![c].answer = answer]

-----------------------------------------------------------------------------
(* get_settings.                                                           *)

AskSettings(c) ==
    Ask(c, IF access = "no_port" THEN [Idle EXCEPT !.answer = "refused"]
           ELSE [Idle EXCEPT !.op = "settings"])

\* get_bms_settings: the next register.
ReadRegister(c) ==
    /\ client[c].op = "settings"
    /\ LET r == Registers[Len(client[c].got) + 1]
           got == Append(client[c].got, Decoded(r, bms[r])) IN
         client' = [client EXCEPT ![c].got = got,
                    ![c].op = IF Len(got) = Len(Registers) THEN "none" ELSE @,
                    ![c].answer = IF Len(got) = Len(Registers) THEN "settings" ELSE @]
    /\ UNCHANGED <<access, bms, faults, requests, setTo, overwritten>>

\* Variant: the registers read by an earlier attempt are kept.
GotAnew(c) == client[c].got

\* What a new attempt begins with.
Anew(c) == <<>>

\* Any error ends the attempt, and after 300 ms another one begins.
ReadFails(c) ==
    /\ client[c].op = "settings" /\ Fault
    /\ IF client[c].attempt < 2
       THEN /\ client' = [client EXCEPT ![c].attempt = @ + 1, ![c].got = Anew(c)]
            /\ overwritten' = [overwritten EXCEPT ![c] = {}]
       ELSE /\ Answer(c, "error")
            /\ UNCHANGED overwritten
    /\ UNCHANGED <<access, bms, requests, setTo>>

-----------------------------------------------------------------------------
(* The handlers that write.                                                *)

AskWrite(c, r, v) ==
    LET write == [Idle EXCEPT !.register = r, !.value = v] IN
    Ask(c, IF access = "full" THEN [write EXCEPT !.op = "write"]
           ELSE [write EXCEPT !.answer = "refused"])

\* The BMS has received the write of client c.
Taken(c) ==
    LET r == client[c].register IN
    /\ bms' = [bms EXCEPT ![r] = Encoded(r, client[c].value)]
    /\ setTo' = [setTo EXCEPT ![r] = client[c].value]
    /\ overwritten' = [d \in Clients |->
          overwritten[d] \cup {x \in {r} : d # c}]

WriteAnswered(c) ==
    /\ client[c].op = "write"
    /\ Taken(c) /\ Answer(c, "ok")
    /\ UNCHANGED <<access, faults, requests>>

\* A timeout is answered with a warning, any other error with that error.
WriteUnanswered(c) ==
    /\ client[c].op = "write" /\ Fault
    /\ Taken(c) \/ UNCHANGED <<bms, setTo, overwritten>>
    /\ \E answer \in {"warning", "error"} : Answer(c, answer)
    /\ UNCHANGED <<access, requests>>

CommandsNext ==
    \E c \in Clients :
        \/ AskSettings(c) \/ ReadRegister(c) \/ ReadFails(c)
        \/ \E r \in DOMAIN Settable : \E v \in Settable[r] : AskWrite(c, r, v)
        \/ WriteAnswered(c) \/ WriteUnanswered(c)

CommandsSpec == CommandsInit /\ [][CommandsNext]_commandVars

-----------------------------------------------------------------------------
CommandsTypesOK ==
    /\ access \in {"full", "read_only", "no_port"}
    /\ \A r \in Register, i \in 1..2 : i \in DOMAIN bms[r] => bms[r][i] \in U16
    /\ \A c \in Clients :
          /\ client[c].op \in {"none", "settings", "write"}
          /\ client[c].answer \in {"none", "ok", "warning", "error", "settings", "refused"}
          /\ client[c].attempt \in 0..2 /\ Len(client[c].got) <= Len(Registers)
    /\ faults \in 0..MaxFaults /\ requests \in 0..MaxRequests

\* A client that is answered settings gets of each register the value last
\* written to it, and one that is told ok without a warning finds its value
\* there, unless somebody else has written the register since the last
\* attempt began; with read_only.enabled nothing is written ("desactive
\* TOUTES les commandes d'ecriture", Config.toml:491).
ToldWhatIsHeld ==
    /\ \A c \in Clients :
          /\ client[c].answer = "settings" =>
                \A i \in DOMAIN Registers :
                    LET r == Registers[i] IN
                    \/ r \in overwritten[c] \/ ~Representable(r, setTo[r])
                    \/ client[c].got[i] = setTo[r]
          /\ client[c].answer = "ok" =>
                \/ client[c].register \in overwritten[c]
                \/ setTo[client[c].register] = client[c].value
    /\ access # "full" => setTo = Factory
=============================================================================
