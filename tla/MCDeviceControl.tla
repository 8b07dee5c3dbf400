--------------------------- MODULE MCDeviceControl ---------------------------
(***************************************************************************)
(* Two controllers of a device, checked in one run: part = "deye" cuts and *)
(* restores the DEYE inverters, part = "toshiba" is the client of an air   *)
(* conditioner.  The part that is not selected stays in an initial state.  *)
(***************************************************************************)
EXTENDS MCDeyeController

CONSTANTS Modes, Targets, Specials, Unknown, HelloFrames, AfterFrames, InitQueries,
          HandshakeDelay, ReceiveTimeout, Watchdog, MaxPayloads, MaxFields,
          MaxRemote, MaxFaults

VARIABLES part, phase, queue, partial, view, sinceTx, sinceRx, unit, line,
          payloads, remote, faults

MCInitQueries == <<"power", "target", "special">>

Toshiba == INSTANCE ToshibaClient

ASSUME ToshibaBounds == Toshiba!ToshibaAssumption

toshibaVars == <<phase, queue, partial, view, sinceTx, sinceRx, unit, line,
                 payloads, remote, faults>>
allVars == <<vars, part, toshibaVars>>

AllInit ==
    /\ part \in {"deye", "toshiba"}
    /\ Init /\ Toshiba!Init
    /\ part = "deye" => unit = CHOOSE u \in Toshiba!Units : TRUE
    /\ part = "toshiba" => relayOn

AllNext ==
    /\ \/ part = "deye" /\ Next /\ UNCHANGED toshibaVars
       \/ part = "toshiba" /\ Toshiba!Next /\ UNCHANGED vars
    /\ UNCHANGED part

\* The FairSpec of each.
AllSpec ==
    /\ AllInit /\ [][AllNext]_allVars
    /\ WF_vars(part = "deye" /\ Second)
    /\ WF_vars(part = "deye" /\ Evaluate)
    /\ WF_toshibaVars(part = "toshiba" /\ Toshiba!Start)
    /\ WF_toshibaVars(part = "toshiba" /\ Toshiba!PollTx)
    /\ WF_toshibaVars(part = "toshiba" /\ Toshiba!Receive)
    /\ WF_toshibaVars(part = "toshiba" /\ Toshiba!Tick)

\* Both parts keep their types.
ControlTypesOK == IF part = "deye" THEN TypeOK ELSE Toshiba!TypeOK

\* What the client shows ends up being what the air conditioner does.
ShowsTheUnit == part = "toshiba" => Toshiba!ShowsTheUnit
=============================================================================
