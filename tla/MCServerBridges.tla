-------------------------- MODULE MCServerBridges --------------------------
(***************************************************************************)
(* Two consumers of the telemetry of daly-bms-server, checked in one run:  *)
(* part = "alerts" is its alert engine, part = "venus" a service of        *)
(* dbus-mqtt-venus.  The part that is not selected stays in an initial     *)
(* state.                                                                  *)
(***************************************************************************)
EXTENDS AlertEngine

CONSTANTS Controllable, Retained, Watchdog, Republish, Period, ChanCap, CmdCap, MaxWrites

VARIABLES part, device, live, sincePub, link, retained, chan, service, shown,
          lastUpdate, updating, sinceTick, cmds, writes, unattended

MCMinDuration == [r \in Rules |-> 1]
MCCooldown == [r \in Rules |-> 2]

Venus == INSTANCE VenusService

ASSUME VenusBounds == Venus!VenusAssumption

venusVars == <<device, live, sincePub, link, retained, chan, service, shown,
               lastUpdate, updating, sinceTick, cmds, writes, unattended>>
allVars == <<vars, part, venusVars>>

AllInit ==
    /\ part \in {"alerts", "venus"}
    /\ Init /\ Venus!Init
    /\ part = "alerts" => device = 0
    /\ part = "venus" => \A b \in Bms, r \in Rules : level[b][r] = "band"

AllNext ==
    /\ \/ part = "alerts" /\ Next /\ UNCHANGED venusVars
       \/ part = "venus" /\ Venus!Next /\ UNCHANGED vars
    /\ UNCHANGED part

\* The FairSpec of each.
AllSpec ==
    /\ AllInit /\ [][AllNext]_allVars
    /\ WF_vars(part = "alerts" /\ Evaluate)
    /\ WF_vars(part = "alerts" /\ LogEvent)
    /\ WF_vars(part = "alerts" /\ Sent)
    /\ WF_vars(part = "alerts" /\ Second)
    /\ \A b \in Bms : SF_vars(part = "alerts" /\ Len(queue) < QueueCap /\ OnSnapshot(b))
    /\ <>[][~ServerRestarts]_vars
    /\ WF_venusVars(part = "venus" /\ sincePub = Period /\ Venus!Publish)
    /\ WF_venusVars(part = "venus" /\ Venus!HandleEvent)
    /\ SF_venusVars(part = "venus" /\ Venus!HandleEvent /\ service' # "absent")
    /\ WF_venusVars(part = "venus" /\ Venus!Update)
    /\ WF_venusVars(part = "venus" /\ Venus!RepublishAndWatchdog)
    /\ WF_venusVars(part = "venus" /\ link /\ Venus!Forward)
    /\ SF_venusVars(part = "venus" /\ Venus!Second)

\* Both parts keep their types.
BridgeTypesOK == TypeOK /\ Venus!TypeOK

\* A service nobody has heard of for watchdog_sec is seen disconnected.
UnattendedDisconnects == Venus!UnattendedDisconnects

\* A service whose source publishes ends up connected and stays so, and what
\* the console shows ends up as the state of the relay.
ShownConverges == part = "venus" => Venus!LiveStaysConnected /\ Venus!ShownConverges
=============================================================================
