------------------------------ MODULE ReadSide ------------------------------
(***************************************************************************)
(* What is made of the measurements, and what is decided from them: the    *)
(* components that share nothing, side by side.  part is                   *)
(*   "file"     the file of the metrics store (StoreOpening),              *)
(*   "state"    a reading on its way to state and store (ServerState),     *)
(*   "topics"   the MQTT bridge of the server (MqttBridge),                *)
(*   "venus"    what is shown on D-Bus of each kind (VenusKinds),          *)
(*   "shunt"    the Ah and kWh of today of the battery (SmartShunt),       *)
(*   "yield"    the production of today of the inverter (DailyYield),      *)
(*   "heater"   the mode of the water heater (WaterHeater),                *)
(*   "charge"   the limits given to the inverter (ChargeCurrent),          *)
(*   "presence" the air conditioner of an empty room (RoomPresence),       *)
(*   "commands" what the REST API asks of a BMS (BmsCommands).             *)
(* A part that is not selected stays in an initial state.                  *)
(***************************************************************************)
EXTENDS Integers

CONSTANTS Sources, Interval, Floor, MaxKeys, ChanCap, RingCap, MaxTransient,
          Devices, Subjects, EventloopCap, MaxTicks,
          VenusSources, MaxLacking,
          DayLength, StaleAfter, MaxGap, Currents,
          RestartSec, MaxBatches, MaxSeconds,
          Slots, Capacity, ChargeCapacity, MaxOutages, MaxDay, MaxEnergy, MaxEnds,
          Conditions, ManualModes, Cooldown, Hold, MaxFaults,
          Limits, Powers, Threshold, Heartbeat, EcoAfter, OffAfter,
          Clients, Factory, Settable, MaxRequests,
          MaxReadings, MaxMessages, MaxWrites, MaxRestarts, MaxCrashes, MaxNow

VARIABLES part,
    source, now, readings, pending, ring, touched, store, marks, transient,
    epoch, samples, tried, offered,
    device, snapshots, latest, tick, queue, retained, ticks, upTo, disturbed,
    topics, known, published, broker, inbox, shown, restarts,
    kind, configured, sent, service, values, leaves, manager, signals, told,
    doubt, writes, kept,
    clock, seen, em, battery, energy, counter, midnight, withAh, system, server, restarted,
    second, file, quarantines, lock, process, downAt, compactor, committed, crashes,
    running, baseline, baselineDay, yield, yesterday, solarSends, resetTotal,
    resetSends, restoring, outQ, link, outages, kwh, owed, utcDay, localDay,
    meter, resetDue, crashed, utcStart, localStart, measured, renewed,
    unit, conditions, lastRead, since, lastChange, phase, readback, wanted, due,
    polled, manual, faults, excused, wrongFor,
    heard, recorded, sends, inverter, ended, decided, missed,
    occupied, emptyFor, reported, zone, aircon, lastMissed,
    access, bms, client, failures, requests, setTo, overwritten

State == INSTANCE ServerState WITH Kinds <- Sources, kind <- source, MaxTime <- MaxNow

Bridge == INSTANCE MqttBridge WITH readings <- snapshots

Venus == INSTANCE VenusKinds WITH Kinds <- VenusSources

Shunt == INSTANCE SmartShunt WITH
    now <- clock, published <- system, restarts <- restarted, MaxTime <- MaxNow

File == INSTANCE StoreOpening WITH server <- process

Yield == INSTANCE DailyYield WITH
    retained <- kwh, counter <- meter, crashes <- crashed, MaxCrashes <- MaxEnds

Heater == INSTANCE WaterHeater WITH heard <- conditions, known <- lastRead

Charge == INSTANCE ChargeCurrent WITH restarts <- ended, Capacity <- ChargeCapacity

Presence == INSTANCE RoomPresence WITH restarts <- ended

Commands == INSTANCE BmsCommands WITH faults <- failures

ASSUME ReadSideBounds ==
    /\ File!StoreAssumption /\ State!ServerAssumption
    /\ Bridge!BridgeAssumption /\ Venus!KindsAssumption
    /\ Shunt!ShuntAssumption /\ Yield!YieldAssumption
    /\ Heater!HeaterAssumption /\ Charge!ChargeAssumption
    /\ Presence!PresenceAssumption /\ Commands!CommandsAssumption

fileVars == <<second, file, quarantines, lock, process, downAt, compactor, committed, crashes>>
stateVars == <<source, now, readings, pending, ring, touched, store, marks,
               transient, epoch, samples, tried, offered>>
topicVars == <<device, snapshots, latest, tick, queue, retained, ticks, upTo,
               disturbed, topics, known, published, broker, inbox, shown,
               restarts>>
venusVars == <<kind, configured, sent, service, values, leaves, manager, signals,
               told, doubt, writes, kept>>
shuntVars == <<clock, seen, em, battery, energy, counter, midnight, withAh,
               system, server, restarted>>
busVars == <<outQ, link, outages>>
yieldVars == <<running, baseline, baselineDay, yield, yesterday, solarSends,
               resetTotal, resetSends, restoring, kwh, owed, utcDay, localDay,
               meter, resetDue, crashed, utcStart, localStart, measured, renewed>>
heaterVars == <<unit, conditions, lastRead, since, lastChange, phase, readback,
                wanted, due, polled, manual, faults, excused, wrongFor>>
chargeVars == <<heard, recorded, sends, inverter, decided, missed>>
presenceVars == <<occupied, emptyFor, reported, zone, aircon, lastMissed>>
measureVars == <<fileVars, stateVars, topicVars, venusVars, shuntVars>>
commandVars == <<access, bms, client, failures, requests, setTo, overwritten>>
decisionVars == <<heaterVars, chargeVars, presenceVars, ended, commandVars>>
partsVars == <<part, measureVars, yieldVars, decisionVars, busVars>>

-----------------------------------------------------------------------------
PartsInit ==
    /\ File!StoreInit /\ State!ServerInit /\ Bridge!BridgeInit /\ Venus!KindsInit
    /\ Shunt!ShuntInit /\ Yield!Init /\ Heater!HeaterInit /\ Charge!ChargeInit
    /\ Presence!PresenceInit /\ Commands!CommandsInit

PartsNext ==
    /\ \/ part = "file" /\ File!StoreNext
          /\ UNCHANGED <<stateVars, topicVars, venusVars, shuntVars,
                        yieldVars, decisionVars, busVars>>
       \/ part = "state" /\ State!ServerNext
          /\ UNCHANGED <<fileVars, topicVars, venusVars, shuntVars,
                        yieldVars, decisionVars, busVars>>
       \/ part = "topics" /\ Bridge!BridgeNext
          /\ UNCHANGED <<fileVars, stateVars, venusVars, shuntVars,
                        yieldVars, decisionVars, busVars>>
       \/ part = "venus" /\ Venus!KindsNext
          /\ UNCHANGED <<fileVars, stateVars, topicVars, shuntVars,
                        yieldVars, decisionVars, busVars>>
       \/ part = "shunt" /\ Shunt!ShuntNext
          /\ UNCHANGED <<fileVars, stateVars, topicVars, venusVars,
                        yieldVars, decisionVars, busVars>>
       \/ part = "yield" /\ Yield!Next
          /\ UNCHANGED <<measureVars, decisionVars>>
       \/ part = "heater" /\ Heater!HeaterNext
          /\ UNCHANGED <<measureVars, yieldVars, chargeVars, presenceVars, ended, commandVars,
                        busVars>>
       \/ part = "charge" /\ Charge!ChargeNext
          /\ UNCHANGED <<measureVars, yieldVars, heaterVars, presenceVars, commandVars>>
       \/ part = "presence" /\ Presence!PresenceNext
          /\ UNCHANGED <<measureVars, yieldVars, heaterVars, chargeVars, commandVars>>
       \/ part = "commands" /\ Commands!CommandsNext
          /\ UNCHANGED <<measureVars, yieldVars, heaterVars, chargeVars, presenceVars, ended,
                        busVars>>
    /\ UNCHANGED part

PartsSpec == PartsInit /\ [][PartsNext]_partsVars

-----------------------------------------------------------------------------
\* Every part keeps its types.
ReadSideTypesOK ==
    CASE part = "file" -> File!StoreTypesOK
      [] part = "state" -> State!ServerTypesOK
      [] part = "topics" -> Bridge!BridgeTypesOK
      [] part = "venus" -> Venus!KindsTypesOK
      [] part = "shunt" -> Shunt!ShuntTypesOK
      [] part = "yield" -> Yield!TypeOK
      [] part = "heater" -> Heater!HeaterTypeOK
      [] part = "charge" -> Charge!ChargeTypesOK
      [] part = "presence" -> Presence!PresenceTypesOK
      [] part = "commands" -> Commands!CommandsTypesOK
      [] OTHER -> TRUE

\* What was committed is still in the file, or in one it was renamed to.
HistoryKept == File!HistoryKept

\* A series is written no more often than it should be.
SeriesPaced == State!SeriesPaced

\* State and store take the readings of a source in order.
ReadingsInOrder == State!ReadingsInOrder

\* What is published, retained and shown never goes back to an older value.
NothingOlder == Bridge!NothingOlder

\* The console was told what a service holds, and what was written in the
\* console is kept.
ShownIsHeld == part = "venus" => Venus!ToldIsHeld /\ Venus!ConsoleWritesKept

\* Neither the counts of the battery nor the yield of the day contain
\* anything of an earlier day.
TodayOnly ==
    /\ part = "shunt" => Shunt!CountsOfToday
    /\ part = "yield" => Yield!NoEarlierDayCounted /\ Yield!NoResetDayCounted

\* The devices are as what was decided for them: the water heater stops in
\* time and holds the target of its mode, the inverter is set as was
\* decided, and the air conditioner as the room is reported; and a client of
\* the REST API is told what the BMS holds.
DevicesObey ==
    /\ part = "heater" => Heater!StopsInTime /\ Heater!TargetOfMode
    /\ part = "charge" => Charge!InverterAsDecided
    /\ part = "presence" => Presence!AirconAsDecided /\ Presence!NotOffTooSoon
    /\ part = "commands" => Commands!ToldWhatIsHeld
=============================================================================
