----------------------------- MODULE VenusKinds -----------------------------
(***************************************************************************)
(* dbus-mqtt-venus: what the services of the different kinds show on       *)
(* D-Bus, and when the console hears of it.  VenusService has their loop   *)
(* and their clocks; here a service has the fields of its kind, the        *)
(* console writes some of them, and what it was told by ItemsChanged and   *)
(* GetItems is compared with what the service holds.                       *)
(*                                                                         *)
(* The values of a payload stand in groups that come or lack together.  A  *)
(* field is 0 as long as nothing but the configuration has set it, n when  *)
(* it comes from message n, and -n from write n of the console.            *)
(***************************************************************************)
EXTENDS Integers, Sequences, FiniteSets

CONSTANTS
    Kinds,                      \* the kinds looked at, a subset of AllKinds
    MaxMessages, MaxWrites, MaxLacking  \* bounds

VARIABLES
    kind,
    configured,     \* the index of the topic is one of the configuration
    sent,           \* messages published
    service,        \* "absent" or "there"
    values,         \* the values under the lock: [connected, fields]
    leaves,         \* fields that have an object of their own
    manager,        \* what the manager is about to do: [stage, with]
    signals,        \* ItemsChanged that a write has spawned
    told,           \* what the console was last told
    doubt,          \* history: something may leave the console behind: "no",
                    \* "old" up to the next emission, "new" up to the one after
    writes,
    kept            \* history: writes that no update had begun before

kindVars == <<kind, configured, sent, service, values, leaves, manager, signals,
              told, doubt, writes, kept>>

-----------------------------------------------------------------------------
(* The payloads: what a message must have and what it may lack.  Others    *)
(* are refused by the parser.                                              *)

Payload(required, optional) == [required |-> required, optional |-> optional]

VenusPayload == Payload({"dc", "soc", "capacity", "io", "alarms", "system"}, {})
HeatPayload == Payload({"temperature"}, {"type", "air", "custom_name"})
HeatpumpPayload == Payload({}, {"state", "position", "ac", "temperatures"})
MeteoPayload == Payload({}, {"irradiance", "yields", "outdoor", "wind"})
SwitchPayload == Payload({}, {"position", "state"})
GridPayload == Payload({"ac"}, {"meta", "l1", "l2", "l3"})
PvinverterPayload == Payload({"ac"}, {"measures", "position", "names"})
PlatformPayload == Payload({}, {"backup", "restore"})

(* The values: those that an update takes from the payload, 0 or what is   *)
(* configured in place of what it lacks, and those that it copies from the *)
(* values before.                                                          *)

Values(taken, copied) == [taken |-> taken, copied |-> copied]

BatteryValues == Values(VenusPayload.required, {})
SensorValues == Values({"temperature", "air", "custom_name"}, {})
HeatpumpValues == Values(HeatpumpPayload.optional, {})
MeteoValues == Values({"irradiance", "yields", "wind"}, {})
SwitchValues == Values({"position", "state"}, {"custom_name"})
GridValues == Values({"meta", "l1", "l2", "l3"}, {})
PvinverterValues == Values(PvinverterPayload.optional, {"role"})
PlatformValues == Values({"backup", "restore"}, {})

(* The objects on D-Bus: what the console may write, and whether the write *)
(* is signalled.                                                           *)

Service(writable, signalled) == [writable |-> writable, signalled |-> signalled]

BatteryService == Service({}, FALSE)
SensorService == Service({}, FALSE)
HeatpumpService == Service({}, FALSE)
MeteoService == Service({}, FALSE)
SwitchService == Service({"custom_name", "state"}, FALSE)
GridService == Service({}, FALSE)
PvinverterService == Service({"role", "position"}, TRUE)
PlatformService == Service({}, FALSE)

(* The sources: a topic for each index, whose number is read from it, or a *)
(* fixed one.                                                              *)

BatterySource == "indexed"
SensorSource == "indexed"
HeatpumpSource == "indexed"
MeteoSource == "fixed"
SwitchSource == "indexed"
GridSource == "indexed"
PvinverterSource == "indexed"
PlatformSource == "fixed"

(* The managers: services are made for any index, or for those of the      *)
(* configuration.                                                          *)

BatteryManager == "any"
SensorManager == "any"
HeatpumpManager == "known"
MeteoManager == "only"
SwitchManager == "known"
GridManager == "known"
PvinverterManager == "known"
PlatformManager == "only"

Parts(payload, values_, service_, source, manager_) ==
    [payload |-> payload, values |-> values_, service |-> service_,
     source |-> source, manager |-> manager_]

AllKinds ==
    [battery |-> Parts(VenusPayload, BatteryValues, BatteryService, BatterySource, BatteryManager),
     temperature |-> Parts(HeatPayload, SensorValues, SensorService, SensorSource, SensorManager),
     heatpump |-> Parts(HeatpumpPayload, HeatpumpValues, HeatpumpService, HeatpumpSource, HeatpumpManager),
     meteo |-> Parts(MeteoPayload, MeteoValues, MeteoService, MeteoSource, MeteoManager),
     switch |-> Parts(SwitchPayload, SwitchValues, SwitchService, SwitchSource, SwitchManager),
     grid |-> Parts(GridPayload, GridValues, GridService, GridSource, GridManager),
     pvinverter |-> Parts(PvinverterPayload, PvinverterValues, PvinverterService,
                          PvinverterSource, PvinverterManager),
     platform |-> Parts(PlatformPayload, PlatformValues, PlatformService,
                        PlatformSource, PlatformManager)]

KindsAssumption == Kinds \subseteq DOMAIN AllKinds

Of(k) == AllKinds[k]
Fields(k) == Of(k).values.taken \cup Of(k).values.copied

\* The messages that lack at most MaxLacking groups.
Messages(k) ==
    {Of(k).payload.required \cup some :
        some \in {has \in SUBSET Of(k).payload.optional :
                    Cardinality(Of(k).payload.optional \ has) <= MaxLacking}}

-----------------------------------------------------------------------------
(* from_payload and to_items.                                              *)

Disconnected(k) == [connected |-> FALSE, fields |-> [f \in Fields(k) |-> 0]]

\* What message n shows that has the fields in has; the fields that are kept
\* have been copied before.
FromPayload(k, n, has, copied) ==
    [connected |-> TRUE,
     fields |-> [f \in Fields(k) |-> CASE f \in Of(k).values.copied -> copied[f]
                                       [] f \in has -> n
                                       [] OTHER -> 0]]

\* A meter shows as many phases as it has, the first ones.
GridShown(fields) ==
    LET phases == 1 + Cardinality({f \in {"l2", "l3"} : fields[f] # 0})
    IN  {"meta", "l1"} \cup (IF phases > 1 THEN {"l2"} ELSE {})
                              \cup (IF phases > 2 THEN {"l3"} ELSE {})

Items(k, v) ==
    [connected |-> v.connected,
     fields |-> [f \in IF k = "grid" THEN GridShown(v.fields) ELSE Fields(k) |-> v.fields[f]]]

NoItems == [connected |-> FALSE, fields |-> <<>>]

-----------------------------------------------------------------------------
Idle == [stage |-> "idle", with |-> NoItems]

KindsInit ==
    /\ kind \in Kinds /\ configured \in BOOLEAN
    /\ Of(kind).source = "fixed" => configured
    /\ sent = 0 /\ writes = 0
    /\ service = "absent" /\ values = Disconnected(kind) /\ leaves = {}
    /\ manager = Idle /\ signals = <<>>
    /\ told = NoItems /\ doubt = "no"
    /\ kept = <<>>

\* The items of an emission are taken here.
Settles == doubt' = IF doubt = "new" THEN "old" ELSE doubt
Doubtful == doubt' = IF doubt = "no" THEN "old" ELSE doubt

\* handle_event: the service is made, if it is not there, with an object for
\* every field that it shows by then; update copies what it keeps.  That a
\* service cannot be made is in VenusService.
Handle(has) ==
    /\ manager.stage = "idle" /\ sent < MaxMessages
    /\ sent' = sent + 1
    /\ IF configured \/ Of(kind).manager = "any"
       THEN /\ service' = "there"
            /\ leaves' = IF service = "absent" THEN DOMAIN Items(kind, values).fields ELSE leaves
            /\ manager' = [stage |-> "write",
                           with |-> FromPayload(kind, sent + 1, has, values.fields)]
       ELSE UNCHANGED <<service, leaves, manager>>
    /\ UNCHANGED <<kind, configured, values, signals, told, doubt, writes, kept>>

\* Variant: the fields of the console are those of the configuration.
WriteValuesForgets ==
    /\ manager.stage = "write"
    /\ values' = [manager.with EXCEPT !.fields = [f \in DOMAIN @ |->
                     IF f \in Of(kind).values.copied THEN 0 ELSE @[f]]]
    /\ manager' = [stage |-> "emit", with |-> Items(kind, values')]
    /\ Settles
    /\ UNCHANGED <<kind, configured, sent, service, leaves, signals, told, writes, kept>>

\* The new values replace the old ones.
WriteValues ==
    /\ manager.stage = "write"
    /\ values' = manager.with
    /\ manager' = [stage |-> "emit", with |-> Items(kind, values')]
    /\ Settles
    /\ UNCHANGED <<kind, configured, sent, service, leaves, signals, told, writes, kept>>

\* emit_items_changed: an error is logged and forgotten.
Emit ==
    /\ manager.stage = "emit"
    /\ manager' = Idle
    /\ \/ told' = manager.with
          /\ doubt' = IF doubt = "old" /\ signals = <<>> THEN "no" ELSE doubt
       \/ Doubtful /\ UNCHANGED told
    /\ UNCHANGED <<kind, configured, sent, service, values, leaves, signals, writes, kept>>

\* Variant: the items are those before the disconnection.
RepublishAndWatchdogEarly(late) ==
    /\ manager.stage = "idle" /\ service = "there"
    /\ values' = IF late THEN [values EXCEPT !.connected = FALSE] ELSE values
    /\ manager' = [stage |-> "emit", with |-> Items(kind, values)]
    /\ Settles
    /\ UNCHANGED <<kind, configured, sent, service, leaves, signals, told, writes, kept>>

\* set_disconnected after watchdog_sec, or republish: the values of before
\* are shown again.
RepublishAndWatchdog(late) ==
    /\ manager.stage = "idle" /\ service = "there"
    /\ values' = IF late THEN [values EXCEPT !.connected = FALSE] ELSE values
    /\ manager' = [stage |-> "emit", with |-> Items(kind, values')]
    /\ Settles
    /\ UNCHANGED <<kind, configured, sent, service, leaves, signals, told, writes, kept>>

\* set_value of the object of a field: any other field refuses.
SetValue(f) ==
    /\ f \in leaves \cap Of(kind).service.writable /\ writes < MaxWrites
    /\ writes' = writes + 1
    /\ values' = [values EXCEPT !.fields[f] = -(writes + 1)]
    /\ signals' = IF Of(kind).service.signalled THEN Append(signals, Items(kind, values')) ELSE signals
    /\ doubt' = "new"
    /\ kept' = [g \in (DOMAIN kept \cup {f}) \ {h \in {f} : manager.stage = "write"} |->
                   IF g = f THEN -(writes + 1) ELSE kept[g]]
    /\ UNCHANGED <<kind, configured, sent, service, leaves, manager, told>>

\* The tasks that emit_items_changed_sync spawns, in any order.
Signalled(i) ==
    /\ told' = signals[i]
    /\ Doubtful
    /\ signals' = [j \in 1..Len(signals) - 1 |-> signals[IF j < i THEN j ELSE j + 1]]
    /\ UNCHANGED <<kind, configured, sent, service, values, leaves, manager, writes, kept>>

\* The console asks for everything, as when it starts.
GetItems ==
    /\ service = "there"
    /\ told' = Items(kind, values)
    /\ UNCHANGED <<kind, configured, sent, service, values, leaves, manager,
                   signals, doubt, writes, kept>>

KindsNext ==
    \/ \E has \in Messages(kind) : Handle(has)
    \/ WriteValues \/ Emit \/ GetItems
    \/ \E late \in BOOLEAN : RepublishAndWatchdog(late)
    \/ \E f \in leaves : SetValue(f)
    \/ \E i \in DOMAIN signals : Signalled(i)

KindsSpec == KindsInit /\ [][KindsNext]_kindVars

-----------------------------------------------------------------------------
KindsTypesOK ==
    /\ kind \in Kinds /\ service \in {"absent", "there"}
    /\ manager.stage \in {"idle", "write", "emit"}
    /\ DOMAIN values.fields = Fields(kind) /\ leaves \subseteq Fields(kind)
    /\ \A f \in Fields(kind) : values.fields[f] \in -writes..sent
    /\ doubt \in {"no", "old", "new"}
    /\ DOMAIN kept \subseteq Of(kind).service.writable

\* When the manager has nothing left to emit, what the console was told is
\* what the service holds; a write of the console, a signal that comes late
\* and one that is lost may leave it behind, up to the next republication.
ToldIsHeld ==
    service = "there" /\ manager.stage = "idle" /\ doubt = "no" /\ told # NoItems =>
        told = Items(kind, values)

\* A name or a role written in the console outlives the updates, the
\* disconnections and the republications that begin after it
\* (switch_service.rs:371-372, pvinverter_service.rs:149).
ConsoleWritesKept ==
    \A f \in DOMAIN kept \cap Of(kind).values.copied : values.fields[f] = kept[f]
=============================================================================
