----------------------------- MODULE ServerState -----------------------------
(***************************************************************************)
(* daly-bms-server: the way of a reading of one source from its driver to  *)
(* the state the API shows (state.rs) and to the metrics store, through    *)
(* the rate limiter of the series (redb_writes.rs).                        *)
(*                                                                         *)
(* A BMS hands its readings to a bounded channel with one consumer; the    *)
(* other polled devices have a task spawned for each reading; what comes   *)
(* by MQTT is handled before the next message is looked at.  The store     *)
(* opens in the background, and its queue may be full or closed.           *)
(*                                                                         *)
(* The series one write_* function writes at one tier are marked together: *)
(* a tier stands for all of them.  Time is in units of the fast tier.      *)
(***************************************************************************)
EXTENDS Integers, Sequences, FiniteSets

CONSTANTS
    Kinds,          \* the sources that are looked at, a subset of AllKinds
    Interval,       \* of each tier: MIN_, ENERGY_ and TEMP_WRITE_INTERVAL
    Floor,          \* RateLimiter::floor
    MaxKeys,        \* RateLimiter::MAX_KEYS
    ChanCap,        \* capacity of snap_tx
    RingCap,        \* ring_buffer_size
    MaxTime, MaxReadings, MaxTransient  \* bounds

VARIABLES
    kind,           \* the source
    now,
    readings,       \* readings its driver has made
    pending,        \* those being handled: a sequence of [n, stage]
    ring,           \* what the API shows, the latest last
    touched,        \* FreshnessRegistry
    store,          \* metrics_store_slot, or what becomes of it
    marks,          \* RateLimiter::last_writes, of the series of the source
    transient,      \* and how many keys of other series it holds
    epoch,          \* history: purges of the limiter
    samples,        \* history: last sample of a series the store's queue took
    tried,          \* history: when a sample of a series was last built
    offered         \* history: when a reading last had a value for it

serverVars == <<kind, now, readings, pending, ring, touched, store, marks,
                transient, epoch, samples, tried, offered>>

Tiers == {"fast", "energy", "temp"}

ServerAssumption ==
    /\ Interval \in [Tiers -> Nat \ {0}] /\ Floor \in Nat
    /\ MaxKeys \in Nat /\ ChanCap \in Nat \ {0} /\ RingCap \in Nat \ {0}

-----------------------------------------------------------------------------
(* What each function writes: the tiers that every reading has, and those  *)
(* of values that may be missing.                                          *)

Writes(always, optional) == [always |-> always, optional |-> optional]

write_bms == Writes(Tiers, {})
write_et112 == Writes({"fast", "energy"}, {})
write_toshiba_ac == Writes({}, {"fast", "temp"})
write_irradiance == Writes({"fast"}, {})
write_venus_mppt == Writes({}, {"fast", "energy"})
write_venus_smartshunt == Writes({}, {"fast", "energy"})
write_venus_inverter == Writes({"fast"}, {})
write_venus_temperature == Writes({"fast"}, {"temp"})
write_venus_heatpump == Writes({"fast", "energy"}, {"temp"})
write_ats == Writes({"fast", "energy"}, {})
write_tasmota == Writes({"fast", "energy"}, {"temp"})
write_shelly == Writes({"fast", "energy"}, {"temp"})
write_solar_total == Writes({"fast"}, {})
write_solar_components == Writes({}, {"fast"})
write_solar_yield == Writes({"energy"}, {})
write_monitor == Writes({"fast", "energy"}, {"temp"})
write_em_metrics == Writes({}, {"fast", "temp"})
write_wh_metrics == Writes({}, {"fast", "temp"})
write_process_memory == Writes({}, {"fast"})

WritesOf(k) ==
    CASE k = "bms" -> write_bms [] k = "et112" -> write_et112
      [] k = "toshiba_ac" -> write_toshiba_ac [] k = "irradiance" -> write_irradiance
      [] k = "mppt" -> write_venus_mppt [] k = "smartshunt" -> write_venus_smartshunt
      [] k = "inverter" -> write_venus_inverter [] k = "temperature" -> write_venus_temperature
      [] k = "heatpump" -> write_venus_heatpump [] k = "ats" -> write_ats
      [] k = "tasmota" -> write_tasmota [] k = "shelly" -> write_shelly
      [] k = "solar" -> write_solar_total [] k = "components" -> write_solar_components
      [] k = "yield" -> write_solar_yield [] k = "monitor" -> write_monitor
      [] k = "em_metrics" -> write_em_metrics [] k = "wh_metrics" -> write_wh_metrics
      [] OTHER -> write_process_memory

Spawned == {"et112", "irradiance", "ats", "tasmota", "shelly"}
\* The state is written before the store, not after.
ShownFirst == {"bms", "et112", "solar", "components", "yield"}
\* Those whose handler keeps no value, and those it does not touch.
NotShown == {"toshiba_ac", "em_metrics", "wh_metrics", "process_memory"}
NotTouched == NotShown \cup {"solar", "components", "yield", "monitor"}

-----------------------------------------------------------------------------
ServerInit ==
    /\ kind \in Kinds
    /\ now = 0 /\ readings = 0 /\ pending = <<>> /\ ring = <<>> /\ touched = -1
    /\ store = "opening"
    /\ marks = <<>> /\ transient = 0 /\ epoch = 0
    /\ samples = <<>> /\ tried = <<>> /\ offered = <<>>

\* A driver has read its device.  A full channel drops the reading of a BMS.
Reading ==
    /\ readings < MaxReadings
    /\ kind \notin Spawned \cup {"bms"} => pending = <<>>
    /\ readings' = readings + 1
    /\ pending' = IF kind = "bms" /\ Len(pending) = ChanCap THEN pending
                  ELSE Append(pending, [n |-> readings + 1, stage |-> "new"])
    /\ UNCHANGED <<kind, now, ring, touched, store, marks, transient, epoch,
                   samples, tried, offered>>

\* Variant: a task for every reading of a BMS too.
TurnsSpawned == DOMAIN pending

\* The readings that may take the next step.
Turns == IF kind \in Spawned THEN DOMAIN pending ELSE DOMAIN pending \cap {1}

Show(n) ==
    IF kind \in NotShown THEN UNCHANGED ring
    ELSE ring' = Append(IF Len(ring) < RingCap THEN ring ELSE Tail(ring), n)

With(f, keys, v) == [t \in DOMAIN f \cup keys |-> IF t \in keys THEN v ELSE f[t]]

Gap(t) == IF Interval[t] > Floor THEN Interval[t] ELSE Floor

\* Variant: every call of a series is noted.
MarkedAlways(t, allowed) == TRUE

\* RateLimiter::allow notes those it lets through, before they are queued.
Marked(t, allowed) == allowed

\* push, for every series of a reading.  A new key may purge the limiter in
\* the middle of it: the series pushed before are forgotten again.
Push(n, tiers) ==
    LET new == tiers \ DOMAIN marks
        purges == new # {} /\ Cardinality(DOMAIN marks \cup tiers) + transient > MaxKeys
        Allowed(t) == t \notin DOMAIN marks \/ now - marks[t] >= Gap(t)
        Build(before, allowed, kept) ==
            /\ tried' = With(tried, allowed, now)
            /\ marks' = With(kept, {t \in tiers \ before : Marked(t, t \in allowed)}, now)
            /\ \/ store = "open" /\ samples' = [t \in DOMAIN samples \cup allowed |->
                     IF t \notin allowed THEN samples[t]
                     ELSE [at |-> now, n |-> n, epoch |-> IF t \in before THEN epoch ELSE epoch']]
               \/ UNCHANGED samples       \* the queue is full or closed
    IN  /\ offered' = With(offered, tiers, now)
        /\ \/ /\ ~purges /\ UNCHANGED <<transient, epoch>>
              /\ Build({}, {t \in tiers : Allowed(t)}, marks)
           \/ /\ purges /\ transient' = 0 /\ epoch' = epoch + 1
              /\ \E before \in SUBSET tiers :
                    /\ ~(new \subseteq before)
                    /\ Build(before, {t \in tiers : t \notin before \/ Allowed(t)}, <<>>)

\* Nothing is noted as long as the store is not there.
Store(n) ==
    IF store \in {"opening", "failed"}
    THEN UNCHANGED <<marks, transient, epoch, samples, tried, offered>>
    ELSE \E some \in SUBSET WritesOf(kind).optional :
            Push(n, WritesOf(kind).always \cup some)

\* on_snapshot and the other handlers: touch, then state and store in their
\* order, between which they wait for a lock.
Begins(i) ==
    LET n == pending[i].n
    IN  /\ i \in Turns /\ pending[i].stage = "new"
        /\ touched' = IF kind \in NotTouched THEN touched ELSE now
        /\ pending' = [pending EXCEPT ![i].stage = "half"]
        /\ IF kind \in ShownFirst
           THEN Show(n) /\ UNCHANGED <<marks, transient, epoch, samples, tried, offered>>
           ELSE Store(n) /\ UNCHANGED ring
        /\ UNCHANGED <<kind, now, readings, store>>

Ends(i) ==
    LET n == pending[i].n
    IN  /\ i \in Turns /\ pending[i].stage = "half"
        /\ pending' = [j \in 1..Len(pending) - 1 |-> pending[IF j < i THEN j ELSE j + 1]]
        /\ IF kind \in ShownFirst
           THEN Store(n) /\ UNCHANGED ring
           ELSE Show(n) /\ UNCHANGED <<marks, transient, epoch, samples, tried, offered>>
        /\ UNCHANGED <<kind, now, readings, touched, store>>

\* Series of the monitor that come and go, such as those of its processes.
TransientKey ==
    /\ store = "open" /\ epoch < MaxTransient
    /\ IF Cardinality(DOMAIN marks) + transient >= MaxKeys
       THEN transient' = 1 /\ marks' = <<>> /\ epoch' = epoch + 1
       ELSE transient' = transient + 1 /\ UNCHANGED <<marks, epoch>>
    /\ UNCHANGED <<kind, now, readings, pending, ring, touched, store, samples,
                   tried, offered>>

\* The task of main.rs, and the stop of the process.
StoreOpens ==
    /\ store = "opening"
    /\ store' \in {"open", "failed"}
    /\ UNCHANGED <<kind, now, readings, pending, ring, touched, marks, transient,
                   epoch, samples, tried, offered>>

StoreStops ==
    /\ store = "open"
    /\ store' = "stopped"
    /\ UNCHANGED <<kind, now, readings, pending, ring, touched, marks, transient,
                   epoch, samples, tried, offered>>

Tick ==
    /\ now < MaxTime
    /\ now' = now + 1
    /\ UNCHANGED <<kind, readings, pending, ring, touched, store, marks, transient,
                   epoch, samples, tried, offered>>

ServerNext ==
    \/ Reading \/ TransientKey \/ StoreOpens \/ StoreStops \/ Tick
    \/ \E i \in DOMAIN pending : Begins(i) \/ Ends(i)

ServerSpec == ServerInit /\ [][ServerNext]_serverVars

-----------------------------------------------------------------------------
ServerTypesOK ==
    /\ kind \in Kinds /\ store \in {"opening", "open", "failed", "stopped"}
    /\ Len(ring) <= RingCap /\ touched \in -1..now
    /\ DOMAIN marks \subseteq Tiers /\ transient \in 0..MaxKeys + 1
    /\ kind = "bms" => Len(pending) <= ChanCap

Resampled(t) == t \in DOMAIN samples /\ samples'[t] # samples[t]

\* The limiter thins a series out and does not silence it: between purges
\* its samples are a full interval apart, and a reading that comes a full
\* interval after the last sample that was built always makes one, however
\* many were refused in between (RateLimiter).  That last sample may have
\* been dropped by a full queue.
SeriesPaced ==
    [][ /\ \A t \in Tiers : Resampled(t) /\ samples'[t].epoch = samples[t].epoch =>
              samples'[t].at - samples[t].at >= Gap(t)
        /\ \A t \in DOMAIN offered : offered[t] - tried[t] < Gap(t) ]_serverVars

\* What is shown and stored of a source with one consumer never goes back to
\* an older reading (main.rs:685-689, the channel of the BMS readings; MQTT
\* messages are handled one after another).
ReadingsInOrder ==
    [][ kind \notin Spawned =>
          /\ \A i \in 1..Len(ring) - 1 : ring[i] < ring[i + 1]
          /\ \A t \in Tiers : Resampled(t) => samples'[t].n > samples[t].n ]_serverVars
=============================================================================
