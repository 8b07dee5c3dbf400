--------------------------- MODULE ReadSideProofs ----------------------------
(***************************************************************************)
(* What ReadSide makes of the measurements, for every value of the         *)
(* constants: the file of the store, the readings on their way to it, the  *)
(* topics of the MQTT bridge, what is shown on D-Bus, and the counts of the *)
(* day; and with DecisionProofs the types of all its parts.                *)
(***************************************************************************)
EXTENDS DecisionProofs

-----------------------------------------------------------------------------
(* The file of the store.                                                  *)

FileTypes ==
    /\ second \in Nat /\ downAt \in Int /\ downAt <= second
    /\ file \in [state : {"none", "sound", "corrupt"}, batches : SUBSET committed]
    /\ file.state = "none" => file.batches = {}
    /\ lock # "free" => file.state = "sound"
    /\ process \in {"down", "opening", "corrupt", "moved", "running", "degraded"}
    /\ compactor \in {"idle", "tiers", "between", "pages"}
    /\ lock \in {"free", "server", "compactor"}
    /\ process = "running" <=> lock = "server"
    /\ compactor \in {"tiers", "pages"} <=> lock = "compactor"

\* A name is taken by one quarantine only: a server that may make one has been
\* down for a second at least since the last one was made.
NamesFree ==
    /\ \A s \in DOMAIN quarantines : s \in Nat /\ s <= second
    /\ process = "down" => \A s \in DOMAIN quarantines : s <= downAt
    /\ process \in {"opening", "corrupt"} => \A s \in DOMAIN quarantines : s < second

Found(batch) == batch \in file.batches \/ \E s \in DOMAIN quarantines : batch \in quarantines[s]

FileInv ==
    /\ FileTypes /\ NamesFree
    /\ \A batch \in committed : Found(batch)
    /\ process = "corrupt" => file.state = "corrupt"

LEMMA FileInvInit == File!StoreInit => FileInv
  <1> SUFFICES ASSUME File!StoreInit PROVE FileInv
    OBVIOUS
  <1>1. DOMAIN quarantines = {}
    BY DEF File!StoreInit
  <1>2. RestartSec \in Nat \ {0}
    BY ReadSideBounds DEF File!StoreAssumption
  <1>. QED BY <1>1, <1>2 DEF File!StoreInit, FileInv, FileTypes, NamesFree, File!NoFile

\* A step of the file keeps the invariant, and no quarantine is made of a sound file.
LEMMA FileStep ==
    ASSUME FileInv, File!StoreNext
    PROVE  FileInv' /\ (quarantines' # quarantines => file.state = "corrupt")
  <1>0. /\ RestartSec \in Nat \ {0} /\ FileTypes /\ NamesFree
        /\ \A batch \in committed : Found(batch)
        /\ process = "corrupt" => file.state = "corrupt"
    BY ReadSideBounds DEF File!StoreAssumption, FileInv
  <1>1. CASE File!Starts
    BY <1>0, <1>1 DEF File!Starts, FileInv, FileTypes, NamesFree, Found
  <1>2. CASE File!Opens
    <2>1. CASE File!Open("server") /\ process' = "running"
      BY <1>0, <1>2, <2>1 DEF File!Opens, File!Open, FileInv, FileTypes, NamesFree, Found
    <2>2. CASE UNCHANGED <<file, lock>> /\ process' \in {"corrupt", "degraded"}
               /\ (process' = "corrupt" => \E error \in File!OpenErrors : File!IsCorruption(error))
      <3>1. process' = "corrupt" => file.state = "corrupt"
        BY <2>2 DEF File!OpenErrors, File!IsCorruption
      <3>. QED BY <1>0, <1>2, <2>2, <3>1 DEF File!Opens, FileInv, FileTypes, NamesFree, Found
    <2>. QED BY <1>2, <2>1, <2>2 DEF File!Opens
  <1>3. CASE File!Quarantines
    <2>1. CASE file.state # "none" /\ quarantines' = File!Moved(second)
               /\ file' = File!NoFile /\ process' = "moved"
      <3>1. DOMAIN quarantines' = DOMAIN quarantines \cup {second}
            /\ quarantines'[second] = file.batches
            /\ \A s \in DOMAIN quarantines : quarantines'[s] = quarantines[s]
        BY <1>0, <1>3, <2>1 DEF File!Quarantines, File!Moved, NamesFree, FileTypes
      <3>2. (\A batch \in committed : Found(batch))'
        BY <1>0, <1>3, <3>1 DEF File!Quarantines, Found
      <3>. QED BY <1>0, <1>3, <2>1, <3>1, <3>2
               DEF File!Quarantines, FileInv, FileTypes, NamesFree, File!NoFile
    <2>2. CASE process' = "degraded" /\ UNCHANGED <<file, quarantines>>
      BY <1>0, <1>3, <2>2 DEF File!Quarantines, FileInv, FileTypes, NamesFree, Found
    <2>. QED BY <1>3, <2>1, <2>2 DEF File!Quarantines
  <1>4. CASE File!Recreates
    BY <1>0, <1>4 DEF File!Recreates, File!Open, FileInv, FileTypes, NamesFree, Found
  <1>5. CASE File!Commits
    <2>1. PICK batch : committed' = committed \cup {batch}
                       /\ file' = [file EXCEPT !.batches = @ \cup {batch}]
      BY <1>5 DEF File!Commits
    <2>2. file' \in [state : {"none", "sound", "corrupt"}, batches : SUBSET committed']
          /\ file'.state = file.state /\ file'.batches = file.batches \cup {batch}
      BY <1>0, <2>1 DEF FileTypes
    <2>. QED BY <1>0, <1>5, <2>1, <2>2 DEF File!Commits, FileInv, FileTypes, NamesFree, Found
  <1>6. CASE File!Stops
    BY <1>0, <1>6 DEF File!Stops, FileInv, FileTypes, NamesFree, Found
  <1>7. CASE File!PowerCut
    <2>1. file' \in [state : {"none", "sound", "corrupt"}, batches : SUBSET committed]
          /\ file'.batches = file.batches /\ (file'.state = "none" => file.state = "none")
      BY <1>0, <1>7 DEF File!PowerCut, FileTypes
    <2>. QED BY <1>0, <1>7, <2>1 DEF File!PowerCut, FileInv, FileTypes, NamesFree, Found
  <1>8. CASE File!CompactsTiers \/ File!CompactsPages
    BY <1>0, <1>8 DEF File!CompactsTiers, File!CompactsPages, File!Open, FileInv, FileTypes,
                      NamesFree, Found
  <1>9. CASE File!ClosesTiers \/ File!ClosesPages
    BY <1>0, <1>9 DEF File!ClosesTiers, File!ClosesPages, FileInv, FileTypes, NamesFree, Found
  <1>10. CASE File!SecondPasses
    BY <1>0, <1>10 DEF File!SecondPasses, FileInv, FileTypes, NamesFree, Found
  <1>11. quarantines' # quarantines => File!Quarantines
    BY DEF File!StoreNext, File!Starts, File!Opens, File!Recreates, File!Commits, File!Stops,
           File!PowerCut, File!CompactsTiers, File!ClosesTiers, File!CompactsPages,
           File!ClosesPages, File!SecondPasses
  <1>12. File!Quarantines => file.state = "corrupt"
    BY <1>0 DEF File!Quarantines
  <1>. QED BY <1>1, <1>2, <1>3, <1>4, <1>5, <1>6, <1>7, <1>8, <1>9, <1>10, <1>11, <1>12
           DEF File!StoreNext

LEMMA FilePart == PartsSpec => [](part = "file" => FileInv)
  <1>1. PartsInit => FileInv
    BY FileInvInit DEF PartsInit
  <1>2. (part = "file" => FileInv) /\ [PartsNext]_partsVars => (part = "file" => FileInv)'
    <2> SUFFICES ASSUME part = "file" => FileInv, [PartsNext]_partsVars, part' = "file"
                 PROVE  FileInv'
      OBVIOUS
    <2>1. CASE PartsNext
      BY <2>1, FileStep DEF PartsNext
    <2>2. CASE UNCHANGED partsVars
      <3>1. FileInv /\ UNCHANGED fileVars
        BY <2>2 DEF partsVars, measureVars
      <3>. QED BY <3>1 DEF FileInv, FileTypes, NamesFree, Found, fileVars
    <2>. QED BY <2>1, <2>2
  <1>. QED BY <1>1, <1>2, PTL DEF PartsSpec

LEMMA FileInvTypes == FileInv => File!StoreTypesOK
  BY DEF FileInv, FileTypes, File!StoreTypesOK

\* What was committed is in the file or in a quarantine, and only a corrupt file
\* is put into one.
THEOREM HistoryAlwaysKept == PartsSpec => HistoryKept
  <1>1. (part = "file" => FileInv) /\ [PartsNext]_partsVars
           => [ /\ committed' \subseteq file'.batches \cup UNION {quarantines'[s] : s \in DOMAIN quarantines'}
                /\ quarantines' # quarantines => file.state = "corrupt" ]_(File!storeVars)
    <2> SUFFICES ASSUME part = "file" => FileInv, [PartsNext]_partsVars, ~UNCHANGED fileVars
                 PROVE  /\ committed' \subseteq file'.batches \cup UNION {quarantines'[s] : s \in DOMAIN quarantines'}
                        /\ quarantines' # quarantines => file.state = "corrupt"
      BY DEF File!storeVars, fileVars
    <2>1. FileInv /\ File!StoreNext
      BY DEF PartsNext, partsVars, measureVars
    <2>2. FileInv' /\ (quarantines' # quarantines => file.state = "corrupt")
      BY <2>1, FileStep
    <2>. QED BY <2>2 DEF FileInv, Found
  <1>. QED BY <1>1, FilePart, PTL DEF PartsSpec, HistoryKept, File!HistoryKept, File!storeVars

-----------------------------------------------------------------------------
(* A reading on its way to state and store.                                *)

Stages == {"new", "half"}
PendingReadings == [n : Nat, stage : Stages]

StateTypes ==
    /\ source \in Sources /\ now \in Nat /\ readings \in Nat
    /\ pending \in Seq(PendingReadings)
    /\ source = "bms" => Len(pending) <= ChanCap
    /\ ring \in Seq(Nat) /\ Len(ring) <= RingCap /\ touched \in -1..now
    /\ store \in {"opening", "open", "failed", "stopped"}
    /\ transient \in 0..MaxKeys + 1 /\ epoch \in Nat

\* The series are marked when a sample was last built, unless they were purged
\* since; a sample of the present epoch is no later than the mark of its series.
MarkInv ==
    /\ DOMAIN marks \subseteq DOMAIN tried /\ DOMAIN offered = DOMAIN tried
    /\ DOMAIN tried \subseteq State!Tiers /\ DOMAIN samples \subseteq State!Tiers
    /\ \A t \in DOMAIN marks : marks[t] = tried[t]
    /\ \A t \in DOMAIN tried :
          /\ tried[t] \in Nat /\ offered[t] \in Nat
          /\ tried[t] <= now /\ offered[t] <= now /\ offered[t] - tried[t] < State!Gap(t)
    /\ \A t \in DOMAIN samples :
          /\ samples[t].at \in Nat /\ samples[t].n \in Nat /\ samples[t].epoch \in 0..epoch
          /\ samples[t].epoch = epoch => t \in DOMAIN marks /\ samples[t].at <= marks[t]

\* Reading n is no older than entry i, which it equals only once it was handed on.
NotBeyond(n, i, handed) ==
    n <= pending[i].n /\ (n = pending[i].n => handed /\ pending[i].stage = "half")

OrderInv ==
    /\ \A i \in DOMAIN pending :
          /\ pending[i].n <= readings
          /\ i # 1 => pending[i].stage = "new"
          /\ \A j \in DOMAIN pending : i < j => pending[i].n < pending[j].n
    /\ \A i \in DOMAIN ring :
          /\ ring[i] <= readings
          /\ \A j \in DOMAIN ring : i < j => ring[i] < ring[j]
          /\ \A j \in DOMAIN pending : NotBeyond(ring[i], j, source \in State!ShownFirst)
    /\ \A t \in DOMAIN samples :
          /\ samples[t].n <= readings
          /\ \A j \in DOMAIN pending : NotBeyond(samples[t].n, j, source \notin State!ShownFirst)

StateInv == StateTypes /\ MarkInv /\ (source \notin State!Spawned => OrderInv)

\* What a step does to the samples of a series.
PacedStep ==
    \A t \in State!Tiers : State!Resampled(t) /\ samples'[t].epoch = samples[t].epoch =>
        samples'[t].at - samples[t].at >= State!Gap(t)
OrderedStep == \A t \in State!Tiers : State!Resampled(t) => samples'[t].n > samples[t].n

LEMMA StateConstants ==
    /\ MaxKeys \in Nat /\ ChanCap \in Nat \ {0} /\ RingCap \in Nat \ {0}
    /\ \A t \in State!Tiers : State!Gap(t) \in Nat \ {0}
  BY ReadSideBounds DEF State!ServerAssumption, State!Gap

\* What a function writes are tiers.
LEMMA WritesTiers ==
    ASSUME NEW some \in SUBSET State!WritesOf(source).optional
    PROVE  State!WritesOf(source).always \cup some \subseteq State!Tiers
  <1>1. \A a, o : State!Writes(a, o).always = a /\ State!Writes(a, o).optional = o
    BY DEF State!Writes
  <1>2. PICK a \in SUBSET State!Tiers, o \in SUBSET State!Tiers :
            State!WritesOf(source) = State!Writes(a, o)
    BY DEF State!WritesOf, State!Tiers, State!write_bms, State!write_et112,
           State!write_toshiba_ac, State!write_irradiance, State!write_venus_mppt,
           State!write_venus_smartshunt, State!write_venus_inverter,
           State!write_venus_temperature, State!write_venus_heatpump, State!write_ats,
           State!write_tasmota, State!write_shelly, State!write_solar_total,
           State!write_solar_components, State!write_solar_yield, State!write_monitor,
           State!write_em_metrics, State!write_wh_metrics, State!write_process_memory
  <1>. QED BY <1>1, <1>2

LEMMA StateInvInit == State!ServerInit => StateInv
  <1> SUFFICES ASSUME State!ServerInit PROVE StateInv
    OBVIOUS
  <1>1. pending = <<>> /\ ring = <<>> /\ marks = <<>> /\ tried = <<>> /\ offered = <<>>
        /\ samples = <<>> /\ now = 0 /\ readings = 0 /\ touched = -1 /\ store = "opening"
        /\ transient = 0 /\ epoch = 0 /\ source \in Sources
    BY DEF State!ServerInit
  <1>2. <<>> \in Seq(PendingReadings) /\ <<>> \in Seq(Nat) /\ Len(<<>>) = 0 /\ DOMAIN <<>> = {}
    OBVIOUS
  <1>3. StateTypes
    BY <1>1, <1>2, StateConstants DEF StateTypes
  <1>4. MarkInv
    BY <1>1, <1>2 DEF MarkInv
  <1>5. OrderInv
    BY <1>1, <1>2 DEF OrderInv
  <1>. QED BY <1>3, <1>4, <1>5 DEF StateInv

\* The marks and samples when a reading has been pushed: of the series in allowed
\* a sample was built, for those in before ahead of a purge; held are the marks
\* that the others find.
PushedAs(n, tiers, before, allowed, held) ==
    /\ offered' = State!With(offered, tiers, now)
    /\ tried' = State!With(tried, allowed, now)
    /\ marks' = State!With(held, {t \in tiers \ before : State!Marked(t, t \in allowed)}, now)
    /\ \/ samples' = [t \in DOMAIN samples \cup allowed |->
             IF t \notin allowed THEN samples[t]
             ELSE [at |-> now, n |-> n, epoch |-> IF t \in before THEN epoch ELSE epoch']]
       \/ UNCHANGED samples
Passes(t) == t \notin DOMAIN marks \/ now - marks[t] >= State!Gap(t)

LEMMA PushCases ==
    ASSUME NEW n, NEW tiers, State!Push(n, tiers)
    PROVE  \/ /\ UNCHANGED <<transient, epoch>>
              /\ PushedAs(n, tiers, {}, {t \in tiers : Passes(t)}, marks)
           \/ /\ transient' = 0 /\ epoch' = epoch + 1
              /\ \E before \in SUBSET tiers :
                    PushedAs(n, tiers, before, {t \in tiers : t \notin before \/ Passes(t)}, <<>>)
  BY DEF State!Push, PushedAs, Passes

\* A reading is pushed series by series, with or without a purge on the way.
LEMMA PushKeeps ==
    ASSUME StateTypes, MarkInv, NEW n \in Nat, NEW tiers \in SUBSET State!Tiers,
           State!Push(n, tiers), now' = now
    PROVE  /\ MarkInv' /\ PacedStep /\ transient' \in 0..MaxKeys + 1 /\ epoch' \in Nat
           /\ DOMAIN samples \subseteq DOMAIN samples'
           /\ \A t \in DOMAIN samples' :
                 samples'[t].n = n \/ (t \in DOMAIN samples /\ samples'[t] = samples[t])
  <1>0. PICK before, allowed, held :
            /\ before \in SUBSET tiers /\ allowed \in SUBSET tiers
            /\ \/ /\ before = {} /\ allowed = {t \in tiers : Passes(t)} /\ held = marks
                  /\ UNCHANGED <<transient, epoch>>
               \/ /\ allowed = {t \in tiers : t \notin before \/ Passes(t)} /\ held = <<>>
                  /\ transient' = 0 /\ epoch' = epoch + 1
            /\ PushedAs(n, tiers, before, allowed, held)
    <2>1. {t \in tiers : Passes(t)} \in SUBSET tiers /\ {} \in SUBSET tiers
          /\ \A before : {t \in tiers : t \notin before \/ Passes(t)} \in SUBSET tiers
      OBVIOUS
    <2>. QED BY <2>1, PushCases
  <1>1. /\ now \in Nat /\ epoch \in Nat /\ transient \in 0..MaxKeys + 1 /\ MaxKeys \in Nat
        /\ \A t \in State!Tiers : State!Gap(t) \in Nat \ {0}
        /\ before \in SUBSET tiers /\ allowed \in SUBSET tiers
    BY <1>0, StateConstants DEF StateTypes
  <1>2. /\ epoch' \in {epoch, epoch + 1} /\ transient' \in 0..MaxKeys + 1
        /\ DOMAIN held \subseteq DOMAIN marks /\ \A t \in DOMAIN held : held[t] = marks[t]
        /\ epoch' = epoch => before = {} /\ held = marks
        /\ DOMAIN held = {} \/ epoch' = epoch
    BY <1>0, <1>1
  <1>3. /\ DOMAIN offered' = DOMAIN offered \cup tiers
        /\ \A t \in DOMAIN offered' : offered'[t] = IF t \in tiers THEN now ELSE offered[t]
        /\ DOMAIN tried' = DOMAIN tried \cup allowed
        /\ \A t \in DOMAIN tried' : tried'[t] = IF t \in allowed THEN now ELSE tried[t]
        /\ DOMAIN marks' = DOMAIN held \cup (allowed \ before)
        /\ \A t \in DOMAIN marks' : marks'[t] = IF t \in allowed \ before THEN now ELSE marks[t]
    <2>1. {t \in tiers \ before : State!Marked(t, t \in allowed)} = allowed \ before
      BY <1>1 DEF State!Marked
    <2>2. marks' = State!With(held, allowed \ before, now)
          /\ offered' = State!With(offered, tiers, now) /\ tried' = State!With(tried, allowed, now)
      BY <1>0, <2>1 DEF PushedAs
    <2>3. DOMAIN marks' = DOMAIN held \cup (allowed \ before)
          /\ \A t \in DOMAIN held \cup (allowed \ before) :
                marks'[t] = IF t \in allowed \ before THEN now ELSE held[t]
      BY <2>2 DEF State!With
    <2>4. /\ DOMAIN offered' = DOMAIN offered \cup tiers
          /\ \A t \in DOMAIN offered' : offered'[t] = IF t \in tiers THEN now ELSE offered[t]
      BY <2>2 DEF State!With
    <2>5. /\ DOMAIN tried' = DOMAIN tried \cup allowed
          /\ \A t \in DOMAIN tried' : tried'[t] = IF t \in allowed THEN now ELSE tried[t]
      BY <2>2 DEF State!With
    <2>6. \A t \in DOMAIN marks' : marks'[t] = IF t \in allowed \ before THEN now ELSE marks[t]
      BY <1>2, <2>3
    <2>. QED BY <2>3, <2>4, <2>5, <2>6
  <1>4. /\ \A t \in DOMAIN marks : t \in DOMAIN tried /\ t \in State!Tiers /\ marks[t] = tried[t]
                                  /\ marks[t] \in Nat /\ State!Gap(t) \in Nat \ {0}
        /\ \A t \in tiers \ allowed : t \in DOMAIN marks /\ now - marks[t] < State!Gap(t)
    <2>1. \A t \in DOMAIN marks : t \in DOMAIN tried /\ t \in State!Tiers /\ marks[t] = tried[t]
                                  /\ marks[t] \in Nat /\ State!Gap(t) \in Nat \ {0}
      BY <1>1 DEF MarkInv
    <2>2. \A t \in tiers \ allowed : ~Passes(t)
      BY <1>0
    <2>. QED BY <1>1, <2>1, <2>2 DEF Passes
  <1>5. \A t \in allowed : t \in before \/ epoch' = epoch => Passes(t)
    BY <1>0, <1>1
  <1>6. /\ DOMAIN marks' \subseteq DOMAIN tried' /\ DOMAIN offered' = DOMAIN tried'
        /\ DOMAIN tried' \subseteq State!Tiers
    BY <1>1, <1>2, <1>3, <1>4 DEF MarkInv
  <1>7. \A t \in DOMAIN marks' : marks'[t] = tried'[t]
    BY <1>1, <1>2, <1>3, <1>4
  <1>8. \A t \in DOMAIN tried' :
            /\ tried'[t] \in Nat /\ offered'[t] \in Nat
            /\ tried'[t] <= now /\ offered'[t] <= now /\ offered'[t] - tried'[t] < State!Gap(t)
    <2> SUFFICES ASSUME NEW t \in DOMAIN tried'
                 PROVE  /\ tried'[t] \in Nat /\ offered'[t] \in Nat
                        /\ tried'[t] <= now /\ offered'[t] <= now
                        /\ offered'[t] - tried'[t] < State!Gap(t)
      OBVIOUS
    <2>1. t \in DOMAIN offered' /\ t \in State!Tiers /\ State!Gap(t) \in Nat \ {0}
      BY <1>1, <1>6
    <2>2. CASE t \in allowed
      BY <1>1, <1>3, <2>1, <2>2
    <2>3. CASE t \in tiers \ allowed
      BY <1>1, <1>3, <1>4, <2>1, <2>3 DEF MarkInv
    <2>4. CASE t \notin tiers
      BY <1>1, <1>3, <2>1, <2>4 DEF MarkInv
    <2>. QED BY <2>2, <2>3, <2>4
  <1>9. \A t \in DOMAIN samples' :
            \/ /\ t \in DOMAIN samples /\ samples'[t] = samples[t]
            \/ /\ t \in allowed
               /\ samples'[t].at = now /\ samples'[t].n = n
               /\ samples'[t].epoch = IF t \in before THEN epoch ELSE epoch'
    BY <1>0 DEF PushedAs
  <1>10. DOMAIN samples \subseteq DOMAIN samples' /\ DOMAIN samples' \subseteq DOMAIN samples \cup allowed
    BY <1>0 DEF PushedAs
  <1>11. \A t \in DOMAIN samples' :
            /\ samples'[t].at \in Nat /\ samples'[t].n \in Nat /\ samples'[t].epoch \in 0..epoch'
            /\ samples'[t].epoch = epoch' => t \in DOMAIN marks' /\ samples'[t].at <= marks'[t]
    <2> SUFFICES ASSUME NEW t \in DOMAIN samples'
                 PROVE  /\ samples'[t].at \in Nat /\ samples'[t].n \in Nat /\ samples'[t].epoch \in 0..epoch'
                        /\ samples'[t].epoch = epoch' => t \in DOMAIN marks' /\ samples'[t].at <= marks'[t]
      OBVIOUS
    <2>1. CASE t \in DOMAIN samples /\ samples'[t] = samples[t]
      <3>1. /\ samples[t].at \in Nat /\ samples[t].n \in Nat /\ samples[t].epoch \in 0..epoch
            /\ samples[t].epoch = epoch => t \in DOMAIN marks /\ samples[t].at <= marks[t]
        BY <2>1 DEF MarkInv
      <3>2. CASE epoch' = epoch
        <4>1. t \in DOMAIN marks => t \in DOMAIN marks' /\ marks[t] <= marks'[t]
          BY <1>1, <1>2, <1>3, <1>4, <3>2, <1>8, <1>7 DEF MarkInv
        <4>2. t \in DOMAIN marks' => marks'[t] \in Nat
          BY <1>6, <1>7, <1>8
        <4>. QED BY <1>1, <1>4, <2>1, <3>1, <3>2, <4>1, <4>2
      <3>3. CASE epoch' = epoch + 1
        BY <1>1, <2>1, <3>1, <3>3
      <3>. QED BY <1>2, <3>2, <3>3
    <2>2. CASE /\ t \in allowed
               /\ samples'[t].at = now /\ samples'[t].n = n
               /\ samples'[t].epoch = IF t \in before THEN epoch ELSE epoch'
      BY <1>1, <1>2, <1>3, <2>2
    <2>. QED BY <1>9, <2>1, <2>2
  <1>12. MarkInv'
    <2>1. DOMAIN samples' \subseteq State!Tiers
      BY <1>1, <1>10 DEF MarkInv
    <2>2. now' = now /\ \A t : State!Gap(t)' = State!Gap(t)
      BY DEF State!Gap
    <2>. QED BY <1>6, <1>7, <1>8, <1>11, <2>1, <2>2 DEF MarkInv
  <1>13. PacedStep
    <2> SUFFICES ASSUME NEW t \in State!Tiers, State!Resampled(t), samples'[t].epoch = samples[t].epoch
                 PROVE  samples'[t].at - samples[t].at >= State!Gap(t)
      BY DEF PacedStep
    <2>1. /\ t \in DOMAIN samples /\ t \in allowed /\ samples'[t].at = now
          /\ samples'[t].epoch = IF t \in before THEN epoch ELSE epoch'
      BY <1>9, <1>10 DEF State!Resampled
    <2>2. /\ samples[t].at \in Nat /\ samples[t].epoch \in 0..epoch
          /\ samples[t].epoch = epoch => t \in DOMAIN marks /\ samples[t].at <= marks[t]
      BY <2>1 DEF MarkInv
    <2>3. samples[t].epoch = epoch /\ (t \in before \/ epoch' = epoch)
      BY <1>1, <1>2, <2>1, <2>2
    <2>4. now - marks[t] >= State!Gap(t)
      BY <1>5, <2>1, <2>2, <2>3 DEF Passes
    <2>. QED BY <1>1, <1>4, <2>1, <2>2, <2>3, <2>4
  <1>. QED BY <1>2, <1>1, <1>9, <1>10, <1>12, <1>13

\* What store and limiter have after a reading was handed to them.
LEMMA StoreKeeps ==
    ASSUME StateTypes, MarkInv, NEW n \in Nat, State!Store(n), now' = now
    PROVE  /\ MarkInv' /\ PacedStep /\ transient' \in 0..MaxKeys + 1 /\ epoch' \in Nat
           /\ DOMAIN samples \subseteq DOMAIN samples'
           /\ \A t \in DOMAIN samples' :
                 samples'[t].n = n \/ (t \in DOMAIN samples /\ samples'[t] = samples[t])
  <1>1. CASE UNCHANGED <<marks, transient, epoch, samples, tried, offered>>
    <2>1. MarkInv'
      BY <1>1 DEF MarkInv, State!Gap
    <2>. QED BY <1>1, <2>1 DEF PacedStep, State!Resampled, StateTypes
  <1>2. ASSUME NEW some \in SUBSET State!WritesOf(source).optional,
               State!Push(n, State!WritesOf(source).always \cup some)
        PROVE  /\ MarkInv' /\ PacedStep /\ transient' \in 0..MaxKeys + 1 /\ epoch' \in Nat
               /\ DOMAIN samples \subseteq DOMAIN samples'
               /\ \A t \in DOMAIN samples' :
                     samples'[t].n = n \/ (t \in DOMAIN samples /\ samples'[t] = samples[t])
    BY <1>2, WritesTiers, PushKeeps
  <1>. QED BY <1>1, <1>2 DEF State!Store

\* The entry of a reading that has been half handled.
LEMMA EntryAdvanced ==
    ASSUME StateTypes, NEW i \in DOMAIN pending,
           pending' = [pending EXCEPT ![i].stage = "half"]
    PROVE  /\ pending' \in Seq(PendingReadings) /\ Len(pending') = Len(pending)
           /\ \A j \in DOMAIN pending : /\ pending'[j].n = pending[j].n
                                        /\ pending'[j].stage = IF j = i THEN "half" ELSE pending[j].stage
  <1>1. pending \in Seq(PendingReadings)
    BY DEF StateTypes
  <1>2. \A j \in DOMAIN pending : pending[j] \in PendingReadings
    BY <1>1
  <1>3. pending' = [j \in DOMAIN pending |->
                       IF j = i THEN [pending[j] EXCEPT !.stage = "half"] ELSE pending[j]]
    OBVIOUS
  <1>4. \A j \in DOMAIN pending : pending'[j] \in PendingReadings
    BY <1>2, <1>3 DEF PendingReadings, Stages
  <1>5. \A j \in DOMAIN pending : /\ pending'[j].n = pending[j].n
                                  /\ pending'[j].stage = IF j = i THEN "half" ELSE pending[j].stage
    BY <1>2, <1>3 DEF PendingReadings
  <1>6. Len(pending) \in Nat /\ DOMAIN pending = 1..Len(pending)
    BY <1>1
  <1>7. pending' \in [1..Len(pending) -> PendingReadings]
    BY <1>3, <1>4, <1>6
  <1>8. pending' \in Seq(PendingReadings) /\ Len(pending') = Len(pending)
    <2>1. PICK n : n = Len(pending)
      OBVIOUS
    <2>2. PICK q : q = pending'
      OBVIOUS
    <2>3. n \in Nat /\ q \in [1..n -> PendingReadings]
      BY <1>6, <1>7, <2>1, <2>2, Zenon
    <2>4. q \in Seq(PendingReadings) /\ Len(q) = n
      BY <2>3
    <2>. QED BY <2>1, <2>2, <2>4, Zenon
  <1>. QED BY <1>5, <1>8

LEMMA EntryRemoved ==
    ASSUME StateTypes, NEW i \in DOMAIN pending,
           pending' = [j \in 1..Len(pending) - 1 |-> pending[IF j < i THEN j ELSE j + 1]]
    PROVE  /\ pending' \in Seq(PendingReadings) /\ Len(pending') = Len(pending) - 1
           /\ i = 1 => \A j \in DOMAIN pending' : j + 1 \in DOMAIN pending /\ pending'[j] = pending[j + 1]
  <1>1. pending \in Seq(PendingReadings) /\ Len(pending) \in Nat /\ DOMAIN pending = 1..Len(pending)
        /\ Len(pending) - 1 \in Nat /\ DOMAIN pending' = 1..Len(pending) - 1
    BY DEF StateTypes
  <1>2. \A j \in 1..Len(pending) - 1 : pending'[j] \in PendingReadings
    BY <1>1
  <1>. QED BY <1>1, <1>2

\* The ring has reading n behind what it had, but for the d oldest.
Shifted(n, d) ==
    /\ Len(ring') = Len(ring) + 1 - d /\ ring'[Len(ring')] = n
    /\ \A r \in 1..Len(ring') - 1 : r + d \in DOMAIN ring /\ ring'[r] = ring[r + d]

LEMMA ShowSays ==
    ASSUME StateTypes, NEW n \in Nat, State!Show(n)
    PROVE  /\ ring' \in Seq(Nat) /\ Len(ring') <= RingCap
           /\ ring' = ring \/ Shifted(n, 0) \/ Shifted(n, 1)
  <1>1. ring \in Seq(Nat) /\ Len(ring) <= RingCap /\ RingCap \in Nat \ {0} /\ Len(ring) \in Nat
        /\ DOMAIN ring = 1..Len(ring)
    BY StateConstants DEF StateTypes
  <1>2. CASE ring' = Append(ring, n) /\ Len(ring) < RingCap
    <2>1. /\ ring' \in Seq(Nat) /\ Len(ring') = Len(ring) + 1 /\ ring'[Len(ring) + 1] = n
          /\ \A r \in 1..Len(ring) : ring'[r] = ring[r]
      BY <1>1, <1>2, QueueAppend
    <2>2. Shifted(n, 0)
      BY <1>1, <2>1 DEF Shifted
    <2>3. Len(ring') <= RingCap
      BY <1>1, <1>2, <2>1
    <2>. QED BY <2>1, <2>2, <2>3
  <1>3. CASE ring' = Append(Tail(ring), n) /\ Len(ring) = RingCap
    <2>1. Tail(ring) \in Seq(Nat) /\ Len(Tail(ring)) = Len(ring) - 1
          /\ \A r \in 1..Len(ring) - 1 : Tail(ring)[r] = ring[r + 1]
      BY <1>1, <1>3
    <2>2. Len(ring') = Len(ring) /\ ring'[Len(ring)] = n /\ ring' \in Seq(Nat)
          /\ \A r \in 1..Len(ring) - 1 : ring'[r] = Tail(ring)[r]
      BY <1>1, <1>3, <2>1
    <2>3. Shifted(n, 1)
      BY <1>1, <2>1, <2>2 DEF Shifted
    <2>4. Len(ring') <= RingCap
      BY <1>1, <1>3, <2>2
    <2>. QED BY <2>2, <2>3, <2>4
  <1>4. CASE ring' = ring
    BY <1>1, <1>4
  <1>5. \/ ring' = ring
        \/ ring' = Append(ring, n) /\ Len(ring) < RingCap
        \/ ring' = Append(Tail(ring), n) /\ Len(ring) = RingCap
    <2>1. \/ ring' = ring
          \/ ring' = Append(IF Len(ring) < RingCap THEN ring ELSE Tail(ring), n)
      BY DEF State!Show
    <2>2. CASE Len(ring) < RingCap
      BY <2>1, <2>2
    <2>3. CASE ~(Len(ring) < RingCap)
      <3>1. Len(ring) \in Nat /\ RingCap \in Nat /\ Len(ring) <= RingCap
        BY <1>1
      <3>2. Len(ring) = RingCap
        BY <2>3, <3>1
      <3>. QED BY <2>1, <2>3, <3>2
    <2>. QED BY <2>2, <2>3
  <1>. QED BY <1>2, <1>3, <1>4, <1>5

\* A reading that is shown or stored behind older ones leaves them in order, if
\* none of those that wait is older than it, and none is as old but itself.
LEMMA RingInOrder ==
    ASSUME StateTypes, OrderInv, NEW n \in Nat, n <= readings, readings' = readings,
           State!Show(n), \A r \in DOMAIN ring : ring[r] < n
    PROVE  /\ \A i \in DOMAIN ring' :
                 /\ ring'[i] \in Nat /\ ring'[i] <= readings'
                 /\ \A j \in DOMAIN ring' : i < j => ring'[i] < ring'[j]
                 /\ ring'[i] = n \/ \E r \in DOMAIN ring : ring'[i] = ring[r]
  <1>1. /\ ring \in Seq(Nat) /\ Len(ring) \in Nat /\ DOMAIN ring = 1..Len(ring) /\ readings \in Nat
        /\ ring' \in Seq(Nat) /\ Len(ring') \in Nat /\ DOMAIN ring' = 1..Len(ring')
        /\ ring' = ring \/ Shifted(n, 0) \/ Shifted(n, 1)
        /\ \A i \in DOMAIN ring : ring[i] \in Nat /\ ring[i] <= readings
              /\ \A j \in DOMAIN ring : i < j => ring[i] < ring[j]
    BY ShowSays DEF StateTypes, OrderInv
  <1>2. CASE ring' = ring
    BY <1>1, <1>2
  <1>3. ASSUME NEW d \in {0, 1}, Shifted(n, d)
        PROVE  \A i \in DOMAIN ring' :
                 /\ ring'[i] \in Nat /\ ring'[i] <= readings'
                 /\ \A j \in DOMAIN ring' : i < j => ring'[i] < ring'[j]
                 /\ ring'[i] = n \/ \E r \in DOMAIN ring : ring'[i] = ring[r]
    <2>1. \A i \in DOMAIN ring' : i = Len(ring') \/ i \in 1..Len(ring') - 1
      BY <1>1
    <2>2. /\ ring'[Len(ring')] = n /\ Len(ring') = Len(ring) + 1 - d
          /\ \A i \in 1..Len(ring') - 1 : i + d \in DOMAIN ring /\ ring'[i] = ring[i + d]
      BY <1>3 DEF Shifted
    <2>3. \A i \in DOMAIN ring' : ring'[i] = n \/ \E r \in DOMAIN ring : ring'[i] = ring[r]
      BY <2>1, <2>2
    <2>4. \A i \in DOMAIN ring' : ring'[i] \in Nat /\ ring'[i] <= readings'
      BY <1>1, <2>3
    <2>5. \A i, j \in DOMAIN ring' : i < j => ring'[i] < ring'[j]
      <3> SUFFICES ASSUME NEW i \in DOMAIN ring', NEW j \in DOMAIN ring', i < j
                   PROVE  ring'[i] < ring'[j]
        OBVIOUS
      <3>1. i \in 1..Len(ring') - 1 /\ i \in Int /\ j \in Int
        BY <1>1
      <3>2. i + d \in DOMAIN ring /\ ring'[i] = ring[i + d]
        BY <2>2, <3>1
      <3>3. CASE j = Len(ring')
        BY <2>2, <3>2, <3>3
      <3>4. CASE j \in 1..Len(ring') - 1
        <4>1. j + d \in DOMAIN ring /\ ring'[j] = ring[j + d]
          BY <2>2, <3>4
        <4>2. i + d < j + d
          BY <3>1
        <4>. QED BY <1>1, <3>2, <4>1, <4>2
      <3>. QED BY <2>1, <3>3, <3>4
    <2>. QED BY <2>3, <2>4, <2>5
  <1>. QED BY <1>1, <1>2, <1>3

LEMMA BeginKeeps ==
    ASSUME StateInv, NEW i \in DOMAIN pending, State!Begins(i)
    PROVE  StateInv' /\ PacedStep /\ (source \notin State!Spawned => OrderedStep)
  <1>0. StateTypes /\ MarkInv
    BY DEF StateInv
  <1>1. PICK n : n = pending[i].n
    OBVIOUS
  <1>2. /\ n \in Nat /\ pending[i].stage = "new" /\ i \in State!Turns
        /\ touched' = IF source \in State!NotTouched THEN touched ELSE now
        /\ pending' = [pending EXCEPT ![i].stage = "half"]
        /\ UNCHANGED <<source, now, readings, store>>
        /\ \/ /\ source \in State!ShownFirst /\ State!Show(n)
              /\ UNCHANGED <<marks, transient, epoch, samples, tried, offered>>
           \/ source \notin State!ShownFirst /\ State!Store(n) /\ UNCHANGED ring
    <2>1. pending[i] \in PendingReadings
      BY <1>0 DEF StateTypes
    <2>. QED BY <1>1, <2>1 DEF State!Begins, PendingReadings
  <1>3. /\ pending' \in Seq(PendingReadings) /\ Len(pending') = Len(pending)
        /\ DOMAIN pending' = DOMAIN pending
        /\ \A j \in DOMAIN pending : /\ pending'[j].n = pending[j].n
                                     /\ pending'[j].stage = IF j = i THEN "half" ELSE pending[j].stage
    BY <1>0, <1>2, EntryAdvanced DEF StateTypes
  <1>4. /\ MarkInv' /\ PacedStep /\ transient' \in 0..MaxKeys + 1 /\ epoch' \in Nat
        /\ DOMAIN samples \subseteq DOMAIN samples'
        /\ \A t \in DOMAIN samples' :
              samples'[t].n = n \/ (t \in DOMAIN samples /\ samples'[t] = samples[t])
        /\ ring' \in Seq(Nat) /\ Len(ring') <= RingCap
    <2>1. CASE State!Show(n) /\ UNCHANGED <<marks, transient, epoch, samples, tried, offered>>
      <3>1. MarkInv' /\ PacedStep
        BY <1>0, <1>2, <2>1 DEF MarkInv, PacedStep, State!Resampled, State!Gap
      <3>2. ring' \in Seq(Nat) /\ Len(ring') <= RingCap
        BY <1>0, <1>2, <2>1, ShowSays
      <3>. QED BY <1>0, <2>1, <3>1, <3>2 DEF StateTypes
    <2>2. CASE State!Store(n) /\ UNCHANGED ring
      BY <1>0, <1>2, <2>2, StoreKeeps DEF StateTypes
    <2>. QED BY <1>2, <2>1, <2>2
  <1>5. StateTypes'
    BY <1>0, <1>2, <1>3, <1>4 DEF StateTypes
  <1>6. ASSUME source \notin State!Spawned
        PROVE  OrderInv' /\ OrderedStep
    <2>1. i = 1 /\ OrderInv
      BY <1>2, <1>6 DEF StateInv, State!Turns
    <2>2. /\ n <= readings /\ readings' = readings /\ readings \in Nat
          /\ \A j \in DOMAIN pending : pending[j].n \in Nat /\ n <= pending[j].n
                                       /\ (n = pending[j].n => j = 1)
          /\ \A r \in DOMAIN ring : ring[r] < n /\ ring[r] \in Nat
          /\ \A t \in DOMAIN samples : samples[t].n < n /\ samples[t].n \in Nat
      <3>1. /\ readings' = readings /\ readings \in Nat /\ n <= readings
            /\ \A j \in DOMAIN pending : pending[j].n \in Nat /\ j \in Nat \ {0}
            /\ 1 \in DOMAIN pending /\ n = pending[1].n /\ pending[1].stage = "new"
        <4>1. \A j \in DOMAIN pending : pending[j] \in PendingReadings /\ j \in Nat \ {0}
          BY <1>0 DEF StateTypes
        <4>2. \A j \in DOMAIN pending : pending[j].n \in Nat
          BY <4>1 DEF PendingReadings
        <4>. QED BY <1>0, <1>1, <1>2, <2>1, <4>1, <4>2 DEF StateTypes, OrderInv
      <3>2. \A j \in DOMAIN pending : j = 1 \/ n < pending[j].n
        BY <2>1, <3>1 DEF OrderInv
      <3>3. \A r \in DOMAIN ring : ring[r] < n /\ ring[r] \in Nat
        <4>1. \A r \in DOMAIN ring : ring[r] \in Nat
          BY <1>0 DEF StateTypes
        <4>. QED BY <2>1, <3>1, <4>1 DEF OrderInv, NotBeyond
      <3>4. \A t \in DOMAIN samples : samples[t].n < n /\ samples[t].n \in Nat
        <4>1. \A t \in DOMAIN samples : samples[t].n \in Nat
          BY <1>0 DEF MarkInv
        <4>. QED BY <2>1, <3>1, <4>1 DEF OrderInv, NotBeyond
      <3>. QED BY <1>2, <3>1, <3>2, <3>3, <3>4
    <2>3. \A j \in DOMAIN pending' :
             /\ pending'[j].n <= readings'
             /\ j # 1 => pending'[j].stage = "new"
             /\ \A k \in DOMAIN pending' : j < k => pending'[j].n < pending'[k].n
      BY <1>2, <1>3, <2>1, <2>2 DEF OrderInv
    <2>4. \A j \in DOMAIN pending' : n <= pending'[j].n /\ (n = pending'[j].n => pending'[j].stage = "half")
      BY <1>3, <2>1, <2>2
    <2>5. \A j \in DOMAIN pending' :
             /\ \A r \in DOMAIN ring : ring[r] < pending'[j].n
             /\ \A t \in DOMAIN samples : samples[t].n < pending'[j].n
      BY <1>2, <1>3, <2>2
    <2>6. CASE source \in State!ShownFirst /\ State!Show(n) /\ UNCHANGED samples
      <3>1. \A k \in DOMAIN ring' :
                 /\ ring'[k] \in Nat /\ ring'[k] <= readings'
                 /\ \A j \in DOMAIN ring' : k < j => ring'[k] < ring'[j]
                 /\ ring'[k] = n \/ \E r \in DOMAIN ring : ring'[k] = ring[r]
        BY <1>0, <1>2, <2>1, <2>2, <2>6, RingInOrder
      <3>2. \A k \in DOMAIN ring' : \A j \in DOMAIN pending' :
                NotBeyond(ring[k], j, source \in State!ShownFirst)'
        <4> SUFFICES ASSUME NEW k \in DOMAIN ring', NEW j \in DOMAIN pending'
                     PROVE  /\ ring'[k] <= pending'[j].n
                            /\ ring'[k] = pending'[j].n => pending'[j].stage = "half"
          BY <1>2, <2>6 DEF NotBeyond
        <4>. QED BY <1>2, <1>3, <2>2, <2>4, <2>5, <3>1
      <3>3. \A t \in DOMAIN samples' : \A j \in DOMAIN pending' :
                NotBeyond(samples[t].n, j, source \notin State!ShownFirst)'
        BY <1>3, <2>2, <2>5, <2>6 DEF NotBeyond
      <3>4. OrderInv'
        BY <1>2, <2>1, <2>3, <2>6, <3>1, <3>2, <3>3 DEF OrderInv
      <3>. QED BY <2>6, <3>4 DEF OrderedStep, State!Resampled
    <2>7. CASE source \notin State!ShownFirst /\ UNCHANGED ring
      <3>1. \A t \in DOMAIN samples' : samples'[t].n = n \/ (t \in DOMAIN samples /\ samples'[t] = samples[t])
        BY <1>4
      <3>2. \A k \in DOMAIN ring' : \A j \in DOMAIN pending' :
                NotBeyond(ring[k], j, source \in State!ShownFirst)'
        BY <1>3, <2>2, <2>5, <2>7 DEF NotBeyond
      <3>3. \A t \in DOMAIN samples' : \A j \in DOMAIN pending' :
                NotBeyond(samples[t].n, j, source \notin State!ShownFirst)'
        <4> SUFFICES ASSUME NEW t \in DOMAIN samples', NEW j \in DOMAIN pending'
                     PROVE  /\ samples'[t].n <= pending'[j].n
                            /\ samples'[t].n = pending'[j].n => pending'[j].stage = "half"
          BY <1>2, <2>7 DEF NotBeyond
        <4>. QED BY <1>2, <1>3, <2>2, <2>4, <2>5, <3>1
      <3>4. \A t \in DOMAIN samples' : samples'[t].n <= readings'
        BY <2>1, <2>2, <3>1 DEF OrderInv
      <3>5. OrderInv'
        BY <2>1, <2>2, <2>3, <2>7, <3>2, <3>3, <3>4 DEF OrderInv
      <3>6. OrderedStep
        BY <1>4, <2>2, <3>1 DEF OrderedStep, State!Resampled
      <3>. QED BY <3>5, <3>6
    <2>. QED BY <1>2, <2>6, <2>7
  <1>. QED BY <1>2, <1>4, <1>5, <1>6 DEF StateInv

LEMMA EndKeeps ==
    ASSUME StateInv, NEW i \in DOMAIN pending, State!Ends(i)
    PROVE  StateInv' /\ PacedStep /\ (source \notin State!Spawned => OrderedStep)
  <1>0. StateTypes /\ MarkInv
    BY DEF StateInv
  <1>1. PICK n : n = pending[i].n
    OBVIOUS
  <1>2. /\ n \in Nat /\ pending[i].stage = "half" /\ i \in State!Turns
        /\ pending' = [j \in 1..Len(pending) - 1 |-> pending[IF j < i THEN j ELSE j + 1]]
        /\ UNCHANGED <<source, now, readings, touched, store>>
        /\ \/ /\ source \notin State!ShownFirst /\ State!Show(n)
              /\ UNCHANGED <<marks, transient, epoch, samples, tried, offered>>
           \/ source \in State!ShownFirst /\ State!Store(n) /\ UNCHANGED ring
    <2>1. pending[i] \in PendingReadings
      BY <1>0 DEF StateTypes
    <2>. QED BY <1>1, <2>1 DEF State!Ends, PendingReadings
  <1>3. /\ pending' \in Seq(PendingReadings) /\ Len(pending') = Len(pending) - 1
        /\ i = 1 => \A j \in DOMAIN pending' : j + 1 \in DOMAIN pending /\ pending'[j] = pending[j + 1]
    BY <1>0, <1>2, EntryRemoved
  <1>4. /\ MarkInv' /\ PacedStep /\ transient' \in 0..MaxKeys + 1 /\ epoch' \in Nat
        /\ DOMAIN samples \subseteq DOMAIN samples'
        /\ \A t \in DOMAIN samples' :
              samples'[t].n = n \/ (t \in DOMAIN samples /\ samples'[t] = samples[t])
        /\ ring' \in Seq(Nat) /\ Len(ring') <= RingCap
    <2>1. CASE State!Show(n) /\ UNCHANGED <<marks, transient, epoch, samples, tried, offered>>
      <3>1. MarkInv' /\ PacedStep
        BY <1>0, <1>2, <2>1 DEF MarkInv, PacedStep, State!Resampled, State!Gap
      <3>2. ring' \in Seq(Nat) /\ Len(ring') <= RingCap
        BY <1>0, <1>2, <2>1, ShowSays
      <3>. QED BY <1>0, <2>1, <3>1, <3>2 DEF StateTypes
    <2>2. CASE State!Store(n) /\ UNCHANGED ring
      BY <1>0, <1>2, <2>2, StoreKeeps DEF StateTypes
    <2>. QED BY <1>2, <2>1, <2>2
  <1>5. StateTypes'
    <2>1. Len(pending) \in Nat
      BY <1>0 DEF StateTypes
    <2>. QED BY <1>0, <1>2, <1>3, <1>4, <2>1, StateConstants DEF StateTypes
  <1>6. ASSUME source \notin State!Spawned
        PROVE  OrderInv' /\ OrderedStep
    <2>1. i = 1 /\ OrderInv
      BY <1>2, <1>6 DEF StateInv, State!Turns
    <2>2. /\ n <= readings /\ readings' = readings /\ readings \in Nat
          /\ \A j \in DOMAIN pending : pending[j].n \in Nat /\ j \in Nat \ {0}
                /\ (j = 1 \/ n < pending[j].n) /\ (j # 1 => pending[j].stage = "new")
          /\ \A r \in DOMAIN ring : ring[r] <= n /\ ring[r] \in Nat
                /\ (source \notin State!ShownFirst => ring[r] < n)
          /\ \A t \in DOMAIN samples : samples[t].n <= n /\ samples[t].n \in Nat
                /\ (source \in State!ShownFirst => samples[t].n < n)
      <3>1. /\ readings' = readings /\ readings \in Nat /\ n <= readings
            /\ \A j \in DOMAIN pending : pending[j].n \in Nat /\ j \in Nat \ {0}
            /\ 1 \in DOMAIN pending /\ n = pending[1].n
        <4>1. \A j \in DOMAIN pending : pending[j] \in PendingReadings /\ j \in Nat \ {0}
          BY <1>0 DEF StateTypes
        <4>2. \A j \in DOMAIN pending : pending[j].n \in Nat
          BY <4>1 DEF PendingReadings
        <4>. QED BY <1>0, <1>1, <1>2, <2>1, <4>1, <4>2 DEF StateTypes, OrderInv
      <3>2. \A j \in DOMAIN pending : (j = 1 \/ n < pending[j].n) /\ (j # 1 => pending[j].stage = "new")
        BY <2>1, <3>1 DEF OrderInv
      <3>3. \A r \in DOMAIN ring : ring[r] <= n /\ ring[r] \in Nat
                /\ (source \notin State!ShownFirst => ring[r] < n)
        <4>1. \A r \in DOMAIN ring : ring[r] \in Nat
          BY <1>0 DEF StateTypes
        <4>. QED BY <2>1, <3>1, <4>1 DEF OrderInv, NotBeyond
      <3>4. \A t \in DOMAIN samples : samples[t].n <= n /\ samples[t].n \in Nat
                /\ (source \in State!ShownFirst => samples[t].n < n)
        <4>1. \A t \in DOMAIN samples : samples[t].n \in Nat
          BY <1>0 DEF MarkInv
        <4>. QED BY <2>1, <3>1, <4>1 DEF OrderInv, NotBeyond
      <3>. QED BY <1>2, <3>1, <3>2, <3>3, <3>4
    <2>3. \A j \in DOMAIN pending' :
             /\ j \in Nat \ {0} /\ j + 1 \in DOMAIN pending /\ pending'[j] = pending[j + 1]
             /\ pending'[j].n \in Nat /\ n < pending'[j].n
             /\ pending'[j].n <= readings'
             /\ pending'[j].stage = "new"
      <3>1. \A j \in DOMAIN pending' : j \in Nat \ {0} /\ j + 1 # 1
        BY <1>3
      <3>. QED BY <1>3, <2>1, <2>2, <3>1 DEF OrderInv
    <2>4. \A j, k \in DOMAIN pending' : j < k => pending'[j].n < pending'[k].n
      <3> SUFFICES ASSUME NEW j \in DOMAIN pending', NEW k \in DOMAIN pending', j < k
                   PROVE  pending'[j].n < pending'[k].n
        OBVIOUS
      <3>1. j + 1 \in DOMAIN pending /\ k + 1 \in DOMAIN pending /\ j + 1 < k + 1
        BY <2>3
      <3>. QED BY <2>1, <2>3, <3>1 DEF OrderInv
    <2>5. CASE source \notin State!ShownFirst /\ State!Show(n) /\ UNCHANGED samples
      <3>1. \A k \in DOMAIN ring' :
                 /\ ring'[k] \in Nat /\ ring'[k] <= readings'
                 /\ \A j \in DOMAIN ring' : k < j => ring'[k] < ring'[j]
                 /\ ring'[k] = n \/ \E r \in DOMAIN ring : ring'[k] = ring[r]
        BY <1>0, <1>2, <2>1, <2>2, <2>5, RingInOrder
      <3>2. \A k \in DOMAIN ring' : \A j \in DOMAIN pending' :
                NotBeyond(ring[k], j, source \in State!ShownFirst)'
        <4> SUFFICES ASSUME NEW k \in DOMAIN ring', NEW j \in DOMAIN pending'
                     PROVE  ring'[k] < pending'[j].n
          BY <2>3, <3>1 DEF NotBeyond
        <4>. QED BY <1>2, <2>2, <2>3, <3>1
      <3>3. \A t \in DOMAIN samples' : \A j \in DOMAIN pending' :
                NotBeyond(samples[t].n, j, source \notin State!ShownFirst)'
        BY <1>2, <2>2, <2>3, <2>5 DEF NotBeyond
      <3>4. OrderInv'
        BY <2>1, <2>3, <2>4, <2>5, <2>2, <3>1, <3>2, <3>3 DEF OrderInv
      <3>. QED BY <2>5, <3>4 DEF OrderedStep, State!Resampled
    <2>6. CASE source \in State!ShownFirst /\ UNCHANGED ring
      <3>1. \A t \in DOMAIN samples' : samples'[t].n = n \/ (t \in DOMAIN samples /\ samples'[t] = samples[t])
        BY <1>4
      <3>2. \A k \in DOMAIN ring' : \A j \in DOMAIN pending' :
                NotBeyond(ring[k], j, source \in State!ShownFirst)'
        BY <1>2, <2>2, <2>3, <2>6 DEF NotBeyond
      <3>3. \A t \in DOMAIN samples' : \A j \in DOMAIN pending' :
                NotBeyond(samples[t].n, j, source \notin State!ShownFirst)'
        <4> SUFFICES ASSUME NEW t \in DOMAIN samples', NEW j \in DOMAIN pending'
                     PROVE  samples'[t].n < pending'[j].n /\ samples'[t].n \in Nat
          BY <2>3 DEF NotBeyond
        <4>. QED BY <1>2, <2>2, <2>3, <3>1
      <3>4. \A t \in DOMAIN samples' : samples'[t].n <= readings'
        BY <2>1, <2>2, <3>1 DEF OrderInv
      <3>5. OrderInv'
        BY <2>1, <2>2, <2>3, <2>4, <2>6, <3>2, <3>3, <3>4 DEF OrderInv
      <3>6. OrderedStep
        BY <1>4, <2>2, <2>6, <3>1 DEF OrderedStep, State!Resampled
      <3>. QED BY <3>5, <3>6
    <2>. QED BY <1>2, <2>5, <2>6
  <1>. QED BY <1>2, <1>4, <1>5, <1>6 DEF StateInv

\* A step keeps the invariant, paces the series and keeps the readings in order.
LEMMA StateStep ==
    ASSUME StateInv, State!ServerNext
    PROVE  StateInv' /\ PacedStep /\ (source \notin State!Spawned => OrderedStep)
  <1>0. StateTypes /\ MarkInv /\ (source \notin State!Spawned => OrderInv)
    BY DEF StateInv
  <1>1. CASE State!Reading
    <2>1. /\ readings' = readings + 1
          /\ UNCHANGED <<source, now, ring, touched, store, marks, transient, epoch, samples, tried, offered>>
          /\ \/ source = "bms" /\ Len(pending) = ChanCap /\ pending' = pending
             \/ /\ ~(source = "bms" /\ Len(pending) = ChanCap)
                /\ pending' = Append(pending, [n |-> readings + 1, stage |-> "new"])
      BY <1>1 DEF State!Reading
    <2>2. CASE pending' = pending
      <3>1. ASSUME OrderInv PROVE OrderInv'
        <4>1. /\ readings \in Nat /\ readings <= readings'
              /\ \A j \in DOMAIN pending : pending[j].n \in Nat
              /\ \A r \in DOMAIN ring : ring[r] \in Nat
              /\ \A t \in DOMAIN samples : samples[t].n \in Nat
          <5>1. \A j \in DOMAIN pending : pending[j] \in PendingReadings
            BY <1>0 DEF StateTypes
          <5>2. \A j \in DOMAIN pending : pending[j].n \in Nat
            BY <5>1 DEF PendingReadings
          <5>. QED BY <1>0, <2>1, <5>2 DEF StateTypes, MarkInv
        <4>. QED BY <2>1, <2>2, <3>1, <4>1 DEF OrderInv, NotBeyond
      <3>2. StateTypes'
        BY <1>0, <2>1, <2>2 DEF StateTypes
      <3>3. MarkInv' /\ PacedStep /\ OrderedStep
        BY <1>0, <2>1 DEF MarkInv, State!Gap, PacedStep, OrderedStep, State!Resampled
      <3>. QED BY <1>0, <2>1, <3>1, <3>2, <3>3 DEF StateInv
    <2>3. CASE /\ ~(source = "bms" /\ Len(pending) = ChanCap)
               /\ pending' = Append(pending, [n |-> readings + 1, stage |-> "new"])
      <3>0. readings \in Nat /\ [n |-> readings + 1, stage |-> "new"] \in PendingReadings
            /\ pending \in Seq(PendingReadings) /\ Len(pending) \in Nat /\ DOMAIN pending = 1..Len(pending)
        BY <1>0 DEF StateTypes, PendingReadings, Stages
      <3>1. PICK e : e = [n |-> readings + 1, stage |-> "new"]
        OBVIOUS
      <3>2. /\ pending' \in Seq(PendingReadings) /\ Len(pending') = Len(pending) + 1
            /\ DOMAIN pending' = 1..Len(pending) + 1
            /\ pending'[Len(pending) + 1] = e
            /\ \A j \in 1..Len(pending) : pending'[j] = pending[j]
        BY <2>3, <3>0, <3>1, QueueAppend
      <3>3. StateTypes'
        <4>1. source = "bms" => Len(pending') <= ChanCap
          <5>1. ChanCap \in Nat /\ (source = "bms" => Len(pending) <= ChanCap)
            BY <1>0, StateConstants DEF StateTypes
          <5>2. Len(pending) \in Nat /\ Len(pending') = Len(pending) + 1
            BY <3>0, <3>2
          <5>3. source = "bms" => Len(pending) # ChanCap
            BY <2>3
          <5>. QED BY <5>1, <5>2, <5>3
        <4>. QED BY <1>0, <2>1, <3>0, <3>2, <4>1 DEF StateTypes
      <3>4. MarkInv' /\ PacedStep /\ OrderedStep
        BY <1>0, <2>1 DEF MarkInv, State!Gap, PacedStep, OrderedStep, State!Resampled
      <3>5. ASSUME OrderInv PROVE OrderInv'
        <4>1. /\ e.n = readings + 1 /\ e.stage = "new"
              /\ \A j \in DOMAIN pending : pending[j].n \in Nat /\ pending[j].n <= readings
              /\ \A r \in DOMAIN ring : ring[r] \in Nat /\ ring[r] <= readings
              /\ \A t \in DOMAIN samples : samples[t].n \in Nat /\ samples[t].n <= readings
          <5>1. \A j \in DOMAIN pending : pending[j] \in PendingReadings
            BY <3>0
          <5>2. \A j \in DOMAIN pending : pending[j].n \in Nat
            BY <5>1 DEF PendingReadings
          <5>. QED BY <1>0, <3>1, <3>5, <5>2 DEF OrderInv, StateTypes, MarkInv
        <4>2. \A j \in DOMAIN pending' : j \in DOMAIN pending \/ j = Len(pending) + 1
          BY <3>0, <3>2
        <4>3. \A j \in DOMAIN pending' :
                 /\ pending'[j].n <= readings'
                 /\ j # 1 => pending'[j].stage = "new"
          BY <2>1, <3>0, <3>2, <3>5, <4>1, <4>2 DEF OrderInv
        <4>4. \A j, k \in DOMAIN pending' : j < k => pending'[j].n < pending'[k].n
          BY <3>0, <3>2, <3>5, <4>1, <4>2 DEF OrderInv
        <4>5. \A r \in DOMAIN ring' : \A j \in DOMAIN pending' :
                 NotBeyond(ring[r], j, source \in State!ShownFirst)'
          BY <2>1, <3>0, <3>2, <3>5, <4>1, <4>2 DEF OrderInv, NotBeyond
        <4>6. \A t \in DOMAIN samples' : \A j \in DOMAIN pending' :
                 NotBeyond(samples[t].n, j, source \notin State!ShownFirst)'
          BY <2>1, <3>0, <3>2, <3>5, <4>1, <4>2 DEF OrderInv, NotBeyond
        <4>. QED BY <2>1, <3>0, <3>5, <4>1, <4>3, <4>4, <4>5, <4>6 DEF OrderInv
      <3>. QED BY <1>0, <2>1, <3>3, <3>4, <3>5 DEF StateInv
    <2>. QED BY <2>1, <2>2, <2>3
  <1>2. CASE State!TransientKey
    <2>1. /\ UNCHANGED <<source, now, readings, pending, ring, touched, store, samples, tried, offered>>
          /\ \/ transient' = 1 /\ marks' = <<>> /\ epoch' = epoch + 1
             \/ /\ transient' = transient + 1 /\ UNCHANGED <<marks, epoch>>
                /\ ~(State!Cardinality(DOMAIN marks) + transient >= MaxKeys)
      BY <1>2 DEF State!TransientKey
    <2>2. State!Cardinality(DOMAIN marks) \in Nat
      <3>1. IsFiniteSet(DOMAIN marks)
        <4>1. IsFiniteSet(State!Tiers)
          <5>1. IsFiniteSet({} \cup {"fast"})
            BY FS_EmptySet, FS_AddElement, Zenon
          <5>2. IsFiniteSet(({} \cup {"fast"}) \cup {"energy"})
            BY <5>1, FS_AddElement, Zenon
          <5>3. IsFiniteSet((({} \cup {"fast"}) \cup {"energy"}) \cup {"temp"})
            BY <5>2, FS_AddElement, Zenon
          <5>4. State!Tiers = (({} \cup {"fast"}) \cup {"energy"}) \cup {"temp"}
            BY DEF State!Tiers
          <5>. QED BY <5>3, <5>4
        <4>2. DOMAIN marks \subseteq State!Tiers
          BY <1>0 DEF MarkInv
        <4>. QED BY <4>1, <4>2, FS_Subset
      <3>2. Cardinality(DOMAIN marks) \in Nat
        BY <3>1, FS_CardinalityType
      <3>3. State!Cardinality(DOMAIN marks) = Cardinality(DOMAIN marks)
        BY DEF State!Cardinality, Cardinality
      <3>. QED BY <3>2, <3>3
    <2>3. StateTypes'
      BY <1>0, <2>1, <2>2, StateConstants DEF StateTypes
    <2>4. MarkInv'
      BY <1>0, <2>1 DEF MarkInv, StateTypes, State!Gap
    <2>5. OrderInv => OrderInv'
      BY <2>1 DEF OrderInv, NotBeyond
    <2>. QED BY <1>0, <2>1, <2>3, <2>4, <2>5 DEF StateInv, PacedStep, OrderedStep, State!Resampled
  <1>3. CASE State!StoreOpens \/ State!StoreStops \/ State!Tick
    <2>1. /\ now' \in {now, now + 1} /\ store' \in {"opening", "open", "failed", "stopped"}
          /\ UNCHANGED <<source, readings, pending, ring, touched, marks, transient, epoch,
                          samples, tried, offered>>
      BY <1>0, <1>3 DEF State!StoreOpens, State!StoreStops, State!Tick, StateTypes
    <2>2. StateTypes'
      BY <1>0, <2>1 DEF StateTypes
    <2>3. MarkInv'
      BY <1>0, <2>1 DEF MarkInv, StateTypes, State!Gap
    <2>4. OrderInv => OrderInv'
      BY <2>1 DEF OrderInv, NotBeyond
    <2>. QED BY <1>0, <2>1, <2>2, <2>3, <2>4 DEF StateInv, PacedStep, OrderedStep, State!Resampled
  <1>4. CASE \E i \in DOMAIN pending : State!Begins(i) \/ State!Ends(i)
    BY <1>4, BeginKeeps, EndKeeps
  <1>. QED BY <1>1, <1>2, <1>3, <1>4 DEF State!ServerNext

LEMMA StatePart == PartsSpec => [](part = "state" => StateInv)
  <1>1. PartsInit => StateInv
    BY StateInvInit DEF PartsInit
  <1>2. (part = "state" => StateInv) /\ [PartsNext]_partsVars => (part = "state" => StateInv)'
    <2> SUFFICES ASSUME part = "state" => StateInv, [PartsNext]_partsVars, part' = "state"
                 PROVE  StateInv'
      OBVIOUS
    <2>1. CASE PartsNext
      BY <2>1, StateStep DEF PartsNext
    <2>2. CASE UNCHANGED partsVars
      <3>1. StateInv /\ UNCHANGED stateVars
        BY <2>2 DEF partsVars, measureVars
      <3>. QED BY <3>1 DEF StateInv, StateTypes, MarkInv, OrderInv, NotBeyond, stateVars, State!Gap
    <2>. QED BY <2>1, <2>2
  <1>. QED BY <1>1, <1>2, PTL DEF PartsSpec

LEMMA StateInvTypes == StateInv => State!ServerTypesOK
  BY DEF StateInv, StateTypes, MarkInv, State!ServerTypesOK

\* The limiter thins a series out and does not silence it.
THEOREM SeriesAlwaysPaced == PartsSpec => SeriesPaced
  <1>1. (part = "state" => StateInv) /\ [PartsNext]_partsVars
           => [ /\ \A t \in State!Tiers :
                      State!Resampled(t) /\ samples'[t].epoch = samples[t].epoch =>
                         samples'[t].at - samples[t].at >= State!Gap(t)
                /\ \A t \in DOMAIN offered : offered[t] - tried[t] < State!Gap(t) ]_(State!serverVars)
    <2> SUFFICES ASSUME part = "state" => StateInv, [PartsNext]_partsVars, ~UNCHANGED stateVars
                 PROVE  /\ PacedStep
                        /\ \A t \in DOMAIN offered : offered[t] - tried[t] < State!Gap(t)
      BY DEF State!serverVars, stateVars, PacedStep
    <2>1. StateInv /\ State!ServerNext
      BY DEF PartsNext, partsVars, measureVars
    <2>. QED BY <2>1, StateStep DEF StateInv, MarkInv
  <1>. QED BY <1>1, StatePart, PTL DEF PartsSpec, SeriesPaced, State!SeriesPaced, State!serverVars

\* What is shown and stored of a source with one consumer never goes back to an
\* older reading.
THEOREM ReadingsStayInOrder == PartsSpec => ReadingsInOrder
  <1>1. (part = "state" => StateInv) /\ [PartsNext]_partsVars
           => [ source \notin State!Spawned =>
                  /\ \A i \in 1..Len(ring) - 1 : ring[i] < ring[i + 1]
                  /\ \A t \in State!Tiers : State!Resampled(t) => samples'[t].n > samples[t].n
              ]_(State!serverVars)
    <2> SUFFICES ASSUME part = "state" => StateInv, [PartsNext]_partsVars, ~UNCHANGED stateVars,
                        source \notin State!Spawned
                 PROVE  /\ \A i \in 1..Len(ring) - 1 : ring[i] < ring[i + 1]
                        /\ OrderedStep
      BY DEF State!serverVars, stateVars, OrderedStep
    <2>1. StateInv /\ State!ServerNext
      BY DEF PartsNext, partsVars, measureVars
    <2>2. ring \in Seq(Nat) /\ OrderInv
      BY <2>1 DEF StateInv, StateTypes
    <2>3. Len(ring) \in Nat /\ \A i \in 1..Len(ring) - 1 : i \in DOMAIN ring /\ i + 1 \in DOMAIN ring /\ i < i + 1
      BY <2>2
    <2>. QED BY <2>1, <2>2, <2>3, StateStep DEF OrderInv
  <1>. QED BY <1>1, StatePart, PTL DEF PartsSpec, ReadingsInOrder, State!ReadingsInOrder, State!serverVars

-----------------------------------------------------------------------------
(* The MQTT bridge, publishing.                                            *)

TopicNames == [name : {"scalars", "status", "cells", "alarms", "venus", "raw"}, retain : BOOLEAN]
TopicRequests == [topic : TopicNames, n : Nat]

Topic(m, t) == m.name = t /\ m.retain

PublisherTypes ==
    /\ device \in Seq(TopicNames)
    /\ tick \in Seq(TopicNames) /\ Len(tick) <= Len(device)
    /\ queue \in Seq(TopicRequests) /\ Len(queue) <= EventloopCap
    /\ snapshots \in Nat /\ latest \in 0..snapshots /\ upTo \in 0..latest
    /\ disturbed \in BOOLEAN
    /\ \A t \in DOMAIN retained : retained[t] \in 0..snapshots

\* What waits is in order, and none of it older than what is retained.
QueueInOrder ==
    /\ \A i \in DOMAIN queue :
          /\ queue[i].n <= upTo
          /\ \A t \in DOMAIN retained : retained[t] <= queue[i].n
          /\ \A j \in DOMAIN queue : i < j => queue[i].n <= queue[j].n
    /\ tick # <<>> => upTo # 0 /\ \A t \in DOMAIN retained : retained[t] <= upTo
    /\ latest # 0 => \A t \in DOMAIN retained : retained[t] <= latest

\* A retained topic has what this tick publishes, or is to have it yet.
Reached(t) ==
    \/ retained[t] = upTo
    \/ \E i \in DOMAIN queue : queue[i].n = upTo /\ Topic(queue[i].topic, t)
    \/ \E i \in DOMAIN tick : Topic(tick[i], t)

PublisherInv ==
    /\ PublisherTypes /\ QueueInOrder
    /\ \A t \in DOMAIN retained : \E i \in DOMAIN device : Topic(device[i], t)
    /\ ~disturbed /\ upTo # 0 => \A t \in DOMAIN retained : Reached(t)

\* What a step may not do to the retained values.
NotBack ==
    \A t \in DOMAIN retained :
       /\ retained'[t] >= retained[t]
       /\ tick' = <<>> /\ queue' = <<>> /\ ~disturbed' /\ upTo' # 0 => retained'[t] = upTo'

LEMMA TopicNamesAre == \A r \in TopicRequests : r.n \in Nat /\ r.topic \in TopicNames
  BY DEF TopicRequests

LEMMA DeviceTopics == ASSUME NEW d PROVE Bridge!TopicsOf(d) \in Seq(TopicNames)
  <1>2. Bridge!publish_snapshot \in Seq(TopicNames)
    <2>1. /\ Bridge!Live("scalars") \in TopicNames /\ Bridge!Retained("status") \in TopicNames
          /\ Bridge!Live("cells") \in TopicNames /\ Bridge!Live("alarms") \in TopicNames
          /\ Bridge!Retained("venus") \in TopicNames
      BY DEF Bridge!Live, Bridge!Retained, TopicNames
    <2>. QED BY <2>1 DEF Bridge!publish_snapshot
  <1>3. /\ Bridge!publish_et112 \in Seq(TopicNames) /\ Bridge!publish_ats \in Seq(TopicNames)
    <2>1. Bridge!Retained("venus") \in TopicNames /\ Bridge!Retained("scalars") \in TopicNames
      BY DEF Bridge!Live, Bridge!Retained, TopicNames
    <2>. QED BY <2>1 DEF Bridge!publish_et112, Bridge!publish_ats
  <1>4. Bridge!publish_irradiance \in Seq(TopicNames)
    <2>1. Bridge!Retained("raw") \in TopicNames
      BY DEF Bridge!Live, Bridge!Retained, TopicNames
    <2>. QED BY <2>1 DEF Bridge!publish_irradiance
  <1>5. /\ Bridge!publish_tasmota_scalars \in Seq(TopicNames)
        /\ Bridge!publish_tasmota_snapshot \in Seq(TopicNames)
    <2>1. Bridge!Retained("venus") \in TopicNames /\ Bridge!Retained("scalars") \in TopicNames
      BY DEF Bridge!Live, Bridge!Retained, TopicNames
    <2>. QED BY <2>1 DEF Bridge!publish_tasmota_scalars, Bridge!publish_tasmota_snapshot
  <1>6. Bridge!publish_tasmota_scalars \o Bridge!publish_tasmota_snapshot \in Seq(TopicNames)
    BY <1>5
  <1>. QED BY <1>2, <1>3, <1>4, <1>5, <1>6 DEF Bridge!TopicsOf

LEMMA PublisherInvInit == Bridge!BridgeInit => PublisherInv
  <1> SUFFICES ASSUME Bridge!BridgeInit PROVE PublisherInv
    OBVIOUS
  <1>1. device \in Seq(TopicNames)
    <2>1. CASE device = <<>>
      BY <2>1
    <2>2. CASE device \in {Bridge!TopicsOf(d) : d \in Devices}
      BY <2>2, DeviceTopics
    <2>. QED BY <2>1, <2>2 DEF Bridge!BridgeInit
  <1>2. /\ snapshots = 0 /\ latest = 0 /\ tick = <<>> /\ queue = <<>> /\ upTo = 0 /\ disturbed = FALSE
        /\ EventloopCap \in Nat
    BY ReadSideBounds DEF Bridge!BridgeInit, Bridge!BridgeAssumption
  <1>3. \A t \in DOMAIN retained : retained[t] = 0
    BY DEF Bridge!BridgeInit
  <1>4. \A t \in DOMAIN retained : \E i \in DOMAIN device : Topic(device[i], t)
    <2>1. DOMAIN retained = {m.name : m \in {m \in Bridge!ToSet(device) : m.retain}}
      BY DEF Bridge!BridgeInit
    <2>. QED BY <2>1 DEF Bridge!ToSet, Topic
  <1>5. PublisherTypes
    <2>1. /\ tick \in Seq(TopicNames) /\ Len(tick) = 0 /\ queue \in Seq(TopicRequests)
          /\ Len(queue) = 0 /\ Len(device) \in Nat
      BY <1>1, <1>2
    <2>2. /\ snapshots \in Nat /\ latest \in 0..snapshots /\ upTo \in 0..latest
          /\ Len(queue) <= EventloopCap
      BY <1>2, <2>1
    <2>5. disturbed \in BOOLEAN
      BY <1>2, Zenon
    <2>3. \A t \in DOMAIN retained : retained[t] \in 0..snapshots
      BY <1>2, <1>3
    <2>4. Len(tick) <= Len(device)
      BY <2>1
    <2>. QED BY <1>1, <2>1, <2>2, <2>3, <2>4, <2>5 DEF PublisherTypes
  <1>6. QueueInOrder
    BY <1>2 DEF QueueInOrder
  <1>. QED BY <1>2, <1>4, <1>5, <1>6 DEF PublisherInv

LEMMA PublisherPublish ==
    ASSUME PublisherInv, Bridge!Publish
    PROVE  PublisherInv' /\ NotBack
  <1>1. /\ tick # <<>> /\ Len(queue) < EventloopCap
        /\ queue' = Append(queue, [topic |-> Head(tick), n |-> upTo])
        /\ tick' = Tail(tick)
        /\ UNCHANGED <<device, snapshots, latest, retained, ticks, upTo, disturbed>>
    BY DEF Bridge!Publish
  <1>2. PICK e : e = [topic |-> Head(tick), n |-> upTo]
    OBVIOUS
  <1>3. /\ tick \in Seq(TopicNames) /\ queue \in Seq(TopicRequests) /\ EventloopCap \in Nat
        /\ upTo \in Nat
    BY ReadSideBounds DEF PublisherInv, PublisherTypes, Bridge!BridgeAssumption
  <1>4. /\ Tail(tick) \in Seq(TopicNames) /\ Len(tick) \in Nat \ {0} /\ Len(Tail(tick)) = Len(tick) - 1
        /\ \A i \in 1 .. Len(tick) - 1 : Tail(tick)[i] = tick[i + 1]
        /\ Head(tick) \in TopicNames /\ Head(tick) = tick[1]
        /\ DOMAIN Tail(tick) = 1 .. Len(tick) - 1 /\ DOMAIN tick = 1..Len(tick)
    BY <1>1, <1>3, QueueTail
  <1>5. e \in TopicRequests /\ e.topic = tick[1] /\ e.n = upTo
    BY <1>2, <1>3, <1>4 DEF TopicRequests
  <1>6. /\ queue' \in Seq(TopicRequests) /\ Len(queue) \in Nat /\ Len(queue') = Len(queue) + 1
        /\ queue'[Len(queue) + 1] = e
        /\ \A i \in 1 .. Len(queue) : queue'[i] = queue[i]
        /\ \A i \in 1 .. Len(queue') : i \in 1 .. Len(queue) \/ i = Len(queue) + 1
        /\ DOMAIN queue' = 1 .. Len(queue) + 1 /\ DOMAIN queue = 1..Len(queue)
    BY <1>1, <1>2, <1>3, <1>5, QueueAppend
  <1>7. PublisherTypes'
    BY <1>1, <1>3, <1>4, <1>6 DEF PublisherInv, PublisherTypes
  <1>8. QueueInOrder'
    <2>1. \A i \in DOMAIN queue' : queue'[i].n \in Nat
      <3>1. \A i \in DOMAIN queue' : queue'[i] \in TopicRequests
        BY <1>6
      <3>. QED BY <3>1, TopicNamesAre
    <2>2. \A i \in DOMAIN queue' :
             /\ queue'[i].n <= upTo
             /\ \A t \in DOMAIN retained : retained[t] <= queue'[i].n
      BY <1>1, <1>3, <1>5, <1>6 DEF PublisherInv, QueueInOrder
    <2>3. \A i, j \in DOMAIN queue' : i < j => queue'[i].n <= queue'[j].n
      BY <1>3, <1>5, <1>6, <2>2 DEF PublisherInv, QueueInOrder
    <2>. QED BY <1>1, <2>2, <2>3 DEF PublisherInv, QueueInOrder
  <1>9. ASSUME ~disturbed, upTo # 0, NEW t \in DOMAIN retained PROVE Reached(t)'
    <2>1. Reached(t)
      BY <1>9 DEF PublisherInv
    <2>2. CASE \E i \in DOMAIN queue : queue[i].n = upTo /\ Topic(queue[i].topic, t)
      BY <1>1, <1>6, <2>2 DEF Reached
    <2>3. ASSUME NEW i \in DOMAIN tick, Topic(tick[i], t) PROVE Reached(t)'
      <3>1. CASE i = 1
        BY <1>1, <1>5, <1>6, <2>3, <3>1 DEF Reached
      <3>2. CASE i # 1
        <4>1. i - 1 \in DOMAIN tick' /\ tick'[i - 1] = tick[i]
          BY <1>1, <1>4, <3>2
        <4>. QED BY <2>3, <4>1 DEF Reached
      <3>. QED BY <3>1, <3>2
    <2>4. CASE retained[t] = upTo
      BY <1>1, <2>4 DEF Reached
    <2>. QED BY <2>1, <2>2, <2>3, <2>4 DEF Reached
  <1>10. NotBack
    BY <1>1, <1>6 DEF NotBack, PublisherInv, PublisherTypes
  <1>. QED BY <1>1, <1>7, <1>8, <1>9, <1>10 DEF PublisherInv

LEMMA PublisherTransmit ==
    ASSUME PublisherInv, Bridge!Transmit
    PROVE  PublisherInv' /\ NotBack
  <1>1. PICK m : m = Head(queue)
    OBVIOUS
  <1>2. /\ queue # <<>> /\ queue' = Tail(queue)
        /\ UNCHANGED <<device, snapshots, latest, tick, ticks, upTo>>
        /\ \/ m.topic.retain /\ retained' = [retained EXCEPT ![m.topic.name] = m.n] /\ UNCHANGED disturbed
           \/ ~m.topic.retain /\ UNCHANGED <<retained, disturbed>>
           \/ disturbed' = TRUE /\ UNCHANGED retained
    BY <1>1 DEF Bridge!Transmit
  <1>3. /\ queue \in Seq(TopicRequests)
        /\ Tail(queue) \in Seq(TopicRequests) /\ Len(queue) \in Nat \ {0} /\ Len(Tail(queue)) = Len(queue) - 1
        /\ \A i \in 1 .. Len(queue) - 1 : Tail(queue)[i] = queue[i + 1]
        /\ m \in TopicRequests /\ m = queue[1]
        /\ DOMAIN Tail(queue) = 1 .. Len(queue) - 1 /\ DOMAIN queue = 1..Len(queue)
    BY <1>1, <1>2, QueueTail DEF PublisherInv, PublisherTypes
  <1>4. /\ DOMAIN retained' = DOMAIN retained
        /\ \A t \in DOMAIN retained :
              \/ retained'[t] = retained[t] /\ (disturbed' = disturbed => ~Topic(m.topic, t) \/ disturbed)
              \/ retained'[t] = m.n /\ Topic(m.topic, t)
    BY <1>2 DEF Topic
  <1>5. /\ m.n \in Nat /\ m.n <= upTo /\ upTo \in Nat
        /\ \A t \in DOMAIN retained : retained[t] \in Nat /\ retained[t] <= m.n
        /\ \A i \in 1..Len(queue) - 1 :
              queue'[i] = queue[i + 1] /\ m.n <= queue'[i].n /\ queue'[i].n \in Nat /\ queue'[i].n <= upTo
    <2>1. \A i \in DOMAIN queue : queue[i].n \in Nat
      <3>1. \A i \in DOMAIN queue : queue[i] \in TopicRequests
        BY <1>3
      <3>. QED BY <3>1, TopicNamesAre
    <2>2. 1 \in DOMAIN queue /\ \A i \in 1..Len(queue) - 1 : i + 1 \in DOMAIN queue /\ 1 < i + 1
      BY <1>3
    <2>3. /\ m.n \in Nat /\ m.n <= upTo /\ upTo \in Nat
          /\ \A t \in DOMAIN retained : retained[t] \in Nat /\ retained[t] <= m.n
      BY <1>3, <2>1, <2>2 DEF PublisherInv, PublisherTypes, QueueInOrder
    <2>4. ASSUME NEW i \in 1..Len(queue) - 1
          PROVE  /\ queue'[i] = queue[i + 1] /\ m.n <= queue'[i].n /\ queue'[i].n \in Nat
                 /\ queue'[i].n <= upTo
      <3>1. queue'[i] = queue[i + 1] /\ i + 1 \in DOMAIN queue /\ 1 \in DOMAIN queue /\ 1 < i + 1
        BY <1>2, <1>3, <2>2
      <3>2. m = queue[1] /\ queue[i + 1].n \in Nat
        BY <1>3, <2>1, <3>1
      <3>. QED BY <3>1, <3>2 DEF PublisherInv, QueueInOrder
    <2>. QED BY <2>3, <2>4
  <1>6. \A t \in DOMAIN retained : retained[t] <= retained'[t] /\ retained'[t] <= m.n /\ retained'[t] \in Nat
    BY <1>4, <1>5
  <1>7. PublisherTypes'
    <2>1. snapshots \in Nat /\ latest \in 0..snapshots /\ upTo \in 0..latest /\ disturbed' \in BOOLEAN
          /\ Len(queue) <= EventloopCap /\ EventloopCap \in Nat
      BY <1>2, ReadSideBounds DEF PublisherInv, PublisherTypes, Bridge!BridgeAssumption
    <2>2. \A t \in DOMAIN retained' : retained'[t] \in 0..snapshots
      BY <1>4, <1>5, <1>6, <2>1
    <2>. QED BY <1>2, <1>3, <2>1, <2>2 DEF PublisherInv, PublisherTypes
  <1>8. QueueInOrder'
    <2>1. \A i \in DOMAIN queue' :
             /\ queue'[i].n <= upTo
             /\ \A t \in DOMAIN retained : retained'[t] <= queue'[i].n
      BY <1>2, <1>3, <1>5, <1>6
    <2>2. \A i, j \in DOMAIN queue' : i < j => queue'[i].n <= queue'[j].n
      <3> SUFFICES ASSUME NEW i \in DOMAIN queue', NEW j \in DOMAIN queue', i < j
                   PROVE  queue'[i].n <= queue'[j].n
        OBVIOUS
      <3>1. i + 1 \in DOMAIN queue /\ j + 1 \in DOMAIN queue /\ i + 1 < j + 1
            /\ queue'[i] = queue[i + 1] /\ queue'[j] = queue[j + 1]
        BY <1>2, <1>3
      <3>. QED BY <3>1 DEF PublisherInv, QueueInOrder
    <2>3. \A t \in DOMAIN retained : retained'[t] <= upTo /\ retained'[t] <= latest
      BY <1>5, <1>6 DEF PublisherInv, PublisherTypes
    <2>. QED BY <1>2, <1>4, <2>1, <2>2, <2>3 DEF PublisherInv, QueueInOrder
  <1>9. ASSUME ~disturbed', upTo # 0, NEW t \in DOMAIN retained PROVE Reached(t)'
    <2>1. ~disturbed /\ disturbed' = disturbed /\ Reached(t)
      BY <1>2, <1>9 DEF PublisherInv
    <2>2. CASE retained[t] = upTo
      BY <1>2, <1>5, <1>6, <2>2 DEF Reached
    <2>3. CASE \E i \in DOMAIN tick : Topic(tick[i], t)
      BY <1>2, <2>3 DEF Reached
    <2>4. ASSUME NEW i \in DOMAIN queue, queue[i].n = upTo, Topic(queue[i].topic, t) PROVE Reached(t)'
      <3>1. CASE i = 1
        BY <1>2, <1>3, <1>4, <2>1, <2>4, <3>1 DEF Reached
      <3>2. CASE i # 1
        <4>1. i - 1 \in DOMAIN queue' /\ queue'[i - 1] = queue[i]
          BY <1>2, <1>3, <3>2
        <4>. QED BY <1>2, <2>4, <4>1 DEF Reached
      <3>. QED BY <3>1, <3>2
    <2>. QED BY <2>1, <2>2, <2>3, <2>4 DEF Reached
  <1>10. NotBack
    <2>1. ASSUME tick' = <<>>, queue' = <<>>, ~disturbed', upTo' # 0, NEW t \in DOMAIN retained
          PROVE  retained'[t] = upTo'
      BY <1>2, <1>9, <2>1 DEF Reached
    <2>. QED BY <1>5, <1>6, <2>1 DEF NotBack
  <1>. QED BY <1>2, <1>4, <1>7, <1>8, <1>9, <1>10 DEF PublisherInv

LEMMA PublisherSnapshot ==
    ASSUME PublisherInv, Bridge!Snapshot
    PROVE  PublisherInv' /\ NotBack
  <1>1. /\ snapshots' = snapshots + 1 /\ latest' = snapshots + 1
        /\ UNCHANGED <<device, tick, queue, retained, ticks, upTo, disturbed>>
    BY DEF Bridge!Snapshot
  <1>2. /\ snapshots \in Nat /\ latest \in 0..snapshots /\ upTo \in 0..latest
        /\ \A t \in DOMAIN retained : retained[t] \in 0..snapshots
    BY DEF PublisherInv, PublisherTypes
  <1>3. PublisherTypes'
    BY <1>1, <1>2 DEF PublisherInv, PublisherTypes
  <1>4. QueueInOrder'
    BY <1>1, <1>2 DEF PublisherInv, QueueInOrder
  <1>5. ASSUME ~disturbed, upTo # 0, NEW t \in DOMAIN retained PROVE Reached(t) /\ Reached(t)'
    BY <1>1, <1>5 DEF PublisherInv, Reached
  <1>6. ASSUME tick = <<>>, queue = <<>>, ~disturbed, upTo # 0, NEW t \in DOMAIN retained
        PROVE  retained[t] = upTo
    BY <1>5, <1>6 DEF Reached
  <1>7. NotBack
    BY <1>1, <1>2, <1>6 DEF NotBack
  <1>. QED BY <1>1, <1>3, <1>4, <1>5, <1>7 DEF PublisherInv

LEMMA PublisherTick ==
    ASSUME PublisherInv, Bridge!Tick
    PROVE  PublisherInv' /\ NotBack
  <1>1. /\ tick = <<>> /\ device # <<>>
        /\ tick' = (IF latest = 0 THEN <<>> ELSE device) /\ upTo' = latest /\ disturbed' = FALSE
        /\ UNCHANGED <<device, snapshots, latest, queue, retained>>
    BY DEF Bridge!Tick
  <1>2. /\ snapshots \in Nat /\ latest \in 0..snapshots /\ upTo \in 0..latest
        /\ \A t \in DOMAIN retained : retained[t] \in 0..snapshots
        /\ device \in Seq(TopicNames) /\ Len(device) \in Nat
    BY DEF PublisherInv, PublisherTypes
  <1>3. PublisherTypes'
    <2>1. tick' \in Seq(TopicNames) /\ Len(tick') <= Len(device)
      BY <1>1, <1>2
    <2>2. upTo' \in 0..latest /\ latest \in Nat
      BY <1>1, <1>2
    <2>3. disturbed' \in BOOLEAN
      BY <1>1, Zenon
    <2>. QED BY <1>1, <2>1, <2>2, <2>3 DEF PublisherInv, PublisherTypes
  <1>4. QueueInOrder'
    <2>1. \A i \in DOMAIN queue : queue[i].n \in Nat
      <3>1. \A i \in DOMAIN queue : queue[i] \in TopicRequests
        BY DEF PublisherInv, PublisherTypes
      <3>. QED BY <3>1, TopicNamesAre
    <2>. QED BY <1>1, <1>2, <2>1 DEF PublisherInv, QueueInOrder
  <1>5. ASSUME latest # 0, NEW t \in DOMAIN retained PROVE Reached(t)'
    BY <1>1, <1>5 DEF PublisherInv, Reached
  <1>6. NotBack
    BY <1>1, <1>2 DEF NotBack
  <1>. QED BY <1>1, <1>3, <1>4, <1>5, <1>6 DEF PublisherInv

LEMMA PublisherRestarts ==
    ASSUME PublisherInv, Bridge!ServerRestarts
    PROVE  PublisherInv' /\ NotBack
  <1>1. /\ latest' = 0 /\ tick' = <<>> /\ queue' = <<>> /\ upTo' = 0 /\ disturbed' = TRUE
        /\ UNCHANGED <<device, snapshots, retained>>
    BY DEF Bridge!ServerRestarts
  <1>2. /\ snapshots \in Nat /\ EventloopCap \in Nat
        /\ \A t \in DOMAIN retained : retained[t] \in 0..snapshots
        /\ device \in Seq(TopicNames) /\ Len(device) \in Nat
    BY ReadSideBounds DEF PublisherInv, PublisherTypes, Bridge!BridgeAssumption
  <1>3. PublisherTypes'
    <2>1. /\ tick' \in Seq(TopicNames) /\ Len(tick') = 0
          /\ queue' \in Seq(TopicRequests) /\ Len(queue') = 0
      BY <1>1
    <2>. QED BY <1>1, <1>2, <2>1 DEF PublisherTypes
  <1>4. QueueInOrder'
    BY <1>1 DEF QueueInOrder
  <1>. QED BY <1>1, <1>2, <1>3, <1>4 DEF PublisherInv, NotBack

LEMMA PublisherStays ==
    ASSUME PublisherInv, UNCHANGED Bridge!publisherVars
    PROVE  PublisherInv' /\ NotBack
  <1>1. UNCHANGED <<device, snapshots, latest, tick, queue, retained, upTo, disturbed>>
    BY DEF Bridge!publisherVars
  <1>2. \A t \in DOMAIN retained : retained[t] \in Nat
    BY DEF PublisherInv, PublisherTypes
  <1>3. ASSUME tick = <<>>, queue = <<>>, ~disturbed, upTo # 0, NEW t \in DOMAIN retained
        PROVE  retained[t] = upTo
    BY <1>3 DEF PublisherInv, Reached
  <1>. QED BY <1>1, <1>2, <1>3 DEF PublisherInv, PublisherTypes, QueueInOrder, Reached, NotBack

LEMMA PublisherStep ==
    ASSUME PublisherInv, Bridge!BridgeNext
    PROVE  PublisherInv' /\ NotBack
  <1>1. CASE Bridge!Snapshot
    BY <1>1, PublisherSnapshot
  <1>2. CASE Bridge!Tick
    BY <1>2, PublisherTick
  <1>3. CASE Bridge!Publish
    BY <1>3, PublisherPublish
  <1>4. CASE Bridge!Transmit
    BY <1>4, PublisherTransmit
  <1>5. CASE Bridge!ServerRestarts
    BY <1>5, PublisherRestarts
  <1>6. CASE Bridge!EmLearns \/ Bridge!Handle \/ Bridge!Connects \/ Bridge!EmRestarts
    <2>1. UNCHANGED Bridge!publisherVars
      BY <1>6 DEF Bridge!EmLearns, Bridge!Handle, Bridge!Connects, Bridge!EmRestarts
    <2>. QED BY <2>1, PublisherStays
  <1>7. ASSUME NEW t \in DOMAIN topics, Bridge!EmPublishes(t) PROVE PublisherInv' /\ NotBack
    <2>1. UNCHANGED Bridge!publisherVars
      BY <1>7 DEF Bridge!EmPublishes
    <2>. QED BY <2>1, PublisherStays
  <1>. QED BY <1>1, <1>2, <1>3, <1>4, <1>5, <1>6, <1>7 DEF Bridge!BridgeNext

-----------------------------------------------------------------------------
(* The MQTT bridge, listening.                                             *)

EmMessages == {m \in [topic : DOMAIN topics, n : Nat, has : SUBSET Bridge!AllFields, retain : BOOLEAN] :
                  m.has \subseteq Bridge!Fields(m.topic)}

SubscriberTypes ==
    /\ IsFiniteSet(DOMAIN topics) /\ published \in 0..MaxMessages
    /\ inbox \in Seq(EmMessages) /\ \A i \in DOMAIN inbox : inbox[i].n <= published
    /\ DOMAIN broker = {t \in DOMAIN topics : topics[t].retain}
    /\ \A t \in DOMAIN broker :
          \/ broker[t] = Bridge!Nothing
          \/ /\ broker[t] \in EmMessages /\ broker[t].topic = t
             /\ broker[t].n <= published /\ broker[t].retain
    /\ \A f \in Bridge!AllFields : shown[f] \in 0..published

\* The messages of a topic are on their way in order, a live one behind all
\* others; they are behind what is shown of their fields, a retained one of
\* those that no other topic sets; and none of this is ahead of what the
\* broker keeps.
Behind ==
    /\ \A i, j \in DOMAIN inbox :
          i < j /\ (inbox[i].topic = inbox[j].topic \/ ~inbox[j].retain)
             => inbox[i].n <= inbox[j].n
    /\ \A i \in DOMAIN inbox : \A f \in Bridge!Fields(inbox[i].topic) :
          ~Bridge!Shared(f) \/ ~inbox[i].retain => shown[f] <= inbox[i].n
    /\ \A t \in DOMAIN broker :
          /\ \A f \in Bridge!Fields(t) : ~Bridge!Shared(f) => shown[f] <= broker[t].n
          /\ \A i \in DOMAIN inbox : inbox[i].topic = t => inbox[i].n <= broker[t].n

SubscriberInv == SubscriberTypes /\ Behind

\* What a step may not do to what is shown.
ShownOn ==
    \A f \in Bridge!AllFields :
       shown' # shown /\ shown' # Bridge!NoState =>
          Bridge!NewerOrGone(f) \/ (Bridge!Shared(f) /\ Head(inbox).retain)

LEMMA MessagesAre ==
    /\ \A m \in EmMessages : m.topic \in DOMAIN topics /\ m.n \in Nat
    /\ Bridge!Nothing.n = 0
    /\ \A t \in DOMAIN topics : \A f \in Bridge!Fields(t) : f \in Bridge!AllFields
  <1>1. \A m \in EmMessages : m.topic \in DOMAIN topics /\ m.n \in Nat
    BY DEF EmMessages
  <1>2. Bridge!Nothing.n = 0
    BY DEF Bridge!Nothing, Bridge!Message
  <1>3. \A t \in DOMAIN topics : \A f \in Bridge!Fields(t) : f \in Bridge!AllFields
    BY DEF Bridge!AllFields
  <1>. QED BY <1>1, <1>2, <1>3

LEMMA TopicsStay ==
    ASSUME topics' = topics
    PROVE  /\ \A t : Bridge!Fields(t)' = Bridge!Fields(t)
           /\ Bridge!AllFields' = Bridge!AllFields /\ EmMessages' = EmMessages
           /\ Bridge!NoState' = Bridge!NoState /\ Bridge!Nothing' = Bridge!Nothing
           /\ \A f : Bridge!Shared(f)' <=> Bridge!Shared(f)
  <1>1. \A t : Bridge!Fields(t)' = Bridge!Fields(t)
    BY DEF Bridge!Fields
  <1>2. Bridge!AllFields' = Bridge!AllFields
    BY DEF Bridge!AllFields, Bridge!Fields
  <1>3. \A f : Bridge!Shared(f)' <=> Bridge!Shared(f)
    BY DEF Bridge!Shared, Bridge!Fields
  <1>. QED BY <1>1, <1>2, <1>3 DEF EmMessages, Bridge!NoState, Bridge!Nothing, Bridge!Message

LEMMA FewTopics == ASSUME NEW x PROVE IsFiniteSet(DOMAIN Bridge!EmTopics(x))
  <1>1. IsFiniteSet({"meteo"} \cup {"solar"}) /\ IsFiniteSet({"heat"}) /\ IsFiniteSet({"system"})
        /\ IsFiniteSet({"heatpump"}) /\ IsFiniteSet({"inverter"})
    BY FS_Singleton, FS_Union
  <1>2. DOMAIN Bridge!EmTopics(x) \in
           {{"meteo"} \cup {"solar"}, {"heat"}, {"system"}, {"heatpump"}, {"inverter"}}
    <2>1. CASE x = "solar"
      BY <2>1 DEF Bridge!EmTopics
    <2>2. CASE x = "heat"
      BY <2>2 DEF Bridge!EmTopics
    <2>3. CASE x = "system"
      BY <2>3 DEF Bridge!EmTopics
    <2>4. CASE x = "heatpump"
      BY <2>4 DEF Bridge!EmTopics
    <2>5. CASE x \notin {"solar", "heat", "system", "heatpump"}
      BY <2>5 DEF Bridge!EmTopics
    <2>. QED BY <2>1, <2>2, <2>3, <2>4, <2>5
  <1>. QED BY <1>1, <1>2

LEMMA NoStateIs == \A f \in Bridge!AllFields : Bridge!NoState[f] = 0
  BY DEF Bridge!NoState

LEMMA SubscriberInvInit == Bridge!BridgeInit => SubscriberInv
  <1> SUFFICES ASSUME Bridge!BridgeInit PROVE SubscriberInv
    OBVIOUS
  <1>1. IsFiniteSet(DOMAIN topics)
    <2>1. CASE topics = <<>>
      <3>1. DOMAIN topics = {}
        BY <2>1
      <3>. QED BY <3>1, FS_EmptySet
    <2>2. CASE topics \in {Bridge!EmTopics(x) : x \in Subjects}
      BY <2>2, FewTopics
    <2>. QED BY <2>1, <2>2 DEF Bridge!BridgeInit
  <1>2. published = 0 /\ inbox = <<>> /\ shown = Bridge!NoState /\ published \in 0..MaxMessages
    BY ReadSideBounds DEF Bridge!BridgeInit, Bridge!BridgeAssumption
  <1>3. /\ DOMAIN broker = {t \in DOMAIN topics : topics[t].retain}
        /\ \A t \in DOMAIN broker : broker[t] = Bridge!Nothing
    BY DEF Bridge!BridgeInit
  <1>4. inbox \in Seq(EmMessages) /\ DOMAIN inbox = {}
    BY <1>2
  <1>5. DOMAIN broker \subseteq DOMAIN topics
    BY <1>3
  <1>6. \A f \in Bridge!AllFields : shown[f] = 0
    BY <1>2, NoStateIs
  <1>7. SubscriberTypes
    <2>1. \A f \in Bridge!AllFields : shown[f] \in 0..published
      BY <1>2, <1>6
    <2>. QED BY <1>1, <1>2, <1>3, <1>4, <2>1 DEF SubscriberTypes
  <1>8. Behind
    <2>1. \A t \in DOMAIN broker : \A f \in Bridge!Fields(t) : shown[f] <= broker[t].n
      BY <1>3, <1>5, <1>6, MessagesAre
    <2>. QED BY <1>4, <2>1 DEF Behind
  <1>. QED BY <1>7, <1>8 DEF SubscriberInv

LEMMA SubscriberNumbers ==
    ASSUME SubscriberInv
    PROVE  /\ \A i \in DOMAIN inbox : /\ inbox[i] \in EmMessages /\ inbox[i].topic \in DOMAIN topics
                                      /\ inbox[i].n \in Nat /\ inbox[i].n <= published
           /\ \A t \in DOMAIN broker : t \in DOMAIN topics /\ broker[t].n \in Nat
           /\ \A f \in Bridge!AllFields : shown[f] \in Nat /\ shown[f] <= published
           /\ \A t \in DOMAIN topics : \A f \in Bridge!Fields(t) :
                 shown[f] \in Nat /\ shown[f] <= published
           /\ published \in Nat
  <1>1. /\ inbox \in Seq(EmMessages) /\ published \in Nat
        /\ \A i \in DOMAIN inbox : inbox[i].n <= published
    BY ReadSideBounds DEF SubscriberInv, SubscriberTypes, Bridge!BridgeAssumption
  <1>2. \A i \in DOMAIN inbox : inbox[i] \in EmMessages
    BY <1>1
  <1>3. \A t \in DOMAIN broker : t \in DOMAIN topics
    BY DEF SubscriberInv, SubscriberTypes
  <1>4. \A t \in DOMAIN broker : broker[t] = Bridge!Nothing \/ broker[t] \in EmMessages
    BY DEF SubscriberInv, SubscriberTypes
  <1>5. \A t \in DOMAIN broker : broker[t].n \in Nat
    BY <1>4, MessagesAre
  <1>6. \A f \in Bridge!AllFields : shown[f] \in 0..published
    BY DEF SubscriberInv, SubscriberTypes
  <1>7. \A f \in Bridge!AllFields : shown[f] \in Nat /\ shown[f] <= published
    BY <1>1, <1>6
  <1>. QED BY <1>1, <1>2, <1>3, <1>5, <1>7, MessagesAre

LEMMA SubscriberPublishes ==
    ASSUME SubscriberInv, NEW t \in DOMAIN topics, Bridge!EmPublishes(t)
    PROVE  SubscriberInv' /\ ShownOn
  <1>0. PICK m : m = Bridge!Message(t, published + 1,
                                    topics[t].always \cup (topics[t].optional \cap known))
    OBVIOUS
  <1>1. m = [topic |-> t, n |-> published + 1, retain |-> FALSE,
             has |-> topics[t].always \cup (topics[t].optional \cap known)]
    BY <1>0 DEF Bridge!Message
  <1>k. PICK k : k = [m EXCEPT !.retain = TRUE]
    OBVIOUS
  <1>2. /\ published' = published + 1
        /\ broker' = (IF topics[t].retain THEN [broker EXCEPT ![t] = k] ELSE broker)
        /\ inbox' \in {inbox, Append(inbox, m)} /\ topics' = topics /\ shown' = shown
    BY <1>0, <1>k DEF Bridge!EmPublishes
  <1>3. /\ published \in Nat /\ published' \in 0..MaxMessages
        /\ m.topic = t /\ m.n = published + 1 /\ ~m.retain
        /\ k.topic = t /\ k.n = published + 1 /\ k.retain
    <2>1. published \in 0..MaxMessages /\ published < MaxMessages /\ MaxMessages \in Nat
      BY ReadSideBounds DEF SubscriberInv, SubscriberTypes, Bridge!EmPublishes, Bridge!BridgeAssumption
    <2>. QED BY <1>1, <1>k, <1>2, <2>1
  <1>4. m \in EmMessages /\ k \in EmMessages
    <2>1. m.has \subseteq Bridge!Fields(t)
      BY <1>1 DEF Bridge!Fields
    <2>2. m.has \in SUBSET Bridge!AllFields
      BY <2>1, MessagesAre
    <2>3. m \in [topic : DOMAIN topics, n : Nat, has : SUBSET Bridge!AllFields, retain : BOOLEAN]
      BY <1>1, <1>3, <2>2
    <2>4. /\ k \in [topic : DOMAIN topics, n : Nat, has : SUBSET Bridge!AllFields, retain : BOOLEAN]
          /\ k.has = m.has
      BY <1>k, <2>3
    <2>. QED BY <1>3, <2>1, <2>3, <2>4 DEF EmMessages
  <1>5. inbox \in Seq(EmMessages)
    BY DEF SubscriberInv, SubscriberTypes
  <1>6. /\ inbox' \in Seq(EmMessages)
        /\ \A i \in DOMAIN inbox' :
              \/ i \in DOMAIN inbox /\ inbox'[i] = inbox[i]
              \/ inbox'[i] = m /\ \A j \in DOMAIN inbox' : ~(i < j)
    <2>1. CASE inbox' = inbox
      BY <1>5, <2>1
    <2>2. CASE inbox' = Append(inbox, m)
      <3>1. /\ inbox' \in Seq(EmMessages) /\ Len(inbox) \in Nat
            /\ inbox'[Len(inbox) + 1] = m /\ \A i \in 1 .. Len(inbox) : inbox'[i] = inbox[i]
            /\ DOMAIN inbox' = 1 .. Len(inbox) + 1 /\ DOMAIN inbox = 1 .. Len(inbox)
        BY <1>4, <1>5, <2>2, QueueAppend
      <3>. QED BY <3>1
    <2>. QED BY <1>2, <2>1, <2>2
  <1>7. /\ DOMAIN broker' = DOMAIN broker
        /\ \A u \in DOMAIN broker :
              \/ u # t /\ broker'[u] = broker[u]
              \/ u = t /\ broker'[u] = k
    <2>1. DOMAIN broker = {u \in DOMAIN topics : topics[u].retain}
      BY DEF SubscriberInv, SubscriberTypes
    <2>2. CASE topics[t].retain
      <3>1. broker' = [broker EXCEPT ![t] = k]
        BY <1>2, <2>2
      <3>. QED BY <2>1, <2>2, <3>1
    <2>3. CASE ~topics[t].retain
      <3>1. broker' = broker /\ t \notin DOMAIN broker
        BY <1>2, <2>1, <2>3
      <3>. QED BY <3>1
    <2>. QED BY <2>2, <2>3
  <1>8. /\ \A i \in DOMAIN inbox : /\ inbox[i] \in EmMessages /\ inbox[i].topic \in DOMAIN topics
                                   /\ inbox[i].n \in Nat /\ inbox[i].n <= published
        /\ \A u \in DOMAIN broker : u \in DOMAIN topics /\ broker[u].n \in Nat
        /\ \A u \in DOMAIN topics : \A f \in Bridge!Fields(u) :
              shown[f] \in Nat /\ shown[f] <= published
        /\ \A f \in Bridge!AllFields : shown[f] \in Nat /\ shown[f] <= published
    BY SubscriberNumbers
  <1>9. SubscriberTypes'
    <2>1. \A i \in DOMAIN inbox' : inbox'[i].n <= published + 1
      BY <1>3, <1>6, <1>8
    <2>2. ASSUME NEW u \in DOMAIN broker
          PROVE  \/ broker'[u] = Bridge!Nothing
                 \/ /\ broker'[u] \in EmMessages /\ broker'[u].topic = u
                    /\ broker'[u].n <= published + 1 /\ broker'[u].retain
      <3>1. CASE u = t /\ broker'[u] = k
        BY <1>3, <1>4, <3>1
      <3>2. CASE broker'[u] = broker[u]
        BY <1>3, <1>8, <3>2 DEF SubscriberInv, SubscriberTypes
      <3>. QED BY <1>7, <3>1, <3>2
    <2>3. \A f \in Bridge!AllFields : shown[f] \in 0..published + 1
      BY <1>3, <1>8
    <2>4. IsFiniteSet(DOMAIN topics) /\ DOMAIN broker = {u \in DOMAIN topics : topics[u].retain}
      BY <1>3 DEF SubscriberInv, SubscriberTypes
    <2>. QED BY <1>2, <1>3, <1>6, <1>7, <2>1, <2>2, <2>3, <2>4, TopicsStay DEF SubscriberTypes
  <1>10. Behind'
    <2>1. ASSUME NEW i \in DOMAIN inbox', NEW j \in DOMAIN inbox', i < j,
                 inbox'[i].topic = inbox'[j].topic \/ ~inbox'[j].retain
          PROVE  inbox'[i].n <= inbox'[j].n
      <3>1. i \in DOMAIN inbox /\ inbox'[i] = inbox[i]
        BY <1>6, <2>1
      <3>2. CASE j \in DOMAIN inbox /\ inbox'[j] = inbox[j]
        BY <2>1, <3>1, <3>2 DEF SubscriberInv, Behind
      <3>3. CASE inbox'[j] = m
        BY <1>3, <1>8, <3>1, <3>3
      <3>. QED BY <1>6, <3>2, <3>3
    <2>2. ASSUME NEW i \in DOMAIN inbox', NEW f \in Bridge!Fields(inbox'[i].topic),
                 ~Bridge!Shared(f) \/ ~inbox'[i].retain
          PROVE  shown[f] <= inbox'[i].n
      <3>1. CASE i \in DOMAIN inbox /\ inbox'[i] = inbox[i]
        BY <2>2, <3>1 DEF SubscriberInv, Behind
      <3>2. CASE inbox'[i] = m
        BY <1>3, <1>8, <2>2, <3>2
      <3>. QED BY <1>6, <3>1, <3>2
    <2>3. ASSUME NEW u \in DOMAIN broker, NEW f \in Bridge!Fields(u), ~Bridge!Shared(f)
          PROVE  shown[f] <= broker'[u].n
      <3>1. CASE broker'[u] = broker[u]
        BY <2>3, <3>1 DEF SubscriberInv, Behind
      <3>2. CASE broker'[u] = k
        BY <1>3, <1>8, <2>3, <3>2
      <3>. QED BY <1>7, <3>1, <3>2
    <2>4. ASSUME NEW u \in DOMAIN broker, NEW i \in DOMAIN inbox', inbox'[i].topic = u
          PROVE  inbox'[i].n <= broker'[u].n
      <3>1. CASE inbox'[i] = m
        <4>1. u = t
          BY <1>3, <2>4, <3>1
        <4>. QED BY <1>3, <1>7, <3>1, <4>1
      <3>2. CASE i \in DOMAIN inbox /\ inbox'[i] = inbox[i] /\ broker'[u] = broker[u]
        BY <2>4, <3>2 DEF SubscriberInv, Behind
      <3>3. CASE i \in DOMAIN inbox /\ inbox'[i] = inbox[i] /\ broker'[u] = k
        BY <1>3, <1>8, <3>3
      <3>. QED BY <1>6, <1>7, <3>1, <3>2, <3>3
    <2>. QED BY <1>2, <1>7, <2>1, <2>2, <2>3, <2>4, TopicsStay DEF Behind
  <1>11. ShownOn
    BY <1>2 DEF ShownOn
  <1>. QED BY <1>9, <1>10, <1>11 DEF SubscriberInv

LEMMA SubscriberHandles ==
    ASSUME SubscriberInv, Bridge!Handle
    PROVE  SubscriberInv' /\ ShownOn
  <1>1. PICK m : m = Head(inbox)
    OBVIOUS
  <1>2. PICK t : t = m.topic
    OBVIOUS
  <1>3. /\ inbox # <<>> /\ inbox' = Tail(inbox)
        /\ shown' = (IF topics[t].needs \subseteq m.has
                     THEN Bridge!Taken(m) ELSE shown)
        /\ UNCHANGED <<topics, published, broker>>
    BY <1>1, <1>2 DEF Bridge!Handle
  <1>4. /\ inbox \in Seq(EmMessages)
        /\ inbox' \in Seq(EmMessages) /\ Len(inbox) \in Nat \ {0}
        /\ \A i \in 1 .. Len(inbox) - 1 : inbox'[i] = inbox[i + 1]
        /\ m \in EmMessages /\ m = inbox[1]
        /\ DOMAIN inbox' = 1 .. Len(inbox) - 1 /\ DOMAIN inbox = 1..Len(inbox)
    <2>1. inbox \in Seq(EmMessages)
      BY DEF SubscriberInv, SubscriberTypes
    <2>. QED BY <1>1, <1>3, <2>1, QueueTail
  <1>5. /\ \A i \in DOMAIN inbox : /\ inbox[i] \in EmMessages /\ inbox[i].topic \in DOMAIN topics
                                   /\ inbox[i].n \in Nat /\ inbox[i].n <= published
        /\ \A u \in DOMAIN broker : u \in DOMAIN topics /\ broker[u].n \in Nat
        /\ \A u \in DOMAIN topics : \A f \in Bridge!Fields(u) :
              shown[f] \in Nat /\ shown[f] <= published
        /\ \A f \in Bridge!AllFields : shown[f] \in Nat /\ shown[f] <= published
        /\ published \in Nat
    BY SubscriberNumbers
  <1>6. \A i \in DOMAIN inbox' : /\ i + 1 \in DOMAIN inbox /\ 1 < i + 1 /\ inbox'[i] = inbox[i + 1]
    BY <1>4
  <1>7. /\ 1 \in DOMAIN inbox /\ t \in DOMAIN topics /\ m.n \in Nat /\ m.n <= published
    <2>1. 1 \in DOMAIN inbox
      BY <1>4
    <2>. QED BY <1>2, <1>4, <1>5, <2>1
  <1>8. \A f \in Bridge!Fields(t) : ~Bridge!Shared(f) \/ ~m.retain => shown[f] <= m.n
    BY <1>2, <1>4, <1>7 DEF SubscriberInv, Behind
  <1>9. m.has \subseteq Bridge!AllFields /\ Bridge!Fields(t) \subseteq Bridge!AllFields
    BY <1>4, <1>7, MessagesAre DEF EmMessages
  <1>10. \A f \in Bridge!AllFields :
            \/ shown'[f] = shown[f]
            \/ f \in Bridge!Fields(t) /\ shown'[f] = m.n
            \/ f \in Bridge!Fields(t) \ topics[t].keeps /\ shown'[f] = 0
    <2>1. CASE shown' = shown
      BY <2>1
    <2>2. CASE shown' = Bridge!Taken(m)
      <3>1. \A f \in Bridge!AllFields :
               Bridge!Taken(m)[f] = CASE f \in m.has -> m.n
                                      [] f \in Bridge!Fields(t) \ topics[t].keeps -> 0
                                      [] OTHER -> shown[f]
        BY <1>2 DEF Bridge!Taken
      <3>2. m.has \subseteq Bridge!Fields(t)
        BY <1>2, <1>4 DEF EmMessages
      <3>. QED BY <2>2, <3>1, <3>2
    <2>. QED BY <1>3, <2>1, <2>2
  <1>11. \A f \in Bridge!AllFields : shown'[f] \in Nat /\ shown'[f] <= published
    BY <1>5, <1>7, <1>10
  <1>12. SubscriberTypes'
    <2>1. \A i \in DOMAIN inbox' : inbox'[i].n <= published
      BY <1>5, <1>6
    <2>2. \A f \in Bridge!AllFields : shown'[f] \in 0..published
      BY <1>5, <1>11
    <2>3. IsFiniteSet(DOMAIN topics) /\ published \in 0..MaxMessages
          /\ DOMAIN broker = {u \in DOMAIN topics : topics[u].retain}
          /\ \A u \in DOMAIN broker :
                \/ broker[u] = Bridge!Nothing
                \/ /\ broker[u] \in EmMessages /\ broker[u].topic = u
                   /\ broker[u].n <= published /\ broker[u].retain
      BY DEF SubscriberInv, SubscriberTypes
    <2>. QED BY <1>3, <1>4, <2>1, <2>2, <2>3, TopicsStay DEF SubscriberTypes
  <1>s. ASSUME NEW u \in DOMAIN topics, NEW f \in Bridge!Fields(u), ~Bridge!Shared(f),
               f \in Bridge!Fields(t)
        PROVE  u = t
    BY <1>7, <1>s DEF Bridge!Shared
  <1>13. Behind'
    <2>1. ASSUME NEW i \in DOMAIN inbox', NEW j \in DOMAIN inbox', i < j,
                 inbox'[i].topic = inbox'[j].topic \/ ~inbox'[j].retain
          PROVE  inbox'[i].n <= inbox'[j].n
      <3>1. i + 1 < j + 1
        BY <1>4, <2>1
      <3>. QED BY <1>6, <2>1, <3>1 DEF SubscriberInv, Behind
    <2>2. ASSUME NEW i \in DOMAIN inbox', NEW f \in Bridge!Fields(inbox'[i].topic),
                 ~Bridge!Shared(f) \/ ~inbox'[i].retain
          PROVE  shown'[f] <= inbox'[i].n
      <3>1. /\ inbox[i + 1] = inbox'[i] /\ inbox'[i].topic \in DOMAIN topics /\ inbox'[i].n \in Nat
            /\ f \in Bridge!AllFields
        BY <1>5, <1>6, <2>2, MessagesAre
      <3>2. shown[f] <= inbox'[i].n
        BY <1>6, <2>2, <3>1 DEF SubscriberInv, Behind
      <3>3. CASE f \in Bridge!Fields(t) /\ shown'[f] = m.n
        <4>1. inbox'[i].topic = t \/ ~inbox'[i].retain
          BY <1>s, <2>2, <3>1, <3>3
        <4>2. m.n <= inbox'[i].n
          BY <1>2, <1>4, <1>6, <1>7, <4>1 DEF SubscriberInv, Behind
        <4>. QED BY <3>3, <4>2
      <3>4. CASE shown'[f] = shown[f] \/ shown'[f] = 0
        BY <3>1, <3>2, <3>4
      <3>. QED BY <1>10, <3>1, <3>3, <3>4
    <2>3. ASSUME NEW u \in DOMAIN broker, NEW f \in Bridge!Fields(u), ~Bridge!Shared(f)
          PROVE  shown'[f] <= broker[u].n
      <3>1. u \in DOMAIN topics /\ broker[u].n \in Nat /\ f \in Bridge!AllFields
        BY <1>5, <2>3, MessagesAre
      <3>2. shown[f] <= broker[u].n
        BY <2>3 DEF SubscriberInv, Behind
      <3>3. CASE f \in Bridge!Fields(t) /\ shown'[f] = m.n
        <4>1. u = t
          BY <1>s, <2>3, <3>1, <3>3
        <4>. QED BY <1>2, <1>4, <1>7, <2>3, <3>3, <4>1 DEF SubscriberInv, Behind
      <3>4. CASE shown'[f] = shown[f] \/ shown'[f] = 0
        BY <3>1, <3>2, <3>4
      <3>. QED BY <1>10, <3>1, <3>3, <3>4
    <2>4. ASSUME NEW u \in DOMAIN broker, NEW i \in DOMAIN inbox', inbox'[i].topic = u
          PROVE  inbox'[i].n <= broker[u].n
      BY <1>6, <2>4 DEF SubscriberInv, Behind
    <2>. QED BY <1>3, <2>1, <2>2, <2>3, <2>4, TopicsStay DEF Behind
  <1>14. ShownOn
    <2> SUFFICES ASSUME NEW f \in Bridge!AllFields
                 PROVE  Bridge!NewerOrGone(f) \/ (Bridge!Shared(f) /\ m.retain)
      BY <1>1 DEF ShownOn
    <2>1. shown[f] \in Nat
      BY <1>5
    <2>2. CASE shown'[f] = shown[f]
      BY <2>1, <2>2 DEF Bridge!NewerOrGone
    <2>3. CASE f \in Bridge!Fields(t) /\ shown'[f] = m.n
      BY <1>7, <1>8, <2>1, <2>3 DEF Bridge!NewerOrGone
    <2>4. CASE f \in Bridge!Fields(t) \ topics[t].keeps /\ shown'[f] = 0
      BY <1>7, <2>4 DEF Bridge!NewerOrGone
    <2>. QED BY <1>10, <2>2, <2>3, <2>4
  <1>. QED BY <1>12, <1>13, <1>14 DEF SubscriberInv

LEMMA SubscriberConnects ==
    ASSUME SubscriberInv, Bridge!Connects
    PROVE  SubscriberInv' /\ ShownOn
  <1>1. PICK S : S = {broker[t] : t \in DOMAIN broker} \ {Bridge!Nothing}
    OBVIOUS
  <1>2. PICK listed : listed = Bridge!SetToSeq(S)
    OBVIOUS
  <1>3. inbox' \in {listed, listed \o listed} /\ UNCHANGED <<topics, published, broker, shown>>
    BY <1>1, <1>2 DEF Bridge!Connects
  <1>4. \A x \in S : /\ x \in EmMessages /\ x.topic \in DOMAIN broker
                    /\ x = broker[x.topic] /\ x.retain
    BY <1>1 DEF SubscriberInv, SubscriberTypes
  <1>5. IsFiniteSet(S)
    <2>1. DOMAIN broker \subseteq DOMAIN topics /\ IsFiniteSet(DOMAIN topics)
      BY DEF SubscriberInv, SubscriberTypes
    <2>2. IsFiniteSet(DOMAIN broker)
      BY <2>1, FS_Subset
    <2>3. IsFiniteSet({broker[t] : t \in DOMAIN broker})
      <3>1. PICK g : g = [t \in DOMAIN broker |-> broker[t]]
        OBVIOUS
      <3>2. g \in Surjection(DOMAIN broker, {broker[t] : t \in DOMAIN broker})
        BY <3>1 DEF Surjection
      <3>. QED BY <2>2, <3>2, FS_Surjection
    <2>. QED BY <1>1, <2>3, FS_Difference
  <1>6. listed \in [1 .. Cardinality(S) -> S] /\ Cardinality(S) \in Nat
    <2>1. Cardinality(S) \in Nat /\ \E f \in [1 .. Cardinality(S) -> S] : IsInjective(f)
      BY <1>5, ListingExists
    <2>2. listed = CHOOSE f \in [1 .. Cardinality(S) -> S] : IsInjective(f)
      BY <1>2 DEF Bridge!SetToSeq, Bridge!IsInjective, IsInjective, Bridge!Cardinality, Cardinality
    <2>. QED BY <2>1, <2>2
  <1>7. listed \in Seq(S)
    BY <1>6
  <1>8. inbox' \in Seq(S)
    <2>1. listed \o listed \in Seq(S)
      BY <1>7
    <2>. QED BY <1>3, <1>7, <2>1
  <1>9. \A i \in DOMAIN inbox' : inbox'[i] \in S
    BY <1>8
  <1>10. /\ \A i \in DOMAIN inbox' : /\ inbox'[i].topic \in DOMAIN broker
                                     /\ inbox'[i] = broker[inbox'[i].topic]
                                     /\ inbox'[i].retain
         /\ \A u \in DOMAIN broker : u \in DOMAIN topics /\ broker[u].n \in Nat
    BY <1>4, <1>9, SubscriberNumbers
  <1>11. SubscriberTypes'
    <2>1. inbox' \in Seq(EmMessages)
      BY <1>4, <1>8
    <2>2. \A i \in DOMAIN inbox' : inbox'[i].n <= published
      <3> SUFFICES ASSUME NEW i \in DOMAIN inbox' PROVE inbox'[i].n <= published
        OBVIOUS
      <3>1. PICK x : x = inbox'[i]
        OBVIOUS
      <3>2. x # Bridge!Nothing /\ x.topic \in DOMAIN broker /\ x = broker[x.topic]
        BY <1>1, <1>4, <1>9, <3>1
      <3>. QED BY <3>1, <3>2 DEF SubscriberInv, SubscriberTypes
    <2>. QED BY <1>3, <2>1, <2>2, TopicsStay DEF SubscriberInv, SubscriberTypes
  <1>12. Behind'
    <2>1. \A i, j \in DOMAIN inbox' :
             i < j /\ (inbox'[i].topic = inbox'[j].topic \/ ~inbox'[j].retain)
                => inbox'[i].n <= inbox'[j].n
      <3> SUFFICES ASSUME NEW i \in DOMAIN inbox', NEW j \in DOMAIN inbox',
                          inbox'[i].topic = inbox'[j].topic \/ ~inbox'[j].retain
                   PROVE  inbox'[i].n <= inbox'[j].n
        OBVIOUS
      <3>1. inbox'[i] = inbox'[j] /\ inbox'[j].n \in Nat
        BY <1>10
      <3>. QED BY <3>1
    <2>2. ASSUME NEW i \in DOMAIN inbox', NEW f \in Bridge!Fields(inbox'[i].topic),
                 ~Bridge!Shared(f) \/ ~inbox'[i].retain
          PROVE  shown[f] <= inbox'[i].n
      <3>1. PICK u : u = inbox'[i].topic
        OBVIOUS
      <3>2. u \in DOMAIN broker /\ inbox'[i] = broker[u] /\ f \in Bridge!Fields(u) /\ ~Bridge!Shared(f)
        BY <1>10, <2>2, <3>1
      <3>. QED BY <3>1, <3>2 DEF SubscriberInv, Behind
    <2>3. ASSUME NEW u \in DOMAIN broker, NEW i \in DOMAIN inbox', inbox'[i].topic = u
          PROVE  inbox'[i].n <= broker[u].n
      <3>1. inbox'[i].n = broker[u].n /\ broker[u].n \in Nat
        BY <1>10, <2>3
      <3>. QED BY <3>1
    <2>4. \A u \in DOMAIN broker : \A f \in Bridge!Fields(u) :
             ~Bridge!Shared(f) => shown[f] <= broker[u].n
      BY DEF SubscriberInv, Behind
    <2>. QED BY <1>3, <2>1, <2>2, <2>3, <2>4, TopicsStay DEF Behind
  <1>. QED BY <1>3, <1>11, <1>12 DEF SubscriberInv, ShownOn

LEMMA SubscriberRestarts ==
    ASSUME SubscriberInv, Bridge!ServerRestarts
    PROVE  SubscriberInv' /\ ShownOn
  <1>1. inbox' = <<>> /\ shown' = Bridge!NoState /\ UNCHANGED <<topics, published, broker>>
    BY DEF Bridge!ServerRestarts
  <1>2. inbox' \in Seq(EmMessages) /\ DOMAIN inbox' = {}
    BY <1>1
  <1>3. \A f \in Bridge!AllFields : shown'[f] = 0
    BY <1>1, NoStateIs
  <1>4. SubscriberTypes'
    <2>1. \A f \in Bridge!AllFields : shown'[f] \in 0..published
      BY <1>3, SubscriberNumbers
    <2>. QED BY <1>1, <1>2, <2>1, TopicsStay DEF SubscriberInv, SubscriberTypes
  <1>5. Behind'
    <2>1. \A t \in DOMAIN broker : \A f \in Bridge!Fields(t) : shown'[f] <= broker[t].n
      BY <1>3, SubscriberNumbers, MessagesAre
    <2>. QED BY <1>1, <1>2, <2>1, TopicsStay DEF Behind
  <1>. QED BY <1>1, <1>4, <1>5 DEF SubscriberInv, ShownOn

LEMMA SubscriberStays ==
    ASSUME SubscriberInv, UNCHANGED <<topics, published, broker, inbox, shown>>
    PROVE  SubscriberInv' /\ ShownOn
  <1>1. SubscriberInv'
    BY TopicsStay DEF SubscriberInv, SubscriberTypes, Behind
  <1>2. ShownOn
    BY DEF ShownOn
  <1>. QED BY <1>1, <1>2

LEMMA SubscriberStep ==
    ASSUME SubscriberInv, Bridge!BridgeNext
    PROVE  SubscriberInv' /\ ShownOn
  <1>1. CASE Bridge!Handle
    BY <1>1, SubscriberHandles
  <1>2. CASE Bridge!Connects
    BY <1>2, SubscriberConnects
  <1>3. CASE Bridge!ServerRestarts
    BY <1>3, SubscriberRestarts
  <1>4. ASSUME NEW t \in DOMAIN topics, Bridge!EmPublishes(t) PROVE SubscriberInv' /\ ShownOn
    BY <1>4, SubscriberPublishes
  <1>5. CASE \/ Bridge!Snapshot \/ Bridge!Tick \/ Bridge!Publish \/ Bridge!Transmit
             \/ Bridge!EmLearns \/ Bridge!EmRestarts
    <2>1. UNCHANGED <<topics, published, broker, inbox, shown>>
      BY <1>5 DEF Bridge!Snapshot, Bridge!Tick, Bridge!Publish, Bridge!Transmit,
                  Bridge!EmLearns, Bridge!EmRestarts, Bridge!subscriberVars
    <2>. QED BY <2>1, SubscriberStays
  <1>. QED BY <1>1, <1>2, <1>3, <1>4, <1>5 DEF Bridge!BridgeNext

-----------------------------------------------------------------------------
TopicsInv == PublisherInv /\ SubscriberInv

LEMMA TopicsPart == PartsSpec => [](part = "topics" => TopicsInv)
  <1>1. PartsInit => TopicsInv
    BY PublisherInvInit, SubscriberInvInit DEF PartsInit, TopicsInv
  <1>2. (part = "topics" => TopicsInv) /\ [PartsNext]_partsVars
           => (part = "topics" => TopicsInv)'
    <2> SUFFICES ASSUME part = "topics" => TopicsInv, [PartsNext]_partsVars, part' = "topics"
                 PROVE  TopicsInv'
      OBVIOUS
    <2>1. CASE PartsNext
      BY <2>1, PublisherStep, SubscriberStep DEF PartsNext, TopicsInv
    <2>2. CASE UNCHANGED partsVars
      <3>1. TopicsInv /\ UNCHANGED topicVars
        BY <2>2 DEF partsVars, measureVars
      <3>2. UNCHANGED Bridge!publisherVars /\ UNCHANGED <<topics, published, broker, inbox, shown>>
        BY <3>1 DEF topicVars, Bridge!publisherVars
      <3>. QED BY <3>1, <3>2, PublisherStays, SubscriberStays DEF TopicsInv
    <2>. QED BY <2>1, <2>2
  <1>. QED BY <1>1, <1>2, PTL DEF PartsSpec

LEMMA TopicsInvTypes == TopicsInv => Bridge!BridgeTypesOK
  <1> SUFFICES ASSUME TopicsInv PROVE Bridge!BridgeTypesOK
    OBVIOUS
  <1>1. /\ Len(queue) <= EventloopCap /\ Len(tick) <= Len(device)
        /\ \A t \in DOMAIN retained : retained[t] \in 0..snapshots
        /\ latest \in 0..snapshots /\ upTo \in 0..latest /\ disturbed \in BOOLEAN
    BY DEF TopicsInv, PublisherInv, PublisherTypes
  <1>2. /\ published \in 0..MaxMessages
        /\ \A f \in Bridge!AllFields : shown[f] \in 0..published
    BY DEF TopicsInv, SubscriberInv, SubscriberTypes
  <1>. QED BY <1>1, <1>2 DEF Bridge!BridgeTypesOK

\* What the broker keeps of a device, and every field the server shows, only
\* ever gets newer; but for a field that two topics set, the yield of the day,
\* which a retained message that comes again at a reconnection may put back.
THEOREM NeverOlder == PartsSpec => NothingOlder
  <1>1. (part = "topics" => TopicsInv) /\ [PartsNext]_partsVars
           => [ /\ \A t \in DOMAIN retained :
                      /\ retained'[t] >= retained[t]
                      /\ tick' = <<>> /\ queue' = <<>> /\ ~disturbed' /\ upTo' # 0 => retained'[t] = upTo'
                /\ \A f \in Bridge!AllFields :
                      shown' # shown /\ shown' # Bridge!NoState =>
                         Bridge!NewerOrGone(f) \/ (Bridge!Shared(f) /\ Head(inbox).retain)
              ]_(Bridge!bridgeVars)
    <2> SUFFICES ASSUME part = "topics" => TopicsInv, [PartsNext]_partsVars, ~UNCHANGED topicVars
                 PROVE  NotBack /\ ShownOn
      BY DEF NotBack, ShownOn, Bridge!bridgeVars, topicVars
    <2>1. TopicsInv /\ Bridge!BridgeNext
      BY DEF PartsNext, partsVars, measureVars
    <2>. QED BY <2>1, PublisherStep, SubscriberStep DEF TopicsInv
  <1>. QED BY <1>1, TopicsPart, PTL DEF PartsSpec, NothingOlder, Bridge!NothingOlder, Bridge!bridgeVars

-----------------------------------------------------------------------------
(* What is shown on D-Bus of each kind.                                    *)

KindValues == [connected : BOOLEAN, fields : [Venus!Fields(kind) -> -writes..sent]]
Copied == Venus!Of(kind).values.copied

VenusTypes ==
    /\ kind \in VenusSources /\ service \in {"absent", "there"}
    /\ sent \in Nat /\ writes \in Nat
    /\ manager.stage \in {"idle", "write", "emit"}
    /\ values \in KindValues /\ leaves \subseteq Venus!Fields(kind)
    /\ manager.stage = "write" => manager.with \in KindValues
    /\ doubt \in {"no", "old", "new"}
    /\ DOMAIN kept \subseteq Venus!Of(kind).service.writable

\* What the manager is about to emit is what is held, unless the console has
\* written since; and it is about to write what the console wrote before.
ManagerHolds ==
    /\ manager.stage = "emit" /\ doubt # "new" => manager.with = Venus!Items(kind, values)
    /\ manager.stage = "write" =>
          \A f \in DOMAIN kept \cap Copied : manager.with.fields[f] = kept[f]

VenusInv == VenusTypes /\ ManagerHolds /\ Venus!ToldIsHeld /\ Venus!ConsoleWritesKept

LEMMA FieldsAre ==
    /\ \A k : Venus!Of(k).values.copied \subseteq Venus!Fields(k)
    /\ Venus!Fields("grid") = {"meta", "l1", "l2", "l3"}
  <1>1. \A k : Venus!Of(k).values.copied \subseteq Venus!Fields(k)
    BY DEF Venus!Fields
  <1>2. Venus!Of("grid") = Venus!Parts(Venus!GridPayload, Venus!GridValues, Venus!GridService,
                                       Venus!GridSource, Venus!GridManager)
    BY DEF Venus!Of, Venus!AllKinds
  <1>3. Venus!Of("grid").values = Venus!Values({"meta", "l1", "l2", "l3"}, {})
    BY <1>2 DEF Venus!Parts, Venus!GridValues
  <1>4. Venus!Fields("grid") = {"meta", "l1", "l2", "l3"}
    BY <1>3 DEF Venus!Fields, Venus!Values
  <1>. QED BY <1>1, <1>4

LEMMA ItemsAre == ASSUME NEW k, NEW v PROVE DOMAIN Venus!Items(k, v).fields \subseteq Venus!Fields(k)
  <1>1. Venus!Items(k, v).fields =
           [f \in IF k = "grid" THEN Venus!GridShown(v.fields) ELSE Venus!Fields(k) |-> v.fields[f]]
    BY DEF Venus!Items
  <1>2. DOMAIN Venus!Items(k, v).fields = IF k = "grid" THEN Venus!GridShown(v.fields) ELSE Venus!Fields(k)
    BY <1>1
  <1>3. Venus!GridShown(v.fields) \subseteq {"meta", "l1", "l2", "l3"}
    BY DEF Venus!GridShown
  <1>. QED BY <1>2, <1>3, FieldsAre

\* What an update copies is none of what a payload may have.
LEMMA CopiedApart ==
    ASSUME NEW has \in Venus!Messages(kind), kind \in VenusSources
    PROVE  \A f \in has : f \notin Copied
  <1>1. kind \in {"battery", "temperature", "heatpump", "meteo", "switch", "grid", "pvinverter", "platform"}
    BY ReadSideBounds DEF Venus!KindsAssumption, Venus!AllKinds
  <1>2. has \subseteq Venus!Of(kind).payload.required \cup Venus!Of(kind).payload.optional
    BY DEF Venus!Messages
  <1>3. CASE kind = "battery"
    <2>1. Venus!Of(kind).values = Venus!BatteryValues
      BY <1>3 DEF Venus!Of, Venus!AllKinds, Venus!Parts
    <2>2. Venus!BatteryValues.copied = {}
      BY DEF Venus!BatteryValues, Venus!Values
    <2>. QED BY <2>1, <2>2 DEF Copied
  <1>4. CASE kind = "temperature"
    <2>1. Venus!Of(kind).values = Venus!SensorValues
      BY <1>4 DEF Venus!Of, Venus!AllKinds, Venus!Parts
    <2>2. Venus!SensorValues.copied = {}
      BY DEF Venus!SensorValues, Venus!Values
    <2>. QED BY <2>1, <2>2 DEF Copied
  <1>5. CASE kind = "heatpump"
    <2>1. Venus!Of(kind).values = Venus!HeatpumpValues
      BY <1>5 DEF Venus!Of, Venus!AllKinds, Venus!Parts
    <2>2. Venus!HeatpumpValues.copied = {}
      BY DEF Venus!HeatpumpValues, Venus!Values
    <2>. QED BY <2>1, <2>2 DEF Copied
  <1>6. CASE kind = "meteo"
    <2>1. Venus!Of(kind).values = Venus!MeteoValues
      BY <1>6 DEF Venus!Of, Venus!AllKinds, Venus!Parts
    <2>2. Venus!MeteoValues.copied = {}
      BY DEF Venus!MeteoValues, Venus!Values
    <2>. QED BY <2>1, <2>2 DEF Copied
  <1>7. CASE kind = "switch"
    <2>1. Venus!Of(kind).values = Venus!SwitchValues /\ Venus!Of(kind).payload = Venus!SwitchPayload
      BY <1>7 DEF Venus!Of, Venus!AllKinds, Venus!Parts
    <2>2. Venus!SwitchValues.copied = {"custom_name"}
      BY DEF Venus!SwitchValues, Venus!Values
    <2>3. \A f \in Venus!SwitchPayload.required \cup Venus!SwitchPayload.optional : f \notin {"custom_name"}
      BY DEF Venus!SwitchPayload, Venus!Payload
    <2>. QED BY <1>2, <2>1, <2>2, <2>3 DEF Copied
  <1>8. CASE kind = "grid"
    <2>1. Venus!Of(kind).values = Venus!GridValues
      BY <1>8 DEF Venus!Of, Venus!AllKinds, Venus!Parts
    <2>2. Venus!GridValues.copied = {}
      BY DEF Venus!GridValues, Venus!Values
    <2>. QED BY <2>1, <2>2 DEF Copied
  <1>9. CASE kind = "pvinverter"
    <2>1. Venus!Of(kind).values = Venus!PvinverterValues /\ Venus!Of(kind).payload = Venus!PvinverterPayload
      BY <1>9 DEF Venus!Of, Venus!AllKinds, Venus!Parts
    <2>2. Venus!PvinverterValues.copied = {"role"}
      BY DEF Venus!PvinverterValues, Venus!Values
    <2>3. \A f \in Venus!PvinverterPayload.required \cup Venus!PvinverterPayload.optional : f \notin {"role"}
      BY DEF Venus!PvinverterPayload, Venus!Payload
    <2>. QED BY <1>2, <2>1, <2>2, <2>3 DEF Copied
  <1>10. CASE kind = "platform"
    <2>1. Venus!Of(kind).values = Venus!PlatformValues
      BY <1>10 DEF Venus!Of, Venus!AllKinds, Venus!Parts
    <2>2. Venus!PlatformValues.copied = {}
      BY DEF Venus!PlatformValues, Venus!Values
    <2>. QED BY <2>1, <2>2 DEF Copied
  <1>. QED BY <1>1, <1>3, <1>4, <1>5, <1>6, <1>7, <1>8, <1>9, <1>10

LEMMA VenusInvInit == Venus!KindsInit => VenusInv
  <1> SUFFICES ASSUME Venus!KindsInit PROVE VenusInv
    OBVIOUS
  <1>1. /\ kind \in VenusSources /\ sent = 0 /\ writes = 0 /\ service = "absent"
        /\ values = Venus!Disconnected(kind) /\ leaves = {} /\ manager = Venus!Idle
        /\ doubt = "no" /\ kept = <<>>
    BY DEF Venus!KindsInit
  <1>2. values \in KindValues
    BY <1>1 DEF Venus!Disconnected, KindValues
  <1>3. manager.stage = "idle" /\ DOMAIN kept = {}
    BY <1>1 DEF Venus!Idle
  <1>4. VenusTypes
    BY <1>1, <1>2, <1>3 DEF VenusTypes
  <1>. QED BY <1>1, <1>3, <1>4 DEF VenusInv, ManagerHolds, Venus!ToldIsHeld, Venus!ConsoleWritesKept

LEMMA VenusHandle ==
    ASSUME VenusInv, NEW has \in Venus!Messages(kind), Venus!Handle(has)
    PROVE  VenusInv'
  <1>1. /\ manager.stage = "idle" /\ sent' = sent + 1
        /\ UNCHANGED <<kind, values, told, doubt, writes, kept>>
        /\ \/ service' = "there" /\ leaves' \in {leaves, DOMAIN Venus!Items(kind, values).fields}
              /\ manager' = [stage |-> "write",
                             with |-> Venus!FromPayload(kind, sent + 1, has, values.fields)]
           \/ UNCHANGED <<service, leaves, manager>>
    BY DEF Venus!Handle
  <1>2. sent \in Nat /\ writes \in Nat /\ values \in KindValues /\ leaves \subseteq Venus!Fields(kind)
        /\ DOMAIN kept \subseteq Venus!Of(kind).service.writable
    BY DEF VenusInv, VenusTypes
  <1>3. PICK F : F = Venus!Fields(kind)
    OBVIOUS
  <1>4. /\ values.connected \in BOOLEAN /\ values.fields \in [F -> -writes..sent]
        /\ values \in [connected : BOOLEAN, fields : [F -> -writes..sent + 1]]
    <2>1. values \in [connected : BOOLEAN, fields : [F -> -writes..sent]]
      BY <1>2, <1>3 DEF KindValues
    <2>2. \A x \in -writes..sent : x \in -writes..sent + 1
      BY <1>2
    <2>3. values.fields \in [F -> -writes..sent + 1]
      BY <2>1, <2>2
    <2>. QED BY <2>1, <2>3
  <1>5. KindValues' = [connected : BOOLEAN, fields : [F -> -writes..sent + 1]]
    BY <1>1, <1>3 DEF KindValues, Venus!Fields, Venus!Of, Venus!AllKinds
  <1>6. \A f \in DOMAIN kept \cap Copied : values.fields[f] = kept[f]
    BY DEF VenusInv, Venus!ConsoleWritesKept, Copied
  <1>7. PICK w : w = Venus!FromPayload(kind, sent + 1, has, values.fields)
    OBVIOUS
  <1>8. /\ w = [connected |-> TRUE, fields |-> w.fields] /\ DOMAIN w.fields = F
        /\ w.fields = [f \in F |-> w.fields[f]]
        /\ \A f \in F : w.fields[f] \in {values.fields[f], sent + 1, 0}
        /\ \A f \in F : f \in Copied => w.fields[f] = values.fields[f]
    <2>1. \A f \in has : f \notin Copied
      BY CopiedApart DEF VenusInv, VenusTypes
    <2>2. w = [connected |-> TRUE,
               fields |-> [f \in F |-> CASE f \in Copied -> values.fields[f]
                                         [] f \in has -> sent + 1
                                         [] OTHER -> 0]]
      BY <1>3, <1>7 DEF Venus!FromPayload, Copied
    <2>3. \A f \in F : w.fields[f] = CASE f \in Copied -> values.fields[f]
                                        [] f \in has -> sent + 1
                                        [] OTHER -> 0
      BY <2>2
    <2>4. \A f \in F : w.fields[f] \in {values.fields[f], sent + 1, 0}
      BY <2>3
    <2>5. \A f \in F : f \in Copied => w.fields[f] = values.fields[f]
      BY <2>1, <2>3
    <2>. QED BY <2>2, <2>4, <2>5
  <1>9. \A f \in F : w.fields[f] \in -writes..sent + 1
    <2> SUFFICES ASSUME NEW f \in F PROVE w.fields[f] \in -writes..sent + 1
      OBVIOUS
    <2>1. values.fields[f] \in -writes..sent + 1 /\ 0 \in -writes..sent + 1 /\ sent + 1 \in -writes..sent + 1
      BY <1>2, <1>4
    <2>. QED BY <1>8, <2>1
  <1>10. w \in [connected : BOOLEAN, fields : [F -> -writes..sent + 1]]
    <2>1. PICK g : g = w.fields
      OBVIOUS
    <2>2. g \in [F -> -writes..sent + 1]
      BY <1>8, <1>9, <2>1
    <2>3. w = [connected |-> TRUE, fields |-> g]
      BY <1>8, <2>1
    <2>. QED BY <2>2, <2>3
  <1>11. \A f \in Copied : f \in F
    BY <1>3, FieldsAre DEF Copied
  <1>12. Copied' = Copied /\ Venus!Fields(kind)' = Venus!Fields(kind)
         /\ Venus!Of(kind)' = Venus!Of(kind)
    BY <1>1 DEF Copied, Venus!Fields, Venus!Of, Venus!AllKinds
  <1>13. VenusTypes'
    <2>1. leaves' \subseteq Venus!Fields(kind)
      BY <1>1, <1>2, ItemsAre
    <2>2. manager'.stage \in {"idle", "write"} /\ (manager'.stage = "write" => manager'.with = w)
      BY <1>1, <1>7
    <2>3. values' \in KindValues' /\ (manager'.stage = "write" => manager'.with \in KindValues')
      BY <1>1, <1>4, <1>5, <1>10, <2>2
    <2>4. service' \in {"absent", "there"} /\ kind \in VenusSources /\ doubt \in {"no", "old", "new"}
      BY <1>1 DEF VenusInv, VenusTypes
    <2>. QED BY <1>1, <1>2, <1>12, <2>1, <2>2, <2>3, <2>4 DEF VenusTypes
  <1>14. ManagerHolds'
    <2>1. \A f \in DOMAIN kept \cap Copied : w.fields[f] = kept[f]
      BY <1>6, <1>8, <1>11
    <2>2. manager'.stage \in {"idle", "write"} /\ (manager'.stage = "write" => manager'.with = w)
      BY <1>1, <1>7
    <2>. QED BY <1>1, <1>12, <2>1, <2>2 DEF ManagerHolds
  <1>15. Venus!ToldIsHeld'
    <2>1. CASE manager'.stage = "write"
      BY <2>1 DEF Venus!ToldIsHeld
    <2>2. CASE UNCHANGED <<service, manager>>
      BY <1>1, <2>2 DEF VenusInv, Venus!ToldIsHeld, Venus!Items, Venus!GridShown, Venus!Fields,
                        Venus!Of, Venus!AllKinds, Venus!NoItems
    <2>. QED BY <1>1, <2>1, <2>2
  <1>16. Venus!ConsoleWritesKept'
    BY <1>1, <1>6, <1>12 DEF Venus!ConsoleWritesKept, Copied
  <1>. QED BY <1>13, <1>14, <1>15, <1>16 DEF VenusInv

LEMMA VenusKindStays ==
    ASSUME kind' = kind
    PROVE  /\ Copied' = Copied /\ Venus!Fields(kind)' = Venus!Fields(kind)
           /\ Venus!Of(kind)' = Venus!Of(kind)
           /\ Venus!Items(kind, values)' = Venus!Items(kind, values')
           /\ Venus!NoItems' = Venus!NoItems
           /\ UNCHANGED <<sent, writes>> => KindValues' = KindValues
  <1>1. /\ Copied' = Copied /\ Venus!Fields(kind)' = Venus!Fields(kind)
        /\ Venus!Of(kind)' = Venus!Of(kind)
    BY DEF Copied, Venus!Fields, Venus!Of, Venus!AllKinds
  <1>2. Venus!Items(kind, values)' = Venus!Items(kind, values')
    BY DEF Venus!Items, Venus!GridShown, Venus!Fields, Venus!Of, Venus!AllKinds
  <1>3. Venus!NoItems' = Venus!NoItems
    BY DEF Venus!NoItems
  <1>4. UNCHANGED <<sent, writes>> => KindValues' = KindValues
    BY <1>1 DEF KindValues
  <1>. QED BY <1>1, <1>2, <1>3, <1>4

LEMMA VenusWrites ==
    ASSUME VenusInv, Venus!WriteValues
    PROVE  VenusInv'
  <1>1. /\ manager.stage = "write" /\ values' = manager.with
        /\ manager' = [stage |-> "emit", with |-> Venus!Items(kind, values')]
        /\ doubt' = IF doubt = "new" THEN "old" ELSE doubt
        /\ UNCHANGED <<kind, sent, service, leaves, told, writes, kept>>
    BY DEF Venus!WriteValues, Venus!Settles
  <1>2. manager'.stage = "emit" /\ manager'.with = Venus!Items(kind, values')
    BY <1>1
  <1>3. VenusTypes'
    BY <1>1, <1>2, VenusKindStays DEF VenusInv, VenusTypes
  <1>4. ManagerHolds'
    BY <1>1, <1>2, VenusKindStays DEF ManagerHolds
  <1>5. Venus!ToldIsHeld'
    BY <1>2 DEF Venus!ToldIsHeld
  <1>6. Venus!ConsoleWritesKept'
    BY <1>1, VenusKindStays DEF VenusInv, ManagerHolds, Venus!ConsoleWritesKept, Copied
  <1>. QED BY <1>3, <1>4, <1>5, <1>6 DEF VenusInv

LEMMA VenusEmits ==
    ASSUME VenusInv, Venus!Emit
    PROVE  VenusInv'
  <1>1. /\ manager.stage = "emit" /\ manager' = Venus!Idle
        /\ \/ told' = manager.with /\ (doubt = "new" => doubt' = "new")
           \/ doubt' # "no"
        /\ doubt' \in {"no", "old", "new"}
        /\ UNCHANGED <<kind, sent, service, values, leaves, writes, kept>>
    <2>1. doubt \in {"no", "old", "new"}
      BY DEF VenusInv, VenusTypes
    <2>. QED BY <2>1 DEF Venus!Emit, Venus!Doubtful
  <1>2. manager'.stage = "idle"
    BY <1>1 DEF Venus!Idle
  <1>3. VenusTypes'
    BY <1>1, <1>2, VenusKindStays DEF VenusInv, VenusTypes
  <1>4. ManagerHolds'
    BY <1>2 DEF ManagerHolds
  <1>5. Venus!ToldIsHeld'
    BY <1>1, VenusKindStays DEF VenusInv, ManagerHolds, Venus!ToldIsHeld
  <1>6. Venus!ConsoleWritesKept'
    BY <1>1, VenusKindStays DEF VenusInv, Venus!ConsoleWritesKept
  <1>. QED BY <1>3, <1>4, <1>5, <1>6 DEF VenusInv

LEMMA VenusRepublishes ==
    ASSUME VenusInv, NEW late \in BOOLEAN, Venus!RepublishAndWatchdog(late)
    PROVE  VenusInv'
  <1>1. /\ manager.stage = "idle"
        /\ values' = (IF late THEN [values EXCEPT !.connected = FALSE] ELSE values)
        /\ manager' = [stage |-> "emit", with |-> Venus!Items(kind, values')]
        /\ doubt' = (IF doubt = "new" THEN "old" ELSE doubt)
        /\ UNCHANGED <<kind, sent, service, leaves, told, writes, kept>>
    BY DEF Venus!RepublishAndWatchdog, Venus!Settles
  <1>2. manager'.stage = "emit" /\ manager'.with = Venus!Items(kind, values')
    BY <1>1
  <1>3. values \in KindValues
    BY DEF VenusInv, VenusTypes
  <1>4. values' \in KindValues /\ values'.fields = values.fields
    BY <1>1, <1>3 DEF KindValues
  <1>5. VenusTypes'
    BY <1>1, <1>2, <1>4, VenusKindStays DEF VenusInv, VenusTypes
  <1>6. ManagerHolds'
    BY <1>1, <1>2, VenusKindStays DEF ManagerHolds
  <1>7. Venus!ToldIsHeld'
    BY <1>2 DEF Venus!ToldIsHeld
  <1>8. Venus!ConsoleWritesKept'
    BY <1>1, <1>4, VenusKindStays DEF VenusInv, Venus!ConsoleWritesKept, Copied
  <1>. QED BY <1>5, <1>6, <1>7, <1>8 DEF VenusInv

LEMMA VenusSets ==
    ASSUME VenusInv, NEW f \in leaves, Venus!SetValue(f)
    PROVE  VenusInv'
  <1>1. PICK n : n = writes + 1
    OBVIOUS
  <1>2. /\ f \in Venus!Of(kind).service.writable /\ writes' = n /\ doubt' = "new"
        /\ values' = [values EXCEPT !.fields[f] = -n]
        /\ kept' = [g \in (DOMAIN kept \cup {f}) \ {h \in {f} : manager.stage = "write"} |->
                      IF g = f THEN -n ELSE kept[g]]
        /\ UNCHANGED <<kind, sent, service, leaves, manager, told>>
    BY <1>1 DEF Venus!SetValue
  <1>3. PICK F : F = Venus!Fields(kind)
    OBVIOUS
  <1>4. /\ writes \in Nat /\ sent \in Nat /\ f \in F
        /\ values \in [connected : BOOLEAN, fields : [F -> -writes..sent]]
        /\ manager.stage = "write" => manager.with \in [connected : BOOLEAN, fields : [F -> -writes..sent]]
    BY <1>3 DEF VenusInv, VenusTypes, KindValues
  <1>5. KindValues' = [connected : BOOLEAN, fields : [F -> -n..sent]]
    BY <1>2, <1>3, VenusKindStays DEF KindValues
  <1>6. \A x \in -writes..sent : x \in -n..sent
    BY <1>1, <1>4
  <1>7. /\ values'.fields = [values.fields EXCEPT ![f] = -n]
        /\ values' \in [connected : BOOLEAN, fields : [F -> -n..sent]]
    <2>1. PICK v : v = values.fields
      OBVIOUS
    <2>2. v \in [F -> -n..sent] /\ -n \in -n..sent
      BY <1>1, <1>4, <1>6, <2>1
    <2>3. [v EXCEPT ![f] = -n] \in [F -> -n..sent]
      BY <1>4, <2>2
    <2>4. values' = [values EXCEPT !.fields = [v EXCEPT ![f] = -n]]
      BY <1>2, <2>1
    <2>. QED BY <1>4, <2>1, <2>3, <2>4
  <1>8. manager.stage = "write" => manager.with \in KindValues'
    <2> SUFFICES ASSUME manager.stage = "write" PROVE manager.with \in KindValues'
      OBVIOUS
    <2>1. PICK w : w = manager.with
      OBVIOUS
    <2>2. w \in [connected : BOOLEAN, fields : [F -> -writes..sent]]
      BY <1>4, <2>1
    <2>3. w.fields \in [F -> -n..sent]
      BY <1>6, <2>2
    <2>4. w \in [connected : BOOLEAN, fields : [F -> -n..sent]]
      BY <2>2, <2>3
    <2>. QED BY <1>5, <2>1, <2>4
  <1>9. VenusTypes'
    <2>1. DOMAIN kept' \subseteq Venus!Of(kind).service.writable
      BY <1>2 DEF VenusInv, VenusTypes
    <2>2. n \in Nat
      BY <1>1, <1>4
    <2>. QED BY <1>2, <1>5, <1>7, <1>8, <2>1, <2>2, VenusKindStays DEF VenusInv, VenusTypes
  <1>10. ASSUME NEW g \in DOMAIN kept' \cap Copied
         PROVE  /\ values'.fields[g] = kept'[g]
                /\ manager.stage = "write" => manager.with.fields[g] = kept'[g]
    <2>1. g \in F /\ DOMAIN values.fields = F
      BY <1>3, <1>4, FieldsAre DEF Copied
    <2>2. CASE g = f
      <3>1. manager.stage # "write" /\ kept'[g] = -n
        BY <1>2, <1>10, <2>2
      <3>. QED BY <1>7, <2>1, <2>2, <3>1
    <2>3. CASE g # f
      <3>1. g \in DOMAIN kept /\ kept'[g] = kept[g]
        BY <1>2, <1>10, <2>3
      <3>2. values'.fields[g] = values.fields[g]
        BY <1>7, <2>1, <2>3
      <3>. QED BY <1>10, <3>1, <3>2 DEF VenusInv, ManagerHolds, Venus!ConsoleWritesKept, Copied
    <2>. QED BY <2>2, <2>3
  <1>11. ManagerHolds'
    BY <1>2, <1>10, VenusKindStays DEF ManagerHolds
  <1>12. Venus!ToldIsHeld'
    BY <1>2 DEF Venus!ToldIsHeld
  <1>13. Venus!ConsoleWritesKept'
    BY <1>2, <1>10, VenusKindStays DEF Venus!ConsoleWritesKept, Copied
  <1>. QED BY <1>9, <1>11, <1>12, <1>13 DEF VenusInv

LEMMA VenusTells ==
    ASSUME VenusInv, Venus!GetItems \/ \E i \in DOMAIN signals : Venus!Signalled(i)
    PROVE  VenusInv'
  <1>1. /\ UNCHANGED <<kind, sent, service, values, leaves, manager, writes, kept>>
        /\ \/ told' = Venus!Items(kind, values) /\ doubt' = doubt
           \/ doubt' = (IF doubt = "no" THEN "old" ELSE doubt)
    BY DEF Venus!GetItems, Venus!Signalled, Venus!Doubtful
  <1>2. doubt' \in {"no", "old", "new"} /\ (doubt' = "new" <=> doubt = "new")
        /\ (doubt' = "no" => told' = Venus!Items(kind, values))
    BY <1>1 DEF VenusInv, VenusTypes
  <1>3. VenusTypes'
    BY <1>1, <1>2, VenusKindStays DEF VenusInv, VenusTypes
  <1>4. ManagerHolds'
    BY <1>1, <1>2, VenusKindStays DEF VenusInv, ManagerHolds
  <1>5. Venus!ToldIsHeld'
    BY <1>1, <1>2, VenusKindStays DEF Venus!ToldIsHeld
  <1>6. Venus!ConsoleWritesKept'
    BY <1>1, VenusKindStays DEF VenusInv, Venus!ConsoleWritesKept, Copied
  <1>. QED BY <1>3, <1>4, <1>5, <1>6 DEF VenusInv

LEMMA VenusPart == PartsSpec => [](part = "venus" => VenusInv)
  <1>1. PartsInit => VenusInv
    BY VenusInvInit DEF PartsInit
  <1>2. (part = "venus" => VenusInv) /\ [PartsNext]_partsVars
           => (part = "venus" => VenusInv)'
    <2> SUFFICES ASSUME part = "venus" => VenusInv, [PartsNext]_partsVars, part' = "venus"
                 PROVE  VenusInv'
      OBVIOUS
    <2>1. CASE PartsNext
      <3>1. VenusInv /\ Venus!KindsNext
        BY <2>1 DEF PartsNext
      <3>. QED BY <3>1, VenusHandle, VenusWrites, VenusEmits, VenusRepublishes, VenusSets, VenusTells
               DEF Venus!KindsNext
    <2>2. CASE UNCHANGED partsVars
      <3>1. VenusInv /\ UNCHANGED venusVars
        BY <2>2 DEF partsVars, measureVars
      <3>2. UNCHANGED <<kind, sent, service, values, leaves, manager, told, doubt, writes, kept>>
        BY <3>1 DEF venusVars
      <3>. QED BY <3>1, <3>2, VenusKindStays
               DEF VenusInv, VenusTypes, ManagerHolds, Venus!ToldIsHeld, Venus!ConsoleWritesKept
    <2>. QED BY <2>1, <2>2
  <1>. QED BY <1>1, <1>2, PTL DEF PartsSpec

LEMMA VenusInvTypes == VenusInv => Venus!KindsTypesOK
  <1> SUFFICES ASSUME VenusInv PROVE Venus!KindsTypesOK
    OBVIOUS
  <1>1. PICK F : F = Venus!Fields(kind)
    OBVIOUS
  <1>2. values \in [connected : BOOLEAN, fields : [F -> -writes..sent]]
    BY <1>1 DEF VenusInv, VenusTypes, KindValues
  <1>3. DOMAIN values.fields = F /\ \A f \in F : values.fields[f] \in -writes..sent
    BY <1>2
  <1>. QED BY <1>1, <1>3 DEF VenusInv, VenusTypes, Venus!KindsTypesOK

\* The console is told what the services hold, and what it writes is kept.
THEOREM ShownAlwaysHeld == PartsSpec => []ShownIsHeld
  <1>1. (part = "venus" => VenusInv) => ShownIsHeld
    BY DEF VenusInv, ShownIsHeld
  <1>. QED BY <1>1, VenusPart, PTL

-----------------------------------------------------------------------------
(* The Ah and kWh of today of the battery.                                 *)

SumsOfDay == [charged : Nat, discharged : Nat, day : Nat \cup {-1}, last : Nat \cup {-1}]
EnergyOfDay == [baseline : Int, day : Int, today : Int, heard : Int]

ShuntTypes ==
    /\ clock \in Nat /\ seen \in -1..clock
    /\ em \in SumsOfDay /\ em.last <= clock
    /\ server \in SumsOfDay /\ server.last <= clock
    /\ battery \in [current : -1..1, soc : BOOLEAN]
    /\ system \in [soc : BOOLEAN, current : -1..1, sums : SumsOfDay]
    /\ counter \in 0..MaxEnergy /\ midnight \in 0..counter /\ withAh \in BOOLEAN
    /\ energy \in EnergyOfDay
    /\ energy.baseline \in -1..counter /\ energy.today \in 0..counter

\* The baseline that counts today is none of before midnight.
EnergyInv ==
    /\ energy.day <= Shunt!Day(clock) /\ energy.heard <= Shunt!Day(clock)
    /\ energy.day = Shunt!Day(clock) => energy.baseline >= midnight
    /\ energy.heard = Shunt!Day(clock) => energy.today <= counter - midnight

ShuntInv ==
    /\ ShuntTypes /\ EnergyInv
    /\ Shunt!Bounded(em) /\ (withAh \/ Shunt!Bounded(server))

LEMMA ShuntBounds == DayLength \in Nat \ {0} /\ StaleAfter \in Nat \ {0}
                     /\ MaxGap \in Nat \ {0} /\ MaxEnergy \in Nat
  BY ReadSideBounds DEF Shunt!ShuntAssumption

LEMMA DayBegins ==
    ASSUME NEW n \in Nat
    PROVE  /\ Shunt!Day(n) \in Nat /\ Shunt!Day(n) * DayLength <= n
           /\ Shunt!Day(n) * DayLength \in Nat
           /\ Shunt!Day(n) <= Shunt!Day(n + 1)
  <1>1. DayLength \in Nat /\ DayLength > 0
    BY ShuntBounds
  <1>2. PICK q, r \in Int : q = n \div DayLength /\ r = n % DayLength
    BY <1>1
  <1>3. n = DayLength * q + r /\ 0 <= r /\ r < DayLength
    BY <1>1, <1>2
  <1>4. PICK p, s \in Int : p = (n + 1) \div DayLength /\ s = (n + 1) % DayLength
    BY <1>1
  <1>5. n + 1 = DayLength * p + s /\ 0 <= s /\ s < DayLength
    BY <1>1, <1>4
  <1>6. q >= 0
    BY <1>1, <1>3
  <1>7. q <= p
    BY <1>1, <1>3, <1>5
  <1>8. q * DayLength <= n /\ q * DayLength >= 0
    BY <1>1, <1>3, <1>6
  <1>. QED BY <1>1, <1>2, <1>4, <1>6, <1>7, <1>8 DEF Shunt!Day

LEMMA SumsAre ==
    /\ Shunt!NoSums \in SumsOfDay /\ Shunt!NoSums.last = -1 /\ Shunt!NoSums.day = -1
    /\ Shunt!Bounded(Shunt!NoSums)
    /\ \A x \in SumsOfDay : /\ x.charged \in Nat /\ x.discharged \in Nat
                            /\ x.day \in Nat \cup {-1} /\ x.last \in Nat \cup {-1}
  BY DEF Shunt!NoSums, SumsOfDay, Shunt!None, Shunt!Bounded

\* What is integrated is bounded again.
LEMMA IntegratedBounded ==
    ASSUME NEW x \in SumsOfDay, NEW a \in -1..1, clock \in Nat, x.last <= clock
    PROVE  /\ Shunt!Integrated(x, a, clock) \in SumsOfDay
           /\ Shunt!Integrated(x, a, clock).last = clock
           /\ Shunt!Bounded(x) => Shunt!Bounded(Shunt!Integrated(x, a, clock))
  <1>1. PICK y : y = Shunt!Integrated(x, a, clock)
    OBVIOUS
  <1>2. PICK b : b = IF x.day = Shunt!Day(clock) THEN x ELSE [Shunt!NoSums EXCEPT !.last = x.last]
    OBVIOUS
  <1>3. PICK g : g = clock - x.last
    OBVIOUS
  <1>4. PICK c \in BOOLEAN : c = (x.last # -1 /\ g > 0 /\ g < MaxGap)
    OBVIOUS
  <1>5. y = [day |-> Shunt!Day(clock), last |-> clock,
             charged |-> b.charged + (IF c /\ a > 0 THEN g ELSE 0),
             discharged |-> b.discharged + (IF c /\ a < 0 THEN g ELSE 0)]
    BY <1>1, <1>2, <1>3, <1>4 DEF Shunt!Integrated, Shunt!None
  <1>6. /\ x.charged \in Nat /\ x.discharged \in Nat /\ x.day \in Int /\ x.last \in Int /\ g \in Int
        /\ Shunt!Day(clock) \in Nat /\ Shunt!Day(clock) * DayLength <= clock
        /\ Shunt!Day(clock) * DayLength \in Nat /\ MaxGap \in Nat \ {0} /\ g >= 0
    <2>1. x.charged \in Nat /\ x.discharged \in Nat /\ x.day \in Int /\ x.last \in Int
      BY SumsAre
    <2>2. g \in Int /\ g >= 0
      BY <1>3, <2>1
    <2>. QED BY <2>1, <2>2, DayBegins, ShuntBounds
  <1>7. \/ x.day = Shunt!Day(clock) /\ b.charged = x.charged /\ b.discharged = x.discharged
        \/ b.charged = 0 /\ b.discharged = 0
    BY <1>2 DEF Shunt!NoSums
  <1>8. b.charged \in Nat /\ b.discharged \in Nat
    BY <1>6, <1>7
  <1>9. /\ y.day = Shunt!Day(clock) /\ y.last = clock
        /\ y.charged = b.charged + (IF c /\ a > 0 THEN g ELSE 0)
        /\ y.discharged = b.discharged + (IF c /\ a < 0 THEN g ELSE 0)
    BY <1>5
  <1>10. y.charged \in Nat /\ y.discharged \in Nat
    BY <1>6, <1>8, <1>9
  <1>11. y \in SumsOfDay
    BY <1>5, <1>6, <1>9, <1>10 DEF SumsOfDay
  <1>12. y.charged + y.discharged = b.charged + b.discharged
         \/ (c /\ y.charged + y.discharged = b.charged + b.discharged + g)
    BY <1>6, <1>8, <1>9
  <1>13. ASSUME Shunt!Bounded(x)
         PROVE  y.charged + y.discharged <= clock - Shunt!Day(clock) * DayLength + MaxGap - 1
    <2>1. PICK z \in Nat : z = Shunt!Day(clock) * DayLength
      BY <1>6
    <2>2. CASE x.day = Shunt!Day(clock) /\ b.charged = x.charged /\ b.discharged = x.discharged
      <3>1. x.charged + x.discharged <= x.last - z + MaxGap - 1
        BY <1>6, <1>13, <2>1, <2>2 DEF Shunt!Bounded, Shunt!None
      <3>. QED BY <1>3, <1>6, <1>12, <2>1, <2>2, <3>1
    <2>3. CASE b.charged = 0 /\ b.discharged = 0
      <3>1. z <= clock /\ (c => g < MaxGap)
        BY <1>4, <1>6, <2>1
      <3>2. y.charged + y.discharged = 0 \/ (c /\ y.charged + y.discharged = g)
        BY <1>6, <1>12, <2>3
      <3>3. g \in Int /\ MaxGap \in Nat \ {0}
        BY <1>6
      <3>. QED BY <2>1, <3>1, <3>2, <3>3
    <2>. QED BY <1>7, <2>2, <2>3
  <1>. QED BY <1>1, <1>9, <1>11, <1>13 DEF Shunt!Bounded

LEMMA ShuntInvInit == Shunt!ShuntInit => ShuntInv
  <1> SUFFICES ASSUME Shunt!ShuntInit PROVE ShuntInv
    OBVIOUS
  <1>1. /\ clock = 0 /\ seen = -1 /\ em = Shunt!NoSums /\ battery = [current |-> 0, soc |-> FALSE]
        /\ energy = Shunt!NoEnergy /\ counter = 0 /\ midnight = 0 /\ withAh \in BOOLEAN
        /\ system = Shunt!NoMessage /\ server = Shunt!NoSums
    BY DEF Shunt!ShuntInit, Shunt!None
  <1>2. /\ energy \in EnergyOfDay /\ energy.baseline = -1 /\ energy.today = 0
        /\ energy.day = -1 /\ energy.heard = -1
    BY <1>1 DEF Shunt!NoEnergy, EnergyOfDay, Shunt!None
  <1>3. system \in [soc : BOOLEAN, current : -1..1, sums : SumsOfDay]
    BY <1>1, SumsAre DEF Shunt!NoMessage
  <1>4. battery \in [current : -1..1, soc : BOOLEAN]
    BY <1>1
  <1>5. ShuntTypes
    BY <1>1, <1>2, <1>3, <1>4, SumsAre, ShuntBounds DEF ShuntTypes
  <1>6. Shunt!Day(clock) \in Nat
    BY <1>1, DayBegins
  <1>7. EnergyInv
    BY <1>2, <1>6 DEF EnergyInv
  <1>. QED BY <1>1, <1>5, <1>7, SumsAre DEF ShuntInv

LEMMA ShuntHears ==
    ASSUME ShuntInv, Shunt!FromShunt \/ Shunt!FromSystem
    PROVE  ShuntInv'
  <1>1. /\ (\E a \in Currents : Shunt!Current(a)) \/ \E soc \in BOOLEAN : Shunt!Others(soc)
        /\ Shunt!PublishState
        /\ seen' \in {seen, clock}
        /\ UNCHANGED <<clock, energy, counter, midnight, withAh, server>>
    BY DEF Shunt!FromShunt, Shunt!FromSystem
  <1>2. /\ clock \in Nat /\ seen \in -1..clock /\ em \in SumsOfDay /\ em.last <= clock
        /\ battery \in [current : -1..1, soc : BOOLEAN] /\ Shunt!Bounded(em)
    BY DEF ShuntInv, ShuntTypes
  <1>3. /\ em' \in SumsOfDay /\ em'.last <= clock /\ Shunt!Bounded(em')
        /\ battery' \in [current : -1..1, soc : BOOLEAN]
    <2>0. Currents \subseteq -1..1
      BY ReadSideBounds DEF Shunt!ShuntAssumption
    <2>1. ASSUME NEW a \in Currents, Shunt!Current(a)
          PROVE  /\ em' \in SumsOfDay /\ em'.last <= clock /\ Shunt!Bounded(em')
                 /\ battery' \in [current : -1..1, soc : BOOLEAN]
      BY <1>2, <2>0, <2>1, IntegratedBounded DEF Shunt!Current
    <2>2. ASSUME NEW soc \in BOOLEAN, Shunt!Others(soc)
          PROVE  /\ em' \in SumsOfDay /\ em'.last <= clock /\ Shunt!Bounded(em')
                 /\ battery' \in [current : -1..1, soc : BOOLEAN]
      <3>1. battery' = [battery EXCEPT !.soc = battery.soc \/ soc] /\ em' = em
        BY <2>2 DEF Shunt!Others
      <3>. QED BY <1>2, <3>1
    <2>. QED BY <1>1, <2>1, <2>2
  <1>4. system' \in [soc : BOOLEAN, current : -1..1, sums : SumsOfDay]
    <2>1. PICK x \in SumsOfDay : x = IF withAh THEN em' ELSE Shunt!NoSums
      BY <1>3, SumsAre
    <2>2. battery'.soc \in BOOLEAN /\ battery'.current \in -1..1
      BY <1>3
    <2>3. system' = [soc |-> battery'.soc, current |-> battery'.current, sums |-> x]
      BY <1>1, <2>1 DEF Shunt!PublishState
    <2>. QED BY <2>2, <2>3
  <1>5. seen' \in -1..clock
    BY <1>1, <1>2
  <1>6. ShuntTypes'
    BY <1>1, <1>2, <1>3, <1>4, <1>5 DEF ShuntInv, ShuntTypes
  <1>7. EnergyInv'
    BY <1>1 DEF ShuntInv, EnergyInv, Shunt!Day
  <1>. QED BY <1>1, <1>3, <1>6, <1>7 DEF ShuntInv, Shunt!Bounded

LEMMA ShuntCounts ==
    ASSUME ShuntInv, Shunt!EnergyCounter
    PROVE  ShuntInv'
  <1>1. PICK b : b = IF Shunt!Captures THEN counter ELSE energy.baseline
    OBVIOUS
  <1>2. /\ energy' = [baseline |-> b, today |-> counter - b, heard |-> Shunt!Day(clock),
                      day |-> IF Shunt!Captures THEN Shunt!Day(clock) ELSE energy.day]
        /\ UNCHANGED <<em, battery, clock, seen, counter, midnight, withAh, server>>
        /\ Shunt!PublishState
    BY <1>1 DEF Shunt!EnergyCounter
  <1>3. /\ clock \in Nat /\ em \in SumsOfDay
        /\ battery \in [current : -1..1, soc : BOOLEAN]
        /\ counter \in 0..MaxEnergy /\ midnight \in 0..counter
        /\ energy.baseline \in -1..counter
        /\ energy.day = Shunt!Day(clock) => energy.baseline >= midnight
        /\ Shunt!Day(clock) \in Nat /\ MaxEnergy \in Nat
    BY DayBegins, ShuntBounds DEF ShuntInv, ShuntTypes, EnergyInv
  <1>4. b \in midnight..counter /\ energy'.day = Shunt!Day(clock)
    <2>1. CASE Shunt!Captures
      BY <1>1, <1>2, <1>3, <2>1
    <2>2. CASE ~Shunt!Captures
      BY <1>1, <1>2, <1>3, <2>2 DEF Shunt!Captures
    <2>. QED BY <2>1, <2>2
  <1>5. /\ energy'.baseline = b /\ energy'.today = counter - b /\ energy'.heard = Shunt!Day(clock)
        /\ energy' \in EnergyOfDay
    BY <1>2, <1>3, <1>4 DEF EnergyOfDay
  <1>6. system' \in [soc : BOOLEAN, current : -1..1, sums : SumsOfDay]
    <2>1. PICK x \in SumsOfDay : x = IF withAh THEN em' ELSE Shunt!NoSums
      BY <1>2, <1>3, SumsAre
    <2>2. battery'.soc \in BOOLEAN /\ battery'.current \in -1..1
      BY <1>2, <1>3
    <2>3. system' = [soc |-> battery'.soc, current |-> battery'.current, sums |-> x]
      BY <1>2, <2>1 DEF Shunt!PublishState
    <2>. QED BY <2>2, <2>3
  <1>7. energy'.baseline \in -1..counter /\ energy'.today \in 0..counter
        /\ energy'.today <= counter - midnight /\ energy'.baseline >= midnight
    BY <1>3, <1>4, <1>5
  <1>8. ShuntTypes'
    BY <1>2, <1>5, <1>6, <1>7 DEF ShuntInv, ShuntTypes
  <1>9. EnergyInv'
    <2>1. Shunt!Day(clock)' = Shunt!Day(clock)
      BY <1>2 DEF Shunt!Day
    <2>. QED BY <1>2, <1>3, <1>4, <1>5, <1>7, <2>1 DEF EnergyInv
  <1>. QED BY <1>2, <1>8, <1>9 DEF ShuntInv, Shunt!Bounded

LEMMA ShuntServer ==
    ASSUME ShuntInv, Shunt!ServerReceives \/ Shunt!ServerRestarts
    PROVE  ShuntInv'
  <1>1. /\ \/ server' = Shunt!NoSums
           \/ withAh /\ server' = [system.sums EXCEPT !.day = Shunt!Day(clock), !.last = clock]
           \/ ~withAh /\ server' = Shunt!Integrated(server, system.current, clock)
        /\ UNCHANGED <<clock, seen, em, battery, energy, counter, midnight, withAh, system>>
    BY DEF Shunt!ServerReceives, Shunt!ServerTakes, Shunt!ServerRestarts
  <1>2. /\ clock \in Nat /\ server \in SumsOfDay /\ server.last <= clock
        /\ system.sums \in SumsOfDay /\ system.current \in -1..1
        /\ withAh \/ Shunt!Bounded(server)
        /\ Shunt!Day(clock) \in Nat
    BY DayBegins DEF ShuntInv, ShuntTypes
  <1>3. server' \in SumsOfDay /\ server'.last <= clock /\ (withAh \/ Shunt!Bounded(server'))
    <2>1. CASE server' = Shunt!NoSums
      BY <1>2, <2>1, SumsAre
    <2>2. CASE withAh /\ server' = [system.sums EXCEPT !.day = Shunt!Day(clock), !.last = clock]
      <3>1. PICK m \in SumsOfDay : m = system.sums
        BY <1>2
      <3>2. server' = [m EXCEPT !.day = Shunt!Day(clock), !.last = clock]
        BY <2>2, <3>1
      <3>3. m \in [charged : Nat, discharged : Nat, day : Nat \cup {-1}, last : Nat \cup {-1}]
        BY <3>1 DEF SumsOfDay
      <3>4. server' \in [charged : Nat, discharged : Nat, day : Nat \cup {-1}, last : Nat \cup {-1}]
            /\ server'.last = clock
        BY <1>2, <3>2, <3>3
      <3>. QED BY <1>2, <2>2, <3>4 DEF SumsOfDay
    <2>3. CASE ~withAh /\ server' = Shunt!Integrated(server, system.current, clock)
      BY <1>2, <2>3, IntegratedBounded
    <2>. QED BY <1>1, <2>1, <2>2, <2>3
  <1>4. ShuntTypes'
    BY <1>1, <1>3 DEF ShuntInv, ShuntTypes
  <1>5. EnergyInv'
    BY <1>1 DEF ShuntInv, EnergyInv, Shunt!Day
  <1>. QED BY <1>1, <1>3, <1>4, <1>5 DEF ShuntInv, Shunt!Bounded

LEMMA ShuntRestarts ==
    ASSUME ShuntInv, Shunt!EnergyManagerRestarts
    PROVE  ShuntInv'
  <1>1. /\ seen' = -1 /\ em' = Shunt!NoSums /\ battery' = [current |-> 0, soc |-> FALSE]
        /\ energy' = Shunt!NoEnergy
        /\ UNCHANGED <<clock, counter, midnight, withAh, system, server>>
    BY DEF Shunt!EnergyManagerRestarts, Shunt!None
  <1>2. /\ clock \in Nat /\ counter \in 0..MaxEnergy /\ midnight \in 0..counter
        /\ Shunt!Day(clock) \in Nat /\ MaxEnergy \in Nat
    BY DayBegins, ShuntBounds DEF ShuntInv, ShuntTypes
  <1>3. /\ energy' \in EnergyOfDay /\ energy'.baseline = -1 /\ energy'.today = 0
        /\ energy'.day = -1 /\ energy'.heard = -1
    BY <1>1 DEF Shunt!NoEnergy, EnergyOfDay, Shunt!None
  <1>4. battery' \in [current : -1..1, soc : BOOLEAN]
    BY <1>1
  <1>5. ShuntTypes'
    BY <1>1, <1>2, <1>3, <1>4, SumsAre DEF ShuntInv, ShuntTypes
  <1>6. EnergyInv'
    BY <1>1, <1>2, <1>3 DEF EnergyInv, Shunt!Day
  <1>. QED BY <1>1, <1>5, <1>6, SumsAre DEF ShuntInv, Shunt!Bounded

LEMMA ShuntClock ==
    ASSUME ShuntInv, Shunt!Charging \/ Shunt!TimePasses
    PROVE  ShuntInv'
  <1>1. /\ clock \in Nat /\ seen \in -1..clock /\ em.last <= clock /\ server.last <= clock
        /\ em.last \in Int /\ server.last \in Int
        /\ counter \in 0..MaxEnergy /\ midnight \in 0..counter /\ MaxEnergy \in Nat
        /\ energy.baseline \in -1..counter /\ energy.today \in 0..counter
        /\ energy.day \in Int /\ energy.heard \in Int
    BY SumsAre, ShuntBounds DEF ShuntInv, ShuntTypes, EnergyOfDay
  <1>2. CASE Shunt!Charging
    <2>1. /\ counter < MaxEnergy /\ counter' = counter + 1
          /\ UNCHANGED <<clock, seen, em, battery, energy, midnight, withAh, system, server>>
      BY <1>2 DEF Shunt!Charging
    <2>2. ShuntTypes'
      BY <1>1, <2>1 DEF ShuntInv, ShuntTypes
    <2>3. EnergyInv'
      BY <1>1, <2>1 DEF ShuntInv, EnergyInv, Shunt!Day
    <2>. QED BY <2>1, <2>2, <2>3 DEF ShuntInv, Shunt!Bounded
  <1>3. CASE Shunt!TimePasses
    <2>1. PICK d, n : d = Shunt!Day(clock) /\ n = Shunt!Day(clock + 1)
      OBVIOUS
    <2>2. /\ clock' = clock + 1 /\ midnight' = (IF n # d THEN counter ELSE midnight)
          /\ UNCHANGED <<seen, em, battery, energy, counter, withAh, system, server>>
      BY <1>3, <2>1 DEF Shunt!TimePasses, Shunt!Day
    <2>3. d \in Nat /\ n \in Nat /\ d <= n
      BY <1>1, <2>1, DayBegins
    <2>4. ShuntTypes'
      <3>1. clock' \in Nat /\ seen' \in -1..clock' /\ midnight' \in 0..counter
            /\ em'.last <= clock' /\ server'.last <= clock'
        BY <1>1, <2>2
      <3>. QED BY <2>2, <3>1 DEF ShuntInv, ShuntTypes
    <2>5. EnergyInv'
      <3>1. Shunt!Day(clock)' = n
        BY <2>1, <2>2 DEF Shunt!Day
      <3>2. /\ energy.day <= d /\ energy.heard <= d
            /\ energy.day = d => energy.baseline >= midnight
            /\ energy.heard = d => energy.today <= counter - midnight
        BY <2>1 DEF ShuntInv, EnergyInv
      <3>3. /\ energy.day <= n /\ energy.heard <= n
            /\ energy.day = n => energy.baseline >= midnight'
            /\ energy.heard = n => energy.today <= counter - midnight'
        BY <1>1, <2>2, <2>3, <3>2
      <3>. QED BY <2>2, <3>1, <3>3 DEF EnergyInv
    <2>. QED BY <2>2, <2>4, <2>5 DEF ShuntInv, Shunt!Bounded
  <1>. QED BY <1>2, <1>3

LEMMA ShuntPart == PartsSpec => [](part = "shunt" => ShuntInv)
  <1>1. PartsInit => ShuntInv
    BY ShuntInvInit DEF PartsInit
  <1>2. (part = "shunt" => ShuntInv) /\ [PartsNext]_partsVars
           => (part = "shunt" => ShuntInv)'
    <2> SUFFICES ASSUME part = "shunt" => ShuntInv, [PartsNext]_partsVars, part' = "shunt"
                 PROVE  ShuntInv'
      OBVIOUS
    <2>1. CASE PartsNext
      <3>1. ShuntInv /\ Shunt!ShuntNext
        BY <2>1 DEF PartsNext
      <3>. QED BY <3>1, ShuntHears, ShuntCounts, ShuntServer, ShuntRestarts, ShuntClock
               DEF Shunt!ShuntNext
    <2>2. CASE UNCHANGED partsVars
      <3>1. ShuntInv /\ UNCHANGED shuntVars
        BY <2>2 DEF partsVars, measureVars
      <3>. QED BY <3>1 DEF ShuntInv, ShuntTypes, EnergyInv, Shunt!Bounded, Shunt!Day, shuntVars
    <2>. QED BY <2>1, <2>2
  <1>. QED BY <1>1, <1>2, PTL DEF PartsSpec

LEMMA ShuntInvImplies == ShuntInv => Shunt!ShuntTypesOK /\ Shunt!CountsOfToday
  <1> SUFFICES ASSUME ShuntInv PROVE Shunt!ShuntTypesOK /\ Shunt!CountsOfToday
    OBVIOUS
  <1>1. Shunt!CountsOfToday
    BY DEF ShuntInv, EnergyInv, Shunt!CountsOfToday
  <1>2. /\ clock \in Nat /\ em \in SumsOfDay /\ em.last <= clock
        /\ server \in SumsOfDay /\ server.last <= clock
    BY DEF ShuntInv, ShuntTypes
  <1>3. em.last \in -1..clock /\ server.last \in -1..clock
    BY <1>2, SumsAre
  <1>4. Shunt!ShuntTypesOK
    BY <1>3 DEF ShuntInv, ShuntTypes, Shunt!ShuntTypesOK, Shunt!None
  <1>. QED BY <1>1, <1>4

-----------------------------------------------------------------------------
(* The production of today of the inverter.                                *)

Baselines == {Yield!Baseline(d, k) : d \in 0..MaxDay, k \in 0..MaxEnergy} \cup {Yield!NoBaseline}
Yesterdays == {Yield!YieldYesterday(k) : k \in 0..MaxEnergy}

YieldTypes ==
    /\ BusOf(Yield!YieldMessages, Capacity)
    /\ running \in BOOLEAN /\ resetDue \in BOOLEAN /\ measured \in BOOLEAN
    /\ baseline \in -1..MaxEnergy /\ baselineDay \in -1..utcDay
    /\ yield \in 0..MaxEnergy /\ yesterday \in 0..MaxEnergy /\ resetTotal \in -1..MaxEnergy
    /\ solarSends \in {<<>>} \cup {<<m>> : m \in Baselines}
    /\ resetSends \in {<<>>, <<Yield!NoBaseline>>} \cup {<<m, Yield!NoBaseline>> : m \in Yesterdays}
    /\ restoring \in Baselines
    /\ kwh \in [baseline : Baselines, yesterday : Yesterdays]
    /\ owed \subseteq {"baseline", "yesterday"}
    /\ utcDay \in 0..MaxDay /\ localDay \in {utcDay, utcDay + 1} /\ localDay <= MaxDay
    /\ meter \in 0..MaxEnergy /\ crashed \in 0..MaxEnds
    /\ utcStart \in 0..meter /\ localStart \in 0..meter
    /\ renewed \in {"no", "reset", "measured"}

\* A baseline that is said to be of this day was read on this day.
Trusted(m, day, start) ==
    m.topic = "baseline" => m.day <= day /\ (m.day = day => m.kwh >= start)

AllTrusted ==
    /\ \A i \in 1..Len(outQ) : Trusted(outQ[i], utcDay, utcStart)
    /\ \A i \in 1..Len(solarSends) : Trusted(solarSends[i], utcDay, utcStart)
    /\ Trusted(kwh.baseline, utcDay, utcStart) /\ Trusted(restoring, utcDay, utcStart)

\* The baseline counts nothing of before the day it is of, nor, once it has
\* been renewed, of before local midnight.
BaselineInv ==
    /\ baseline # -1 /\ baselineDay = utcDay => baseline >= utcStart
    /\ renewed # "no" /\ baseline # -1 => baseline >= localStart
    /\ measured => yield <= meter - utcStart
    /\ renewed = "measured" => yield <= meter - localStart

YieldInv == YieldTypes /\ AllTrusted /\ BaselineInv

LEMMA YieldBounds ==
    /\ MaxDay \in Nat /\ MaxEnergy \in Nat /\ MaxEnds \in Nat
    /\ Slots \in Nat /\ Capacity \in Nat /\ MaxOutages \in Nat
  <1>1. Yield!Bus!BusAssumption /\ MaxDay \in Nat /\ MaxEnergy \in Nat /\ MaxEnds \in Nat
    BY ReadSideBounds DEF Yield!YieldAssumption
  <1>. QED BY <1>1 DEF Yield!Bus!BusAssumption

LEMMA YieldMessagesAre ==
    /\ \A m \in Baselines : /\ m \in Yield!YieldMessages /\ m.topic = "baseline"
                            /\ m.day \in -1..MaxDay /\ m.kwh \in -1..MaxEnergy
                            /\ m # Yield!NoBaseline => m.day \in 0..MaxDay /\ m.kwh \in 0..MaxEnergy
    /\ \A m \in Yesterdays : /\ m \in Yield!YieldMessages /\ m.topic = "yesterday"
                             /\ m.kwh \in 0..MaxEnergy
    /\ \A m \in Yield!YieldMessages : /\ m.topic = "baseline" => m \in Baselines
                                      /\ m.topic = "yesterday" => m \in Yesterdays
                                      /\ m.topic \in {"baseline", "yesterday", "other"}
    /\ Yield!Telemetry \in Yield!YieldMessages /\ Yield!Telemetry.topic = "other"
    /\ Yield!NoBaseline \in Baselines /\ Yield!NoBaseline.day = -1
    /\ \A d \in 0..MaxDay, k \in 0..MaxEnergy :
          /\ Yield!Baseline(d, k) \in Baselines /\ Yield!Baseline(d, k).topic = "baseline"
          /\ Yield!Baseline(d, k).day = d /\ Yield!Baseline(d, k).kwh = k
    /\ \A k \in 0..MaxEnergy : Yield!YieldYesterday(k) \in Yesterdays
  <1>0. /\ \A d, k : /\ Yield!Baseline(d, k).topic = "baseline" /\ Yield!Baseline(d, k).day = d
                     /\ Yield!Baseline(d, k).kwh = k
        /\ \A k : Yield!YieldYesterday(k).topic = "yesterday" /\ Yield!YieldYesterday(k).kwh = k
        /\ Yield!NoBaseline.topic = "baseline" /\ Yield!NoBaseline.day = -1 /\ Yield!NoBaseline.kwh = -1
        /\ Yield!Telemetry.topic = "other"
    BY DEF Yield!Baseline, Yield!YieldYesterday, Yield!NoBaseline, Yield!Telemetry, Yield!None
  <1>1. \A d \in 0..MaxDay, k \in 0..MaxEnergy : Yield!Baseline(d, k) \in Baselines
    BY DEF Baselines
  <1>2. \A k \in 0..MaxEnergy : Yield!YieldYesterday(k) \in Yesterdays
    BY DEF Yesterdays
  <1>3. \A m \in Baselines : m = Yield!NoBaseline
           \/ \E d \in 0..MaxDay, k \in 0..MaxEnergy : m = Yield!Baseline(d, k)
    BY DEF Baselines
  <1>4. \A m \in Yesterdays : \E k \in 0..MaxEnergy : m = Yield!YieldYesterday(k)
    BY DEF Yesterdays
  <1>5. Yield!YieldMessages = Baselines \cup Yesterdays \cup {Yield!Telemetry}
    BY DEF Yield!YieldMessages, Baselines, Yesterdays
  <1>6. Yield!NoBaseline \in Baselines
    BY DEF Baselines
  <1>7. \A m \in Baselines : /\ m.topic = "baseline"
                             /\ m.day \in -1..MaxDay /\ m.kwh \in -1..MaxEnergy
                             /\ m # Yield!NoBaseline => m.day \in 0..MaxDay /\ m.kwh \in 0..MaxEnergy
    BY <1>0, <1>3, YieldBounds
  <1>8. \A m \in Yesterdays : m.topic = "yesterday" /\ m.kwh \in 0..MaxEnergy
    BY <1>0, <1>4
  <1>. QED BY <1>0, <1>1, <1>2, <1>5, <1>6, <1>7, <1>8

LEMMA YieldSetsStay ==
    /\ Baselines' = Baselines /\ Yesterdays' = Yesterdays
    /\ Yield!NoBaseline' = Yield!NoBaseline /\ Yield!YieldMessages' = Yield!YieldMessages
  BY DEF Baselines, Yesterdays, Yield!YieldMessages, Yield!Baseline, Yield!YieldYesterday,
         Yield!NoBaseline, Yield!Telemetry

LEMMA YieldInvInit == Yield!Init => YieldInv
  <1> SUFFICES ASSUME Yield!Init PROVE YieldInv
    OBVIOUS
  <1>1. /\ running = TRUE /\ resetDue = FALSE /\ measured = FALSE /\ renewed = "no"
        /\ baseline = -1 /\ baselineDay = -1 /\ yield = 0 /\ yesterday = 0 /\ resetTotal = -1
        /\ solarSends = <<>> /\ resetSends = <<>> /\ restoring = Yield!NoBaseline
        /\ kwh = [baseline |-> Yield!NoBaseline, yesterday |-> Yield!YieldYesterday(0)]
        /\ owed = {} /\ utcDay = 0 /\ localDay = 0 /\ meter = 0 /\ crashed = 0
        /\ utcStart = 0 /\ localStart = 0
    BY DEF Yield!Init, Yield!None
  <1>2. outQ = <<>> /\ link = FALSE /\ outages = 0
    BY DEF Yield!Init, Yield!Bus!BusInit
  <1>3. BusOf(Yield!YieldMessages, Capacity)
    <2>1. outQ \in Seq(Yield!YieldMessages) /\ Len(outQ) = 0
      BY <1>2
    <2>2. link \in BOOLEAN
      BY <1>2, Zenon
    <2>. QED BY <1>2, <2>1, <2>2, YieldBounds DEF BusOf
  <1>4. kwh \in [baseline : Baselines, yesterday : Yesterdays]
    BY <1>1, YieldMessagesAre, YieldBounds
  <1>5. YieldTypes
    <2>1. baseline \in -1..MaxEnergy /\ baselineDay \in -1..utcDay /\ yield \in 0..MaxEnergy
          /\ yesterday \in 0..MaxEnergy /\ resetTotal \in -1..MaxEnergy
          /\ utcDay \in 0..MaxDay /\ localDay \in {utcDay, utcDay + 1} /\ localDay <= MaxDay
          /\ meter \in 0..MaxEnergy /\ crashed \in 0..MaxEnds
          /\ utcStart \in 0..meter /\ localStart \in 0..meter
      BY <1>1, YieldBounds
    <2>2. running \in BOOLEAN /\ resetDue \in BOOLEAN /\ measured \in BOOLEAN
          /\ renewed \in {"no", "reset", "measured"}
      BY <1>1, Zenon
    <2>. QED BY <1>1, <1>3, <1>4, <2>1, <2>2, YieldMessagesAre DEF YieldTypes
  <1>6. AllTrusted
    <2>1. Len(outQ) = 0 /\ Len(solarSends) = 0
      BY <1>1, <1>2
    <2>2. Trusted(Yield!NoBaseline, utcDay, utcStart)
      BY <1>1, YieldMessagesAre DEF Trusted
    <2>. QED BY <1>1, <2>1, <2>2 DEF AllTrusted
  <1>7. BaselineInv
    BY <1>1 DEF BaselineInv
  <1>. QED BY <1>5, <1>6, <1>7 DEF YieldInv

LEMMA TailOfTwo ==
    ASSUME NEW S, NEW a \in S, NEW b \in S
    PROVE  Tail(<<a, b>>) = <<b>> /\ Tail(<<b>>) = <<>>
  OBVIOUS

LEMMA YieldQueued ==
    ASSUME YieldInv, NEW m \in Yield!YieldMessages, Trusted(m, utcDay, utcStart),
           Yield!Bus!Publish(m)
    PROVE  /\ BusOf(Yield!YieldMessages, Capacity)'
           /\ \A i \in 1..Len(outQ') : Trusted(outQ'[i], utcDay, utcStart)
  <1>1. /\ BusOf(Yield!YieldMessages, Capacity)
        /\ \A i \in 1..Len(outQ) : Trusted(outQ[i], utcDay, utcStart)
    BY DEF YieldInv, YieldTypes, AllTrusted
  <1>2. \/ Len(outQ) < Capacity /\ outQ' = Append(outQ, m) /\ UNCHANGED <<link, outages>>
        \/ Len(outQ) >= Slots /\ UNCHANGED <<outQ, link, outages>>
    BY DEF Yield!Bus!Publish, Yield!Bus!Accepted, Yield!Bus!Dropped, Yield!Bus!busVars
  <1>3. PICK S : S = Yield!YieldMessages
    OBVIOUS
  <1>4. BusOf(S, Capacity)'
    BY <1>1, <1>2, <1>3, BusPublished, YieldBounds
  <1>5. outQ \in Seq(S)
    BY <1>1, <1>3 DEF BusOf
  <1>6. ASSUME NEW i \in 1..Len(outQ') PROVE Trusted(outQ'[i], utcDay, utcStart)
    <2>1. CASE outQ' = Append(outQ, m)
      <3>1. /\ i \in 1..Len(outQ) \/ i = Len(outQ) + 1
            /\ outQ'[Len(outQ) + 1] = m /\ \A j \in 1..Len(outQ) : outQ'[j] = outQ[j]
        BY <1>3, <1>5, <1>6, <2>1, QueueAppend
      <3>. QED BY <1>1, <3>1
    <2>2. CASE outQ' = outQ
      BY <1>1, <2>2
    <2>. QED BY <1>2, <2>1, <2>2
  <1>. QED BY <1>3, <1>4, <1>6, YieldSetsStay DEF BusOf

LEMMA YieldPublishes ==
    ASSUME YieldInv, Yield!SolarPublishes \/ Yield!ResetPublishes \/ Yield!OthersPublish
    PROVE  YieldInv'
  <1>0. UNCHANGED <<running, resetDue, measured, baseline, baselineDay, yield, yesterday, resetTotal,
                    restoring, kwh, owed, utcDay, localDay, meter, crashed, utcStart, localStart,
                    renewed>>
    BY DEF Yield!SolarPublishes, Yield!ResetPublishes, Yield!OthersPublish, Yield!stateVars,
           Yield!taskVars, Yield!clockVars, Yield!historyVars
  <1>1. utcDay \in Nat /\ Trusted(Yield!NoBaseline, utcDay, utcStart)
    <2>1. utcDay \in Nat
      BY YieldBounds DEF YieldInv, YieldTypes
    <2>. QED BY <2>1, YieldMessagesAre DEF Trusted
  <1>2. \E m \in Yield!YieldMessages : Trusted(m, utcDay, utcStart) /\ Yield!Bus!Publish(m)
    <2>1. CASE Yield!SolarPublishes
      <3>1. PICK m \in Baselines : solarSends = <<m>>
        BY <2>1 DEF YieldInv, YieldTypes, Yield!SolarPublishes
      <3>2. Head(solarSends) = m /\ 1 \in 1..Len(solarSends) /\ solarSends[1] = m
        BY <3>1
      <3>3. Trusted(m, utcDay, utcStart)
        BY <3>2 DEF YieldInv, AllTrusted
      <3>. QED BY <2>1, <3>2, <3>3, YieldMessagesAre DEF Yield!SolarPublishes
    <2>2. CASE Yield!ResetPublishes
      <3>1. \/ resetSends = <<Yield!NoBaseline>>
            \/ \E y \in Yesterdays : resetSends = <<y, Yield!NoBaseline>>
        BY <2>2 DEF YieldInv, YieldTypes, Yield!ResetPublishes
      <3>2. Head(resetSends) = Yield!NoBaseline \/ Head(resetSends) \in Yesterdays
        BY <3>1
      <3>3. Head(resetSends) \in Yield!YieldMessages /\ Trusted(Head(resetSends), utcDay, utcStart)
        BY <1>1, <3>2, YieldMessagesAre DEF Trusted
      <3>. QED BY <2>2, <3>3 DEF Yield!ResetPublishes
    <2>3. CASE Yield!OthersPublish
      <3>1. Trusted(Yield!Telemetry, utcDay, utcStart)
        BY YieldMessagesAre DEF Trusted
      <3>2. Yield!Bus!Publish(Yield!Telemetry)
        BY <2>3 DEF Yield!OthersPublish, Yield!Bus!Publish
      <3>. QED BY <3>1, <3>2, YieldMessagesAre
    <2>. QED BY <2>1, <2>2, <2>3
  <1>3. /\ BusOf(Yield!YieldMessages, Capacity)'
        /\ \A i \in 1..Len(outQ') : Trusted(outQ'[i], utcDay, utcStart)
    BY <1>2, YieldQueued
  <1>4. /\ solarSends' \in {<<>>} \cup {<<m>> : m \in Baselines}
        /\ \A i \in 1..Len(solarSends') : Trusted(solarSends'[i], utcDay, utcStart)
    <2>1. CASE solarSends' = solarSends
      BY <2>1 DEF YieldInv, YieldTypes, AllTrusted
    <2>2. CASE Yield!SolarPublishes
      <3>1. PICK m \in Baselines : solarSends = <<m>>
        BY <2>2 DEF YieldInv, YieldTypes, Yield!SolarPublishes
      <3>2. solarSends' = <<>>
        BY <2>2, <3>1 DEF Yield!SolarPublishes
      <3>. QED BY <3>2
    <2>. QED BY <2>1, <2>2 DEF Yield!ResetPublishes, Yield!OthersPublish, Yield!taskVars
  <1>5. resetSends' \in {<<>>, <<Yield!NoBaseline>>} \cup {<<m, Yield!NoBaseline>> : m \in Yesterdays}
    <2>1. CASE resetSends' = resetSends
      BY <2>1 DEF YieldInv, YieldTypes
    <2>2. CASE Yield!ResetPublishes
      <3>1. \/ resetSends = <<Yield!NoBaseline>>
            \/ \E y \in Yesterdays : resetSends = <<y, Yield!NoBaseline>>
        BY <2>2 DEF YieldInv, YieldTypes, Yield!ResetPublishes
      <3>2. resetSends' = Tail(resetSends)
        BY <2>2 DEF Yield!ResetPublishes
      <3>3. resetSends' = <<>> \/ resetSends' = <<Yield!NoBaseline>>
        <4>1. Yield!NoBaseline \in Yield!YieldMessages
              /\ \A y \in Yesterdays : y \in Yield!YieldMessages
          BY YieldMessagesAre
        <4>2. CASE resetSends = <<Yield!NoBaseline>>
          BY <3>2, <4>1, <4>2, TailOfTwo
        <4>3. ASSUME NEW y \in Yesterdays, resetSends = <<y, Yield!NoBaseline>>
              PROVE  resetSends' = <<Yield!NoBaseline>>
          BY <3>2, <4>1, <4>3, TailOfTwo
        <4>. QED BY <3>1, <4>2, <4>3
      <3>. QED BY <3>3
    <2>. QED BY <2>1, <2>2 DEF Yield!SolarPublishes, Yield!OthersPublish, Yield!taskVars
  <1>6. YieldTypes'
    BY <1>0, <1>3, <1>4, <1>5, YieldSetsStay DEF YieldInv, YieldTypes
  <1>7. AllTrusted'
    BY <1>0, <1>3, <1>4 DEF YieldInv, AllTrusted, Trusted
  <1>8. BaselineInv'
    BY <1>0 DEF YieldInv, BaselineInv
  <1>. QED BY <1>6, <1>7, <1>8 DEF YieldInv

LEMMA YieldEnergy ==
    ASSUME YieldInv, Yield!Energy
    PROVE  YieldInv'
  <1>1. /\ baseline' = (IF Yield!Captures THEN meter ELSE baseline)
        /\ baselineDay' = (IF Yield!NewDay THEN utcDay ELSE baselineDay)
        /\ yield' = (IF meter >= baseline' THEN meter - baseline' ELSE 0)
        /\ solarSends' = (IF Yield!Captures THEN <<Yield!Baseline(utcDay, meter)>> ELSE <<>>)
        /\ measured' = TRUE
        /\ renewed' = (IF renewed = "reset" THEN "measured" ELSE renewed)
        /\ UNCHANGED <<running, resetDue, yesterday, resetTotal, resetSends, restoring, kwh, owed,
                       utcDay, localDay, meter, crashed, utcStart, localStart, outQ, link, outages>>
    BY DEF Yield!Energy, Yield!networkVars, Yield!clockVars
  <1>2. /\ utcDay \in 0..MaxDay /\ meter \in 0..MaxEnergy /\ baseline \in -1..MaxEnergy
        /\ baselineDay \in -1..utcDay /\ utcStart \in 0..meter /\ localStart \in 0..meter
        /\ renewed \in {"no", "reset", "measured"}
        /\ MaxDay \in Nat /\ MaxEnergy \in Nat
    BY YieldBounds DEF YieldInv, YieldTypes
  <1>3. /\ baseline # -1 /\ baselineDay = utcDay => baseline >= utcStart
        /\ renewed # "no" /\ baseline # -1 => baseline >= localStart
    BY DEF YieldInv, BaselineInv
  <1>4. \/ Yield!Captures /\ baseline' = meter
        \/ ~Yield!Captures /\ baseline' = baseline /\ baseline # -1 /\ baselineDay = utcDay
    BY <1>1 DEF Yield!Captures, Yield!NewDay, Yield!None
  <1>5. baseline' \in 0..MaxEnergy /\ baseline' >= utcStart
        /\ (renewed # "no" => baseline' >= localStart)
    BY <1>2, <1>3, <1>4
  <1>6. yield' \in 0..MaxEnergy /\ yield' <= meter - utcStart
        /\ (renewed # "no" => yield' <= meter - localStart)
    BY <1>1, <1>2, <1>5
  <1>7. baselineDay' \in -1..utcDay
    BY <1>1, <1>2
  <1>8. renewed' \in {"no", "reset", "measured"} /\ (renewed' # "no" <=> renewed # "no")
    BY <1>1, <1>2
  <1>9. /\ solarSends' \in {<<>>} \cup {<<m>> : m \in Baselines}
        /\ \A i \in 1..Len(solarSends') : Trusted(solarSends'[i], utcDay, utcStart)
    <2>1. PICK b \in Baselines : b = Yield!Baseline(utcDay, meter)
      BY <1>2, YieldMessagesAre
    <2>2. b.day = utcDay /\ b.kwh = meter
      BY <1>2, <2>1, YieldMessagesAre
    <2>3. Trusted(b, utcDay, utcStart)
      BY <1>2, <2>2 DEF Trusted
    <2>4. CASE solarSends' = <<b>>
      BY <2>3, <2>4
    <2>5. CASE solarSends' = <<>>
      BY <2>5
    <2>. QED BY <1>1, <2>1, <2>4, <2>5
  <1>10. YieldTypes'
    <2>1. measured' \in BOOLEAN
      BY <1>1, Zenon
    <2>2. BusOf(Yield!YieldMessages, Capacity)'
      BY <1>1, YieldSetsStay DEF YieldInv, YieldTypes, BusOf
    <2>3. baseline' \in -1..MaxEnergy
      BY <1>2, <1>5
    <2>. QED BY <1>1, <1>6, <1>7, <1>8, <1>9, <2>1, <2>2, <2>3, YieldSetsStay DEF YieldInv, YieldTypes
  <1>11. AllTrusted'
    BY <1>1, <1>9 DEF YieldInv, AllTrusted, Trusted
  <1>12. BaselineInv'
    BY <1>1, <1>5, <1>6, <1>8 DEF BaselineInv
  <1>. QED BY <1>10, <1>11, <1>12 DEF YieldInv

LEMMA YieldResets ==
    ASSUME YieldInv, Yield!ResetReads \/ Yield!ResetWrites
    PROVE  YieldInv'
  <1>1. UNCHANGED <<running, measured, baselineDay, solarSends, restoring, kwh, owed, utcDay, localDay,
                    meter, crashed, utcStart, localStart, outQ, link, outages>>
    BY DEF Yield!ResetReads, Yield!ResetWrites, Yield!stateVars, Yield!networkVars,
           Yield!clockVars, Yield!historyVars
  <1>2. /\ meter \in 0..MaxEnergy /\ utcStart \in 0..meter /\ localStart \in 0..meter
        /\ resetTotal \in -1..MaxEnergy /\ yield \in 0..MaxEnergy /\ MaxEnergy \in Nat
    BY YieldBounds DEF YieldInv, YieldTypes
  <1>3. BusOf(Yield!YieldMessages, Capacity)'
    BY <1>1, YieldSetsStay DEF YieldInv, YieldTypes, BusOf
  <1>4. AllTrusted'
    BY <1>1 DEF YieldInv, AllTrusted, Trusted
  <1>5. CASE Yield!ResetReads
    <2>1. /\ resetTotal' = yield /\ resetDue' = FALSE
          /\ UNCHANGED <<baseline, yield, yesterday, resetSends, renewed>>
      BY <1>5 DEF Yield!ResetReads, Yield!stateVars, Yield!historyVars
    <2>2. resetDue' \in BOOLEAN
      BY <2>1, Zenon
    <2>3. resetTotal' \in -1..MaxEnergy
      BY <1>2, <2>1
    <2>4. YieldTypes'
      BY <1>1, <1>3, <2>1, <2>2, <2>3, YieldSetsStay DEF YieldInv, YieldTypes
    <2>5. BaselineInv'
      BY <1>1, <2>1 DEF YieldInv, BaselineInv
    <2>. QED BY <1>4, <2>4, <2>5 DEF YieldInv
  <1>6. CASE Yield!ResetWrites
    <2>1. /\ resetTotal # -1 /\ yesterday' = resetTotal /\ yield' = 0 /\ baseline' = -1
          /\ resetTotal' = -1 /\ renewed' = "reset" /\ resetDue' = resetDue
          /\ resetSends' = <<Yield!YieldYesterday(resetTotal), Yield!NoBaseline>>
      BY <1>6 DEF Yield!ResetWrites, Yield!clockVars, Yield!None
    <2>2. yesterday' \in 0..MaxEnergy /\ yield' \in 0..MaxEnergy /\ baseline' \in -1..MaxEnergy
          /\ resetTotal' \in -1..MaxEnergy
      BY <1>2, <2>1
    <2>3. resetSends' \in {<<m, Yield!NoBaseline>> : m \in Yesterdays}
      <3>1. Yield!YieldYesterday(resetTotal) \in Yesterdays
        BY <2>1, <2>2, YieldMessagesAre
      <3>. QED BY <2>1, <3>1
    <2>4. YieldTypes'
      BY <1>1, <1>3, <2>1, <2>2, <2>3, YieldSetsStay DEF YieldInv, YieldTypes
    <2>5. BaselineInv'
      BY <1>1, <1>2, <2>1 DEF BaselineInv
    <2>. QED BY <1>4, <2>4, <2>5 DEF YieldInv
  <1>. QED BY <1>5, <1>6

LEMMA YieldArrives ==
    ASSUME YieldInv, Yield!BaselineArrives \/ Yield!BaselineRestored \/ Yield!YesterdayArrives
    PROVE  YieldInv'
  <1>1. UNCHANGED <<running, resetDue, measured, yield, resetTotal, solarSends, resetSends, kwh, utcDay,
                    localDay, meter, crashed, utcStart, localStart, outQ, link, outages>>
    BY DEF Yield!BaselineArrives, Yield!BaselineRestored, Yield!YesterdayArrives, Yield!stateVars,
           Yield!taskVars, Yield!networkVars, Yield!clockVars, Yield!historyVars
  <1>2. /\ utcDay \in 0..MaxDay /\ MaxEnergy \in Nat /\ MaxDay \in Nat
        /\ kwh.baseline \in Baselines /\ kwh.yesterday \in Yesterdays /\ restoring \in Baselines
        /\ owed \subseteq {"baseline", "yesterday"}
        /\ Trusted(kwh.baseline, utcDay, utcStart) /\ Trusted(restoring, utcDay, utcStart)
    BY YieldBounds DEF YieldInv, YieldTypes, AllTrusted
  <1>3. BusOf(Yield!YieldMessages, Capacity)'
    BY <1>1, YieldSetsStay DEF YieldInv, YieldTypes, BusOf
  <1>4. CASE Yield!BaselineArrives
    <2>1. /\ owed' = owed \ {"baseline"}
          /\ restoring' = IF Yield!OfToday(kwh.baseline)
                          THEN Yield!Baseline(utcDay, kwh.baseline.kwh) ELSE Yield!NoBaseline
          /\ UNCHANGED <<baseline, baselineDay, yesterday, renewed>>
      BY <1>4 DEF Yield!BaselineArrives, Yield!stateVars, Yield!historyVars
    <2>2. restoring' \in Baselines /\ Trusted(restoring', utcDay, utcStart)
      <3>1. CASE Yield!OfToday(kwh.baseline)
        <4>1. kwh.baseline.day = utcDay /\ kwh.baseline.kwh \in 0..MaxEnergy
              /\ kwh.baseline.topic = "baseline"
          BY <1>2, <3>1, YieldMessagesAre DEF Yield!OfToday
        <4>2. kwh.baseline.kwh >= utcStart
          BY <1>2, <4>1 DEF Trusted
        <4>. QED BY <1>2, <2>1, <3>1, <4>1, <4>2, YieldMessagesAre DEF Trusted
      <3>2. CASE ~Yield!OfToday(kwh.baseline)
        BY <1>2, <2>1, <3>2, YieldMessagesAre DEF Trusted
      <3>. QED BY <3>1, <3>2
    <2>3. YieldTypes'
      BY <1>1, <1>2, <1>3, <2>1, <2>2, YieldSetsStay DEF YieldInv, YieldTypes
    <2>4. AllTrusted' /\ BaselineInv'
      BY <1>1, <2>1, <2>2 DEF YieldInv, AllTrusted, BaselineInv, Trusted
    <2>. QED BY <2>3, <2>4 DEF YieldInv
  <1>5. CASE Yield!BaselineRestored
    <2>1. /\ restoring # Yield!NoBaseline /\ restoring' = Yield!NoBaseline
          /\ \/ baseline = -1 /\ baseline' = restoring.kwh /\ baselineDay' = restoring.day
                /\ renewed' = "no"
             \/ UNCHANGED <<baseline, baselineDay, renewed>>
          /\ UNCHANGED <<yesterday, owed>>
      BY <1>5 DEF Yield!BaselineRestored, Yield!None
    <2>2. /\ restoring.day \in 0..utcDay /\ restoring.kwh \in 0..MaxEnergy
          /\ restoring.day = utcDay => restoring.kwh >= utcStart
      <3>1. restoring.day \in 0..MaxDay /\ restoring.kwh \in 0..MaxEnergy /\ restoring.topic = "baseline"
        BY <1>2, <2>1, YieldMessagesAre
      <3>. QED BY <1>2, <3>1 DEF Trusted
    <2>3. baseline' \in -1..MaxEnergy /\ baselineDay' \in -1..utcDay
          /\ renewed' \in {"no", "reset", "measured"}
      BY <1>2, <2>1, <2>2 DEF YieldInv, YieldTypes
    <2>4. YieldTypes'
      BY <1>1, <1>2, <1>3, <2>1, <2>3, YieldSetsStay, YieldMessagesAre DEF YieldInv, YieldTypes
    <2>5. AllTrusted'
      <3>1. Trusted(Yield!NoBaseline, utcDay, utcStart)
        BY <1>2, YieldMessagesAre DEF Trusted
      <3>. QED BY <1>1, <2>1, <3>1 DEF YieldInv, AllTrusted, Trusted
    <2>6. BaselineInv'
      BY <1>1, <2>1, <2>2 DEF YieldInv, BaselineInv
    <2>. QED BY <2>4, <2>5, <2>6 DEF YieldInv
  <1>6. CASE Yield!YesterdayArrives
    <2>1. /\ owed' = owed \ {"yesterday"} /\ yesterday' = kwh.yesterday.kwh
          /\ UNCHANGED <<baseline, baselineDay, restoring, renewed>>
      BY <1>6 DEF Yield!YesterdayArrives, Yield!taskVars, Yield!historyVars
    <2>2. yesterday' \in 0..MaxEnergy
      BY <1>2, <2>1, YieldMessagesAre
    <2>3. YieldTypes'
      BY <1>1, <1>2, <1>3, <2>1, <2>2, YieldSetsStay DEF YieldInv, YieldTypes
    <2>4. AllTrusted' /\ BaselineInv'
      BY <1>1, <2>1 DEF YieldInv, AllTrusted, BaselineInv, Trusted
    <2>. QED BY <2>3, <2>4 DEF YieldInv
  <1>. QED BY <1>4, <1>5, <1>6

LEMMA YieldLink ==
    ASSUME YieldInv, Yield!Deliver \/ Yield!LinkGone \/ Yield!Reconnects
    PROVE  YieldInv'
  <1>1. UNCHANGED <<running, resetDue, measured, baseline, baselineDay, yield, yesterday, resetTotal,
                    solarSends, resetSends, restoring, utcDay, localDay, meter, crashed, utcStart,
                    localStart, renewed>>
    BY DEF Yield!Deliver, Yield!LinkGone, Yield!Reconnects, Yield!stateVars, Yield!taskVars,
           Yield!clockVars, Yield!historyVars
  <1>2. PICK S : S = Yield!YieldMessages
    OBVIOUS
  <1>3. /\ BusOf(S, Capacity) /\ outQ \in Seq(S) /\ Len(outQ) \in Nat
        /\ kwh \in [baseline : Baselines, yesterday : Yesterdays]
        /\ owed \subseteq {"baseline", "yesterday"}
        /\ \A i \in 1..Len(outQ) : Trusted(outQ[i], utcDay, utcStart)
        /\ Trusted(kwh.baseline, utcDay, utcStart)
    BY <1>2 DEF YieldInv, YieldTypes, AllTrusted, BusOf
  <1>4. /\ BusOf(S, Capacity)' /\ owed' \subseteq {"baseline", "yesterday"}
        /\ \A i \in 1..Len(outQ') : Trusted(outQ'[i], utcDay, utcStart)
        /\ kwh' \in [baseline : Baselines, yesterday : Yesterdays]
        /\ Trusted(kwh'.baseline, utcDay, utcStart)
    <2>1. CASE Yield!Deliver
      <3>1. PICK m : m = Head(outQ)
        OBVIOUS
      <3>2. /\ link /\ outQ # <<>> /\ outQ' = Tail(outQ) /\ UNCHANGED <<link, outages, owed>>
            /\ kwh' = IF m.topic \in DOMAIN kwh THEN [kwh EXCEPT ![m.topic] = m] ELSE kwh
        BY <2>1, <3>1 DEF Yield!Deliver, Yield!Bus!Acknowledged
      <3>3. BusOf(S, Capacity)'
        BY <1>3, <3>2, BusTaken, YieldBounds
      <3>4. /\ m \in S /\ m = outQ[1] /\ Len(outQ) \in Nat \ {0} /\ Len(outQ') = Len(outQ) - 1
            /\ \A i \in 1..Len(outQ) - 1 : outQ'[i] = outQ[i + 1]
        BY <1>3, <3>1, <3>2, QueueTail
      <3>5. Trusted(m, utcDay, utcStart)
        BY <1>3, <3>4
      <3>6. ASSUME NEW i \in 1..Len(outQ') PROVE Trusted(outQ'[i], utcDay, utcStart)
        <4>1. i \in 1..Len(outQ) - 1 /\ i + 1 \in 1..Len(outQ)
          BY <3>4, <3>6
        <4>. QED BY <1>3, <3>4, <4>1
      <3>7. /\ kwh' \in [baseline : Baselines, yesterday : Yesterdays]
            /\ Trusted(kwh'.baseline, utcDay, utcStart)
        <4>1. CASE m.topic = "baseline"
          <5>1. m \in Baselines
            BY <1>2, <3>4, <4>1, YieldMessagesAre
          <5>2. kwh' = [kwh EXCEPT !.baseline = m]
            BY <1>3, <3>2, <4>1
          <5>. QED BY <1>3, <3>5, <5>1, <5>2
        <4>2. CASE m.topic = "yesterday"
          <5>1. m \in Yesterdays
            BY <1>2, <3>4, <4>2, YieldMessagesAre
          <5>2. kwh' = [kwh EXCEPT !.yesterday = m]
            BY <1>3, <3>2, <4>2
          <5>. QED BY <1>3, <5>1, <5>2
        <4>3. CASE m.topic = "other"
          <5>1. DOMAIN kwh = {"baseline", "yesterday"}
            BY <1>3
          <5>. QED BY <1>3, <3>2, <4>3, <5>1
        <4>. QED BY <1>2, <3>4, <4>1, <4>2, <4>3, YieldMessagesAre
      <3>. QED BY <1>3, <3>2, <3>3, <3>6, <3>7
    <2>2. CASE Yield!LinkGone
      <3>1. /\ link /\ outages < MaxOutages /\ link' = FALSE /\ outages' = outages + 1
            /\ UNCHANGED <<outQ, kwh>> /\ owed' = {}
        BY <2>2 DEF Yield!LinkGone, Yield!Bus!LinkLost
      <3>2. outages' \in 0..MaxOutages
        BY <1>3, <3>1, YieldBounds DEF BusOf
      <3>3. link' \in BOOLEAN
        BY <3>1, Zenon
      <3>4. BusOf(S, Capacity)'
        BY <1>3, <3>1, <3>2, <3>3 DEF BusOf
      <3>. QED BY <1>3, <3>1, <3>4
    <2>3. CASE Yield!Reconnects
      <3>1. PICK f \in 0..Len(outQ) : Yield!Bus!LinkBack(f)
        BY <2>3 DEF Yield!Reconnects
      <3>2. /\ link' = TRUE /\ outQ' = SubSeq(outQ, f + 1, Len(outQ)) /\ UNCHANGED outages
            /\ owed' = {"baseline", "yesterday"} /\ kwh' = kwh
        BY <2>3, <3>1 DEF Yield!Reconnects, Yield!Bus!LinkBack
      <3>3. BusOf(S, Capacity)' /\ Len(outQ') = Len(outQ) - f
        BY <1>3, <3>2, BusBack, YieldBounds
      <3>4. \A i \in 1 .. Len(outQ) - f : outQ'[i] = outQ[i + f]
        BY <1>3, <3>2, QueueSuffix
      <3>5. ASSUME NEW i \in 1..Len(outQ') PROVE Trusted(outQ'[i], utcDay, utcStart)
        <4>1. i \in 1..Len(outQ) - f /\ i + f \in 1..Len(outQ)
          BY <1>3, <3>3, <3>5
        <4>. QED BY <1>3, <3>4, <4>1
      <3>. QED BY <1>3, <3>2, <3>3, <3>5
    <2>. QED BY <2>1, <2>2, <2>3
  <1>5. BusOf(Yield!YieldMessages, Capacity)'
    BY <1>2, <1>4, YieldSetsStay DEF BusOf
  <1>6. YieldTypes'
    BY <1>1, <1>4, <1>5, YieldSetsStay DEF YieldInv, YieldTypes
  <1>7. AllTrusted'
    BY <1>1, <1>4 DEF YieldInv, AllTrusted, Trusted
  <1>8. BaselineInv'
    BY <1>1 DEF YieldInv, BaselineInv
  <1>. QED BY <1>6, <1>7, <1>8 DEF YieldInv

LEMMA YieldClock ==
    ASSUME YieldInv, Yield!Produces \/ Yield!LocalMidnight \/ Yield!UtcMidnight
    PROVE  YieldInv'
  <1>1. UNCHANGED <<running, baseline, baselineDay, yield, yesterday, resetTotal, solarSends, resetSends,
                    restoring, kwh, owed, crashed, outQ, link, outages>>
    BY DEF Yield!Produces, Yield!LocalMidnight, Yield!UtcMidnight, Yield!stateVars, Yield!taskVars,
           Yield!networkVars
  <1>2. BusOf(Yield!YieldMessages, Capacity)'
    BY <1>1, YieldSetsStay DEF YieldInv, YieldTypes, BusOf
  <1>3. /\ utcDay \in 0..MaxDay /\ localDay \in {utcDay, utcDay + 1} /\ localDay <= MaxDay
        /\ meter \in 0..MaxEnergy /\ utcStart \in 0..meter /\ localStart \in 0..meter
        /\ baseline \in -1..MaxEnergy /\ baselineDay \in -1..utcDay /\ yield \in 0..MaxEnergy
        /\ MaxDay \in Nat /\ MaxEnergy \in Nat
    BY YieldBounds DEF YieldInv, YieldTypes
  <1>4. CASE Yield!Produces
    <2>1. /\ meter < MaxEnergy /\ meter' = meter + 1
          /\ UNCHANGED <<resetDue, measured, utcDay, localDay, utcStart, localStart, renewed>>
      BY <1>4 DEF Yield!Produces, Yield!clockVars, Yield!historyVars
    <2>2. meter' \in 0..MaxEnergy /\ utcStart \in 0..meter' /\ localStart \in 0..meter'
      BY <1>3, <2>1
    <2>3. YieldTypes'
      BY <1>1, <1>2, <2>1, <2>2, YieldSetsStay DEF YieldInv, YieldTypes
    <2>4. AllTrusted'
      BY <1>1, <2>1 DEF YieldInv, AllTrusted, Trusted
    <2>5. BaselineInv'
      BY <1>1, <1>3, <2>1 DEF YieldInv, BaselineInv
    <2>. QED BY <2>3, <2>4, <2>5 DEF YieldInv
  <1>5. CASE Yield!LocalMidnight
    <2>1. /\ localDay = utcDay /\ utcDay < MaxDay /\ localDay' = localDay + 1 /\ resetDue' = running
          /\ localStart' = meter /\ renewed' = "no" /\ UNCHANGED <<utcDay, meter, utcStart, measured>>
      BY <1>5 DEF Yield!LocalMidnight
    <2>2. /\ localDay' \in {utcDay, utcDay + 1} /\ localDay' <= MaxDay /\ localStart' \in 0..meter
      BY <1>3, <2>1
    <2>3. YieldTypes'
      BY <1>1, <1>2, <2>1, <2>2, YieldSetsStay DEF YieldInv, YieldTypes
    <2>4. AllTrusted'
      BY <1>1, <2>1 DEF YieldInv, AllTrusted, Trusted
    <2>5. BaselineInv'
      BY <1>1, <2>1 DEF YieldInv, BaselineInv
    <2>. QED BY <2>3, <2>4, <2>5 DEF YieldInv
  <1>6. CASE Yield!UtcMidnight
    <2>1. /\ localDay > utcDay /\ utcDay' = utcDay + 1 /\ utcStart' = meter /\ measured' = FALSE
          /\ UNCHANGED <<localDay, resetDue, localStart, meter, renewed>>
      BY <1>6 DEF Yield!UtcMidnight
    <2>2. /\ utcDay' \in 0..MaxDay /\ localDay \in {utcDay', utcDay' + 1} /\ utcStart' \in 0..meter
          /\ baselineDay \in -1..utcDay' /\ baselineDay # utcDay'
      BY <1>3, <2>1
    <2>3. measured' \in BOOLEAN
      BY <2>1, Zenon
    <2>4. YieldTypes'
      BY <1>1, <1>2, <2>1, <2>2, <2>3, YieldSetsStay DEF YieldInv, YieldTypes
    <2>5. ASSUME NEW m \in Yield!YieldMessages, Trusted(m, utcDay, utcStart)
          PROVE  Trusted(m, utcDay', utcStart')
      <3>1. m.topic = "baseline" => m.day \in Int
        BY YieldMessagesAre, YieldBounds
      <3>. QED BY <1>3, <2>1, <2>5, <3>1 DEF Trusted
    <2>6. AllTrusted'
      <3>1. \A i \in 1..Len(outQ) : outQ[i] \in Yield!YieldMessages
        BY DEF YieldInv, YieldTypes, BusOf
      <3>2. kwh.baseline \in Yield!YieldMessages /\ restoring \in Yield!YieldMessages
        BY YieldMessagesAre DEF YieldInv, YieldTypes
      <3>3. \A i \in 1..Len(solarSends) : solarSends[i] \in Yield!YieldMessages
        <4>1. CASE solarSends = <<>>
          BY <4>1
        <4>2. ASSUME NEW m \in Baselines, solarSends = <<m>>
              PROVE  \A i \in 1..Len(solarSends) : solarSends[i] \in Yield!YieldMessages
          <5>1. m \in Yield!YieldMessages /\ Len(solarSends) = 1 /\ solarSends[1] = m
            BY <4>2, YieldMessagesAre
          <5>. QED BY <5>1
        <4>. QED BY <4>1, <4>2 DEF YieldInv, YieldTypes
      <3>4. /\ \A i \in 1..Len(outQ) : Trusted(outQ[i], utcDay', utcStart')
            /\ \A i \in 1..Len(solarSends) : Trusted(solarSends[i], utcDay', utcStart')
            /\ Trusted(kwh.baseline, utcDay', utcStart') /\ Trusted(restoring, utcDay', utcStart')
        BY <2>5, <3>1, <3>2, <3>3 DEF YieldInv, AllTrusted
      <3>. QED BY <1>1, <3>4 DEF AllTrusted, Trusted
    <2>7. BaselineInv'
      BY <1>1, <2>1, <2>2 DEF YieldInv, BaselineInv
    <2>. QED BY <2>4, <2>6, <2>7 DEF YieldInv
  <1>. QED BY <1>4, <1>5, <1>6

LEMMA YieldEnds ==
    ASSUME YieldInv, Yield!Crash \/ Yield!StartAgain
    PROVE  YieldInv'
  <1>1. UNCHANGED <<kwh, utcDay, localDay, meter, utcStart, localStart>>
    BY DEF Yield!Crash, Yield!StartAgain, Yield!clockVars
  <1>2. CASE Yield!Crash
    <2>1. /\ crashed < MaxEnds /\ crashed' = crashed + 1 /\ running' = FALSE
          /\ baseline' = -1 /\ baselineDay' = -1 /\ yield' = 0 /\ yesterday' = 0
          /\ solarSends' = <<>> /\ resetTotal' = -1 /\ resetSends' = <<>>
          /\ restoring' = Yield!NoBaseline /\ owed' = {} /\ resetDue' = FALSE
          /\ measured' = FALSE /\ renewed' = "no"
      BY <1>2 DEF Yield!Crash, Yield!None
    <2>2. outQ' = <<>> /\ link' = FALSE /\ outages' = outages
      BY <1>2 DEF Yield!Crash, Yield!Bus!BusRestart
    <2>3. BusOf(Yield!YieldMessages, Capacity)'
      <3>1. outQ' \in Seq(Yield!YieldMessages) /\ Len(outQ') = 0
        BY <2>2
      <3>2. link' \in BOOLEAN
        BY <2>2, Zenon
      <3>. QED BY <2>2, <3>1, <3>2, YieldBounds, YieldSetsStay DEF YieldInv, YieldTypes, BusOf
    <2>4. /\ crashed' \in 0..MaxEnds /\ baseline' \in -1..MaxEnergy /\ baselineDay' \in -1..utcDay
          /\ yield' \in 0..MaxEnergy /\ yesterday' \in 0..MaxEnergy /\ resetTotal' \in -1..MaxEnergy
          /\ utcDay \in Nat /\ meter - utcStart >= 0
      <3>1. crashed \in 0..MaxEnds /\ utcDay \in 0..MaxDay /\ utcStart \in 0..meter
            /\ meter \in 0..MaxEnergy
        BY DEF YieldInv, YieldTypes
      <3>. QED BY <2>1, <3>1, YieldBounds
    <2>5. running' \in BOOLEAN /\ resetDue' \in BOOLEAN /\ measured' \in BOOLEAN
      BY <2>1, Zenon
    <2>6. YieldTypes'
      BY <1>1, <2>1, <2>3, <2>4, <2>5, YieldSetsStay, YieldMessagesAre DEF YieldInv, YieldTypes
    <2>7. AllTrusted'
      <3>1. Len(outQ') = 0 /\ Len(solarSends') = 0
        BY <2>1, <2>2
      <3>2. Trusted(Yield!NoBaseline, utcDay, utcStart)
        BY <2>4, YieldMessagesAre DEF Trusted
      <3>. QED BY <1>1, <2>1, <3>1, <3>2 DEF YieldInv, AllTrusted, Trusted
    <2>8. BaselineInv'
      BY <2>1 DEF BaselineInv
    <2>. QED BY <2>6, <2>7, <2>8 DEF YieldInv
  <1>3. CASE Yield!StartAgain
    <2>1. /\ running' = TRUE
          /\ UNCHANGED <<resetDue, measured, baseline, baselineDay, yield, yesterday, resetTotal,
                         solarSends, resetSends, restoring, owed, crashed, renewed, outQ, link, outages>>
      BY <1>3 DEF Yield!StartAgain, Yield!stateVars, Yield!networkVars, Yield!clockVars,
                  Yield!historyVars
    <2>2. running' \in BOOLEAN
      BY <2>1, Zenon
    <2>3. BusOf(Yield!YieldMessages, Capacity)'
      BY <2>1, YieldSetsStay DEF YieldInv, YieldTypes, BusOf
    <2>4. YieldTypes'
      BY <1>1, <2>1, <2>2, <2>3, YieldSetsStay DEF YieldInv, YieldTypes
    <2>5. AllTrusted' /\ BaselineInv'
      BY <1>1, <2>1 DEF YieldInv, AllTrusted, BaselineInv, Trusted
    <2>. QED BY <2>4, <2>5 DEF YieldInv
  <1>. QED BY <1>2, <1>3

LEMMA YieldPart == PartsSpec => [](part = "yield" => YieldInv)
  <1>1. PartsInit => YieldInv
    BY YieldInvInit DEF PartsInit
  <1>2. (part = "yield" => YieldInv) /\ [PartsNext]_partsVars
           => (part = "yield" => YieldInv)'
    <2> SUFFICES ASSUME part = "yield" => YieldInv, [PartsNext]_partsVars, part' = "yield"
                 PROVE  YieldInv'
      OBVIOUS
    <2>1. CASE PartsNext
      <3>1. YieldInv /\ Yield!Next
        BY <2>1 DEF PartsNext
      <3>. QED BY <3>1, YieldEnergy, YieldPublishes, YieldResets, YieldArrives, YieldLink, YieldClock,
                  YieldEnds DEF Yield!Next
    <2>2. CASE UNCHANGED partsVars
      <3>1. YieldInv /\ UNCHANGED <<yieldVars, busVars>>
        BY <2>2 DEF partsVars
      <3>. QED BY <3>1, YieldSetsStay
               DEF YieldInv, YieldTypes, AllTrusted, BaselineInv, Trusted, BusOf, yieldVars, busVars
    <2>. QED BY <2>1, <2>2
  <1>. QED BY <1>1, <1>2, PTL DEF PartsSpec

LEMMA YieldInvImplies ==
    YieldInv => /\ Yield!NoEarlierDayCounted /\ Yield!NoResetDayCounted
                /\ Yield!TypeOK
  <1> SUFFICES ASSUME YieldInv
               PROVE  Yield!NoEarlierDayCounted /\ Yield!NoResetDayCounted /\ Yield!TypeOK
    OBVIOUS
  <1>1. Yield!NoEarlierDayCounted /\ Yield!NoResetDayCounted
    BY DEF YieldInv, BaselineInv, Yield!NoEarlierDayCounted, Yield!NoResetDayCounted
  <1>2. Yield!Bus!BusTypeOK
    <2>1. BusOf(Yield!YieldMessages, Capacity)
      BY DEF YieldInv, YieldTypes
    <2>. QED BY <2>1, YieldBounds DEF BusOf, Yield!Bus!BusTypeOK
  <1>3. baseline \in Yield!Readings /\ resetTotal \in Yield!Readings /\ baselineDay \in -1..MaxDay
    <2>1. baseline \in -1..MaxEnergy /\ resetTotal \in -1..MaxEnergy
          /\ baselineDay \in -1..utcDay /\ utcDay \in 0..MaxDay
      BY DEF YieldInv, YieldTypes
    <2>. QED BY <2>1, YieldBounds DEF Yield!Readings, Yield!None
  <1>4. solarSends \in Yield!Sent /\ resetSends \in Yield!Sent
    <2>1. \A m \in Baselines \cup Yesterdays : m \in Yield!YieldMessages
      BY YieldMessagesAre
    <2>2. /\ solarSends \in {<<>>} \cup {<<m>> : m \in Baselines}
          /\ resetSends \in {<<>>, <<Yield!NoBaseline>>} \cup {<<m, Yield!NoBaseline>> : m \in Yesterdays}
      BY DEF YieldInv, YieldTypes
    <2>3. Yield!NoBaseline \in Yield!YieldMessages
      BY YieldMessagesAre
    <2>. QED BY <2>1, <2>2, <2>3 DEF Yield!Sent
  <1>5. restoring \in Yield!YieldMessages /\ kwh.baseline \in Yield!YieldMessages
        /\ kwh.yesterday \in Yield!YieldMessages
    BY YieldMessagesAre DEF YieldInv, YieldTypes
  <1>. QED BY <1>1, <1>2, <1>3, <1>4, <1>5 DEF YieldInv, YieldTypes, Yield!TypeOK, Yield!None

-----------------------------------------------------------------------------
\* Neither the counts of the battery nor the yield of the day contain anything
\* of an earlier day.
THEOREM AlwaysTodayOnly == PartsSpec => []TodayOnly
  <1>1. (part = "shunt" => ShuntInv) /\ (part = "yield" => YieldInv) => TodayOnly
    BY ShuntInvImplies, YieldInvImplies DEF TodayOnly
  <1>. QED BY <1>1, ShuntPart, YieldPart, PTL

\* Every part keeps its types.
THEOREM ReadSideTypesKept == PartsSpec => []ReadSideTypesOK
  <1>1. (part = "file" => FileInv) => (part = "file" => File!StoreTypesOK)
    BY FileInvTypes
  <1>2. (part = "state" => StateInv) => (part = "state" => State!ServerTypesOK)
    BY StateInvTypes
  <1>3. (part = "topics" => TopicsInv) => (part = "topics" => Bridge!BridgeTypesOK)
    BY TopicsInvTypes
  <1>4. (part = "venus" => VenusInv) => (part = "venus" => Venus!KindsTypesOK)
    BY VenusInvTypes
  <1>5. (part = "shunt" => ShuntInv) => (part = "shunt" => Shunt!ShuntTypesOK)
    BY ShuntInvImplies
  <1>6. (part = "yield" => YieldInv) => (part = "yield" => Yield!TypeOK)
    BY YieldInvImplies
  <1>7. (part = "heater" => HeaterInv) => (part = "heater" => Heater!HeaterTypeOK)
    BY HeaterInvImplies
  <1>8. (part = "charge" => ChargeInv) => (part = "charge" => Charge!ChargeTypesOK)
    BY ChargeInvImplies
  <1>9. (part = "presence" => PresenceInv) => (part = "presence" => Presence!PresenceTypesOK)
    BY PresenceInvImplies
  <1>10. (part = "commands" => CommandsInv) => (part = "commands" => Commands!CommandsTypesOK)
    BY CommandsInvImplies
  <1>11. /\ (part = "file" => File!StoreTypesOK)
         /\ (part = "state" => State!ServerTypesOK)
         /\ (part = "topics" => Bridge!BridgeTypesOK)
         /\ (part = "venus" => Venus!KindsTypesOK)
         /\ (part = "shunt" => Shunt!ShuntTypesOK)
         /\ (part = "yield" => Yield!TypeOK)
         /\ (part = "heater" => Heater!HeaterTypeOK)
         /\ (part = "charge" => Charge!ChargeTypesOK)
         /\ (part = "presence" => Presence!PresenceTypesOK)
         /\ (part = "commands" => Commands!CommandsTypesOK)
         => ReadSideTypesOK
    BY DEF ReadSideTypesOK
  <1>. QED BY <1>1, <1>2, <1>3, <1>4, <1>5, <1>6, <1>7, <1>8, <1>9, <1>10, <1>11,
              FilePart, StatePart, TopicsPart, VenusPart, ShuntPart, YieldPart,
              HeaterPart, ChargePart, PresencePart, CommandsPart, PTL
=============================================================================
