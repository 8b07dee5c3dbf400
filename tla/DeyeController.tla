--------------------------- MODULE DeyeController ---------------------------
(***************************************************************************)
(* energy-manager, logic/deye_command: the controller that cuts the DEYE   *)
(* inverters when the AC-Out frequency rises or the battery is full, and   *)
(* restores them once both have been clear for a while.                    *)
(*                                                                         *)
(* The code keeps instants and compares `now - instant` with a delay; here *)
(* every instant is an age in seconds, which stops growing at Horizon (or  *)
(* at MaxAge + 1, "too old or never seen", for telemetry): nothing in the  *)
(* code tells larger ages apart.  A charge stage is reduced to whether it  *)
(* is one of mppt_full_states.                                             *)
(***************************************************************************)
EXTENDS Integers

CONSTANTS
    Chargers,       \* the MPPT chargers (mppt_273 and mppt_289)
    Freqs,          \* AC-Out frequencies, in any unit
    Nominal,        \* NOMINAL_FREQ_HZ
    FreqHigh,       \* freq_high_hz
    FreqHard,       \* freq_hard_hz
    MpptCut,        \* mppt_cut_enabled
    CutDelay,       \* cut_delay_secs
    ReenableDelay,  \* reenable_delay_secs
    MaxAge,         \* input_max_age_secs
    MaxLag          \* bound: seconds the 1 Hz ticker may be late

\* The thresholds are ordered as the defaults of DeyeConfig are.
ASSUME ThresholdsOrdered ==
    /\ Freqs \subseteq Int /\ Nominal \in Freqs
    /\ FreqHigh \in Int /\ FreqHard \in Int
    /\ Nominal < FreqHigh /\ FreqHigh <= FreqHard

ASSUME DelaysAreNatural ==
    /\ CutDelay \in Nat /\ ReenableDelay \in Nat /\ MaxAge \in Nat
    /\ MaxLag \in Nat \ {0}
    /\ MpptCut \in BOOLEAN

VARIABLES
    relayOn,        \* DeyeController::relay_on
    cutFor,         \* age of cut_since, None when it is None
    restoreFor,     \* age of restore_since, None when it is None
    freq,           \* EnergyState::ac_frequency_hz
    freqAge,        \* age of ac_frequency_last_ts
    full,           \* full[c]: the last State of charger c means "full"
    mpptAge,        \* mpptAge[c]: age of its state_last_ts
    sinceTick,      \* seconds since the ticker last fired
    \* history
    offFor,         \* seconds since the relay was cut, as the wall clock has it
    steadyFor       \* seconds for which ShouldCut has not changed

deciding == <<relayOn, cutFor, restoreFor>>
telemetry == <<freq, freqAge, full, mpptAge>>
vars == <<deciding, telemetry, sinceTick, offFor, steadyFor>>

None == -1
Horizon == CutDelay + ReenableDelay + 2 * MaxLag
Stale == MaxAge + 1

\* Variant: the anchors stop one second after the limit.
AgedTwice(age, d, limit) ==
    IF age = None THEN None
    ELSE IF age + d >= limit THEN limit + 1 ELSE age + d

\* An age d seconds later, up to the limit.
Aged(age, d, limit) ==
    IF age = None THEN None
    ELSE IF age + d > limit THEN limit ELSE age + d

-----------------------------------------------------------------------------
(* What the controller reads, with its freshness guards (read_inputs).     *)

\* Variant: no freshness guard on the frequency.
FreqUnguarded == freq

FreqRead == IF freqAge = Stale THEN Nominal ELSE freq

MpptStale == \A c \in Chargers : mpptAge[c] = Stale

MpptFull == MpptCut /\ ~MpptStale /\ \E c \in Chargers : full[c]

ShouldCut == FreqRead >= FreqHigh \/ MpptFull
HardCut == FreqRead >= FreqHard

-----------------------------------------------------------------------------
Init ==
    /\ relayOn \in BOOLEAN
    /\ cutFor = None /\ restoreFor = None
    /\ freq = Nominal /\ freqAge = Stale
    /\ full = [c \in Chargers |-> FALSE]
    /\ mpptAge = [c \in Chargers |-> Stale]
    /\ sinceTick = 0
    /\ offFor = Horizon
    /\ steadyFor = 0

\* The condition either kept its value, or starts again.
Steadied(age) ==
    steadyFor' = IF ShouldCut' <=> ShouldCut THEN age ELSE 0

\* A message on .../Ac/Out/L1/F (inverter/mod.rs).
FreqMessage ==
    /\ freq' \in Freqs
    /\ freqAge' = 0
    /\ UNCHANGED <<deciding, full, mpptAge, sinceTick, offFor>>
    /\ Steadied(steadyFor)

\* A message on the State topic of a charger (solar_power/mod.rs).
MpptMessage(c) ==
    /\ \E isFull \in BOOLEAN : full' = [full EXCEPT ![c] = isFull]
    /\ mpptAge' = [mpptAge EXCEPT ![c] = 0]
    /\ UNCHANGED <<deciding, freq, freqAge, sinceTick, offFor>>
    /\ Steadied(steadyFor)

\* Utc::now() moves on by d seconds.
ClockMoves(d) ==
    /\ cutFor' = Aged(cutFor, d, Horizon)
    /\ restoreFor' = Aged(restoreFor, d, Horizon)
    /\ freqAge' = Aged(freqAge, d, Stale)
    /\ mpptAge' = [c \in Chargers |-> Aged(mpptAge[c], d, Stale)]
    /\ UNCHANGED <<relayOn, freq, full>>

\* A second passes; the ticker is at most MaxLag seconds late.
Second ==
    /\ sinceTick < MaxLag
    /\ sinceTick' = sinceTick + 1
    /\ ClockMoves(1)
    /\ offFor' = Aged(offFor, 1, Horizon)
    /\ Steadied(Aged(steadyFor, 1, Horizon))

\* The wall clock is stepped forward, by NTP after a boot for instance: all
\* the instants the code keeps grow older, although no time has passed.  A
\* DEYE that is off may now be restored, however long it has been off.
ClockStep ==
    /\ \E d \in 1..(Horizon + Stale) : ClockMoves(d)
    /\ offFor' = Horizon
    /\ UNCHANGED sinceTick
    /\ Steadied(steadyFor)

Held(since, delay) == since # None /\ since >= delay

\* get_or_insert(now)
Anchored(since) == IF since = None THEN 0 ELSE since

\* Variant: the restore anchor survives a cut condition.
FlagsKeepRestore ==
    /\ cutFor' = IF ShouldCut THEN Anchored(cutFor) ELSE None
    /\ restoreFor' = Anchored(restoreFor)

\* Variant: every evaluation pushes the cut anchor forward.
FlagsPushCut ==
    /\ cutFor' = IF ShouldCut THEN 0 ELSE None
    /\ restoreFor' = IF ShouldCut THEN None ELSE Anchored(restoreFor)

\* Variant: a fresh telemetry value pushes the restore anchor forward.
FlagsPushRestore ==
    /\ cutFor' = IF ShouldCut THEN Anchored(cutFor) ELSE None
    /\ restoreFor' = IF ShouldCut THEN None
                     ELSE IF freqAge = 0 THEN 0 ELSE Anchored(restoreFor)

\* DeyeController::flags moves the two anchors ...
Flags ==
    /\ cutFor' = IF ShouldCut THEN Anchored(cutFor) ELSE None
    /\ restoreFor' = IF ShouldCut THEN None ELSE Anchored(restoreFor)

\* ... and rules::decide maps the flags to the relay.
Decide ==
    relayOn' = IF relayOn THEN ~(HardCut \/ Held(cutFor', CutDelay))
                          ELSE Held(restoreFor', ReenableDelay)

\* One tick of the 1 Hz driver: read_inputs, flags, decide, set.
Evaluate ==
    /\ Flags
    /\ Decide
    /\ sinceTick' = 0
    /\ offFor' = IF relayOn /\ ~relayOn' THEN 0 ELSE offFor
    /\ UNCHANGED <<telemetry, steadyFor>>

Next ==
    \/ Second
    \/ ClockStep
    \/ Evaluate
    \/ FreqMessage
    \/ \E c \in Chargers : MpptMessage(c)

Spec == Init /\ [][Next]_vars

\* Time passes and the ticker fires; nothing makes the telemetry arrive.
FairSpec == Spec /\ WF_vars(Second) /\ WF_vars(Evaluate)

-----------------------------------------------------------------------------
TypeOK ==
    /\ relayOn \in BOOLEAN
    /\ cutFor \in None..Horizon
    /\ restoreFor \in None..Horizon
    /\ freq \in Freqs
    /\ freqAge \in 0..Stale
    /\ full \in [Chargers -> BOOLEAN]
    /\ mpptAge \in [Chargers -> 0..Stale]
    /\ sinceTick \in 0..MaxLag
    /\ offFor \in 0..Horizon
    /\ steadyFor \in 0..Horizon

\* The anti-oscillation guard of reenable_delay_secs: a DEYE that was cut
\* stays off for at least that long, whatever the inputs do meanwhile and
\* whichever condition cut it (config.rs, reenable_delay_secs), unless the
\* wall clock is stepped meanwhile.
MinOffTime == [][~relayOn /\ relayOn' => offFor >= ReenableDelay]_vars

\* The relay tracks its inputs downwards: once they have asked for the cut
\* for cut_delay_secs, plus a late tick at each end, the relay is off,
\* whether the frequency, a charger or a mix of both kept asking.
CutInTime ==
    ShouldCut /\ steadyFor >= CutDelay + 2 * MaxLag => ~relayOn

\* ... and upwards: it can never be stranded.  Once nothing has asked for
\* the cut for reenable_delay_secs, plus a late tick at each end, the relay
\* is on, from any state of the two debounce timers.
RestoreInTime ==
    ~ShouldCut /\ steadyFor >= ReenableDelay + 2 * MaxLag => relayOn

\* Telemetry that falls silent altogether never strands the relay: the
\* DEYE comes back and stays on.
SilenceRestores ==
    <>[](freqAge = Stale /\ MpptStale) => <>[]relayOn

\* What the comment of read_inputs promises of each value: a frozen one
\* never strands the relay, the other ones being fresh and clear.
FrozenTelemetryNeverStrands ==
    ~ <>[](/\ ~relayOn
           /\ FreqRead < FreqHigh
           /\ \A c \in Chargers : mpptAge[c] = Stale \/ ~full[c])

=============================================================================
