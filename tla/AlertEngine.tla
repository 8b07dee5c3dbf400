---------------------------- MODULE AlertEngine ----------------------------
(***************************************************************************)
(* daly-bms-server, bridges/alerts.rs and AppState::on_snapshot: alert     *)
(* rules with hysteresis and a minimum duration, evaluated by one task on  *)
(* the snapshots of every BMS, and the journal of what they did.           *)
(*                                                                         *)
(* A rule only looks at where its value lies: "bad" is beyond the trigger  *)
(* threshold, "good" beyond the clear threshold, "band" between the two.   *)
(* Instants are ages in seconds that stop growing at the delay they are    *)
(* compared with; the engine measures them when it evaluates, not when the *)
(* snapshot was taken.                                                     *)
(*                                                                         *)
(* The states of the rules live in memory, the journal in an SQLite file:  *)
(* a restart of the server loses the ones and keeps the other.             *)
(***************************************************************************)
EXTENDS Integers, Sequences, SequencesExt, FiniteSets

CONSTANTS
    Bms,            \* addresses
    Rules,          \* rule ids
    MinDuration,    \* min_duration of each rule, in seconds
    Cooldown,       \* cooldown of each rule
    QueueCap,       \* slots of alert_tx
    SendMax         \* seconds a notification may take

ASSUME EngineAssumption ==
    /\ IsFiniteSet(Bms) /\ IsFiniteSet(Rules)
    /\ MinDuration \in [Rules -> Nat] /\ Cooldown \in [Rules -> Nat]
    /\ QueueCap \in Nat \ {0} /\ SendMax \in Nat

VARIABLES
    level,          \* level[b][r]: where the value of rule r lies at BMS b
    polled,         \* the BMSs polled in this second
    queue,          \* alert_tx: snapshots not yet evaluated
    active,         \* RuleState::active, for each key <<b, r>>
    pending,        \* age of RuleState::pending_since
    notified,       \* age of RuleState::last_notified
    outbox,         \* notifications of the current evaluation, still to do
    sendingFor,     \* seconds spent in send_telegram, None when not in it
    journal         \* the last event of each key in alert_events, "cleared" if none

ruleVars == <<active, pending, notified>>
taskVars == <<queue, outbox, sendingFor>>
vars == <<level, polled, ruleVars, taskVars, journal>>

None == -1
Keys == Bms \X Rules
Levels == {"good", "band", "bad"}
Aged(age, limit) == IF age = None \/ age = limit THEN age ELSE age + 1

Init ==
    /\ level \in [Bms -> [Rules -> Levels]]
    /\ polled = {}
    /\ queue = <<>> /\ outbox = <<>> /\ sendingFor = None
    /\ active = [k \in Keys |-> FALSE]
    /\ pending = [k \in Keys |-> None]
    /\ notified = [k \in Keys |-> None]
    /\ journal = [k \in Keys |-> "cleared"]

-----------------------------------------------------------------------------
LevelMoves(b) ==
    /\ \E r \in Rules, l \in Levels : level' = [level EXCEPT ![b][r] = l]
    /\ UNCHANGED <<polled, ruleVars, taskVars, journal>>

\* Variant: an unbounded channel.
EnqueueUnbounded(s) == Len(queue) <= QueueCap /\ queue' = Append(queue, s)

\* try_reserve on alert_tx: a snapshot that finds no slot is dropped.
Enqueue(s) ==
    queue' = IF Len(queue) < QueueCap THEN Append(queue, s) ELSE queue

\* on_snapshot, of a BMS just polled; the poll loop has a period of 1 s.
OnSnapshot(b) ==
    /\ b \notin polled
    /\ polled' = polled \cup {b}
    /\ Enqueue([bms |-> b, level |-> level[b]])
    /\ UNCHANGED <<level, ruleVars, outbox, sendingFor, journal>>

-----------------------------------------------------------------------------
(* The engine's task: evaluate the rules on one snapshot, then journal and *)
(* send what they ask for, one notification after the other.               *)

EngineIdle == outbox = <<>> /\ sendingFor = None

CooledDown(k) == notified[k] \in {None, Cooldown[k[2]]}

\* What the evaluation of snapshot s does to the rule of key k.
Bad(s, k)  == s.bms = k[1] /\ s.level[k[2]] = "bad"
Good(s, k) == s.bms = k[1] /\ s.level[k[2]] = "good"

Matured(k) == MinDuration[k[2]] \in {0, pending[k]}

Triggers(s, k) == ~active[k] /\ Bad(s, k) /\ Matured(k)
Clears(s, k)   == active[k] /\ Good(s, k)

\* Variant: pending_since is kept by rule, not by BMS and rule.
PendingOfRule(s, k) ==
    IF s.level[k[2]] # "bad" \/ Triggers(s, k) THEN None
    ELSE IF pending[k] = None /\ s.bms = k[1] THEN 0 ELSE pending[k]

PendingAfter(s, k) ==
    IF s.bms # k[1] THEN pending[k]
    ELSE IF active[k] THEN (IF Clears(s, k) THEN None ELSE pending[k])
    ELSE IF ~Bad(s, k) \/ Triggers(s, k) THEN None
    ELSE IF pending[k] = None THEN 0 ELSE pending[k]

\* Variant: the end of an alarm is also subject to the cooldown.
TellsWhenCool(s, k) == (Triggers(s, k) \/ Clears(s, k)) /\ CooledDown(k)

\* A trigger is told unless the rule is cooling down, an end always.
Tells(s, k) == (Triggers(s, k) /\ CooledDown(k)) \/ Clears(s, k)

Notification(s, k) ==
    [key |-> k, event |-> IF Triggers(s, k) THEN "triggered" ELSE "cleared"]

Evaluate ==
    /\ EngineIdle /\ queue # <<>>
    /\ LET s == Head(queue) IN
         /\ active' = [k \in Keys |-> IF Triggers(s, k) THEN TRUE
                                      ELSE IF Clears(s, k) THEN FALSE ELSE active[k]]
         /\ pending' = [k \in Keys |-> PendingAfter(s, k)]
         /\ notified' = [k \in Keys |-> IF Triggers(s, k) /\ CooledDown(k)
                                        THEN 0 ELSE notified[k]]
         /\ outbox' = SetToSeq({Notification(s, k) : k \in {x \in Keys : Tells(s, x)}})
    /\ queue' = Tail(queue)
    /\ UNCHANGED <<level, polled, sendingFor, journal>>

\* log_event: an INSERT.  One that fails is not reported, and the row before
\* it stays the last of its key.
LogEvent ==
    /\ outbox # <<>> /\ sendingFor = None
    /\ LET n == Head(outbox)
       IN  journal' \in {[journal EXCEPT ![n.key] = n.event], journal}
    /\ sendingFor' = 0
    /\ UNCHANGED <<level, polled, ruleVars, queue, outbox>>

\* send_telegram returns, in success or not, within its timeout.
Sent ==
    /\ sendingFor # None
    /\ outbox' = Tail(outbox)
    /\ sendingFor' = None
    /\ UNCHANGED <<level, polled, ruleVars, queue, journal>>

\* A second passes; only sending takes time.
Second ==
    /\ EngineIdle => queue = <<>>
    /\ outbox # <<>> => sendingFor \in 0..(SendMax - 1)
    /\ polled' = {}
    /\ sendingFor' = IF sendingFor = None THEN None ELSE sendingFor + 1
    /\ pending' = [k \in Keys |-> Aged(pending[k], MinDuration[k[2]])]
    /\ notified' = [k \in Keys |-> Aged(notified[k], Cooldown[k[2]])]
    /\ UNCHANGED <<level, active, queue, outbox, journal>>

\* The server ends, once a day at the latest, and starts anew: whatever was
\* active, in the channel or still to be told is forgotten, and the journal
\* is opened as it was left.
ServerRestarts ==
    /\ active' = [k \in Keys |-> FALSE]
    /\ pending' = [k \in Keys |-> None] /\ notified' = [k \in Keys |-> None]
    /\ queue' = <<>> /\ outbox' = <<>> /\ sendingFor' = None
    /\ polled' = {}
    /\ UNCHANGED <<level, journal>>

Next ==
    \/ \E b \in Bms : LevelMoves(b) \/ OnSnapshot(b)
    \/ Evaluate \/ LogEvent \/ Sent
    \/ Second \/ ServerRestarts

Spec == Init /\ [][Next]_vars

\* Time passes, the engine runs, and no BMS finds the queue full each time;
\* what is asked of the rules is asked of a server that is left running.
FairSpec ==
    /\ Spec
    /\ WF_vars(Evaluate) /\ WF_vars(LogEvent) /\ WF_vars(Sent) /\ WF_vars(Second)
    /\ \A b \in Bms : SF_vars(Len(queue) < QueueCap /\ OnSnapshot(b))
    /\ <>[][~ServerRestarts]_vars

-----------------------------------------------------------------------------
Snapshots == [bms : Bms, level : [Rules -> Levels]]

TypeOK ==
    /\ polled \subseteq Bms
    /\ level \in [Bms -> [Rules -> Levels]]
    /\ queue \in Seq(Snapshots) /\ Len(queue) <= QueueCap
    /\ active \in [Keys -> BOOLEAN]
    /\ \A k \in Keys :
          /\ pending[k] \in None..MinDuration[k[2]]
          /\ notified[k] \in None..Cooldown[k[2]]
    /\ outbox \in Seq([key : Keys, event : {"triggered", "cleared"}])
    /\ sendingFor \in None..SendMax
    /\ journal \in [Keys -> {"triggered", "cleared"}]

\* Yet to be written: the end of the alarm of key k.
ToClear(k) ==
    \E i \in DOMAIN outbox :
        /\ outbox[i] = [key |-> k, event |-> "cleared"]
        /\ i > 1 \/ sendingFor = None

\* The journal ends with an alarm that nothing will close.
LeftOpen(k) == journal[k] = "triggered" /\ ~active[k] /\ ~ToClear(k)

\* The "cleared" of key k, whose turn it is, is not written.
EndNotWritten(k) ==
    LogEvent /\ journal' = journal /\ Head(outbox) = [key |-> k, event |-> "cleared"]

\* Every "triggered" of the journal gets its "cleared", whatever the queue
\* drops, the cooldown silences and however slow the messages are: only an
\* INSERT of the "cleared" that fails and a restart of the server leave an
\* alarm open.
NoAlarmLeftOpen ==
    [][\A k \in Keys :
          LeftOpen(k)' => LeftOpen(k) \/ ServerRestarts \/ EndNotWritten(k)]_vars

\* "sans désynchronisation durable" (state.rs): a value that stays on one
\* side of both thresholds ends up with the rule in the state it asks for.
FollowsSteadyLevel ==
    \A b \in Bms, r \in Rules :
        /\ <>[](level[b][r] = "bad") => <>[]active[b, r]
        /\ <>[](level[b][r] = "good") => <>[]~active[b, r]
=============================================================================
