------------------------- MODULE ServerBridgesProofs -------------------------
(***************************************************************************)
(* daly-bms-server, for every value of the constants: its alert engine     *)
(* leaves no alarm open in its journal but by a restart or a failed        *)
(* INSERT, dbus-mqtt-venus shows a silent source of its telemetry          *)
(* disconnected, and what a task accepts from the RS485 bus is the answer  *)
(* to what it asked.                                                       *)
(***************************************************************************)
EXTENDS MCServerBridges, FieldBus, SiftingProofs

(* What is still to do about the rules follows from their state: a         *)
(* "triggered" is only told of an active rule, and only what is still to   *)
(* be told is being sent.                                                  *)
AlarmInv ==
    /\ \A i \in 1 .. Len(outbox) : outbox[i].event = "triggered" => active[outbox[i].key]
    /\ sendingFor # None => outbox # <<>>

Events == [key : Keys, event : {"triggered", "cleared"}]
-----------------------------------------------------------------------------
LEMMA EngineConstants ==
    /\ IsFiniteSet(Keys)
    /\ \A k \in Keys : k[2] \in Rules /\ MinDuration[k[2]] \in Nat /\ Cooldown[k[2]] \in Nat
    /\ QueueCap \in Nat /\ SendMax \in Nat
  <1>1. IsFiniteSet(Keys)
    BY EngineAssumption, FS_Product DEF Keys
  <1>2. \A k \in Keys : k[2] \in Rules
    BY DEF Keys
  <1>. QED BY <1>1, <1>2, EngineAssumption

(* The notifications of an evaluation, as a sequence: all of them, and     *)
(* nothing else.                                                           *)
Told(s) == {Notification(s, k) : k \in {x \in Keys : Tells(s, x)}}

LEMMA ToldIsListed ==
    ASSUME NEW s, NEW box, box = SetToSeq(Told(s))
    PROVE  /\ box \in Seq(Events)
           /\ \A i \in 1 .. Len(box) : \E k \in Keys : Tells(s, k) /\ box[i] = Notification(s, k)
           /\ \A k \in Keys : Tells(s, k) => \E i \in 1 .. Len(box) : box[i] = Notification(s, k)
  <1> DEFINE K == {x \in Keys : Tells(s, x)}
             f == [k \in K |-> Notification(s, k)]
  <1>1. IsFiniteSet(K)
    BY EngineConstants, FS_Subset
  <1>2. IsFiniteSet(Told(s))
    <2>1. \A k \in K : f[k] \in Told(s)
      BY DEF Told
    <2>2. \A n \in Told(s) : \E k \in K : f[k] = n
      BY DEF Told
    <2>3. f \in [K -> Told(s)]
      BY <2>1
    <2> HIDE DEF f, K
    <2>4. f \in Surjection(K, Told(s))
      BY <2>2, <2>3 DEF Surjection
    <2>. QED BY <1>1, <2>4, FS_Surjection
  <1>3. \A n \in Told(s) : n \in Events
    BY DEF Told, Notification, Events
  <1> HIDE DEF f, K
  <1>4. PICK c \in Nat : c = Cardinality(Told(s))
    BY <1>2, ListingExists
  <1>5. box \in [1 .. c -> Told(s)] /\ IsInjective(box)
    BY <1>2, <1>4, ListingExists DEF SetToSeq
  <1>6. box \in Seq(Told(s)) /\ Len(box) = c
    BY <1>5
  <1>7. \A i \in 1 .. c : box[i] \in Told(s)
    BY <1>5
  <1>8. \A n \in Told(s) : \E i \in 1 .. c : box[i] = n
    BY <1>2, <1>4, <1>5, ListingComplete
  <1>9. box \in Seq(Events)
    BY <1>3, <1>6, <1>7
  <1>10. \A k \in Keys : Tells(s, k) => Notification(s, k) \in Told(s)
    BY DEF Told
  <1>. QED BY <1>6, <1>7, <1>8, <1>9, <1>10 DEF Told
-----------------------------------------------------------------------------
(* Type correctness of the engine: a second may only pass while something  *)
(* is being sent if there is something to send, hence AlarmInv.            *)

AgesOK == \A k \in Keys : /\ pending[k] \in None..MinDuration[k[2]]
                         /\ notified[k] \in None..Cooldown[k[2]]

LEMMA AgedType ==
    ASSUME NEW n \in Nat, NEW a \in None..n
    PROVE  Aged(a, n) \in None..n
  BY DEF Aged, None

LEMMA AgesAfterEvaluate ==
    ASSUME TypeOK, Evaluate
    PROVE  AgesOK'
  <1>1. PICK s : s = Head(queue)
    OBVIOUS
  <1>2. /\ pending' = [k \in Keys |-> PendingAfter(s, k)]
        /\ notified' = [k \in Keys |-> IF Triggers(s, k) /\ CooledDown(k)
                                       THEN 0 ELSE notified[k]]
    BY <1>1 DEF Evaluate
  <1>3. ASSUME NEW k \in Keys
        PROVE  /\ pending'[k] \in None..MinDuration[k[2]]
               /\ notified'[k] \in None..Cooldown[k[2]]
    <2>1. /\ pending[k] \in None..MinDuration[k[2]] /\ notified[k] \in None..Cooldown[k[2]]
          /\ MinDuration[k[2]] \in Nat /\ Cooldown[k[2]] \in Nat
      BY EngineConstants DEF TypeOK
    <2>2. /\ None \in None..MinDuration[k[2]] /\ 0 \in None..MinDuration[k[2]]
          /\ 0 \in None..Cooldown[k[2]]
      BY <2>1 DEF None
    <2>3. pending'[k] \in {None, 0, pending[k]} /\ notified'[k] \in {0, notified[k]}
      BY <1>2 DEF PendingAfter
    <2>. QED BY <2>1, <2>2, <2>3, Zenon
  <1>. QED BY <1>3 DEF AgesOK

LEMMA AgesAfterSecond ==
    ASSUME TypeOK, Second
    PROVE  AgesOK'
  <1>1. ASSUME NEW k \in Keys
        PROVE  /\ pending'[k] \in None..MinDuration[k[2]]
               /\ notified'[k] \in None..Cooldown[k[2]]
    <2>1. /\ pending[k] \in None..MinDuration[k[2]] /\ notified[k] \in None..Cooldown[k[2]]
          /\ MinDuration[k[2]] \in Nat /\ Cooldown[k[2]] \in Nat
      BY EngineConstants DEF TypeOK
    <2>2. /\ pending'[k] = Aged(pending[k], MinDuration[k[2]])
          /\ notified'[k] = Aged(notified[k], Cooldown[k[2]])
      BY DEF Second
    <2>. QED BY <2>1, <2>2, AgedType
  <1>. QED BY <1>1 DEF AgesOK

LEMMA EngineTypesKept == ASSUME TypeOK, AlarmInv, [Next]_vars PROVE TypeOK'
  <1>0. QueueCap \in Nat /\ SendMax \in Nat
    BY EngineConstants
  <1>t. /\ polled \subseteq Bms
        /\ level \in [Bms -> [Rules -> Levels]]
        /\ queue \in Seq(Snapshots) /\ Len(queue) <= QueueCap
        /\ active \in [Keys -> BOOLEAN]
        /\ AgesOK
        /\ outbox \in Seq(Events)
        /\ sendingFor \in None..SendMax
        /\ journal \in [Keys -> {"triggered", "cleared"}]
    BY DEF TypeOK, AgesOK, Events
  <1>g. ASSUME /\ polled' \subseteq Bms
               /\ level' \in [Bms -> [Rules -> Levels]]
               /\ queue' \in Seq(Snapshots) /\ Len(queue') <= QueueCap
               /\ active' \in [Keys -> BOOLEAN]
               /\ AgesOK'
               /\ outbox' \in Seq(Events)
               /\ sendingFor' \in None..SendMax
               /\ journal' \in [Keys -> {"triggered", "cleared"}]
        PROVE  TypeOK'
    BY <1>g, Zenon DEF TypeOK, AgesOK, Events
  <1>s. ASSUME UNCHANGED ruleVars PROVE AgesOK'
    BY <1>s, <1>t DEF AgesOK, ruleVars
  <1>1. ASSUME NEW b \in Bms, LevelMoves(b) PROVE TypeOK'
    <2>1. level' \in [Bms -> [Rules -> Levels]]
      BY <1>1, <1>t DEF LevelMoves
    <2>2. AgesOK'
      BY <1>1, <1>s DEF LevelMoves
    <2>. QED BY <1>1, <1>t, <1>g, <2>1, <2>2 DEF LevelMoves, ruleVars, taskVars
  <1>2. ASSUME NEW b \in Bms, OnSnapshot(b) PROVE TypeOK'
    <2>1. [bms |-> b, level |-> level[b]] \in Snapshots
      BY <1>t DEF Snapshots
    <2>2. PICK s \in Snapshots : s = [bms |-> b, level |-> level[b]]
      BY <2>1
    <2>3. Append(queue, s) \in Seq(Snapshots) /\ Len(Append(queue, s)) = Len(queue) + 1
          /\ Len(queue) \in Nat
      BY <1>t
    <2>4. queue' = IF Len(queue) < QueueCap THEN Append(queue, s) ELSE queue
      BY <1>2, <2>2 DEF OnSnapshot, Enqueue
    <2>5. queue' \in Seq(Snapshots) /\ Len(queue') <= QueueCap
      BY <1>0, <1>t, <2>3, <2>4
    <2>6. AgesOK'
      BY <1>2, <1>s DEF OnSnapshot
    <2>. QED BY <1>2, <1>t, <1>g, <2>5, <2>6 DEF OnSnapshot, ruleVars
  <1>3. CASE Evaluate
    <2>1. PICK s : s = Head(queue)
      OBVIOUS
    <2>2. outbox' = SetToSeq(Told(s))
      BY <1>3, <2>1 DEF Evaluate, Told
    <2>3. outbox' \in Seq(Events)
      BY <2>2, ToldIsListed
    <2>4. queue' \in Seq(Snapshots) /\ Len(queue') <= QueueCap
      BY <1>0, <1>3, <1>t DEF Evaluate
    <2>5. active' \in [Keys -> BOOLEAN]
      BY <1>3, <1>t DEF Evaluate
    <2>6. AgesOK'
      BY <1>3, AgesAfterEvaluate
    <2>. QED BY <1>3, <1>t, <1>g, <2>3, <2>4, <2>5, <2>6 DEF Evaluate
  <1>4. CASE LogEvent
    <2>1. PICK n : n = Head(outbox)
      OBVIOUS
    <2>2. n.event \in {"triggered", "cleared"}
      <3>1. n \in Events
        BY <1>4, <1>t, <2>1 DEF LogEvent
      <3>. QED BY <3>1 DEF Events
    <2>3. journal' \in {[journal EXCEPT ![n.key] = n.event], journal}
      BY <1>4, <2>1 DEF LogEvent
    <2>4. journal' \in [Keys -> {"triggered", "cleared"}]
      BY <1>t, <2>2, <2>3
    <2>5. sendingFor' \in None..SendMax
      BY <1>0, <1>4 DEF LogEvent, None
    <2>6. AgesOK'
      BY <1>4, <1>s DEF LogEvent
    <2>. QED BY <1>4, <1>t, <1>g, <2>4, <2>5, <2>6 DEF LogEvent, ruleVars
  <1>5. CASE Sent
    <2>1. outbox # <<>>
      BY <1>5 DEF Sent, AlarmInv
    <2>2. outbox' \in Seq(Events)
      BY <1>5, <1>t, <2>1 DEF Sent
    <2>3. sendingFor' \in None..SendMax
      BY <1>0, <1>5 DEF Sent, None
    <2>4. AgesOK'
      BY <1>5, <1>s DEF Sent
    <2>. QED BY <1>5, <1>t, <1>g, <2>2, <2>3, <2>4 DEF Sent, ruleVars
  <1>6. CASE Second
    <2>1. sendingFor' \in None..SendMax
      <3>1. sendingFor # None => sendingFor \in 0..(SendMax - 1)
        BY <1>6 DEF Second, AlarmInv
      <3>. QED BY <1>0, <1>6, <1>t, <3>1 DEF Second, None
    <2>2. AgesOK'
      BY <1>6, AgesAfterSecond
    <2>. QED BY <1>6, <1>t, <1>g, <2>1, <2>2 DEF Second
  <1>7. CASE ServerRestarts
    <2>1. <<>> \in Seq(Events) /\ <<>> \in Seq(Snapshots) /\ Len(<<>>) = 0
      BY EmptySeq
    <2>2. queue' \in Seq(Snapshots) /\ Len(queue') <= QueueCap /\ sendingFor' \in None..SendMax
      BY <1>0, <1>7, <2>1 DEF ServerRestarts, None
    <2>3. AgesOK'
      BY <1>7, EngineConstants DEF ServerRestarts, AgesOK, None
    <2>. QED BY <1>7, <1>t, <1>g, <2>1, <2>2, <2>3 DEF ServerRestarts
  <1>8. CASE UNCHANGED vars
    <2>1. AgesOK'
      BY <1>8, <1>s DEF vars
    <2>. QED BY <1>8, <1>t, <1>g, <2>1 DEF vars, ruleVars, taskVars
  <1>. QED BY <1>1, <1>2, <1>3, <1>4, <1>5, <1>6, <1>7, <1>8 DEF Next
-----------------------------------------------------------------------------
(* The notifications, and the rules they are about.                        *)

LEMMA AlarmKept == ASSUME TypeOK, AlarmInv, [Next]_vars PROVE AlarmInv'
  <1>1. ASSUME UNCHANGED <<outbox, active>>, sendingFor' # None => sendingFor # None
        PROVE  AlarmInv'
    BY <1>1 DEF AlarmInv
  <1>2. ASSUME NEW b \in Bms, LevelMoves(b) PROVE AlarmInv'
    BY <1>1, <1>2 DEF LevelMoves, ruleVars, taskVars
  <1>3. ASSUME NEW b \in Bms, OnSnapshot(b) PROVE AlarmInv'
    BY <1>1, <1>3 DEF OnSnapshot, ruleVars
  <1>4. CASE Evaluate
    <2>1. PICK s : s = Head(queue)
      OBVIOUS
    <2>2. /\ active' = [k \in Keys |-> IF Triggers(s, k) THEN TRUE
                                       ELSE IF Clears(s, k) THEN FALSE ELSE active[k]]
          /\ outbox' = SetToSeq(Told(s)) /\ sendingFor' = None
      BY <1>4, <2>1 DEF Evaluate, EngineIdle, Told
    <2>3. ASSUME NEW i \in 1 .. Len(outbox'), outbox'[i].event = "triggered"
          PROVE  active'[outbox'[i].key]
      <3>1. PICK k \in Keys : Tells(s, k) /\ outbox'[i] = Notification(s, k)
        BY <2>2, ToldIsListed
      <3>2. Triggers(s, k) /\ outbox'[i].key = k
        BY <2>3, <3>1 DEF Notification
      <3>. QED BY <2>2, <3>2
    <2>. QED BY <2>2, <2>3 DEF AlarmInv
  <1>5. CASE LogEvent
    BY <1>5 DEF LogEvent, AlarmInv, ruleVars
  <1>6. CASE Sent
    <2>1. outbox \in Seq(Events) /\ outbox # <<>>
      BY <1>6 DEF TypeOK, AlarmInv, Sent, Events
    <2>2. outbox' = Tail(outbox) /\ sendingFor' = None /\ active' = active
      BY <1>6 DEF Sent, ruleVars
    <2>3. \A i \in 1 .. Len(outbox') : outbox'[i] = outbox[i + 1] /\ i + 1 \in 1 .. Len(outbox)
      BY <2>1, <2>2
    <2>. QED BY <2>2, <2>3 DEF AlarmInv
  <1>7. CASE Second
    BY <1>1, <1>7 DEF Second
  <1>8. CASE ServerRestarts
    BY <1>8, EmptySeq DEF ServerRestarts, AlarmInv
  <1>9. CASE UNCHANGED vars
    BY <1>1, <1>9 DEF vars, ruleVars, taskVars
  <1>. QED BY <1>2, <1>3, <1>4, <1>5, <1>6, <1>7, <1>8, <1>9 DEF Next

LEMMA EngineStart == Init => TypeOK /\ AlarmInv
  <1> SUFFICES ASSUME Init PROVE TypeOK /\ AlarmInv
    OBVIOUS
  <1>e. <<>> \in Seq(Events) /\ <<>> \in Seq(Snapshots) /\ Len(<<>>) = 0
    BY EmptySeq
  <1>1. QueueCap \in Nat /\ SendMax \in Nat
    BY EngineConstants
  <1>2. \A k \in Keys : /\ pending[k] \in None..MinDuration[k[2]]
                        /\ notified[k] \in None..Cooldown[k[2]]
    BY EngineConstants DEF Init, None
  <1>3. Len(queue) <= QueueCap /\ sendingFor \in None..SendMax
    BY <1>1, <1>e DEF Init, None
  <1>4. TypeOK
    BY <1>2, <1>3, <1>e, Zenon DEF TypeOK, Init, Events
  <1>5. AlarmInv
    BY <1>e DEF AlarmInv, Init
  <1>. QED BY <1>4, <1>5

-----------------------------------------------------------------------------
(* The journal, and what is still to be written in it.                     *)

LEMMA OpenAfterEvaluate ==
    ASSUME TypeOK, Evaluate, NEW k \in Keys, LeftOpen(k)'
    PROVE  LeftOpen(k)
  <1>1. PICK s : s = Head(queue)
    OBVIOUS
  <1>2. /\ active' = [x \in Keys |-> IF Triggers(s, x) THEN TRUE
                                     ELSE IF Clears(s, x) THEN FALSE ELSE active[x]]
        /\ outbox' = SetToSeq(Told(s))
        /\ sendingFor' = None /\ journal' = journal /\ outbox = <<>>
    BY <1>1 DEF Evaluate, EngineIdle, Told
  <1>3. ~ToClear(k)
    BY <1>2, EmptySeq DEF ToClear
  <1>4. ASSUME active[k] PROVE FALSE
    <2>1. Clears(s, k)
      BY <1>2, <1>4 DEF LeftOpen
    <2>2. Notification(s, k) = [key |-> k, event |-> "cleared"] /\ Tells(s, k)
      BY <1>4, <2>1 DEF Notification, Triggers, Tells
    <2>3. outbox' \in Seq(Events)
          /\ \E i \in 1 .. Len(outbox') : outbox'[i] = Notification(s, k)
      BY <1>2, <2>2, ToldIsListed
    <2>4. PICK i \in DOMAIN outbox' : outbox'[i] = [key |-> k, event |-> "cleared"]
      BY <2>2, <2>3
    <2>5. ToClear(k)'
      BY <1>2, <2>4 DEF ToClear
    <2>. QED BY <2>5 DEF LeftOpen
  <1>. QED BY <1>2, <1>3, <1>4 DEF LeftOpen

LEMMA OpenAfterLog ==
    ASSUME TypeOK, AlarmInv, LogEvent, NEW k \in Keys, LeftOpen(k)', ~LeftOpen(k)
    PROVE  EndNotWritten(k)
  <1>t. /\ outbox \in Seq(Events) /\ outbox # <<>> /\ DOMAIN outbox = 1 .. Len(outbox)
        /\ journal \in [Keys -> {"triggered", "cleared"}]
    BY DEF TypeOK, LogEvent, Events
  <1>1. PICK n : n = outbox[1] /\ n = Head(outbox) /\ n \in Events
    BY <1>t
  <1>2. n.key \in Keys /\ n.event \in {"triggered", "cleared"}
        /\ n = [key |-> n.key, event |-> n.event]
    BY <1>1 DEF Events
  <1>3. /\ journal' \in {[journal EXCEPT ![n.key] = n.event], journal}
        /\ UNCHANGED <<active, outbox>> /\ sendingFor = None /\ sendingFor' = 0
    BY <1>1 DEF LogEvent, ruleVars
  <1>4. journal'[k] = "triggered" /\ ~active[k]
    BY <1>3 DEF LeftOpen
  <1>5. ASSUME n.key = k PROVE n.event = "cleared"
    BY <1>t, <1>1, <1>2, <1>4, <1>5 DEF AlarmInv
  <1>6. journal[k] = "triggered" /\ (n.key = k => journal' = journal)
    BY <1>t, <1>2, <1>3, <1>4, <1>5
  <1>7. ToClear(k)
    BY <1>4, <1>6 DEF LeftOpen
  <1>8. PICK i \in DOMAIN outbox : outbox[i] = [key |-> k, event |-> "cleared"]
    BY <1>7 DEF ToClear
  <1>9. ~(i > 1)
    BY <1>3, <1>8 DEF LeftOpen, ToClear
  <1>10. i = 1
    BY <1>t, <1>9
  <1>11. n = [key |-> k, event |-> "cleared"]
    BY <1>1, <1>8, <1>10
  <1>12. n.key = k
    BY <1>11
  <1>. QED BY <1>1, <1>6, <1>11, <1>12 DEF EndNotWritten

LEMMA OpenAfterSent ==
    ASSUME TypeOK, AlarmInv, Sent, NEW k \in Keys, LeftOpen(k)'
    PROVE  LeftOpen(k)
  <1>1. /\ outbox \in Seq(Events) /\ outbox # <<>>
        /\ outbox' = Tail(outbox) /\ sendingFor # None /\ sendingFor' = None
        /\ UNCHANGED <<active, journal>>
    BY DEF TypeOK, AlarmInv, Sent, Events, ruleVars
  <1>2. ASSUME ToClear(k) PROVE FALSE
    <2>1. PICK i \in DOMAIN outbox :
             outbox[i] = [key |-> k, event |-> "cleared"] /\ i > 1
      BY <1>1, <1>2 DEF ToClear
    <2>2. i - 1 \in DOMAIN outbox' /\ outbox'[i - 1] = outbox[i]
      BY <1>1, <2>1
    <2>3. ToClear(k)'
      BY <1>1, <2>1, <2>2 DEF ToClear
    <2>. QED BY <2>3 DEF LeftOpen
  <1>. QED BY <1>1, <1>2 DEF LeftOpen

LEMMA LeftOpenBy ==
    ASSUME TypeOK, AlarmInv, [Next]_vars, NEW k \in Keys, LeftOpen(k)'
    PROVE  LeftOpen(k) \/ ServerRestarts \/ EndNotWritten(k)
  <1>1. ASSUME UNCHANGED <<outbox, active, journal>>, sendingFor' = None <=> sendingFor = None
        PROVE  LeftOpen(k)
    BY <1>1 DEF LeftOpen, ToClear
  <1>2. ASSUME NEW b \in Bms, LevelMoves(b) \/ OnSnapshot(b) PROVE LeftOpen(k)
    BY <1>1, <1>2 DEF LevelMoves, OnSnapshot, ruleVars, taskVars
  <1>3. CASE Second
    <2>1. sendingFor \in None .. SendMax /\ SendMax \in Nat
      BY EngineConstants DEF TypeOK
    <2>2. sendingFor' = None <=> sendingFor = None
      BY <1>3, <2>1 DEF Second, None
    <2>. QED BY <1>1, <1>3, <2>2 DEF Second
  <1>4. CASE UNCHANGED vars
    BY <1>1, <1>4 DEF vars, ruleVars, taskVars
  <1>. QED BY <1>2, <1>3, <1>4, OpenAfterEvaluate, OpenAfterLog, OpenAfterSent DEF Next

(* Every "triggered" of the journal of alerts gets its "cleared": the only *)
(* steps after which it is the last row of a rule that is not active and   *)
(* whose "cleared" is not about to be written are a restart of the server, *)
(* which forgets the active rules, and an INSERT of the "cleared" that     *)
(* fails.  This for any number of BMSs and rules, whatever snapshots       *)
(* alert_tx drops and however long a message takes (bridges/alerts.rs).    *)
THEOREM JournalCloses == Spec => NoAlarmLeftOpen
  <1>1. TypeOK /\ AlarmInv /\ [Next]_vars => (TypeOK /\ AlarmInv)'
    BY EngineTypesKept, AlarmKept
  <1>2. TypeOK /\ AlarmInv /\ [Next]_vars =>
           [\A k \in Keys :
               LeftOpen(k)' => LeftOpen(k) \/ ServerRestarts \/ EndNotWritten(k)]_vars
    BY LeftOpenBy
  <1>. QED BY <1>1, <1>2, EngineStart, PTL DEF Spec, NoAlarmLeftOpen

LEMMA EngineTypesHold == Spec => []TypeOK
  <1>1. TypeOK /\ AlarmInv /\ [Next]_vars => (TypeOK /\ AlarmInv)'
    BY EngineTypesKept, AlarmKept
  <1>. QED BY <1>1, EngineStart, PTL DEF Spec
-----------------------------------------------------------------------------
(* The watchdog of dbus-mqtt-venus: nothing is on its way to the manager   *)
(* unless it has just come, so that a service was updated no later than it *)
(* was last heard of, and each republication looks at it.                  *)
VenusInv ==
    /\ chan # <<>> \/ updating # Venus!None => unattended = 0
    /\ unattended <= lastUpdate
    /\ service = "on" => lastUpdate <= Watchdog + sinceTick

VenusTypes == Venus!TypeOK

LEMMA VenusConstants ==
    /\ Watchdog \in Nat /\ Republish \in Nat /\ Period \in Nat /\ ChanCap \in Nat
    /\ CmdCap \in Nat /\ MaxWrites \in Nat /\ Period > 0 /\ Republish > 0
    /\ Venus!Limit = Watchdog + Republish + 1
    /\ Retained \in BOOLEAN
  BY VenusBounds DEF Venus!VenusAssumption, Venus!Limit

LEMMA VenusAged ==
    ASSUME NEW n \in Nat, NEW a \in 0..n
    PROVE  /\ Venus!Aged(a, n) \in 0..n
           /\ a < n => Venus!Aged(a, n) = a + 1
           /\ a = n => Venus!Aged(a, n) = n
           /\ Venus!Aged(a, n) <= a + 1
           /\ \A b \in 0..n : a <= b => Venus!Aged(a, n) <= Venus!Aged(b, n)
  BY DEF Venus!Aged, Venus!None

LEMMA VenusKept ==
    ASSUME VenusTypes, VenusInv, [Venus!Next]_venusVars
    PROVE  VenusTypes' /\ VenusInv'
  <1>c. /\ Watchdog \in Nat /\ Republish \in Nat /\ Period \in Nat /\ ChanCap \in Nat
        /\ CmdCap \in Nat /\ MaxWrites \in Nat /\ Period > 0 /\ Republish > 0
        /\ Venus!Limit = Watchdog + Republish + 1
    BY VenusConstants
  <1> DEFINE R == {0, 1}
  <1>n. Venus!None = -1 /\ Venus!Relay = R
    BY DEF Venus!None, Venus!Relay
  <1>t. /\ device \in R /\ live \in BOOLEAN /\ sincePub \in 0..Period
        /\ link \in BOOLEAN /\ retained \in R \cup {-1}
        /\ chan \in Seq(R) /\ Len(chan) <= ChanCap
        /\ service \in {"absent", "off", "on"} /\ shown \in R
        /\ lastUpdate \in 0..Venus!Limit /\ updating \in R \cup {-1}
        /\ sinceTick \in 0..Republish
        /\ cmds \in Seq(R) /\ Len(cmds) <= CmdCap
        /\ writes \in 0..MaxWrites
        /\ unattended \in 0..Venus!Limit
    BY <1>n DEF VenusTypes, Venus!TypeOK
  <1>i. /\ chan # <<>> \/ updating # -1 => unattended = 0
        /\ unattended <= lastUpdate
        /\ service = "on" => lastUpdate <= Watchdog + sinceTick
    BY <1>n DEF VenusInv
  <1>g. ASSUME /\ device' \in R /\ live' \in BOOLEAN /\ sincePub' \in 0..Period
               /\ link' \in BOOLEAN /\ retained' \in R \cup {-1}
               /\ chan' \in Seq(R) /\ Len(chan') <= ChanCap
               /\ service' \in {"absent", "off", "on"} /\ shown' \in R
               /\ lastUpdate' \in 0..Venus!Limit /\ updating' \in R \cup {-1}
               /\ sinceTick' \in 0..Republish
               /\ cmds' \in Seq(R) /\ Len(cmds') <= CmdCap
               /\ writes' \in 0..MaxWrites
               /\ unattended' \in 0..Venus!Limit,
               /\ chan' # <<>> \/ updating' # -1 => unattended' = 0
               /\ unattended' <= lastUpdate'
               /\ service' = "on" => lastUpdate' <= Watchdog + sinceTick'
        PROVE  VenusTypes' /\ VenusInv'
    <2>1. Venus!Limit' = Venus!Limit /\ Venus!None' = -1 /\ Venus!Relay' = R
      BY DEF Venus!Limit, Venus!None, Venus!Relay
    <2>2. VenusTypes'
      BY <1>g, <1>n, Zenon DEF VenusTypes, Venus!TypeOK
    <2>3. VenusInv'
      BY <1>g, <1>n DEF VenusInv
    <2>. QED BY <2>2, <2>3
  <1>z. 0 \in 0..Venus!Limit /\ 0 \in 0..Period /\ 0 \in 0..Republish /\ 0 \in R
        /\ -1 \in R \cup {-1}
    BY <1>c
  <1>a. ASSUME NEW v \in R, Venus!Arrives(v)
        PROVE  /\ chan' \in Seq(R) /\ Len(chan') <= ChanCap
               /\ unattended' = 0
    BY <1>a, <1>t, <1>c DEF Venus!Arrives
  <1>1. CASE Venus!Publish
    <2>1. /\ chan' \in Seq(R) /\ Len(chan') <= ChanCap
          /\ unattended' = 0 \/ (unattended' = unattended /\ chan' = chan)
          /\ retained' \in R \cup {-1}
      BY <1>1, <1>t, <1>a, <1>n DEF Venus!Publish
    <2>2. unattended' \in 0..Venus!Limit /\ unattended' <= lastUpdate
      BY <2>1, <1>t, <1>i, <1>z
    <2>. QED BY <1>1, <1>t, <1>i, <1>g, <1>z, <2>1, <2>2 DEF Venus!Publish, Venus!serviceVars
  <1>2. CASE Venus!LinkUp
    <2>1. /\ chan' \in Seq(R) /\ Len(chan') <= ChanCap
          /\ unattended' = 0 \/ (unattended' = unattended /\ chan' = chan)
      BY <1>2, <1>t, <1>a, <1>n DEF Venus!LinkUp
    <2>2. unattended' \in 0..Venus!Limit /\ unattended' <= lastUpdate
      BY <2>1, <1>t, <1>i, <1>z
    <2>. QED BY <1>2, <1>t, <1>i, <1>g, <1>z, <2>1, <2>2
             DEF Venus!LinkUp, Venus!serviceVars, Venus!sourceVars
  <1>3. CASE Venus!LinkDown \/ Venus!SourceStops \/ Venus!SourceStarts
    <2>1. /\ link' \in BOOLEAN /\ live' \in BOOLEAN
          /\ sincePub' = sincePub \/ sincePub' = 0
          /\ UNCHANGED <<device, retained, chan, service, shown, lastUpdate,
                         updating, sinceTick, cmds, writes, unattended>>
      <3>1. CASE Venus!LinkDown
        BY <3>1, <1>t, Zenon DEF Venus!LinkDown, Venus!serviceVars, Venus!sourceVars
      <3>2. CASE Venus!SourceStops
        BY <3>2, <1>t, Zenon DEF Venus!SourceStops, Venus!serviceVars, Venus!mqttVars
      <3>3. CASE Venus!SourceStarts
        BY <3>3, <1>t, Zenon DEF Venus!SourceStarts, Venus!serviceVars, Venus!mqttVars
      <3>. QED BY <1>3, <3>1, <3>2, <3>3
    <2>. QED BY <2>1, <1>t, <1>i, <1>g, <1>z
  <1>4. CASE Venus!HandleEvent
    <2>1. /\ chan' \in Seq(R) /\ Len(chan') <= ChanCap /\ Head(chan) \in R /\ chan # <<>>
      BY <1>4, <1>t, <1>c DEF Venus!HandleEvent
    <2>2. unattended = 0 /\ unattended' = 0
      BY <1>4, <1>i, <2>1 DEF Venus!HandleEvent
    <2>3. /\ service' \in {"absent", "off", "on"} /\ updating' \in R \cup {-1}
          /\ lastUpdate' \in 0..Venus!Limit
          /\ service' = "on" => service = "on" /\ lastUpdate' = lastUpdate
      BY <1>4, <1>t, <1>z, <2>1 DEF Venus!HandleEvent
    <2>4. 0 <= lastUpdate'
      BY <2>3, <1>c
    <2>. QED BY <1>4, <1>t, <1>i, <1>g, <2>1, <2>2, <2>3, <2>4
             DEF Venus!HandleEvent, Venus!sourceVars
  <1>5. CASE Venus!Update
    <2>1. updating \in R /\ updating # -1
      BY <1>5, <1>t, <1>n DEF Venus!Update, Venus!Free
    <2>2. unattended' = 0
      BY <1>5, <1>i, <2>1 DEF Venus!Update
    <2>3. 0 <= Watchdog + sinceTick
      BY <1>c, <1>t
    <2>. QED BY <1>5, <1>t, <1>g, <1>z, <1>n, <2>1, <2>2, <2>3
             DEF Venus!Update, Venus!sourceVars, Venus!mqttVars
  <1>6. CASE Venus!RepublishAndWatchdog
    <2>1. service' = "on" => lastUpdate <= Watchdog + 0
      BY <1>6, <1>c, <1>t DEF Venus!RepublishAndWatchdog
    <2>2. service' \in {"absent", "off", "on"}
      BY <1>6, <1>t DEF Venus!RepublishAndWatchdog
    <2>. QED BY <1>6, <1>t, <1>i, <1>g, <1>z, <2>1, <2>2
             DEF Venus!RepublishAndWatchdog, Venus!sourceVars, Venus!mqttVars
  <1>7. ASSUME NEW v \in Venus!Relay, Venus!SetValue(v) PROVE VenusTypes' /\ VenusInv'
    <2>1. cmds' \in Seq(R) /\ Len(cmds') <= CmdCap
      BY <1>7, <1>t, <1>c, <1>n DEF Venus!SetValue
    <2>2. writes' \in 0..MaxWrites
      BY <1>7, <1>t, <1>c DEF Venus!SetValue
    <2>3. 0 <= Watchdog + sinceTick
      BY <1>c, <1>t
    <2>. QED BY <1>7, <1>t, <1>g, <1>z, <1>n, <2>1, <2>2, <2>3
             DEF Venus!SetValue, Venus!sourceVars, Venus!mqttVars
  <1>8. CASE Venus!Forward
    <2>1. cmds' \in Seq(R) /\ Len(cmds') <= CmdCap /\ Head(cmds) \in R
      BY <1>8, <1>t, <1>c DEF Venus!Forward
    <2>2. device' \in R
      BY <1>8, <1>t, <2>1 DEF Venus!Forward
    <2>. QED BY <1>8, <1>t, <1>i, <1>g, <2>1, <2>2
             DEF Venus!Forward, Venus!serviceVars, Venus!mqttVars
  <1>9. CASE Venus!Second
    <2>1. chan = <<>> /\ updating = -1 /\ sinceTick < Republish
      BY <1>9, <1>n DEF Venus!Second, Venus!Free
    <2>2. /\ sincePub' \in 0..Period
          /\ lastUpdate' \in 0..Venus!Limit /\ unattended' \in 0..Venus!Limit
          /\ unattended' <= lastUpdate' /\ lastUpdate' <= lastUpdate + 1
      BY <1>9, <1>t, <1>i, <1>c, VenusAged DEF Venus!Second
    <2>3. sinceTick' \in 0..Republish /\ sinceTick' = sinceTick + 1
      BY <1>9, <1>t, <1>c, <2>1 DEF Venus!Second
    <2>4. service = "on" => lastUpdate' <= Watchdog + sinceTick'
      BY <1>t, <1>i, <1>c, <2>2, <2>3
    <2>. QED BY <1>9, <1>t, <1>g, <2>1, <2>2, <2>3, <2>4 DEF Venus!Second, Venus!mqttVars
  <1>10. CASE UNCHANGED venusVars
    BY <1>10, <1>t, <1>i, <1>g DEF venusVars
  <1>. QED BY <1>1, <1>2, <1>3, <1>4, <1>5, <1>6, <1>7, <1>8, <1>9, <1>10 DEF Venus!Next

LEMMA VenusStart == Venus!Init => VenusTypes /\ VenusInv
  <1> SUFFICES ASSUME Venus!Init PROVE VenusTypes /\ VenusInv
    OBVIOUS
  <1>c. /\ Watchdog \in Nat /\ Republish \in Nat /\ Period \in Nat /\ ChanCap \in Nat
        /\ CmdCap \in Nat /\ MaxWrites \in Nat
        /\ Venus!Limit \in Nat
    BY VenusConstants
  <1>e. \A S : <<>> \in Seq(S) /\ Len(<<>>) = 0
    BY EmptySeq
  <1>1. /\ device \in Venus!Relay /\ live = TRUE /\ sincePub = 0 /\ link = FALSE
        /\ retained = Venus!None /\ chan = <<>> /\ service = "absent" /\ shown = 0
        /\ lastUpdate = 0 /\ updating = Venus!None /\ sinceTick = 0
        /\ cmds = <<>> /\ writes = 0 /\ unattended = 0
    BY DEF Venus!Init
  <1>2. /\ sincePub \in 0..Period /\ lastUpdate \in 0..Venus!Limit
        /\ sinceTick \in 0..Republish /\ writes \in 0..MaxWrites
        /\ unattended \in 0..Venus!Limit /\ shown \in Venus!Relay
        /\ Len(chan) <= ChanCap /\ Len(cmds) <= CmdCap
    BY <1>1, <1>c, <1>e DEF Venus!Relay
  <1>3. VenusTypes
    BY <1>1, <1>2, <1>e, Zenon DEF VenusTypes, Venus!TypeOK
  <1>4. VenusInv
    BY <1>1, <1>c DEF VenusInv
  <1>. QED BY <1>3, <1>4

LEMMA VenusVarsAre == UNCHANGED Venus!vars <=> UNCHANGED venusVars
  BY DEF Venus!vars, Venus!sourceVars, Venus!mqttVars, Venus!serviceVars, venusVars

LEMMA VenusHolds == Venus!Spec => [](VenusTypes /\ VenusInv)
  <1>1. VenusTypes /\ VenusInv /\ [Venus!Next]_(Venus!vars) => (VenusTypes /\ VenusInv)'
    BY VenusKept, VenusVarsAre
  <1>. QED BY <1>1, VenusStart, PTL DEF Venus!Spec

(* A service nobody has heard of for watchdog_sec, and one republication   *)
(* more, is shown disconnected, whatever is retained, refused by D-Bus or  *)
(* written in the console meanwhile: a stale value is never shown as live  *)
(* (republish_and_watchdog of every manager of dbus-mqtt-venus).           *)
THEOREM SilenceIsShown == Venus!Spec => []UnattendedDisconnects
  <1>1. VenusTypes /\ VenusInv => UnattendedDisconnects
    <2> SUFFICES ASSUME VenusTypes, VenusInv, unattended = Venus!Limit, service = "on"
                 PROVE  FALSE
      BY DEF UnattendedDisconnects, Venus!UnattendedDisconnects
    <2>1. /\ unattended \in 0..Venus!Limit /\ lastUpdate \in 0..Venus!Limit
          /\ sinceTick \in 0..Republish
      BY DEF VenusTypes, Venus!TypeOK
    <2>2. unattended <= lastUpdate /\ lastUpdate <= Watchdog + sinceTick
      BY DEF VenusInv
    <2>. QED BY <2>1, <2>2, VenusConstants
  <1>. QED BY <1>1, VenusHolds, PTL
-----------------------------------------------------------------------------
(* The run checks both consumers at once: its behaviours are behaviours of *)
(* each, so that what is proved of one holds of the run.                   *)

LEMMA RunIsBoth == AllSpec => Spec /\ Venus!Spec
  <1>1. AllInit => Init /\ Venus!Init
    BY DEF AllInit
  <1>2. [AllNext]_allVars => [Next]_vars /\ [Venus!Next]_(Venus!vars)
    BY VenusVarsAre DEF AllNext, allVars
  <1>. QED BY <1>1, <1>2, PTL DEF AllSpec, Spec, Venus!Spec

(* Both consumers keep their types: no queue outgrows its channel, no age  *)
(* passes the longest delay it is compared with, for any number of BMSs,   *)
(* rules and seconds.                                                      *)
THEOREM BridgeTypesKept == AllSpec => []BridgeTypesOK
  <1>1. TypeOK /\ VenusTypes => BridgeTypesOK
    BY DEF BridgeTypesOK, VenusTypes
  <1>. QED BY <1>1, RunIsBoth, EngineTypesHold, VenusHolds, PTL

(* What the two consumers promise holds of the run.                        *)
THEOREM BridgesKeepTheirWord == AllSpec => NoAlarmLeftOpen /\ []UnattendedDisconnects
  BY RunIsBoth, JournalCloses, SilenceIsShown, PTL
-----------------------------------------------------------------------------
(* The RS485 bus: what is on the wire, and what is in the buffer.          *)
Regs == {s.reg : s \in Steps}
Talkers == Devices \cup {Master}
Wire == [dev : Talkers, reg : Regs, frame : 1..2, half : 1..2, fresh : BOOLEAN]
Entries == [chunks : Seq(Wire), age : Nat, limit : {Turnaround, Latest}]

\* A chunk's place in an answer.
Rank(c) == 2 * c.frame + c.half - 2

\* An answer, or what is left of it, is of one device and register and in
\* one piece; it is gone when the port is.
Pieces(a) == /\ a.chunks # <<>> /\ a.age <= a.limit
             /\ \A k \in 1 .. Len(a.chunks) :
                   /\ a.chunks[k].dev = a.chunks[1].dev
                   /\ a.chunks[k].reg = a.chunks[1].reg
                   /\ a.chunks[k].fresh = a.chunks[1].fresh
                   /\ Rank(a.chunks[k]) = Rank(a.chunks[1]) + k - 1

WireOK ==
    /\ rx \in Seq(Wire) /\ air \in Seq(Entries)
    /\ \A i \in 1 .. Len(air) : Pieces(air[i])
    /\ handle \in BOOLEAN
    /\ ~handle => air = <<>> /\ rx = <<>>

DriversOK ==
    /\ step \in [Drivers -> Nat] /\ attempt \in [Drivers -> Nat] /\ pause \in [Drivers -> Nat]
    /\ \A w \in Drivers : step[w] \in 1 .. Len(Program[w])
    /\ attempt[Daly] <= Retries
    /\ backoff \in Nat
    /\ holder \in Drivers \cup {Nobody} /\ waited \in 0 .. WindowEnd

\* A late answer a would be taken by driver w for that to its next request,
\* or to one it may come to before its pause is over.
Confusable(w, a) ==
    \E i \in 1 .. Len(Program[w]) :
        /\ Program[w][i].dev = a.chunks[1].dev
        /\ w = Daly => /\ Program[w][i].reg = a.chunks[1].reg
                       /\ IF Current(w).dev = a.chunks[1].dev THEN step[w] <= i
                          ELSE attempt[w] > 0

\* Whoever is not transmitting has a pause before him in which such an
\* answer will have come; what is left when he transmits is something else.
Separated(a) ==
    \A w \in Drivers : Confusable(w, a) =>
        IF holder = w THEN a.chunks[1].fresh ELSE a.age + pause[w] >= a.limit

LongEnough(a) ==
    IF holder = Nobody THEN a.age >= Turnaround
    ELSE IF a.chunks[1].fresh THEN a.age >= waited
    ELSE /\ a.age >= Turnaround + waited \/ a.age >= 2 * Turnaround
         /\ a.limit = Latest

\* To a request there is the answer, and perhaps that of the master.
Asked(a) ==
    holder # Nobody /\ a.chunks[1].fresh =>
        \/ a.chunks[1].dev = Current(holder).dev /\ a.chunks[1].reg = Current(holder).reg
        \/ /\ holder = Daly /\ a.chunks[1].dev = Master /\ Current(holder).dev # Master
           /\ a.limit = Turnaround

AirOK == \A i \in 1 .. Len(air) : Separated(air[i]) /\ LongEnough(air[i]) /\ Asked(air[i])

\* What the holder would take for its answer.
Own(c) == /\ c.dev = Current(holder).dev
          /\ holder = Daly => c.reg = Current(holder).reg

\* It is that answer, in order and without a gap: h frames of it have been
\* read, q is in the buffer and y on the wire.
Stream(h, q, y) ==
    /\ \A i, k \in 1 .. Len(y) :
          Own(y[i].chunks[1]) /\ Own(y[k].chunks[1]) => i = k
    /\ \A j \in 1 .. Len(q) : Own(q[j]) =>
          /\ q[j].fresh /\ q[j].reg = Current(holder).reg
          /\ Rank(q[j]) > 2 * h
          /\ \A k \in 1 .. Len(q) : Own(q[k]) /\ j < k => Rank(q[j]) < Rank(q[k])
          /\ \A i \in 1 .. Len(y) : Own(y[i].chunks[1]) => Rank(q[j]) < Rank(y[i].chunks[1])
          /\ Rank(q[j]) > 2 * h + 1 =>
                \E k \in 1 .. j - 1 : Own(q[k]) /\ Rank(q[k]) = Rank(q[j]) - 1
    /\ \A i \in 1 .. Len(y) : Own(y[i].chunks[1]) =>
          /\ Rank(y[i].chunks[1]) > 2 * h
          /\ Rank(y[i].chunks[1]) > 2 * h + 1 =>
                \E k \in 1 .. Len(q) : Own(q[k]) /\ Rank(q[k]) = Rank(y[i].chunks[1]) - 1

StreamOK == Stream(Len(got), rx, air)

GotOK ==
    /\ got \in Seq(Wire)
    /\ \A i \in 1 .. Len(got) :
          got[i] = Chunk(Current(holder).dev, Current(holder).reg, i, 1)

BusInv ==
    /\ WireOK /\ DriversOK /\ AirOK
    /\ holder # Nobody => StreamOK /\ GotOK
    /\ AnswersRequest
-----------------------------------------------------------------------------
(* The programs.                                                           *)

LEMMA BusNumbers ==
    /\ Turnaround \in Nat \ {0} /\ Retries \in Nat \ {0}
    /\ Timeout \in Nat /\ RetryPause \in Nat /\ Rest \in Nat
    /\ BackoffInitial \in Nat /\ BackoffMax \in Nat /\ Latest \in Nat
    /\ Turnaround <= Latest /\ Latest < Turnaround + RetryPause
    /\ Latest < 2 * Turnaround + Rest
    /\ \A w \in Drivers : Gap[w] \in Nat /\ (w # Daly => Latest < Turnaround + Gap[w])
    /\ Daly \in Drivers /\ Nobody \notin Drivers
  BY BusAssumption DEF BusAssumption

LEMMA StepsRead ==
    ASSUME NEW w \in Drivers
    PROVE  /\ Program[w] \in Seq(Steps) /\ Len(Program[w]) \in Nat \ {0}
           /\ DOMAIN Program[w] = 1 .. Len(Program[w])
           /\ \A i \in 1 .. Len(Program[w]) :
                 /\ Program[w][i] \in Steps /\ Program[w][i] \in ToSet(Program[w])
                 /\ Program[w][i].dev \in Devices /\ Program[w][i].reg \in Regs
                 /\ Program[w][i].frames \in 1..2
  <1>1. /\ Program[w] \in Seq(Steps) /\ Len(Program[w]) \in Nat \ {0}
        /\ DOMAIN Program[w] = 1 .. Len(Program[w])
    <2>1. Program[w] \in Seq(Steps) /\ Program[w] # <<>>
      BY BusAssumption DEF BusAssumption
    <2>. QED BY <2>1
  <1>2. \A i \in 1 .. Len(Program[w]) : Program[w][i] \in Steps /\ Program[w][i] \in ToSet(Program[w])
    BY <1>1 DEF ToSet
  <1>3. \A s \in Steps : s.dev \in Devices /\ s.reg \in Regs /\ s.frames \in 1..2
    BY BusAssumption DEF BusAssumption, Devices, Regs
  <1>. QED BY <1>1, <1>2, <1>3

LEMMA Apart ==
    /\ \A v, w \in Drivers : \A i \in 1 .. Len(Program[v]), k \in 1 .. Len(Program[w]) :
          Program[v][i].dev = Program[w][k].dev => v = w
    /\ \A w \in Drivers \ {Daly} : \A i \in 1 .. Len(Program[w]) : Program[w][i].dev # Master
    /\ \A i, k \in 1 .. Len(Program[Daly]) :
          /\ Program[Daly][i].dev = Program[Daly][k].dev =>
                \A j \in i..k : Program[Daly][j].dev = Program[Daly][i].dev
          /\ Program[Daly][i].dev = Program[Daly][k].dev
                /\ Program[Daly][i].reg = Program[Daly][k].reg => i = k
    /\ \E i, k \in 1 .. Len(Program[Daly]) : Program[Daly][i].dev # Program[Daly][k].dev
  <1>1. ProgramsApart
    BY BusAssumption DEF BusAssumption
  <1>2. \A w \in Drivers : DOMAIN Program[w] = 1 .. Len(Program[w])
    BY StepsRead
  <1>3. Daly \in Drivers
    BY BusNumbers
  <1>4. \A v, w \in Drivers : \A i \in 1 .. Len(Program[v]), k \in 1 .. Len(Program[w]) :
           Program[v][i].dev = Program[w][k].dev => v = w
    BY <1>1, <1>2 DEF ProgramsApart
  <1>5. \A w \in Drivers \ {Daly} : \A i \in 1 .. Len(Program[w]) : Program[w][i].dev # Master
    BY <1>1, <1>2 DEF ProgramsApart
  <1>6. DOMAIN Program[Daly] = 1 .. Len(Program[Daly])
    BY <1>2, <1>3
  <1>7. \A i, k \in 1 .. Len(Program[Daly]) :
          /\ Program[Daly][i].dev = Program[Daly][k].dev =>
                \A j \in i..k : Program[Daly][j].dev = Program[Daly][i].dev
          /\ Program[Daly][i].dev = Program[Daly][k].dev
                /\ Program[Daly][i].reg = Program[Daly][k].reg => i = k
    BY <1>1, <1>6 DEF ProgramsApart
  <1>8. \E i, k \in 1 .. Len(Program[Daly]) : Program[Daly][i].dev # Program[Daly][k].dev
    BY <1>1, <1>6 DEF ProgramsApart
  <1>. QED BY <1>4, <1>5, <1>7, <1>8

(* The step after a step, and the first one of the next device.            *)
LEMMA GoesOn ==
    ASSUME NEW w \in Drivers, NEW i \in 1 .. Len(Program[w])
    PROVE  /\ After(w, i) \in 1 .. Len(Program[w])
           /\ NextDevice(w, i) \in 1 .. Len(Program[w])
           /\ \/ /\ NextDevice(w, i) = 1
                 /\ \A j \in i .. Len(Program[w]) : Program[w][j].dev = Program[w][i].dev
              \/ /\ NextDevice(w, i) \in i .. Len(Program[w])
                 /\ Program[w][NextDevice(w, i)].dev # Program[w][i].dev
                 /\ \A j \in i .. NextDevice(w, i) - 1 : Program[w][j].dev = Program[w][i].dev
  <1>1. Len(Program[w]) \in Nat \ {0}
    BY StepsRead
  <1>2. After(w, i) \in 1 .. Len(Program[w])
    BY <1>1 DEF After
  <1> DEFINE later == {j \in i .. Len(Program[w]) : Program[w][j].dev # Program[w][i].dev}
  <1>3. CASE later = {}
    <2>1. NextDevice(w, i) = 1
      BY <1>3 DEF NextDevice
    <2>2. \A j \in i .. Len(Program[w]) : Program[w][j].dev = Program[w][i].dev
      BY <1>3
    <2>. QED BY <1>1, <1>2, <2>1, <2>2
  <1>4. CASE later # {}
    <2>1. later \subseteq Nat
      BY <1>1
    <2>2. \E j \in later : \A k \in later : j <= k
      BY <1>4, <2>1, LeastNatural
    <2>3. NextDevice(w, i) = CHOOSE j \in later : \A k \in later : j <= k
      BY <1>4 DEF NextDevice
    <2>4. NextDevice(w, i) \in later /\ \A k \in later : NextDevice(w, i) <= k
      BY <2>2, <2>3
    <2>5. \A j \in i .. NextDevice(w, i) - 1 : Program[w][j].dev = Program[w][i].dev
      BY <1>1, <2>4
    <2>. QED BY <1>1, <1>2, <2>4, <2>5
  <1>. QED BY <1>3, <1>4

(* The poll loop: each device is read in one go, and there is another.     *)
LEMMA DalyGoesOn ==
    ASSUME NEW i \in 1 .. Len(Program[Daly])
    PROVE  /\ Program[Daly][NextDevice(Daly, i)].dev # Program[Daly][i].dev
           /\ ~LastOfDevice(Daly, i) =>
                After(Daly, i) = i + 1 /\ Program[Daly][i + 1].dev = Program[Daly][i].dev
  <1> DEFINE P == Program[Daly]
             n == NextDevice(Daly, i)
  <1>1. Daly \in Drivers /\ Len(P) \in Nat \ {0}
    BY BusNumbers, StepsRead
  <1>0. /\ n \in 1 .. Len(P)
        /\ \/ n = 1 /\ \A j \in i .. Len(P) : P[j].dev = P[i].dev
           \/ /\ n \in i .. Len(P) /\ P[n].dev # P[i].dev
              /\ \A j \in i .. n - 1 : P[j].dev = P[i].dev
    BY <1>1, GoesOn
  <1>2. ASSUME n = 1, \A j \in i .. Len(P) : P[j].dev = P[i].dev
        PROVE  P[1].dev # P[i].dev
    <2>1. SUFFICES ASSUME P[1].dev = P[i].dev PROVE FALSE
      OBVIOUS
    <2>2. 1 \in 1 .. Len(P)
      BY <1>1
    <2>3. \A j \in 1 .. i : P[j].dev = P[1].dev
      BY <2>1, <2>2, Apart
    <2>4. \A j \in 1 .. Len(P) : P[j].dev = P[i].dev
      <3>1. TAKE j \in 1 .. Len(P)
      <3>2. CASE j <= i
        <4>1. j \in 1 .. i
          BY <1>1, <3>2
        <4>. QED BY <4>1, <2>1, <2>3
      <3>3. CASE i <= j
        <4>1. j \in i .. Len(P)
          BY <1>1, <3>3
        <4>. QED BY <4>1, <1>2
      <3>. QED BY <1>1, <3>2, <3>3
    <2>. QED BY <2>4, Apart
  <1>3. P[n].dev # P[i].dev
    BY <1>0, <1>1, <1>2
  <1>4. ASSUME ~LastOfDevice(Daly, i) PROVE After(Daly, i) = i + 1 /\ P[i + 1].dev = P[i].dev
    <2>1. After(Daly, i) # n
      BY <1>4 DEF LastOfDevice
    <2>2. n # i
      BY <1>3
    <2>3. i # Len(P)
      <3>1. SUFFICES ASSUME i = Len(P) PROVE FALSE
        OBVIOUS
      <3>2. After(Daly, i) = 1
        BY <3>1 DEF After
      <3>3. n = 1
        BY <1>0, <1>1, <2>2, <3>1
      <3>. QED BY <2>1, <3>2, <3>3
    <2>4. After(Daly, i) = i + 1 /\ i + 1 \in 1 .. Len(P) /\ i + 1 \in i .. Len(P)
      BY <1>1, <2>3 DEF After
    <2>5. CASE \A j \in i .. Len(P) : P[j].dev = P[i].dev
      BY <2>4, <2>5
    <2>6. CASE n \in i .. Len(P) /\ \A j \in i .. n - 1 : P[j].dev = P[i].dev
      <3>1. n \in Nat /\ n - 1 >= i + 1
        BY <1>1, <2>1, <2>2, <2>4, <2>6
      <3>2. i + 1 \in i .. n - 1
        BY <3>1
      <3>. QED BY <2>4, <2>6, <3>2
    <2>. QED BY <1>0, <2>4, <2>5, <2>6
  <1>. QED BY <1>3, <1>4
-----------------------------------------------------------------------------
(* How a driver goes on after a transaction: the others stay where they    *)
(* are.                                                                    *)

Placed == /\ step \in [Drivers -> Nat] /\ attempt \in [Drivers -> Nat] /\ pause \in [Drivers -> Nat]
          /\ \A w \in Drivers : step[w] \in 1 .. Len(Program[w])
          /\ attempt[Daly] <= Retries
          /\ backoff \in Nat

Unmoved(v) == step'[v] = step[v] /\ attempt'[v] = attempt[v] /\ pause'[v] = pause[v]

LEMMA MovesOne ==
    ASSUME NEW w \in Drivers, Placed, Advance(w) \/ GiveUp(w) \/ Fails(w) \/ PortFails(w)
    PROVE  /\ Placed'
           /\ \A v \in Drivers \ {w} : Unmoved(v)
  <1>1. step[w] \in 1 .. Len(Program[w]) /\ Len(Program[w]) \in Nat /\ 1 \in 1 .. Len(Program[w])
    BY StepsRead DEF Placed
  <1>2. After(w, step[w]) \in 1 .. Len(Program[w]) /\ NextDevice(w, step[w]) \in 1 .. Len(Program[w])
    BY <1>1, GoesOn
  <1>3. Gap[w] \in Nat /\ Rest \in Nat /\ RetryPause \in Nat /\ Retries \in Nat /\ Daly \in Drivers
        /\ BackoffInitial \in Nat /\ BackoffMax \in Nat
    BY BusNumbers
  <1> DEFINE Moves(i, n, p) ==
                /\ step' = [step EXCEPT ![w] = i] /\ attempt' = [attempt EXCEPT ![w] = n]
                /\ pause' = [pause EXCEPT ![w] = p] /\ backoff' \in Nat
                /\ w = Daly => n <= Retries
  <1>4. ASSUME NEW i \in 1 .. Len(Program[w]), NEW n \in Nat, NEW p \in Nat, Moves(i, n, p)
        PROVE  Placed' /\ \A v \in Drivers \ {w} : Unmoved(v)
    <2>1. /\ step' \in [Drivers -> Nat] /\ attempt' \in [Drivers -> Nat] /\ pause' \in [Drivers -> Nat]
          /\ step'[w] = i /\ attempt'[w] = n
          /\ \A v \in Drivers \ {w} : Unmoved(v)
      BY <1>1, <1>4 DEF Placed, Unmoved
    <2>2. \A v \in Drivers : step'[v] \in 1 .. Len(Program[v])
      BY <1>4, <2>1 DEF Placed, Unmoved
    <2>3. attempt'[Daly] <= Retries
      BY <1>3, <1>4, <2>1 DEF Placed, Unmoved
    <2>. QED BY <1>4, <2>1, <2>2, <2>3 DEF Placed
  <1>5. ASSUME Advance(w) PROVE Placed' /\ \A v \in Drivers \ {w} : Unmoved(v)
    <2> DEFINE p == IF w = Daly /\ LastOfDevice(w, step[w]) THEN Rest ELSE Gap[w]
    <2>1. p \in Nat
      BY <1>3
    <2>2. backoff' \in Nat
      BY <1>3, <1>5 DEF Advance, Placed
    <2>3. Moves(After(w, step[w]), 0, p)
      BY <1>3, <1>5, <2>2 DEF Advance
    <2> HIDE DEF p, Moves
    <2>. QED BY <1>2, <1>4, <2>1, <2>3
  <1>6. ASSUME GiveUp(w) PROVE Placed' /\ \A v \in Drivers \ {w} : Unmoved(v)
    <2>1. backoff' \in Nat
      BY <1>6 DEF GiveUp, Placed
    <2>2. Moves(NextDevice(w, step[w]), 0, Gap[w])
      BY <1>3, <1>6, <2>1 DEF GiveUp
    <2> HIDE DEF Moves
    <2>. QED BY <1>2, <1>3, <1>4, <2>2
  <1>7. ASSUME Fails(w) PROVE Placed' /\ \A v \in Drivers \ {w} : Unmoved(v)
    <2>1. CASE w = Daly /\ attempt[w] < Retries
      <3>1. /\ attempt' = [attempt EXCEPT ![w] = attempt[w] + 1]
            /\ pause' = [pause EXCEPT ![w] = RetryPause] /\ step' = step /\ backoff' = backoff
        BY <1>7, <2>1 DEF Fails
      <3>2. step' = [step EXCEPT ![w] = step[w]] /\ attempt[w] + 1 \in Nat /\ attempt[w] + 1 <= Retries
            /\ backoff' \in Nat
        BY <1>3, <2>1, <3>1 DEF Placed
      <3>3. Moves(step[w], attempt[w] + 1, RetryPause)
        BY <3>1, <3>2
      <3> HIDE DEF Moves
      <3>. QED BY <1>1, <1>3, <1>4, <3>2, <3>3
    <2>2. CASE ~(w = Daly /\ attempt[w] < Retries)
      BY <1>5, <1>6, <1>7, <2>2 DEF Fails
    <2>. QED BY <2>1, <2>2
  <1>8. ASSUME PortFails(w) PROVE Placed' /\ \A v \in Drivers \ {w} : Unmoved(v)
    <2>1. CASE Current(w).optional
      BY <1>5, <1>8, <2>1 DEF PortFails
    <2>2. CASE ~Current(w).optional /\ w # Daly
      BY <1>6, <1>8, <2>2 DEF PortFails
    <2>3. CASE ~Current(w).optional /\ w = Daly
      <3>1. /\ step' = [step EXCEPT ![w] = 1] /\ attempt' = [attempt EXCEPT ![w] = 0]
            /\ pause' = [pause EXCEPT ![w] = backoff]
            /\ backoff' = IF 2 * backoff < BackoffMax THEN 2 * backoff ELSE BackoffMax
        BY <1>8, <2>3 DEF PortFails
      <3>2. backoff \in Nat /\ backoff' \in Nat
        BY <1>3, <3>1 DEF Placed
      <3>3. Moves(1, 0, backoff)
        BY <1>3, <3>1, <3>2
      <3> HIDE DEF Moves
      <3>. QED BY <1>1, <1>4, <3>2, <3>3
    <2>. QED BY <2>1, <2>2, <2>3
  <1>. QED BY <1>5, <1>6, <1>7, <1>8

(* ... and he has left the time for a late answer, unless what comes next  *)
(* of his program is not what it is an answer to.                          *)
LEMMA MovesOn ==
    ASSUME NEW w \in Drivers, Placed, Advance(w) \/ Fails(w)
    PROVE  /\ w # Daly => pause'[w] = Gap[w]
           /\ w = Daly =>
                \/ step'[w] = step[w] /\ pause'[w] = RetryPause
                \/ /\ attempt'[w] = 0 /\ step'[w] = step[w] + 1
                   /\ Program[w][step'[w]].dev = Program[w][step[w]].dev
                \/ /\ attempt'[w] = 0 /\ Program[w][step'[w]].dev # Program[w][step[w]].dev
                   /\ pause'[w] = Rest \/ attempt[w] > 0
  <1>1. step[w] \in 1 .. Len(Program[w]) /\ attempt[w] \in Nat
    BY DEF Placed
  <1>2. /\ DOMAIN step = Drivers /\ DOMAIN attempt = Drivers /\ DOMAIN pause = Drivers
    BY DEF Placed
  <1>3. ASSUME Advance(w)
        PROVE  /\ step'[w] = After(w, step[w]) /\ attempt'[w] = 0
               /\ pause'[w] = IF w = Daly /\ LastOfDevice(w, step[w]) THEN Rest ELSE Gap[w]
    BY <1>2, <1>3 DEF Advance
  <1>4. ASSUME GiveUp(w)
        PROVE  step'[w] = NextDevice(w, step[w]) /\ attempt'[w] = 0 /\ pause'[w] = Gap[w]
    BY <1>2, <1>4 DEF GiveUp
  <1>5. CASE w # Daly
    BY <1>3, <1>4, <1>5 DEF Fails
  <1>6. CASE w = Daly
    <2>1. CASE Advance(w)
      <3>1. CASE LastOfDevice(w, step[w])
        <4>1. step'[w] = NextDevice(w, step[w])
          BY <1>3, <2>1, <3>1 DEF LastOfDevice
        <4>. QED BY <1>1, <1>3, <1>6, <2>1, <3>1, <4>1, DalyGoesOn
      <3>2. CASE ~LastOfDevice(w, step[w])
        BY <1>1, <1>3, <1>6, <2>1, <3>2, DalyGoesOn
      <3>. QED BY <3>1, <3>2
    <2>2. CASE GiveUp(w) /\ ~(attempt[w] < Retries)
      <3>1. attempt[w] > 0
        BY <1>1, <2>2, BusNumbers
      <3>. QED BY <1>1, <1>4, <1>6, <2>2, <3>1, DalyGoesOn
    <2>3. CASE Fails(w) /\ attempt[w] < Retries
      BY <1>2, <1>6, <2>3 DEF Fails
    <2>. QED BY <1>6, <2>1, <2>2, <2>3 DEF Fails
  <1>. QED BY <1>5, <1>6
-----------------------------------------------------------------------------
(* A transaction that is over has lasted, at least, the turnaround: what   *)
(* is still on the wire is late, and comes before a request it could be    *)
(* taken to answer.                                                        *)
LEMMA LeftBehind ==
    ASSUME NEW w \in Drivers, holder = w, holder' = Nobody, Placed,
           waited \in Nat, Turnaround <= waited, Advance(w) \/ Fails(w),
           NEW a \in Entries, Pieces(a), Separated(a), LongEnough(a), Asked(a)
    PROVE  Separated(a)' /\ LongEnough(a)' /\ Asked(a)'
  <1> DEFINE d == a.chunks[1].dev
             r == a.chunks[1].reg
             P == Program[w]
  <1>1. /\ a.age \in Nat /\ a.limit \in Nat /\ a.limit \in {Turnaround, Latest}
        /\ Turnaround \in Nat \ {0} /\ Latest \in Nat
    BY BusNumbers DEF Entries
  <1>2. w # Nobody /\ w \in Drivers
    BY BusNumbers
  <1>3. /\ a.age >= Turnaround
        /\ ~a.chunks[1].fresh => a.age >= 2 * Turnaround
    BY <1>1, <1>2 DEF LongEnough
  <1>4. LongEnough(a)' /\ Asked(a)'
    BY <1>3 DEF LongEnough, Asked
  <1>5. Placed' /\ \A v \in Drivers \ {w} : Unmoved(v)
    BY MovesOne
  <1>6. ASSUME NEW v \in Drivers \ {w}, Confusable(v, a)' PROVE a.age + pause'[v] >= a.limit
    <2>1. Confusable(v, a)
      BY <1>5, <1>6 DEF Confusable, Current, Unmoved
    <2>. QED BY <1>5, <2>1 DEF Separated, Unmoved
  <1>7. ASSUME Confusable(w, a)' PROVE a.age + pause'[w] >= a.limit
    <2>1. pause'[w] \in Nat
      BY <1>5 DEF Placed
    <2>2. SUFFICES ASSUME a.age < a.limit PROVE a.age + pause'[w] >= Latest
      BY <1>1, <2>1, BusNumbers
    <2>3. a.limit # Turnaround
      BY <1>1, <1>3, <2>2
    <2>4. CASE w # Daly
      <3>1. pause'[w] = Gap[w]
        BY <2>4, MovesOn
      <3>. QED BY <1>1, <1>3, <2>4, <3>1, BusNumbers
    <2>5. CASE w = Daly
      <3>1. PICK i \in 1 .. Len(P) :
               /\ P[i].dev = d /\ P[i].reg = r
               /\ IF P[step'[w]].dev = d THEN step'[w] <= i ELSE attempt'[w] > 0
        BY <1>7, <2>5 DEF Confusable, Current
      <3>2. step[w] \in 1 .. Len(P) /\ attempt[w] \in Nat /\ Len(P) \in Nat
        BY StepsRead DEF Placed
      <3>3. CASE pause'[w] = RetryPause
        BY <1>1, <1>3, <3>3, BusNumbers
      <3>4. CASE pause'[w] = Rest /\ ~a.chunks[1].fresh
        BY <1>1, <1>3, <3>4, BusNumbers
      <3>5. CASE a.chunks[1].fresh /\ pause'[w] # RetryPause
        <4>1. P[step[w]].dev = d /\ P[step[w]].reg = r
          BY <1>2, <2>3, <3>5 DEF Asked, Current
        <4>2. i = step[w]
          BY <2>5, <3>1, <3>2, <4>1, Apart
        <4>3. CASE attempt'[w] = 0 /\ step'[w] = step[w] + 1 /\ P[step'[w]].dev = P[step[w]].dev
          BY <3>1, <3>2, <4>1, <4>2, <4>3
        <4>4. CASE attempt'[w] = 0 /\ P[step'[w]].dev # P[step[w]].dev
          BY <3>1, <3>2, <4>1, <4>2, <4>4
        <4>. QED BY <2>5, <3>5, <4>3, <4>4, MovesOn
      <3>6. CASE ~a.chunks[1].fresh /\ pause'[w] # RetryPause /\ pause'[w] # Rest
        <4>1. ~Confusable(w, a)
          BY <3>6 DEF Separated
        <4>2. ~(IF P[step[w]].dev = d THEN step[w] <= i ELSE attempt[w] > 0)
          BY <3>1, <4>1 DEF Confusable, Current
        <4>3. CASE attempt'[w] = 0 /\ step'[w] = step[w] + 1 /\ P[step'[w]].dev = P[step[w]].dev
          BY <3>1, <3>2, <4>2, <4>3
        <4>4. CASE attempt'[w] = 0 /\ P[step'[w]].dev # P[step[w]].dev /\ attempt[w] > 0
          BY <3>1, <3>2, <4>2, <4>4
        <4>. QED BY <2>5, <3>6, <4>3, <4>4, MovesOn
      <3>. QED BY <3>3, <3>4, <3>5, <3>6
    <2>. QED BY <2>4, <2>5
  <1>8. Separated(a)'
    <2>1. ASSUME NEW v \in Drivers, Confusable(v, a)'
          PROVE  IF holder' = v THEN a.chunks[1].fresh ELSE a.age + pause'[v] >= a.limit
      <3>1. holder' # v
        BY BusNumbers
      <3>2. a.age + pause'[v] >= a.limit
        BY <1>6, <1>7, <2>1
      <3>. QED BY <3>1, <3>2
    <2>. QED BY <2>1 DEF Separated
  <1>. QED BY <1>4, <1>8
-----------------------------------------------------------------------------
(* What comes onto the wire.                                               *)

LEMMA FourChunks ==
    ASSUME NEW S, NEW f \in Seq(S), NEW g \in Seq(S), Len(f) = 2, Len(g) = 2
    PROVE  /\ f \o g \in Seq(S) /\ Len(f \o g) = 4
           /\ (f \o g)[1] = f[1] /\ (f \o g)[2] = f[2]
           /\ (f \o g)[3] = g[1] /\ (f \o g)[4] = g[2]
  <1>1. /\ f \o g \in Seq(S) /\ Len(f \o g) = Len(f) + Len(g)
        /\ \A i \in 1 .. Len(f) + Len(g) :
              (f \o g)[i] = IF i <= Len(f) THEN f[i] ELSE g[i - Len(f)]
    BY ConcatProperties
  <1>. QED BY <1>1

Framed(q, d, r, n) ==
    /\ q \in Seq(Wire) /\ Len(q) = 2 * n
    /\ \A k \in 1 .. 2 * n :
          q[k].dev = d /\ q[k].reg = r /\ q[k].fresh = TRUE /\ Rank(q[k]) = k

LEMMA FramesListed ==
    ASSUME NEW d \in Talkers, NEW r \in Regs, NEW n \in 1..2
    PROVE  Framed(Frames(d, r, n), d, r, n)
  <1> DEFINE Is(c, k) == c.dev = d /\ c.reg = r /\ c.fresh = TRUE /\ Rank(c) = k
  <1>1. ASSUME NEW i \in 1..2, NEW h \in 1..2
        PROVE  Chunk(d, r, i, h) \in Wire /\ Is(Chunk(d, r, i, h), 2 * i + h - 2)
    BY DEF Chunk, Wire, Rank
  <1> HIDE DEF Is
  <1>2. /\ Chunk(d, r, 1, 1) \in Wire /\ Is(Chunk(d, r, 1, 1), 1)
        /\ Chunk(d, r, 1, 2) \in Wire /\ Is(Chunk(d, r, 1, 2), 2)
        /\ Chunk(d, r, 2, 1) \in Wire /\ Is(Chunk(d, r, 2, 1), 3)
        /\ Chunk(d, r, 2, 2) \in Wire /\ Is(Chunk(d, r, 2, 2), 4)
    <2>1. 1 \in 1..2 /\ 2 \in 1..2 /\ 2 * 1 + 1 - 2 = 1 /\ 2 * 1 + 2 - 2 = 2
          /\ 2 * 2 + 1 - 2 = 3 /\ 2 * 2 + 2 - 2 = 4
      OBVIOUS
    <2>2. Chunk(d, r, 1, 1) \in Wire /\ Is(Chunk(d, r, 1, 1), 2 * 1 + 1 - 2)
      BY <1>1, <2>1
    <2>3. Chunk(d, r, 1, 2) \in Wire /\ Is(Chunk(d, r, 1, 2), 2 * 1 + 2 - 2)
      BY <1>1, <2>1
    <2>4. Chunk(d, r, 2, 1) \in Wire /\ Is(Chunk(d, r, 2, 1), 2 * 2 + 1 - 2)
      BY <1>1, <2>1
    <2>5. Chunk(d, r, 2, 2) \in Wire /\ Is(Chunk(d, r, 2, 2), 2 * 2 + 2 - 2)
      BY <1>1, <2>1
    <2>. QED BY <2>1, <2>2, <2>3, <2>4, <2>5
  <1>3. ASSUME NEW i \in 1..2
        PROVE  /\ Frame(d, r, i) \in Seq(Wire) /\ Len(Frame(d, r, i)) = 2
               /\ Frame(d, r, i)[1] = Chunk(d, r, i, 1) /\ Frame(d, r, i)[2] = Chunk(d, r, i, 2)
    <2>1. Chunk(d, r, i, 1) \in Wire /\ Chunk(d, r, i, 2) \in Wire
      BY <1>2
    <2>. QED BY <2>1 DEF Frame
  <1> DEFINE f == Frame(d, r, 1)
             g == Frame(d, r, 2)
  <1>4. /\ f \in Seq(Wire) /\ Len(f) = 2 /\ g \in Seq(Wire) /\ Len(g) = 2
        /\ Is(f[1], 1) /\ Is(f[2], 2) /\ Is(g[1], 3) /\ Is(g[2], 4)
    BY <1>2, <1>3
  <1>5. Frames(d, r, n) = IF n = 1 THEN f ELSE f \o g
    BY DEF Frames
  <1> HIDE DEF f, g
  <1> DEFINE q == Frames(d, r, n)
  <1>6. q \in Seq(Wire) /\ Len(q) = 2 * n /\ \A k \in 1 .. 2 * n : Is(q[k], k)
    <2>1. CASE n = 1
      <3>1. Is(q[1], 1) /\ Is(q[2], 2)
        BY <1>4, <1>5, <2>1
      <3>2. \A k \in 1 .. 2 * n : k = 1 \/ k = 2
        BY <2>1
      <3>. QED BY <1>4, <1>5, <2>1, <3>1, <3>2
    <2>2. CASE n = 2
      <3>1. /\ f \o g \in Seq(Wire) /\ Len(f \o g) = 4
            /\ (f \o g)[1] = f[1] /\ (f \o g)[2] = f[2]
            /\ (f \o g)[3] = g[1] /\ (f \o g)[4] = g[2]
        BY <1>4, FourChunks
      <3>2. q = f \o g
        BY <1>5, <2>2
      <3> HIDE DEF q
      <3>3. Is(q[1], 1) /\ Is(q[2], 2) /\ Is(q[3], 3) /\ Is(q[4], 4)
        BY <1>4, <3>1, <3>2
      <3>4. \A k \in 1 .. 2 * n : k = 1 \/ k = 2 \/ k = 3 \/ k = 4
        BY <2>2
      <3>5. \A k \in 1 .. 2 * n : Is(q[k], k)
        BY <3>3, <3>4
      <3>6. q \in Seq(Wire) /\ Len(q) = 2 * n
        BY <2>2, <3>1, <3>2
      <3>. QED BY <3>5, <3>6
    <2>. QED BY <2>1, <2>2
  <1>. QED BY <1>6 DEF Is, Framed

(* An answer to an earlier request, when the next one is made.             *)
LEMMA GrowsStale ==
    ASSUME NEW w \in Drivers, holder = Nobody, holder' = w, waited' = 0, UNCHANGED driverVars,
           Placed, pause[w] = 0,
           NEW a \in Entries, Pieces(a), Separated(a), LongEnough(a), a.age < a.limit
    PROVE  /\ Stale(a) \in Entries /\ Pieces(Stale(a))
           /\ Separated(Stale(a))' /\ LongEnough(Stale(a))' /\ Asked(Stale(a))'
           /\ ~Own(Stale(a).chunks[1])'
  <1> DEFINE b == Stale(a)
  <1>1. /\ a.chunks \in Seq(Wire) /\ a.age \in Nat /\ a.limit \in {Turnaround, Latest}
        /\ Len(a.chunks) \in Nat \ {0}
    BY DEF Entries, Pieces
  <1>2. /\ b.age = a.age /\ b.limit = a.limit
        /\ b.chunks = [i \in DOMAIN a.chunks |-> [a.chunks[i] EXCEPT !.fresh = FALSE]]
    BY DEF Stale, Entries
  <1>3. \A c \in Wire : LET e == [c EXCEPT !.fresh = FALSE] IN
           /\ e \in Wire /\ e.dev = c.dev /\ e.reg = c.reg /\ e.fresh = FALSE
           /\ Rank(e) = Rank(c)
    BY DEF Wire, Rank
  <1>4. \A i \in 1 .. Len(a.chunks) :
           /\ b.chunks[i] \in Wire /\ b.chunks[i].dev = a.chunks[i].dev
           /\ b.chunks[i].reg = a.chunks[i].reg /\ b.chunks[i].fresh = FALSE
           /\ Rank(b.chunks[i]) = Rank(a.chunks[i])
    <2>1. TAKE i \in 1 .. Len(a.chunks)
    <2>2. a.chunks[i] \in Wire /\ b.chunks[i] = [a.chunks[i] EXCEPT !.fresh = FALSE]
      BY <1>1, <1>2
    <2>. QED BY <1>3, <2>2
  <1>5. b.chunks \in Seq(Wire) /\ Len(b.chunks) = Len(a.chunks)
    <2>1. b.chunks \in [1 .. Len(a.chunks) -> Wire]
      <3>1. DOMAIN b.chunks = 1 .. Len(a.chunks)
        BY <1>1, <1>2
      <3>2. b.chunks = [i \in 1 .. Len(a.chunks) |-> b.chunks[i]]
        BY <1>1, <1>2
      <3>. QED BY <1>4, <3>1, <3>2
    <2>. QED BY <1>1, <2>1
  <1>6. b \in Entries
    BY <1>1, <1>2, <1>5 DEF Entries, Stale
  <1>7. 1 \in 1 .. Len(a.chunks)
    BY <1>1
  <1>8. Pieces(b)
    <2>1. b.chunks # <<>> /\ b.age <= b.limit
      BY <1>1, <1>2, <1>5 DEF Pieces
    <2>2. \A k \in 1 .. Len(b.chunks) :
             /\ b.chunks[k].dev = b.chunks[1].dev /\ b.chunks[k].reg = b.chunks[1].reg
             /\ b.chunks[k].fresh = b.chunks[1].fresh
             /\ Rank(b.chunks[k]) = Rank(b.chunks[1]) + k - 1
      <3>1. \A k \in 1 .. Len(a.chunks) :
               /\ a.chunks[k].dev = a.chunks[1].dev /\ a.chunks[k].reg = a.chunks[1].reg
               /\ Rank(a.chunks[k]) = Rank(a.chunks[1]) + k - 1
        BY DEF Pieces
      <3>. QED BY <1>4, <1>5, <1>7, <3>1, ZenonT(40)
    <2>. QED BY <2>1, <2>2 DEF Pieces
  <1> HIDE DEF b
  <1>9. \A v \in Drivers : Confusable(v, b)' <=> Confusable(v, a)
    BY <1>4, <1>7 DEF Confusable, Current, driverVars
  <1>10. a.limit = Latest /\ a.age >= Turnaround /\ b.age >= Turnaround
    BY <1>1, <1>2, BusNumbers DEF LongEnough
  <1>11. w # Nobody
    BY BusNumbers
  <1>12. ~Confusable(w, a)
    BY <1>1, <1>11, BusNumbers DEF Separated
  <1>13. Separated(b)'
    <2>1. ASSUME NEW v \in Drivers, Confusable(v, b)'
          PROVE  IF holder' = v THEN b.chunks[1].fresh ELSE b.age + pause'[v] >= b.limit
      <3>1. v # w /\ v # Nobody /\ Confusable(v, a)
        BY <1>9, <1>12, <2>1, BusNumbers
      <3>. QED BY <1>2, <3>1 DEF Separated, driverVars
    <2>. QED BY <2>1 DEF Separated
  <1>14. LongEnough(b)' /\ Asked(b)'
    <2>1. b.chunks[1].fresh = FALSE
      BY <1>4, <1>7
    <2>2. b.age \in Nat /\ Turnaround \in Nat
      BY <1>1, <1>2, BusNumbers
    <2>. QED BY <1>2, <1>10, <1>11, <2>1, <2>2 DEF LongEnough, Asked
  <1>15. ~Own(b.chunks[1])'
    <2>1. SUFFICES ASSUME Own(b.chunks[1])' PROVE Confusable(w, a)
      BY <1>12
    <2>2. /\ a.chunks[1].dev = Current(w).dev
          /\ w = Daly => a.chunks[1].reg = Current(w).reg
      BY <1>4, <1>7, <2>1 DEF Own, Current, driverVars
    <2>3. step[w] \in 1 .. Len(Program[w])
      BY DEF Placed
    <2>4. step[w] <= step[w]
      BY <2>3
    <2>. QED BY <2>2, <2>3, <2>4 DEF Confusable, Current
  <1>. QED BY <1>6, <1>8, <1>13, <1>14, <1>15 DEF b

(* The answers to the request just made.                                   *)
LEMMA GetsAsked ==
    ASSUME NEW w \in Drivers, holder' = w, waited' = 0, UNCHANGED driverVars, Placed,
           NEW d, NEW b, NEW l \in {Turnaround, Latest},
           b = [chunks |-> Frames(d, Current(w).reg, Current(w).frames), age |-> 0, limit |-> l],
           \/ d = Current(w).dev
           \/ d = Master /\ w = Daly /\ Master # Current(w).dev /\ l = Turnaround
    PROVE  /\ b \in Entries /\ Pieces(b)
           /\ Separated(b)' /\ LongEnough(b)' /\ Asked(b)'
           /\ Rank(b.chunks[1]) = 1
           /\ Own(b.chunks[1])' => d = Current(w).dev
  <1> DEFINE s == Current(w)
  <1>1. step[w] \in 1 .. Len(Program[w]) /\ s = Program[w][step[w]]
    BY DEF Placed, Current
  <1>2. s.dev \in Devices /\ s.reg \in Regs /\ s.frames \in 1..2
    BY <1>1, StepsRead
  <1> HIDE DEF s
  <1>3. d \in Talkers
    BY <1>2 DEF s, Talkers
  <1>4. /\ b.chunks = Frames(d, s.reg, s.frames) /\ b.age = 0 /\ b.limit = l
    BY DEF s
  <1>5. /\ b.chunks \in Seq(Wire) /\ Len(b.chunks) = 2 * s.frames
        /\ \A k \in 1 .. 2 * s.frames :
              /\ b.chunks[k].dev = d /\ b.chunks[k].reg = s.reg
              /\ b.chunks[k].fresh = TRUE /\ Rank(b.chunks[k]) = k
    <2>1. PICK r : r = s.reg
      OBVIOUS
    <2>2. PICK n : n = s.frames
      OBVIOUS
    <2>3. r \in Regs /\ n \in 1..2 /\ b.chunks = Frames(d, r, n)
      BY <1>2, <1>4, <2>1, <2>2
    <2>4. Framed(b.chunks, d, r, n)
      BY <1>3, <2>3, FramesListed
    <2>. QED BY <2>1, <2>2, <2>4 DEF Framed
  <1>6. 1 \in 1 .. 2 * s.frames /\ 2 * s.frames \in Nat
    BY <1>2
  <1>7. b \in Entries
    BY <1>4, <1>5 DEF Entries
  <1>8. Pieces(b)
    <2>1. b.chunks # <<>>
      BY <1>5, <1>6
    <2>2. b.age <= b.limit
      BY <1>4, BusNumbers
    <2>3. \A k \in 1 .. Len(b.chunks) :
             /\ b.chunks[k].dev = b.chunks[1].dev /\ b.chunks[k].reg = b.chunks[1].reg
             /\ b.chunks[k].fresh = b.chunks[1].fresh
             /\ Rank(b.chunks[k]) = Rank(b.chunks[1]) + k - 1
      <3>1. TAKE k \in 1 .. Len(b.chunks)
      <3>2. k \in 1 .. 2 * s.frames /\ k \in Nat
        BY <1>5, <1>6
      <3>3. Rank(b.chunks[k]) = k /\ Rank(b.chunks[1]) = 1
        BY <1>5, <1>6, <3>2
      <3>4. /\ b.chunks[k].dev = b.chunks[1].dev /\ b.chunks[k].reg = b.chunks[1].reg
            /\ b.chunks[k].fresh = b.chunks[1].fresh
        BY <1>5, <1>6, <3>2
      <3>. QED BY <3>2, <3>3, <3>4
    <2>. QED BY <2>1, <2>2, <2>3 DEF Pieces
  <1>9. /\ b.chunks[1].dev = d /\ b.chunks[1].reg = s.reg /\ b.chunks[1].fresh = TRUE
        /\ Rank(b.chunks[1]) = 1
    BY <1>5, <1>6
  <1>10. Separated(b)'
    <2>1. ASSUME NEW v \in Drivers \ {w} PROVE ~Confusable(v, b)'
      <3>1. SUFFICES ASSUME NEW i \in 1 .. Len(Program[v]), Program[v][i].dev = d PROVE FALSE
        BY <1>9 DEF Confusable
      <3>2. CASE d = s.dev
        BY <1>1, <2>1, <3>1, <3>2, Apart
      <3>3. CASE d = Master /\ w = Daly
        BY <2>1, <3>1, <3>3, Apart
      <3>. QED BY <3>2, <3>3 DEF s
    <2>. QED BY <1>9, <2>1 DEF Separated
  <1>11. Current(w)' = s
    BY DEF Current, driverVars, s
  <1>12. w # Nobody
    BY BusNumbers
  <1>13. LongEnough(b)'
    BY <1>4, <1>9, <1>12 DEF LongEnough
  <1>14. Asked(b)'
    BY <1>4, <1>9, <1>11, <1>12 DEF Asked, s
  <1>15. Own(b.chunks[1])' => d = s.dev
    BY <1>9, <1>11 DEF Own
  <1>. QED BY <1>7, <1>8, <1>9, <1>10, <1>13, <1>14, <1>15 DEF s
-----------------------------------------------------------------------------
(* The actions.                                                            *)

LEMMA DriversPlaced == DriversOK => Placed /\ waited \in Nat /\ Nobody \notin Drivers
  BY BusNumbers DEF DriversOK, Placed, WindowEnd

(* What is put on the wire by a request: nothing, or what GetsAsked says.  *)
LEMMA AsksMaster ==
    ASSUME NEW w \in Drivers, Placed, NEW m \in Interjections(Current(w))
    PROVE  \/ m = <<>>
           \/ /\ m = Answer(Master, Current(w), Turnaround)
              /\ w = Daly /\ Master # Current(w).dev
  <1>1. SUFFICES ASSUME m # <<>>
                 PROVE  /\ m = Answer(Master, Current(w), Turnaround)
                        /\ w = Daly /\ Master # Current(w).dev
    OBVIOUS
  <1>2. /\ Current(w) \in ToSet(Program[Daly]) /\ Current(w).dev # Master
        /\ m = Answer(Master, Current(w), Turnaround)
    BY <1>1 DEF Interjections
  <1>3. PICK k \in DOMAIN Program[Daly] : Program[Daly][k] = Current(w)
    BY <1>2 DEF ToSet
  <1>4. Daly \in Drivers /\ k \in 1 .. Len(Program[Daly])
    BY <1>3, BusNumbers, StepsRead
  <1>5. step[w] \in 1 .. Len(Program[w]) /\ Program[w][step[w]].dev = Program[Daly][k].dev
    BY <1>3 DEF Placed, Current
  <1>. QED BY <1>2, <1>4, <1>5, Apart, ZenonT(40)

Parts(q, f, g, h) ==
    /\ Len(q) = Len(f) + Len(g) + Len(h)
    /\ \A i \in 1 .. Len(q) :
          \/ i \in 1 .. Len(f) /\ q[i] = f[i]
          \/ i - Len(f) \in 1 .. Len(g) /\ q[i] = g[i - Len(f)]
          \/ i - Len(f) - Len(g) \in 1 .. Len(h) /\ q[i] = h[i - Len(f) - Len(g)]

LEMMA ThreeParts ==
    ASSUME NEW S, NEW f \in Seq(S), NEW g \in Seq(S), NEW h \in Seq(S), NEW q,
           q = (f \o g) \o h
    PROVE  q \in Seq(S) /\ Parts(q, f, g, h)
  <1> DEFINE e == f \o g
  <1>1. Len(f) \in Nat /\ Len(g) \in Nat /\ Len(h) \in Nat
    OBVIOUS
  <1>2. /\ e \in Seq(S) /\ Len(e) = Len(f) + Len(g)
        /\ \A i \in 1 .. Len(f) + Len(g) : e[i] = IF i <= Len(f) THEN f[i] ELSE g[i - Len(f)]
    BY ConcatProperties
  <1> HIDE DEF e
  <1>3. /\ q \in Seq(S) /\ Len(q) = Len(e) + Len(h)
        /\ \A i \in 1 .. Len(e) + Len(h) : q[i] = IF i <= Len(e) THEN e[i] ELSE h[i - Len(e)]
    BY <1>2, ConcatProperties DEF e
  <1>4. ASSUME NEW i \in 1 .. Len(q)
        PROVE  \/ i \in 1 .. Len(f) /\ q[i] = f[i]
               \/ i - Len(f) \in 1 .. Len(g) /\ q[i] = g[i - Len(f)]
               \/ i - Len(f) - Len(g) \in 1 .. Len(h) /\ q[i] = h[i - Len(f) - Len(g)]
    <2>1. CASE i <= Len(f)
      BY <1>1, <1>2, <1>3, <2>1
    <2>2. CASE ~(i <= Len(f)) /\ i <= Len(e)
      BY <1>1, <1>2, <1>3, <2>2
    <2>3. CASE ~(i <= Len(e))
      <3>1. i - Len(e) \in 1 .. Len(h) /\ q[i] = h[i - Len(e)]
        BY <1>1, <1>2, <1>3, <2>3
      <3>2. i - Len(e) = i - Len(f) - Len(g)
        BY <1>1, <1>2, <1>3
      <3>. QED BY <3>1, <3>2
    <2>. QED BY <2>1, <2>2, <2>3
  <1>. QED BY <1>1, <1>2, <1>3, <1>4 DEF Parts

(* What holds of each answer on the wire after a step.                     *)
LEMMA AirIs ==
    ASSUME NEW y, y = air',
           \A i \in 1 .. Len(y) : Separated(y[i])' /\ LongEnough(y[i])' /\ Asked(y[i])'
    PROVE  AirOK'
  BY DEF AirOK, Separated, LongEnough, Asked, Confusable

LEMMA Transmits ==
    ASSUME NEW w \in Drivers, WireOK, DriversOK, AirOK, Begin(w), handle
    PROVE  WireOK' /\ DriversOK' /\ AirOK' /\ StreamOK' /\ GotOK'
  <1>1. /\ holder = Nobody /\ pause[w] = 0 /\ holder' = w /\ waited' = 0 /\ got' = <<>>
        /\ UNCHANGED driverVars /\ UNCHANGED handle
        /\ \A i \in 1 .. Len(air) : air[i].age < air[i].limit
    BY DEF Begin, Ready, WireOK
  <1>2. Placed /\ Nobody \notin Drivers
    BY DriversPlaced
  <1>3. rx' = <<>>
    BY DEF Begin, Flushed
  <1>4. PICK m \in Interjections(Current(w)), a \in Answers(Current(w)) :
           air' = [i \in DOMAIN air |-> Stale(air[i])] \o m \o a
    BY DEF Begin
  <1>0. PICK x, y : x = air /\ y = air'
    OBVIOUS
  <1> DEFINE s == Current(w)
             q == [i \in DOMAIN x |-> Stale(x[i])]
             OK(b) == Pieces(b) /\ Separated(b)' /\ LongEnough(b)' /\ Asked(b)'
  <1>5. /\ q \in Seq(Entries) /\ Len(q) \in Nat
        /\ \A i \in 1 .. Len(q) : OK(q[i]) /\ ~Own(q[i].chunks[1])'
    <2>1. x \in Seq(Entries) /\ DOMAIN x = 1 .. Len(x)
      BY <1>0 DEF WireOK
    <2>2. ASSUME NEW b, NEW i \in 1 .. Len(x), b = x[i]
          PROVE  Stale(b) \in Entries /\ OK(Stale(b)) /\ ~Own(Stale(b).chunks[1])'
      <3>1. /\ b \in Entries /\ Pieces(b) /\ Separated(b) /\ LongEnough(b)
            /\ b.age < b.limit
        BY <1>0, <1>1, <2>1, <2>2 DEF WireOK, AirOK
      <3>. QED BY <1>1, <1>2, <3>1, GrowsStale
    <2> HIDE DEF OK
    <2>3. \A i \in 1 .. Len(x) :
             Stale(x[i]) \in Entries /\ OK(Stale(x[i])) /\ ~Own(Stale(x[i]).chunks[1])'
      BY <2>2
    <2>4. DOMAIN q = 1 .. Len(x) /\ \A i \in 1 .. Len(x) : q[i] = Stale(x[i])
      BY <2>1
    <2>5. q \in [1 .. Len(x) -> Entries]
      BY <2>1, <2>3
    <2>6. q \in Seq(Entries) /\ Len(q) = Len(x) /\ Len(x) \in Nat
      BY <2>1, <2>5
    <2>. QED BY <2>3, <2>4, <2>6
  <1>6. /\ m \in Seq(Entries) /\ Len(m) \in 0..1
        /\ \A i \in 1 .. Len(m) : OK(m[i]) /\ ~Own(m[i].chunks[1])'
    <2>1. CASE m = <<>>
      BY <2>1
    <2>2. CASE m = Answer(Master, s, Turnaround) /\ w = Daly /\ Master # s.dev
      <3>1. PICK b : b = [chunks |-> Frames(Master, s.reg, s.frames), age |-> 0, limit |-> Turnaround]
        OBVIOUS
      <3>2. m = <<b>>
        BY <2>2, <3>1 DEF Answer
      <3>3. b \in Entries /\ OK(b) /\ ~Own(b.chunks[1])'
        BY <1>1, <1>2, <2>2, <3>1, GetsAsked
      <3> HIDE DEF s, OK
      <3>. QED BY <3>2, <3>3
    <2>. QED BY <1>2, <2>1, <2>2, AsksMaster
  <1>7. /\ a \in Seq(Entries) /\ Len(a) \in 0..1
        /\ \A i \in 1 .. Len(a) : OK(a[i]) /\ Rank(a[i].chunks[1]) = 1
    <2>1. a = <<>> \/ \E l \in {Turnaround, Latest} : a = Answer(s.dev, s, l)
      BY DEF Answers
    <2>2. CASE a = <<>>
      BY <2>2
    <2>3. ASSUME NEW l \in {Turnaround, Latest}, a = Answer(s.dev, s, l)
          PROVE  /\ a \in Seq(Entries) /\ Len(a) \in 0..1
                 /\ \A i \in 1 .. Len(a) : OK(a[i]) /\ Rank(a[i].chunks[1]) = 1
      <3>1. PICK b : b = [chunks |-> Frames(s.dev, s.reg, s.frames), age |-> 0, limit |-> l]
        OBVIOUS
      <3>2. a = <<b>>
        BY <2>3, <3>1 DEF Answer
      <3>3. b \in Entries /\ OK(b) /\ Rank(b.chunks[1]) = 1
        BY <1>1, <1>2, <3>1, GetsAsked
      <3> HIDE DEF s, OK
      <3>. QED BY <3>2, <3>3
    <2>. QED BY <2>1, <2>2, <2>3
  <1>8. y = (q \o m) \o a
    BY <1>0, <1>4
  <1> HIDE DEF q, OK
  <1>9. /\ y \in Seq(Entries) /\ Len(y) = Len(q) + Len(m) + Len(a)
        /\ \A i \in 1 .. Len(y) :
              \/ i \in 1 .. Len(q) /\ y[i] = q[i]
              \/ i - Len(q) \in 1 .. Len(m) /\ y[i] = m[i - Len(q)]
              \/ i - Len(q) - Len(m) \in 1 .. Len(a) /\ y[i] = a[i - Len(q) - Len(m)]
    <2>1. y \in Seq(Entries) /\ Parts(y, q, m, a)
      BY <1>5, <1>6, <1>7, <1>8, ThreeParts
    <2>. QED BY <2>1 DEF Parts
  <1>10. \A i \in 1 .. Len(y) : OK(y[i])
    BY <1>5, <1>6, <1>7, <1>9
  <1>11. \A i \in 1 .. Len(y) : Own(y[i].chunks[1])' =>
            i = Len(q) + Len(m) + 1 /\ Rank(y[i].chunks[1]) = 1
    <2>1. SUFFICES ASSUME NEW i \in 1 .. Len(y), Own(y[i].chunks[1])'
                   PROVE  i = Len(q) + Len(m) + 1 /\ Rank(y[i].chunks[1]) = 1
      OBVIOUS
    <2>2. i - Len(q) - Len(m) \in 1 .. Len(a) /\ y[i] = a[i - Len(q) - Len(m)]
      BY <1>5, <1>6, <1>9, <2>1
    <2>3. i \in Nat /\ i - Len(q) - Len(m) = 1
      BY <1>5, <1>6, <1>7, <1>9, <2>2
    <2>. QED BY <1>5, <1>6, <1>7, <2>2, <2>3
  <1>12. WireOK'
    BY <1>0, <1>1, <1>3, <1>9, <1>10 DEF WireOK, OK
  <1>13. DriversOK'
    <2>1. waited' \in 0 .. WindowEnd
      BY <1>1, BusNumbers DEF WindowEnd
    <2>. QED BY <1>1, <2>1 DEF DriversOK, driverVars
  <1>14. AirOK'
    BY <1>0, <1>10, AirIs DEF OK
  <1>15. StreamOK'
    <2>1. Len(rx') = 0 /\ Len(got') = 0
      BY <1>1, <1>3
    <2>2. 1 .. Len(rx') = {}
      BY <2>1
    <2>3. \A i, k \in 1 .. Len(y) :
              Own(y[i].chunks[1])' /\ Own(y[k].chunks[1])' => i = k
      BY <1>11
    <2>4. \A i \in 1 .. Len(y) : Own(y[i].chunks[1])' =>
             Rank(y[i].chunks[1]) > 2 * Len(got') /\ ~(Rank(y[i].chunks[1]) > 2 * Len(got') + 1)
      BY <1>11, <2>1
    <2>5. rx' = <<>>
      BY <1>3
    <2>. QED BY <1>0, <2>2, <2>3, <2>4 DEF StreamOK, Stream, Own
  <1>16. GotOK'
    BY <1>1 DEF GotOK
  <1>. QED BY <1>12, <1>13, <1>14, <1>15, <1>16

(* The end of a transaction, and of one that the port does not allow.      *)
LEMMA Ends ==
    ASSUME NEW w \in Drivers, WireOK, DriversOK, AirOK, holder = w, Release,
           Turnaround <= waited, Advance(w) \/ Fails(w), UNCHANGED <<handle, air>>,
           rx' \in Seq(Wire), handle
    PROVE  WireOK' /\ DriversOK' /\ AirOK' /\ holder' = Nobody
  <1>1. holder' = Nobody /\ waited' = 0
    BY DEF Release
  <1>2. Placed /\ waited \in Nat
    BY DriversPlaced
  <1>3. WireOK'
    BY DEF WireOK
  <1>4. DriversOK'
    <2>1. Placed'
      BY <1>2, MovesOne
    <2>2. waited' \in 0 .. WindowEnd
      BY <1>1, BusNumbers DEF WindowEnd
    <2>. QED BY <1>1, <2>1, <2>2 DEF DriversOK, Placed
  <1>5. AirOK'
    <2>1. PICK y : y = air'
      OBVIOUS
    <2>2. ASSUME NEW i \in 1 .. Len(y), NEW b, b = y[i]
          PROVE  Separated(b)' /\ LongEnough(b)' /\ Asked(b)'
      <3>1. b \in Entries /\ Pieces(b) /\ Separated(b) /\ LongEnough(b) /\ Asked(b)
        BY <2>1, <2>2 DEF WireOK, AirOK
      <3>. QED BY <1>1, <1>2, <3>1, LeftBehind
    <2>3. \A i \in 1 .. Len(y) : Separated(y[i])' /\ LongEnough(y[i])' /\ Asked(y[i])'
      BY <2>2
    <2>. QED BY <2>1, <2>3, AirIs
  <1>. QED BY <1>1, <1>3, <1>4, <1>5

LEMMA PortGone ==
    ASSUME NEW w \in Drivers, WireOK, DriversOK, ~handle, holder' = Nobody,
           waited' \in 0 .. WindowEnd,
           Advance(w) \/ GiveUp(w) \/ Fails(w) \/ PortFails(w), UNCHANGED portVars
    PROVE  WireOK' /\ DriversOK' /\ AirOK'
  <1>1. WireOK' /\ air' = <<>>
    BY DEF WireOK, portVars
  <1>2. AirOK'
    BY <1>1 DEF AirOK
  <1>3. Placed'
    BY DriversPlaced, MovesOne
  <1>. QED BY <1>1, <1>2, <1>3 DEF DriversOK, Placed

-----------------------------------------------------------------------------
(* What is read.                                                           *)

LEMMA DropsTwo ==
    ASSUME rx \in Seq(Wire), Len(rx) >= 2
    PROVE  /\ Tail(Tail(rx)) \in Seq(Wire) /\ Len(Tail(Tail(rx))) = Len(rx) - 2 /\ Len(rx) \in Nat
           /\ \A j \in 1 .. Len(rx) - 2 : Tail(Tail(rx))[j] = rx[j + 2]
           /\ rx[1] \in Wire /\ rx[2] \in Wire
  <1>1. /\ Tail(rx) \in Seq(Wire) /\ Len(Tail(rx)) = Len(rx) - 1 /\ Len(rx) \in Nat
        /\ \A j \in 1 .. Len(rx) - 1 : Tail(rx)[j] = rx[j + 1]
    BY QueueTail
  <1>2. PICK q : q = Tail(rx)
    OBVIOUS
  <1>3. /\ Tail(q) \in Seq(Wire) /\ Len(Tail(q)) = Len(q) - 1
        /\ \A j \in 1 .. Len(q) - 1 : Tail(q)[j] = q[j + 1]
    <2>1. q \in Seq(Wire) /\ Len(q) = Len(rx) - 1
      BY <1>1, <1>2
    <2>2. Len(q) # 0
      BY <1>1, <2>1
    <2>3. q # <<>>
      BY <2>1, <2>2
    <2>. QED BY <2>1, <2>3, QueueTail
  <1>. QED BY <1>1, <1>2, <1>3

(* A frame that is valid is the next one of the answer.                    *)
LEMMA TakesTheNext ==
    ASSUME NEW w \in Drivers, holder = w, WireOK, DriversOK, StreamOK, GotOK, CanRead(w), Valid(w)
    PROVE  /\ rx[1] = Chunk(Current(w).dev, Current(w).reg, Len(got) + 1, 1)
           /\ Own(rx[1]) /\ Own(rx[2])
           /\ Rank(rx[1]) = 2 * Len(got) + 1 /\ Rank(rx[2]) = 2 * Len(got) + 2
  <1>1. rx[1] \in Wire /\ rx[2] \in Wire /\ 1 \in 1 .. Len(rx) /\ Len(got) \in Nat
    BY DropsTwo DEF CanRead, WireOK, GotOK
  <1>2. /\ rx[1].half = 1 /\ rx[1].dev = Current(w).dev
        /\ w = Daly => rx[1].reg = Current(w).reg
        /\ rx[2] = [rx[1] EXCEPT !.half = 2]
    BY DEF Valid, Parses
  <1>3. /\ rx[2].dev = rx[1].dev /\ rx[2].reg = rx[1].reg /\ rx[2].frame = rx[1].frame
        /\ rx[2].half = 2
    BY <1>1, <1>2 DEF Wire
  <1>4. Own(rx[1]) /\ Own(rx[2])
    BY <1>2, <1>3 DEF Own
  <1>5. /\ rx[1].fresh /\ rx[1].reg = Current(w).reg /\ Rank(rx[1]) > 2 * Len(got)
        /\ ~(Rank(rx[1]) > 2 * Len(got) + 1)
    <2>1. 1 .. 1 - 1 = {}
      OBVIOUS
    <2>. QED BY <1>1, <1>4, <2>1 DEF StreamOK, Stream
  <1>6. Rank(rx[1]) = 2 * Len(got) + 1 /\ rx[1].frame = Len(got) + 1
    BY <1>1, <1>2, <1>5 DEF Rank, Wire
  <1>7. rx[1] = [dev |-> rx[1].dev, reg |-> rx[1].reg, frame |-> rx[1].frame,
                 half |-> rx[1].half, fresh |-> rx[1].fresh]
    BY <1>1 DEF Wire
  <1>8. rx[1].fresh = TRUE
    BY <1>1, <1>5 DEF Wire
  <1>9. rx[1] = Chunk(Current(w).dev, Current(w).reg, Len(got) + 1, 1)
    BY <1>2, <1>5, <1>6, <1>7, <1>8 DEF Chunk
  <1>10. Rank(rx[2]) = 2 * Len(got) + 2
    BY <1>1, <1>3, <1>6 DEF Rank, Wire
  <1>. QED BY <1>4, <1>6, <1>9, <1>10

(* StreamOK after a step of the one who holds the lock, or of the wire.    *)
LEMMA StreamIs ==
    ASSUME NEW h, NEW p, NEW y, h = Len(got'), p = rx', y = air', UNCHANGED <<holder, step>>,
           Stream(h, p, y)
    PROVE  StreamOK'
  <1>1. Current(holder)' = Current(holder)
    BY DEF Current
  <1>. QED BY <1>1 DEF StreamOK, Stream, Own

(* What is left of the buffer when its first two chunks are read: either   *)
(* they are the next frame, or neither is of the answer.                   *)
LEMMA ReadsOn ==
    ASSUME WireOK, StreamOK, Len(rx) >= 2, got \in Seq(Wire), got' \in Seq(Wire),
           rx' = Tail(Tail(rx)), UNCHANGED <<air, holder, step>>,
           \/ ~Own(rx[1]) /\ ~Own(rx[2]) /\ got' = got
           \/ /\ Own(rx[1]) /\ Own(rx[2]) /\ Len(got') = Len(got) + 1
              /\ Rank(rx[1]) = 2 * Len(got) + 1 /\ Rank(rx[2]) = 2 * Len(got) + 2
    PROVE  StreamOK'
  <1>1. PICK g, h, q, p, y : g = Len(got) /\ h = Len(got') /\ q = rx /\ p = rx' /\ y = air
    OBVIOUS
  <1>2. /\ g \in Nat /\ h \in Nat /\ Len(q) \in Nat /\ q \in Seq(Wire)
        /\ Len(p) = Len(q) - 2 /\ \A j \in 1 .. Len(p) : p[j] = q[j + 2]
        /\ Len(y) \in Nat /\ Len(q) >= 2
        /\ \A j \in 1 .. Len(q) : Rank(q[j]) \in Int
        /\ \A i \in 1 .. Len(y) : Rank(y[i].chunks[1]) \in Int
    <2>1. rx \in Seq(Wire) /\ air \in Seq(Entries)
      BY DEF WireOK
    <2>2. \A c \in Wire : Rank(c) \in Int
      BY DEF Wire, Rank
    <2>3. \A i \in 1 .. Len(air) : air[i].chunks \in Seq(Wire) /\ air[i].chunks # <<>>
      <3>1. TAKE i \in 1 .. Len(air)
      <3>2. air[i] \in Entries /\ Pieces(air[i])
        BY <2>1 DEF WireOK
      <3>. QED BY <3>2 DEF Entries, Pieces
    <2>4. \A i \in 1 .. Len(air) : air[i].chunks[1] \in Wire
      <3>1. TAKE i \in 1 .. Len(air)
      <3>2. PICK r : r = air[i].chunks
        OBVIOUS
      <3>3. r \in Seq(Wire) /\ r # <<>>
        BY <2>3, <3>2
      <3>4. r[1] \in Wire
        BY <3>3
      <3>. QED BY <3>2, <3>4
    <2>5. q \in Seq(Wire) /\ Len(q) \in Nat /\ Len(q) >= 2 /\ g \in Nat /\ h \in Nat
          /\ Len(y) \in Nat
      BY <1>1, <2>1
    <2>6. Len(p) = Len(q) - 2 /\ \A j \in 1 .. Len(q) - 2 : p[j] = q[j + 2]
      BY <1>1, <2>1, DropsTwo
    <2>7. \A j \in 1 .. Len(q) : Rank(q[j]) \in Int
      BY <2>2, <2>5
    <2>8. \A i \in 1 .. Len(y) : Rank(y[i].chunks[1]) \in Int
      BY <1>1, <2>2, <2>4
    <2>. QED BY <2>5, <2>6, <2>7, <2>8
  <1>21. /\ Len(p) = Len(q) - 2 /\ Len(q) \in Nat /\ Len(q) >= 2
         /\ \A j \in 1 .. Len(p) : p[j] = q[j + 2]
    BY <1>2
  <1>3. \A c : Own(c)' <=> Own(c)
    BY DEF Own, Current
  <1>4. Current(holder)'.reg = Current(holder).reg
    BY DEF Current
  <1>5. /\ \A j \in 1 .. Len(q) : Own(q[j]) => Rank(q[j]) > 2 * g
        /\ \A j, k \in 1 .. Len(q) : Own(q[j]) /\ Own(q[k]) /\ j < k => Rank(q[j]) < Rank(q[k])
    BY <1>1 DEF StreamOK, Stream
  <1>6. \/ h = g /\ ~Own(q[1]) /\ ~Own(q[2])
        \/ h = g + 1 /\ Own(q[1]) /\ Own(q[2]) /\ Rank(q[1]) = 2 * g + 1 /\ Rank(q[2]) = 2 * g + 2
    <2>1. CASE ~Own(rx[1]) /\ ~Own(rx[2]) /\ got' = got
      <3>1. h = g
        BY <1>1, <2>1
      <3>2. rx[1] = q[1] /\ rx[2] = q[2]
        BY <1>1
      <3>3. ~Own(q[1]) /\ ~Own(q[2])
        BY <2>1, <3>2
      <3>. QED BY <3>1, <3>3
    <2>2. CASE /\ Own(rx[1]) /\ Own(rx[2]) /\ Len(got') = Len(got) + 1
               /\ Rank(rx[1]) = 2 * Len(got) + 1 /\ Rank(rx[2]) = 2 * Len(got) + 2
      <3>1. h = g + 1
        BY <1>1, <2>2
      <3>. QED BY <1>1, <2>2, <3>1
    <2>. QED BY <2>1, <2>2
  <1>7. ASSUME NEW k \in 1 .. Len(q), Own(q[k]), Rank(q[k]) > 2 * h
        PROVE  k - 2 \in 1 .. Len(p) /\ p[k - 2] = q[k]
    <2>1. k # 1 /\ k # 2
      BY <1>2, <1>6, <1>7
    <2>2. k \in Nat /\ k - 2 \in 1 .. Len(p) /\ (k - 2) + 2 = k
      BY <1>21, <1>7, <2>1
    <2>. QED BY <1>21, <2>2
  <1>8. ASSUME NEW j \in 1 .. Len(p), Own(p[j])
        PROVE  /\ p[j].fresh /\ p[j].reg = Current(holder).reg
               /\ Rank(p[j]) > 2 * h
               /\ \A k \in 1 .. Len(p) : Own(p[k]) /\ j < k => Rank(p[j]) < Rank(p[k])
               /\ \A i \in 1 .. Len(y) :
                     Own(y[i].chunks[1]) => Rank(p[j]) < Rank(y[i].chunks[1])
               /\ Rank(p[j]) > 2 * h + 1 =>
                     \E k \in 1 .. j - 1 : Own(p[k]) /\ Rank(p[k]) = Rank(p[j]) - 1
    <2>1. j + 2 \in 1 .. Len(q) /\ p[j] = q[j + 2] /\ j \in Nat
      BY <1>21
    <2>2. p[j].fresh /\ p[j].reg = Current(holder).reg
      BY <1>1, <1>8, <2>1 DEF StreamOK, Stream
    <2>3. Rank(p[j]) > 2 * h
      <3>1. 2 \in 1 .. Len(q) /\ 2 < j + 2
        BY <1>2, <2>1
      <3>2. /\ Rank(q[j + 2]) > 2 * g /\ Rank(q[j + 2]) \in Int
            /\ Own(q[2]) => Rank(q[2]) < Rank(q[j + 2])
        BY <1>2, <1>5, <1>8, <2>1, <3>1
      <3>. QED BY <1>2, <1>6, <2>1, <3>2
    <2>4. ASSUME NEW k \in 1 .. Len(p), Own(p[k]), j < k PROVE Rank(p[j]) < Rank(p[k])
      <3>1. k + 2 \in 1 .. Len(q) /\ p[k] = q[k + 2] /\ j + 2 < k + 2
        BY <1>21, <2>1, <2>4
      <3>. QED BY <1>5, <1>8, <2>1, <2>4, <3>1
    <2>5. \A i \in 1 .. Len(y) : Own(y[i].chunks[1]) => Rank(p[j]) < Rank(y[i].chunks[1])
      BY <1>1, <1>8, <2>1 DEF StreamOK, Stream
    <2>6. ASSUME Rank(p[j]) > 2 * h + 1
          PROVE  \E k \in 1 .. j - 1 : Own(p[k]) /\ Rank(p[k]) = Rank(p[j]) - 1
      <3>1. Rank(q[j + 2]) > 2 * g + 1
        <4>1. h >= g /\ Rank(q[j + 2]) \in Int
          BY <1>2, <1>6, <2>1
        <4>. QED BY <1>2, <2>1, <2>6, <4>1
      <3>2. PICK k \in 1 .. (j + 2) - 1 : Own(q[k]) /\ Rank(q[k]) = Rank(q[j + 2]) - 1
        BY <1>1, <1>8, <2>1, <3>1 DEF StreamOK, Stream
      <3>3. k \in 1 .. Len(q) /\ Rank(q[k]) > 2 * h
        <4>1. Rank(q[j + 2]) \in Int /\ h \in Nat
          BY <1>2, <2>1
        <4>. QED BY <1>21, <2>1, <2>6, <3>2, <4>1
      <3>4. k - 2 \in 1 .. Len(p) /\ p[k - 2] = q[k]
        BY <1>7, <3>2, <3>3
      <3>5. k - 2 \in 1 .. j - 1
        BY <2>1, <3>2, <3>4
      <3>. QED BY <2>1, <3>2, <3>4, <3>5
    <2>. QED BY <2>2, <2>3, <2>4, <2>5, <2>6
  <1>9. ASSUME NEW i \in 1 .. Len(y), Own(y[i].chunks[1])
        PROVE  /\ Rank(y[i].chunks[1]) > 2 * h
               /\ Rank(y[i].chunks[1]) > 2 * h + 1 =>
                    \E k \in 1 .. Len(p) : Own(p[k]) /\ Rank(p[k]) = Rank(y[i].chunks[1]) - 1
    <2>1. /\ Rank(y[i].chunks[1]) > 2 * g
          /\ Rank(y[i].chunks[1]) > 2 * g + 1 =>
                \E k \in 1 .. Len(q) : Own(q[k]) /\ Rank(q[k]) = Rank(y[i].chunks[1]) - 1
      BY <1>1, <1>9 DEF StreamOK, Stream
    <2>2. 2 \in 1 .. Len(q)
      BY <1>2
    <2>3. Own(q[2]) => Rank(q[2]) < Rank(y[i].chunks[1])
      BY <1>1, <1>9, <2>2 DEF StreamOK, Stream
    <2>4. Rank(y[i].chunks[1]) > 2 * h
      BY <1>2, <1>6, <2>1, <2>2, <2>3
    <2>5. ASSUME Rank(y[i].chunks[1]) > 2 * h + 1
          PROVE  \E k \in 1 .. Len(p) : Own(p[k]) /\ Rank(p[k]) = Rank(y[i].chunks[1]) - 1
      <3>1. Rank(y[i].chunks[1]) > 2 * g + 1
        BY <1>2, <1>6, <2>5
      <3>2. PICK k \in 1 .. Len(q) : Own(q[k]) /\ Rank(q[k]) = Rank(y[i].chunks[1]) - 1
        BY <2>1, <3>1
      <3>3. Rank(q[k]) > 2 * h
        BY <1>2, <2>5, <3>2
      <3>. QED BY <1>7, <3>2, <3>3
    <2>. QED BY <2>4, <2>5
  <1>10. \A i, k \in 1 .. Len(y) :
            Own(y[i].chunks[1]) /\ Own(y[k].chunks[1]) => i = k
    BY <1>1 DEF StreamOK, Stream
  <1>11. Stream(h, p, y)
    BY <1>8, <1>9, <1>10 DEF Stream
  <1>. QED BY <1>1, <1>11, StreamIs

-----------------------------------------------------------------------------
(* What arrives.                                                           *)

WithoutAt(q, s, i) ==
    /\ Len(q) = Len(s) - 1
    /\ \A j \in 1 .. Len(s) - 1 : q[j] = IF j < i THEN s[j] ELSE s[j + 1]

LEMMA Removed ==
    ASSUME NEW S, NEW s \in Seq(S), NEW i \in 1 .. Len(s), NEW q, q = RemoveAt(s, i)
    PROVE  q \in Seq(S) /\ WithoutAt(q, s, i)
  <1> DEFINE f == SubSeq(s, 1, i - 1)
             g == SubSeq(s, i + 1, Len(s))
  <1>1. Len(s) \in Nat /\ i \in Nat /\ i - 1 \in Nat
    OBVIOUS
  <1>2. f \in Seq(S) /\ Len(f) = i - 1 /\ \A j \in 1 .. i - 1 : f[j] = s[j]
    OBVIOUS
  <1>3. g \in Seq(S) /\ Len(g) = Len(s) - i /\ \A j \in 1 .. Len(s) - i : g[j] = s[j + i]
    BY QueueSuffix
  <1>4. q = f \o g
    BY DEF RemoveAt
  <1> HIDE DEF f, g
  <1>5. /\ q \in Seq(S) /\ Len(q) = Len(f) + Len(g)
        /\ \A j \in 1 .. Len(f) + Len(g) : q[j] = IF j <= Len(f) THEN f[j] ELSE g[j - Len(f)]
    <2>1. f \in Seq(S) /\ g \in Seq(S)
      BY <1>2, <1>3
    <2>2. /\ f \o g \in Seq(S) /\ Len(f \o g) = Len(f) + Len(g)
          /\ \A j \in 1 .. Len(f) + Len(g) :
                (f \o g)[j] = IF j <= Len(f) THEN f[j] ELSE g[j - Len(f)]
      BY <2>1, ConcatProperties
    <2>. QED BY <1>4, <2>2
  <1>6. Len(q) = Len(s) - 1
    BY <1>1, <1>2, <1>3, <1>5
  <1>7. ASSUME NEW j \in 1 .. Len(s) - 1 PROVE q[j] = IF j < i THEN s[j] ELSE s[j + 1]
    <2>1. CASE j < i
      <3>1. j \in 1 .. i - 1 /\ j <= Len(f) /\ j \in 1 .. Len(f) + Len(g)
        BY <1>1, <1>2, <1>3, <2>1
      <3>2. q[j] = f[j] /\ f[j] = s[j]
        BY <1>2, <1>5, <3>1
      <3>. QED BY <2>1, <3>2
    <2>2. CASE ~(j < i)
      <3>1. q[j] = g[j - (i - 1)]
        <4>1. j \in 1 .. Len(f) + Len(g) /\ ~(j <= Len(f)) /\ Len(f) = i - 1
          BY <1>1, <1>2, <1>3, <2>2
        <4>2. q[j] = g[j - Len(f)]
          BY <1>5, <4>1
        <4>. QED BY <4>1, <4>2
      <3>2. j - (i - 1) \in 1 .. Len(s) - i /\ (j - (i - 1)) + i = j + 1
        BY <1>1, <2>2
      <3>3. g[j - (i - 1)] = s[j + 1]
        BY <1>3, <3>2
      <3>. QED BY <2>2, <3>1, <3>3
    <2>. QED BY <2>1, <2>2
  <1>. QED BY <1>1, <1>5, <1>6, <1>7 DEF WithoutAt

(* b is answer a, as old and no nearer.                                    *)
Alike(b, a) == /\ b \in Entries /\ Pieces(b) /\ b.age = a.age /\ b.limit = a.limit
               /\ b.chunks[1].dev = a.chunks[1].dev /\ b.chunks[1].reg = a.chunks[1].reg
               /\ b.chunks[1].fresh = a.chunks[1].fresh

LEMMA EntryIs ==
    ASSUME NEW p \in Seq(Wire), NEW n \in Nat, NEW l \in {Turnaround, Latest}
    PROVE  [chunks |-> p, age |-> n, limit |-> l] \in Entries
  BY DEF Entries

LEMMA OneLess ==
    ASSUME NEW a \in Entries, Pieces(a), Len(a.chunks) # 1, NEW b,
           b = [a EXCEPT !.chunks = Tail(a.chunks)]
    PROVE  Alike(b, a) /\ Rank(b.chunks[1]) = Rank(a.chunks[1]) + 1
  <1>1. PICK q : q = a.chunks
    OBVIOUS
  <1>2. q \in Seq(Wire) /\ Len(q) \in Nat /\ Len(q) >= 2
    <2>1. q \in Seq(Wire) /\ q # <<>> /\ Len(q) # 1
      BY <1>1 DEF Entries, Pieces
    <2>2. Len(q) \in Nat \ {0}
      BY <2>1, QueueTail
    <2>3. PICK n : n = Len(q)
      OBVIOUS
    <2>4. n \in Nat /\ n >= 2
      BY <2>1, <2>2, <2>3
    <2>. QED BY <2>1, <2>3, <2>4
  <1>3. /\ b = [chunks |-> Tail(q), age |-> a.age, limit |-> a.limit]
        /\ a.age \in Nat /\ a.limit \in {Turnaround, Latest} /\ a.age <= a.limit
    BY <1>1 DEF Entries, Pieces
  <1>4. PICK p : p = Tail(q)
    OBVIOUS
  <1>5. /\ p \in Seq(Wire) /\ Len(p) = Len(q) - 1
        /\ \A k \in 1 .. Len(p) : p[k] = q[k + 1]
    <2>1. q # <<>>
      BY <1>2
    <2>. QED BY <1>2, <1>4, <2>1, QueueTail
  <1>6. b \in Entries /\ b.chunks = p /\ b.age = a.age /\ b.limit = a.limit
    <2>1. b = [chunks |-> p, age |-> a.age, limit |-> a.limit]
      BY <1>3, <1>4
    <2>2. p \in Seq(Wire) /\ a.age \in Nat /\ a.limit \in {Turnaround, Latest}
      BY <1>3, <1>5
    <2>3. b \in Entries
      <3>1. PICK n, l : n = a.age /\ l = a.limit
        OBVIOUS
      <3>2. n \in Nat /\ l \in {Turnaround, Latest} /\ b = [chunks |-> p, age |-> n, limit |-> l]
        BY <2>1, <2>2, <3>1
      <3>3. [chunks |-> p, age |-> n, limit |-> l] \in Entries
        BY <2>2, <3>2, EntryIs
      <3>. QED BY <3>2, <3>3
    <2>. QED BY <2>1, <2>3
  <1>7. \A k \in 1 .. Len(q) :
           /\ q[k].dev = q[1].dev /\ q[k].reg = q[1].reg /\ q[k].fresh = q[1].fresh
           /\ Rank(q[k]) = Rank(q[1]) + k - 1
    BY <1>1 DEF Pieces
  <1>8. Rank(q[1]) \in Int
    <2>1. q[1] \in Wire
      BY <1>2
    <2>. QED BY <2>1 DEF Wire, Rank
  <1>9. \A k \in 1 .. Len(p) :
           /\ p[k].dev = q[1].dev /\ p[k].reg = q[1].reg /\ p[k].fresh = q[1].fresh
           /\ Rank(p[k]) = Rank(q[1]) + k
    <2>1. TAKE k \in 1 .. Len(p)
    <2>2. k + 1 \in 1 .. Len(q) /\ p[k] = q[k + 1] /\ k \in Nat
      BY <1>2, <1>5
    <2>. QED BY <1>7, <1>8, <2>2
  <1>10. 1 \in 1 .. Len(p) /\ Len(p) \in Nat
    BY <1>2, <1>5
  <1>11. \A k \in 1 .. Len(p) :
           /\ p[k].dev = p[1].dev /\ p[k].reg = p[1].reg /\ p[k].fresh = p[1].fresh
           /\ Rank(p[k]) = Rank(p[1]) + k - 1
    BY <1>8, <1>9, <1>10
  <1>12. Pieces(b)
    <2>1. p # <<>>
      BY <1>5, <1>10
    <2>. QED BY <1>3, <1>6, <1>11, <2>1 DEF Pieces
  <1>. QED BY <1>1, <1>6, <1>9, <1>10, <1>12, ZenonT(40) DEF Alike

LEMMA StaysAlike ==
    ASSUME NEW a, NEW b, Alike(b, a), Separated(a), LongEnough(a), Asked(a),
           UNCHANGED <<holder, waited, step, attempt, pause>>
    PROVE  Separated(b)' /\ LongEnough(b)' /\ Asked(b)'
  BY DEF Alike, Separated, LongEnough, Asked, Confusable, Current

(* What the holder would take for its answer has been asked for by it.     *)
LEMMA OwnIsAsked ==
    ASSUME NEW a, Separated(a), Asked(a), Own(a.chunks[1]), holder \in Drivers, DriversOK
    PROVE  a.chunks[1].fresh /\ a.chunks[1].reg = Current(holder).reg
  <1>1. /\ step[holder] \in 1 .. Len(Program[holder]) /\ step[holder] <= step[holder]
        /\ holder # Nobody
    BY BusNumbers DEF DriversOK
  <1>2. Confusable(holder, a)
    BY <1>1 DEF Confusable, Own, Current
  <1>3. a.chunks[1].fresh
    BY <1>2 DEF Separated
  <1>. QED BY <1>1, <1>3 DEF Asked, Own

LEMMA ArrivesInPlace ==
    ASSUME WireOK, DriversOK, AirOK, holder # Nobody => StreamOK /\ GotOK, Arrives
    PROVE  WireOK' /\ DriversOK' /\ AirOK' /\ (holder' # Nobody => StreamOK')
  <1>1. PICK i \in DOMAIN air :
           /\ rx' = Append(rx, Head(air[i].chunks))
           /\ air' = IF Len(air[i].chunks) = 1 THEN RemoveAt(air, i)
                     ELSE [air EXCEPT ![i].chunks = Tail(air[i].chunks)]
           /\ UNCHANGED <<envVars, handle, transVars, driverVars, outVars>>
    BY DEF Arrives
  <1>2. PICK x, y, q, p, h : x = air /\ y = air' /\ q = rx /\ p = rx' /\ h = Len(got)
    OBVIOUS
  <1>3. /\ x \in Seq(Entries) /\ Len(x) \in Nat /\ DOMAIN x = 1 .. Len(x) /\ i \in 1 .. Len(x)
        /\ q \in Seq(Wire) /\ Len(q) \in Nat
        /\ \A k \in 1 .. Len(x) : x[k] \in Entries /\ Pieces(x[k])
    BY <1>2 DEF WireOK
  <1>4. PICK a, c : a = x[i] /\ c = a.chunks[1]
    OBVIOUS
  <1>5. a \in Entries /\ Pieces(a) /\ a.chunks \in Seq(Wire) /\ a.chunks # <<>>
    BY <1>3, <1>4 DEF Entries, Pieces
  <1>6. c = Head(a.chunks) /\ c \in Wire
    <2>1. PICK r : r = a.chunks
      OBVIOUS
    <2>2. r \in Seq(Wire) /\ r # <<>>
      BY <1>5, <2>1
    <2>3. r[1] = Head(r) /\ r[1] \in Wire
      BY <2>2
    <2>. QED BY <1>4, <2>1, <2>3
  <1>7. /\ p = Append(q, c) /\ p \in Seq(Wire) /\ Len(p) = Len(q) + 1 /\ p[Len(q) + 1] = c
        /\ \A k \in 1 .. Len(q) : p[k] = q[k]
    <2>1. p = Append(q, c)
      BY <1>1, <1>2, <1>4, <1>6
    <2>. QED BY <1>3, <1>6, <2>1, QueueAppend
  (* Each answer of y is one of x, or what is left of a. *)
  <1> DEFINE From(j, k) == \/ k # i /\ y[j] = x[k]
                           \/ k = i /\ j = i /\ Alike(y[j], a) /\ Rank(y[j].chunks[1]) = Rank(c) + 1
             f == [j \in 1 .. Len(y) |-> IF Len(a.chunks) = 1 /\ i <= j THEN j + 1 ELSE j]
  <1>8. /\ y \in Seq(Entries) /\ Len(y) \in Nat
        /\ \A j \in 1 .. Len(y) : f[j] \in 1 .. Len(x) /\ From(j, f[j])
    <2>1. CASE Len(a.chunks) = 1
      <3>1. y = RemoveAt(x, i)
        BY <1>1, <1>2, <1>4, <2>1
      <3>2. /\ y \in Seq(Entries) /\ Len(y) = Len(x) - 1
            /\ \A j \in 1 .. Len(x) - 1 : y[j] = IF j < i THEN x[j] ELSE x[j + 1]
        <4>1. y \in Seq(Entries) /\ WithoutAt(y, x, i)
          BY <1>3, <3>1, Removed
        <4>. QED BY <4>1 DEF WithoutAt
      <3>3. ASSUME NEW j \in 1 .. Len(y)
            PROVE  f[j] \in 1 .. Len(x) /\ f[j] # i /\ y[j] = x[f[j]]
        <4>1. CASE j < i
          <5>1. f[j] = j
            BY <1>3, <3>2, <4>1
          <5>. QED BY <1>3, <3>2, <4>1, <5>1
        <4>2. CASE ~(j < i)
          <5>1. f[j] = j + 1
            BY <1>3, <2>1, <3>2, <4>2
          <5>. QED BY <1>3, <3>2, <4>2, <5>1
        <4>. QED BY <4>1, <4>2
      <3>. QED BY <1>3, <3>2, <3>3
    <2>2. CASE Len(a.chunks) # 1
      <3>1. PICK b : b = [a EXCEPT !.chunks = Tail(a.chunks)]
        OBVIOUS
      <3>2. Alike(b, a) /\ Rank(b.chunks[1]) = Rank(c) + 1
        BY <1>4, <1>5, <2>2, <3>1, OneLess
      <3>3. y = [x EXCEPT ![i] = b]
        <4>1. y = [x EXCEPT ![i].chunks = Tail(x[i].chunks)]
          BY <1>1, <1>2, <1>4, <2>2
        <4>. QED BY <1>4, <3>1, <4>1
      <3>4. b \in Entries
        BY <3>2 DEF Alike
      <3>5. /\ y \in Seq(Entries) /\ Len(y) = Len(x) /\ y[i] = b
            /\ \A j \in 1 .. Len(x) : j # i => y[j] = x[j]
        BY <1>3, <3>3, <3>4
      <3>6. ASSUME NEW j \in 1 .. Len(y) PROVE f[j] = j
        BY <2>2, <3>6
      <3>. QED BY <1>3, <3>2, <3>5, <3>6
    <2>. QED BY <2>1, <2>2
  <1>9. \A j, k \in 1 .. Len(y) : f[j] = f[k] => j = k
    <2>1. \A j \in 1 .. Len(y) : f[j] = IF Len(a.chunks) = 1 /\ i <= j THEN j + 1 ELSE j
      OBVIOUS
    <2> HIDE DEF f
    <2>. QED BY <1>3, <1>8, <2>1
  <1> HIDE DEF f
  <1>10. \A j \in 1 .. Len(y) : Alike(y[j], x[f[j]])
    <2>1. TAKE j \in 1 .. Len(y)
    <2>2. CASE y[j] = x[f[j]]
      BY <1>3, <1>8, <2>2 DEF Alike
    <2>3. CASE f[j] = i /\ Alike(y[j], a)
      BY <1>4, <2>3
    <2>. QED BY <1>8, <2>2, <2>3
  <1>11. \A k \in 1 .. Len(x) : Separated(x[k]) /\ LongEnough(x[k]) /\ Asked(x[k])
    BY <1>2 DEF AirOK
  <1>12. AirOK'
    <2>1. ASSUME NEW j \in 1 .. Len(y) PROVE Separated(y[j])' /\ LongEnough(y[j])' /\ Asked(y[j])'
      <3>1. PICK b, e : b = y[j] /\ e = x[f[j]]
        OBVIOUS
      <3>2. Alike(b, e) /\ Separated(e) /\ LongEnough(e) /\ Asked(e)
        BY <1>8, <1>10, <1>11, <3>1
      <3>3. Separated(b)' /\ LongEnough(b)' /\ Asked(b)'
        BY <1>1, <3>2, StaysAlike DEF transVars, driverVars
      <3>. QED BY <3>1, <3>3
    <2>. QED BY <1>2, <2>1, AirIs
  <1>13. WireOK'
    <2>1. \A j \in 1 .. Len(y) : Pieces(y[j])
      BY <1>10 DEF Alike
    <2>2. handle
      <3>1. air # <<>>
        BY <1>2, <1>3
      <3>. QED BY <3>1 DEF WireOK
    <2>. QED BY <1>1, <1>2, <1>7, <1>8, <2>1, <2>2 DEF WireOK
  <1>14. DriversOK'
    BY <1>1 DEF DriversOK, transVars, driverVars
  <1>15. ASSUME holder # Nobody PROVE StreamOK'
    <2>1. holder \in Drivers /\ Stream(h, q, x)
      BY <1>2, <1>15 DEF DriversOK, StreamOK
    <2>2. /\ \A j \in 1 .. Len(y) : Own(y[j].chunks[1]) <=> Own(x[f[j]].chunks[1])
      BY <1>10 DEF Own, Alike
    <2>3. Own(c) => c.fresh /\ c.reg = Current(holder).reg
      BY <1>3, <1>4, <1>11, <2>1, OwnIsAsked
    <2>4. \A j, k \in 1 .. Len(y) : Own(y[j].chunks[1]) /\ Own(y[k].chunks[1]) => j = k
      <3>1. SUFFICES ASSUME NEW j \in 1 .. Len(y), NEW k \in 1 .. Len(y),
                            Own(y[j].chunks[1]), Own(y[k].chunks[1])
                     PROVE  f[j] = f[k]
        BY <1>9
      <3>. QED BY <1>8, <2>1, <2>2, <3>1 DEF Stream
    <2>5. \A k \in 1 .. Len(x) : Rank(x[k].chunks[1]) \in Int
      <3>1. \A e \in Wire : Rank(e) \in Int
        BY DEF Wire, Rank
      <3>2. ASSUME NEW k \in 1 .. Len(x) PROVE x[k].chunks[1] \in Wire
        <4>1. PICK r : r = x[k].chunks
          OBVIOUS
        <4>2. r \in Seq(Wire) /\ r # <<>>
          BY <1>3, <4>1 DEF Entries, Pieces
        <4>3. Head(r) \in Wire /\ Head(r) = r[1]
          BY <4>2, QueueTail
        <4>. QED BY <4>1, <4>3
      <3>. QED BY <3>1, <3>2
    <2>6. \A j \in 1 .. Len(q) : Rank(q[j]) \in Int
      <3>1. \A e \in Wire : Rank(e) \in Int
        BY DEF Wire, Rank
      <3>. QED BY <1>3, <3>1
    <2>7. Rank(c) \in Int
      BY <1>3, <1>4, <2>5
    <2>8. ASSUME Own(c)
          PROVE  /\ c.fresh /\ c.reg = Current(holder).reg /\ Rank(c) > 2 * h
                 /\ \A j \in 1 .. Len(q) : Own(q[j]) => Rank(q[j]) < Rank(c)
                 /\ Rank(c) > 2 * h + 1 =>
                      \E k \in 1 .. Len(q) : Own(q[k]) /\ Rank(q[k]) = Rank(c) - 1
                 /\ \A j \in 1 .. Len(y) : Own(y[j].chunks[1]) =>
                        Rank(y[j].chunks[1]) = Rank(c) + 1
      <3>1. Own(x[i].chunks[1]) /\ c = x[i].chunks[1]
        BY <1>4, <2>8
      <3>2. \A j \in 1 .. Len(y) : Own(y[j].chunks[1]) => f[j] = i
        BY <1>3, <1>8, <2>1, <2>2, <3>1 DEF Stream
      <3>3. \A j \in 1 .. Len(y) : Own(y[j].chunks[1]) => Rank(y[j].chunks[1]) = Rank(c) + 1
        BY <1>8, <3>2
      <3>4. \A j \in 1 .. Len(q) : Own(q[j]) => Rank(q[j]) < Rank(c)
        BY <1>3, <2>1, <3>1 DEF Stream
      <3>5. Rank(c) > 2 * h /\ (Rank(c) > 2 * h + 1 =>
               \E k \in 1 .. Len(q) : Own(q[k]) /\ Rank(q[k]) = Rank(c) - 1)
        BY <1>3, <2>1, <3>1 DEF Stream
      <3>. QED BY <2>3, <2>8, <3>3, <3>4, <3>5
    <2>9. ASSUME NEW j \in 1 .. Len(q), Own(q[j])
          PROVE  /\ q[j].fresh /\ q[j].reg = Current(holder).reg /\ Rank(q[j]) > 2 * h
                 /\ \A k \in 1 .. Len(q) : Own(q[k]) /\ j < k => Rank(q[j]) < Rank(q[k])
                 /\ \A k \in 1 .. Len(x) : Own(x[k].chunks[1]) => Rank(q[j]) < Rank(x[k].chunks[1])
                 /\ Rank(q[j]) > 2 * h + 1 =>
                      \E k \in 1 .. j - 1 : Own(q[k]) /\ Rank(q[k]) = Rank(q[j]) - 1
      BY <2>1, <2>9 DEF Stream
    <2>10. ASSUME ~Own(c), NEW j \in 1 .. Len(y), Own(y[j].chunks[1])
           PROVE  f[j] \in 1 .. Len(x) /\ y[j] = x[f[j]] /\ Own(x[f[j]].chunks[1])
      BY <1>4, <1>8, <2>2, <2>10
    <2>11. ASSUME NEW j \in 1 .. Len(p), Own(p[j])
           PROVE  /\ p[j].fresh /\ p[j].reg = Current(holder).reg /\ Rank(p[j]) > 2 * h
                  /\ \A k \in 1 .. Len(p) : Own(p[k]) /\ j < k => Rank(p[j]) < Rank(p[k])
                  /\ \A k \in 1 .. Len(y) : Own(y[k].chunks[1]) => Rank(p[j]) < Rank(y[k].chunks[1])
                  /\ Rank(p[j]) > 2 * h + 1 =>
                       \E k \in 1 .. j - 1 : Own(p[k]) /\ Rank(p[k]) = Rank(p[j]) - 1
      <3>1. CASE j = Len(q) + 1
        <4>1. p[j] = c /\ Own(c)
          BY <1>7, <2>11, <3>1
        <4>2. \A k \in 1 .. Len(p) : ~(j < k)
          BY <1>3, <1>7, <3>1
        <4>3. \A k \in 1 .. Len(y) : Own(y[k].chunks[1]) => Rank(p[j]) < Rank(y[k].chunks[1])
          BY <2>7, <2>8, <4>1
        <4>4. ASSUME Rank(p[j]) > 2 * h + 1
              PROVE  \E k \in 1 .. j - 1 : Own(p[k]) /\ Rank(p[k]) = Rank(p[j]) - 1
          <5>1. PICK k \in 1 .. Len(q) : Own(q[k]) /\ Rank(q[k]) = Rank(c) - 1
            BY <2>8, <4>1, <4>4
          <5>2. k \in 1 .. j - 1 /\ p[k] = q[k]
            BY <1>3, <1>7, <3>1
          <5>. QED BY <4>1, <5>1, <5>2
        <4>. QED BY <2>8, <4>1, <4>2, <4>3, <4>4
      <3>2. CASE j \in 1 .. Len(q)
        <4>1. p[j] = q[j] /\ Own(q[j])
          BY <1>7, <2>11, <3>2
        <4>2. ASSUME NEW k \in 1 .. Len(p), Own(p[k]), j < k PROVE Rank(p[j]) < Rank(p[k])
          <5>1. CASE k = Len(q) + 1
            <6>1. p[k] = c /\ Own(c)
              BY <1>7, <4>2, <5>1
            <6>. QED BY <2>8, <3>2, <4>1, <6>1
          <5>2. CASE k \in 1 .. Len(q)
            <6>1. p[k] = q[k]
              BY <1>7, <5>2
            <6>. QED BY <2>9, <3>2, <4>1, <4>2, <5>2, <6>1
          <5>. QED BY <1>3, <1>7, <5>1, <5>2
        <4>3. ASSUME NEW k \in 1 .. Len(y), Own(y[k].chunks[1])
              PROVE  Rank(p[j]) < Rank(y[k].chunks[1])
          <5>1. CASE Own(c)
            <6>1. Rank(q[j]) < Rank(c) /\ Rank(y[k].chunks[1]) = Rank(c) + 1
              BY <2>8, <3>2, <4>1, <4>3, <5>1
            <6>. QED BY <2>6, <2>7, <3>2, <4>1, <6>1
          <5>2. CASE ~Own(c)
            BY <2>9, <2>10, <3>2, <4>1, <4>3, <5>2
          <5>. QED BY <5>1, <5>2
        <4>4. ASSUME Rank(p[j]) > 2 * h + 1
              PROVE  \E k \in 1 .. j - 1 : Own(p[k]) /\ Rank(p[k]) = Rank(p[j]) - 1
          <5>1. PICK k \in 1 .. j - 1 : Own(q[k]) /\ Rank(q[k]) = Rank(q[j]) - 1
            BY <2>9, <3>2, <4>1, <4>4
          <5>2. p[k] = q[k]
            BY <1>3, <1>7, <3>2
          <5>. QED BY <4>1, <5>1, <5>2
        <4>. QED BY <2>9, <3>2, <4>1, <4>2, <4>3, <4>4
      <3>3. j = Len(q) + 1 \/ j \in 1 .. Len(q)
        BY <1>3, <1>7
      <3>. QED BY <3>1, <3>2, <3>3
    <2>12. ASSUME NEW j \in 1 .. Len(y), Own(y[j].chunks[1])
           PROVE  /\ Rank(y[j].chunks[1]) > 2 * h
                  /\ Rank(y[j].chunks[1]) > 2 * h + 1 =>
                       \E k \in 1 .. Len(p) : Own(p[k]) /\ Rank(p[k]) = Rank(y[j].chunks[1]) - 1
      <3>1. CASE Own(c)
        <4>1. Rank(y[j].chunks[1]) = Rank(c) + 1 /\ Rank(c) > 2 * h /\ h \in Int
          BY <1>2, <1>15, <2>8, <2>12, <3>1 DEF GotOK
        <4>2. Len(q) + 1 \in 1 .. Len(p) /\ p[Len(q) + 1] = c
          BY <1>3, <1>7
        <4>3. Rank(y[j].chunks[1]) > 2 * h /\ Rank(c) = Rank(y[j].chunks[1]) - 1
          BY <2>7, <4>1
        <4>. QED BY <3>1, <4>2, <4>3
      <3>2. CASE ~Own(c)
        <4>1. f[j] \in 1 .. Len(x) /\ y[j] = x[f[j]] /\ Own(x[f[j]].chunks[1])
          BY <2>10, <2>12, <3>2
        <4>2. /\ Rank(y[j].chunks[1]) > 2 * h
              /\ Rank(y[j].chunks[1]) > 2 * h + 1 =>
                   \E k \in 1 .. Len(q) : Own(q[k]) /\ Rank(q[k]) = Rank(y[j].chunks[1]) - 1
          BY <2>1, <4>1 DEF Stream
        <4>3. \A k \in 1 .. Len(q) : k \in 1 .. Len(p) /\ p[k] = q[k]
          BY <1>3, <1>7
        <4>. QED BY <4>2, <4>3
      <3>. QED BY <3>1, <3>2
    <2>13. Stream(h, p, y)
      BY <2>4, <2>11, <2>12 DEF Stream
    <2>14. UNCHANGED <<holder, step>> /\ h = Len(got')
      BY <1>1, <1>2 DEF transVars, driverVars
    <2>. QED BY <1>2, <2>13, <2>14, StreamIs
  <1>. QED BY <1>1, <1>12, <1>13, <1>14, <1>15 DEF transVars

-----------------------------------------------------------------------------
(* Time: an answer and the pause of a driver move together.                *)

LEMMA Ages ==
    ASSUME NEW a \in Entries, Pieces(a), Separated(a), LongEnough(a), Asked(a), a.age < a.limit,
           Placed, waited \in Nat,
           UNCHANGED <<holder, step, attempt>>,
           pause' = [w \in Drivers |-> IF pause[w] = 0 THEN 0 ELSE pause[w] - 1],
           waited' = IF holder = Nobody THEN 0 ELSE waited + 1,
           NEW b, b = [a EXCEPT !.age = @ + 1]
    PROVE  b \in Entries /\ Pieces(b) /\ b.chunks = a.chunks /\ Separated(b)' /\ LongEnough(b)' /\ Asked(b)'
  <1>1. PICK q, n, l : q = a.chunks /\ n = a.age /\ l = a.limit
    OBVIOUS
  <1>2. q \in Seq(Wire) /\ n \in Nat /\ l \in {Turnaround, Latest} /\ l \in Nat /\ n < l
    BY <1>1, BusNumbers DEF Entries
  <1>3. b = [chunks |-> q, age |-> n + 1, limit |-> l]
    BY <1>1 DEF Entries
  <1>4. b \in Entries /\ b.chunks = q /\ b.age = n + 1 /\ b.limit = l
    <2>1. n + 1 \in Nat
      BY <1>2
    <2>2. b \in Entries
      BY <1>2, <1>3, <2>1, EntryIs, ZenonT(40)
    <2>. QED BY <1>3, <2>2
  <1>5. Pieces(b)
    BY <1>1, <1>2, <1>4 DEF Pieces
  <1>6. \A v \in Drivers : pause[v] \in Nat /\ pause'[v] = IF pause[v] = 0 THEN 0 ELSE pause[v] - 1
    BY DEF Placed
  <1>7. \A v \in Drivers : Confusable(v, b)' <=> Confusable(v, a)
    BY <1>1, <1>4 DEF Confusable, Current
  <1>8. Separated(b)'
    <2>1. ASSUME NEW v \in Drivers, Confusable(v, b)'
          PROVE  IF holder' = v THEN b.chunks[1].fresh ELSE b.age + pause'[v] >= b.limit
      <3>1. IF holder = v THEN q[1].fresh ELSE n + pause[v] >= l
        BY <1>1, <1>7, <2>1 DEF Separated
      <3>2. n + pause[v] >= l => (n + 1) + pause'[v] >= l
        BY <1>2, <1>6
      <3>. QED BY <1>4, <3>1, <3>2
    <2>. QED BY <2>1 DEF Separated
  <1>9. LongEnough(b)'
    <2>1. Turnaround \in Nat
      BY BusNumbers
    <2>2. CASE holder = Nobody
      <3>1. n >= Turnaround
        BY <1>1, <2>2 DEF LongEnough
      <3>2. n + 1 >= Turnaround
        BY <1>2, <2>1, <3>1
      <3>. QED BY <1>4, <2>2, <3>2 DEF LongEnough
    <2>3. CASE holder # Nobody /\ q[1].fresh
      <3>1. n >= waited
        BY <1>1, <2>3 DEF LongEnough
      <3>2. n + 1 >= waited'
        BY <1>2, <2>3, <3>1
      <3>. QED BY <1>4, <2>3, <3>2 DEF LongEnough
    <2>4. CASE holder # Nobody /\ ~q[1].fresh
      <3>1. (n >= Turnaround + waited \/ n >= 2 * Turnaround) /\ l = Latest
        BY <1>1, <2>4 DEF LongEnough
      <3>2. n + 1 >= Turnaround + waited' \/ n + 1 >= 2 * Turnaround
        BY <1>2, <2>1, <2>4, <3>1
      <3>. QED BY <1>4, <2>4, <3>1, <3>2 DEF LongEnough
    <2>. QED BY <2>2, <2>3, <2>4
  <1>10. Asked(b)'
    BY <1>1, <1>4 DEF Asked, Current
  <1>. QED BY <1>1, <1>4, <1>5, <1>8, <1>9, <1>10

LEMMA Ticks ==
    ASSUME WireOK, DriversOK, AirOK, holder # Nobody => StreamOK /\ GotOK, Tick
    PROVE  /\ WireOK' /\ DriversOK' /\ AirOK' /\ (holder' # Nobody => StreamOK' /\ GotOK')
  <1>1. /\ \A i \in DOMAIN air : air[i].age < air[i].limit
        /\ air' = [i \in DOMAIN air |-> [air[i] EXCEPT !.age = @ + 1]]
        /\ waited' = IF holder = Nobody THEN 0 ELSE waited + 1
        /\ pause' = [w \in Drivers |-> IF pause[w] = 0 THEN 0 ELSE pause[w] - 1]
        /\ UNCHANGED <<handle, rx, holder, second, got, step, attempt, backoff>>
        /\ holder # Nobody => waited < WindowEnd
    BY DEF Tick
  <1>2. PICK x, y : x = air /\ y = air'
    OBVIOUS
  <1>3. Placed /\ waited \in Nat
    BY DriversPlaced
  <1>4. x \in Seq(Entries) /\ DOMAIN x = 1 .. Len(x) /\ Len(x) \in Nat
    BY <1>2 DEF WireOK
  <1>5. \A i \in 1 .. Len(x) : y[i] = [x[i] EXCEPT !.age = @ + 1]
    BY <1>1, <1>2, <1>4
  <1>6. ASSUME NEW i \in 1 .. Len(x), NEW a, NEW b, a = x[i], b = y[i]
        PROVE  b \in Entries /\ Pieces(b) /\ b.chunks = a.chunks
               /\ Separated(b)' /\ LongEnough(b)' /\ Asked(b)'
    <2>1. a \in Entries /\ Pieces(a) /\ Separated(a) /\ LongEnough(a) /\ Asked(a) /\ a.age < a.limit
      BY <1>1, <1>2, <1>4, <1>6 DEF WireOK, AirOK
    <2>2. b = [a EXCEPT !.age = @ + 1]
      BY <1>5, <1>6
    <2>. QED BY <1>1, <1>3, <2>1, <2>2, Ages
  <1>7. \A i \in 1 .. Len(x) :
           y[i] \in Entries /\ Pieces(y[i]) /\ y[i].chunks = x[i].chunks
           /\ Separated(y[i])' /\ LongEnough(y[i])' /\ Asked(y[i])'
    BY <1>6
  <1>8. y \in Seq(Entries) /\ Len(y) = Len(x)
    <2>1. DOMAIN y = 1 .. Len(x) /\ y = [i \in 1 .. Len(x) |-> y[i]]
      BY <1>1, <1>2, <1>4
    <2>2. y \in [1 .. Len(x) -> Entries]
      BY <1>7, <2>1
    <2>. QED BY <1>4, <2>2
  <1>9. WireOK'
    <2>1. ~handle => y = <<>>
      <3>1. ~handle => Len(y) = 0
        BY <1>2, <1>8 DEF WireOK
      <3>. QED BY <1>8, <3>1, EmptySeq
    <2>. QED BY <1>1, <1>2, <1>7, <1>8, <2>1 DEF WireOK
  <1>10. DriversOK'
    <2>1. waited' \in 0 .. WindowEnd
      BY <1>1, <1>3, BusNumbers DEF WindowEnd
    <2>2. pause' \in [Drivers -> Nat]
      BY <1>1 DEF DriversOK
    <2>. QED BY <1>1, <2>1, <2>2 DEF DriversOK
  <1>11. AirOK'
    BY <1>2, <1>7, <1>8, AirIs
  <1>12. ASSUME holder # Nobody PROVE StreamOK' /\ GotOK'
    <2>1. PICK h, q : h = Len(got) /\ q = rx
      OBVIOUS
    <2>2. Stream(h, q, x)
      BY <1>2, <1>12, <2>1 DEF StreamOK
    <2>3. Stream(h, q, y)
      BY <1>7, <1>8, <2>2, ZenonT(40) DEF Stream
    <2>4. StreamOK'
      BY <1>1, <1>2, <2>1, <2>3, StreamIs
    <2>5. GotOK'
      BY <1>1, <1>12 DEF GotOK, Current
    <2>. QED BY <2>4, <2>5
  <1>. QED BY <1>1, <1>9, <1>10, <1>11, <1>12

-----------------------------------------------------------------------------
(* What a driver accepts.                                                  *)

LEMMA WaitsAgain ==
    ASSUME WireOK, DriversOK, AirOK, holder # Nobody, waited >= Turnaround, waited' = Turnaround,
           UNCHANGED <<air, holder, step, attempt, pause, backoff>>
    PROVE  DriversOK' /\ AirOK'
  <1>1. waited' \in 0 .. WindowEnd /\ waited' <= waited /\ waited \in Nat
    BY DriversPlaced, BusNumbers DEF WindowEnd
  <1>2. DriversOK'
    BY <1>1 DEF DriversOK
  <1>3. \A w, a : Confusable(w, a)' <=> Confusable(w, a)
    BY DEF Confusable, Current
  <1>4. PICK y : y = air
    OBVIOUS
  <1>5. ASSUME NEW i \in 1 .. Len(y), NEW a, a = y[i]
        PROVE  Separated(a)' /\ LongEnough(a)' /\ Asked(a)'
    <2>1. Separated(a) /\ LongEnough(a) /\ Asked(a) /\ a \in Entries
      BY <1>4, <1>5 DEF AirOK, WireOK
    <2>2. Separated(a)'
      BY <1>3, <2>1 DEF Separated
    <2>3. Asked(a)'
      BY <2>1 DEF Asked, Current
    <2>4. LongEnough(a)'
      <3>1. a.age \in Nat /\ Turnaround \in Nat
        BY <2>1, BusNumbers DEF Entries
      <3>. QED BY <1>1, <2>1, <3>1 DEF LongEnough
    <2>. QED BY <2>2, <2>3, <2>4
  <1>6. \A i \in 1 .. Len(y) : Separated(y[i])' /\ LongEnough(y[i])' /\ Asked(y[i])'
    BY <1>5
  <1>7. AirOK'
    BY <1>4, <1>6, AirIs
  <1>. QED BY <1>2, <1>7

LEMMA ReadsValid ==
    ASSUME NEW w \in Drivers, BusInv, ReadValid(w)
    PROVE  BusInv'
  <1>1. /\ WireOK /\ DriversOK /\ AirOK /\ StreamOK /\ GotOK /\ holder = w /\ w # Nobody
        /\ CanRead(w) /\ Valid(w) /\ rx' = Tail(Tail(rx)) /\ UNCHANGED <<envVars, handle, air>>
        /\ Len(rx) >= 2 /\ waited >= Turnaround
    BY BusNumbers DEF BusInv, ReadValid, CanRead
  <1>2. /\ rx[1] = Chunk(Current(w).dev, Current(w).reg, Len(got) + 1, 1)
        /\ Own(rx[1]) /\ Own(rx[2])
        /\ Rank(rx[1]) = 2 * Len(got) + 1 /\ Rank(rx[2]) = 2 * Len(got) + 2
    BY <1>1, TakesTheNext
  <1>3. rx' \in Seq(Wire) /\ rx[1] \in Wire
    BY <1>1, DropsTwo DEF WireOK
  <1>4. handle
    <2>1. SUFFICES ASSUME ~handle PROVE FALSE
      OBVIOUS
    <2>2. rx = <<>>
      BY <1>1, <2>1 DEF WireOK
    <2>. QED BY <1>1, <2>2
  <1>5. /\ got \in Seq(Wire) /\ Len(got) \in Nat
        /\ \A i \in 1 .. Len(got) : got[i] = Chunk(Current(w).dev, Current(w).reg, i, 1)
    BY <1>1 DEF GotOK
  <1>6. PICK g : g = Append(got, rx[1])
    OBVIOUS
  <1>7. /\ g \in Seq(Wire) /\ Len(g) = Len(got) + 1
        /\ \A i \in 1 .. Len(g) : g[i] = Chunk(Current(w).dev, Current(w).reg, i, 1)
    <2>1. /\ g \in Seq(Wire) /\ Len(g) = Len(got) + 1 /\ g[Len(got) + 1] = rx[1]
          /\ \A i \in 1 .. Len(got) : g[i] = got[i]
          /\ \A i \in 1 .. Len(g) : i \in 1 .. Len(got) \/ i = Len(got) + 1
      BY <1>3, <1>5, <1>6, QueueAppend
    <2>2. \A i \in 1 .. Len(g) : g[i] = Chunk(Current(w).dev, Current(w).reg, i, 1)
      BY <1>2, <1>5, <2>1
    <2>. QED BY <2>1, <2>2
  <1>8. CASE Len(got) + 1 = Current(w).frames
    <2>1. /\ accepted' = [dev |-> Current(w).dev, reg |-> Current(w).reg, frames |-> g]
          /\ Release /\ Advance(w)
      BY <1>6, <1>8 DEF ReadValid
    <2>2. WireOK' /\ DriversOK' /\ AirOK' /\ holder' = Nobody
      BY <1>1, <1>3, <1>4, <2>1, Ends
    <2>3. AnswersRequest'
      <3>1. DOMAIN g = 1 .. Len(g)
        BY <1>7
      <3>. QED BY <1>7, <2>1, <3>1 DEF AnswersRequest
    <2>. QED BY <2>2, <2>3 DEF BusInv
  <1>9. CASE Len(got) + 1 # Current(w).frames
    <2>1. /\ got' = g /\ waited' = Turnaround
          /\ UNCHANGED <<holder, second, driverVars, outVars>>
      BY <1>6, <1>9 DEF ReadValid
    <2>2. WireOK'
      BY <1>1, <1>3, <1>4 DEF WireOK
    <2>3. DriversOK' /\ AirOK'
      BY <1>1, <2>1, WaitsAgain DEF driverVars
    <2>4. StreamOK'
      BY <1>1, <1>2, <1>5, <1>7, <2>1, ReadsOn DEF driverVars
    <2>5. GotOK'
      BY <1>1, <1>7, <2>1 DEF GotOK, Current, driverVars
    <2>6. AnswersRequest'
      BY <2>1 DEF BusInv, AnswersRequest, outVars
    <2>. QED BY <2>2, <2>3, <2>4, <2>5, <2>6 DEF BusInv
  <1>. QED BY <1>8, <1>9

LEMMA ReadsOther ==
    ASSUME NEW w \in Drivers, BusInv, ReadOther(w)
    PROVE  BusInv'
  <1>1. /\ WireOK /\ DriversOK /\ AirOK /\ StreamOK /\ GotOK /\ holder = w /\ w # Nobody
        /\ rx' = Tail(Tail(rx)) /\ waited' = Turnaround /\ Len(rx) >= 2 /\ waited >= Turnaround
        /\ UNCHANGED <<handle, air, holder, got, driverVars, outVars>>
        /\ Parses /\ rx[1].dev # Current(w).dev
    BY BusNumbers DEF BusInv, ReadOther, CanRead, TriesSecond
  <1>2. rx' \in Seq(Wire) /\ rx[1] \in Wire
    BY <1>1, DropsTwo DEF WireOK
  <1>3. handle
    <2>1. SUFFICES ASSUME ~handle PROVE FALSE
      OBVIOUS
    <2>2. rx = <<>>
      BY <1>1, <2>1 DEF WireOK
    <2>. QED BY <1>1, <2>2
  <1>4. WireOK'
    BY <1>1, <1>2, <1>3 DEF WireOK
  <1>5. DriversOK' /\ AirOK'
    BY <1>1, WaitsAgain DEF driverVars
  <1>6. ~Own(rx[1]) /\ ~Own(rx[2])
    <2>1. rx[2].dev = rx[1].dev
      BY <1>1, <1>2 DEF Parses, Wire
    <2>. QED BY <1>1, <2>1 DEF Own
  <1>7. StreamOK'
    <2>1. got \in Seq(Wire) /\ got' \in Seq(Wire) /\ got' = got
      BY <1>1 DEF GotOK
    <2>. QED BY <1>1, <1>6, <2>1, ReadsOn DEF driverVars
  <1>8. GotOK' /\ AnswersRequest'
    BY <1>1 DEF GotOK, Current, driverVars, BusInv, AnswersRequest, outVars
  <1>. QED BY <1>1, <1>4, <1>5, <1>7, <1>8 DEF BusInv

-----------------------------------------------------------------------------
LEMMA BusKeeps ==
    ASSUME BusInv, [BusNext]_busVars
    PROVE  BusInv'
  <1>1. /\ WireOK /\ DriversOK /\ AirOK /\ AnswersRequest /\ (holder # Nobody => StreamOK /\ GotOK)
        /\ Placed /\ waited \in Nat /\ Nobody \notin Drivers
        /\ Turnaround \in Nat /\ Turnaround <= WindowEnd
    BY DriversPlaced, BusNumbers DEF BusInv, WindowEnd
  <1>2. ASSUME NEW w \in Drivers, Begin(w) PROVE BusInv'
    <2>1. AnswersRequest'
      BY <1>2 DEF Begin, NoAnswer, AnswersRequest
    <2>2. CASE handle
      <3>1. WireOK' /\ DriversOK' /\ AirOK' /\ StreamOK' /\ GotOK'
        BY <1>1, <1>2, <2>2, Transmits
      <3>. QED BY <2>1, <3>1 DEF BusInv
    <2>3. CASE ~handle
      <3>1. PortFails(w) /\ UNCHANGED <<air, rx, transVars>> /\ UNCHANGED handle
        BY <1>2, <2>3 DEF Begin
      <3>2. holder' = Nobody
        BY <1>2, <3>1 DEF Begin, Ready, transVars
      <3>3. WireOK' /\ AirOK' /\ DriversOK'
        <4>1. waited' \in 0 .. WindowEnd /\ UNCHANGED portVars
          BY <1>1, <3>1 DEF DriversOK, transVars, portVars
        <4>. QED BY <1>1, <1>2, <2>3, <3>1, <3>2, <4>1, PortGone
      <3>. QED BY <2>1, <3>2, <3>3 DEF BusInv
    <2>. QED BY <2>2, <2>3
  <1>3. ASSUME NEW w \in Drivers, ReadValid(w) PROVE BusInv'
    BY <1>3, ReadsValid
  <1>4. ASSUME NEW w \in Drivers, ReadOther(w) PROVE BusInv'
    BY <1>4, ReadsOther
  <1>5. ASSUME NEW w \in Drivers, ReadInvalid(w) PROVE BusInv'
    <2>1. /\ holder = w /\ Turnaround <= waited /\ Release /\ Fails(w) /\ Len(rx) >= 2
          /\ UNCHANGED <<handle, air>> /\ UNCHANGED accepted
          /\ rx' = <<>> \/ rx' = Tail(Tail(rx))
      BY <1>5 DEF ReadInvalid, CanRead, Flushed
    <2>2. rx' \in Seq(Wire)
      <3>1. <<>> \in Seq(Wire) /\ rx \in Seq(Wire)
        BY <1>1 DEF WireOK
      <3>. QED BY <2>1, <3>1, DropsTwo
    <2>3. handle
      <3>1. SUFFICES ASSUME ~handle PROVE FALSE
        OBVIOUS
      <3>2. rx = <<>>
        BY <1>1, <3>1 DEF WireOK
      <3>. QED BY <2>1, <3>2
    <2>4. WireOK' /\ DriversOK' /\ AirOK' /\ holder' = Nobody
      BY <1>1, <1>5, <2>1, <2>2, <2>3, Ends
    <2>. QED BY <1>1, <2>1, <2>4 DEF BusInv, AnswersRequest
  <1>6. ASSUME NEW w \in Drivers, TimesOut(w) PROVE BusInv'
    <2>1. /\ holder = w /\ Turnaround <= waited /\ Release /\ Fails(w) /\ handle
          /\ UNCHANGED <<handle, air>> /\ UNCHANGED accepted /\ rx' = <<>>
      BY <1>1, <1>6 DEF TimesOut
    <2>2. rx' \in Seq(Wire)
      BY <2>1
    <2>3. WireOK' /\ DriversOK' /\ AirOK' /\ holder' = Nobody
      BY <1>1, <1>6, <2>1, <2>2, Ends
    <2>. QED BY <1>1, <2>1, <2>3 DEF BusInv, AnswersRequest
  <1>7. ASSUME NEW w \in Drivers, ReadFails(w) PROVE BusInv'
    <2>1. /\ ~handle /\ Release /\ (Fails(w) \/ PortFails(w)) /\ UNCHANGED portVars
          /\ UNCHANGED accepted /\ holder' = Nobody /\ waited' = 0
      BY <1>7 DEF ReadFails, Release
    <2>2. WireOK' /\ DriversOK' /\ AirOK'
      <3>1. waited' \in 0 .. WindowEnd
        BY <2>1, BusNumbers DEF WindowEnd
      <3>. QED BY <1>1, <1>7, <2>1, <3>1, PortGone
    <2>. QED BY <1>1, <2>1, <2>2 DEF BusInv, AnswersRequest
  <1>8. ASSUME Arrives PROVE BusInv'
    <2>1. UNCHANGED <<transVars, driverVars, outVars>>
      BY <1>8 DEF Arrives
    <2>2. WireOK' /\ DriversOK' /\ AirOK' /\ (holder' # Nobody => StreamOK')
      BY <1>1, <1>8, ArrivesInPlace
    <2>3. holder' # Nobody => GotOK'
      BY <1>1, <2>1 DEF GotOK, Current, transVars, driverVars
    <2>4. AnswersRequest'
      BY <1>1, <2>1 DEF AnswersRequest, outVars
    <2>. QED BY <2>2, <2>3, <2>4 DEF BusInv
  <1>9. ASSUME Tick PROVE BusInv'
    <2>1. AnswersRequest'
      BY <1>1, <1>9 DEF AnswersRequest, Tick
    <2>2. WireOK' /\ DriversOK' /\ AirOK' /\ (holder' # Nobody => StreamOK' /\ GotOK')
      BY <1>1, <1>9, Ticks
    <2>. QED BY <2>1, <2>2 DEF BusInv
  <1>10. ASSUME Reopen PROVE BusInv'
    <2>1. /\ holder = Nobody /\ UNCHANGED <<air, transVars, step, attempt, pause, outVars>>
          /\ \/ handle' = TRUE /\ backoff' = BackoffInitial /\ rx' = <<>>
             \/ UNCHANGED <<handle, backoff, rx>>
      BY <1>10 DEF Reopen
    <2>2. WireOK'
      <3>1. CASE handle' = TRUE /\ rx' = <<>>
        <4>1. rx' \in Seq(Wire) /\ handle' \in BOOLEAN
          BY <3>1
        <4>. QED BY <1>1, <2>1, <3>1, <4>1 DEF WireOK
      <3>2. CASE UNCHANGED <<handle, rx>>
        BY <1>1, <2>1, <3>2 DEF WireOK
      <3>. QED BY <2>1, <3>1, <3>2
    <2>3. DriversOK'
      BY <1>1, <2>1, BusNumbers DEF DriversOK, transVars
    <2>4. AirOK'
      BY <1>1, <2>1 DEF AirOK, Separated, LongEnough, Asked, Confusable, Current, transVars
    <2>5. AnswersRequest' /\ holder' = Nobody
      BY <1>1, <2>1 DEF AnswersRequest, outVars, transVars
    <2>. QED BY <2>2, <2>3, <2>4, <2>5 DEF BusInv
  <1>11. ASSUME Unplug PROVE BusInv'
    <2>1. /\ handle' = FALSE /\ air' = <<>> /\ rx' = <<>>
          /\ UNCHANGED <<transVars, driverVars, outVars>>
      BY <1>11 DEF Unplug
    <2>2. WireOK' /\ AirOK'
      <3>1. rx' \in Seq(Wire)
        BY <2>1
      <3>2. air' \in Seq(Entries) /\ Len(air') = 0
        BY <2>1
      <3>3. handle' \in BOOLEAN
        BY <2>1, Zenon
      <3>. QED BY <2>1, <3>1, <3>2, <3>3 DEF WireOK, AirOK
    <2>3. DriversOK'
      BY <1>1, <2>1 DEF DriversOK, transVars, driverVars
    <2>4. AnswersRequest'
      BY <1>1, <2>1 DEF AnswersRequest, outVars
    <2>5. ASSUME holder' # Nobody PROVE StreamOK' /\ GotOK'
      <3>1. UNCHANGED <<holder, step, got>>
        BY <2>1 DEF transVars, driverVars
      <3>2. GotOK'
        BY <1>1, <2>5, <3>1 DEF GotOK, Current
      <3>3. PICK h : h = Len(got)
        OBVIOUS
      <3>4. Stream(h, <<>>, <<>>)
        BY DEF Stream
      <3>5. StreamOK'
        BY <2>1, <3>1, <3>3, <3>4, StreamIs
      <3>. QED BY <3>2, <3>5
    <2>. QED BY <2>2, <2>3, <2>4, <2>5 DEF BusInv
  <1>12. ASSUME UNCHANGED <<portVars, transVars, driverVars, outVars>> PROVE BusInv'
    <2>1. WireOK' /\ DriversOK'
      BY <1>1, <1>12 DEF WireOK, DriversOK, portVars, transVars, driverVars
    <2>2. AirOK'
      BY <1>1, <1>12 DEF AirOK, Separated, LongEnough, Asked, Confusable, Current,
                         portVars, transVars, driverVars
    <2>3. AnswersRequest'
      BY <1>1, <1>12 DEF AnswersRequest, outVars
    <2>4. ASSUME holder' # Nobody PROVE StreamOK' /\ GotOK'
      <3>1. UNCHANGED <<holder, step, got, rx, air>>
        BY <1>12 DEF transVars, driverVars, portVars
      <3>2. GotOK'
        BY <1>1, <2>4, <3>1 DEF GotOK, Current
      <3>3. PICK h, q, y : h = Len(got) /\ q = rx /\ y = air
        OBVIOUS
      <3>4. Stream(h, q, y)
        BY <1>1, <2>4, <3>1, <3>3 DEF StreamOK
      <3>5. StreamOK'
        BY <3>1, <3>3, <3>4, StreamIs
      <3>. QED BY <3>2, <3>5
    <2>. QED BY <2>1, <2>2, <2>3, <2>4 DEF BusInv
  <1>13. CASE Plug \/ CalmsDown \/ UNCHANGED busVars
    BY <1>12, <1>13 DEF Plug, CalmsDown, busVars
  <1>14. CASE \E w \in Drivers : Driver(w)
    BY <1>2, <1>3, <1>4, <1>5, <1>6, <1>7, <1>14 DEF Driver
  <1>. QED BY <1>8, <1>9, <1>10, <1>11, <1>13, <1>14 DEF BusNext

(* What a driver accepts is the answer to what it asked.                   *)
THEOREM AlwaysAnswersRequest == BusSpec => []AnswersRequest
  <1>1. BusInit => BusInv
    <2>1. SUFFICES ASSUME BusInit PROVE BusInv
      OBVIOUS
    <2>2. WireOK /\ AirOK
      BY <2>1 DEF BusInit, WireOK, AirOK
    <2>3. DriversOK
      <3>1. \A w \in Drivers : 1 \in 1 .. Len(Program[w])
        BY StepsRead
      <3>2. 0 \in 0 .. WindowEnd
        BY BusNumbers DEF WindowEnd
      <3>. QED BY <2>1, <3>1, <3>2, BusNumbers DEF BusInit, DriversOK
    <2>4. AnswersRequest
      BY <2>1 DEF BusInit, AnswersRequest, NoAnswer
    <2>. QED BY <2>1, <2>2, <2>3, <2>4 DEF BusInit, BusInv
  <1>2. BusInv => AnswersRequest
    BY DEF BusInv
  <1>. QED BY <1>1, <1>2, BusKeeps, PTL DEF BusSpec
=============================================================================
