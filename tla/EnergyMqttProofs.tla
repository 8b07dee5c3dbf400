-------------------------- MODULE EnergyMqttProofs ---------------------------
(***************************************************************************)
(* The MQTT path of energy-manager, for every value of the constants: the  *)
(* tasks around rumqttc keep the promise of AppBus, and over that promise  *)
(* the retained copy of the relay state is the last one decided.           *)
(***************************************************************************)
EXTENDS MCEnergyMqtt, SiftingProofs

(* The last message of q about the relay state says on.                    *)
LastStateIs(q, on) ==
    \E k \in 1 .. Len(q) :
        /\ q[k].to = "state" /\ q[k].on = on
        /\ \A j \in 1 .. Len(q) : j > k => q[j].to # "state"

(* The newest word about the relay state is relayOn, wherever it is: with  *)
(* the task, in the queue, or with the broker.                             *)
NewestIs(calls, q, kept, on) ==
    /\ \A k \in 1 .. Len(calls) : calls[k].to = "state" => calls[k].on = on
    /\ ~StateOnItsWay(calls) =>
          IF StateOnItsWay(q) THEN LastStateIs(q, on) ELSE Restored(kept) = on

PersistInv ==
    /\ ~running => sends = <<>> /\ ~StateOnItsWay(outQ)
    /\ running /\ ~stateLost => NewestIs(sends, outQ, retained, relayOn)

-----------------------------------------------------------------------------
(* Lemmas about the messages of a call.                                    *)

LEMMA ListOfSet ==
    ASSUME NEW S, IsFiniteSet(S)
    PROVE  Cardinality(S) \in Nat /\ SetToSeq(S) \in [1 .. Cardinality(S) -> S]
  BY ListingExists DEF SetToSeq

LEMMA ShellyMessages ==
    ASSUME NEW on \in BOOLEAN
    PROVE  /\ SendShelly(on) \in Seq(RelayMessages)
           /\ Len(SendShelly(on)) = Cardinality(Channels)
           /\ Cardinality(Channels) \in Nat
           /\ \A k \in 1 .. Len(SendShelly(on)) : SendShelly(on)[k].to = "shelly"
  <1> DEFINE n == Cardinality(Channels)
  <1>1. PICK f \in [1 .. n -> Channels] : f = SetToSeq(Channels)
    BY ListOfSet, RelayAssumption
  <1>2. n \in Nat
    BY ListOfSet, RelayAssumption
  <1>3. f \in Seq(Channels) /\ Len(f) = n
    BY <1>2
  <1>4. SendShelly(on) = [k \in 1 .. n |-> Switch(f[k], on)]
    BY <1>1, <1>3 DEF SendShelly
  <1>5. \A k \in 1 .. n : Switch(f[k], on) \in RelayMessages /\ Switch(f[k], on).to = "shelly"
    BY DEF Switch, RelayMessages
  <1> HIDE DEF n
  <1>. QED BY <1>2, <1>4, <1>5 DEF n

LEMMA StateMessages ==
    ASSUME NEW on \in BOOLEAN
    PROVE  /\ Persist(on) \in RelayMessages /\ Telemetry \in RelayMessages
           /\ Persist(on).to = "state" /\ Persist(on).on = on
           /\ Telemetry.to = "other"
           /\ Restored(StateName(on)) = on
  BY DEF RelayMessages, Persist, Telemetry, Restored, StateName
-----------------------------------------------------------------------------
(* Type correctness of the relay half.                                     *)

LEMMA PublishType ==
    ASSUME BusTypeOK, NEW m \in RelayMessages, Publish(m)
    PROVE  BusTypeOK'
  <1>1. CASE Accepted(m)
    <2>1. Append(outQ, m) \in Seq(Messages) /\ Len(Append(outQ, m)) = Len(outQ) + 1
      BY MessagesAssumption DEF BusTypeOK
    <2>. QED BY <1>1, <2>1, BusAssumption DEF Accepted, BusTypeOK
  <1>2. CASE Dropped(m)
    BY <1>2 DEF Dropped, busVars, BusTypeOK
  <1>. QED BY <1>1, <1>2 DEF Publish

LEMMA LeftTypes ==
    ASSUME NEW l, NEW a \in Nat, NEW b \in Nat, NEW c \in Nat,
           l \in [changes : 0..a, crashes : 0..b, shelly : 0..c]
    PROVE  /\ l.changes > 0 => [l EXCEPT !.changes = @ - 1]
                                   \in [changes : 0..a, crashes : 0..b, shelly : 0..c]
           /\ l.crashes > 0 => [l EXCEPT !.crashes = @ - 1]
                                   \in [changes : 0..a, crashes : 0..b, shelly : 0..c]
           /\ l.shelly > 0 => [l EXCEPT !.shelly = @ - 1]
                                   \in [changes : 0..a, crashes : 0..b, shelly : 0..c]
  <1>1. l.changes \in 0..a /\ l.crashes \in 0..b /\ l.shelly \in 0..c
    OBVIOUS
  <1>2. /\ l.changes > 0 => l.changes - 1 \in 0..a
        /\ l.crashes > 0 => l.crashes - 1 \in 0..b
        /\ l.shelly > 0 => l.shelly - 1 \in 0..c
    BY <1>1
  <1>3. l.changes > 0 => [l EXCEPT !.changes = @ - 1]
                                   \in [changes : 0..a, crashes : 0..b, shelly : 0..c]
    BY <1>2
  <1>4. l.crashes > 0 => [l EXCEPT !.crashes = @ - 1]
                                   \in [changes : 0..a, crashes : 0..b, shelly : 0..c]
    BY <1>2
  <1>5. l.shelly > 0 => [l EXCEPT !.shelly = @ - 1]
                                   \in [changes : 0..a, crashes : 0..b, shelly : 0..c]
    BY <1>2
  <1>. QED BY <1>3, <1>4, <1>5

LEMMA RelayTypes == ASSUME TypeOK, [Next]_vars PROVE TypeOK'
  <1>0. /\ MaxChanges \in Nat /\ MaxCrashes \in Nat /\ MaxShelly \in Nat
        /\ MaxOutages \in Nat /\ Capacity \in Nat /\ Cardinality(Channels) \in Nat
    BY RelayAssumption, BusAssumption, ListOfSet
  <1>1. CASE RetainedArrives
    BY <1>1 DEF RetainedArrives, TypeOK, BusTypeOK, busVars, worldVars, NoState
  <1>2. CASE Start
    BY <1>2 DEF Start, TypeOK, BusTypeOK, busVars, worldVars, Restored
  <1>3. CASE Change
    <2>1. relayOn' \in BOOLEAN
      BY <1>3 DEF Change, TypeOK
    <2>2. PICK calls : calls = SendShelly(relayOn')
      OBVIOUS
    <2>3. calls \in Seq(RelayMessages) /\ Len(calls) = Cardinality(Channels)
      BY <2>1, <2>2, ShellyMessages
    <2>4. PICK last \in RelayMessages : last = Persist(relayOn')
      BY <2>1, StateMessages
    <2>5. sends' = Append(calls, last)
      BY <1>3, <2>2, <2>4 DEF Change
    <2>6. sends' \in Seq(RelayMessages) /\ Len(sends') <= Cardinality(Channels) + 1
      BY <2>3, <2>5, <1>0
    <2>7. left' \in [changes : 0..MaxChanges, crashes : 0..MaxCrashes, shelly : 0..MaxShelly]
      BY <1>3, <1>0, LeftTypes DEF Change, TypeOK
    <2>. QED BY <1>3, <2>1, <2>6, <2>7 DEF Change, TypeOK, BusTypeOK, busVars, worldVars
  <1>4. CASE Resync
    <2>1. sends' \in Seq(RelayMessages) /\ Len(sends') <= Cardinality(Channels) + 1
      BY <1>4, <1>0, ShellyMessages DEF Resync, TypeOK
    <2>. QED BY <1>4, <2>1 DEF Resync, TypeOK, BusTypeOK, busVars, worldVars
  <1>5. CASE TrySend
    <2>1. Head(sends) \in RelayMessages
      BY <1>5 DEF TrySend, TypeOK
    <2>2. BusTypeOK'
      BY <1>5, <2>1, PublishType DEF TrySend, TypeOK
    <2>3. Tail(sends) \in Seq(RelayMessages) /\ Len(Tail(sends)) <= Cardinality(Channels) + 1
      BY <1>5, <1>0 DEF TrySend, TypeOK
    <2>4. stateLost' \in BOOLEAN
      BY <1>5 DEF TrySend
    <2>. QED BY <1>5, <2>2, <2>3, <2>4 DEF TrySend, TypeOK, worldVars
  <1>6. CASE OthersPublish
    <2>1. Publish(Telemetry) /\ Telemetry \in RelayMessages
      BY <1>6, StateMessages DEF OthersPublish, Publish
    <2>2. BusTypeOK'
      BY <2>1, PublishType DEF TypeOK
    <2>. QED BY <1>6, <2>2 DEF OthersPublish, TypeOK, taskVars, worldVars
  <1>7. ASSUME NEW m \in RelayMessages, Takes(m)
        PROVE  physical' \in [Channels -> BOOLEAN] /\ retained' \in {NoState, "On", "Off"}
    <2>1. m.to = "shelly" => m.channel \in Channels /\ m.on \in BOOLEAN
      BY DEF RelayMessages, Switch, Persist, Telemetry
    <2>. QED BY <1>7, <2>1 DEF Takes, TypeOK, StateName
  <1>8. CASE Deliver
    <2>1. Head(outQ) \in RelayMessages /\ Tail(outQ) \in Seq(Messages)
          /\ Len(Tail(outQ)) <= Capacity
      BY <1>8, <1>0, MessagesAssumption DEF Deliver, Acknowledged, TypeOK, BusTypeOK
    <2>. QED BY <1>8, <2>1, <1>7 DEF Deliver, Acknowledged, TypeOK, BusTypeOK, taskVars, Takes
  <1>9. ASSUME LinkLost PROVE BusTypeOK'
    <2>1. outages' \in 0..MaxOutages
      BY <1>9, <1>0 DEF LinkLost, TypeOK, BusTypeOK
    <2>. QED BY <1>9, <2>1, Zenon DEF LinkLost, TypeOK, BusTypeOK
  <1>10. CASE DeliverUnacknowledged
    <2>1. Head(outQ) \in RelayMessages /\ BusTypeOK'
      BY <1>10, <1>9, MessagesAssumption DEF DeliverUnacknowledged, Unacknowledged, TypeOK, BusTypeOK
    <2>. QED BY <1>10, <2>1, <1>7 DEF DeliverUnacknowledged, TypeOK, taskVars, Takes
  <1>11. CASE LinkGone
    BY <1>11, <1>9 DEF LinkGone, TypeOK, taskVars, worldVars
  <1>12. CASE Reconnects
    <2>1. PICK forgotten \in 0..Len(outQ) : LinkBack(forgotten) /\ stateLost' \in BOOLEAN
      BY <1>12 DEF Reconnects
    <2>2. /\ SubSeq(outQ, forgotten + 1, Len(outQ)) \in Seq(Messages)
          /\ Len(SubSeq(outQ, forgotten + 1, Len(outQ))) <= Len(outQ)
      BY DEF TypeOK, BusTypeOK
    <2>3. outQ' \in Seq(Messages) /\ Len(outQ') <= Capacity
      BY <2>1, <2>2, <1>0 DEF LinkBack, TypeOK, BusTypeOK
    <2>4. BusTypeOK'
      BY <2>1, <2>3, Zenon DEF LinkBack, TypeOK, BusTypeOK
    <2>. QED BY <1>12, <2>1, <2>4, Zenon DEF Reconnects, TypeOK, taskVars, worldVars
  <1>13. CASE ShellyAway
    <2>1. left' \in [changes : 0..MaxChanges, crashes : 0..MaxCrashes, shelly : 0..MaxShelly]
      BY <1>13, <1>0, LeftTypes DEF ShellyAway, TypeOK
    <2>. QED BY <1>13, <2>1, Zenon DEF ShellyAway, TypeOK, BusTypeOK, busVars, taskVars
  <1>14. CASE ShellyBack
    BY <1>14 DEF ShellyBack, TypeOK, BusTypeOK, busVars, taskVars
  <1>15. CASE Crash
    <2>1. <<>> \in Seq(Messages) /\ <<>> \in Seq(RelayMessages) /\ Len(<<>>) = 0
      BY EmptySeq
    <2>2. left' \in [changes : 0..MaxChanges, crashes : 0..MaxCrashes, shelly : 0..MaxShelly]
      BY <1>15, <1>0, LeftTypes DEF Crash, TypeOK
    <2>3. BusTypeOK'
      <3>1. outQ' \in Seq(Messages) /\ Len(outQ') <= Capacity
        BY <1>15, <1>0, <2>1 DEF Crash, BusRestart
      <3>. QED BY <1>15, <3>1, Zenon DEF Crash, BusRestart, TypeOK, BusTypeOK
    <2>4. sends' \in Seq(RelayMessages) /\ Len(sends') <= Cardinality(Channels) + 1
      BY <1>15, <1>0, <2>1 DEF Crash
    <2>. QED BY <1>15, <2>2, <2>3, <2>4, Zenon DEF Crash, TypeOK, worldVars
  <1>16. CASE UNCHANGED vars
    BY <1>16 DEF vars, TypeOK, BusTypeOK, busVars, taskVars, worldVars
  <1>. QED
    BY <1>1, <1>2, <1>3, <1>4, <1>5, <1>6, <1>8, <1>10, <1>11, <1>12, <1>13, <1>14,
       <1>15, <1>16 DEF Next

LEMMA RelayInitTypes == Init => TypeOK
  <1> SUFFICES ASSUME Init PROVE TypeOK
    OBVIOUS
  <1>1. /\ MaxChanges \in Nat /\ MaxCrashes \in Nat /\ MaxShelly \in Nat
        /\ MaxOutages \in Nat /\ Capacity \in Nat /\ Cardinality(Channels) \in Nat
    BY RelayAssumption, BusAssumption, ListOfSet
  <1>2. <<>> \in Seq(Messages) /\ <<>> \in Seq(RelayMessages) /\ Len(<<>>) = 0
    BY EmptySeq
  <1>3. left \in [changes : 0..MaxChanges, crashes : 0..MaxCrashes, shelly : 0..MaxShelly]
    BY <1>1 DEF Init
  <1>4. /\ outQ \in Seq(Messages) /\ Len(outQ) <= Capacity /\ outages \in 0..MaxOutages
        /\ sends \in Seq(RelayMessages) /\ Len(sends) <= Cardinality(Channels) + 1
    BY <1>1, <1>2 DEF Init, BusInit
  <1>5. BusTypeOK
    BY <1>4, Zenon DEF Init, BusInit, BusTypeOK
  <1>. QED BY <1>3, <1>4, <1>5, Zenon DEF Init, TypeOK, NoState

LEMMA RelayTypesHold == Spec => []TypeOK
  BY RelayInitTypes, RelayTypes, PTL DEF Spec
-----------------------------------------------------------------------------
(* The newest word about the relay state.                                  *)

LEMMA NewestAfterAccept ==
    ASSUME NEW M, NEW calls \in Seq(M), calls # <<>>, NEW q \in Seq(M), NEW kept, NEW on,
           NewestIs(calls, q, kept, on)
    PROVE  NewestIs(Tail(calls), Append(q, Head(calls)), kept, on)
  <1>1. PICK h, t, p : h = Head(calls) /\ t = Tail(calls) /\ p = Append(q, h)
    OBVIOUS
  <1>2. /\ Len(t) \in Nat /\ Len(calls) = Len(t) + 1 /\ calls[1] = h
        /\ \A k \in 1 .. Len(t) : t[k] = calls[k + 1]
        /\ t \in Seq(M) /\ DOMAIN t = 1 .. Len(t) /\ DOMAIN calls = 1 .. Len(calls)
    BY <1>1
  <1>3. /\ Len(q) \in Nat /\ Len(p) = Len(q) + 1 /\ p[Len(q) + 1] = h
        /\ \A k \in 1 .. Len(q) : p[k] = q[k]
        /\ p \in Seq(M) /\ DOMAIN p = 1 .. Len(p) /\ DOMAIN q = 1 .. Len(q)
    BY <1>1
  <1>4. /\ \A k \in 1 .. Len(t) : t[k].to = "state" => t[k].on = on
        /\ h.to = "state" => h.on = on
    BY <1>2 DEF NewestIs
  <1>5. ASSUME ~StateOnItsWay(t)
        PROVE  IF StateOnItsWay(p) THEN LastStateIs(p, on) ELSE Restored(kept) = on
    <2>1. CASE h.to = "state"
      <3>1. Len(q) + 1 \in 1 .. Len(p) /\ p[Len(q) + 1].to = "state" /\ p[Len(q) + 1].on = on
        BY <2>1, <1>3, <1>4
      <3>2. \A j \in 1 .. Len(p) : ~(j > Len(q) + 1)
        BY <1>3
      <3>3. LastStateIs(p, on)
        BY <3>1, <3>2 DEF LastStateIs
      <3>4. StateOnItsWay(p)
        BY <3>1, <1>3 DEF StateOnItsWay
      <3>. QED BY <3>3, <3>4
    <2>2. CASE h.to # "state"
      <3>1. ~StateOnItsWay(calls)
        <4>1. ASSUME NEW k \in 1 .. Len(calls), calls[k].to = "state" PROVE FALSE
          <5>1. k # 1
            BY <4>1, <2>2, <1>2
          <5>2. k - 1 \in 1 .. Len(t) /\ (k - 1) + 1 = k
            BY <5>1, <1>2
          <5>. QED BY <4>1, <5>2, <1>2, <1>5 DEF StateOnItsWay
        <4>. QED BY <4>1, <1>2 DEF StateOnItsWay
      <3>2. IF StateOnItsWay(q) THEN LastStateIs(q, on) ELSE Restored(kept) = on
        BY <3>1 DEF NewestIs
      <3>3. StateOnItsWay(p) <=> StateOnItsWay(q)
        BY <2>2, <1>3 DEF StateOnItsWay
      <3>4. LastStateIs(q, on) => LastStateIs(p, on)
        <4>1. SUFFICES ASSUME NEW k \in 1 .. Len(q), q[k].to = "state", q[k].on = on,
                              \A j \in 1 .. Len(q) : j > k => q[j].to # "state"
                       PROVE  LastStateIs(p, on)
          BY DEF LastStateIs
        <4>2. k \in 1 .. Len(p) /\ p[k] = q[k]
          BY <1>3
        <4>3. ASSUME NEW j \in 1 .. Len(p), j > k PROVE p[j].to # "state"
          BY <4>1, <4>3, <2>2, <1>3
        <4>. QED BY <4>1, <4>2, <4>3 DEF LastStateIs
      <3>. QED BY <3>2, <3>3, <3>4
    <2>. QED BY <2>1, <2>2
  <1>6. NewestIs(t, p, kept, on)
    BY <1>4, <1>5 DEF NewestIs
  <1>. QED BY <1>1, <1>6

LEMMA NewestAfterDrop ==
    ASSUME NEW M, NEW calls \in Seq(M), calls # <<>>, Head(calls).to # "state",
           NEW q, NEW kept, NEW on, NewestIs(calls, q, kept, on)
    PROVE  NewestIs(Tail(calls), q, kept, on)
  <1>1. PICK t : t = Tail(calls)
    OBVIOUS
  <1>2. /\ Len(t) \in Nat /\ Len(calls) = Len(t) + 1 /\ calls[1].to # "state"
        /\ \A k \in 1 .. Len(t) : t[k] = calls[k + 1]
        /\ t \in Seq(M) /\ DOMAIN t = 1 .. Len(t) /\ DOMAIN calls = 1 .. Len(calls)
    BY <1>1
  <1>3. \A k \in 1 .. Len(t) : t[k].to = "state" => t[k].on = on
    BY <1>2 DEF NewestIs
  <1>4. ASSUME NEW k \in 1 .. Len(calls), calls[k].to = "state" PROVE StateOnItsWay(t)
    <2>1. k # 1
      BY <1>4, <1>2
    <2>2. k - 1 \in 1 .. Len(t) /\ (k - 1) + 1 = k
      BY <2>1, <1>2
    <2>. QED BY <1>4, <2>2, <1>2 DEF StateOnItsWay
  <1>5. NewestIs(t, q, kept, on)
    BY <1>2, <1>3, <1>4 DEF NewestIs, StateOnItsWay
  <1>. QED BY <1>1, <1>5

(* q is its first n elements a, followed by p.                             *)
Parts(q, a, p, n) ==
    /\ Len(q) \in Nat /\ n \in Nat /\ Len(a) = n /\ Len(p) = Len(q) - n /\ n <= Len(q)
    /\ \A k \in 1 .. n : a[k] = q[k]
    /\ \A k \in 1 .. Len(p) : p[k] = q[k + n]
    /\ DOMAIN a = 1 .. n /\ DOMAIN p = 1 .. Len(p) /\ DOMAIN q = 1 .. Len(q)

LEMMA TwoParts ==
    ASSUME NEW M, NEW q \in Seq(M), NEW n \in 0 .. Len(q)
    PROVE  Parts(q, SubSeq(q, 1, n), SubSeq(q, n + 1, Len(q)), n)
  <1> DEFINE a == SubSeq(q, 1, n)  p == SubSeq(q, n + 1, Len(q))
  <1>1. /\ Len(q) \in Nat /\ n \in Nat
        /\ a \in Seq(M) /\ Len(a) = n /\ \A k \in 1 .. n : a[k] = q[k]
    <2>1. \A k \in 1 .. n : q[k] \in M
      OBVIOUS
    <2>2. /\ a \in Seq(M) /\ Len(a) = IF 1 <= n THEN n - 1 + 1 ELSE 0
          /\ \A k \in 1 .. n - 1 + 1 : a[k] = q[1 + k - 1]
      BY <2>1, SubSeqProperties
    <2> HIDE DEF a
    <2>. QED BY <2>2
  <1>2. \A k \in n + 1 .. Len(q) : q[k] \in M
    OBVIOUS
  <1>3. /\ p \in Seq(M)
        /\ Len(p) = IF n + 1 <= Len(q) THEN Len(q) - (n + 1) + 1 ELSE 0
        /\ \A k \in 1 .. Len(q) - (n + 1) + 1 : p[k] = q[(n + 1) + k - 1]
    BY <1>1, <1>2, SubSeqProperties
  <1>4. Len(p) = Len(q) - n /\ \A k \in 1 .. Len(p) : p[k] = q[k + n]
    <2> HIDE DEF p
    <2>. QED BY <1>1, <1>3
  <1>5. DOMAIN a = 1 .. Len(a) /\ DOMAIN p = 1 .. Len(p) /\ DOMAIN q = 1 .. Len(q)
    <2> HIDE DEF a, p
    <2>. QED BY <1>1, <1>3, LenProperties
  <1>6. n <= Len(q)
    OBVIOUS
  <1> HIDE DEF a, p
  <1>7. Parts(q, a, p, n)
    BY <1>1, <1>4, <1>5, <1>6, Zenon DEF Parts
  <1>. QED BY <1>7 DEF a, p

LEMMA NewestWithoutOthers ==
    ASSUME NEW q, NEW n, NEW a, NEW p, Parts(q, a, p, n), ~StateOnItsWay(a),
           NEW calls, NEW kept, NEW on, NewestIs(calls, q, kept, on)
    PROVE  NewestIs(calls, p, kept, on)
  <1>2. /\ Len(q) \in Nat /\ n \in Nat /\ Len(a) = n /\ Len(p) = Len(q) - n
        /\ \A k \in 1 .. n : a[k] = q[k]
        /\ \A k \in 1 .. Len(p) : p[k] = q[k + n]
        /\ DOMAIN a = 1 .. n /\ DOMAIN p = 1 .. Len(p) /\ DOMAIN q = 1 .. Len(q)
    BY DEF Parts
  <1>3. \A k \in 1 .. n : q[k].to # "state"
    BY <1>2 DEF StateOnItsWay
  <1>4. StateOnItsWay(p) <=> StateOnItsWay(q)
    <2>1. ASSUME NEW k \in 1 .. Len(q), q[k].to = "state"
          PROVE  k - n \in 1 .. Len(p) /\ p[k - n] = q[k]
      <3>1. k - n \in 1 .. Len(p)
        BY <1>2, <1>3, <2>1
      <3>. QED BY <1>2, <3>1
    <2>2. ASSUME NEW k \in 1 .. Len(p), p[k].to = "state"
          PROVE  k + n \in 1 .. Len(q) /\ q[k + n].to = "state"
      BY <1>2, <2>2
    <2>3. StateOnItsWay(p) => StateOnItsWay(q)
      BY <1>2, <2>2 DEF StateOnItsWay
    <2>4. StateOnItsWay(q) => StateOnItsWay(p)
      BY <1>2, <2>1 DEF StateOnItsWay
    <2>. QED BY <2>3, <2>4
  <1>5. LastStateIs(q, on) => LastStateIs(p, on)
    <2>1. SUFFICES ASSUME NEW k \in 1 .. Len(q), q[k].to = "state", q[k].on = on,
                          \A j \in 1 .. Len(q) : j > k => q[j].to # "state"
                   PROVE  LastStateIs(p, on)
      BY DEF LastStateIs
    <2>2. k - n \in 1 .. Len(p)
      BY <1>2, <1>3, <2>1
    <2>3. p[k - n] = q[k]
      BY <1>2, <2>2
    <2>4. ASSUME NEW j \in 1 .. Len(p), j > k - n PROVE p[j].to # "state"
      BY <1>2, <2>1, <2>4
    <2>. QED BY <2>1, <2>2, <2>3, <2>4 DEF LastStateIs
  <1>. QED BY <1>4, <1>5 DEF NewestIs

(* What a delivery of the first message does.                              *)
LEMMA NewestAfterDelivery ==
    ASSUME NEW M, NEW q \in Seq(M), q # <<>>, NEW on \in BOOLEAN,
           NEW calls, NEW kept, NewestIs(calls, q, kept, on), NEW now,
           now = IF Head(q).to = "state" THEN StateName(Head(q).on) ELSE kept
    PROVE  NewestIs(calls, q, now, on) /\ NewestIs(calls, Tail(q), now, on)
  <1>1. PICK h, t : h = Head(q) /\ t = Tail(q)
    OBVIOUS
  <1>2. /\ Len(t) \in Nat /\ Len(q) = Len(t) + 1 /\ q[1] = h
        /\ \A k \in 1 .. Len(t) : t[k] = q[k + 1]
        /\ t \in Seq(M) /\ DOMAIN t = 1 .. Len(t) /\ DOMAIN q = 1 .. Len(q)
    BY <1>1
  <1>3. NewestIs(calls, q, now, on)
    <2>1. CASE h.to = "state"
      <3>1. StateOnItsWay(q)
        BY <2>1, <1>2 DEF StateOnItsWay
      <3>. QED BY <3>1 DEF NewestIs
    <2>2. CASE h.to # "state"
      BY <2>2, <1>1
    <2>. QED BY <2>1, <2>2
  <1>4. ~StateOnItsWay(calls) =>
            IF StateOnItsWay(t) THEN LastStateIs(t, on) ELSE Restored(now) = on
    <2>1. SUFFICES ASSUME ~StateOnItsWay(calls)
                   PROVE  IF StateOnItsWay(t) THEN LastStateIs(t, on) ELSE Restored(now) = on
      OBVIOUS
    <2>2. IF StateOnItsWay(q) THEN LastStateIs(q, on) ELSE Restored(kept) = on
      BY <2>1 DEF NewestIs
    <2>3. ASSUME StateOnItsWay(t) PROVE LastStateIs(t, on)
      <3>1. PICK i \in 1 .. Len(t) : t[i].to = "state"
        BY <2>3, <1>2 DEF StateOnItsWay
      <3>2. i + 1 \in 1 .. Len(q) /\ q[i + 1].to = "state"
        BY <3>1, <1>2
      <3>3. PICK k \in 1 .. Len(q) : /\ q[k].to = "state" /\ q[k].on = on
                                    /\ \A j \in 1 .. Len(q) : j > k => q[j].to # "state"
        BY <2>2, <3>2 DEF LastStateIs, StateOnItsWay
      <3>4. k - 1 \in 1 .. Len(t)
        BY <3>2, <3>3, <1>2
      <3>5. t[k - 1] = q[k]
        BY <3>4, <1>2
      <3>6. ASSUME NEW j \in 1 .. Len(t), j > k - 1 PROVE t[j].to # "state"
        BY <3>3, <3>6, <1>2
      <3>. QED BY <3>3, <3>4, <3>5, <3>6 DEF LastStateIs
    <2>4. ASSUME ~StateOnItsWay(t) PROVE Restored(now) = on
      <3>1. \A k \in 1 .. Len(t) : q[k + 1].to # "state"
        BY <2>4, <1>2 DEF StateOnItsWay
      <3>2. \A k \in 1 .. Len(q) : k # 1 => q[k].to # "state"
        <4> SUFFICES ASSUME NEW k \in 1 .. Len(q), k # 1 PROVE q[k].to # "state"
          OBVIOUS
        <4>1. k - 1 \in 1 .. Len(t) /\ (k - 1) + 1 = k
          BY <1>2
        <4>. QED BY <3>1, <4>1
      <3>3. CASE h.to = "state"
        <4>1. StateOnItsWay(q)
          BY <3>3, <1>2 DEF StateOnItsWay
        <4>2. h.on = on
          BY <4>1, <2>2, <3>2, <1>2 DEF LastStateIs
        <4>. QED BY <3>3, <4>2, <1>1, StateMessages
      <3>4. CASE h.to # "state"
        <4>1. ~StateOnItsWay(q)
          BY <3>4, <3>2, <1>2 DEF StateOnItsWay
        <4>. QED BY <3>4, <4>1, <2>2, <1>1
      <3>. QED BY <3>3, <3>4
    <2>. QED BY <2>3, <2>4
  <1>5. NewestIs(calls, t, now, on)
    BY <1>3, <1>4 DEF NewestIs
  <1>. QED BY <1>1, <1>3, <1>5

LEMMA PersistKept == ASSUME TypeOK, PersistInv, [Next]_vars PROVE PersistInv'
  <1>0. /\ outQ \in Seq(RelayMessages) /\ sends \in Seq(RelayMessages)
        /\ relayOn \in BOOLEAN
    BY MessagesAssumption DEF TypeOK, BusTypeOK
  <1>e. <<>> \in Seq(RelayMessages) /\ Len(<<>>) = 0 /\ DOMAIN <<>> = 1 .. 0
    BY EmptySeq
  <1>n. ~StateOnItsWay(<<>>)
    BY <1>e DEF StateOnItsWay
  <1>1. CASE UNCHANGED <<outQ, running, relayOn, sends, retained, stateLost>>
    BY <1>1 DEF PersistInv
  <1>2. CASE Start
    <2>1. sends = <<>> /\ ~StateOnItsWay(outQ) /\ sends' = sends /\ outQ' = outQ
          /\ retained' = retained /\ running'
      BY <1>2 DEF Start, PersistInv, busVars, worldVars
    <2>2. ~stateLost' => Restored(retained) = relayOn'
      BY <1>2 DEF Start
    <2>3. ~stateLost' => NewestIs(sends, outQ, retained, relayOn')
      BY <2>1, <2>2, <1>e DEF NewestIs
    <2>. QED BY <2>1, <2>3 DEF PersistInv
  <1>3. CASE Change
    <2>1. relayOn' \in BOOLEAN
      BY <1>3, <1>0 DEF Change
    <2>2. PICK calls : calls = SendShelly(relayOn')
      OBVIOUS
    <2>3. calls \in Seq(RelayMessages) /\ \A k \in 1 .. Len(calls) : calls[k].to = "shelly"
      BY <2>1, <2>2, ShellyMessages
    <2>4. PICK last \in RelayMessages :
              last = Persist(relayOn') /\ last.to = "state" /\ last.on = relayOn'
      BY <2>1, StateMessages
    <2>5. PICK all : all = Append(calls, last)
      OBVIOUS
    <2>6. sends' = all
      BY <1>3, <2>2, <2>4, <2>5 DEF Change
    <2>7. /\ Len(calls) \in Nat /\ Len(all) = Len(calls) + 1 /\ DOMAIN all = 1 .. Len(all)
          /\ all[Len(calls) + 1] = last /\ \A k \in 1 .. Len(calls) : all[k] = calls[k]
      BY <2>3, <2>5
    <2>8. \A k \in 1 .. Len(all) : all[k].to = "state" => all[k].on = relayOn'
      BY <2>3, <2>4, <2>7
    <2>9. Len(calls) + 1 \in DOMAIN all /\ all[Len(calls) + 1].to = "state"
      BY <2>4, <2>7
    <2>10. NewestIs(all, outQ, retained, relayOn')
      BY <2>8, <2>9 DEF NewestIs, StateOnItsWay
    <2>. QED BY <1>3, <2>6, <2>10 DEF Change, Idle, PersistInv, busVars, worldVars
  <1>4. CASE Resync
    <2>1. PICK calls : calls = SendShelly(relayOn)
      OBVIOUS
    <2>2. calls \in Seq(RelayMessages) /\ \A k \in 1 .. Len(calls) : calls[k].to = "shelly"
      BY <1>0, <2>1, ShellyMessages
    <2>3. ASSUME running, ~stateLost PROVE NewestIs(calls, outQ, retained, relayOn)
      <3>1. NewestIs(<<>>, outQ, retained, relayOn)
        BY <1>4, <2>3 DEF Resync, Idle, PersistInv
      <3>. QED BY <3>1, <2>2, <1>n DEF NewestIs
    <2>. QED BY <1>4, <2>1, <2>3 DEF Resync, Idle, PersistInv, busVars, worldVars
  <1>5. CASE TrySend
    <2>1. running /\ sends # <<>> /\ running' = running /\ relayOn' = relayOn
          /\ retained' = retained /\ sends' = Tail(sends)
      BY <1>5 DEF TrySend, PersistInv, worldVars
    <2>2. CASE Accepted(Head(sends))
      <3>1. outQ' = Append(outQ, Head(sends))
        BY <2>2 DEF Accepted
      <3>2. ~stateLost' => ~stateLost
        BY <1>5 DEF TrySend
      <3>3. ~stateLost' => NewestIs(sends', outQ', retained', relayOn')
        BY <2>1, <3>1, <3>2, <1>0, NewestAfterAccept DEF PersistInv
      <3>. QED BY <2>1, <3>3 DEF PersistInv
    <2>3. CASE Dropped(Head(sends))
      <3>1. outQ' = outQ
        BY <2>3 DEF Dropped, busVars
      <3>2. ~stateLost' => ~stateLost /\ Head(sends).to # "state"
        BY <1>5, <3>1 DEF TrySend
      <3>3. ~stateLost' => NewestIs(sends', outQ', retained', relayOn')
        BY <2>1, <3>1, <3>2, <1>0, NewestAfterDrop DEF PersistInv
      <3>. QED BY <2>1, <3>3 DEF PersistInv
    <2>. QED BY <1>5, <2>2, <2>3 DEF TrySend, Publish
  <1>6. CASE OthersPublish
    <2>1. /\ outQ' = Append(outQ, Telemetry) /\ Telemetry \in RelayMessages
          /\ Telemetry.to # "state"
          /\ UNCHANGED <<running, relayOn, sends, retained, stateLost>>
      BY <1>6, StateMessages DEF OthersPublish, Accepted, taskVars, worldVars
    <2>2. ~StateOnItsWay(outQ) => ~StateOnItsWay(outQ')
      BY <2>1, <1>0 DEF StateOnItsWay
    <2>3. ASSUME NewestIs(sends, outQ, retained, relayOn)
          PROVE  NewestIs(sends, outQ', retained, relayOn)
      <3>1. PICK p : p = Append(outQ, Telemetry)
        OBVIOUS
      <3>2. /\ Len(outQ) \in Nat /\ Len(p) = Len(outQ) + 1
            /\ p[Len(outQ) + 1].to # "state"
            /\ \A k \in 1 .. Len(outQ) : p[k] = outQ[k]
            /\ DOMAIN p = 1 .. Len(p) /\ DOMAIN outQ = 1 .. Len(outQ)
        BY <3>1, <2>1, <1>0
      <3>3. StateOnItsWay(p) => StateOnItsWay(outQ)
        BY <3>2 DEF StateOnItsWay
      <3>4. LastStateIs(outQ, relayOn) => LastStateIs(p, relayOn) /\ StateOnItsWay(p)
        <4>1. SUFFICES ASSUME NEW k \in 1 .. Len(outQ),
                              outQ[k].to = "state", outQ[k].on = relayOn,
                              \A j \in 1 .. Len(outQ) : j > k => outQ[j].to # "state"
                       PROVE  LastStateIs(p, relayOn) /\ StateOnItsWay(p)
          BY DEF LastStateIs
        <4>2. k \in 1 .. Len(p) /\ p[k] = outQ[k]
          BY <3>2
        <4>3. ASSUME NEW j \in 1 .. Len(p), j > k PROVE p[j].to # "state"
          BY <4>1, <4>3, <3>2
        <4>. QED BY <4>1, <4>2, <4>3, <3>2 DEF LastStateIs, StateOnItsWay
      <3>5. NewestIs(sends, p, retained, relayOn)
        BY <2>3, <3>3, <3>4 DEF NewestIs
      <3>. QED BY <2>1, <3>1, <3>5
    <2>. QED BY <2>1, <2>2, <2>3 DEF PersistInv
  <1>7. ASSUME Takes(Head(outQ)), outQ # <<>>, outQ' \in {outQ, Tail(outQ)},
               UNCHANGED <<running, relayOn, sends, stateLost>>
        PROVE  PersistInv'
    <2>1. ~StateOnItsWay(outQ) => ~StateOnItsWay(Tail(outQ))
      <3>1. PICK t : t = Tail(outQ)
        OBVIOUS
      <3>2. /\ Len(t) \in Nat /\ Len(outQ) = Len(t) + 1
            /\ \A k \in 1 .. Len(t) : t[k] = outQ[k + 1]
            /\ DOMAIN t = 1 .. Len(t) /\ DOMAIN outQ = 1 .. Len(outQ)
        BY <3>1, <1>0, <1>7
      <3>3. \A k \in 1 .. Len(t) : k + 1 \in 1 .. Len(outQ)
        BY <3>2
      <3>4. StateOnItsWay(t) => StateOnItsWay(outQ)
        BY <3>2, <3>3 DEF StateOnItsWay
      <3>. QED BY <3>1, <3>4
    <2>2. retained' = IF Head(outQ).to = "state" THEN StateName(Head(outQ).on) ELSE retained
      BY <1>7 DEF Takes
    <2>3. ASSUME running, ~stateLost
          PROVE  NewestIs(sends, outQ, retained', relayOn)
                 /\ NewestIs(sends, Tail(outQ), retained', relayOn)
      <3>1. NewestIs(sends, outQ, retained, relayOn)
        BY <2>3 DEF PersistInv
      <3>. QED BY <3>1, <2>2, <1>0, <1>7, NewestAfterDelivery
    <2>. QED BY <1>7, <2>1, <2>3 DEF PersistInv
  <1>8. CASE Deliver
    BY <1>8, <1>7 DEF Deliver, Acknowledged, taskVars
  <1>9. CASE DeliverUnacknowledged
    BY <1>9, <1>7 DEF DeliverUnacknowledged, Unacknowledged, LinkLost, taskVars
  <1>10. CASE Reconnects
    <2>1. PICK n \in 0..Len(outQ) :
             /\ LinkBack(n)
             /\ stateLost' = (stateLost \/ StateOnItsWay(SubSeq(outQ, 1, n)))
      BY <1>10 DEF Reconnects
    <2>2. PICK a, p : a = SubSeq(outQ, 1, n) /\ p = SubSeq(outQ, n + 1, Len(outQ))
      OBVIOUS
    <2>3. Parts(outQ, a, p, n)
      <3>1. Parts(outQ, SubSeq(outQ, 1, n), SubSeq(outQ, n + 1, Len(outQ)), n)
        BY <1>0, TwoParts
      <3>. QED BY <2>2, <3>1, Zenon
    <2>4. outQ' = p /\ UNCHANGED <<running, relayOn, sends, retained>>
      BY <1>10, <2>1, <2>2, Zenon DEF Reconnects, LinkBack, taskVars, worldVars
    <2>5. stateLost' = (stateLost \/ StateOnItsWay(a))
      BY <2>1, <2>2, Zenon
    <2>6. ~StateOnItsWay(outQ) => ~StateOnItsWay(p)
      <3>1. /\ Len(outQ) \in Nat /\ n \in Nat /\ Len(p) = Len(outQ) - n
            /\ \A k \in 1 .. Len(p) : p[k] = outQ[k + n]
            /\ DOMAIN p = 1 .. Len(p) /\ DOMAIN outQ = 1 .. Len(outQ)
        BY <2>3, Zenon DEF Parts
      <3>2. \A k \in 1 .. Len(p) : k + n \in 1 .. Len(outQ)
        BY <3>1
      <3>. QED BY <3>1, <3>2, Zenon DEF StateOnItsWay
    <2>7. ASSUME running, ~stateLost' PROVE NewestIs(sends, p, retained, relayOn)
      <3>1. NewestIs(sends, outQ, retained, relayOn) /\ ~StateOnItsWay(a)
        BY <2>5, <2>7, Zenon DEF PersistInv
      <3>. QED BY <3>1, <2>3, NewestWithoutOthers
    <2>. QED BY <2>4, <2>6, <2>7, Zenon DEF PersistInv
  <1>11. CASE Crash
    BY <1>11, <1>n DEF Crash, BusRestart, PersistInv
  <1>12. CASE RetainedArrives \/ LinkGone \/ ShellyAway \/ ShellyBack
    <2>1. UNCHANGED <<outQ, running, relayOn, sends, retained, stateLost>>
      BY <1>12 DEF RetainedArrives, LinkGone, LinkLost, ShellyAway, ShellyBack, busVars,
                   taskVars, worldVars
    <2>. QED BY <2>1, <1>1
  <1>13. CASE UNCHANGED vars
    BY <1>13, <1>1 DEF vars, busVars, taskVars, worldVars
  <1>. QED
    BY <1>2, <1>3, <1>4, <1>5, <1>6, <1>8, <1>9, <1>10, <1>11, <1>12, <1>13 DEF Next

LEMMA PersistInit == Init => PersistInv
  <1>1. <<>> \in Seq({}) /\ DOMAIN <<>> = 1 .. 0
    BY EmptySeq
  <1>2. ~StateOnItsWay(<<>>)
    BY <1>1 DEF StateOnItsWay
  <1>. QED BY <1>2 DEF Init, BusInit, PersistInv

(* Unless its publication was lost, the broker retains the state the       *)
(* controller last decided, once nothing about it is on its way: neither   *)
(* the order of the try_sends, a repetition around a reconnection nor a    *)
(* restart leaves an older one behind (logic/deye_command, apply and the   *)
(* persist watcher).                                                       *)
THEOREM LastStateRetained == Spec => []PersistedWhenQuiet
  <1>1. PersistInv => PersistedWhenQuiet
    BY DEF PersistInv, NewestIs, PersistedWhenQuiet
  <1>. QED BY <1>1, PersistInit, PersistKept, RelayTypesHold, PTL DEF Spec
-----------------------------------------------------------------------------
(* The tasks around rumqttc keep the promise of AppBus: the refinement.    *)

Sub == Client!Subscription
ClientTypes == Client!TypeOK

LEMMA ClientTypesKept == ASSUME ClientTypes, [Client!Next]_clientVars PROVE ClientTypes'
  <1>0. /\ OutCap \in Nat /\ ReqCap \in Nat /\ Topics \in Nat
        /\ MaxPublished \in Nat /\ MaxClientOutages \in Nat
    BY ClientBounds DEF Client!ClientAssumption
  <1> DEFINE M == ClientMessages  R == ClientMessages \cup {Sub}
  <1>t. /\ mqttOut \in Seq(M) /\ Len(mqttOut) <= OutCap
        /\ hand \in Seq(M) /\ Len(hand) <= 1
        /\ requests \in Seq(R) /\ Len(requests) <= ReqCap
        /\ pending \in Seq(R)
        /\ loop \in {"poll", "subscribe", "sleep"} /\ toSubscribe \in 0..Topics
        /\ conn \in {"none", "up", "dead"} /\ broker \in BOOLEAN
        /\ published \in 0..MaxPublished /\ clientOutages \in 0..MaxClientOutages
    BY DEF ClientTypes, Client!TypeOK, Sub
  <1>g. ASSUME /\ mqttOut' \in Seq(M) /\ Len(mqttOut') <= OutCap
               /\ hand' \in Seq(M) /\ Len(hand') <= 1
               /\ requests' \in Seq(R) /\ Len(requests') <= ReqCap
               /\ pending' \in Seq(R)
               /\ loop' \in {"poll", "subscribe", "sleep"} /\ toSubscribe' \in 0..Topics
               /\ conn' \in {"none", "up", "dead"} /\ broker' \in BOOLEAN
               /\ published' \in 0..MaxPublished /\ clientOutages' \in 0..MaxClientOutages
        PROVE  ClientTypes'
    BY <1>g DEF ClientTypes, Client!TypeOK, Sub
  <1>e. /\ <<>> \in Seq(M) /\ <<>> \in Seq(R) /\ Len(<<>>) = 0
    BY EmptySeq
  <1> HIDE DEF M, R
  <1>1. ASSUME NEW m \in ClientMessages, Client!Publish(m) PROVE ClientTypes'
    <2>1. mqttOut' \in Seq(M) /\ Len(mqttOut') <= OutCap
      BY <1>t, <1>1, <1>0 DEF Client!Publish, M
    <2>2. published' \in 0..MaxPublished
      BY <1>t, <1>1, <1>0 DEF Client!Publish
    <2>. QED BY <1>t, <1>1, <1>g, <2>1, <2>2 DEF Client!Publish
  <1>2. CASE Client!PublisherTakes
    <2>1. /\ mqttOut' \in Seq(M) /\ Len(mqttOut') <= OutCap
          /\ hand' \in Seq(M) /\ Len(hand') <= 1
      BY <1>t, <1>2, <1>0 DEF Client!PublisherTakes
    <2>. QED BY <1>t, <1>2, <1>g, <2>1 DEF Client!PublisherTakes
  <1>3. CASE Client!PublisherHands
    <2>1. requests' \in Seq(R) /\ Len(requests') <= ReqCap
      <3>1. hand \in Seq(R) /\ Len(hand) <= 1
        BY <1>t DEF M, R
      <3>. QED BY <1>t, <1>3, <1>0, <3>1 DEF Client!PublisherHands
    <2>. QED BY <1>t, <1>3, <1>g, <1>e, <2>1 DEF Client!PublisherHands
  <1>4. CASE Client!PollSends
    <2>1. /\ requests' \in Seq(R) /\ Len(requests') <= ReqCap
          /\ pending' \in Seq(R)
      <3>1. \/ pending # <<>> /\ pending' = Tail(pending) /\ requests' = requests
            \/ requests # <<>> /\ requests' = Tail(requests) /\ pending' = pending
        BY <1>4 DEF Client!PollSends
      <3>2. pending # <<>> => Tail(pending) \in Seq(R)
        BY <1>t
      <3>3. requests # <<>> => Tail(requests) \in Seq(R) /\ Len(Tail(requests)) <= ReqCap
        BY <1>t, <1>0
      <3>. QED BY <1>t, <3>1, <3>2, <3>3
    <2>. QED BY <1>t, <1>4, <1>g, <2>1 DEF Client!PollSends
  <1>5. CASE Client!PollLoses
    <2>1. pending' \in Seq(R)
      BY <1>t, <1>5 DEF Client!PollLoses
    <2>2. clientOutages' \in 0..MaxClientOutages
      BY <1>t, <1>5, <1>0 DEF Client!PollLoses
    <2>3. Len(requests') <= ReqCap
      BY <1>e, <1>5, <1>0 DEF Client!PollLoses
    <2>. QED BY <1>t, <1>5, <1>e, <1>g, <2>1, <2>2, <2>3 DEF Client!PollLoses
  <1>6. CASE Client!PollConnects
    <2>1. pending' \in Seq(R) /\ toSubscribe' \in 0..Topics
      <3>1. pending' \in Seq(R)
        BY <1>t, <1>6, <1>e, Zenon DEF Client!PollConnects
      <3>2. toSubscribe' \in 0..Topics
        BY <1>6, <1>0 DEF Client!PollConnects
      <3>. QED BY <3>1, <3>2
    <2>. QED BY <1>t, <1>6, <1>g, <2>1 DEF Client!PollConnects
  <1>7. CASE Client!Subscribes
    <2>0. Sub \in R
      BY DEF R
    <2>1. requests' \in Seq(R) /\ Len(requests') <= ReqCap
      BY <1>t, <1>7, <1>0, <2>0 DEF Client!Subscribes, Sub
    <2>2. toSubscribe' \in 0..Topics
      BY <1>t, <1>7, <1>0 DEF Client!Subscribes
    <2>. QED BY <1>t, <1>7, <1>g, <2>1, <2>2 DEF Client!Subscribes
  <1>8. CASE Client!PollFails \/ Client!PollsAgain
    BY <1>t, <1>8, <1>g DEF Client!PollFails, Client!PollsAgain, Client!queues
  <1>9. CASE Client!BrokerUp \/ Client!BrokerDown
    BY <1>t, <1>9, <1>g DEF Client!BrokerUp, Client!BrokerDown, Client!queues
  <1>10. CASE UNCHANGED clientVars
    BY <1>t, <1>10, <1>g DEF clientVars
  <1>. QED
    BY <1>1, <1>2, <1>3, <1>4, <1>5, <1>6, <1>7, <1>8, <1>9, <1>10
       DEF Client!Next, Client!EventLoop

(* The four queues as one, and what a step of a task does to it.           *)
Joined(p, r, h, o) == Sifted(p \o r, Sub) \o h \o o

Requests == ClientMessages \cup {Sub}

Three(a, b, c) == a \o b \o c
Four(a, b, c, d) == a \o b \o c \o d
Splits(j, a, k) == j = a \o k /\ k \in Seq(ClientMessages)

LEMMA FourInOne ==
    ASSUME NEW a \in Seq(ClientMessages), NEW b \in Seq(ClientMessages),
           NEW c \in Seq(ClientMessages), NEW d \in Seq(ClientMessages)
    PROVE  Splits(Four(a, b, c, d), a, Three(b, c, d))
  <1>1. PICK g, k : g = b \o c /\ k = g \o d
    OBVIOUS
  <1>2. g \in Seq(ClientMessages) /\ k \in Seq(ClientMessages)
    BY <1>1
  <1>3. (a \o b) \o c = a \o (b \o c)
    OBVIOUS
  <1>4. (a \o g) \o d = a \o (g \o d)
    BY <1>2
  <1>. QED BY <1>1, <1>2, <1>3, <1>4, Zenon DEF Three, Four, Splits

LEMMA KeptOfTwo ==
    ASSUME NEW c \in Seq(Requests), NEW d \in Seq(Requests)
    PROVE  Sifted(c \o d, Sub) = Sifted(c, Sub) \o Sifted(d, Sub)
  BY SiftedConcat

LEMMA KeptMessages ==
    ASSUME NEW s \in Seq(Requests)
    PROVE  Sifted(s, Sub) \in Seq(ClientMessages)
  <1>1. Requests \ {Sub} = ClientMessages
    BY DEF Requests, ClientMessages, Sub, Client!Subscription
  <1>. QED BY <1>1, SiftedSeq

LEMMA JoinedType ==
    ASSUME NEW p \in Seq(Requests), NEW r \in Seq(Requests),
           NEW h \in Seq(ClientMessages), NEW o \in Seq(ClientMessages)
    PROVE  /\ Joined(p, r, h, o) = ((Sifted(p, Sub) \o Sifted(r, Sub)) \o h) \o o
           /\ Joined(p, r, h, o) \in Seq(ClientMessages)
           /\ Len(Joined(p, r, h, o)) = Len(Sifted(p, Sub)) + Len(Sifted(r, Sub)) + Len(h) + Len(o)
  <1>1. Sifted(p \o r, Sub) = Sifted(p, Sub) \o Sifted(r, Sub)
    BY SiftedConcat
  <1>2. PICK a, b : a = Sifted(p, Sub) /\ b = Sifted(r, Sub)
    OBVIOUS
  <1>3. a \in Seq(ClientMessages) /\ b \in Seq(ClientMessages)
    BY <1>2, KeptMessages
  <1>4. /\ ((a \o b) \o h) \o o \in Seq(ClientMessages)
        /\ Len(((a \o b) \o h) \o o) = Len(a) + Len(b) + Len(h) + Len(o)
    BY <1>3
  <1>. QED BY <1>1, <1>2, <1>4, Zenon DEF Joined

LEMMA JoinedPublish ==
    ASSUME NEW p \in Seq(Requests), NEW r \in Seq(Requests), NEW h \in Seq(ClientMessages),
           NEW o \in Seq(ClientMessages), NEW m \in ClientMessages
    PROVE  Joined(p, r, h, Append(o, m)) = Append(Joined(p, r, h, o), m)
  <1>1. PICK a : a = Sifted(p \o r, Sub)
    OBVIOUS
  <1>2. a \in Seq(ClientMessages)
    <2>1. p \o r \in Seq(Requests)
      OBVIOUS
    <2>. QED BY <1>1, <2>1, KeptMessages
  <1>. QED BY <1>1, <1>2 DEF Joined

LEMMA HeadMoves ==
    ASSUME NEW a \in Seq(ClientMessages), NEW o \in Seq(ClientMessages), o # <<>>
    PROVE  Three(a, <<Head(o)>>, Tail(o)) = Three(a, <<>>, o)
  <1>1. PICK h, t : h = <<Head(o)>> /\ t = Tail(o)
    OBVIOUS
  <1>2. h \in Seq(ClientMessages) /\ t \in Seq(ClientMessages) /\ o = h \o t
    BY <1>1
  <1>3. a \o <<>> = a
    OBVIOUS
  <1>4. (a \o h) \o t = a \o (h \o t)
    BY <1>2
  <1>. QED BY <1>1, <1>2, <1>3, <1>4, Zenon DEF Three

LEMMA JoinedTake ==
    ASSUME NEW p \in Seq(Requests), NEW r \in Seq(Requests),
           NEW o \in Seq(ClientMessages), o # <<>>
    PROVE  Joined(p, r, <<Head(o)>>, Tail(o)) = Joined(p, r, <<>>, o)
  <1>1. p \o r \in Seq(Requests)
    OBVIOUS
  <1>2. Sifted(p \o r, Sub) \in Seq(ClientMessages)
    BY <1>1, KeptMessages
  <1>3. Three(Sifted(p \o r, Sub), <<Head(o)>>, Tail(o)) = Three(Sifted(p \o r, Sub), <<>>, o)
    BY <1>2, HeadMoves
  <1>. QED BY <1>3, Zenon DEF Joined, Three

LEMMA JoinedHand ==
    ASSUME NEW p \in Seq(Requests), NEW r \in Seq(Requests),
           NEW h \in Seq(ClientMessages), NEW o \in Seq(ClientMessages)
    PROVE  Joined(p, r \o h, <<>>, o) = Joined(p, r, h, o)
  <1>1. h \in Seq(Requests) /\ p \o r \in Seq(Requests)
    BY DEF Requests
  <1>2. p \o (r \o h) = (p \o r) \o h
    BY <1>1, ConcatAssociative
  <1>3. Sifted(h, Sub) = h
    BY SiftedWithout DEF ClientMessages, Sub, Client!Subscription
  <1>4. Sifted((p \o r) \o h, Sub) = Sifted(p \o r, Sub) \o h
    <2>1. Sifted((p \o r) \o h, Sub) = Sifted(p \o r, Sub) \o Sifted(h, Sub)
      BY <1>1, KeptOfTwo, Zenon
    <2>. QED BY <1>3, <2>1, Zenon
  <1>5. Sifted(p \o r, Sub) \o h \in Seq(ClientMessages)
    <2>1. Sifted(p \o r, Sub) \in Seq(ClientMessages)
      BY <1>1, KeptMessages
    <2>. QED BY <2>1
  <1>6. (Sifted(p \o r, Sub) \o h) \o <<>> = Sifted(p \o r, Sub) \o h
    BY <1>5, ConcatEmptySeq
  <1>. QED BY <1>2, <1>4, <1>6, Zenon DEF Joined

LEMMA JoinedLose ==
    ASSUME NEW p \in Seq(Requests), NEW r \in Seq(Requests), NEW h, NEW o
    PROVE  Joined(p \o r, <<>>, h, o) = Joined(p, r, h, o)
  <1>1. (p \o r) \o <<>> = p \o r
    OBVIOUS
  <1>. QED BY <1>1, Zenon DEF Joined

LEMMA JoinedSubscribe ==
    ASSUME NEW p \in Seq(Requests), NEW r \in Seq(Requests), NEW h, NEW o
    PROVE  Joined(p, Append(r, Sub), h, o) = Joined(p, r, h, o)
  <1>1. p \o Append(r, Sub) = Append(p \o r, Sub) /\ p \o r \in Seq(Requests) /\ Sub \in Requests
    <2>1. Sub \in Requests
      BY DEF Requests
    <2>. QED BY <2>1, AppendOfConcat
  <1>2. Sifted(Append(p \o r, Sub), Sub)
            = IF Sub = Sub THEN Sifted(p \o r, Sub) ELSE Append(Sifted(p \o r, Sub), Sub)
    BY <1>1, SiftedAppend
  <1>. QED BY <1>1, <1>2, Zenon DEF Joined

(* The first request kept goes: a message of the one queue, its first, or  *)
(* a subscription, which is none.                                          *)
LEMMA JoinedSend ==
    ASSUME NEW q \in Seq(Requests), q # <<>>,
           NEW h \in Seq(ClientMessages), NEW o \in Seq(ClientMessages), NEW j, NEW k,
           j = Three(Sifted(q, Sub), h, o), k = Three(Sifted(Tail(q), Sub), h, o)
    PROVE  k = j \/ (j # <<>> /\ k = Tail(j))
  <1>1. PICK t, m : t = Tail(q) /\ m = Head(q)
    OBVIOUS
  <1>2. t \in Seq(Requests) /\ m \in Requests
    BY <1>1
  <1>3. Sifted(q, Sub) = IF m = Sub THEN Sifted(t, Sub) ELSE <<m>> \o Sifted(t, Sub)
    <2>1. Sifted(q, Sub) = IF Head(q) = Sub THEN Sifted(Tail(q), Sub)
                           ELSE <<Head(q)>> \o Sifted(Tail(q), Sub)
      BY SiftedHead
    <2>. QED BY <1>1, <2>1, Zenon
  <1>4. CASE m = Sub
    BY <1>1, <1>3, <1>4, Zenon
  <1>5. CASE m # Sub
    <2>1. PICK a, f : a = Sifted(t, Sub) /\ f = <<m>>
      OBVIOUS
    <2>2. a \in Seq(ClientMessages) /\ f \in Seq(ClientMessages)
      BY <1>2, <1>5, <2>1, KeptMessages DEF Requests
    <2>3. j = Four(f, a, h, o) /\ k = Three(a, h, o)
      BY <1>1, <1>3, <1>5, <2>1, Zenon DEF Three, Four
    <2>4. Splits(j, f, k)
      BY <2>2, <2>3, FourInOne
    <2>5. j = f \o k /\ k \in Seq(ClientMessages)
      BY <2>4 DEF Splits
    <2>7. k \in Seq(ClientMessages) /\ m \in ClientMessages
      BY <1>2, <1>5, <2>5 DEF Requests
    <2>8. <<m>> \o k # <<>> /\ k = Tail(<<m>> \o k)
      BY <2>7
    <2>. QED BY <2>1, <2>5, <2>8, Zenon
  <1>. QED BY <1>4, <1>5

WithoutFirst(j, n) == SubSeq(j, n + 1, Len(j))

LEMMA JoinedForget ==
    ASSUME NEW p \in Seq(Requests), NEW r \in Seq(Requests), NEW h \in Seq(ClientMessages),
           NEW o \in Seq(ClientMessages), NEW j, j = Joined(p, r, h, o)
    PROVE  Joined(<<>>, r, h, o) = WithoutFirst(j, Len(Sifted(p, Sub)))
  <1>1. PICK a, b : a = Sifted(p, Sub) /\ b = Sifted(r, Sub)
    OBVIOUS
  <1>2. a \in Seq(ClientMessages) /\ b \in Seq(ClientMessages)
    BY <1>1, KeptMessages
  <1>3. j = Four(a, b, h, o)
    BY <1>1, JoinedType DEF Four
  <1>4. PICK k : k = Three(b, h, o)
    OBVIOUS
  <1>5. Splits(j, a, k)
    BY <1>2, <1>3, <1>4, FourInOne
  <1>6. j = a \o k /\ k \in Seq(ClientMessages)
    BY <1>5 DEF Splits
  <1>7. SubSeq(j, Len(a) + 1, Len(j)) = k
    BY <1>2, <1>6
  <1>8. <<>> \o r = r
    OBVIOUS
  <1>9. Joined(<<>>, r, h, o) = k
    BY <1>1, <1>4, <1>8, Zenon DEF Joined, Three
  <1>. QED BY <1>1, <1>7, <1>9, Zenon DEF WithoutFirst
-----------------------------------------------------------------------------
(* The messages of the four queues are no more than were published, and    *)
(* only the loss of a connection leaves some pending.                      *)
Held == Client!Sifted(pending \o requests, Client!Subscription) \o hand \o mqttOut

ClientInv ==
    /\ Len(Held) <= published
    /\ pending # <<>> => clientOutages > 0

linked == conn # "none"

LEMMA HeldIsJoined ==
    /\ Held = Joined(pending, requests, hand, mqttOut)
    /\ Held' = Joined(pending', requests', hand', mqttOut')
  <1>1. ASSUME NEW s, NEW x PROVE Client!Sifted(s, x) = Sifted(s, x)
    BY DEF Sifted, Client!Sifted
  <1>2. Held = Joined(pending, requests, hand, mqttOut)
    BY <1>1, Zenon DEF Held, Joined, Sub
  <1>3. Held' = Joined(pending', requests', hand', mqttOut')
    BY <1>1, Zenon DEF Held, Joined, Sub
  <1>. QED BY <1>2, <1>3

(* The actions of AppBus under the refinement mapping.                     *)
LEMMA Mapping ==
    /\ \A m \in ClientMessages :
          /\ Client!Bus!Accepted(m) <=> /\ Len(Held) < OutCap + MaxPublished
                                       /\ Held' = Append(Held, m)
                                       /\ linked' = linked /\ clientOutages' = clientOutages
          /\ Client!Bus!Dropped(m) <=> /\ Len(Held) >= OutCap /\ Held' = Held
                                      /\ linked' = linked /\ clientOutages' = clientOutages
    /\ Client!Bus!Acknowledged <=> /\ linked /\ Held # <<>> /\ Held' = Tail(Held)
                                  /\ linked' = linked /\ clientOutages' = clientOutages
    /\ Client!Bus!LinkLost <=> /\ linked /\ clientOutages < MaxClientOutages
                              /\ linked' = FALSE /\ clientOutages' = clientOutages + 1
                              /\ Held' = Held
    /\ \A n : Client!Bus!LinkBack(n) <=> /\ ~linked /\ (n > 0 => clientOutages > 0)
                                         /\ linked' = TRUE
                                         /\ Held' = SubSeq(Held, n + 1, Len(Held))
                                         /\ clientOutages' = clientOutages
    /\ UNCHANGED Client!Bus!busVars
          <=> Held' = Held /\ linked' = linked /\ clientOutages' = clientOutages
    /\ Client!Bus!BusNext
          <=> \/ \E m \in ClientMessages : Client!Bus!Accepted(m) \/ Client!Bus!Dropped(m)
              \/ Client!Bus!Acknowledged \/ Client!Bus!LinkLost
              \/ \E n \in 0 .. Len(Held) : Client!Bus!LinkBack(n)
    /\ Client!Bus!BusInit <=> Held = <<>> /\ linked = FALSE /\ clientOutages = 0
  <1>1. ASSUME NEW m \in ClientMessages
        PROVE  /\ Client!Bus!Accepted(m) <=> /\ Len(Held) < OutCap + MaxPublished
                                       /\ Held' = Append(Held, m)
                                       /\ linked' = linked /\ clientOutages' = clientOutages
               /\ Client!Bus!Dropped(m) <=> /\ Len(Held) >= OutCap /\ Held' = Held
                                      /\ linked' = linked /\ clientOutages' = clientOutages
    BY Zenon DEF Client!Bus!Accepted, Client!Bus!Dropped, Client!Bus!busVars, Held, linked
  <1>2. Client!Bus!Acknowledged <=> /\ linked /\ Held # <<>> /\ Held' = Tail(Held)
                                  /\ linked' = linked /\ clientOutages' = clientOutages
    BY Zenon DEF Client!Bus!Acknowledged, Held, linked
  <1>3. Client!Bus!LinkLost <=> /\ linked /\ clientOutages < MaxClientOutages
                              /\ linked' = FALSE /\ clientOutages' = clientOutages + 1
                              /\ Held' = Held
    BY Zenon DEF Client!Bus!LinkLost, Held, linked
  <1>4. ASSUME NEW n
        PROVE  Client!Bus!LinkBack(n) <=> /\ ~linked /\ (n > 0 => clientOutages > 0)
                                         /\ linked' = TRUE
                                         /\ Held' = SubSeq(Held, n + 1, Len(Held))
                                         /\ clientOutages' = clientOutages
    BY Zenon DEF Client!Bus!LinkBack, Held, linked
  <1>5. UNCHANGED Client!Bus!busVars
          <=> Held' = Held /\ linked' = linked /\ clientOutages' = clientOutages
    BY Zenon DEF Client!Bus!busVars, Held, linked
  <1>6. Client!Bus!BusNext
          <=> \/ \E m \in ClientMessages : Client!Bus!Accepted(m) \/ Client!Bus!Dropped(m)
              \/ Client!Bus!Acknowledged \/ Client!Bus!LinkLost
              \/ \E n \in 0 .. Len(Held) : Client!Bus!LinkBack(n)
    BY Zenon DEF Client!Bus!BusNext, Client!Bus!Publish, Held
  <1>7. Client!Bus!BusInit <=> Held = <<>> /\ linked = FALSE /\ clientOutages = 0
    BY Zenon DEF Client!Bus!BusInit, Held, linked
  <1>. QED BY <1>1, <1>2, <1>3, <1>4, <1>5, <1>6, <1>7, Zenon

LEMMA ClientStep ==
    ASSUME ClientTypes, ClientInv, [Client!Next]_clientVars
    PROVE  ClientInv' /\ [Client!Bus!BusNext]_(Client!Bus!busVars)
  <1>0. /\ OutCap \in Nat /\ MaxPublished \in Nat /\ MaxClientOutages \in Nat
    BY ClientBounds DEF Client!ClientAssumption
  <1>t. /\ mqttOut \in Seq(ClientMessages) /\ Len(mqttOut) <= OutCap
        /\ hand \in Seq(ClientMessages) /\ Len(hand) <= 1
        /\ requests \in Seq(Requests) /\ pending \in Seq(Requests)
        /\ conn \in {"none", "up", "dead"}
        /\ published \in Nat /\ published <= MaxPublished /\ clientOutages \in Nat
    BY DEF ClientTypes, Client!TypeOK, Requests, Sub
  <1>h. PICK H, G : H = Held /\ G = Held'
    OBVIOUS
  <1>j. /\ H = Joined(pending, requests, hand, mqttOut)
        /\ G = Joined(pending', requests', hand', mqttOut')
    BY <1>h, HeldIsJoined, Zenon
  <1>l. /\ H \in Seq(ClientMessages)
        /\ Len(H) = Len(Sifted(pending, Sub)) + Len(Sifted(requests, Sub)) + Len(hand) + Len(mqttOut)
    BY <1>t, <1>j, JoinedType
  <1>k. Sifted(pending, Sub) \in Seq(ClientMessages) /\ Sifted(requests, Sub) \in Seq(ClientMessages)
    BY <1>t, KeptMessages
  <1>i. Len(H) \in Nat /\ Len(H) <= published /\ (pending # <<>> => clientOutages > 0)
    <2>1. Len(H) \in Nat
      BY <1>l
    <2>. QED BY <1>h, <2>1, Zenon DEF ClientInv
  <1>p. ASSUME Len(G) <= published' , pending' # <<>> => clientOutages' > 0
        PROVE  ClientInv'
    BY <1>p, <1>h, Zenon DEF ClientInv
  <1>s. ASSUME G = H, linked' = linked, clientOutages' = clientOutages,
               published' = published, pending' = pending
        PROVE  ClientInv' /\ UNCHANGED Client!Bus!busVars
    BY <1>s, <1>h, <1>i, <1>p, Mapping, Zenon
  <1>1. ASSUME NEW m \in ClientMessages, Client!Publish(m)
        PROVE  ClientInv' /\ (Client!Bus!Accepted(m) \/ Client!Bus!Dropped(m))
    <2>0. /\ published < MaxPublished /\ published' = published + 1
          /\ linked' = linked /\ clientOutages' = clientOutages
          /\ hand' = hand /\ requests' = requests /\ pending' = pending
      BY <1>1 DEF Client!Publish, linked
    <2>1. CASE Len(mqttOut) < OutCap
      <3>1. mqttOut' = Append(mqttOut, m)
        BY <1>1, <2>1 DEF Client!Publish
      <3>2. G = Append(H, m)
        BY <1>t, <1>j, <2>0, <3>1, JoinedPublish
      <3>3. Len(G) = Len(H) + 1
        BY <1>l, <3>2
      <3>4. Len(H) < OutCap + MaxPublished /\ Len(G) <= published'
        BY <1>0, <1>i, <1>t, <2>0, <3>3
      <3>5. ClientInv'
        BY <1>i, <1>p, <2>0, <3>4, Zenon
      <3>6. Client!Bus!Accepted(m)
        BY <1>h, <2>0, <3>2, <3>4, Mapping, Zenon
      <3>. QED BY <3>5, <3>6
    <2>2. CASE ~(Len(mqttOut) < OutCap)
      <3>1. mqttOut' = mqttOut
        BY <1>1, <2>2 DEF Client!Publish
      <3>2. G = H
        BY <1>j, <2>0, <3>1, Zenon
      <3>3. Len(H) >= OutCap /\ Len(G) <= published'
        BY <1>0, <1>i, <1>k, <1>l, <1>t, <2>0, <2>2, <3>2
      <3>4. ClientInv'
        BY <1>i, <1>p, <2>0, <3>3, Zenon
      <3>5. Client!Bus!Dropped(m)
        BY <1>h, <2>0, <3>2, <3>3, Mapping, Zenon
      <3>. QED BY <3>4, <3>5
    <2>. QED BY <2>1, <2>2
  <1>2. CASE Client!PublisherTakes
    <2>1. /\ hand = <<>> /\ mqttOut # <<>>
          /\ hand' = <<Head(mqttOut)>> /\ mqttOut' = Tail(mqttOut)
          /\ linked' = linked /\ clientOutages' = clientOutages /\ published' = published
          /\ requests' = requests /\ pending' = pending
      BY <1>2 DEF Client!PublisherTakes, linked
    <2>2. Joined(pending, requests, <<Head(mqttOut)>>, Tail(mqttOut))
              = Joined(pending, requests, <<>>, mqttOut)
      BY <1>t, <2>1, JoinedTake
    <2>3. G = H
      BY <1>j, <2>1, <2>2, Zenon
    <2>. QED BY <1>s, <2>1, <2>3
  <1>3. CASE Client!PublisherHands
    <2>1. /\ hand' = <<>> /\ requests' = requests \o hand
          /\ linked' = linked /\ clientOutages' = clientOutages /\ published' = published
          /\ mqttOut' = mqttOut /\ pending' = pending
      BY <1>3 DEF Client!PublisherHands, linked
    <2>2. Joined(pending, requests \o hand, <<>>, mqttOut) = Joined(pending, requests, hand, mqttOut)
      BY <1>t, JoinedHand
    <2>3. G = H
      BY <1>j, <2>1, <2>2, Zenon
    <2>. QED BY <1>s, <2>1, <2>3
  <1>4. CASE Client!PollSends
    <2>0. /\ linked /\ linked' = linked /\ clientOutages' = clientOutages
          /\ published' = published /\ mqttOut' = mqttOut /\ hand' = hand
      BY <1>4 DEF Client!PollSends, linked
    <2>1. G = H \/ (H # <<>> /\ G = Tail(H))
      <3>1. CASE pending # <<>> /\ pending' = Tail(pending) /\ requests' = requests
        <4>1. PICK q : q = pending \o requests
          OBVIOUS
        <4>2. q \in Seq(Requests) /\ q # <<>> /\ Tail(q) = pending' \o requests'
          BY <1>t, <3>1, <4>1
        <4>3. H = Three(Sifted(q, Sub), hand, mqttOut) /\ G = Three(Sifted(Tail(q), Sub), hand, mqttOut)
          BY <1>j, <2>0, <4>1, <4>2, Zenon DEF Joined, Three
        <4>. QED BY <1>t, <4>2, <4>3, JoinedSend
      <3>2. CASE pending = <<>> /\ requests # <<>> /\ requests' = Tail(requests) /\ pending' = pending
        <4>1. PICK q : q = pending \o requests
          OBVIOUS
        <4>2. q = requests
          BY <1>t, <3>2, <4>1
        <4>3. Tail(requests) \in Seq(Requests)
          BY <1>t, <3>2
        <4>4. pending' \o requests' = Tail(requests)
          BY <3>2, <4>3
        <4>5. H = Three(Sifted(q, Sub), hand, mqttOut) /\ G = Three(Sifted(Tail(q), Sub), hand, mqttOut)
          BY <1>j, <2>0, <4>1, <4>2, <4>4, Zenon DEF Joined, Three
        <4>. QED BY <1>t, <3>2, <4>2, <4>5, JoinedSend
      <3>. QED BY <1>4, <3>1, <3>2 DEF Client!PollSends
    <2>2. pending' # <<>> => pending # <<>>
      BY <1>4 DEF Client!PollSends
    <2>3. CASE G = H
      <3>1. ClientInv'
        BY <1>i, <1>p, <2>0, <2>2, <2>3, Zenon
      <3>. QED BY <1>h, <2>0, <2>3, <3>1, Mapping, Zenon
    <2>4. CASE H # <<>> /\ G = Tail(H)
      <3>1. Len(G) <= published'
        BY <1>i, <1>l, <1>t, <2>0, <2>4
      <3>2. ClientInv'
        BY <1>i, <1>p, <2>0, <2>2, <3>1, Zenon
      <3>3. Client!Bus!Acknowledged
        BY <1>h, <2>0, <2>4, Mapping, Zenon
      <3>. QED BY <3>2, <3>3, Mapping, Zenon
    <2>. QED BY <2>1, <2>3, <2>4
  <1>5. CASE Client!PollLoses
    <2>1. /\ linked /\ linked' = FALSE /\ clientOutages < MaxClientOutages
          /\ clientOutages' = clientOutages + 1 /\ published' = published
          /\ pending' = pending \o requests /\ requests' = <<>>
          /\ mqttOut' = mqttOut /\ hand' = hand
      BY <1>5 DEF Client!PollLoses, linked
    <2>2. Joined(pending \o requests, <<>>, hand, mqttOut) = Joined(pending, requests, hand, mqttOut)
      BY <1>t, JoinedLose
    <2>3. G = H
      BY <1>j, <2>1, <2>2, Zenon
    <2>4. clientOutages' > 0
      BY <1>t, <2>1
    <2>5. ClientInv'
      BY <1>i, <1>p, <2>1, <2>3, <2>4, Zenon
    <2>6. Client!Bus!LinkLost
      BY <1>h, <2>1, <2>3, Mapping, Zenon
    <2>. QED BY <2>5, <2>6, Mapping, Zenon
  <1>6. CASE Client!PollConnects
    <2>1. /\ ~linked /\ linked' = TRUE /\ clientOutages' = clientOutages
          /\ published' = published /\ requests' = requests
          /\ mqttOut' = mqttOut /\ hand' = hand /\ (pending' = pending \/ pending' = <<>>)
      BY <1>6 DEF Client!PollConnects, linked
    <2>2. CASE pending' = pending
      <3>1. G = H
        BY <1>j, <2>1, <2>2, Zenon
      <3>2. G = SubSeq(H, 0 + 1, Len(H)) /\ ~(0 > 0) /\ 0 \in 0 .. Len(H)
        BY <1>l, <1>i, <3>1
      <3>3. Client!Bus!LinkBack(0)
        BY <1>h, <2>1, <3>2, Mapping, Zenon
      <3>4. ClientInv'
        BY <1>i, <1>p, <2>1, <2>2, <3>1, Zenon
      <3>. QED BY <1>h, <3>2, <3>3, <3>4, Mapping, Zenon
    <2>3. CASE pending' = <<>>
      <3>1. PICK n : n = Len(Sifted(pending, Sub))
        OBVIOUS
      <3>2. G = SubSeq(H, n + 1, Len(H))
        <4>1. Joined(<<>>, requests, hand, mqttOut) = WithoutFirst(H, Len(Sifted(pending, Sub)))
          BY <1>t, <1>j, JoinedForget
        <4>. QED BY <1>j, <2>1, <2>3, <3>1, <4>1, Zenon DEF WithoutFirst
      <3>3. n \in 0 .. Len(H)
        BY <1>k, <1>l, <1>t, <3>1
      <3>4. n > 0 => clientOutages > 0
        <4>1. CASE pending = <<>>
          <5>1. n = 0
            BY <3>1, <4>1, SiftedEmpty
          <5>. QED BY <5>1
        <4>. QED BY <1>i, <4>1
      <3>5. Len(G) <= published'
        BY <1>i, <1>l, <1>t, <2>1, <3>2, <3>3
      <3>6. Client!Bus!LinkBack(n)
        BY <1>h, <2>1, <3>2, <3>4, Mapping, Zenon
      <3>7. ClientInv'
        BY <1>p, <2>3, <3>5
      <3>. QED BY <1>h, <3>3, <3>6, <3>7, Mapping, Zenon
    <2>. QED BY <2>1, <2>2, <2>3
  <1>7. CASE Client!Subscribes
    <2>1. /\ requests' = Append(requests, Sub)
          /\ linked' = linked /\ clientOutages' = clientOutages /\ published' = published
          /\ mqttOut' = mqttOut /\ hand' = hand /\ pending' = pending
      BY <1>7 DEF Client!Subscribes, linked, Sub
    <2>2. Joined(pending, Append(requests, Sub), hand, mqttOut) = Joined(pending, requests, hand, mqttOut)
      BY <1>t, JoinedSubscribe
    <2>3. G = H
      BY <1>j, <2>1, <2>2, Zenon
    <2>. QED BY <1>s, <2>1, <2>3
  <1>8. CASE \/ Client!PollFails \/ Client!PollsAgain \/ Client!BrokerUp \/ Client!BrokerDown
             \/ UNCHANGED clientVars
    <2>1. /\ requests' = requests /\ clientOutages' = clientOutages /\ published' = published
          /\ mqttOut' = mqttOut /\ hand' = hand /\ pending' = pending
      BY <1>8 DEF Client!PollFails, Client!PollsAgain, Client!BrokerUp, Client!BrokerDown,
                  Client!queues, clientVars
    <2>2. linked' = linked
      BY <1>8, <1>t DEF Client!PollFails, Client!PollsAgain, Client!BrokerUp,
                  Client!BrokerDown, clientVars, linked
    <2>3. G = H
      BY <1>j, <2>1, Zenon
    <2>. QED BY <1>s, <2>1, <2>2, <2>3
  <1>. QED
    <2>1. (\E m \in ClientMessages : Client!Publish(m)) => ClientInv' /\ Client!Bus!BusNext
      BY <1>1, Mapping, Zenon
    <2>. QED BY <2>1, <1>2, <1>3, <1>4, <1>5, <1>6, <1>7, <1>8, Zenon
             DEF Client!Next, Client!EventLoop

LEMMA ClientStart == Client!Init => ClientTypes /\ ClientInv /\ Client!Bus!BusInit
  <1> SUFFICES ASSUME Client!Init PROVE ClientTypes /\ ClientInv /\ Client!Bus!BusInit
    OBVIOUS
  <1>0. /\ OutCap \in Nat /\ ReqCap \in Nat /\ Topics \in Nat
        /\ MaxPublished \in Nat /\ MaxClientOutages \in Nat
    BY ClientBounds DEF Client!ClientAssumption
  <1>1. /\ mqttOut = <<>> /\ hand = <<>> /\ requests = <<>> /\ pending = <<>>
        /\ conn = "none" /\ published = 0 /\ clientOutages = 0
        /\ loop = "poll" /\ toSubscribe = 0 /\ broker = FALSE
    BY DEF Client!Init
  <1>e. \A S : <<>> \in Seq(S) /\ Len(<<>>) = 0
    BY EmptySeq
  <1>2. ClientTypes
    <2>1. /\ Len(mqttOut) <= OutCap /\ Len(hand) <= 1 /\ Len(requests) <= ReqCap
          /\ toSubscribe \in 0..Topics /\ published \in 0..MaxPublished
          /\ clientOutages \in 0..MaxClientOutages
      BY <1>0, <1>1, <1>e
    <2>. QED BY <1>1, <1>e, <2>1, Zenon DEF ClientTypes, Client!TypeOK
  <1>3. Held = <<>>
    <2>1. Joined(<<>>, <<>>, <<>>, <<>>) = <<>>
      <3>1. \A s \in Seq({}) : s \o <<>> = s
        OBVIOUS
      <3>2. <<>> \o <<>> = <<>>
        BY <1>e, <3>1, Zenon
      <3>. QED BY <3>2, SiftedEmpty, Zenon DEF Joined
    <2>. QED BY <1>1, <2>1, HeldIsJoined, Zenon
  <1>4. Client!Bus!BusInit
    <2>1. linked = FALSE
      BY <1>1 DEF linked
    <2>. QED BY <1>1, <1>3, <2>1, Mapping, Zenon
  <1>5. ClientInv
    <2>1. Len(Held) <= published
      BY <1>1, <1>3, <1>e
    <2>. QED BY <1>1, <2>1, Zenon DEF ClientInv
  <1>. QED BY <1>2, <1>4, <1>5

LEMMA ClientVarsAre == UNCHANGED Client!vars <=> UNCHANGED clientVars
  BY DEF Client!vars, Client!queues, clientVars

LEMMA ClientTypesHold == Client!Spec => []ClientTypes
  <1>1. ClientTypes /\ [Client!Next]_(Client!vars) => ClientTypes'
    BY ClientTypesKept, ClientVarsAre
  <1>. QED BY <1>1, ClientStart, PTL DEF Client!Spec

(* What AppBus promises is kept by the tasks around rumqttc: the mpsc      *)
(* channel, the message in hand, the request channel and what is pending   *)
(* are one queue that loses nothing but to a full channel or a forgotten   *)
(* session, and never reorders (mqtt/client.rs, bus.rs).                   *)
THEOREM ClientImplementsBus == Client!Spec => KeepsPromise
  <1>1. ClientTypes /\ ClientInv /\ [Client!Next]_(Client!vars)
            => ClientInv' /\ [Client!Bus!BusNext]_(Client!Bus!busVars)
    BY ClientStep, ClientVarsAre
  <1>. QED BY <1>1, ClientStart, ClientTypesHold, PTL
           DEF Client!Spec, KeepsPromise, Client!KeepsPromise, Client!Bus!BusSpec
-----------------------------------------------------------------------------
(* The run checks both halves at once: its behaviours are behaviours of    *)
(* each, so that what is proved of a half holds of the run.                *)

LEMMA RunIsBoth == AllSpec => Spec /\ Client!Spec
  <1>1. AllInit => Init /\ Client!Init
    BY DEF AllInit
  <1>2. [AllNext]_allVars => [Next]_vars /\ [Client!Next]_(Client!vars)
    BY ClientVarsAre DEF AllNext, allVars
  <1>. QED BY <1>1, <1>2, PTL DEF AllSpec, Spec, Client!Spec

(* Both halves keep their types: no call of publish overflows a channel,   *)
(* and the bounds of the queues hold through crashes and reconnections.    *)
THEOREM PathTypesKept == AllSpec => []MqttTypesOK
  <1>1. TypeOK /\ ClientTypes => MqttTypesOK
    BY DEF MqttTypesOK, ClientTypes
  <1>. QED BY <1>1, RunIsBoth, RelayTypesHold, ClientTypesHold, PTL

(* The relay of the run reads what the client keeps.                       *)
THEOREM PathKeepsItsWord == AllSpec => []PersistedWhenQuiet /\ KeepsPromise
  BY RunIsBoth, LastStateRetained, ClientImplementsBus, PTL
=============================================================================
