--------------------------- MODULE DecisionProofs ----------------------------
(***************************************************************************)
(* What ReadSide decides and the devices do, for every value of the        *)
(* constants: the commands of a BMS, the settings of the inverter, the air *)
(* conditioner and the water heater.                                       *)
(***************************************************************************)
EXTENDS ReadSide, SiftingProofs

-----------------------------------------------------------------------------
(* The commands of a BMS.                                                  *)

Answers == {"none", "ok", "warning", "error", "settings", "refused"}

CommandValues == Seq(Int)
RegisterCount == Len(Commands!Registers)

CommandRequests ==
    [op : {"none", "settings", "write"}, register : Commands!Register \cup {"none"},
     value : CommandValues, attempt : Nat, got : Seq(CommandValues), answer : Answers]

\* What client c has read of register i is what was last written to it.
GotHeld(c, i) ==
    LET r == Commands!Registers[i] IN
    \/ r \in overwritten[c] \/ ~Commands!Representable(r, setTo[r])
    \/ client[c].got[i] = setTo[r]

\* What a client has read so far, and what it was told.
ClientInv(c) ==
    /\ client[c].attempt <= 2
    /\ client[c].op # "none" => client[c].answer = "none"
    /\ client[c].op = "write" =>
          /\ access = "full" /\ client[c].got = <<>> /\ client[c].register \in Commands!Register
          /\ client[c].value \in Commands!Thresholds(client[c].register)
    /\ client[c].op = "settings" => Len(client[c].got) < RegisterCount
    /\ client[c].answer = "settings" => Len(client[c].got) = RegisterCount
    /\ Len(client[c].got) <= RegisterCount
    /\ \A i \in 1..Len(client[c].got) : GotHeld(c, i)
    /\ client[c].answer = "ok" =>
          /\ client[c].register \in Commands!Register
          /\ client[c].register \in overwritten[c] \/ setTo[client[c].register] = client[c].value

\* The registers hold what was last written to them.
RegistersInv ==
    /\ access \in {"full", "read_only", "no_port"}
    /\ client \in [Clients -> CommandRequests]
    /\ overwritten \in [Clients -> SUBSET Commands!Register]
    /\ setTo \in [Commands!Register -> CommandValues]
    /\ \A r \in Commands!Register : setTo[r] \in Commands!Thresholds(r)
    /\ bms = [r \in Commands!Register |-> Commands!Encoded(r, setTo[r])]
    /\ access # "full" => setTo = Factory
    /\ failures \in 0..MaxFaults /\ requests \in 0..MaxRequests

CommandsInv == RegistersInv /\ \A c \in Clients : ClientInv(c)

LEMMA RegisterNames ==
    /\ RegisterCount \in Nat \ {0} /\ DOMAIN Commands!Registers = 1..RegisterCount
    /\ \A i \in 1..RegisterCount : Commands!Registers[i] \in Commands!Register
    /\ \A r \in Commands!Register : r # "none"
    /\ MaxFaults \in Nat /\ MaxRequests \in Nat
    /\ Factory \in [Commands!Register -> Seq(Int)]
    /\ \A r \in Commands!Register : Factory[r] \in Commands!Thresholds(r)
    /\ \A r \in DOMAIN Settable : r \in Commands!Register
                                  /\ Settable[r] \subseteq Commands!Thresholds(r)
  <1>1. Commands!CommandsAssumption
    BY ReadSideBounds
  <1>. QED BY <1>1 DEF Commands!CommandsAssumption, Commands!Registers, RegisterCount

LEMMA U16Bounds ==
    Commands!Zero \in Nat /\ Commands!MaxU16 \in Nat /\ Commands!Zero <= Commands!MaxU16
  BY DEF Commands!Zero, Commands!MaxU16

LEMMA ThresholdsEncoded ==
    ASSUME NEW r, NEW v \in Commands!Thresholds(r)
    PROVE  /\ v \in Seq(Int)
           /\ Commands!Encoded(r, v) \in Seq(Commands!U16)
           /\ Commands!Decoded(r, Commands!Encoded(r, v)) \in Seq(Int)
           /\ Commands!Representable(r, v) => Commands!Decoded(r, Commands!Encoded(r, v)) = v
  <1>1. CASE r = "current"
    <2>1. v \in Seq(Int) /\ Len(v) = 2 /\ v[1] \in Int /\ v[2] \in Int /\ <<v[1], v[2]>> = v
      BY <1>1 DEF Commands!Thresholds
    <2>2. \A n \in Int : /\ Commands!Saturated(n) \in Commands!U16
                         /\ n \in Commands!U16 => Commands!Saturated(n) = n
      BY U16Bounds DEF Commands!Saturated, Commands!U16
    <2>3. \A n \in Int : Commands!Magnitude(n) \in Int /\ (n >= 0 => Commands!Magnitude(n) = n)
      BY DEF Commands!Magnitude
    <2>4. PICK a, b : a = Commands!Saturated(Commands!Zero - v[1])
                      /\ b = Commands!Saturated(Commands!Zero + v[2])
      OBVIOUS
    <2>5. a \in Commands!U16 /\ b \in Commands!U16 /\ a \in Int /\ b \in Int
      BY <2>1, <2>2, <2>4, U16Bounds DEF Commands!U16
    <2>6. PICK c, d : c = Commands!Magnitude(Commands!Zero - a) /\ d = Commands!Magnitude(b - Commands!Zero)
      OBVIOUS
    <2>7. c \in Int /\ d \in Int
      BY <2>3, <2>5, <2>6, U16Bounds
    <2>8. Commands!Encoded(r, v) = <<a, b>> /\ <<a, b>> \in Seq(Commands!U16)
      BY <1>1, <2>4, <2>5 DEF Commands!Encoded
    <2>9. Commands!Decoded(r, <<a, b>>) = <<c, d>> /\ <<c, d>> \in Seq(Int)
      BY <1>1, <2>6, <2>7 DEF Commands!Decoded
    <2>10. ASSUME Commands!Representable(r, v) PROVE c = v[1] /\ d = v[2]
      <3>1. v[1] \in 0..Commands!Zero /\ v[2] \in 0..Commands!MaxU16 - Commands!Zero
        BY <1>1, <2>10 DEF Commands!Representable
      <3>2. a = Commands!Zero - v[1] /\ b = Commands!Zero + v[2]
        BY <2>1, <2>2, <2>4, <3>1, U16Bounds DEF Commands!U16
      <3>. QED BY <2>1, <2>3, <2>6, <3>1, <3>2, U16Bounds
    <2>. QED BY <2>1, <2>8, <2>9, <2>10, Zenon
  <1>2. CASE r # "current"
    <2>1. v \in Seq(Commands!U16)
      BY <1>2 DEF Commands!Thresholds
    <2>2. v \in Seq(Int)
      BY <2>1, U16Bounds DEF Commands!U16
    <2>. QED BY <1>2, <2>1, <2>2 DEF Commands!Encoded, Commands!Decoded
  <1>. QED BY <1>1, <1>2

LEMMA IdleRequest ==
    Commands!Idle \in CommandRequests /\ <<>> \in Seq(CommandValues)
  <1>1. <<>> \in Seq(CommandValues) /\ <<>> \in CommandValues
    BY EmptySeq DEF CommandValues
  <1>. QED BY <1>1 DEF Commands!Idle, CommandRequests, Answers

LEMMA CommandsInvInit == Commands!CommandsInit => CommandsInv
  <1> SUFFICES ASSUME Commands!CommandsInit PROVE CommandsInv
    OBVIOUS
  <1> USE DEF Commands!CommandsInit
  <1>1. Factory \in [Commands!Register -> Seq(Int)]
    BY RegisterNames
  <1>2. Commands!Idle \in CommandRequests /\ Commands!Idle.op = "none"
        /\ Commands!Idle.answer = "none" /\ Commands!Idle.got = <<>> /\ Commands!Idle.attempt = 0
    BY EmptySeq DEF Commands!Idle, CommandRequests, Answers, CommandValues
  <1>3. RegistersInv
    BY <1>1, <1>2, RegisterNames DEF RegistersInv, CommandValues
  <1>4. \A c \in Clients : ClientInv(c)
    <2>1. Len(<<>>) = 0
      OBVIOUS
    <2>. QED BY <1>2, <2>1, RegisterNames DEF ClientInv
  <1>. QED BY <1>3, <1>4 DEF CommandsInv

\* A client begins with a request that says nothing yet.
LEMMA CommandsAsk ==
    ASSUME CommandsInv, NEW c \in Clients, NEW q \in CommandRequests, Commands!Ask(c, q),
           q.got = <<>>, q.attempt = 0, q.answer \in {"none", "refused"}, q.op # "none" => q.answer = "none",
           q.op = "write" => /\ access = "full" /\ q.register \in Commands!Register
                             /\ q.value \in Commands!Thresholds(q.register)
    PROVE  CommandsInv'
  <1> USE DEF CommandsInv, Commands!Ask
  <1>1. RegistersInv'
    BY RegisterNames DEF RegistersInv, Commands!Free
  <1>2. ClientInv(c)'
    <2>1. client'[c] = q
      BY DEF RegistersInv
    <2>. QED BY <2>1, RegisterNames DEF ClientInv
  <1>3. \A d \in Clients : d # c => ClientInv(d)'
    <2>1. \A d \in Clients : d # c => client'[d] = client[d] /\ overwritten'[d] = overwritten[d]
      BY DEF RegistersInv
    <2>2. ASSUME NEW d \in Clients, d # c PROVE ClientInv(d)'
      <3>1. ClientInv(d) /\ client'[d] = client[d] /\ overwritten'[d] = overwritten[d]
        BY <2>1, <2>2
      <3>. QED BY <3>1 DEF ClientInv, GotHeld
    <2>. QED BY <2>2
  <1>. QED BY <1>1, <1>2, <1>3

LEMMA ClientFields ==
    ASSUME CommandsInv, NEW c \in Clients
    PROVE  /\ client[c] \in CommandRequests
           /\ client[c].got \in Seq(CommandValues) /\ Len(client[c].got) \in 0..RegisterCount
           /\ client[c].op # "none" => client[c].answer = "none"
           /\ client[c].op = "settings" => Len(client[c].got) < RegisterCount
  <1>1. client[c] \in CommandRequests /\ ClientInv(c)
    BY DEF CommandsInv, RegistersInv
  <1>2. client[c].got \in Seq(CommandValues) /\ Len(client[c].got) \in Nat
    BY <1>1 DEF CommandRequests
  <1>. QED BY <1>1, <1>2, RegisterNames DEF ClientInv

LEMMA CommandsReadRegister ==
    ASSUME CommandsInv, NEW c \in Clients, Commands!ReadRegister(c)
    PROVE  CommandsInv'
  <1> USE DEF CommandsInv
  <1>1. PICK n, r, v : /\ n = Len(client[c].got) + 1 /\ r = Commands!Registers[n]
                       /\ v = Commands!Decoded(r, bms[r])
    OBVIOUS
  <1>2. /\ client[c].op = "settings" /\ n \in 1..RegisterCount /\ Len(client[c].got) = n - 1
        /\ client[c] \in CommandRequests /\ client[c].got \in Seq(CommandValues)
        /\ client[c].answer = "none"
    BY <1>1, ClientFields, RegisterNames DEF Commands!ReadRegister
  <1>3. r \in Commands!Register
    BY <1>1, <1>2, RegisterNames
  <1>4. /\ v \in CommandValues
        /\ ~Commands!Representable(r, setTo[r]) \/ v = setTo[r]
    <2>1. bms[r] = Commands!Encoded(r, setTo[r]) /\ setTo[r] \in Commands!Thresholds(r)
      BY <1>3 DEF RegistersInv
    <2>. QED BY <1>1, <2>1, ThresholdsEncoded, Zenon DEF CommandValues
  <1>5. PICK got : /\ got = Append(client[c].got, v) /\ got \in Seq(CommandValues) /\ Len(got) = n
                   /\ got[n] = v /\ \A i \in 1..n - 1 : got[i] = client[c].got[i]
                   /\ \A i \in 1..n : i \in 1..n - 1 \/ i = n
    <2>1. PICK s : s = client[c].got
      OBVIOUS
    <2>2. s \in Seq(CommandValues) /\ Len(s) = n - 1 /\ n = Len(s) + 1 /\ v \in CommandValues
      BY <1>1, <1>2, <1>4, <2>1
    <2>3. /\ Append(s, v) \in Seq(CommandValues) /\ Len(Append(s, v)) = Len(s) + 1
          /\ Append(s, v)[Len(s) + 1] = v /\ \A i \in 1..Len(s) : Append(s, v)[i] = s[i]
          /\ \A i \in 1..Len(Append(s, v)) : i \in 1..Len(s) \/ i = Len(s) + 1
      <3>1. s \in Seq(CommandValues) /\ v \in CommandValues
        BY <2>2
      <3>. QED BY <3>1, QueueAppend
    <2>. QED BY <2>1, <2>2, <2>3, Zenon
  <1>6. client' = [client EXCEPT ![c].got = got,
                      ![c].op = IF n = RegisterCount THEN "none" ELSE @,
                      ![c].answer = IF n = RegisterCount THEN "settings" ELSE @]
        /\ UNCHANGED <<access, bms, setTo, overwritten, failures, requests>>
    BY <1>1, <1>5, Zenon DEF Commands!ReadRegister, RegisterCount
  <1>7. /\ \A d \in Clients : d # c => client'[d] = client[d]
        /\ client'[c].got = got /\ client'[c].register = client[c].register
        /\ client'[c].value = client[c].value /\ client'[c].attempt = client[c].attempt
        /\ client'[c].op = IF n = RegisterCount THEN "none" ELSE "settings"
        /\ client'[c].answer = IF n = RegisterCount THEN "settings" ELSE "none"
        /\ client' \in [Clients -> CommandRequests]
    <2>1. PICK e, a : e = (IF n = RegisterCount THEN "none" ELSE client[c].op)
                      /\ a = (IF n = RegisterCount THEN "settings" ELSE client[c].answer)
      OBVIOUS
    <2>2. client \in [Clients -> CommandRequests]
      BY DEF RegistersInv
    <2>3. client' = [client EXCEPT ![c] = [@ EXCEPT !.got = got, !.op = e, !.answer = a]]
      BY <1>2, <1>6, <2>1, <2>2 DEF CommandRequests
    <2>4. e \in {"none", "settings", "write"} /\ a \in Answers
      BY <1>2, <2>1 DEF Answers
    <2>5. PICK q : q = [client[c] EXCEPT !.got = got, !.op = e, !.answer = a]
      OBVIOUS
    <2>6. /\ q \in CommandRequests /\ q.got = got /\ q.op = e /\ q.answer = a
          /\ q.register = client[c].register /\ q.value = client[c].value /\ q.attempt = client[c].attempt
      BY <1>2, <1>5, <2>4, <2>5 DEF CommandRequests
    <2>7. client'[c] = q /\ (\A d \in Clients : d # c => client'[d] = client[d])
          /\ client' \in [Clients -> CommandRequests]
      BY <2>2, <2>3, <2>5, <2>6
    <2>. QED BY <1>2, <2>1, <2>6, <2>7, Zenon
  <1>8. RegistersInv'
    <2>1. client' \in [Clients -> CommandRequests]
      BY <1>7
    <2>. QED BY <1>6, <2>1 DEF RegistersInv
  <1>9. ClientInv(c)'
    <2>1. GotHeld(c, n)'
      <3>1. client'[c].got[n] = v
        BY <1>5, <1>7, Zenon
      <3>. QED BY <1>1, <1>4, <1>6, <3>1, Zenon DEF GotHeld
    <2>2. ASSUME NEW i \in 1..n - 1 PROVE GotHeld(c, i)'
      <3>1. GotHeld(c, i)
        BY <1>2 DEF ClientInv
      <3>2. client'[c].got[i] = client[c].got[i]
        BY <1>5, <1>7, <2>2, Zenon
      <3>. QED BY <1>6, <3>1, <3>2, Zenon DEF GotHeld
    <2>3. (\A i \in 1..Len(client[c].got) : GotHeld(c, i))'
      BY <1>5, <1>7, <2>1, <2>2, Zenon
    <2>4. client'[c].op # "write" /\ client'[c].answer # "ok" /\ client'[c].attempt <= 2
      BY <1>7 DEF ClientInv
    <2>5. /\ client'[c].op # "none" => client'[c].answer = "none"
          /\ client'[c].op = "settings" => n < RegisterCount
          /\ client'[c].answer = "settings" => n = RegisterCount
          /\ n <= RegisterCount
      BY <1>2, <1>7, RegisterNames
    <2>6. Len(client'[c].got) = n
      BY <1>5, <1>7, Zenon
    <2>. QED BY <2>3, <2>4, <2>5, <2>6 DEF ClientInv
  <1>10. \A d \in Clients : d # c => ClientInv(d)'
    <2>1. ASSUME NEW d \in Clients, d # c PROVE ClientInv(d)'
      <3>1. ClientInv(d) /\ client'[d] = client[d] /\ access' = access
        BY <1>6, <1>7, <2>1, Zenon
      <3>. QED BY <1>6, <3>1 DEF ClientInv, GotHeld
    <2>. QED BY <2>1
  <1>. QED BY <1>8, <1>9, <1>10

LEMMA CommandsReadFails ==
    ASSUME CommandsInv, NEW c \in Clients, Commands!ReadFails(c)
    PROVE  CommandsInv'
  <1> USE DEF CommandsInv
  <1>0. /\ client[c] \in CommandRequests /\ client[c].op = "settings" /\ client[c].answer = "none"
    BY ClientFields DEF Commands!ReadFails
  <1>a. failures' \in 0..MaxFaults
    <2>1. failures \in 0..MaxFaults /\ failures < MaxFaults /\ failures' = failures + 1
      BY DEF RegistersInv, Commands!ReadFails, Commands!Fault
    <2>. QED BY <2>1, RegisterNames
  <1>b. client[c].attempt \in Nat /\ client[c].attempt <= 2
        /\ client[c].got \in Seq(CommandValues) /\ Len(client[c].got) <= RegisterCount
    BY <1>0 DEF CommandRequests, ClientInv
  <1>1. CASE client[c].attempt < 2
    <2>1. /\ client' = [client EXCEPT ![c].attempt = @ + 1, ![c].got = <<>>]
          /\ overwritten' = [overwritten EXCEPT ![c] = {}]
          /\ UNCHANGED <<access, bms, requests, setTo>>
      BY <1>1 DEF Commands!ReadFails, Commands!Anew
    <2>2. [client[c] EXCEPT !.attempt = @ + 1, !.got = <<>>] \in CommandRequests
      <3>1. <<>> \in Seq(CommandValues) /\ client[c].attempt + 1 \in Nat
        BY <1>b, EmptySeq
      <3>. QED BY <1>0, <3>1 DEF CommandRequests
    <2>3. RegistersInv'
      BY <1>a, <2>1, <2>2 DEF RegistersInv
    <2>4. /\ client'[c].op = "settings" /\ client'[c].got = <<>> /\ client'[c].answer = "none"
          /\ client'[c].attempt = client[c].attempt + 1
      BY <1>0, <2>1 DEF RegistersInv, CommandRequests
    <2>5. ClientInv(c)'
      <3>1. Len(client'[c].got) = 0 /\ client'[c].attempt <= 2
        BY <1>1, <1>b, <2>4
      <3>. QED BY <2>4, <3>1, RegisterNames DEF ClientInv
    <2>6. ASSUME NEW d \in Clients, d # c PROVE ClientInv(d)'
      <3>1. client'[d] = client[d] /\ overwritten'[d] = overwritten[d] /\ UNCHANGED <<access, setTo>>
        BY <2>1, <2>6 DEF RegistersInv
      <3>. QED BY <3>1, Zenon DEF ClientInv, GotHeld
    <2>. QED BY <2>3, <2>5, <2>6
  <1>2. CASE ~(client[c].attempt < 2)
    <2>1. /\ client' = [client EXCEPT ![c].op = "none", ![c].answer = "error"]
          /\ UNCHANGED <<access, bms, requests, setTo, overwritten>>
      BY <1>2 DEF Commands!ReadFails, Commands!Answer
    <2>2. [client[c] EXCEPT !.op = "none", !.answer = "error"] \in CommandRequests
      BY <1>0 DEF CommandRequests, Answers
    <2>3. RegistersInv'
      BY <1>a, <2>1, <2>2 DEF RegistersInv
    <2>4. /\ client'[c].op = "none" /\ client'[c].got = client[c].got /\ client'[c].answer = "error"
          /\ client'[c].attempt = client[c].attempt
      BY <1>0, <2>1 DEF RegistersInv, CommandRequests
    <2>5. ClientInv(c)'
      <3>1. ASSUME NEW i \in 1..Len(client[c].got) PROVE GotHeld(c, i)'
        <4>1. GotHeld(c, i)
          BY DEF ClientInv
        <4>. QED BY <2>1, <2>4, <4>1 DEF GotHeld
      <3>2. (\A i \in 1..Len(client[c].got) : GotHeld(c, i))'
        BY <2>4, <3>1, Zenon
      <3>. QED BY <1>b, <2>4, <3>2 DEF ClientInv
    <2>6. ASSUME NEW d \in Clients, d # c PROVE ClientInv(d)'
      <3>1. client'[d] = client[d] /\ overwritten'[d] = overwritten[d] /\ UNCHANGED <<access, setTo>>
        BY <2>1, <2>6 DEF RegistersInv
      <3>. QED BY <3>1, Zenon DEF ClientInv, GotHeld
    <2>. QED BY <2>3, <2>5, <2>6
  <1>. QED BY <1>1, <1>2

\* The BMS has the value of the client that writes, and nobody else has read
\* or written it since.
LEMMA CommandsTaken ==
    ASSUME CommandsInv, NEW c \in Clients, client[c].op = "write", Commands!Taken(c),
           NEW d \in Clients, NEW i \in 1..Len(client[d].got), d # c, client'[d] = client[d]
    PROVE  GotHeld(d, i)'
  <1>1. PICK r : r = client[c].register
    OBVIOUS
  <1>2. /\ r \in Commands!Register
        /\ setTo' = [setTo EXCEPT ![r] = client[c].value]
        /\ overwritten'[d] = overwritten[d] \cup {r}
    BY <1>1 DEF CommandsInv, ClientInv, Commands!Taken
  <1>3. GotHeld(d, i)
    BY DEF CommandsInv, ClientInv
  <1>4. \A q : q # r => setTo'[q] = setTo[q]
    BY <1>2 DEF CommandsInv, RegistersInv
  <1>. QED BY <1>2, <1>3, <1>4 DEF GotHeld

LEMMA CommandsTakenInv ==
    ASSUME CommandsInv, NEW c \in Clients, client[c].op = "write",
           Commands!Taken(c), UNCHANGED <<access, requests>>, failures' \in 0..MaxFaults,
           NEW answer \in Answers, Commands!Answer(c, answer), answer # "settings"
    PROVE  CommandsInv'
  <1> USE DEF CommandsInv
  <1>1. PICK r, v : r = client[c].register /\ v = client[c].value
    OBVIOUS
  <1>2. /\ r \in Commands!Register /\ v \in Commands!Thresholds(r) /\ access = "full"
        /\ v \in CommandValues /\ client[c].got = <<>> /\ client[c] \in CommandRequests
        /\ client[c].attempt <= 2
    <2>1. client[c] \in CommandRequests /\ ClientInv(c)
      BY DEF RegistersInv
    <2>. QED BY <1>1, <2>1 DEF ClientInv, CommandRequests
  <1>3. /\ bms' = [bms EXCEPT ![r] = Commands!Encoded(r, v)]
        /\ setTo' = [setTo EXCEPT ![r] = v]
        /\ client' = [client EXCEPT ![c].op = "none", ![c].answer = answer]
    BY <1>1 DEF Commands!Taken, Commands!Answer
  <1>4. overwritten' \in [Clients -> SUBSET Commands!Register]
        /\ overwritten'[c] = overwritten[c]
        /\ \A d \in Clients : d # c => overwritten'[d] = overwritten[d] \cup {r}
    BY <1>1, <1>2 DEF RegistersInv, Commands!Taken
  <1>5. /\ client' \in [Clients -> CommandRequests]
        /\ client'[c].op = "none" /\ client'[c].answer = answer /\ client'[c].got = <<>>
        /\ client'[c].register = r /\ client'[c].value = v
        /\ client'[c].attempt = client[c].attempt
        /\ \A d \in Clients : d # c => client'[d] = client[d]
    <2>1. [client[c] EXCEPT !.op = "none", !.answer = answer] \in CommandRequests
      BY <1>2 DEF CommandRequests
    <2>. QED BY <1>1, <1>2, <1>3, <2>1 DEF RegistersInv, CommandRequests
  <1>6. RegistersInv'
    <2>1. /\ setTo' \in [Commands!Register -> CommandValues]
          /\ \A q \in Commands!Register : setTo'[q] = IF q = r THEN v ELSE setTo[q]
      BY <1>2, <1>3 DEF RegistersInv
    <2>2. \A q \in Commands!Register : setTo'[q] \in Commands!Thresholds(q)
      BY <1>2, <2>1 DEF RegistersInv
    <2>3. bms' = [q \in Commands!Register |-> Commands!Encoded(q, setTo'[q])]
      BY <1>2, <1>3, <2>1 DEF RegistersInv
    <2>. QED BY <1>2, <1>4, <1>5, <2>1, <2>2, <2>3 DEF RegistersInv
  <1>7. ClientInv(c)'
    <2>1. Len(client'[c].got) = 0
      BY <1>5
    <2>2. setTo'[r] = v
      BY <1>2, <1>3 DEF RegistersInv
    <2>. QED BY <1>2, <1>5, <2>1, <2>2, RegisterNames DEF ClientInv
  <1>8. ASSUME NEW d \in Clients, d # c PROVE ClientInv(d)'
    <2>1. client'[d] = client[d] /\ ClientInv(d) /\ overwritten'[d] = overwritten[d] \cup {r}
      BY <1>4, <1>5, <1>8
    <2>2. \A i \in 1..Len(client[d].got) : GotHeld(d, i)'
      BY <1>8, <2>1, CommandsTaken
    <2>3. client[d].answer = "ok" =>
              /\ client[d].register \in Commands!Register
              /\ client[d].register \in overwritten'[d] \/ setTo'[client[d].register] = client[d].value
      BY <1>2, <1>3, <2>1 DEF ClientInv, RegistersInv
    <2>. QED BY <2>1, <2>2, <2>3 DEF ClientInv
  <1>. QED BY <1>6, <1>7, <1>8

LEMMA CommandsRefused ==
    ASSUME CommandsInv, NEW c \in Clients, client[c].op = "write",
           UNCHANGED <<access, bms, requests, setTo, overwritten>>, failures' \in 0..MaxFaults,
           NEW answer \in {"warning", "error"}, Commands!Answer(c, answer)
    PROVE  CommandsInv'
  <1> USE DEF CommandsInv
  <1>1. client[c] \in CommandRequests /\ ClientInv(c)
    BY DEF RegistersInv
  <1>2. client' = [client EXCEPT ![c].op = "none", ![c].answer = answer]
    BY DEF Commands!Answer
  <1>3. [client[c] EXCEPT !.op = "none", !.answer = answer] \in CommandRequests
    BY <1>1 DEF CommandRequests, Answers
  <1>4. /\ client' \in [Clients -> CommandRequests]
        /\ client'[c].op = "none" /\ client'[c].answer = answer /\ client'[c].got = client[c].got
        /\ client'[c].attempt = client[c].attempt
        /\ \A d \in Clients : d # c => client'[d] = client[d]
    BY <1>1, <1>2, <1>3 DEF RegistersInv, CommandRequests
  <1>5. RegistersInv'
    BY <1>4 DEF RegistersInv
  <1>6. ClientInv(c)'
    <2>1. client[c].got = <<>> /\ client[c].attempt <= 2
      BY <1>1 DEF ClientInv
    <2>2. Len(client'[c].got) = 0
      BY <1>4, <2>1
    <2>. QED BY <1>4, <2>1, <2>2, RegisterNames DEF ClientInv
  <1>7. ASSUME NEW d \in Clients, d # c PROVE ClientInv(d)'
    <2>1. client'[d] = client[d] /\ ClientInv(d)
      BY <1>4, <1>7
    <2>. QED BY <2>1 DEF ClientInv, GotHeld
  <1>. QED BY <1>5, <1>6, <1>7

LEMMA CommandsInvNext == CommandsInv /\ Commands!CommandsNext => CommandsInv'
  <1> SUFFICES ASSUME CommandsInv, NEW c \in Clients,
                      \/ Commands!AskSettings(c) \/ Commands!ReadRegister(c) \/ Commands!ReadFails(c)
                      \/ \E r \in DOMAIN Settable : \E v \in Settable[r] : Commands!AskWrite(c, r, v)
                      \/ Commands!WriteAnswered(c) \/ Commands!WriteUnanswered(c)
               PROVE  CommandsInv'
    BY DEF Commands!CommandsNext
  <1>0. failures \in 0..MaxFaults /\ (Commands!Fault => failures' \in 0..MaxFaults)
    BY RegisterNames DEF CommandsInv, RegistersInv, Commands!Fault
  <1>1. CASE Commands!AskSettings(c)
    <2>1. PICK q : /\ Commands!Ask(c, q)
                   /\ q = IF access = "no_port" THEN [Commands!Idle EXCEPT !.answer = "refused"]
                          ELSE [Commands!Idle EXCEPT !.op = "settings"]
      BY <1>1 DEF Commands!AskSettings
    <2>2. /\ q \in CommandRequests /\ q.got = <<>> /\ q.attempt = 0 /\ q.op # "write"
          /\ q.answer \in {"none", "refused"} /\ (q.op # "none" => q.answer = "none")
      BY <2>1, IdleRequest DEF Commands!Idle, CommandRequests, Answers
    <2>. QED BY <2>1, <2>2, CommandsAsk
  <1>2. CASE \E r \in DOMAIN Settable : \E v \in Settable[r] : Commands!AskWrite(c, r, v)
    <2>0. PICK r \in DOMAIN Settable : \E v \in Settable[r] : Commands!AskWrite(c, r, v)
      BY <1>2
    <2>1. PICK v \in Settable[r] : Commands!AskWrite(c, r, v)
      BY <2>0
    <2>2. r \in Commands!Register /\ v \in Commands!Thresholds(r) /\ v \in CommandValues
      BY RegisterNames, ThresholdsEncoded DEF CommandValues
    <2>3. PICK q : /\ Commands!Ask(c, q)
                   /\ q = IF access = "full"
                          THEN [Commands!Idle EXCEPT !.register = r, !.value = v, !.op = "write"]
                          ELSE [Commands!Idle EXCEPT !.register = r, !.value = v, !.answer = "refused"]
      BY <2>1 DEF Commands!AskWrite, Commands!Idle
    <2>4. /\ q \in CommandRequests /\ q.got = <<>> /\ q.attempt = 0
          /\ q.register = r /\ q.value = v /\ (q.op = "write" => access = "full")
          /\ q.answer \in {"none", "refused"} /\ (q.op # "none" => q.answer = "none")
      BY <2>2, <2>3, IdleRequest DEF Commands!Idle, CommandRequests, Answers
    <2>. QED BY <2>2, <2>3, <2>4, CommandsAsk
  <1>3. CASE Commands!WriteAnswered(c)
    BY <1>0, <1>3, CommandsTakenInv DEF Commands!WriteAnswered, Answers
  <1>4. CASE Commands!WriteUnanswered(c)
    <2>1. PICK answer \in {"warning", "error"} : Commands!Answer(c, answer)
      BY <1>4 DEF Commands!WriteUnanswered
    <2>2. /\ client[c].op = "write" /\ UNCHANGED <<access, requests>>
          /\ Commands!Taken(c) \/ UNCHANGED <<bms, setTo, overwritten>>
          /\ failures' \in 0..MaxFaults /\ answer \in Answers /\ answer # "settings"
      BY <1>0, <1>4, <2>1 DEF Commands!WriteUnanswered, Answers
    <2>3. CASE Commands!Taken(c)
      BY <2>1, <2>2, <2>3, CommandsTakenInv
    <2>4. CASE UNCHANGED <<bms, setTo, overwritten>>
      BY <2>1, <2>2, <2>4, CommandsRefused
    <2>. QED BY <2>2, <2>3, <2>4
  <1>. QED BY <1>1, <1>2, <1>3, <1>4, CommandsReadRegister, CommandsReadFails

LEMMA CommandsInvImplies == CommandsInv => Commands!CommandsTypesOK /\ Commands!ToldWhatIsHeld
  <1> SUFFICES ASSUME CommandsInv PROVE Commands!CommandsTypesOK /\ Commands!ToldWhatIsHeld
    OBVIOUS
  <1> USE DEF CommandsInv
  <1>1. Commands!ToldWhatIsHeld
    <2>1. ASSUME NEW c \in Clients, client[c].answer = "settings", NEW i \in DOMAIN Commands!Registers
          PROVE  GotHeld(c, i)
      BY <2>1, RegisterNames DEF ClientInv
    <2>2. ASSUME NEW c \in Clients, client[c].answer = "ok"
          PROVE  \/ client[c].register \in overwritten[c]
                 \/ setTo[client[c].register] = client[c].value
      BY <2>2 DEF ClientInv
    <2>. QED BY <2>1, <2>2 DEF Commands!ToldWhatIsHeld, GotHeld, RegistersInv
  <1>2. ASSUME NEW r \in Commands!Register, NEW i \in 1..2, i \in DOMAIN bms[r]
        PROVE  bms[r][i] \in Commands!U16
    <2>1. PICK s : s = bms[r]
      OBVIOUS
    <2>2. s \in Seq(Commands!U16)
      BY <2>1, ThresholdsEncoded DEF RegistersInv
    <2>. QED BY <1>2, <2>1, <2>2
  <1>3. ASSUME NEW c \in Clients
        PROVE  /\ client[c].op \in {"none", "settings", "write"} /\ client[c].answer \in Answers
               /\ client[c].attempt \in 0..2 /\ Len(client[c].got) <= Len(Commands!Registers)
    <2>1. client[c] \in CommandRequests /\ ClientInv(c)
      BY DEF RegistersInv
    <2>2. client[c].attempt \in Nat /\ client[c].attempt <= 2
      BY <2>1 DEF CommandRequests, ClientInv
    <2>3. PICK n : n = client[c].attempt
      OBVIOUS
    <2>4. n \in 0..2
      BY <2>2, <2>3
    <2>. QED BY <2>1, <2>3, <2>4 DEF CommandRequests, ClientInv, RegisterCount
  <1>. QED BY <1>1, <1>2, <1>3 DEF Commands!CommandsTypesOK, Answers, RegistersInv

LEMMA CommandsPart == PartsSpec => [](part = "commands" => CommandsInv)
  <1>1. PartsInit => CommandsInv
    BY CommandsInvInit DEF PartsInit
  <1>2. (part = "commands" => CommandsInv) /\ [PartsNext]_partsVars
           => (part = "commands" => CommandsInv)'
    <2> SUFFICES ASSUME part = "commands" => CommandsInv, [PartsNext]_partsVars, part' = "commands"
                 PROVE  CommandsInv'
      OBVIOUS
    <2>1. CASE PartsNext
      BY <2>1, CommandsInvNext DEF PartsNext
    <2>2. CASE UNCHANGED partsVars
      <3>1. CommandsInv /\ UNCHANGED commandVars
        BY <2>2 DEF partsVars, decisionVars
      <3>. QED BY <3>1 DEF CommandsInv, RegistersInv, ClientInv, GotHeld, commandVars
    <2>. QED BY <2>1, <2>2
  <1>. QED BY <1>1, <1>2, PTL DEF PartsSpec

-----------------------------------------------------------------------------
(* The bus: charge current, presence and daily yield have each their own,   *)
(* of which these steps are alike.                                         *)
BusOf(S, cap) ==
    /\ outQ \in Seq(S) /\ Len(outQ) \in 0..cap
    /\ link \in BOOLEAN /\ outages \in 0..MaxOutages

LEMMA BusTaken ==
    ASSUME NEW S, NEW cap \in Nat, BusOf(S, cap), MaxOutages \in Nat,
           \/ link /\ outQ # <<>> /\ outQ' = Tail(outQ) /\ UNCHANGED <<link, outages>>
           \/ /\ outQ # <<>> /\ link /\ outages < MaxOutages
              /\ link' = FALSE /\ outages' = outages + 1 /\ UNCHANGED outQ
    PROVE  BusOf(S, cap)' /\ outQ # <<>> /\ Head(outQ) \in S /\ (outQ' = outQ \/ outQ' = Tail(outQ))
  <1>1. PICK n, o : n = Len(outQ) /\ o = outages
    OBVIOUS
  <1>2. outQ \in Seq(S) /\ outQ # <<>> /\ n \in 0..cap /\ link \in BOOLEAN /\ o \in 0..MaxOutages
    BY <1>1 DEF BusOf
  <1>3. Tail(outQ) \in Seq(S) /\ n \in Nat \ {0} /\ Len(Tail(outQ)) = n - 1 /\ Head(outQ) \in S
    BY <1>1, <1>2, QueueTail, Zenon
  <1>4. n - 1 \in 0..cap
    BY <1>2, <1>3
  <1>5. CASE link /\ outQ' = Tail(outQ) /\ UNCHANGED <<link, outages>>
    BY <1>1, <1>2, <1>3, <1>4, <1>5 DEF BusOf
  <1>6. CASE outages < MaxOutages /\ link' = FALSE /\ outages' = outages + 1 /\ UNCHANGED outQ
    <2>1. o + 1 \in 0..MaxOutages
      BY <1>1, <1>2, <1>6
    <2>. QED BY <1>1, <1>2, <1>3, <1>6, <2>1 DEF BusOf
  <1>. QED BY <1>5, <1>6

LEMMA BusBack ==
    ASSUME NEW S, NEW cap \in Nat, BusOf(S, cap), NEW f \in 0..Len(outQ),
           outQ' = SubSeq(outQ, f + 1, Len(outQ)), link' = TRUE, outages' = outages
    PROVE  BusOf(S, cap)' /\ Len(outQ') = Len(outQ) - f
  <1>1. PICK n : n = Len(outQ)
    OBVIOUS
  <1>2. outQ \in Seq(S) /\ n \in 0..cap /\ f \in 0..n
    BY <1>1 DEF BusOf
  <1>3. outQ' \in Seq(S) /\ n \in Nat /\ Len(outQ') = n - f
    BY <1>1, <1>2, QueueSuffix
  <1>4. n - f \in 0..cap
    BY <1>2, <1>3
  <1>. QED BY <1>1, <1>3, <1>4 DEF BusOf

LEMMA BusPublished ==
    ASSUME NEW S, NEW cap \in Nat, BusOf(S, cap), NEW m \in S,
           \/ Len(outQ) < cap /\ outQ' = Append(outQ, m) /\ UNCHANGED <<link, outages>>
           \/ Len(outQ) >= Slots /\ UNCHANGED <<outQ, link, outages>>
    PROVE  /\ BusOf(S, cap)'
           /\ \/ outQ' = outQ
              \/ outQ' = Append(outQ, m) /\ Len(outQ') = Len(outQ) + 1 /\ outQ' # outQ
  <1>1. PICK n : n = Len(outQ)
    OBVIOUS
  <1>2. outQ \in Seq(S) /\ n \in 0..cap
    BY <1>1 DEF BusOf
  <1>3. CASE Len(outQ) < cap /\ outQ' = Append(outQ, m) /\ UNCHANGED <<link, outages>>
    <2>1. outQ' \in Seq(S) /\ Len(outQ') = n + 1
      BY <1>1, <1>2, <1>3, QueueAppend
    <2>2. n + 1 \in 0..cap /\ n + 1 # n
      BY <1>1, <1>2, <1>3
    <2>. QED BY <1>1, <1>3, <2>1, <2>2 DEF BusOf
  <1>4. CASE UNCHANGED <<outQ, link, outages>>
    BY <1>4 DEF BusOf
  <1>. QED BY <1>3, <1>4

-----------------------------------------------------------------------------
(* The settings of the inverter.                                           *)

ChargeMessages == [topic : Charge!Topics, value : Charge!Values]

SettingCount == Len(Charge!Settings(decided))

\* What the inverter has, or will have once the channel is empty.
WillHold(s) ==
    \/ \E j \in 1..Len(outQ) :
          outQ[j] = s /\ \A k \in j + 1..Len(outQ) : outQ[k].topic # s.topic
    \/ /\ \A j \in 1..Len(outQ) : outQ[j].topic # s.topic
       /\ inverter[s.topic] = s.value

ChargeTypes ==
    /\ heard \in [ac_ignore : {Charge!None, 0, 1}, pv : Powers \cup {Charge!None},
                  house : Powers \cup {Charge!None}]
    /\ BusOf(ChargeMessages, ChargeCapacity)
    /\ sends \in Seq(ChargeMessages)
    /\ inverter \in [Charge!Topics -> Charge!Values \cup {Charge!None}]
    /\ decided \in Charge!Modes \cup {"none"}
    /\ recorded = <<>> \/ \E m \in Charge!Modes : recorded = SubSeq(Charge!Settings(m), 1, 2)
    /\ decided = "none" => recorded = <<>>

\* What was decided last is recorded, still to be published from some setting
\* on, and the settings before are on their way or missed.
ChargeSent ==
    decided # "none" =>
        /\ recorded = SubSeq(Charge!Settings(decided), 1, 2)
        /\ Len(sends) <= SettingCount
        /\ \A j \in 1..Len(sends) :
              sends[j] = Charge!Settings(decided)[SettingCount - Len(sends) + j]
        /\ \A i \in 1..SettingCount - Len(sends) :
              LET s == Charge!Settings(decided)[i] IN s.topic \in missed \/ WillHold(s)

ChargeInv == ChargeTypes /\ ChargeSent

LEMMA SettingsOfModes ==
    ASSUME NEW m \in Charge!Modes
    PROVE  /\ Charge!Settings(m) \in Seq(ChargeMessages)
           /\ Len(Charge!Settings(m)) \in Nat \ {0, 1} /\ Len(Charge!Settings(m)) >= 2
           /\ \A i, j \in 1..Len(Charge!Settings(m)) :
                 Charge!Settings(m)[i].topic = Charge!Settings(m)[j].topic => i = j
           /\ Len(Charge!Settings(m)) = IF m = "offgrid" THEN 2 ELSE 3
           /\ Charge!Settings(m)[1] = [topic |-> "charge", value |-> Limits[m]]
           /\ Charge!Settings(m)[2] = [topic |-> "assist", value |-> IF m = "offgrid" THEN 1 ELSE 0]
           /\ m # "offgrid" => Charge!Settings(m)[3] = [topic |-> "feed_in", value |-> 0]
  <1>1. PICK a, b, c : /\ a = [topic |-> "charge", value |-> Limits[m]]
                       /\ b = [topic |-> "assist", value |-> IF m = "offgrid" THEN 1 ELSE 0]
                       /\ c = [topic |-> "feed_in", value |-> 0]
    OBVIOUS
  <1>2. a \in ChargeMessages /\ b \in ChargeMessages /\ c \in ChargeMessages
        /\ a.topic = "charge" /\ b.topic = "assist" /\ c.topic = "feed_in"
    BY <1>1 DEF ChargeMessages, Charge!Topics, Charge!Values
  <1>3. Charge!Settings(m) = <<a, b>> \o (IF m = "offgrid" THEN <<>> ELSE <<c>>)
    BY <1>1 DEF Charge!Settings
  <1>4. PICK s : s = Charge!Settings(m)
    OBVIOUS
  <1>5. PICK n : n = Len(s)
    OBVIOUS
  <1>6. /\ s \in Seq(ChargeMessages) /\ n \in Nat /\ s[1] = a /\ s[2] = b
        /\ IF m = "offgrid" THEN n = 2 ELSE n = 3 /\ s[3] = c
    <2>1. CASE m = "offgrid"
      <3>1. s = <<a, b>>
        BY <1>3, <1>4, <2>1
      <3>. QED BY <1>2, <1>5, <2>1, <3>1
    <2>2. CASE m # "offgrid"
      <3>1. s = <<a, b>> \o <<c>>
        BY <1>3, <1>4, <2>2
      <3>2. <<a, b>> \in Seq(ChargeMessages) /\ <<c>> \in Seq(ChargeMessages)
        BY <1>2
      <3>3. s \in Seq(ChargeMessages) /\ Len(s) = 3
        BY <3>1, <3>2
      <3>4. s[1] = a /\ s[2] = b /\ s[3] = c
        BY <3>1, <3>2
      <3>. QED BY <1>5, <2>2, <3>3, <3>4
    <2>. QED BY <2>1, <2>2
  <1>7. \A i \in 1..n : i = 1 \/ i = 2 \/ (i = 3 /\ m # "offgrid")
    BY <1>6
  <1>8. \A i, j \in 1..n : s[i].topic = s[j].topic => i = j
    BY <1>2, <1>6, <1>7
  <1>9. n \in Nat \ {0, 1} /\ n = (IF m = "offgrid" THEN 2 ELSE 3)
    BY <1>6
  <1>10. n >= 2
    BY <1>9
  <1>. QED BY <1>1, <1>4, <1>5, <1>6, <1>7, <1>8, <1>9, <1>10, Zenon

\* Two modes that are recorded alike have the same settings.
LEMMA RecordedAlike ==
    ASSUME NEW m \in Charge!Modes, NEW n \in Charge!Modes,
           SubSeq(Charge!Settings(m), 1, 2) = SubSeq(Charge!Settings(n), 1, 2)
    PROVE  Charge!Settings(m) = Charge!Settings(n)
  <1>1. PICK s, t : s = Charge!Settings(m) /\ t = Charge!Settings(n)
    OBVIOUS
  <1>2. s \in Seq(ChargeMessages) /\ t \in Seq(ChargeMessages) /\ Len(s) >= 2 /\ Len(t) >= 2
    BY <1>1, SettingsOfModes, Zenon
  <1>3. s[1] = t[1] /\ s[2] = t[2]
    <2>1. SubSeq(s, 1, 2)[1] = s[1] /\ SubSeq(s, 1, 2)[2] = s[2]
      BY <1>2
    <2>2. SubSeq(t, 1, 2)[1] = t[1] /\ SubSeq(t, 1, 2)[2] = t[2]
      BY <1>2
    <2>. QED BY <1>1, <2>1, <2>2
  <1>4. Limits[m] = Limits[n] /\ (m = "offgrid" <=> n = "offgrid")
    <2>1. /\ s[1] = [topic |-> "charge", value |-> Limits[m]]
          /\ t[1] = [topic |-> "charge", value |-> Limits[n]]
          /\ s[2] = [topic |-> "assist", value |-> IF m = "offgrid" THEN 1 ELSE 0]
          /\ t[2] = [topic |-> "assist", value |-> IF n = "offgrid" THEN 1 ELSE 0]
      BY <1>1, SettingsOfModes, Zenon
    <2>2. s[1].value = t[1].value /\ s[2].value = t[2].value
      BY <1>3
    <2>. QED BY <2>1, <2>2
  <1>. QED BY <1>4 DEF Charge!Settings

LEMMA ChargeConstants ==
    /\ Slots \in Nat \ {0} /\ ChargeCapacity \in Nat /\ MaxOutages \in Nat
    /\ "none" \notin Charge!Modes
    /\ \A m \in Charge!Modes : m \in {"offgrid", "grid_pv_excess", "grid_no_excess"}
    /\ \A h : Charge!Mode(h) \in Charge!Modes
  <1>1. Charge!Bus!BusAssumption
    BY ReadSideBounds DEF Charge!ChargeAssumption
  <1>. QED BY <1>1 DEF Charge!Bus!BusAssumption, Charge!Modes, Charge!Mode

(* What is still to be taken by the inverter, when the queue changes.      *)
LEMMA WillHoldAppended ==
    ASSUME NEW s, outQ \in Seq(ChargeMessages), NEW m \in ChargeMessages, m.topic # s.topic,
           outQ' = Append(outQ, m), inverter' = inverter, WillHold(s)
    PROVE  WillHold(s)'
  <1>1. PICK n : n = Len(outQ)
    OBVIOUS
  <1>2. /\ n \in Nat /\ Len(outQ') = n + 1 /\ outQ'[n + 1] = m
        /\ \A i \in 1..n : outQ'[i] = outQ[i]
    BY <1>1, QueueAppend
  <1>3. \A i \in 1..n + 1 : i \in 1..n \/ i = n + 1
    BY <1>2
  <1>4. CASE \E j \in 1..n : outQ[j] = s /\ \A k \in j + 1..n : outQ[k].topic # s.topic
    <2>1. PICK j \in 1..n : outQ[j] = s /\ \A k \in j + 1..n : outQ[k].topic # s.topic
      BY <1>4
    <2>2. j \in 1..n + 1 /\ \A k \in j + 1..n + 1 : k \in 1..n + 1 /\ (k \in j + 1..n \/ k = n + 1)
      BY <1>2
    <2>3. \A k \in j + 1..n + 1 : outQ'[k].topic # s.topic
      BY <1>2, <1>3, <2>1, <2>2
    <2>. QED BY <1>2, <2>1, <2>2, <2>3 DEF WillHold
  <1>5. CASE (\A j \in 1..n : outQ[j].topic # s.topic) /\ inverter[s.topic] = s.value
    <2>1. \A j \in 1..n + 1 : outQ'[j].topic # s.topic
      BY <1>2, <1>3, <1>5
    <2>. QED BY <1>2, <1>5, <2>1 DEF WillHold
  <1>. QED BY <1>1, <1>4, <1>5 DEF WillHold

LEMMA WillHoldTaken ==
    ASSUME NEW s, outQ \in Seq(ChargeMessages), outQ # <<>>, outQ' = outQ \/ outQ' = Tail(outQ),
           s.topic \in Charge!Topics, inverter \in [Charge!Topics -> Charge!Values \cup {Charge!None}],
           inverter' = [inverter EXCEPT ![Head(outQ).topic] = Head(outQ).value], WillHold(s)
    PROVE  WillHold(s)'
  <1>1. PICK n, h : n = Len(outQ) /\ h = Head(outQ)
    OBVIOUS
  <1>2. /\ n \in Nat \ {0} /\ h = outQ[1] /\ h \in ChargeMessages
        /\ Len(Tail(outQ)) = n - 1
        /\ \A i \in 1..n - 1 : Tail(outQ)[i] = outQ[i + 1]
    BY <1>1, QueueTail
  <1>3. inverter'[s.topic] = IF s.topic = h.topic THEN h.value ELSE inverter[s.topic]
    BY <1>1, <1>2 DEF ChargeMessages
  <1>4. CASE outQ' = outQ
    <2>1. CASE \E j \in 1..n : outQ[j] = s /\ \A k \in j + 1..n : outQ[k].topic # s.topic
      BY <1>1, <1>4, <2>1 DEF WillHold
    <2>2. CASE (\A j \in 1..n : outQ[j].topic # s.topic) /\ inverter[s.topic] = s.value
      BY <1>1, <1>2, <1>3, <1>4, <2>2 DEF WillHold
    <2>. QED BY <1>1, <2>1, <2>2 DEF WillHold
  <1>5. CASE outQ' = Tail(outQ)
    <2>0. Len(outQ') = n - 1 /\ \A i \in 1..n - 1 : outQ'[i] = outQ[i + 1] /\ i + 1 \in 1..n
      BY <1>2, <1>5
    <2>1. CASE \E j \in 1..n : outQ[j] = s /\ \A k \in j + 1..n : outQ[k].topic # s.topic
      <3>1. PICK j \in 1..n : outQ[j] = s /\ \A k \in j + 1..n : outQ[k].topic # s.topic
        BY <2>1
      <3>2. CASE j = 1
        <4>1. \A i \in 1..n - 1 : i + 1 \in j + 1..n
          BY <1>2, <3>2
        <4>2. \A i \in 1..n - 1 : outQ'[i].topic # s.topic
          BY <2>0, <3>1, <4>1
        <4>. QED BY <1>2, <1>3, <2>0, <3>1, <3>2, <4>2 DEF WillHold
      <3>3. CASE j # 1
        <4>1. j - 1 \in 1..n - 1 /\ \A i \in (j - 1) + 1..n - 1 : i \in 1..n - 1 /\ i + 1 \in j + 1..n
          BY <1>2, <3>3
        <4>2. outQ'[j - 1] = s
          BY <2>0, <3>1, <4>1
        <4>3. \A i \in (j - 1) + 1..n - 1 : outQ'[i].topic # s.topic
          BY <2>0, <3>1, <4>1
        <4>. QED BY <2>0, <4>1, <4>2, <4>3 DEF WillHold
      <3>. QED BY <3>2, <3>3
    <2>2. CASE (\A j \in 1..n : outQ[j].topic # s.topic) /\ inverter[s.topic] = s.value
      <3>1. 1 \in 1..n
        BY <1>2
      <3>2. inverter'[s.topic] = s.value
        BY <1>2, <1>3, <2>2, <3>1
      <3>3. \A i \in 1..n - 1 : outQ'[i].topic # s.topic
        BY <2>0, <2>2
      <3>. QED BY <2>0, <3>2, <3>3 DEF WillHold
    <2>. QED BY <1>1, <2>1, <2>2 DEF WillHold
  <1>. QED BY <1>4, <1>5

LEMMA WillHoldForgotten ==
    ASSUME NEW s, outQ \in Seq(ChargeMessages), NEW f \in 0..Len(outQ),
           outQ' = SubSeq(outQ, f + 1, Len(outQ)), inverter' = inverter, WillHold(s)
    PROVE  \/ WillHold(s)'
           \/ s.topic \in Charge!TopicsIn(outQ) \ Charge!TopicsIn(outQ')
  <1>1. PICK n : n = Len(outQ)
    OBVIOUS
  <1>2. /\ n \in Nat /\ f \in 0..n /\ Len(outQ') = n - f
        /\ \A i \in 1..n - f : outQ'[i] = outQ[i + f]
        /\ DOMAIN outQ = 1..n /\ DOMAIN outQ' = 1..n - f
    BY <1>1, QueueSuffix
  <1>3. CASE \E j \in 1..n : outQ[j] = s /\ \A k \in j + 1..n : outQ[k].topic # s.topic
    <2>1. PICK j \in 1..n : outQ[j] = s /\ \A k \in j + 1..n : outQ[k].topic # s.topic
      BY <1>3
    <2>2. CASE j > f
      <3>0. n \in Nat /\ f \in Nat /\ j \in Nat /\ j <= n /\ j > f
        BY <1>2, <2>2
      <3>1. /\ j - f \in 1..n - f /\ (j - f) + f = j
            /\ \A i \in (j - f) + 1..n - f : i \in 1..n - f
            /\ \A i \in (j - f) + 1..n - f : i + f \in j + 1..n
        <4>1. j - f \in 1..n - f /\ (j - f) + f = j
          BY <3>0
        <4>2. ASSUME NEW i \in (j - f) + 1..n - f PROVE i \in 1..n - f /\ i + f \in j + 1..n
          BY <3>0
        <4>. QED BY <4>1, <4>2, Zenon
      <3>2. outQ'[j - f] = s
        BY <1>2, <2>1, <3>1
      <3>3. \A i \in (j - f) + 1..n - f : outQ'[i].topic # s.topic
        BY <1>2, <2>1, <3>1
      <3>. QED BY <1>2, <3>1, <3>2, <3>3 DEF WillHold
    <2>3. CASE j <= f
      <3>1. \A i \in 1..n - f : i + f \in j + 1..n
        BY <1>2, <2>3
      <3>2. \A i \in 1..n - f : outQ'[i].topic # s.topic
        BY <1>2, <2>1, <3>1
      <3>. QED BY <1>2, <2>1, <3>2 DEF Charge!TopicsIn
    <2>. QED BY <1>2, <2>2, <2>3
  <1>4. CASE (\A j \in 1..n : outQ[j].topic # s.topic) /\ inverter[s.topic] = s.value
    <2>1. \A i \in 1..n - f : i + f \in 1..n
      BY <1>2
    <2>. QED BY <1>2, <1>4, <2>1 DEF WillHold
  <1>. QED BY <1>1, <1>3, <1>4 DEF WillHold

LEMMA ChargeInvInit == Charge!ChargeInit => ChargeInv
  <1> SUFFICES ASSUME Charge!ChargeInit PROVE ChargeInv
    OBVIOUS
  <1>1. outQ = <<>> /\ link = FALSE /\ outages = 0 /\ recorded = <<>> /\ sends = <<>> /\ decided = "none"
    BY DEF Charge!ChargeInit, Charge!Bus!BusInit
  <1>2. outQ \in Seq(ChargeMessages) /\ Len(outQ) = 0 /\ sends \in Seq(ChargeMessages)
    BY <1>1, EmptySeq
  <1>3. inverter \in [Charge!Topics -> Charge!Values \cup {Charge!None}]
    BY DEF Charge!ChargeInit
  <1>4. heard \in [ac_ignore : {Charge!None, 0, 1}, pv : Powers \cup {Charge!None},
                   house : Powers \cup {Charge!None}]
    BY DEF Charge!ChargeInit, Charge!Unheard
  <1>5. 0 \in 0..ChargeCapacity /\ 0 \in 0..MaxOutages
    BY ChargeConstants
  <1>6. ChargeTypes
    BY <1>1, <1>2, <1>3, <1>4, <1>5 DEF ChargeTypes, BusOf
  <1>. QED BY <1>1, <1>6 DEF ChargeInv, ChargeSent

\* A decision that changes nothing sends nothing: what was sent for the last
\* one is what it asks for too.
LEMMA ChargeHear ==
    ASSUME ChargeInv, NEW field, NEW value, Charge!Hear(field, value),
           heard' \in [ac_ignore : {Charge!None, 0, 1}, pv : Powers \cup {Charge!None},
                       house : Powers \cup {Charge!None}]
    PROVE  ChargeInv'
  <1>1. PICK m : m = decided'
    OBVIOUS
  <1>2. m \in Charge!Modes /\ m # "none" /\ sends = <<>> /\ UNCHANGED <<outQ, link, outages, inverter, missed>>
    BY <1>1, ChargeConstants DEF Charge!Hear
  <1>3. CASE Charge!Changed(m)
    <2>1. recorded' = SubSeq(Charge!Settings(m), 1, 2) /\ sends' = Charge!Settings(m)
      BY <1>1, <1>3 DEF Charge!Hear
    <2>2. PICK s, n : s = Charge!Settings(m) /\ n = Len(s)
      OBVIOUS
    <2>3. s \in Seq(ChargeMessages) /\ n \in Nat
      BY <1>2, <2>2, SettingsOfModes, Zenon
    <2>4. n - n = 0 /\ (\A j \in 1..n : n - n + j = j) /\ (\A i \in 1..n - n : FALSE) /\ n <= n
      BY <2>3
    <2>5. sends' = s /\ SettingCount' = n
      BY <1>1, <2>1, <2>2 DEF SettingCount
    <2>6. ChargeSent'
      BY <1>1, <2>1, <2>2, <2>4, <2>5 DEF ChargeSent
    <2>7. ChargeTypes'
      BY <1>1, <1>2, <2>1, <2>3, <2>5 DEF ChargeInv, ChargeTypes, BusOf
    <2>. QED BY <2>6, <2>7 DEF ChargeInv
  <1>4. CASE ~Charge!Changed(m)
    <2>1. recorded = SubSeq(Charge!Settings(m), 1, 2) /\ UNCHANGED <<recorded, sends>>
      BY <1>1, <1>4 DEF Charge!Hear, Charge!Changed
    <2>2. PICK t : t = Charge!Settings(m)
      OBVIOUS
    <2>3. recorded # <<>>
      <3>1. t \in Seq(ChargeMessages) /\ Len(t) >= 2
        BY <1>2, <2>2, SettingsOfModes, Zenon
      <3>2. Len(SubSeq(t, 1, 2)) = 2
        BY <3>1
      <3>3. Len(recorded) = 2
        BY <2>1, <2>2, <3>2, Zenon
      <3>4. Len(<<>>) = 0 /\ 0 # 2
        OBVIOUS
      <3>. QED BY <3>3, <3>4, Zenon
    <2>4. decided # "none" /\ decided \in Charge!Modes
      BY <2>3 DEF ChargeInv, ChargeTypes
    <2>5. recorded = SubSeq(Charge!Settings(decided), 1, 2)
      BY <2>4 DEF ChargeInv, ChargeSent
    <2>6. Charge!Settings(decided) = Charge!Settings(m)
      BY <1>2, <2>1, <2>4, <2>5, RecordedAlike
    <2>7. ChargeSent'
      BY <1>1, <1>2, <2>1, <2>4, <2>6 DEF ChargeInv, ChargeSent, SettingCount, WillHold
    <2>8. ChargeTypes'
      BY <1>1, <1>2, <2>1 DEF ChargeInv, ChargeTypes, BusOf
    <2>. QED BY <2>7, <2>8 DEF ChargeInv
  <1>. QED BY <1>3, <1>4

\* The setting that is published is on its way, or missed.
LEMMA ChargePublish ==
    ASSUME ChargeInv, Charge!PublishSetting
    PROVE  ChargeInv'
  <1>1. PICK L, m, d : L = Len(sends) /\ m = Head(sends) /\ d = decided
    OBVIOUS
  <1>2. /\ L \in Nat \ {0} /\ m \in ChargeMessages /\ m = sends[1]
        /\ sends' \in Seq(ChargeMessages) /\ Len(sends') = L - 1
        /\ \A j \in 1..L - 1 : sends'[j] = sends[j + 1]
    BY <1>1, QueueTail DEF Charge!PublishSetting, ChargeInv, ChargeTypes
  <1>3. /\ UNCHANGED <<heard, recorded, inverter, decided>>
        /\ \/ Len(outQ) < ChargeCapacity /\ outQ' = Append(outQ, m) /\ UNCHANGED <<link, outages>>
           \/ Len(outQ) >= Slots /\ UNCHANGED <<outQ, link, outages>>
    BY <1>1 DEF Charge!PublishSetting, Charge!Bus!Publish, Charge!Bus!Accepted,
                Charge!Bus!Dropped, Charge!Bus!busVars
  <1>4. outQ \in Seq(ChargeMessages)
    BY DEF ChargeInv, ChargeTypes, BusOf
  <1>5. /\ BusOf(ChargeMessages, ChargeCapacity)'
        /\ outQ' = outQ \/ (outQ' = Append(outQ, m) /\ Len(outQ') = Len(outQ) + 1)
    <2>1. BusOf(ChargeMessages, ChargeCapacity) /\ ChargeCapacity \in Nat
      BY ChargeConstants DEF ChargeInv, ChargeTypes
    <2>. QED BY <1>2, <1>3, <2>1, BusPublished
  <1>6. ChargeTypes'
    BY <1>2, <1>3, <1>5 DEF ChargeInv, ChargeTypes
  <1>7. ASSUME NEW s, m.topic # s.topic, s.topic \in missed \/ WillHold(s)
        PROVE  s.topic \in missed' \/ WillHold(s)'
    <2>1. s.topic \in missed => s.topic \in missed'
      BY <1>1, <1>7 DEF Charge!PublishSetting
    <2>2. CASE WillHold(s)
      <3>1. CASE outQ' = outQ
        BY <1>3, <2>2, <3>1 DEF WillHold
      <3>2. CASE outQ' = Append(outQ, m)
        BY <1>2, <1>3, <1>4, <1>7, <2>2, <3>2, WillHoldAppended
      <3>. QED BY <1>5, <3>1, <3>2
    <2>. QED BY <1>7, <2>1, <2>2
  <1>8. m.topic \in missed' \/ WillHold(m)'
    <2>1. CASE outQ' = outQ
      BY <1>1, <2>1 DEF Charge!PublishSetting
    <2>2. CASE outQ' = Append(outQ, m)
      <3>1. PICK n : n = Len(outQ)
        OBVIOUS
      <3>2. n \in Nat /\ Len(outQ') = n + 1 /\ outQ'[n + 1] = m
        BY <1>2, <1>4, <2>2, <3>1, QueueAppend
      <3>3. n + 1 \in 1..n + 1 /\ \A k \in (n + 1) + 1..n + 1 : FALSE
        BY <3>2
      <3>. QED BY <3>2, <3>3 DEF WillHold
    <2>. QED BY <1>5, <2>1, <2>2
  <1>9. ASSUME d # "none" PROVE ChargeSent'
    <2>1. PICK t, n : t = Charge!Settings(d) /\ n = Len(t)
      OBVIOUS
    <2>2. d \in Charge!Modes
      BY <1>1, <1>9 DEF ChargeInv, ChargeTypes
    <2>3. n \in Nat /\ \A i, j \in 1..n : t[i].topic = t[j].topic => i = j
      BY <2>1, <2>2, SettingsOfModes, Zenon
    <2>4. /\ recorded = SubSeq(t, 1, 2) /\ L <= n
          /\ \A j \in 1..L : sends[j] = t[n - L + j]
          /\ \A i \in 1..n - L : t[i].topic \in missed \/ WillHold(t[i])
      BY <1>1, <1>9, <2>1 DEF ChargeInv, ChargeSent, SettingCount
    <2>5. /\ L \in Nat /\ L >= 1
          /\ n - L + 1 \in 1..n /\ 1 \in 1..L
          /\ \A j \in 1..L - 1 : j + 1 \in 1..L
          /\ \A j \in 1..L - 1 : n - L + (j + 1) = n - (L - 1) + j
          /\ \A i \in 1..n - (L - 1) : i \in 1..n /\ (i \in 1..n - L \/ i = n - L + 1)
          /\ \A i \in 1..n - L : i \in 1..n /\ i # n - L + 1
      BY <1>2, <2>3, <2>4
    <2>6. m = t[n - L + 1]
      BY <1>2, <2>4, <2>5
    <2>7. \A j \in 1..L - 1 : sends'[j] = t[n - (L - 1) + j]
      BY <1>2, <2>4, <2>5
    <2>8. ASSUME NEW i \in 1..n - (L - 1)
          PROVE  t[i].topic \in missed' \/ WillHold(t[i])'
      <3>1. CASE i = n - L + 1
        BY <1>8, <2>6, <3>1
      <3>2. CASE i \in 1..n - L
        <4>1. m.topic # t[i].topic
          BY <2>3, <2>5, <2>6, <3>2
        <4>2. t[i].topic \in missed \/ WillHold(t[i])
          BY <2>4, <3>2
        <4>. QED BY <1>7, <4>1, <4>2
      <3>. QED BY <2>5, <2>8, <3>1, <3>2
    <2>9. L - 1 <= n /\ SettingCount' = n /\ Charge!Settings(decided') = t /\ recorded' = recorded
      BY <1>1, <1>2, <1>3, <2>1, <2>3, <2>4 DEF SettingCount
    <2>. QED BY <1>2, <1>3, <2>1, <2>4, <2>7, <2>8, <2>9 DEF ChargeSent
  <1>. QED BY <1>1, <1>3, <1>6, <1>9 DEF ChargeInv, ChargeSent

\* A step that leaves what was decided as it is, and what is to be sent.
LEMMA ChargeKept ==
    ASSUME ChargeInv, ChargeTypes', UNCHANGED <<recorded, sends, decided>>,
           \A s \in ChargeMessages :
              s.topic \in missed \/ WillHold(s) => s.topic \in missed' \/ WillHold(s)'
    PROVE  ChargeInv'
  <1>1. ASSUME decided # "none" PROVE ChargeSent'
    <2>1. PICK t, n : t = Charge!Settings(decided) /\ n = Len(t)
      OBVIOUS
    <2>2. t \in Seq(ChargeMessages) /\ n \in Nat /\ Len(sends) \in Nat
      <3>1. decided \in Charge!Modes /\ sends \in Seq(ChargeMessages)
        BY <1>1 DEF ChargeInv, ChargeTypes
      <3>2. t \in Seq(ChargeMessages)
        BY <2>1, <3>1, SettingsOfModes, Zenon
      <3>. QED BY <2>1, <3>1, <3>2
    <2>3. Len(sends) <= n /\ \A i \in 1..n - Len(sends) : t[i].topic \in missed \/ WillHold(t[i])
      BY <1>1, <2>1 DEF ChargeInv, ChargeSent, SettingCount
    <2>4. \A i \in 1..n - Len(sends) : t[i] \in ChargeMessages
      BY <2>1, <2>2, <2>3
    <2>5. \A i \in 1..n - Len(sends) : t[i].topic \in missed' \/ WillHold(t[i])'
      BY <2>3, <2>4
    <2>. QED BY <1>1, <2>1, <2>5 DEF ChargeInv, ChargeSent, SettingCount
  <1>. QED BY <1>1 DEF ChargeInv, ChargeSent

LEMMA ChargeInvNext == ChargeInv /\ Charge!ChargeNext => ChargeInv'
  <1> SUFFICES ASSUME ChargeInv, Charge!ChargeNext PROVE ChargeInv'
    OBVIOUS
  <1>0. ChargeTypes
    BY DEF ChargeInv
  <1>1. CASE \E v \in {Charge!None, 0, 1} : Charge!Hear("ac_ignore", v)
    <2>1. PICK v \in {Charge!None, 0, 1} : Charge!Hear("ac_ignore", v)
      BY <1>1
    <2>2. heard' \in [ac_ignore : {Charge!None, 0, 1}, pv : Powers \cup {Charge!None},
                      house : Powers \cup {Charge!None}]
      BY <1>0, <2>1 DEF ChargeTypes, Charge!Hear
    <2>. QED BY <2>1, <2>2, ChargeHear
  <1>2. CASE \E f \in {"pv", "house"}, w \in Powers : Charge!Hear(f, w)
    <2>1. PICK f \in {"pv", "house"}, w \in Powers : Charge!Hear(f, w)
      BY <1>2
    <2>2. heard' \in [ac_ignore : {Charge!None, 0, 1}, pv : Powers \cup {Charge!None},
                      house : Powers \cup {Charge!None}]
      BY <1>0, <2>1 DEF ChargeTypes, Charge!Hear
    <2>. QED BY <2>1, <2>2, ChargeHear
  <1>3. CASE \/ \E v \in {0, 1} : Charge!OthersHear("ac_ignore", v)
             \/ \E w \in Powers \cup {Charge!None} : Charge!OthersHear("house", w)
    <2>1. PICK field, value :
              /\ field \in {"ac_ignore", "house"}
              /\ Charge!OthersHear(field, value)
              /\ IF field = "ac_ignore" THEN value \in {0, 1} ELSE value \in Powers \cup {Charge!None}
      BY <1>3
    <2>2. heard' \in [ac_ignore : {Charge!None, 0, 1}, pv : Powers \cup {Charge!None},
                      house : Powers \cup {Charge!None}]
      BY <1>0, <2>1 DEF ChargeTypes, Charge!OthersHear
    <2>3. ChargeTypes' /\ UNCHANGED <<recorded, sends, decided, outQ, inverter, missed>>
      BY <1>0, <2>1, <2>2 DEF ChargeTypes, BusOf, Charge!OthersHear
    <2>. QED BY <2>3, ChargeKept DEF WillHold
  <1>4. CASE Charge!InverterTakes
    <2>1. /\ inverter' = [inverter EXCEPT ![Head(outQ).topic] = Head(outQ).value]
          /\ UNCHANGED <<heard, recorded, sends, decided, missed>>
          /\ \/ link /\ outQ # <<>> /\ outQ' = Tail(outQ) /\ UNCHANGED <<link, outages>>
             \/ /\ outQ # <<>> /\ link /\ outages < MaxOutages
                /\ link' = FALSE /\ outages' = outages + 1 /\ UNCHANGED outQ
      BY <1>4 DEF Charge!InverterTakes, Charge!Bus!Acknowledged, Charge!Bus!Unacknowledged,
                  Charge!Bus!LinkLost
    <2>2. /\ BusOf(ChargeMessages, ChargeCapacity)' /\ outQ # <<>> /\ Head(outQ) \in ChargeMessages
          /\ outQ' = outQ \/ outQ' = Tail(outQ)
      BY <1>0, <2>1, BusTaken, ChargeConstants DEF ChargeTypes
    <2>3. inverter' \in [Charge!Topics -> Charge!Values \cup {Charge!None}]
      BY <1>0, <2>1, <2>2 DEF ChargeTypes, ChargeMessages
    <2>4. ChargeTypes'
      BY <1>0, <2>1, <2>2, <2>3 DEF ChargeTypes
    <2>5. ASSUME NEW s \in ChargeMessages, s.topic \in missed \/ WillHold(s)
          PROVE  s.topic \in missed' \/ WillHold(s)'
      <3>1. s.topic \in Charge!Topics
        BY DEF ChargeMessages
      <3>. QED BY <1>0, <2>1, <2>2, <2>5, <3>1, WillHoldTaken DEF ChargeTypes, BusOf
    <2>. QED BY <2>1, <2>4, <2>5, ChargeKept
  <1>5. CASE Charge!ChargeLinkBack
    <2>1. PICK f \in 0..Len(outQ) : Charge!Bus!LinkBack(f)
      BY <1>5 DEF Charge!ChargeLinkBack
    <2>2. /\ outQ' = SubSeq(outQ, f + 1, Len(outQ)) /\ link' = TRUE /\ outages' = outages
          /\ missed' = missed \cup (Charge!TopicsIn(outQ) \ Charge!TopicsIn(outQ'))
          /\ UNCHANGED <<heard, recorded, sends, inverter, decided>>
      BY <1>5, <2>1 DEF Charge!ChargeLinkBack, Charge!Bus!LinkBack
    <2>3. BusOf(ChargeMessages, ChargeCapacity)'
      BY <1>0, <2>1, <2>2, BusBack, ChargeConstants DEF ChargeTypes
    <2>4. ChargeTypes'
      BY <1>0, <2>2, <2>3 DEF ChargeTypes
    <2>5. ASSUME NEW s \in ChargeMessages, s.topic \in missed \/ WillHold(s)
          PROVE  s.topic \in missed' \/ WillHold(s)'
      <3>1. outQ \in Seq(ChargeMessages)
        BY <1>0 DEF ChargeTypes, BusOf
      <3>2. CASE WillHold(s)
        BY <2>2, <3>1, <3>2, WillHoldForgotten
      <3>. QED BY <2>2, <2>5, <3>2
    <2>. QED BY <2>2, <2>4, <2>5, ChargeKept
  <1>6. CASE Charge!ChargeRestart
    <2>1. /\ outQ' = <<>> /\ link' = FALSE /\ outages' = outages /\ heard' = Charge!Unheard
          /\ recorded' = <<>> /\ sends' = <<>> /\ decided' = "none" /\ inverter' = inverter
      BY <1>6 DEF Charge!ChargeRestart, Charge!Bus!BusRestart
    <2>2. outQ' \in Seq(ChargeMessages) /\ Len(outQ') = 0 /\ sends' \in Seq(ChargeMessages)
      BY <2>1, EmptySeq
    <2>3. BusOf(ChargeMessages, ChargeCapacity)'
      <3>1. 0 \in 0..ChargeCapacity /\ outages \in 0..MaxOutages
        BY <1>0, ChargeConstants DEF ChargeTypes, BusOf
      <3>. QED BY <2>1, <2>2, <3>1 DEF BusOf
    <2>4. heard' \in [ac_ignore : {Charge!None, 0, 1}, pv : Powers \cup {Charge!None},
                      house : Powers \cup {Charge!None}]
      BY <2>1 DEF Charge!Unheard
    <2>5. ChargeTypes'
      BY <1>0, <2>1, <2>2, <2>3, <2>4 DEF ChargeTypes
    <2>. QED BY <2>1, <2>5 DEF ChargeInv, ChargeSent
  <1>. QED BY <1>1, <1>2, <1>3, <1>4, <1>5, <1>6, ChargePublish DEF Charge!ChargeNext

LEMMA ChargeInvImplies == ChargeInv => Charge!ChargeTypesOK /\ Charge!InverterAsDecided
  <1> SUFFICES ASSUME ChargeInv PROVE Charge!ChargeTypesOK /\ Charge!InverterAsDecided
    OBVIOUS
  <1>1. Charge!ChargeTypesOK
    <2>1. Len(outQ) <= ChargeCapacity
      BY ChargeConstants DEF ChargeInv, ChargeTypes, BusOf
    <2>. QED BY <2>1 DEF ChargeInv, ChargeTypes, BusOf, Charge!ChargeTypesOK,
                         Charge!Bus!BusTypeOK, ChargeMessages
  <1>2. ASSUME decided # "none", sends = <<>>, outQ = <<>>, NEW i \in DOMAIN Charge!Settings(decided)
        PROVE  LET s == Charge!Settings(decided)[i]
               IN  s.topic \in missed \/ inverter[s.topic] = s.value
    <2>1. PICK t, n : t = Charge!Settings(decided) /\ n = Len(t)
      OBVIOUS
    <2>2. t \in Seq(ChargeMessages) /\ n \in Nat
      BY <1>2, <2>1, SettingsOfModes, Zenon DEF ChargeInv, ChargeTypes
    <2>3. Len(sends) = 0 /\ Len(outQ) = 0 /\ n - 0 = n /\ i \in 1..n
      BY <1>2, <2>1, <2>2
    <2>4. t[i].topic \in missed \/ WillHold(t[i])
      BY <1>2, <2>1, <2>3 DEF ChargeInv, ChargeSent, SettingCount
    <2>. QED BY <2>1, <2>3, <2>4 DEF WillHold
  <1>. QED BY <1>1, <1>2 DEF Charge!InverterAsDecided

LEMMA ChargePart == PartsSpec => [](part = "charge" => ChargeInv)
  <1>1. PartsInit => ChargeInv
    BY ChargeInvInit DEF PartsInit
  <1>2. (part = "charge" => ChargeInv) /\ [PartsNext]_partsVars
           => (part = "charge" => ChargeInv)'
    <2> SUFFICES ASSUME part = "charge" => ChargeInv, [PartsNext]_partsVars, part' = "charge"
                 PROVE  ChargeInv'
      OBVIOUS
    <2>1. CASE PartsNext
      BY <2>1, ChargeInvNext DEF PartsNext
    <2>2. CASE UNCHANGED partsVars
      <3>1. ChargeInv /\ UNCHANGED <<chargeVars, busVars>>
        BY <2>2 DEF partsVars, decisionVars
      <3>. QED BY <3>1 DEF ChargeInv, ChargeTypes, ChargeSent, SettingCount, WillHold,
                           chargeVars, busVars, BusOf
    <2>. QED BY <2>1, <2>2
  <1>. QED BY <1>1, <1>2, PTL DEF PartsSpec

-----------------------------------------------------------------------------
(* The air conditioner of an empty room.                                   *)

PresenceZone ==
    [known : BOOLEAN, present : BOOLEAN, absent : Nat, action : Presence!PresenceAction \cup {"none"}]

PresenceTypes ==
    /\ occupied \in BOOLEAN
    /\ emptyFor \in Nat /\ emptyFor <= OffAfter + 1
    /\ reported \in [present : BOOLEAN, age : Nat] /\ reported.age <= Heartbeat
    /\ zone \in PresenceZone /\ zone.absent <= OffAfter + 1
    /\ BusOf(Presence!PresenceAction, Capacity)
    /\ aircon \in Presence!Airconditioners

\* The absence in zone z began no earlier than a heartbeat before the room was empty, for a
\* report of age a and a room empty for e.
Counted(z, a, e) ==
    IF z.present THEN z.absent <= a ELSE z.absent <= e + Heartbeat \/ e >= OffAfter

\* Until a connection is lost, the control hears every report.
RoomFollowed ==
    /\ reported.present = occupied
    /\ zone.known /\ outages = 0 =>
          link /\ zone.present = reported.present /\ Counted(zone, reported.age, emptyFor)

Obeys(action) ==
    /\ action = "Occupied" => aircon.power /\ aircon.preset = "standard"
    /\ action = "Eco" => aircon.preset = "eco"
    /\ action = "Off" => ~aircon.power

\* The last command is on its way, done, or missed.
LastCommand ==
    zone.action # "none" /\ ~lastMissed =>
        IF outQ = <<>> THEN Obeys(zone.action) ELSE outQ[Len(outQ)] = zone.action

PresenceInv == PresenceTypes /\ RoomFollowed /\ LastCommand

LEMMA PresenceConstants ==
    /\ Capacity \in Nat /\ MaxOutages \in Nat /\ Heartbeat \in Nat \ {0}
    /\ OffAfter \in Nat /\ EcoAfter \in Nat
  <1>1. Presence!PresenceAssumption /\ Presence!Bus!BusAssumption
    BY ReadSideBounds DEF Presence!PresenceAssumption
  <1>. QED BY <1>1 DEF Presence!PresenceAssumption, Presence!Bus!BusAssumption

LEMMA PresenceInvInit == Presence!PresenceInit => PresenceInv
  <1> SUFFICES ASSUME Presence!PresenceInit PROVE PresenceInv
    OBVIOUS
  <1> USE DEF Presence!PresenceInit
  <1>1. BusOf(Presence!PresenceAction, Capacity)
    <2>1. outQ = <<>> /\ link = FALSE /\ outages = 0
      BY DEF Presence!Bus!BusInit
    <2>2. <<>> \in Seq(Presence!PresenceAction) /\ Len(<<>>) = 0
      BY EmptySeq
    <2>3. 0 \in 0..Capacity /\ 0 \in 0..MaxOutages
      BY PresenceConstants
    <2>. QED BY <2>1, <2>2, <2>3 DEF BusOf
  <1>2. PresenceTypes
    BY <1>1, PresenceConstants DEF PresenceTypes, PresenceZone, Presence!Unknown
  <1>3. zone.known = FALSE /\ zone.action = "none"
    BY DEF Presence!Unknown
  <1>. QED BY <1>2, <1>3 DEF PresenceInv, RoomFollowed, LastCommand

\* An age of a report for the zone z: what was counted for the last report
\* holds for the new one.
LEMMA PresenceReported ==
    ASSUME PresenceInv, NEW age \in Nat, NEW z \in PresenceZone, z.absent <= OffAfter + 1,
           occupied' \in BOOLEAN, emptyFor' \in Nat, emptyFor' <= OffAfter + 1,
           z.known = zone.known, z.present = zone.present, z.action = zone.action,
           zone.known /\ outages = 0 =>
              /\ z.present = occupied' => Counted(z, age, emptyFor')
              /\ z.present /\ ~occupied' => z.absent <= Heartbeat,
           Presence!Report(occupied', age, z), UNCHANGED <<outQ, link, outages, aircon, lastMissed>>
    PROVE  PresenceInv'
  <1>0. PresenceTypes /\ RoomFollowed /\ LastCommand
    BY DEF PresenceInv
  <1>1. CASE /\ reported.present # occupied' \/ age >= Heartbeat
             /\ reported' = [present |-> occupied', age |-> 0]
             /\ zone' = IF link THEN Presence!OnPresence(z, occupied') ELSE z
    <2>1. reported'.present = occupied' /\ reported'.age = 0
          /\ reported' \in [present : BOOLEAN, age : Nat]
      BY <1>1
    <2>2. /\ zone' \in PresenceZone /\ zone'.absent <= OffAfter + 1 /\ zone'.action = zone.action
          /\ link => /\ zone'.known /\ zone'.present = occupied'
                     /\ zone'.absent = IF occupied' \/ ~z.known THEN 0 ELSE z.absent
          /\ ~link => zone'.known = zone.known
      <3>1. CASE link
        <4>1. zone' = [z EXCEPT !.known = TRUE, !.present = occupied',
                                !.absent = IF occupied' \/ ~z.known THEN 0 ELSE @]
          BY <1>1, <3>1 DEF Presence!OnPresence
        <4>2. zone' = [known |-> TRUE, present |-> occupied', action |-> z.action,
                       absent |-> IF occupied' \/ ~z.known THEN 0 ELSE z.absent]
          BY <4>1 DEF PresenceZone
        <4>3. /\ z.action \in Presence!PresenceAction \cup {"none"} /\ z.absent \in Nat
          BY DEF PresenceZone
        <4>4. PICK a \in Nat : a = (IF occupied' \/ ~z.known THEN 0 ELSE z.absent) /\ a <= OffAfter + 1
          BY <4>3, PresenceConstants
        <4>. QED BY <3>1, <4>2, <4>3, <4>4 DEF PresenceZone
      <3>2. CASE ~link
        BY <1>1, <3>2
      <3>. QED BY <3>1, <3>2
    <2>3. PresenceTypes'
      BY <1>0, <2>1, <2>2, PresenceConstants DEF PresenceTypes, BusOf
    <2>4. ASSUME zone'.known, outages' = 0
          PROVE  link' /\ zone'.present = reported'.present /\ Counted(zone', reported'.age, emptyFor')
      <3>1. link /\ outages = 0
        BY <1>0, <2>2, <2>4 DEF RoomFollowed
      <3>2. zone'.present = occupied' /\ zone'.absent = IF occupied' \/ ~z.known THEN 0 ELSE z.absent
        BY <2>2, <3>1
      <3>3. CASE occupied' \/ ~z.known
        BY <2>1, <3>1, <3>2, <3>3, PresenceConstants DEF Counted
      <3>4. CASE ~occupied' /\ z.known
        <4>1. CASE z.present
          <5>1. z.absent <= Heartbeat
            BY <3>1, <3>4, <4>1
          <5>2. z.absent <= emptyFor' + Heartbeat
            BY <5>1, PresenceConstants DEF PresenceZone
          <5>. QED BY <2>1, <3>1, <3>2, <3>4, <5>2 DEF Counted
        <4>2. CASE ~z.present
          <5>1. z.present = occupied'
            BY <3>4, <4>2 DEF PresenceZone
          <5>2. Counted(z, age, emptyFor')
            BY <3>1, <3>4, <5>1
          <5>. QED BY <2>1, <3>1, <3>2, <3>4, <4>2, <5>2 DEF Counted
        <4>. QED BY <4>1, <4>2
      <3>. QED BY <3>3, <3>4
    <2>5. RoomFollowed'
      BY <2>1, <2>4 DEF RoomFollowed
    <2>6. LastCommand'
      BY <1>0, <2>2 DEF LastCommand, Obeys
    <2>. QED BY <2>3, <2>5, <2>6 DEF PresenceInv
  <1>2. CASE /\ reported.present = occupied' /\ age <= Heartbeat
             /\ reported' = [reported EXCEPT !.age = age]
             /\ zone' = z
    <2>1. reported'.present = occupied' /\ reported'.age = age
          /\ reported' \in [present : BOOLEAN, age : Nat]
      BY <1>0, <1>2 DEF PresenceTypes
    <2>2. PresenceTypes'
      BY <1>0, <1>2, <2>1 DEF PresenceTypes, BusOf
    <2>3. RoomFollowed'
      BY <1>0, <1>2, <2>1 DEF RoomFollowed
    <2>4. LastCommand'
      BY <1>0, <1>2 DEF LastCommand, Obeys
    <2>. QED BY <2>2, <2>3, <2>4 DEF PresenceInv
  <1>. QED BY <1>1, <1>2 DEF Presence!Report

LEMMA PresenceComeOrGo == ASSUME PresenceInv, Presence!ComeOrGo PROVE PresenceInv'
  <1>0. PresenceTypes /\ RoomFollowed
    BY DEF PresenceInv
  <1>1. /\ occupied' = ~occupied /\ emptyFor' = 0 /\ Presence!Report(occupied', reported.age, zone)
        /\ UNCHANGED <<outQ, link, outages, aircon, lastMissed>>
    BY DEF Presence!ComeOrGo
  <1>2. reported.age \in Nat /\ reported.age <= Heartbeat /\ zone \in PresenceZone
        /\ zone.absent <= OffAfter + 1 /\ emptyFor' <= OffAfter + 1 /\ occupied' \in BOOLEAN
    BY <1>0, <1>1, PresenceConstants DEF PresenceTypes
  <1>3. ASSUME zone.known, outages = 0
        PROVE  zone.present # occupied' /\ (zone.present => zone.absent <= Heartbeat)
    <2>1. zone.present = occupied /\ Counted(zone, reported.age, emptyFor)
      BY <1>0, <1>3 DEF RoomFollowed
    <2>2. zone.present # occupied'
      BY <1>0, <1>1, <2>1 DEF PresenceTypes
    <2>3. ASSUME zone.present PROVE zone.absent <= Heartbeat
      <3>1. zone.absent <= reported.age /\ zone.absent \in Nat
        BY <1>2, <2>1, <2>3 DEF Counted, PresenceZone
      <3>. QED BY <1>2, <3>1, PresenceConstants
    <2>. QED BY <2>2, <2>3, Zenon
  <1>. QED BY <1>1, <1>2, <1>3, PresenceReported

LEMMA PresenceBeat == ASSUME PresenceInv, Presence!Beat PROVE PresenceInv'
  <1>0. PresenceTypes /\ RoomFollowed
    BY DEF PresenceInv
  <1>1. PICK z, age : z = [zone EXCEPT !.absent = Presence!Aged(@)] /\ age = reported.age + 1
    OBVIOUS
  <1>2. /\ occupied' = occupied /\ emptyFor' = (IF occupied THEN 0 ELSE Presence!Aged(emptyFor))
        /\ Presence!Report(occupied', age, z) /\ UNCHANGED <<outQ, link, outages, aircon, lastMissed>>
    BY <1>1 DEF Presence!Beat
  <1>3. reported.age \in Nat /\ reported.age <= Heartbeat /\ age \in Nat
        /\ zone \in PresenceZone /\ zone.absent \in Nat /\ zone.absent <= OffAfter + 1
        /\ occupied' \in BOOLEAN /\ emptyFor \in Nat /\ emptyFor <= OffAfter + 1
    BY <1>0, <1>1, <1>2 DEF PresenceTypes, PresenceZone
  <1>4. \A a \in Nat : a <= OffAfter + 1 =>
            /\ Presence!Aged(a) \in Nat /\ Presence!Aged(a) <= OffAfter + 1
            /\ Presence!Aged(a) = a \/ Presence!Aged(a) = a + 1
            /\ a <= OffAfter => Presence!Aged(a) = a + 1
            /\ a > OffAfter => Presence!Aged(a) = a
    BY PresenceConstants DEF Presence!Aged
  <1>5. /\ z \in PresenceZone /\ z.absent = Presence!Aged(zone.absent) /\ z.known = zone.known
        /\ z.present = zone.present /\ z.action = zone.action
    BY <1>1, <1>3, <1>4 DEF PresenceZone
  <1>6. emptyFor' \in Nat /\ emptyFor' <= OffAfter + 1 /\ z.absent <= OffAfter + 1
    BY <1>2, <1>3, <1>4, <1>5, PresenceConstants
  <1>7. ASSUME zone.known, outages = 0
        PROVE  z.present = occupied' /\ Counted(z, age, emptyFor')
    <2>1. zone.present = occupied' /\ Counted(zone, reported.age, emptyFor)
      BY <1>0, <1>2, <1>7 DEF RoomFollowed
    <2>2. CASE zone.present
      <3>1. zone.absent <= reported.age
        BY <2>1, <2>2 DEF Counted
      <3>2. z.absent <= age
        BY <1>1, <1>3, <1>4, <1>5, <3>1
      <3>. QED BY <1>5, <2>1, <2>2, <3>2 DEF Counted
    <2>3. CASE ~zone.present
      <3>1. zone.absent <= emptyFor + Heartbeat \/ emptyFor >= OffAfter
        BY <2>1, <2>3 DEF Counted
      <3>2. emptyFor' = Presence!Aged(emptyFor)
        BY <1>2, <2>1, <2>3
      <3>3. z.absent <= emptyFor' + Heartbeat \/ emptyFor' >= OffAfter
        BY <1>3, <1>4, <1>5, <3>1, <3>2, PresenceConstants
      <3>. QED BY <1>5, <2>1, <2>3, <3>3 DEF Counted
    <2>. QED BY <1>5, <2>1, <2>2, <2>3
  <1>. QED BY <1>2, <1>3, <1>5, <1>6, <1>7, PresenceReported

LEMMA PresenceEvaluate == ASSUME PresenceInv, Presence!EvaluatePresence PROVE PresenceInv'
  <1>0. PresenceTypes /\ RoomFollowed /\ LastCommand
    BY DEF PresenceInv
  <1>1. PICK action : /\ action = Presence!Decide(zone.present, zone.absent)
                      /\ zone' = [zone EXCEPT !.action = action]
    BY DEF Presence!EvaluatePresence
  <1>2. /\ \/ Len(outQ) < Capacity /\ outQ' = Append(outQ, action) /\ UNCHANGED <<link, outages>>
           \/ Len(outQ) >= Slots /\ UNCHANGED <<outQ, link, outages>>
        /\ lastMissed' = (outQ' = outQ)
        /\ UNCHANGED <<occupied, emptyFor, reported, aircon>>
    BY <1>1 DEF Presence!EvaluatePresence, Presence!Bus!Publish, Presence!Bus!Accepted,
                Presence!Bus!Dropped, Presence!Bus!busVars
  <1>3. action \in Presence!PresenceAction
    BY <1>1 DEF Presence!Decide, Presence!PresenceAction
  <1>4. /\ BusOf(Presence!PresenceAction, Capacity)' /\ UNCHANGED <<link, outages>>
        /\ outQ' = outQ \/ outQ' = Append(outQ, action)
    BY <1>0, <1>2, <1>3, BusPublished, PresenceConstants DEF PresenceTypes
  <1>5. /\ zone' \in PresenceZone /\ zone'.absent = zone.absent /\ zone'.known = zone.known
        /\ zone'.present = zone.present /\ zone'.action = action
    BY <1>0, <1>1, <1>3 DEF PresenceTypes, PresenceZone
  <1>6. PresenceTypes'
    BY <1>0, <1>2, <1>4, <1>5 DEF PresenceTypes
  <1>7. RoomFollowed'
    BY <1>0, <1>2, <1>4, <1>5 DEF RoomFollowed, Counted
  <1>8. LastCommand'
    <2>1. CASE outQ' = outQ
      BY <1>2, <2>1 DEF LastCommand
    <2>2. CASE outQ' = Append(outQ, action)
      <3>1. outQ \in Seq(Presence!PresenceAction)
        BY <1>0 DEF PresenceTypes, BusOf
      <3>2. PICK n : n = Len(outQ)
        OBVIOUS
      <3>3. n \in Nat /\ Len(outQ') = n + 1 /\ outQ'[n + 1] = action
        BY <1>3, <2>2, <3>1, <3>2, QueueAppend
      <3>4. Len(<<>>) = 0 /\ n + 1 # 0
        BY <3>3
      <3>5. outQ' # <<>>
        BY <3>3, <3>4, Zenon
      <3>6. outQ'[Len(outQ')] = action
        BY <3>3, Zenon
      <3>. QED BY <1>5, <3>5, <3>6 DEF LastCommand
    <2>. QED BY <1>4, <2>1, <2>2
  <1>. QED BY <1>6, <1>7, <1>8 DEF PresenceInv

LEMMA PresenceTakes == ASSUME PresenceInv, Presence!UnitTakes PROVE PresenceInv'
  <1>0. PresenceTypes /\ RoomFollowed /\ LastCommand
    BY DEF PresenceInv
  <1>1. /\ aircon' = Presence!Applied(Head(outQ))
        /\ UNCHANGED <<occupied, emptyFor, reported, zone, lastMissed>>
        /\ \/ link /\ outQ # <<>> /\ outQ' = Tail(outQ) /\ UNCHANGED <<link, outages>>
           \/ /\ outQ # <<>> /\ link /\ outages < MaxOutages
              /\ link' = FALSE /\ outages' = outages + 1 /\ UNCHANGED outQ
    BY DEF Presence!UnitTakes, Presence!Bus!Acknowledged, Presence!Bus!Unacknowledged,
           Presence!Bus!LinkLost
  <1>2. /\ BusOf(Presence!PresenceAction, Capacity)' /\ outQ # <<>>
        /\ Head(outQ) \in Presence!PresenceAction
        /\ outQ' = outQ \/ outQ' = Tail(outQ)
    BY <1>0, <1>1, BusTaken, PresenceConstants DEF PresenceTypes
  <1>3. PICK h : h = Head(outQ)
    OBVIOUS
  <1>4. aircon' \in Presence!Airconditioners /\ Obeys(h)'
    BY <1>0, <1>1, <1>2, <1>3 DEF PresenceTypes, Presence!Applied, Presence!Airconditioners,
                                  Presence!PresenceAction, Obeys
  <1>5. PresenceTypes'
    BY <1>0, <1>1, <1>2, <1>4 DEF PresenceTypes
  <1>6. RoomFollowed'
    <2>1. UNCHANGED <<link, outages>> \/ (outages' = outages + 1 /\ outages \in Nat)
      BY <1>0, <1>1 DEF PresenceTypes, BusOf
    <2>2. outages' = 0 => link' = link /\ outages = 0
      BY <2>1
    <2>. QED BY <1>0, <1>1, <2>2 DEF RoomFollowed
  <1>7. LastCommand'
    <2>1. ASSUME zone.action # "none", ~lastMissed
          PROVE  IF outQ' = <<>> THEN Obeys(zone.action)' ELSE outQ'[Len(outQ')] = zone.action
      <3>1. PICK n : n = Len(outQ)
        OBVIOUS
      <3>2. outQ[n] = zone.action
        BY <1>0, <1>2, <2>1, <3>1 DEF LastCommand
      <3>3. CASE outQ' = outQ
        BY <1>2, <3>1, <3>2, <3>3
      <3>4. CASE outQ' = Tail(outQ)
        <4>1. /\ n \in Nat \ {0} /\ h = outQ[1] /\ Len(outQ') = n - 1
              /\ \A i \in 1..n - 1 : outQ'[i] = outQ[i + 1]
          <5>1. outQ \in Seq(Presence!PresenceAction)
            BY <1>0 DEF PresenceTypes, BusOf
          <5>. QED BY <1>2, <1>3, <3>1, <3>4, <5>1, QueueTail
        <4>2. CASE n = 1
          <5>1. h = zone.action
            BY <3>2, <4>1, <4>2
          <5>2. outQ' = <<>>
            BY <1>2, <4>1, <4>2 DEF BusOf
          <5>. QED BY <1>1, <1>4, <5>1, <5>2 DEF Obeys
        <4>3. CASE n # 1
          <5>1. n - 1 \in 1..n - 1 /\ (n - 1) + 1 = n
            BY <4>1, <4>3
          <5>2. outQ'[Len(outQ')] = outQ[n]
            BY <4>1, <5>1
          <5>3. outQ' # <<>>
            <6>1. Len(<<>>) = 0 /\ n - 1 # 0
              BY <4>1, <4>3
            <6>. QED BY <4>1, <6>1, Zenon
          <5>. QED BY <3>2, <5>2, <5>3
        <4>. QED BY <4>2, <4>3
      <3>. QED BY <1>2, <3>3, <3>4
    <2>2. zone' = zone /\ lastMissed' = lastMissed
      BY <1>1
    <2>. QED BY <2>1, <2>2 DEF LastCommand
  <1>. QED BY <1>5, <1>6, <1>7 DEF PresenceInv

LEMMA PresenceBack == ASSUME PresenceInv, Presence!PresenceLinkBack PROVE PresenceInv'
  <1>0. PresenceTypes /\ RoomFollowed /\ LastCommand
    BY DEF PresenceInv
  <1>1. PICK f \in 0..Len(outQ) : Presence!Bus!LinkBack(f)
    BY DEF Presence!PresenceLinkBack
  <1>2. /\ ~link /\ outQ' = SubSeq(outQ, f + 1, Len(outQ)) /\ link' = TRUE /\ outages' = outages
        /\ zone' = Presence!OnPresence(zone, reported.present)
        /\ lastMissed' = (lastMissed \/ (outQ # <<>> /\ outQ' = <<>>))
        /\ UNCHANGED <<occupied, emptyFor, reported, aircon>>
    BY <1>1 DEF Presence!PresenceLinkBack, Presence!Bus!LinkBack
  <1>3. BusOf(Presence!PresenceAction, Capacity)'
    BY <1>0, <1>1, <1>2, BusBack, PresenceConstants DEF PresenceTypes
  <1>4. /\ zone' \in PresenceZone /\ zone'.absent <= OffAfter + 1
        /\ zone'.present = reported.present /\ zone'.action = zone.action
        /\ ~zone.known => zone'.absent = 0
    <2>1. zone' = [zone EXCEPT !.known = TRUE, !.present = reported.present,
                               !.absent = IF reported.present \/ ~zone.known THEN 0 ELSE @]
      BY <1>2 DEF Presence!OnPresence
    <2>2. zone' = [known |-> TRUE, present |-> reported.present, action |-> zone.action,
                   absent |-> IF reported.present \/ ~zone.known THEN 0 ELSE zone.absent]
      BY <1>0, <2>1 DEF PresenceTypes, PresenceZone
    <2>3. /\ zone.action \in Presence!PresenceAction \cup {"none"} /\ zone.absent \in Nat
          /\ reported.present \in BOOLEAN
      BY <1>0 DEF PresenceTypes, PresenceZone
    <2>4. PICK a \in Nat : a = (IF reported.present \/ ~zone.known THEN 0 ELSE zone.absent)
                           /\ a <= OffAfter + 1
      BY <1>0, <2>3, PresenceConstants DEF PresenceTypes
    <2>5. zone' \in PresenceZone /\ zone'.absent = a
      BY <2>2, <2>3, <2>4 DEF PresenceZone
    <2>. QED BY <2>2, <2>4, <2>5
  <1>5. PresenceTypes'
    BY <1>0, <1>2, <1>3, <1>4 DEF PresenceTypes
  <1>6. RoomFollowed'
    <2>1. outages = 0 => ~zone.known
      BY <1>0, <1>2 DEF RoomFollowed
    <2>2. reported.age \in Nat /\ emptyFor \in Nat
      BY <1>0 DEF PresenceTypes
    <2>3. outages = 0 => Counted(zone', reported.age, emptyFor)
      BY <1>4, <2>1, <2>2, PresenceConstants DEF Counted
    <2>. QED BY <1>0, <1>2, <1>4, <2>3 DEF RoomFollowed, Counted
  <1>7. LastCommand'
    <2>1. ASSUME zone.action # "none", ~lastMissed'
          PROVE  IF outQ' = <<>> THEN Obeys(zone.action)' ELSE outQ'[Len(outQ')] = zone.action
      <3>1. PICK n : n = Len(outQ)
        OBVIOUS
      <3>2. /\ outQ \in Seq(Presence!PresenceAction) /\ n \in Nat /\ f \in 0..n /\ Len(outQ') = n - f
            /\ \A i \in 1..n - f : outQ'[i] = outQ[i + f]
        <4>1. outQ \in Seq(Presence!PresenceAction)
          BY <1>0 DEF PresenceTypes, BusOf
        <4>. QED BY <1>2, <3>1, <4>1, QueueSuffix
      <3>3. ~lastMissed /\ (outQ = <<>> \/ outQ' # <<>>)
        BY <1>2, <2>1
      <3>4. CASE outQ = <<>>
        <4>1. Obeys(zone.action)
          BY <1>0, <2>1, <3>3, <3>4 DEF LastCommand
        <4>2. outQ' = <<>>
          <5>1. n = 0 /\ f = 0
            BY <3>1, <3>2, <3>4
          <5>. QED BY <1>3, <3>2, <5>1 DEF BusOf
        <4>. QED BY <1>2, <1>4, <4>1, <4>2 DEF Obeys
      <3>5. CASE outQ # <<>> /\ outQ' # <<>>
        <4>1. outQ[n] = zone.action
          BY <1>0, <2>1, <3>1, <3>3, <3>5 DEF LastCommand
        <4>2. n - f # 0
          BY <1>3, <3>2, <3>5 DEF BusOf
        <4>3. n - f \in 1..n - f /\ (n - f) + f = n
          BY <3>2, <4>2
        <4>4. outQ'[Len(outQ')] = outQ[n]
          BY <3>2, <4>3
        <4>. QED BY <3>5, <4>1, <4>4
      <3>. QED BY <3>3, <3>4, <3>5
    <2>. QED BY <1>4, <2>1 DEF LastCommand
  <1>. QED BY <1>5, <1>6, <1>7 DEF PresenceInv

LEMMA PresenceInvNext == PresenceInv /\ Presence!PresenceNext => PresenceInv'
  <1> SUFFICES ASSUME PresenceInv, Presence!PresenceNext PROVE PresenceInv'
    OBVIOUS
  <1>0. PresenceTypes /\ RoomFollowed /\ LastCommand
    BY DEF PresenceInv
  <1>1. CASE Presence!PresenceLinkLost
    <2>1. /\ link' = FALSE /\ outages < MaxOutages /\ outages' = outages + 1 /\ outQ' = outQ
          /\ UNCHANGED <<occupied, emptyFor, reported, zone, aircon, lastMissed>>
      BY <1>1 DEF Presence!PresenceLinkLost, Presence!Bus!LinkLost
    <2>2. outages \in Nat /\ outages' \in 0..MaxOutages /\ outages' # 0
      BY <1>0, <2>1, PresenceConstants DEF PresenceTypes, BusOf
    <2>3. PresenceTypes'
      BY <1>0, <2>1, <2>2 DEF PresenceTypes, BusOf
    <2>4. RoomFollowed' /\ LastCommand'
      BY <1>0, <2>1, <2>2 DEF RoomFollowed, LastCommand, Obeys
    <2>. QED BY <2>3, <2>4 DEF PresenceInv
  <1>2. CASE Presence!PresenceRestart
    <2>1. /\ outQ' = <<>> /\ link' = FALSE /\ outages' = outages /\ zone' = Presence!Unknown
          /\ UNCHANGED <<occupied, emptyFor, reported, aircon, lastMissed>>
      BY <1>2 DEF Presence!PresenceRestart, Presence!Bus!BusRestart
    <2>2. outQ' \in Seq(Presence!PresenceAction) /\ Len(outQ') = 0
      BY <2>1, EmptySeq
    <2>3. BusOf(Presence!PresenceAction, Capacity)'
      <3>1. 0 \in 0..Capacity /\ outages \in 0..MaxOutages
        BY <1>0, PresenceConstants DEF PresenceTypes, BusOf
      <3>. QED BY <2>1, <2>2, <3>1 DEF BusOf
    <2>4. zone' \in PresenceZone /\ zone'.absent <= OffAfter + 1 /\ zone'.action = "none" /\ zone'.known = FALSE
      BY <2>1, PresenceConstants DEF Presence!Unknown, PresenceZone
    <2>5. PresenceTypes' /\ RoomFollowed' /\ LastCommand'
      BY <1>0, <2>1, <2>3, <2>4 DEF PresenceTypes, RoomFollowed, LastCommand
    <2>. QED BY <2>5 DEF PresenceInv
  <1>. QED BY <1>1, <1>2, PresenceComeOrGo, PresenceBeat, PresenceEvaluate, PresenceTakes,
              PresenceBack DEF Presence!PresenceNext

LEMMA PresenceInvImplies ==
    PresenceInv => /\ Presence!PresenceTypesOK
                   /\ Presence!AirconAsDecided /\ Presence!NotOffTooSoon
  <1> SUFFICES ASSUME PresenceInv
               PROVE  /\ Presence!PresenceTypesOK
                      /\ Presence!AirconAsDecided /\ Presence!NotOffTooSoon
    OBVIOUS
  <1>0. PresenceTypes /\ RoomFollowed /\ LastCommand
    BY DEF PresenceInv
  <1>1. Presence!PresenceTypesOK
    <2>1. emptyFor \in 0..(OffAfter + 1) /\ reported.age \in 0..Heartbeat /\ zone.absent \in 0..(OffAfter + 1)
      BY <1>0, PresenceConstants DEF PresenceTypes, PresenceZone
    <2>2. reported \in [present : BOOLEAN, age : 0..Heartbeat]
      BY <1>0, <2>1 DEF PresenceTypes
    <2>3. zone \in [known : BOOLEAN, present : BOOLEAN, absent : 0..(OffAfter + 1),
                    action : Presence!PresenceAction \cup {"none"}]
      BY <1>0, <2>1 DEF PresenceTypes, PresenceZone
    <2>4. Presence!Bus!BusTypeOK
      BY <1>0, PresenceConstants DEF PresenceTypes, BusOf, Presence!Bus!BusTypeOK
    <2>. QED BY <1>0, <2>1, <2>2, <2>3, <2>4 DEF Presence!PresenceTypesOK, PresenceTypes
  <1>2. Presence!AirconAsDecided
    BY <1>0 DEF LastCommand, Obeys, Presence!AirconAsDecided
  <1>3. Presence!NotOffTooSoon
    <2>1. ASSUME zone.known, Presence!Decide(zone.present, zone.absent) = "Off", outages = 0
          PROVE  ~occupied /\ emptyFor + Heartbeat >= OffAfter
      <3>1. ~zone.present /\ zone.absent >= OffAfter
        BY <2>1 DEF Presence!Decide
      <3>2. zone.present = occupied /\ Counted(zone, reported.age, emptyFor)
        BY <1>0, <2>1 DEF RoomFollowed
      <3>3. zone.absent <= emptyFor + Heartbeat \/ emptyFor >= OffAfter
        BY <3>1, <3>2 DEF Counted
      <3>. QED BY <1>0, <3>1, <3>2, <3>3, PresenceConstants DEF PresenceTypes, PresenceZone
    <2>. QED BY <2>1 DEF Presence!NotOffTooSoon
  <1>. QED BY <1>1, <1>2, <1>3

LEMMA PresencePart == PartsSpec => [](part = "presence" => PresenceInv)
  <1>1. PartsInit => PresenceInv
    BY PresenceInvInit DEF PartsInit
  <1>2. (part = "presence" => PresenceInv) /\ [PartsNext]_partsVars
           => (part = "presence" => PresenceInv)'
    <2> SUFFICES ASSUME part = "presence" => PresenceInv, [PartsNext]_partsVars, part' = "presence"
                 PROVE  PresenceInv'
      OBVIOUS
    <2>1. CASE PartsNext
      BY <2>1, PresenceInvNext DEF PartsNext
    <2>2. CASE UNCHANGED partsVars
      <3>1. PresenceInv /\ UNCHANGED <<presenceVars, busVars>>
        BY <2>2 DEF partsVars, decisionVars
      <3>. QED BY <3>1 DEF PresenceInv, PresenceTypes, RoomFollowed, Counted, LastCommand, Obeys,
                           presenceVars, busVars, BusOf
    <2>. QED BY <2>1, <2>2
  <1>. QED BY <1>1, <1>2, PTL DEF PartsSpec

-----------------------------------------------------------------------------
(* The water heater.                                                       *)

Concerns == {"asked", "hot"}
HeaterModes == Heater!WaterHeaterMode \cup {Heater!NoMode}

HeaterTypes ==
    /\ unit \in [mode : Heater!WaterHeaterMode, target : Heater!Targets, tank : {"cool", "hot"}]
    /\ conditions \in Conditions
    /\ lastRead \in [mode : Heater!WaterHeaterMode, tank : {"none", "cool", "hot"}]
    /\ polled # Heater!Nothing => polled \in [mode : Heater!WaterHeaterMode, tank : {"cool", "hot"}]
    /\ since = Heater!None \/ (since \in Nat /\ since <= Hold + 1)
    /\ lastChange = Heater!None \/ (lastChange \in Nat /\ lastChange <= Cooldown + 1)
    /\ phase \in {"tick", "decide", "set", "idle"}
    /\ readback \in HeaterModes /\ wanted \in HeaterModes /\ due \in HeaterModes /\ manual \in HeaterModes
    /\ phase = "set" => wanted \in {Heater!Vacation, Heater!HeatPump}
    /\ faults \in 0..MaxFaults
    /\ wrongFor \in [Concerns -> Nat]

\* For how long the task may not know that the heater should stop.
Grace(c) == IF c = "asked" THEN 0 ELSE Hold + 1

\* What should stop is stopped as soon as the last change is old enough.
Stops(c) ==
    /\ wrongFor[c] > 0 => Heater!Wrong(c)
    /\ phase = "decide" /\ readback = Heater!Vacation => wrongFor[c] = 0
    /\ wrongFor[c] <= Grace(c) + (IF lastChange = Heater!None THEN 1 ELSE lastChange)
    /\ phase = "idle" /\ (lastChange = Heater!None \/ lastChange > Cooldown) => wrongFor[c] <= Grace(c)
    /\ phase = "set" /\ wanted = Heater!HeatPump => wrongFor[c] <= Grace(c)

\* A tick after the tank is hot, nobody remembers that it was not, and its
\* anchor is as old as it has been hot.
Anchored ==
    wrongFor["hot"] > 0 =>
        /\ polled # Heater!Nothing => polled.tank = "hot"
        /\ phase = "decide" => lastRead.tank = "hot"
        /\ phase \in {"set", "idle"} => since # Heater!None
        /\ wrongFor["hot"] > 1 => since # Heater!None /\ (since >= wrongFor["hot"] - 1 \/ since > Hold)

TargetKept == due = Heater!NoMode /\ ~excused => unit.target = Heater!TargetOf(unit.mode)

HeaterInv == HeaterTypes /\ (\A c \in Concerns : Stops(c)) /\ Anchored /\ TargetKept

LEMMA HeaterConstants ==
    /\ Cooldown \in Nat \ {0} /\ Hold \in Nat \ {0} /\ MaxFaults \in Nat
    /\ ManualModes \subseteq Heater!WaterHeaterMode
    /\ Heater!NoMode \notin Heater!WaterHeaterMode
    /\ Heater!Vacation \in Heater!WaterHeaterMode /\ Heater!HeatPump \in Heater!WaterHeaterMode
    /\ Heater!Vacation # Heater!HeatPump
    /\ Heater!None \notin Nat
    /\ \A c \in Concerns : Grace(c) \in Nat
    /\ Grace("asked") = 0 /\ Grace("hot") = Hold + 1 /\ "asked" \in Concerns /\ "hot" \in Concerns
    /\ \A c \in Concerns : c = "asked" \/ c = "hot"
  <1>1. Heater!HeaterAssumption
    BY ReadSideBounds
  <1>. QED BY <1>1 DEF Heater!HeaterAssumption, Heater!NoMode, Heater!WaterHeaterMode, Heater!None,
                       Heater!Vacation, Heater!HeatPump, Grace, Concerns

LEMMA HeaterInvInit == Heater!HeaterInit => HeaterInv
  <1> SUFFICES ASSUME Heater!HeaterInit PROVE HeaterInv
    OBVIOUS
  <1> USE DEF Heater!HeaterInit
  <1>1. wrongFor \in [Concerns -> Nat] /\ \A c \in Concerns : wrongFor[c] = 0
    BY DEF Concerns
  <1>2. HeaterTypes
    <2>1. 0 \in 0..MaxFaults
      BY HeaterConstants
    <2>. QED BY <1>1, <2>1, HeaterConstants DEF HeaterTypes, Heater!Default, HeaterModes, Heater!WaterHeaterMode
  <1>3. \A c \in Concerns : Stops(c)
    BY <1>1, HeaterConstants DEF Stops
  <1>4. Anchored
    BY <1>1, HeaterConstants DEF Anchored
  <1>. QED BY <1>2, <1>3, <1>4 DEF HeaterInv, TargetKept

\* A count goes up only with a tick, and starts anew once nothing is wrong, or
\* with a request that fails.
LEMMA HeaterCounts ==
    ASSUME HeaterTypes, Heater!Counted
    PROVE  /\ wrongFor' \in [Concerns -> Nat]
           /\ \A c \in Concerns :
                 /\ wrongFor'[c] \in Nat /\ wrongFor[c] \in Nat
                 /\ wrongFor'[c] > 0 => Heater!Wrong(c)' /\ faults' = faults
                 /\ \/ wrongFor'[c] = 0 \/ wrongFor'[c] = wrongFor[c]
                    \/ phase = "idle" /\ phase' = "tick" /\ wrongFor'[c] = wrongFor[c] + 1
  <1>1. DOMAIN wrongFor = Concerns /\ \A c \in Concerns : wrongFor[c] \in Nat
    BY DEF HeaterTypes
  <1>2. wrongFor' = [c \in Concerns |->
            IF ~Heater!Wrong(c)' \/ faults' # faults THEN 0
            ELSE IF phase = "idle" /\ phase' = "tick" /\ wrongFor[c] <= Heater!Longest(c)
                 THEN wrongFor[c] + 1 ELSE wrongFor[c]]
    BY <1>1 DEF Heater!Counted
  <1>3. ASSUME NEW c \in Concerns
        PROVE  /\ wrongFor'[c] \in Nat
               /\ wrongFor'[c] > 0 => Heater!Wrong(c)' /\ faults' = faults
               /\ \/ wrongFor'[c] = 0 \/ wrongFor'[c] = wrongFor[c]
                  \/ phase = "idle" /\ phase' = "tick" /\ wrongFor'[c] = wrongFor[c] + 1
    <2>1. wrongFor'[c] =
            IF ~Heater!Wrong(c)' \/ faults' # faults THEN 0
            ELSE IF phase = "idle" /\ phase' = "tick" /\ wrongFor[c] <= Heater!Longest(c)
                 THEN wrongFor[c] + 1 ELSE wrongFor[c]
      BY <1>2
    <2>2. wrongFor[c] \in Nat
      BY <1>1
    <2>3. CASE ~Heater!Wrong(c)' \/ faults' # faults
      BY <2>1, <2>3
    <2>4. CASE ~(~Heater!Wrong(c)' \/ faults' # faults)
      <3>1. CASE phase = "idle" /\ phase' = "tick" /\ wrongFor[c] <= Heater!Longest(c)
        <4>1. wrongFor'[c] = wrongFor[c] + 1
          BY <2>1, <2>4, <3>1
        <4>. QED BY <2>2, <2>4, <3>1, <4>1
      <3>2. CASE ~(phase = "idle" /\ phase' = "tick" /\ wrongFor[c] <= Heater!Longest(c))
        <4>1. wrongFor'[c] = wrongFor[c]
          BY <2>1, <2>4, <3>2
        <4>. QED BY <2>2, <2>4, <4>1
      <3>. QED BY <3>1, <3>2
    <2>. QED BY <2>3, <2>4
  <1>. QED BY <1>1, <1>2, <1>3

LEMMA HeaterStopped ==
    ASSUME HeaterTypes', NEW c \in Concerns, wrongFor'[c] = 0
    PROVE  Stops(c)'
  <1>1. Grace(c) \in Nat
    BY HeaterConstants
  <1>. QED BY <1>1, HeaterConstants DEF Stops, HeaterTypes

\* A step of somebody else than the task.
LEMMA HeaterOthers ==
    ASSUME HeaterInv, HeaterTypes', Heater!Counted, UNCHANGED <<phase, readback, wanted, lastChange>>
    PROVE  \A c \in Concerns : Stops(c)'
  <1>1. ASSUME NEW c \in Concerns PROVE Stops(c)'
    <2>1. HeaterTypes /\ Stops(c)
      BY DEF HeaterInv
    <2>2. CASE wrongFor'[c] = 0
      BY <2>2, HeaterStopped
    <2>3. CASE wrongFor'[c] = wrongFor[c]
      <3>1. wrongFor'[c] > 0 => Heater!Wrong(c)'
        BY <2>1, HeaterCounts
      <3>. QED BY <2>1, <2>3, <3>1, HeaterConstants DEF Stops, Grace
    <2>4. ~(phase = "idle" /\ phase' = "tick")
      OBVIOUS
    <2>. QED BY <2>1, <2>2, <2>3, <2>4, HeaterCounts
  <1>. QED BY <1>1

LEMMA HeaterFault ==
    ASSUME HeaterInv, HeaterTypes', Heater!Counted, faults' = faults + 1
    PROVE  (\A c \in Concerns : Stops(c)') /\ Anchored'
  <1>1. HeaterTypes /\ faults' # faults
    BY HeaterConstants DEF HeaterInv, HeaterTypes
  <1>2. \A c \in Concerns : wrongFor'[c] = 0
    <2>1. ASSUME NEW c \in Concerns PROVE wrongFor'[c] = 0
      <3>1. wrongFor'[c] \in Nat /\ ~(wrongFor'[c] > 0)
        BY <1>1, HeaterCounts
      <3>. QED BY <3>1
    <2>. QED BY <2>1
  <1>3. wrongFor'["hot"] = 0
    BY <1>2 DEF Concerns
  <1>. QED BY <1>2, <1>3, HeaterStopped DEF Anchored

LEMMA HeaterFaulted ==
    ASSUME HeaterTypes, Heater!Fault
    PROVE  faults' \in 0..MaxFaults /\ faults' = faults + 1
  BY HeaterConstants DEF HeaterTypes, Heater!Fault

LEMMA HeaterAnchor ==
    ASSUME HeaterTypes, NEW tank
    PROVE  /\ Heater!Anchor(tank) = Heater!None
                 \/ (Heater!Anchor(tank) \in Nat /\ Heater!Anchor(tank) <= Hold + 1)
           /\ tank = "hot" => Heater!Anchor(tank) \in Nat
           /\ tank = "hot" /\ since # Heater!None => Heater!Anchor(tank) = since
  <1>1. PICK a : a = Heater!Anchor(tank)
    OBVIOUS
  <1>2. 0 \in Nat /\ 0 <= Hold + 1
    BY HeaterConstants
  <1>3. CASE tank = "hot" /\ since = Heater!None
    <2>1. a = 0
      BY <1>1, <1>3 DEF Heater!Anchor
    <2>. QED BY <1>1, <1>2, <1>3, <2>1
  <1>4. CASE tank = "cool"
    <2>1. a = Heater!None /\ tank # "hot"
      BY <1>1, <1>4 DEF Heater!Anchor
    <2>. QED BY <1>1, <2>1
  <1>5. CASE tank # "cool" /\ ~(tank = "hot" /\ since = Heater!None)
    <2>1. a = since
      BY <1>1, <1>5 DEF Heater!Anchor
    <2>. QED BY <1>1, <1>5, <2>1 DEF HeaterTypes
  <1>. QED BY <1>3, <1>4, <1>5

LEMMA HeaterTypesNext ==
    ASSUME HeaterTypes, Heater!HeaterStep, wrongFor' \in [Concerns -> Nat]
    PROVE  HeaterTypes'
  <1>1. CASE Heater!Hears \/ Heater!TankMoves
    <2>1. unit' \in [mode : Heater!WaterHeaterMode, target : Heater!Targets, tank : {"cool", "hot"}]
      BY <1>1 DEF HeaterTypes, Heater!Hears, Heater!TankMoves
    <2>. QED BY <1>1, <2>1 DEF HeaterTypes, Heater!Hears, Heater!TankMoves, Heater!taskVars
  <1>2. CASE Heater!ReadState
    <2>1. Heater!Snapshot \in [mode : Heater!WaterHeaterMode, tank : {"none", "cool", "hot"}]
          /\ unit.mode \in HeaterModes
      BY DEF Heater!Snapshot, HeaterTypes, HeaterModes
    <2>. QED BY <1>2, <2>1 DEF HeaterTypes, Heater!ReadState
  <1>3. CASE Heater!ReadFails
    <2>1. readback' \in HeaterModes
      BY <1>3, HeaterConstants DEF HeaterTypes, Heater!ReadFails, HeaterModes
    <2>2. faults' \in 0..MaxFaults
      BY <1>3, HeaterFaulted DEF Heater!ReadFails
    <2>. QED BY <1>3, <2>1, <2>2 DEF HeaterTypes, Heater!ReadFails
  <1>4. CASE Heater!Decide
    <2>1. /\ readback' = Heater!NoMode /\ since' = Heater!Anchor(lastRead.tank)
          /\ UNCHANGED <<unit, conditions, lastRead, lastChange, due, polled, manual, faults>>
          /\ \/ wanted' \in {Heater!Vacation, Heater!HeatPump} /\ phase' = "set"
             \/ wanted' = Heater!NoMode /\ phase' = "idle"
      BY <1>4 DEF Heater!Decide, Heater!Evaluated
    <2>2. since' = Heater!None \/ (since' \in Nat /\ since' <= Hold + 1)
      BY <2>1, HeaterAnchor
    <2>3. wanted' \in HeaterModes /\ readback' \in HeaterModes
      BY <2>1, HeaterConstants DEF HeaterModes
    <2>. QED BY <2>1, <2>2, <2>3 DEF HeaterTypes
  <1>5. CASE Heater!SetMode
    <2>1. /\ unit' = [unit EXCEPT !.mode = wanted] /\ lastRead' = [lastRead EXCEPT !.mode = wanted]
          /\ lastChange' = 0 /\ due' = wanted /\ wanted' = Heater!NoMode /\ phase' = "idle"
          /\ UNCHANGED <<conditions, since, readback, polled, manual, faults>>
      BY <1>5 DEF Heater!SetMode
    <2>2. wanted \in Heater!WaterHeaterMode
      BY <1>5, HeaterConstants DEF Heater!SetMode, HeaterTypes
    <2>3. /\ unit' \in [mode : Heater!WaterHeaterMode, target : Heater!Targets, tank : {"cool", "hot"}]
          /\ lastRead' \in [mode : Heater!WaterHeaterMode, tank : {"none", "cool", "hot"}]
      BY <2>1, <2>2 DEF HeaterTypes
    <2>4. due' \in HeaterModes /\ wanted' \in HeaterModes /\ 0 <= Cooldown + 1
      BY <2>1, <2>2, HeaterConstants DEF HeaterModes
    <2>. QED BY <2>1, <2>3, <2>4 DEF HeaterTypes
  <1>6. CASE Heater!SetModeFails
    <2>1. /\ unit' = unit \/ unit' = [unit EXCEPT !.mode = wanted]
          /\ wanted' = Heater!NoMode /\ phase' = "idle"
          /\ UNCHANGED <<conditions, lastRead, lastChange, due, since, readback, polled, manual>>
      BY <1>6 DEF Heater!SetModeFails
    <2>2. wanted \in Heater!WaterHeaterMode
      BY <1>6, HeaterConstants DEF Heater!SetModeFails, HeaterTypes
    <2>3. unit' \in [mode : Heater!WaterHeaterMode, target : Heater!Targets, tank : {"cool", "hot"}]
      BY <2>1, <2>2 DEF HeaterTypes
    <2>4. faults' \in 0..MaxFaults /\ wanted' \in HeaterModes
      BY <1>6, <2>1, HeaterFaulted DEF Heater!SetModeFails, HeaterModes
    <2>. QED BY <2>1, <2>3, <2>4 DEF HeaterTypes
  <1>7. CASE Heater!SetTarget
    <2>1. Heater!TargetOf(due) \in Heater!Targets
      BY DEF Heater!TargetOf, Heater!Targets
    <2>2. unit' \in [mode : Heater!WaterHeaterMode, target : Heater!Targets, tank : {"cool", "hot"}]
      BY <1>7, <2>1 DEF HeaterTypes, Heater!SetTarget
    <2>. QED BY <1>7, <2>2 DEF HeaterTypes, Heater!SetTarget, Heater!taskVars, HeaterModes
  <1>8. CASE Heater!SetTargetFails
    <2>1. faults' \in 0..MaxFaults
      BY <1>8, HeaterFaulted DEF Heater!SetTargetFails
    <2>. QED BY <1>8, <2>1 DEF HeaterTypes, Heater!SetTargetFails, Heater!taskVars, HeaterModes
  <1>9. CASE Heater!PollAnswered
    <2>1. Heater!Snapshot \in [mode : Heater!WaterHeaterMode, tank : {"cool", "hot"}]
      BY DEF Heater!Snapshot, HeaterTypes
    <2>. QED BY <1>9, <2>1 DEF HeaterTypes, Heater!PollAnswered, Heater!taskVars
  <1>10. CASE Heater!PollNoted
    <2>1. polled \in [mode : Heater!WaterHeaterMode, tank : {"none", "cool", "hot"}]
      BY <1>10 DEF HeaterTypes, Heater!PollNoted
    <2>2. since' = Heater!None \/ (since' \in Nat /\ since' <= Hold + 1)
      BY <1>10, HeaterAnchor DEF Heater!PollNoted
    <2>. QED BY <1>10, <2>1, <2>2 DEF HeaterTypes, Heater!PollNoted, Heater!taskVars
  <1>11. CASE \E m \in ManualModes : Heater!ManualSet(m)
    <2>1. PICK m \in ManualModes : Heater!ManualSet(m)
      BY <1>11
    <2>2. m \in Heater!WaterHeaterMode /\ m \in HeaterModes
      BY HeaterConstants DEF HeaterModes
    <2>3. unit' \in [mode : Heater!WaterHeaterMode, target : Heater!Targets, tank : {"cool", "hot"}]
      BY <2>1, <2>2 DEF HeaterTypes, Heater!ManualSet
    <2>. QED BY <2>1, <2>2, <2>3 DEF HeaterTypes, Heater!ManualSet, Heater!taskVars
  <1>12. CASE Heater!ManualNoted
    <2>1. manual \in Heater!WaterHeaterMode
      BY <1>12 DEF HeaterTypes, HeaterModes, Heater!ManualNoted
    <2>2. lastRead' \in [mode : Heater!WaterHeaterMode, tank : {"none", "cool", "hot"}]
      BY <1>12, <2>1 DEF HeaterTypes, Heater!ManualNoted
    <2>. QED BY <1>12, <2>2 DEF HeaterTypes, Heater!ManualNoted, Heater!taskVars, HeaterModes
  <1>13. CASE Heater!Elapse
    <2>1. since' = Heater!None \/ (since' \in Nat /\ since' <= Hold + 1)
      BY <1>13, HeaterConstants DEF HeaterTypes, Heater!Elapse, Heater!Older
    <2>2. lastChange' = Heater!None \/ (lastChange' \in Nat /\ lastChange' <= Cooldown + 1)
      BY <1>13, HeaterConstants DEF HeaterTypes, Heater!Elapse, Heater!Older
    <2>. QED BY <1>13, <2>1, <2>2 DEF HeaterTypes, Heater!Elapse
  <1>14. CASE Heater!Restart
    <2>1. Heater!Default \in [mode : Heater!WaterHeaterMode, tank : {"none", "cool", "hot"}]
      BY HeaterConstants DEF Heater!Default
    <2>2. faults' \in 0..MaxFaults /\ Heater!NoMode \in HeaterModes
      BY <1>14, HeaterFaulted DEF Heater!Restart, HeaterModes
    <2>. QED BY <1>14, <2>1, <2>2 DEF HeaterTypes, Heater!Restart
  <1>. QED BY <1>1, <1>2, <1>3, <1>4, <1>5, <1>6, <1>7, <1>8, <1>9, <1>10, <1>11, <1>12, <1>13, <1>14
           DEF Heater!HeaterStep

LEMMA HeaterTargetKept ==
    ASSUME HeaterInv, Heater!HeaterStep
    PROVE  TargetKept'
  <1>0. HeaterTypes /\ TargetKept
    BY DEF HeaterInv
  <1>1. CASE \/ Heater!Hears \/ Heater!TankMoves \/ Heater!ReadState \/ Heater!ReadFails \/ Heater!Decide
             \/ Heater!PollAnswered \/ Heater!PollNoted \/ Heater!ManualNoted \/ Heater!Elapse
    <2>1. unit'.target = unit.target /\ unit'.mode = unit.mode /\ UNCHANGED <<due, excused>>
      BY <1>0, <1>1 DEF HeaterTypes, Heater!Hears, Heater!TankMoves, Heater!ReadState, Heater!ReadFails,
                  Heater!Decide, Heater!PollAnswered, Heater!PollNoted, Heater!ManualNoted, Heater!Elapse
    <2>. QED BY <1>0, <2>1 DEF TargetKept
  <1>2. CASE Heater!SetMode
    <2>1. due' # Heater!NoMode
      BY <1>0, <1>2, HeaterConstants DEF Heater!SetMode, HeaterTypes
    <2>. QED BY <2>1 DEF TargetKept
  <1>3. CASE Heater!SetModeFails
    BY <1>0, <1>3 DEF Heater!SetModeFails, TargetKept
  <1>4. CASE Heater!SetTarget
    <2>1. unit'.target = Heater!TargetOf(due) /\ unit'.mode = unit.mode /\ excused' = (unit.mode # due)
      BY <1>0, <1>4 DEF Heater!SetTarget, HeaterTypes
    <2>. QED BY <2>1 DEF TargetKept
  <1>5. CASE Heater!SetTargetFails \/ \E m \in ManualModes : Heater!ManualSet(m)
    BY <1>5 DEF Heater!SetTargetFails, Heater!ManualSet, TargetKept
  <1>6. CASE Heater!Restart
    BY <1>0, <1>6 DEF Heater!Restart, TargetKept
  <1>. QED BY <1>1, <1>2, <1>3, <1>4, <1>5, <1>6 DEF Heater!HeaterStep

\* The tank of a heater that is too hot.
LEMMA HeaterHot ==
    ASSUME HeaterInv, wrongFor["hot"] > 0
    PROVE  unit.tank = "hot" /\ Anchored
  BY HeaterConstants DEF HeaterInv, Stops, Heater!Wrong

LEMMA HeaterRead ==
    ASSUME HeaterInv, HeaterTypes', Heater!Counted, Heater!ReadState
    PROVE  (\A c \in Concerns : Stops(c)') /\ Anchored'
  <1>1. /\ phase = "tick" /\ phase' = "decide" /\ readback' = unit.mode /\ lastRead' = Heater!Snapshot
        /\ UNCHANGED <<unit, conditions, since, lastChange, wanted, due, polled, manual, faults>>
    BY DEF Heater!ReadState
  <1>2. HeaterTypes /\ \A c \in Concerns : Stops(c)
    BY DEF HeaterInv
  <1>3. \A c \in Concerns : /\ wrongFor'[c] \in Nat /\ wrongFor[c] \in Nat
                            /\ wrongFor'[c] > 0 => Heater!Wrong(c)'
                            /\ wrongFor'[c] = 0 \/ wrongFor'[c] = wrongFor[c]
    BY <1>1, <1>2, HeaterCounts
  <1>4. ASSUME NEW c \in Concerns PROVE Stops(c)'
    <2>1. CASE wrongFor'[c] = 0
      BY <2>1, HeaterStopped
    <2>2. CASE wrongFor'[c] # 0
      <3>1. wrongFor'[c] > 0 /\ Heater!Wrong(c)' /\ wrongFor'[c] = wrongFor[c]
        BY <1>3, <2>2
      <3>2. readback' # Heater!Vacation
        BY <1>1, <3>1 DEF Heater!Wrong
      <3>3. Stops(c)
        BY <1>2
      <3>. QED BY <1>1, <3>1, <3>2, <3>3 DEF Stops, Grace
    <2>. QED BY <2>1, <2>2
  <1>5. Anchored'
    <2>1. CASE wrongFor'["hot"] = 0
      BY <2>1, HeaterConstants DEF Anchored
    <2>2. CASE wrongFor'["hot"] # 0
      <3>1. wrongFor["hot"] > 0 /\ wrongFor'["hot"] = wrongFor["hot"]
        BY <1>3, <2>2, HeaterConstants
      <3>2. unit.tank = "hot" /\ Anchored
        BY <3>1, HeaterHot
      <3>3. lastRead'.tank = "hot"
        BY <1>1, <3>2 DEF Heater!Snapshot
      <3>. QED BY <1>1, <3>1, <3>2, <3>3 DEF Anchored
    <2>. QED BY <2>1, <2>2
  <1>. QED BY <1>4, <1>5

\* The task decides: if it leaves the heater as it is though the last change is old enough, it does
\* not know yet that it should stop.
LEMMA HeaterDecide ==
    ASSUME HeaterInv, HeaterTypes', Heater!Counted, Heater!Decide
    PROVE  (\A c \in Concerns : Stops(c)') /\ Anchored'
  <1>1. PICK held \in IF lastRead.tank = "hot" THEN Heater!Reached(since', Hold) ELSE {FALSE},
             can \in Heater!CanChange :
            IF Heater!Received /\ Heater!Evaluated(held) # readback /\ can
            THEN wanted' = Heater!Evaluated(held) /\ phase' = "set"
            ELSE wanted' = Heater!NoMode /\ phase' = "idle"
    BY DEF Heater!Decide
  <1>2. /\ phase = "decide" /\ since' = Heater!Anchor(lastRead.tank)
        /\ UNCHANGED <<unit, conditions, lastRead, lastChange, due, polled, manual, faults>>
    BY DEF Heater!Decide
  <1>3. HeaterTypes /\ Anchored /\ \A c \in Concerns : Stops(c)
    BY DEF HeaterInv
  <1>4. \A c \in Concerns : /\ wrongFor'[c] \in Nat /\ wrongFor[c] \in Nat
                            /\ wrongFor'[c] > 0 => Heater!Wrong(c)'
                            /\ wrongFor'[c] = 0 \/ wrongFor'[c] = wrongFor[c]
    BY <1>2, <1>3, HeaterCounts
  <1>5. ASSUME wrongFor["hot"] > 0
        PROVE  /\ lastRead.tank = "hot" /\ since' \in Nat
               /\ wrongFor["hot"] > 1 => since' >= wrongFor["hot"] - 1 \/ since' > Hold
    <2>1. lastRead.tank = "hot"
      BY <1>2, <1>3, <1>5 DEF Anchored
    <2>2. since' \in Nat /\ (since # Heater!None => since' = since)
      BY <1>2, <1>3, <2>1, HeaterAnchor
    <2>. QED BY <1>3, <1>5, <2>1, <2>2 DEF Anchored
  <1>6. Anchored'
    <2>1. CASE wrongFor'["hot"] = 0
      BY <2>1, HeaterConstants DEF Anchored
    <2>2. CASE wrongFor'["hot"] # 0
      <3>1. wrongFor["hot"] > 0 /\ wrongFor'["hot"] = wrongFor["hot"]
        BY <1>4, <2>2, HeaterConstants
      <3>2. polled # Heater!Nothing => polled.tank = "hot"
        BY <1>3, <3>1 DEF Anchored
      <3>3. phase' # "decide"
        BY <1>1
      <3>. QED BY <1>2, <1>5, <3>1, <3>2, <3>3, HeaterConstants DEF Anchored
    <2>. QED BY <2>1, <2>2
  <1>7. ASSUME NEW c \in Concerns, wrongFor[c] > Grace(c), wrongFor'[c] > 0
        PROVE  /\ Heater!Received /\ Heater!Evaluated(held) = Heater!Vacation
               /\ readback # Heater!Vacation
    <2>1. Stops(c) /\ Grace(c) \in Nat /\ wrongFor[c] \in Nat
      BY <1>3, <1>4, HeaterConstants
    <2>2. wrongFor[c] > 0 /\ wrongFor[c] # 0
      BY <1>7, <2>1
    <2>3. Heater!Wrong(c) /\ readback # Heater!Vacation
      BY <1>2, <2>1, <2>2 DEF Stops
    <2>4. Heater!Received
      BY <2>3 DEF Heater!Wrong
    <2>5. CASE c = "asked"
      BY <2>3, <2>4, <2>5 DEF Heater!Wrong, Heater!Evaluated
    <2>6. CASE c = "hot"
      <3>1. wrongFor["hot"] > Hold + 1
        BY <1>7, <2>6, HeaterConstants
      <3>2. lastRead.tank = "hot" /\ since' \in Nat /\ since' > Hold
        BY <1>4, <1>5, <2>1, <2>6, <3>1, HeaterConstants
      <3>3. held \in Heater!Reached(since', Hold)
        BY <1>1, <3>2
      <3>4. held
        <4>1. since' # Hold
          BY <3>2, HeaterConstants
        <4>. QED BY <3>2, <3>3, <4>1 DEF Heater!Reached
      <3>. QED BY <2>3, <2>4, <3>4 DEF Heater!Evaluated
    <2>. QED BY <2>5, <2>6 DEF Concerns
  <1>8. ASSUME NEW c \in Concerns PROVE Stops(c)'
    <2>1. CASE wrongFor'[c] = 0
      BY <2>1, HeaterStopped
    <2>2. CASE wrongFor'[c] # 0
      <3>1. wrongFor'[c] > 0 /\ Heater!Wrong(c)' /\ wrongFor'[c] = wrongFor[c] /\ wrongFor[c] \in Nat
        BY <1>4, <2>2
      <3>2. phase' # "decide" /\ lastChange' = lastChange
        BY <1>1, <1>2
      <3>3. wrongFor[c] <= Grace(c) + (IF lastChange = Heater!None THEN 1 ELSE lastChange)
        BY <1>3 DEF Stops
      <3>4. ASSUME phase' = "idle", lastChange = Heater!None \/ lastChange > Cooldown, wrongFor[c] > Grace(c)
            PROVE  FALSE
        <4>1. can
          <5>1. CASE lastChange = Heater!None
            BY <5>1 DEF Heater!CanChange
          <5>2. CASE lastChange # Heater!None /\ lastChange > Cooldown
            <6>1. lastChange # Cooldown
              BY <1>3, <5>2, HeaterConstants DEF HeaterTypes
            <6>. QED BY <5>2, <6>1 DEF Heater!CanChange, Heater!Reached
          <5>. QED BY <3>4, <5>1, <5>2
        <4>2. phase' = "set"
          BY <1>1, <1>7, <3>1, <3>4, <4>1
        <4>. QED BY <3>4, <4>2
      <3>5. ASSUME phase' = "set", wanted' = Heater!HeatPump, wrongFor[c] > Grace(c)
            PROVE  FALSE
        <4>1. wanted' = Heater!Vacation
          BY <1>1, <1>7, <3>1, <3>5
        <4>. QED BY <3>5, <4>1, HeaterConstants
      <3>6. Grace(c) \in Nat
        BY HeaterConstants
      <3>7. /\ phase' = "idle" /\ (lastChange = Heater!None \/ lastChange > Cooldown) => wrongFor[c] <= Grace(c)
            /\ phase' = "set" /\ wanted' = Heater!HeatPump => wrongFor[c] <= Grace(c)
        BY <3>1, <3>4, <3>5, <3>6
      <3>. QED BY <3>1, <3>2, <3>3, <3>7 DEF Stops, Grace
    <2>. QED BY <2>1, <2>2
  <1>. QED BY <1>6, <1>8

LEMMA HeaterSet ==
    ASSUME HeaterInv, HeaterTypes', Heater!Counted, Heater!SetMode
    PROVE  (\A c \in Concerns : Stops(c)') /\ Anchored'
  <1>1. /\ phase = "set" /\ phase' = "idle" /\ unit' = [unit EXCEPT !.mode = wanted] /\ lastChange' = 0
        /\ UNCHANGED <<conditions, since, readback, polled, manual, faults>>
    BY DEF Heater!SetMode
  <1>2. HeaterTypes /\ Anchored /\ \A c \in Concerns : Stops(c)
    BY DEF HeaterInv
  <1>3. \A c \in Concerns : /\ wrongFor'[c] \in Nat /\ wrongFor[c] \in Nat
                            /\ wrongFor'[c] > 0 => Heater!Wrong(c)'
                            /\ wrongFor'[c] = 0 \/ wrongFor'[c] = wrongFor[c]
    BY <1>1, <1>2, HeaterCounts
  <1>4. unit'.mode = wanted /\ wanted \in {Heater!Vacation, Heater!HeatPump}
    BY <1>1, <1>2 DEF HeaterTypes
  <1>5. ASSUME NEW c \in Concerns PROVE Stops(c)'
    <2>1. CASE wrongFor'[c] = 0
      BY <2>1, HeaterStopped
    <2>2. CASE wrongFor'[c] # 0
      <3>1. wrongFor'[c] > 0 /\ Heater!Wrong(c)' /\ wrongFor'[c] = wrongFor[c]
        BY <1>3, <2>2
      <3>2. wanted = Heater!HeatPump
        BY <1>4, <3>1 DEF Heater!Wrong
      <3>3. wrongFor[c] <= Grace(c)
        BY <1>1, <1>2, <3>2 DEF Stops
      <3>4. Grace(c) \in Nat /\ Grace(c) + 0 = Grace(c) /\ 0 # Heater!None /\ ~(0 > Cooldown)
        BY HeaterConstants
      <3>. QED BY <1>1, <3>1, <3>3, <3>4 DEF Stops, Grace
    <2>. QED BY <2>1, <2>2
  <1>6. Anchored'
    <2>1. CASE wrongFor'["hot"] = 0
      BY <2>1, HeaterConstants DEF Anchored
    <2>2. CASE wrongFor'["hot"] # 0
      <3>1. wrongFor["hot"] > 0 /\ wrongFor'["hot"] = wrongFor["hot"]
        BY <1>3, <2>2, HeaterConstants
      <3>. QED BY <1>1, <1>2, <3>1 DEF Anchored
    <2>. QED BY <2>1, <2>2
  <1>. QED BY <1>5, <1>6

LEMMA HeaterTick ==
    ASSUME HeaterInv, HeaterTypes', Heater!Counted, Heater!Elapse
    PROVE  (\A c \in Concerns : Stops(c)') /\ Anchored'
  <1>1. /\ phase = "idle" /\ phase' = "tick" /\ polled = Heater!Nothing
        /\ since' = Heater!Older(since, Hold) /\ lastChange' = Heater!Older(lastChange, Cooldown)
        /\ UNCHANGED <<unit, conditions, lastRead, readback, wanted, polled, faults>>
    BY DEF Heater!Elapse
  <1>2. HeaterTypes /\ Anchored /\ \A c \in Concerns : Stops(c)
    BY DEF HeaterInv
  <1>3. \A c \in Concerns : /\ wrongFor'[c] \in Nat /\ wrongFor[c] \in Nat
                            /\ wrongFor'[c] > 0 => Heater!Wrong(c)'
                            /\ wrongFor'[c] = 0 \/ wrongFor'[c] = wrongFor[c] \/ wrongFor'[c] = wrongFor[c] + 1
    BY <1>1, <1>2, HeaterCounts
  <1>4. ASSUME NEW c \in Concerns PROVE Stops(c)'
    <2>1. CASE wrongFor'[c] = 0
      BY <2>1, HeaterStopped
    <2>2. CASE wrongFor'[c] # 0
      <3>1. wrongFor'[c] > 0 /\ Heater!Wrong(c)' /\ wrongFor'[c] <= wrongFor[c] + 1
            /\ wrongFor'[c] \in Nat /\ wrongFor[c] \in Nat
        BY <1>3, <2>2
      <3>2. Grace(c) \in Nat
        BY HeaterConstants
      <3>3. CASE lastChange = Heater!None
        <4>1. wrongFor[c] <= Grace(c) /\ lastChange' = Heater!None
          BY <1>1, <1>2, <3>3 DEF Stops, Heater!Older
        <4>2. wrongFor'[c] <= Grace(c) + 1
          BY <3>1, <3>2, <4>1
        <4>. QED BY <1>1, <3>1, <4>1, <4>2 DEF Stops, Grace
      <3>4. CASE lastChange # Heater!None
        <4>1. lastChange \in Nat /\ wrongFor[c] <= Grace(c) + lastChange
              /\ (lastChange > Cooldown => wrongFor[c] <= Grace(c))
          BY <1>1, <1>2, <3>4 DEF Stops, HeaterTypes
        <4>2. lastChange' = IF lastChange > Cooldown THEN lastChange ELSE lastChange + 1
          BY <1>1, <3>4 DEF Heater!Older
        <4>3. lastChange' \in Nat /\ wrongFor'[c] <= Grace(c) + lastChange'
          BY <3>1, <3>2, <4>1, <4>2, HeaterConstants
        <4>. QED BY <1>1, <3>1, <4>3, HeaterConstants DEF Stops, Grace
      <3>. QED BY <3>3, <3>4
    <2>. QED BY <2>1, <2>2
  <1>5. Anchored'
    <2>1. CASE wrongFor'["hot"] = 0
      BY <2>1, HeaterConstants DEF Anchored
    <2>2. CASE wrongFor'["hot"] # 0
      <3>1. PICK n, m : n = wrongFor["hot"] /\ m = wrongFor'["hot"]
        OBVIOUS
      <3>2. n \in Nat /\ m \in Nat /\ m <= n + 1
        BY <1>3, <2>2, <3>1, HeaterConstants
      <3>3. ASSUME m > 1 PROVE since' # Heater!None /\ (since' >= m - 1 \/ since' > Hold)
        <4>1. n > 0
          BY <3>2, <3>3
        <4>2. since # Heater!None /\ (n > 1 => since >= n - 1 \/ since > Hold)
          BY <1>1, <1>2, <3>1, <4>1 DEF Anchored
        <4>3. since \in Nat
          BY <1>2, <4>2 DEF HeaterTypes
        <4>4. since' = IF since > Hold THEN since ELSE since + 1
          BY <1>1, <4>2 DEF Heater!Older
        <4>5. since' \in Nat /\ (since' >= m - 1 \/ since' > Hold)
          BY <3>2, <4>1, <4>2, <4>3, <4>4, HeaterConstants
        <4>. QED BY <4>5, HeaterConstants
      <3>. QED BY <1>1, <3>1, <3>3 DEF Anchored
    <2>. QED BY <2>1, <2>2
  <1>. QED BY <1>4, <1>5

\* Nobody else forgets that the tank is hot.
LEMMA HeaterOthersAnchored ==
    ASSUME HeaterInv, HeaterTypes', Heater!Counted, UNCHANGED <<phase, lastChange>>,
           \/ UNCHANGED <<lastRead, since, polled>>
           \/ Heater!PollAnswered \/ Heater!PollNoted \/ Heater!ManualNoted
    PROVE  Anchored'
  <1>1. HeaterTypes /\ "hot" \in Concerns
    BY HeaterConstants DEF HeaterInv
  <1>2. wrongFor'["hot"] = 0 \/ (wrongFor'["hot"] = wrongFor["hot"] /\ wrongFor["hot"] \in Nat)
    BY <1>1, HeaterCounts
  <1>3. CASE wrongFor'["hot"] = 0
    BY <1>3, HeaterConstants DEF Anchored
  <1>4. CASE wrongFor'["hot"] = wrongFor["hot"] /\ wrongFor["hot"] > 0
    <2>1. unit.tank = "hot" /\ Anchored
      BY <1>4, HeaterHot
    <2>2. CASE UNCHANGED <<lastRead, since, polled>>
      BY <1>4, <2>1, <2>2 DEF Anchored
    <2>3. CASE Heater!PollAnswered
      <3>1. polled'.tank = "hot" /\ UNCHANGED <<lastRead, since>>
        BY <2>1, <2>3 DEF Heater!PollAnswered, Heater!Snapshot
      <3>. QED BY <1>4, <2>1, <3>1 DEF Anchored
    <2>4. CASE Heater!PollNoted
      <3>1. polled.tank = "hot" /\ lastRead' = polled /\ since' = Heater!Anchor(polled.tank)
            /\ polled' = Heater!Nothing
        BY <1>4, <2>1, <2>4 DEF Heater!PollNoted, Anchored
      <3>2. since' \in Nat /\ (since # Heater!None => since' = since)
        BY <1>1, <3>1, HeaterAnchor
      <3>3. lastRead'.tank = "hot" /\ since' # Heater!None
        BY <3>1, <3>2, HeaterConstants
      <3>. QED BY <1>4, <2>1, <3>1, <3>2, <3>3 DEF Anchored
    <2>5. CASE Heater!ManualNoted
      <3>1. lastRead'.tank = lastRead.tank /\ UNCHANGED <<since, polled>>
        BY <1>1, <2>5 DEF Heater!ManualNoted, HeaterTypes
      <3>. QED BY <1>4, <2>1, <3>1 DEF Anchored
    <2>. QED BY <2>2, <2>3, <2>4, <2>5
  <1>. QED BY <1>2, <1>3, <1>4

LEMMA HeaterInvNext == HeaterInv /\ Heater!HeaterNext => HeaterInv'
  <1> SUFFICES ASSUME HeaterInv, Heater!HeaterNext PROVE HeaterInv'
    OBVIOUS
  <1>1. Heater!HeaterStep /\ Heater!Counted /\ HeaterTypes
    BY DEF HeaterInv, Heater!HeaterNext
  <1>2. HeaterTypes' /\ TargetKept'
    BY <1>1, HeaterTypesNext, HeaterCounts, HeaterTargetKept
  <1>3. (\A c \in Concerns : Stops(c)') /\ Anchored'
    <2>1. CASE Heater!ReadFails \/ Heater!SetModeFails \/ Heater!SetTargetFails \/ Heater!Restart
      <3>1. faults' = faults + 1
        BY <2>1 DEF Heater!ReadFails, Heater!SetModeFails, Heater!SetTargetFails, Heater!Restart, Heater!Fault
      <3>. QED BY <1>1, <1>2, <3>1, HeaterFault
    <2>2. CASE \/ Heater!Hears \/ Heater!TankMoves \/ Heater!SetTarget
               \/ \E m \in ManualModes : Heater!ManualSet(m)
      <3>1. UNCHANGED <<phase, readback, wanted, lastChange>> /\ UNCHANGED <<lastRead, since, polled>>
        BY <2>2 DEF Heater!Hears, Heater!TankMoves, Heater!SetTarget, Heater!ManualSet, Heater!taskVars
      <3>. QED BY <1>1, <1>2, <3>1, HeaterOthers, HeaterOthersAnchored
    <2>3. CASE Heater!PollAnswered \/ Heater!PollNoted \/ Heater!ManualNoted
      <3>1. UNCHANGED <<phase, readback, wanted, lastChange>>
        BY <2>3 DEF Heater!PollAnswered, Heater!PollNoted, Heater!ManualNoted, Heater!taskVars
      <3>. QED BY <1>1, <1>2, <2>3, <3>1, HeaterOthers, HeaterOthersAnchored
    <2>. QED BY <1>1, <1>2, <2>1, <2>2, <2>3, HeaterRead, HeaterDecide, HeaterSet, HeaterTick
             DEF Heater!HeaterStep
  <1>. QED BY <1>2, <1>3 DEF HeaterInv

LEMMA HeaterInvImplies ==
    HeaterInv => Heater!HeaterTypeOK /\ Heater!StopsInTime /\ Heater!TargetOfMode
  <1> SUFFICES ASSUME HeaterInv PROVE Heater!HeaterTypeOK /\ Heater!StopsInTime /\ Heater!TargetOfMode
    OBVIOUS
  <1>0. HeaterTypes /\ TargetKept /\ \A c \in Concerns : Stops(c)
    BY DEF HeaterInv
  <1>1. Heater!HeaterTypeOK
    <2>1. since \in Heater!None..(Hold + 1) /\ lastChange \in Heater!None..(Cooldown + 1)
      BY <1>0, HeaterConstants DEF HeaterTypes, Heater!None
    <2>. QED BY <1>0, <2>1 DEF HeaterTypes, HeaterModes, Heater!HeaterTypeOK
  <1>2. Heater!StopsInTime
    <2>1. ASSUME NEW c \in DOMAIN wrongFor PROVE wrongFor[c] <= Heater!Longest(c)
      <3>1. c \in Concerns /\ wrongFor[c] \in Nat
        BY <1>0 DEF HeaterTypes
      <3>2. Heater!Longest(c) = Grace(c) + Cooldown + 1 /\ Grace(c) \in Nat
        BY <3>1, HeaterConstants DEF Heater!Longest, Grace
      <3>3. wrongFor[c] <= Grace(c) + (IF lastChange = Heater!None THEN 1 ELSE lastChange)
        BY <1>0, <3>1 DEF Stops
      <3>. QED BY <1>0, <3>1, <3>2, <3>3, HeaterConstants DEF HeaterTypes
    <2>. QED BY <2>1 DEF Heater!StopsInTime
  <1>3. Heater!TargetOfMode
    BY <1>0 DEF TargetKept, Heater!TargetOfMode
  <1>. QED BY <1>1, <1>2, <1>3

LEMMA HeaterPart == PartsSpec => [](part = "heater" => HeaterInv)
  <1>1. PartsInit => HeaterInv
    BY HeaterInvInit DEF PartsInit
  <1>2. (part = "heater" => HeaterInv) /\ [PartsNext]_partsVars
           => (part = "heater" => HeaterInv)'
    <2> SUFFICES ASSUME part = "heater" => HeaterInv, [PartsNext]_partsVars, part' = "heater"
                 PROVE  HeaterInv'
      OBVIOUS
    <2>1. CASE PartsNext
      BY <2>1, HeaterInvNext DEF PartsNext
    <2>2. CASE UNCHANGED partsVars
      <3>1. HeaterInv /\ UNCHANGED heaterVars
        BY <2>2 DEF partsVars, decisionVars
      <3>. QED BY <3>1 DEF HeaterInv, HeaterTypes, Stops, Anchored, TargetKept, heaterVars,
                           Heater!Wrong, Heater!Received, Heater!Asked
    <2>. QED BY <2>1, <2>2
  <1>. QED BY <1>1, <1>2, PTL DEF PartsSpec

-----------------------------------------------------------------------------
\* The devices are as was decided for them, and a client is told what the BMS holds.
THEOREM DevicesObeyAlways == PartsSpec => []DevicesObey
  <1>1. (part = "heater" => HeaterInv) /\ (part = "charge" => ChargeInv)
        /\ (part = "presence" => PresenceInv) /\ (part = "commands" => CommandsInv)
           => DevicesObey
    BY HeaterInvImplies, ChargeInvImplies, PresenceInvImplies, CommandsInvImplies DEF DevicesObey
  <1>. QED BY <1>1, HeaterPart, ChargePart, PresencePart, CommandsPart, PTL
=============================================================================
