------------------------ MODULE ProfileStorage_proofs ------------------------
(* The invariants of the storage of the profile, for any parameters, values,  *)
(* order, messages and length of the ring, and any number of messages and of  *)
(* failures of the power.                                                     *)
EXTENDS ProfileStorage, TLAPS

Ring == 0 .. Slots - 1
Steps == {"pend", "read", "reading", "eeprom", "stored", "file", "write"}
Tasks == [pc : Steps, hand : Ring \cup {Nothing}, name : Names \cup {Nothing},
          from : Names \cup {Nothing}, seen : AnyValue \cup {Nothing},
          buff : AnyValue \cup {Nothing}]

\* What TypeOK leaves out: the updates under way, the fields of task where
\* they are used, and what is still as at power on.
BatchTypes ==
  /\ batch \in Seq(Names \X Values)
  /\ crashes \in Nat
  /\ \A k \in ToSet(queue) : slot[k] \in Names

TaskTypes ==
  /\ task \in Tasks
  /\ task.pc = "pend" <=> task.name = Nothing
  /\ task.pc = "pend" => task = Waiting
  /\ phase = "up" /\ task.pc # "pend" => task.hand \in Ring /\ slot[task.hand] \in Names
  /\ task.pc = "reading" => task.from \in Names /\ task.seen \in AnyValue
  /\ task.pc \in {"eeprom", "stored", "file", "write"} => task.buff \in AnyValue

\* Before the tasks run there are no requests to the storing task.
Quiet ==
  /\ phase # "up" =>
       /\ queue = <<>> /\ batch = <<>> /\ lost = {} /\ ~created
       /\ task.pc \in {"pend", "write"} /\ task.hand = Nothing
  /\ phase = "off" => task.pc = "pend"

\* Whose write the EEPROM carries out.
Requests ==
  /\ phase \in {"off", "fs"} => request = Nothing
  /\ phase = "eeprom" /\ request # Nothing => task.pc = "pend"
  /\ phase = "up" => request = IF task.pc = "stored" THEN <<task.name, task.buff>>
                               ELSE Nothing

Types == TypeOK /\ BatchTypes /\ TaskTypes /\ Quiet /\ Requests

-----------------------------------------------------------------------------
(* What is stored.                                                            *)

Queued(n) == \E k \in ToSet(queue) : slot[k] = n

Writing(n) == task.pc = "write" /\ task.name = n

FileTrue(n) ==
  /\ file[n] \in {ram[n], Empty, Missing}
  /\ file[n] = Missing => n \in Colours /\ ram[n] = Factory[n]

EepromTrue(n) == n \in InEeprom /\ present => store[n] = ram[n]

\* the task has yet to read n, or has read what is in RAM
InHand(n) ==
  /\ task.name = n
  /\ \/ task.pc = "read" /\ slot[task.hand] = n
     \/ task.pc = "reading" /\ slot[task.hand] = n /\ task.from = n /\ task.seen = ram[n]
     \/ task.pc \in {"eeprom", "stored"} /\ slot[task.hand] = n /\ task.buff = ram[n]
     \/ task.pc \in {"file", "write"} /\ task.buff = ram[n] /\ EepromTrue(n)

\* A file is empty while it is written, or was when the power failed.
CutOff == \A n \in Names : file[n] = Empty => crashes > 0 \/ Writing(n)

\* the synchronisation under way has been at n
Passed(n) == \E j \in 1 .. at - 1 : Order[j] = n

\* The first synchronisation makes files agree with RAM, the second the EEPROM.
Starting(n) ==
  /\ phase \in {"off", "fs"} /\ file[n] = Missing => ram[n] = Factory[n]
  /\ phase = "eeprom" \/ (phase = "fs" /\ Passed(n)) =>
       IF Writing(n) THEN task.buff = ram[n] ELSE FileTrue(n)
  /\ phase = "eeprom" /\ Passed(n) /\ n \in InEeprom /\ present =>
       IF request # Nothing /\ request[1] = n THEN request[2] = ram[n]
       ELSE store[n] = ram[n]

\* Then a parameter is stored, on its way, or lost.
Accounted(n) ==
  phase = "up" => \/ n \in lost
                  \/ Queued(n)
                  \/ InHand(n)
                  \/ task.name # n /\ FileTrue(n) /\ EepromTrue(n)

StoredInv == CutOff /\ \A n \in Names : Starting(n) /\ Accounted(n)

-----------------------------------------------------------------------------
(* What a start may find.                                                     *)

\* Whatever a parameter is stored as, or may yet be, is known to since.
Kept(n) ==
  /\ file[n] \in AnyValue => file[n] \in since[n]
  /\ file[n] = Missing => Factory[n] \in since[n]
  /\ n \in InEeprom /\ store[n] = Nothing => Factory[n] \in since[n]
  /\ n \in InEeprom /\ store[n] # Nothing => store[n] \in since[n]
  /\ request # Nothing /\ request[1] = n => request[2] \in since[n]

\* What the storing task reads and writes.
Carried ==
  /\ phase = "up" /\ task.pc # "pend" /\ slot[task.hand] # task.name =>
       since[task.name] = AnyValue
  /\ task.pc = "reading" =>
       IF task.from = task.name
       THEN /\ task.seen \in since[task.name]
            /\ ram[task.name] # task.seen => Torn \in since[task.name]
       ELSE since[task.name] = AnyValue
  /\ task.pc \in {"eeprom", "stored", "file", "write"} => task.buff \in since[task.name]

\* What is in RAM.
Held(n) ==
  /\ phase # "up" /\ n \notin Colours => ram[n] \in since[n] \cup {Factory[n]}
  /\ phase = "fs" /\ Passed(n) => ram[n] \in since[n] \/ file[n] = Empty
  /\ phase = "eeprom" => ram[n] \in since[n] \/ file[n] = Empty
  /\ phase = "eeprom" /\ Passed(n) /\ n \in InEeprom /\ present => ram[n] \in since[n]
  /\ phase = "up" /\ (\/ n \in InEeprom /\ present
                     \/ file[n] # Empty \/ Queued(n) \/ task.name = n)
       => ram[n] \in since[n]

SurvivesInv == Carried /\ \A n \in Names : Kept(n) /\ Held(n)

-----------------------------------------------------------------------------
(* Types.                                                                     *)

\* The bytes nobody wrote and the marks are not values, nor each other.
LEMMA Marks ==
  /\ Missing \notin AnyValue /\ Empty \notin AnyValue /\ Nothing \notin AnyValue
  /\ Missing # Empty /\ Missing # Nothing /\ Empty # Nothing
  /\ Nothing \notin Names /\ Nothing \notin Ring
  /\ Nothing \notin Names \X AnyValue
  /\ Torn \in AnyValue /\ Values \subseteq AnyValue
  /\ Slots \in Nat \ {0} /\ InEeprom \subseteq Names
  /\ Colours \cap InEeprom = {}
  BY ProfileAssumption DEF AnyValue, Ring

\* Each place of the order holds a parameter, and each parameter has a place.
LEMMA Orders ==
  /\ Len(Order) \in Nat
  /\ \A i \in 1 .. Len(Order) : Order[i] \in Names
  /\ \A n \in Names : \E i \in 1 .. Len(Order) : Order[i] = n
  BY ProfileAssumption DEF ToSet

LEMMA FactoryTypes == Factory \in [Names -> AnyValue]
  BY ProfileAssumption DEF AnyValue

LEMMA WaitingTypes ==
  /\ Waiting \in Tasks
  /\ Waiting.pc = "pend" /\ Waiting.name = Nothing /\ Waiting.hand = Nothing
  BY DEF Waiting, Tasks, Steps

\* The queue keeps its elements when one is added or taken.
LEMMA QueueAdd ==
  ASSUME NEW q \in Seq(Ring), NEW k \in Ring
  PROVE  /\ Append(q, k) \in Seq(Ring) /\ Len(Append(q, k)) = Len(q) + 1
         /\ ToSet(Append(q, k)) = ToSet(q) \cup {k}
<1> DEFINE r == Append(q, k)
<1>1. /\ r \in Seq(Ring) /\ Len(q) \in Nat /\ Len(r) = Len(q) + 1
      /\ DOMAIN q = 1 .. Len(q) /\ DOMAIN r = 1 .. Len(q) + 1
      /\ r[Len(q) + 1] = k
      /\ \A i \in 1 .. Len(q) : r[i] = q[i]
  OBVIOUS
<1> HIDE DEF r
<1>2. ToSet(q) \subseteq ToSet(r)
  BY <1>1 DEF ToSet
<1>3. k \in ToSet(r)
  BY <1>1 DEF ToSet
<1>4. ASSUME NEW i \in 1 .. Len(q) + 1
      PROVE  r[i] \in ToSet(q) \cup {k}
  <2>1. CASE i = Len(q) + 1
    BY <1>1, <2>1
  <2>2. CASE i \in 1 .. Len(q)
    BY <1>1, <2>2 DEF ToSet
  <2> QED
    BY <1>1, <2>1, <2>2
<1>5. ToSet(r) \subseteq ToSet(q) \cup {k}
  BY <1>1, <1>4 DEF ToSet
<1> QED
  BY <1>1, <1>2, <1>3, <1>5 DEF r

LEMMA QueueRing == ASSUME NEW q \in Seq(Ring) PROVE ToSet(q) \subseteq Ring
<1>1. DOMAIN q = 1 .. Len(q) /\ \A i \in 1 .. Len(q) : q[i] \in Ring
  OBVIOUS
<1> QED
  BY <1>1 DEF ToSet

LEMMA QueueTake ==
  ASSUME NEW q \in Seq(Ring), q # <<>>
  PROVE  /\ Tail(q) \in Seq(Ring) /\ Len(Tail(q)) = Len(q) - 1 /\ Len(q) \in Nat
         /\ Head(q) \in Ring /\ Head(q) \in ToSet(q)
         /\ ToSet(q) \subseteq ToSet(Tail(q)) \cup {Head(q)}
         /\ ToSet(Tail(q)) \subseteq ToSet(q)
<1>1. Len(q) \in Nat \ {0} /\ Head(q) = q[1] /\ Head(q) \in Ring
      /\ Tail(q) \in Seq(Ring) /\ Len(Tail(q)) = Len(q) - 1
  OBVIOUS
<1>2. \A i \in 1 .. Len(q) - 1 : Tail(q)[i] = q[i + 1]
  OBVIOUS
<1>3. ToSet(Tail(q)) \subseteq ToSet(q)
  BY <1>1, <1>2 DEF ToSet
<1>4. ASSUME NEW i \in 1 .. Len(q), i # 1
      PROVE  q[i] \in ToSet(Tail(q))
  <2>1. i - 1 \in 1 .. Len(q) - 1 /\ Tail(q)[i - 1] = q[i]
    BY <1>1, <1>2, <1>4
  <2>2. DOMAIN Tail(q) = 1 .. Len(q) - 1
    BY <1>1
  <2> QED
    BY <2>1, <2>2 DEF ToSet
<1>5. ToSet(q) \subseteq ToSet(Tail(q)) \cup {Head(q)}
  BY <1>1, <1>4 DEF ToSet
<1> QED
  BY <1>1, <1>3, <1>5 DEF ToSet

LEMMA EmptyQueue == <<>> \in Seq(Ring) /\ Len(<<>>) = 0 /\ ToSet(<<>>) = {}
  BY DEF ToSet

LEMMA InitTypes == Init => Types
<1> SUFFICES ASSUME Init PROVE Types
  OBVIOUS
<1> USE DEF Init, Eeprom!Init
<1>1. TypeOK
  <2>1. at \in 1 .. Len(Order) + 1
    BY Orders
  <2>2. cur \in 0 .. Slots - 1 /\ slot \in [0 .. Slots - 1 -> Names \cup {Nothing}]
    BY Marks
  <2>3. Eeprom!TypeOK
    BY DEF Eeprom!TypeOK
  <2>4. since \in [Names -> SUBSET AnyValue]
    BY FactoryTypes
  <2>5. ram \in [Names -> AnyValue] /\ file \in [Names -> AnyValue \cup {Missing, Empty}]
    BY FactoryTypes
  <2>6. /\ task.pc \in Steps /\ task.hand \in Ring \cup {Nothing}
        /\ task.name \in Names \cup {Nothing}
    BY WaitingTypes DEF Steps
  <2>7. queue \in Seq(Ring) /\ Len(queue) <= Slots
    BY EmptyQueue, Marks
  <2> QED
    BY <2>1, <2>2, <2>3, <2>4, <2>5, <2>6, <2>7 DEF TypeOK, Ring, Steps
<1>2. BatchTypes
  BY EmptyQueue DEF BatchTypes
<1>3. TaskTypes
  BY WaitingTypes DEF TaskTypes
<1>4. Quiet /\ Requests
  BY WaitingTypes DEF Quiet, Requests
<1> QED
  BY <1>1, <1>2, <1>3, <1>4 DEF Types

\* What is written to the EEPROM is a value of a parameter.
LEMMA SubmitTypes ==
  ASSUME Eeprom!TypeOK, NEW n \in Names, NEW v \in AnyValue, Eeprom!Submit(n, v)
  PROVE  /\ Eeprom!TypeOK' /\ request' = <<n, v>> /\ request' # Nothing
         /\ store' = store /\ request = Nothing
  BY Marks DEF Eeprom!TypeOK, Eeprom!Submit

LEMMA ReturnTypes ==
  ASSUME Eeprom!TypeOK, Eeprom!Return
  PROVE  /\ Eeprom!TypeOK' /\ request # Nothing /\ request' = Nothing
         /\ request[1] \in Names /\ request[2] \in AnyValue
         /\ store' = [store EXCEPT ![request[1]] = request[2]]
  BY DEF Eeprom!TypeOK, Eeprom!Return, Eeprom!Installed

LEMMA FailTypes ==
  ASSUME Eeprom!TypeOK, Eeprom!Fail
  PROVE  /\ Eeprom!TypeOK' /\ request # Nothing /\ request' = Nothing
         /\ request[1] \in Names /\ request[2] \in AnyValue
         /\ store' \in {store, [store EXCEPT ![request[1]] = request[2]]}
  BY DEF Eeprom!TypeOK, Eeprom!Fail, Eeprom!Installed

LEMMA PowerOnTypes == Types /\ PowerOn => Types'
<1> SUFFICES ASSUME Types, PowerOn PROVE Types'
  OBVIOUS
<1> USE DEF Types, PowerOn, counters
<1>1. TypeOK'
  BY Orders DEF TypeOK, Eeprom!TypeOK
<1>2. BatchTypes' /\ TaskTypes'
  BY DEF BatchTypes, TaskTypes
<1>3. Quiet' /\ Requests'
  BY DEF Quiet, Requests
<1> QED
  BY <1>1, <1>2, <1>3

\* What the start begins to write to a file.
LEMMA TruncateTypes ==
  ASSUME Types, task.pc = "pend", phase # "up", phase # "off", phase' = phase,
         NEW n \in Names, NEW v \in AnyValue, Truncate(n, v),
         UNCHANGED <<request, batch, crashes, queue, slot, lost, created>>,
         request = Nothing
  PROVE  /\ file' \in [Names -> AnyValue \cup {Missing, Empty}]
         /\ BatchTypes' /\ TaskTypes' /\ Quiet' /\ Requests'
         /\ task'.pc = "write" /\ task'.hand = Nothing /\ task'.name = n
         /\ task'.buff = v
<1> USE DEF Types, Truncate
<1>1. task \in Tasks /\ task.hand = Nothing
  BY WaitingTypes DEF TaskTypes
<1>2. /\ task' \in Tasks
      /\ task'.pc = "write" /\ task'.hand = Nothing /\ task'.name = n /\ task'.buff = v
  BY <1>1 DEF Tasks, Steps
<1>3. TaskTypes'
  BY <1>2, Marks DEF TaskTypes
<1>4. BatchTypes' /\ Quiet' /\ Requests'
  BY <1>2 DEF BatchTypes, Quiet, Requests
<1>5. file' \in [Names -> AnyValue \cup {Missing, Empty}]
  BY DEF TypeOK
<1> QED
  BY <1>2, <1>3, <1>4, <1>5

\* What leaves task, the ring and the phase alone keeps their types.
LEMMA TasksAlone ==
  ASSUME Types, UNCHANGED <<phase, batch, slot, queue, task, created, lost, crashes>>
  PROVE  BatchTypes' /\ TaskTypes' /\ Quiet'
  BY DEF Types, BatchTypes, TaskTypes, Quiet

LEMMA FSSyncTypes == Types /\ FSSync => Types'
<1> SUFFICES ASSUME Types, FSSync PROVE Types'
  OBVIOUS
<1> USE DEF FSSync, Ready, counters
<1> DEFINE n == Order[at]
<1>1. /\ at' \in 1 .. Len(Order) + 1 /\ n \in Names
      /\ task.pc = "pend" /\ request = Nothing /\ phase = "fs"
  BY Orders DEF Types, TypeOK
<1>2. /\ UNCHANGED <<phase, present, created, store, request, slot, cur, queue, batch,
                     lost, since, crashes>>
  OBVIOUS
<1>3. Eeprom!TypeOK'
  BY <1>2 DEF Types, TypeOK, Eeprom!TypeOK
<1>4. ram[n] \in AnyValue /\ file[n] \in AnyValue \cup {Missing, Empty}
  BY <1>1 DEF Types, TypeOK
<1>5. CASE UNCHANGED task
  <2>1. BatchTypes' /\ TaskTypes' /\ Quiet'
    BY <1>2, <1>5, TasksAlone
  <2>2. ~ Truncate(n, ram[n])
    <3>1. task \in Tasks /\ task'.pc = "pend"
      BY <1>1, <1>5 DEF Types, TaskTypes
    <3> QED
      BY <3>1 DEF Truncate, Tasks
  <2>3. file' = file /\ (ram' = ram \/ \E v \in AnyValue : ram' = [ram EXCEPT ![n] = v])
    BY <1>4, <2>2, Marks
  <2>4. ram' \in [Names -> AnyValue]
    BY <1>1, <2>3 DEF Types, TypeOK
  <2>5. TypeOK'
    BY <1>1, <1>2, <1>3, <1>5, <2>3, <2>4 DEF Types, TypeOK
  <2>6. Requests'
    BY <1>2, <1>5 DEF Types, Requests
  <2> QED
    BY <2>1, <2>5, <2>6 DEF Types
<1>6. CASE Truncate(n, ram[n]) /\ UNCHANGED ram
  <2>1. /\ file' \in [Names -> AnyValue \cup {Missing, Empty}]
        /\ BatchTypes' /\ TaskTypes' /\ Quiet' /\ Requests'
        /\ task'.pc = "write" /\ task'.hand = Nothing /\ task'.name = n
    BY <1>1, <1>2, <1>4, <1>6, TruncateTypes
  <2>2. TypeOK'
    BY <1>1, <1>2, <1>3, <1>6, <2>1 DEF Types, TypeOK
  <2> QED
    BY <2>1, <2>2 DEF Types
<1> QED
  BY <1>5, <1>6

LEMMA EepromSyncTypes == Types /\ EepromSync => Types'
<1> SUFFICES ASSUME Types, EepromSync PROVE Types'
  OBVIOUS
<1> USE DEF EepromSync, Ready, counters
<1> DEFINE n == Order[at]
<1>1. /\ at' \in 1 .. Len(Order) + 1 /\ n \in Names
      /\ task.pc = "pend" /\ request = Nothing /\ phase = "eeprom"
      /\ ram[n] \in AnyValue /\ store[n] \in AnyValue \cup {Nothing}
  BY Orders DEF Types, TypeOK, Eeprom!TypeOK
<1>2. UNCHANGED <<phase, present, created, slot, cur, queue, batch, lost, since, crashes>>
  OBVIOUS
<1>3. CASE /\ store[n] \notin {Nothing, ram[n]}
           /\ ram' = [ram EXCEPT ![n] = Loaded(n)] /\ Truncate(n, store[n])
           /\ UNCHANGED <<store, request>>
  <2>1. store[n] \in AnyValue
    BY <1>1, <1>3
  <2>2. ram' \in [Names -> AnyValue]
    BY <1>1, <1>3, <2>1 DEF Types, TypeOK, Loaded
  <2>3. /\ file' \in [Names -> AnyValue \cup {Missing, Empty}]
        /\ BatchTypes' /\ TaskTypes' /\ Quiet' /\ Requests'
        /\ task'.pc = "write" /\ task'.hand = Nothing /\ task'.name = n
    BY <1>1, <1>2, <1>3, <2>1, TruncateTypes
  <2>4. Eeprom!TypeOK'
    BY <1>3 DEF Types, TypeOK, Eeprom!TypeOK
  <2>5. TypeOK'
    BY <1>1, <1>2, <1>3, <2>2, <2>3, <2>4 DEF Types, TypeOK
  <2> QED
    BY <2>3, <2>5 DEF Types
<1>4. CASE Eeprom!Submit(n, ram[n]) /\ UNCHANGED <<ram, file, task>>
  <2>1. Eeprom!TypeOK' /\ request' # Nothing
    BY <1>1, <1>4, SubmitTypes DEF Types, TypeOK
  <2>2. BatchTypes' /\ TaskTypes' /\ Quiet'
    BY <1>2, <1>4, TasksAlone
  <2>3. TypeOK'
    BY <1>1, <1>2, <1>4, <2>1 DEF Types, TypeOK
  <2>4. Requests'
    BY <1>1, <1>2, <1>4 DEF Types, Requests
  <2> QED
    BY <2>2, <2>3, <2>4 DEF Types
<1>5. CASE UNCHANGED <<ram, file, store, request, task>>
  <2>1. Eeprom!TypeOK'
    BY <1>5 DEF Types, TypeOK, Eeprom!TypeOK
  <2>2. BatchTypes' /\ TaskTypes' /\ Quiet'
    BY <1>2, <1>5, TasksAlone
  <2>3. TypeOK'
    BY <1>1, <1>2, <1>5, <2>1 DEF Types, TypeOK
  <2>4. Requests'
    BY <1>2, <1>5 DEF Types, Requests
  <2> QED
    BY <2>2, <2>3, <2>4 DEF Types
<1> QED
  BY <1>3, <1>4, <1>5

LEMMA SyncDoneTypes == Types /\ SyncDone => Types'
<1> SUFFICES ASSUME Types, SyncDone PROVE Types'
  OBVIOUS
<1> USE DEF Types, SyncDone, Ready, counters
<1>1. TypeOK'
  BY Orders DEF TypeOK, Eeprom!TypeOK
<1>2. BatchTypes' /\ TaskTypes'
  BY DEF BatchTypes, TaskTypes
<1>3. Quiet' /\ Requests'
  BY DEF Quiet, Requests
<1> QED
  BY <1>1, <1>2, <1>3

\* A file filled with what the task has in hand.
LEMMA FilledTypes ==
  ASSUME Types, task.pc = "write"
  PROVE  /\ Filled \in [Names -> AnyValue \cup {Missing, Empty}]
         /\ task.name \in Names /\ task.buff \in AnyValue
  BY DEF Types, TypeOK, TaskTypes, Filled

LEMMA SyncWrittenTypes == Types /\ SyncWritten => Types'
<1> SUFFICES ASSUME Types, SyncWritten PROVE Types'
  OBVIOUS
<1> USE DEF SyncWritten, counters
<1>1. /\ phase \in {"fs", "eeprom"}
      /\ UNCHANGED <<phase, at, present, ram, batch, slot, cur, created, queue,
                     crashes, lost, since>>
  OBVIOUS
<1>2. CASE task.pc = "write" /\ file' = Filled /\ task' = Waiting /\ UNCHANGED <<store, request>>
  <2>1. TypeOK'
    BY <1>1, <1>2, FilledTypes, WaitingTypes DEF Types, TypeOK, Eeprom!TypeOK
  <2>2. BatchTypes' /\ TaskTypes'
    BY <1>1, <1>2, WaitingTypes DEF Types, BatchTypes, TaskTypes
  <2>3. Quiet' /\ Requests'
    BY <1>1, <1>2, WaitingTypes DEF Types, Quiet, Requests
  <2> QED
    BY <2>1, <2>2, <2>3 DEF Types
<1>3. CASE Eeprom!Return /\ UNCHANGED <<file, task>>
  <2>1. Eeprom!TypeOK' /\ request' = Nothing
    BY <1>3, ReturnTypes DEF Types, TypeOK
  <2>2. TypeOK'
    BY <1>1, <1>3, <2>1 DEF Types, TypeOK
  <2>3. BatchTypes' /\ TaskTypes' /\ Quiet'
    BY <1>1, <1>3, TasksAlone
  <2>4. Requests'
    BY <1>1, <1>3, <2>1 DEF Requests
  <2> QED
    BY <2>2, <2>3, <2>4 DEF Types
<1> QED
  BY <1>2, <1>3

\* A message is a sequence of updates.
LEMMA BatchOf ==
  ASSUME NEW b \in Seq(Names), NEW f \in [DOMAIN b -> Values]
  PROVE  [i \in DOMAIN b |-> <<b[i], f[i]>>] \in Seq(Names \X Values)
<1>1. DOMAIN b = 1 .. Len(b) /\ Len(b) \in Nat
  OBVIOUS
<1>2. \A i \in 1 .. Len(b) : <<b[i], f[i]>> \in Names \X Values
  BY <1>1
<1> QED
  BY <1>1, <1>2

LEMMA BatchTake ==
  ASSUME NEW b \in Seq(Names \X Values), b # <<>>
  PROVE  /\ Head(b)[1] \in Names /\ Head(b)[2] \in Values
         /\ Tail(b) \in Seq(Names \X Values)
<1>1. Head(b) \in Names \X Values /\ Tail(b) \in Seq(Names \X Values)
  OBVIOUS
<1> QED
  BY <1>1

LEMMA ReceiveTypes == Types /\ Receive => Types'
<1> SUFFICES ASSUME Types, Receive PROVE Types'
  OBVIOUS
<1> USE DEF Receive
<1>1. /\ phase = "up"
      /\ UNCHANGED <<phase, at, present, ram, file, store, request, slot, cur, created,
                     queue, task, crashes, lost, since>>
  OBVIOUS
<1>2. batch' \in Seq(Names \X Values)
  <2>1. PICK b \in Batches : \E f \in [DOMAIN b -> Values] :
           batch' = [i \in DOMAIN b |-> <<b[i], f[i]>>]
    OBVIOUS
  <2>2. b \in Seq(Names)
    BY ProfileAssumption
  <2> QED
    BY <2>1, <2>2, BatchOf
<1>3. TypeOK'
  BY <1>1 DEF Types, TypeOK, Eeprom!TypeOK
<1>4. BatchTypes' /\ TaskTypes'
  BY <1>1, <1>2 DEF Types, BatchTypes, TaskTypes
<1>5. Quiet' /\ Requests'
  BY <1>1 DEF Types, Quiet, Requests
<1> QED
  BY <1>3, <1>4, <1>5 DEF Types

LEMMA NextSlotTypes == cur \in Ring => NextSlot \in Ring
  BY Marks DEF NextSlot, Ring

LEMMA PostedTypes ==
  ASSUME queue \in Seq(Ring), cur \in Ring, Len(queue) <= Slots
  PROVE  /\ Posted \in Seq(Ring) /\ Len(Posted) <= Slots
         /\ ToSet(Posted) = ToSet(queue) \cup (IF Len(queue) < Slots THEN {cur} ELSE {})
<1>1. CASE Len(queue) < Slots
  BY <1>1, QueueAdd, Marks DEF Posted
<1>2. CASE ~ (Len(queue) < Slots)
  BY <1>2 DEF Posted
<1> QED
  BY <1>1, <1>2

\* What Update does, with the update at the head of the batch named.
LEMMA UpdateSays ==
  ASSUME Types, Update
  PROVE  \E n \in Names, v \in Values :
           /\ ram' = [ram EXCEPT ![n] = v] /\ slot' = [slot EXCEPT ![cur] = n]
           /\ lost' = (IF Delivered THEN lost \ {n} ELSE lost \cup {n}) \cup Overwritten(n)
           /\ since' = [m \in Names |->
                CASE m = n -> since[m] \cup {v, Torn}
                  [] m # n /\ m = task.name /\ task.hand = cur -> AnyValue
                  [] OTHER -> since[m]]
           /\ phase = "up" /\ cur \in Ring /\ cur' \in Ring
           /\ queue' \in Seq(Ring) /\ Len(queue') <= Slots
           /\ ToSet(queue') = IF created /\ Len(queue) < Slots
                              THEN ToSet(queue) \cup {cur} ELSE ToSet(queue)
           /\ batch' \in Seq(Names \X Values)
           /\ UNCHANGED <<phase, at, present, file, store, request, created, task, crashes>>
<1> USE DEF Types, Update, counters
<1>1. /\ phase = "up" /\ cur \in Ring /\ queue \in Seq(Ring) /\ Len(queue) <= Slots
  BY DEF Quiet, TypeOK, Ring
<1>2. /\ Head(batch)[1] \in Names /\ Head(batch)[2] \in Values
      /\ batch' \in Seq(Names \X Values)
  BY BatchTake DEF BatchTypes
<1>3. /\ cur' \in Ring /\ queue' \in Seq(Ring) /\ Len(queue') <= Slots
      /\ ToSet(queue') = IF created /\ Len(queue) < Slots
                         THEN ToSet(queue) \cup {cur} ELSE ToSet(queue)
  <2>1. CASE created
    BY <1>1, <2>1, PostedTypes, NextSlotTypes
  <2>2. CASE ~ created
    BY <1>1, <2>2
  <2> QED
    BY <2>1, <2>2
<1>4. UNCHANGED <<phase, at, present, file, store, request, created, task, crashes>>
  OBVIOUS
<1> QED
  BY <1>1, <1>2, <1>3, <1>4

LEMMA UpdateTypes == Types /\ Update => Types'
<1> SUFFICES ASSUME Types, Update PROVE Types'
  OBVIOUS
<1>1. PICK n \in Names, v \in Values :
        /\ ram' = [ram EXCEPT ![n] = v] /\ slot' = [slot EXCEPT ![cur] = n]
        /\ lost' = (IF Delivered THEN lost \ {n} ELSE lost \cup {n}) \cup Overwritten(n)
        /\ since' = [m \in Names |->
             CASE m = n -> since[m] \cup {v, Torn}
               [] m # n /\ m = task.name /\ task.hand = cur -> AnyValue
               [] OTHER -> since[m]]
        /\ phase = "up" /\ cur \in Ring /\ cur' \in Ring
        /\ queue' \in Seq(Ring) /\ Len(queue') <= Slots
        /\ ToSet(queue') = IF created /\ Len(queue) < Slots
                           THEN ToSet(queue) \cup {cur} ELSE ToSet(queue)
        /\ batch' \in Seq(Names \X Values)
        /\ UNCHANGED <<phase, at, present, file, store, request, created, task, crashes>>
  BY UpdateSays
<1>2. slot \in [Ring -> Names \cup {Nothing}] /\ \A k \in ToSet(queue) : slot[k] \in Names
  BY DEF Types, TypeOK, BatchTypes, Ring
<1>3. slot' \in [Ring -> Names \cup {Nothing}] /\ \A k \in Ring : slot'[k] \in {slot[k], n}
      /\ slot'[cur] = n
  BY <1>1, <1>2
<1>4. ToSet(queue) \subseteq Ring
  <2>1. queue \in Seq(Ring)
    BY DEF Types, TypeOK, Ring
  <2> QED
    BY <2>1, QueueRing
<1>5. \A k \in ToSet(queue') : slot'[k] \in Names
  BY <1>1, <1>2, <1>3, <1>4
<1>6. Overwritten(n) \subseteq Names
  <2>1. ASSUME InUse(cur) PROVE slot[cur] \in Names
    <3>1. task.hand = cur => task.pc # "pend"
      BY <1>1, Marks, WaitingTypes DEF Types, TaskTypes
    <3> QED
      BY <1>1, <1>2, <2>1, <3>1 DEF InUse, Types, TaskTypes
  <2> QED
    BY <2>1 DEF Overwritten
<1>7. TypeOK'
  <2>1. ram' \in [Names -> AnyValue] /\ lost' \subseteq Names
    BY <1>1, <1>6, Marks DEF Types, TypeOK
  <2>2. since' \in [Names -> SUBSET AnyValue]
    <3>1. \A m \in Names : since[m] \in SUBSET AnyValue
      BY DEF Types, TypeOK
    <3>2. v \in AnyValue /\ Torn \in AnyValue
      BY Marks
    <3>3. \A m \in Names : since'[m] \in SUBSET AnyValue
      BY <1>1, <3>1, <3>2
    <3> QED
      BY <1>1, <3>3
  <2>3. Eeprom!TypeOK'
    BY <1>1 DEF Types, TypeOK, Eeprom!TypeOK
  <2> QED
    BY <1>1, <1>3, <2>1, <2>2, <2>3 DEF Types, TypeOK, Ring
<1>8. BatchTypes'
  BY <1>1, <1>5 DEF Types, BatchTypes
<1>9. TaskTypes'
  <2>1. task' = task /\ phase' = phase
    BY <1>1
  <2>2. task.pc # "pend" => slot'[task.hand] \in Names
    BY <1>1, <1>3 DEF Types, TaskTypes
  <2> QED
    BY <2>1, <2>2 DEF Types, TaskTypes
<1>10. Quiet' /\ Requests'
  BY <1>1 DEF Types, Quiet, Requests
<1> QED
  BY <1>7, <1>8, <1>9, <1>10 DEF Types

\* A step of the storing task that leaves the ring alone.
LEMMA TaskSteps ==
  ASSUME Types, phase = "up", task.pc # "pend", task' \in Tasks, task'.pc # "pend",
         task'.hand = task.hand, task'.name = task.name,
         task'.pc = "reading" => task'.from \in Names /\ task'.seen \in AnyValue,
         task'.pc \in {"eeprom", "stored", "file", "write"} => task'.buff \in AnyValue,
         UNCHANGED <<phase, batch, slot, queue, created, lost, crashes>>
  PROVE  BatchTypes' /\ TaskTypes' /\ Quiet'
<1>1. task'.name \in Names
  BY DEF Types, TypeOK, TaskTypes
<1>2. task.hand \in Ring /\ slot[task.hand] \in Names
  BY DEF Types, TaskTypes
<1>3. TaskTypes'
  BY <1>1, <1>2, Marks DEF TaskTypes
<1>4. BatchTypes' /\ Quiet'
  BY DEF Types, BatchTypes, Quiet
<1> QED
  BY <1>3, <1>4

LEMMA CreateQueueTypes == Types /\ CreateQueue => Types'
<1> SUFFICES ASSUME Types, CreateQueue PROVE Types'
  OBVIOUS
<1> USE DEF Types, CreateQueue, Runs, counters
<1>1. TypeOK'
  BY DEF TypeOK, Eeprom!TypeOK
<1>2. BatchTypes' /\ TaskTypes'
  BY DEF BatchTypes, TaskTypes
<1>3. Quiet' /\ Requests'
  BY DEF Quiet, Requests
<1> QED
  BY <1>1, <1>2, <1>3

LEMMA TakeTypes == Types /\ Take => Types'
<1> SUFFICES ASSUME Types, Take PROVE Types'
  OBVIOUS
<1> USE DEF Take, Runs, counters
<1> DEFINE k == Head(queue)
<1>1. queue \in Seq(Ring) /\ queue # <<>> /\ phase = "up" /\ task = Waiting
  BY DEF Types, TypeOK, TaskTypes, Ring
<1>2. /\ queue' \in Seq(Ring) /\ Len(queue') <= Slots
      /\ k \in Ring /\ k \in ToSet(queue) /\ ToSet(queue') \subseteq ToSet(queue)
  BY <1>1, QueueTake, Marks DEF Types, TypeOK
<1>3. slot[k] \in Names
  BY <1>2 DEF Types, BatchTypes
<1>4. task' \in Tasks /\ task'.pc = "read" /\ task'.hand = k /\ task'.name = slot[k]
  BY <1>1, <1>2, <1>3, WaitingTypes DEF Tasks, Steps
<1>5. TypeOK'
  BY <1>2, <1>3, <1>4 DEF Types, TypeOK, Eeprom!TypeOK, Ring
<1>6. BatchTypes' /\ TaskTypes'
  BY <1>2, <1>3, <1>4, Marks DEF Types, BatchTypes, TaskTypes
<1>7. Quiet' /\ Requests'
  BY <1>1, <1>4, WaitingTypes DEF Types, Quiet, Requests
<1> QED
  BY <1>5, <1>6, <1>7 DEF Types

\* What the storing task has in hand once it has taken a request.
LEMMA HandTypes ==
  ASSUME Types, phase = "up", task.pc # "pend"
  PROVE  /\ task \in Tasks /\ task.hand \in Ring /\ task.name \in Names
         /\ slot[task.hand] \in Names
  BY DEF Types, TypeOK, TaskTypes

LEMMA BeginReadTypes == Types /\ BeginRead => Types'
<1> SUFFICES ASSUME Types, BeginRead PROVE Types'
  OBVIOUS
<1> USE DEF BeginRead, Runs, counters
<1> DEFINE n == IF task.name \in Colours THEN task.name ELSE slot[task.hand]
<1>1. task.pc = "read" /\ phase = "up" /\ task \in Tasks /\ n \in Names
  BY HandTypes
<1>2. ram[n] \in AnyValue
  BY <1>1 DEF Types, TypeOK
<1>3. /\ task' \in Tasks /\ task'.pc = "reading" /\ task'.from = n /\ task'.seen = ram[n]
      /\ task'.hand = task.hand /\ task'.name = task.name
  BY <1>1, <1>2 DEF Tasks, Steps
<1>4. BatchTypes' /\ TaskTypes' /\ Quiet'
  BY <1>1, <1>2, <1>3, TaskSteps
<1>5. TypeOK'
  BY <1>3 DEF Types, TypeOK, Eeprom!TypeOK
<1>6. Requests'
  BY <1>1, <1>3 DEF Types, Requests
<1> QED
  BY <1>4, <1>5, <1>6 DEF Types

LEMMA EndReadTypes == Types /\ EndRead => Types'
<1> SUFFICES ASSUME Types, EndRead PROVE Types'
  OBVIOUS
<1> USE DEF EndRead, Runs, counters
<1> DEFINE b == IF ram[task.from] = task.seen THEN task.seen ELSE Torn
           p == IF task.name \in Colours THEN "file" ELSE "eeprom"
<1>1. task.pc = "reading" /\ phase = "up" /\ task \in Tasks /\ b \in AnyValue
  BY HandTypes, Marks DEF Types, TaskTypes
<1>2. /\ task' \in Tasks /\ task'.pc = p /\ task'.buff = b
      /\ task'.hand = task.hand /\ task'.name = task.name
  BY <1>1 DEF Tasks, Steps
<1>3. BatchTypes' /\ TaskTypes' /\ Quiet'
  BY <1>1, <1>2, TaskSteps
<1>4. TypeOK'
  BY <1>2 DEF Types, TypeOK, Eeprom!TypeOK
<1>5. Requests'
  BY <1>1, <1>2 DEF Types, Requests
<1> QED
  BY <1>3, <1>4, <1>5 DEF Types

LEMMA WriteEepromTypes == Types /\ WriteEeprom => Types'
<1> SUFFICES ASSUME Types, WriteEeprom PROVE Types'
  OBVIOUS
<1> USE DEF WriteEeprom, Runs, counters
<1>1. /\ task.pc = "eeprom" /\ phase = "up" /\ task \in Tasks
      /\ task.name \in Names /\ task.buff \in AnyValue
  BY HandTypes DEF Types, TaskTypes
<1>2. PICK p \in {"stored", "file"} :
        task' = [task EXCEPT !.pc = p] /\ (p = "stored" <=> ToEeprom)
  <2>1. CASE ToEeprom
    BY <2>1
  <2>2. CASE ~ ToEeprom
    BY <2>2
  <2> QED
    BY <2>1, <2>2
<1>3. /\ task' \in Tasks /\ task'.pc = p /\ task'.buff = task.buff
      /\ task'.hand = task.hand /\ task'.name = task.name
  BY <1>1, <1>2 DEF Tasks, Steps
<1>4. BatchTypes' /\ TaskTypes' /\ Quiet'
  BY <1>1, <1>3, TaskSteps
<1>5. CASE ToEeprom
  <2>1. /\ Eeprom!TypeOK' /\ request' = <<task.name, task.buff>> /\ p = "stored"
    BY <1>1, <1>2, <1>5, SubmitTypes DEF Types, TypeOK
  <2>2. TypeOK'
    BY <1>3, <2>1 DEF Types, TypeOK
  <2>3. Requests'
    BY <1>1, <1>3, <2>1 DEF Requests
  <2> QED
    BY <1>4, <2>2, <2>3 DEF Types
<1>6. CASE ~ ToEeprom
  <2>1. UNCHANGED <<store, request>> /\ p = "file"
    BY <1>2, <1>6
  <2>2. TypeOK'
    BY <1>3, <2>1 DEF Types, TypeOK, Eeprom!TypeOK
  <2>3. Requests'
    BY <1>1, <1>3, <2>1 DEF Types, Requests
  <2> QED
    BY <1>4, <2>2, <2>3 DEF Types
<1> QED
  BY <1>5, <1>6

LEMMA EepromWrittenTypes == Types /\ EepromWritten => Types'
<1> SUFFICES ASSUME Types, EepromWritten PROVE Types'
  OBVIOUS
<1> USE DEF EepromWritten, Runs, counters
<1>1. /\ task.pc = "stored" /\ phase = "up" /\ task \in Tasks /\ task.buff \in AnyValue
  BY HandTypes DEF Types, TaskTypes
<1>2. /\ task' \in Tasks /\ task'.pc = "file" /\ task'.buff = task.buff
      /\ task'.hand = task.hand /\ task'.name = task.name
  BY <1>1 DEF Tasks, Steps
<1>3. BatchTypes' /\ TaskTypes' /\ Quiet'
  BY <1>1, <1>2, TaskSteps
<1>4. Eeprom!TypeOK' /\ request' = Nothing
  BY ReturnTypes DEF Types, TypeOK
<1>5. TypeOK'
  BY <1>2, <1>4 DEF Types, TypeOK
<1>6. Requests'
  BY <1>1, <1>2, <1>4 DEF Requests
<1> QED
  BY <1>3, <1>5, <1>6 DEF Types

LEMMA OpenFileTypes == Types /\ OpenFile => Types'
<1> SUFFICES ASSUME Types, OpenFile PROVE Types'
  OBVIOUS
<1> USE DEF OpenFile, Runs, Truncate, counters
<1>1. /\ task.pc = "file" /\ phase = "up" /\ task \in Tasks
      /\ task.buff \in AnyValue /\ task.name \in Names
  BY HandTypes DEF Types, TaskTypes
<1>2. /\ task' \in Tasks /\ task'.pc = "write" /\ task'.buff = task.buff
      /\ task'.hand = task.hand /\ task'.name = task.name
  BY <1>1 DEF Tasks, Steps
<1>3. BatchTypes' /\ TaskTypes' /\ Quiet'
  BY <1>1, <1>2, TaskSteps
<1>4. TypeOK'
  BY <1>1, <1>2 DEF Types, TypeOK, Eeprom!TypeOK
<1>5. Requests'
  BY <1>1, <1>2 DEF Types, Requests
<1> QED
  BY <1>3, <1>4, <1>5 DEF Types

LEMMA WriteFileTypes == Types /\ WriteFile => Types'
<1> SUFFICES ASSUME Types, WriteFile PROVE Types'
  OBVIOUS
<1> USE DEF WriteFile, Runs, counters
<1>1. /\ task.pc = "write" /\ phase = "up" /\ task.name \in Names
      /\ ram[task.name] \in AnyValue
  BY HandTypes DEF Types, TypeOK
<1>2. since' \in [Names -> SUBSET AnyValue]
  BY <1>1 DEF Types, TypeOK
<1>3. TypeOK'
  BY <1>1, <1>2, FilledTypes, WaitingTypes DEF Types, TypeOK, Eeprom!TypeOK
<1>4. BatchTypes' /\ TaskTypes'
  BY WaitingTypes DEF Types, BatchTypes, TaskTypes
<1>5. Quiet' /\ Requests'
  BY <1>1, WaitingTypes DEF Types, Quiet, Requests
<1> QED
  BY <1>3, <1>4, <1>5 DEF Types

LEMMA PowerLossTypes == Types /\ PowerLoss => Types'
<1> SUFFICES ASSUME Types, PowerLoss PROVE Types'
  OBVIOUS
<1> USE DEF PowerLoss
<1>1. Eeprom!TypeOK' /\ request' = Nothing
  BY FailTypes DEF Types, TypeOK, Eeprom!TypeOK
<1>2. 1 \in 1 .. Len(Order) + 1 /\ 0 \in Ring
  BY Orders, Marks DEF Ring
<1>3. TypeOK'
  <2>1. file' \in [Names -> AnyValue \cup {Missing, Empty}] /\ since' \in [Names -> SUBSET AnyValue]
    BY DEF Types, TypeOK
  <2>2. ram' \in [Names -> AnyValue] /\ slot' \in [Ring -> Names \cup {Nothing}]
    BY FactoryTypes DEF Ring
  <2>3. queue' \in Seq(Ring) /\ Len(queue') <= Slots
    BY EmptyQueue, Marks
  <2>4. /\ task'.pc \in Steps /\ task'.hand \in Ring \cup {Nothing}
        /\ task'.name \in Names \cup {Nothing}
    BY WaitingTypes DEF Steps
  <2> QED
    BY <1>1, <1>2, <2>1, <2>2, <2>3, <2>4 DEF TypeOK, Ring, Steps
<1>4. BatchTypes' /\ TaskTypes'
  <2>1. batch' \in Seq(Names \X Values) /\ crashes' \in Nat /\ ToSet(queue') = {}
    BY EmptyQueue DEF Types, BatchTypes
  <2> QED
    BY <2>1, WaitingTypes DEF BatchTypes, TaskTypes
<1>5. Quiet' /\ Requests'
  BY <1>1, WaitingTypes DEF Quiet, Requests
<1> QED
  BY <1>3, <1>4, <1>5 DEF Types

\* Types is an invariant.
LEMMA TypesStep == Types /\ [Next]_vars => Types'
<1>1. Types /\ UNCHANGED vars => Types'
  BY DEF Types, TypeOK, Eeprom!TypeOK, BatchTypes, TaskTypes, Quiet, Requests, vars
<1> QED
  BY <1>1, PowerOnTypes, FSSyncTypes, EepromSyncTypes, SyncDoneTypes, SyncWrittenTypes,
     ReceiveTypes, UpdateTypes, CreateQueueTypes, TakeTypes, BeginReadTypes, EndReadTypes,
     WriteEepromTypes, EepromWrittenTypes, OpenFileTypes, WriteFileTypes, PowerLossTypes
     DEF Next, Synchronise, Store

-----------------------------------------------------------------------------
(* StoredInv.                                                                 *)

LEMMA InitStored == Init => StoredInv
<1> SUFFICES ASSUME Init PROVE StoredInv
  OBVIOUS
<1>1. CutOff
  BY Marks DEF Init, CutOff
<1>2. \A n \in Names : Starting(n) /\ Accounted(n)
  BY DEF Init, Starting, Accounted
<1> QED
  BY <1>1, <1>2 DEF StoredInv

\* The synchronisation goes from one place of the order to the next.
LEMMA PassedNext ==
  ASSUME at \in 1 .. Len(Order) + 1, at' = at + 1, NEW n
  PROVE  Passed(n)' <=> Passed(n) \/ Order[at] = n
<1>1. at \in Nat \ {0}
  BY Orders
<1>2. 1 .. at' - 1 = (1 .. at - 1) \cup {at}
  BY <1>1
<1> QED
  BY <1>2 DEF Passed

LEMMA PassedNone == ASSUME at = 1, NEW n PROVE ~ Passed(n)
  BY DEF Passed

LEMMA PassedAll == ASSUME at = Len(Order) + 1, NEW n \in Names PROVE Passed(n)
  BY Orders DEF Passed

\* What begins to write a file or leaves the files alone, unless a file is
\* being written, keeps the empty ones explained.
LEMMA CutOffKept ==
  ASSUME Types, CutOff, task.pc # "write" \/ task' = task, crashes' = crashes,
         \/ file' = file
         \/ \E n \in Names : file' = [file EXCEPT ![n] = Empty] /\ Writing(n)'
  PROVE  CutOff'
<1> SUFFICES ASSUME NEW m \in Names, file'[m] = Empty, ~ (crashes' > 0) PROVE Writing(m)'
  BY DEF CutOff
<1>1. CASE file' = file
  BY <1>1 DEF CutOff, Writing
<1>2. CASE \E n \in Names : file' = [file EXCEPT ![n] = Empty] /\ Writing(n)'
  <2>1. PICK n \in Names : file' = [file EXCEPT ![n] = Empty] /\ Writing(n)'
    BY <1>2
  <2>2. CASE m = n
    BY <2>1, <2>2
  <2>3. CASE m # n
    <3>1. file[m] = Empty
      BY <2>1, <2>3 DEF Types, TypeOK
    <3> QED
      BY <2>1, <2>3, <3>1 DEF CutOff, Writing
  <2> QED
    BY <2>2, <2>3
<1> QED
  BY <1>1, <1>2

LEMMA PowerOnStored == Types /\ StoredInv /\ PowerOn => StoredInv'
<1> SUFFICES ASSUME Types, StoredInv, PowerOn PROVE StoredInv'
  OBVIOUS
<1> USE DEF PowerOn, counters
<1>1. CutOff'
  BY DEF StoredInv, CutOff, Writing
<1>2. ASSUME NEW n \in Names PROVE Starting(n)' /\ Accounted(n)'
  <2>1. ~ Passed(n)'
    BY PassedNone DEF Passed
  <2>2. Starting(n)
    BY DEF StoredInv
  <2> QED
    BY <2>1, <2>2 DEF Starting, Accounted
<1> QED
  BY <1>1, <1>2 DEF StoredInv

LEMMA FSSyncStored == Types /\ StoredInv /\ FSSync => StoredInv'
<1> SUFFICES ASSUME Types, StoredInv, FSSync PROVE StoredInv'
  OBVIOUS
<1> USE DEF FSSync, Ready, counters
<1>0. PICK m \in Names : m = Order[at]
  BY Orders DEF Types, TypeOK
<1>1. /\ m = Order[at] /\ phase = "fs" /\ phase' = "fs" /\ at' = at + 1 /\ task = Waiting
      /\ crashes' = crashes /\ task \in Tasks /\ at \in 1 .. Len(Order) + 1
  BY <1>0, Orders DEF Types, TypeOK, TaskTypes
<1>2. \A n \in Names : ~ Writing(n)
  BY <1>1, WaitingTypes DEF Writing
<1>3. CASE Truncate(m, ram[m]) /\ file[m] = Missing /\ UNCHANGED ram
  <2>1. /\ file' = [file EXCEPT ![m] = Empty]
        /\ task'.pc = "write" /\ task'.name = m /\ task'.buff = ram[m]
    BY <1>1, <1>3 DEF Truncate, Tasks
  <2>2. CutOff'
    <3>1. Writing(m)'
      BY <2>1 DEF Writing
    <3> QED
      BY <1>1, <2>1, <3>1, CutOffKept, WaitingTypes DEF StoredInv
  <2>3. ASSUME NEW n \in Names PROVE Starting(n)' /\ Accounted(n)'
    <3>1. Starting(n) /\ (Passed(n)' <=> Passed(n) \/ m = n)
      BY <1>1, PassedNext DEF StoredInv
    <3>2. CASE n = m
      BY <1>1, <1>3, <2>1, <3>2, Marks DEF Starting, Accounted, Writing, Types, TypeOK
    <3>3. CASE n # m
      BY <1>1, <1>2, <1>3, <2>1, <3>1, <3>3
         DEF Starting, Accounted, Writing, FileTrue, Types, TypeOK
    <3> QED
      BY <3>2, <3>3
  <2> QED
    BY <2>2, <2>3 DEF StoredInv
<1>4. CASE /\ UNCHANGED <<file, task>>
           /\ \/ /\ file[m] \notin {Missing, Empty} /\ ram' = [ram EXCEPT ![m] = file[m]]
              \/ /\ file[m] = Empty /\ m \in Colours /\ ram' = [ram EXCEPT ![m] = Torn]
              \/ /\ file[m] = Empty /\ ram' = ram
              \/ /\ file[m] = Missing /\ m \in Colours /\ ram' = ram
  <2>1. CutOff'
    BY <1>1, <1>4 DEF StoredInv, CutOff, Writing
  <2>2. ASSUME NEW n \in Names PROVE Starting(n)' /\ Accounted(n)'
    <3>1. Starting(n) /\ (Passed(n)' <=> Passed(n) \/ m = n)
      BY <1>1, PassedNext DEF StoredInv
    <3>2. ~ Writing(n)' /\ ram \in [Names -> AnyValue]
      BY <1>2, <1>4 DEF Writing, Types, TypeOK
    <3>3. CASE n = m
      BY <1>1, <1>4, <3>1, <3>2, <3>3, Marks DEF Starting, Accounted, FileTrue
    <3>4. CASE n # m
      BY <1>1, <1>2, <1>4, <3>1, <3>2, <3>4 DEF Starting, Accounted, FileTrue
    <3> QED
      BY <3>3, <3>4
  <2> QED
    BY <2>1, <2>2 DEF StoredInv
<1> QED
  BY <1>1, <1>3, <1>4

LEMMA EepromSyncStored == Types /\ StoredInv /\ EepromSync => StoredInv'
<1> SUFFICES ASSUME Types, StoredInv, EepromSync PROVE StoredInv'
  OBVIOUS
<1> USE DEF EepromSync, Ready, counters
<1>0. PICK m \in Names : m = Order[at]
  BY Orders DEF Types, TypeOK
<1>1. /\ m = Order[at] /\ phase = "eeprom" /\ phase' = "eeprom" /\ at' = at + 1 /\ task = Waiting
      /\ crashes' = crashes /\ task \in Tasks /\ at \in 1 .. Len(Order) + 1
      /\ request = Nothing /\ present' = present /\ ram \in [Names -> AnyValue]
  BY <1>0, Orders DEF Types, TypeOK, TaskTypes
<1>2. \A n \in Names : ~ Writing(n)
  BY <1>1, WaitingTypes DEF Writing
<1>3. CASE /\ m \in InEeprom /\ store[m] \notin {Nothing, ram[m]}
           /\ ram' = [ram EXCEPT ![m] = Loaded(m)] /\ Truncate(m, store[m])
           /\ UNCHANGED <<store, request>>
  <2>1. /\ file' = [file EXCEPT ![m] = Empty]
        /\ task'.pc = "write" /\ task'.name = m /\ task'.buff = store[m]
        /\ ram' = [ram EXCEPT ![m] = store[m]]
    BY <1>1, <1>3 DEF Truncate, Tasks, Loaded
  <2>2. CutOff'
    <3>1. Writing(m)'
      BY <2>1 DEF Writing
    <3> QED
      BY <1>1, <2>1, <3>1, CutOffKept, WaitingTypes DEF StoredInv
  <2>3. ASSUME NEW n \in Names PROVE Starting(n)' /\ Accounted(n)'
    <3>1. Starting(n) /\ (Passed(n)' <=> Passed(n) \/ m = n)
      BY <1>1, PassedNext DEF StoredInv
    <3>2. CASE n = m
      BY <1>1, <1>3, <2>1, <3>2 DEF Starting, Accounted, Writing
    <3>3. CASE n # m
      BY <1>1, <1>2, <1>3, <2>1, <3>1, <3>3
         DEF Starting, Accounted, Writing, FileTrue, Types, TypeOK
    <3> QED
      BY <3>2, <3>3
  <2> QED
    BY <2>2, <2>3 DEF StoredInv
<1>4. CASE /\ UNCHANGED <<ram, file, task, store>>
           /\ \/ request' = <<m, ram[m]>> /\ request' # Nothing
              \/ (m \notin InEeprom \/ ~ present \/ store[m] = ram[m]) /\ request' = request
  <2>1. CutOff'
    BY <1>1, <1>4 DEF StoredInv, CutOff, Writing
  <2>2. ASSUME NEW n \in Names PROVE Starting(n)' /\ Accounted(n)'
    <3>1. Starting(n) /\ (Passed(n)' <=> Passed(n) \/ m = n)
      BY <1>1, PassedNext DEF StoredInv
    <3>2. ~ Writing(n)' /\ ~ Writing(n)
      BY <1>2, <1>4 DEF Writing
    <3>3. FileTrue(n)'
      BY <1>1, <1>4, <3>1, <3>2 DEF Starting, FileTrue
    <3>4. CASE n = m
      <4>1. CASE request' = <<m, ram[m]>> /\ request' # Nothing
        <5>1. request'[1] = n /\ request'[2] = ram'[n]
          BY <1>4, <3>4, <4>1
        <5> QED
          BY <1>1, <3>2, <3>3, <4>1, <5>1 DEF Starting, Accounted
      <4>2. CASE (m \notin InEeprom \/ ~ present \/ store[m] = ram[m]) /\ request' = request
        BY <1>1, <1>4, <3>2, <3>3, <3>4, <4>2 DEF Starting, Accounted
      <4> QED
        BY <1>4, <4>1, <4>2
    <3>5. CASE n # m
      BY <1>1, <1>4, <3>1, <3>2, <3>3, <3>5 DEF Starting, Accounted
    <3> QED
      BY <3>4, <3>5
  <2> QED
    BY <2>1, <2>2 DEF StoredInv
<1>5. CASE m \in InEeprom /\ Eeprom!Submit(m, ram[m]) /\ UNCHANGED <<ram, file, task>>
  BY <1>1, <1>4, <1>5, SubmitTypes DEF Types, TypeOK
<1> QED
  BY <1>1, <1>3, <1>4, <1>5

LEMMA SyncDoneStored == Types /\ StoredInv /\ SyncDone => StoredInv'
<1> SUFFICES ASSUME Types, StoredInv, SyncDone PROVE StoredInv'
  OBVIOUS
<1> USE DEF SyncDone, Ready, counters
<1>1. CutOff'
  BY DEF StoredInv, CutOff, Writing
<1>2. ASSUME NEW n \in Names PROVE Starting(n)' /\ Accounted(n)'
  <2>1. Passed(n) /\ ~ Passed(n)'
    BY PassedAll, PassedNone DEF Passed
  <2>2. Starting(n) /\ ~ Writing(n) /\ ~ Writing(n)' /\ task.name # n
    BY Marks DEF StoredInv, Writing, Types, TaskTypes
  <2>3. FileTrue(n) /\ FileTrue(n)'
    BY <2>1, <2>2 DEF Starting, FileTrue
  <2>4. phase = "eeprom" => EepromTrue(n)'
    BY <2>1, <2>2 DEF Starting, EepromTrue
  <2> QED
    BY <2>1, <2>2, <2>3, <2>4 DEF Starting, Accounted
<1> QED
  BY <1>1, <1>2 DEF StoredInv

\* A file that has been filled.
LEMMA FilledIs ==
  ASSUME Types, task.pc = "write", NEW n \in Names
  PROVE  Filled[n] = IF n = task.name THEN task.buff ELSE file[n]
  BY DEF Types, TypeOK, Filled

LEMMA CutOffFilled ==
  ASSUME Types, CutOff, task.pc = "write", file' = Filled, crashes' = crashes
  PROVE  CutOff'
<1> SUFFICES ASSUME NEW n \in Names, file'[n] = Empty PROVE crashes' > 0
  BY DEF CutOff
<1>1. task.buff \in AnyValue
  BY FilledTypes
<1>2. n # task.name /\ file[n] = Empty
  BY <1>1, FilledIs, Marks
<1> QED
  BY <1>2 DEF CutOff, Writing

LEMMA SyncWrittenStored == Types /\ StoredInv /\ SyncWritten => StoredInv'
<1> SUFFICES ASSUME Types, StoredInv, SyncWritten PROVE StoredInv'
  OBVIOUS
<1> USE DEF SyncWritten, counters
<1>1. /\ phase \in {"fs", "eeprom"}
      /\ UNCHANGED <<phase, at, present, ram, crashes>>
  OBVIOUS
<1>2. CASE task.pc = "write" /\ file' = Filled /\ task' = Waiting /\ UNCHANGED <<store, request>>
  <2>1. CutOff'
    BY <1>1, <1>2, CutOffFilled DEF StoredInv
  <2>2. ASSUME NEW n \in Names PROVE Starting(n)' /\ Accounted(n)'
    <3>1. Starting(n) /\ (Passed(n)' <=> Passed(n)) /\ ~ Writing(n)'
      BY <1>1, <1>2, WaitingTypes DEF StoredInv, Passed, Writing
    <3>2. /\ file'[n] = IF n = task.name THEN task.buff ELSE file[n]
          /\ task.buff \in AnyValue
      BY <1>2, FilledIs, FilledTypes
    <3>3. Writing(n) <=> n = task.name
      BY <1>2 DEF Writing
    <3> QED
      BY <1>1, <1>2, <3>1, <3>2, <3>3, Marks DEF Starting, Accounted, FileTrue
  <2> QED
    BY <2>1, <2>2 DEF StoredInv
<1>3. CASE Eeprom!Return /\ UNCHANGED <<file, task>>
  <2>1. CutOff'
    BY <1>1, <1>3 DEF StoredInv, CutOff, Writing
  <2>2. /\ request # Nothing /\ request' = Nothing /\ request[1] \in Names
        /\ store' = [store EXCEPT ![request[1]] = request[2]]
        /\ store \in [Names -> AnyValue \cup {Nothing}]
    BY <1>3, ReturnTypes DEF Types, TypeOK, Eeprom!TypeOK
  <2>3. ASSUME NEW n \in Names PROVE Starting(n)' /\ Accounted(n)'
    <3>1. /\ Starting(n) /\ (Passed(n)' <=> Passed(n))
          /\ (Writing(n)' <=> Writing(n)) /\ (FileTrue(n)' <=> FileTrue(n))
      BY <1>1, <1>3 DEF StoredInv, Passed, Writing, FileTrue
    <3>2. store'[n] = IF request[1] = n THEN request[2] ELSE store[n]
      BY <2>2
    <3> QED
      BY <1>1, <1>3, <2>2, <3>1, <3>2 DEF Starting, Accounted
  <2> QED
    BY <2>1, <2>3 DEF StoredInv
<1> QED
  BY <1>2, <1>3

LEMMA StartedAlready == ASSUME phase = "up", NEW n PROVE Starting(n)
  BY DEF Starting

LEMMA ReceiveStored == Types /\ StoredInv /\ Receive => StoredInv'
<1> SUFFICES ASSUME Types, StoredInv, Receive PROVE StoredInv'
  OBVIOUS
<1>1. UNCHANGED <<phase, present, ram, file, store, slot, queue, task, crashes, lost>>
  BY DEF Receive
<1>2. CutOff'
  BY <1>1 DEF StoredInv, CutOff, Writing
<1>3. ASSUME NEW n \in Names PROVE Starting(n)' /\ Accounted(n)'
  BY <1>1 DEF Receive, StoredInv, Starting, Accounted, Queued, InHand, FileTrue, EepromTrue
<1> QED
  BY <1>2, <1>3 DEF StoredInv

LEMMA CreateQueueStored == Types /\ StoredInv /\ CreateQueue => StoredInv'
<1> SUFFICES ASSUME Types, StoredInv, CreateQueue PROVE StoredInv'
  OBVIOUS
<1>1. UNCHANGED <<phase, present, ram, file, store, slot, queue, task, crashes, lost>>
  BY DEF CreateQueue, counters
<1>2. CutOff'
  BY <1>1 DEF StoredInv, CutOff, Writing
<1>3. ASSUME NEW n \in Names PROVE Starting(n)' /\ Accounted(n)'
  BY <1>1 DEF CreateQueue, Runs, StoredInv, Starting, Accounted, Queued, InHand, FileTrue,
              EepromTrue
<1> QED
  BY <1>2, <1>3 DEF StoredInv

\* An update: a parameter whose request is overwritten in the ring is lost; the
\* one that is updated is queued or lost.
LEMMA UpdateStored == Types /\ StoredInv /\ Update => StoredInv'
<1> SUFFICES ASSUME Types, StoredInv, Update PROVE StoredInv'
  OBVIOUS
<1>1. PICK n \in Names, v \in Values :
        /\ ram' = [ram EXCEPT ![n] = v] /\ slot' = [slot EXCEPT ![cur] = n]
        /\ lost' = (IF Delivered THEN lost \ {n} ELSE lost \cup {n}) \cup Overwritten(n)
        /\ phase = "up" /\ cur \in Ring
        /\ ToSet(queue') = IF created /\ Len(queue) < Slots
                           THEN ToSet(queue) \cup {cur} ELSE ToSet(queue)
        /\ UNCHANGED <<phase, at, present, file, store, request, created, task, crashes>>
  BY UpdateSays
<1>2. CutOff'
  BY <1>1 DEF StoredInv, CutOff, Writing
<1>3. /\ slot \in [Ring -> Names \cup {Nothing}] /\ ram \in [Names -> AnyValue]
      /\ ToSet(queue) \subseteq Ring /\ task.hand \in Ring \cup {Nothing}
  BY QueueRing DEF Types, TypeOK, Ring
<1>4. Queued(n)' \/ n \in lost'
  <2>1. CASE Delivered
    <3>1. cur \in ToSet(queue') /\ slot'[cur] = n
      BY <1>1, <1>3, <2>1 DEF Delivered
    <3> QED
      BY <3>1 DEF Queued
  <2>2. CASE ~ Delivered
    BY <1>1, <2>2
  <2> QED
    BY <2>1, <2>2
<1>5. ASSUME NEW m \in Names, m # n PROVE Accounted(m)'
  <2>1. /\ ram'[m] = ram[m] /\ (m \in lost => m \in lost')
        /\ (FileTrue(m)' <=> FileTrue(m)) /\ (EepromTrue(m)' <=> EepromTrue(m))
    BY <1>1, <1>3, <1>5 DEF FileTrue, EepromTrue
  <2>2. ASSUME InUse(cur), slot[cur] = m PROVE m \in lost'
    BY <1>1, <1>5, <2>2 DEF Overwritten
  <2>3. CASE Queued(m)
    <3>1. PICK k \in ToSet(queue) : slot[k] = m
      BY <2>3 DEF Queued
    <3>2. CASE k = cur
      BY <2>2, <3>1, <3>2 DEF InUse, Accounted
    <3>3. CASE k # cur
      BY <1>1, <1>3, <3>1, <3>3 DEF Queued, Accounted
    <3> QED
      BY <3>2, <3>3
  <2>4. CASE InHand(m)
    <3>1. task.pc # "pend"
      BY <2>4 DEF InHand
    <3>2. task.hand \in Ring
      BY <1>1, <3>1, HandTypes
    <3>3. CASE task.hand = cur /\ slot[cur] = m
      BY <2>2, <3>3 DEF InUse, Accounted
    <3>4. CASE slot'[task.hand] = slot[task.hand] \/ slot[task.hand] # m
      <4>1. InHand(m)'
        BY <1>1, <2>1, <2>4, <3>4 DEF InHand
      <4> QED
        BY <4>1 DEF Accounted
    <3> QED
      BY <1>1, <1>3, <3>2, <3>3, <3>4
  <2> QED
    BY <1>1, <2>1, <2>3, <2>4 DEF StoredInv, Accounted
<1>6. ASSUME NEW m \in Names PROVE Starting(m)' /\ Accounted(m)'
  BY <1>1, <1>4, <1>5 DEF Starting, Accounted
<1> QED
  BY <1>2, <1>6 DEF StoredInv

LEMMA TakeStored == Types /\ StoredInv /\ Take => StoredInv'
<1> SUFFICES ASSUME Types, StoredInv, Take PROVE StoredInv'
  OBVIOUS
<1> USE DEF Take, Runs, counters
<1>1. PICK k \in Ring : k = Head(queue)
  BY QueueTake DEF Types, TypeOK, Ring
<1>2. /\ phase = "up" /\ task = Waiting /\ task \in Tasks
      /\ k \in ToSet(queue) /\ ToSet(queue) \subseteq ToSet(queue') \cup {k}
      /\ slot[k] \in Names
  BY <1>1, QueueTake DEF Types, TypeOK, BatchTypes, TaskTypes, Ring
<1>3. task'.pc = "read" /\ task'.hand = k /\ task'.name = slot[k]
  BY <1>1, <1>2 DEF Tasks
<1>4. CutOff'
  BY <1>2, CutOffKept DEF StoredInv, Waiting
<1>5. ASSUME NEW n \in Names PROVE Starting(n)' /\ Accounted(n)'
  <2>1. CASE slot[k] = n
    <3>1. InHand(n)'
      BY <1>3, <2>1 DEF InHand
    <3> QED
      BY <3>1 DEF Starting, Accounted
  <2>2. CASE slot[k] # n
    <3>1. Queued(n) => Queued(n)'
      BY <1>2, <2>2 DEF Queued
    <3>2. ~ InHand(n)
      BY <1>2, Marks, WaitingTypes DEF InHand
    <3>3. (FileTrue(n)' <=> FileTrue(n)) /\ (EepromTrue(n)' <=> EepromTrue(n))
      BY DEF FileTrue, EepromTrue
    <3> QED
      BY <1>2, <1>3, <2>2, <3>1, <3>2, <3>3 DEF StoredInv, Starting, Accounted
  <2> QED
    BY <2>1, <2>2
<1> QED
  BY <1>4, <1>5 DEF StoredInv

\* A step of the storing task concerns the parameter it has in hand.
LEMMA HandMoves ==
  ASSUME Types, StoredInv, phase = "up", NEW n \in Names,
         task.name = n, task'.name = n, CutOff',
         UNCHANGED <<phase, present, ram, slot, queue, lost>>,
         \A m \in Names \ {n} : file'[m] = file[m] /\ store'[m] = store[m],
         InHand(n) => InHand(n)'
  PROVE  StoredInv'
<1>1. ASSUME NEW m \in Names PROVE Accounted(m)'
  <2>1. Accounted(m) /\ (Queued(m)' <=> Queued(m))
    BY DEF StoredInv, Queued
  <2>2. CASE m = n
    BY <2>1, <2>2 DEF Accounted
  <2>3. CASE m # n
    BY <2>1, <2>3 DEF Accounted, FileTrue, EepromTrue, InHand
  <2> QED
    BY <2>2, <2>3
<1>2. \A m \in Names : Starting(m)'
  BY DEF Starting
<1> QED
  BY <1>1, <1>2 DEF StoredInv

LEMMA BeginReadStored == Types /\ StoredInv /\ BeginRead => StoredInv'
<1> SUFFICES ASSUME Types, StoredInv, BeginRead PROVE StoredInv'
  OBVIOUS
<1> USE DEF BeginRead, Runs, counters
<1>1. PICK n \in Names : n = task.name
  BY HandTypes
<1>2. /\ task.pc = "read" /\ task'.pc = "reading" /\ task'.name = n /\ task'.hand = task.hand
      /\ task'.from = (IF n \in Colours THEN n ELSE slot[task.hand])
      /\ task'.seen = ram[task'.from]
  BY <1>1, HandTypes DEF Tasks
<1>3. InHand(n) => InHand(n)'
  BY <1>1, <1>2 DEF InHand
<1>4. CutOff'
  BY <1>2, CutOffKept DEF StoredInv
<1> QED
  BY <1>1, <1>2, <1>3, <1>4, HandMoves

LEMMA EndReadStored == Types /\ StoredInv /\ EndRead => StoredInv'
<1> SUFFICES ASSUME Types, StoredInv, EndRead PROVE StoredInv'
  OBVIOUS
<1> USE DEF EndRead, Runs, counters
<1>1. PICK n \in Names : n = task.name
  BY HandTypes
<1>2. /\ task.pc = "reading" /\ task'.pc = (IF n \in Colours THEN "file" ELSE "eeprom")
      /\ task'.name = n /\ task'.hand = task.hand
      /\ task'.buff = (IF ram[task.from] = task.seen THEN task.seen ELSE Torn)
  BY <1>1, HandTypes DEF Tasks
<1>3. InHand(n) => InHand(n)'
  BY <1>1, <1>2, Marks DEF InHand, EepromTrue
<1>4. CutOff'
  BY <1>2, CutOffKept DEF StoredInv
<1> QED
  BY <1>1, <1>2, <1>3, <1>4, HandMoves

LEMMA WriteEepromStored == Types /\ StoredInv /\ WriteEeprom => StoredInv'
<1> SUFFICES ASSUME Types, StoredInv, WriteEeprom PROVE StoredInv'
  OBVIOUS
<1> USE DEF WriteEeprom, Runs, counters
<1>1. PICK n \in Names : n = task.name
  BY HandTypes
<1>2. /\ task.pc = "eeprom" /\ task'.name = n /\ task'.hand = task.hand
      /\ task'.buff = task.buff
      /\ task'.pc = IF ToEeprom THEN "stored" ELSE "file"
  BY <1>1, HandTypes DEF Tasks
<1>3. store' = store
  BY DEF Eeprom!Submit
<1>4. InHand(n) => InHand(n)'
  <2>1. CASE ToEeprom
    BY <1>1, <1>2, <2>1 DEF InHand
  <2>2. CASE ~ ToEeprom
    BY <1>1, <1>2, <2>2 DEF InHand, ToEeprom, EepromTrue
  <2> QED
    BY <2>1, <2>2
<1>5. CutOff'
  BY <1>2, CutOffKept DEF StoredInv
<1> QED
  BY <1>1, <1>2, <1>3, <1>4, <1>5, HandMoves

LEMMA EepromWrittenStored == Types /\ StoredInv /\ EepromWritten => StoredInv'
<1> SUFFICES ASSUME Types, StoredInv, EepromWritten PROVE StoredInv'
  OBVIOUS
<1> USE DEF EepromWritten, Runs, counters
<1>1. PICK n \in Names : n = task.name
  BY HandTypes
<1>2. /\ task.pc = "stored" /\ task'.name = n /\ task'.hand = task.hand
      /\ task'.buff = task.buff /\ task'.pc = "file"
  BY <1>1, HandTypes DEF Tasks
<1>3. /\ request[1] = n /\ request[2] = task.buff
      /\ store' = [store EXCEPT ![request[1]] = request[2]]
      /\ store \in [Names -> AnyValue \cup {Nothing}]
  BY <1>1, <1>2, ReturnTypes DEF Types, TypeOK, Requests, Eeprom!TypeOK
<1>4. store'[n] = task.buff /\ \A m \in Names \ {n} : store'[m] = store[m]
  BY <1>3
<1>5. InHand(n) => InHand(n)'
  BY <1>1, <1>2, <1>4 DEF InHand, EepromTrue
<1>6. CutOff'
  BY <1>2, CutOffKept DEF StoredInv
<1> QED
  BY <1>1, <1>2, <1>4, <1>5, <1>6, HandMoves

LEMMA OpenFileStored == Types /\ StoredInv /\ OpenFile => StoredInv'
<1> SUFFICES ASSUME Types, StoredInv, OpenFile PROVE StoredInv'
  OBVIOUS
<1> USE DEF OpenFile, Runs, Truncate, counters
<1>1. PICK n \in Names : n = task.name
  BY HandTypes
<1>2. /\ task.pc = "file" /\ task'.name = n /\ task'.hand = task.hand
      /\ task'.buff = task.buff /\ task'.pc = "write"
      /\ file' = [file EXCEPT ![n] = Empty] /\ Writing(n)'
  BY <1>1, HandTypes DEF Tasks, Writing
<1>3. InHand(n) => InHand(n)'
  BY <1>1, <1>2 DEF InHand, EepromTrue
<1>4. CutOff'
  BY <1>2, CutOffKept DEF StoredInv
<1>5. \A m \in Names \ {n} : file'[m] = file[m]
  BY <1>2 DEF Types, TypeOK
<1> QED
  BY <1>1, <1>2, <1>3, <1>4, <1>5, HandMoves

LEMMA WriteFileStored == Types /\ StoredInv /\ WriteFile => StoredInv'
<1> SUFFICES ASSUME Types, StoredInv, WriteFile PROVE StoredInv'
  OBVIOUS
<1> USE DEF WriteFile, Runs, counters
<1>1. CutOff'
  BY CutOffFilled DEF StoredInv
<1>2. ASSUME NEW n \in Names PROVE Starting(n)' /\ Accounted(n)'
  <2>1. /\ file'[n] = IF n = task.name THEN task.buff ELSE file[n]
        /\ task.buff \in AnyValue
    BY FilledIs, FilledTypes
  <2>2. Accounted(n) /\ (Queued(n)' <=> Queued(n)) /\ (EepromTrue(n)' <=> EepromTrue(n))
        /\ task'.name # n
    BY WaitingTypes, Marks DEF StoredInv, Queued, EepromTrue
  <2>3. CASE InHand(n)
    <3>1. FileTrue(n)' /\ EepromTrue(n)'
      BY <2>1, <2>2, <2>3, Marks DEF InHand, FileTrue
    <3> QED
      BY <2>2, <3>1 DEF Starting, Accounted
  <2>4. CASE ~ InHand(n)
    BY <2>1, <2>2, <2>4 DEF Starting, Accounted, FileTrue
  <2> QED
    BY <2>3, <2>4
<1> QED
  BY <1>1, <1>2 DEF StoredInv

LEMMA PowerLossStored == Types /\ StoredInv /\ PowerLoss => StoredInv'
<1> SUFFICES ASSUME Types, StoredInv, PowerLoss PROVE StoredInv'
  OBVIOUS
<1>1. CutOff'
  BY DEF PowerLoss, CutOff, Types, BatchTypes
<1>2. ASSUME NEW n \in Names PROVE Starting(n)' /\ Accounted(n)'
  BY DEF PowerLoss, Starting, Accounted
<1> QED
  BY <1>1, <1>2 DEF StoredInv

\* StoredInv is an invariant.
LEMMA StoredStep == Types /\ StoredInv /\ [Next]_vars => StoredInv'
<1>1. Types /\ StoredInv /\ UNCHANGED vars => StoredInv'
  BY DEF StoredInv, CutOff, Starting, Accounted, Passed, Writing, Queued, InHand, FileTrue,
         EepromTrue, vars
<1> QED
  BY <1>1, PowerOnStored, FSSyncStored, EepromSyncStored, SyncDoneStored, SyncWrittenStored,
     ReceiveStored, UpdateStored, CreateQueueStored, TakeStored, BeginReadStored,
     EndReadStored, WriteEepromStored, EepromWrittenStored, OpenFileStored, WriteFileStored,
     PowerLossStored
     DEF Next, Synchronise, Store

-----------------------------------------------------------------------------
(* SurvivesInv.                                                               *)

LEMMA InitSurvives == Init => SurvivesInv
<1> SUFFICES ASSUME Init PROVE SurvivesInv
  OBVIOUS
<1>1. Carried
  BY WaitingTypes DEF Init, Carried
<1>2. ASSUME NEW n \in Names PROVE Kept(n) /\ Held(n)
  <2>1. /\ file[n] = Missing /\ store[n] = Nothing /\ request = Nothing
        /\ since[n] = {Factory[n]} /\ ram[n] = Factory[n] /\ phase = "off"
    BY DEF Init, Eeprom!Init
  <2> QED
    BY <2>1, Marks DEF Kept, Held
<1> QED
  BY <1>1, <1>2 DEF SurvivesInv

\* Nothing is carried while the storing task waits or the board starts, save
\* what the synchronisation writes.
LEMMA CarriedAtStart ==
  ASSUME Types, phase # "up", task.pc = "write" => task.buff \in since[task.name]
  PROVE  Carried
  BY DEF Types, Quiet, Carried

\* What leaves the two memories and since alone.
LEMMA KeptAlone ==
  ASSUME NEW n, Kept(n), UNCHANGED <<file, store, request, since>>
  PROVE  Kept(n)'
  BY DEF Kept

LEMMA PowerOnSurvives == Types /\ SurvivesInv /\ PowerOn => SurvivesInv'
<1> SUFFICES ASSUME Types, SurvivesInv, PowerOn PROVE SurvivesInv'
  OBVIOUS
<1> USE DEF PowerOn, counters
<1>1. Carried'
  BY DEF SurvivesInv, Carried
<1>2. ASSUME NEW n \in Names PROVE Kept(n)' /\ Held(n)'
  <2>1. Kept(n)'
    BY KeptAlone DEF SurvivesInv
  <2>2. ~ Passed(n)' /\ Held(n)
    BY PassedNone DEF SurvivesInv, Passed
  <2> QED
    BY <2>1, <2>2 DEF Held
<1> QED
  BY <1>1, <1>2 DEF SurvivesInv

LEMMA FSSyncSurvives == Types /\ StoredInv /\ SurvivesInv /\ FSSync => SurvivesInv'
<1> SUFFICES ASSUME Types, StoredInv, SurvivesInv, FSSync PROVE SurvivesInv'
  OBVIOUS
<1> USE DEF FSSync, Ready, counters
<1>0. PICK m \in Names : m = Order[at]
  BY Orders DEF Types, TypeOK
<1>1. /\ m = Order[at] /\ phase = "fs" /\ phase' = "fs" /\ at' = at + 1 /\ task = Waiting
      /\ task \in Tasks /\ at \in 1 .. Len(Order) + 1 /\ request = Nothing
      /\ UNCHANGED <<store, request, since>>
      /\ ram \in [Names -> AnyValue] /\ file \in [Names -> AnyValue \cup {Missing, Empty}]
  BY <1>0, Orders DEF Types, TypeOK, TaskTypes
<1>2. Starting(m) /\ Kept(m) /\ Held(m)
  BY DEF StoredInv, SurvivesInv
<1>3. CASE Truncate(m, ram[m]) /\ file[m] = Missing /\ UNCHANGED ram
  <2>1. /\ file' = [file EXCEPT ![m] = Empty]
        /\ task'.pc = "write" /\ task'.name = m /\ task'.buff = ram[m]
    BY <1>1, <1>3 DEF Truncate, Tasks
  <2>2. ram[m] \in since[m]
    BY <1>1, <1>2, <1>3 DEF Starting, Kept
  <2>3. Carried'
    BY <1>1, <2>1, <2>2 DEF Carried
  <2>4. ASSUME NEW n \in Names PROVE Kept(n)' /\ Held(n)'
    <3>1. Kept(n) /\ Held(n) /\ (Passed(n)' <=> Passed(n) \/ m = n)
      BY <1>1, PassedNext DEF SurvivesInv
    <3>2. CASE n = m
      BY <1>1, <1>2, <1>3, <2>1, <2>2, <3>2, Marks DEF Kept, Held
    <3>3. CASE n # m
      BY <1>1, <1>3, <2>1, <3>1, <3>3 DEF Kept, Held
    <3> QED
      BY <3>2, <3>3
  <2> QED
    BY <2>3, <2>4 DEF SurvivesInv
<1>4. CASE /\ UNCHANGED <<file, task>>
           /\ \/ /\ file[m] \notin {Missing, Empty} /\ ram' = [ram EXCEPT ![m] = file[m]]
              \/ /\ file[m] = Empty /\ m \in Colours /\ ram' = [ram EXCEPT ![m] = Torn]
              \/ /\ file[m] = Empty /\ ram' = ram
              \/ /\ file[m] = Missing /\ m \in Colours /\ ram' = ram
  <2>1. Carried'
    BY <1>1, <1>4, WaitingTypes DEF Carried
  <2>2. ASSUME NEW n \in Names PROVE Kept(n)' /\ Held(n)'
    <3>1. Kept(n) /\ Held(n) /\ (Passed(n)' <=> Passed(n) \/ m = n)
      BY <1>1, PassedNext DEF SurvivesInv
    <3>2. Kept(n)'
      BY <1>1, <1>4, <3>1, KeptAlone
    <3>3. CASE n = m
      <4>1. file[n] \in AnyValue => ram'[n] = file[n] /\ file[n] \in since[n]
        BY <1>1, <1>4, <3>1, <3>3, Marks DEF Kept
      <4>2. file[n] = Empty => n \in Colours \/ ram'[n] = ram[n]
        BY <1>4, <3>3
      <4>3. file[n] = Missing => ram'[n] = Factory[n] /\ Factory[n] \in since[n]
        BY <1>1, <1>2, <1>4, <3>3, Marks DEF Kept, Starting
      <4> QED
        BY <1>1, <1>4, <3>1, <3>2, <4>1, <4>2, <4>3 DEF Held
    <3>4. CASE n # m
      BY <1>1, <1>4, <3>1, <3>2, <3>4 DEF Held
    <3> QED
      BY <3>2, <3>3, <3>4
  <2> QED
    BY <2>1, <2>2 DEF SurvivesInv
<1> QED
  BY <1>1, <1>3, <1>4

LEMMA EepromSyncSurvives == Types /\ SurvivesInv /\ EepromSync => SurvivesInv'
<1> SUFFICES ASSUME Types, SurvivesInv, EepromSync PROVE SurvivesInv'
  OBVIOUS
<1> USE DEF EepromSync, Ready, counters
<1>0. PICK m \in Names : m = Order[at]
  BY Orders DEF Types, TypeOK
<1>1. /\ m = Order[at] /\ phase = "eeprom" /\ phase' = "eeprom" /\ at' = at + 1
      /\ task = Waiting /\ task \in Tasks /\ at \in 1 .. Len(Order) + 1
      /\ request = Nothing /\ UNCHANGED <<present, since>>
      /\ ram \in [Names -> AnyValue] /\ file \in [Names -> AnyValue \cup {Missing, Empty}]
  BY <1>0, Orders DEF Types, TypeOK, TaskTypes
<1>2. Kept(m) /\ Held(m)
  BY DEF SurvivesInv
<1>3. CASE /\ m \in InEeprom /\ store[m] \notin {Nothing, ram[m]}
           /\ ram' = [ram EXCEPT ![m] = Loaded(m)] /\ Truncate(m, store[m])
           /\ UNCHANGED <<store, request>>
  <2>1. /\ file' = [file EXCEPT ![m] = Empty]
        /\ task'.pc = "write" /\ task'.name = m /\ task'.buff = store[m]
        /\ ram' = [ram EXCEPT ![m] = store[m]]
    BY <1>1, <1>3 DEF Truncate, Tasks, Loaded
  <2>2. store[m] \in since[m]
    BY <1>2, <1>3 DEF Kept
  <2>3. Carried'
    BY <1>1, <2>1, <2>2 DEF Carried
  <2>4. ASSUME NEW n \in Names PROVE Kept(n)' /\ Held(n)'
    <3>1. Kept(n) /\ Held(n) /\ (Passed(n)' <=> Passed(n) \/ m = n)
      BY <1>1, PassedNext DEF SurvivesInv
    <3>2. CASE n = m
      BY <1>1, <1>2, <1>3, <2>1, <2>2, <3>2, Marks DEF Kept, Held
    <3>3. CASE n # m
      BY <1>1, <1>3, <2>1, <3>1, <3>3 DEF Kept, Held
    <3> QED
      BY <3>2, <3>3
  <2> QED
    BY <2>3, <2>4 DEF SurvivesInv
<1>4. CASE /\ m \in InEeprom /\ present /\ store[m] = Nothing
           /\ Eeprom!Submit(m, ram[m]) /\ UNCHANGED <<ram, file, task>>
  <2>1. request' = <<m, ram[m]>> /\ store' = store
    BY <1>4 DEF Eeprom!Submit
  <2>2. ram[m] \in since[m]
    BY <1>1, <1>2, <1>4, ProfileAssumption DEF Kept, Held
  <2>3. Carried'
    BY <1>1, <1>4, WaitingTypes DEF Carried
  <2>4. ASSUME NEW n \in Names PROVE Kept(n)' /\ Held(n)'
    <3>1. Kept(n) /\ Held(n) /\ (Passed(n)' <=> Passed(n) \/ m = n)
      BY <1>1, PassedNext DEF SurvivesInv
    <3>2. Kept(n)'
      BY <1>1, <1>4, <2>1, <2>2, <3>1 DEF Kept
    <3>3. Held(n)'
      BY <1>1, <1>4, <2>2, <3>1 DEF Held
    <3> QED
      BY <3>2, <3>3
  <2> QED
    BY <2>3, <2>4 DEF SurvivesInv
<1>5. CASE /\ m \notin InEeprom \/ ~ present \/ store[m] = ram[m]
           /\ UNCHANGED <<ram, file, store, request, task>>
  <2>1. Carried'
    BY <1>1, <1>5, WaitingTypes DEF Carried
  <2>2. ASSUME NEW n \in Names PROVE Kept(n)' /\ Held(n)'
    <3>1. Kept(n) /\ Held(n) /\ (Passed(n)' <=> Passed(n) \/ m = n)
      BY <1>1, PassedNext DEF SurvivesInv
    <3>2. Kept(n)'
      BY <1>1, <1>5, <3>1, KeptAlone
    <3>3. n = m /\ n \in InEeprom /\ present => ram[n] \in since[n]
      BY <1>1, <1>2, <1>5, Marks DEF Kept
    <3> QED
      BY <1>1, <1>5, <3>1, <3>2, <3>3 DEF Held
  <2> QED
    BY <2>1, <2>2 DEF SurvivesInv
<1> QED
  BY <1>1, <1>3, <1>4, <1>5

LEMMA SyncDoneSurvives == Types /\ SurvivesInv /\ SyncDone => SurvivesInv'
<1> SUFFICES ASSUME Types, SurvivesInv, SyncDone PROVE SurvivesInv'
  OBVIOUS
<1> USE DEF SyncDone, Ready, counters
<1>1. Carried'
  BY DEF Carried
<1>2. ASSUME NEW n \in Names PROVE Kept(n)' /\ Held(n)'
  <2>1. Kept(n)'
    BY KeptAlone DEF SurvivesInv
  <2>2. Passed(n) /\ ~ Passed(n)'
    BY PassedAll, PassedNone DEF Passed
  <2>3. Held(n) /\ ~ Queued(n)' /\ task'.name # n
    BY EmptyQueue, Marks DEF SurvivesInv, Types, TaskTypes, Quiet, Queued
  <2> QED
    BY <2>1, <2>2, <2>3 DEF Held
<1> QED
  BY <1>1, <1>2 DEF SurvivesInv

LEMMA SyncWrittenSurvives == Types /\ StoredInv /\ SurvivesInv /\ SyncWritten => SurvivesInv'
<1> SUFFICES ASSUME Types, StoredInv, SurvivesInv, SyncWritten PROVE SurvivesInv'
  OBVIOUS
<1> USE DEF SyncWritten, counters
<1>1. /\ phase \in {"fs", "eeprom"}
      /\ UNCHANGED <<phase, at, present, ram, since, slot>>
  OBVIOUS
<1>2. CASE task.pc = "write" /\ file' = Filled /\ task' = Waiting /\ UNCHANGED <<store, request>>
  <2>1. Carried'
    BY <1>2, WaitingTypes DEF Carried
  <2>2. ASSUME NEW n \in Names PROVE Kept(n)' /\ Held(n)'
    <3>1. Kept(n) /\ Held(n) /\ Starting(n) /\ (Passed(n)' <=> Passed(n))
      BY <1>1 DEF SurvivesInv, StoredInv, Passed
    <3>2. /\ file'[n] = IF n = task.name THEN task.buff ELSE file[n]
          /\ task.buff \in AnyValue /\ (n = task.name => task.buff \in since[n])
      BY <1>2, FilledIs, FilledTypes DEF SurvivesInv, Carried
    <3>3. Kept(n)'
      BY <1>1, <1>2, <3>1, <3>2, Marks DEF Kept
    <3>4. n = task.name /\ (phase = "eeprom" \/ Passed(n)) => ram[n] \in since[n]
      BY <1>1, <1>2, <3>1, <3>2 DEF Starting, Writing
    <3>5. Held(n)'
      BY <1>1, <1>2, <3>1, <3>2, <3>4 DEF Held
    <3> QED
      BY <3>3, <3>5
  <2> QED
    BY <2>1, <2>2 DEF SurvivesInv
<1>3. CASE Eeprom!Return /\ UNCHANGED <<file, task>>
  <2>1. /\ request # Nothing /\ request' = Nothing /\ request[1] \in Names
        /\ store' = [store EXCEPT ![request[1]] = request[2]]
        /\ store \in [Names -> AnyValue \cup {Nothing}] /\ request[2] \in AnyValue
    BY <1>3, ReturnTypes DEF Types, TypeOK, Eeprom!TypeOK
  <2>2. Carried'
    BY <1>1, <1>3, CarriedAtStart DEF SurvivesInv, Carried
  <2>3. ASSUME NEW n \in Names PROVE Kept(n)' /\ Held(n)'
    <3>1. Kept(n) /\ Held(n) /\ (Passed(n)' <=> Passed(n))
      BY <1>1 DEF SurvivesInv, Passed
    <3>2. store'[n] = IF request[1] = n THEN request[2] ELSE store[n]
      BY <2>1
    <3>3. Kept(n)'
      BY <1>1, <1>3, <2>1, <3>1, <3>2, Marks DEF Kept
    <3>4. Held(n)'
      BY <1>1, <1>3, <3>1 DEF Held
    <3> QED
      BY <3>3, <3>4
  <2> QED
    BY <2>2, <2>3 DEF SurvivesInv
<1> QED
  BY <1>2, <1>3

LEMMA ReceiveSurvives == Types /\ SurvivesInv /\ Receive => SurvivesInv'
<1> SUFFICES ASSUME Types, SurvivesInv, Receive PROVE SurvivesInv'
  OBVIOUS
<1>1. UNCHANGED <<phase, at, present, ram, file, store, request, slot, queue, task, since>>
  BY DEF Receive
<1>2. Carried'
  BY <1>1 DEF SurvivesInv, Carried
<1>3. ASSUME NEW n \in Names PROVE Kept(n)' /\ Held(n)'
  BY <1>1 DEF SurvivesInv, Kept, Held, Passed, Queued
<1> QED
  BY <1>2, <1>3 DEF SurvivesInv

LEMMA CreateQueueSurvives == Types /\ SurvivesInv /\ CreateQueue => SurvivesInv'
<1> SUFFICES ASSUME Types, SurvivesInv, CreateQueue PROVE SurvivesInv'
  OBVIOUS
<1>1. UNCHANGED <<phase, at, present, ram, file, store, request, slot, queue, task, since>>
  BY DEF CreateQueue
<1>2. Carried'
  BY <1>1 DEF SurvivesInv, Carried
<1>3. ASSUME NEW n \in Names PROVE Kept(n)' /\ Held(n)'
  BY <1>1 DEF SurvivesInv, Kept, Held, Passed, Queued
<1> QED
  BY <1>2, <1>3 DEF SurvivesInv

\* An update only adds to since, the value it writes above all.
LEMMA UpdateSurvives == Types /\ SurvivesInv /\ Update => SurvivesInv'
<1> SUFFICES ASSUME Types, SurvivesInv, Update PROVE SurvivesInv'
  OBVIOUS
<1>1. PICK n \in Names, v \in Values :
        /\ ram' = [ram EXCEPT ![n] = v] /\ slot' = [slot EXCEPT ![cur] = n]
        /\ since' = [m \in Names |->
             CASE m = n -> since[m] \cup {v, Torn}
               [] m # n /\ m = task.name /\ task.hand = cur -> AnyValue
               [] OTHER -> since[m]]
        /\ phase = "up" /\ cur \in Ring
        /\ ToSet(queue') = IF created /\ Len(queue) < Slots
                           THEN ToSet(queue) \cup {cur} ELSE ToSet(queue)
        /\ UNCHANGED <<phase, at, present, file, store, request, created, task, crashes>>
  BY UpdateSays
<1>2. /\ slot \in [Ring -> Names \cup {Nothing}] /\ ram \in [Names -> AnyValue]
      /\ since \in [Names -> SUBSET AnyValue] /\ ToSet(queue) \subseteq Ring
  BY QueueRing DEF Types, TypeOK, Ring
<1>3. \A m \in Names :
        /\ since[m] \subseteq since'[m] /\ (since[m] = AnyValue => since'[m] = AnyValue)
        /\ m = n => v \in since'[m] /\ Torn \in since'[m]
        /\ m # n /\ m = task.name /\ task.hand = cur => since'[m] = AnyValue
  BY <1>1, <1>2, Marks
<1>4. Carried'
  <2>1. SUFFICES ASSUME task.pc # "pend" PROVE Carried'
    BY <1>1 DEF Carried
  <2>2. task.name \in Names /\ task.hand \in Ring
    BY <1>1, <2>1, HandTypes
  <2>3. slot'[task.hand] # task.name => since'[task.name] = AnyValue
    <3>1. CASE task.hand = cur
      BY <1>1, <1>2, <1>3, <2>2, <3>1
    <3>2. CASE task.hand # cur
      BY <1>1, <1>2, <1>3, <2>1, <2>2, <3>2 DEF SurvivesInv, Carried
    <3> QED
      BY <3>1, <3>2
  <2>4. task.pc = "reading" =>
          IF task.from = task.name
          THEN /\ task.seen \in since'[task.name]
               /\ ram'[task.name] # task.seen => Torn \in since'[task.name]
          ELSE since'[task.name] = AnyValue
    BY <1>1, <1>2, <1>3, <2>2 DEF SurvivesInv, Carried
  <2>5. task.pc \in {"eeprom", "stored", "file", "write"} => task.buff \in since'[task.name]
    BY <1>3, <2>2 DEF SurvivesInv, Carried
  <2> QED
    BY <1>1, <2>3, <2>4, <2>5 DEF Carried
<1>5. ASSUME NEW m \in Names PROVE Kept(m)' /\ Held(m)'
  <2>1. Kept(m)'
    BY <1>1, <1>3 DEF SurvivesInv, Kept
  <2>2. CASE m = n
    BY <1>1, <1>2, <1>3, <2>1, <2>2 DEF Held
  <2>3. CASE m # n
    <3>1. ram'[m] = ram[m]
      BY <1>1, <1>2, <2>3
    <3>2. Queued(m)' => Queued(m)
      BY <1>1, <1>2, <2>3 DEF Queued
    <3> QED
      BY <1>1, <1>3, <2>1, <3>1, <3>2 DEF SurvivesInv, Held
  <2> QED
    BY <2>2, <2>3
<1> QED
  BY <1>4, <1>5 DEF SurvivesInv

LEMMA TakeSurvives == Types /\ SurvivesInv /\ Take => SurvivesInv'
<1> SUFFICES ASSUME Types, SurvivesInv, Take PROVE SurvivesInv'
  OBVIOUS
<1> USE DEF Take, Runs, counters
<1>1. PICK k \in Ring : k = Head(queue)
  BY QueueTake DEF Types, TypeOK, Ring
<1>2. /\ phase = "up" /\ task \in Tasks
      /\ k \in ToSet(queue) /\ ToSet(queue') \subseteq ToSet(queue)
  BY <1>1, QueueTake DEF Types, TypeOK, TaskTypes, Ring
<1>3. task'.pc = "read" /\ task'.hand = k /\ task'.name = slot[k]
  BY <1>1, <1>2 DEF Tasks
<1>4. Carried'
  BY <1>3 DEF Carried
<1>5. ASSUME NEW n \in Names PROVE Kept(n)' /\ Held(n)'
  <2>1. Kept(n)'
    BY KeptAlone DEF SurvivesInv
  <2>2. Queued(n)' \/ task'.name = n => Queued(n)
    BY <1>2, <1>3 DEF Queued
  <2> QED
    BY <1>2, <2>1, <2>2 DEF SurvivesInv, Held
<1> QED
  BY <1>4, <1>5 DEF SurvivesInv

\* A step of the storing task that leaves the files and RAM alone.
LEMMA HandCarries ==
  ASSUME Types, SurvivesInv, phase = "up", NEW n \in Names, task.pc # "pend",
         task.name = n, task'.name = n, task'.hand = task.hand,
         UNCHANGED <<phase, present, ram, file, slot, queue, since>>,
         task'.pc = "reading" =>
           IF task'.from = n
           THEN task'.seen \in since[n] /\ (ram[n] # task'.seen => Torn \in since[n])
           ELSE since[n] = AnyValue,
         task'.pc \in {"eeprom", "stored", "file", "write"} => task'.buff \in since[n],
         \A m \in Names : Kept(m)'
  PROVE  SurvivesInv'
<1>1. Carried'
  BY DEF SurvivesInv, Carried
<1>2. ASSUME NEW m \in Names PROVE Held(m)'
  BY DEF SurvivesInv, Held, Queued
<1> QED
  BY <1>1, <1>2 DEF SurvivesInv

LEMMA BeginReadSurvives == Types /\ SurvivesInv /\ BeginRead => SurvivesInv'
<1> SUFFICES ASSUME Types, SurvivesInv, BeginRead PROVE SurvivesInv'
  OBVIOUS
<1> USE DEF BeginRead, Runs, counters
<1>1. PICK n \in Names : n = task.name
  BY HandTypes
<1>2. /\ task.pc = "read" /\ task'.pc = "reading" /\ task'.name = n /\ task'.hand = task.hand
      /\ task'.from = (IF n \in Colours THEN n ELSE slot[task.hand])
      /\ task'.seen = ram[task'.from]
  BY <1>1, HandTypes DEF Tasks
<1>3. ram[n] \in since[n] /\ (slot[task.hand] # n => since[n] = AnyValue)
  BY <1>1, <1>2 DEF SurvivesInv, Held, Carried
<1>4. \A m \in Names : Kept(m)'
  BY KeptAlone DEF SurvivesInv
<1> QED
  BY <1>1, <1>2, <1>3, <1>4, HandCarries

LEMMA EndReadSurvives == Types /\ SurvivesInv /\ EndRead => SurvivesInv'
<1> SUFFICES ASSUME Types, SurvivesInv, EndRead PROVE SurvivesInv'
  OBVIOUS
<1> USE DEF EndRead, Runs, counters
<1>1. PICK n \in Names : n = task.name
  BY HandTypes
<1>2. /\ task.pc = "reading" /\ task'.pc = (IF n \in Colours THEN "file" ELSE "eeprom")
      /\ task'.name = n /\ task'.hand = task.hand
      /\ task'.buff = (IF ram[task.from] = task.seen THEN task.seen ELSE Torn)
  BY <1>1, HandTypes DEF Tasks
<1>3. task'.buff \in since[n]
  BY <1>1, <1>2, Marks DEF SurvivesInv, Carried, Types, TaskTypes
<1>4. \A m \in Names : Kept(m)'
  BY KeptAlone DEF SurvivesInv
<1> QED
  BY <1>1, <1>2, <1>3, <1>4, HandCarries

LEMMA WriteEepromSurvives == Types /\ SurvivesInv /\ WriteEeprom => SurvivesInv'
<1> SUFFICES ASSUME Types, SurvivesInv, WriteEeprom PROVE SurvivesInv'
  OBVIOUS
<1> USE DEF WriteEeprom, Runs, counters
<1>1. PICK n \in Names : n = task.name
  BY HandTypes
<1>2. /\ task.pc = "eeprom" /\ task'.name = n /\ task'.hand = task.hand
      /\ task'.buff = task.buff /\ task'.pc \in {"stored", "file"}
      /\ task.buff \in since[n]
  BY <1>1, HandTypes DEF Tasks, SurvivesInv, Carried
<1>3. CASE ToEeprom
  <2>1. request' = <<n, task.buff>> /\ store' = store
    BY <1>1, <1>3 DEF Eeprom!Submit
  <2>2. \A m \in Names : Kept(m)'
    BY <1>2, <2>1 DEF SurvivesInv, Kept
  <2> QED
    BY <1>1, <1>2, <2>2, HandCarries
<1>4. CASE ~ ToEeprom
  <2>1. \A m \in Names : Kept(m)'
    BY <1>4, KeptAlone DEF SurvivesInv
  <2> QED
    BY <1>1, <1>2, <2>1, HandCarries
<1> QED
  BY <1>3, <1>4

\* The EEPROM has what it was asked to write.
LEMMA KeptReturned ==
  ASSUME Types, Eeprom!Return, UNCHANGED <<file, since>>, NEW n \in Names, Kept(n)
  PROVE  Kept(n)'
<1>1. /\ request # Nothing /\ request' = Nothing /\ request[1] \in Names
      /\ store' = [store EXCEPT ![request[1]] = request[2]]
      /\ store \in [Names -> AnyValue \cup {Nothing}] /\ request[2] \in AnyValue
  BY ReturnTypes DEF Types, TypeOK, Eeprom!TypeOK
<1>2. store'[n] = IF request[1] = n THEN request[2] ELSE store[n]
  BY <1>1
<1> QED
  BY <1>1, <1>2, Marks DEF Kept

LEMMA EepromWrittenSurvives == Types /\ SurvivesInv /\ EepromWritten => SurvivesInv'
<1> SUFFICES ASSUME Types, SurvivesInv, EepromWritten PROVE SurvivesInv'
  OBVIOUS
<1> USE DEF EepromWritten, Runs, counters
<1>1. PICK n \in Names : n = task.name
  BY HandTypes
<1>2. /\ task.pc = "stored" /\ task'.name = n /\ task'.hand = task.hand
      /\ task'.buff = task.buff /\ task'.pc = "file" /\ task.buff \in since[n]
  BY <1>1, HandTypes DEF Tasks, SurvivesInv, Carried
<1>3. \A m \in Names : Kept(m)'
  BY KeptReturned DEF SurvivesInv
<1> QED
  BY <1>1, <1>2, <1>3, HandCarries

LEMMA OpenFileSurvives == Types /\ SurvivesInv /\ OpenFile => SurvivesInv'
<1> SUFFICES ASSUME Types, SurvivesInv, OpenFile PROVE SurvivesInv'
  OBVIOUS
<1> USE DEF OpenFile, Runs, Truncate, counters
<1>1. PICK n \in Names : n = task.name
  BY HandTypes
<1>2. /\ task.pc = "file" /\ task'.name = n /\ task'.hand = task.hand
      /\ task'.buff = task.buff /\ task'.pc = "write" /\ task.buff \in since[n]
      /\ file' = [file EXCEPT ![n] = Empty]
  BY <1>1, HandTypes DEF Tasks, SurvivesInv, Carried
<1>3. Carried'
  BY <1>1, <1>2 DEF SurvivesInv, Carried
<1>4. ASSUME NEW m \in Names PROVE Kept(m)' /\ Held(m)'
  <2>1. /\ file'[m] \in {file[m], Empty} /\ (task'.name = m => task.name = m)
        /\ (Queued(m)' <=> Queued(m))
    BY <1>1, <1>2 DEF Types, TypeOK, Queued
  <2>2. Kept(m)'
    BY <2>1, Marks DEF SurvivesInv, Kept
  <2>3. Held(m)'
    BY <2>1 DEF SurvivesInv, Held
  <2> QED
    BY <2>2, <2>3
<1> QED
  BY <1>3, <1>4 DEF SurvivesInv

\* When a parameter is everywhere as it is in RAM, only that can be found later.
LEMMA WriteFileSurvives == Types /\ SurvivesInv /\ WriteFile => SurvivesInv'
<1> SUFFICES ASSUME Types, SurvivesInv, WriteFile PROVE SurvivesInv'
  OBVIOUS
<1> USE DEF WriteFile, Runs, counters
<1>1. PICK n \in Names : n = task.name
  BY HandTypes
<1>2. Carried'
  BY WaitingTypes DEF Carried
<1>3. /\ request = Nothing /\ task.buff \in AnyValue /\ task.buff \in since[n]
      /\ ram[n] \in since[n] /\ since \in [Names -> SUBSET AnyValue]
      /\ task'.name = Nothing
  BY <1>1, FilledTypes, WaitingTypes
     DEF Types, TypeOK, Requests, SurvivesInv, Carried, Held
<1>4. ASSUME NEW m \in Names PROVE Kept(m)' /\ Held(m)'
  <2>1. /\ file'[m] = (IF m = n THEN task.buff ELSE file[m])
        /\ Kept(m) /\ Held(m) /\ (Queued(m)' <=> Queued(m))
    BY <1>1, FilledIs DEF SurvivesInv, Queued
  <2>2. CASE m = n /\ Everywhere(Filled, n)
    <3>1. /\ since'[m] = {ram[n]} /\ file'[m] = ram[n]
          /\ n \in InEeprom => store[n] = ram[n]
      BY <1>1, <1>3, <2>2 DEF Everywhere
    <3>2. file'[m] \in AnyValue
      BY <1>3, <2>1, <2>2
    <3>3. store[n] = ram[n] => store[n] # Nothing
      BY <3>1, <3>2, Marks
    <3>4. Kept(m)'
      BY <1>3, <2>2, <3>1, <3>2, <3>3, Marks DEF Kept
    <3>5. Held(m)'
      BY <2>2, <3>1 DEF Held
    <3> QED
      BY <3>4, <3>5
  <2>3. CASE m # n \/ ~ Everywhere(Filled, n)
    <3>1. since'[m] = since[m]
      BY <1>1, <1>3, <2>3
    <3>2. Kept(m)'
      BY <1>3, <2>1, <3>1, Marks DEF Kept
    <3>3. Held(m)'
      BY <1>1, <1>3, <2>1, <3>1, Marks DEF Held
    <3> QED
      BY <3>2, <3>3
  <2> QED
    BY <2>2, <2>3
<1> QED
  BY <1>2, <1>4 DEF SurvivesInv

LEMMA PowerLossSurvives == Types /\ SurvivesInv /\ PowerLoss => SurvivesInv'
<1> SUFFICES ASSUME Types, SurvivesInv, PowerLoss PROVE SurvivesInv'
  OBVIOUS
<1> USE DEF PowerLoss
<1>1. Carried'
  BY WaitingTypes DEF Carried
<1>2. ASSUME NEW n \in Names PROVE Kept(n)' /\ Held(n)'
  <2>1. Held(n)'
    BY DEF Held
  <2>2. CASE request = Nothing
    BY <2>1, <2>2, KeptAlone DEF SurvivesInv
  <2>3. CASE Eeprom!Fail
    <3>1. /\ request # Nothing /\ request' = Nothing
          /\ request[1] \in Names /\ request[2] \in AnyValue
          /\ store' \in {store, [store EXCEPT ![request[1]] = request[2]]}
          /\ store \in [Names -> AnyValue \cup {Nothing}]
      BY <2>3, FailTypes DEF Types, TypeOK, Eeprom!TypeOK
    <3>2. store'[n] = store[n] \/ (request[1] = n /\ store'[n] = request[2])
      BY <3>1
    <3>3. Kept(n)'
      BY <3>1, <3>2, Marks DEF SurvivesInv, Kept
    <3> QED
      BY <2>1, <3>3
  <2> QED
    BY <2>2, <2>3
<1> QED
  BY <1>1, <1>2 DEF SurvivesInv

\* SurvivesInv is an invariant.
LEMMA SurvivesStep == Types /\ StoredInv /\ SurvivesInv /\ [Next]_vars => SurvivesInv'
<1>1. SurvivesInv /\ UNCHANGED vars => SurvivesInv'
  BY DEF SurvivesInv, Carried, Kept, Held, Passed, Queued, vars
<1> QED
  BY <1>1, PowerOnSurvives, FSSyncSurvives, EepromSyncSurvives, SyncDoneSurvives,
     SyncWrittenSurvives, ReceiveSurvives, UpdateSurvives, CreateQueueSurvives, TakeSurvives,
     BeginReadSurvives, EndReadSurvives, WriteEepromSurvives, EepromWrittenSurvives,
     OpenFileSurvives, WriteFileSurvives, PowerLossSurvives
     DEF Next, Synchronise, Store

-----------------------------------------------------------------------------
(* The theorems.                                                              *)

Inv == Types /\ StoredInv /\ SurvivesInv

LEMMA Invariant == Spec => []Inv
<1>1. Init => Inv
  BY InitTypes, InitStored, InitSurvives DEF Inv
<1>2. Inv /\ [Next]_vars => Inv'
  BY TypesStep, StoredStep, SurvivesStep DEF Inv
<1> QED
  BY <1>1, <1>2, PTL DEF Spec

\* The variables of the storage of the profile keep to their types.
THEOREM Typing == Spec => []TypeOK
<1>1. Inv => TypeOK
  BY DEF Inv, Types
<1> QED
  BY <1>1, Invariant, PTL

\* When no request is left, a parameter whose last request was neither dropped
\* nor overwritten in the ring is in its file, and in the EEPROM if it belongs
\* there, as it is in RAM; only a failure of the power leaves an empty file
\* (ProfileStorage_SyncParam_thread, Dnepr_ProfileStorage_FS_Sync).
THEOREM NothingLeftUnstored == Spec => []StoredAtRest
<1>1. Inv => StoredAtRest
  <2> SUFFICES ASSUME Inv, AtRest, NEW n \in Names \ lost
               PROVE  /\ file[n] \in {ram[n], Empty, Missing}
                      /\ file[n] = Empty => crashes > 0
                      /\ file[n] = Missing => n \in Colours /\ ram[n] = Factory[n]
                      /\ n \in InEeprom /\ present => store[n] = ram[n]
    BY DEF StoredAtRest
  <2>1. phase = "up" /\ task.pc = "pend" /\ ToSet(queue) = {}
    BY EmptyQueue DEF AtRest, Runs
  <2>2. ~ Queued(n) /\ ~ InHand(n) /\ ~ Writing(n)
    BY <2>1 DEF Queued, InHand, Writing
  <2>3. Accounted(n) /\ CutOff
    BY DEF Inv, StoredInv
  <2> QED
    BY <2>1, <2>2, <2>3 DEF Accounted, FileTrue, EepromTrue, CutOff
<1> QED
  BY <1>1, Invariant, PTL

\* However often the power fails, and wherever in a write, a start finds for a
\* parameter the value it was last stored with everywhere or a later one (or a
\* mixture of such), unless its file was cut off and the EEPROM does not have
\* it.
THEOREM ValuesSurvive == Spec => []Survives
<1>1. Inv => Survives
  BY DEF Inv, SurvivesInv, Held, Survives
<1> QED
  BY <1>1, Invariant, PTL
=============================================================================
