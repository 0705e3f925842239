--------------------------- MODULE ProfileStorage ----------------------------
(* Where the parameters of the profile are kept                               *)
(* (Application/src/T8_Dnepr_ProfileStorage.c): a value lives in RAM, in a    *)
(* file of its own in the flash and, for some parameters, in the backplane's  *)
(* EEPROM.  At start the three are synchronised.  Then the control unit's     *)
(* task changes values in RAM and leaves a request in a ring, and a task of   *)
(* lower priority reads the value and stores it.  The mirrored EEPROM is used *)
(* through what it promises (ParamStore, which MirroredEeprom implements).    *)
EXTENDS Integers, Sequences, SequencesExt, FiniteSets

CONSTANTS
  Names,       \* parameters, and the colours of parameters
  InEeprom,    \* those with the flag EEPROM_PARAM
  Colours,     \* those that are colours (write_colors)
  Values,      \* all values
  ValuesOf,    \* the values of each
  Torn,        \* bytes nobody wrote: a mixture of two values, or rubbish
  Missing,     \* there is no such file
  Empty,       \* the file has no contents
  Nothing,     \* no value, no slot
  Order,       \* the parameters in the order of param_ix
  Factory,     \* their values in RAM when the board starts
  Slots,       \* threadPSync_messages_len
  Batches,     \* what one message makes the control unit's task update
  MaxMessages, \* bound: messages to the control unit's task
  MaxCrashes   \* bound: failures of the power

ASSUME ProfileAssumption ==
  /\ InEeprom \subseteq Names /\ Colours \subseteq Names \ InEeprom
  /\ ValuesOf \in [Names -> SUBSET Values]
  /\ {Torn, Missing, Empty, Nothing} \cap Values = {}
  /\ Torn \notin {Missing, Empty, Nothing} /\ Missing # Empty
  /\ Nothing \notin {Missing, Empty} \cup Names /\ Nothing \notin 0 .. Slots - 1
  /\ Nothing \notin Names \X (Values \cup {Torn})
  /\ Order \in Seq(Names) /\ ToSet(Order) = Names
  /\ Factory \in [Names -> Values]
  /\ Slots \in Nat \ {0}
  /\ Batches \subseteq Seq(Names)

VARIABLES
  phase,    \* of the start: "off", "fs", "eeprom", then "up"
  at,       \* the parameter the synchronisation is at
  present,  \* __eeprom_present
  ram,      \* values
  file,     \* contents of the files
  store,    \* contents of the EEPROM
  request,  \* the EEPROM write under way
  batch,    \* updates the control unit's task is carrying out
  slot,     \* threadPSync_message
  cur,      \* threadPSync_message_cur_num
  created,  \* __PSyncRcvQueue is there
  queue,    \* the slots posted to it
  task,     \* the storing task
  messages, \* counts messages, up to MaxMessages
  crashes,  \* counts failures of the power, up to MaxCrashes
  lost,     \* auxiliary: parameters whose request was dropped or overwritten
  since     \* auxiliary: what a parameter may be after a start

vars == <<phase, at, present, ram, file, store, request, batch, slot, cur,
          created, queue, task, messages, crashes, lost, since>>
volatile == <<phase, at, present, batch, slot, cur, created, queue, task>>
counters == <<messages, crashes>>

AnyValue == Values \cup {Torn}

Eeprom == INSTANCE ParamStore WITH Values <- AnyValue

(* The storing task: where it is, the slot in hand (qCurMessage), par_name,   *)
(* the parameter it reads, what it saw, buff.  At start the same record is    *)
(* the file write of the synchronisation.                                     *)
Waiting == [pc |-> "pend", hand |-> Nothing, name |-> Nothing, from |-> Nothing,
            seen |-> Nothing, buff |-> Nothing]

Init ==
  /\ phase = "off" /\ at = 1 /\ present = FALSE
  /\ ram = Factory
  /\ file = [n \in Names |-> Missing]
  /\ Eeprom!Init
  /\ batch = <<>> /\ queue = <<>>
  /\ slot = [k \in 0 .. Slots - 1 |-> Nothing] /\ cur = 0
  /\ created = FALSE /\ task = Waiting
  /\ messages = 0 /\ crashes = 0
  /\ lost = {}
  /\ since = [n \in Names |-> {Factory[n]}]

-----------------------------------------------------------------------------
(* Dnepr_filesystem_Write: opening the file empties it, then it is written.   *)
Truncate(n, v) ==
  /\ file' = [file EXCEPT ![n] = Empty]
  /\ task' = [task EXCEPT !.pc = "write", !.name = n, !.buff = v]

Filled == [file EXCEPT ![task.name] = task.buff]

-----------------------------------------------------------------------------
(* The start.                                                                 *)
PowerOn ==
  /\ phase = "off"
  /\ phase' = "fs" /\ at' = 1
  /\ present' \in BOOLEAN
  /\ UNCHANGED <<ram, file, store, request, batch, slot, cur, created, queue,
                 task, counters, lost, since>>

Ready == task.pc = "pend" /\ request = Nothing

\* Dnepr_ProfileStorage_FS_Sync: the file's value goes to RAM.  A parameter
\* without a file gets one; an empty file leaves a parameter alone and makes
\* rubbish of a colour (the bytes read_colors did not read).
FSSync ==
  /\ phase = "fs" /\ Ready /\ at <= Len(Order)
  /\ LET n == Order[at]
     IN  \/ /\ file[n] \notin {Missing, Empty}
            /\ ram' = [ram EXCEPT ![n] = file[n]]
            /\ UNCHANGED <<file, task>>
         \/ /\ file[n] = Missing /\ n \notin Colours
            /\ Truncate(n, ram[n])
            /\ UNCHANGED ram
         \/ /\ file[n] = Empty /\ n \in Colours
            /\ ram' = [ram EXCEPT ![n] = Torn]
            /\ UNCHANGED <<file, task>>
         \/ /\ IF n \in Colours THEN file[n] = Missing ELSE file[n] = Empty
            /\ UNCHANGED <<ram, file, task>>
  /\ at' = at + 1
  /\ UNCHANGED <<phase, present, store, request, batch, slot, cur, created,
                 queue, counters, lost, since>>

\* mutant: only the file is brought up to date
LoadedNot(n) == ram[n]

Loaded(n) == store[n]

\* Dnepr_ProfileStorage_eeprom_sync: the EEPROM's value goes to RAM and, if it
\* is another, to the file; a value the EEPROM does not have goes there.
EepromSync ==
  /\ phase = "eeprom" /\ Ready /\ at <= Len(Order)
  /\ LET n == Order[at]
     IN  \/ /\ n \in InEeprom /\ present /\ store[n] \notin {Nothing, ram[n]}
            /\ ram' = [ram EXCEPT ![n] = Loaded(n)]
            /\ Truncate(n, store[n])
            /\ UNCHANGED <<store, request>>
         \/ /\ n \in InEeprom /\ present /\ store[n] = Nothing
            /\ Eeprom!Submit(n, ram[n])
            /\ UNCHANGED <<ram, file, task>>
         \/ /\ n \notin InEeprom \/ ~present \/ store[n] = ram[n]
            /\ UNCHANGED <<ram, file, store, request, task>>
  /\ at' = at + 1
  /\ UNCHANGED <<phase, present, batch, slot, cur, created, queue, counters,
                 lost, since>>

\* The first synchronisation gives way to the second, the second to the tasks.
SyncDone ==
  /\ phase \in {"fs", "eeprom"} /\ Ready /\ at = Len(Order) + 1
  /\ phase' = IF phase = "fs" THEN "eeprom" ELSE "up"
  /\ at' = 1
  /\ UNCHANGED <<present, ram, file, store, request, batch, slot, cur, created,
                 queue, task, counters, lost, since>>

\* What the synchronisation began to write is written.
SyncWritten ==
  /\ phase \in {"fs", "eeprom"}
  /\ \/ /\ task.pc = "write"
        /\ file' = Filled /\ task' = Waiting
        /\ UNCHANGED <<store, request>>
     \/ /\ Eeprom!Return
        /\ UNCHANGED <<file, task>>
  /\ UNCHANGED <<phase, at, present, ram, batch, slot, cur, created, queue,
                 counters, lost, since>>

-----------------------------------------------------------------------------
(* The control unit's task.  It has the higher priority and does not block    *)
(* between the updates of one message, so the storing task waits.             *)
Receive ==
  /\ phase = "up" /\ batch = <<>>
  /\ messages < MaxMessages
  /\ \E b \in Batches : \E f \in [DOMAIN b -> Values] :
       /\ \A i \in DOMAIN b : f[i] \in ValuesOf[b[i]]
       /\ batch' = [i \in DOMAIN b |-> <<b[i], f[i]>>]
  /\ messages' = messages + 1
  /\ UNCHANGED <<phase, at, present, ram, file, store, request, slot, cur,
                 created, queue, task, crashes, lost, since>>

\* mutant: the index does not wrap
NextSlotBeyond == cur + 1

NextSlot == (cur + 1) % Slots

\* OSQPost on the queue of Slots messages; its result is ignored
Posted == IF Len(queue) < Slots THEN Append(queue, cur) ELSE queue

InUse(k) == k \in ToSet(queue) \/ task.hand = k

\* the parameter whose request is in the slot about to be filled
Overwritten(n) == IF InUse(cur) THEN {slot[cur]} \ {n} ELSE {}

\* the request gets into the queue, or into a slot that is already there
Delivered == created /\ (Len(queue) < Slots \/ cur \in ToSet(queue))

\* a Dnepr_...ValueUpdate or Dnepr_WriteParamColors with its SyncParam or
\* SyncColor
Update ==
  /\ batch # <<>>
  /\ LET n == Head(batch)[1]
         v == Head(batch)[2]
     IN  /\ ram' = [ram EXCEPT ![n] = v]
         /\ slot' = [slot EXCEPT ![cur] = n]
         /\ lost' = (IF Delivered THEN lost \ {n} ELSE lost \cup {n})
                      \cup Overwritten(n)
         /\ since' = [m \in Names |->
              CASE m = n -> since[m] \cup {v, Torn}
                [] m # n /\ m = task.name /\ task.hand = cur -> AnyValue
                [] OTHER -> since[m]]
  /\ IF created THEN queue' = Posted /\ cur' = NextSlot
     ELSE UNCHANGED <<queue, cur>>
  /\ batch' = Tail(batch)
  /\ UNCHANGED <<phase, at, present, file, store, request, created, task, counters>>

-----------------------------------------------------------------------------
(* ProfileStorage_SyncParam_thread.                                           *)
Runs == phase = "up" /\ batch = <<>>

CreateQueue ==
  /\ Runs /\ ~created
  /\ created' = TRUE
  /\ UNCHANGED <<phase, at, present, ram, file, store, request, batch, slot, cur,
                 queue, task, counters, lost, since>>

\* OSQPend or OSQAccept
Take ==
  /\ Runs /\ task.pc = "pend" /\ queue # <<>>
  /\ LET k == Head(queue)
     IN  task' = [task EXCEPT !.pc = "read", !.hand = k, !.name = slot[k]]
  /\ queue' = Tail(queue)
  /\ UNCHANGED <<phase, at, present, ram, file, store, request, batch, slot, cur,
                 created, counters, lost, since>>

\* The value is copied to buff byte by byte.  The parameter is taken from the
\* slot anew, except for colours.
BeginRead ==
  /\ Runs /\ task.pc = "read"
  /\ LET n == IF task.name \in Colours THEN task.name ELSE slot[task.hand]
     IN  task' = [task EXCEPT !.pc = "reading", !.from = n, !.seen = ram[n]]
  /\ UNCHANGED <<phase, at, present, ram, file, store, request, batch, slot, cur,
                 created, queue, counters, lost, since>>

EndRead ==
  /\ Runs /\ task.pc = "reading"
  /\ task' = [task EXCEPT !.pc = IF task.name \in Colours THEN "file" ELSE "eeprom",
                          !.buff = IF ram[task.from] = task.seen THEN task.seen ELSE Torn]
  /\ UNCHANGED <<phase, at, present, ram, file, store, request, batch, slot, cur,
                 created, queue, counters, lost, since>>

\* mutant: only the flash is written
ToEepromNever == FALSE

\* the flag is taken from the slot once more
ToEeprom == slot[task.hand] \in InEeprom /\ present

WriteEeprom ==
  /\ Runs /\ task.pc = "eeprom"
  /\ IF ToEeprom
     THEN /\ Eeprom!Submit(task.name, task.buff)
          /\ task' = [task EXCEPT !.pc = "stored"]
     ELSE /\ task' = [task EXCEPT !.pc = "file"]
          /\ UNCHANGED <<store, request>>
  /\ UNCHANGED <<phase, at, present, ram, file, batch, slot, cur, created, queue,
                 counters, lost, since>>

\* mutant: the write is repeated for ever
EepromWrittenAgain ==
  /\ Runs /\ task.pc = "stored"
  /\ Eeprom!Return
  /\ task' = [task EXCEPT !.pc = "eeprom"]
  /\ UNCHANGED <<phase, at, present, ram, file, batch, slot, cur, created, queue,
                 counters, lost, since>>

EepromWritten ==
  /\ Runs /\ task.pc = "stored"
  /\ Eeprom!Return
  /\ task' = [task EXCEPT !.pc = "file"]
  /\ UNCHANGED <<phase, at, present, ram, file, batch, slot, cur, created, queue,
                 counters, lost, since>>

OpenFile ==
  /\ Runs /\ task.pc = "file"
  /\ Truncate(task.name, task.buff)
  /\ UNCHANGED <<phase, at, present, ram, store, request, batch, slot, cur,
                 created, queue, counters, lost, since>>

\* every place the parameter belongs to has the value in RAM
Everywhere(f, n) == f[n] = ram[n] /\ (n \in InEeprom => store[n] = ram[n])

WriteFile ==
  /\ Runs /\ task.pc = "write"
  /\ file' = Filled
  /\ task' = Waiting
  /\ since' = [since EXCEPT ![task.name] =
       IF Everywhere(Filled, task.name) THEN {ram[task.name]} ELSE @]
  /\ UNCHANGED <<phase, at, present, ram, store, request, batch, slot, cur,
                 created, queue, counters, lost>>

-----------------------------------------------------------------------------
PowerLoss ==
  /\ phase # "off"
  /\ crashes < MaxCrashes
  /\ crashes' = crashes + 1
  /\ phase' = "off" /\ at' = 1 /\ present' = FALSE
  /\ ram' = Factory
  /\ IF request = Nothing THEN UNCHANGED <<store, request>> ELSE Eeprom!Fail
  /\ batch' = <<>> /\ queue' = <<>>
  /\ slot' = [k \in 0 .. Slots - 1 |-> Nothing] /\ cur' = 0
  /\ created' = FALSE /\ task' = Waiting
  /\ lost' = {}
  /\ UNCHANGED <<file, messages, since>>

Synchronise == PowerOn \/ FSSync \/ EepromSync \/ SyncDone \/ SyncWritten
Store ==
  \/ CreateQueue \/ Take \/ BeginRead \/ EndRead
  \/ WriteEeprom \/ EepromWritten \/ OpenFile \/ WriteFile

Next == Synchronise \/ Receive \/ Update \/ Store \/ PowerLoss

\* Every task runs when the ones above it wait.  Nothing obliges the control
\* unit to send, nor the power to fail.
Fairness == WF_vars(Synchronise) /\ WF_vars(Update) /\ WF_vars(Store)

Spec == Init /\ [][Next]_vars /\ Fairness

-----------------------------------------------------------------------------
\* The variables keep to their types.
TypeOK ==
  /\ phase \in {"off", "fs", "eeprom", "up"}
  /\ at \in 1 .. Len(Order) + 1
  /\ present \in BOOLEAN /\ created \in BOOLEAN
  /\ ram \in [Names -> AnyValue]
  /\ file \in [Names -> AnyValue \cup {Missing, Empty}]
  /\ Eeprom!TypeOK
  /\ slot \in [0 .. Slots - 1 -> Names \cup {Nothing}]
  /\ cur \in 0 .. Slots - 1
  /\ queue \in Seq(0 .. Slots - 1) /\ Len(queue) <= Slots
  /\ task.pc \in {"pend", "read", "reading", "eeprom", "stored", "file", "write"}
  /\ task.hand \in (0 .. Slots - 1) \cup {Nothing}
  /\ task.name \in Names \cup {Nothing}
  /\ lost \subseteq Names
  /\ since \in [Names -> SUBSET AnyValue]

AtRest == Runs /\ created /\ queue = <<>> /\ task.pc = "pend"

(* When there is nothing left to store, every parameter is stored as it is in *)
(* RAM, save those whose request found no queue or was overwritten in the     *)
(* ring, and files that a failure of the power left empty.                    *)
StoredAtRest ==
  AtRest => \A n \in Names \ lost :
    /\ file[n] \in {ram[n], Empty, Missing}
    /\ file[n] = Empty => crashes > 0
    /\ file[n] = Missing => n \in Colours /\ ram[n] = Factory[n]
    /\ n \in InEeprom /\ present => store[n] = ram[n]

(* After a start a parameter has the value it was last stored with everywhere *)
(* or one it was given after that (or a mixture of those).  A parameter of    *)
(* the EEPROM has it although its file was cut off.                           *)
Survives ==
  phase = "up" => \A n \in Names :
    (n \in InEeprom /\ present) \/ file[n] # Empty => ram[n] \in since[n]

\* Once the messages stop, the power holds and all requests are dealt with.
EventuallyAtRest == <>[]AtRest
=============================================================================
