# Verification of the Dnepr crate control unit firmware

The firmware runs on a ColdFire MCF5282 under µC/OS-II. It powers the boards of
a crate up and down within what the power supplies give, watches them over
I2C/PMBus, answers a control unit over a serial line, and
keeps its parameters in EEPROMs and in flash. This directory holds TLA+ models
of it, TLC configurations that check them on small instances, and TLAPS proofs.

Paths below are relative to `src/Sources/`.

## 1. Inventory

| component | state | operations | interacts with |
|---|---|---|---|
| inter-task mailboxes (`Threads/src/inttsk_mgs.c`) | per mailbox: ring of message slots and its index, payload rings and indices, kernel queue of pointers, slot being handled | `send_`, `recv_`, `tryrecv_inttask_message` | everybody who wants something of the device controller (8 entries) or the shelf manager (4) |
| shelf manager (`Application/src/power_managment.c`; table engine `mdlwr/fsm/fsm.h`) | state, current and pending signal, what it believes of each slot, supply and fan, the power budget | a transition table with one worker per transition; each worker asks the controller about one device after the other | requests to the device controller; notices from the controller, the control unit and the measuring task |
| device controller (`Threads/src/threadDeviceController.c`) | presence map, record of what is switched on, PMBus alarm queue, debounce times | serves requests; handles presence, PMBus and SFP interrupts; drives hot swap controllers, supplies, fans | mailboxes, I2C buses, interrupt handlers |
| profile parameters (`Application/src/T8_Dnepr_Profile_params.c`) | the parameters' current values | access and update functions, called by the profile engine | mailboxes, profile storage, measuring task (flags) |
| EEPROM parameter store (`Storage/src/eeprom_storage.c`) | hash table, sector bitmap, chained records, CRCs | open, read, write, close, format | mirrored EEPROM |
| mirrored EEPROM (`HAL/BSP/src/T8_Dnepr_BPEEPROM.c`) | two partitions | write both, repair at start | EEPROM store, I2C |
| circular buffers (`common_lib/T8_CircBuffer.c`) | buffer, head, tail, count | push, pop, peek, length | UART interrupt handlers, control unit task |
| control unit task (`Threads/src/threadCU.c`) | receiver state, ring of task messages, answer buffer and its counter | byte received, transmitter ready, process command, requests of other tasks | circular buffers, profile engine |
| measuring task (`Threads/src/threadMeasure.c`) | double buffer of dynamic parameters, request flags | one round of measurements, LED and EEPROM requests of other tasks, the front panel button | I2C, profile parameters, mailboxes |
| profile storage, file system (`Application/src/T8_Dnepr_ProfileStorage.c`, `HAL/BSP/src/T8_Dnepr_filesystem.c`) | ring of eight write requests, copies in flash and EEPROM | request, write, restore | EEPROM store, flash |
| I2C buses (`HAL/BSP/src/T8_Dnepr_I2C.c`, `HAL/MCU/src/T8_5282_i2c.c`) | multiplexer position under a mutex | read, write, retry | all of the above |
| watchdog task, start-up, chip and MCU drivers, profile engine, small libraries | little or none of their own | | |

Third party or generated, never modelled: µC/OS-II, uC/FS, YAFFS2, nanopb, the
protothreads, the generated profile tables. The kernel appears in the models as
what the code relies on: strict priorities, atomic queue calls.

### What is hard, and what correct means

* **Mailboxes.** `send_inttask_message` takes no lock, and interrupt handlers
  send into the mailbox a task sends into. The slot is filled, posted and the
  index advanced in separate steps, and the result of the post is ignored.
  *Correct*: a message and the payload behind it reach their handler as posted.
* **Shelf manager.** It recognises an answer by its type alone, gives up after
  a timeout, gives up when a notice comes first, and leaves its question behind
  in both cases. Signals found in one state are used in another. *Correct*: it
  takes an answer for the answer to its own question; once at rest, the profile
  is obeyed, its picture of the crate is true and the supplies are not
  overdrawn; it comes to rest.
* **Device controller.** Debounce and alarm timeouts compared across the
  overflow of the tick counter, a bounded alarm queue, a presence map compared
  with a copy taken before a delay. *Correct*: no board is forgotten, the record
  of what is on agrees with the hardware.
* **EEPROM store, mirror, profile storage.** Power may fail between any two
  sector writes. *Correct*: afterwards each parameter has its old or new value
  and the others are untouched; one of the two partitions is always good.
* **Serial tasks.** Bytes arrive and leave in interrupt handlers. *Correct*: the
  buffers behave as bounded queues, an answer is sent whole and unmixed.
* **Measuring task.** Other tasks leave requests in flags. *Correct*: no request
  is lost, readers never see the buffer being filled.

`PROJECT.json` lists these hazards with their lines, each with the properties
that cover it or the reason why none does. Some of them are accidents the code does not
prevent. A property that held only without them would say little, and one that
forbade them would fail: there a ghost variable (`tainted`, `clouded`, `unseen`,
`skipped`, `strayed`, `talkedOver`, `clashed`, `lost`, `overtaken`) records the
accident, and the property says that nothing else does the damage and, where the ghost is
taken back, that the code recovers. The hazard's note says which case is excused.

## 2. The modules

| module | about | composed with / implements |
|---|---|---|
| `InttaskMessages` | one mailbox at the grain of memory accesses | implements `MessageQueue` |
| `MessageQueue` | what a mailbox promises its users | abstract |
| `ShelfManager` | manager, table, workers, controller's answers, changes of crate and profile | over mailboxes as queues |
| `CrateEvents` | interrupts, the device controller's other messages, the measuring task's reading of presences and its fans | the controller's other half |
| `EepromStorage` | operations of one EEPROM partition, as sequences of sector writes | |
| `MirroredEeprom` | two partitions, repair at start, loss of power | two of `EepromStorage`; implements `ParamStore` |
| `ParamStore` | what a store of parameters promises | abstract |
| `ProfileStorage` | values in RAM, in flash and in the EEPROM | uses `ParamStore` for the EEPROM |
| `CircBuffer` | the ring of received bytes | |
| `ControlUnit` | receiver, transmitter, task, messages | an instance of `CircBuffer` |
| `Measure` | double buffer, alarms, flags, button and lamps, EEPROMs of boards | |

Each has an `MC` module with the constants of its runs (`CircBuffer`,
`EepromStorage`, `MessageQueue` and `ParamStore` are run through the modules that
use them), and
a module of proofs: `InttaskMessages_proofs`, `ShelfManager_proofs`,
`CrateEvents_proofs`, `MirroredEeprom_proofs`, `ProfileStorage_proofs`,
`ControlUnit_proofs`, `Measure_proofs`. `FoldLemmas` has what several of them
need about induction, folds and loops.

Left for later: the hot swap controllers with their own registers below
`CrateEvents` (the FET against the controller's record of it); the I2C
multiplexer; as theorems, what of the EEPROM rests on whole chains of sectors
(section 10).

## 3. `InttaskMessages`: one mailbox

`send_to_dc`/`recv_dc` and `send_to_pwmng`/`recv_pwmng` are the same code twice;
the module is one of them, with the ring length `N`, the senders, their
priorities and the message types with payload as constants.

A send is six actions: `EnterSend` (the switch: the payload is copied and its
index advanced), `CopyMsgWord` and `CopyDataWord` (the two words of `memcpy`),
`Post` (`OSQPost`, atomic), `LoadIndex` and `StoreIndex` (the increment). Between
them anybody of higher precedence may run, nobody else: `CanRun` is the kernel's
strict priority rule, interrupts count as the highest priority. The compiler may
compute the slot's address once or twice, hence the choice in `Post`. Payload
rings have one sending task each (`MailboxAssumption`), so `EnterSend` needs no
finer grain.

`tainted` is a ghost variable: since the mailbox was last empty and idle, a send
began inside another send, or found all `N` slots in use. Both happen in the
code, since nothing prevents them; the properties say that nothing else damages
a message. The ghosts `fifo` and `heldMsg` remember what was posted.

| property | meaning |
|---|---|
| `TypeOK` | indices, pointers and queue stay within bounds |
| `MailboxIntact` | queued and handled slots carry the message posted |
| `PayloadIntact` | so does the payload behind the pointer: its ring turns no faster than the messages' |
| `WriterOwnsSlot` | a sender never fills a slot that is queued or being handled |
| `Delivers` | the mailbox implements `MessageQueue` |

`MessageQueue` knows no slots and no pointers: a call of send puts the message it was
given at the end of a queue at one instant (`Deliver`) between its beginning and its
return, the receiver takes from the front. `Queue` maps the mailbox to it: what
is unread (`Unread`) and being handled (`InHand`) is what the receiver finds when it
follows the pointers (`Found`), never the ghosts; `Post` is the delivery and the
accesses around it are not seen. The promise may be taken back (`Disorder`) only
by a call that finds another one open or no room, and holds again once the
mailbox is deserted.

Run `mailbox` (`MCInttaskMessages.cfg`): `N = 3`, an interrupt handler that sends
events, the manager that sends requests with payload, a receiver that preempts
the manager. `MaxSends = 6` goes round the ring twice; wrapping, full mailbox and
overlapping sends all occur.

## 4. `ShelfManager`: the manager and the crate

* **State.** `curnt_state`, `curnt_signal`, `inauto_signal`, the books
  (`powerLimitSource`, `recuredPower`, `actualAvailablePowerLimit`,
  `power_slots_now`) and `is_prohibited_only` are the C variables;
  `status[d]` is the entry of `crate_status` for slot, supply or fan `d`.
  `worker`, `target`, `dev` and `ask` are the program counter: which worker
  runs, where its transition leads, its loop index, and the answer it is blocked
  on. `plugged` and `powered` are the crate as the device controller records it.
* **Actions.** One action is what the manager does between two kernel calls
  that may block. `WaitForNotice`, `WaitOutDelay`, `WeighPower`,
  `LeaveSmartStart` and `PollNotice` are the branches of
  `pwmng_get_current_signal` followed by the step of the table engine
  (`Transition`). `Scan` and `CalcProhib` carry a worker to its next question or
  to its end, `HearState`, `HearPower`, `HearSet` are the three kinds of answer,
  `Interrupted` a message of another kind, `Unanswered` the timeout. `Serve` is
  the controller handling its oldest message. `Replug`, `PowerSupply`,
  `ProfileChange` and `EepromRewritten` are what sends a notice.
* **The transition table** is `trans_table`; an entry the C initializer does not
  list is zero there and `INIT` without a worker here (`Listed`).
* **Interleaving.** The controller has the higher priority, but waits for I2C,
  for delays (200 ticks in `_slot_power_on`) and for the debounce, so its steps
  and the manager's interleave freely. Changes of the profile come from tasks
  below the manager, so only when it is `Blocked`.
* **Abstractions.** Watts are whole numbers, where the code has floats. What a
  board draws is a constant. The controller's record of a slot is the slot's
  state. Mailboxes are queues of
  bounded length, a post to a full one is lost, which is `InttaskMessages`
  untainted. The second supply of the real crate is the first again
  (`PWR_MAX_NUM = 2`, the runs have one).

`clouded` is a ghost variable: a worker was interrupted, timed out or took
another question's answer, or a notice was lost, and no pass has begun afresh
since, with both mailboxes empty and no signal pending. Where it guards a property, the
property is about passes nothing disturbed; what disturbed passes do is in the
three findings.

| property | meaning |
|---|---|
| `TypeOK` | types and bounds, among them the loop index that runs down to -1 in C (0 here) |
| `OnlyQuestion` | in an undisturbed pass at most one question or answer is on its way, the one asked for |
| `RestObeysProfile` | at rest a prohibited board is off, a board of certain start that answers and takes power is on |
| `BooksTrueAtRest` | at rest the manager's picture of every device is true and it promises no more power than there is |
| `NoUnlistedEntry` | the machine never uses a table entry that is not listed |
| `PassInv` | what the pass has read, reckoned and switched so far is right: the books follow from `crate_status`; unless news is on its way, `crate_status` is the truth of what was read, and the slots dealt with are as the profile has them |
| `SmartStartWithinBudget` | a careful start leaves the reserve untouched |
| `UndisturbedPassEnds` | no worker loops for ever in an undisturbed pass |

`OnlyQuestion`, `RestObeysProfile` and `UndisturbedPassEnds` are checked in
`shelf_faults`, the others in `shelf_busy`.
A board that takes no power is the exception in `RestObeysProfile`: 0 W is how
the manager recognises a passive board (`PASSIVE_CHECK`), and it does not switch
that on again (`Answers`).

### Runs and bounds

All runs have two slots, one supply and the fan board, mailboxes of the real
sizes (8 and 4), and boards of 4 W and 3 W with 6 W to share, so that the order
and the start modes matter. Two slots are enough for an answer to be about the
wrong slot and for one board to be turned off in favour of another.

| run | what it adds | result |
|---|---|---|
| `shelf_busy` | every device seated at start, two changes at any moment | holds |
| `shelf_faults` | fairness; any set of devices at start, a supply too weak for the board of certain start, one change, one timeout, status pins that fail, a board whose EEPROM cannot be read | holds |
| `prohibited_is_off` | one change | violated |
| `pass_ends` | one change, fairness | violated |
| `init_awaits_signal` | one change | violated |

Two changes suffice to interrupt a pass and then its repetition;
`MaxEvents` and `MaxTimeouts` bound nothing else. A run without timeouts is
one where the controller always answers in time.

**Fairness** (`FairSpec`): weak fairness of the manager's step and of `Serve`.
Both tasks are above all tasks that compute at length, interrupt handlers are
short, and the kernel runs the highest ready task. Nothing is assumed of the
crate or of the profile: changes may happen or not.

### Findings

1. **A prohibited board stays on** (`ProhibitedIsOff`, run `prohibited_is_off`).
   `_pwmng_power_calc_prohib` and `_pwmng_power_calc_smartly` keep a notice in
   `inauto_signal` and return, but the states they lead to choose their signal
   without it, and `SMARTSTART` resets it. The change of the profile is ignored
   until the next one.
2. **Answers lag by one** (`PassEnds`, run `pass_ends`). An interrupted worker
   leaves its question behind; from then on each answer is about the device
   before. A slot wrongly taken for occupied makes `_pwmng_power_calc_prohib` ask
   for ever.
3. **The signal has come and INIT waits for it** (`InitAwaitsSignal`, run
   `init_awaits_signal`). A change during the first look at the slots leads back
   to `INIT`, which waits for one more.

Two disagreements of words only: the comments of the start modes
(`power_managment.c:38-40`) do not match how the workers use them, and
`pwmng_get_power_status` promises "Недоступно" for passive slots and returns
another code. The models follow the code.

## 5. `EepromStorage`, `MirroredEeprom`, `ParamStore`: parameters in the EEPROM

* **`EepromStorage`** is `eeprom_storage.c`. Its operations run in one task, so
  each is a function of the partition and of the bitmap in RAM. It gives the
  writes to the EEPROM in their order, the bitmap afterwards, and how it ends:
  with TRUE, with FALSE, in a failed assertion, or never. `Seek` is the walk
  along a hash chain, `Grow`, `Shrink` and `Add` the three ways a record is
  written. A CRC is kept as whether it matches.
* **`MirroredEeprom`** (`T8_Dnepr_BPEEPROM.c` and `Dnepr_ProfileStorage_eeprom_sync`)
  carries the writes of a call out one at a time (`EepromWrite`). `PowerLoss` may
  come between two or in the middle of one; what was being written then has a
  CRC that does not match (`Torn`). The start repairs one partition from the
  other (`InitWrites`), then each parameter is loaded, or written if the EEPROM
  has none (`SyncNext`), and may then be changed (`Store`).
* **`ParamStore`** is what a caller wants: a write takes place at one instant,
  perhaps when the power fails, certainly before it returns; nothing else
  changes. `MirroredEeprom` implements it: `Promise`, with `store <- kept`, the
  values found at the next start or by the next read, and `request <-` the
  write under way. `kept` is a history variable no action reads.

| property | meaning |
|---|---|
| `TypeOK` | types of every field of a sector and of the table |
| `Promise` | the two copies together implement `ParamStore`, with a loss of power anywhere |
| `RamIsStored` | when nothing is under way, the next start finds exactly what is in RAM, unless calls were cut off twice |
| `BitmapSafe` | at rest no sector of a record counts as free in a partition in use, however often calls were cut off; proved (`NoRecordOverwritten`), not run: with the one cut of the run `BitmapTrue` says more |
| `BitmapTrue` | and no free sector is forgotten, unless calls were cut off twice and then a copy could not be written back |
| `SectorsAccounted` | every sector in use belongs to exactly one record, until the power fails |
| `CallsReturn` | no call fails an assertion or goes round for ever: violated |

Runs `mirrored` and `mirrored_hang`: three parameters, two of them in one hash
chain, of one to three sectors, in partitions of six, so that records grow,
shrink, are linked, and find no room. The power may fail once during a call, as
often as it likes between calls. Two losses during calls can bring back a
superseded value: at start the CRCs of the two copies of a record are never
compared (`T8_Dnepr_BPEEPROM.c:209`), so a primary copy that was missed by one
write and repaired by another wins over the newer one.

`unhealed` is a ghost: since the start, a reading wrote a record back to the
primary and failed (`Heal`). The code ignores that (`T8_Dnepr_BPEEPROM.c` marks
a copy bad in a write only), so that copy stays in use with a bitmap that may
have lost the sectors the attempt took. The next start computes the bitmap anew.

**Finding 4** (`CallsReturn`, run `mirrored_hang`). The power fails while a new
record `b` is linked into the chain of `a` in the secondary partition and its
own sector is not written yet. The next start reads `b` from the primary, so it
is not written again; a record of another chain takes the free sector as its
head, which points to itself. The next write of `b` walks from `a` into that
chain and never comes back to `a` (`eeprom_storage.c:897-909`). The profile has
86 parameters of the EEPROM, in eight pairs of which both names fall into one bin
of the table. An interrupted growth can fail the assertion on the sector's number
(`eeprom_storage.c:834`) at each start in the same way.

## 6. `ProfileStorage`: RAM, flash and EEPROM

A parameter's value is in RAM, in a file of its own, and for some in the
EEPROM, which the module uses through `ParamStore`.

* **The start** (`FSSync`, `EepromSync`): files to RAM, then the EEPROM to RAM
  and to the files; what is missing is written. A file is written in two steps,
  `Truncate` and `Filled`: a loss of power between them leaves it empty.
* **Requests.** `Update` is one update function with its `SyncParam` or
  `SyncColor`: the value in RAM, the slot of the ring, the post, whose result is
  ignored. One message may make several updates (`batch`), and the control unit's
  task, which has the higher priority, does not wait between them.
* **The storing task** reads the slot three times (`Take`, `BeginRead`,
  `ToEeprom`) and copies the value in two steps, between which it may change.

`lost` is a ghost: parameters whose request found no queue, no room in it, or was
overwritten. Renewing the thresholds of both SFPs makes sixteen updates
in a row into a ring and a queue of eight, so this happens. `since` remembers
what a value may be after a start.

| property | meaning |
|---|---|
| `TypeOK` | types, indices within the ring |
| `StoredAtRest` | when there is nothing left to store, file and EEPROM have what is in RAM, except `lost` requests and files cut off by a loss of power |
| `Survives` | after a start a parameter has the value it was last stored with everywhere, or one it was given later, or a mixture; one of the EEPROM even if its file was cut off |
| `EventuallyAtRest` | once messages stop, all requests are dealt with |

Run `storage`: one parameter of each kind (EEPROM, flash, colour), a ring of two,
three messages of up to three updates, so that the ring overruns, and one loss of
power. Fairness: the start, the control unit's updates and the storing task go
on; messages and losses of power need not come.

After an overrun ring and queue are out of step, and one request may be served
with the next one's name. A colour whose file is empty becomes whatever bytes are
on the stack (`Torn`). Values without a terminating zero, failures of the flash
and lengths that differ are not modelled.

## 7. `CircBuffer` and `ControlUnit`: the serial line

`CircBuffer` is the ring of received bytes: `Push` is
`CircBuffer_push_one_tender`, and `CircBuffer_read` is split into what it copies
and what it does to the head and the count afterwards, since the interrupt handler pushes in
between. The declared width of the count is `Word`.

`ControlUnit` instantiates it. `Receive` is the interrupt handler with one byte,
which at the end of a command fills a slot and posts it; `Transmit` sends one
byte; the other actions are `taskCU` between two calls. `Request` is a message
of another task; two of the three kinds switch reception off until the task is
back at the top of its loop. A command is its address, its end and other bytes;
an answer two bytes, each answer different from the last. What a command does to
the parameters is in `ProfileStorage`.

Two ghosts name the circumstances in which the code does not keep order.
`strayed`: an address within a command, a full ring, a command that is too long
(the handler never tells the task, `threadCU.c:96-98`), a post that is dropped or a
slot that is filled again, and a read that sets the head to 0 although it stopped before the
end of the array (`T8_CircBuffer.c:121`). `talkedOver`: a command came before the
one before was answered.

| property | meaning |
|---|---|
| `TypeOK` | types, indices within the ring |
| `AlwaysServes` | the task never leaves its loop, and a command it reads leaves room for the terminating 0, whatever comes in |
| `RingTrue` | until something has `strayed`, the ring holds the commands posted and not read, then the one coming in; count and slots agree with it |
| `AnswerWhole` | if every command waits for its answer, what is sent is an answer and nothing but an answer |
| `EventuallyQuiet` | when nothing more comes in, the task waits, its queue is empty, the transmitter silent |

Run `control_unit`: a ring of five bytes and a command of at most four, two
slots, eight bytes and one request: the ring wraps within a read, fills up, and
two commands overlap. Fairness: the task and the transmitter go on.

A reader that asks for less than is there moves the head wrongly when the bytes go
across the end of the array; `T8_CircBuffer.h:60` promises that all that is there is
read, and only a reader that asks for that much is safe. The task asks for one command.
A NOT_LISTEN in the middle of a
command stitches its first bytes to the next command's; no property excludes it.

## 8. `CrateEvents`: interrupts and the device controller

`ShelfManager` has the controller's answers; here are the messages interrupt
handlers send it, and the measuring task's part in the same registers.

* **Presence.** The expander interrupts until it is read. The controller copies
  the presences (`Copy`), waits, reads again (`Reread`) and compares
  (`Compare`, `Plug`). The measuring task reads the presences too (`ReadPresents`,
  `StartFans`): a change it reads at the wrong moment is in neither or both of
  what is compared. That is the ghost `unseen`. The debounce (`Accepted`) notes a
  constant instead of the time.
* **Alarms.** The line's interrupt posts a message; the controller drops it soon
  after the last one, and looks at the line again when it has had no messages for
  a while (`Poll`). Devices answer one by one (`ReadAra`), then each is asked
  (`AskFaults`). An unknown or a new device ends the questions for all that are
  still to come: the ghost `skipped`. The comment there promises to go round all
  (`обходим все в цикле`).
* **Fans.** Their speed depends on setting and power of the boards
  (`Wanted`); it is asked for by a flag, which a failed start of the fans drops.

| property | meaning |
|---|---|
| `TypeOK` | types, and a device that alerts has a fault |
| `ChangesOwed` | a slot whose change the shelf manager was not told of is about to be told, or the comparison under way will find it, unless it is `unseen` |
| `FaultsOwed` | a device that let go of the alert line and still has its fault is about to be asked, unless it was `skipped` |
| `SpeedOwed` | the speed asked for is the one setting and powers call for, and the fans turn at it or the request is there, but for messages under way |
| `EventuallyKnown` | once the crate is left alone, the shelf manager has been told the truth of every slot not `unseen` |
| `EventuallyAnswered` | no alert is left standing, and every fault not `skipped` is reported and reset |
| `EventuallyCooled` | the fans end at the speed that setting and powers call for |

Run `crate_events`: two slots and a device nobody knows, one or two boards at
first, two events of any kind, at most two answers per alarm. Two events suffice
for one to come while the other is dealt with. Fairness: interrupts are served,
the controller, the measuring task and the clock go on.

Not modelled: a failed read of the presences; the ring of 32 alarms to report; that
`Dnepr_Fans_Init` never recovers from one failed attempt
(`T8_Dnepr_Fans.c:243-260`, `retry &=`). The fan board is always there. The last
slot is modelled as any other, as the code treats it.

## 9. `Measure`: the measuring task

* **A round**: `Collect`, one `Fill` for each parameter, `Swap` under the mutex
  under which answers are made. The alarms are computed from the colours in the
  buffer being filled (`Raised`): those of parameters behind the alarms in the table
  are two rounds old. `fresh` marks what was filled in this time.
* **Flags.** Lamps, lasers and autonegotiation are done in two steps, `Take` and
  `Done`; the flag is cleared in the second. For lasers and ports (`Once`) a request
  in between is lost (ghost `overtaken`). For the lamps it is not:
* **Button and lamps** (`threadMeasure.c:212-250`). A round does one of four things with
  them. While the button is down and has not been for `LongPress` rounds, it counts
  (`Press`), at first and towards the end sets the lamps to tell so (`signal`), and
  at the end flags them. Else it writes the lamps if they are flagged
  (`Take`, `Done`). Else, if the button is up, it sets the count back and the flag again
  (`Release`, `Reflagged`), so the lamps are written every second round; only the
  round after a long press does not. Else it does nothing (`Hold`).
* **EEPROMs of boards.** `AskSlot`, `AskWrite` and `AskClear` are the requests of
  other tasks: the memory for the first is shared by all slots, the other two share
  the slot's number. They are carried out in two steps each. After a
  board's section is written both sections are read back (`ReadBack`), over
  whatever another task has just put there; a length of 0xFFFFFFFF read back
  makes the next write run past the section ("overrun"). `clashed` is the ghost:
  a request met one not yet done.

| property | meaning |
|---|---|
| `TypeOK` | types |
| `BufferWhole` | from the first round on, all that answers are made from was measured in one round, the last completed |
| `EepromsAsAsked` | if each request waits for the one before, the EEPROMs hold what was asked for and the task does not run over |
| `EventuallyApplied` | lasers and ports end as asked, if no request was `overtaken`; lamps end as asked, and tell the status and not the button, without exception |
| `EventuallyAlarmed` | the alarm lamp ends up telling whether anything is too hot |

Run `measure`: two boards, two contents, one parameter before the alarms and one
behind them, one change of temperature. `MaxAsks` = 4 bounds requests, which count two, and
rounds that find the button down, which count one: two requests at any moment, which can
meet in every way the ghosts name; one request at any moment of a whole long press or
of two short ones; or two long presses. `LongPress` is 2 where the code has 25: the
count goes through all it is compared with, since 1 and `LongPress - 1` set the
lamps alike, and 0, 1 and 2 are an untouched, a short and a long press. Fairness: the
task goes on. Of the button nothing is assumed but the bound: it is let go in the end.
Both liveness properties set apart a task that has run past a section ("overrun"), and
which does not come back.

The board is restarted at the end of the round in which the count reaches
`LongPress - 1` (`threadMeasure.c:228-234`, `308-311`), and the control unit's task is
told to go back to the factory settings. Neither is modelled: the model goes on
with the count, as the task does if the sequencer does not restart the board.

Boards stay seated (an update for an empty slot is not modelled). Two comments
say otherwise than the code. `threadMeasure.c:782-783` and `812-813` judge the alarms
by the state of the dynamic parameters, the code by what is left in the buffer
it is filling. `threadMeasure.c:96` says that `__sfp_on_changed` is TRUE until
`I2C_Dnepr_SFP_OnOff` is called; it is cleared when that call is over, with the
change made meanwhile.

## 10. Proofs

TLAPS proves the following for every value of the constants that satisfies the
named assumptions. They say what the code relies on: sizes are positive
(`MailboxAssumption`, `ShelfAssumption`, `CrateAssumption`, `EepromAssumption`,
`ControlUnitAssumption`, `ProfileAssumption`), each payload ring has one task
that fills it (`MailboxAssumption`), the declared counter holds the ring's size
(`ControlUnitAssumption`), every parameter has a place in the order and a
factory value of its type (`MirrorAssumption`, `ProfileAssumption`), and markers
such as `Nothing` or `Torn` are not values, nor `Nothing` a request (all, and
`MeasureAssumption`).

The properties TLC checks are hardly ever inductive. Each module of proofs has
an inductive invariant that says why they hold; TLC checked it, or its parts,
on the module's run before it was proved. Steps are proved by cases on the
action, with a lemma for each action or for each kind of thing an action does.

`FoldLemmas` has induction on the natural numbers stated with a set (`Induction`,
from `WFMin`), since the library's rule takes an operator, which the provers do not
instantiate. By it: what `FlattenSeq` and `SumFunctionOnSet` compute when one
element joins or leaves (`FlattenAppend`, `FlattenHead`, `SumTake`, `SumSame`,
`SumAtMost`), and that what each step of a loop keeps, the loop keeps
(`IteratesExists`, `KeptAlong`).

`InttaskMessages_proofs`:

* `TypeCorrect`: `Spec => []TypeOK`, by cases on the action.
* `MailboxInvariant`: `Spec => []MailboxInv`. `MailboxIntact` is not inductive: why
  a sender does not overwrite an unread slot follows from where the unread
  slots are. `Sound` says it: they are consecutive, end at the index (one later
  while the sender has posted and not yet advanced), follow the slot being
  handled, and fewer than `N` are in use while a sender fills a slot. The lemmas
  on `Ahead` are the modular arithmetic; `IndexFree` is the heart: the slot at
  the index is neither queued nor held. Each action has its lemma.
* `MessagesSurvive` and `SlotsNotShared`: `MailboxIntact` and `WriterOwnsSlot`,
  from the invariant.
* `PayloadsSurvive`: `PayloadIntact`. A payload ring turns by one place with each
  message that uses it, so the payload of the d-th last message on its ring lies
  d places behind (`PayloadsFresh`), and with fewer than `N` messages about
  none has been overwritten. That the last one filled is the last one posted
  (`NewestOfItsRing`) needs that one task fills the ring.
* `MailboxDelivers`: `Spec => Delivers`, the refinement, step by step. While nothing
  is `tainted`, what is found through the pointers is what the ghosts say
  (`UnreadTrue`, from the invariant behind `PayloadsSurvive`), so each action maps to
  the queue's or to a stutter (`OrderlyStep`). With the promise off there is left
  to show that a step adds or takes one message at most, that only an overlap or a
  full mailbox took it back, and that it returns to a deserted mailbox
  (`DisorderStep`).

`ShelfManager_proofs`, in three layers:

* `BoxesInvariant`: `Spec => []BoxInv`. The invariant says that the mailboxes
  hold messages of the right type, that requests name a device, that the ghost
  is a Boolean, and, unless clouded, that the two boxes hold at most one
  question or answer, of the kind and the device the worker is blocked on
  (`Alone`); with `ask = "none"` that means none. The argument follows the
  question: it is sent when nothing is on its way (`AskFromFree`), the
  controller replaces it by its answer (`AnswerAlone`), the manager takes that
  answer and nothing is on its way again (`HeardFree`); notices disturb
  nothing (`NoticeAlone`); what leaves a question behind clouds the pass.
  `AnswersAreOurs`: `OnlyQuestion` follows.
* `FrameInvariant`: `Spec => []Frame` adds the types and what holds however
  disturbed the passes are: where a worker's loop stands and what it may be
  waiting for (`Flow`), when a signal of the power balance is current
  (`BalanceSignal`), that only seated devices are on (`Seated`). From it
  `Typing`, and `TableIsComplete`: `NoUnlistedEntry`, an action property, since
  in each state only listed signals arise.
* `CleanInvariant`: `Spec => []Clean` adds `PassInv`: in a pass that was not
  disturbed, the books are the sums over `crate_status` the code means them to
  be (`Budget`, by the lemmas on sums), `crate_status` and the answers on their way
  are the truth (`Truthful`) and the slots dealt with are as the profile has them
  (`Obedient`); news on its way takes back the last two, until the pass is
  repeated. From it `ProfileRules`, `BooksAreTrue` and `NothingOverdrawn`
  (`RestObeysProfile`, `BooksTrueAtRest`, `SmartStartWithinBudget`).

`CrateEvents_proofs`: `CrateInvariant`, and from it `Typing`, `ChangesAreTold`,
`FaultsAreAsked`, `FansAreAsked`. The invariant adds to the three properties that
the devices still to be asked are distinct, have their fault and have let go of the
line (`Answering`), and that what the manager was told of a slot is what the
comparison will compare with (`Told`).

`MirroredEeprom_proofs`, for any names, hash function, values and sizes. However
often the power fails during a call:

* `MirrorInvariant`: `Spec => []Inv`. An operation is worked out when it
  begins and its writes are carried out one by one, so the invariant says of a
  call under way: its remaining writes lead from the partitions as they are
  to a goal (`Turns`) for which the bitmaps it will leave behind are right. After
  each write the rest still leads there (`TurnsOn`); when the call returns the
  goal is reached. That the goal and the bitmap fit is a lemma about
  `WriteRecord` (`WriteRecordSane`), from one about each part of it and about
  each of its loops: what is taken for free is free (`Sane`), and what is free and
  not in the bitmap is only the sector at hand (`Tight`, `Held`), whether chains
  are whole or not.
* `Typing`, `NoRecordOverwritten` (`BitmapSafe`) and `NoSectorLost` (`BitmapTrue` as
  long as nothing is `unhealed`) follow.

Three more layers hold up to the first loss of power during a call, which may leave
chains of sectors broken:

* `UndisturbedInvariant`: `Spec => [](cuts = 0 => Undisturbed)`. What a partition in
  order is, `Laid`, is said with a layout: for each name its value and the sectors of
  its record one after the other, for each bin the names of its chain. Each piece
  lies where the layout says and names the next; no sector has two pieces (`Apart`),
  one that has none is free; each head names the next in its chain (`Chained`).
  With the layout as a witness no path has to be followed: reading (`Content`,
  `HoldsContent`) and writing become statements about its functions.
  `WriteRecordDoes` is the heart: `STEEPROM_WriteRecord` turns a layout into the one
  with the new value, or there is no room and nothing is written. It has a lemma for
  each of `Grow`, `Shrink` and `Add` and for each of their loops. The pair of partitions,
  formatting and copying follow (`Orderly`, `Smooth`). Corollaries: `EverySectorAccounted`
  (`SectorsAccounted`) and `UncutCallsReturn` (`CallsReturn`, which finding 4 breaks,
  holds until a call is cut off).
* `SteadyInvariant`: `Spec => [](cuts = 0 => Steady)`, if there is `Room`: each piece
  of the longest value of each name can have a sector of its own. Then both copies
  are in use when the EEPROM answers and hold the same values, but for the one
  being written (`Writing`: the writes to the first copy, then those to the second,
  remain), and RAM has the values that were gone through. `RamStaysStored` is
  `RamIsStored` until the first such loss of power.
* `MirrorImplements`: each step taken before the first loss of power during a call,
  and that loss itself, is a step of `ParamStore` or a stutter. For the loss
  (`WritingCut`): what was read before the cut is read after it, or the new value is
  (`MildContent`): every write on the way leaves heads that say the old or the new
  value, and a torn one leaves a CRC that does not match. `UncutPromise`: a board
  whose power does not fail during a call keeps `Promise` for good.

`Room` is no idle hypothesis. In the profile 86 parameters go to the EEPROM, with at
most 136 pieces of 16 bytes between them (`profCU.c`, `data_len` of the parameters
marked `EEPROM_PARAM`); a partition has 840 sectors (`T8_Dnepr_BPEEPROM.h:21`). Without
it the theorems are false, as TLC shows with four sectors in place of six: a value
that finds no room in either copy makes the code spoil both. The instance of the
run has just enough room, 3 + 2 + 1 pieces in six sectors.

`ProfileStorage_proofs`: `Typing`, `NothingLeftUnstored` (`StoredAtRest`), `ValuesSurvive`
(`Survives`). A parameter is lost, queued, in the storing task's hand at a
place from which it will be stored, or stored (`Accounted`); the start makes first files,
then the EEPROM agree with RAM, in the order of the parameters (`Starting`). And
whatever a copy, a request or the task holds is a value a start may find (`Kept`,
`Carried`, `Held`).

`ControlUnit_proofs`: `Typing`, `NeverLeaves` (`AlwaysServes`), `AnswersAreWhole`
(`AnswerWhole`), `RingKeepsOrder` (`RingTrue`). The first three need that no slot gives
a length the task refuses (`Bounded`), and that one command at most is under way
while nobody talks over an answer (`OneAtATime`). `RingInv` relates the buffer to
the bytes it stands for (`Holds`: as many as the count says, from head to tail) and
those to the commands queued and in hand (`InStep`).

`Measure_proofs`:

* `BuffersApart`: `Spec => []BufferInv`. `BufferWhole` is not inductive: that the
  buffers change places whole needs how far the one being filled is (`Filled`,
  which counts the parameters `Before` the one at hand), and that nothing changes the
  other one needs that they differ once there was a round (`Apart`). All actions
  but `Collect`, `Fill` and `Swap` leave the buffers alone (`BuffersAlone`).
  `AnswersOfOneRound`: `BufferWhole` follows.
* `RequestsKept`: `Spec => []RequestInv`. The invariant adds to the types that a
  request set in a flag, or being carried out, names a board (`Addressed`); and,
  as long as no two have `clashed`, that at most one is under way (`OneAtATime`)
  and that the boards hold what was asked for but for exactly that one (`Owing`).
  Each request, taking and completion has its lemma; the other steps go between
  two states with nothing in hand (`RequestIdle`) or leave the task where it is
  (`RequestStays`).
* `EepromsEndAsAsked`: `EepromsAsAsked`, for any boards, contents and number of
  requests. That the task does not run past a section follows from `Owing`: the
  length of the section asked for is set while the request waits.
* `Typing`: `TypeOK`, with what the flags and the hand may hold.

Only model-checked:

* What happens after the first loss of power during a call: `RamIsStored` and
  `Promise` up to the second, and `BitmapTrue` with something `unhealed` up to the second.
  These are not theorems for every value of the constants. TLC finds, with
  five sectors and a value two parameters share: the power fails while the record
  of `a` grows, and leaves a head that tells of the new value and names a free sector;
  writing it back fails; `b` takes that sector for the same piece of the same value,
  and the record of `a` is whole again, with the value its write had not stored. The run
  gives each parameter values of its own. Which constants suffice, and the
  invariant that says so, of a partition whose chains may be broken anywhere, are
  open.
* All liveness: `UndisturbedPassEnds`, `EventuallyAtRest`, `EventuallyQuiet`,
  `EventuallyKnown`, `EventuallyAnswered`, `EventuallyCooled`, `EventuallyApplied`,
  `EventuallyAlarmed`. The prover has no rules for fairness and `ENABLED`. What
  is still owed (`ChangesOwed`, `FaultsOwed`, `SpeedOwed`, `Accounted`) is the safe half of
  some of them, and that is proved.

## 11. Not modelled

* **The hot swap controllers** below the device controller: what `_slot_power_on`
  and its neighbours do to their registers. `ShelfManager` has the controller's
  record of a slot, not the transistor behind it.
* **The terminal task** and the lower half of `T8_CircBuffer.c`: compiled only with
  `DEBUG_TERMINAL` (`main.c`), which nothing defines.
* **Formatting the EEPROM at the operator's command**: the calls are commented out
  (`threadCU.c:199-203`). Failures of the SPI and of the flash.
* **The calibration of the fans, the EEPROMs of the supplies, the sequencer** in the
  measuring task, and what a long press of the button sets going outside it: each is one
  value read or written by one task.
* **I2C and SPI drivers, task synchronisation, watchdog, board and MCU drivers**:
  single locks around single transfers, or register accesses without a state to
  go wrong between tasks.
* **The profile's parser and formatter, small libraries, CRCs, the calendar**:
  functions of bytes, whose width is out of reach here. The models keep whether
  a CRC matches.
* **Third-party and generated code**: µC/OS-II, uC/FS, YAFFS2, nanopb,
  protothreads, the profile's tables. These are most of the lines in the
  repository, which is why the share of lines modelled is small although the tasks
  above them are covered. The kernel appears as what the code relies on.
