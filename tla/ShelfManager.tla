---------------------------- MODULE ShelfManager ----------------------------
(****************************************************************************)
(* The shelf manager task (Application/src/power_managment.c, run by        *)
(* task_shelf_manager) and the requests it makes of the device controller   *)
(* (Threads/src/threadDeviceController.c).  The manager is a table-driven   *)
(* state machine: it picks a signal, runs the transition's worker and only  *)
(* then changes state.  A worker asks the controller about one device after *)
(* the other; question and answer are messages, and the manager takes       *)
(* whatever message comes first for the answer.                             *)
(*                                                                          *)
(* One action is what the manager does between two kernel calls that may    *)
(* block it.  The mailboxes are queues here; InttaskMessages shows when the *)
(* slots behind them are.  Watts are whole numbers.                         *)
(****************************************************************************)
EXTENDS Integers, Sequences, FiniteSetsExt

CONSTANTS NSlots,       \* SLOT_MAX_NUM
          NSources,     \* PWR_MAX_NUM
          Power,        \* [Devices -> Nat]: what a device's EEPROM says it takes or gives
          Hotswap,      \* the slots whose hot swap controller answers
          Eeprom,       \* the devices whose EEPROM can be read
          LimitSource,  \* val_VPowerLimitSource: "PSU" or "ProfileValue"
          PowerLimit,   \* val_VPowerLimit
          MinReserve,   \* val_VPowerMinReserve
          PowerCU,      \* POWER_CU
          FanMaxPower,  \* FAN_MAX_POWER
          SlotMaxPower, \* SLOT_MAX_POWER
          DCLen, PMLen, \* MSGQUELEN_TASK_...: the capacities of the two mailboxes
          Conf0,        \* the profile at start
          MaxEvents,    \* bound: changes of the crate and of the profile
          MaxTimeouts,  \* bound: requests the manager gives up waiting for
          PinsMayFail   \* the status pins of the power supplies may be unreadable

\* The devices in the order of msg_unit_name_t.
Slots   == 1 .. NSlots
Sources == NSlots + 1 .. NSlots + NSources
Fan     == NSlots + NSources + 1
Devices == 1 .. Fan

Confs   == {"Prohibited", "SmartlyStart", "IgnorantStart"}
Notices == {"PROF_POWER_RECALC", "SHELF_POWER_RECALC"}
Replies == {"GET_SHELF_STATE", "SET_SHELF_STATE", "GET_SHELF_POWER"}

ASSUME ShelfAssumption ==
    /\ NSlots \in Nat \ {0} /\ NSources \in Nat \ {0}
    /\ Power \in [Devices -> Nat]
    /\ Conf0 \in [Slots -> Confs]
    /\ {PowerLimit, MinReserve, PowerCU, FanMaxPower, SlotMaxPower} \subseteq Nat
    /\ {DCLen, PMLen} \subseteq Nat \ {0}
    /\ {MaxEvents, MaxTimeouts} \subseteq Nat

VARIABLES
    curnt_state, curnt_signal, inauto_signal,
    worker,        \* the worker of the transition under way, or "none"
    target,        \* the state that transition leads to
    dev,           \* the worker's loop index
    ask,           \* the reply the worker is blocked on, or "none"
    now_presents,  \* the slots get_slot_states found occupied
    status,        \* crate_status: slot_status, pwrsrc_status and fan_status
    powerLimitSource, recuredPower, actualAvailablePowerLimit,
    power_slots_now, is_prohibited_only,
    dcbox, pmbox,  \* the two mailboxes, oldest message first
    plugged,       \* __processed_slots_present, PSU seated, fan board present
    powered,       \* __aPwrStates = HSSLOT_ON, PSU input good
    conf,          \* val_Slot1Enable .. val_Slot13Enable
    events, timeouts,
    clouded        \* ghost: a worker was interrupted, got no answer or a wrong one, or
                   \* a notice was lost, and no pass has begun afresh since

fsm   == <<curnt_state, curnt_signal, inauto_signal, target>>
books == <<powerLimitSource, recuredPower, actualAvailablePowerLimit,
           power_slots_now, is_prohibited_only>>
crate == <<plugged, powered, conf, events>>
vars  == <<fsm, worker, dev, ask, now_presents, status, books, dcbox, pmbox,
           crate, timeouts, clouded>>

-----------------------------------------------------------------------------
(* The transition table, powermang_trans_table *)

To(static, crate_, profile) ==
    [STATIC |-> static, CRATECHANGE |-> crate_, PROFILECHANGE |-> profile]

\* Mutant: the entries for a change of the crate are forgotten.
ReadingUnchanging(next) == [STATIC |-> next, PROFILECHANGE |-> next]

\* Rows of the passes that read the crate and that hand out its power.
Reading(next)  == To(next, "SOURCE_READ", next)
Powering(next) == To(next, "SOURCE_READ", "POWEROFF_IGNORANT")
WithPower(row, positive, negative) ==
    [s \in DOMAIN row \cup {"POW_POSITIVE", "POW_NEGATIVE"} |->
        CASE s = "POW_POSITIVE" -> positive
          [] s = "POW_NEGATIVE" -> negative
          [] OTHER -> row[s]]

trans_table ==
    [INIT              |-> To("INIT", "GETSLOTSSTATE", "INIT"),
     GETSLOTSSTATE     |-> To("POWER_DELAY", "INIT", "POWER_DELAY"),
     POWER_DELAY       |-> Reading("SOURCE_READ"),
     SOURCE_READ       |-> Reading("FAN_READ"),
     FAN_READ          |-> Reading("SLOTS_READ"),
     SLOTS_READ        |-> Reading("PASSIVE_CHECK"),
     PASSIVE_CHECK     |-> Reading("FAN_ON"),
     FAN_ON            |-> Reading("POWEROFF_IGNORANT"),
     POWEROFF_IGNORANT |-> Reading("POWER_RESRV_CALC"),
     POWER_RESRV_CALC  |-> Powering("PROHIBITED"),
     PROHIBITED        |-> WithPower(Powering("SMARTSTART"), "SMARTSTART", "READY"),
     SMARTSTART        |-> WithPower(Powering("READY"), "READY", "READY"),
     READY             |-> WithPower(Powering("READY"), "READY", "READY")]

States  == DOMAIN trans_table
Signals == {"STATIC", "CRATECHANGE", "PROFILECHANGE", "POW_POSITIVE", "POW_NEGATIVE"}

\* An entry the initializer does not list is zero: POW_STATE_INIT, no worker.
Listed(st, sg)   == sg \in DOMAIN trans_table[st]
NewState(st, sg) == IF Listed(st, sg) THEN trans_table[st][sg] ELSE "INIT"

\* Workers go by the state they lead to; FAN_ON's does nothing.
WorkerOf(st, sg) ==
    IF st = "GETSLOTSSTATE" /\ Listed(st, sg) THEN "POWER_DELAY"
    ELSE IF NewState(st, sg) \in {"INIT", "READY", "FAN_ON"} THEN "none"
    ELSE NewState(st, sg)

-----------------------------------------------------------------------------
(* Messages *)

Quiet == [present |-> FALSE, on |-> FALSE, hotswap |-> FALSE, eeprom |-> FALSE, power |-> 0]
Message(msg, of, data) == [msg |-> msg, of |-> of, data |-> data]
Request(msg, d, on)    == Message(msg, d, [Quiet EXCEPT !.on = on])
Failure(d)             == Message("FAILURE_SIGNALING", d, Quiet)
Notice(msg)            == Message(msg, 0, Quiet)

\* send_inttask_message: a message that finds the queue full is lost.
Posted(box, len, m) == IF Len(box) < len THEN Append(box, m) ELSE box

\* _set_current_signal and _set_inauto_signal: a reply leaves the signal alone.
SignalOf(m, otherwise) ==
    CASE m.msg = "PROF_POWER_RECALC"  -> "PROFILECHANGE"
      [] m.msg = "SHELF_POWER_RECALC" -> "CRATECHANGE"
      [] OTHER -> otherwise

Messages == [msg : Replies \cup Notices \cup {"PSU_VALUES", "FAILURE_SIGNALING"},
             of : 0 .. Fan,
             data : [present : BOOLEAN, on : BOOLEAN, hotswap : BOOLEAN, eeprom : BOOLEAN,
                     power : Nat]]

\* What the manager may hold of a device in crate_status.
Looks == [present : BOOLEAN, passive : BOOLEAN, on : {"UNKNOWN", "SLOT_ON", "SLOT_OFF"},
          health : {"UNSET", "OK", "ERROR"}, power : Nat]

BoxesOK == dcbox \in Seq(Messages) /\ pmbox \in Seq(Messages)

TypeOK ==
    /\ curnt_state \in States /\ target \in States
    /\ curnt_signal \in Signals
    /\ inauto_signal \in {"STATIC", "CRATECHANGE", "PROFILECHANGE"}
    /\ worker \in States \cup {"none"}
    /\ dev \in 0 .. Fan + 1
    /\ ask \in Replies \cup {"none"}
    /\ now_presents \in SUBSET Slots
    /\ status \in [Devices -> Looks]
    /\ powerLimitSource \in Nat /\ power_slots_now \in Int
    /\ actualAvailablePowerLimit \in Int /\ recuredPower \in Int
    /\ is_prohibited_only \in BOOLEAN
    /\ BoxesOK /\ Len(dcbox) <= DCLen /\ Len(pmbox) <= PMLen
    /\ plugged \in [Devices -> BOOLEAN] /\ powered \in [Devices -> BOOLEAN]
    /\ conf \in [Slots -> Confs]
    /\ events \in 0 .. MaxEvents /\ timeouts \in 0 .. MaxTimeouts
    /\ clouded \in BOOLEAN

Unread == [present |-> FALSE, on |-> "UNKNOWN", power |-> 0, health |-> "UNSET", passive |-> FALSE]

\* __slot_power_onoff_init takes a slot whose FET conducts for switched on, and
\* the last slot in any case.  The controller starts by telling itself to read
\* the power supplies, and that ends in a notice to the manager.
Init ==
    /\ curnt_state = "INIT" /\ target = "INIT"
    /\ curnt_signal = "STATIC" /\ inauto_signal = "STATIC"
    /\ worker = "none" /\ dev = 0 /\ ask = "none"
    /\ now_presents = {}
    /\ status = [d \in Devices |-> Unread]
    /\ powerLimitSource = 0 /\ recuredPower = 0 /\ actualAvailablePowerLimit = 0
    /\ power_slots_now = 0 /\ is_prohibited_only = FALSE
    /\ dcbox = <<Notice("PSU_VALUES")>> /\ pmbox = <<>>
    /\ plugged \in [Devices -> BOOLEAN] /\ plugged[Fan]
    /\ \E fet \in SUBSET Hotswap :
          powered = [d \in Devices |->
             plugged[d] /\ (d \in Slots => d \in fet \/ (d = NSlots /\ d \in Hotswap))]
    /\ conf = Conf0
    /\ events = 0 /\ timeouts = 0
    /\ clouded = FALSE

-----------------------------------------------------------------------------
(* The books: what the manager believes the crate draws *)

On(d)    == status[d].on = "SLOT_ON"
Off(d)   == status[d].on = "SLOT_OFF"
Here(d)  == status[d].present
Draw(S)  == SumFunctionOnSet([d \in Devices |-> status[d].power], S)
Switchable(d) == Here(d) /\ ~status[d].passive /\ status[d].health = "OK"

Working == {d \in Sources : Here(d) /\ On(d)}
Rated   == {status[d].power : d \in Working} \ {0}

\* _pwmng_power_reserve_calc: the weakest power supply that works counts.
SourceLimit ==
    IF LimitSource = "ProfileValue" THEN PowerLimit
    ELSE IF Rated = {} THEN MinReserve ELSE Min(Rated)

\* Mutant: the fans are not counted.
SpareWithoutFans(drawn) == powerLimitSource - PowerCU - MinReserve - drawn

\* What is left once drawn watts go to the slots.
Spare(drawn) == powerLimitSource - status[Fan].power - PowerCU - MinReserve - drawn

-----------------------------------------------------------------------------
(* pwmng_get_current_signal and the state machine's step *)

AtSignal == worker = "none"
InWorker == worker # "none" /\ ask = "none"
Awaits   == worker # "none" /\ ask # "none"

\* What the worker does before its loop.
Begin(w) ==
    /\ now_presents' = IF w = "GETSLOTSSTATE" THEN {d \in Slots : plugged[d]} ELSE {}
    /\ dev' = CASE w = "SOURCE_READ" -> NSlots + 1
                [] w = "FAN_READ"    -> Fan
                [] w = "PROHIBITED"  -> NSlots
                [] OTHER -> 1
    /\ powerLimitSource' = IF w = "POWER_RESRV_CALC" THEN SourceLimit ELSE powerLimitSource
    /\ power_slots_now' = IF w = "PROHIBITED"
                          THEN Draw({d \in Slots : Here(d) /\ On(d)}) ELSE 0
    /\ recuredPower' =
          CASE w = "PROHIBITED" ->
                  Draw({d \in Slots : Here(d) /\ ~On(d) /\ conf[d] = "IgnorantStart"})
            [] w = "SMARTSTART" -> 0
            [] OTHER -> recuredPower
    /\ is_prohibited_only' = FALSE
    /\ UNCHANGED actualAvailablePowerLimit

\* One transition: look the signal up, run the worker, then enter the state.
\* FAN_ON and the entries without a worker are over at once.
Transition(sg) ==
    LET w == WorkerOf(curnt_state, sg) IN
    /\ curnt_signal' = sg
    /\ target' = NewState(curnt_state, sg)
    /\ IF w = "none"
       THEN curnt_state' = target' /\ worker' = "none" /\ UNCHANGED <<dev, now_presents, books>>
       ELSE worker' = w /\ Begin(w) /\ UNCHANGED curnt_state
    /\ UNCHANGED <<ask, status, dcbox, crate, timeouts>>

\* The pass is clean again when the power supplies are read anew and nothing
\* is left over from before.
Refresh(sg) ==
    clouded' = (clouded /\ ~(/\ NewState(curnt_state, sg) = "SOURCE_READ"
                             /\ pmbox' = <<>> /\ dcbox = <<>> /\ inauto_signal' = "STATIC"))

\* INIT and READY: forget a signal found by a worker and wait for a message.
WaitForNotice ==
    /\ AtSignal /\ curnt_state \in {"INIT", "READY"}
    /\ inauto_signal' = "STATIC"
    /\ IF pmbox = <<>>
       THEN Transition("STATIC") /\ UNCHANGED pmbox /\ Refresh("STATIC")
       ELSE LET sg == SignalOf(Head(pmbox), "STATIC") IN
            Transition(sg) /\ pmbox' = Tail(pmbox) /\ Refresh(sg)

\* POWER_DELAY: the delay is the time a receive waits for nothing.
WaitOutDelay ==
    /\ AtSignal /\ curnt_state = "POWER_DELAY"
    /\ IF inauto_signal # "STATIC"
       THEN /\ inauto_signal' = "STATIC" /\ UNCHANGED pmbox
            /\ Transition(inauto_signal) /\ Refresh(inauto_signal)
       ELSE /\ UNCHANGED inauto_signal
            /\ IF pmbox = <<>>
               THEN Transition(curnt_signal) /\ UNCHANGED pmbox /\ Refresh(curnt_signal)
               ELSE LET sg == SignalOf(Head(pmbox), curnt_signal) IN
                    Transition(sg) /\ pmbox' = Tail(pmbox) /\ Refresh(sg)

\* PROHIBITED: smart starts only when something is left; no message is read.
WeighPower ==
    /\ AtSignal /\ curnt_state = "PROHIBITED"
    /\ Transition(IF actualAvailablePowerLimit > 0 THEN "POW_POSITIVE" ELSE "POW_NEGATIVE")
    /\ UNCHANGED <<inauto_signal, pmbox, clouded>>

LeaveSmartStart ==
    /\ AtSignal /\ curnt_state = "SMARTSTART"
    /\ inauto_signal' = "STATIC"
    /\ Transition("STATIC")
    /\ UNCHANGED <<pmbox, clouded>>

\* All other states poll the mailbox.
PollNotice ==
    /\ AtSignal
    /\ curnt_state \notin {"INIT", "READY", "POWER_DELAY", "PROHIBITED", "SMARTSTART"}
    /\ IF pmbox = <<>>
       THEN /\ inauto_signal' = "STATIC" /\ UNCHANGED pmbox
            /\ Transition(inauto_signal) /\ Refresh(inauto_signal)
       ELSE LET sg == SignalOf(Head(pmbox), curnt_signal) IN
            /\ UNCHANGED inauto_signal /\ pmbox' = Tail(pmbox)
            /\ Transition(sg) /\ Refresh(sg)

-----------------------------------------------------------------------------
(* The workers: one turn of a worker's loop at a time *)

DevicesOf(w) == CASE w = "SOURCE_READ" -> Sources
                  [] w = "FAN_READ" -> {Fan}
                  [] w = "POWER_RESRV_CALC" -> {}
                  [] OTHER -> Slots

\* Mutant: a board that is on already is started, and paid for, once more.
StartableAgain(d) == Switchable(d) /\ conf[d] = "SmartlyStart"
Startable(d) == Switchable(d) /\ ~On(d) /\ conf[d] = "SmartlyStart"

\* Mutant: the slots of certain start are turned off instead.
MustGoIgnorant(d) == On(d) /\ conf[d] = "IgnorantStart"
MustGo(d) == On(d) /\ conf[d] = "Prohibited"

\* Mutant: a careful start does not look at what is left.
AffordableAnyway(d) == TRUE
Affordable(d) == status[d].power <= actualAvailablePowerLimit

\* Does the worker have a question about device d?
Asks(w, d) ==
    CASE w = "GETSLOTSSTATE"     -> d \in now_presents
      [] w = "POWER_DELAY"       -> Here(d) /\ Off(d)
      [] w = "POWEROFF_IGNORANT" -> MustGo(d)
      [] w = "PASSIVE_CHECK"     -> On(d) /\ Here(d) /\ status[d].power = 0
      [] w = "SMARTSTART"        -> Startable(d) /\ Affordable(d)
      [] OTHER -> TRUE

Send(msg, d, on) ==
    /\ ask' = msg /\ dev' = d
    /\ dcbox' = Posted(dcbox, DCLen, Request(msg, d, on))

\* Mutant: the alarm goes out under the last question's message type.
AlarmUnderOldType(d) == dcbox' = Posted(dcbox, DCLen, Message("GET_SHELF_STATE", d, Quiet))

Alarm(d) == dcbox' = Posted(dcbox, DCLen, Failure(d))

\* The worker returns and the machine enters the new state.
Finish ==
    /\ curnt_state' = target
    /\ worker' = "none" /\ dev' = 0 /\ now_presents' = {}

\* get_slot_states starts from scratch with every slot it comes to.
Scan ==
    /\ InWorker /\ worker # "PROHIBITED"
    /\ IF dev \notin DevicesOf(worker) \/ (worker = "SMARTSTART" /\ actualAvailablePowerLimit <= 0)
       THEN Finish /\ UNCHANGED <<ask, status, recuredPower, dcbox>>
       ELSE /\ IF Asks(worker, dev)
               THEN Send(IF worker \in {"POWER_DELAY", "POWEROFF_IGNORANT", "SMARTSTART"}
                         THEN "SET_SHELF_STATE" ELSE "GET_SHELF_STATE",
                         dev, worker = "SMARTSTART")
               ELSE dev' = dev + 1 /\ UNCHANGED <<ask, dcbox>>
            /\ status' = IF worker = "GETSLOTSSTATE"
                         THEN [status EXCEPT ![dev].present = dev \in now_presents,
                                             ![dev].on = "SLOT_OFF", ![dev].power = 0]
                         ELSE status
            /\ recuredPower' = IF worker = "SMARTSTART" /\ Startable(dev)
                               THEN status[dev].power ELSE recuredPower
            /\ UNCHANGED <<curnt_state, worker, now_presents>>
    /\ UNCHANGED <<curnt_signal, inauto_signal, target, pmbox, crate, timeouts, clouded,
                   powerLimitSource, actualAvailablePowerLimit, power_slots_now,
                   is_prohibited_only>>

\* _pwmng_power_calc_prohib.  At the top of its loop dev is the last slot; it
\* is smaller while the inner loop looks for a slot to turn off, downwards.
Certain   == {d \in Slots : Switchable(d) /\ conf[d] = "IgnorantStart" /\ Off(d)}
Smart(i)  == {d \in Slots : d <= i /\ Switchable(d) /\ conf[d] = "SmartlyStart" /\ On(d)}

TurnLastOff(i) ==
    /\ \E d \in Smart(i) :
          (\A e \in Smart(i) : e <= d) /\ Send("SET_SHELF_STATE", d, FALSE)
    /\ UNCHANGED is_prohibited_only

\* Mutants: the search's end at -1 is not noticed; it is noticed and forgotten.
TurnOffFromEndless(i) ==
    /\ IF Smart(i) = {}
       THEN dev' = i - 1 /\ UNCHANGED <<is_prohibited_only, ask, dcbox>>
       ELSE TurnLastOff(i)
    /\ UNCHANGED <<curnt_state, worker, now_presents>>

TurnOffFromForgetful(i) ==
    /\ IF Smart(i) = {}
       THEN dev' = NSlots /\ UNCHANGED <<is_prohibited_only, ask, dcbox>>
       ELSE TurnLastOff(i)
    /\ UNCHANGED <<curnt_state, worker, now_presents>>

TurnOffFrom(i) ==
    /\ IF Smart(i) = {}
       THEN is_prohibited_only' = TRUE /\ dev' = NSlots /\ UNCHANGED <<ask, dcbox>>
       ELSE TurnLastOff(i)
    /\ UNCHANGED <<curnt_state, worker, now_presents>>

CalcProhib ==
    /\ InWorker /\ worker = "PROHIBITED"
    /\ IF dev < NSlots
       THEN TurnOffFrom(dev) /\ UNCHANGED actualAvailablePowerLimit
       ELSE /\ actualAvailablePowerLimit' = Spare(power_slots_now)
            /\ IF actualAvailablePowerLimit' < recuredPower /\ ~is_prohibited_only
               THEN TurnOffFrom(NSlots)
               ELSE /\ UNCHANGED is_prohibited_only
                    /\ IF Certain = {}
                       THEN Finish /\ UNCHANGED <<ask, dcbox>>
                       ELSE /\ \E d \in Certain :
                                  (\A e \in Certain : d <= e) /\ Send("SET_SHELF_STATE", d, TRUE)
                            /\ UNCHANGED <<curnt_state, worker, now_presents>>
    /\ UNCHANGED <<curnt_signal, inauto_signal, target, status, pmbox, crate, timeouts,
                   clouded, powerLimitSource, recuredPower, power_slots_now>>

-----------------------------------------------------------------------------
(* Answers *)

\* The message is of the kind asked for: it is used, whatever device it is about.
Hear == /\ Awaits /\ pmbox # <<>> /\ Head(pmbox).msg = ask
        /\ pmbox' = Tail(pmbox)
        /\ clouded' = (clouded \/ Head(pmbox).of # dev)
        /\ UNCHANGED <<fsm, worker, now_presents, powerLimitSource, crate, timeouts>>

OnOff(r)   == IF r.on THEN "SLOT_ON" ELSE "SLOT_OFF"
Healthy(r) == IF r.hotswap /\ r.eeprom THEN "OK" ELSE "ERROR"

\* How device d looks to the worker after a reply to GET_SHELF_STATE.
Seen(d, r) ==
    CASE worker = "PASSIVE_CHECK" ->
            IF r.hotswap /\ ~r.eeprom
            THEN [status[d] EXCEPT !.power = SlotMaxPower, !.passive = FALSE, !.health = "ERROR"]
            ELSE [status[d] EXCEPT !.passive = TRUE, !.health = "OK"]
      [] worker = "SOURCE_READ" ->
            [status[d] EXCEPT !.present = r.present, !.on = OnOff(r)]
      [] worker = "FAN_READ" ->
            [status[d] EXCEPT !.present = r.present, !.on = OnOff(r), !.health = Healthy(r)]
      [] OTHER ->
            [status[d] EXCEPT !.present = r.present, !.on = OnOff(r), !.health = Healthy(r),
                              !.passive = FALSE]

HearState ==
    /\ Hear /\ ask = "GET_SHELF_STATE"
    /\ LET r    == Head(pmbox).data
           more == \/ worker = "SLOTS_READ" /\ r.present
                   \/ worker \in {"SOURCE_READ", "FAN_READ"} /\ r.present /\ r.on
       IN /\ status' = [status EXCEPT ![dev] =
                IF worker \in {"SLOTS_READ", "SOURCE_READ", "FAN_READ"} /\ ~more
                THEN [Seen(dev, r) EXCEPT !.power = 0] ELSE Seen(dev, r)]
          /\ IF more
             THEN Send("GET_SHELF_POWER", dev, FALSE)
             ELSE /\ ask' = "none" /\ dev' = dev + 1
                  /\ IF worker = "PASSIVE_CHECK" /\ r.hotswap /\ ~r.eeprom
                     THEN Alarm(dev) ELSE UNCHANGED dcbox
    /\ UNCHANGED <<actualAvailablePowerLimit, recuredPower, power_slots_now, is_prohibited_only>>

HearPower ==
    /\ Hear /\ ask = "GET_SHELF_POWER"
    /\ status' = [status EXCEPT ![dev].power = Head(pmbox).data.power]
    /\ ask' = "none" /\ dev' = dev + 1
    /\ UNCHANGED <<dcbox, actualAvailablePowerLimit, recuredPower, power_slots_now,
                   is_prohibited_only>>

\* A slot switched on is paid for; calc_prohib starts its loop again.
HearSet ==
    /\ Hear /\ ask = "SET_SHELF_STATE"
    /\ LET r == Head(pmbox).data
           w == status[dev].power
           turnedOn  == Off(dev) /\ r.on
           turnedOff == On(dev) /\ ~r.on
       IN /\ status' = [status EXCEPT ![dev].on = OnOff(r)]
          /\ actualAvailablePowerLimit' =
                actualAvailablePowerLimit -
                    (IF worker = "SMARTSTART" /\ r.on THEN recuredPower ELSE 0)
          /\ power_slots_now' =
                CASE worker = "PROHIBITED" /\ turnedOn  -> power_slots_now + w
                  [] worker = "PROHIBITED" /\ turnedOff -> power_slots_now - w
                  [] OTHER -> power_slots_now
          /\ recuredPower' =
                IF worker = "PROHIBITED" /\ turnedOn THEN recuredPower - w ELSE recuredPower
    /\ ask' = "none"
    /\ dev' = IF worker = "PROHIBITED" THEN NSlots ELSE dev + 1
    /\ UNCHANGED <<dcbox, is_prohibited_only>>

\* The message is of another kind: the worker gives up and its question stays
\* unanswered.  fan_read's first receive sets the current signal instead of
\* the pending one; get_slot_states goes on with the second slot.
Interrupted ==
    /\ Awaits /\ pmbox # <<>> /\ Head(pmbox).msg # ask
    /\ pmbox' = Tail(pmbox)
    /\ ask' = "none"
    /\ IF worker = "FAN_READ" /\ ask = "GET_SHELF_STATE"
       THEN curnt_signal' = SignalOf(Head(pmbox), curnt_signal) /\ UNCHANGED inauto_signal
       ELSE inauto_signal' = SignalOf(Head(pmbox), inauto_signal) /\ UNCHANGED curnt_signal
    /\ IF worker = "GETSLOTSSTATE"
       THEN dev' = 2 /\ UNCHANGED <<curnt_state, worker, now_presents>>
       ELSE Finish
    /\ clouded' = TRUE
    /\ UNCHANGED <<target, status, books, dcbox, crate, timeouts>>

\* Nothing came for PMBUS_ALARM_TIMEOUT ticks: the next device, please.
Unanswered ==
    /\ Awaits /\ pmbox = <<>>
    /\ timeouts < MaxTimeouts /\ timeouts' = timeouts + 1
    /\ ask' = "none"
    /\ status' = [status EXCEPT ![dev] =
          CASE worker = "FAN_READ" -> [@ EXCEPT !.power = FanMaxPower]
            [] worker = "PASSIVE_CHECK" -> [@ EXCEPT !.power = SlotMaxPower, !.passive = FALSE,
                                                     !.health = "ERROR"]
            [] worker \in {"PROHIBITED", "SMARTSTART"} -> [@ EXCEPT !.health = "ERROR"]
            [] worker = "SLOTS_READ" /\ ask = "GET_SHELF_STATE" ->
                  [@ EXCEPT !.present = FALSE, !.power = 0]
            [] OTHER -> [@ EXCEPT !.power = 0]]
    /\ dev' = CASE worker = "PROHIBITED" /\ Off(dev) -> NSlots
                [] worker = "PROHIBITED" /\ On(dev)  -> dev - 1
                [] OTHER -> dev + 1
    /\ IF worker \in {"SOURCE_READ", "FAN_READ", "PASSIVE_CHECK"}
       THEN Alarm(dev) ELSE UNCHANGED dcbox
    /\ clouded' = TRUE
    /\ UNCHANGED <<fsm, worker, now_presents, books, pmbox, crate>>

Manager == \/ WaitForNotice \/ WaitOutDelay \/ WeighPower \/ LeaveSmartStart \/ PollNotice
           \/ Scan \/ CalcProhib
           \/ HearState \/ HearPower \/ HearSet \/ Interrupted

-----------------------------------------------------------------------------
(* The device controller serves the oldest message in its mailbox, at its    *)
(* own pace: it runs first, but waits for the I2C bus and for delays.        *)

StateReply(kind, d, on) ==
    Message(kind, d,
            [Quiet EXCEPT !.present = plugged[d], !.on = on,
                            !.hotswap = d \in Hotswap \/ d \notin Slots,
                            !.eeprom = d \in Eeprom])

\* topwmng_msg_crate_change and topwmng_msg_profile_change.
Notify(msg) == /\ pmbox' = Posted(pmbox, PMLen, Notice(msg))
               /\ clouded' = (clouded \/ Len(pmbox) = PMLen)

\* _send_shelf_state
ServeGetState(d) ==
    /\ pmbox' = Posted(pmbox, PMLen, StateReply("GET_SHELF_STATE", d, powered[d]))
    /\ UNCHANGED powered

\* _set_state_and_send_state: an absent slot is left alone, the reply is sent.
ServeSetState(d, on) ==
    /\ powered' = [powered EXCEPT ![d] = IF plugged[d] THEN on ELSE @]
    /\ pmbox' = Posted(pmbox, PMLen, StateReply("SET_SHELF_STATE", d, powered'[d]))

\* _send_shelf_power
ServeGetPower(d) ==
    /\ pmbox' = Posted(pmbox, PMLen,
                  Message("GET_SHELF_POWER", d,
                          [Quiet EXCEPT !.power = IF plugged[d] THEN Power[d] ELSE 0]))
    /\ UNCHANGED powered

Serve ==
    /\ dcbox # <<>>
    /\ dcbox' = Tail(dcbox)
    /\ LET m == Head(dcbox) IN
         \/ m.msg = "GET_SHELF_STATE" /\ ServeGetState(m.of) /\ UNCHANGED clouded
         \/ m.msg = "SET_SHELF_STATE" /\ ServeSetState(m.of, m.data.on) /\ UNCHANGED clouded
         \/ m.msg = "GET_SHELF_POWER" /\ ServeGetPower(m.of) /\ UNCHANGED clouded
         \/ m.msg = "FAILURE_SIGNALING" /\ UNCHANGED <<pmbox, powered, clouded>>
         \/ m.msg = "PSU_VALUES" /\ Notify("SHELF_POWER_RECALC") /\ UNCHANGED powered
    /\ UNCHANGED <<fsm, worker, dev, ask, now_presents, status, books, plugged, conf, events,
                   timeouts>>

-----------------------------------------------------------------------------
(* What happens to the crate and to its profile *)

Event == /\ events < MaxEvents /\ events' = events + 1
         /\ UNCHANGED <<fsm, worker, dev, ask, now_presents, status, books, timeouts>>

\* PRESENT_INTERRUPT, handled between two requests: a board is pulled out or
\* plugged in, with its hot swap controller on or off.  Unless the pins of the
\* power supplies cannot be read, the manager gets a notice.
Replug(d) ==
    /\ Event
    /\ plugged' = [plugged EXCEPT ![d] = ~@]
    /\ \E on \in BOOLEAN :
          /\ IF d = Fan THEN on = plugged'[d] ELSE on => plugged'[d] /\ d \in Hotswap
          /\ powered' = [powered EXCEPT ![d] = on]
    /\ \/ Notify("SHELF_POWER_RECALC")
       \/ PinsMayFail /\ clouded' = TRUE /\ UNCHANGED pmbox
    /\ UNCHANGED <<conf, dcbox>>

\* PRESENT_INTERRUPT again: a power supply is seated, pulled out, or its input
\* comes or goes.  The controller tells itself to read its values, unless the
\* input alone changed and its power-good pin did not.
PowerSupply(p) ==
    /\ Event
    /\ \E seated, good \in BOOLEAN :
          /\ <<seated, good>> # <<plugged[p], powered[p]>>
          /\ plugged' = [plugged EXCEPT ![p] = seated]
          /\ powered' = [powered EXCEPT ![p] = good]
    /\ \/ /\ dcbox' = Posted(dcbox, DCLen, Notice("PSU_VALUES"))
          /\ clouded' = (clouded \/ Len(dcbox) = DCLen)
          /\ UNCHANGED pmbox
       \/ plugged' = plugged /\ Notify("SHELF_POWER_RECALC") /\ UNCHANGED dcbox
    /\ UNCHANGED conf

\* The manager is blocked in a receive: only then do the tasks below it run.
Blocked ==
    /\ pmbox = <<>>
    /\ \/ Awaits
       \/ AtSignal /\ curnt_state \in {"INIT", "READY"}
       \/ AtSignal /\ curnt_state = "POWER_DELAY" /\ inauto_signal = "STATIC"

\* The control unit writes a slot's start mode (Slot1Enable .. Slot13Enable).
ProfileChange(d, c) ==
    /\ Event /\ Blocked
    /\ conf[d] # c /\ conf' = [conf EXCEPT ![d] = c]
    /\ Notify("PROF_POWER_RECALC")
    /\ UNCHANGED <<plugged, powered, dcbox>>

\* The measuring task rewrote a power supply's EEPROM, the control unit a slot's.
EepromRewritten ==
    /\ Event /\ Blocked
    /\ Notify("SHELF_POWER_RECALC")
    /\ UNCHANGED <<plugged, powered, conf, dcbox>>

Next ==
    \/ Manager
    \/ Unanswered
    \/ Serve
    \/ \E d \in Slots \cup {Fan} : Replug(d)
    \/ \E p \in Sources : PowerSupply(p)
    \/ \E d \in Slots, c \in Confs : ProfileChange(d, c)
    \/ EepromRewritten

Spec == Init /\ [][Next]_vars

\* Both tasks keep running: nothing above them runs for ever.
FairSpec == Spec /\ WF_vars(Manager) /\ WF_vars(Serve)

-----------------------------------------------------------------------------
(* Properties *)

\* The machine never takes an entry of the table the initializer leaves out,
\* which would silently send it back to POW_STATE_INIT.
NoUnlistedEntry ==
    [][AtSignal /\ <<curnt_signal, worker, curnt_state>>' # <<curnt_signal, worker, curnt_state>>
         => Listed(curnt_state, curnt_signal')]_vars

\* One question is on its way at a time: unless a worker was interrupted or a
\* question timed out, whatever question lies in the controller's mailbox and
\* whatever answer lies in the manager's is the one the worker is blocked on.
Alone(dc, pm, kind, d) ==
    /\ \A i \in DOMAIN dc : dc[i].msg \in Replies => dc[i].msg = kind /\ dc[i].of = d
    /\ \A i \in DOMAIN pm : pm[i].msg \in Replies => pm[i].msg = kind /\ pm[i].of = d
    /\ \A i, j \in DOMAIN dc : dc[i].msg \in Replies /\ dc[j].msg \in Replies => i = j
    /\ \A i, j \in DOMAIN pm : pm[i].msg \in Replies /\ pm[j].msg \in Replies => i = j
    /\ \A i \in DOMAIN dc, j \in DOMAIN pm : ~(dc[i].msg \in Replies /\ pm[j].msg \in Replies)

OnlyQuestion == ~clouded => Alone(dcbox, pmbox, ask, dev)

\* The crate is quiet: the manager has nothing left to do.
AtRest == AtSignal /\ curnt_state = "READY" /\ pmbox = <<>> /\ dcbox = <<>>

\* The start modes of the profile rule the crate at rest: a board whose slot is
\* prohibited is off, and a board of a certain start whose hot swap controller
\* and EEPROM answer is on.  A board that takes no power is the exception: once
\* it is on it passes for passive, and a passive board is not switched on again.
Answers(d) == d \in Hotswap /\ d \in Eeprom /\ Power[d] > 0

ProfileObeyed ==
    \A d \in Slots : plugged[d] =>
        /\ conf[d] = "Prohibited" => ~powered[d]
        /\ conf[d] = "IgnorantStart" /\ Answers(d) => powered[d]

RestObeysProfile == AtRest /\ ~clouded => ProfileObeyed

\* What the crate really has to give away and what is drawn from it.
TrueRated == {Power[p] : p \in {q \in Sources : plugged[q] /\ powered[q]}} \ {0}
TrueLimit == IF LimitSource = "ProfileValue" THEN PowerLimit
             ELSE IF TrueRated = {} THEN MinReserve ELSE Min(TrueRated)
TrueDraw  == SumFunctionOnSet(Power, {d \in Slots \cup {Fan} : plugged[d] /\ powered[d]})
TrueSpare == TrueLimit - PowerCU - MinReserve - TrueDraw

\* At rest the manager's books, which the profile shows the operator, are the
\* truth about every device, and no more power is promised than there is.
BooksTrueAtRest ==
    AtRest /\ ~clouded =>
        /\ \A d \in Devices : Here(d) = plugged[d] /\ (plugged[d] => On(d) = powered[d])
        /\ actualAvailablePowerLimit <= TrueSpare

\* News of the crate is on its way to the manager.
NewsPending == \/ \E i \in DOMAIN pmbox : pmbox[i].msg = "SHELF_POWER_RECALC"
               \/ \E i \in DOMAIN dcbox : dcbox[i].msg = "PSU_VALUES"

\* A careful start never overdraws the power supplies: when the controller
\* switches a board on for calc_smartly the reserve is still there afterwards,
\* unless the crate has just changed and the manager is about to be told.
SmartStartWithinBudget ==
    [][worker = "SMARTSTART" /\ ~clouded /\ ~NewsPending /\ plugged' = plugged
         /\ (\E d \in Slots : ~powered[d] /\ powered'[d])
         => TrueSpare' >= 0]_vars

\* The manager comes to rest again and again, or its pass is disturbed: no
\* worker's loop and no cycle of transitions goes on for ever by itself.
Rests == AtSignal /\ curnt_state \in {"INIT", "READY"}

UndisturbedPassEnds == []<>(Rests \/ clouded)

-----------------------------------------------------------------------------
(* The invariant that carries RestObeysProfile, BooksTrueAtRest and          *)
(* SmartStartWithinBudget: what one pass has established so far              *)

\* The steps of a pass in their order; what comes before it counts as none.
Order == [INIT |-> 0, GETSLOTSSTATE |-> 0, POWER_DELAY |-> 0, SOURCE_READ |-> 1,
          FAN_READ |-> 2, SLOTS_READ |-> 3, PASSIVE_CHECK |-> 4, FAN_ON |-> 5,
          POWEROFF_IGNORANT |-> 6, POWER_RESRV_CALC |-> 7, PROHIBITED |-> 8,
          SMARTSTART |-> 9, READY |-> 10]

\* Step w of the pass is behind the manager, for all devices or for device d.
Over(w)      == IF AtSignal THEN Order[curnt_state] >= Order[w] ELSE Order[worker] > Order[w]
Passed(w, d) == Over(w) \/ (worker = w /\ d < dev)
Read(d)      == CASE d \in Sources -> Passed("SOURCE_READ", d)
                  [] d = Fan       -> Passed("FAN_READ", d)
                  [] OTHER         -> Passed("SLOTS_READ", d)

\* The two questions of a worker that reads: the state is known when it asks
\* for the power.
StateRead(d) == Read(d) \/ (ask = "GET_SHELF_POWER" /\ d = dev)

ReadWorkers == {"SOURCE_READ", "FAN_READ", "SLOTS_READ"}
SetWorkers  == {"POWER_DELAY", "POWEROFF_IGNORANT", "PROHIBITED", "SMARTSTART"}

\* Where each worker's loop stands, what it leads to and what it may ask.
Flow ==
    /\ ~AtSignal => \/ target = worker
                    \/ worker = "POWER_DELAY" /\ target = "INIT"
    /\ AtSignal => ask = "none"
    /\ worker \notin {"INIT", "FAN_ON", "READY"}
    /\ CASE worker = "SOURCE_READ" -> dev \in NSlots + 1 .. Fan
         [] worker = "FAN_READ"    -> dev \in {Fan, Fan + 1}
         [] worker = "PROHIBITED"  -> dev \in 0 .. NSlots + 1
         [] worker = "none"        -> dev \in 0 .. Fan + 1
         [] OTHER                  -> dev \in 1 .. NSlots + 1
    /\ ask # "none" => dev \in DevicesOf(worker)
    /\ ask = "GET_SHELF_POWER" => worker \in ReadWorkers
    /\ ask = "SET_SHELF_STATE" => worker \in SetWorkers
    /\ ask = "GET_SHELF_STATE" => worker \in ReadWorkers \cup {"GETSLOTSSTATE", "PASSIVE_CHECK"}

\* A signal of the power balance is current only on the way from calc_prohib
\* to the end of the pass.
BalanceSignal ==
    curnt_signal \in {"POW_POSITIVE", "POW_NEGATIVE"} =>
        \/ AtSignal /\ curnt_state \in {"SMARTSTART", "READY"}
        \/ worker = "SMARTSTART" /\ curnt_state = "PROHIBITED"

\* A notice about the profile is posted only while the manager is blocked, so
\* it is the first thing the manager sees.
ProfileNoticeFirst ==
    \A i \in DOMAIN pmbox : pmbox[i].msg = "PROF_POWER_RECALC" =>
        i = 1 /\ (Awaits \/ (AtSignal /\ curnt_state \in {"INIT", "READY", "POWER_DELAY"}))

\* The manager's books agree with what it believes of the devices.
Drawing == {d \in Slots : Here(d) /\ On(d)}

AskedOn == worker = "SMARTSTART" \/ (worker = "PROHIBITED" /\ Off(dev))

Known == \A d \in Devices : StateRead(d) => status[d].on # "UNKNOWN"

Budget ==
    /\ Over("POWER_RESRV_CALC") \/ worker = "POWER_RESRV_CALC" => powerLimitSource = SourceLimit
    /\ worker = "PROHIBITED" => power_slots_now = Draw(Drawing)
    /\ Over("PROHIBITED") => actualAvailablePowerLimit = Spare(Draw(Drawing))

Asking ==
    /\ ask = "GET_SHELF_POWER" => Here(dev) /\ (dev \in Slots \/ On(dev))
    /\ ask = "GET_SHELF_STATE" /\ worker = "PASSIVE_CHECK" => status[dev].power = 0
    /\ ask = "SET_SHELF_STATE" =>
          /\ worker \in {"PROHIBITED", "SMARTSTART"} => Here(dev)
          /\ worker = "SMARTSTART" => /\ ~On(dev) /\ Affordable(dev)
                                      /\ recuredPower = status[dev].power

Bidden ==
    \A i \in DOMAIN dcbox : dcbox[i].msg = "SET_SHELF_STATE" => dcbox[i].data.on = AskedOn

Balanced == inauto_signal = "STATIC" /\ Known /\ Budget /\ Asking /\ Bidden

\* What the manager believes of the devices it has read, and the answers on
\* their way to it, are the truth; it has yet to learn what its last request
\* to switch has done.
Switched == ask = "SET_SHELF_STATE" /\ \A i \in DOMAIN dcbox : dcbox[i].msg # "SET_SHELF_STATE"
SetDone  == \E i \in DOMAIN pmbox : pmbox[i].msg = "SET_SHELF_STATE"

StateTrue(d) ==
    /\ Here(d) = plugged[d]
    /\ plugged[d] => (On(d) = powered[d]) \/ (Switched /\ d = dev)
    /\ d \in Slots /\ plugged[d] /\ Answers(d) => status[d].health = "OK" /\ ~status[d].passive

PowerTrue(d) ==
    IF d \in Slots THEN plugged[d] => status[d].power >= Power[d]
    ELSE status[d].power = IF plugged[d] /\ powered[d] THEN Power[d] ELSE 0

AnswerTrue(m) ==
    IF m.msg = "GET_SHELF_POWER"
    THEN m.data.power = IF plugged[m.of] THEN Power[m.of] ELSE 0
    ELSE /\ m.data.present = plugged[m.of] /\ m.data.on = powered[m.of]
         /\ m.data.hotswap = (m.of \in Hotswap \/ m.of \notin Slots)
         /\ m.data.eeprom = (m.of \in Eeprom)

Believed == \A d \in Devices : (StateRead(d) => StateTrue(d)) /\ (Read(d) => PowerTrue(d))

Answered ==
    /\ \A i \in DOMAIN pmbox : pmbox[i].msg \in Replies => AnswerTrue(pmbox[i])
    /\ SetDone /\ plugged[dev] => powered[dev] = AskedOn

Truthful == Believed /\ Answered

\* The slots dealt with so far are as the profile has them, and what is asked
\* for is what the profile has for the slot.
Dealt ==
    \A d \in Slots :
        /\ Passed("POWEROFF_IGNORANT", d) /\ plugged[d] /\ conf[d] = "Prohibited" => ~On(d)
        /\ Over("PROHIBITED") /\ Switchable(d) /\ conf[d] = "IgnorantStart" => On(d)

Meant ==
    ask = "SET_SHELF_STATE" =>
        /\ worker = "SMARTSTART" => conf[dev] = "SmartlyStart"
        /\ worker = "PROHIBITED" =>
              conf[dev] = IF Off(dev) THEN "IgnorantStart" ELSE "SmartlyStart"

Obedient == Dealt /\ Meant

ProfilePending == \E i \in DOMAIN pmbox : pmbox[i].msg = "PROF_POWER_RECALC"

\* Only a power supply's input may be good without the device being there.
Seated == \A d \in Slots \cup {Fan} : powered[d] => plugged[d]

Pass ==
    /\ Balanced
    /\ ~NewsPending => Truthful
    /\ ~NewsPending /\ ~ProfilePending => Obedient

\* Whatever the manager has read, reckoned and switched so far is right, as long
\* as no answer of this pass was lost and no news is on its way.
PassInv == Flow /\ BalanceSignal /\ Seated /\ (~clouded => ProfileNoticeFirst /\ Pass)

-----------------------------------------------------------------------------
(* What the code's comments claim and the code does not do *)

\* A slot's update function sends the "command to reconsider which devices are
\* on" (T8_Dnepr_Profile_params.c:1617): once everything is quiet, a board whose
\* slot is prohibited is off.
ProhibitedIsOff ==
    AtRest /\ timeouts = 0 =>
        \A d \in Slots : plugged[d] /\ conf[d] = "Prohibited" => ~powered[d]

\* The table ends with the rows "waiting changes" (power_managment.c:129): every
\* pass gets there, also one during which the crate or the profile changed.
PassEnds == []<>Rests

\* POW_STATE_INIT is "waiting for the signal that the configuration changed"
\* (power_managment.h:25): once that signal has come and everything is quiet,
\* the manager is not back there with what it has read.
InitAwaitsSignal ==
    AtSignal /\ curnt_state = "INIT" /\ pmbox = <<>> /\ dcbox = <<>>
        => status = [d \in Devices |-> Unread]
=============================================================================
