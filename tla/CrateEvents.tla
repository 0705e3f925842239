----------------------------- MODULE CrateEvents -----------------------------
(* What happens in the crate and how the device controller's task             *)
(* (Threads/src/threadDeviceController.c) learns of it: boards are plugged    *)
(* and pulled, hot swap controllers raise alarms, the profile's settings of   *)
(* the fans change.  Interrupt handlers post messages to the task; meanwhile  *)
(* the measuring task (Threads/src/threadMeasure.c) reads the same registers  *)
(* and drives the fans the task asks for.  The questions of the shelf manager *)
(* to the task are in ShelfManager.                                           *)
EXTENDS Integers, Sequences, SequencesExt, FiniteSetsExt

CONSTANTS
  N,           \* slots of boards, I2C_DNEPR_FAN_SLOT_NUM
  Other,       \* a device on the bus that is not in __hs_slot_addresses
  Powers,      \* what a board takes, as its EEPROM says
  Crates,      \* bound: the boards there may be at first
  Threshold75, \* val_FUFanThreshold75
  Threshold90, \* val_FUFanThreshold90
  AutoMode,    \* val_FUFanMode = 0
  Speeds,      \* val_FUFanSpeedSet, when it is not
  MaxAra,      \* max_pmbus_addr_cnt
  Delay,       \* __fan_last_presence_delay
  MaxEvents    \* bound: boards plugged or pulled, faults, changes of the fans'
               \* settings and failures to start them, together

Slots == 1 .. N
Devices == Slots \cup {Other}

ASSUME CrateAssumption ==
  /\ N \in Nat \ {0} /\ Other \notin Slots
  /\ Powers \subseteq Nat \ {0}
  /\ Crates \subseteq [Slots -> Powers \cup {0}]
  /\ AutoMode \notin Speeds
  /\ MaxAra \in Nat \ {0} /\ Delay \in Nat

VARIABLES
  \* the crate
  board,     \* power of the board in each slot, 0 if there is none
  unread,    \* the expander's interrupt: it changed and was not read
  fault,     \* devices with a fault in their registers
  alerting,  \* devices that hold the alert line
  speed,     \* of the fans
  \* the interrupt controller and the clock
  edge3, edge4,
  uptime,    \* llUptime in units of __present_react_timeout, up to 2
  \* the device controller
  box,       \* its messages
  dc,        \* where it is; prev_presents; i; pluginout; pmbus_addr
  raw,       \* tCuPresentDevices
  processed, \* __processed_slots_present
  power,     \* __fSlotPower
  pres,      \* __pres_uptime, in the units of uptime
  last,      \* how long ago __last_pmbus_alarm is
  young,     \* slots for which SLOT_PLUGIN_TIMEOUT is not over
  \* the measuring task
  measure,   \* where it is, and the register it read
  seen,      \* __fan_last_presence
  want,      \* __fan_power
  setFans,   \* __set_fans_power
  setting,   \* the profile's
  events,    \* counts them, up to MaxEvents
  unseen,    \* auxiliary: slots whose change was read by another than looks for it
  skipped    \* auxiliary: devices that answered and were not asked why

crate == <<board, unread, fault, alerting, speed>>
control == <<box, dc, raw, processed, power, pres, last, young>>
measuring == <<measure, seen, want, setFans>>
ghosts == <<unseen, skipped>>
vars == <<crate, edge3, edge4, uptime, control, measuring, setting, events, ghosts>>

Present == [s \in Slots |-> board[s] > 0]

NotRead == [s \in Slots |-> FALSE]

Waiting == [pc |-> "wait", prev |-> NotRead, at |-> 1,
            in |-> FALSE, answered |-> <<>>]

\* __slot_power_onoff_init has run, no task has
Init ==
  /\ board \in Crates
  /\ unread = FALSE /\ fault = {} /\ alerting = {} /\ speed = 0
  /\ edge3 = FALSE /\ edge4 = FALSE /\ uptime = 0
  /\ box = <<>> /\ dc = [Waiting EXCEPT !.pc = "start"]
  /\ raw = Present /\ processed = Present /\ power = board
  /\ pres = 0 /\ last = "now" /\ young = Slots
  /\ measure = [pc |-> "read", got |-> NotRead]
  /\ seen = 0 /\ want = 0 /\ setFans = TRUE
  /\ setting = AutoMode
  /\ events = 0
  /\ unseen = {} /\ skipped = {}

Event == events < MaxEvents /\ events' = events + 1

Post(m) == box' = Append(box, m)

-----------------------------------------------------------------------------
(* The crate.                                                                 *)

\* a board is plugged or pulled; the expander interrupts until it is read
Replug ==
  /\ Event
  /\ \E s \in Slots : \E p \in Powers \cup {0} :
       /\ (board[s] = 0) # (p = 0)
       /\ board' = [board EXCEPT ![s] = p]
  /\ unread' = TRUE
  /\ edge3' = (edge3 \/ ~unread)
  /\ UNCHANGED <<fault, alerting, speed, edge4, uptime, control, measuring,
                 setting, ghosts>>

\* a hot swap controller, or another device, finds a fault
Fault ==
  /\ Event
  /\ \E d \in Devices \ fault :
       /\ fault' = fault \cup {d}
       /\ alerting' = alerting \cup {d}
  /\ edge4' = (edge4 \/ alerting = {})
  /\ UNCHANGED <<board, unread, speed, edge3, uptime, control, measuring,
                 setting, ghosts>>

\* the operator changes the settings of the fans (fufanmode_update and others)
Setting ==
  /\ Event
  /\ setting' \in (Speeds \cup {AutoMode}) \ {setting}
  /\ Post("fans")
  /\ UNCHANGED <<crate, edge3, edge4, uptime, dc, raw, processed, power, pres,
                 last, young, measuring, ghosts>>

\* time goes by
Tick ==
  /\ \/ /\ uptime < 2 /\ uptime' = uptime + 1 /\ UNCHANGED <<last, young>>
     \/ /\ last = "now" /\ last' = "recent" /\ UNCHANGED <<uptime, young>>
     \/ /\ last = "recent" /\ uptime = 2 /\ last' = "old" /\ UNCHANGED <<uptime, young>>
     \/ /\ uptime = 2 /\ young # {} /\ young' = {}
        /\ UNCHANGED <<uptime, last>>
  /\ UNCHANGED <<crate, edge3, edge4, box, dc, raw, processed, power, pres,
                 measuring, setting, events, ghosts>>

-----------------------------------------------------------------------------
(* Interrupt handlers.                                                        *)

\* Dnepr_DControl_Present_Interrupt: not too early, and not too soon after the
\* time it noted -- which is always the same
Accepted ==
  LET diff == IF uptime >= pres THEN uptime - pres ELSE uptime
  IN  uptime > 0 /\ diff >= 1

\* isr_EdgePortISR3, if the interrupt is still there
PresentInterrupt ==
  /\ edge3
  /\ edge3' = FALSE
  /\ IF unread /\ Accepted
     THEN Post("present") /\ pres' = 1
     ELSE UNCHANGED <<box, pres>>
  /\ UNCHANGED <<crate, edge4, uptime, dc, raw, processed, power, last, young,
                 measuring, setting, events, ghosts>>

\* isr_EdgePortISR4
AlarmInterrupt ==
  /\ edge4
  /\ edge4' = FALSE
  /\ Post("alarm")
  /\ UNCHANGED <<crate, edge3, uptime, dc, raw, processed, power, pres, last,
                 young, measuring, setting, events, ghosts>>

-----------------------------------------------------------------------------
(* The device controller.                                                     *)
GoTo(pc) == dc' = [dc EXCEPT !.pc = pc]

\* the comparison with prev_presents will yet look at slot s
WillCompare(s) ==
  \/ dc.pc = "delay"
  \/ dc.pc = "compare" /\ dc.at <= s
  \/ dc.pc = "plug" /\ dc.at < s

\* The presences become what was read.  A slot that changes thereby and is not
\* compared any more stays as it was.
Refresh(now) ==
  /\ raw' = now
  /\ unseen' = unseen \cup {s \in Slots : now[s] # raw[s] /\ ~WillCompare(s)}

\* taskDeviceController up to its loop
Start ==
  /\ dc.pc = "start"
  /\ Refresh(Present) /\ unread' = FALSE
  /\ Post("fans")
  /\ last' = "now"
  /\ dc' = Waiting
  /\ UNCHANGED <<board, fault, alerting, speed, edge3, edge4, uptime, processed,
                 power, pres, young, measuring, setting, events, skipped>>

Receive(m) == dc.pc = "wait" /\ box # <<>> /\ Head(box) = m /\ box' = Tail(box)

\* PRESENT_INTERRUPT: a copy of the presences, then a delay
Copy ==
  /\ Receive("present")
  /\ dc' = [dc EXCEPT !.pc = "delay", !.prev = raw]
  /\ UNCHANGED <<crate, edge3, edge4, uptime, raw, processed, power, pres, last,
                 young, measuring, setting, events, ghosts>>

\* Dnepr_Refresh_Presents
Reread ==
  /\ dc.pc = "delay"
  /\ Refresh(Present) /\ unread' = FALSE
  /\ dc' = [dc EXCEPT !.pc = "compare", !.at = 1]
  /\ UNCHANGED <<board, fault, alerting, speed, edge3, edge4, uptime, box,
                 processed, power, pres, last, young, measuring, setting, events,
                 skipped>>

\* mutant: the last slot is not looked at
SlotsLeftButLast == dc.at < N

SlotsLeft == dc.at <= N

Compare ==
  /\ dc.pc = "compare"
  /\ IF ~SlotsLeft THEN dc' = Waiting /\ UNCHANGED unseen
     ELSE IF raw[dc.at] = dc.prev[dc.at]
     THEN dc' = [dc EXCEPT !.at = @ + 1] /\ UNCHANGED unseen
     ELSE /\ dc' = [dc EXCEPT !.pc = "plug", !.in = raw[dc.at]]
          /\ unseen' = unseen \ {dc.at}
  /\ UNCHANGED <<crate, edge3, edge4, uptime, box, raw, processed, power, pres,
                 last, young, measuring, setting, events, skipped>>

\* Dnepr_DControl_MaxPower, of the powers given
MaxPower(powers) == Max({powers[s] : s \in Slots})

\* what __set_fans asks for, in % of the fans' range
Wanted(powers) ==
  IF setting # AutoMode THEN setting
  ELSE IF MaxPower(powers) <= Threshold75 THEN 50
  ELSE IF MaxPower(powers) <= Threshold90 THEN 75 ELSE 90

\* __set_fans with Dnepr_Measure_UpdateFansRPM
SetFans(powers) == want' = Wanted(powers) /\ setFans' = TRUE

\* __slot_power_dev_plug and what follows for one slot; the board's EEPROM may
\* not answer, nor its hot swap controller
Plug ==
  /\ dc.pc = "plug"
  /\ processed' = [processed EXCEPT ![dc.at] = dc.in]
  /\ IF dc.in
     THEN /\ \E p \in {board[dc.at], 0} : power' = [power EXCEPT ![dc.at] = p]
          /\ \E s \in {{dc.at}, {}} : young' = young \cup s
     ELSE /\ power' = [power EXCEPT ![dc.at] = 0]
          /\ UNCHANGED young
  /\ SetFans(power')
  /\ dc' = [dc EXCEPT !.pc = "compare", !.in = FALSE, !.at = @ + 1]
  /\ UNCHANGED <<crate, edge3, edge4, uptime, box, raw, pres, last, measure,
                 seen, setting, events, ghosts>>

\* FAN_SETTINGS_CHANGED
SettingsChanged ==
  /\ Receive("fans")
  /\ SetFans(power)
  /\ UNCHANGED <<crate, edge3, edge4, uptime, dc, raw, processed, power, pres,
                 last, young, measure, seen, setting, events, ghosts>>

\* PMBUS_ALARM: alarms soon after the last one are dropped, unless it is the
\* same tick, which is taken for an overflow of the clock
Alarm ==
  /\ Receive("alarm")
  /\ IF last = "recent" THEN UNCHANGED <<dc, last>>
     ELSE GoTo("ara") /\ last' = "now"
  /\ UNCHANGED <<crate, edge3, edge4, uptime, raw, processed, power, pres, young,
                 measuring, setting, events, ghosts>>

\* mutant: the line is not looked at when there are no messages
PollsNever == FALSE

\* no message for PMBUS_ALARM_TIMEOUT: the line is looked at
Polls == box = <<>> /\ alerting # {} /\ last = "old"

Poll ==
  /\ dc.pc = "wait" /\ Polls
  /\ GoTo("ara") /\ last' = "now"
  /\ UNCHANGED <<crate, edge3, edge4, uptime, box, raw, processed, power, pres,
                 young, measuring, setting, events, ghosts>>

\* __pmbus_alarm_handler: while the line is held, one device after the other
\* says its address and lets go of it
ReadAra ==
  /\ dc.pc = "ara"
  /\ IF alerting # {} /\ Len(dc.answered) < MaxAra
     THEN \E d \in alerting :
            /\ alerting' = alerting \ {d}
            /\ dc' = [dc EXCEPT !.answered = Append(@, d)]
     ELSE GoTo("ask") /\ UNCHANGED alerting
  /\ UNCHANGED <<board, unread, fault, speed, edge3, edge4, uptime, box, raw,
                 processed, power, pres, last, young, measuring, setting, events,
                 ghosts>>

\* mutant: only the first device is asked
RemainingNone == <<>>

\* the devices still to be asked after the one at hand
Remaining == Tail(dc.answered)

\* then each is asked for its faults, which are reported and reset; a device
\* that is unknown or new ends it for all
AskFaults ==
  /\ dc.pc = "ask"
  /\ IF dc.answered = <<>>
     THEN dc' = Waiting /\ UNCHANGED <<fault, skipped>>
     ELSE IF Head(dc.answered) \in young \cup {Other}
     THEN /\ skipped' = skipped \cup ToSet(dc.answered)
          /\ dc' = Waiting
          /\ UNCHANGED fault
     ELSE /\ fault' = fault \ {Head(dc.answered)}
          /\ dc' = [dc EXCEPT !.answered = Remaining]
          /\ UNCHANGED skipped
  /\ UNCHANGED <<board, unread, alerting, speed, edge3, edge4, uptime, box, raw,
                 processed, power, pres, last, young, measuring, setting, events,
                 unseen>>

Control ==
  \/ Start \/ Copy \/ Reread \/ Compare \/ Plug
  \/ SettingsChanged \/ Alarm \/ Poll \/ ReadAra \/ AskFaults

-----------------------------------------------------------------------------
(* The measuring task.  The device controller has the higher priority, but    *)
(* blocks on buses and delays.                                                *)
Step(pc) == measure' = [measure EXCEPT !.pc = pc]

\* Dnepr_DControl_fun_process_present reads the presences of all the slots ...
ReadPresents ==
  /\ measure.pc = "read"
  /\ measure' = [pc |-> "start", got |-> Present]
  /\ unread' = FALSE
  /\ UNCHANGED <<board, fault, alerting, speed, edge3, edge4, uptime, control,
                 seen, want, setFans, setting, events, ghosts>>

\* mutant: the count goes on when the fans have been started
CountedOn == seen + 1

\* __fan_last_presence when nothing is started
Counted == IF seen < Delay THEN seen + 1 ELSE seen

\* mutant: a start of the fans does not ask for their speed
RequestedBefore(started) == setFans /\ started

\* __set_fans_power after an attempt to start the fans
Requested(started) == started

\* ... and makes use of one: the fans are started once they have been there
\* for a while.  A failure drops the request to set them, and is followed by
\* another start.
StartFans ==
  /\ measure.pc = "start"
  /\ Refresh(measure.got)
  /\ \/ /\ seen # Delay
        /\ seen' = Counted
        /\ UNCHANGED <<setFans, events>>
     \/ /\ seen = Delay
        /\ \/ setFans' = Requested(TRUE) /\ seen' = Delay + 1 /\ UNCHANGED events
           \/ setFans' = Requested(FALSE) /\ seen' = 0 /\ Event
  /\ measure' = [pc |-> "apply", got |-> NotRead]
  /\ UNCHANGED <<crate, edge3, edge4, uptime, box, dc, processed, power, pres,
                 last, young, want, setting, skipped>>

\* the request is taken ...
TakeRequest ==
  /\ measure.pc = "apply"
  /\ IF setFans THEN Step("set") ELSE Step("read")
  /\ setFans' = FALSE
  /\ UNCHANGED <<crate, edge3, edge4, uptime, control, seen, want, setting,
                 events, ghosts>>

\* ... and carried out, if the fans' calibration was read
SetSpeed ==
  /\ measure.pc = "set"
  /\ speed' = IF seen > Delay THEN want ELSE speed
  /\ Step("read")
  /\ UNCHANGED <<board, unread, fault, alerting, edge3, edge4, uptime, control,
                 seen, want, setFans, setting, events, ghosts>>

Measure == ReadPresents \/ StartFans \/ TakeRequest \/ SetSpeed

-----------------------------------------------------------------------------
Interrupt == PresentInterrupt \/ AlarmInterrupt

Next == Replug \/ Fault \/ Setting \/ Tick \/ Interrupt \/ Control \/ Measure

\* Interrupts are served, both tasks run, time goes by; nothing obliges the
\* crate to change.
Fairness ==
  WF_vars(Interrupt) /\ WF_vars(Control) /\ WF_vars(Measure) /\ WF_vars(Tick)

Spec == Init /\ [][Next]_vars /\ Fairness

-----------------------------------------------------------------------------
\* The variables keep to their types.
TypeOK ==
  /\ board \in [Slots -> Powers \cup {0}] /\ power \in [Slots -> Powers \cup {0}]
  /\ fault \subseteq Devices /\ alerting \subseteq fault
  /\ uptime \in 0 .. 2 /\ pres \in 0 .. 1
  /\ raw \in [Slots -> BOOLEAN] /\ processed \in [Slots -> BOOLEAN]
  /\ last \in {"now", "recent", "old"} /\ young \subseteq Slots
  /\ dc.pc \in {"start", "wait", "delay", "compare", "plug", "ara", "ask"}
  /\ dc.at \in 1 .. N + 1
  /\ Len(dc.answered) <= MaxAra
  /\ ToSet(box) \subseteq {"present", "fans", "alarm"}
  /\ measure.pc \in {"read", "start", "apply", "set"}
  /\ seen \in 0 .. Delay + 1
  /\ unseen \subseteq Slots /\ skipped \subseteq Devices

(* A slot whose change the shelf manager was not told of is one the comparison *)
(* under way will still find changed, or its change was read by another than   *)
(* looks for it.                                                               *)
ChangesOwed ==
  \A s \in Slots \ unseen : processed[s] # raw[s] =>
    \/ WillCompare(s) /\ dc.prev[s] = processed[s]
    \/ dc.pc = "plug" /\ dc.at = s /\ dc.in = raw[s]

(* A device that has let go of the alert line and still has its fault is one   *)
(* the controller is about to ask, unless it was skipped.                      *)
FaultsOwed == fault \ alerting \subseteq ToSet(dc.answered) \cup skipped

(* The speed asked for is the one that settings and powers call for, unless a  *)
(* message says that the settings changed; and the fans, once started, turn at *)
(* it, unless the request is there or being carried out.                       *)
SpeedOwed ==
  /\ dc.pc # "start" /\ "fans" \notin ToSet(box) => want = Wanted(power)
  /\ seen > Delay /\ ~setFans /\ measure.pc # "set" => speed = want

(* Once the crate is left alone, the shelf manager is told the truth of every *)
(* slot, save those whose change the measuring task, or the start of the      *)
(* device controller's, read before it was looked for.                        *)
EventuallyKnown ==
  <>[](\A s \in Slots \ unseen : processed[s] = Present[s])

(* No alert is left standing, and a fault is reported and reset unless its    *)
(* device answered together with one that was unknown or new.                 *)
EventuallyAnswered ==
  <>[](alerting = {} /\ fault \subseteq skipped)

(* The fans end at the speed that the settings and the powers of the boards   *)
(* call for, whatever requests and starts of the fans came in between.        *)
EventuallyCooled == <>[](speed = Wanted(power))
=============================================================================
