------------------------------- MODULE Measure -------------------------------
(* The measuring task (Threads/src/threadMeasure.c): round after round it     *)
(* measures, fills one of two buffers with the dynamic parameters while the   *)
(* control unit's task answers from the other, and carries out what other     *)
(* tasks have left for it in flags: lamps, lasers, modes of the switch, and   *)
(* the EEPROMs of the boards (HAL/BSP/src/T8_Dnepr_SlotEEPROM.c).  The others *)
(* have higher priorities and may come in at any time.                        *)
EXTENDS Integers, Sequences, SequencesExt

CONSTANTS
  Slots,     \* slots of boards
  Contents,  \* what an operator may write to a board's EEPROM
  Old,       \* what it holds at first
  Blank,     \* a section whose length is 0xFFFFFFFF
  Torn,      \* a section whose CRC does not match
  LongPress, \* rounds after which a press of the front panel's button is over (25)
  MaxAsks,   \* bound: twice the requests, and the rounds that find the button down
  MaxChanges \* bound: changes of the temperatures

ASSUME MeasureAssumption ==
  /\ Old \notin Contents /\ Blank \notin Contents \cup {Old}
  /\ Torn \notin Contents \cup {Old, Blank}
  /\ LongPress \in Nat \ {0, 1}

VARIABLES
  hot,      \* the parameters that are too hot
  dyn,      \* dyn_param: two buffers (fresh is auxiliary: filled in this time)
  app,      \* APP_PARAM_BUFF, the buffer being filled
  gl,       \* GL_PARAM_BUFF, the buffer answers are made from
  ready,    \* GL_PARAM_BUFF_RDY
  alarm,    \* mAlarm1State, mAlarm2State
  wanted,   \* __led_status, __sfp_1_on, __sfp_2_on, autoneg_state_now[].state
  changed,  \* __led_status_changed, __sfp_on_changed, changed_flag
  device,   \* what was last written to the lamps, the lasers and the switch
  button_cnt, \* rounds the button was found down
  signal,   \* the lamps were last set to tell of the button, not of the status
  params,   \* __eeprom_params
  slotReq,  \* __sl_eeprom_num, __sl_eeprom_write
  opt,      \* __opt_eeprom_data
  optReq,   \* __sl_opt_eeprom_num, _data, _write, _clear
  eeprom,   \* the first section of each board's EEPROM
  section,  \* the optional section
  m,        \* where the task is and what it has in hand
  asks,     \* counts requests and rounds with the button down, up to MaxAsks
  changes,  \* counts changes, up to MaxChanges
  newest,   \* auxiliary: the buffer of the last round completed
  overtaken,\* auxiliary: flags set between their use and their clearing
  asked,    \* auxiliary: what each section was last asked to hold
  clashed   \* auxiliary: a request for an EEPROM met one not yet done

buffers == <<dyn, app, gl, ready, alarm, newest>>
button == <<button_cnt, signal>>
flags == <<wanted, changed, device, button, overtaken>>
eeproms == <<params, slotReq, opt, optReq, eeprom, section, asked, clashed>>
vars == <<hot, buffers, flags, eeproms, m, asks, changes>>

\* A parameter before ALARM1 and ALARM2 in the table and one behind them (TCase)
Params == <<"first", "alarm", "case">>
Measured == {"first", "case"}

\* the flags that are cleared when the work is done, and what each stands for
Late == {"leds", "sfp", "autoneg1", "autoneg2"}
Once == Late \ {"leds"} \* only a request sets them: see Release
Parts == [k \in Late |-> CASE k = "leds" -> {"power", "cpu", "alarm"}
                           [] k = "sfp"  -> {"first", "second"}
                           [] OTHER      -> {"state"}]
AllOff == [k \in Late |-> [p \in Parts[k] |-> FALSE]]

\* what the task looks at after it has filled a buffer, in this order
Steps == <<"leds", "slot", "write", "clear", "sfp", "autoneg1", "autoneg2">>

\* what it has in hand: a value, a slot, and whether the memory it is writing
\* from was changed meanwhile
Collecting == [pc |-> "collect", at |-> 1, hand |-> Old, num |-> 0, spoilt |-> FALSE]

Cell == [red |-> FALSE, fresh |-> FALSE]
NoRound == 2

Init ==
  /\ hot \in SUBSET Measured
  /\ newest = NoRound
  /\ dyn = [b \in {0, 1} |-> [p \in ToSet(Params) |-> Cell]]
  /\ app = 0 /\ gl = 0 /\ ready = [b \in {0, 1} |-> FALSE] /\ alarm = FALSE
  /\ wanted = AllOff /\ device = AllOff
  /\ changed = [k \in Late |-> k = "leds"]
  /\ button_cnt = 0 /\ signal = FALSE
  /\ params = Old
  /\ slotReq = [num |-> 0, write |-> FALSE]
  /\ opt = [s \in Slots |-> [len |-> "wild", data |-> Old]]
  /\ optReq = [num |-> 0, data |-> 0, write |-> FALSE, clear |-> FALSE]
  /\ eeprom = [s \in Slots |-> Old] /\ section = [s \in Slots |-> Blank]
  /\ m = Collecting
  /\ asks = 0 /\ changes = 0
  /\ overtaken = {} /\ clashed = FALSE
  /\ asked = [eeprom |-> eeprom, section |-> section]

-----------------------------------------------------------------------------
(* The other tasks.                                                           *)
Change ==
  /\ changes < MaxChanges /\ changes' = changes + 1
  /\ \E p \in Measured : hot' = (hot \ {p}) \cup ({p} \ hot)
  /\ UNCHANGED <<buffers, flags, eeproms, m, asks>>

Asking == asks + 2 <= MaxAsks /\ asks' = asks + 2

Doing(step) == m.pc = "doing" /\ Steps[m.at] = step

\* Dnepr_Measure_SetPowerLed and its neighbours, Dnepr_Measure_SFP_ChangeState,
\* dnepr_measure_SFP_change_autoneg_mode: only a change sets the flag.
Want(k, p, on) ==
  /\ wanted' = [wanted EXCEPT ![k][p] = on]
  /\ changed' = [changed EXCEPT ![k] = @ \/ wanted[k][p] # on]

Ask(k, p) ==
  /\ Asking
  /\ <<k, p>> # <<"leds", "alarm">>
  /\ Want(k, p, ~wanted[k][p])
  /\ overtaken' = overtaken \cup (IF Doing(k) THEN {k} \cap Once ELSE {})
  /\ UNCHANGED <<hot, buffers, device, button, eeproms, m, changes>>

\* a request for an EEPROM has not been carried out
Outstanding ==
  \/ slotReq.write \/ optReq.write \/ optReq.clear
  \/ \E step \in {"slot", "write", "clear"} : Doing(step)

Asked(kind, s, c) ==
  /\ Asking
  /\ asked' = [asked EXCEPT ![kind][s] = c]
  /\ clashed' = (clashed \/ Outstanding)
  /\ UNCHANGED <<hot, buffers, flags, eeprom, section, changes>>

\* slotwreeprom_update, Dnepr_Measure_SlotEEPROM_Write: one memory for all slots
AskSlot(s, c) ==
  /\ Asked("eeprom", s, c)
  /\ params' = c
  /\ slotReq' = [num |-> s, write |-> TRUE]
  /\ m' = [m EXCEPT !.spoilt = @ \/ (Doing("slot") /\ c # params)]
  /\ UNCHANGED <<opt, optReq>>

\* mutant: the length is not set
OptionalUnmeasured(s, c) == [opt[s] EXCEPT !.data = c]

Optional(s, c) == [len |-> "set", data |-> c]

\* slot_update, Dnepr_Measure_SlotOptionalEEPROM_Write
AskWrite(s, c) ==
  /\ Asked("section", s, c)
  /\ opt' = [opt EXCEPT ![s] = Optional(s, c)]
  /\ optReq' = [optReq EXCEPT !.num = s, !.data = s, !.write = TRUE]
  /\ m' = [m EXCEPT !.spoilt =
             @ \/ (Doing("write") /\ s = m.hand /\ c # opt[s].data)]
  /\ UNCHANGED <<params, slotReq>>

\* slotopteepromclear_update, Dnepr_Measure_SlotOptionalEEPROM_Clear
AskClear(s) ==
  /\ Asked("section", s, Blank)
  /\ optReq' = [optReq EXCEPT !.num = s, !.clear = TRUE]
  /\ UNCHANGED <<params, slotReq, opt, m>>

-----------------------------------------------------------------------------
(* _Do_Measurements and _Fill_Values.                                         *)
Collect ==
  /\ m.pc = "collect"
  /\ m' = [m EXCEPT !.pc = "fill", !.at = 1]
  /\ dyn' = [dyn EXCEPT ![app] = [p \in ToSet(Params) |-> [@[p] EXCEPT !.fresh = FALSE]]]
  /\ Want("leds", "alarm", alarm)
  /\ UNCHANGED <<hot, app, gl, ready, alarm, newest, device, button, overtaken,
                 eeproms, asks, changes>>

\* mutant: an alarm once raised stays
RaisedForEver == alarm \/ \E p \in Measured : dyn[app][p].red

\* alarm1_getvalue, alarm2_getvalue: the colours in the buffer being filled,
\* which behind the alarms are those of two rounds ago
Raised == \E p \in Measured : dyn[app][p].red

Fill ==
  /\ m.pc = "fill"
  /\ LET p == Params[m.at]
         red == IF p = "alarm" THEN Raised ELSE p \in hot
     IN  /\ dyn' = [dyn EXCEPT ![app][p] = [red |-> red, fresh |-> TRUE]]
         /\ alarm' = IF p = "alarm" THEN red ELSE alarm
  /\ ready' = IF m.at = 1 THEN [ready EXCEPT ![app] = FALSE] ELSE ready
  /\ m' = IF m.at < Len(Params) THEN [m EXCEPT !.at = @ + 1]
          ELSE [m EXCEPT !.pc = "swap"]
  /\ UNCHANGED <<hot, app, gl, newest, flags, eeproms, asks, changes>>

\* mutant: the next round fills the same buffer
OtherNever == app

Other == 1 - app

\* under the mutex that answers are made under
Swap ==
  /\ m.pc = "swap"
  /\ gl' = app /\ app' = Other
  /\ ready' = [ready EXCEPT ![app] = TRUE]
  /\ newest' = app
  /\ m' = [m EXCEPT !.pc = "look", !.at = 1]
  /\ UNCHANGED <<hot, dyn, alarm, flags, eeproms, asks, changes>>

-----------------------------------------------------------------------------
(* taskMeasure: the flags.                                                    *)
Looking(step) == m.pc = "look" /\ Steps[m.at] = step

\* mutant: it does not know where to stop
OnwardEndless == [Collecting EXCEPT !.pc = "look", !.at = m.at + 1]

Onward == IF m.at = Len(Steps) THEN Collecting
          ELSE [Collecting EXCEPT !.pc = "look", !.at = m.at + 1]

Flagged(step) ==
  CASE step \in Late    -> changed[step]
    [] step = "slot"    -> slotReq.write
    [] step = "write"   -> optReq.write
    [] step = "clear"   -> optReq.clear

\* no flag; what becomes of the lamps then is Hold and Release
PassOver ==
  /\ m.pc = "look" /\ Steps[m.at] # "leds" /\ ~Flagged(Steps[m.at])
  /\ m' = Onward
  /\ UNCHANGED <<hot, buffers, flags, eeproms, asks, changes>>

\* Dnepr_GPIO_FrontPanel_Button_Pressed says so.
Pressed == asks < MaxAsks /\ asks' = asks + 1

\* The button comes before the lamps' flag.  The lamps tell when it has just been
\* found down and before the restart of the board; then they are flagged.
Press ==
  /\ Looking("leds") /\ button_cnt < LongPress /\ Pressed
  /\ button_cnt' = button_cnt + 1
  /\ signal' = (signal \/ button_cnt' \in {1, LongPress - 1})
  /\ changed' = [changed EXCEPT !["leds"] = @ \/ button_cnt' = LongPress]
  /\ m' = Onward
  /\ UNCHANGED <<hot, buffers, wanted, device, overtaken, eeproms, changes>>

\* No flag, but the button is still down, or down again.
Hold ==
  /\ Looking("leds") /\ ~Flagged("leds") /\ Pressed
  /\ m' = Onward
  /\ UNCHANGED <<hot, buffers, wanted, changed, device, button_cnt, signal, overtaken,
                 eeproms, changes>>

\* mutant: only a press that was too short leads back to the status
FlaggedOnce == 0 < button_cnt /\ button_cnt < LongPress

Reflagged == button_cnt < LongPress

\* No flag and the button is up: the lamps are flagged, so every second round
\* writes them again, but for the round after a long press.
Release ==
  /\ Looking("leds") /\ ~Flagged("leds")
  /\ changed' = [changed EXCEPT !["leds"] = Reflagged]
  /\ button_cnt' = 0
  /\ m' = Onward
  /\ UNCHANGED <<hot, buffers, wanted, device, signal, overtaken, eeproms,
                 asks, changes>>

\* T8_Dnepr_SetLedStatus, I2C_Dnepr_SFP_OnOff, dnepr_ethernet_sfpport_autoneg_mode:
\* they take the values and write them over a bus ...
Take(k) ==
  /\ Looking(k) /\ Flagged(k)
  /\ m' = [m EXCEPT !.pc = "doing", !.hand = wanted[k]]
  /\ overtaken' = overtaken \ {k}
  /\ UNCHANGED <<hot, buffers, wanted, changed, device, button, eeproms, asks, changes>>

\* ... and the flag is cleared when they are back
Done(k) ==
  /\ Doing(k)
  /\ device' = [device EXCEPT ![k] = m.hand]
  /\ signal' = (signal /\ k # "leds")
  /\ changed' = [changed EXCEPT ![k] = FALSE]
  /\ m' = Onward
  /\ UNCHANGED <<hot, buffers, wanted, button_cnt, overtaken, eeproms,
                 asks, changes>>

\* Dnepr_SlotEEPROMWrite: the flag is cleared, the CRC computed, the memory
\* written page by page ...
TakeSlot ==
  /\ Looking("slot") /\ Flagged("slot")
  /\ slotReq' = [slotReq EXCEPT !.write = FALSE]
  /\ m' = [m EXCEPT !.pc = "doing", !.hand = params, !.num = slotReq.num]
  /\ UNCHANGED <<hot, buffers, flags, params, opt, optReq, eeprom, section,
                 asked, clashed, asks, changes>>

\* __secondary_eeprom_read: the length comes first, and is kept even if it is
\* impossible
ReadBack(s) ==
  IF section[s] = Blank THEN [opt[s] EXCEPT !.len = "wild"]
  ELSE [len |-> "set", data |-> section[s]]

\* ... and both sections are read back if the first is good
SlotWritten ==
  /\ Doing("slot")
  /\ \E c \in {m.hand} \cup (IF m.spoilt THEN {Torn} ELSE {}) :
       /\ eeprom' = [eeprom EXCEPT ![m.num] = c]
       /\ opt' = IF c = Torn THEN opt ELSE [opt EXCEPT ![m.num] = ReadBack(m.num)]
  /\ m' = Onward
  /\ UNCHANGED <<hot, buffers, flags, params, slotReq, optReq, section, asked,
                 clashed, asks, changes>>

\* Dnepr_SlotOptionalEEPROM_Write: length, data, then the CRC of the data.  With
\* an impossible length it does not come to an end.
TakeWrite ==
  /\ Looking("write") /\ Flagged("write")
  /\ optReq' = [optReq EXCEPT !.write = FALSE]
  /\ m' = IF opt[optReq.data].len = "wild" THEN [m EXCEPT !.pc = "overrun"]
          ELSE [m EXCEPT !.pc = "doing", !.hand = optReq.data, !.num = optReq.num]
  /\ UNCHANGED <<hot, buffers, flags, params, slotReq, opt, eeprom, section,
                 asked, clashed, asks, changes>>

SectionWritten ==
  /\ Doing("write")
  /\ \E c \in {opt[m.hand].data} \cup (IF m.spoilt THEN {Torn} ELSE {}) :
       section' = [section EXCEPT ![m.num] = c]
  /\ m' = Onward
  /\ UNCHANGED <<hot, buffers, flags, params, slotReq, opt, optReq, eeprom,
                 asked, clashed, asks, changes>>

\* Dnepr_SlotOptionalEEPROM_Clear
TakeClear ==
  /\ Looking("clear") /\ Flagged("clear")
  /\ optReq' = [optReq EXCEPT !.clear = FALSE]
  /\ m' = [m EXCEPT !.pc = "doing", !.num = optReq.num]
  /\ UNCHANGED <<hot, buffers, flags, params, slotReq, opt, eeprom, section,
                 asked, clashed, asks, changes>>

SectionCleared ==
  /\ Doing("clear")
  /\ section' = [section EXCEPT ![m.num] = Blank]
  /\ m' = Onward
  /\ UNCHANGED <<hot, buffers, flags, params, slotReq, opt, optReq, eeprom,
                 asked, clashed, asks, changes>>

Work ==
  \/ Collect \/ Fill \/ Swap
  \/ PassOver \/ Press \/ Hold \/ Release
  \/ \E k \in Late : Take(k) \/ Done(k)
  \/ TakeSlot \/ SlotWritten
  \/ TakeWrite \/ SectionWritten
  \/ TakeClear \/ SectionCleared

Next ==
  \/ Work
  \/ Change
  \/ \E k \in Late : \E p \in Parts[k] : Ask(k, p)
  \/ \E s \in Slots : \E c \in Contents : AskSlot(s, c) \/ AskWrite(s, c)
  \/ \E s \in Slots : AskClear(s)

\* The tasks of higher priority wait most of the time.
Spec == Init /\ [][Next]_vars /\ WF_vars(Work)

-----------------------------------------------------------------------------
\* The variables keep to their types.
TypeOK ==
  /\ hot \subseteq Measured /\ newest \in 0 .. NoRound
  /\ \A b \in {0, 1} : \A p \in ToSet(Params) :
       dyn[b][p] \in [red : BOOLEAN, fresh : BOOLEAN]
  /\ app \in {0, 1} /\ gl \in {0, 1} /\ ready \in [{0, 1} -> BOOLEAN]
  /\ \A k \in Late : {wanted[k], device[k]} \subseteq [Parts[k] -> BOOLEAN]
  /\ changed \in [Late -> BOOLEAN] /\ overtaken \subseteq Once
  /\ button_cnt \in 0 .. LongPress /\ signal \in BOOLEAN
  /\ slotReq.num \in Slots \cup {0}
  /\ {optReq.num, optReq.data} \subseteq Slots \cup {0}
  /\ eeprom \in [Slots -> Contents \cup {Old, Torn}]
  /\ section \in [Slots -> Contents \cup {Old, Blank, Torn}]
  /\ m.pc \in {"collect", "fill", "swap", "look", "doing", "overrun"}
  /\ m.at \in 1 .. Len(Steps)

(* From the first round on there is a buffer to answer from, and what is in   *)
(* it was all measured in one round, the last one completed: no answer mixes  *)
(* rounds, whenever it is made.                                               *)
BufferWhole ==
  newest # NoRound =>
    ready[gl] /\ gl = newest /\ \A p \in ToSet(Params) : dyn[gl][p].fresh

(* The EEPROMs of the boards end with what was asked for, and the task does   *)
(* not run on past the end of a section, if every request is made when the    *)
(* one before has been carried out.                                           *)
EepromsAsAsked ==
  ~clashed /\ ~Outstanding =>
    /\ m.pc # "overrun"
    /\ asked = [eeprom |-> eeprom, section |-> section]

(* What was asked of the lasers and ports of the switch is done in the end,   *)
(* unless a request came between the use of a flag and its clearing; the      *)
(* lamps tell the status in the end without exception, whatever the button    *)
(* made of them meanwhile: a change between their use and the clearing of     *)
(* their flag is made up for (taskMeasure).                                   *)
EventuallyApplied ==
  /\ \A k \in Late : <>[](\/ device[k] = wanted[k]
                          \/ k \in overtaken \/ m.pc = "overrun")
  /\ <>[](~signal \/ m.pc = "overrun")

(* The alarm lamp ends up telling whether anything is too hot, though alarms  *)
(* are computed from colours of two rounds, and others change lamps at any    *)
(* moment (unless the task has run past a section).                           *)
EventuallyAlarmed ==
  <>[](\/ device["leds"]["alarm"] = (hot # {}) /\ ~signal
       \/ m.pc = "overrun")
=============================================================================
