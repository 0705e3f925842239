-------------------------- MODULE CrateEvents_proofs -------------------------
(* The invariants of the crate's events, for any number of slots, devices,    *)
(* boards and events: what the controller still owes the shelf manager, the   *)
(* devices with a fault, and the fans.                                        *)
EXTENDS CrateEvents, TLAPS

Presences == [Slots -> BOOLEAN]
Messages == {"present", "fans", "alarm"}
Pcs == {"start", "wait", "delay", "compare", "plug", "ara", "ask"}
Controllers == [pc : Pcs, prev : Presences, at : 1 .. N + 1, in : BOOLEAN,
                answered : Seq(Devices)]
Measures == [pc : {"read", "start", "apply", "set"}, got : Presences]

CrateTypes ==
  /\ board \in [Slots -> Powers \cup {0}] /\ power \in [Slots -> Powers \cup {0}]
  /\ fault \subseteq Devices /\ alerting \subseteq Devices
  /\ uptime \in 0 .. 2 /\ pres \in 0 .. 1
  /\ raw \in Presences /\ processed \in Presences
  /\ last \in {"now", "recent", "old"} /\ young \subseteq Slots
  /\ unseen \subseteq Slots /\ skipped \subseteq Devices

TaskTypes ==
  /\ dc \in Controllers /\ (dc.pc = "plug" => dc.at \in Slots)
  /\ Len(dc.answered) <= MaxAra
  /\ measure \in Measures /\ seen \in 0 .. Delay + 1

Types == CrateTypes /\ TaskTypes /\ box \in Seq(Messages)

\* The devices still to be asked: each has let go of the line, has its fault
\* and is there once.
Asked ==
  /\ dc.pc \notin {"ara", "ask"} => dc.answered = <<>>
  /\ \A i \in DOMAIN dc.answered : dc.answered[i] \in fault \ alerting
  /\ \A i, j \in DOMAIN dc.answered : dc.answered[i] = dc.answered[j] => i = j

Answering == alerting \subseteq fault /\ Asked /\ FaultsOwed

\* What the shelf manager was told of a slot: what the comparison will compare
\* with; or what it just found; or, with no comparison to come, the truth.
Found(s) == dc.pc = "plug" /\ dc.at = s

Told ==
  \A s \in Slots \ unseen :
    /\ WillCompare(s) => dc.prev[s] = processed[s]
    /\ Found(s) => dc.in = raw[s]
    /\ ~ WillCompare(s) /\ ~ Found(s) => processed[s] = raw[s]

Inv == Types /\ Answering /\ Told /\ SpeedOwed

-----------------------------------------------------------------------------
LEMMA Constants ==
  /\ N \in Nat \ {0} /\ Other \notin Slots /\ MaxAra \in Nat \ {0} /\ Delay \in Nat
  /\ Powers \subseteq Nat \ {0} /\ Crates \subseteq [Slots -> Powers \cup {0}]
  BY CrateAssumption

LEMMA PresentType == Present \in Presences
  BY DEF Present, Presences

LEMMA WaitingType ==
  /\ Waiting \in Controllers /\ Waiting.pc = "wait" /\ Waiting.answered = <<>>
  BY Constants DEF Waiting, Controllers, Pcs, NotRead, Presences

\* Messages posted and received.
LEMMA Appended ==
  ASSUME NEW S, NEW q \in Seq(S), NEW m \in S
  PROVE  /\ Append(q, m) \in Seq(S)
         /\ ToSet(Append(q, m)) = ToSet(q) \cup {m}
<1> DEFINE r == Append(q, m)
<1>1. /\ r \in Seq(S) /\ DOMAIN q = 1 .. Len(q) /\ DOMAIN r = 1 .. Len(q) + 1
      /\ \A i \in 1 .. Len(q) : r[i] = q[i]
      /\ r[Len(q) + 1] = m /\ Len(q) \in Nat
  OBVIOUS
<1>2. ToSet(q) \subseteq ToSet(r)
  BY <1>1 DEF ToSet
<1>3. m \in ToSet(r)
  BY <1>1 DEF ToSet
<1>4. ASSUME NEW x \in ToSet(r) PROVE x \in ToSet(q) \cup {m}
  BY <1>1 DEF ToSet
<1> QED
  BY <1>1, <1>2, <1>3, <1>4

LEMMA Received ==
  ASSUME NEW S, NEW q \in Seq(S), q # <<>>
  PROVE  /\ Tail(q) \in Seq(S) /\ Head(q) \in S
         /\ ToSet(q) = {Head(q)} \cup ToSet(Tail(q))
<1>1. /\ Tail(q) \in Seq(S) /\ DOMAIN q = 1 .. Len(q) /\ Len(q) \in Nat \ {0}
      /\ DOMAIN Tail(q) = 1 .. Len(q) - 1 /\ Head(q) = q[1] /\ Head(q) \in S
      /\ \A i \in 1 .. Len(q) - 1 : Tail(q)[i] = q[i + 1]
  OBVIOUS
<1>2. Head(q) \in ToSet(q)
  BY <1>1 DEF ToSet
<1>3. ASSUME NEW x \in ToSet(Tail(q)) PROVE x \in ToSet(q)
  <2>1. PICK i \in 1 .. Len(q) - 1 : x = Tail(q)[i]
    BY <1>1 DEF ToSet
  <2>2. x = q[i + 1] /\ i + 1 \in DOMAIN q
    BY <1>1, <2>1
  <2> QED
    BY <2>2 DEF ToSet
<1>4. ASSUME NEW x \in ToSet(q) PROVE x \in {Head(q)} \cup ToSet(Tail(q))
  <2>1. PICK i \in 1 .. Len(q) : x = q[i]
    BY <1>1 DEF ToSet
  <2>2. CASE i = 1
    BY <1>1, <2>1, <2>2
  <2>3. CASE i # 1
    <3>1. i - 1 \in 1 .. Len(q) - 1
      BY <1>1, <2>3
    <3>2. x = Tail(q)[i - 1]
      BY <1>1, <2>1, <3>1
    <3> QED
      BY <1>1, <3>1, <3>2 DEF ToSet
  <2> QED
    BY <2>2, <2>3
<1> QED
  BY <1>1, <1>2, <1>3, <1>4

-----------------------------------------------------------------------------
(* Types.                                                                     *)
LEMMA TypesInit == Init => Types
<1> SUFFICES ASSUME Init PROVE Types
  OBVIOUS
<1>1. dc \in Controllers /\ dc.pc = "start" /\ dc.answered = <<>>
  BY WaitingType DEF Init, Controllers, Pcs
<1>2. measure \in Measures
  BY DEF Init, Measures, NotRead, Presences
<1>3. CrateTypes
  BY Constants, PresentType DEF Init, CrateTypes
<1>4. TaskTypes
  BY <1>1, <1>2, Constants DEF Init, TaskTypes
<1> QED
  BY <1>3, <1>4 DEF Types, Init

LEMMA PostTypes == Types /\ (\E m \in Messages : Post(m)) => box' \in Seq(Messages)
  BY Appended DEF Types, Post

LEMMA ReceiveTypes == Types /\ (\E m \in Messages : Receive(m)) => box' \in Seq(Messages)
  BY Received DEF Types, Receive

LEMMA RefreshTypes ==
  ASSUME Types, NEW now \in Presences, Refresh(now)
  PROVE  raw' \in Presences /\ unseen' \subseteq Slots
  BY DEF Types, CrateTypes, Refresh

\* The controller's fields, one at a time.
LEMMA ControllerTypes ==
  ASSUME Types
  PROVE  /\ dc.pc \in Pcs /\ dc.prev \in Presences /\ dc.at \in 1 .. N + 1
         /\ dc.in \in BOOLEAN /\ dc.answered \in Seq(Devices)
         /\ \A pc \in Pcs : [dc EXCEPT !.pc = pc] \in Controllers
         /\ \A a \in Seq(Devices) : [dc EXCEPT !.answered = a] \in Controllers
  BY DEF Types, TaskTypes, Controllers

\* The controller's record with some fields changed.
LEMMA Copied ==
  ASSUME NEW c \in Controllers, NEW prev \in Presences
  PROVE  LET d == [c EXCEPT !.pc = "delay", !.prev = prev]
         IN  /\ d \in Controllers /\ d.pc = "delay" /\ d.prev = prev
             /\ d.at = c.at /\ d.in = c.in /\ d.answered = c.answered
  BY DEF Controllers, Pcs

LEMMA Compared ==
  ASSUME NEW c \in Controllers, NEW at \in 1 .. N + 1
  PROVE  LET d == [c EXCEPT !.pc = "compare", !.at = at]
         IN  /\ d \in Controllers /\ d.pc = "compare" /\ d.at = at
             /\ d.prev = c.prev /\ d.answered = c.answered
  BY DEF Controllers, Pcs

LEMMA Advanced ==
  ASSUME NEW c \in Controllers, NEW at \in 1 .. N + 1
  PROVE  LET d == [c EXCEPT !.at = at]
         IN  /\ d \in Controllers /\ d.pc = c.pc /\ d.at = at
             /\ d.prev = c.prev /\ d.answered = c.answered
  BY DEF Controllers

LEMMA Differing ==
  ASSUME NEW c \in Controllers, NEW in \in BOOLEAN
  PROVE  LET d == [c EXCEPT !.pc = "plug", !.in = in]
         IN  /\ d \in Controllers /\ d.pc = "plug" /\ d.in = in
             /\ d.at = c.at /\ d.prev = c.prev /\ d.answered = c.answered
  BY DEF Controllers, Pcs

LEMMA Plugged ==
  ASSUME NEW c \in Controllers, NEW at \in 1 .. N + 1
  PROVE  LET d == [c EXCEPT !.pc = "compare", !.in = FALSE, !.at = at]
         IN  /\ d \in Controllers /\ d.pc = "compare" /\ d.at = at
             /\ d.prev = c.prev /\ d.answered = c.answered
  BY DEF Controllers, Pcs

LEMMA Gone ==
  ASSUME NEW c \in Controllers, NEW pc \in Pcs
  PROVE  LET d == [c EXCEPT !.pc = pc]
         IN  /\ d \in Controllers /\ d.pc = pc
             /\ d.at = c.at /\ d.in = c.in /\ d.prev = c.prev /\ d.answered = c.answered
  BY DEF Controllers

LEMMA EventTypes ==
  ASSUME Types, Replug \/ Fault \/ Setting \/ Tick \/ Interrupt
  PROVE  Types'
<1>1. CASE Replug
  <2>1. UNCHANGED <<control, measuring, ghosts, uptime, fault, alerting>>
    BY <1>1 DEF Replug
  <2>2. board' \in [Slots -> Powers \cup {0}]
    BY <1>1 DEF Replug, Types, CrateTypes
  <2> QED
    BY <2>1, <2>2 DEF Types, CrateTypes, TaskTypes, control, measuring, ghosts
<1>2. CASE Fault
  <2>1. UNCHANGED <<control, measuring, ghosts, uptime, board>>
    BY <1>2 DEF Fault
  <2>2. fault' \subseteq Devices /\ alerting' \subseteq Devices
    BY <1>2 DEF Fault, Types, CrateTypes
  <2> QED
    BY <2>1, <2>2 DEF Types, CrateTypes, TaskTypes, control, measuring, ghosts
<1>3. CASE Setting
  <2>1. box' \in Seq(Messages)
    BY <1>3, PostTypes DEF Setting, Messages
  <2> QED
    BY <1>3, <2>1 DEF Setting, Types, CrateTypes, TaskTypes, crate, measuring, ghosts
<1>4. CASE Tick
  <2>1. uptime' \in 0 .. 2 /\ last' \in {"now", "recent", "old"} /\ young' \subseteq Slots
    BY <1>4 DEF Tick, Types, CrateTypes
  <2>2. UNCHANGED <<crate, box, dc, raw, processed, power, pres, measuring, ghosts>>
    BY <1>4 DEF Tick
  <2> QED
    BY <2>1, <2>2 DEF Types, CrateTypes, TaskTypes, crate, measuring, ghosts
<1>5. CASE PresentInterrupt
  <2>1. box' \in Seq(Messages) /\ pres' \in 0 .. 1
    BY <1>5, PostTypes DEF PresentInterrupt, Messages, Types, CrateTypes
  <2>2. UNCHANGED <<crate, uptime, dc, raw, processed, power, last, young, measuring, ghosts>>
    BY <1>5 DEF PresentInterrupt
  <2> QED
    BY <2>1, <2>2 DEF Types, CrateTypes, TaskTypes, crate, measuring, ghosts
<1>6. CASE AlarmInterrupt
  <2>1. box' \in Seq(Messages)
    BY <1>6, PostTypes DEF AlarmInterrupt, Messages
  <2> QED
    BY <1>6, <2>1 DEF AlarmInterrupt, Types, CrateTypes, TaskTypes, crate, measuring, ghosts
<1> QED
  BY <1>1, <1>2, <1>3, <1>4, <1>5, <1>6 DEF Interrupt

LEMMA ControlTypes == ASSUME Types, Control PROVE Types'
<1> USE ControllerTypes, WaitingType, Constants
<1>1. CASE Start
  <2>1. box' \in Seq(Messages)
    BY <1>1, PostTypes DEF Start, Messages
  <2>2. raw' \in Presences /\ unseen' \subseteq Slots
    BY <1>1, RefreshTypes, PresentType DEF Start
  <2>3. TaskTypes'
    BY <1>1 DEF Start, Types, TaskTypes, measuring
  <2>4. CrateTypes'
    BY <1>1, <2>2 DEF Start, Types, CrateTypes
  <2> QED
    BY <2>1, <2>3, <2>4 DEF Types
<1>2. CASE Copy
  <2>1. box' \in Seq(Messages)
    BY <1>2, ReceiveTypes DEF Copy, Messages
  <2>2. dc' \in Controllers /\ dc'.pc = "delay" /\ dc'.answered = dc.answered
    <3>1. dc \in Controllers /\ raw \in Presences
      BY DEF Types, TaskTypes, CrateTypes
    <3>2. dc' = [dc EXCEPT !.pc = "delay", !.prev = raw]
      BY <1>2 DEF Copy
    <3> QED
      BY <3>1, <3>2, Copied
  <2> QED
    BY <1>2, <2>1, <2>2 DEF Copy, Types, TaskTypes, CrateTypes, crate, measuring, ghosts
<1>3. CASE Reread
  <2>1. raw' \in Presences /\ unseen' \subseteq Slots
    BY <1>3, RefreshTypes, PresentType DEF Reread
  <2>2. dc' \in Controllers /\ dc'.pc = "compare" /\ dc'.answered = dc.answered
    <3>1. dc \in Controllers /\ 1 \in 1 .. N + 1
      BY DEF Types, TaskTypes
    <3>2. dc' = [dc EXCEPT !.pc = "compare", !.at = 1]
      BY <1>3 DEF Reread
    <3> QED
      BY <3>1, <3>2, Compared
  <2> QED
    BY <1>3, <2>1, <2>2 DEF Reread, Types, TaskTypes, CrateTypes, measuring
<1>4. CASE Compare
  <2>1. /\ dc' \in Controllers /\ (dc'.pc = "plug" => dc'.at \in Slots)
        /\ dc'.answered = dc.answered \/ dc'.answered = <<>>
    <3>1. CASE ~ SlotsLeft
      BY <1>4, <3>1 DEF Compare
    <3>2. CASE SlotsLeft /\ raw[dc.at] = dc.prev[dc.at]
      <4>1. dc' = [dc EXCEPT !.at = @ + 1] /\ dc.at <= N /\ dc.pc = "compare"
        BY <1>4, <3>2 DEF Compare, SlotsLeft
      <4>2. dc.at + 1 \in 1 .. N + 1
        BY <4>1
      <4> QED
        BY <4>1, <4>2, Advanced DEF Types, TaskTypes
    <3>3. CASE SlotsLeft /\ raw[dc.at] # dc.prev[dc.at]
      <4>1. dc' = [dc EXCEPT !.pc = "plug", !.in = raw[dc.at]] /\ dc.at \in Slots
        BY <1>4, <3>3 DEF Compare, SlotsLeft, Slots
      <4>2. raw[dc.at] \in BOOLEAN
        BY <4>1 DEF Types, CrateTypes, Presences
      <4> QED
        BY <4>1, <4>2, Differing DEF Types, TaskTypes
    <3> QED
      BY <3>1, <3>2, <3>3
  <2>3. unseen' \subseteq Slots
    BY <1>4 DEF Compare, Types, CrateTypes
  <2> QED
    BY <1>4, <2>1, <2>3 DEF Compare, Types, TaskTypes, CrateTypes, crate, measuring
<1>5. CASE Plug
  <2>1. dc.at \in Slots /\ dc.in \in BOOLEAN /\ processed' = [processed EXCEPT ![dc.at] = dc.in]
    BY <1>5 DEF Plug, Types, TaskTypes
  <2>2. processed' \in Presences
    BY <2>1 DEF Types, CrateTypes, Presences
  <2>3. board[dc.at] \in Powers \cup {0}
    BY <2>1 DEF Types, CrateTypes
  <2>4. power' \in [Slots -> Powers \cup {0}]
    BY <1>5, <2>3 DEF Plug, Types, CrateTypes
  <2>5. young' \subseteq Slots
    BY <1>5, <2>1 DEF Plug, Types, CrateTypes
  <2>6. /\ dc' = [dc EXCEPT !.pc = "compare", !.in = FALSE, !.at = @ + 1]
        /\ dc.at + 1 \in 1 .. N + 1
    BY <1>5, <2>1 DEF Plug, Slots
  <2>7. dc' \in Controllers /\ dc'.pc = "compare" /\ dc'.answered = dc.answered
    BY <2>6, Plugged DEF Types, TaskTypes
  <2> QED
    BY <1>5, <2>2, <2>4, <2>5, <2>7 DEF Plug, Types, TaskTypes, CrateTypes, crate, ghosts
<1>6. CASE SettingsChanged
  <2>1. box' \in Seq(Messages)
    BY <1>6, ReceiveTypes DEF SettingsChanged, Messages
  <2> QED
    BY <1>6, <2>1 DEF SettingsChanged, Types, TaskTypes, CrateTypes, crate, ghosts
<1>7. CASE Alarm \/ Poll
  <2>1. box' \in Seq(Messages)
    BY <1>7, ReceiveTypes DEF Alarm, Poll, Messages, Types
  <2>2. /\ dc' \in Controllers /\ dc'.answered = dc.answered
        /\ (dc'.pc = "plug" => dc'.at = dc.at /\ dc.pc = "plug")
    <3>1. "ara" \in Pcs /\ dc \in Controllers
      BY DEF Pcs, Types, TaskTypes
    <3>2. dc' = dc \/ dc' = [dc EXCEPT !.pc = "ara"]
      BY <1>7 DEF Alarm, Poll, GoTo
    <3>3. CASE dc' = dc
      BY <3>1, <3>3
    <3>4. CASE dc' = [dc EXCEPT !.pc = "ara"]
      BY <3>1, <3>4, Gone
    <3> QED
      BY <3>2, <3>3, <3>4
  <2>3. last' \in {"now", "recent", "old"}
    BY <1>7 DEF Alarm, Poll, Types, CrateTypes
  <2> QED
    BY <1>7, <2>1, <2>2, <2>3
    DEF Alarm, Poll, Types, TaskTypes, CrateTypes, crate, ghosts, measuring
<1>8. CASE ReadAra
  <2>1. /\ dc' \in Controllers /\ Len(dc'.answered) <= MaxAra /\ dc'.pc # "plug"
        /\ alerting' \subseteq Devices
    <3>1. CASE alerting # {} /\ Len(dc.answered) < MaxAra
      <4>1. PICK d \in alerting : /\ alerting' = alerting \ {d}
                                  /\ dc' = [dc EXCEPT !.answered = Append(@, d)]
        BY <1>8, <3>1 DEF ReadAra
      <4>2. /\ d \in Devices /\ Append(dc.answered, d) \in Seq(Devices)
            /\ Len(Append(dc.answered, d)) = Len(dc.answered) + 1
        BY <4>1 DEF Types, CrateTypes
      <4>3. Len(dc.answered) + 1 <= MaxAra
        BY <3>1
      <4> QED
        BY <1>8, <4>1, <4>2, <4>3 DEF ReadAra, Types, TaskTypes, CrateTypes, Controllers
    <3>2. CASE ~ (alerting # {} /\ Len(dc.answered) < MaxAra)
      <4>1. "ask" \in Pcs /\ dc \in Controllers
        BY DEF Pcs, Types, TaskTypes
      <4>2. dc' = [dc EXCEPT !.pc = "ask"] /\ UNCHANGED alerting
        BY <1>8, <3>2 DEF ReadAra, GoTo
      <4> QED
        BY <4>1, <4>2, Gone DEF Types, TaskTypes, CrateTypes
    <3> QED
      BY <3>1, <3>2
  <2> QED
    BY <1>8, <2>1 DEF ReadAra, Types, TaskTypes, CrateTypes, ghosts, measuring
<1>9. CASE AskFaults
  <2>1. /\ dc' \in Controllers /\ Len(dc'.answered) <= MaxAra /\ dc'.pc # "plug"
        /\ fault' \subseteq Devices /\ skipped' \subseteq Devices
    <3>1. CASE dc.answered = <<>>
      BY <1>9, <3>1 DEF AskFaults, Types, CrateTypes
    <3>2. CASE dc.answered # <<>> /\ Head(dc.answered) \in young \cup {Other}
      <4>1. ToSet(dc.answered) \subseteq Devices
        BY DEF ToSet
      <4> QED
        BY <1>9, <3>2, <4>1 DEF AskFaults, Types, CrateTypes
    <3>3. CASE dc.answered # <<>> /\ Head(dc.answered) \notin young \cup {Other}
      <4>1. /\ dc' = [dc EXCEPT !.answered = Remaining] /\ UNCHANGED skipped
            /\ fault' \subseteq fault /\ dc.pc = "ask"
        BY <1>9, <3>3 DEF AskFaults
      <4>2. Remaining \in Seq(Devices) /\ Len(Remaining) = Len(dc.answered) - 1
        BY <3>3 DEF Remaining
      <4>3. Len(Remaining) <= MaxAra
        BY <4>2 DEF Types, TaskTypes
      <4>4. /\ dc'.pc = "ask" /\ dc'.answered = Remaining /\ dc' \in Controllers
        BY <4>1, <4>2 DEF Types, TaskTypes, Controllers
      <4> QED
        BY <4>1, <4>3, <4>4 DEF Types, CrateTypes
    <3> QED
      BY <3>1, <3>2, <3>3
  <2> QED
    BY <1>9, <2>1 DEF AskFaults, Types, TaskTypes, CrateTypes, measuring
<1> QED
  BY <1>1, <1>2, <1>3, <1>4, <1>5, <1>6, <1>7, <1>8, <1>9 DEF Control

LEMMA MeasureTypes == ASSUME Types, Measure PROVE Types'
<1>0. measure.got \in Presences /\ NotRead \in Presences
  BY DEF Types, TaskTypes, Measures, NotRead, Presences
<1>1. CASE ReadPresents
  <2>1. measure' \in Measures
    BY <1>1, PresentType DEF ReadPresents, Measures
  <2> QED
    BY <1>1, <2>1 DEF ReadPresents, Types, TaskTypes, CrateTypes, control, ghosts
<1>2. CASE StartFans
  <2>1. raw' \in Presences /\ unseen' \subseteq Slots
    BY <1>0, <1>2, RefreshTypes DEF StartFans
  <2>2. measure' \in Measures
    BY <1>0, <1>2 DEF StartFans, Measures
  <2>3. seen' \in 0 .. Delay + 1
    <3>1. seen \in 0 .. Delay + 1 /\ Delay \in Nat
      BY Constants DEF Types, TaskTypes
    <3>2. (seen # Delay /\ seen' = Counted) \/ seen' = Delay + 1 \/ seen' = 0
      BY <1>2 DEF StartFans
    <3> QED
      BY <3>1, <3>2 DEF Counted
  <2> QED
    BY <1>2, <2>1, <2>2, <2>3 DEF StartFans, Types, TaskTypes, CrateTypes, crate
<1>3. CASE TakeRequest \/ SetSpeed
  <2>1. measure' \in Measures
    BY <1>3 DEF TakeRequest, SetSpeed, Step, Types, TaskTypes, Measures
  <2> QED
    BY <1>3, <2>1
    DEF TakeRequest, SetSpeed, Types, TaskTypes, CrateTypes, control, ghosts, crate
<1> QED
  BY <1>1, <1>2, <1>3 DEF Measure

LEMMA TypesStep == Types /\ [Next]_vars => Types'
<1>1. CASE UNCHANGED vars
  BY <1>1 DEF vars, crate, control, measuring, ghosts, Types, TaskTypes, CrateTypes
<1> QED
  BY <1>1, EventTypes, ControlTypes, MeasureTypes DEF Next

-----------------------------------------------------------------------------
(* Devices with a fault.                                                      *)
LEMMA AnsweringAlone ==
  ASSUME Answering, UNCHANGED <<fault, alerting, skipped>>,
         dc'.answered = dc.answered,
         dc'.pc \notin {"ara", "ask"} => dc.pc \notin {"ara", "ask"} \/ dc.answered = <<>>
  PROVE  Answering'
  BY DEF Answering, Asked, FaultsOwed

\* Only alarms and their handling touch the devices that have answered.
LEMMA ControlKeepsAsked ==
  ASSUME Types, Answering, Start \/ Copy \/ Reread \/ Compare \/ Plug \/ SettingsChanged
  PROVE  dc'.answered = dc.answered /\ dc.pc \notin {"ara", "ask"}
<1>1. dc \in Controllers /\ raw \in Presences
  BY DEF Types, TaskTypes, CrateTypes
<1>2. dc.pc \notin {"ara", "ask"} => dc.answered = <<>>
  BY DEF Answering, Asked
<1>3. CASE Start
  BY <1>2, <1>3, WaitingType DEF Start
<1>4. CASE Copy
  <2>1. dc' = [dc EXCEPT !.pc = "delay", !.prev = raw]
    BY <1>4 DEF Copy
  <2>2. dc.pc = "wait"
    BY <1>4 DEF Copy, Receive
  <2> QED
    BY <1>1, <2>1, <2>2 DEF Controllers
<1>5. CASE Reread
  <2>1. dc' = [dc EXCEPT !.pc = "compare", !.at = 1] /\ 1 \in 1 .. N + 1
    BY <1>5, Constants DEF Reread
  <2>2. dc.pc = "delay"
    BY <1>5 DEF Reread
  <2> QED
    BY <1>1, <2>1, <2>2 DEF Controllers
<1>6. CASE Compare
  <2>1. dc.pc = "compare"
    BY <1>6 DEF Compare
  <2>2. CASE dc' = Waiting
    BY <1>2, <2>1, <2>2, WaitingType
  <2>3. CASE dc' = [dc EXCEPT !.at = @ + 1]
    BY <1>1, <2>1, <2>3 DEF Controllers
  <2>4. CASE dc' = [dc EXCEPT !.pc = "plug", !.in = raw[dc.at]]
    BY <1>1, <2>1, <2>4 DEF Controllers
  <2> QED
    BY <1>6, <2>2, <2>3, <2>4 DEF Compare
<1>7. CASE Plug
  <2>1. dc' = [dc EXCEPT !.pc = "compare", !.in = FALSE, !.at = @ + 1] /\ dc.pc = "plug"
    BY <1>7 DEF Plug
  <2> QED
    BY <1>1, <2>1 DEF Controllers
<1>8. CASE SettingsChanged
  BY <1>8 DEF SettingsChanged, Receive
<1> QED
  BY <1>3, <1>4, <1>5, <1>6, <1>7, <1>8

LEMMA FaultAnswering == Types /\ Answering /\ Fault => Answering'
<1> SUFFICES ASSUME Types, Answering, Fault PROVE Answering'
  OBVIOUS
<1>1. PICK d \in Devices \ fault : fault' = fault \cup {d} /\ alerting' = alerting \cup {d}
  BY DEF Fault
<1>2. UNCHANGED <<dc, skipped>>
  BY DEF Fault, control, ghosts
<1>3. \A i \in DOMAIN dc.answered : dc.answered[i] # d
  BY <1>1 DEF Answering, Asked
<1> QED
  BY <1>1, <1>2, <1>3 DEF Answering, Asked, FaultsOwed

LEMMA ReadAraAnswering == Types /\ Answering /\ ReadAra => Answering'
<1> SUFFICES ASSUME Types, Answering, ReadAra PROVE Answering'
  OBVIOUS
<1> DEFINE a == dc.answered
<1>1. dc \in Controllers /\ a \in Seq(Devices) /\ dc.pc = "ara" /\ alerting \subseteq Devices
  BY DEF ReadAra, Types, TaskTypes, CrateTypes, Controllers
<1>2. UNCHANGED <<fault, skipped>>
  BY DEF ReadAra, ghosts
<1>3. CASE alerting # {} /\ Len(dc.answered) < MaxAra
  <2>1. PICK d \in alerting : /\ alerting' = alerting \ {d}
                              /\ dc' = [dc EXCEPT !.answered = Append(a, d)]
    BY <1>3 DEF ReadAra
  <2>2. dc'.answered = Append(a, d) /\ dc'.pc = "ara"
    BY <1>1, <2>1 DEF Controllers
  <2>3. ToSet(dc'.answered) = ToSet(a) \cup {d}
    BY <1>1, <2>1, <2>2, Appended
  <2>4. /\ DOMAIN a = 1 .. Len(a) /\ Len(a) \in Nat
        /\ DOMAIN dc'.answered = 1 .. Len(a) + 1
        /\ \A i \in 1 .. Len(a) : dc'.answered[i] = a[i]
        /\ dc'.answered[Len(a) + 1] = d
    BY <1>1, <2>2
  <2>5. /\ \A i \in 1 .. Len(a) : a[i] \in fault \ alerting
        /\ \A i, j \in 1 .. Len(a) : a[i] = a[j] => i = j
        /\ d \in fault
    BY <2>1, <2>4 DEF Answering, Asked
  <2>6. \A i \in DOMAIN dc'.answered : dc'.answered[i] \in fault \ alerting'
    <3> TAKE i \in DOMAIN dc'.answered
    <3>1. CASE i = Len(a) + 1
      BY <2>1, <2>4, <2>5, <3>1
    <3>2. CASE i \in 1 .. Len(a)
      BY <2>1, <2>4, <2>5, <3>2
    <3> QED
      BY <2>4, <3>1, <3>2
  <2>7. ASSUME NEW i \in DOMAIN dc'.answered, NEW j \in DOMAIN dc'.answered,
               dc'.answered[i] = dc'.answered[j]
        PROVE  i = j
    <3>1. \A k \in 1 .. Len(a) : a[k] # d
      BY <2>1, <2>5
    <3> QED
      BY <2>4, <2>5, <2>7, <3>1
  <2>8. FaultsOwed'
    BY <1>2, <2>1, <2>3 DEF Answering, FaultsOwed
  <2> QED
    BY <1>2, <2>1, <2>2, <2>6, <2>7, <2>8 DEF Answering, Asked
<1>4. CASE ~ (alerting # {} /\ Len(dc.answered) < MaxAra)
  <2>1. dc' = [dc EXCEPT !.pc = "ask"] /\ UNCHANGED alerting
    BY <1>4 DEF ReadAra, GoTo
  <2>2. dc'.pc = "ask" /\ dc'.answered = dc.answered
    BY <1>1, <2>1 DEF Controllers
  <2> QED
    BY <1>2, <2>1, <2>2, AnsweringAlone
<1> QED
  BY <1>3, <1>4

LEMMA AskFaultsAnswering == Types /\ Answering /\ AskFaults => Answering'
<1> SUFFICES ASSUME Types, Answering, AskFaults PROVE Answering'
  OBVIOUS
<1> DEFINE a == dc.answered
<1>1. dc \in Controllers /\ a \in Seq(Devices) /\ dc.pc = "ask"
  BY DEF AskFaults, Types, TaskTypes, Controllers
<1>2. UNCHANGED alerting
  BY DEF AskFaults
<1>3. CASE a = <<>>
  BY <1>2, <1>3, WaitingType DEF AskFaults, Answering, Asked, FaultsOwed
<1>4. CASE a # <<>> /\ Head(a) \in young \cup {Other}
  <2>1. /\ skipped' = skipped \cup ToSet(a) /\ dc' = Waiting /\ UNCHANGED fault
    BY <1>4 DEF AskFaults
  <2>2. ToSet(a) \cup skipped \subseteq skipped'
    BY <2>1
  <2>3. FaultsOwed'
    BY <1>2, <2>1, <2>2 DEF Answering, FaultsOwed
  <2>4. Asked'
    BY <2>1, WaitingType DEF Asked
  <2> QED
    BY <1>2, <2>1, <2>3, <2>4 DEF Answering
<1>5. CASE a # <<>> /\ Head(a) \notin young \cup {Other}
  <2>1. /\ fault' = fault \ {Head(a)} /\ UNCHANGED skipped
        /\ dc' = [dc EXCEPT !.answered = Tail(a)]
    BY <1>5 DEF AskFaults, Remaining
  <2>2. dc'.answered = Tail(a) /\ dc'.pc = "ask"
    BY <1>1, <2>1 DEF Controllers
  <2>3. ToSet(a) = {Head(a)} \cup ToSet(dc'.answered)
    BY <1>1, <1>5, <2>2, Received
  <2>4. /\ DOMAIN a = 1 .. Len(a) /\ Len(a) \in Nat \ {0} /\ Head(a) = a[1]
        /\ DOMAIN dc'.answered = 1 .. Len(a) - 1
        /\ \A i \in 1 .. Len(a) - 1 : dc'.answered[i] = a[i + 1]
    BY <1>1, <1>5, <2>2
  <2>5. /\ \A i \in 1 .. Len(a) : a[i] \in fault \ alerting
        /\ \A i, j \in 1 .. Len(a) : a[i] = a[j] => i = j
    BY <2>4 DEF Answering, Asked
  <2>6. \A i \in 1 .. Len(a) - 1 : i + 1 \in 1 .. Len(a) /\ a[i + 1] # a[1]
    BY <2>4, <2>5
  <2>7. \A i \in DOMAIN dc'.answered : dc'.answered[i] \in fault' \ alerting'
    BY <1>2, <2>1, <2>4, <2>5, <2>6
  <2>8. ASSUME NEW i \in DOMAIN dc'.answered, NEW j \in DOMAIN dc'.answered,
               dc'.answered[i] = dc'.answered[j]
        PROVE  i = j
    <3>1. i + 1 \in 1 .. Len(a) /\ j + 1 \in 1 .. Len(a) /\ a[i + 1] = a[j + 1]
      BY <2>4, <2>6, <2>8
    <3>2. i + 1 = j + 1
      BY <2>5, <3>1
    <3> QED
      BY <2>4, <3>2
  <2>9. FaultsOwed' /\ (alerting \subseteq fault)'
    <3>1. Head(a) \notin alerting
      BY <2>4, <2>5
    <3> QED
      BY <1>2, <2>1, <2>3, <3>1 DEF Answering, FaultsOwed
  <2> QED
    BY <2>2, <2>7, <2>8, <2>9 DEF Answering, Asked
<1> QED
  BY <1>3, <1>4, <1>5

LEMMA AnsweringStep == Types /\ Answering /\ [Next]_vars => Answering'
<1> SUFFICES ASSUME Types, Answering, [Next]_vars PROVE Answering'
  OBVIOUS
<1>1. CASE Replug \/ Setting \/ Tick \/ Interrupt \/ Measure \/ UNCHANGED vars
  <2>1. UNCHANGED <<fault, alerting, skipped, dc>>
    BY <1>1 DEF Replug, Setting, Tick, Interrupt, PresentInterrupt, AlarmInterrupt,
                Measure, ReadPresents, StartFans, TakeRequest, SetSpeed, vars,
                crate, control, ghosts
  <2> QED
    BY <2>1, AnsweringAlone
<1>2. CASE Start \/ Copy \/ Reread \/ Compare \/ Plug \/ SettingsChanged
  <2>1. UNCHANGED <<fault, alerting, skipped>>
    BY <1>2 DEF Start, Copy, Reread, Compare, Plug, SettingsChanged, crate, ghosts
  <2> QED
    BY <1>2, <2>1, ControlKeepsAsked, AnsweringAlone
<1>3. CASE Alarm \/ Poll
  <2>1. UNCHANGED <<fault, alerting, skipped>>
    BY <1>3 DEF Alarm, Poll, crate, ghosts
  <2>2. dc' = dc \/ dc' = [dc EXCEPT !.pc = "ara"]
    BY <1>3 DEF Alarm, Poll, GoTo
  <2>3. dc'.answered = dc.answered /\ (dc' = dc \/ dc'.pc = "ara")
    <3>1. dc \in Controllers
      BY DEF Types, TaskTypes
    <3> QED
      BY <2>2, <3>1 DEF Controllers
  <2> QED
    BY <2>1, <2>3, AnsweringAlone
<1> QED
  BY <1>1, <1>2, <1>3, FaultAnswering, ReadAraAnswering, AskFaultsAnswering
  DEF Next, Control

LEMMA AnsweringInit == Init => Answering
<1> SUFFICES ASSUME Init PROVE Answering
  OBVIOUS
<1>1. dc.answered = <<>>
  BY WaitingType DEF Init, Controllers
<1> QED
  BY <1>1 DEF Init, Answering, Asked, FaultsOwed

-----------------------------------------------------------------------------
(* What the shelf manager was told.                                           *)
Idle(pc) == pc \in {"start", "wait", "ara", "ask"}

LEMMA ToldAlone ==
  ASSUME Told, UNCHANGED <<dc, raw, processed, unseen>>
  PROVE  Told'
  BY DEF Told, WillCompare, Found

LEMMA IdleTold ==
  ASSUME Told, Idle(dc.pc), Idle(dc'.pc), UNCHANGED <<raw, processed, unseen>>
  PROVE  Told'
  BY DEF Told, WillCompare, Found, Idle

\* New presences: what differs is compared yet, or goes unseen.
LEMMA RefreshTold ==
  ASSUME Types, Told, NEW now \in Presences, Refresh(now), NEW s \in Slots \ unseen'
  PROVE  s \in Slots \ unseen /\ (raw'[s] = raw[s] \/ WillCompare(s))
  BY DEF Refresh

LEMMA StartTold == Types /\ Told /\ Start => Told'
<1> SUFFICES ASSUME Types, Told, Start, NEW s \in Slots \ unseen'
             PROVE  ~ WillCompare(s)' /\ ~ Found(s)' /\ processed'[s] = raw'[s]
  BY DEF Told
<1>1. dc.pc = "start" /\ dc'.pc = "wait" /\ UNCHANGED processed
  BY WaitingType DEF Start
<1>2. s \in Slots \ unseen /\ raw'[s] = raw[s]
  BY <1>1, RefreshTold, PresentType DEF Start, WillCompare
<1>3. processed[s] = raw[s]
  BY <1>1, <1>2 DEF Told, WillCompare, Found
<1> QED
  BY <1>1, <1>2, <1>3 DEF WillCompare, Found

LEMMA CopyTold == Types /\ Told /\ Copy => Told'
<1> SUFFICES ASSUME Types, Told, Copy, NEW s \in Slots \ unseen
             PROVE  dc'.pc = "delay" /\ dc'.prev[s] = processed'[s] /\ UNCHANGED unseen
  BY DEF Told, WillCompare, Found, Copy, ghosts
<1>1. /\ dc \in Controllers /\ raw \in Presences /\ dc.pc = "wait"
      /\ dc' = [dc EXCEPT !.pc = "delay", !.prev = raw]
      /\ UNCHANGED <<raw, processed, unseen>>
  BY DEF Copy, Receive, Types, TaskTypes, CrateTypes, ghosts
<1>2. processed[s] = raw[s]
  BY <1>1 DEF Told, WillCompare, Found
<1> QED
  BY <1>1, <1>2 DEF Controllers

LEMMA RereadTold == Types /\ Told /\ Reread => Told'
<1> SUFFICES ASSUME Types, Told, Reread, NEW s \in Slots \ unseen'
             PROVE  /\ dc'.pc = "compare" /\ dc'.at = 1
                    /\ dc'.prev[s] = processed'[s]
  BY Constants DEF Told, WillCompare, Found, Slots
<1>1. /\ dc \in Controllers /\ dc.pc = "delay"
      /\ dc' = [dc EXCEPT !.pc = "compare", !.at = 1] /\ UNCHANGED processed
  BY DEF Reread, Types, TaskTypes
<1>2. s \in Slots \ unseen
  BY RefreshTold, PresentType DEF Reread
<1>3. dc.prev[s] = processed[s]
  BY <1>1, <1>2 DEF Told, WillCompare
<1> QED
  BY <1>1, <1>3 DEF Controllers

LEMMA CompareTold == Types /\ Told /\ Compare => Told'
<1> SUFFICES ASSUME Types, Told, Compare, NEW s \in Slots \ unseen'
             PROVE  /\ WillCompare(s)' => dc'.prev[s] = processed'[s]
                    /\ Found(s)' => dc'.in = raw'[s]
                    /\ ~ WillCompare(s)' /\ ~ Found(s)' => processed'[s] = raw'[s]
  BY DEF Told
<1>1. /\ dc \in Controllers /\ dc.pc = "compare" /\ dc.at \in 1 .. N + 1 /\ N \in Nat
      /\ UNCHANGED <<raw, processed>>
  BY Constants DEF Compare, Types, TaskTypes, Controllers
<1>2. s \in Int /\ s \in Slots /\ s <= N
  BY <1>1 DEF Slots
<1>3. CASE ~ SlotsLeft
  <2>1. dc'.pc = "wait" /\ UNCHANGED unseen
    BY <1>3, WaitingType DEF Compare
  <2>2. ~ WillCompare(s) /\ ~ Found(s)
    BY <1>1, <1>2, <1>3 DEF SlotsLeft, WillCompare, Found
  <2> QED
    BY <1>1, <1>2, <2>1, <2>2 DEF Told, WillCompare, Found
<1>4. CASE SlotsLeft /\ raw[dc.at] = dc.prev[dc.at]
  <2>1. dc' = [dc EXCEPT !.at = @ + 1] /\ UNCHANGED unseen
    BY <1>4 DEF Compare
  <2>2. dc'.pc = "compare" /\ dc'.at = dc.at + 1 /\ dc'.prev = dc.prev
    BY <1>1, <2>1 DEF Controllers
  <2>3. CASE s = dc.at
    <3>1. processed[s] = dc.prev[s]
      BY <1>1, <1>2, <2>1, <2>3 DEF Told, WillCompare
    <3> QED
      BY <1>1, <1>2, <1>4, <2>2, <2>3, <3>1 DEF WillCompare, Found
  <2>4. CASE s # dc.at
    <3>1. (WillCompare(s)' <=> WillCompare(s)) /\ ~ Found(s) /\ ~ Found(s)'
      BY <1>1, <1>2, <2>2, <2>4 DEF WillCompare, Found
    <3> QED
      BY <1>1, <1>2, <2>1, <2>2, <3>1 DEF Told
  <2> QED
    BY <2>3, <2>4
<1>5. CASE SlotsLeft /\ raw[dc.at] # dc.prev[dc.at]
  <2>1. dc' = [dc EXCEPT !.pc = "plug", !.in = raw[dc.at]] /\ unseen' = unseen \ {dc.at}
    BY <1>5 DEF Compare
  <2>2. dc'.pc = "plug" /\ dc'.at = dc.at /\ dc'.prev = dc.prev /\ dc'.in = raw[dc.at]
    BY <1>1, <2>1 DEF Controllers
  <2>3. CASE s = dc.at
    BY <1>1, <1>2, <2>2, <2>3 DEF WillCompare, Found
  <2>4. CASE s # dc.at
    <3>1. /\ (WillCompare(s)' <=> WillCompare(s)) /\ ~ Found(s) /\ ~ Found(s)'
          /\ s \in Slots \ unseen
      BY <1>1, <1>2, <2>1, <2>2, <2>4 DEF WillCompare, Found
    <3> QED
      BY <1>1, <2>2, <3>1 DEF Told
  <2> QED
    BY <2>3, <2>4
<1> QED
  BY <1>3, <1>4, <1>5

LEMMA PlugTold == Types /\ Told /\ Plug => Told'
<1> SUFFICES ASSUME Types, Told, Plug, NEW s \in Slots \ unseen
             PROVE  /\ UNCHANGED unseen /\ ~ Found(s)'
                    /\ WillCompare(s)' => dc'.prev[s] = processed'[s]
                    /\ ~ WillCompare(s)' => processed'[s] = raw'[s]
  BY DEF Told, Plug, ghosts
<1>1. /\ dc \in Controllers /\ dc.pc = "plug" /\ dc.at \in Slots /\ N \in Nat
      /\ processed \in Presences /\ processed' = [processed EXCEPT ![dc.at] = dc.in]
      /\ dc' = [dc EXCEPT !.pc = "compare", !.in = FALSE, !.at = @ + 1]
      /\ UNCHANGED <<raw, unseen>>
  BY Constants DEF Plug, Types, TaskTypes, CrateTypes, ghosts
<1>2. dc'.pc = "compare" /\ dc'.at = dc.at + 1 /\ dc'.prev = dc.prev
  BY <1>1 DEF Controllers
<1>3. s \in Int /\ dc.at \in Int
  BY <1>1 DEF Slots
<1>4. CASE s = dc.at
  <2>1. dc.in = raw[s] /\ processed'[s] = dc.in
    BY <1>1, <1>4 DEF Told, Found, Presences
  <2> QED
    BY <1>1, <1>2, <1>3, <1>4, <2>1 DEF WillCompare, Found
<1>5. CASE s # dc.at
  <2>1. processed'[s] = processed[s]
    BY <1>1, <1>5 DEF Presences
  <2>2. (WillCompare(s)' <=> WillCompare(s)) /\ ~ Found(s) /\ ~ Found(s)'
    BY <1>1, <1>2, <1>3, <1>5 DEF WillCompare, Found
  <2> QED
    BY <1>1, <1>2, <2>1, <2>2 DEF Told
<1> QED
  BY <1>4, <1>5

LEMMA StartFansTold == Types /\ Told /\ StartFans => Told'
<1> SUFFICES ASSUME Types, Told, StartFans, NEW s \in Slots \ unseen'
             PROVE  /\ WillCompare(s)' => dc'.prev[s] = processed'[s]
                    /\ Found(s)' => dc'.in = raw'[s]
                    /\ ~ WillCompare(s)' /\ ~ Found(s)' => processed'[s] = raw'[s]
  BY DEF Told
<1>1. UNCHANGED <<dc, processed>> /\ Refresh(measure.got) /\ measure.got \in Presences
  BY DEF StartFans, Types, TaskTypes, Measures
<1>2. s \in Slots \ unseen /\ (raw'[s] = raw[s] \/ WillCompare(s))
  BY <1>1, RefreshTold
<1>3. ~ (WillCompare(s) /\ Found(s))
  BY <1>2 DEF WillCompare, Found, Slots
<1> QED
  BY <1>1, <1>2, <1>3 DEF Told, WillCompare, Found

LEMMA ToldStep == Types /\ Told /\ [Next]_vars => Told'
<1> SUFFICES ASSUME Types, Told, [Next]_vars PROVE Told'
  OBVIOUS
<1>1. CASE \/ Replug \/ Fault \/ Setting \/ Tick \/ Interrupt \/ SettingsChanged
           \/ ReadPresents \/ TakeRequest \/ SetSpeed \/ UNCHANGED vars
  <2>1. UNCHANGED <<dc, raw, processed, unseen>>
    BY <1>1 DEF Replug, Fault, Setting, Tick, Interrupt, PresentInterrupt,
                AlarmInterrupt, SettingsChanged, ReadPresents, TakeRequest, SetSpeed,
                vars, control, ghosts
  <2> QED
    BY <2>1, ToldAlone
<1>2. CASE Alarm \/ Poll \/ ReadAra \/ AskFaults
  <2>1. UNCHANGED <<raw, processed, unseen>>
    BY <1>2 DEF Alarm, Poll, ReadAra, AskFaults, ghosts
  <2>2. dc \in Controllers /\ Idle(dc.pc)
    BY <1>2 DEF Alarm, Poll, ReadAra, AskFaults, Receive, Idle, Types, TaskTypes
  <2>3. Idle(dc'.pc)
    <3>1. CASE Alarm \/ Poll \/ ReadAra
      BY <2>2, <3>1 DEF Alarm, Poll, ReadAra, GoTo, Idle, Controllers
    <3>2. CASE AskFaults
      BY <2>2, <3>2, WaitingType DEF AskFaults, Idle, Controllers
    <3> QED
      BY <1>2, <3>1, <3>2
  <2> QED
    BY <2>1, <2>2, <2>3, IdleTold
<1> QED
  BY <1>1, <1>2, StartTold, CopyTold, RereadTold, CompareTold, PlugTold, StartFansTold
  DEF Next, Control, Measure

LEMMA ToldInit == Init => Told
<1> SUFFICES ASSUME Init PROVE Told
  OBVIOUS
<1>1. dc.pc = "start" /\ processed = raw
  BY WaitingType DEF Init, Controllers
<1> QED
  BY <1>1 DEF Told, WillCompare, Found

-----------------------------------------------------------------------------
(* The fans.                                                                  *)

\* The first half: the speed asked for.
Asking == dc.pc # "start" /\ "fans" \notin ToSet(box) => want = Wanted(power)

\* The second half: the speed they turn at.
Turning == seen > Delay /\ ~ setFans /\ measure.pc # "set" => speed = want

LEMMA WantedSame ==
  ASSUME UNCHANGED <<setting, power>>
  PROVE  Wanted(power)' = Wanted(power)
  BY DEF Wanted, MaxPower

LEMMA AskingAlone ==
  ASSUME Asking, UNCHANGED <<setting, power, want>>,
         dc'.pc # "start" => dc.pc # "start",
         "fans" \notin ToSet(box') => "fans" \notin ToSet(box)
  PROVE  Asking'
  BY WantedSame DEF Asking

LEMMA AskingStep == Types /\ Asking /\ [Next]_vars => Asking'
<1> SUFFICES ASSUME Types, Asking, [Next]_vars PROVE Asking'
  OBVIOUS
<1>1. dc \in Controllers /\ box \in Seq(Messages)
  BY DEF Types, TaskTypes
<1>2. ASSUME NEW m \in Messages, Post(m)
      PROVE  ToSet(box') = ToSet(box) \cup {m}
  BY <1>1, <1>2, Appended DEF Post
<1>3. CASE Setting \/ Start
  <2>1. "fans" \in Messages /\ Post("fans")
    BY <1>3 DEF Setting, Start, Messages
  <2>2. "fans" \in ToSet(box')
    BY <1>2, <2>1
  <2> QED
    BY <2>2 DEF Asking
<1>4. CASE SettingsChanged \/ Plug
  <2>1. want' = Wanted(power')
    BY <1>4 DEF SettingsChanged, Plug, SetFans, Wanted, MaxPower
  <2>2. UNCHANGED setting
    BY <1>4 DEF SettingsChanged, Plug
  <2> QED
    BY <2>1, <2>2 DEF Asking, Wanted, MaxPower
<1>5. CASE Interrupt
  <2>1. UNCHANGED <<setting, power, want, dc>>
    BY <1>5 DEF Interrupt, PresentInterrupt, AlarmInterrupt, measuring
  <2>2. box' = box \/ Post("present") \/ Post("alarm")
    BY <1>5 DEF Interrupt, PresentInterrupt, AlarmInterrupt
  <2>3. "fans" \notin ToSet(box') => "fans" \notin ToSet(box)
    BY <1>2, <2>2 DEF Messages
  <2> QED
    BY <2>1, <2>3, AskingAlone
<1>6. CASE Copy \/ Alarm
  <2>1. UNCHANGED <<setting, power, want>> /\ dc.pc = "wait"
    BY <1>6 DEF Copy, Alarm, Receive, measuring
  <2>2. box # <<>> /\ Head(box) # "fans" /\ box' = Tail(box)
    BY <1>6 DEF Copy, Alarm, Receive
  <2>3. ToSet(box) = {Head(box)} \cup ToSet(box')
    BY <1>1, <2>2, Received
  <2> QED
    BY <2>1, <2>2, <2>3, AskingAlone
<1>7. CASE Reread \/ Compare \/ Poll \/ ReadAra \/ AskFaults
  <2>1. UNCHANGED <<setting, power, want, box>> /\ dc.pc # "start"
    BY <1>7 DEF Reread, Compare, Poll, ReadAra, AskFaults, measuring
  <2> QED
    BY <2>1, AskingAlone
<1>8. CASE Replug \/ Fault \/ Tick \/ Measure \/ UNCHANGED vars
  <2>1. UNCHANGED <<setting, power, want, box, dc>>
    BY <1>8 DEF Replug, Fault, Tick, Measure, ReadPresents, StartFans, TakeRequest,
                SetSpeed, control, measuring, vars
  <2> QED
    BY <2>1, AskingAlone
<1> QED
  BY <1>3, <1>4, <1>5, <1>6, <1>7, <1>8 DEF Next, Control

LEMMA TurningStep == Types /\ Turning /\ [Next]_vars => Turning'
<1> SUFFICES ASSUME Types, Turning, [Next]_vars PROVE Turning'
  OBVIOUS
<1>1. seen \in 0 .. Delay + 1 /\ Delay \in Nat /\ measure \in Measures
  BY Constants DEF Types, TaskTypes
<1>2. CASE SettingsChanged \/ Plug
  BY <1>2 DEF SettingsChanged, Plug, SetFans, Turning
<1>3. CASE StartFans
  <2>1. CASE seen # Delay
    <3>1. UNCHANGED <<want, speed, setFans>> /\ seen' = Counted /\ measure.pc = "start"
      BY <1>3, <2>1 DEF StartFans, crate
    <3>2. seen' > Delay => seen > Delay
      BY <1>1, <2>1, <3>1 DEF Counted
    <3> QED
      BY <3>1, <3>2 DEF Turning
  <2>2. CASE seen = Delay
    BY <1>1, <1>3, <2>2 DEF StartFans, Requested, Turning
  <2> QED
    BY <2>1, <2>2
<1>4. CASE TakeRequest
  <2>1. UNCHANGED <<want, speed, seen>> /\ measure.pc = "apply"
    BY <1>4 DEF TakeRequest, crate
  <2>2. (setFans /\ measure'.pc = "set") \/ ~ setFans
    BY <1>1, <1>4 DEF TakeRequest, Step, Measures
  <2> QED
    BY <2>1, <2>2 DEF Turning
<1>5. CASE SetSpeed
  BY <1>5 DEF SetSpeed, Turning
<1>6. CASE ReadPresents
  BY <1>6 DEF ReadPresents, Turning
<1>7. CASE \/ Replug \/ Fault \/ Setting \/ Tick \/ Interrupt \/ UNCHANGED vars
           \/ Start \/ Copy \/ Reread \/ Compare \/ Alarm \/ Poll \/ ReadAra \/ AskFaults
  <2>1. UNCHANGED <<seen, setFans, measure, speed, want>>
    BY <1>7 DEF Replug, Fault, Setting, Tick, Interrupt, PresentInterrupt,
                AlarmInterrupt, Start, Copy, Reread, Compare, Alarm, Poll, ReadAra,
                AskFaults, crate, measuring, vars
  <2> QED
    BY <2>1 DEF Turning
<1> QED
  BY <1>2, <1>3, <1>4, <1>5, <1>6, <1>7 DEF Next, Control, Measure

-----------------------------------------------------------------------------
(* Every reachable state.                                                     *)

\* The inductive invariant: types; who has a fault; what the shelf manager was
\* told; what the fans were asked.
THEOREM CrateInvariant == Spec => []Inv
<1>1. SpeedOwed <=> Asking /\ Turning
  BY DEF SpeedOwed, Asking, Turning
<1>2. SpeedOwed' <=> Asking' /\ Turning'
  BY DEF SpeedOwed, Asking, Turning
<1>3. Init => SpeedOwed
  <2> SUFFICES ASSUME Init PROVE SpeedOwed
    OBVIOUS
  <2>1. dc.pc = "start" /\ setFans
    BY WaitingType DEF Init, Controllers
  <2> QED
    BY <2>1 DEF SpeedOwed
<1>4. Init => Inv
  BY <1>3, TypesInit, AnsweringInit, ToldInit DEF Inv
<1>5. Inv /\ [Next]_vars => Inv'
  BY <1>1, <1>2, TypesStep, AnsweringStep, ToldStep, AskingStep, TurningStep DEF Inv
<1> QED
  BY <1>4, <1>5, PTL DEF Spec

\* The variables keep to their types, and only a device with a fault holds the
\* alert line, whatever order events, interrupts and the two tasks come in.
THEOREM Typing == Spec => []TypeOK
<1>1. Inv => TypeOK
  <2> SUFFICES ASSUME Inv PROVE TypeOK
    OBVIOUS
  <2>1. ToSet(box) \subseteq Messages
    BY DEF Inv, Types, ToSet
  <2> QED
    BY <2>1 DEF Inv, Types, CrateTypes, TaskTypes, Controllers, Measures, Pcs,
                Presences, Messages, Answering, TypeOK
<1> QED
  BY <1>1, CrateInvariant, PTL

\* A change of a slot that the shelf manager was not told of will be found by
\* the comparison under way, unless another read it first.
THEOREM ChangesAreTold == Spec => []ChangesOwed
<1>1. Inv => ChangesOwed
  BY DEF Inv, Told, ChangesOwed, Found
<1> QED
  BY <1>1, CrateInvariant, PTL

\* A device whose alert was taken is asked for its fault, unless it was behind
\* one that ended the questions.
THEOREM FaultsAreAsked == Spec => []FaultsOwed
<1>1. Inv => FaultsOwed
  BY DEF Inv, Answering
<1> QED
  BY <1>1, CrateInvariant, PTL

\* The speed of the fans is the one settings and powers call for, or a message
\* or a request that will make it so is on its way.
THEOREM FansAreAsked == Spec => []SpeedOwed
<1>1. Inv => SpeedOwed
  BY DEF Inv
<1> QED
  BY <1>1, CrateInvariant, PTL
=============================================================================
