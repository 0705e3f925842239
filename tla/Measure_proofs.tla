--------------------------- MODULE Measure_proofs ----------------------------
(* The invariants of the measuring task, for any boards, any contents of      *)
(* their EEPROMs and any number of requests and changes.                      *)
EXTENDS Measure, TLAPS

Data == Contents \cup {Old, Blank, Torn}

\* m has the fields of Collecting.
Shape ==
  m = [pc |-> m.pc, at |-> m.at, hand |-> m.hand, num |-> m.num,
       spoilt |-> m.spoilt]

-----------------------------------------------------------------------------
(* The double buffer.                                                         *)

AllParams == {"first", "alarm", "case"}

\* the parameters filled in before the one at i
Before(i) == CASE i = 1 -> {}
               [] i = 2 -> {"first"}
               [] i = 3 -> {"first", "alarm"}
               [] OTHER -> AllParams

BufferTypes ==
  /\ Shape
  /\ app \in {0, 1} /\ gl \in {0, 1} /\ newest \in {0, 1, NoRound}
  /\ ready \in [{0, 1} -> BOOLEAN]
  /\ dyn \in [{0, 1} -> [AllParams -> [red : BOOLEAN, fresh : BOOLEAN]]]
  /\ alarm \in BOOLEAN

\* the buffer being filled is not the one answers are made from
Apart == newest # NoRound => app # gl

\* how far it is filled
Filled ==
  /\ m.pc = "fill" => m.at \in 1 .. 3 /\ \A p \in Before(m.at) : dyn[app][p].fresh
  /\ m.pc = "swap" => \A p \in AllParams : dyn[app][p].fresh

BufferInv == BufferTypes /\ Apart /\ Filled /\ BufferWhole

\* The parameters of the table, as a set and as a tuple.
LEMMA ParamsAre ==
  /\ ToSet(Params) = AllParams
  /\ Params[1] = "first" /\ Params[2] = "alarm" /\ Params[3] = "case"
  /\ Len(Params) = 3
  BY DEF ToSet, Params, AllParams

LEMMA BufferInit == Init => BufferInv
<1> SUFFICES ASSUME Init PROVE BufferInv
  OBVIOUS
<1>1. BufferTypes
  BY ParamsAre DEF Init, BufferTypes, Shape, Collecting, Cell, NoRound
<1>2. Apart /\ Filled /\ BufferWhole
  BY DEF Init, Apart, Filled, BufferWhole, Collecting
<1> QED
  BY <1>1, <1>2 DEF BufferInv

\* What leaves the buffers alone, and neither begins nor continues to fill one,
\* keeps the invariant.
LEMMA BuffersAlone ==
  ASSUME BufferInv, UNCHANGED buffers, Shape',
         m'.pc \in {"fill", "swap"} => m'.pc = m.pc /\ m'.at = m.at
  PROVE  BufferInv'
  BY DEF BufferInv, buffers, BufferTypes, Apart, Filled, BufferWhole

LEMMA AlarmIsBoolean == Raised \in BOOLEAN
  BY DEF Raised

\* What Collect does to the buffer being filled.
LEMMA Emptied ==
  ASSUME NEW D \in [{0, 1} -> [AllParams -> [red : BOOLEAN, fresh : BOOLEAN]]],
         NEW b \in {0, 1}
  PROVE  [D EXCEPT ![b] = [p \in AllParams |-> [D[b][p] EXCEPT !.fresh = FALSE]]]
           \in [{0, 1} -> [AllParams -> [red : BOOLEAN, fresh : BOOLEAN]]]
<1>1. ASSUME NEW p \in AllParams
      PROVE  [D[b][p] EXCEPT !.fresh = FALSE] \in [red : BOOLEAN, fresh : BOOLEAN]
  <2>1. D[b][p] \in [red : BOOLEAN, fresh : BOOLEAN]
    OBVIOUS
  <2> QED
    BY <2>1
<1>2. [p \in AllParams |-> [D[b][p] EXCEPT !.fresh = FALSE]]
        \in [AllParams -> [red : BOOLEAN, fresh : BOOLEAN]]
  BY <1>1
<1> QED
  BY <1>2

LEMMA BufferStep == BufferInv /\ [Next]_vars => BufferInv'
<1> SUFFICES ASSUME BufferInv, [Next]_vars PROVE BufferInv'
  OBVIOUS
<1> USE DEF BufferInv, BufferTypes
<1>1. CASE Collect
  <2> USE <1>1 DEF Collect
  <2>1. Shape' /\ m'.pc = "fill" /\ m'.at = 1
    BY DEF Shape
  <2>2. BufferTypes'
    <3>1. dyn' = [dyn EXCEPT ![app] =
                    [p \in AllParams |-> [dyn[app][p] EXCEPT !.fresh = FALSE]]]
      BY ParamsAre
    <3>2. [dyn EXCEPT ![app] = [p \in AllParams |-> [dyn[app][p] EXCEPT !.fresh = FALSE]]]
            \in [{0, 1} -> [AllParams -> [red : BOOLEAN, fresh : BOOLEAN]]]
      BY Emptied
    <3> QED
      BY <2>1, <3>1, <3>2
  <2>3. Apart' /\ Filled'
    BY <2>1 DEF Apart, Filled, Before
  <2>4. BufferWhole'
    BY ParamsAre DEF Apart, BufferWhole
  <2> QED
    BY <2>2, <2>3, <2>4
<1>2. CASE Fill
  <2> USE <1>2 DEF Fill
  <2>1. Shape'
    BY DEF Shape
  <2>2. m.at \in 1 .. 3 /\ Params[m.at] \in AllParams
    BY ParamsAre DEF Filled, AllParams
  <2>3. PICK red \in BOOLEAN :
           dyn' = [dyn EXCEPT ![app][Params[m.at]] = [red |-> red, fresh |-> TRUE]]
    <3> DEFINE r == IF Params[m.at] = "alarm" THEN Raised ELSE Params[m.at] \in hot
    <3>1. dyn' = [dyn EXCEPT ![app][Params[m.at]] = [red |-> r, fresh |-> TRUE]]
      OBVIOUS
    <3>2. r \in BOOLEAN
      <4>1. CASE Params[m.at] = "alarm"
        BY <4>1, AlarmIsBoolean
      <4>2. CASE Params[m.at] # "alarm"
        BY <4>2, (Params[m.at] \in hot) \in BOOLEAN
      <4> QED
        BY <4>1, <4>2
    <3> HIDE DEF r
    <3> QED
      BY <3>1, <3>2
  <2>4. alarm' \in BOOLEAN
    BY <2>2 DEF Raised
  <2>5. BufferTypes'
    BY <2>1, <2>2, <2>3, <2>4
  <2>6. Apart'
    BY DEF Apart
  <2>7. \A p \in Before(m.at) \cup {Params[m.at]} : dyn'[app][p].fresh
    BY <2>2, <2>3 DEF Filled, Before, AllParams
  <2>8. Filled'
    <3>1. CASE m.at < 3
      <4>1. m' = [m EXCEPT !.at = m.at + 1]
        BY <3>1, ParamsAre
      <4>2. m'.pc = "fill" /\ m'.at = m.at + 1
        BY <4>1 DEF Shape
      <4>3. Before(m.at + 1) = Before(m.at) \cup {Params[m.at]}
        BY <3>1, <2>2, ParamsAre DEF Before, AllParams
      <4> QED
        BY <4>2, <4>3, <2>2, <2>7, <3>1 DEF Filled
    <3>2. CASE m.at = 3
      <4>1. m' = [m EXCEPT !.pc = "swap"]
        BY <3>2, ParamsAre
      <4>2. m'.pc = "swap"
        BY <4>1 DEF Shape
      <4> QED
        BY <4>2, <2>7, <3>2, ParamsAre DEF Filled, Before, AllParams
    <3> QED
      BY <3>1, <3>2, <2>2
  <2>9. BufferWhole'
    BY <2>2, <2>3, ParamsAre DEF BufferWhole, Apart
  <2> QED
    BY <2>5, <2>6, <2>8, <2>9
<1>3. CASE Swap
  <2> USE <1>3 DEF Swap, Other
  <2>1. Shape' /\ m'.pc = "look"
    BY DEF Shape
  <2>2. BufferTypes' /\ Apart' /\ Filled'
    BY <2>1 DEF Apart, Filled, NoRound
  <2>3. BufferWhole'
    BY ParamsAre DEF BufferWhole, Filled
  <2> QED
    BY <2>2, <2>3
<1>4. ASSUME UNCHANGED buffers, m' = Onward
      PROVE  BufferInv'
  <2>1. Shape' /\ m'.pc \in {"look", "collect"}
    BY <1>4 DEF Onward, Shape, Collecting
  <2> QED
    BY <1>4, <2>1, BuffersAlone
<1>5. CASE PassOver \/ Press \/ Hold \/ Release
  BY <1>4, <1>5 DEF PassOver, Press, Hold, Release
<1>6. CASE \E k \in Late : Done(k)
  BY <1>4, <1>6 DEF Done, buffers
<1>7. CASE SlotWritten \/ SectionWritten \/ SectionCleared
  BY <1>4, <1>7 DEF SlotWritten, SectionWritten, SectionCleared
<1>8. CASE \E k \in Late : Take(k)
  <2>1. Shape' /\ m'.pc = "doing"
    BY <1>8 DEF Take, Shape
  <2> QED
    BY <1>8, <2>1, BuffersAlone DEF Take
<1>9. CASE TakeSlot \/ TakeWrite \/ TakeClear
  <2>1. Shape' /\ m'.pc \in {"doing", "overrun"}
    BY <1>9 DEF TakeSlot, TakeWrite, TakeClear, Shape
  <2>2. UNCHANGED buffers
    BY <1>9 DEF TakeSlot, TakeWrite, TakeClear
  <2> QED
    BY <2>1, <2>2, BuffersAlone
<1>10. CASE \E s \in Slots : \E c \in Contents : AskSlot(s, c) \/ AskWrite(s, c)
  <2>1. Shape' /\ m'.pc = m.pc /\ m'.at = m.at
    BY <1>10 DEF AskSlot, AskWrite, Shape
  <2>2. UNCHANGED buffers
    BY <1>10 DEF AskSlot, AskWrite, Asked
  <2> QED
    BY <2>1, <2>2, BuffersAlone
<1>11. ASSUME UNCHANGED <<buffers, m>> PROVE BufferInv'
  <2>1. Shape'
    BY <1>11 DEF Shape
  <2> QED
    BY <1>11, <2>1, BuffersAlone
<1>12. CASE Change \/ (\E s \in Slots : AskClear(s)) \/ UNCHANGED vars
  BY <1>11, <1>12 DEF Change, AskClear, Asked, vars
<1>13. CASE \E k \in Late : \E p \in Parts[k] : Ask(k, p)
  BY <1>11, <1>13 DEF Ask
<1> QED
  BY <1>1, <1>2, <1>3, <1>5, <1>6, <1>7, <1>8, <1>9, <1>10, <1>12, <1>13
     DEF Next, Work

(* The buffer being filled is never the one answers are made from, and is     *)
(* filled from the first parameter to the last before they change places      *)
(* (_Fill_Values).                                                            *)
THEOREM BuffersApart == Spec => []BufferInv
  BY BufferInit, BufferStep, PTL DEF Spec

(* Every answer is made from the parameters of one round, the last completed. *)
THEOREM AnswersOfOneRound == Spec => []BufferWhole
<1>1. BufferInv => BufferWhole
  BY DEF BufferInv
<1> QED
  BY <1>1, BuffersApart, PTL

-----------------------------------------------------------------------------
(* The requests for the EEPROMs of boards.                                    *)

Lengths == {"set", "wild"}

RequestTypes ==
  /\ Shape /\ m.spoilt \in BOOLEAN
  /\ params \in Data
  /\ slotReq = [num |-> slotReq.num, write |-> slotReq.write]
  /\ slotReq.write \in BOOLEAN
  /\ optReq = [num |-> optReq.num, data |-> optReq.data, write |-> optReq.write,
               clear |-> optReq.clear]
  /\ optReq.write \in BOOLEAN /\ optReq.clear \in BOOLEAN
  /\ opt \in [Slots -> [len : Lengths, data : Data]]
  /\ eeprom \in [Slots -> Data] /\ section \in [Slots -> Data]
  /\ asked = [eeprom |-> asked.eeprom, section |-> asked.section]
  /\ clashed \in BOOLEAN

\* a request names a board, and so does one being carried out
Addressed ==
  /\ slotReq.write => slotReq.num \in Slots
  /\ Doing("slot") => m.num \in Slots /\ m.hand \in Data
  /\ optReq.write => optReq.num \in Slots /\ optReq.data \in Slots
  /\ Doing("write") => m.num \in Slots /\ m.hand \in Slots
  /\ optReq.clear => optReq.num \in Slots
  /\ Doing("clear") => m.num \in Slots

\* no request is being carried out
Idle == ~Doing("slot") /\ ~Doing("write") /\ ~Doing("clear")

\* at most one request is under way, if each waited for the one before
OneAtATime ==
  /\ slotReq.write => Idle /\ ~optReq.write /\ ~optReq.clear
  /\ optReq.write => Idle /\ ~slotReq.write /\ ~optReq.clear
  /\ optReq.clear => Idle /\ ~slotReq.write /\ ~optReq.write

\* the EEPROMs hold what was asked for, but for the request under way
Due(e, c) == asked = [eeprom |-> e, section |-> c]

Owing ==
  /\ ~Outstanding => Due(eeprom, section)
  /\ slotReq.write => Due([eeprom EXCEPT ![slotReq.num] = params], section)
  /\ Doing("slot") => Due([eeprom EXCEPT ![m.num] = m.hand], section)
  /\ optReq.write =>
       /\ optReq.data = optReq.num /\ opt[optReq.num].len = "set"
       /\ Due(eeprom, [section EXCEPT ![optReq.num] = opt[optReq.num].data])
  /\ Doing("write") =>
       /\ m.hand = m.num
       /\ Due(eeprom, [section EXCEPT ![m.num] = opt[m.num].data])
  /\ optReq.clear => Due(eeprom, [section EXCEPT ![optReq.num] = Blank])
  /\ Doing("clear") => Due(eeprom, [section EXCEPT ![m.num] = Blank])

Orderly == m.pc # "overrun" /\ ~m.spoilt /\ OneAtATime /\ Owing

RequestInv == RequestTypes /\ Addressed /\ (~clashed => Orderly)

\* Where the step leaves the flags, the memories and the boards alone.
Aside == UNCHANGED eeproms /\ Shape' /\ m'.spoilt \in {FALSE, m.spoilt}

LEMMA RequestInit == Init => RequestInv
<1> SUFFICES ASSUME Init PROVE RequestInv
  OBVIOUS
<1> USE DEF Init
<1>1. Shape /\ m.pc = "collect" /\ m.spoilt = FALSE
  BY DEF Shape, Collecting
<1>2. ~Doing("slot") /\ ~Doing("write") /\ ~Doing("clear")
  BY <1>1 DEF Doing
<1>3. RequestTypes
  BY <1>1 DEF RequestTypes, Data, Lengths
<1>4. Addressed
  BY <1>2 DEF Addressed
<1>5. Orderly
  BY <1>1, <1>2 DEF Orderly, OneAtATime, Owing, Due
<1> QED
  BY <1>3, <1>4, <1>5 DEF RequestInv

\* A step between two states in which no request is being carried out.
LEMMA RequestIdle ==
  ASSUME RequestInv, Aside, Idle, Idle', m'.pc # "overrun"
  PROVE  RequestInv'
<1> USE DEF RequestInv, Aside, eeproms
<1>1. RequestTypes'
  BY DEF RequestTypes
<1>2. Addressed'
  BY DEF Addressed, Idle
<1>3. ASSUME ~clashed PROVE Orderly'
  BY <1>3 DEF Orderly, OneAtATime, Owing, Due, Idle, Outstanding, RequestTypes
<1> QED
  BY <1>1, <1>2, <1>3

\* A step that leaves the task where it is.
LEMMA RequestStays ==
  ASSUME RequestInv, UNCHANGED eeproms, UNCHANGED m
  PROVE  RequestInv'
<1> USE DEF RequestInv, eeproms
<1>1. /\ Doing("slot")' <=> Doing("slot")
      /\ Doing("write")' <=> Doing("write")
      /\ Doing("clear")' <=> Doing("clear")
  BY DEF Doing
<1>2. RequestTypes'
  BY DEF RequestTypes, Shape
<1>3. Addressed'
  BY <1>1 DEF Addressed
<1>4. Idle' <=> Idle
  BY <1>1 DEF Idle
<1>5. Outstanding' <=> Outstanding
  BY <1>1 DEF Outstanding
<1>6. ASSUME ~clashed PROVE Orderly'
  BY <1>1, <1>4, <1>5, <1>6 DEF Orderly, OneAtATime, Owing, Due
<1> QED
  BY <1>2, <1>3, <1>6

\* What it has in hand when it looks at the next flag, or measures again.
LEMMA OnwardIs ==
  ASSUME m' = Onward
  PROVE  Shape' /\ m'.pc \in {"look", "collect"} /\ m'.spoilt = FALSE /\ Idle'
<1>1. Shape' /\ m'.pc \in {"look", "collect"} /\ m'.spoilt = FALSE
  BY DEF Onward, Shape, Collecting
<1> QED
  BY <1>1 DEF Idle, Doing

\* Requests: none is under way, if they are made in order.
LEMMA InOrder ==
  ASSUME RequestInv, ~clashed, ~Outstanding
  PROVE  /\ ~slotReq.write /\ ~optReq.write /\ ~optReq.clear /\ Idle
         /\ Due(eeprom, section) /\ ~m.spoilt /\ m.pc # "overrun"
  BY DEF RequestInv, Orderly, Owing, Outstanding, Idle

LEMMA SlotAsked ==
  ASSUME RequestInv, NEW s \in Slots, NEW c \in Contents, AskSlot(s, c)
  PROVE  RequestInv'
<1> USE DEF RequestInv
<1>1. /\ params' = c
      /\ slotReq' = [num |-> s, write |-> TRUE]
      /\ asked' = [asked EXCEPT !["eeprom"][s] = c]
      /\ clashed' = (clashed \/ Outstanding)
      /\ UNCHANGED <<opt, optReq, eeprom, section>>
  BY DEF AskSlot, Asked
<1>2. /\ Shape' /\ m'.pc = m.pc /\ m'.at = m.at /\ m'.hand = m.hand
      /\ m'.num = m.num /\ m'.spoilt = (m.spoilt \/ (Doing("slot") /\ c # params))
  BY DEF AskSlot, RequestTypes, Shape
<1>3. \A step : Doing(step)' <=> Doing(step)
  BY <1>2 DEF Doing
<1>4. m'.spoilt \in BOOLEAN
  BY <1>2 DEF RequestTypes
<1>5. RequestTypes'
  BY <1>1, <1>2, <1>4 DEF RequestTypes, Data, Outstanding
<1>6. Addressed'
  BY <1>1, <1>2, <1>3 DEF Addressed
<1>7. ASSUME ~clashed' PROVE Orderly'
  <2>1. ~clashed /\ ~Outstanding
    BY <1>1, <1>7
  <2>2. /\ ~slotReq.write /\ ~optReq.write /\ ~optReq.clear /\ Idle
        /\ Due(eeprom, section) /\ ~m.spoilt /\ m.pc # "overrun"
    BY <2>1, InOrder
  <2>3. Idle' /\ ~m'.spoilt /\ m'.pc # "overrun"
    BY <2>2, <1>2, <1>3 DEF Idle
  <2>4. OneAtATime'
    BY <2>2, <2>3, <1>1 DEF OneAtATime
  <2>5. asked' = [eeprom |-> [eeprom EXCEPT ![s] = c], section |-> section]
    BY <2>2, <1>1 DEF Due, RequestTypes
  <2>6. Owing'
    BY <2>2, <2>3, <2>5, <1>1 DEF Owing, Due, Outstanding, Idle
  <2> QED
    BY <2>3, <2>4, <2>6 DEF Orderly
<1> QED
  BY <1>5, <1>6, <1>7

LEMMA WriteAsked ==
  ASSUME RequestInv, NEW s \in Slots, NEW c \in Contents, AskWrite(s, c)
  PROVE  RequestInv'
<1> USE DEF RequestInv
<1>1. /\ opt' = [opt EXCEPT ![s] = [len |-> "set", data |-> c]]
      /\ optReq' = [num |-> s, data |-> s, write |-> TRUE, clear |-> optReq.clear]
      /\ asked' = [asked EXCEPT !["section"][s] = c]
      /\ clashed' = (clashed \/ Outstanding)
      /\ UNCHANGED <<params, slotReq, eeprom, section>>
  BY DEF AskWrite, Asked, Optional, RequestTypes
<1>2. /\ Shape' /\ m'.pc = m.pc /\ m'.at = m.at /\ m'.hand = m.hand
      /\ m'.num = m.num
      /\ m'.spoilt = (m.spoilt \/ (Doing("write") /\ s = m.hand /\ c # opt[s].data))
  BY DEF AskWrite, RequestTypes, Shape
<1>3. \A step : Doing(step)' <=> Doing(step)
  BY <1>2 DEF Doing
<1>4. m'.spoilt \in BOOLEAN
  BY <1>2 DEF RequestTypes
<1>5. RequestTypes'
  <2>1. opt' \in [Slots -> [len : Lengths, data : Data]]
    BY <1>1 DEF RequestTypes, Lengths, Data
  <2> QED
    BY <2>1, <1>1, <1>2, <1>4 DEF RequestTypes, Outstanding
<1>6. Addressed'
  BY <1>1, <1>2, <1>3 DEF Addressed
<1>7. ASSUME ~clashed' PROVE Orderly'
  <2>1. ~clashed /\ ~Outstanding
    BY <1>1, <1>7
  <2>2. /\ ~slotReq.write /\ ~optReq.write /\ ~optReq.clear /\ Idle
        /\ Due(eeprom, section) /\ ~m.spoilt /\ m.pc # "overrun"
    BY <2>1, InOrder
  <2>3. Idle' /\ ~m'.spoilt /\ m'.pc # "overrun"
    BY <2>2, <1>2, <1>3 DEF Idle
  <2>4. OneAtATime'
    BY <2>2, <2>3, <1>1 DEF OneAtATime
  <2>5. asked' = [eeprom |-> eeprom, section |-> [section EXCEPT ![s] = c]]
    BY <2>2, <1>1 DEF Due, RequestTypes
  <2>6. opt'[s] = [len |-> "set", data |-> c]
    BY <1>1 DEF RequestTypes
  <2>7. Owing'
    BY <2>2, <2>3, <2>5, <2>6, <1>1 DEF Owing, Due, Outstanding, Idle
  <2> QED
    BY <2>3, <2>4, <2>7 DEF Orderly
<1> QED
  BY <1>5, <1>6, <1>7

LEMMA ClearAsked ==
  ASSUME RequestInv, NEW s \in Slots, AskClear(s)
  PROVE  RequestInv'
<1> USE DEF RequestInv
<1>1. /\ optReq' = [num |-> s, data |-> optReq.data, write |-> optReq.write, clear |-> TRUE]
      /\ asked' = [asked EXCEPT !["section"][s] = Blank]
      /\ clashed' = (clashed \/ Outstanding)
      /\ UNCHANGED <<params, slotReq, opt, eeprom, section, m>>
  BY DEF AskClear, Asked, RequestTypes
<1>2. \A step : Doing(step)' <=> Doing(step)
  BY <1>1 DEF Doing
<1>3. RequestTypes'
  BY <1>1 DEF RequestTypes, Outstanding, Shape
<1>4. ASSUME ~clashed' PROVE Orderly'
  <2>1. ~clashed /\ ~Outstanding
    BY <1>1, <1>4
  <2>2. /\ ~slotReq.write /\ ~optReq.write /\ ~optReq.clear /\ Idle
        /\ Due(eeprom, section) /\ ~m.spoilt /\ m.pc # "overrun"
    BY <2>1, InOrder
  <2>3. Idle' /\ ~m'.spoilt /\ m'.pc # "overrun"
    BY <2>2, <1>1, <1>2 DEF Idle
  <2>4. OneAtATime'
    BY <2>2, <2>3, <1>1 DEF OneAtATime
  <2>5. asked' = [eeprom |-> eeprom, section |-> [section EXCEPT ![s] = Blank]]
    BY <2>2, <1>1 DEF Due, RequestTypes
  <2>6. Owing'
    BY <2>2, <2>3, <2>5, <1>1 DEF Owing, Due, Outstanding, Idle
  <2> QED
    BY <2>3, <2>4, <2>6 DEF Orderly
<1>5. optReq'.num \in Slots /\ (optReq.write => optReq.data \in Slots)
  BY <1>1 DEF Addressed
<1>6. Addressed'
  BY <1>1, <1>2, <1>5 DEF Addressed
<1> QED
  BY <1>3, <1>4, <1>6

LEMMA SlotTaken ==
  ASSUME RequestInv, TakeSlot
  PROVE  RequestInv'
<1> USE DEF RequestInv
<1>1. /\ slotReq.write /\ slotReq.num \in Slots
      /\ slotReq' = [num |-> slotReq.num, write |-> FALSE]
      /\ UNCHANGED <<params, opt, optReq, eeprom, section, asked, clashed>>
  BY DEF TakeSlot, Flagged, Looking, Late, Addressed, RequestTypes
<1>2. /\ Shape' /\ m'.pc = "doing" /\ m'.at = m.at /\ Steps[m.at] = "slot"
      /\ m'.hand = params /\ m'.num = slotReq.num /\ m'.spoilt = m.spoilt
  BY DEF TakeSlot, Looking, RequestTypes, Shape
<1>3. Doing("slot")' /\ ~Doing("write")' /\ ~Doing("clear")'
  BY <1>2 DEF Doing
<1>4. RequestTypes'
  BY <1>1, <1>2 DEF RequestTypes
<1>5. Addressed'
  BY <1>1, <1>2, <1>3 DEF Addressed, RequestTypes
<1>6. ASSUME ~clashed PROVE Orderly'
  <2>1. ~optReq.write /\ ~optReq.clear /\ ~m.spoilt
    BY <1>1, <1>6 DEF Orderly, OneAtATime
  <2>2. Due([eeprom EXCEPT ![slotReq.num] = params], section)
    BY <1>1, <1>6 DEF Orderly, Owing
  <2>3. OneAtATime'
    BY <1>1, <2>1 DEF OneAtATime
  <2>4. Outstanding'
    BY <1>3 DEF Outstanding
  <2>5. Owing'
    BY <1>1, <1>2, <1>3, <2>1, <2>2, <2>4 DEF Owing, Due
  <2> QED
    BY <1>2, <2>1, <2>3, <2>5 DEF Orderly
<1> QED
  BY <1>1, <1>4, <1>5, <1>6

LEMMA WriteTaken ==
  ASSUME RequestInv, TakeWrite
  PROVE  RequestInv'
<1> USE DEF RequestInv
<1>1. /\ optReq.write /\ optReq.num \in Slots /\ optReq.data \in Slots
      /\ optReq' = [num |-> optReq.num, data |-> optReq.data, write |-> FALSE,
                    clear |-> optReq.clear]
      /\ UNCHANGED <<params, slotReq, opt, eeprom, section, asked, clashed>>
  BY DEF TakeWrite, Flagged, Looking, Late, Addressed, RequestTypes
<1>2. Shape' /\ m'.at = m.at /\ m'.spoilt = m.spoilt /\ Steps[m.at] = "write"
  BY DEF TakeWrite, Looking, RequestTypes, Shape
<1>3. ~Doing("slot")' /\ ~Doing("clear")'
  BY <1>2 DEF Doing
<1>4. RequestTypes'
  BY <1>1, <1>2 DEF RequestTypes
<1>5. CASE opt[optReq.data].len = "wild"
  <2>1. m'.pc = "overrun"
    BY <1>5 DEF TakeWrite, RequestTypes, Shape
  <2>2. ~Doing("write")'
    BY <2>1 DEF Doing
  <2>3. Addressed'
    BY <1>1, <1>3, <2>2 DEF Addressed
  <2>4. clashed
    BY <1>1, <1>5, "set" # "wild" DEF Orderly, Owing
  <2> QED
    BY <1>1, <1>4, <2>3, <2>4
<1>6. CASE opt[optReq.data].len # "wild"
  <2>1. m'.pc = "doing" /\ m'.hand = optReq.data /\ m'.num = optReq.num
    BY <1>6 DEF TakeWrite, RequestTypes, Shape
  <2>2. Doing("write")'
    BY <1>2, <2>1 DEF Doing
  <2>3. Addressed'
    BY <1>1, <1>3, <2>1 DEF Addressed
  <2>4. ASSUME ~clashed PROVE Orderly'
    <3>1. ~slotReq.write /\ ~optReq.clear /\ ~m.spoilt
      BY <1>1, <2>4 DEF Orderly, OneAtATime
    <3>2. /\ optReq.data = optReq.num
          /\ Due(eeprom, [section EXCEPT ![optReq.num] = opt[optReq.num].data])
      BY <1>1, <2>4 DEF Orderly, Owing
    <3>3. OneAtATime'
      BY <1>1, <3>1 DEF OneAtATime
    <3>4. Outstanding'
      BY <2>2 DEF Outstanding
    <3>5. Owing'
      BY <1>1, <1>3, <2>1, <3>1, <3>2, <3>4 DEF Owing, Due
    <3> QED
      BY <1>2, <2>1, <3>1, <3>3, <3>5 DEF Orderly
  <2> QED
    BY <1>1, <1>4, <2>3, <2>4
<1> QED
  BY <1>5, <1>6

LEMMA ClearTaken ==
  ASSUME RequestInv, TakeClear
  PROVE  RequestInv'
<1> USE DEF RequestInv
<1>1. /\ optReq.clear /\ optReq.num \in Slots
      /\ optReq' = [num |-> optReq.num, data |-> optReq.data,
                    write |-> optReq.write, clear |-> FALSE]
      /\ optReq.write => optReq.data \in Slots
      /\ UNCHANGED <<params, slotReq, opt, eeprom, section, asked, clashed>>
  BY DEF TakeClear, Flagged, Looking, Late, Addressed, RequestTypes
<1>2. /\ Shape' /\ m'.pc = "doing" /\ m'.at = m.at /\ Steps[m.at] = "clear"
      /\ m'.num = optReq.num /\ m'.spoilt = m.spoilt
  BY DEF TakeClear, Looking, RequestTypes, Shape
<1>3. Doing("clear")' /\ ~Doing("slot")' /\ ~Doing("write")'
  BY <1>2 DEF Doing
<1>4. RequestTypes'
  BY <1>1, <1>2 DEF RequestTypes
<1>5. Addressed'
  BY <1>1, <1>2, <1>3 DEF Addressed
<1>6. ASSUME ~clashed PROVE Orderly'
  <2>1. ~optReq.write /\ ~slotReq.write /\ ~m.spoilt
    BY <1>1, <1>6 DEF Orderly, OneAtATime
  <2>2. Due(eeprom, [section EXCEPT ![optReq.num] = Blank])
    BY <1>1, <1>6 DEF Orderly, Owing
  <2>3. OneAtATime'
    BY <1>1, <2>1 DEF OneAtATime
  <2>4. Outstanding'
    BY <1>3 DEF Outstanding
  <2>5. Owing'
    BY <1>1, <1>2, <1>3, <2>1, <2>2, <2>4 DEF Owing, Due
  <2> QED
    BY <1>2, <2>1, <2>3, <2>5 DEF Orderly
<1> QED
  BY <1>1, <1>4, <1>5, <1>6

\* What is read back of a section, and what is written of a board.
LEMMA ReadBackIs ==
  ASSUME RequestTypes, NEW s \in Slots
  PROVE  ReadBack(s) \in [len : Lengths, data : Data]
<1>1. opt[s] \in [len : Lengths, data : Data] /\ section[s] \in Data
  BY DEF RequestTypes
<1> QED
  BY <1>1 DEF ReadBack, Lengths

LEMMA SlotDone ==
  ASSUME RequestInv, SlotWritten
  PROVE  RequestInv'
<1> USE DEF RequestInv
<1>1. PICK c \in {m.hand} \cup (IF m.spoilt THEN {Torn} ELSE {}) :
         /\ eeprom' = [eeprom EXCEPT ![m.num] = c]
         /\ opt' = IF c = Torn THEN opt
                   ELSE [opt EXCEPT ![m.num] = ReadBack(m.num)]
  BY DEF SlotWritten
<1>2. /\ Doing("slot") /\ m.num \in Slots /\ m.hand \in Data
      /\ UNCHANGED <<params, slotReq, optReq, section, asked, clashed>>
  BY DEF SlotWritten, Addressed
<1>3. Shape' /\ m'.pc \in {"look", "collect"} /\ m'.spoilt = FALSE /\ Idle'
  BY OnwardIs DEF SlotWritten
<1>4. c \in Data
  BY <1>1, <1>2 DEF Data
<1>5. eeprom' \in [Slots -> Data]
  BY <1>1, <1>2, <1>4 DEF RequestTypes
<1>6. opt' \in [Slots -> [len : Lengths, data : Data]]
  BY <1>1, <1>2, ReadBackIs DEF RequestTypes
<1>7. RequestTypes'
  BY <1>2, <1>3, <1>5, <1>6 DEF RequestTypes
<1>8. Addressed'
  BY <1>2, <1>3 DEF Addressed, Idle
<1>9. ASSUME ~clashed PROVE Orderly'
  <2>1. ~slotReq.write /\ ~optReq.write /\ ~optReq.clear /\ ~m.spoilt
    BY <1>2, <1>9 DEF Orderly, OneAtATime, Idle
  <2>2. Due([eeprom EXCEPT ![m.num] = m.hand], section)
    BY <1>2, <1>9 DEF Orderly, Owing
  <2>3. eeprom' = [eeprom EXCEPT ![m.num] = m.hand]
    BY <1>1, <2>1
  <2>4. OneAtATime'
    BY <1>2, <2>1 DEF OneAtATime
  <2>5. Owing'
    BY <1>2, <1>3, <2>1, <2>2, <2>3 DEF Owing, Due, Idle
  <2> QED
    BY <1>3, <2>4, <2>5 DEF Orderly
<1> QED
  BY <1>2, <1>7, <1>8, <1>9

LEMMA WriteDone ==
  ASSUME RequestInv, SectionWritten
  PROVE  RequestInv'
<1> USE DEF RequestInv
<1>1. PICK c \in {opt[m.hand].data} \cup (IF m.spoilt THEN {Torn} ELSE {}) :
         section' = [section EXCEPT ![m.num] = c]
  BY DEF SectionWritten
<1>2. /\ Doing("write") /\ m.num \in Slots /\ m.hand \in Slots
      /\ UNCHANGED <<params, slotReq, opt, optReq, eeprom, asked, clashed>>
  BY DEF SectionWritten, Addressed
<1>3. Shape' /\ m'.pc \in {"look", "collect"} /\ m'.spoilt = FALSE /\ Idle'
  BY OnwardIs DEF SectionWritten
<1>4. c \in Data
  BY <1>1, <1>2 DEF Data, RequestTypes
<1>5. section' \in [Slots -> Data]
  BY <1>1, <1>2, <1>4 DEF RequestTypes
<1>6. RequestTypes'
  BY <1>2, <1>3, <1>5 DEF RequestTypes
<1>7. Addressed'
  BY <1>2, <1>3 DEF Addressed, Idle
<1>8. ASSUME ~clashed PROVE Orderly'
  <2>1. ~slotReq.write /\ ~optReq.write /\ ~optReq.clear /\ ~m.spoilt
    BY <1>2, <1>8 DEF Orderly, OneAtATime, Idle
  <2>2. m.hand = m.num /\ Due(eeprom, [section EXCEPT ![m.num] = opt[m.num].data])
    BY <1>2, <1>8 DEF Orderly, Owing
  <2>3. section' = [section EXCEPT ![m.num] = opt[m.num].data]
    BY <1>1, <2>1, <2>2
  <2>4. OneAtATime'
    BY <1>2, <2>1 DEF OneAtATime
  <2>5. Owing'
    BY <1>2, <1>3, <2>1, <2>2, <2>3 DEF Owing, Due, Idle
  <2> QED
    BY <1>3, <2>4, <2>5 DEF Orderly
<1> QED
  BY <1>2, <1>6, <1>7, <1>8

LEMMA ClearDone ==
  ASSUME RequestInv, SectionCleared
  PROVE  RequestInv'
<1> USE DEF RequestInv
<1>1. /\ Doing("clear") /\ m.num \in Slots
      /\ section' = [section EXCEPT ![m.num] = Blank]
      /\ UNCHANGED <<params, slotReq, opt, optReq, eeprom, asked, clashed>>
  BY DEF SectionCleared, Addressed
<1>2. Shape' /\ m'.pc \in {"look", "collect"} /\ m'.spoilt = FALSE /\ Idle'
  BY OnwardIs DEF SectionCleared
<1>3. section' \in [Slots -> Data]
  BY <1>1 DEF RequestTypes, Data
<1>4. RequestTypes'
  BY <1>1, <1>2, <1>3 DEF RequestTypes
<1>5. Addressed'
  BY <1>1, <1>2 DEF Addressed, Idle
<1>6. ASSUME ~clashed PROVE Orderly'
  <2>1. ~slotReq.write /\ ~optReq.write /\ ~optReq.clear /\ ~m.spoilt
    BY <1>1, <1>6 DEF Orderly, OneAtATime, Idle
  <2>2. Due(eeprom, [section EXCEPT ![m.num] = Blank])
    BY <1>1, <1>6 DEF Orderly, Owing
  <2>3. OneAtATime'
    BY <1>1, <2>1 DEF OneAtATime
  <2>4. Owing'
    BY <1>1, <1>2, <2>1, <2>2 DEF Owing, Due, Idle
  <2> QED
    BY <1>2, <2>3, <2>4 DEF Orderly
<1> QED
  BY <1>1, <1>4, <1>5, <1>6

LEMMA RequestStep == RequestInv /\ [Next]_vars => RequestInv'
<1> SUFFICES ASSUME RequestInv, [Next]_vars PROVE RequestInv'
  OBVIOUS
<1>1. Shape /\ m.spoilt \in BOOLEAN
  BY DEF RequestInv, RequestTypes
<1>2. ASSUME m.pc # "doing", UNCHANGED eeproms, Shape',
             m'.pc \in {"fill", "swap", "look"}, m'.spoilt = m.spoilt
      PROVE  RequestInv'
  <2>1. Idle /\ Idle' /\ m'.pc # "overrun"
    BY <1>2 DEF Idle, Doing
  <2> QED
    BY <1>2, <2>1, RequestIdle DEF Aside
<1>3. ASSUME Idle, UNCHANGED eeproms, m' = Onward
      PROVE  RequestInv'
  <2>1. Shape' /\ m'.pc \in {"look", "collect"} /\ m'.spoilt = FALSE /\ Idle'
    BY <1>3, OnwardIs
  <2> QED
    BY <1>3, <2>1, RequestIdle DEF Aside
<1>4. CASE Collect
  <2>1. Shape' /\ m.pc = "collect" /\ m'.pc = "fill" /\ m'.spoilt = m.spoilt
    BY <1>1, <1>4 DEF Collect, Shape
  <2> QED
    BY <1>2, <1>4, <2>1 DEF Collect
<1>5. CASE Fill
  <2>1. Shape' /\ m.pc = "fill" /\ m'.pc \in {"fill", "swap"} /\ m'.spoilt = m.spoilt
    BY <1>1, <1>5 DEF Fill, Shape
  <2> QED
    BY <1>2, <1>5, <2>1 DEF Fill
<1>6. CASE Swap
  <2>1. Shape' /\ m.pc = "swap" /\ m'.pc = "look" /\ m'.spoilt = m.spoilt
    BY <1>1, <1>6 DEF Swap, Shape
  <2> QED
    BY <1>2, <1>6, <2>1 DEF Swap
<1>7. CASE PassOver \/ Press \/ Hold \/ Release
  <2>1. Idle /\ UNCHANGED eeproms /\ m' = Onward
    BY <1>7 DEF PassOver, Press, Hold, Release, Looking, Idle, Doing
  <2> QED
    BY <1>3, <2>1
<1>8. ASSUME NEW k \in Late, Take(k) PROVE RequestInv'
  <2>1. /\ Shape' /\ m.pc = "look" /\ m'.pc = "doing" /\ m'.spoilt = m.spoilt
        /\ Steps[m.at] = k /\ m'.at = m.at /\ UNCHANGED eeproms
    BY <1>1, <1>8 DEF Take, Looking, Shape
  <2>2. k \notin {"slot", "write", "clear"}
    BY DEF Late
  <2>3. Idle /\ Idle' /\ m'.pc # "overrun"
    BY <2>1, <2>2 DEF Idle, Doing
  <2> QED
    BY <2>1, <2>3, RequestIdle DEF Aside
<1>9. ASSUME NEW k \in Late, Done(k) PROVE RequestInv'
  <2>1. k \notin {"slot", "write", "clear"}
    BY DEF Late
  <2>2. Idle /\ UNCHANGED eeproms /\ m' = Onward
    BY <1>9, <2>1 DEF Done, Idle, Doing
  <2> QED
    BY <1>3, <2>2
<1>10. CASE Change \/ UNCHANGED vars
  BY <1>10, RequestStays DEF Change, vars
<1>11. CASE \E k \in Late : \E p \in Parts[k] : Ask(k, p)
  BY <1>11, RequestStays DEF Ask
<1> QED
  BY <1>4, <1>5, <1>6, <1>7, <1>8, <1>9, <1>10, <1>11, SlotTaken, WriteTaken,
     ClearTaken, SlotDone, WriteDone, ClearDone, SlotAsked, WriteAsked, ClearAsked
     DEF Next, Work

(* The task always knows which board a request is for, and if each request    *)
(* waits until the one before has been carried out, then exactly what was     *)
(* asked for is still owing (taskMeasure, T8_Dnepr_SlotEEPROM.c).             *)
THEOREM RequestsKept == Spec => []RequestInv
  BY RequestInit, RequestStep, PTL DEF Spec

(* The EEPROMs of the boards end with what was asked for, if each request     *)
(* waits until the one before has been carried out.                           *)
THEOREM EepromsEndAsAsked == Spec => []EepromsAsAsked
<1>1. RequestInv => EepromsAsAsked
  BY DEF RequestInv, Orderly, Owing, Due, EepromsAsAsked
<1> QED
  BY <1>1, RequestsKept, PTL

-----------------------------------------------------------------------------
(* The flags, and the types of everything.                                    *)

Written == Contents \cup {Old}

Pcs == {"collect", "fill", "swap", "look", "doing", "overrun"}

\* a value for each flag that is cleared late
ForLate(w) ==
  /\ w = [k \in Late |-> w[k]]
  /\ \A k \in Late : w[k] \in [Parts[k] -> BOOLEAN]

\* the flags, the requests and where the task is
FlagTypes ==
  /\ hot \subseteq Measured
  /\ ForLate(wanted) /\ ForLate(device)
  /\ changed \in [Late -> BOOLEAN] /\ overtaken \subseteq Once
  /\ button_cnt \in 0 .. LongPress /\ signal \in BOOLEAN
  /\ slotReq.num \in Slots \cup {0}
  /\ optReq.num \in Slots \cup {0} /\ optReq.data \in Slots \cup {0}
  /\ params \in Written /\ eeprom \in [Slots -> Written \cup {Torn}]
  /\ m.pc \in Pcs /\ m.at \in 1 .. 7

\* what the task has taken in hand fits what it is doing
HandFits ==
  /\ \A k \in Late : Doing(k) => m.hand \in [Parts[k] -> BOOLEAN]
  /\ Doing("slot") => m.hand \in Written

AllInv == BufferInv /\ RequestInv /\ FlagTypes /\ HandFits

LEMMA StepsAre == Len(Steps) = 7 /\ "slot" \notin Late
  BY DEF Steps, Late

LEMMA AllInit == Init => AllInv
<1> SUFFICES ASSUME Init PROVE AllInv
  OBVIOUS
<1>1. BufferInv /\ RequestInv
  BY BufferInit, RequestInit
<1>2. ForLate(AllOff)
  BY DEF ForLate, AllOff
<1>3. changed \in [Late -> BOOLEAN]
  BY DEF Init
<1>4. button_cnt \in 0 .. LongPress
  <2>1. LongPress \in Nat
    BY MeasureAssumption
  <2> QED
    BY <2>1 DEF Init
<1>5. FlagTypes
  <2>1. /\ hot \subseteq Measured /\ overtaken \subseteq Once /\ signal \in BOOLEAN
        /\ slotReq.num \in Slots \cup {0}
        /\ optReq.num \in Slots \cup {0} /\ optReq.data \in Slots \cup {0}
    BY DEF Init
  <2>2. m.pc \in Pcs /\ m.at \in 1 .. 7
    BY DEF Init, Collecting, Pcs
  <2>3. params \in Written /\ eeprom \in [Slots -> Written \cup {Torn}]
    BY DEF Init, Written
  <2>4. ForLate(wanted) /\ ForLate(device)
    BY <1>2 DEF Init
  <2> QED
    BY <1>3, <1>4, <2>1, <2>2, <2>3, <2>4 DEF FlagTypes
<1>6. HandFits
  BY DEF Init, HandFits, Doing, Collecting
<1> QED
  BY <1>1, <1>5, <1>6 DEF AllInv

\* A flag is set or cleared.
LEMMA WantTypes ==
  ASSUME FlagTypes, NEW k \in Late, NEW p \in Parts[k], NEW on \in BOOLEAN, Want(k, p, on)
  PROVE  ForLate(wanted') /\ changed' \in [Late -> BOOLEAN]
<1>1. wanted = [j \in Late |-> wanted[j]] /\ \A j \in Late : wanted[j] \in [Parts[j] -> BOOLEAN]
  BY DEF FlagTypes, ForLate
<1>2. wanted' = [wanted EXCEPT ![k] = [wanted[k] EXCEPT ![p] = on]]
  BY DEF Want
<1>3. [wanted[k] EXCEPT ![p] = on] \in [Parts[k] -> BOOLEAN]
  BY <1>1
<1>4. wanted' = [j \in Late |-> IF j = k THEN [wanted[k] EXCEPT ![p] = on] ELSE wanted[j]]
  BY <1>1, <1>2
<1>5. ForLate(wanted')
  BY <1>1, <1>3, <1>4 DEF ForLate
<1>6. PICK c \in BOOLEAN : c <=> changed[k] \/ wanted[k][p] # on
  OBVIOUS
<1>7. changed' = [changed EXCEPT ![k] = (changed[k] \/ wanted[k][p] # on)]
  BY DEF Want
<1>8. (changed[k] \/ wanted[k][p] # on) \in BOOLEAN
  OBVIOUS
<1>9. changed' \in [Late -> BOOLEAN]
  BY <1>7, <1>8 DEF FlagTypes
<1> QED
  BY <1>5, <1>9

\* What the task does next, when it is through with a flag.
LEMMA OnwardTypes ==
  ASSUME m.at \in 1 .. 7, m' = Onward
  PROVE  m'.pc \in Pcs /\ m'.at \in 1 .. 7 /\ HandFits'
<1>1. m'.pc \in {"collect", "look"} /\ m'.at \in 1 .. 7
  BY StepsAre DEF Onward, Collecting
<1> QED
  BY <1>1 DEF HandFits, Doing, Pcs

\* The steps that are not about the lamps, lasers and ports.
LEMMA OtherFlags ==
  ASSUME FlagTypes, UNCHANGED flags,
         hot' \subseteq Measured, slotReq'.num \in Slots \cup {0},
         optReq'.num \in Slots \cup {0}, optReq'.data \in Slots \cup {0},
         params' \in Written, eeprom' \in [Slots -> Written \cup {Torn}],
         m'.pc \in Pcs, m'.at \in 1 .. 7
  PROVE  FlagTypes'
  BY DEF FlagTypes, ForLate, flags, button

LEMMA MeasuringTypes ==
  ASSUME AllInv, Collect \/ Fill \/ Swap
  PROVE  FlagTypes' /\ HandFits'
<1>1. Shape /\ FlagTypes
  BY DEF AllInv, RequestInv, RequestTypes
<1>2. CASE Collect
  <2>1. m'.pc = "fill" /\ m'.at = 1
    BY <1>1, <1>2 DEF Collect, Shape
  <2>2. "alarm" \in Parts["leds"] /\ "leds" \in Late /\ alarm \in BOOLEAN
    BY DEF Parts, Late, AllInv, BufferInv, BufferTypes
  <2>3. ForLate(wanted') /\ changed' \in [Late -> BOOLEAN]
    BY <1>1, <1>2, <2>2, WantTypes DEF Collect
  <2>4. UNCHANGED <<hot, device, button_cnt, signal, overtaken, eeproms>>
    BY <1>2 DEF Collect, button
  <2> QED
    BY <1>1, <2>1, <2>3, <2>4 DEF FlagTypes, ForLate, HandFits, Doing, Pcs, eeproms
<1>3. CASE Fill
  <2>1. m.at \in 1 .. 3 /\ m.pc = "fill"
    BY <1>3 DEF AllInv, BufferInv, Filled, Fill
  <2>2. m'.pc \in {"fill", "swap"} /\ m'.at \in 1 .. 7
    BY <1>1, <1>3, <2>1, ParamsAre DEF Fill, Shape
  <2>3. UNCHANGED <<hot, flags, eeproms>>
    BY <1>3 DEF Fill
  <2> QED
    BY <1>1, <2>2, <2>3, OtherFlags DEF FlagTypes, HandFits, Doing, Pcs, flags, eeproms
<1>4. CASE Swap
  <2>1. m'.pc = "look" /\ m'.at = 1
    BY <1>1, <1>4 DEF Swap, Shape
  <2>2. UNCHANGED <<hot, flags, eeproms>>
    BY <1>4 DEF Swap
  <2> QED
    BY <1>1, <2>1, <2>2, OtherFlags DEF FlagTypes, HandFits, Doing, Pcs, flags, eeproms
<1> QED
  BY <1>2, <1>3, <1>4

\* The button counts up to a long press, and flags the lamps or does not.
LEMMA ButtonTypes ==
  ASSUME AllInv, Press \/ Hold \/ Release
  PROVE  FlagTypes' /\ HandFits'
<1>1. FlagTypes /\ LongPress \in Nat
  BY MeasureAssumption DEF AllInv
<1>2. m' = Onward /\ UNCHANGED <<hot, wanted, device, overtaken, eeproms>>
  BY DEF Press, Hold, Release
<1>3. m'.pc \in Pcs /\ m'.at \in 1 .. 7 /\ HandFits'
  BY <1>1, <1>2, OnwardTypes DEF FlagTypes
<1>4. button_cnt' \in 0 .. LongPress
  BY <1>1 DEF Press, Hold, Release, FlagTypes
<1>5. signal' \in BOOLEAN
  BY <1>1 DEF Press, Hold, Release, FlagTypes
<1>6. changed' \in [Late -> BOOLEAN]
  <2>1. (changed["leds"] \/ button_cnt' = LongPress) \in BOOLEAN
    OBVIOUS
  <2>2. CASE Press
    <3>1. changed' = [changed EXCEPT !["leds"] = (changed["leds"] \/ button_cnt' = LongPress)]
      BY <2>2 DEF Press
    <3> QED
      BY <1>1, <2>1, <3>1 DEF FlagTypes
  <2>3. CASE Hold
    BY <1>1, <2>3 DEF Hold, FlagTypes
  <2>4. CASE Release
    <3>1. changed' = [changed EXCEPT !["leds"] = Reflagged] /\ Reflagged \in BOOLEAN
      BY <2>4 DEF Release, Reflagged
    <3> QED
      BY <1>1, <3>1 DEF FlagTypes
  <2> QED
    BY <2>2, <2>3, <2>4
<1> QED
  BY <1>1, <1>2, <1>3, <1>4, <1>5, <1>6 DEF FlagTypes, ForLate, eeproms

LEMMA LateTypes ==
  ASSUME AllInv, PassOver \/ \E k \in Late : Take(k) \/ Done(k)
  PROVE  FlagTypes' /\ HandFits'
<1>1. Shape /\ FlagTypes /\ HandFits
  BY DEF AllInv, RequestInv, RequestTypes
<1>2. CASE PassOver
  <2>1. UNCHANGED <<hot, flags, eeproms>> /\ m' = Onward
    BY <1>2 DEF PassOver
  <2>2. m'.pc \in Pcs /\ m'.at \in 1 .. 7 /\ HandFits'
    BY <1>1, <2>1, OnwardTypes DEF FlagTypes
  <2> QED
    BY <1>1, <2>1, <2>2, OtherFlags DEF FlagTypes, flags, eeproms
<1>3. ASSUME NEW k \in Late, Take(k) PROVE FlagTypes' /\ HandFits'
  <2>1. /\ m'.pc = "doing" /\ m'.at = m.at /\ m'.hand = wanted[k] /\ Steps[m.at] = k
    BY <1>1, <1>3 DEF Take, Looking, Shape
  <2>2. /\ UNCHANGED <<hot, wanted, changed, device, button_cnt, signal, eeproms>>
        /\ overtaken' = overtaken \ {k}
    BY <1>3 DEF Take, button
  <2>3. FlagTypes'
    BY <1>1, <2>1, <2>2 DEF FlagTypes, ForLate, Pcs, eeproms
  <2>4. HandFits'
    BY <1>1, <2>1, StepsAre DEF FlagTypes, ForLate, HandFits, Doing
  <2> QED
    BY <2>3, <2>4
<1>4. ASSUME NEW k \in Late, Done(k) PROVE FlagTypes' /\ HandFits'
  <2>1. /\ device' = [device EXCEPT ![k] = m.hand] /\ changed' = [changed EXCEPT ![k] = FALSE]
        /\ m' = Onward /\ Doing(k) /\ signal' \in BOOLEAN
        /\ UNCHANGED <<hot, wanted, button_cnt, overtaken, eeproms>>
    BY <1>4 DEF Done
  <2>2. m'.pc \in Pcs /\ m'.at \in 1 .. 7 /\ HandFits'
    BY <1>1, <2>1, OnwardTypes DEF FlagTypes
  <2>3. m.hand \in [Parts[k] -> BOOLEAN]
    BY <1>1, <2>1 DEF HandFits
  <2>4. device' = [j \in Late |-> IF j = k THEN m.hand ELSE device[j]]
    BY <1>1, <2>1 DEF FlagTypes, ForLate
  <2>5. ForLate(device')
    BY <1>1, <2>3, <2>4 DEF FlagTypes, ForLate
  <2>6. changed' \in [Late -> BOOLEAN]
    BY <1>1, <2>1 DEF FlagTypes
  <2> QED
    BY <1>1, <2>1, <2>2, <2>5, <2>6 DEF FlagTypes, ForLate, eeproms
<1> QED
  BY <1>2, <1>3, <1>4

LEMMA EepromTypes ==
  ASSUME AllInv, \/ TakeSlot \/ SlotWritten \/ TakeWrite \/ SectionWritten
                 \/ TakeClear \/ SectionCleared
  PROVE  FlagTypes' /\ HandFits'
<1>1. Shape /\ FlagTypes /\ HandFits
  BY DEF AllInv, RequestInv, RequestTypes
<1>2. /\ slotReq = [num |-> slotReq.num, write |-> slotReq.write]
      /\ optReq = [num |-> optReq.num, data |-> optReq.data, write |-> optReq.write,
                   clear |-> optReq.clear]
  BY DEF AllInv, RequestInv, RequestTypes
<1>3. CASE TakeSlot
  <2>1. /\ m'.pc = "doing" /\ m'.at = m.at /\ m'.hand = params /\ Steps[m.at] = "slot"
        /\ slotReq'.num = slotReq.num /\ UNCHANGED <<hot, flags, params, optReq, eeprom>>
    BY <1>1, <1>2, <1>3 DEF TakeSlot, Looking, Shape
  <2>2. FlagTypes'
    BY <1>1, <2>1, OtherFlags DEF FlagTypes, Pcs, flags
  <2>3. HandFits'
    BY <1>1, <2>1, StepsAre DEF HandFits, Doing, FlagTypes
  <2> QED
    BY <2>2, <2>3
<1>4. CASE SlotWritten
  <2>1. PICK c \in {m.hand} \cup {Torn} : eeprom' = [eeprom EXCEPT ![m.num] = c]
    BY <1>4 DEF SlotWritten
  <2>2. c \in Written \cup {Torn}
    BY <1>1, <1>4, <2>1 DEF SlotWritten, HandFits
  <2>3. UNCHANGED <<hot, flags, params, slotReq, optReq>> /\ m' = Onward
    BY <1>4 DEF SlotWritten
  <2>4. m'.pc \in Pcs /\ m'.at \in 1 .. 7 /\ HandFits'
    BY <1>1, <2>3, OnwardTypes DEF FlagTypes
  <2>5. eeprom' \in [Slots -> Written \cup {Torn}]
    BY <1>1, <2>1, <2>2 DEF FlagTypes
  <2> QED
    BY <1>1, <2>3, <2>4, <2>5, OtherFlags DEF FlagTypes, flags
<1>5. CASE TakeWrite
  <2>1. /\ m'.pc \in Pcs /\ m'.at = m.at /\ Steps[m.at] = "write"
        /\ optReq'.num = optReq.num /\ optReq'.data = optReq.data
        /\ UNCHANGED <<hot, flags, params, slotReq, eeprom>>
    BY <1>1, <1>2, <1>5 DEF TakeWrite, Looking, Shape, Pcs
  <2>2. FlagTypes'
    BY <1>1, <2>1, OtherFlags DEF FlagTypes, flags
  <2>3. HandFits'
    BY <2>1 DEF HandFits, Doing, Late
  <2> QED
    BY <2>2, <2>3
<1>6. CASE TakeClear
  <2>1. /\ m'.pc = "doing" /\ m'.at = m.at /\ Steps[m.at] = "clear"
        /\ optReq'.num = optReq.num /\ optReq'.data = optReq.data
        /\ UNCHANGED <<hot, flags, params, slotReq, eeprom>>
    BY <1>1, <1>2, <1>6 DEF TakeClear, Looking, Shape
  <2>2. FlagTypes'
    BY <1>1, <2>1, OtherFlags DEF FlagTypes, flags, Pcs
  <2>3. HandFits'
    BY <2>1 DEF HandFits, Doing, Late
  <2> QED
    BY <2>2, <2>3
<1>7. CASE SectionWritten \/ SectionCleared
  <2>1. UNCHANGED <<hot, flags, params, slotReq, optReq, eeprom>> /\ m' = Onward
    BY <1>7 DEF SectionWritten, SectionCleared
  <2>2. m'.pc \in Pcs /\ m'.at \in 1 .. 7 /\ HandFits'
    BY <1>1, <2>1, OnwardTypes DEF FlagTypes
  <2> QED
    BY <1>1, <2>1, <2>2, OtherFlags DEF FlagTypes, flags
<1> QED
  BY <1>3, <1>4, <1>5, <1>6, <1>7

LEMMA AskedTypes ==
  ASSUME AllInv, \/ Change
                 \/ \E k \in Late : \E p \in Parts[k] : Ask(k, p)
                 \/ \E s \in Slots : \E c \in Contents : AskSlot(s, c) \/ AskWrite(s, c)
                 \/ \E s \in Slots : AskClear(s)
  PROVE  FlagTypes' /\ HandFits'
<1>1. Shape /\ FlagTypes /\ HandFits
  BY DEF AllInv, RequestInv, RequestTypes
<1>2. optReq = [num |-> optReq.num, data |-> optReq.data, write |-> optReq.write,
                clear |-> optReq.clear]
  BY DEF AllInv, RequestInv, RequestTypes
<1>3. ASSUME m'.pc = m.pc, m'.at = m.at, m'.hand = m.hand PROVE HandFits'
  BY <1>1, <1>3 DEF HandFits, Doing
<1>4. CASE Change
  BY <1>1, <1>4 DEF Change, FlagTypes, ForLate, HandFits, Doing, flags, button, eeproms
<1>5. ASSUME NEW k \in Late, NEW p \in Parts[k], Ask(k, p) PROVE FlagTypes' /\ HandFits'
  <2>1. (~ wanted[k][p]) \in BOOLEAN
    OBVIOUS
  <2>2. ForLate(wanted') /\ changed' \in [Late -> BOOLEAN]
    BY <1>1, <1>5, <2>1, WantTypes DEF Ask
  <2>3. UNCHANGED <<hot, device, button_cnt, signal, eeproms, m>> /\ overtaken' \subseteq Once
    BY <1>1, <1>5 DEF Ask, FlagTypes, button
  <2> QED
    BY <1>1, <1>3, <2>2, <2>3 DEF FlagTypes, ForLate, eeproms
<1>6. ASSUME NEW s \in Slots, NEW c \in Contents, AskSlot(s, c) PROVE FlagTypes' /\ HandFits'
  <2>1. /\ params' = c /\ slotReq'.num = s /\ UNCHANGED <<hot, flags, optReq, eeprom>>
        /\ m'.pc = m.pc /\ m'.at = m.at /\ m'.hand = m.hand
    BY <1>1, <1>6 DEF AskSlot, Asked, Shape
  <2>2. params' \in Written
    BY <2>1 DEF Written
  <2> QED
    BY <1>1, <1>3, <2>1, <2>2, OtherFlags DEF FlagTypes, flags
<1>7. ASSUME NEW s \in Slots, NEW c \in Contents, AskWrite(s, c) PROVE FlagTypes' /\ HandFits'
  <2>1. /\ optReq'.num = s /\ optReq'.data = s
        /\ UNCHANGED <<hot, flags, params, slotReq, eeprom>>
        /\ m'.pc = m.pc /\ m'.at = m.at /\ m'.hand = m.hand
    BY <1>1, <1>2, <1>7 DEF AskWrite, Asked, Shape
  <2> QED
    BY <1>1, <1>3, <2>1, OtherFlags DEF FlagTypes, flags
<1>8. ASSUME NEW s \in Slots, AskClear(s) PROVE FlagTypes' /\ HandFits'
  <2>1. /\ optReq'.num = s /\ optReq'.data = optReq.data
        /\ UNCHANGED <<hot, flags, params, slotReq, eeprom, m>>
    BY <1>2, <1>8 DEF AskClear, Asked
  <2> QED
    BY <1>1, <1>3, <2>1, OtherFlags DEF FlagTypes, flags
<1> QED
  BY <1>4, <1>5, <1>6, <1>7, <1>8

LEMMA AllStep == AllInv /\ [Next]_vars => AllInv'
<1> SUFFICES ASSUME AllInv, [Next]_vars PROVE AllInv'
  OBVIOUS
<1>1. BufferInv' /\ RequestInv'
  BY BufferStep, RequestStep DEF AllInv
<1>2. CASE UNCHANGED vars
  BY <1>1, <1>2 DEF AllInv, FlagTypes, ForLate, HandFits, Doing, vars, flags, button, eeproms
<1>3. CASE Next
  BY <1>1, <1>3, MeasuringTypes, ButtonTypes, LateTypes, EepromTypes, AskedTypes DEF AllInv, Next, Work
<1> QED
  BY <1>2, <1>3

(* The variables keep to their types: what the task has in hand fits what it  *)
(* is doing, whatever the other tasks ask for meanwhile (taskMeasure).        *)
THEOREM Typing == Spec => []TypeOK
<1>1. AllInv => TypeOK
  <2> SUFFICES ASSUME AllInv PROVE TypeOK
    OBVIOUS
  <2>1. /\ newest \in 0 .. NoRound /\ app \in {0, 1} /\ gl \in {0, 1}
        /\ ready \in [{0, 1} -> BOOLEAN]
        /\ \A b \in {0, 1} : \A p \in AllParams : dyn[b][p] \in [red : BOOLEAN, fresh : BOOLEAN]
    BY DEF AllInv, BufferInv, BufferTypes, NoRound
  <2>2. section \in [Slots -> Contents \cup {Old, Blank, Torn}]
    BY DEF AllInv, RequestInv, RequestTypes, Data
  <2>3. eeprom \in [Slots -> Contents \cup {Old, Torn}]
    BY DEF AllInv, FlagTypes, Written
  <2>4. \A k \in Late : {wanted[k], device[k]} \subseteq [Parts[k] -> BOOLEAN]
    BY DEF AllInv, FlagTypes, ForLate
  <2> QED
    BY <2>1, <2>2, <2>3, <2>4, ParamsAre, StepsAre DEF AllInv, FlagTypes, TypeOK, Pcs
<1>2. Spec => []AllInv
  BY AllInit, AllStep, PTL DEF Spec
<1> QED
  BY <1>1, <1>2, PTL
=============================================================================
