------------------------ MODULE ShelfManager_proofs ------------------------
(****************************************************************************)
(* What the shelf manager promises, for any number of slots and supplies,   *)
(* any powers, any capacity of the mailboxes, any profile and any number of *)
(* events: a question and its answer are never confused with others, the    *)
(* table is never left, and a pass that nothing disturbed ends with boards, *)
(* books and profile in agreement.                                          *)
(*                                                                          *)
(* The invariant grows in three layers.  BoxInv is about the two mailboxes. *)
(* Frame adds the types and where the loops stand; it holds always.  Clean  *)
(* adds PassInv: what the steps of the pass behind the manager established, *)
(* which a lost answer or fresh news takes back until the pass is repeated. *)
(****************************************************************************)
EXTENDS ShelfManager, FoldLemmas, TLAPS

-----------------------------------------------------------------------------
(* Queues *)

LEMMA PostedFacts ==
    ASSUME NEW M, NEW box \in Seq(M), NEW m \in M, NEW len
    PROVE  /\ Posted(box, len, m) \in Seq(M)
           /\ \A i \in DOMAIN Posted(box, len, m) :
                 \/ i \in DOMAIN box /\ Posted(box, len, m)[i] = box[i]
                 \/ i = Len(box) + 1 /\ Posted(box, len, m)[i] = m
  BY DEF Posted

LEMMA TailFacts ==
    ASSUME NEW M, NEW box \in Seq(M), box # <<>>
    PROVE  /\ Tail(box) \in Seq(M)
           /\ 1 \in DOMAIN box /\ Head(box) = box[1] /\ Head(box) \in M
           /\ \A i \in DOMAIN Tail(box) :
                 i \in Nat \ {0} /\ i + 1 \in DOMAIN box /\ Tail(box)[i] = box[i + 1]
  OBVIOUS

-----------------------------------------------------------------------------
(* The two boxes hold at most one question or answer *)

Free(dc, pm) == /\ \A i \in DOMAIN dc : dc[i].msg \notin Replies
                /\ \A i \in DOMAIN pm : pm[i].msg \notin Replies

LEMMA FreeAlone ==
    ASSUME NEW dc, NEW pm, NEW d
    PROVE  /\ Free(dc, pm) => \A k : Alone(dc, pm, k, d)
           /\ Alone(dc, pm, "none", d) => Free(dc, pm)
  BY DEF Free, Alone, Replies

LEMMA AskFromFree ==
    ASSUME NEW dc \in Seq(Messages), NEW pm \in Seq(Messages), Free(dc, pm),
           NEW m \in Messages, NEW len
    PROVE  Alone(Posted(dc, len, m), pm, m.msg, m.of)
  BY PostedFacts DEF Free, Alone

LEMMA NoticeAlone ==
    ASSUME NEW dc \in Seq(Messages), NEW pm \in Seq(Messages), NEW k, NEW d,
           Alone(dc, pm, k, d), NEW m \in Messages, m.msg \notin Replies, NEW len
    PROVE  /\ Alone(Posted(dc, len, m), pm, k, d)
           /\ Alone(dc, Posted(pm, len, m), k, d)
<1>1. \A i \in DOMAIN Posted(dc, len, m) : Posted(dc, len, m)[i].msg \in Replies =>
          i \in DOMAIN dc /\ Posted(dc, len, m)[i] = dc[i]
  BY PostedFacts
<1>2. \A i \in DOMAIN Posted(pm, len, m) : Posted(pm, len, m)[i].msg \in Replies =>
          i \in DOMAIN pm /\ Posted(pm, len, m)[i] = pm[i]
  BY PostedFacts
<1>3. Alone(Posted(dc, len, m), pm, k, d)
  BY <1>1 DEF Alone
<1>4. Alone(dc, Posted(pm, len, m), k, d)
  BY <1>2 DEF Alone
<1> QED
  BY <1>3, <1>4

LEMMA TakeAlone ==
    ASSUME NEW dc \in Seq(Messages), NEW pm \in Seq(Messages), NEW k, NEW d,
           Alone(dc, pm, k, d)
    PROVE  /\ dc # <<>> => Alone(Tail(dc), pm, k, d)
           /\ pm # <<>> => Alone(dc, Tail(pm), k, d)
<1>1. CASE dc # <<>>
  BY <1>1, TailFacts DEF Alone
<1>2. CASE pm # <<>>
  BY <1>2, TailFacts DEF Alone
<1> QED
  BY <1>1, <1>2

LEMMA AnswerAlone ==
    ASSUME NEW dc \in Seq(Messages), NEW pm \in Seq(Messages), NEW k, NEW d,
           Alone(dc, pm, k, d), dc # <<>>, Head(dc).msg \in Replies,
           NEW r \in Messages, r.msg = Head(dc).msg, r.of = Head(dc).of, NEW len
    PROVE  Alone(Tail(dc), Posted(pm, len, r), k, d)
<1>1. /\ 1 \in DOMAIN dc /\ Head(dc) = dc[1]
      /\ \A i \in DOMAIN Tail(dc) : i + 1 \in DOMAIN dc /\ i + 1 # 1 /\ Tail(dc)[i] = dc[i + 1]
  BY TailFacts
<1>2. \A i \in DOMAIN Tail(dc) : Tail(dc)[i].msg \notin Replies
  BY <1>1 DEF Alone
<1>3. \A i \in DOMAIN pm : pm[i].msg \notin Replies
  BY <1>1 DEF Alone
<1>4. r.msg = k /\ r.of = d
  BY <1>1 DEF Alone
<1> QED
  BY <1>2, <1>3, <1>4, PostedFacts DEF Alone

LEMMA HeardFree ==
    ASSUME NEW dc \in Seq(Messages), NEW pm \in Seq(Messages), NEW k, NEW d,
           Alone(dc, pm, k, d), pm # <<>>, Head(pm).msg \in Replies
    PROVE  Free(dc, Tail(pm)) /\ Head(pm).of = d
<1>1. /\ 1 \in DOMAIN pm /\ Head(pm) = pm[1]
      /\ \A i \in DOMAIN Tail(pm) : i + 1 \in DOMAIN pm /\ i + 1 # 1 /\ Tail(pm)[i] = pm[i + 1]
  BY TailFacts
<1> QED
  BY <1>1 DEF Alone, Free

-----------------------------------------------------------------------------
(* The inductive invariant *)

\* Every request names a device of the crate.
Named(dc) == \A i \in DOMAIN dc : dc[i].msg \in Replies => dc[i].of \in Devices

BoxInv ==
    /\ BoxesOK
    /\ plugged \in [Devices -> BOOLEAN] /\ powered \in [Devices -> BOOLEAN]
    /\ Named(dcbox)
    /\ ask \in Replies \cup {"none"}
    /\ ask # "none" => worker # "none" /\ dev \in Devices
    /\ OnlyQuestion

LEMMA Numbers ==
    /\ Fan \in Nat /\ Slots \subseteq Devices /\ Sources \subseteq Devices /\ Fan \in Devices
    /\ Devices \subseteq 0 .. Fan
  BY ShelfAssumption DEF Fan, Slots, Sources, Devices

LEMMA MessageType ==
    /\ \A msg \in Notices \cup {"PSU_VALUES"} :
          Notice(msg) \in Messages /\ Notice(msg).msg \notin Replies
    /\ \A d \in Devices : Failure(d) \in Messages /\ Failure(d).msg \notin Replies
    /\ \A msg \in Replies, d \in Devices, on \in BOOLEAN :
          /\ Request(msg, d, on) \in Messages
          /\ Request(msg, d, on).msg = msg /\ Request(msg, d, on).of = d
<1>1. Devices \subseteq 0 .. Fan /\ 0 \in 0 .. Fan
  BY Numbers
<1>2. ASSUME NEW msg \in Notices \cup {"PSU_VALUES"}
      PROVE  Notice(msg) \in Messages /\ Notice(msg).msg \notin Replies
  BY <1>1 DEF Notice, Message, Messages, Quiet, Notices, Replies
<1>3. ASSUME NEW d \in Devices
      PROVE  Failure(d) \in Messages /\ Failure(d).msg \notin Replies
  BY <1>1 DEF Failure, Message, Messages, Quiet, Replies
<1>4. ASSUME NEW msg \in Replies, NEW d \in Devices, NEW on \in BOOLEAN
      PROVE  /\ Request(msg, d, on) \in Messages
             /\ Request(msg, d, on).msg = msg /\ Request(msg, d, on).of = d
  BY <1>1 DEF Request, Message, Messages, Quiet
<1> QED
  BY <1>2, <1>3, <1>4

LEMMA NamedPosted ==
    ASSUME NEW dc \in Seq(Messages), NEW m \in Messages, NEW len, Named(dc),
           m.msg \in Replies => m.of \in Devices
    PROVE  Named(Posted(dc, len, m))
  BY PostedFacts DEF Named

LEMMA BoxInit == Init => BoxInv
<1> SUFFICES ASSUME Init
             PROVE  BoxInv
  OBVIOUS
<1>1. Notice("PSU_VALUES") \in Messages /\ Notice("PSU_VALUES").msg \notin Replies
  BY MessageType
<1>2. BoxesOK
  BY <1>1 DEF Init, BoxesOK
<1>3. Named(dcbox) /\ Free(dcbox, pmbox)
  BY <1>1 DEF Init, Named, Free
<1>4. OnlyQuestion
  BY <1>3, FreeAlone DEF OnlyQuestion
<1>5. plugged \in [Devices -> BOOLEAN] /\ powered \in [Devices -> BOOLEAN]
  BY DEF Init
<1> QED
  BY <1>2, <1>3, <1>4, <1>5 DEF Init, BoxInv

-----------------------------------------------------------------------------
(* What a step of the manager may do to the boxes *)

\* It asks: nothing else may be on its way.
LEMMA AskingKeeps ==
    ASSUME BoxInv, NEW msg \in Replies, NEW d \in Devices, NEW on \in BOOLEAN,
           Send(msg, d, on), worker' # "none", UNCHANGED <<plugged, powered>>,
           pmbox' \in Seq(Messages), ~clouded' => Free(dcbox, pmbox')
    PROVE  BoxInv'
<1> DEFINE m == Request(msg, d, on)
<1>1. m \in Messages /\ m.msg = msg /\ m.of = d
  BY MessageType
<1>2. dcbox \in Seq(Messages) /\ Named(dcbox)
  BY DEF BoxInv, BoxesOK
<1>3. dcbox' = Posted(dcbox, DCLen, m) /\ ask' = msg /\ dev' = d
  BY DEF Send
<1> HIDE DEF m
<1>4. dcbox' \in Seq(Messages)
  BY <1>1, <1>2, <1>3, PostedFacts
<1>5. Named(dcbox')
  BY <1>1, <1>2, <1>3, NamedPosted
<1>6. ~clouded' => Alone(dcbox', pmbox', ask', dev')
  BY <1>1, <1>2, <1>3, AskFromFree
<1>7. Named(dcbox)' /\ BoxesOK' /\ OnlyQuestion'
  BY <1>4, <1>5, <1>6 DEF Named, BoxesOK, OnlyQuestion
<1> QED
  BY <1>3, <1>7 DEF BoxInv, Replies

\* It asks nothing, and may raise an alarm.
LEMMA SilenceKeeps ==
    ASSUME BoxInv, ask' = "none", UNCHANGED <<plugged, powered>>,
           \/ UNCHANGED dcbox
           \/ \E d \in Devices : Alarm(d),
           pmbox' \in Seq(Messages), ~clouded' => Free(dcbox, pmbox')
    PROVE  BoxInv'
<1>1. dcbox \in Seq(Messages) /\ Named(dcbox)
  BY DEF BoxInv, BoxesOK
<1>2. /\ dcbox' \in Seq(Messages) /\ Named(dcbox')
      /\ ~clouded' => Alone(dcbox', pmbox', ask', dev')
  <2>1. CASE UNCHANGED dcbox
    BY <1>1, <2>1, FreeAlone
  <2>2. CASE \E d \in Devices : Alarm(d)
    <3>1. PICK d \in Devices : dcbox' = Posted(dcbox, DCLen, Failure(d))
      BY <2>2 DEF Alarm
    <3> DEFINE m == Failure(d)
    <3>2. m \in Messages /\ m.msg \notin Replies
      BY MessageType
    <3>3. dcbox' = Posted(dcbox, DCLen, m)
      BY <3>1
    <3> HIDE DEF m
    <3>4. dcbox' \in Seq(Messages) /\ Named(dcbox')
      BY <1>1, <3>2, <3>3, PostedFacts, NamedPosted
    <3>5. ~clouded' => Alone(dcbox, pmbox', ask', dev')
      BY FreeAlone
    <3>6. ~clouded' => Alone(dcbox', pmbox', ask', dev')
      BY <1>1, <3>2, <3>3, <3>5, NoticeAlone
    <3> QED
      BY <3>4, <3>6
  <2> QED
    BY <2>1, <2>2
<1>3. Named(dcbox)' /\ BoxesOK' /\ OnlyQuestion'
  BY <1>2 DEF Named, BoxesOK, OnlyQuestion
<1> QED
  BY <1>3 DEF BoxInv

\* Between questions the boxes are free of them.
LEMMA NothingAsked ==
    ASSUME BoxInv, ask = "none"
    PROVE  ~clouded => Free(dcbox, pmbox)
  BY FreeAlone DEF BoxInv, OnlyQuestion

LEMMA FreeTail ==
    ASSUME NEW dc \in Seq(Messages), NEW pm \in Seq(Messages), Free(dc, pm), pm # <<>>
    PROVE  Free(dc, Tail(pm))
  BY TailFacts DEF Free

\* A step that picks a signal takes at most one message and asks nothing.
LEMMA SignalKeeps ==
    ASSUME BoxInv, AtSignal, UNCHANGED <<ask, dcbox, plugged, powered>>,
           \/ UNCHANGED pmbox
           \/ pmbox # <<>> /\ pmbox' = Tail(pmbox),
           ~clouded' => ~clouded \/ (pmbox' = <<>> /\ dcbox = <<>>)
    PROVE  BoxInv'
<1>1. ask = "none"
  BY DEF BoxInv, AtSignal
<1>2. dcbox \in Seq(Messages) /\ pmbox \in Seq(Messages)
  BY DEF BoxInv, BoxesOK
<1>3. pmbox' \in Seq(Messages)
  BY <1>2, TailFacts
<1>4. ~clouded' => Free(dcbox, pmbox')
  <2>1. CASE ~clouded
    BY <1>1, <1>2, <2>1, NothingAsked, FreeTail
  <2>2. CASE pmbox' = <<>> /\ dcbox = <<>>
    BY <2>2 DEF Free
  <2> QED
    BY <2>1, <2>2
<1> QED
  BY <1>1, <1>3, <1>4, SilenceKeeps

LEMMA TransitionKeeps ==
    ASSUME BoxInv, AtSignal,
           \/ WaitForNotice \/ WaitOutDelay \/ WeighPower \/ LeaveSmartStart \/ PollNotice
    PROVE  BoxInv'
<1>1. UNCHANGED <<ask, dcbox, plugged, powered>>
  BY DEF WaitForNotice, WaitOutDelay, WeighPower, LeaveSmartStart, PollNotice, Transition, crate
<1>2. \/ UNCHANGED pmbox
      \/ pmbox # <<>> /\ pmbox' = Tail(pmbox)
  BY DEF WaitForNotice, WaitOutDelay, WeighPower, LeaveSmartStart, PollNotice
<1>3. ~clouded' => ~clouded \/ (pmbox' = <<>> /\ dcbox = <<>>)
  BY DEF WaitForNotice, WaitOutDelay, WeighPower, LeaveSmartStart, PollNotice, Refresh
<1> QED
  BY <1>1, <1>2, <1>3, SignalKeeps

LEMMA DevicesOfType == \A w : DevicesOf(w) \subseteq Devices
  BY Numbers DEF DevicesOf

LEMMA ScanKeeps ==
    ASSUME BoxInv, Scan
    PROVE  BoxInv'
<1>1. /\ ask = "none" /\ worker # "none"
      /\ UNCHANGED <<plugged, powered, pmbox, clouded>>
      /\ pmbox \in Seq(Messages)
  BY DEF Scan, InWorker, crate, BoxInv, BoxesOK
<1>2. pmbox' \in Seq(Messages) /\ (~clouded' => Free(dcbox, pmbox'))
  BY <1>1, NothingAsked
<1>3. CASE UNCHANGED <<ask, dcbox>>
  BY <1>1, <1>2, <1>3, SilenceKeeps
<1>4. CASE ~UNCHANGED <<ask, dcbox>>
  <2>1. /\ dev \in DevicesOf(worker) /\ worker' = worker
        /\ \E msg \in Replies, on \in BOOLEAN : Send(msg, dev, on)
    <3>1. dev \in DevicesOf(worker) /\ worker' = worker /\ Asks(worker, dev)
      BY <1>4 DEF Scan
    <3>2. Send(IF worker \in {"POWER_DELAY", "POWEROFF_IGNORANT", "SMARTSTART"}
               THEN "SET_SHELF_STATE" ELSE "GET_SHELF_STATE", dev, worker = "SMARTSTART")
      BY <1>4 DEF Scan
    <3> QED
      BY <3>1, <3>2 DEF Replies
  <2> QED
    BY <1>1, <1>2, <2>1, DevicesOfType, AskingKeeps
<1> QED
  BY <1>3, <1>4

LEMMA CalcProhibKeeps ==
    ASSUME BoxInv, CalcProhib
    PROVE  BoxInv'
<1>1. /\ ask = "none" /\ worker # "none"
      /\ UNCHANGED <<plugged, powered, pmbox, clouded>>
      /\ pmbox \in Seq(Messages)
  BY DEF CalcProhib, InWorker, crate, BoxInv, BoxesOK
<1>2. pmbox' \in Seq(Messages) /\ (~clouded' => Free(dcbox, pmbox'))
  BY <1>1, NothingAsked
<1>3. CASE UNCHANGED <<ask, dcbox>>
  BY <1>1, <1>2, <1>3, SilenceKeeps
<1>4. CASE ~UNCHANGED <<ask, dcbox>>
  <2>1. worker' = worker /\ \E d \in Slots, on \in BOOLEAN : Send("SET_SHELF_STATE", d, on)
    <3>1. ASSUME NEW i, TurnOffFrom(i)
          PROVE  worker' = worker /\ \E d \in Slots, on \in BOOLEAN : Send("SET_SHELF_STATE", d, on)
      <4>1. TurnLastOff(i) /\ worker' = worker
        BY <1>4, <3>1 DEF TurnOffFrom
      <4>2. PICK d \in Smart(i) : Send("SET_SHELF_STATE", d, FALSE)
        BY <4>1 DEF TurnLastOff
      <4>3. d \in Slots
        BY DEF Smart
      <4> QED
        BY <4>1, <4>2, <4>3
    <3>2. CASE \E i : TurnOffFrom(i)
      BY <3>1, <3>2
    <3>3. CASE ~\E i : TurnOffFrom(i)
      <4>1. /\ worker' = worker
            /\ \E d \in Certain : Send("SET_SHELF_STATE", d, TRUE)
        BY <1>4, <3>3 DEF CalcProhib
      <4> QED
        BY <4>1 DEF Certain
    <3> QED
      BY <3>2, <3>3
  <2> QED
    BY <1>1, <1>2, <2>1, Numbers, AskingKeeps DEF Replies
<1> QED
  BY <1>3, <1>4

-----------------------------------------------------------------------------
(* Answers, and their absence *)

LEMMA Heard ==
    ASSUME BoxInv, Hear
    PROVE  /\ worker' = worker /\ worker # "none" /\ dev \in Devices
           /\ UNCHANGED <<plugged, powered>>
           /\ pmbox' \in Seq(Messages)
           /\ ~clouded' => Free(dcbox, pmbox')
<1>1. dcbox \in Seq(Messages) /\ pmbox \in Seq(Messages)
  BY DEF BoxInv, BoxesOK
<1>2. ask \in Replies /\ worker # "none" /\ dev \in Devices
  BY DEF Hear, Awaits, BoxInv
<1>3. ~clouded => Free(dcbox, Tail(pmbox))
  BY <1>1, <1>2, HeardFree DEF Hear, BoxInv, OnlyQuestion
<1> QED
  BY <1>1, <1>2, <1>3, TailFacts DEF Hear, crate

LEMMA HearKeeps ==
    ASSUME BoxInv, HearState \/ HearPower \/ HearSet
    PROVE  BoxInv'
<1>1. Hear
  BY DEF HearState, HearPower, HearSet
<1>2. /\ worker' = worker /\ worker # "none" /\ dev \in Devices
      /\ UNCHANGED <<plugged, powered>>
      /\ pmbox' \in Seq(Messages)
      /\ ~clouded' => Free(dcbox, pmbox')
  BY <1>1, Heard
<1>3. CASE HearState
  <2>1. \/ Send("GET_SHELF_POWER", dev, FALSE)
        \/ ask' = "none" /\ (UNCHANGED dcbox \/ Alarm(dev))
    BY <1>3 DEF HearState
  <2>2. CASE Send("GET_SHELF_POWER", dev, FALSE)
    BY <1>2, <2>2, AskingKeeps DEF Replies
  <2>3. CASE ask' = "none" /\ (UNCHANGED dcbox \/ Alarm(dev))
    BY <1>2, <2>3, SilenceKeeps
  <2> QED
    BY <2>1, <2>2, <2>3
<1>4. CASE HearPower
  BY <1>2, <1>4, SilenceKeeps DEF HearPower
<1>5. CASE HearSet
  BY <1>2, <1>5, SilenceKeeps DEF HearSet
<1> QED
  BY <1>3, <1>4, <1>5

\* Both cloud the pass, so only the types are left to show.
LEMMA GivingUpKeeps ==
    ASSUME BoxInv, Interrupted \/ Unanswered
    PROVE  BoxInv'
<1>1. dcbox \in Seq(Messages) /\ pmbox \in Seq(Messages)
  BY DEF BoxInv, BoxesOK
<1>2. dev \in Devices /\ ask' = "none" /\ UNCHANGED <<plugged, powered>> /\ clouded'
  BY DEF Interrupted, Unanswered, Awaits, BoxInv, crate
<1>3. CASE Interrupted
  BY <1>1, <1>2, <1>3, TailFacts, SilenceKeeps DEF Interrupted
<1>4. CASE Unanswered
  BY <1>1, <1>2, <1>4, SilenceKeeps DEF Unanswered
<1> QED
  BY <1>3, <1>4

-----------------------------------------------------------------------------
(* The controller and the crate *)

\* A step that leaves the manager alone keeps the invariant if the boxes stay
\* typed and hold no other question.
LEMMA OthersKeep ==
    ASSUME BoxInv, UNCHANGED <<worker, dev, ask>>,
           dcbox' \in Seq(Messages), pmbox' \in Seq(Messages), Named(dcbox'),
           plugged' \in [Devices -> BOOLEAN], powered' \in [Devices -> BOOLEAN],
           ~clouded' => Alone(dcbox', pmbox', ask, dev)
    PROVE  BoxInv'
<1>1. Named(dcbox)' /\ BoxesOK' /\ OnlyQuestion'
  BY DEF Named, BoxesOK, OnlyQuestion
<1> QED
  BY <1>1 DEF BoxInv

\* A notice to the manager disturbs no question.
LEMMA NotifyKeeps ==
    ASSUME BoxInv, NEW msg \in Notices, Notify(msg)
    PROVE  /\ pmbox' \in Seq(Messages)
           /\ ~clouded' => ~clouded
           /\ ~clouded => Alone(dcbox, pmbox', ask, dev)
<1> DEFINE m == Notice(msg)
<1>1. m \in Messages /\ m.msg \notin Replies
  BY MessageType
<1>2. pmbox' = Posted(pmbox, PMLen, m) /\ (~clouded' => ~clouded)
  BY DEF Notify
<1> HIDE DEF m
<1>3. dcbox \in Seq(Messages) /\ pmbox \in Seq(Messages)
  BY DEF BoxInv, BoxesOK
<1>4. pmbox' \in Seq(Messages)
  BY <1>1, <1>2, <1>3, PostedFacts
<1>5. ASSUME ~clouded
      PROVE  Alone(dcbox, pmbox', ask, dev)
  BY <1>1, <1>2, <1>3, <1>5, NoticeAlone DEF BoxInv, OnlyQuestion
<1> QED
  BY <1>2, <1>4, <1>5

LEMMA NamedTail ==
    ASSUME NEW dc \in Seq(Messages), Named(dc), dc # <<>>
    PROVE  Named(Tail(dc)) /\ (Head(dc).msg \in Replies => Head(dc).of \in Devices)
  BY TailFacts DEF Named

LEMMA StateType ==
    ASSUME NEW here \in BOOLEAN, NEW on \in BOOLEAN, NEW seen \in BOOLEAN, NEW read \in BOOLEAN
    PROVE  [Quiet EXCEPT !.present = here, !.on = on, !.hotswap = seen, !.eeprom = read]
             \in [present : BOOLEAN, on : BOOLEAN, hotswap : BOOLEAN, eeprom : BOOLEAN, power : Nat]
  BY DEF Quiet

\* The controller's replies are messages, about the device asked for.
LEMMA ReplyType ==
    ASSUME BoxInv, NEW d \in Devices
    PROVE  /\ \A kind \in Replies, on \in BOOLEAN :
                 /\ StateReply(kind, d, on) \in Messages
                 /\ StateReply(kind, d, on).msg = kind /\ StateReply(kind, d, on).of = d
           /\ \A w \in Nat :
                 LET r == Message("GET_SHELF_POWER", d, [Quiet EXCEPT !.power = w])
                 IN  r \in Messages /\ r.msg = "GET_SHELF_POWER" /\ r.of = d
<1>1. d \in 0 .. Fan /\ plugged[d] \in BOOLEAN
  BY Numbers DEF BoxInv
<1>2. ASSUME NEW kind \in Replies, NEW on \in BOOLEAN
      PROVE  /\ StateReply(kind, d, on) \in Messages
             /\ StateReply(kind, d, on).msg = kind /\ StateReply(kind, d, on).of = d
  <2> DEFINE seen == d \in Hotswap \/ d \notin Slots
             read == d \in Eeprom
  <2>1. seen \in BOOLEAN /\ read \in BOOLEAN
    OBVIOUS
  <2>2. StateReply(kind, d, on) =
          Message(kind, d, [Quiet EXCEPT !.present = plugged[d], !.on = on,
                                         !.hotswap = seen, !.eeprom = read])
    BY DEF StateReply
  <2> DEFINE data == [Quiet EXCEPT !.present = plugged[d], !.on = on,
                                   !.hotswap = seen, !.eeprom = read]
  <2> HIDE DEF seen, read
  <2>3. data \in [present : BOOLEAN, on : BOOLEAN, hotswap : BOOLEAN, eeprom : BOOLEAN,
                  power : Nat]
    BY <1>1, <2>1, StateType
  <2>4. StateReply(kind, d, on) = Message(kind, d, data)
    BY <2>2, Zenon
  <2> HIDE DEF data
  <2>5. StateReply(kind, d, on) = [msg |-> kind, of |-> d, data |-> data]
    BY <2>4 DEF Message
  <2> QED
    BY <1>1, <2>3, <2>5 DEF Messages
<1>3. ASSUME NEW w \in Nat
      PROVE  LET r == Message("GET_SHELF_POWER", d, [Quiet EXCEPT !.power = w])
             IN  r \in Messages /\ r.msg = "GET_SHELF_POWER" /\ r.of = d
  BY <1>1 DEF Message, Messages, Quiet, Replies
<1> QED
  BY <1>2, <1>3

\* A reply takes the place of its question.
LEMMA ReplyKeeps ==
    ASSUME BoxInv, dcbox # <<>>, dcbox' = Tail(dcbox), Head(dcbox).msg \in Replies,
           NEW r \in Messages, r.msg = Head(dcbox).msg, r.of = Head(dcbox).of,
           pmbox' = Posted(pmbox, PMLen, r),
           UNCHANGED <<worker, dev, ask, plugged, clouded>>,
           powered' \in [Devices -> BOOLEAN]
    PROVE  BoxInv'
<1>1. dcbox \in Seq(Messages) /\ pmbox \in Seq(Messages) /\ Named(dcbox)
  BY DEF BoxInv, BoxesOK
<1>2. dcbox' \in Seq(Messages) /\ pmbox' \in Seq(Messages) /\ Named(dcbox')
  BY <1>1, TailFacts, PostedFacts, NamedTail
<1>3. ASSUME ~clouded'
      PROVE  Alone(dcbox', pmbox', ask, dev)
  <2>1. Alone(dcbox, pmbox, ask, dev)
    BY <1>3 DEF BoxInv, OnlyQuestion
  <2> QED
    BY <1>1, <2>1, AnswerAlone
<1>4. plugged' \in [Devices -> BOOLEAN]
  BY DEF BoxInv
<1> QED
  BY <1>2, <1>3, <1>4, OthersKeep

LEMMA ServeKeeps ==
    ASSUME BoxInv, Serve
    PROVE  BoxInv'
<1> DEFINE m == Head(dcbox)
<1>1. /\ dcbox # <<>> /\ dcbox' = Tail(dcbox)
      /\ UNCHANGED <<worker, dev, ask, plugged>>
      /\ dcbox \in Seq(Messages) /\ pmbox \in Seq(Messages) /\ Named(dcbox)
      /\ plugged \in [Devices -> BOOLEAN] /\ powered \in [Devices -> BOOLEAN]
  BY DEF Serve, BoxInv, BoxesOK
<1>2. m \in Messages /\ (m.msg \in Replies => m.of \in Devices)
  BY <1>1, TailFacts, NamedTail
<1>3. /\ Tail(dcbox) \in Seq(Messages) /\ Named(Tail(dcbox))
      /\ ~clouded => Alone(Tail(dcbox), pmbox, ask, dev)
  BY <1>1, TailFacts, NamedTail, TakeAlone DEF BoxInv, OnlyQuestion
<1>4. CASE m.msg = "GET_SHELF_STATE" /\ ServeGetState(m.of) /\ UNCHANGED clouded
  <2>1. m.msg \in Replies /\ m.of \in Devices /\ powered[m.of] \in BOOLEAN
    BY <1>1, <1>2, <1>4 DEF Replies
  <2> DEFINE r == StateReply("GET_SHELF_STATE", m.of, powered[m.of])
  <2>2. r \in Messages /\ r.msg = m.msg /\ r.of = m.of
    BY <1>4, <2>1, ReplyType
  <2>3. pmbox' = Posted(pmbox, PMLen, r) /\ powered' = powered /\ UNCHANGED clouded
    BY <1>4 DEF ServeGetState
  <2> HIDE DEF r
  <2> QED
    BY <1>1, <2>1, <2>2, <2>3, ReplyKeeps
<1>5. CASE m.msg = "SET_SHELF_STATE" /\ ServeSetState(m.of, m.data.on) /\ UNCHANGED clouded
  <2>1. m.msg \in Replies /\ m.of \in Devices /\ m.data.on \in BOOLEAN
    BY <1>2, <1>5 DEF Replies, Messages
  <2>2. powered' \in [Devices -> BOOLEAN] /\ powered'[m.of] \in BOOLEAN
    BY <1>1, <1>5, <2>1 DEF ServeSetState
  <2> DEFINE r == StateReply("SET_SHELF_STATE", m.of, powered'[m.of])
  <2>3. r \in Messages /\ r.msg = m.msg /\ r.of = m.of
    BY <1>5, <2>1, <2>2, ReplyType
  <2>4. pmbox' = Posted(pmbox, PMLen, r) /\ UNCHANGED clouded
    BY <1>5 DEF ServeSetState
  <2> HIDE DEF r
  <2> QED
    BY <1>1, <2>1, <2>2, <2>3, <2>4, ReplyKeeps
<1>6. CASE m.msg = "GET_SHELF_POWER" /\ ServeGetPower(m.of) /\ UNCHANGED clouded
  <2>1. m.msg \in Replies /\ m.of \in Devices
    BY <1>2, <1>6 DEF Replies
  <2> DEFINE w == IF plugged[m.of] THEN Power[m.of] ELSE 0
             r == Message("GET_SHELF_POWER", m.of, [Quiet EXCEPT !.power = w])
  <2>2. w \in Nat
    BY <2>1, ShelfAssumption
  <2>3. r \in Messages /\ r.msg = m.msg /\ r.of = m.of
    BY <1>6, <2>1, <2>2, ReplyType
  <2>4. pmbox' = Posted(pmbox, PMLen, r) /\ powered' = powered /\ UNCHANGED clouded
    BY <1>6 DEF ServeGetPower
  <2> HIDE DEF r, w
  <2> QED
    BY <1>1, <2>1, <2>3, <2>4, ReplyKeeps
<1>7. CASE m.msg = "FAILURE_SIGNALING" /\ UNCHANGED <<pmbox, powered, clouded>>
  BY <1>1, <1>3, <1>7, OthersKeep
<1>8. CASE m.msg = "PSU_VALUES" /\ Notify("SHELF_POWER_RECALC") /\ UNCHANGED powered
  <2> DEFINE n == Notice("SHELF_POWER_RECALC")
  <2>1. n \in Messages /\ n.msg \notin Replies
    BY MessageType DEF Notices
  <2>2. pmbox' = Posted(pmbox, PMLen, n) /\ (~clouded' => ~clouded)
    BY <1>8 DEF Notify
  <2> HIDE DEF n
  <2>3. pmbox' \in Seq(Messages)
    BY <1>1, <2>1, <2>2, PostedFacts
  <2>4. ~clouded' => Alone(Tail(dcbox), pmbox', ask, dev)
    BY <1>1, <1>3, <2>1, <2>2, NoticeAlone
  <2> QED
    BY <1>1, <1>3, <1>8, <2>3, <2>4, OthersKeep
<1> QED
  BY <1>4, <1>5, <1>6, <1>7, <1>8 DEF Serve

LEMMA EventKeeps ==
    ASSUME BoxInv,
           \/ \E d \in Slots \cup {Fan} : Replug(d)
           \/ \E p \in Sources : PowerSupply(p)
           \/ \E d \in Slots, c \in Confs : ProfileChange(d, c)
           \/ EepromRewritten
    PROVE  BoxInv'
<1>1. /\ dcbox \in Seq(Messages) /\ pmbox \in Seq(Messages) /\ Named(dcbox)
      /\ plugged \in [Devices -> BOOLEAN] /\ powered \in [Devices -> BOOLEAN]
      /\ ~clouded => Alone(dcbox, pmbox, ask, dev)
  BY DEF BoxInv, BoxesOK, OnlyQuestion
<1>2. ASSUME NEW d \in Slots \cup {Fan}, Replug(d)
      PROVE  BoxInv'
  <2>1. /\ UNCHANGED <<worker, dev, ask, dcbox>>
        /\ plugged' \in [Devices -> BOOLEAN] /\ powered' \in [Devices -> BOOLEAN]
    BY <1>1, <1>2, Numbers DEF Replug, Event
  <2>2. CASE Notify("SHELF_POWER_RECALC")
    BY <1>1, <2>1, <2>2, NotifyKeeps, OthersKeep DEF Notices
  <2>3. CASE clouded' /\ UNCHANGED pmbox
    BY <1>1, <2>1, <2>3, OthersKeep
  <2> QED
    BY <1>2, <2>2, <2>3 DEF Replug
<1>3. ASSUME NEW p \in Sources, PowerSupply(p)
      PROVE  BoxInv'
  <2> DEFINE n == Notice("PSU_VALUES")
  <2>1. n \in Messages /\ n.msg \notin Replies
    BY MessageType
  <2>2. /\ UNCHANGED <<worker, dev, ask>>
        /\ plugged' \in [Devices -> BOOLEAN] /\ powered' \in [Devices -> BOOLEAN]
    BY <1>1, <1>3 DEF PowerSupply, Event
  <2>3. CASE dcbox' = Posted(dcbox, DCLen, n) /\ (~clouded' => ~clouded) /\ UNCHANGED pmbox
    <3> HIDE DEF n
    <3>1. dcbox' \in Seq(Messages) /\ Named(dcbox')
      BY <1>1, <2>1, <2>3, PostedFacts, NamedPosted
    <3>2. ~clouded' => Alone(dcbox', pmbox, ask, dev)
      BY <1>1, <2>1, <2>3, NoticeAlone
    <3> QED
      BY <1>1, <2>2, <2>3, <3>1, <3>2, OthersKeep
  <2>4. CASE Notify("SHELF_POWER_RECALC") /\ UNCHANGED dcbox
    BY <1>1, <2>2, <2>4, NotifyKeeps, OthersKeep DEF Notices
  <2> QED
    BY <1>3, <2>3, <2>4 DEF PowerSupply
<1>4. ASSUME NEW d \in Slots, NEW c \in Confs, ProfileChange(d, c)
      PROVE  BoxInv'
  <2>1. /\ Notify("PROF_POWER_RECALC")
        /\ UNCHANGED <<worker, dev, ask, dcbox, plugged, powered>>
    BY <1>4 DEF ProfileChange, Event
  <2> QED
    BY <1>1, <2>1, NotifyKeeps, OthersKeep DEF Notices
<1>5. CASE EepromRewritten
  <2>1. /\ Notify("SHELF_POWER_RECALC")
        /\ UNCHANGED <<worker, dev, ask, dcbox, plugged, powered>>
    BY <1>5 DEF EepromRewritten, Event
  <2> QED
    BY <1>1, <2>1, NotifyKeeps, OthersKeep DEF Notices
<1> QED
  BY <1>2, <1>3, <1>4, <1>5

-----------------------------------------------------------------------------
(* The theorems *)

LEMMA BoxStep == BoxInv /\ [Next]_vars => BoxInv'
<1> SUFFICES ASSUME BoxInv, [Next]_vars
             PROVE  BoxInv'
  OBVIOUS
<1>1. CASE WaitForNotice \/ WaitOutDelay \/ WeighPower \/ LeaveSmartStart \/ PollNotice
  <2>1. AtSignal
    BY <1>1 DEF WaitForNotice, WaitOutDelay, WeighPower, LeaveSmartStart, PollNotice
  <2> QED
    BY <1>1, <2>1, TransitionKeeps
<1>2. CASE Scan
  BY <1>2, ScanKeeps
<1>3. CASE CalcProhib
  BY <1>3, CalcProhibKeeps
<1>4. CASE HearState \/ HearPower \/ HearSet
  BY <1>4, HearKeeps
<1>5. CASE Interrupted \/ Unanswered
  BY <1>5, GivingUpKeeps
<1>6. CASE Serve
  BY <1>6, ServeKeeps
<1>7. CASE \/ \E d \in Slots \cup {Fan} : Replug(d)
           \/ \E p \in Sources : PowerSupply(p)
           \/ \E d \in Slots, c \in Confs : ProfileChange(d, c)
           \/ EepromRewritten
  BY <1>7, EventKeeps
<1>8. CASE UNCHANGED vars
  BY <1>8 DEF vars, crate, BoxInv, BoxesOK, Named, OnlyQuestion
<1> QED
  BY <1>1, <1>2, <1>3, <1>4, <1>5, <1>6, <1>7, <1>8 DEF Next, Manager

\* The boxes hold typed messages, every request names a device of the crate, and
\* while nothing has disturbed the pass no question but the pending one, nor an
\* answer to another, is on its way (send_inttask_message, powermang_task).
THEOREM BoxesInvariant == Spec => []BoxInv
<1>1. Init => BoxInv
  BY BoxInit
<1>2. BoxInv /\ [Next]_vars => BoxInv'
  BY BoxStep
<1> QED
  BY <1>1, <1>2, PTL DEF Spec

\* The answer a worker of the shelf manager takes from its mailbox is the answer
\* to the question it asked, unless a worker was interrupted, a question timed
\* out or a notice was lost and no pass has begun afresh since.
THEOREM AnswersAreOurs == Spec => []OnlyQuestion
<1>1. BoxInv => OnlyQuestion
  BY DEF BoxInv
<1> QED
  BY <1>1, BoxesInvariant, PTL

-----------------------------------------------------------------------------
(* The transition table, row by row *)

LEMMA StateNames ==
    States = {"INIT", "GETSLOTSSTATE", "POWER_DELAY", "SOURCE_READ", "FAN_READ", "SLOTS_READ",
              "PASSIVE_CHECK", "FAN_ON", "POWEROFF_IGNORANT", "POWER_RESRV_CALC", "PROHIBITED",
              "SMARTSTART", "READY"}
  BY DEF States, trans_table

\* The rows without a signal of the power balance.
LEMMA PlainRows ==
    ASSUME NEW sg \in Signals
    PROVE  LET Row(st, static, crate_, profile) ==
                 /\ Listed(st, sg) <=> sg \in {"STATIC", "CRATECHANGE", "PROFILECHANGE"}
                 /\ NewState(st, sg) = CASE sg = "STATIC"        -> static
                                         [] sg = "CRATECHANGE"   -> crate_
                                         [] sg = "PROFILECHANGE" -> profile
                                         [] OTHER -> "INIT"
           IN  /\ Row("INIT", "INIT", "GETSLOTSSTATE", "INIT")
               /\ Row("GETSLOTSSTATE", "POWER_DELAY", "INIT", "POWER_DELAY")
               /\ Row("POWER_DELAY", "SOURCE_READ", "SOURCE_READ", "SOURCE_READ")
               /\ Row("SOURCE_READ", "FAN_READ", "SOURCE_READ", "FAN_READ")
               /\ Row("FAN_READ", "SLOTS_READ", "SOURCE_READ", "SLOTS_READ")
               /\ Row("SLOTS_READ", "PASSIVE_CHECK", "SOURCE_READ", "PASSIVE_CHECK")
               /\ Row("PASSIVE_CHECK", "FAN_ON", "SOURCE_READ", "FAN_ON")
               /\ Row("FAN_ON", "POWEROFF_IGNORANT", "SOURCE_READ", "POWEROFF_IGNORANT")
               /\ Row("POWEROFF_IGNORANT", "POWER_RESRV_CALC", "SOURCE_READ", "POWER_RESRV_CALC")
               /\ Row("POWER_RESRV_CALC", "PROHIBITED", "SOURCE_READ", "POWEROFF_IGNORANT")
  BY DEF Listed, NewState, trans_table, To, Reading, Powering, Signals

LEMMA BalanceRows ==
    ASSUME NEW sg \in Signals
    PROVE  LET Row(st, static, positive, negative) ==
                 /\ Listed(st, sg)
                 /\ NewState(st, sg) = CASE sg = "STATIC"        -> static
                                         [] sg = "CRATECHANGE"   -> "SOURCE_READ"
                                         [] sg = "PROFILECHANGE" -> "POWEROFF_IGNORANT"
                                         [] sg = "POW_POSITIVE"  -> positive
                                         [] sg = "POW_NEGATIVE"  -> negative
           IN  /\ Row("PROHIBITED", "SMARTSTART", "SMARTSTART", "READY")
               /\ Row("SMARTSTART", "READY", "READY", "READY")
               /\ Row("READY", "READY", "READY", "READY")
  BY DEF Listed, NewState, trans_table, To, Powering, WithPower, Signals

LEMMA Orders ==
    /\ Order["INIT"] = 0 /\ Order["GETSLOTSSTATE"] = 0 /\ Order["POWER_DELAY"] = 0
    /\ Order["SOURCE_READ"] = 1 /\ Order["FAN_READ"] = 2 /\ Order["SLOTS_READ"] = 3
    /\ Order["PASSIVE_CHECK"] = 4 /\ Order["FAN_ON"] = 5 /\ Order["POWEROFF_IGNORANT"] = 6
    /\ Order["POWER_RESRV_CALC"] = 7 /\ Order["PROHIBITED"] = 8 /\ Order["SMARTSTART"] = 9
    /\ Order["READY"] = 10
    /\ \A s \in States : Order[s] \in 0 .. 10
  BY StateNames DEF Order

\* A listed entry leads one step further, or back.
LEMMA Steps ==
    ASSUME NEW st \in States, NEW sg \in Signals, Listed(st, sg),
           NEW w, w = WorkerOf(st, sg), NEW n, n = NewState(st, sg)
    PROVE  /\ n \in States /\ w \in States \cup {"none"}
           /\ w \notin {"INIT", "FAN_ON", "READY"}
           /\ w # "none" => /\ w = n \/ (w = "POWER_DELAY" /\ n = "INIT")
                            /\ Order[w] <= Order[st] + 1
           /\ w = "none" => \/ n = "INIT"
                            \/ n = "FAN_ON" /\ st = "PASSIVE_CHECK"
                            \/ n = "READY" /\ Order[st] >= 8
           /\ sg = "CRATECHANGE" \/ n = "SOURCE_READ" =>
                 w \in {"GETSLOTSSTATE", "POWER_DELAY", "SOURCE_READ"}
           /\ sg = "PROFILECHANGE" /\ st \in {"INIT", "READY", "POWER_DELAY"} =>
                 (w = "none" /\ n = "INIT") \/ w \in {"SOURCE_READ", "POWEROFF_IGNORANT"}
<1>1. CASE st \in {"INIT", "GETSLOTSSTATE", "POWER_DELAY", "SOURCE_READ", "FAN_READ"}
  BY <1>1, PlainRows, Orders, StateNames DEF WorkerOf, Signals
<1>2. CASE st \in {"SLOTS_READ", "PASSIVE_CHECK", "FAN_ON", "POWEROFF_IGNORANT",
                   "POWER_RESRV_CALC"}
  BY <1>2, PlainRows, Orders, StateNames DEF WorkerOf, Signals
<1>3. CASE st \in {"PROHIBITED", "SMARTSTART", "READY"}
  BY <1>3, BalanceRows, Orders, StateNames DEF WorkerOf, Signals
<1> QED
  BY <1>1, <1>2, <1>3, StateNames

-----------------------------------------------------------------------------
(* Types *)

LEMMA LeastIsMember == ASSUME NEW S \in SUBSET Nat, S # {} PROVE Min(S) \in S
<1>1. PICK x \in S : \A y \in S : ~ (<<y, x>> \in SmallerThan)
  BY SmallerThanIsWellFounded, WFMin
<1>2. \A y \in S : x \in Nat /\ y \in Nat /\ x <= y
  <2> TAKE y \in S
  <2>1. x \in Nat /\ y \in Nat /\ ~ (<<y, x>> \in SmallerThan)
    BY <1>1
  <2>2. ~ (y < x)
    BY <2>1 DEF SmallerThan
  <2> QED
    BY <2>1, <2>2
<1>3. \E z \in S : \A y \in S : z <= y
  BY <1>2
<1>4. Min(S) = CHOOSE z \in S : \A y \in S : z =< y
  BY DEF Min
<1> QED
  BY <1>3, <1>4

LEMMA DevicesFinite == IsFiniteSet(Devices) /\ \A S \in SUBSET Devices : IsFiniteSet(S)
<1>1. IsFiniteSet(1 .. Fan)
  BY Numbers, FS_Interval
<1> QED
  BY <1>1, FS_Subset DEF Devices

LEMMA DrawType ==
    ASSUME status \in [Devices -> Looks], NEW S \in SUBSET Devices
    PROVE  Draw(S) \in Nat
<1> DEFINE f == [d \in Devices |-> status[d].power]
<1>1. \A d \in S : f[d] \in Nat
  BY DEF Looks
<1>2. IsFiniteSet(S)
  BY DevicesFinite
<1> HIDE DEF f
<1>3. SumFunctionOnSet(f, S) \in Nat
  BY <1>1, <1>2, SumType
<1> QED
  BY <1>3 DEF Draw, f

LEMMA SourceLimitType == status \in [Devices -> Looks] => SourceLimit \in Nat
<1> SUFFICES ASSUME status \in [Devices -> Looks] PROVE SourceLimit \in Nat
  OBVIOUS
<1>1. Rated \in SUBSET Nat
  BY Numbers DEF Rated, Working, Looks
<1>2. Rated # {} => Min(Rated) \in Nat
  BY <1>1, LeastIsMember
<1> QED
  BY <1>2, ShelfAssumption DEF SourceLimit

LEMMA PostedLength ==
    ASSUME NEW M, NEW box \in Seq(M), NEW m \in M, NEW len \in Nat, Len(box) <= len
    PROVE  Len(Posted(box, len, m)) <= len
  BY DEF Posted

Position ==
    /\ curnt_state \in States /\ target \in States
    /\ curnt_signal \in Signals
    /\ inauto_signal \in {"STATIC", "CRATECHANGE", "PROFILECHANGE"}
    /\ worker \in States \cup {"none"}
    /\ dev \in 0 .. Fan + 1
    /\ now_presents \in SUBSET Slots

Books ==
    /\ powerLimitSource \in Nat /\ power_slots_now \in Int
    /\ actualAvailablePowerLimit \in Int /\ recuredPower \in Int
    /\ is_prohibited_only \in BOOLEAN

Lengths == Len(dcbox) <= DCLen /\ Len(pmbox) <= PMLen

Bounds == conf \in [Slots -> Confs] /\ events \in 0 .. MaxEvents /\ timeouts \in 0 .. MaxTimeouts
          /\ clouded \in BOOLEAN

LEMMA TypeParts ==
    BoxInv => (TypeOK <=> Position /\ status \in [Devices -> Looks] /\ Books /\ Lengths /\ Bounds)
  BY DEF BoxInv, TypeOK, Position, Books, Lengths, Bounds

LEMMA TypePartsNext ==
    BoxInv' => (TypeOK' <=> /\ Position' /\ status' \in [Devices -> Looks]
                            /\ Books' /\ Lengths' /\ Bounds')
  BY DEF BoxInv, TypeOK, Position, Books, Lengths, Bounds

LEMMA TypeInit == Init => TypeOK
<1> SUFFICES ASSUME Init PROVE TypeOK
  OBVIOUS
<1>1. BoxInv
  BY BoxInit
<1>2. Position
  BY Numbers, StateNames DEF Init, Position, Signals
<1>3. status \in [Devices -> Looks]
  BY DEF Init, Looks, Unread
<1>4. Books
  <2>1. is_prohibited_only \in BOOLEAN
    BY DEF Init
  <2> QED
    BY <2>1 DEF Init, Books
<1>5. Lengths
  BY ShelfAssumption DEF Init, Lengths
<1>6. Bounds
  <2>1. clouded \in BOOLEAN
    BY DEF Init
  <2> QED
    BY <2>1, ShelfAssumption DEF Init, Bounds
<1> QED
  BY <1>1, <1>2, <1>3, <1>4, <1>5, <1>6, TypeParts

\* The signal the manager goes by.
LEMMA SignalType ==
    ASSUME TypeOK
    PROVE  /\ \A m, s : s \in Signals => SignalOf(m, s) \in Signals
           /\ \A m, s : s \in {"STATIC", "CRATECHANGE", "PROFILECHANGE"} =>
                 SignalOf(m, s) \in {"STATIC", "CRATECHANGE", "PROFILECHANGE"}
           /\ \A m : SignalOf(m, "STATIC") # "POW_POSITIVE" /\ SignalOf(m, "STATIC") # "POW_NEGATIVE"
  BY DEF SignalOf, Signals

\* A signal of the balance is only taken in PROHIBITED, READY and SMARTSTART,
\* whose rows list it.
LEMMA Taken ==
    ASSUME TypeOK, BalanceSignal,
           WaitForNotice \/ WaitOutDelay \/ WeighPower \/ LeaveSmartStart \/ PollNotice
    PROVE  \E sg \in Signals :
              /\ AtSignal /\ Transition(sg) /\ Listed(curnt_state, sg)
              /\ sg \in {"POW_POSITIVE", "POW_NEGATIVE"} => curnt_state = "PROHIBITED"
              /\ sg # "STATIC" => curnt_state # "SMARTSTART"
<1>1. curnt_state \in States /\ inauto_signal \in Signals /\ curnt_signal \in Signals
  BY DEF TypeOK, Signals
<1>2. AtSignal
  BY DEF WaitForNotice, WaitOutDelay, WeighPower, LeaveSmartStart, PollNotice
<1>3. inauto_signal \in {"STATIC", "CRATECHANGE", "PROFILECHANGE"}
  BY DEF TypeOK
<1> DEFINE Plain(sg) == sg \in {"STATIC", "CRATECHANGE", "PROFILECHANGE"}
<1>4. \A st \in States : \A sg : Plain(sg) => Listed(st, sg) /\ sg \in Signals
  BY PlainRows, BalanceRows, StateNames DEF Signals
<1>5. CASE WaitForNotice \/ LeaveSmartStart
  <2>1. \E sg : Plain(sg) /\ Transition(sg) /\ (sg # "STATIC" => curnt_state # "SMARTSTART")
    BY <1>5, SignalType DEF WaitForNotice, LeaveSmartStart
  <2> QED
    BY <1>1, <1>2, <1>4, <2>1
<1>6. CASE WaitOutDelay \/ PollNotice
  <2>1. curnt_state \notin {"SMARTSTART", "READY"}
    BY <1>6 DEF WaitOutDelay, PollNotice
  <2>2. Plain(curnt_signal)
    BY <1>1, <1>2, <2>1 DEF BalanceSignal, AtSignal, Signals
  <2>3. \E sg : Plain(sg) /\ Transition(sg)
    BY <1>3, <1>6, <2>2, SignalType DEF WaitOutDelay, PollNotice
  <2> QED
    BY <1>1, <1>2, <1>4, <2>1, <2>3
<1>7. CASE WeighPower
  <2>1. curnt_state = "PROHIBITED" /\ \E sg \in {"POW_POSITIVE", "POW_NEGATIVE"} : Transition(sg)
    BY <1>7 DEF WeighPower
  <2> QED
    BY <1>2, <2>1, BalanceRows DEF Signals
<1> QED
  BY <1>5, <1>6, <1>7

\* What the steps that pick a signal do to the machine and to the books.
LEMMA TransitionTypes ==
    ASSUME TypeOK, NEW sg \in Signals, AtSignal, Listed(curnt_state, sg), Transition(sg)
    PROVE  /\ curnt_state' \in States /\ target' \in States /\ curnt_signal' \in Signals
           /\ worker' \in States \cup {"none"} /\ dev' \in 0 .. Fan + 1
           /\ now_presents' \in SUBSET Slots
           /\ status' \in [Devices -> Looks] /\ Books'
<1> DEFINE w == WorkerOf(curnt_state, sg)
           n == NewState(curnt_state, sg)
<1>0. TypeOK
  OBVIOUS
<1>1. curnt_state \in States /\ worker = "none"
  BY DEF TypeOK, AtSignal
<1>2. n \in States /\ w \in States \cup {"none"}
  BY <1>1, Steps
<1>3. /\ curnt_signal' = sg /\ target' = n /\ status' = status
      /\ \/ w = "none" /\ curnt_state' = n /\ worker' = "none"
            /\ UNCHANGED <<dev, now_presents, books>>
         \/ w # "none" /\ worker' = w /\ Begin(w) /\ UNCHANGED curnt_state
  BY DEF Transition
<1> HIDE DEF w, n
<1>4. status \in [Devices -> Looks] /\ Books /\ dev \in 0 .. Fan + 1 /\ now_presents \in SUBSET Slots
  BY <1>0 DEF TypeOK, Books
<1>5. CASE UNCHANGED <<dev, now_presents, books>> /\ worker' = "none" /\ curnt_state' = n
  BY <1>1, <1>2, <1>3, <1>4, <1>5 DEF books, Books
<1>6. CASE worker' = w /\ Begin(w) /\ UNCHANGED curnt_state
  <2>1. now_presents' \in SUBSET Slots
    BY <1>6 DEF Begin
  <2>2. dev' \in {NSlots + 1, Fan, NSlots, 1}
    BY <1>6 DEF Begin
  <2>3. dev' \in 0 .. Fan + 1
    BY <2>2, ShelfAssumption DEF Fan
  <2>4. \A S \in SUBSET Slots : Draw(S) \in Nat
    BY <1>4, Numbers, DrawType
  <2>5. powerLimitSource' \in Nat
    BY <1>4, <1>6, SourceLimitType DEF Begin, Books
  <2>6. power_slots_now' \in Int /\ recuredPower' \in Int
    <3>1. power_slots_now' \in {Draw({d \in Slots : Here(d) /\ On(d)}), 0}
      BY <1>6 DEF Begin
    <3>2. recuredPower' \in {Draw({d \in Slots : Here(d) /\ ~On(d) /\ conf[d] = "IgnorantStart"}), 0,
                             recuredPower}
      BY <1>6 DEF Begin
    <3>3. /\ Draw({d \in Slots : Here(d) /\ On(d)}) \in Nat
          /\ Draw({d \in Slots : Here(d) /\ ~On(d) /\ conf[d] = "IgnorantStart"}) \in Nat
      BY <2>4
    <3> QED
      BY <1>4, <3>1, <3>2, <3>3 DEF Books
  <2>7. is_prohibited_only' \in BOOLEAN /\ actualAvailablePowerLimit' \in Int
    BY <1>4, <1>6 DEF Begin, Books
  <2>8. Books'
    BY <2>5, <2>6, <2>7 DEF Books
  <2> QED
    BY <1>1, <1>2, <1>3, <1>4, <1>6, <2>1, <2>3, <2>8
<1> QED
  BY <1>3, <1>5, <1>6

LEMMA TransitionTyped ==
    ASSUME TypeOK, BoxInv, BoxInv', BalanceSignal,
           WaitForNotice \/ WaitOutDelay \/ WeighPower \/ LeaveSmartStart \/ PollNotice
    PROVE  TypeOK'
<1>1. PICK sg \in Signals : AtSignal /\ Transition(sg) /\ Listed(curnt_state, sg)
  BY Taken
<1>2. /\ curnt_state' \in States /\ target' \in States /\ curnt_signal' \in Signals
      /\ worker' \in States \cup {"none"} /\ dev' \in 0 .. Fan + 1
      /\ now_presents' \in SUBSET Slots
      /\ status' \in [Devices -> Looks] /\ Books'
  BY <1>1, TransitionTypes
<1>3. inauto_signal' \in {"STATIC", "CRATECHANGE", "PROFILECHANGE"}
  BY DEF WaitForNotice, WaitOutDelay, WeighPower, LeaveSmartStart, PollNotice, TypeOK
<1>4. Lengths'
  <2>1. \/ UNCHANGED pmbox
        \/ pmbox # <<>> /\ pmbox' = Tail(pmbox)
    BY DEF WaitForNotice, WaitOutDelay, WeighPower, LeaveSmartStart, PollNotice
  <2>2. dcbox' = dcbox /\ pmbox \in Seq(Messages) /\ Lengths
    BY <1>1 DEF Transition, BoxInv, BoxesOK, TypeOK, Lengths
  <2>3. Len(pmbox') <= Len(pmbox)
    BY <2>1, <2>2
  <2> QED
    BY <2>2, <2>3, ShelfAssumption DEF Lengths
<1>5. Bounds'
  <2>1. UNCHANGED <<conf, events, timeouts>>
    BY <1>1 DEF Transition, crate
  <2>2. clouded' \in BOOLEAN
    BY DEF WaitForNotice, WaitOutDelay, WeighPower, LeaveSmartStart, PollNotice, TypeOK, Refresh
  <2> QED
    BY <2>1, <2>2 DEF TypeOK, Bounds
<1>6. Position'
  BY <1>2, <1>3 DEF Position
<1> QED
  BY <1>2, <1>4, <1>5, <1>6, TypePartsNext

LEMMA NextDevice == \A d \in Devices : d + 1 \in 0 .. Fan + 1 /\ d - 1 \in 0 .. Fan + 1 /\ d \in 0 .. Fan + 1
  BY ShelfAssumption DEF Devices, Fan

LEMMA FinishTyped ==
    ASSUME TypeOK, Finish
    PROVE  /\ curnt_state' \in States /\ worker' \in States \cup {"none"}
           /\ dev' \in 0 .. Fan + 1 /\ now_presents' \in SUBSET Slots
<1>1. 0 \in 0 .. Fan + 1
  BY Numbers
<1> QED
  BY <1>1 DEF Finish, TypeOK

LEMMA SendTyped ==
    ASSUME TypeOK, NEW msg \in Replies, NEW d \in Devices, NEW on \in BOOLEAN, Send(msg, d, on)
    PROVE  dev' \in 0 .. Fan + 1 /\ Len(dcbox') <= DCLen
<1> DEFINE m == Request(msg, d, on)
<1>1. m \in Messages
  BY MessageType
<1>2. dcbox' = Posted(dcbox, DCLen, m) /\ dev' = d
  BY DEF Send
<1>3. dcbox \in Seq(Messages) /\ Len(dcbox) <= DCLen /\ DCLen \in Nat
  BY ShelfAssumption DEF TypeOK, BoxesOK
<1> HIDE DEF m
<1> QED
  BY <1>1, <1>2, <1>3, PostedLength, NextDevice

LEMMA AlarmTyped ==
    ASSUME TypeOK, NEW d \in Devices, Alarm(d)
    PROVE  Len(dcbox') <= DCLen
<1> DEFINE m == Failure(d)
<1>1. m \in Messages
  BY MessageType
<1>2. dcbox' = Posted(dcbox, DCLen, m)
  BY DEF Alarm
<1>3. dcbox \in Seq(Messages) /\ Len(dcbox) <= DCLen /\ DCLen \in Nat
  BY ShelfAssumption DEF TypeOK, BoxesOK
<1> HIDE DEF m
<1> QED
  BY <1>1, <1>2, <1>3, PostedLength

LEMMA ScanTyped ==
    ASSUME TypeOK, BoxInv', Scan
    PROVE  TypeOK'
<1>1. /\ UNCHANGED <<curnt_signal, inauto_signal, target, pmbox, conf, events, timeouts, clouded,
                     powerLimitSource, actualAvailablePowerLimit, power_slots_now,
                     is_prohibited_only>>
      /\ status \in [Devices -> Looks] /\ Position /\ Books /\ Lengths /\ Bounds
  BY DEF Scan, crate, TypeOK, Position, Books, Lengths, Bounds
<1>2. Bounds'
  BY <1>1 DEF Bounds
<1>3. CASE Finish /\ UNCHANGED <<ask, status, recuredPower, dcbox>>
  <2>1. Position' /\ Books' /\ Lengths' /\ status' \in [Devices -> Looks]
    BY <1>1, <1>3, FinishTyped DEF Position, Books, Lengths
  <2> QED
    BY <1>2, <2>1, TypePartsNext
<1>4. CASE ~(Finish /\ UNCHANGED <<ask, status, recuredPower, dcbox>>)
  <2>1. /\ dev \in DevicesOf(worker)
        /\ \/ Send(IF worker \in {"POWER_DELAY", "POWEROFF_IGNORANT", "SMARTSTART"}
                   THEN "SET_SHELF_STATE" ELSE "GET_SHELF_STATE", dev, worker = "SMARTSTART")
           \/ dev' = dev + 1 /\ UNCHANGED <<ask, dcbox>>
        /\ status' = IF worker = "GETSLOTSSTATE"
                     THEN [status EXCEPT ![dev].present = dev \in now_presents,
                                         ![dev].on = "SLOT_OFF", ![dev].power = 0]
                     ELSE status
        /\ recuredPower' \in {status[dev].power, recuredPower}
        /\ UNCHANGED <<curnt_state, worker, now_presents>>
    BY <1>4 DEF Scan
  <2>2. dev \in Devices
    BY <2>1, DevicesOfType
  <2>3. dev' \in 0 .. Fan + 1 /\ Len(dcbox') <= DCLen
    <3>1. CASE Send(IF worker \in {"POWER_DELAY", "POWEROFF_IGNORANT", "SMARTSTART"}
                    THEN "SET_SHELF_STATE" ELSE "GET_SHELF_STATE", dev, worker = "SMARTSTART")
      <4>1. PICK msg \in Replies, on \in BOOLEAN : Send(msg, dev, on)
        BY <3>1 DEF Replies
      <4> QED
        BY <2>2, <4>1, SendTyped
    <3>2. CASE dev' = dev + 1 /\ UNCHANGED <<ask, dcbox>>
      BY <1>1, <2>2, <3>2, NextDevice DEF Lengths
    <3> QED
      BY <2>1, <3>1, <3>2
  <2>4. status' \in [Devices -> Looks]
    <3>1. CASE worker = "GETSLOTSSTATE"
      <4> DEFINE l == [status[dev] EXCEPT !.present = dev \in now_presents, !.on = "SLOT_OFF",
                                          !.power = 0]
      <4>1. status[dev] \in Looks /\ (dev \in now_presents) \in BOOLEAN
        BY <1>1, <2>2
      <4>2. l \in Looks
        BY <4>1 DEF Looks
      <4>3. status' = [status EXCEPT ![dev] = l]
        BY <1>1, <2>1, <2>2, <3>1
      <4> HIDE DEF l
      <4> QED
        BY <1>1, <4>2, <4>3
    <3>2. CASE worker # "GETSLOTSSTATE"
      BY <1>1, <2>1, <3>2
    <3> QED
      BY <3>1, <3>2
  <2>5. recuredPower' \in Int
    BY <1>1, <2>1, <2>2 DEF Looks, Books
  <2>6. Position' /\ Books' /\ Lengths'
    BY <1>1, <2>1, <2>3, <2>5 DEF Position, Books, Lengths
  <2> QED
    BY <1>2, <2>4, <2>6, TypePartsNext
<1> QED
  BY <1>3, <1>4

LEMMA SpareType == TypeOK => \A n \in Int : Spare(n) \in Int
<1> SUFFICES ASSUME TypeOK, NEW n \in Int PROVE Spare(n) \in Int
  OBVIOUS
<1>1. status[Fan].power \in Nat
  BY Numbers DEF TypeOK, Looks
<1>2. powerLimitSource \in Nat
  BY DEF TypeOK
<1> QED
  BY <1>1, <1>2, ShelfAssumption DEF Spare

\* What calc_prohib's turn does to the loop: it goes on, it is over, or it asks
\* to switch the last of the smart boards off or the first certain one on.
LEMMA CalcCases ==
    ASSUME CalcProhib
    PROVE  \/ Finish /\ Certain = {} /\ UNCHANGED <<ask, dcbox, is_prohibited_only>>
              /\ actualAvailablePowerLimit' = Spare(power_slots_now)
           \/ dev' = NSlots /\ UNCHANGED <<curnt_state, worker, now_presents, ask, dcbox>>
              /\ is_prohibited_only' = TRUE
           \/ \E d \in Slots :
                 /\ \/ Switchable(d) /\ conf[d] = "SmartlyStart" /\ On(d)
                       /\ Send("SET_SHELF_STATE", d, FALSE)
                    \/ d \in Certain /\ Send("SET_SHELF_STATE", d, TRUE)
                 /\ UNCHANGED <<curnt_state, worker, now_presents, is_prohibited_only>>
<1>1. \A i : TurnOffFrom(i) =>
        \/ dev' = NSlots /\ UNCHANGED <<curnt_state, worker, now_presents, ask, dcbox>>
           /\ is_prohibited_only' = TRUE
        \/ \E d \in Slots :
              /\ Switchable(d) /\ conf[d] = "SmartlyStart" /\ On(d)
              /\ Send("SET_SHELF_STATE", d, FALSE)
              /\ UNCHANGED <<curnt_state, worker, now_presents, is_prohibited_only>>
  <2> TAKE i
  <2> HAVE TurnOffFrom(i)
  <2>1. CASE Smart(i) = {}
    BY <2>1 DEF TurnOffFrom
  <2>2. CASE Smart(i) # {}
    <3>1. TurnLastOff(i) /\ UNCHANGED <<curnt_state, worker, now_presents>>
      BY <2>2 DEF TurnOffFrom
    <3>2. PICK d \in Smart(i) : Send("SET_SHELF_STATE", d, FALSE)
      BY <3>1 DEF TurnLastOff
    <3>3. d \in Slots /\ Switchable(d) /\ conf[d] = "SmartlyStart" /\ On(d)
      BY <3>2 DEF Smart
    <3>4. UNCHANGED is_prohibited_only
      BY <3>1 DEF TurnLastOff
    <3> QED
      BY <3>1, <3>2, <3>3, <3>4
  <2> QED
    BY <2>1, <2>2
<1>2. CASE \E i : TurnOffFrom(i)
  BY <1>1, <1>2
<1>3. CASE ~\E i : TurnOffFrom(i)
  <2>1. /\ actualAvailablePowerLimit' = Spare(power_slots_now)
        /\ UNCHANGED is_prohibited_only
        /\ IF Certain = {}
           THEN Finish /\ UNCHANGED <<ask, dcbox>>
           ELSE /\ \E d \in Certain : Send("SET_SHELF_STATE", d, TRUE)
                /\ UNCHANGED <<curnt_state, worker, now_presents>>
    BY <1>3 DEF CalcProhib
  <2>2. CASE Certain = {}
    BY <2>1, <2>2
  <2>3. CASE Certain # {}
    <3>1. PICK d \in Certain : Send("SET_SHELF_STATE", d, TRUE)
      BY <2>1, <2>3
    <3>2. d \in Slots
      BY <3>1 DEF Certain
    <3> QED
      BY <2>1, <2>3, <3>1, <3>2
  <2> QED
    BY <2>2, <2>3
<1> QED
  BY <1>2, <1>3

LEMMA CalcTyped ==
    ASSUME TypeOK, BoxInv', CalcProhib
    PROVE  TypeOK'
<1>1. /\ UNCHANGED <<curnt_signal, inauto_signal, target, status, pmbox, conf, events, timeouts,
                     clouded, powerLimitSource, recuredPower, power_slots_now>>
      /\ status \in [Devices -> Looks] /\ Position /\ Books /\ Lengths /\ Bounds
  BY DEF CalcProhib, crate, TypeOK, Position, Books, Lengths, Bounds
<1>2. Bounds'
  BY <1>1 DEF Bounds
<1>3. actualAvailablePowerLimit' \in Int
  <2>1. actualAvailablePowerLimit' \in {actualAvailablePowerLimit, Spare(power_slots_now)}
    BY DEF CalcProhib
  <2> QED
    BY <1>1, <2>1, SpareType DEF Books
<1>4. CASE Finish /\ UNCHANGED <<ask, dcbox, is_prohibited_only>>
  <2>1. Position' /\ Books' /\ Lengths'
    BY <1>1, <1>3, <1>4, FinishTyped DEF Position, Books, Lengths
  <2> QED
    BY <1>1, <1>2, <2>1, TypePartsNext
<1>5. CASE dev' = NSlots /\ UNCHANGED <<curnt_state, worker, now_presents, ask, dcbox>>
           /\ is_prohibited_only' = TRUE
  <2>1. dev' \in 0 .. Fan + 1 /\ is_prohibited_only' \in BOOLEAN
    BY <1>5, ShelfAssumption DEF Fan
  <2>2. Position' /\ Books' /\ Lengths'
    BY <1>1, <1>3, <1>5, <2>1 DEF Position, Books, Lengths
  <2> QED
    BY <1>1, <1>2, <2>2, TypePartsNext
<1>6. CASE \E d \in Slots, on \in BOOLEAN :
               /\ Send("SET_SHELF_STATE", d, on)
               /\ UNCHANGED <<curnt_state, worker, now_presents, is_prohibited_only>>
  <2>1. dev' \in 0 .. Fan + 1 /\ Len(dcbox') <= DCLen
    BY <1>6, Numbers, SendTyped DEF Replies
  <2>2. Position' /\ Books' /\ Lengths'
    BY <1>1, <1>3, <1>6, <2>1 DEF Position, Books, Lengths
  <2> QED
    BY <1>1, <1>2, <2>2, TypePartsNext
<1> QED
  BY <1>4, <1>5, <1>6, CalcCases

LEMMA HearTyped ==
    ASSUME TypeOK, BoxInv, BoxInv', HearState \/ HearPower \/ HearSet
    PROVE  TypeOK'
<1>0. Hear /\ dev \in Devices
  BY DEF HearState, HearPower, HearSet, Hear, Awaits, BoxInv
<1>1. /\ pmbox # <<>> /\ pmbox' = Tail(pmbox)
      /\ UNCHANGED <<fsm, worker, now_presents, powerLimitSource, conf, events, timeouts>>
      /\ clouded' \in BOOLEAN
  BY <1>0 DEF Hear, crate
<1>2. /\ pmbox \in Seq(Messages)
      /\ status \in [Devices -> Looks] /\ Position /\ Books /\ Lengths /\ Bounds
  BY DEF TypeOK, BoxesOK, Position, Books, Lengths, Bounds
<1>3. Head(pmbox) \in Messages /\ Len(pmbox') <= PMLen
  BY <1>1, <1>2, ShelfAssumption DEF Lengths
<1> DEFINE r == Head(pmbox).data
<1>4. r \in [present : BOOLEAN, on : BOOLEAN, hotswap : BOOLEAN, eeprom : BOOLEAN, power : Nat]
  BY <1>3 DEF Messages
<1>5. Bounds'
  BY <1>1, <1>2 DEF Bounds
<1>6. status[dev] \in Looks /\ status[dev].power \in Nat
  BY <1>0, <1>2 DEF Looks
<1>7. CASE HearState
  <2> DEFINE more == \/ worker = "SLOTS_READ" /\ r.present
                     \/ worker \in {"SOURCE_READ", "FAN_READ"} /\ r.present /\ r.on
             l == IF worker \in {"SLOTS_READ", "SOURCE_READ", "FAN_READ"} /\ ~more
                  THEN [Seen(dev, r) EXCEPT !.power = 0] ELSE Seen(dev, r)
  <2>1. l \in Looks
    <3>1. OnOff(r) \in {"SLOT_ON", "SLOT_OFF"} /\ Healthy(r) \in {"OK", "ERROR"}
      BY DEF OnOff, Healthy
    <3>2. r.present \in BOOLEAN
      BY <1>4
    <3>3. SlotMaxPower \in Nat
      BY ShelfAssumption
    <3> HIDE DEF r
    <3>4. Seen(dev, r) \in Looks
      <4>1. [status[dev] EXCEPT !.power = SlotMaxPower, !.passive = FALSE, !.health = "ERROR"]
               \in Looks
        BY <1>6, <3>3 DEF Looks
      <4>2. [status[dev] EXCEPT !.passive = TRUE, !.health = "OK"] \in Looks
        BY <1>6 DEF Looks
      <4>3. [status[dev] EXCEPT !.present = r.present, !.on = OnOff(r)] \in Looks
        BY <1>6, <3>1, <3>2 DEF Looks
      <4>4. [status[dev] EXCEPT !.present = r.present, !.on = OnOff(r), !.health = Healthy(r)]
               \in Looks
        BY <1>6, <3>1, <3>2 DEF Looks
      <4>5. [status[dev] EXCEPT !.present = r.present, !.on = OnOff(r), !.health = Healthy(r),
                                !.passive = FALSE] \in Looks
        BY <1>6, <3>1, <3>2 DEF Looks
      <4> QED
        BY <4>1, <4>2, <4>3, <4>4, <4>5 DEF Seen
    <3>5. [Seen(dev, r) EXCEPT !.power = 0] \in Looks
      BY <3>4 DEF Looks
    <3> QED
      BY <3>4, <3>5
  <2>2. status' = [status EXCEPT ![dev] = l]
    BY <1>7 DEF HearState
  <2>3. status' \in [Devices -> Looks]
    <3> HIDE DEF l
    <3> QED
      BY <1>2, <2>1, <2>2
  <2>4. dev' \in 0 .. Fan + 1 /\ Len(dcbox') <= DCLen
    <3>1. \/ Send("GET_SHELF_POWER", dev, FALSE)
          \/ dev' = dev + 1 /\ (UNCHANGED dcbox \/ Alarm(dev))
      BY <1>7 DEF HearState
    <3>2. CASE Send("GET_SHELF_POWER", dev, FALSE)
      BY <1>0, <3>2, SendTyped DEF Replies
    <3>3. CASE dev' = dev + 1 /\ UNCHANGED dcbox
      BY <1>0, <1>2, <3>3, NextDevice DEF Lengths
    <3>4. CASE dev' = dev + 1 /\ Alarm(dev)
      BY <1>0, <3>4, NextDevice, AlarmTyped
    <3> QED
      BY <3>1, <3>2, <3>3, <3>4
  <2>5. Position' /\ Books' /\ Lengths'
    BY <1>1, <1>2, <1>3, <1>7, <2>4 DEF HearState, fsm, Position, Books, Lengths
  <2> QED
    BY <1>5, <2>3, <2>5, TypePartsNext
<1>8. CASE HearPower
  <2>1. status' = [status EXCEPT ![dev].power = r.power] /\ r.power \in Nat
    BY <1>4, <1>8 DEF HearPower
  <2>2. [status[dev] EXCEPT !.power = r.power] \in Looks
    BY <1>6, <2>1 DEF Looks
  <2>3. status' \in [Devices -> Looks]
    BY <1>2, <2>1, <2>2
  <2>4. dev' \in 0 .. Fan + 1
    BY <1>0, <1>8, NextDevice DEF HearPower
  <2>5. Position' /\ Books' /\ Lengths'
    BY <1>1, <1>2, <1>3, <1>8, <2>4 DEF HearPower, fsm, Position, Books, Lengths
  <2> QED
    BY <1>5, <2>3, <2>5, TypePartsNext
<1>9. CASE HearSet
  <2>1. status' = [status EXCEPT ![dev].on = OnOff(r)] /\ OnOff(r) \in {"SLOT_ON", "SLOT_OFF"}
    BY <1>9 DEF HearSet, OnOff
  <2>2. [status[dev] EXCEPT !.on = OnOff(r)] \in Looks
    BY <1>6, <2>1 DEF Looks
  <2>3. status' \in [Devices -> Looks]
    BY <1>2, <2>1, <2>2
  <2>4. NSlots \in 0 .. Fan + 1
    BY ShelfAssumption DEF Fan
  <2>5. dev' \in {NSlots, dev + 1}
    BY <1>9 DEF HearSet
  <2>6. dev' \in 0 .. Fan + 1
    BY <1>0, <2>4, <2>5, NextDevice
  <2>7. /\ actualAvailablePowerLimit' \in {actualAvailablePowerLimit - recuredPower,
                                           actualAvailablePowerLimit - 0}
        /\ power_slots_now' \in {power_slots_now + status[dev].power,
                                 power_slots_now - status[dev].power, power_slots_now}
        /\ recuredPower' \in {recuredPower - status[dev].power, recuredPower}
        /\ UNCHANGED <<dcbox, is_prohibited_only>>
    BY <1>9 DEF HearSet
  <2>8. Books'
    BY <1>1, <1>2, <1>6, <2>7 DEF Books
  <2>9. Position' /\ Lengths'
    BY <1>1, <1>2, <1>3, <2>6, <2>7 DEF fsm, Position, Lengths
  <2> QED
    BY <1>5, <2>3, <2>8, <2>9, TypePartsNext
<1> QED
  BY <1>7, <1>8, <1>9

LEMMA GivingUpTyped ==
    ASSUME TypeOK, BoxInv, BoxInv', Interrupted \/ Unanswered
    PROVE  TypeOK'
<1>1. /\ pmbox \in Seq(Messages)
      /\ status \in [Devices -> Looks] /\ Position /\ Books /\ Lengths /\ Bounds
  BY DEF TypeOK, BoxesOK, Position, Books, Lengths, Bounds
<1>2. dev \in Devices /\ clouded' = TRUE
  BY DEF Interrupted, Unanswered, Awaits, BoxInv
<1>3. clouded' \in BOOLEAN
  BY <1>2
<1>4. CASE Interrupted
  <2>1. /\ UNCHANGED <<target, status, books, dcbox, conf, events, timeouts>>
        /\ pmbox # <<>> /\ pmbox' = Tail(pmbox)
    BY <1>4 DEF Interrupted, crate
  <2>2. /\ curnt_signal' \in Signals
        /\ inauto_signal' \in {"STATIC", "CRATECHANGE", "PROFILECHANGE"}
    BY <1>1, <1>4, SignalType DEF Interrupted, Position
  <2>3. /\ curnt_state' \in States /\ worker' \in States \cup {"none"}
        /\ dev' \in 0 .. Fan + 1 /\ now_presents' \in SUBSET Slots
    <3>1. CASE Finish
      BY <3>1, FinishTyped
    <3>2. CASE dev' = 2 /\ UNCHANGED <<curnt_state, worker, now_presents>>
      <4>1. 2 \in 0 .. Fan + 1
        BY ShelfAssumption DEF Fan
      <4> QED
        BY <1>1, <3>2, <4>1 DEF Position
    <3> QED
      BY <1>4, <3>1, <3>2 DEF Interrupted
  <2>4. Position' /\ Books' /\ Lengths' /\ Bounds'
    BY <1>1, <1>3, <2>1, <2>2, <2>3, ShelfAssumption DEF Position, Books, books, Lengths, Bounds
  <2> QED
    BY <1>1, <2>1, <2>4, TypePartsNext
<1>5. CASE Unanswered
  <2>1. /\ UNCHANGED <<fsm, worker, now_presents, books, pmbox, conf, events>>
        /\ timeouts < MaxTimeouts /\ timeouts' = timeouts + 1
    BY <1>5 DEF Unanswered, crate
  <2>2. timeouts' \in 0 .. MaxTimeouts
    BY <1>1, <2>1, ShelfAssumption DEF Bounds
  <2>3. dev' \in 0 .. Fan + 1
    <3>1. NSlots \in 0 .. Fan + 1
      BY ShelfAssumption DEF Fan
    <3>2. dev' \in {NSlots, dev - 1, dev + 1}
      BY <1>5 DEF Unanswered
    <3> QED
      BY <1>2, <3>1, <3>2, NextDevice
  <2>4. status' \in [Devices -> Looks]
    <3>1. status[dev] \in Looks /\ SlotMaxPower \in Nat /\ FanMaxPower \in Nat
      BY <1>1, <1>2, ShelfAssumption
    <3>2. /\ [status[dev] EXCEPT !.power = FanMaxPower] \in Looks
          /\ [status[dev] EXCEPT !.power = SlotMaxPower, !.passive = FALSE, !.health = "ERROR"]
                \in Looks
          /\ [status[dev] EXCEPT !.health = "ERROR"] \in Looks
          /\ [status[dev] EXCEPT !.present = FALSE, !.power = 0] \in Looks
          /\ [status[dev] EXCEPT !.power = 0] \in Looks
      BY <3>1 DEF Looks
    <3>3. \E l \in Looks : status' = [status EXCEPT ![dev] = l]
      <4>1. status' = [status EXCEPT ![dev] =
                CASE worker = "FAN_READ" -> [status[dev] EXCEPT !.power = FanMaxPower]
                  [] worker = "PASSIVE_CHECK" -> [status[dev] EXCEPT !.power = SlotMaxPower,
                                                     !.passive = FALSE, !.health = "ERROR"]
                  [] worker \in {"PROHIBITED", "SMARTSTART"} ->
                        [status[dev] EXCEPT !.health = "ERROR"]
                  [] worker = "SLOTS_READ" /\ ask = "GET_SHELF_STATE" ->
                        [status[dev] EXCEPT !.present = FALSE, !.power = 0]
                  [] OTHER -> [status[dev] EXCEPT !.power = 0]]
        BY <1>1, <1>2, <1>5 DEF Unanswered
      <4> QED
        BY <3>2, <4>1
    <3> QED
      BY <1>1, <3>3
  <2>5. Len(dcbox') <= DCLen
    <3>1. Alarm(dev) \/ UNCHANGED dcbox
      BY <1>5 DEF Unanswered
    <3> QED
      BY <1>1, <1>2, <3>1, AlarmTyped DEF Lengths
  <2>6. Position' /\ Books' /\ Lengths' /\ Bounds'
    BY <1>1, <1>3, <2>1, <2>2, <2>3, <2>5 DEF fsm, Position, Books, books, Lengths, Bounds
  <2> QED
    BY <2>4, <2>6, TypePartsNext
<1> QED
  BY <1>4, <1>5

\* The controller and the crate leave all of the manager's variables alone.
LEMMA OutsideTyped ==
    ASSUME TypeOK, BoxInv', UNCHANGED <<fsm, worker, dev, ask, now_presents, status, books>>,
           Len(dcbox') <= DCLen, Len(pmbox') <= PMLen, Bounds'
    PROVE  TypeOK'
<1>1. Position' /\ Books' /\ Lengths'
  BY DEF TypeOK, fsm, books, Position, Books, Lengths
<1>2. status' \in [Devices -> Looks]
  BY DEF TypeOK
<1> QED
  BY <1>1, <1>2, TypePartsNext

LEMMA NotifyTyped ==
    ASSUME TypeOK, NEW msg \in Notices, Notify(msg)
    PROVE  Len(pmbox') <= PMLen /\ clouded' \in BOOLEAN
<1> DEFINE m == Notice(msg)
<1>1. m \in Messages
  BY MessageType
<1>2. pmbox' = Posted(pmbox, PMLen, m) /\ clouded' \in BOOLEAN
  BY DEF Notify
<1>3. pmbox \in Seq(Messages) /\ Len(pmbox) <= PMLen /\ PMLen \in Nat
  BY ShelfAssumption DEF TypeOK, BoxesOK
<1> HIDE DEF m
<1> QED
  BY <1>1, <1>2, <1>3, PostedLength

LEMMA ServeTyped ==
    ASSUME TypeOK, BoxInv, BoxInv', Serve
    PROVE  TypeOK'
<1>1. /\ pmbox \in Seq(Messages) /\ dcbox \in Seq(Messages) /\ Lengths /\ Bounds
      /\ PMLen \in Nat /\ DCLen \in Nat /\ pmbox' \in Seq(Messages)
  BY ShelfAssumption DEF TypeOK, BoxesOK, Lengths, Bounds, BoxInv
<1>2. /\ dcbox # <<>> /\ dcbox' = Tail(dcbox)
      /\ UNCHANGED <<fsm, worker, dev, ask, now_presents, status, books, conf, events, timeouts>>
  BY DEF Serve
<1>3. Len(dcbox') <= DCLen
  BY <1>1, <1>2 DEF Lengths
<1>4. Len(pmbox') <= PMLen /\ clouded' \in BOOLEAN
  <2>1. CASE Notify("SHELF_POWER_RECALC")
    BY <2>1, NotifyTyped DEF Notices
  <2>2. CASE UNCHANGED pmbox /\ UNCHANGED clouded
    BY <1>1, <2>2 DEF Lengths, Bounds
  <2>3. CASE (\E m : pmbox' = Posted(pmbox, PMLen, m)) /\ UNCHANGED clouded
    <3>1. Len(pmbox) <= PMLen => Len(pmbox') <= PMLen
      BY <1>1, <2>3 DEF Posted
    <3> QED
      BY <1>1, <2>3, <3>1 DEF Lengths, Bounds
  <2> QED
    BY <2>1, <2>2, <2>3 DEF Serve, ServeGetState, ServeSetState, ServeGetPower
<1>5. Bounds'
  BY <1>1, <1>2, <1>4 DEF Bounds
<1> QED
  BY <1>2, <1>3, <1>4, <1>5, OutsideTyped

LEMMA EventTyped ==
    ASSUME TypeOK, BoxInv, BoxInv',
           \/ \E d \in Slots \cup {Fan} : Replug(d)
           \/ \E p \in Sources : PowerSupply(p)
           \/ \E d \in Slots, c \in Confs : ProfileChange(d, c)
           \/ EepromRewritten
    PROVE  TypeOK'
<1>1. Lengths /\ Bounds /\ DCLen \in Nat /\ dcbox \in Seq(Messages)
  BY ShelfAssumption DEF TypeOK, BoxesOK, Lengths, Bounds
<1>2. /\ UNCHANGED <<fsm, worker, dev, ask, now_presents, status, books, timeouts>>
      /\ events < MaxEvents /\ events' = events + 1
  BY DEF Replug, PowerSupply, ProfileChange, EepromRewritten, Event
<1>3. events' \in 0 .. MaxEvents
  BY <1>1, <1>2, ShelfAssumption DEF Bounds
<1>4. conf' \in [Slots -> Confs]
  BY <1>1 DEF Replug, PowerSupply, ProfileChange, EepromRewritten, Bounds
<1>5. clouded' \in BOOLEAN /\ Len(pmbox') <= PMLen
  <2>1. CASE \E msg \in Notices : Notify(msg)
    BY <2>1, NotifyTyped
  <2>2. CASE UNCHANGED pmbox /\ clouded' \in BOOLEAN
    BY <1>1, <2>2 DEF Lengths
  <2>3. ASSUME NEW d, Replug(d) PROVE (\E msg \in Notices : Notify(msg)) \/ (UNCHANGED pmbox /\ clouded' \in BOOLEAN)
    BY <2>3 DEF Replug, Notices
  <2>4. ASSUME NEW p, PowerSupply(p) PROVE (\E msg \in Notices : Notify(msg)) \/ (UNCHANGED pmbox /\ clouded' \in BOOLEAN)
    BY <2>4 DEF PowerSupply, Notices
  <2> QED
    BY <2>1, <2>2, <2>3, <2>4 DEF ProfileChange, EepromRewritten, Notices
<1>6. Len(dcbox') <= DCLen
  <2> DEFINE n == Notice("PSU_VALUES")
  <2>1. n \in Messages
    BY MessageType
  <2>2. dcbox' = dcbox \/ dcbox' = Posted(dcbox, DCLen, n)
    BY DEF Replug, PowerSupply, ProfileChange, EepromRewritten
  <2> HIDE DEF n
  <2> QED
    BY <1>1, <2>1, <2>2, PostedLength DEF Lengths
<1>7. Bounds'
  BY <1>1, <1>2, <1>3, <1>4, <1>5 DEF Bounds
<1> QED
  BY <1>2, <1>5, <1>6, <1>7, OutsideTyped

-----------------------------------------------------------------------------
(* Where the loops stand, and which signal is current: parts of PassInv that  *)
(* hold also while the pass is clouded                                        *)

LEMMA FlowInit == Init => Flow /\ BalanceSignal /\ Seated
<1> SUFFICES ASSUME Init PROVE Flow /\ BalanceSignal /\ Seated
  OBVIOUS
<1>1. AtSignal /\ worker = "none" /\ ask = "none" /\ dev = 0
  BY DEF Init, AtSignal
<1>2. 0 \in 0 .. Fan + 1
  BY Numbers
<1>3. Flow
  BY <1>1, <1>2 DEF Flow, AtSignal
<1>4. BalanceSignal
  BY DEF Init, BalanceSignal
<1>5. Seated
  BY Numbers DEF Init, Seated
<1> QED
  BY <1>3, <1>4, <1>5

\* At a signal nothing is asked and the loop's index does not matter.
LEMMA FlowAtSignal ==
    ASSUME worker' = "none", ask' = "none", dev' \in 0 .. Fan + 1
    PROVE  Flow'
  BY DEF Flow, AtSignal

\* A worker's loop never leaves its devices by more than one.
LoopRange(w) == CASE w = "SOURCE_READ" -> NSlots + 1 .. Fan
                  [] w = "FAN_READ"    -> {Fan, Fan + 1}
                  [] w = "PROHIBITED"  -> 0 .. NSlots + 1
                  [] OTHER             -> 1 .. NSlots + 1

LEMMA FlowWorker ==
    ASSUME worker' \notin {"none", "INIT", "FAN_ON", "READY"},
           target' = worker' \/ (worker' = "POWER_DELAY" /\ target' = "INIT"),
           dev' \in LoopRange(worker'),
           ask' # "none" => dev' \in DevicesOf(worker'),
           ask' = "GET_SHELF_POWER" => worker' \in ReadWorkers,
           ask' = "SET_SHELF_STATE" => worker' \in SetWorkers,
           ask' = "GET_SHELF_STATE" => worker' \in ReadWorkers \cup {"GETSLOTSSTATE", "PASSIVE_CHECK"}
    PROVE  Flow'
  BY DEF Flow, AtSignal, LoopRange

LEMMA LoopRanges ==
    ASSUME Flow, worker # "none"
    PROVE  /\ dev \in LoopRange(worker)
           /\ worker \notin {"INIT", "FAN_ON", "READY"}
           /\ target = worker \/ (worker = "POWER_DELAY" /\ target = "INIT")
  BY DEF Flow, AtSignal, LoopRange

LEMMA LoopTurns ==
    ASSUME NEW w, NEW d \in DevicesOf(w)
    PROVE  /\ d \in LoopRange(w) /\ d + 1 \in LoopRange(w)
           /\ w = "PROHIBITED" => d - 1 \in LoopRange(w)
<1>1. CASE w = "SOURCE_READ"
  BY <1>1, ShelfAssumption DEF DevicesOf, LoopRange, Sources, Fan
<1>2. CASE w = "FAN_READ"
  BY <1>2, ShelfAssumption DEF DevicesOf, LoopRange, Fan
<1>3. CASE w = "POWER_RESRV_CALC"
  BY <1>3 DEF DevicesOf
<1>4. CASE w \notin {"SOURCE_READ", "FAN_READ", "POWER_RESRV_CALC"}
  BY <1>4, ShelfAssumption DEF DevicesOf, LoopRange, Slots
<1> QED
  BY <1>1, <1>2, <1>3, <1>4

LEMMA FlowTransition ==
    ASSUME TypeOK, BoxInv, Flow, BalanceSignal,
           WaitForNotice \/ WaitOutDelay \/ WeighPower \/ LeaveSmartStart \/ PollNotice
    PROVE  Flow' /\ BalanceSignal'
<1>1. PICK sg \in Signals :
        /\ AtSignal /\ Transition(sg) /\ Listed(curnt_state, sg)
        /\ sg \in {"POW_POSITIVE", "POW_NEGATIVE"} => curnt_state = "PROHIBITED"
  BY Taken
<1> DEFINE w == WorkerOf(curnt_state, sg)
           n == NewState(curnt_state, sg)
<1>2. /\ curnt_state \in States /\ worker = "none" /\ ask = "none" /\ dev \in 0 .. Fan + 1
  BY <1>1 DEF TypeOK, AtSignal, BoxInv
<1>3. /\ n \in States /\ w \in States \cup {"none"}
      /\ w \notin {"INIT", "FAN_ON", "READY"}
      /\ w # "none" => w = n \/ (w = "POWER_DELAY" /\ n = "INIT")
  BY <1>1, <1>2, Steps
<1>4. /\ curnt_signal' = sg /\ target' = n /\ ask' = ask
      /\ \/ w = "none" /\ curnt_state' = n /\ worker' = "none" /\ UNCHANGED dev
         \/ w # "none" /\ worker' = w /\ Begin(w) /\ UNCHANGED curnt_state
  BY <1>1 DEF Transition
<1>5. curnt_state = "PROHIBITED" /\ sg \in {"POW_POSITIVE", "POW_NEGATIVE"} =>
        (w = "SMARTSTART" \/ (w = "none" /\ n = "READY"))
  BY <1>1, BalanceRows DEF WorkerOf
<1> HIDE DEF w, n
<1>6. CASE w = "none"
  <2>1. Flow'
    BY <1>2, <1>4, <1>6, FlowAtSignal
  <2>2. BalanceSignal'
    BY <1>1, <1>4, <1>5, <1>6 DEF BalanceSignal, AtSignal
  <2> QED
    BY <2>1, <2>2
<1>7. CASE w # "none"
  <2>1. dev' = CASE w = "SOURCE_READ" -> NSlots + 1
                 [] w = "FAN_READ"    -> Fan
                 [] w = "PROHIBITED"  -> NSlots
                 [] OTHER -> 1
    BY <1>4, <1>7 DEF Begin
  <2>2. dev' \in LoopRange(w)
    <3>1. /\ NSlots + 1 \in NSlots + 1 .. Fan /\ NSlots \in 0 .. NSlots + 1
          /\ 1 \in 1 .. NSlots + 1 /\ Fan \in {Fan, Fan + 1}
      BY ShelfAssumption DEF Fan
    <3> QED
      BY <2>1, <3>1, Zenon DEF LoopRange
  <2>3. worker' = w /\ ask' = "none" /\ target' = n
    BY <1>2, <1>4, <1>7
  <2>4. Flow'
    BY <1>3, <1>7, <2>2, <2>3, FlowWorker
  <2>5. BalanceSignal'
    BY <1>1, <1>4, <1>5, <1>7 DEF BalanceSignal, AtSignal
  <2> QED
    BY <2>4, <2>5
<1> QED
  BY <1>6, <1>7

\* The steps of a worker leave a signal of the balance alone, or there is none.
LEMMA SignalStays ==
    ASSUME TypeOK, BalanceSignal, worker # "none",
           \/ UNCHANGED curnt_signal
           \/ worker = "FAN_READ" /\ \E m : curnt_signal' = SignalOf(m, curnt_signal),
           \/ UNCHANGED <<worker, curnt_state>>
           \/ worker' = "none" /\ curnt_state' = target,
           target = worker \/ (worker = "POWER_DELAY" /\ target = "INIT")
    PROVE  BalanceSignal'
<1>1. CASE curnt_signal \in {"POW_POSITIVE", "POW_NEGATIVE"}
  <2>1. worker = "SMARTSTART" /\ curnt_state = "PROHIBITED"
    BY <1>1 DEF BalanceSignal, AtSignal
  <2> QED
    BY <2>1 DEF BalanceSignal, AtSignal
<1>2. CASE curnt_signal \notin {"POW_POSITIVE", "POW_NEGATIVE"}
  <2>1. curnt_signal' \notin {"POW_POSITIVE", "POW_NEGATIVE"}
    BY <1>2 DEF SignalOf
  <2> QED
    BY <2>1 DEF BalanceSignal
<1> QED
  BY <1>1, <1>2

LEMMA ScanFlows ==
    ASSUME TypeOK, BoxInv, Flow, BalanceSignal, Scan
    PROVE  Flow' /\ BalanceSignal'
<1>1. /\ worker # "none" /\ ask = "none" /\ worker # "PROHIBITED"
      /\ UNCHANGED <<curnt_signal, target>>
      /\ dev \in LoopRange(worker)
      /\ worker \notin {"INIT", "FAN_ON", "READY"}
      /\ target = worker \/ (worker = "POWER_DELAY" /\ target = "INIT")
      /\ worker \in States \cup {"none"}
  BY LoopRanges DEF Scan, InWorker, TypeOK
<1>2. CASE Finish /\ UNCHANGED <<ask, status, recuredPower, dcbox>>
  <2>1. worker' = "none" /\ curnt_state' = target /\ ask' = "none" /\ dev' \in 0 .. Fan + 1
    BY <1>1, <1>2, FinishTyped DEF Finish
  <2> QED
    BY <1>1, <2>1, FlowAtSignal, SignalStays
<1>3. CASE ~(Finish /\ UNCHANGED <<ask, status, recuredPower, dcbox>>)
  <2>1. /\ dev \in DevicesOf(worker)
        /\ \/ Send(IF worker \in {"POWER_DELAY", "POWEROFF_IGNORANT", "SMARTSTART"}
                   THEN "SET_SHELF_STATE" ELSE "GET_SHELF_STATE", dev, worker = "SMARTSTART")
           \/ dev' = dev + 1 /\ UNCHANGED <<ask, dcbox>>
        /\ UNCHANGED <<curnt_state, worker>>
    BY <1>3 DEF Scan
  <2>2. dev' \in {dev, dev + 1} /\ (ask' # "none" => dev' = dev)
    BY <1>1, <2>1 DEF Send
  <2>3. dev' \in LoopRange(worker)
    BY <2>1, <2>2, LoopTurns
  <2>4. worker # "POWER_RESRV_CALC"
    BY <2>1 DEF DevicesOf
  <2>5. /\ ask' = "none" \/ ask' = IF worker \in {"POWER_DELAY", "POWEROFF_IGNORANT", "SMARTSTART"}
                                   THEN "SET_SHELF_STATE" ELSE "GET_SHELF_STATE"
    BY <1>1, <2>1 DEF Send
  <2>6. /\ ask' = "SET_SHELF_STATE" => worker \in SetWorkers
        /\ ask' = "GET_SHELF_STATE" => worker \in ReadWorkers \cup {"GETSLOTSSTATE", "PASSIVE_CHECK"}
        /\ ask' # "GET_SHELF_POWER"
    BY <1>1, <2>4, <2>5, StateNames DEF SetWorkers, ReadWorkers
  <2> QED
    BY <1>1, <2>1, <2>2, <2>3, <2>6, FlowWorker, SignalStays
<1> QED
  BY <1>2, <1>3

LEMMA CalcFlows ==
    ASSUME TypeOK, BoxInv, Flow, BalanceSignal, CalcProhib
    PROVE  Flow' /\ BalanceSignal'
<1>1. /\ worker = "PROHIBITED" /\ ask = "none" /\ target = worker
      /\ UNCHANGED <<curnt_signal, target>>
  BY LoopRanges DEF CalcProhib, InWorker
<1>2. CASE Finish /\ UNCHANGED ask
  <2>1. worker' = "none" /\ curnt_state' = target /\ ask' = "none" /\ dev' \in 0 .. Fan + 1
    BY <1>1, <1>2, FinishTyped DEF Finish
  <2> QED
    BY <1>1, <2>1, FlowAtSignal, SignalStays
<1>3. CASE dev' = NSlots /\ UNCHANGED <<curnt_state, worker, ask>>
  <2>1. dev' \in LoopRange(worker)
    BY <1>1, <1>3, ShelfAssumption DEF LoopRange
  <2> QED
    BY <1>1, <1>3, <2>1, FlowWorker, SignalStays
<1>4. CASE \E d \in Slots, on \in BOOLEAN :
              Send("SET_SHELF_STATE", d, on) /\ UNCHANGED <<curnt_state, worker>>
  <2>1. dev' \in Slots /\ ask' = "SET_SHELF_STATE" /\ UNCHANGED <<curnt_state, worker>>
    BY <1>4 DEF Send
  <2>2. dev' \in DevicesOf(worker) /\ dev' \in LoopRange(worker) /\ worker \in SetWorkers
    BY <1>1, <2>1, LoopTurns DEF DevicesOf, SetWorkers
  <2> QED
    BY <1>1, <2>1, <2>2, FlowWorker, SignalStays
<1> QED
  BY <1>2, <1>3, <1>4, CalcCases

LEMMA HearFlows ==
    ASSUME TypeOK, BoxInv, Flow, BalanceSignal, HearState \/ HearPower \/ HearSet
    PROVE  Flow' /\ BalanceSignal'
<1>1. /\ Hear /\ UNCHANGED <<curnt_state, curnt_signal, target, worker>>
      /\ worker # "none" /\ ask # "none"
  BY DEF HearState, HearPower, HearSet, Hear, Awaits, fsm
<1>2. /\ dev \in DevicesOf(worker)
      /\ worker \notin {"INIT", "FAN_ON", "READY"}
      /\ target = worker \/ (worker = "POWER_DELAY" /\ target = "INIT")
  BY <1>1, LoopRanges DEF Flow
<1>3. /\ dev + 1 \in LoopRange(worker) /\ dev \in LoopRange(worker)
      /\ worker = "PROHIBITED" => NSlots \in LoopRange(worker)
  BY <1>2, LoopTurns, ShelfAssumption DEF LoopRange
<1>4. \/ ask' = "none" /\ dev' = dev + 1
      \/ ask' = "none" /\ worker = "PROHIBITED" /\ dev' = NSlots
      \/ ask' = "GET_SHELF_POWER" /\ dev' = dev /\ worker \in ReadWorkers
  BY DEF HearState, HearPower, HearSet, Send, ReadWorkers
<1>5. Flow'
  BY <1>1, <1>2, <1>3, <1>4, FlowWorker
<1>6. BalanceSignal'
  BY <1>1, <1>2, SignalStays
<1> QED
  BY <1>5, <1>6

LEMMA GivingUpFlows ==
    ASSUME TypeOK, BoxInv, Flow, BalanceSignal, Interrupted \/ Unanswered
    PROVE  Flow' /\ BalanceSignal'
<1>1. /\ worker # "none" /\ ask # "none" /\ ask' = "none" /\ UNCHANGED target
  BY DEF Interrupted, Unanswered, Awaits, fsm
<1>2. /\ dev \in DevicesOf(worker)
      /\ worker \notin {"INIT", "FAN_ON", "READY"}
      /\ target = worker \/ (worker = "POWER_DELAY" /\ target = "INIT")
  BY <1>1, LoopRanges DEF Flow
<1>3. \/ UNCHANGED curnt_signal
      \/ worker = "FAN_READ" /\ \E m : curnt_signal' = SignalOf(m, curnt_signal)
  BY DEF Interrupted, Unanswered, fsm
<1>4. CASE Finish
  <2>1. worker' = "none" /\ curnt_state' = target /\ dev' \in 0 .. Fan + 1
    BY <1>4, FinishTyped DEF Finish
  <2> QED
    BY <1>1, <1>2, <1>3, <2>1, FlowAtSignal, SignalStays
<1>5. CASE UNCHANGED <<curnt_state, worker>> /\ dev' \in LoopRange(worker)
  BY <1>1, <1>2, <1>3, <1>5, FlowWorker, SignalStays
<1>6. CASE worker = "GETSLOTSSTATE" /\ dev' = 2 /\ UNCHANGED <<curnt_state, worker>>
  <2>1. dev' \in LoopRange(worker)
    BY <1>6, ShelfAssumption DEF LoopRange
  <2> QED
    BY <1>5, <1>6, <2>1
<1>7. CASE Unanswered
  <2>1. /\ dev + 1 \in LoopRange(worker)
        /\ worker = "PROHIBITED" => NSlots \in LoopRange(worker) /\ dev - 1 \in LoopRange(worker)
    BY <1>2, LoopTurns, ShelfAssumption DEF LoopRange
  <2>2. dev' \in LoopRange(worker) /\ UNCHANGED <<curnt_state, worker>>
    BY <1>7, <2>1 DEF Unanswered, fsm
  <2> QED
    BY <1>5, <2>2
<1> QED
  BY <1>4, <1>6, <1>7 DEF Interrupted

LEMMA OutsideFlows ==
    ASSUME Flow, BalanceSignal, UNCHANGED <<fsm, worker, dev, ask>>
    PROVE  Flow' /\ BalanceSignal'
<1>1. UNCHANGED <<curnt_state, curnt_signal, target, worker, dev, ask>>
  BY DEF fsm
<1>2. Flow'
  BY <1>1 DEF Flow, AtSignal
<1>3. BalanceSignal'
  BY <1>1 DEF BalanceSignal, AtSignal
<1> QED
  BY <1>2, <1>3

LEMMA SeatedStep ==
    ASSUME TypeOK, BoxInv, Seated, [Next]_vars
    PROVE  Seated'
<1>1. /\ plugged \in [Devices -> BOOLEAN] /\ powered \in [Devices -> BOOLEAN]
      /\ Slots \subseteq Devices /\ Fan \in Devices
  BY Numbers DEF BoxInv
<1>2. CASE UNCHANGED <<plugged, powered>>
  BY <1>2 DEF Seated
<1>3. CASE Serve
  <2>1. plugged' = plugged
    BY <1>3 DEF Serve
  <2>2. \/ powered' = powered
        \/ \E d, on : powered' = [powered EXCEPT ![d] = IF plugged[d] THEN on ELSE @]
    BY <1>3 DEF Serve, ServeGetState, ServeSetState, ServeGetPower
  <2> QED
    BY <1>1, <2>1, <2>2 DEF Seated
<1>4. CASE \E d \in Slots \cup {Fan} : Replug(d)
  <2>1. PICK d \in Slots \cup {Fan} : Replug(d)
    BY <1>4
  <2>2. PICK on \in BOOLEAN : /\ IF d = Fan THEN on = plugged'[d] ELSE on => plugged'[d] /\ d \in Hotswap
                              /\ powered' = [powered EXCEPT ![d] = on]
    BY <2>1 DEF Replug
  <2>3. on => plugged'[d]
    BY <2>2
  <2>4. /\ \A e \in Slots \cup {Fan} : e # d => plugged'[e] = plugged[e] /\ powered'[e] = powered[e]
        /\ powered'[d] = on
    BY <1>1, <2>1, <2>2 DEF Replug
  <2> QED
    BY <2>3, <2>4 DEF Seated
<1>5. CASE \E p \in Sources : PowerSupply(p)
  <2>1. PICK p \in Sources : PowerSupply(p)
    BY <1>5
  <2>2. p \notin Slots \cup {Fan}
    BY ShelfAssumption DEF Sources, Slots, Fan
  <2>3. \A e \in Slots \cup {Fan} : plugged'[e] = plugged[e] /\ powered'[e] = powered[e]
    BY <1>1, <2>1, <2>2 DEF PowerSupply
  <2> QED
    BY <2>3 DEF Seated
<1>6. CASE Manager \/ Unanswered
  <2>1. UNCHANGED crate
    BY <1>6 DEF Manager, Unanswered, WaitForNotice, WaitOutDelay, WeighPower, LeaveSmartStart,
                PollNotice, Transition, Scan, CalcProhib, HearState, HearPower, HearSet, Hear,
                Interrupted
  <2> QED
    BY <1>2, <2>1 DEF crate
<1>7. CASE (\E d \in Slots, c \in Confs : ProfileChange(d, c)) \/ EepromRewritten
  BY <1>2, <1>7 DEF ProfileChange, EepromRewritten
<1>8. CASE UNCHANGED vars
  BY <1>2, <1>8 DEF vars, crate
<1> QED
  BY <1>3, <1>4, <1>5, <1>6, <1>7, <1>8 DEF Next

Frame == TypeOK /\ BoxInv /\ Flow /\ BalanceSignal /\ Seated

LEMMA FrameStep == Frame /\ [Next]_vars => Frame'
<1> SUFFICES ASSUME Frame, [Next]_vars PROVE Frame'
  OBVIOUS
<1>1. BoxInv'
  BY BoxStep DEF Frame
<1>2. Seated'
  BY SeatedStep DEF Frame
<1>3. CASE WaitForNotice \/ WaitOutDelay \/ WeighPower \/ LeaveSmartStart \/ PollNotice
  BY <1>1, <1>2, <1>3, TransitionTyped, FlowTransition DEF Frame
<1>4. CASE Scan
  BY <1>1, <1>2, <1>4, ScanTyped, ScanFlows DEF Frame
<1>5. CASE CalcProhib
  BY <1>1, <1>2, <1>5, CalcTyped, CalcFlows DEF Frame
<1>6. CASE HearState \/ HearPower \/ HearSet
  BY <1>1, <1>2, <1>6, HearTyped, HearFlows DEF Frame
<1>7. CASE Interrupted \/ Unanswered
  BY <1>1, <1>2, <1>7, GivingUpTyped, GivingUpFlows DEF Frame
<1>8. CASE Serve
  <2>1. UNCHANGED <<fsm, worker, dev, ask>>
    BY <1>8 DEF Serve
  <2> QED
    BY <1>1, <1>2, <1>8, <2>1, ServeTyped, OutsideFlows DEF Frame
<1>9. CASE \/ \E d \in Slots \cup {Fan} : Replug(d)
           \/ \E p \in Sources : PowerSupply(p)
           \/ \E d \in Slots, c \in Confs : ProfileChange(d, c)
           \/ EepromRewritten
  <2>1. UNCHANGED <<fsm, worker, dev, ask>>
    BY <1>9 DEF Replug, PowerSupply, ProfileChange, EepromRewritten, Event
  <2> QED
    BY <1>1, <1>2, <1>9, <2>1, EventTyped, OutsideFlows DEF Frame
<1>10. CASE UNCHANGED vars
  <2>1. UNCHANGED <<fsm, worker, dev, ask>>
    BY <1>10 DEF vars
  <2>2. TypeOK'
    BY <1>10 DEF vars, fsm, books, crate, Frame, TypeOK, BoxesOK
  <2> QED
    BY <1>1, <1>2, <2>1, <2>2, OutsideFlows DEF Frame
<1> QED
  BY <1>3, <1>4, <1>5, <1>6, <1>7, <1>8, <1>9, <1>10 DEF Next, Manager

\* What holds at any time, clouded or not: the types, the mailboxes, the states
\* that loops and signals belong to.  It is the frame of all that follows.
THEOREM FrameInvariant == Spec => []Frame
<1>1. Init => Frame
  BY TypeInit, BoxInit, FlowInit DEF Frame
<1> QED
  BY <1>1, FrameStep, PTL DEF Spec

\* The types of the manager's state: its states and signals are those of the
\* table, its loop index never leaves the devices, and no mailbox holds more
\* than its length, whatever is interrupted, lost or late.
THEOREM Typing == Spec => []TypeOK
<1>1. Frame => TypeOK
  BY DEF Frame
<1> QED
  BY <1>1, FrameInvariant, PTL

LEMMA OnlyListed ==
    ASSUME Frame, [Next]_vars, AtSignal,
           <<curnt_signal, worker, curnt_state>>' # <<curnt_signal, worker, curnt_state>>
    PROVE  Listed(curnt_state, curnt_signal')
<1>1. ask = "none"
  BY DEF Frame, Flow
<1>2. WaitForNotice \/ WaitOutDelay \/ WeighPower \/ LeaveSmartStart \/ PollNotice
  <2>1. ~(Scan \/ CalcProhib \/ HearState \/ HearPower \/ HearSet \/ Interrupted \/ Unanswered)
    BY <1>1 DEF AtSignal, Scan, CalcProhib, InWorker, HearState, HearPower, HearSet, Hear,
                Interrupted, Unanswered, Awaits
  <2>2. ~(\/ Serve
          \/ \E d \in Slots \cup {Fan} : Replug(d)
          \/ \E p \in Sources : PowerSupply(p)
          \/ \E d \in Slots, c \in Confs : ProfileChange(d, c)
          \/ EepromRewritten
          \/ UNCHANGED vars)
    BY DEF Serve, Replug, PowerSupply, ProfileChange, EepromRewritten, Event, vars, fsm
  <2> QED
    BY <2>1, <2>2 DEF Next, Manager
<1>3. PICK sg \in Signals : Transition(sg) /\ Listed(curnt_state, sg)
  BY <1>2, Taken DEF Frame
<1>4. curnt_signal' = sg
  BY <1>3 DEF Transition
<1> QED
  BY <1>3, <1>4

\* The state machine never takes an entry the initializer of
\* powermang_trans_table leaves out, whatever happens to the crate, whatever is
\* lost and however long it runs.
THEOREM TableIsComplete == Spec => NoUnlistedEntry
<1>1. Frame /\ [Next]_vars =>
        (AtSignal /\ <<curnt_signal, worker, curnt_state>>' # <<curnt_signal, worker, curnt_state>>
            => Listed(curnt_state, curnt_signal'))
  BY OnlyListed
<1> QED
  BY <1>1, FrameInvariant, PTL DEF Spec, NoUnlistedEntry

-----------------------------------------------------------------------------
(* A notice about the profile is the first thing the manager sees *)

NoProfile(pm) == \A i \in DOMAIN pm : pm[i].msg # "PROF_POWER_RECALC"

LEMMA NoProfileFirst == NoProfile(pmbox') => ProfileNoticeFirst'
  BY DEF NoProfile, ProfileNoticeFirst

LEMMA FirstTail ==
    ASSUME BoxInv, ProfileNoticeFirst, pmbox # <<>>
    PROVE  NoProfile(Tail(pmbox))
<1>1. pmbox \in Seq(Messages)
  BY DEF BoxInv, BoxesOK
<1>2. \A i \in DOMAIN Tail(pmbox) :
         i \in Nat \ {0} /\ i + 1 \in DOMAIN pmbox /\ Tail(pmbox)[i] = pmbox[i + 1]
  BY <1>1, TailFacts
<1>3. \A i \in DOMAIN Tail(pmbox) : i + 1 # 1
  BY <1>2
<1> QED
  BY <1>2, <1>3 DEF ProfileNoticeFirst, NoProfile

LEMMA FirstManager ==
    ASSUME Frame, ProfileNoticeFirst, inauto_signal = "STATIC", Manager, ~clouded'
    PROVE  NoProfile(pmbox')
<1>1. BoxInv /\ pmbox \in Seq(Messages)
  BY DEF Frame, BoxInv, BoxesOK
<1>2. CASE pmbox = <<>> /\ pmbox' = pmbox
  BY <1>2 DEF NoProfile
<1>3. CASE pmbox # <<>> /\ pmbox' = Tail(pmbox)
  BY <1>1, <1>3, FirstTail
<1>4. CASE ~Awaits /\ ~(AtSignal /\ curnt_state \in {"INIT", "READY", "POWER_DELAY"}) /\ pmbox' = pmbox
  BY <1>4 DEF NoProfile, ProfileNoticeFirst
<1>5. CASE WaitForNotice \/ WaitOutDelay \/ PollNotice
  BY <1>2, <1>3, <1>5 DEF WaitForNotice, WaitOutDelay, PollNotice
<1>6. CASE WeighPower \/ LeaveSmartStart \/ Scan \/ CalcProhib
  BY <1>4, <1>6 DEF WeighPower, LeaveSmartStart, Scan, CalcProhib, InWorker, AtSignal, Awaits
<1>7. CASE HearState \/ HearPower \/ HearSet
  BY <1>3, <1>7 DEF HearState, HearPower, HearSet, Hear
<1>8. CASE Interrupted
  BY <1>8 DEF Interrupted
<1> QED
  BY <1>5, <1>6, <1>7, <1>8 DEF Manager

\* Whatever else is posted comes after it.
LEMMA FirstPosted ==
    ASSUME BoxInv, ProfileNoticeFirst, NEW m \in Messages, m.msg # "PROF_POWER_RECALC",
           pmbox' = Posted(pmbox, PMLen, m) \/ pmbox' = pmbox,
           UNCHANGED <<worker, ask, curnt_state>>
    PROVE  ProfileNoticeFirst'
<1>1. pmbox \in Seq(Messages)
  BY DEF BoxInv, BoxesOK
<1>2. \A i \in DOMAIN pmbox' : pmbox'[i].msg = "PROF_POWER_RECALC" =>
          i \in DOMAIN pmbox /\ pmbox'[i] = pmbox[i]
  BY <1>1, PostedFacts
<1> QED
  BY <1>2 DEF ProfileNoticeFirst, Awaits, AtSignal

LEMMA FirstServe ==
    ASSUME Frame, ProfileNoticeFirst, Serve
    PROVE  ProfileNoticeFirst'
<1>1. BoxInv
  BY DEF Frame
<1>2. UNCHANGED <<worker, ask, curnt_state>>
  BY DEF Serve, fsm
<1>3. /\ dcbox \in Seq(Messages) /\ dcbox # <<>> /\ Named(dcbox)
      /\ plugged \in [Devices -> BOOLEAN] /\ powered \in [Devices -> BOOLEAN]
  BY DEF Serve, Frame, BoxInv, BoxesOK
<1> DEFINE m == Head(dcbox)
<1>4. m \in Messages /\ (m.msg \in Replies => m.of \in Devices)
  BY <1>3, TailFacts, NamedTail
<1>5. CASE \E r \in Messages : r.msg # "PROF_POWER_RECALC" /\ pmbox' = Posted(pmbox, PMLen, r)
  BY <1>1, <1>2, <1>5, FirstPosted
<1>6. CASE UNCHANGED pmbox
  BY <1>2, <1>6 DEF ProfileNoticeFirst, Awaits, AtSignal
<1>7. CASE m.msg = "GET_SHELF_STATE" /\ ServeGetState(m.of)
  <2>1. m.of \in Devices /\ powered[m.of] \in BOOLEAN
    BY <1>3, <1>4, <1>7 DEF Replies
  <2> DEFINE r == StateReply("GET_SHELF_STATE", m.of, powered[m.of])
  <2>2. r \in Messages /\ r.msg = "GET_SHELF_STATE"
    BY <1>1, <2>1, ReplyType DEF Replies
  <2>3. pmbox' = Posted(pmbox, PMLen, r)
    BY <1>7 DEF ServeGetState
  <2> HIDE DEF r
  <2> QED
    BY <1>5, <2>2, <2>3
<1>8. CASE m.msg = "SET_SHELF_STATE" /\ ServeSetState(m.of, m.data.on)
  <2>1. m.of \in Devices /\ m.data.on \in BOOLEAN
    BY <1>4, <1>8 DEF Replies, Messages
  <2>2. powered'[m.of] \in BOOLEAN
    BY <1>3, <1>8, <2>1 DEF ServeSetState
  <2> DEFINE r == StateReply("SET_SHELF_STATE", m.of, powered'[m.of])
  <2>3. r \in Messages /\ r.msg = "SET_SHELF_STATE"
    BY <1>1, <2>1, <2>2, ReplyType DEF Replies
  <2>4. pmbox' = Posted(pmbox, PMLen, r)
    BY <1>8 DEF ServeSetState
  <2> HIDE DEF r
  <2> QED
    BY <1>5, <2>3, <2>4
<1>9. CASE m.msg = "GET_SHELF_POWER" /\ ServeGetPower(m.of)
  <2>1. m.of \in Devices
    BY <1>4, <1>9 DEF Replies
  <2> DEFINE w == IF plugged[m.of] THEN Power[m.of] ELSE 0
             r == Message("GET_SHELF_POWER", m.of, [Quiet EXCEPT !.power = w])
  <2>2. w \in Nat
    BY <2>1, ShelfAssumption
  <2>3. r \in Messages /\ r.msg = "GET_SHELF_POWER"
    BY <1>1, <2>1, <2>2, ReplyType
  <2>4. pmbox' = Posted(pmbox, PMLen, r)
    BY <1>9 DEF ServeGetPower
  <2> HIDE DEF r, w
  <2> QED
    BY <1>5, <2>3, <2>4
<1>10. CASE Notify("SHELF_POWER_RECALC")
  <2> DEFINE r == Notice("SHELF_POWER_RECALC")
  <2>1. r \in Messages /\ r.msg # "PROF_POWER_RECALC"
    BY MessageType DEF Notices, Notice, Message
  <2>2. pmbox' = Posted(pmbox, PMLen, r)
    BY <1>10 DEF Notify
  <2> HIDE DEF r
  <2> QED
    BY <1>5, <2>1, <2>2
<1> QED
  BY <1>6, <1>7, <1>8, <1>9, <1>10 DEF Serve

LEMMA FirstEvent ==
    ASSUME Frame, ProfileNoticeFirst,
           \/ \E d \in Slots \cup {Fan} : Replug(d)
           \/ \E p \in Sources : PowerSupply(p)
           \/ \E d \in Slots, c \in Confs : ProfileChange(d, c)
           \/ EepromRewritten
    PROVE  ProfileNoticeFirst'
<1>1. BoxInv
  BY DEF Frame
<1>2. UNCHANGED <<worker, ask, curnt_state>>
  BY DEF Replug, PowerSupply, ProfileChange, EepromRewritten, Event, fsm
<1>3. CASE UNCHANGED pmbox
  BY <1>2, <1>3 DEF ProfileNoticeFirst, Awaits, AtSignal
<1>4. CASE Notify("SHELF_POWER_RECALC")
  <2> DEFINE r == Notice("SHELF_POWER_RECALC")
  <2>1. r \in Messages /\ r.msg # "PROF_POWER_RECALC"
    BY MessageType DEF Notices, Notice, Message
  <2>2. pmbox' = Posted(pmbox, PMLen, r)
    BY <1>4 DEF Notify
  <2> HIDE DEF r
  <2> QED
    BY <1>1, <1>2, <2>1, <2>2, FirstPosted
<1>5. CASE Blocked /\ Notify("PROF_POWER_RECALC")
  <2>1. pmbox = <<>> /\ (Awaits \/ (AtSignal /\ curnt_state \in {"INIT", "READY", "POWER_DELAY"}))
    BY <1>5 DEF Blocked
  <2>2. \A i \in DOMAIN pmbox' : i = 1
    BY <1>5, <2>1 DEF Notify, Posted
  <2> QED
    BY <1>2, <2>1, <2>2 DEF ProfileNoticeFirst, Awaits, AtSignal
<1> QED
  BY <1>3, <1>4, <1>5 DEF Replug, PowerSupply, ProfileChange, EepromRewritten

LEMMA FirstStep ==
    ASSUME Frame, [Next]_vars, ~clouded',
           ~clouded => ProfileNoticeFirst /\ inauto_signal = "STATIC"
    PROVE  ProfileNoticeFirst'
<1>1. CASE clouded
  <2>1. WaitForNotice \/ WaitOutDelay \/ PollNotice
    BY <1>1 DEF Next, Manager, WeighPower, LeaveSmartStart, Scan, CalcProhib, HearState, HearPower,
                HearSet, Hear, Interrupted, Unanswered, Serve, Notify, Replug, PowerSupply,
                ProfileChange, EepromRewritten, vars
  <2>2. pmbox' = <<>>
    BY <1>1, <2>1 DEF WaitForNotice, WaitOutDelay, PollNotice, Refresh
  <2> QED
    BY <2>2, NoProfileFirst DEF NoProfile
<1>2. CASE ~clouded
  <2>1. CASE Manager
    BY <1>2, <2>1, FirstManager, NoProfileFirst
  <2>2. CASE Serve
    BY <1>2, <2>2, FirstServe
  <2>3. CASE \/ \E d \in Slots \cup {Fan} : Replug(d)
             \/ \E p \in Sources : PowerSupply(p)
             \/ \E d \in Slots, c \in Confs : ProfileChange(d, c)
             \/ EepromRewritten
    BY <1>2, <2>3, FirstEvent
  <2>4. CASE Unanswered
    BY <2>4 DEF Unanswered
  <2>5. CASE UNCHANGED vars
    BY <1>2, <2>5 DEF vars, fsm, ProfileNoticeFirst, Awaits, AtSignal
  <2> QED
    BY <2>1, <2>2, <2>3, <2>4, <2>5 DEF Next
<1> QED
  BY <1>1, <1>2

-----------------------------------------------------------------------------
(* How far the pass has come *)

Marks == {"SOURCE_READ", "FAN_READ", "SLOTS_READ", "POWEROFF_IGNORANT", "POWER_RESRV_CALC",
          "PROHIBITED"}

LEMMA MarkOrder ==
    /\ Marks \subseteq States
    /\ \A x \in Marks : Order[x] \in {1, 2, 3, 6, 7, 8}
    /\ \A x \in Marks, s \in States : Order[s] = Order[x] => s = x
  BY Orders, StateNames DEF Marks

\* Nothing of the crate has been read in this pass, and nothing was handed out.
NothingYet ==
    /\ \A x \in Marks : ~Over(x)
    /\ \A d \in Devices : ~Read(d)
    /\ \A d \in Slots : ~Passed("POWEROFF_IGNORANT", d)
    /\ worker \notin {"POWEROFF_IGNORANT", "POWER_RESRV_CALC", "PROHIBITED", "SMARTSTART"}

\* No slot has been dealt with yet in this pass.
NothingDealt ==
    /\ \A d \in Slots : ~Passed("POWEROFF_IGNORANT", d)
    /\ ~Over("PROHIBITED")

LEMMA DeviceKinds ==
    \A d \in Devices : \/ d \in Slots /\ d \notin Sources /\ d # Fan
                       \/ d \in Sources /\ d \notin Slots /\ d # Fan
                       \/ d = Fan /\ d \notin Slots /\ d \notin Sources
  BY ShelfAssumption DEF Devices, Slots, Sources, Fan

\* What a pass has done so far depends on the position alone.
LEMMA EarlyNothing ==
    ASSUME worker' \in {"GETSLOTSSTATE", "POWER_DELAY"} \/
           (worker' = "none" /\ curnt_state' \in {"INIT", "GETSLOTSSTATE", "POWER_DELAY"}) \/
           (worker' = "SOURCE_READ" /\ dev' = NSlots + 1)
    PROVE  NothingYet'
<1>1. \A x \in Marks : ~Over(x)'
  <2> TAKE x \in Marks
  <2>1. Order[x] \in {1, 2, 3, 6, 7, 8}
    BY MarkOrder
  <2>2. CASE worker' = "none"
    BY <2>1, <2>2, Orders DEF Over, AtSignal
  <2>3. CASE worker' # "none"
    BY <2>1, <2>3, Orders DEF Over, AtSignal
  <2> QED
    BY <2>2, <2>3
<1>2. \A d \in Devices : ~Read(d)'
  <2> TAKE d \in Devices
  <2>1. /\ ~Over("SOURCE_READ")' /\ ~Over("FAN_READ")' /\ ~Over("SLOTS_READ")'
    BY <1>1 DEF Marks
  <2>2. d \in Sources => ~(worker' = "SOURCE_READ" /\ d < dev')
    BY ShelfAssumption DEF Sources
  <2>3. worker' \notin {"FAN_READ", "SLOTS_READ"}
    OBVIOUS
  <2> QED
    BY <2>1, <2>2, <2>3 DEF Read, Passed
<1>3. \A d \in Slots : ~Passed("POWEROFF_IGNORANT", d)'
  <2> TAKE d \in Slots
  <2>1. ~Over("POWEROFF_IGNORANT")' /\ worker' # "POWEROFF_IGNORANT"
    BY <1>1 DEF Marks
  <2> QED
    BY <2>1 DEF Passed
<1> QED
  BY <1>1, <1>2, <1>3 DEF NothingYet

LEMMA Passage ==
    ASSUME Frame, NEW sg \in Signals, AtSignal, Listed(curnt_state, sg), Transition(sg)
    PROVE  /\ \A x \in Marks : Over(x)' => Over(x)
           /\ \A d \in Devices : Read(d)' => Read(d)
           /\ \A d \in Slots : Passed("POWEROFF_IGNORANT", d)' => Passed("POWEROFF_IGNORANT", d)
           /\ sg = "CRATECHANGE" \/ NewState(curnt_state, sg) = "SOURCE_READ" => NothingYet'
           /\ sg = "PROFILECHANGE" /\ curnt_state \in {"INIT", "READY", "POWER_DELAY"}
                 => NothingDealt'
           /\ worker' \in {"POWER_RESRV_CALC", "POWEROFF_IGNORANT"} => ~Over("PROHIBITED")'
           /\ ask' = "none" /\ UNCHANGED <<status, dcbox, crate>>
           /\ powerLimitSource' = IF worker' = "POWER_RESRV_CALC" THEN SourceLimit
                                  ELSE powerLimitSource
           /\ worker' = "PROHIBITED" => power_slots_now' = Draw(Drawing)
           /\ UNCHANGED actualAvailablePowerLimit
<1> DEFINE w == WorkerOf(curnt_state, sg)
           n == NewState(curnt_state, sg)
<1>1. curnt_state \in States /\ worker = "none" /\ ask = "none"
  BY DEF Frame, TypeOK, Flow, AtSignal
<1>2. /\ n \in States /\ w \in States \cup {"none"}
      /\ w \notin {"INIT", "FAN_ON", "READY"}
      /\ w # "none" => /\ w = n \/ (w = "POWER_DELAY" /\ n = "INIT")
                       /\ Order[w] <= Order[curnt_state] + 1
      /\ w = "none" => \/ n = "INIT"
                       \/ n = "FAN_ON" /\ curnt_state = "PASSIVE_CHECK"
                       \/ n = "READY" /\ Order[curnt_state] >= 8
      /\ sg = "CRATECHANGE" \/ n = "SOURCE_READ" =>
            w \in {"GETSLOTSSTATE", "POWER_DELAY", "SOURCE_READ"}
      /\ sg = "PROFILECHANGE" /\ curnt_state \in {"INIT", "READY", "POWER_DELAY"} =>
            (w = "none" /\ n = "INIT") \/ w \in {"SOURCE_READ", "POWEROFF_IGNORANT"}
  BY <1>1, Steps
<1>3. /\ ask' = ask /\ UNCHANGED <<status, dcbox, crate>>
      /\ \/ w = "none" /\ curnt_state' = n /\ worker' = "none" /\ UNCHANGED <<dev, now_presents, books>>
         \/ w # "none" /\ worker' = w /\ Begin(w) /\ UNCHANGED curnt_state
  BY DEF Transition
<1> HIDE DEF w, n
<1>4. \A x \in Marks : Over(x)' => Over(x)
  <2> SUFFICES ASSUME NEW x \in Marks, Over(x)' PROVE Over(x)
    OBVIOUS
  <2>1. Order[x] \in {1, 2, 3, 6, 7, 8} /\ Order[curnt_state] \in 0 .. 10
    BY <1>1, MarkOrder, Orders
  <2>2. CASE w = "none"
    <3>1. Order[n] >= Order[x]
      BY <1>3, <2>2 DEF Over, AtSignal
    <3>2. CASE n = "INIT"
      BY <2>1, <3>1, <3>2, Orders
    <3>3. CASE n = "FAN_ON" /\ curnt_state = "PASSIVE_CHECK"
      BY <1>1, <2>1, <3>1, <3>3, Orders DEF Over, AtSignal
    <3>4. CASE n = "READY" /\ Order[curnt_state] >= 8
      BY <1>1, <2>1, <3>1, <3>4 DEF Over, AtSignal
    <3> QED
      BY <1>2, <2>2, <3>2, <3>3, <3>4
  <2>3. CASE w # "none"
    <3>1. Order[w] > Order[x] /\ Order[w] <= Order[curnt_state] + 1 /\ Order[w] \in 0 .. 10
      BY <1>2, <1>3, <2>3, Orders DEF Over, AtSignal
    <3>2. Order[curnt_state] >= Order[x]
      BY <2>1, <3>1
    <3> QED
      BY <1>1, <3>2 DEF Over, AtSignal
  <2> QED
    BY <2>2, <2>3
<1>5. w # "none" => dev' = CASE w = "SOURCE_READ" -> NSlots + 1
                             [] w = "FAN_READ"    -> Fan
                             [] w = "PROHIBITED"  -> NSlots
                             [] OTHER -> 1
  BY <1>3 DEF Begin
<1>6. \A y \in {"SOURCE_READ", "FAN_READ", "SLOTS_READ", "POWEROFF_IGNORANT"} :
         \A d \in DevicesOf(y) : Passed(y, d)' => Passed(y, d)
  <2> SUFFICES ASSUME NEW y \in {"SOURCE_READ", "FAN_READ", "SLOTS_READ", "POWEROFF_IGNORANT"},
                      NEW d \in DevicesOf(y), Passed(y, d)'
               PROVE  Over(y)
    BY DEF Passed
  <2>1. Over(y)' => Over(y)
    BY <1>4 DEF Marks
  <2>2. ~(worker' = y /\ d < dev')
    <3> SUFFICES ASSUME worker' = y PROVE ~(d < dev')
      OBVIOUS
    <3>1. w = y
      BY <1>3
    <3> QED
      BY <1>5, <3>1, ShelfAssumption DEF DevicesOf, Sources, Slots, Fan
  <2> QED
    BY <2>1, <2>2 DEF Passed
<1>7. \A d \in Devices : Read(d)' => Read(d)
  <2> SUFFICES ASSUME NEW d \in Devices, Read(d)' PROVE Read(d)
    OBVIOUS
  <2>1. /\ d \in Sources => d \in DevicesOf("SOURCE_READ")
        /\ d = Fan => d \in DevicesOf("FAN_READ")
        /\ d \in Slots => d \in DevicesOf("SLOTS_READ")
    BY DEF DevicesOf
  <2> QED
    BY <1>6, <2>1, DeviceKinds DEF Read
<1>8. \A d \in Slots : Passed("POWEROFF_IGNORANT", d)' => Passed("POWEROFF_IGNORANT", d)
  BY <1>6 DEF DevicesOf
<1>9. sg = "CRATECHANGE" \/ n = "SOURCE_READ" => NothingYet'
  <2> SUFFICES ASSUME sg = "CRATECHANGE" \/ n = "SOURCE_READ" PROVE NothingYet'
    OBVIOUS
  <2>1. w \in {"GETSLOTSSTATE", "POWER_DELAY", "SOURCE_READ"}
    BY <1>2
  <2> QED
    BY <1>3, <1>5, <2>1, EarlyNothing
<1>10. sg = "PROFILECHANGE" /\ curnt_state \in {"INIT", "READY", "POWER_DELAY"} => NothingDealt'
  <2> SUFFICES ASSUME sg = "PROFILECHANGE" /\ curnt_state \in {"INIT", "READY", "POWER_DELAY"}
               PROVE  NothingDealt'
    OBVIOUS
  <2>1. CASE w = "none" /\ n = "INIT"
    <3>1. NothingYet'
      BY <1>3, <2>1, EarlyNothing
    <3> QED
      BY <3>1 DEF NothingYet, NothingDealt, Marks
  <2>2. CASE w = "SOURCE_READ"
    <3>1. NothingYet'
      BY <1>3, <1>5, <2>2, EarlyNothing
    <3> QED
      BY <3>1 DEF NothingYet, NothingDealt, Marks
  <2>3. CASE w = "POWEROFF_IGNORANT"
    <3>1. worker' = "POWEROFF_IGNORANT" /\ dev' = 1
      BY <1>3, <1>5, <2>3
    <3>2. ~Over("PROHIBITED")' /\ ~Over("POWEROFF_IGNORANT")'
      BY <3>1, Orders DEF Over, AtSignal
    <3>3. \A d \in Slots : ~(d < dev')
      BY <3>1, ShelfAssumption DEF Slots
    <3> QED
      BY <3>2, <3>3 DEF NothingDealt, Passed
  <2> QED
    BY <1>2, <2>1, <2>2, <2>3
<1>11. worker' \in {"POWER_RESRV_CALC", "POWEROFF_IGNORANT"} => ~Over("PROHIBITED")'
  BY Orders DEF Over, AtSignal
<1>12. /\ powerLimitSource' = IF worker' = "POWER_RESRV_CALC" THEN SourceLimit
                              ELSE powerLimitSource
       /\ worker' = "PROHIBITED" => power_slots_now' = Draw(Drawing)
       /\ UNCHANGED actualAvailablePowerLimit
  <2>1. CASE w = "none"
    BY <1>3, <2>1 DEF books
  <2>2. CASE w # "none"
    BY <1>3, <2>2 DEF Begin, Drawing
  <2> QED
    BY <2>1, <2>2
<1>13. ask' = "none" /\ UNCHANGED <<status, dcbox, crate>>
  BY <1>1, <1>3
<1> QED
  BY <1>4, <1>7, <1>8, <1>9, <1>10, <1>11, <1>12, <1>13 DEF n

-----------------------------------------------------------------------------
(* The clean pass *)

\* When nothing is asked no message speaks of a question.
LEMMA Silent ==
    ASSUME Frame', ask' = "none", ~clouded'
    PROVE  Asking' /\ Bidden' /\ Answered' /\ Meant'
<1>1. Free(dcbox', pmbox')
  <2>1. Alone(dcbox', pmbox', "none", dev')
    BY DEF Frame, BoxInv, OnlyQuestion
  <2> QED
    BY <2>1, FreeAlone
<1>2. \A i \in DOMAIN dcbox' : dcbox'[i].msg # "SET_SHELF_STATE"
  BY <1>1 DEF Free, Replies
<1>3. ~SetDone'
  BY <1>1 DEF Free, Replies, SetDone
<1>4. \A i \in DOMAIN pmbox' : pmbox'[i].msg \notin Replies
  BY <1>1 DEF Free
<1> QED
  BY <1>2, <1>3, <1>4 DEF Asking, Bidden, Answered, Meant

\* A pass that has yet to read anything claims nothing.
LEMMA NothingClaimed ==
    ASSUME Frame', NothingYet', ask' # "GET_SHELF_POWER"
    PROVE  Known' /\ Budget' /\ Believed' /\ Dealt'
<1>1. \A x \in Marks : ~Over(x)'
  BY DEF NothingYet
<1>2. \A d \in Devices : ~Read(d)' /\ ~StateRead(d)'
  BY DEF NothingYet, StateRead
<1>3. ~Over("POWER_RESRV_CALC")' /\ ~Over("PROHIBITED")'
  BY <1>1 DEF Marks
<1>4. Known' /\ Believed'
  BY <1>2 DEF Known, Believed
<1>5. Budget'
  BY <1>3 DEF NothingYet, Budget
<1>6. Dealt'
  BY <1>3 DEF NothingYet, Dealt
<1> QED
  BY <1>4, <1>5, <1>6

LEMMA FreshPass ==
    ASSUME Frame', NothingYet', ask' = "none", ~clouded', inauto_signal' = "STATIC"
    PROVE  Pass'
  BY Silent, NothingClaimed DEF Pass, Balanced, Truthful, Obedient

LEMMA SameBooks ==
    ASSUME UNCHANGED status
    PROVE  /\ SourceLimit' = SourceLimit
           /\ Draw(Drawing)' = Draw(Drawing)
           /\ UNCHANGED powerLimitSource => Spare(Draw(Drawing))' = Spare(Draw(Drawing))
  BY DEF SourceLimit, Rated, Working, Here, On, Draw, Drawing, Spare

LEMMA SameState ==
    ASSUME UNCHANGED <<status, plugged, powered>>, ask = "none", NEW d
    PROVE  /\ StateTrue(d) => StateTrue(d)'
           /\ PowerTrue(d) => PowerTrue(d)'
  BY DEF StateTrue, PowerTrue, Switched, Here, On

\* What a step that picks a signal does to the news.
LEMMA NewsTaken ==
    ASSUME Frame, ProfileNoticeFirst, NEW sg \in Signals, AtSignal, Transition(sg),
           \/ UNCHANGED pmbox
           \/ pmbox # <<>> /\ pmbox' = Tail(pmbox) /\ \E s : sg = SignalOf(Head(pmbox), s)
    PROVE  /\ NewsPending /\ ~NewsPending' => sg = "CRATECHANGE"
           /\ ProfilePending /\ ~ProfilePending' =>
                 sg = "PROFILECHANGE" /\ curnt_state \in {"INIT", "READY", "POWER_DELAY"}
<1>1. UNCHANGED dcbox /\ pmbox \in Seq(Messages)
  BY DEF Transition, Frame, TypeOK, BoxesOK
<1>2. CASE UNCHANGED pmbox
  BY <1>1, <1>2 DEF NewsPending, ProfilePending
<1>3. CASE pmbox # <<>> /\ pmbox' = Tail(pmbox) /\ \E s : sg = SignalOf(Head(pmbox), s)
  <2>1. \A i \in DOMAIN pmbox : i = 1 \/ (i - 1 \in DOMAIN pmbox' /\ pmbox'[i - 1] = pmbox[i])
    BY <1>1, <1>3
  <2>2. Head(pmbox) = pmbox[1]
    BY <1>1, <1>3
  <2>3. ASSUME NewsPending, ~NewsPending' PROVE sg = "CRATECHANGE"
    <3>1. PICK i \in DOMAIN pmbox : pmbox[i].msg = "SHELF_POWER_RECALC"
      BY <1>1, <2>3 DEF NewsPending
    <3>2. i = 1
      BY <2>1, <2>3, <3>1 DEF NewsPending
    <3> QED
      BY <1>3, <2>2, <3>1, <3>2 DEF SignalOf
  <2>4. ASSUME ProfilePending, ~ProfilePending'
        PROVE  sg = "PROFILECHANGE" /\ curnt_state \in {"INIT", "READY", "POWER_DELAY"}
    <3>1. PICK i \in DOMAIN pmbox : pmbox[i].msg = "PROF_POWER_RECALC"
      BY <2>4 DEF ProfilePending
    <3>2. i = 1 /\ curnt_state \in {"INIT", "READY", "POWER_DELAY"}
      BY <3>1 DEF ProfileNoticeFirst, Awaits, AtSignal
    <3> QED
      BY <1>3, <2>2, <3>1, <3>2 DEF SignalOf
  <2> QED
    BY <2>3, <2>4
<1> QED
  BY <1>2, <1>3

LEMMA TransitionCarries ==
    ASSUME Frame, Frame', ProfileNoticeFirst, Pass, ~clouded',
           NEW sg \in Signals, AtSignal, Listed(curnt_state, sg), Transition(sg),
           inauto_signal' = "STATIC",
           \/ UNCHANGED pmbox
           \/ pmbox # <<>> /\ pmbox' = Tail(pmbox) /\ \E s : sg = SignalOf(Head(pmbox), s)
    PROVE  Pass'
<1>1. /\ \A x \in Marks : Over(x)' => Over(x)
      /\ \A d \in Devices : Read(d)' => Read(d)
      /\ \A d \in Slots : Passed("POWEROFF_IGNORANT", d)' => Passed("POWEROFF_IGNORANT", d)
      /\ sg = "CRATECHANGE" => NothingYet'
      /\ sg = "PROFILECHANGE" /\ curnt_state \in {"INIT", "READY", "POWER_DELAY"} => NothingDealt'
      /\ worker' \in {"POWER_RESRV_CALC", "POWEROFF_IGNORANT"} => ~Over("PROHIBITED")'
      /\ ask' = "none" /\ UNCHANGED <<status, dcbox, crate>>
      /\ powerLimitSource' = IF worker' = "POWER_RESRV_CALC" THEN SourceLimit
                             ELSE powerLimitSource
      /\ worker' = "PROHIBITED" => power_slots_now' = Draw(Drawing)
      /\ UNCHANGED actualAvailablePowerLimit
  BY Passage
<1>2. ask = "none" /\ UNCHANGED <<plugged, powered, conf>>
  BY <1>1 DEF Frame, Flow, crate
<1>3. Asking' /\ Bidden' /\ Answered' /\ Meant'
  BY <1>1, Silent
<1>4. CASE NothingYet'
  BY <1>1, <1>4, FreshPass
<1>5. CASE ~NothingYet'
  <2>1. /\ ~NewsPending' => ~NewsPending
        /\ ~ProfilePending' /\ ProfilePending => NothingDealt'
    BY <1>1, <1>5, NewsTaken
  <2>2. \A d \in Devices : StateRead(d)' => StateRead(d)
    BY <1>1 DEF StateRead
  <2>3. Known'
    BY <1>1, <2>2 DEF Pass, Balanced, Known
  <2>4. Budget'
    <3>1. /\ Over("POWER_RESRV_CALC")' => Over("POWER_RESRV_CALC")
          /\ Over("PROHIBITED")' => Over("PROHIBITED")
      BY <1>1 DEF Marks
    <3>2. Over("POWER_RESRV_CALC")' \/ worker' = "POWER_RESRV_CALC" => powerLimitSource' = SourceLimit'
      BY <1>1, <3>1, SameBooks DEF Pass, Balanced, Budget
    <3>3. worker' = "PROHIBITED" => power_slots_now' = Draw(Drawing)'
      BY <1>1, SameBooks
    <3>4. Over("PROHIBITED")' => actualAvailablePowerLimit' = Spare(Draw(Drawing))'
      <4> SUFFICES ASSUME Over("PROHIBITED")' PROVE actualAvailablePowerLimit' = Spare(Draw(Drawing))'
        OBVIOUS
      <4>1. worker' # "POWER_RESRV_CALC"
        BY <1>1
      <4>2. UNCHANGED powerLimitSource
        BY <1>1, <4>1
      <4>3. Spare(Draw(Drawing))' = Spare(Draw(Drawing))
        BY <1>1, <4>2, SameBooks
      <4> QED
        BY <1>1, <3>1, <4>3 DEF Pass, Balanced, Budget
    <3> QED
      BY <3>2, <3>3, <3>4 DEF Budget
  <2>5. ~NewsPending' => Believed'
    <3> SUFFICES ASSUME ~NewsPending' PROVE Believed'
      OBVIOUS
    <3>1. Believed
      BY <2>1 DEF Pass, Truthful
    <3> QED
      BY <1>1, <1>2, <2>2, <3>1, SameState DEF Believed
  <2>6. ~NewsPending' /\ ~ProfilePending' => Dealt'
    <3> SUFFICES ASSUME ~NewsPending', ~ProfilePending' PROVE Dealt'
      OBVIOUS
    <3>1. CASE NothingDealt'
      BY <3>1 DEF NothingDealt, Dealt
    <3>2. CASE ~NothingDealt'
      <4>1. Dealt
        BY <2>1, <3>2 DEF Pass, Obedient
      <4>2. Over("PROHIBITED")' => Over("PROHIBITED")
        BY <1>1 DEF Marks
      <4>3. \A d \in Slots : (On(d)' <=> On(d)) /\ (Switchable(d)' <=> Switchable(d))
        BY <1>1 DEF On, Switchable, Here
      <4> QED
        BY <1>1, <1>2, <4>1, <4>2, <4>3 DEF Dealt
    <3> QED
      BY <3>1, <3>2
  <2> QED
    BY <1>3, <2>3, <2>4, <2>5, <2>6 DEF Pass, Balanced, Truthful, Obedient
<1> QED
  BY <1>4, <1>5

LEMMA TransitionPass ==
    ASSUME Frame, Frame', ~clouded', ~clouded => ProfileNoticeFirst /\ Pass,
           WaitForNotice \/ WaitOutDelay \/ WeighPower \/ LeaveSmartStart \/ PollNotice
    PROVE  Pass'
<1> DEFINE Consumes(sg) ==
             \/ UNCHANGED pmbox
             \/ pmbox # <<>> /\ pmbox' = Tail(pmbox) /\ \E s : sg = SignalOf(Head(pmbox), s)
<1>1. BalanceSignal /\ TypeOK
  BY DEF Frame
<1>2. \E sg : Transition(sg) /\ Consumes(sg) /\ (Refresh(sg) \/ UNCHANGED clouded)
  BY DEF WaitForNotice, WaitOutDelay, WeighPower, LeaveSmartStart, PollNotice
<1>3. PICK sg : Transition(sg) /\ Consumes(sg) /\ (Refresh(sg) \/ UNCHANGED clouded)
  BY <1>2
<1>4. sg \in Signals /\ AtSignal /\ Listed(curnt_state, sg)
  <2>1. PICK sh \in Signals : AtSignal /\ Transition(sh) /\ Listed(curnt_state, sh)
    BY <1>1, Taken
  <2>2. sg = sh
    BY <1>3, <2>1 DEF Transition
  <2> QED
    BY <2>1, <2>2
<1>5. CASE clouded
  <2>1. NewState(curnt_state, sg) = "SOURCE_READ" /\ inauto_signal' = "STATIC"
    BY <1>3, <1>5 DEF Refresh
  <2>2. NothingYet' /\ ask' = "none"
    BY <1>3, <1>4, <2>1, Passage
  <2> QED
    BY <2>1, <2>2, FreshPass
<1>6. CASE ~clouded
  <2>1. inauto_signal = "STATIC"
    BY <1>6 DEF Pass, Balanced
  <2>2. inauto_signal' = "STATIC"
    BY <2>1 DEF WaitForNotice, WaitOutDelay, WeighPower, LeaveSmartStart, PollNotice
  <2> QED
    BY <1>3, <1>4, <1>6, <2>2, TransitionCarries
<1> QED
  BY <1>5, <1>6

-----------------------------------------------------------------------------
(* The turns of a worker between two questions *)

LEMMA SameWorker ==
    ASSUME worker # "none", UNCHANGED worker, NEW x
    PROVE  Over(x)' <=> Over(x)
  BY DEF Over, AtSignal

LEMMA WorkerDone ==
    ASSUME Frame, worker # "none", worker' = "none", curnt_state' = target, NEW x \in Marks
    PROVE  Over(x)' <=> Over(x) \/ x = worker
<1>1. /\ worker \in States /\ Order[worker] \in 0 .. 10
      /\ target = worker \/ (worker = "POWER_DELAY" /\ target = "INIT")
      /\ Order[x] \in {1, 2, 3, 6, 7, 8} /\ (Order[worker] = Order[x] => worker = x)
  BY MarkOrder, Orders, LoopRanges DEF Frame, TypeOK
<1>2. Order[target] = Order[worker]
  BY <1>1, Orders
<1>3. Over(x)' <=> Order[target] >= Order[x]
  BY DEF Over, AtSignal
<1>4. Over(x) <=> Order[worker] > Order[x]
  BY DEF Over, AtSignal
<1> QED
  BY <1>1, <1>2, <1>3, <1>4

LEMMA NewsKept ==
    ASSUME Frame,
           dcbox' = dcbox \/ \E m \in Messages : dcbox' = Posted(dcbox, DCLen, m),
           \/ UNCHANGED pmbox
           \/ pmbox # <<>> /\ pmbox' = Tail(pmbox) /\ Head(pmbox).msg \in Replies
    PROVE  /\ ~NewsPending' => ~NewsPending
           /\ ~ProfilePending' => ~ProfilePending
<1>1. dcbox \in Seq(Messages) /\ pmbox \in Seq(Messages)
  BY DEF Frame, TypeOK, BoxesOK
<1>2. \A i \in DOMAIN dcbox : i \in DOMAIN dcbox' /\ dcbox'[i] = dcbox[i]
  BY <1>1 DEF Posted
<1>3. \A i \in DOMAIN pmbox : pmbox[i].msg \notin Replies =>
          \E j \in DOMAIN pmbox' : pmbox'[j] = pmbox[i]
  <2>1. CASE UNCHANGED pmbox
    BY <2>1
  <2>2. CASE pmbox # <<>> /\ pmbox' = Tail(pmbox) /\ Head(pmbox).msg \in Replies
    <3>1. \A i \in DOMAIN pmbox : i = 1 \/ (i - 1 \in DOMAIN pmbox' /\ pmbox'[i - 1] = pmbox[i])
      BY <1>1, <2>2
    <3>2. Head(pmbox) = pmbox[1]
      BY <1>1, <2>2
    <3> QED
      BY <2>2, <3>1, <3>2
  <2> QED
    BY <2>1, <2>2
<1>4. NewsPending => NewsPending'
  BY <1>2, <1>3 DEF NewsPending, Replies
<1>5. ProfilePending => ProfilePending'
  BY <1>3 DEF ProfilePending, Replies
<1> QED
  BY <1>4, <1>5

LEMMA Turn ==
    ASSUME Frame, Frame', Pass, ask = "none", ask' # "GET_SHELF_POWER",
           UNCHANGED <<status, crate, inauto_signal, powerLimitSource>>,
           ~NewsPending' => ~NewsPending,
           \A d \in Devices : Read(d)' => Read(d),
           Over("POWER_RESRV_CALC")' \/ worker' = "POWER_RESRV_CALC" =>
               Over("POWER_RESRV_CALC") \/ worker = "POWER_RESRV_CALC",
           worker' = "PROHIBITED" => worker = "PROHIBITED" /\ UNCHANGED power_slots_now,
           Over("PROHIBITED")' => actualAvailablePowerLimit' = Spare(Draw(Drawing)),
           Asking' /\ Bidden' /\ Answered',
           ~NewsPending' /\ ~ProfilePending' => Obedient'
    PROVE  Pass'
<1>1. \A d \in Devices : StateRead(d)' => StateRead(d)
  BY DEF StateRead
<1>2. Known'
  BY <1>1 DEF Pass, Balanced, Known
<1>3. Budget'
  BY SameBooks DEF Pass, Balanced, Budget
<1>4. ~NewsPending' => Believed'
  BY <1>1, SameState DEF Pass, Truthful, Believed, crate
<1> QED
  BY <1>2, <1>3, <1>4 DEF Pass, Balanced, Truthful

\* A question has just been put: nothing answers it yet.
LEMMA JustAsked ==
    ASSUME Frame, Frame', ~clouded, ~clouded', ask = "none", UNCHANGED <<pmbox, worker, status>>,
           NEW msg \in Replies, NEW d \in Devices, NEW on \in BOOLEAN, Send(msg, d, on),
           msg = "SET_SHELF_STATE" => on = (worker = "SMARTSTART" \/ (worker = "PROHIBITED" /\ Off(d)))
    PROVE  Bidden' /\ Answered'
<1>1. Free(dcbox, pmbox)
  BY NothingAsked DEF Frame
<1>2. ~SetDone' /\ \A i \in DOMAIN pmbox' : pmbox'[i].msg \notin Replies
  BY <1>1 DEF Free, SetDone, Replies
<1> DEFINE m == Request(msg, d, on)
<1>3. m \in Messages /\ m.msg = msg /\ m.data.on = on
  BY MessageType DEF Request, Message, Quiet
<1>4. dcbox' = Posted(dcbox, DCLen, m) /\ dev' = d /\ dcbox \in Seq(Messages)
  BY DEF Send, Frame, TypeOK, BoxesOK
<1> HIDE DEF m
<1>5. \A i \in DOMAIN dcbox' : dcbox'[i].msg \in Replies => dcbox'[i] = m
  BY <1>1, <1>3, <1>4, PostedFacts DEF Free
<1>6. AskedOn' <=> (worker = "SMARTSTART" \/ (worker = "PROHIBITED" /\ Off(d)))
  BY <1>4 DEF AskedOn, Off
<1>7. \A i \in DOMAIN dcbox' : dcbox'[i].msg = "SET_SHELF_STATE" => dcbox'[i].data.on = AskedOn'
  <2> TAKE i \in DOMAIN dcbox'
  <2> HAVE dcbox'[i].msg = "SET_SHELF_STATE"
  <2>1. dcbox'[i] = m /\ msg = "SET_SHELF_STATE"
    BY <1>3, <1>5 DEF Replies
  <2>2. dcbox'[i].data.on = on
    BY <1>3, <2>1
  <2>3. on = AskedOn'
    <3>1. AskedOn' \in BOOLEAN
      BY DEF AskedOn
    <3> QED
      BY <1>6, <2>1, <3>1
  <2> QED
    BY <2>2, <2>3
<1> QED
  BY <1>2, <1>7 DEF Bidden, Answered

\* The scan of GETSLOTSSTATE and of POWER_DELAY comes before anything is read.
LEMMA EarlyScan ==
    ASSUME Frame, Frame', ~clouded, ~clouded', Pass, Scan,
           worker \in {"GETSLOTSSTATE", "POWER_DELAY"}
    PROVE  Pass'
<1>1. /\ ask = "none" /\ UNCHANGED <<inauto_signal, pmbox>>
      /\ target = worker \/ target = "INIT"
      /\ inauto_signal' = "STATIC"
  BY LoopRanges DEF Scan, InWorker, Frame, Pass, Balanced
<1>2. CASE Finish /\ UNCHANGED ask
  <2>1. worker' = "none" /\ curnt_state' \in {"INIT", "GETSLOTSSTATE", "POWER_DELAY"}
    BY <1>1, <1>2 DEF Finish
  <2>2. NothingYet'
    BY <2>1, EarlyNothing
  <2> QED
    BY <1>1, <1>2, <2>2, FreshPass
<1>3. CASE ~(Finish /\ UNCHANGED <<ask, status, recuredPower, dcbox>>)
  <2>1. /\ UNCHANGED worker /\ dev \in DevicesOf(worker)
        /\ \/ Send(IF worker \in {"POWER_DELAY", "POWEROFF_IGNORANT", "SMARTSTART"}
                   THEN "SET_SHELF_STATE" ELSE "GET_SHELF_STATE", dev, worker = "SMARTSTART")
           \/ dev' = dev + 1 /\ UNCHANGED <<ask, dcbox>>
    BY <1>3 DEF Scan
  <2>2. NothingYet'
    BY <2>1, EarlyNothing
  <2>3. CASE UNCHANGED ask
    BY <1>1, <2>2, <2>3, FreshPass
  <2>4. CASE ~UNCHANGED ask
    <3>1. PICK msg \in {"SET_SHELF_STATE", "GET_SHELF_STATE"} : Send(msg, dev, FALSE)
      BY <2>1, <2>4
    <3>2. ask' = msg /\ ask' # "GET_SHELF_POWER"
      BY <3>1 DEF Send
    <3>3. Asking' /\ Meant'
      BY <2>1, <3>2 DEF Asking, Meant
    <3>4. Known' /\ Budget' /\ Believed' /\ Dealt'
      BY <2>2, <3>2, NothingClaimed
    <3>5. Bidden' /\ Answered'
      <4>1. /\ msg \in Replies /\ dev \in Devices /\ FALSE \in BOOLEAN
            /\ FALSE = (worker = "SMARTSTART" \/ (worker = "PROHIBITED" /\ Off(dev)))
        BY <2>1, <3>1, DevicesOfType DEF Replies
      <4>2. Free(dcbox, pmbox)
        BY <1>1, NothingAsked DEF Frame
      <4> DEFINE m == Request(msg, dev, FALSE)
      <4>3. m \in Messages /\ m.msg = msg /\ m.data.on = FALSE
        BY <4>1, MessageType DEF Request, Message, Quiet
      <4>4. dcbox' = Posted(dcbox, DCLen, m) /\ dcbox \in Seq(Messages)
        BY <3>1 DEF Send, Frame, TypeOK, BoxesOK
      <4> HIDE DEF m
      <4>5. \A i \in DOMAIN dcbox' : dcbox'[i].msg \in Replies => dcbox'[i] = m
        BY <4>2, <4>3, <4>4, PostedFacts DEF Free
      <4>6. ~AskedOn'
        BY <2>1 DEF AskedOn
      <4>7. Bidden'
        <5>1. \A i \in DOMAIN dcbox' : dcbox'[i].msg = "SET_SHELF_STATE" => dcbox'[i].data.on = FALSE
          BY <4>3, <4>5 DEF Replies
        <5>2. AskedOn' = FALSE
          <6>1. AskedOn' \in BOOLEAN
            BY DEF AskedOn
          <6> QED
            BY <4>6, <6>1
        <5> QED
          BY <5>1, <5>2 DEF Bidden
      <4>8. Answered'
        BY <1>1, <4>2 DEF Answered, SetDone, Free, Replies
      <4> QED
        BY <4>7, <4>8
    <3> QED
      BY <1>1, <3>3, <3>4, <3>5 DEF Pass, Balanced, Truthful, Obedient
  <2> QED
    BY <2>3, <2>4
<1> QED
  BY <1>2, <1>3 DEF Scan

\* When a loop is over all its devices are behind it.
LEMMA LoopOver ==
    ASSUME Flow, NEW y \in {"SOURCE_READ", "FAN_READ", "SLOTS_READ", "POWEROFF_IGNORANT"},
           worker = y, dev \notin DevicesOf(y)
    PROVE  \A d \in DevicesOf(y) : Passed(y, d)
<1>1. dev \in LoopRange(y)
  BY LoopRanges
<1>2. \A d \in DevicesOf(y) : d < dev
  <2>1. CASE y = "SOURCE_READ"
    BY <1>1, <2>1, ShelfAssumption DEF LoopRange, DevicesOf, Sources, Fan
  <2>2. CASE y = "FAN_READ"
    BY <1>1, <2>2, ShelfAssumption DEF LoopRange, DevicesOf, Fan
  <2>3. CASE y \in {"SLOTS_READ", "POWEROFF_IGNORANT"}
    BY <1>1, <2>3, ShelfAssumption DEF LoopRange, DevicesOf, Slots
  <2> QED
    BY <2>1, <2>2, <2>3
<1> QED
  BY <1>2 DEF Passed

LEMMA ScanOver ==
    ASSUME Frame, Frame', ~clouded, ~clouded', Pass, Scan, Finish,
           UNCHANGED <<ask, status, recuredPower, dcbox>>,
           worker \notin {"GETSLOTSSTATE", "POWER_DELAY"},
           dev \notin DevicesOf(worker) \/ worker = "SMARTSTART"
    PROVE  Pass'
<1>1. /\ worker # "none" /\ ask = "none" /\ worker # "PROHIBITED"
      /\ worker' = "none" /\ curnt_state' = target
      /\ UNCHANGED <<pmbox, crate, inauto_signal, powerLimitSource, actualAvailablePowerLimit>>
  BY DEF Scan, InWorker, Finish
<1>2. \A x \in Marks : Over(x)' <=> Over(x) \/ x = worker
  BY <1>1, WorkerDone
<1>3. \A y \in {"SOURCE_READ", "FAN_READ", "SLOTS_READ", "POWEROFF_IGNORANT"} :
         \A d \in DevicesOf(y) : Passed(y, d)' => Passed(y, d)
  <2> SUFFICES ASSUME NEW y \in {"SOURCE_READ", "FAN_READ", "SLOTS_READ", "POWEROFF_IGNORANT"},
                      NEW d \in DevicesOf(y), Passed(y, d)'
               PROVE  Passed(y, d)
    OBVIOUS
  <2>1. Over(y)'
    BY <1>1 DEF Passed
  <2>2. Over(y) \/ y = worker
    BY <1>2, <2>1 DEF Marks
  <2>3. CASE y = worker
    BY <2>3, LoopOver DEF Frame
  <2> QED
    BY <2>2, <2>3 DEF Passed
<1>4. \A d \in Devices : Read(d)' => Read(d)
  <2> SUFFICES ASSUME NEW d \in Devices, Read(d)' PROVE Read(d)
    OBVIOUS
  <2>1. /\ d \in Sources => d \in DevicesOf("SOURCE_READ")
        /\ d = Fan => d \in DevicesOf("FAN_READ")
        /\ d \in Slots => d \in DevicesOf("SLOTS_READ")
    BY DEF DevicesOf
  <2> QED
    BY <1>3, <2>1, DeviceKinds DEF Read
<1>5. \A d \in Slots : Passed("POWEROFF_IGNORANT", d)' => Passed("POWEROFF_IGNORANT", d)
  BY <1>3 DEF DevicesOf
<1>6. /\ Over("POWER_RESRV_CALC")' => Over("POWER_RESRV_CALC") \/ worker = "POWER_RESRV_CALC"
      /\ Over("PROHIBITED")' => Over("PROHIBITED")
  BY <1>1, <1>2 DEF Marks
<1>7. (~NewsPending' => ~NewsPending) /\ (~ProfilePending' => ~ProfilePending)
  BY <1>1, NewsKept
<1>8. Asking' /\ Bidden' /\ Answered' /\ Meant'
  BY <1>1, Silent
<1>9. ~NewsPending' /\ ~ProfilePending' => Obedient'
  <2> SUFFICES ASSUME ~NewsPending', ~ProfilePending' PROVE Dealt'
    BY <1>8 DEF Obedient
  <2>1. Dealt
    BY <1>7 DEF Pass, Obedient
  <2>2. \A d \in Slots : (On(d)' <=> On(d)) /\ (Switchable(d)' <=> Switchable(d))
    BY DEF On, Switchable, Here
  <2> QED
    BY <1>1, <1>5, <1>6, <2>1, <2>2 DEF Dealt, crate
<1>10. Over("PROHIBITED")' => actualAvailablePowerLimit' = Spare(Draw(Drawing))
  BY <1>1, <1>6 DEF Pass, Balanced, Budget
<1> QED
  BY <1>1, <1>4, <1>6, <1>7, <1>8, <1>9, <1>10, Turn

LEMMA ScanGoesOn ==
    ASSUME Frame, Frame', ~clouded, ~clouded', Pass, Scan,
           ~(Finish /\ UNCHANGED <<ask, status, recuredPower, dcbox>>),
           worker \notin {"GETSLOTSSTATE", "POWER_DELAY"}
    PROVE  Pass'
<1>1. /\ worker # "none" /\ ask = "none" /\ worker # "PROHIBITED" /\ worker' = worker
      /\ UNCHANGED <<curnt_state, pmbox, status, crate, inauto_signal, powerLimitSource,
                     actualAvailablePowerLimit>>
      /\ dev \in DevicesOf(worker) /\ dev \in Devices
      /\ recuredPower' = IF worker = "SMARTSTART" /\ Startable(dev)
                         THEN status[dev].power ELSE recuredPower
      /\ IF Asks(worker, dev)
         THEN Send(IF worker \in {"POWER_DELAY", "POWEROFF_IGNORANT", "SMARTSTART"}
                   THEN "SET_SHELF_STATE" ELSE "GET_SHELF_STATE", dev, worker = "SMARTSTART")
         ELSE dev' = dev + 1 /\ UNCHANGED <<ask, dcbox>>
  BY DevicesOfType DEF Scan, InWorker
<1>2. \A x : Over(x)' <=> Over(x)
  BY <1>1, SameWorker
<1>3. dev' = dev \/ (dev' = dev + 1 /\ ~Asks(worker, dev))
  BY <1>1 DEF Send
<1>4. \A d \in Devices : Read(d)' => Read(d)
  <2>1. worker \in {"SOURCE_READ", "FAN_READ", "SLOTS_READ"} => dev' = dev
    BY <1>3 DEF Asks
  <2> QED
    BY <1>1, <1>2, <2>1 DEF Read, Passed
<1>5. CASE Asks(worker, dev)
  <2>1. PICK msg \in {"SET_SHELF_STATE", "GET_SHELF_STATE"}, on \in BOOLEAN :
           /\ Send(msg, dev, on)
           /\ msg = IF worker \in {"POWEROFF_IGNORANT", "SMARTSTART"}
                    THEN "SET_SHELF_STATE" ELSE "GET_SHELF_STATE"
           /\ on = (worker = "SMARTSTART")
    BY <1>1, <1>5
  <2>2. ask' = msg /\ dev' = dev /\ msg \in Replies
        /\ \E m \in Messages : dcbox' = Posted(dcbox, DCLen, m)
    BY <1>1, <2>1, MessageType DEF Send, Replies
  <2>3. Bidden' /\ Answered'
    <3>1. on = (worker = "SMARTSTART" \/ (worker = "PROHIBITED" /\ Off(dev)))
      BY <1>1, <2>1
    <3> QED
      BY <1>1, <2>1, <2>2, <3>1, JustAsked
  <2>4. Asking'
    <3>1. CASE worker = "SMARTSTART"
      <4>1. Startable(dev) /\ Affordable(dev) /\ Here(dev) /\ ~On(dev)
        BY <1>5, <3>1 DEF Asks, Startable, Switchable
      <4>2. recuredPower' = status'[dev'].power /\ ask' = "SET_SHELF_STATE"
        BY <1>1, <2>1, <2>2, <3>1, <4>1
      <4>3. Affordable(dev)' /\ Here(dev)' /\ ~On(dev)'
        BY <1>1, <2>2, <4>1 DEF Affordable, Here, On
      <4> QED
        BY <1>1, <2>2, <4>2, <4>3 DEF Asking, Affordable, Here, On
    <3>2. CASE worker = "PASSIVE_CHECK"
      <4>1. status[dev].power = 0 /\ ask' = "GET_SHELF_STATE"
        BY <1>5, <2>1, <2>2, <3>2 DEF Asks
      <4> QED
        BY <1>1, <2>2, <3>2, <4>1 DEF Asking
    <3>3. CASE worker \notin {"SMARTSTART", "PASSIVE_CHECK"}
      BY <1>1, <2>2, <3>3 DEF Asking
    <3> QED
      BY <3>1, <3>2, <3>3
  <2>5. Meant'
    <3>1. worker = "SMARTSTART" => conf[dev] = "SmartlyStart"
      BY <1>5 DEF Asks, Startable
    <3> QED
      BY <1>1, <2>2, <3>1 DEF Meant, crate
  <2>6. (~NewsPending' => ~NewsPending) /\ (~ProfilePending' => ~ProfilePending)
    BY <1>1, <2>2, NewsKept
  <2>7. ~NewsPending' /\ ~ProfilePending' => Obedient'
    <3> SUFFICES ASSUME ~NewsPending', ~ProfilePending' PROVE Dealt'
      BY <2>5 DEF Obedient
    <3>1. Dealt
      BY <2>6 DEF Pass, Obedient
    <3>2. \A d \in Slots : (On(d)' <=> On(d)) /\ (Switchable(d)' <=> Switchable(d))
      BY <1>1 DEF On, Switchable, Here
    <3>3. \A d \in Slots : Passed("POWEROFF_IGNORANT", d)' <=> Passed("POWEROFF_IGNORANT", d)
      BY <1>1, <1>2, <2>2 DEF Passed
    <3> QED
      BY <1>1, <1>2, <3>1, <3>2, <3>3 DEF Dealt, crate
  <2>8. Over("PROHIBITED")' => actualAvailablePowerLimit' = Spare(Draw(Drawing))
    BY <1>1, <1>2 DEF Pass, Balanced, Budget
  <2>9. ask' # "GET_SHELF_POWER"
    BY <2>2
  <2> QED
    BY <1>1, <1>2, <1>4, <2>3, <2>4, <2>6, <2>7, <2>8, <2>9, Turn
<1>6. CASE ~Asks(worker, dev)
  <2>1. dev' = dev + 1 /\ UNCHANGED <<ask, dcbox>>
    BY <1>1, <1>6
  <2>2. Asking' /\ Bidden' /\ Answered' /\ Meant'
    BY <1>1, <2>1, Silent
  <2>3. (~NewsPending' => ~NewsPending) /\ (~ProfilePending' => ~ProfilePending)
    BY <1>1, <2>1, NewsKept
  <2>4. ~NewsPending' /\ ~ProfilePending' => Obedient'
    <3> SUFFICES ASSUME ~NewsPending', ~ProfilePending' PROVE Dealt'
      BY <2>2 DEF Obedient
    <3>1. Dealt
      BY <2>3 DEF Pass, Obedient
    <3>2. \A d \in Slots : (On(d)' <=> On(d)) /\ (Switchable(d)' <=> Switchable(d))
      BY <1>1 DEF On, Switchable, Here
    <3>3. \A d \in Slots : Passed("POWEROFF_IGNORANT", d)' =>
             Passed("POWEROFF_IGNORANT", d) \/ (worker = "POWEROFF_IGNORANT" /\ d = dev)
      <4> TAKE d \in Slots
      <4>1. d < dev + 1 => d < dev \/ d = dev
        BY <1>1, ShelfAssumption DEF Slots, Devices, Fan
      <4> QED
        BY <1>1, <1>2, <2>1, <4>1 DEF Passed
    <3>4. worker = "POWEROFF_IGNORANT" => ~MustGo(dev)
      BY <1>6 DEF Asks
    <3> QED
      BY <1>1, <1>2, <3>1, <3>2, <3>3, <3>4 DEF Dealt, crate, MustGo
  <2>5. Over("PROHIBITED")' => actualAvailablePowerLimit' = Spare(Draw(Drawing))
    BY <1>1, <1>2 DEF Pass, Balanced, Budget
  <2>6. ask' # "GET_SHELF_POWER"
    BY <1>1, <2>1
  <2> QED
    BY <1>1, <1>2, <1>4, <2>2, <2>3, <2>4, <2>5, <2>6, Turn
<1> QED
  BY <1>5, <1>6

LEMMA ScanPass ==
    ASSUME Frame, Frame', ~clouded, ~clouded', Pass, Scan
    PROVE  Pass'
<1>1. CASE worker \in {"GETSLOTSSTATE", "POWER_DELAY"}
  BY <1>1, EarlyScan
<1>2. CASE worker \notin {"GETSLOTSSTATE", "POWER_DELAY"}
  <2>1. CASE Finish /\ UNCHANGED <<ask, status, recuredPower, dcbox>>
    <3>1. dev \notin DevicesOf(worker) \/ worker = "SMARTSTART"
      BY <2>1 DEF Scan, Finish, InWorker
    <3> QED
      BY <1>2, <2>1, <3>1, ScanOver
  <2>2. CASE ~(Finish /\ UNCHANGED <<ask, status, recuredPower, dcbox>>)
    BY <1>2, <2>2, ScanGoesOn
  <2> QED
    BY <2>1, <2>2
<1> QED
  BY <1>1, <1>2

\* The slots have been read when power is handed out.
LEMMA SlotsKnown ==
    ASSUME Frame, Balanced,
           worker \in {"POWEROFF_IGNORANT", "PROHIBITED", "SMARTSTART"}
    PROVE  \A d \in Slots : Read(d) /\ On(d) = ~Off(d)
<1>1. Over("SLOTS_READ")
  BY Orders DEF Over, AtSignal
<1>2. \A d \in Slots : Read(d) /\ d \in Devices
  BY <1>1, Numbers, DeviceKinds DEF Read, Passed
<1>3. \A d \in Slots : status[d].on \in {"SLOT_ON", "SLOT_OFF"}
  BY <1>2 DEF Balanced, Known, StateRead, Frame, TypeOK, Looks
<1> QED
  BY <1>2, <1>3 DEF On, Off

LEMMA CalcPass ==
    ASSUME Frame, Frame', ~clouded, ~clouded', Pass, CalcProhib
    PROVE  Pass'
<1>1. /\ worker = "PROHIBITED" /\ ask = "none"
      /\ UNCHANGED <<status, pmbox, crate, inauto_signal, powerLimitSource, power_slots_now>>
  BY DEF CalcProhib, InWorker
<1>2. \A d \in Slots : Read(d) /\ On(d) = ~Off(d)
  BY <1>1, SlotsKnown DEF Pass
<1>3. \A d \in Slots : (On(d)' <=> On(d)) /\ (Switchable(d)' <=> Switchable(d))
  BY <1>1 DEF On, Switchable, Here
<1>4. /\ Over("SOURCE_READ") /\ Over("FAN_READ") /\ Over("SLOTS_READ")
      /\ Over("POWEROFF_IGNORANT") /\ Over("POWER_RESRV_CALC") /\ ~Over("PROHIBITED")
  BY <1>1, Orders DEF Over, AtSignal
<1>5. \A d \in Devices : Read(d)
  BY <1>4 DEF Read, Passed
<1>6. CASE Finish /\ Certain = {} /\ UNCHANGED <<ask, dcbox>>
           /\ actualAvailablePowerLimit' = Spare(power_slots_now)
  <2>1. worker' = "none" /\ curnt_state' = target /\ ask' = "none"
    BY <1>1, <1>6 DEF Finish
  <2>2. actualAvailablePowerLimit' = Spare(Draw(Drawing))
    BY <1>1, <1>6 DEF Pass, Balanced, Budget
  <2>3. Asking' /\ Bidden' /\ Answered' /\ Meant'
    BY <2>1, Silent
  <2>4. (~NewsPending' => ~NewsPending) /\ (~ProfilePending' => ~ProfilePending)
    BY <1>1, <1>6, NewsKept
  <2>5. ~NewsPending' /\ ~ProfilePending' => Obedient'
    <3> SUFFICES ASSUME ~NewsPending', ~ProfilePending' PROVE Dealt'
      BY <2>3 DEF Obedient
    <3>1. Dealt
      BY <2>4 DEF Pass, Obedient
    <3>2. \A d \in Slots : Passed("POWEROFF_IGNORANT", d)
      BY <1>4 DEF Passed
    <3>3. \A d \in Slots : Switchable(d) /\ conf[d] = "IgnorantStart" => On(d)
      <4> TAKE d \in Slots
      <4>1. Switchable(d) /\ conf[d] = "IgnorantStart" => ~Off(d)
        BY <1>6 DEF Certain
      <4>2. ~Off(d) => On(d)
        BY <1>2
      <4> QED
        BY <4>1, <4>2
    <3> QED
      BY <1>1, <1>3, <3>1, <3>2, <3>3 DEF Dealt, crate
  <2> QED
    BY <1>1, <1>4, <1>5, <2>1, <2>2, <2>3, <2>4, <2>5, Turn
<1>7. CASE UNCHANGED <<curnt_state, worker>>
           /\ \/ UNCHANGED <<ask, dcbox>>
              \/ \E d \in Slots :
                    \/ Switchable(d) /\ conf[d] = "SmartlyStart" /\ On(d)
                       /\ Send("SET_SHELF_STATE", d, FALSE)
                    \/ d \in Certain /\ Send("SET_SHELF_STATE", d, TRUE)
  <2>1. \A x : Over(x)' <=> Over(x)
    BY <1>1, <1>7, SameWorker
  <2>2. Dealt => Dealt'
    <3>1. \A d \in Slots : Passed("POWEROFF_IGNORANT", d)' <=> Passed("POWEROFF_IGNORANT", d)
      BY <1>1, <1>4, <1>7, <2>1 DEF Passed
    <3> QED
      BY <1>1, <1>3, <2>1, <3>1 DEF Dealt, crate
  <2>3. ASSUME Asking', Bidden', Answered', Meant', ask' # "GET_SHELF_POWER",
               ~NewsPending' => ~NewsPending, ~ProfilePending' => ~ProfilePending
        PROVE  Pass'
    <3>1. ~NewsPending' /\ ~ProfilePending' => Obedient'
      BY <2>2, <2>3 DEF Pass, Obedient
    <3>2. ~Over("PROHIBITED")'
      BY <1>4, <2>1
    <3> QED
      BY <1>1, <1>4, <1>5, <1>7, <2>3, <3>1, <3>2, Turn
  <2>4. CASE UNCHANGED <<ask, dcbox>>
    <3>1. Asking' /\ Bidden' /\ Answered' /\ Meant'
      BY <1>1, <2>4, Silent
    <3>2. (~NewsPending' => ~NewsPending) /\ (~ProfilePending' => ~ProfilePending)
      BY <1>1, <2>4, NewsKept
    <3> QED
      BY <1>1, <2>3, <2>4, <3>1, <3>2
  <2>5. ASSUME NEW d \in Slots, NEW on \in BOOLEAN, Send("SET_SHELF_STATE", d, on),
               Here(d), on = Off(d),
               conf[d] = IF Off(d) THEN "IgnorantStart" ELSE "SmartlyStart"
        PROVE  Pass'
    <3>1. d \in Devices /\ "SET_SHELF_STATE" \in Replies
      BY Numbers DEF Replies
    <3>2. ask' = "SET_SHELF_STATE" /\ dev' = d /\ worker' = "PROHIBITED"
          /\ \E m \in Messages : dcbox' = Posted(dcbox, DCLen, m)
      BY <1>1, <1>7, <2>5, <3>1, MessageType DEF Send
    <3>3. Bidden' /\ Answered'
      <4>1. on = (worker = "SMARTSTART" \/ (worker = "PROHIBITED" /\ Off(d)))
        BY <1>1, <2>5
      <4>2. UNCHANGED <<pmbox, worker, status>>
        BY <1>1, <1>7
      <4> QED
        BY <1>1, <2>5, <3>1, <4>1, <4>2, JustAsked
    <3>4. Asking'
      <4>1. Here(d)'
        BY <1>1, <2>5 DEF Here
      <4> QED
        BY <3>2, <4>1 DEF Asking, Here
    <3>5. Meant'
      <4>1. Off(d)' <=> Off(d)
        BY <1>1 DEF Off
      <4> QED
        BY <1>1, <2>5, <3>2, <4>1 DEF Meant, Off, crate
    <3>6. (~NewsPending' => ~NewsPending) /\ (~ProfilePending' => ~ProfilePending)
      BY <1>1, <3>2, NewsKept
    <3> QED
      BY <2>3, <3>2, <3>3, <3>4, <3>5, <3>6
  <2>6. CASE \E d \in Slots :
                \/ Switchable(d) /\ conf[d] = "SmartlyStart" /\ On(d)
                   /\ Send("SET_SHELF_STATE", d, FALSE)
                \/ d \in Certain /\ Send("SET_SHELF_STATE", d, TRUE)
    <3>1. PICK d \in Slots :
                \/ Switchable(d) /\ conf[d] = "SmartlyStart" /\ On(d)
                   /\ Send("SET_SHELF_STATE", d, FALSE)
                \/ d \in Certain /\ Send("SET_SHELF_STATE", d, TRUE)
      BY <2>6
    <3>2. CASE Switchable(d) /\ conf[d] = "SmartlyStart" /\ On(d)
               /\ Send("SET_SHELF_STATE", d, FALSE)
      <4>1. ~Off(d) /\ Here(d)
        BY <3>2 DEF On, Off, Switchable
      <4>2. FALSE = Off(d)
        BY <4>1 DEF Off
      <4> QED
        BY <2>5, <3>2, <4>1, <4>2
    <3>3. CASE d \in Certain /\ Send("SET_SHELF_STATE", d, TRUE)
      <4>1. Off(d) /\ Here(d) /\ conf[d] = "IgnorantStart"
        BY <3>3 DEF Certain, Switchable
      <4>2. TRUE = Off(d)
        BY <4>1 DEF Off
      <4> QED
        BY <2>5, <3>3, <4>1, <4>2
    <3> QED
      BY <3>1, <3>2, <3>3
  <2> QED
    BY <1>7, <2>4, <2>6
<1> QED
  BY <1>6, <1>7, CalcCases

-----------------------------------------------------------------------------
(* Answers *)

\* The other devices look as before, and are believed of as before.
LEMMA OthersTrue ==
    ASSUME Frame, worker # "none", UNCHANGED <<worker, plugged, powered>>, dev \in Devices,
           dev' \in {dev, dev + 1} \/ worker \notin ReadWorkers,
           ask' = "GET_SHELF_POWER" => dev' = dev,
           NEW d \in Devices, d # dev, status'[d] = status[d]
    PROVE  /\ StateRead(d)' => StateRead(d)
           /\ Read(d)' => Read(d)
           /\ StateTrue(d) => StateTrue(d)'
           /\ PowerTrue(d) => PowerTrue(d)'
<1>1. \A x : Over(x)' <=> Over(x)
  BY SameWorker
<1>2. worker \in ReadWorkers /\ d < dev' => d < dev
  BY ShelfAssumption DEF Devices, Fan
<1>3. Read(d)' => Read(d)
  BY <1>1, <1>2 DEF Read, Passed, ReadWorkers
<1>4. StateRead(d)' => StateRead(d)
  BY <1>3 DEF StateRead
<1>5. StateTrue(d) => StateTrue(d)'
  BY DEF StateTrue, Here, On
<1>6. PowerTrue(d) => PowerTrue(d)'
  BY DEF PowerTrue
<1> QED
  BY <1>3, <1>4, <1>5, <1>6

\* Before the power is handed out there is nothing to say of the budget, nor of
\* the profile.
LEMMA NotFar ==
    ASSUME worker' \in ReadWorkers \cup {"PASSIVE_CHECK"}
    PROVE  Budget' /\ Dealt'
<1>1. /\ ~Over("POWER_RESRV_CALC")' /\ ~Over("PROHIBITED")' /\ ~Over("POWEROFF_IGNORANT")'
      /\ worker' \notin {"POWER_RESRV_CALC", "PROHIBITED", "POWEROFF_IGNORANT"}
  BY Orders DEF Over, AtSignal, ReadWorkers
<1> QED
  BY <1>1 DEF Budget, Dealt, Passed

\* What a worker hears in a clean pass is the answer to its question.
LEMMA HeardTrue ==
    ASSUME Frame, Pass, Hear, ~clouded'
    PROVE  /\ ~clouded /\ Head(pmbox).of = dev /\ dev \in Devices /\ dev \in DevicesOf(worker)
           /\ worker # "none" /\ UNCHANGED <<worker, curnt_state, inauto_signal, plugged, powered, conf>>
           /\ Head(pmbox) \in Messages /\ Head(pmbox).msg = ask /\ ask \in Replies
           /\ pmbox # <<>> /\ pmbox' = Tail(pmbox)
           /\ ~NewsPending => Believed /\ AnswerTrue(Head(pmbox))
           /\ ~NewsPending /\ ask = "SET_SHELF_STATE" /\ plugged[dev] => powered[dev] = AskedOn
<1>1. /\ ~clouded /\ Head(pmbox).of = dev
      /\ worker # "none" /\ UNCHANGED <<worker, curnt_state, inauto_signal, plugged, powered, conf>>
      /\ Head(pmbox).msg = ask /\ ask # "none"
      /\ pmbox # <<>> /\ pmbox' = Tail(pmbox)
  BY DEF Hear, Awaits, fsm, crate
<1>2. pmbox \in Seq(Messages) /\ ask \in Replies
  BY <1>1 DEF Frame, TypeOK, BoxesOK
<1>3. dev \in DevicesOf(worker) /\ dev \in Devices
  BY <1>1, DevicesOfType DEF Frame, Flow
<1>4. Head(pmbox) \in Messages /\ 1 \in DOMAIN pmbox /\ Head(pmbox) = pmbox[1]
  BY <1>1, <1>2
<1>5. ~NewsPending => Believed /\ AnswerTrue(Head(pmbox))
  BY <1>1, <1>2, <1>4 DEF Pass, Truthful, Answered
<1>6. ~NewsPending /\ ask = "SET_SHELF_STATE" /\ plugged[dev] => powered[dev] = AskedOn
  BY <1>1, <1>4 DEF Pass, Truthful, Answered, SetDone
<1> QED
  BY <1>1, <1>2, <1>3, <1>4, <1>5, <1>6

LEMMA HearPowerPass ==
    ASSUME Frame, Frame', ~clouded', Pass, HearPower
    PROVE  Pass'
<1>1. /\ ~clouded /\ Head(pmbox).of = dev /\ dev \in Devices /\ dev \in DevicesOf(worker)
      /\ worker # "none" /\ UNCHANGED <<worker, curnt_state, inauto_signal, plugged, powered, conf>>
      /\ Head(pmbox) \in Messages /\ Head(pmbox).msg = ask
      /\ pmbox # <<>> /\ pmbox' = Tail(pmbox)
      /\ ~NewsPending => Believed /\ AnswerTrue(Head(pmbox))
  BY HeardTrue DEF HearPower
<1>2. /\ ask = "GET_SHELF_POWER" /\ ask' = "none" /\ dev' = dev + 1 /\ UNCHANGED dcbox
      /\ status' = [status EXCEPT ![dev].power = Head(pmbox).data.power]
      /\ worker \in ReadWorkers /\ status \in [Devices -> Looks]
  BY DEF HearPower, Frame, Flow, TypeOK
<1>3. Asking' /\ Bidden' /\ Answered' /\ Meant'
  BY <1>2, Silent
<1>4. Budget' /\ Dealt'
  BY <1>1, <1>2, NotFar
<1>5. ~NewsPending' => ~NewsPending
  BY <1>1, <1>2, NewsKept DEF Replies
<1>6. \A d \in Devices : d # dev =>
         /\ (StateRead(d)' => StateRead(d)) /\ (Read(d)' => Read(d))
         /\ (StateTrue(d) => StateTrue(d)') /\ (PowerTrue(d) => PowerTrue(d)')
         /\ status'[d] = status[d]
  BY <1>1, <1>2, OthersTrue
<1>7. /\ status'[dev].on = status[dev].on /\ status'[dev].present = status[dev].present
      /\ status'[dev].health = status[dev].health /\ status'[dev].passive = status[dev].passive
      /\ status'[dev].power = Head(pmbox).data.power
  BY <1>1, <1>2 DEF Looks
<1>8. StateRead(dev)
  BY <1>2 DEF StateRead
<1>9. Known'
  BY <1>1, <1>6, <1>7, <1>8 DEF Pass, Balanced, Known
<1>10. ~NewsPending' => Believed'
  <2> SUFFICES ASSUME ~NewsPending' PROVE Believed'
    OBVIOUS
  <2>1. Believed /\ AnswerTrue(Head(pmbox))
    BY <1>1, <1>5
  <2>2. StateTrue(dev) /\ ~Switched
    BY <1>1, <1>2, <1>8, <2>1 DEF Believed, Switched
  <2> DEFINE x == dev
  <2>3. PICK d \in Devices : d = dev
    BY <1>1
  <2>4. StateTrue(d)'
    BY <1>1, <1>7, <2>2, <2>3 DEF StateTrue, Here, On
  <2>5. PowerTrue(d)'
    <3>1. status'[d].power = IF plugged[d] THEN Power[d] ELSE 0
      BY <1>1, <1>2, <1>7, <2>1, <2>3 DEF AnswerTrue
    <3>2. CASE d \in Slots
      <4>1. Power[d] \in Nat
        BY <2>3, ShelfAssumption
      <4> QED
        BY <1>1, <3>1, <3>2, <4>1 DEF PowerTrue
    <3>3. CASE d \notin Slots
      <4>1. Here(d) /\ On(d)
        BY <1>2, <2>3, <3>3 DEF Pass, Balanced, Asking
      <4>2. plugged[d] /\ powered[d]
        BY <2>2, <2>3, <4>1 DEF StateTrue
      <4> QED
        BY <1>1, <3>1, <3>3, <4>2 DEF PowerTrue
    <3> QED
      BY <3>2, <3>3
  <2>6. \A e \in Devices : e # dev => (StateRead(e)' => StateTrue(e)') /\ (Read(e)' => PowerTrue(e)')
    BY <1>6, <2>1 DEF Believed
  <2>7. \A e \in Devices : (StateRead(e)' => StateTrue(e)') /\ (Read(e)' => PowerTrue(e)')
    BY <2>3, <2>4, <2>5, <2>6
  <2> QED
    BY <2>7 DEF Believed
<1>11. inauto_signal' = "STATIC"
  BY <1>1 DEF Pass, Balanced
<1> QED
  BY <1>3, <1>4, <1>9, <1>10, <1>11 DEF Pass, Balanced, Truthful, Obedient

\* What the device looks like once its state has been heard of.
LEMMA HeardState ==
    ASSUME Frame, Frame', ~clouded', Pass, HearState
    PROVE  /\ ~clouded /\ dev \in Devices /\ dev \in DevicesOf(worker)
           /\ worker \in ReadWorkers \cup {"GETSLOTSSTATE", "PASSIVE_CHECK"}
           /\ UNCHANGED <<worker, curnt_state, inauto_signal, plugged, powered, conf>>
           /\ \A d \in Devices : d # dev => status'[d] = status[d]
           /\ worker = "PASSIVE_CHECK" \/ \E r \in {Head(pmbox).data} :
                 /\ status'[dev].present = r.present
                 /\ status'[dev].on = OnOff(r)
                 /\ worker = "SLOTS_READ" => status'[dev].health = Healthy(r) /\ ~status'[dev].passive
           /\ ~NewsPending' => Believed /\ AnswerTrue(Head(pmbox)) /\ ~Switched
           /\ Head(pmbox).of = dev /\ Head(pmbox).msg = "GET_SHELF_STATE"
<1>1. /\ ~clouded /\ Head(pmbox).of = dev /\ dev \in Devices /\ dev \in DevicesOf(worker)
      /\ worker # "none" /\ UNCHANGED <<worker, curnt_state, inauto_signal, plugged, powered, conf>>
      /\ Head(pmbox) \in Messages /\ Head(pmbox).msg = ask
      /\ pmbox # <<>> /\ pmbox' = Tail(pmbox)
      /\ ~NewsPending => Believed /\ AnswerTrue(Head(pmbox))
  BY HeardTrue DEF HearState
<1>2. /\ ask = "GET_SHELF_STATE" /\ status \in [Devices -> Looks]
      /\ worker \in ReadWorkers \cup {"GETSLOTSSTATE", "PASSIVE_CHECK"}
  BY DEF HearState, Frame, Flow, TypeOK
<1>3. \A d \in Devices : d # dev => status'[d] = status[d]
  BY <1>2 DEF HearState
<1>4. PICK r : r = Head(pmbox).data
  OBVIOUS
<1>5. /\ worker # "PASSIVE_CHECK" =>
            /\ status'[dev].present = r.present /\ status'[dev].on = OnOff(r)
            /\ worker = "SLOTS_READ" => status'[dev].health = Healthy(r) /\ ~status'[dev].passive
  <2> DEFINE look == Seen(dev, r)
  <2>1. status'[dev] = look \/ status'[dev] = [look EXCEPT !.power = 0]
    BY <1>1, <1>2, <1>4 DEF HearState
  <2>2. ASSUME worker # "PASSIVE_CHECK"
        PROVE  /\ look.present = r.present /\ look.on = OnOff(r)
               /\ worker = "SLOTS_READ" => look.health = Healthy(r) /\ look.passive = FALSE
               /\ DOMAIN look = {"present", "passive", "on", "health", "power"}
    <3>1. status[dev] \in Looks
      BY <1>1, <1>2
    <3> QED
      BY <1>2, <2>2, <3>1 DEF Seen, Looks, ReadWorkers
  <2> HIDE DEF look
  <2> QED
    BY <2>1, <2>2
<1>6. dcbox' = dcbox \/ \E m \in Messages : dcbox' = Posted(dcbox, DCLen, m)
  <2>1. Send("GET_SHELF_POWER", dev, FALSE) \/ Alarm(dev) \/ UNCHANGED dcbox
    BY DEF HearState
  <2>2. "GET_SHELF_POWER" \in Replies
    BY DEF Replies
  <2>3. Request("GET_SHELF_POWER", dev, FALSE) \in Messages /\ Failure(dev) \in Messages
    BY <1>1, <2>2, MessageType
  <2> QED
    BY <2>1, <2>3 DEF Send, Alarm
<1>7. ~NewsPending' => Believed /\ AnswerTrue(Head(pmbox)) /\ ~Switched
  BY <1>1, <1>2, <1>6, NewsKept DEF Replies, Switched
<1> QED
  BY <1>1, <1>2, <1>3, <1>4, <1>5, <1>7

LEMMA HearStatePass ==
    ASSUME Frame, Frame', ~clouded', Pass, HearState
    PROVE  Pass'
<1>1. /\ ~clouded /\ dev \in Devices /\ dev \in DevicesOf(worker)
      /\ worker \in ReadWorkers \cup {"GETSLOTSSTATE", "PASSIVE_CHECK"}
      /\ UNCHANGED <<worker, curnt_state, inauto_signal, plugged, powered, conf>>
      /\ \A d \in Devices : d # dev => status'[d] = status[d]
      /\ worker = "PASSIVE_CHECK" \/ \E r \in {Head(pmbox).data} :
            /\ status'[dev].present = r.present
            /\ status'[dev].on = OnOff(r)
            /\ worker = "SLOTS_READ" => status'[dev].health = Healthy(r) /\ ~status'[dev].passive
      /\ ~NewsPending' => Believed /\ AnswerTrue(Head(pmbox)) /\ ~Switched
      /\ Head(pmbox).of = dev /\ Head(pmbox).msg = "GET_SHELF_STATE"
  BY HeardState
<1>2. inauto_signal' = "STATIC" /\ worker # "none"
  BY <1>1 DEF Pass, Balanced, HearState, Hear, Awaits
<1>3. CASE worker = "GETSLOTSSTATE"
  <2>1. NothingYet' /\ ask' = "none"
    BY <1>1, <1>3, EarlyNothing DEF HearState
  <2> QED
    BY <1>2, <2>1, FreshPass
<1>4. CASE worker = "PASSIVE_CHECK"
  <2>1. /\ ask' = "none" /\ dev' = dev + 1
        /\ status \in [Devices -> Looks] /\ dev \in Slots
        /\ \E r \in {Head(pmbox).data} :
              IF r.hotswap /\ ~r.eeprom
              THEN status' = [status EXCEPT ![dev] =
                      [@ EXCEPT !.power = SlotMaxPower, !.passive = FALSE, !.health = "ERROR"]]
              ELSE status' = [status EXCEPT ![dev] = [@ EXCEPT !.passive = TRUE, !.health = "OK"]]
    BY <1>1, <1>4 DEF HearState, Frame, TypeOK, Seen, DevicesOf
  <2>2. Asking' /\ Bidden' /\ Answered' /\ Meant'
    BY <2>1, Silent
  <2>3. Budget' /\ Dealt'
    BY <1>1, <1>4, NotFar
  <2>4. \A x : Over(x)' <=> Over(x)
    BY <1>1, <1>2, SameWorker
  <2>5. \A d \in Devices : (Read(d)' <=> Read(d)) /\ (StateRead(d)' <=> Read(d))
    BY <1>1, <1>4, <2>1, <2>4 DEF Read, Passed, StateRead
  <2>6. Read(dev)
    <3>1. Over("SLOTS_READ")
      BY <1>4, Orders DEF Over, AtSignal
    <3>2. dev \in Devices
      BY <1>1
    <3> QED
      BY <2>1, <3>1, <3>2, DeviceKinds DEF Read, Passed
  <2>7. status'[dev].on = status[dev].on /\ status'[dev].present = status[dev].present
    <3>1. status[dev] \in Looks
      BY <1>1, <2>1
    <3>2. \/ status'[dev] = [status[dev] EXCEPT !.power = SlotMaxPower, !.passive = FALSE,
                                                !.health = "ERROR"]
          \/ status'[dev] = [status[dev] EXCEPT !.passive = TRUE, !.health = "OK"]
      BY <1>1, <2>1
    <3> QED
      BY <3>1, <3>2 DEF Looks
  <2>8. Known'
    BY <1>1, <2>5, <2>7 DEF Pass, Balanced, Known, StateRead
  <2>9. ~NewsPending' => Believed'
    <3> SUFFICES ASSUME ~NewsPending' PROVE Believed'
      OBVIOUS
    <3>1. Believed /\ ~Switched /\ StateTrue(dev) /\ PowerTrue(dev)
      BY <1>1, <2>6 DEF Believed, StateRead
    <3>2. PICK d \in Devices : d = dev
      BY <1>1
    <3>3. ~(plugged[d] /\ Answers(d))
      <4>1. status[d].power = 0
        BY <1>4, <3>2 DEF Pass, Balanced, Asking, HearState
      <4>2. Power[d] \in Nat /\ d \in Slots
        BY <2>1, <3>2, ShelfAssumption
      <4>3. ~(plugged[d] /\ Power[d] > 0)
        BY <3>1, <3>2, <4>1, <4>2 DEF PowerTrue
      <4> QED
        BY <4>3 DEF Answers
    <3>4. StateTrue(d)'
      BY <1>1, <2>7, <3>1, <3>2, <3>3 DEF StateTrue, Here, On, Answers
    <3>5. PowerTrue(d)'
      <4>1. status'[d].power \in Nat /\ status'[d].power >= status[d].power
        <5>1. status[d].power = 0
          BY <1>4, <3>2 DEF Pass, Balanced, Asking, HearState
        <5>2. status'[d].power \in Nat
          BY DEF Frame, TypeOK, Looks
        <5> QED
          BY <5>1, <5>2
      <4>2. Power[d] \in Nat /\ status[d].power \in Nat /\ d \in Slots
        BY <2>1, <3>2, ShelfAssumption DEF Looks
      <4> QED
        BY <1>1, <3>1, <3>2, <4>1, <4>2 DEF PowerTrue
    <3>6. \A e \in Devices : e # dev => (StateTrue(e) => StateTrue(e)') /\ (PowerTrue(e) => PowerTrue(e)')
      BY <1>1, <1>2, <1>4, <2>1, OthersTrue DEF ReadWorkers
    <3>7. \A e \in Devices : (StateRead(e)' => StateTrue(e)') /\ (Read(e)' => PowerTrue(e)')
      BY <2>5, <3>1, <3>2, <3>4, <3>5, <3>6 DEF Believed, StateRead
    <3> QED
      BY <3>7 DEF Believed
  <2> QED
    BY <1>2, <2>2, <2>3, <2>8, <2>9 DEF Pass, Balanced, Truthful, Obedient
<1>5. CASE worker \in ReadWorkers
  <2>1. PICK r : r = Head(pmbox).data
    OBVIOUS
  <2>2. /\ status'[dev].present = r.present /\ status'[dev].on = OnOff(r)
        /\ worker = "SLOTS_READ" => status'[dev].health = Healthy(r) /\ ~status'[dev].passive
        /\ dev \in Slots <=> worker = "SLOTS_READ"
        /\ status'[dev].on # "UNKNOWN"
    <3>1. dev \in Slots <=> worker = "SLOTS_READ"
      BY <1>1, <1>5, DeviceKinds DEF DevicesOf, ReadWorkers
    <3> QED
      BY <1>1, <1>5, <2>1, <3>1 DEF ReadWorkers, OnOff
  <2>3. \A x : Over(x)' <=> Over(x)
    BY <1>1, <1>2, SameWorker
  <2>4. Budget' /\ Dealt'
    BY <1>1, <1>5, NotFar
  <2>5. PICK d \in Devices : d = dev
    BY <1>1
  <2>6. ~NewsPending' => StateTrue(d)'
    <3> SUFFICES ASSUME ~NewsPending' PROVE StateTrue(d)'
      OBVIOUS
    <3>1. /\ r.present = plugged[d] /\ r.on = powered[d]
          /\ r.hotswap = (d \in Hotswap \/ d \notin Slots)
          /\ r.eeprom = (d \in Eeprom)
      BY <1>1, <2>1, <2>5 DEF AnswerTrue
    <3>2. Here(d)' = plugged'[d] /\ (On(d)' = powered'[d])
      <4>1. powered[d] \in BOOLEAN /\ (OnOff(r) = "SLOT_ON" <=> r.on)
        BY DEF Frame, TypeOK, OnOff
      <4> QED
        BY <1>1, <2>2, <2>5, <3>1, <4>1 DEF Here, On
    <3>3. d \in Slots /\ Answers(d) => status'[d].health = "OK" /\ ~status'[d].passive
      BY <2>2, <2>5, <3>1 DEF Answers, Healthy
    <3> QED
      BY <3>2, <3>3 DEF StateTrue, Answers
  <2>7. inauto_signal' = "STATIC"
    BY <1>2
  <2>8. CASE ask' = "none"
    <3>1. /\ dev' = dev + 1 /\ status'[d].power = 0
          /\ ~(IF d \in Slots THEN r.present ELSE r.present /\ r.on)
      <4>1. ~(\/ worker = "SLOTS_READ" /\ r.present
              \/ worker \in {"SOURCE_READ", "FAN_READ"} /\ r.present /\ r.on)
        BY <2>1, <2>8 DEF HearState, Send
      <4>2. /\ dev' = dev + 1
            /\ status' = [status EXCEPT ![dev] = [Seen(dev, r) EXCEPT !.power = 0]]
        BY <1>5, <2>1, <4>1 DEF HearState, ReadWorkers
      <4>3. "power" \in DOMAIN Seen(dev, r) /\ status'[dev] = [Seen(dev, r) EXCEPT !.power = 0]
        <5>1. status[dev] \in Looks /\ status \in [Devices -> Looks]
          BY <1>1 DEF Frame, TypeOK
        <5> QED
          BY <1>1, <1>5, <4>2, <5>1 DEF Seen, Looks, ReadWorkers
      <4>4. status'[dev].power = 0
        BY <4>3
      <4> QED
        BY <1>5, <2>2, <2>5, <4>1, <4>2, <4>4 DEF ReadWorkers
    <3>2. Asking' /\ Bidden' /\ Answered' /\ Meant'
      BY <2>8, Silent
    <3>3. \A e \in Devices : e # dev =>
             /\ (StateRead(e)' => StateRead(e)) /\ (Read(e)' => Read(e))
             /\ (StateTrue(e) => StateTrue(e)') /\ (PowerTrue(e) => PowerTrue(e)')
      BY <1>1, <1>2, <2>8, <3>1, OthersTrue
    <3>4. Known'
      BY <1>1, <2>2, <3>3 DEF Pass, Balanced, Known
    <3>5. ~NewsPending' => Believed'
      <4> SUFFICES ASSUME ~NewsPending' PROVE Believed'
        OBVIOUS
      <4>1. StateTrue(d)' /\ r.present = plugged[d] /\ r.on = powered[d]
        BY <1>1, <2>1, <2>5, <2>6 DEF AnswerTrue
      <4>2. PowerTrue(d)'
        BY <1>1, <3>1, <4>1 DEF PowerTrue
      <4>3. Believed
        BY <1>1
      <4>4. \A e \in Devices : (StateRead(e)' => StateTrue(e)') /\ (Read(e)' => PowerTrue(e)')
        BY <2>5, <3>3, <4>1, <4>2, <4>3 DEF Believed
      <4> QED
        BY <4>4 DEF Believed
    <3> QED
      BY <2>4, <2>7, <3>2, <3>4, <3>5 DEF Pass, Balanced, Truthful, Obedient
  <2>9. CASE ask' # "none"
    <3>1. /\ Send("GET_SHELF_POWER", dev, FALSE)
          /\ IF d \in Slots THEN r.present ELSE r.present /\ r.on
      <4>1. \/ worker = "SLOTS_READ" /\ r.present
            \/ worker \in {"SOURCE_READ", "FAN_READ"} /\ r.present /\ r.on
        BY <2>1, <2>9 DEF HearState
      <4> QED
        BY <2>1, <2>2, <2>5, <4>1 DEF HearState
    <3>2. ask' = "GET_SHELF_POWER" /\ dev' = dev
      BY <3>1 DEF Send
    <3>3. Asking' /\ Meant'
      <4>1. Here(d)' /\ (d \in Slots \/ On(d)')
        BY <2>2, <2>5, <3>1 DEF Here, On, OnOff
      <4> QED
        BY <2>5, <3>2, <4>1 DEF Asking, Meant, Here, On
    <3>4. Free(dcbox, pmbox')
      BY Heard DEF HearState, Frame
    <3>5. Bidden' /\ Answered'
      <4> DEFINE m == Request("GET_SHELF_POWER", dev, FALSE)
      <4>1. m \in Messages /\ m.msg = "GET_SHELF_POWER"
        BY <1>1, MessageType DEF Replies
      <4>2. dcbox' = Posted(dcbox, DCLen, m) /\ dcbox \in Seq(Messages)
        BY <3>1 DEF Send, Frame, TypeOK, BoxesOK
      <4> HIDE DEF m
      <4>3. \A i \in DOMAIN dcbox' : dcbox'[i].msg # "SET_SHELF_STATE"
        BY <3>4, <4>1, <4>2, PostedFacts DEF Free, Replies
      <4> QED
        BY <3>4, <4>3 DEF Bidden, Answered, SetDone, Free, Replies
    <3>6. ~Read(d)' /\ \A e \in Devices : e # dev =>
             /\ (StateRead(e)' => StateRead(e)) /\ (Read(e)' => Read(e))
             /\ (StateTrue(e) => StateTrue(e)') /\ (PowerTrue(e) => PowerTrue(e)')
      <4>1. ~Over(worker) /\ ~(dev < dev)
        <5>1. Order[worker] \in 0 .. 10
          BY <1>5, Orders DEF ReadWorkers
        <5>2. ~(Order[worker] > Order[worker])
          BY <5>1
        <5>3. dev \in 0 .. Fan
          BY <1>1, Numbers
        <5> QED
          BY <1>2, <5>2, <5>3, Numbers DEF Over, AtSignal
      <4>2. ~Passed(worker, d)'
        BY <1>1, <2>3, <2>5, <3>2, <4>1 DEF Passed
      <4>3. ~Read(d)'
        BY <1>1, <1>5, <2>5, <4>2, DeviceKinds DEF Read, ReadWorkers, DevicesOf
      <4> QED
        BY <1>1, <1>2, <3>2, <4>3, OthersTrue
    <3>7. Known'
      BY <1>1, <2>2, <3>6 DEF Pass, Balanced, Known
    <3>8. ~NewsPending' => Believed'
      <4> SUFFICES ASSUME ~NewsPending' PROVE Believed'
        OBVIOUS
      <4>1. StateTrue(d)' /\ Believed
        BY <1>1, <2>6
      <4>2. \A e \in Devices : (StateRead(e)' => StateTrue(e)') /\ (Read(e)' => PowerTrue(e)')
        BY <2>5, <3>6, <4>1 DEF Believed
      <4> QED
        BY <4>2 DEF Believed
    <3> QED
      BY <2>4, <2>7, <3>3, <3>5, <3>7, <3>8 DEF Pass, Balanced, Truthful, Obedient
  <2> QED
    BY <2>8, <2>9
<1> QED
  BY <1>1, <1>3, <1>4, <1>5

-----------------------------------------------------------------------------
(* Answers to a request to switch *)

LEMMA DrawSwitched ==
    ASSUME status \in [Devices -> Looks], NEW d \in Slots, NEW on,
           status' = [status EXCEPT ![d].on = on]
    PROVE  /\ \A e \in Devices : /\ e # d => status'[e] = status[e]
                                 /\ status'[e].power = status[e].power
                                 /\ status'[e].present = status[e].present
                                 /\ status'[e].health = status[e].health
                                 /\ status'[e].passive = status[e].passive
           /\ status'[d].on = on
           /\ [e \in Devices |-> status'[e].power] = [e \in Devices |-> status[e].power]
           /\ SourceLimit' = SourceLimit
<1>1. d \in Devices /\ d \notin Sources
  BY Numbers, DeviceKinds
<1>2. /\ \A e \in Devices : e # d => status'[e] = status[e]
      /\ status'[d] = [status[d] EXCEPT !.on = on] /\ status[d] \in Looks
  BY <1>1
<1>3. /\ status'[d].on = on /\ status'[d].power = status[d].power
      /\ status'[d].present = status[d].present /\ status'[d].health = status[d].health
      /\ status'[d].passive = status[d].passive
  BY <1>2 DEF Looks
<1>4. \A e \in Devices : status'[e].power = status[e].power
  BY <1>2, <1>3
<1>5. SourceLimit' = SourceLimit
  <2>1. Working' = Working /\ \A e \in Sources : status'[e] = status[e]
    BY <1>1, <1>2, Numbers DEF Working, Here, On
  <2>2. Rated' = Rated
    BY <2>1 DEF Rated, Working
  <2> QED
    BY <2>2 DEF SourceLimit
<1> QED
  BY <1>2, <1>3, <1>4, <1>5

\* What the slots draw when the manager's view of one slot's switch changes.
LEMMA DrawingSwitched ==
    ASSUME status \in [Devices -> Looks], NEW d \in Slots, NEW on \in {"SLOT_ON", "SLOT_OFF"},
           status' = [status EXCEPT ![d].on = on], Here(d)
    PROVE  /\ ~On(d) /\ on = "SLOT_ON" => Draw(Drawing)' = Draw(Drawing) + status[d].power
           /\ On(d) /\ on = "SLOT_OFF" => Draw(Drawing)' = Draw(Drawing) - status[d].power
           /\ (On(d) <=> on = "SLOT_ON") => Draw(Drawing)' = Draw(Drawing)
<1>1. /\ \A e \in Devices : /\ e # d => status'[e] = status[e]
                            /\ status'[e].present = status[e].present
      /\ status'[d].on = on
      /\ [e \in Devices |-> status'[e].power] = [e \in Devices |-> status[e].power]
  BY DrawSwitched
<1>2. d \in Devices /\ Slots \subseteq Devices
  BY Numbers
<1>3. PICK f : f = [e \in Devices |-> status[e].power]
  OBVIOUS
<1>4. PICK S : S = Drawing
  OBVIOUS
<1>5. PICK T : T = Drawing'
  OBVIOUS
<1>6. S \subseteq Devices /\ T \subseteq Devices
  BY <1>2, <1>4, <1>5 DEF Drawing
<1>7. \A e \in Devices : f[e] \in Nat /\ f[e] = status[e].power
  BY <1>3 DEF Looks
<1>8. Draw(Drawing) = SumFunctionOnSet(f, S) /\ Draw(Drawing)' = SumFunctionOnSet(f, T)
  BY <1>1, <1>3, <1>4, <1>5 DEF Draw
<1>9. T = IF on = "SLOT_ON" THEN S \cup {d} ELSE S \ {d}
  BY <1>1, <1>2, <1>4, <1>5 DEF Drawing, Here, On
<1>10. d \in S <=> On(d)
  BY <1>4 DEF Drawing
<1>11. IsFiniteSet(S) /\ IsFiniteSet(T)
  BY <1>6, DevicesFinite
<1>12. SumFunctionOnSet(f, S) \in Nat /\ SumFunctionOnSet(f, T) \in Nat
  BY <1>6, <1>7, <1>11, SumType
<1>a. PICK a \in Nat : a = SumFunctionOnSet(f, S)
  BY <1>12
<1>b. PICK b \in Nat : b = SumFunctionOnSet(f, T)
  BY <1>12
<1>p. PICK p \in Nat : p = f[d] /\ p = status[d].power
  BY <1>2, <1>7
<1>i. (\A e \in S : f[e] \in Int) /\ (\A e \in T : f[e] \in Int)
  BY <1>6, <1>7
<1>13. CASE ~On(d) /\ on = "SLOT_ON"
  <2>1. d \in T /\ T \ {d} = S
    BY <1>9, <1>10, <1>13
  <2>2. SumFunctionOnSet(f, T) = f[d] + SumFunctionOnSet(f, T \ {d})
    BY <1>11, <1>i, <2>1, SumTake
  <2>3. b = p + a
    BY <1>a, <1>b, <1>p, <2>1, <2>2
  <2>4. Draw(Drawing) = a /\ Draw(Drawing)' = b
    BY <1>8, <1>a, <1>b
  <2> QED
    BY <1>p, <1>13, <2>3, <2>4
<1>14. CASE On(d) /\ on = "SLOT_OFF"
  <2>1. d \in S /\ S \ {d} = T
    BY <1>9, <1>10, <1>14
  <2>2. SumFunctionOnSet(f, S) = f[d] + SumFunctionOnSet(f, S \ {d})
    BY <1>11, <1>i, <2>1, SumTake
  <2>3. a = p + b
    BY <1>a, <1>b, <1>p, <2>1, <2>2
  <2>4. Draw(Drawing) = a /\ Draw(Drawing)' = b
    BY <1>8, <1>a, <1>b
  <2> QED
    BY <1>p, <1>14, <2>3, <2>4
<1>15. CASE On(d) <=> on = "SLOT_ON"
  <2>1. S = T
    BY <1>9, <1>10, <1>15
  <2> QED
    BY <1>8, <1>15, <2>1
<1> QED
  BY <1>13, <1>14, <1>15

\* What a worker that switches slots after they were read has heard.
LEMMA HeardSet ==
    ASSUME Frame, Frame', ~clouded', Pass, HearSet, worker # "POWER_DELAY"
    PROVE  /\ ~clouded /\ dev \in Slots /\ dev \in Devices
           /\ worker \in {"POWEROFF_IGNORANT", "PROHIBITED", "SMARTSTART"}
           /\ UNCHANGED <<worker, curnt_state, inauto_signal, plugged, powered, conf, powerLimitSource>>
           /\ ask = "SET_SHELF_STATE" /\ ask' = "none"
           /\ Asking' /\ Bidden' /\ Answered' /\ Meant' /\ Known'
           /\ ~NewsPending' => ~NewsPending /\ Believed'
           /\ ~ProfilePending' => ~ProfilePending
           /\ \A x : Over(x)' <=> Over(x)
           /\ \A d \in Slots : On(d) = ~Off(d)
<1>1. /\ ~clouded /\ Head(pmbox).of = dev /\ dev \in Devices /\ dev \in DevicesOf(worker)
      /\ worker # "none" /\ UNCHANGED <<worker, curnt_state, inauto_signal, plugged, powered, conf>>
      /\ Head(pmbox) \in Messages /\ Head(pmbox).msg = ask
      /\ pmbox # <<>> /\ pmbox' = Tail(pmbox)
      /\ ~NewsPending => Believed /\ AnswerTrue(Head(pmbox))
  BY HeardTrue DEF HearSet
<1>2. /\ ask = "SET_SHELF_STATE" /\ ask' = "none" /\ UNCHANGED dcbox
      /\ status \in [Devices -> Looks]
      /\ worker \in {"POWEROFF_IGNORANT", "PROHIBITED", "SMARTSTART"}
      /\ UNCHANGED powerLimitSource
  BY DEF HearSet, Hear, Frame, TypeOK, Flow, SetWorkers
<1>3. dev \in Slots
  BY <1>1, <1>2 DEF DevicesOf
<1>4. \A x : Over(x)' <=> Over(x)
  BY <1>1, SameWorker
<1>5. Asking' /\ Bidden' /\ Answered' /\ Meant'
  BY <1>2, Silent
<1>6. (~NewsPending' => ~NewsPending) /\ (~ProfilePending' => ~ProfilePending)
  BY <1>1, <1>2, NewsKept DEF Replies
<1>7. \A d \in Slots : Read(d) /\ On(d) = ~Off(d)
  BY <1>2, SlotsKnown DEF Pass
<1>8. PICK r : r = Head(pmbox).data
  OBVIOUS
<1>9. PICK d \in Slots : d = dev
  BY <1>3
<1>10. /\ \A e \in Devices : /\ e # d => status'[e] = status[e]
                             /\ status'[e].power = status[e].power
                             /\ status'[e].present = status[e].present
                             /\ status'[e].health = status[e].health
                             /\ status'[e].passive = status[e].passive
       /\ status'[d].on = OnOff(r) /\ d \in Devices
  <2>1. status' = [status EXCEPT ![d].on = OnOff(r)]
    BY <1>8, <1>9 DEF HearSet
  <2> QED
    BY <1>1, <1>2, <1>9, <2>1, DrawSwitched
<1>11. \A e \in Devices : e # dev =>
          /\ (StateRead(e)' => StateRead(e)) /\ (Read(e)' => Read(e))
          /\ (StateTrue(e) => StateTrue(e)') /\ (PowerTrue(e) => PowerTrue(e)')
  <2>1. worker \notin ReadWorkers
    BY <1>2 DEF ReadWorkers
  <2> QED
    BY <1>1, <1>2, <1>9, <1>10, <2>1, OthersTrue
<1>12. Known'
  BY <1>9, <1>10, <1>11 DEF Pass, Balanced, Known, OnOff
<1>13. ~NewsPending' => Believed'
  <2> SUFFICES ASSUME ~NewsPending' PROVE Believed'
    OBVIOUS
  <2>1. Believed /\ AnswerTrue(Head(pmbox))
    BY <1>1, <1>6
  <2>2. StateTrue(d) /\ PowerTrue(d)
    BY <1>7, <1>9, <1>10, <2>1 DEF Believed, StateRead
  <2>3. r.on = powered[d] /\ powered[d] \in BOOLEAN /\ (OnOff(r) = "SLOT_ON" <=> r.on)
    BY <1>1, <1>2, <1>8, <1>9, <1>10, <2>1 DEF AnswerTrue, OnOff, Frame, TypeOK
  <2>4. StateTrue(d)'
    <3>1. On(d)' = powered'[d] /\ Here(d)' = Here(d)
      BY <1>1, <1>10, <2>3 DEF On, Here
    <3> QED
      BY <1>1, <1>10, <2>2, <3>1 DEF StateTrue, Answers
  <2>5. PowerTrue(d)'
    BY <1>1, <1>9, <1>10, <2>2 DEF PowerTrue
  <2>6. \A e \in Devices : (StateRead(e)' => StateTrue(e)') /\ (Read(e)' => PowerTrue(e)')
    BY <1>9, <1>11, <2>1, <2>4, <2>5 DEF Believed
  <2> QED
    BY <2>6 DEF Believed
<1> QED
  BY <1>1, <1>2, <1>3, <1>4, <1>5, <1>6, <1>7, <1>12, <1>13

LEMMA HearSetPass ==
    ASSUME Frame, Frame', ~clouded', Pass, HearSet
    PROVE  Pass'
<1>1. CASE worker = "POWER_DELAY"
  <2>1. NothingYet' /\ ask' = "none"
    BY <1>1, EarlyNothing DEF HearSet, Hear
  <2>2. inauto_signal' = "STATIC"
    BY DEF HearSet, Hear, fsm, Pass, Balanced
  <2> QED
    BY <2>1, <2>2, FreshPass
<1>2. CASE worker # "POWER_DELAY"
  <2>1. /\ ~clouded /\ dev \in Slots /\ dev \in Devices
        /\ worker \in {"POWEROFF_IGNORANT", "PROHIBITED", "SMARTSTART"}
        /\ UNCHANGED <<worker, curnt_state, inauto_signal, plugged, powered, conf, powerLimitSource>>
        /\ ask = "SET_SHELF_STATE" /\ ask' = "none"
        /\ Asking' /\ Bidden' /\ Answered' /\ Meant' /\ Known'
        /\ ~NewsPending' => ~NewsPending /\ Believed'
        /\ ~ProfilePending' => ~ProfilePending
        /\ \A x : Over(x)' <=> Over(x)
        /\ \A d \in Slots : On(d) = ~Off(d)
    BY <1>2, HeardSet
  <2>2. PICK r : r = Head(pmbox).data
    OBVIOUS
  <2>3. PICK d \in Slots : d = dev
    BY <2>1
  <2>4. /\ status' = [status EXCEPT ![d].on = OnOff(r)]
        /\ status \in [Devices -> Looks] /\ OnOff(r) \in {"SLOT_ON", "SLOT_OFF"}
        /\ (OnOff(r) = "SLOT_ON" <=> r.on)
    BY <2>2, <2>3 DEF HearSet, Frame, TypeOK, OnOff
  <2>5. /\ \A e \in Devices : /\ e # d => status'[e] = status[e]
                              /\ status'[e].power = status[e].power
                              /\ status'[e].present = status[e].present
                              /\ status'[e].health = status[e].health
                              /\ status'[e].passive = status[e].passive
        /\ status'[d].on = OnOff(r) /\ SourceLimit' = SourceLimit
    BY <2>4, DrawSwitched
  <2>6. \A e \in Slots : e \in Devices /\ (Switchable(e)' <=> Switchable(e))
    BY <2>5, Numbers DEF Switchable, Here
  <2>7. \A e \in Slots : e # d => (On(e)' <=> On(e))
    BY <2>5, <2>6 DEF On
  <2>8. inauto_signal' = "STATIC"
    BY <2>1 DEF Pass, Balanced
  <2>9. CASE worker = "POWEROFF_IGNORANT"
    <3>1. ~Over("POWER_RESRV_CALC") /\ ~Over("PROHIBITED") /\ ~Over("POWEROFF_IGNORANT")
      BY <2>9, Orders DEF Over, AtSignal
    <3>2. Budget'
      BY <2>1, <2>9, <3>1 DEF Budget
    <3>3. ~NewsPending' /\ ~ProfilePending' => Dealt'
      <4> SUFFICES ASSUME ~NewsPending', ~ProfilePending' PROVE Dealt'
        OBVIOUS
      <4>1. Dealt
        BY <2>1 DEF Pass, Obedient
      <4>2. \A e \in Slots : Passed("POWEROFF_IGNORANT", e)' =>
               Passed("POWEROFF_IGNORANT", e) \/ e = d
        <5> TAKE e \in Slots
        <5>1. dev' = dev + 1
          BY <2>9 DEF HearSet
        <5>2. e < dev + 1 => e < dev \/ e = dev
          BY <2>1, ShelfAssumption DEF Slots
        <5> QED
          BY <2>1, <2>3, <2>9, <5>1, <5>2 DEF Passed
      <4>3. plugged[d] => ~r.on
        <5>1. ~AskedOn
          BY <2>9 DEF AskedOn
        <5>2. plugged[d] => powered[d] = AskedOn
          BY <2>1, <2>3, HeardTrue DEF HearSet
        <5>3. r.on = powered[d]
          BY <2>1, <2>2, <2>3, HeardTrue DEF HearSet, AnswerTrue
        <5> QED
          BY <5>1, <5>2, <5>3
      <4>4. plugged[d] => ~On(d)'
        BY <2>4, <2>5, <4>3 DEF On
      <4> QED
        BY <2>1, <2>7, <3>1, <4>1, <4>2, <4>4 DEF Dealt
    <3> QED
      BY <2>1, <2>8, <3>2, <3>3 DEF Pass, Balanced, Truthful, Obedient
  <2>10. CASE worker = "PROHIBITED"
    <3>1. Over("POWER_RESRV_CALC") /\ ~Over("PROHIBITED") /\ Over("POWEROFF_IGNORANT")
      BY <2>10, Orders DEF Over, AtSignal
    <3>2. Budget'
      <4>1. powerLimitSource' = SourceLimit'
        BY <2>1, <2>5, <3>1 DEF Pass, Balanced, Budget
      <4>2. power_slots_now' = Draw(Drawing)'
        <5>1. Here(d) /\ power_slots_now = Draw(Drawing)
          BY <2>1, <2>3, <2>10 DEF Pass, Balanced, Asking, Budget
        <5>2. /\ ~On(d) /\ OnOff(r) = "SLOT_ON" => Draw(Drawing)' = Draw(Drawing) + status[d].power
              /\ On(d) /\ OnOff(r) = "SLOT_OFF" => Draw(Drawing)' = Draw(Drawing) - status[d].power
              /\ (On(d) <=> OnOff(r) = "SLOT_ON") => Draw(Drawing)' = Draw(Drawing)
          BY <2>4, <5>1, DrawingSwitched
        <5>3. power_slots_now' = CASE Off(d) /\ r.on -> power_slots_now + status[d].power
                                   [] On(d) /\ ~r.on -> power_slots_now - status[d].power
                                   [] OTHER -> power_slots_now
          BY <2>2, <2>3, <2>10 DEF HearSet
        <5>4. On(d) <=> ~Off(d)
          BY <2>1
        <5> QED
          BY <2>4, <5>1, <5>2, <5>3, <5>4
      <4> QED
        BY <2>1, <3>1, <4>1, <4>2 DEF Budget
    <3>3. ~NewsPending' /\ ~ProfilePending' => Dealt'
      <4> SUFFICES ASSUME ~NewsPending', ~ProfilePending' PROVE Dealt'
        OBVIOUS
      <4>1. Dealt /\ Meant
        BY <2>1 DEF Pass, Obedient
      <4>2. conf[d] # "Prohibited"
        BY <2>1, <2>3, <2>10, <4>1 DEF Meant
      <4>3. \A e \in Slots : Passed("POWEROFF_IGNORANT", e)
        BY <3>1 DEF Passed
      <4> QED
        BY <2>1, <2>7, <3>1, <4>1, <4>2, <4>3 DEF Dealt
    <3> QED
      BY <2>1, <2>8, <3>2, <3>3 DEF Pass, Balanced, Truthful, Obedient
  <2>11. CASE worker = "SMARTSTART"
    <3>1. Over("POWER_RESRV_CALC") /\ Over("PROHIBITED") /\ Over("POWEROFF_IGNORANT")
      BY <2>11, Orders DEF Over, AtSignal
    <3>2. Budget'
      <4>1. powerLimitSource' = SourceLimit'
        BY <2>1, <2>5, <3>1 DEF Pass, Balanced, Budget
      <4>2. actualAvailablePowerLimit' = Spare(Draw(Drawing))'
        <5>1. Here(d) /\ ~On(d) /\ recuredPower = status[d].power
              /\ actualAvailablePowerLimit = Spare(Draw(Drawing))
          BY <2>1, <2>3, <2>11, <3>1 DEF Pass, Balanced, Asking, Budget
        <5>2. /\ OnOff(r) = "SLOT_ON" => Draw(Drawing)' = Draw(Drawing) + status[d].power
              /\ OnOff(r) # "SLOT_ON" => Draw(Drawing)' = Draw(Drawing)
          BY <2>4, <5>1, DrawingSwitched
        <5>3. actualAvailablePowerLimit' =
                  actualAvailablePowerLimit - (IF r.on THEN recuredPower ELSE 0)
          BY <2>2, <2>11 DEF HearSet
        <5>4. PICK k \in Nat : k = Draw(Drawing)
          BY <2>4, <2>6, DrawType DEF Drawing
        <5>5. PICK p \in Nat : p = status[d].power
          BY <2>4, <2>6 DEF Looks
        <5>6. PICK q \in Nat : q = status[Fan].power /\ q = status'[Fan].power
          BY <2>4, <2>5, Numbers DEF Looks
        <5>7. PICK s \in Nat : s = powerLimitSource /\ s = powerLimitSource'
          BY <2>1 DEF Frame, TypeOK
        <5>8. PICK a : a = Draw(Drawing)'
          OBVIOUS
        <5>9. Spare(Draw(Drawing))' = s - q - PowerCU - MinReserve - a
          BY <5>6, <5>7, <5>8 DEF Spare
        <5>10. actualAvailablePowerLimit = s - q - PowerCU - MinReserve - k
          BY <5>1, <5>4, <5>6, <5>7 DEF Spare
        <5>11. PowerCU \in Nat /\ MinReserve \in Nat
          BY ShelfAssumption
        <5>12. CASE r.on
          <6>1. a = k + p
            BY <2>4, <5>2, <5>4, <5>5, <5>8, <5>12
          <6>2. actualAvailablePowerLimit' = (s - q - PowerCU - MinReserve - k) - p
            BY <5>1, <5>3, <5>5, <5>10, <5>12
          <6> QED
            BY <5>9, <5>11, <6>1, <6>2
        <5>13. CASE ~r.on
          <6>1. a = k
            BY <2>4, <5>2, <5>4, <5>8, <5>13
          <6>2. actualAvailablePowerLimit' = (s - q - PowerCU - MinReserve - k) - 0
            BY <5>3, <5>10, <5>13
          <6> QED
            BY <5>9, <5>11, <6>1, <6>2
        <5> QED
          BY <5>12, <5>13
      <4> QED
        BY <2>1, <2>11, <4>1, <4>2 DEF Budget
    <3>3. ~NewsPending' /\ ~ProfilePending' => Dealt'
      <4> SUFFICES ASSUME ~NewsPending', ~ProfilePending' PROVE Dealt'
        OBVIOUS
      <4>1. Dealt /\ Meant
        BY <2>1 DEF Pass, Obedient
      <4>2. conf[d] = "SmartlyStart"
        BY <2>1, <2>3, <2>11, <4>1 DEF Meant
      <4>3. \A e \in Slots : Passed("POWEROFF_IGNORANT", e)
        BY <3>1 DEF Passed
      <4> QED
        BY <2>1, <2>6, <2>7, <3>1, <4>1, <4>2, <4>3 DEF Dealt
    <3> QED
      BY <2>1, <2>8, <3>2, <3>3 DEF Pass, Balanced, Truthful, Obedient
  <2> QED
    BY <2>1, <2>9, <2>10, <2>11
<1> QED
  BY <1>1, <1>2

-----------------------------------------------------------------------------
(* The steps of the controller and of the world *)

\* The manager stands still.
LEMMA ManagerStill ==
    ASSUME UNCHANGED <<fsm, worker, dev, ask, status, books>>
    PROVE  /\ \A x : Over(x)' <=> Over(x)
           /\ \A d, x : Passed(x, d)' <=> Passed(x, d)
           /\ \A d : (Read(d)' <=> Read(d)) /\ (StateRead(d)' <=> StateRead(d))
           /\ \A d : /\ Here(d)' = Here(d) /\ (On(d)' <=> On(d)) /\ (Off(d)' <=> Off(d))
                     /\ (Switchable(d)' <=> Switchable(d))
           /\ Known => Known'
           /\ Budget => Budget'
           /\ Asking => Asking'
           /\ AskedOn' = AskedOn
<1>1. \A x : Over(x)' <=> Over(x)
  BY DEF Over, AtSignal, fsm
<1>2. \A d, x : Passed(x, d)' <=> Passed(x, d)
  BY <1>1 DEF Passed
<1>3. \A d : (Read(d)' <=> Read(d)) /\ (StateRead(d)' <=> StateRead(d))
  BY <1>2 DEF Read, StateRead
<1>4. \A d : /\ Here(d)' = Here(d) /\ (On(d)' <=> On(d)) /\ (Off(d)' <=> Off(d))
             /\ (Switchable(d)' <=> Switchable(d))
  BY DEF Here, On, Off, Switchable
<1>5. Known => Known'
  BY <1>3 DEF Known
<1>6. Budget => Budget'
  BY <1>1, SameBooks DEF Budget, books
<1>7. Asking => Asking'
  BY DEF Asking, Here, On, Affordable, books
<1>8. AskedOn' = AskedOn
  BY DEF AskedOn, Off
<1> QED
  BY <1>1, <1>2, <1>3, <1>4, <1>5, <1>6, <1>7, <1>8

\* A mailbox that is not full takes the message.
LEMMA PostedLast ==
    ASSUME NEW M, NEW box \in Seq(M), NEW m \in M, NEW len \in Nat, Len(box) <= len, Len(box) # len
    PROVE  \E i \in DOMAIN Posted(box, len, m) : Posted(box, len, m)[i] = m
<1>1. Len(box) \in Nat /\ Len(box) < len
  OBVIOUS
<1>2. Posted(box, len, m) = Append(box, m)
  BY <1>1 DEF Posted
<1>3. Len(box) + 1 \in DOMAIN Append(box, m) /\ Append(box, m)[Len(box) + 1] = m
  OBVIOUS
<1> QED
  BY <1>2, <1>3

\* A notice reaches the manager, unless the pass is clouded.
LEMMA Noticed ==
    ASSUME Frame, ~clouded', NEW msg \in Notices, Notify(msg)
    PROVE  /\ ~clouded
           /\ msg = "SHELF_POWER_RECALC" => NewsPending'
           /\ msg = "PROF_POWER_RECALC" => ProfilePending'
<1>1. /\ pmbox' = Posted(pmbox, PMLen, Notice(msg)) /\ Len(pmbox) # PMLen /\ ~clouded
      /\ pmbox \in Seq(Messages) /\ Len(pmbox) <= PMLen /\ PMLen \in Nat
  BY ShelfAssumption DEF Notify, Frame, TypeOK, BoxesOK
<1>2. Notice(msg) \in Messages /\ Notice(msg).msg = msg
  BY MessageType DEF Notice, Message
<1>3. PICK i \in DOMAIN pmbox' : pmbox'[i] = Notice(msg)
  BY <1>1, <1>2, PostedLast
<1>4. pmbox'[i].msg = msg
  BY <1>2, <1>3
<1> QED
  BY <1>1, <1>4 DEF NewsPending, ProfilePending

\* While the manager stands still and news is under way only its own books count.
LEMMA NewsCome ==
    ASSUME Frame, Pass, UNCHANGED <<fsm, worker, dev, ask, status, books>>, NewsPending', Bidden'
    PROVE  Pass'
<1>1. Known' /\ Budget' /\ Asking'
  BY ManagerStill DEF Pass, Balanced
<1>2. inauto_signal' = "STATIC"
  BY DEF Pass, Balanced, fsm
<1> QED
  BY <1>1, <1>2 DEF Pass, Balanced

LEMMA BiddenTail ==
    ASSUME Frame, Bidden, dcbox # <<>>, dcbox' = Tail(dcbox), AskedOn' = AskedOn
    PROVE  Bidden'
<1>1. dcbox \in Seq(Messages)
  BY DEF Frame, TypeOK, BoxesOK
<1>2. \A i \in DOMAIN dcbox' : i + 1 \in DOMAIN dcbox /\ dcbox'[i] = dcbox[i + 1]
  BY <1>1, TailFacts
<1> QED
  BY <1>2 DEF Bidden

LEMMA BiddenNotice ==
    ASSUME Frame, Bidden, AskedOn' = AskedOn,
           dcbox' = dcbox \/ dcbox' = Posted(dcbox, DCLen, Notice("PSU_VALUES"))
    PROVE  Bidden'
<1>1. dcbox \in Seq(Messages) /\ Notice("PSU_VALUES") \in Messages
      /\ Notice("PSU_VALUES").msg # "SET_SHELF_STATE"
  BY MessageType DEF Frame, TypeOK, BoxesOK, Notice, Message
<1>2. \A i \in DOMAIN dcbox' : \/ i \in DOMAIN dcbox /\ dcbox'[i] = dcbox[i]
                              \/ dcbox'[i] = Notice("PSU_VALUES")
  BY <1>1, PostedFacts
<1> QED
  BY <1>1, <1>2 DEF Bidden

\* The controller has served a question: what was news remains news.
LEMMA NewsServed ==
    ASSUME Frame, dcbox # <<>>, dcbox' = Tail(dcbox), Head(dcbox).msg # "PSU_VALUES",
           pmbox' = pmbox \/ \E m \in Messages : pmbox' = Posted(pmbox, PMLen, m)
    PROVE  /\ ~NewsPending' => ~NewsPending
           /\ ~ProfilePending' => ~ProfilePending
           /\ Switched => Switched' \/ ask' # ask
<1>1. dcbox \in Seq(Messages) /\ pmbox \in Seq(Messages)
  BY DEF Frame, TypeOK, BoxesOK
<1>2. \A i \in DOMAIN pmbox : i \in DOMAIN pmbox' /\ pmbox'[i] = pmbox[i]
  <2>1. CASE pmbox' = pmbox
    BY <2>1
  <2>2. CASE \E m \in Messages : pmbox' = Posted(pmbox, PMLen, m)
    <3>1. PICK m \in Messages : pmbox' = Posted(pmbox, PMLen, m)
      BY <2>2
    <3>2. pmbox' = pmbox \/ pmbox' = Append(pmbox, m)
      BY <3>1 DEF Posted
    <3> QED
      BY <1>1, <3>2
  <2> QED
    BY <2>1, <2>2
<1>3. \A i \in DOMAIN dcbox : i = 1 \/ (i - 1 \in DOMAIN dcbox' /\ dcbox'[i - 1] = dcbox[i])
  BY <1>1
<1>4. \A i \in DOMAIN dcbox' : i + 1 \in DOMAIN dcbox /\ dcbox'[i] = dcbox[i + 1]
  BY <1>1, TailFacts
<1>5. Head(dcbox) = dcbox[1]
  BY <1>1
<1>6. NewsPending => NewsPending'
  BY <1>2, <1>3, <1>5 DEF NewsPending
<1>7. ProfilePending => ProfilePending'
  BY <1>2 DEF ProfilePending
<1>8. Switched => Switched' \/ ask' # ask
  BY <1>4 DEF Switched
<1> QED
  BY <1>6, <1>7, <1>8

\* A reply is the truth of its device when it leaves the controller.
LEMMA Replied ==
    ASSUME Frame, ~clouded, Pass, dcbox # <<>>, dcbox' = Tail(dcbox),
           UNCHANGED <<fsm, worker, dev, ask, status, books, plugged, conf>>,
           Head(dcbox).msg \in Replies, NEW r \in Messages, r.msg = Head(dcbox).msg,
           pmbox' = Posted(pmbox, PMLen, r),
           ~NewsPending => Believed', AnswerTrue(r)',
           r.msg = "SET_SHELF_STATE" /\ plugged[dev] => powered'[dev] = AskedOn
    PROVE  Pass'
<1>1. /\ Known' /\ Budget' /\ Asking' /\ AskedOn' = AskedOn
      /\ \A x : Over(x)' <=> Over(x)
      /\ \A d, x : Passed(x, d)' <=> Passed(x, d)
      /\ \A d : (On(d)' <=> On(d)) /\ (Off(d)' <=> Off(d)) /\ (Switchable(d)' <=> Switchable(d))
  BY ManagerStill DEF Pass, Balanced
<1>2. Bidden'
  BY <1>1, BiddenTail DEF Pass, Balanced
<1>3. dcbox \in Seq(Messages) /\ pmbox \in Seq(Messages) /\ Head(dcbox) = dcbox[1] /\ 1 \in DOMAIN dcbox
  BY DEF Frame, TypeOK, BoxesOK
<1>4. \A i \in DOMAIN pmbox : pmbox[i].msg \notin Replies
  <2>1. Alone(dcbox, pmbox, ask, dev)
    BY DEF Frame, BoxInv, OnlyQuestion
  <2> QED
    BY <1>3, <2>1 DEF Alone
<1>5. \A i \in DOMAIN pmbox' : pmbox'[i].msg \in Replies => pmbox'[i] = r
  BY <1>3, <1>4, PostedFacts
<1>6. Head(dcbox).msg # "PSU_VALUES"
  BY DEF Replies
<1>7. (~NewsPending' => ~NewsPending) /\ (~ProfilePending' => ~ProfilePending)
  BY <1>6, NewsServed
<1>8. Answered'
  <2>1. \A i \in DOMAIN pmbox' : pmbox'[i].msg \in Replies => AnswerTrue(pmbox[i])'
    BY <1>5 DEF AnswerTrue
  <2>2. SetDone' /\ plugged'[dev'] => powered'[dev'] = AskedOn'
    BY <1>1, <1>5 DEF SetDone, Replies
  <2> QED
    BY <2>1, <2>2 DEF Answered
<1>9. ~NewsPending' => Truthful'
  BY <1>7, <1>8 DEF Truthful
<1>10. ~NewsPending' /\ ~ProfilePending' => Obedient'
  <2> SUFFICES ASSUME ~NewsPending', ~ProfilePending' PROVE Obedient'
    OBVIOUS
  <2>1. Dealt /\ Meant
    BY <1>7 DEF Pass, Obedient
  <2>2. Dealt'
    BY <1>1, <2>1 DEF Dealt
  <2>3. Meant'
    BY <1>1, <2>1 DEF Meant
  <2> QED
    BY <2>2, <2>3 DEF Obedient
<1>11. inauto_signal' = "STATIC"
  BY DEF Pass, Balanced, fsm
<1> QED
  BY <1>1, <1>2, <1>9, <1>10, <1>11 DEF Pass, Balanced

LEMMA ServePass ==
    ASSUME Frame, Frame', ~clouded, ~clouded', Pass, Serve
    PROVE  Pass'
<1> DEFINE m == Head(dcbox)
<1>1. /\ dcbox # <<>> /\ dcbox' = Tail(dcbox)
      /\ UNCHANGED <<fsm, worker, dev, ask, status, books, plugged, conf>>
      /\ dcbox \in Seq(Messages) /\ pmbox \in Seq(Messages)
      /\ plugged \in [Devices -> BOOLEAN] /\ powered \in [Devices -> BOOLEAN]
  BY DEF Serve, Frame, TypeOK, BoxesOK
<1>2. m \in Messages /\ m = dcbox[1] /\ 1 \in DOMAIN dcbox
  BY <1>1
<1>3. m.msg \in Replies => m.msg = ask /\ m.of = dev /\ dev \in Devices
  <2>1. Alone(dcbox, pmbox, ask, dev)
    BY DEF Frame, BoxInv, OnlyQuestion
  <2>2. ask # "none" => dev \in Devices
    BY DEF Frame, BoxInv
  <2> QED
    BY <1>2, <2>1, <2>2 DEF Alone, Replies
<1>4. BoxInv /\ AskedOn' = AskedOn
  BY <1>1, ManagerStill DEF Frame
<1>5. \A d : (Read(d)' <=> Read(d)) /\ (StateRead(d)' <=> StateRead(d))
  BY <1>1, ManagerStill
<1>6. ASSUME UNCHANGED powered, m.msg # "PSU_VALUES",
             pmbox' = pmbox \/ \E x \in Messages : pmbox' = Posted(pmbox, PMLen, x)
      PROVE  Believed => Believed'
  <2>1. Switched => Switched'
    BY <1>1, <1>6, NewsServed
  <2>2. \A d \in Devices : (StateTrue(d) => StateTrue(d)') /\ (PowerTrue(d) => PowerTrue(d)')
    BY <1>1, <1>6, <2>1 DEF StateTrue, PowerTrue, Here, On, Answers
  <2> QED
    BY <1>5, <2>2 DEF Believed
<1>7. CASE m.msg = "GET_SHELF_STATE" /\ ServeGetState(m.of)
  <2>1. m.msg \in Replies /\ dev \in Devices /\ m.of = dev /\ powered[dev] \in BOOLEAN
    BY <1>1, <1>3, <1>7 DEF Replies
  <2>r. PICK r : r = StateReply("GET_SHELF_STATE", dev, powered[dev])
    OBVIOUS
  <2>2. r \in Messages /\ r.msg = m.msg /\ r.of = dev
    BY <1>4, <1>7, <2>r, <2>1, ReplyType
  <2>3. pmbox' = Posted(pmbox, PMLen, r) /\ powered' = powered
    BY <1>7, <2>r, <2>1 DEF ServeGetState
  <2>4. AnswerTrue(r)'
    <3>1. /\ r.data.present = plugged[dev] /\ r.data.on = powered[dev]
          /\ r.data.hotswap = (dev \in Hotswap \/ dev \notin Slots)
          /\ r.data.eeprom = (dev \in Eeprom)
      BY <2>r DEF StateReply, Message, Quiet
    <3> QED
      BY <1>1, <1>7, <2>2, <2>3, <3>1 DEF AnswerTrue
  <2>5. ~NewsPending => Believed'
    BY <1>6, <1>7, <2>2, <2>3 DEF Pass, Truthful
  <2> QED
    BY <1>1, <1>7, <2>1, <2>2, <2>3, <2>4, <2>5, Replied
<1>8. CASE m.msg = "GET_SHELF_POWER" /\ ServeGetPower(m.of)
  <2>1. m.msg \in Replies /\ dev \in Devices /\ m.of = dev
    BY <1>3, <1>8 DEF Replies
  <2> DEFINE w == IF plugged[dev] THEN Power[dev] ELSE 0
  <2>r. PICK r : r = Message("GET_SHELF_POWER", dev, [Quiet EXCEPT !.power = w])
    OBVIOUS
  <2>2. w \in Nat
    BY <2>1, ShelfAssumption
  <2>3. r \in Messages /\ r.msg = m.msg /\ r.of = dev
    BY <1>4, <1>8, <2>r, <2>1, <2>2, ReplyType
  <2>4. pmbox' = Posted(pmbox, PMLen, r) /\ powered' = powered
    BY <1>8, <2>r, <2>1 DEF ServeGetPower
  <2>5. AnswerTrue(r)'
    <3>1. r.data.power = w
      BY <2>r DEF Message, Quiet
    <3> QED
      BY <1>1, <1>8, <2>3, <3>1 DEF AnswerTrue
  <2> HIDE DEF w
  <2>6. ~NewsPending => Believed'
    BY <1>6, <1>8, <2>3, <2>4 DEF Pass, Truthful
  <2> QED
    BY <1>1, <1>8, <2>1, <2>3, <2>4, <2>5, <2>6, Replied
<1>9. CASE m.msg = "SET_SHELF_STATE" /\ ServeSetState(m.of, m.data.on)
  <2>1. m.msg \in Replies /\ dev \in Devices /\ m.of = dev /\ ask = "SET_SHELF_STATE"
        /\ m.data.on \in BOOLEAN /\ m.data.on = AskedOn
    BY <1>2, <1>3, <1>9 DEF Replies, Messages, Pass, Balanced, Bidden
  <2>2. powered' = [powered EXCEPT ![dev] = IF plugged[dev] THEN AskedOn ELSE @]
    BY <1>9, <2>1 DEF ServeSetState
  <2>3. /\ powered'[dev] \in BOOLEAN /\ (plugged[dev] => powered'[dev] = AskedOn)
        /\ \A d \in Devices : d # dev => powered'[d] = powered[d]
    BY <1>1, <2>1, <2>2
  <2>r. PICK r : r = StateReply("SET_SHELF_STATE", dev, powered'[dev])
    OBVIOUS
  <2>4. r \in Messages /\ r.msg = m.msg /\ r.of = dev
    BY <1>4, <1>9, <2>r, <2>1, <2>3, ReplyType
  <2>5. pmbox' = Posted(pmbox, PMLen, r)
    BY <1>9, <2>r, <2>1 DEF ServeSetState
  <2>6. AnswerTrue(r)'
    <3>1. /\ r.data.present = plugged[dev] /\ r.data.on = powered'[dev]
          /\ r.data.hotswap = (dev \in Hotswap \/ dev \notin Slots)
          /\ r.data.eeprom = (dev \in Eeprom)
      BY <2>r DEF StateReply, Message, Quiet
    <3> QED
      BY <1>1, <1>9, <2>4, <3>1 DEF AnswerTrue
  <2>7. Switched'
    <3>1. Alone(dcbox, pmbox, ask, dev)
      BY DEF Frame, BoxInv, OnlyQuestion
    <3>2. \A i \in DOMAIN dcbox : dcbox[i].msg = "SET_SHELF_STATE" => i = 1
      BY <1>2, <1>9, <3>1 DEF Alone, Replies
    <3>3. \A i \in DOMAIN dcbox' : i + 1 \in DOMAIN dcbox /\ i + 1 # 1 /\ dcbox'[i] = dcbox[i + 1]
      BY <1>1, TailFacts
    <3> QED
      BY <1>1, <2>1, <3>2, <3>3 DEF Switched
  <2>8. dev \in Slots
    BY <2>1 DEF Frame, Flow, SetWorkers, DevicesOf
  <2>9. ~NewsPending => Believed'
    <3> SUFFICES ASSUME ~NewsPending PROVE Believed'
      OBVIOUS
    <3>1. Believed
      BY DEF Pass, Truthful
    <3>2. ~Switched
      BY <1>2, <1>9 DEF Switched
    <3>3. \A d \in Devices : StateTrue(d) => StateTrue(d)'
      BY <1>1, <2>3, <2>7, <3>2 DEF StateTrue, Here, On, Answers
    <3>4. \A d \in Devices : PowerTrue(d) => PowerTrue(d)'
      BY <1>1, <2>3, <2>8 DEF PowerTrue
    <3> QED
      BY <1>5, <3>1, <3>3, <3>4 DEF Believed
  <2> QED
    BY <1>1, <2>1, <2>3, <2>4, <2>5, <2>6, <2>9, Replied
<1>10. CASE m.msg = "FAILURE_SIGNALING" /\ UNCHANGED <<pmbox, powered>>
  <2>1. m.msg # "PSU_VALUES"
    BY <1>10
  <2>2. (~NewsPending' => ~NewsPending) /\ (~ProfilePending' => ~ProfilePending)
    BY <1>1, <1>10, <2>1, NewsServed
  <2>3. Believed => Believed'
    BY <1>6, <1>10, <2>1
  <2>4. Answered => Answered'
    BY <1>1, <1>4, <1>10 DEF Answered, AnswerTrue, SetDone
  <2>5. Dealt /\ Meant => Dealt' /\ Meant'
    BY <1>1, ManagerStill DEF Dealt, Meant
  <2>6. Known' /\ Budget' /\ Asking' /\ Bidden'
    BY <1>1, <1>4, ManagerStill, BiddenTail DEF Pass, Balanced
  <2>7. inauto_signal' = "STATIC"
    BY <1>1 DEF Pass, Balanced, fsm
  <2> QED
    BY <2>2, <2>3, <2>4, <2>5, <2>6, <2>7 DEF Pass, Balanced, Truthful, Obedient
<1>11. CASE m.msg = "PSU_VALUES" /\ Notify("SHELF_POWER_RECALC")
  <2>1. NewsPending'
    BY <1>11, Noticed DEF Notices
  <2>2. Bidden'
    BY <1>1, <1>4, BiddenTail DEF Pass, Balanced
  <2> QED
    BY <1>1, <2>1, <2>2, NewsCome
<1> QED
  BY <1>7, <1>8, <1>9, <1>10, <1>11 DEF Serve

\* A power supply's input may be good without the device: only the boards count.
LEMMA EventPass ==
    ASSUME Frame, Frame', ~clouded, ~clouded', Pass,
           \/ \E d \in Slots \cup {Fan} : Replug(d)
           \/ \E p \in Sources : PowerSupply(p)
           \/ \E d \in Slots, c \in Confs : ProfileChange(d, c)
           \/ EepromRewritten
    PROVE  Pass'
<1>1. UNCHANGED <<fsm, worker, dev, ask, status, books>>
  BY DEF Replug, PowerSupply, ProfileChange, EepromRewritten, Event
<1>2. AskedOn' = AskedOn /\ Bidden /\ "SHELF_POWER_RECALC" \in Notices
      /\ "PROF_POWER_RECALC" \in Notices
  BY <1>1, ManagerStill DEF Pass, Balanced, Notices
<1>3. ASSUME UNCHANGED dcbox, Notify("SHELF_POWER_RECALC")
      PROVE  Pass'
  <2>1. NewsPending' /\ Bidden'
    BY <1>2, <1>3, Noticed, BiddenNotice
  <2> QED
    BY <1>1, <2>1, NewsCome
<1>4. CASE \E d \in Slots \cup {Fan} : Replug(d)
  BY <1>3, <1>4 DEF Replug
<1>5. CASE \E p \in Sources : PowerSupply(p)
  <2>1. CASE UNCHANGED dcbox /\ Notify("SHELF_POWER_RECALC")
    BY <1>3, <2>1
  <2>2. CASE /\ dcbox' = Posted(dcbox, DCLen, Notice("PSU_VALUES"))
             /\ clouded' = (clouded \/ Len(dcbox) = DCLen)
    <3>1. Len(dcbox) # DCLen /\ Len(dcbox) <= DCLen /\ DCLen \in Nat /\ dcbox \in Seq(Messages)
      BY <2>2, ShelfAssumption DEF Frame, TypeOK, BoxesOK
    <3>2. Notice("PSU_VALUES") \in Messages /\ Notice("PSU_VALUES").msg = "PSU_VALUES"
      BY MessageType DEF Notice, Message
    <3>3. PICK i \in DOMAIN dcbox' : dcbox'[i] = Notice("PSU_VALUES")
      BY <2>2, <3>1, <3>2, PostedLast
    <3>4. NewsPending'
      BY <3>2, <3>3 DEF NewsPending
    <3>5. Bidden'
      BY <1>2, <2>2, BiddenNotice
    <3> QED
      BY <1>1, <3>4, <3>5, NewsCome
  <2> QED
    BY <1>5, <2>1, <2>2 DEF PowerSupply
<1>6. CASE \E d \in Slots, c \in Confs : ProfileChange(d, c)
  <2>1. /\ pmbox = <<>> /\ Notify("PROF_POWER_RECALC") /\ UNCHANGED <<plugged, powered, dcbox>>
    BY <1>6 DEF ProfileChange, Blocked
  <2>2. ProfilePending'
    BY <1>2, <2>1, Noticed
  <2>3. Known' /\ Budget' /\ Asking' /\ Bidden' /\ inauto_signal' = "STATIC"
    BY <1>1, <1>2, <2>1, ManagerStill, BiddenNotice DEF Pass, Balanced, fsm
  <2>4. ~NewsPending' => ~NewsPending
    BY <2>1 DEF NewsPending
  <2>5. Believed => Believed'
    <3>1. \A d \in Devices : (StateTrue(d) => StateTrue(d)') /\ (PowerTrue(d) => PowerTrue(d)')
      BY <1>1, <2>1 DEF StateTrue, PowerTrue, Switched, Here, On, Answers
    <3> QED
      BY <1>1, <3>1, ManagerStill DEF Believed
  <2>6. Answered'
    <3>1. \A i \in DOMAIN pmbox' : pmbox'[i].msg = "PROF_POWER_RECALC"
      <4>1. pmbox \in Seq(Messages) /\ Notice("PROF_POWER_RECALC") \in Messages
            /\ Notice("PROF_POWER_RECALC").msg = "PROF_POWER_RECALC"
        BY <1>2, MessageType DEF Notice, Message, Frame, TypeOK, BoxesOK
      <4>2. pmbox' = Posted(pmbox, PMLen, Notice("PROF_POWER_RECALC")) /\ DOMAIN pmbox = {}
        BY <2>1 DEF Notify
      <4> QED
        BY <4>1, <4>2, PostedFacts
    <3> QED
      BY <3>1 DEF Answered, SetDone, Replies
  <2> QED
    BY <2>2, <2>3, <2>4, <2>5, <2>6 DEF Pass, Balanced, Truthful
<1>7. CASE EepromRewritten
  BY <1>3, <1>7 DEF EepromRewritten
<1> QED
  BY <1>4, <1>5, <1>6, <1>7

\* Nothing has happened yet: the manager claims nothing.
LEMMA PassInit == Init => ProfileNoticeFirst /\ Pass
<1> SUFFICES ASSUME Init PROVE ProfileNoticeFirst /\ Pass
  OBVIOUS
<1>1. /\ curnt_state = "INIT" /\ worker = "none" /\ ask = "none" /\ inauto_signal = "STATIC"
      /\ dcbox = <<Notice("PSU_VALUES")>> /\ pmbox = <<>>
  BY DEF Init
<1>2. \A x \in Marks : ~Over(x)
  BY <1>1, MarkOrder, Orders DEF Over, AtSignal
<1>3. \A d \in Devices : ~StateRead(d)
  BY <1>1, <1>2 DEF Marks, StateRead, Read, Passed
<1>4. 1 \in DOMAIN dcbox /\ dcbox[1].msg = "PSU_VALUES" /\ DOMAIN dcbox = {1}
  BY <1>1 DEF Notice, Message
<1>5. NewsPending
  BY <1>4 DEF NewsPending
<1>6. Known /\ Budget /\ Asking /\ Bidden
  BY <1>1, <1>2, <1>3, <1>4 DEF Marks, Known, Budget, Asking, Bidden
<1> QED
  BY <1>1, <1>5, <1>6 DEF Pass, Balanced, ProfileNoticeFirst

Clean == Frame /\ (~clouded => ProfileNoticeFirst /\ Pass)

LEMMA PassStep == Clean /\ [Next]_vars => Clean'
<1> SUFFICES ASSUME Clean, [Next]_vars PROVE Clean'
  OBVIOUS
<1>1. Frame /\ Frame'
  BY FrameStep DEF Clean
<1>2. ASSUME ~clouded' PROVE Pass'
  <2>1. CASE WaitForNotice \/ WaitOutDelay \/ WeighPower \/ LeaveSmartStart \/ PollNotice
    BY <1>1, <1>2, <2>1, TransitionPass DEF Clean
  <2>2. CASE Scan
    BY <1>1, <1>2, <2>2, ScanPass DEF Clean, Scan
  <2>3. CASE CalcProhib
    BY <1>1, <1>2, <2>3, CalcPass DEF Clean, CalcProhib
  <2>4. CASE HearState \/ HearPower \/ HearSet
    <3>1. ~clouded
      BY <1>2, <2>4 DEF HearState, HearPower, HearSet, Hear
    <3> QED
      BY <1>1, <1>2, <2>4, <3>1, HearStatePass, HearPowerPass, HearSetPass DEF Clean
  <2>5. CASE Interrupted \/ Unanswered
    BY <1>2, <2>5 DEF Interrupted, Unanswered
  <2>6. CASE Serve
    <3>1. ~clouded
      BY <1>2, <2>6 DEF Serve, Notify
    <3> QED
      BY <1>1, <1>2, <2>6, <3>1, ServePass DEF Clean
  <2>7. CASE \/ \E d \in Slots \cup {Fan} : Replug(d)
             \/ \E p \in Sources : PowerSupply(p)
             \/ \E d \in Slots, c \in Confs : ProfileChange(d, c)
             \/ EepromRewritten
    <3>1. ~clouded
      BY <1>2, <2>7 DEF Replug, PowerSupply, ProfileChange, EepromRewritten, Notify
    <3> QED
      BY <1>1, <1>2, <2>7, <3>1, EventPass DEF Clean
  <2>8. CASE UNCHANGED vars
    <3>1. ~clouded /\ Pass
      BY <1>2, <2>8 DEF Clean, vars
    <3>2. UNCHANGED <<curnt_state, worker, dev, ask, inauto_signal, status, books, dcbox, pmbox,
                      plugged, powered, conf>>
      BY <2>8 DEF vars, fsm, crate
    <3>3. /\ NewsPending' = NewsPending /\ ProfilePending' = ProfilePending
      BY <3>2 DEF NewsPending, ProfilePending
    <3>4. UNCHANGED <<fsm, worker, dev, ask, status, books>>
      BY <2>8 DEF vars
    <3>5. Known' /\ Budget' /\ Asking' /\ Bidden' /\ inauto_signal' = "STATIC"
      BY <3>1, <3>2, <3>4, ManagerStill DEF Pass, Balanced, Bidden
    <3>6. Believed => Believed'
      <4>1. \A d \in Devices : (StateTrue(d) => StateTrue(d)') /\ (PowerTrue(d) => PowerTrue(d)')
        BY <3>2 DEF StateTrue, PowerTrue, Switched, Here, On, Answers
      <4> QED
        BY <3>4, <4>1, ManagerStill DEF Believed
    <3>7. Answered => Answered'
      BY <3>2, <3>4, ManagerStill DEF Answered, AnswerTrue, SetDone
    <3>8. Dealt /\ Meant => Dealt' /\ Meant'
      BY <3>2, <3>4, ManagerStill DEF Dealt, Meant
    <3> QED
      BY <3>1, <3>3, <3>5, <3>6, <3>7, <3>8 DEF Pass, Balanced, Truthful, Obedient
  <2> QED
    BY <2>1, <2>2, <2>3, <2>4, <2>5, <2>6, <2>7, <2>8 DEF Next, Manager
<1>3. ASSUME ~clouded' PROVE ProfileNoticeFirst'
  BY <1>1, <1>3, FirstStep DEF Clean, Pass, Balanced
<1> QED
  BY <1>1, <1>2, <1>3 DEF Clean

-----------------------------------------------------------------------------
(* What the manager believes of the power, and what is true of it *)

LEMMA LimitTrue ==
    ASSUME \A d \in Sources :
              /\ Here(d) = plugged[d]
              /\ plugged[d] => (On(d) = powered[d])
              /\ status[d].power = IF plugged[d] /\ powered[d] THEN Power[d] ELSE 0
    PROVE  SourceLimit = TrueLimit
<1>1. Working = {q \in Sources : plugged[q] /\ powered[q]}
  BY DEF Working
<1>2. \A d \in Working : status[d].power = Power[d]
  BY <1>1
<1>3. {status[d].power : d \in Working} = {Power[p] : p \in Working}
  BY <1>2
<1>4. Rated = TrueRated
  BY <1>1, <1>3 DEF Rated, TrueRated
<1> QED
  BY <1>4 DEF SourceLimit, TrueLimit

LEMMA DrawAtMost ==
    ASSUME status \in [Devices -> Looks], NEW S \in SUBSET Slots, NEW T, T = S \/ T = S \cup {Fan},
           \A d \in T : Power[d] <= status[d].power
    PROVE  /\ SumFunctionOnSet(Power, T) \in Nat /\ Draw(S) \in Nat
           /\ SumFunctionOnSet(Power, T) <= Draw(S) + status[Fan].power
<1>1. PICK f : f = [d \in Devices |-> status[d].power]
  OBVIOUS
<1>2. /\ \A d \in Devices : f[d] \in Nat /\ f[d] = status[d].power /\ Power[d] \in Nat
      /\ f[Fan] = status[Fan].power
  BY <1>1, Numbers, ShelfAssumption DEF Looks
<1>3. S \subseteq Devices /\ T \subseteq Devices /\ Fan \in Devices /\ Fan \notin S
  BY Numbers, DeviceKinds
<1>4. IsFiniteSet(S) /\ IsFiniteSet(T)
  BY <1>3, DevicesFinite
<1>5. Draw(S) = SumFunctionOnSet(f, S)
  BY <1>1 DEF Draw
<1>6. (\A d \in S : f[d] \in Nat /\ Power[d] \in Nat) /\ (\A d \in T : Power[d] \in Nat)
  BY <1>2, <1>3
<1>7. /\ SumFunctionOnSet(f, S) \in Nat /\ SumFunctionOnSet(Power, S) \in Nat
      /\ SumFunctionOnSet(Power, T) \in Nat
  BY <1>4, <1>6, SumType
<1>8. SumFunctionOnSet(Power, S) <= SumFunctionOnSet(f, S)
  <2>1. \A d \in S : Power[d] \in Int /\ f[d] \in Int /\ Power[d] <= f[d]
    BY <1>2, <1>3
  <2> QED
    BY <1>4, <2>1, SumAtMost
<1>9. PICK a \in Nat : a = SumFunctionOnSet(f, S)
  BY <1>7
<1>10. PICK b \in Nat : b = SumFunctionOnSet(Power, S)
  BY <1>7
<1>11. PICK c \in Nat : c = SumFunctionOnSet(Power, T)
  BY <1>7
<1>12. PICK q \in Nat : q = status[Fan].power
  BY <1>2, <1>3
<1>13. b <= a
  BY <1>8, <1>9, <1>10
<1>14. CASE T = S
  <2>1. c = b
    BY <1>10, <1>11, <1>14
  <2>2. c <= a + q
    BY <1>13, <2>1
  <2> QED
    BY <1>5, <1>9, <1>11, <1>12, <2>2
<1>15. CASE T = S \cup {Fan}
  <2>1. Fan \in T /\ T \ {Fan} = S /\ \A d \in T : Power[d] \in Int
    BY <1>3, <1>6, <1>15
  <2>2. SumFunctionOnSet(Power, T) = Power[Fan] + SumFunctionOnSet(Power, T \ {Fan})
    BY <1>4, <2>1, SumTake
  <2>3. PICK p \in Nat : p = Power[Fan]
    BY <1>2, <1>3
  <2>4. c = p + b
    BY <1>10, <1>11, <2>1, <2>2, <2>3
  <2>5. p <= q
    BY <1>12, <2>1, <2>3
  <2>6. c <= a + q
    BY <1>13, <2>4, <2>5
  <2> QED
    BY <1>5, <1>9, <1>11, <1>12, <2>6
<1> QED
  BY <1>14, <1>15

-----------------------------------------------------------------------------
(* The crate at rest *)

LEMMA RestTrue ==
    ASSUME Clean, AtRest, ~clouded
    PROVE  /\ \A d \in Devices : StateTrue(d) /\ PowerTrue(d)
           /\ \A d \in Devices : Here(d) = plugged[d] /\ (plugged[d] => (On(d) = powered[d]))
           /\ \A d \in Slots : Passed("POWEROFF_IGNORANT", d)
           /\ Over("PROHIBITED") /\ Dealt
           /\ actualAvailablePowerLimit = Spare(Draw(Drawing)) /\ powerLimitSource = SourceLimit
<1>1. worker = "none" /\ curnt_state = "READY" /\ pmbox = <<>> /\ dcbox = <<>> /\ ask = "none"
  BY DEF AtRest, AtSignal, Clean, Frame, Flow
<1>2. ~NewsPending /\ ~ProfilePending
  BY <1>1 DEF NewsPending, ProfilePending
<1>3. \A x \in Marks : Over(x)
  BY <1>1, MarkOrder, Orders DEF Over, AtSignal
<1>4. \A d \in Devices : Read(d) /\ StateRead(d)
  BY <1>3 DEF Marks, Read, Passed, StateRead
<1>5. \A d \in Devices : StateTrue(d) /\ PowerTrue(d)
  BY <1>2, <1>4 DEF Clean, Pass, Truthful, Believed
<1>6. ~Switched
  BY <1>1 DEF Switched
<1> QED
  BY <1>2, <1>3, <1>5, <1>6 DEF Marks, Passed, StateTrue, Clean, Pass, Obedient, Balanced, Budget

LEMMA CleanObeys == Clean => RestObeysProfile
<1> SUFFICES ASSUME Clean, AtRest, ~clouded, NEW d \in Slots, plugged[d]
             PROVE  /\ conf[d] = "Prohibited" => ~powered[d]
                    /\ conf[d] = "IgnorantStart" /\ Answers(d) => powered[d]
  BY DEF RestObeysProfile, ProfileObeyed
<1>1. /\ StateTrue(d) /\ Here(d) = plugged[d] /\ (On(d) = powered[d])
      /\ Passed("POWEROFF_IGNORANT", d) /\ Over("PROHIBITED") /\ Dealt
  BY RestTrue, Numbers
<1>2. conf[d] = "Prohibited" => ~On(d)
  BY <1>1 DEF Dealt
<1>3. Answers(d) => Switchable(d)
  BY <1>1 DEF StateTrue, Switchable
<1>4. conf[d] = "IgnorantStart" /\ Answers(d) => On(d)
  BY <1>1, <1>3 DEF Dealt
<1> QED
  BY <1>1, <1>2, <1>4

LEMMA CleanBooks == Clean => BooksTrueAtRest
<1> SUFFICES ASSUME Clean, AtRest, ~clouded
             PROVE  /\ \A d \in Devices : Here(d) = plugged[d] /\ (plugged[d] => On(d) = powered[d])
                    /\ actualAvailablePowerLimit <= TrueSpare
  BY DEF BooksTrueAtRest
<1>1. /\ \A d \in Devices : StateTrue(d) /\ PowerTrue(d)
      /\ \A d \in Devices : Here(d) = plugged[d] /\ (plugged[d] => (On(d) = powered[d]))
      /\ actualAvailablePowerLimit = Spare(Draw(Drawing)) /\ powerLimitSource = SourceLimit
  BY RestTrue
<1>2. SourceLimit = TrueLimit
  <2>1. \A d \in Sources : d \in Devices /\ d \notin Slots
    BY Numbers, DeviceKinds
  <2>2. \A d \in Sources : status[d].power = IF plugged[d] /\ powered[d] THEN Power[d] ELSE 0
    BY <1>1, <2>1 DEF PowerTrue
  <2> QED
    BY <1>1, <2>1, <2>2, LimitTrue
<1>3. PICK T : T = {d \in Slots \cup {Fan} : plugged[d] /\ powered[d]}
  OBVIOUS
<1>4. PICK S : S = Drawing
  OBVIOUS
<1>5. status \in [Devices -> Looks] /\ powerLimitSource \in Nat
  BY DEF Clean, Frame, TypeOK
<1>6. S \in SUBSET Slots /\ (T = S \/ T = S \cup {Fan})
  <2>1. S = {d \in Slots : plugged[d] /\ powered[d]}
    BY <1>1, <1>4, Numbers DEF Drawing
  <2> QED
    BY <1>3, <2>1
<1>7. \A d \in T : Power[d] <= status[d].power
  <2> TAKE d \in T
  <2>1. d \in Devices /\ plugged[d] /\ powered[d] /\ (d \in Slots \/ d = Fan) /\ Power[d] \in Nat
    BY <1>3, Numbers, ShelfAssumption
  <2>2. PowerTrue(d) /\ (d = Fan => d \notin Slots)
    BY <1>1, <2>1, DeviceKinds
  <2>3. status[d].power \in Nat
    BY <1>5, <2>1 DEF Looks
  <2> QED
    BY <2>1, <2>2, <2>3 DEF PowerTrue
<1>8. /\ SumFunctionOnSet(Power, T) \in Nat /\ Draw(S) \in Nat
      /\ SumFunctionOnSet(Power, T) <= Draw(S) + status[Fan].power
  BY <1>5, <1>6, <1>7, DrawAtMost
<1>9. PICK a \in Nat : a = Draw(S)
  BY <1>8
<1>10. PICK c \in Nat : c = SumFunctionOnSet(Power, T)
  BY <1>8
<1>11. PICK q \in Nat : q = status[Fan].power
  BY <1>5, Numbers DEF Looks
<1>12. PICK l \in Nat : l = powerLimitSource
  BY <1>5
<1>13. actualAvailablePowerLimit = l - q - PowerCU - MinReserve - a
  BY <1>1, <1>4, <1>9, <1>11, <1>12 DEF Spare
<1>14. TrueSpare = l - PowerCU - MinReserve - c
  BY <1>1, <1>2, <1>3, <1>10, <1>12 DEF TrueSpare, TrueDraw
<1>15. c <= a + q
  BY <1>8, <1>9, <1>10, <1>11
<1>16. PowerCU \in Nat /\ MinReserve \in Nat
  BY ShelfAssumption
<1>17. actualAvailablePowerLimit <= TrueSpare
  BY <1>13, <1>14, <1>15, <1>16
<1> QED
  BY <1>1, <1>17

-----------------------------------------------------------------------------
(* A careful start *)

LEMMA StartWithinBudget ==
    ASSUME Clean, [Next]_vars, worker = "SMARTSTART", ~clouded, ~NewsPending, plugged' = plugged,
           NEW x \in Slots, ~powered[x], powered'[x]
    PROVE  TrueSpare' >= 0
<1>1. Serve /\ Head(dcbox).msg = "SET_SHELF_STATE"
      /\ ServeSetState(Head(dcbox).of, Head(dcbox).data.on)
  <2>1. ~ \E d \in Slots \cup {Fan} : Replug(d)
    <3> SUFFICES ASSUME NEW d \in Slots \cup {Fan}, Replug(d) PROVE FALSE
      OBVIOUS
    <3>1. d \in Devices /\ plugged \in [Devices -> BOOLEAN] /\ plugged' = [plugged EXCEPT ![d] = ~@]
      BY Numbers DEF Replug, Clean, Frame, TypeOK
    <3> QED
      BY <3>1
  <2>2. ~ \E p \in Sources : PowerSupply(p)
    <3> SUFFICES ASSUME NEW p \in Sources, PowerSupply(p) PROVE FALSE
      OBVIOUS
    <3>1. PICK good \in BOOLEAN : powered' = [powered EXCEPT ![p] = good]
      BY DEF PowerSupply
    <3>2. x # p /\ x \in Devices /\ powered \in [Devices -> BOOLEAN]
      BY Numbers, DeviceKinds DEF Clean, Frame, TypeOK
    <3> QED
      BY <3>1, <3>2
  <2>3. ~(UNCHANGED powered)
    OBVIOUS
  <2>4. Serve
    BY <2>1, <2>2, <2>3 DEF Next, Manager, WaitForNotice, WaitOutDelay, WeighPower,
          LeaveSmartStart, PollNotice, Transition, Scan, CalcProhib, HearState, HearPower, HearSet, Hear,
          Interrupted, Unanswered, ProfileChange, EepromRewritten, vars, crate
  <2> QED
    BY <2>3, <2>4 DEF Serve, ServeGetState, ServeGetPower
<1>2. /\ dcbox # <<>> /\ UNCHANGED <<fsm, worker, dev, ask, status, books>>
      /\ dcbox \in Seq(Messages) /\ status \in [Devices -> Looks] /\ powerLimitSource \in Nat
      /\ plugged \in [Devices -> BOOLEAN] /\ powered \in [Devices -> BOOLEAN]
  BY <1>1 DEF Serve, Clean, Frame, TypeOK, BoxesOK
<1>3. Head(dcbox) = dcbox[1] /\ 1 \in DOMAIN dcbox
  BY <1>2
<1>4. Head(dcbox).of = dev /\ ask = "SET_SHELF_STATE" /\ dev \in Devices
  <2>1. Alone(dcbox, pmbox, ask, dev)
    BY DEF Clean, Frame, BoxInv, OnlyQuestion
  <2>2. ask # "none" => dev \in Devices
    BY DEF Clean, Frame, BoxInv
  <2> QED
    BY <1>1, <1>3, <2>1, <2>2 DEF Alone, Replies
<1>5. x = dev /\ plugged[dev] /\ \A d \in Devices : d # dev => powered'[d] = powered[d]
  BY <1>1, <1>2, <1>4, Numbers DEF ServeSetState
<1>6. Pass /\ Truthful /\ Balanced /\ Flow
  BY DEF Clean, Pass, Frame
<1>7. Here(dev) /\ ~On(dev) /\ status[dev].power <= actualAvailablePowerLimit
  BY <1>4, <1>6 DEF Balanced, Asking, Affordable
<1>8. \A y \in Marks : Over(y)
  BY MarkOrder, Orders DEF Over, AtSignal
<1>9. \A d \in Devices : Read(d) /\ StateRead(d)
  BY <1>8 DEF Marks, Read, Passed, StateRead
<1>10. ~Switched
  BY <1>1, <1>3 DEF Switched
<1>11. \A d \in Devices : PowerTrue(d) /\ Here(d) = plugged[d] /\ (plugged[d] => (On(d) = powered[d]))
  BY <1>6, <1>9, <1>10 DEF Truthful, Believed, StateTrue
<1>12. actualAvailablePowerLimit = Spare(Draw(Drawing)) /\ powerLimitSource = SourceLimit
  BY <1>6, <1>8 DEF Marks, Balanced, Budget
<1>13. SourceLimit = TrueLimit /\ TrueLimit' = TrueLimit
  <2>1. \A d \in Sources : d \in Devices /\ d \notin Slots /\ d # dev
    BY <1>5, Numbers, DeviceKinds
  <2>2. \A d \in Sources : status[d].power = IF plugged[d] /\ powered[d] THEN Power[d] ELSE 0
    BY <1>11, <2>1 DEF PowerTrue
  <2>3. \A d \in Sources : powered'[d] = powered[d] /\ plugged'[d] = plugged[d]
    BY <1>5, <2>1
  <2>4. TrueRated' = TrueRated
    BY <2>3 DEF TrueRated
  <2> QED
    BY <1>11, <2>1, <2>2, <2>4, LimitTrue DEF TrueLimit
<1>14. PICK T : T = {d \in Slots \cup {Fan} : plugged'[d] /\ powered'[d]}
  OBVIOUS
<1>15. PICK S : S = Drawing
  OBVIOUS
<1>16. PICK U : U = S \cup {dev}
  OBVIOUS
<1>17. U \in SUBSET Slots /\ dev \in U /\ U \ {dev} = S /\ (T = U \/ T = U \cup {Fan})
  <2>1. S = {d \in Slots : d # dev /\ plugged'[d] /\ powered'[d]}
    BY <1>5, <1>7, <1>11, <1>15, Numbers DEF Drawing
  <2> QED
    BY <1>5, <1>14, <1>16, <2>1
<1>18. \A d \in T : Power[d] <= status[d].power
  <2> TAKE d \in T
  <2>1. d \in Devices /\ plugged[d] /\ (d \in Slots \/ (d = Fan /\ d \notin Slots /\ powered'[d]))
        /\ Power[d] \in Nat
    BY <1>14, Numbers, DeviceKinds, ShelfAssumption
  <2>2. d \in Slots \/ powered[d]
    BY <1>5, <2>1
  <2>3. status[d].power \in Nat
    BY <1>2, <2>1 DEF Looks
  <2> QED
    BY <1>11, <2>1, <2>2, <2>3 DEF PowerTrue
<1>19. /\ SumFunctionOnSet(Power, T) \in Nat /\ Draw(U) \in Nat
       /\ SumFunctionOnSet(Power, T) <= Draw(U) + status[Fan].power
  BY <1>2, <1>17, <1>18, DrawAtMost
<1>20. Draw(U) = status[dev].power + Draw(S) /\ Draw(S) \in Nat
  <2>1. PICK f : f = [d \in Devices |-> status[d].power]
    OBVIOUS
  <2>2. \A d \in Devices : f[d] \in Nat /\ f[d] = status[d].power
    BY <1>2, <2>1 DEF Looks
  <2>3. U \in SUBSET Devices /\ S \in SUBSET Devices
    BY <1>16, <1>17, Numbers
  <2>4. IsFiniteSet(U) /\ \A d \in U : f[d] \in Int
    BY <2>2, <2>3, DevicesFinite
  <2>5. SumFunctionOnSet(f, U) = f[dev] + SumFunctionOnSet(f, U \ {dev})
    BY <1>17, <2>4, SumTake
  <2> QED
    BY <1>2, <1>4, <1>17, <2>1, <2>2, <2>3, <2>5, DrawType DEF Draw
<1>21. PICK a \in Nat : a = Draw(S)
  BY <1>20
<1>22. PICK p \in Nat : p = status[dev].power
  BY <1>2, <1>4 DEF Looks
<1>23. PICK c \in Nat : c = SumFunctionOnSet(Power, T)
  BY <1>19
<1>24. PICK q \in Nat : q = status[Fan].power
  BY <1>2, Numbers DEF Looks
<1>25. PICK l \in Nat : l = powerLimitSource
  BY <1>2
<1>26. c <= (p + a) + q
  BY <1>19, <1>20, <1>21, <1>22, <1>23, <1>24
<1>27. p <= l - q - PowerCU - MinReserve - a
  BY <1>7, <1>12, <1>15, <1>21, <1>22, <1>24, <1>25 DEF Spare
<1>28. TrueSpare' = l - PowerCU - MinReserve - c
  BY <1>12, <1>13, <1>14, <1>23, <1>25 DEF TrueSpare, TrueDraw
<1>29. PowerCU \in Nat /\ MinReserve \in Nat
  BY ShelfAssumption
<1> QED
  BY <1>26, <1>27, <1>28, <1>29

-----------------------------------------------------------------------------
(* What the shelf manager promises *)

\* The inductive invariant of the whole system.
THEOREM CleanInvariant == Spec => []Clean
<1>1. Init => Clean
  <2>1. Init => Frame
    BY TypeInit, BoxInit, FlowInit DEF Frame
  <2> QED
    BY <2>1, PassInit DEF Clean
<1> QED
  BY <1>1, PassStep, PTL DEF Spec

\* At every step of a pass the manager's books follow from what it believes of
\* the devices, and unless news is under way what it believes is true and what
\* it has done is what the profile says: the invariant behind the three promises.
THEOREM PassInvariant == Spec => []PassInv
<1>1. Clean => PassInv
  BY DEF Clean, Frame, PassInv
<1> QED
  BY <1>1, CleanInvariant, PTL

\* With nothing left to do the manager has turned the boards of prohibited slots
\* off and those of certain start on, for any crate, any profile and any history
\* of changes that reached it (power_managment.c, the pass of the table).
THEOREM ProfileRules == Spec => []RestObeysProfile
<1>1. Clean => RestObeysProfile
  BY CleanObeys
<1> QED
  BY <1>1, CleanInvariant, PTL

\* With nothing left to do crate_status is the truth about every device, and
\* the power still offered is at most what is really left of it.
THEOREM BooksAreTrue == Spec => []BooksTrueAtRest
<1>1. Clean => BooksTrueAtRest
  BY CleanBooks
<1> QED
  BY <1>1, CleanInvariant, PTL

\* calc_smartly never switches on a board the power supplies cannot carry along
\* with all the others: the reserve is still there when the controller has done
\* it, unless news of the crate is already under way.
THEOREM NothingOverdrawn == Spec => SmartStartWithinBudget
<1>1. Clean /\ [Next]_vars =>
         [worker = "SMARTSTART" /\ ~clouded /\ ~NewsPending /\ plugged' = plugged
            /\ (\E d \in Slots : ~powered[d] /\ powered'[d])
            => TrueSpare' >= 0]_vars
  BY StartWithinBudget
<1> QED
  BY <1>1, CleanInvariant, PTL DEF Spec, SmartStartWithinBudget
=============================================================================
