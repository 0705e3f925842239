------------------------- MODULE ControlUnit_proofs --------------------------
(* The invariants of the exchange with the control unit, for ring buffers,    *)
(* queues and commands of any length and any number of bytes and requests.    *)
EXTENDS ControlUnit, FoldLemmas

SlotNumbers == 0 .. Slots - 1
Indices == 0 .. Total - 1
Cells == Byte \cup {Nothing}
Buffers == [data : [Indices -> Cells], count : 0 .. Word - 1,
            head : Indices, tail : Indices]
Pcs == {"start", "top", "pend", "command", "reading", "clear", "process", "build", "left"}
Tasks == [pc : Pcs, hand : SlotNumbers \cup {Nothing}, head : Indices, tail : Indices,
          len : Nat, text : Seq(Cells)]

Types ==
  /\ buffer \in Buffers
  /\ listening \in BOOLEAN /\ met \in BOOLEAN /\ len \in Nat
  /\ slot \in [SlotNumbers -> Nat] /\ cur \in SlotNumbers
  /\ queue \in Seq(SlotNumbers \cup Requests) /\ Len(queue) <= Slots
  /\ task \in Tasks
  /\ InHand => task.hand \in SlotNumbers
  /\ answer \in [0 .. Length -> Marks \cup {0}] /\ cnt \in 0 .. Length
  /\ answer[Length] = 0
  /\ sending \in BOOLEAN

\* No slot gives a length that the task refuses, and only the task moves the
\* head.
Bounded ==
  /\ \A k \in SlotNumbers : slot[k] < MaxLen
  /\ task.pc = "reading" => task.len < MaxLen /\ task.head = buffer.head
  /\ AlwaysServes

\* Commands in the queue.
Posted(i) == i \in DOMAIN queue /\ IsSlot(queue[i])

\* While nobody talks over an answer, there is one command at most: in the
\* queue, in hand, or answered; and the answer's bytes have been sent up to cnt.
OneAtATime ==
  ~talkedOver =>
    /\ \A i, j \in DOMAIN queue : Posted(i) /\ Posted(j) => i = j
    /\ (\E i \in DOMAIN queue : Posted(i)) => ~InHand /\ ~sending
    /\ InHand => ~sending
    /\ task.pc \in {"process", "build"} => cnt = 0
    /\ task.pc = "build" => answer[0] \in Marks
    /\ sending => /\ cnt < Length
                  /\ \E v \in Marks :
                       /\ \A i \in 0 .. Length - 1 : answer[i] = v
                       /\ wire = [i \in 1 .. cnt |-> v]
    /\ ~sending => wire \in {<<>>} \cup {Whole(v) : v \in Marks}

Inv == Types /\ Bounded /\ OneAtATime

-----------------------------------------------------------------------------
(* The ring buffer.                                                           *)

LEMMA Sizes ==
  /\ Total \in Nat \ {0} /\ Word \in Nat /\ Word > Total /\ MaxLen \in Nat \ {0}
  /\ Slots \in Nat \ {0} /\ Nothing \notin SlotNumbers
  /\ Requests \cap SlotNumbers = {}
  BY ControlUnitAssumption DEF SlotNumbers, Requests

LEMMA Remainder ==
  ASSUME NEW a \in Int
  PROVE  /\ a % Word \in 0 .. Word - 1
         /\ a % Total \in Indices /\ a % Slots \in SlotNumbers
<1>1. ASSUME NEW n \in Nat \ {0} PROVE a % n \in 0 .. n - 1
  OBVIOUS
<1>2. Word \in Nat \ {0} /\ Total \in Nat \ {0} /\ Slots \in Nat \ {0}
  BY Sizes
<1> QED
  BY <1>1, <1>2 DEF Indices, SlotNumbers

\* The end of an initial interval is in it.
LEMMA Below == ASSUME NEW t \in Indices, NEW i \in 0 .. t PROVE i \in Indices /\ i \in Nat
  BY Sizes DEF Indices

LEMMA EmptyBufferType == Ring!EmptyBuffer \in Buffers
  BY Sizes DEF Ring!EmptyBuffer, Buffers, Indices, Cells

\* A push keeps the head.
LEMMA PushType ==
  ASSUME NEW b \in Buffers, NEW byte \in Byte
  PROVE  Ring!Push(b, byte) \in Buffers /\ Ring!Push(b, byte).head = b.head
<1>1. /\ (b.count + 1) % Word \in 0 .. Word - 1 /\ Ring!Advanced(b.tail) \in Indices
  <2>1. b.count + 1 \in Int /\ b.tail + 1 \in Int
    BY Sizes DEF Buffers, Indices
  <2> QED
    BY <2>1, Remainder DEF Ring!Advanced
<1>2. [b.data EXCEPT ![b.tail] = byte] \in [Indices -> Cells]
  BY DEF Buffers, Cells
<1> QED
  BY <1>1, <1>2 DEF Ring!Push, Ring!Full, Buffers

\* The pieces of a read: together they are no longer than what was asked for,
\* and they end inside the array.
LEMMA Pieces ==
  ASSUME NEW h \in Indices, NEW t \in Indices, NEW n \in Nat
  PROVE  /\ Ring!First(h, t, n) \in 0 .. n /\ h + Ring!First(h, t, n) <= Total
         /\ Ring!Second(h, t, n) \in 0 .. t
         /\ Ring!First(h, t, n) + Ring!Second(h, t, n) <= n
         /\ Ring!InOnePiece(h, t) => h + Ring!First(h, t, n) \in Indices
  BY Sizes DEF Indices, Ring!First, Ring!Second, Ring!InOnePiece, Ring!Least

LEMMA ReadType ==
  ASSUME NEW b \in Buffers, NEW h \in Indices, NEW t \in Indices, NEW n \in Nat
  PROVE  Ring!Read(b, h, t, n) \in Buffers
<1> DEFINE f == Ring!First(h, t, n)
           s == Ring!Second(h, t, n)
<1>1. /\ f \in Nat /\ s \in Nat /\ s \in Indices
      /\ Ring!InOnePiece(h, t) => h + f \in Indices
  <2>1. f \in 0 .. n /\ s \in 0 .. t /\ (Ring!InOnePiece(h, t) => h + f \in Indices)
    BY Pieces
  <2> QED
    BY <2>1, Below
<1>2. (b.count - f - s) % Word \in 0 .. Word - 1
  <2>1. b.count - f - s \in Int
    BY <1>1, Sizes DEF Buffers
  <2> QED
    BY <2>1, Remainder
<1>3. b.head \in Indices
  BY DEF Buffers
<1> HIDE DEF f, s
<1> QED
  BY <1>1, <1>2, <1>3 DEF Ring!Read, Buffers, f, s

\* What is copied is no longer than what was asked for.
LEMMA CopiedType ==
  ASSUME NEW b \in Buffers, NEW h \in Indices, NEW t \in Indices, NEW n \in Nat
  PROVE  /\ Ring!Copied(b, h, t, n) \in Seq(Cells)
         /\ Len(Ring!Copied(b, h, t, n)) =
              Ring!First(h, t, n) + Ring!Second(h, t, n)
<1> DEFINE f == Ring!First(h, t, n)
           s == Ring!Second(h, t, n)
           p == [i \in 1 .. f |-> b.data[h + i - 1]]
           q == [i \in 1 .. s |-> b.data[i - 1]]
<1>1. f \in Nat /\ s \in Nat /\ s \in 0 .. t /\ h + f <= Total
  BY Pieces, Sizes DEF Indices
<1>2. \A i \in 1 .. f : h + i - 1 \in Indices
  BY <1>1, Sizes DEF Indices
<1>3. \A i \in 1 .. s : i - 1 \in Indices
  <2>1. t \in Nat
    BY Sizes DEF Indices
  <2>2. \A i \in 1 .. s : i - 1 \in 0 .. t
    BY <1>1, <2>1
  <2> QED
    BY <2>2, Below
<1>4. p \in Seq(Cells) /\ Len(p) = f
  BY <1>1, <1>2 DEF Buffers
<1>5. q \in Seq(Cells) /\ Len(q) = s
  BY <1>1, <1>3 DEF Buffers
<1> HIDE DEF p, q
<1>6. p \o q \in Seq(Cells) /\ Len(p \o q) = f + s
  BY <1>4, <1>5
<1> QED
  BY <1>6 DEF Ring!Copied, p, q

-----------------------------------------------------------------------------
(* The queue and the task.                                                    *)

Elements == SlotNumbers \cup Requests

LEMMA AppendType ==
  ASSUME NEW q \in Seq(Elements), NEW m \in Elements
  PROVE  /\ Append(q, m) \in Seq(Elements) /\ Len(q) \in Nat
         /\ Len(Append(q, m)) = Len(q) + 1
         /\ DOMAIN q = 1 .. Len(q) /\ DOMAIN Append(q, m) = 1 .. Len(q) + 1
         /\ Append(q, m)[Len(q) + 1] = m
         /\ \A i \in 1 .. Len(q) : Append(q, m)[i] = q[i]
  OBVIOUS

LEMMA TailType ==
  ASSUME NEW q \in Seq(Elements), q # <<>>
  PROVE  /\ Tail(q) \in Seq(Elements) /\ Head(q) \in Elements /\ Head(q) = q[1]
         /\ Len(q) \in Nat \ {0} /\ Len(Tail(q)) = Len(q) - 1
         /\ DOMAIN q = 1 .. Len(q) /\ DOMAIN Tail(q) = 1 .. Len(q) - 1
         /\ \A i \in 1 .. Len(q) - 1 : Tail(q)[i] = q[i + 1]
  OBVIOUS

\* A message gets into the queue, at its end, or it is dropped.
LEMMA PostType ==
  ASSUME Types, NEW m \in Elements, Post(m)
  PROVE  /\ queue' \in Seq(Elements) /\ Len(queue') <= Slots
         /\ queue' = queue \/ queue' = Append(queue, m)
         /\ \A i : Posted(i)' => Posted(i) \/ (IsSlot(m) /\ i = Len(queue) + 1)
<1>1. queue \in Seq(Elements) /\ Len(queue) <= Slots
  BY DEF Types, Elements
<1>2. queue' = queue \/ (queue' = Append(queue, m) /\ Len(queue) < Slots)
  BY DEF Post, Fits
<1>3. CASE queue' = queue
  BY <1>1, <1>3 DEF Posted
<1>4. CASE queue' = Append(queue, m) /\ Len(queue) < Slots
  <2>1. queue' \in Seq(Elements) /\ Len(queue') <= Slots
    BY <1>1, <1>4, AppendType, Sizes
  <2>2. ASSUME NEW i, Posted(i)'
        PROVE  Posted(i) \/ (IsSlot(m) /\ i = Len(queue) + 1)
    <3>1. i \in 1 .. Len(queue) + 1 /\ Len(queue) \in Nat
      BY <1>1, <1>4, <2>2, AppendType DEF Posted
    <3>2. CASE i = Len(queue) + 1
      BY <1>1, <1>4, <2>2, <3>2, AppendType DEF Posted
    <3>3. CASE i \in 1 .. Len(queue)
      BY <1>1, <1>4, <2>2, <3>3, AppendType DEF Posted
    <3> QED
      BY <3>1, <3>2, <3>3
  <2> QED
    BY <1>4, <2>1, <2>2
<1> QED
  BY <1>2, <1>3, <1>4

\* Where the task goes next, with what it has in hand.
LEMMA GoToType ==
  ASSUME Types, NEW p \in Pcs, GoTo(p)
  PROVE  /\ task' \in Tasks /\ task'.pc = p /\ task'.hand = task.hand
         /\ task'.len = task.len /\ task'.head = task.head /\ task'.text = task.text
  BY DEF Types, GoTo, Tasks

LEMMA IdleType == Idle \in Tasks /\ Idle.pc = "pend" /\ Idle.text = <<>>
  BY Sizes DEF Idle, Tasks, Pcs, Indices

LEMMA InitInv == Init => Inv
<1> SUFFICES ASSUME Init PROVE Inv
  OBVIOUS
<1> USE DEF Init
<1>1. task \in Tasks /\ task.pc = "start" /\ task.text = <<>>
  BY IdleType DEF Tasks, Pcs
<1>2. Types
  <2>1. slot \in [SlotNumbers -> Nat] /\ cur \in SlotNumbers
    BY Sizes DEF SlotNumbers
  <2>2. answer \in [0 .. Length -> Marks \cup {0}] /\ cnt \in 0 .. Length /\ answer[Length] = 0
    BY DEF Length
  <2>3. queue \in Seq(Elements) /\ Len(queue) <= Slots
    BY Sizes
  <2> QED
    BY <1>1, <2>1, <2>2, <2>3, EmptyBufferType DEF Types, InHand, Elements
<1>3. Bounded
  BY <1>1, Sizes DEF Bounded, AlwaysServes, SlotNumbers
<1>4. OneAtATime
  BY <1>1 DEF OneAtATime, InHand, Posted
<1> QED
  BY <1>2, <1>3, <1>4 DEF Inv

LEMMA RequestInv == Inv /\ Request => Inv'
<1> SUFFICES ASSUME Inv, Request PROVE Inv'
  OBVIOUS
<1> USE DEF Inv, Request, receiver, transmitter
<1>1. PICK m \in Requests : Post(m)
  OBVIOUS
<1>2. m \in Elements /\ ~ IsSlot(m)
  BY DEF Elements, IsSlot
<1>3. /\ queue' \in Seq(Elements) /\ Len(queue') <= Slots
      /\ \A i : Posted(i)' => Posted(i)
  BY <1>1, <1>2, PostType
<1>4. Types'
  BY <1>3 DEF Types, InHand, Elements
<1>5. Bounded'
  BY DEF Bounded, AlwaysServes
<1>6. OneAtATime'
  BY <1>3 DEF OneAtATime, InHand, Posted
<1> QED
  BY <1>4, <1>5, <1>6

\* A byte that is taken: at most one command is posted, of a length below the
\* limit.
LEMMA TakeInv ==
  ASSUME Inv, NEW byte \in Byte, Take(byte),
         UNCHANGED <<listening, task, transmitter>>
  PROVE  Inv'
<1> USE DEF Inv, Take, transmitter
<1>1. NewLen(byte) \in Nat \ {0}
  BY DEF NewLen, Types
<1>2. buffer' \in Buffers /\ buffer'.head = buffer.head
  BY PushType DEF Types
<1>3. met' \in BOOLEAN
  BY DEF Ends
<1>4. CASE Ends(byte)
  <2>1. /\ slot' = [slot EXCEPT ![cur] = NewLen(byte)] /\ Post(cur)
        /\ cur' = (cur + 1) % Slots
        /\ talkedOver' = (talkedOver \/ Busy)
    BY <1>4
  <2>2. /\ cur \in Elements /\ IsSlot(cur) /\ cur \in SlotNumbers
        /\ cur' \in SlotNumbers /\ slot' \in [SlotNumbers -> Nat]
    <3>1. cur \in SlotNumbers /\ cur + 1 \in Int
      BY Sizes DEF Types, SlotNumbers
    <3>2. cur' \in SlotNumbers
      BY <2>1, <3>1, Remainder
    <3>3. cur \in Elements /\ IsSlot(cur)
      BY <3>1, Sizes DEF Elements, IsSlot
    <3> QED
      BY <1>1, <2>1, <3>1, <3>2, <3>3 DEF Types
  <2>3. /\ queue' \in Seq(Elements) /\ Len(queue') <= Slots
        /\ \A i : Posted(i)' => Posted(i) \/ i = Len(queue) + 1
    BY <2>1, <2>2, PostType
  <2>4. Types'
    BY <1>1, <1>2, <1>3, <2>2, <2>3 DEF Types, InHand, Elements
  <2>5. NewLen(byte) < MaxLen
    BY <1>1, <1>4, Sizes DEF Ends, TooLong
  <2>6. \A k \in SlotNumbers : slot'[k] < MaxLen
    BY <2>1, <2>2, <2>5 DEF Types, Bounded
  <2>7. Bounded'
    BY <1>2, <2>6 DEF Bounded, AlwaysServes
  <2>8. OneAtATime'
    BY <2>1, <2>3 DEF OneAtATime, InHand, Posted, Busy
  <2> QED
    BY <2>4, <2>7, <2>8
<1>5. CASE ~ Ends(byte)
  <2>1. Types'
    BY <1>1, <1>2, <1>3, <1>5 DEF Types, InHand
  <2>2. Bounded'
    BY <1>2, <1>5 DEF Bounded, AlwaysServes
  <2>3. OneAtATime'
    BY <1>5 DEF OneAtATime, InHand, Posted
  <2> QED
    BY <2>1, <2>2, <2>3
<1> QED
  BY <1>4, <1>5

LEMMA ReceiveInv == Inv /\ Receive => Inv'
<1> SUFFICES ASSUME Inv, Receive PROVE Inv'
  OBVIOUS
<1> USE DEF Receive, transmitter
<1>1. PICK byte \in Byte :
        IF listening /\ Taken(byte) THEN Take(byte)
        ELSE UNCHANGED <<buffer, met, len, slot, cur, queue, partial, unread,
                         strayed, talkedOver>>
  OBVIOUS
<1>2. CASE Take(byte)
  BY <1>2, TakeInv
<1>3. CASE UNCHANGED <<buffer, met, len, slot, cur, queue, talkedOver>>
  BY <1>3 DEF Inv, Types, Bounded, AlwaysServes, OneAtATime, InHand, Posted
<1> QED
  BY <1>1, <1>2, <1>3

\* The transmitter sends the byte at cnt and stops before the 0.
LEMMA TransmitInv == Inv /\ Transmit => Inv'
<1> SUFFICES ASSUME Inv, Transmit PROVE Inv'
  OBVIOUS
<1> USE DEF Inv, Transmit, receiver
<1>1. /\ cnt \in 0 .. Length /\ answer \in [0 .. Length -> Marks \cup {0}]
      /\ answer[Length] = 0 /\ sending
  BY DEF Types
<1>2. cnt' \in 0 .. Length /\ sending' \in BOOLEAN
  BY <1>1 DEF Length, Stops
<1>3. Types' /\ Bounded'
  BY <1>1, <1>2 DEF Types, Bounded, AlwaysServes, InHand
<1>4. OneAtATime'
  <2>1. SUFFICES ASSUME ~ talkedOver PROVE OneAtATime'
    BY DEF OneAtATime
  <2>2. /\ \A i, j \in DOMAIN queue : Posted(i) /\ Posted(j) => i = j
        /\ ~ \E i \in DOMAIN queue : Posted(i)
        /\ ~ InHand /\ cnt < Length
    BY <1>1, <2>1 DEF OneAtATime
  <2>3. PICK v \in Marks :
          /\ \A i \in 0 .. Length - 1 : answer[i] = v
          /\ wire = [i \in 1 .. cnt |-> v]
    BY <1>1, <2>1 DEF OneAtATime
  <2>4. /\ answer[cnt] = v /\ v # 0 /\ cnt \in {0, 1}
    BY <1>1, <2>2, <2>3 DEF Length, Marks
  <2>5. cnt' = cnt + 1 /\ wire' = Append(wire, v)
    BY <2>4
  <2>6. wire' = [i \in 1 .. cnt' |-> v]
    BY <2>3, <2>4, <2>5
  <2>7. sending' <=> answer[cnt'] # 0
    BY <1>2 DEF Stops
  <2>8. CASE cnt = 0
    <3>1. cnt' = 1 /\ sending'
      <4>1. cnt' = 1
        BY <2>5, <2>8
      <4>2. answer[1] # 0
        BY <2>3, <2>4 DEF Length
      <4> QED
        BY <2>7, <4>1, <4>2
    <3>2. \E w \in Marks : /\ \A i \in 0 .. Length - 1 : answer'[i] = w
                          /\ wire' = [i \in 1 .. cnt' |-> w]
      BY <2>3, <2>6
    <3> QED
      BY <2>2, <3>1, <3>2 DEF OneAtATime, InHand, Posted, Length
  <2>9. CASE cnt = 1
    <3>1. cnt' = 2 /\ ~ sending'
      <4>1. cnt' = 2
        BY <2>5, <2>9
      <4>2. answer[2] = 0
        BY <1>1 DEF Length
      <4> QED
        BY <2>7, <4>1, <4>2
    <3>2. wire' = Whole(v)
      BY <2>6, <3>1 DEF Length, Whole
    <3> QED
      BY <2>2, <3>1, <3>2 DEF OneAtATime, InHand, Posted
  <2> QED
    BY <2>4, <2>8, <2>9
<1> QED
  BY <1>3, <1>4

\* A step of the task that leaves the queue, the wire and the transmitter
\* alone.
LEMMA TaskAlone ==
  ASSUME Inv, Bounded', Types',
         UNCHANGED <<queue, sending, wire, talkedOver>>,
         InHand' => InHand,
         sending => cnt' = cnt /\ answer' = answer,
         task'.pc \in {"process", "build"} /\ ~sending => cnt' = 0,
         task'.pc = "build" => answer'[0] \in Marks
  PROVE  Inv'
<1>1. OneAtATime'
  <2>1. SUFFICES ASSUME ~ talkedOver PROVE OneAtATime'
    BY DEF OneAtATime
  <2>2. InHand' => ~ sending'
    BY <2>1 DEF Inv, OneAtATime
  <2>3. task'.pc \in {"process", "build"} => InHand'
    BY DEF InHand
  <2> QED
    BY <2>1, <2>2, <2>3 DEF Inv, OneAtATime, Posted
<1> QED
  BY <1>1 DEF Inv

LEMMA StartInv == Inv /\ Start => Inv'
<1> SUFFICES ASSUME Inv, Start PROVE Inv'
  OBVIOUS
<1> USE DEF Start, receiver, transmitter
<1>1. task' \in Tasks /\ task'.pc = "top" /\ task'.hand = task.hand /\ task'.text = task.text
  BY GoToType DEF Inv, Pcs
<1>2. Types' /\ Bounded'
  BY <1>1 DEF Inv, Types, Bounded, AlwaysServes, InHand
<1> QED
  BY <1>1, <1>2, TaskAlone DEF InHand

LEMMA TopInv == Inv /\ Top => Inv'
<1> SUFFICES ASSUME Inv, Top PROVE Inv'
  OBVIOUS
<1> USE DEF Top, transmitter
<1>1. task' \in Tasks /\ task'.pc = "pend" /\ task'.text = <<>>
  BY IdleType
<1>2. Types' /\ Bounded'
  BY <1>1, Sizes DEF Inv, Types, Bounded, AlwaysServes, InHand
<1> QED
  BY <1>1, <1>2, TaskAlone DEF InHand

\* The element at the head of the queue is taken out.
LEMMA TakenOut ==
  ASSUME Types, queue # <<>>, queue' = Tail(queue)
  PROVE  /\ queue' \in Seq(Elements) /\ Len(queue') <= Slots /\ Head(queue) \in Elements
         /\ IsSlot(Head(queue)) <=> Posted(1)
         /\ \A i : Posted(i)' => i \in Nat /\ i + 1 # 1 /\ Posted(i + 1)
<1>1. queue \in Seq(Elements) /\ Len(queue) <= Slots
  BY DEF Types, Elements
<1>2. /\ queue' \in Seq(Elements) /\ Head(queue) \in Elements /\ Head(queue) = queue[1]
      /\ Len(queue) \in Nat \ {0} /\ Len(queue') = Len(queue) - 1
      /\ DOMAIN queue = 1 .. Len(queue) /\ DOMAIN queue' = 1 .. Len(queue) - 1
      /\ \A i \in 1 .. Len(queue) - 1 : queue'[i] = queue[i + 1]
  BY <1>1, TailType
<1>3. ASSUME NEW i, Posted(i)' PROVE i \in Nat /\ i + 1 # 1 /\ Posted(i + 1)
  <2>1. i \in 1 .. Len(queue) - 1 /\ i + 1 \in 1 .. Len(queue)
    BY <1>2, <1>3 DEF Posted
  <2> QED
    BY <1>2, <1>3, <2>1 DEF Posted
<1>4. IsSlot(Head(queue)) <=> Posted(1)
  BY <1>2 DEF Posted
<1> QED
  BY <1>1, <1>2, <1>3, <1>4, Sizes

LEMMA TakeRequestInv == Inv /\ TakeRequest => Inv'
<1> SUFFICES ASSUME Inv, TakeRequest PROVE Inv'
  OBVIOUS
<1> USE DEF TakeRequest, transmitter
<1>1. task' \in Tasks /\ task'.pc = "top" /\ task'.hand = task.hand /\ task'.text = task.text
  BY GoToType DEF Inv, Pcs
<1>2. /\ queue' \in Seq(Elements) /\ Len(queue') <= Slots
      /\ \A i : Posted(i)' => i \in Nat /\ Posted(i + 1)
  BY TakenOut DEF Inv
<1>3. Types' /\ Bounded'
  BY <1>1, <1>2 DEF Inv, Types, Bounded, AlwaysServes, InHand, Elements
<1>4. OneAtATime'
  <2>1. SUFFICES ASSUME ~ talkedOver PROVE OneAtATime'
    BY DEF OneAtATime
  <2>2. \A i, j : Posted(i)' /\ Posted(j)' => i = j
    <3>1. ASSUME NEW i, NEW j, Posted(i)', Posted(j)' PROVE i = j
      <4>1. i \in Nat /\ j \in Nat /\ Posted(i + 1) /\ Posted(j + 1)
        BY <1>2, <3>1
      <4>2. i + 1 = j + 1
        BY <2>1, <4>1 DEF Inv, OneAtATime, Posted
      <4> QED
        BY <4>1, <4>2
    <3> QED
      BY <3>1
  <2>3. (\E i : Posted(i)') => ~ sending
    BY <1>2, <2>1 DEF Inv, OneAtATime, Posted
  <2> QED
    BY <1>1, <2>1, <2>2, <2>3 DEF Inv, OneAtATime, InHand
<1> QED
  BY <1>3, <1>4 DEF Inv

LEMMA TakeCommandInv == Inv /\ TakeCommand => Inv'
<1> SUFFICES ASSUME Inv, TakeCommand PROVE Inv'
  OBVIOUS
<1> USE DEF TakeCommand, receiver, transmitter
<1>1. /\ queue' \in Seq(Elements) /\ Len(queue') <= Slots
      /\ Head(queue) \in SlotNumbers /\ Posted(1)
      /\ \A i : Posted(i)' => i \in Nat /\ i + 1 # 1 /\ Posted(i + 1)
  BY TakenOut DEF Inv, Elements, IsSlot
<1>2. /\ task' \in Tasks /\ task'.pc = "command" /\ task'.hand = Head(queue)
      /\ task'.text = task.text
  BY <1>1 DEF Inv, Types, Tasks, Pcs
<1>3. Types' /\ Bounded'
  BY <1>1, <1>2 DEF Inv, Types, Bounded, AlwaysServes, InHand, Elements
<1>4. OneAtATime'
  <2>1. SUFFICES ASSUME ~ talkedOver PROVE OneAtATime'
    BY DEF OneAtATime
  <2>2. \A i : ~ Posted(i)'
    <3>1. ASSUME NEW i, Posted(i)' PROVE FALSE
      <4>1. i + 1 # 1 /\ Posted(i + 1)
        BY <1>1, <3>1
      <4> QED
        BY <1>1, <2>1, <4>1 DEF Inv, OneAtATime, Posted
    <3> QED
      BY <3>1
  <2>3. ~ sending
    BY <1>1, <2>1 DEF Inv, OneAtATime, Posted
  <2> QED
    BY <1>2, <2>1, <2>2, <2>3 DEF Inv, OneAtATime
<1> QED
  BY <1>3, <1>4 DEF Inv

LEMMA BeginReadInv == Inv /\ BeginRead => Inv'
<1> SUFFICES ASSUME Inv, BeginRead PROVE Inv'
  OBVIOUS
<1> USE DEF BeginRead, receiver
<1>1. InHand /\ task.hand \in SlotNumbers /\ slot[task.hand] \in Nat
      /\ slot[task.hand] < MaxLen /\ task \in Tasks
  BY DEF Inv, Types, Bounded, InHand
<1>2. answer' \in [0 .. Length -> Marks \cup {0}] /\ answer'[Length] = 0
  BY DEF Inv, Types, Length
<1>3. \/ task' = [task EXCEPT !.pc = "clear", !.text = <<>>]
      \/ task' = [task EXCEPT !.pc = "reading", !.len = slot[task.hand],
                              !.head = buffer.head, !.tail = buffer.tail]
  BY <1>1, Sizes
<1>4. buffer.head \in Indices /\ buffer.tail \in Indices
  BY DEF Inv, Types, Buffers
<1>5. /\ task' \in Tasks /\ task'.pc \in {"clear", "reading"} /\ task'.hand = task.hand
      /\ task'.text \in {<<>>, task.text}
      /\ task'.pc = "reading" => task'.len < MaxLen /\ task'.head = buffer.head
  <2>1. CASE task' = [task EXCEPT !.pc = "clear", !.text = <<>>]
    <3>1. <<>> \in Seq(Cells)
      OBVIOUS
    <3>2. task' \in Tasks
      BY <1>1, <2>1, <3>1 DEF Tasks, Pcs
    <3> QED
      BY <1>1, <2>1, <3>2 DEF Tasks
  <2>2. CASE task' = [task EXCEPT !.pc = "reading", !.len = slot[task.hand],
                                  !.head = buffer.head, !.tail = buffer.tail]
    BY <1>1, <1>4, <2>2 DEF Tasks, Pcs
  <2> QED
    BY <1>3, <2>1, <2>2
<1>6. Types'
  BY <1>1, <1>2, <1>5 DEF Inv, Types, InHand
<1>7. Bounded'
  BY <1>5, Sizes DEF Inv, Bounded, AlwaysServes
<1>8. OneAtATime'
  <2>1. SUFFICES ASSUME ~ talkedOver PROVE OneAtATime'
    BY DEF OneAtATime
  <2>2. ~ sending /\ InHand'
    BY <1>1, <1>5, <2>1 DEF Inv, OneAtATime, InHand
  <2> QED
    BY <1>1, <1>5, <2>1, <2>2 DEF Inv, OneAtATime, Posted
<1> QED
  BY <1>6, <1>7, <1>8 DEF Inv

LEMMA EndReadInv == Inv /\ EndRead => Inv'
<1> SUFFICES ASSUME Inv, EndRead PROVE Inv'
  OBVIOUS
<1> USE DEF EndRead, transmitter
<1>1. /\ task \in Tasks /\ task.pc = "reading" /\ task.len \in Nat /\ task.len < MaxLen
      /\ task.head \in Indices /\ task.tail \in Indices /\ task.head = buffer.head
      /\ buffer \in Buffers
  BY DEF Inv, Types, Tasks, Bounded
<1>2. buffer' \in Buffers
  BY <1>1, ReadType
<1> DEFINE text == Ring!Copied(buffer, task.head, task.tail, task.len)
<1>3. text \in Seq(Cells) /\ Len(text) <= task.len /\ Len(text) \in Nat
  <2>1. /\ text \in Seq(Cells)
        /\ Len(text) = Ring!First(task.head, task.tail, task.len)
                         + Ring!Second(task.head, task.tail, task.len)
    BY <1>1, CopiedType
  <2> QED
    BY <1>1, <2>1, Pieces
<1> HIDE DEF text
<1>4. task' = [task EXCEPT !.pc = "clear", !.text = text]
  BY <1>1 DEF text
<1>5. /\ task' \in Tasks /\ task'.pc = "clear" /\ task'.hand = task.hand
      /\ task'.text = text
  BY <1>1, <1>3, <1>4 DEF Tasks, Pcs
<1>6. Types'
  BY <1>2, <1>5 DEF Inv, Types, InHand
<1>7. Bounded'
  BY <1>1, <1>3, <1>5, Sizes DEF Inv, Bounded, AlwaysServes
<1> QED
  BY <1>1, <1>5, <1>6, <1>7, TaskAlone DEF InHand

LEMMA ClearInv == Inv /\ Clear => Inv'
<1> SUFFICES ASSUME Inv, Clear PROVE Inv'
  OBVIOUS
<1> USE DEF Clear, receiver
<1>1. /\ task' \in Tasks /\ task'.pc = "process" /\ task'.hand = task.hand
      /\ task'.text = task.text
  BY GoToType DEF Inv, Pcs
<1>2. answer' \in [0 .. Length -> Marks \cup {0}] /\ answer'[Length] = 0 /\ cnt' \in 0 .. Length
  BY DEF Inv, Types, Length
<1>3. Types' /\ Bounded'
  BY <1>1, <1>2 DEF Inv, Types, Bounded, AlwaysServes, InHand
<1>4. OneAtATime'
  <2>1. SUFFICES ASSUME ~ talkedOver PROVE OneAtATime'
    BY DEF OneAtATime
  <2>2. ~ sending /\ InHand /\ InHand'
    BY <1>1, <2>1 DEF Inv, OneAtATime, InHand
  <2> QED
    BY <1>1, <2>1, <2>2 DEF Inv, OneAtATime, Posted
<1> QED
  BY <1>3, <1>4 DEF Inv

LEMMA ProcessInv == Inv /\ Process => Inv'
<1> SUFFICES ASSUME Inv, Process PROVE Inv'
  OBVIOUS
<1> USE DEF Process, receiver
<1>1. PICK p \in {"build", "top"} : /\ GoTo(p)
                                   /\ \/ p = "top" /\ answer' = answer
                                      \/ answer' = [answer EXCEPT ![0] = Other(answer[1])]
  OBVIOUS
<1>2. /\ task' \in Tasks /\ task'.pc = p /\ task'.hand = task.hand
      /\ task'.text = task.text
  BY <1>1, GoToType DEF Inv, Pcs
<1>3. /\ answer' \in [0 .. Length -> Marks \cup {0}] /\ answer'[Length] = 0
      /\ p = "build" => answer'[0] \in Marks
  BY <1>1 DEF Inv, Types, Length, Marks, Other
<1>4. Types' /\ Bounded'
  BY <1>2, <1>3 DEF Inv, Types, Bounded, AlwaysServes, InHand
<1>5. OneAtATime'
  <2>1. SUFFICES ASSUME ~ talkedOver PROVE OneAtATime'
    BY DEF OneAtATime
  <2>2. ~ sending /\ cnt = 0 /\ InHand
    BY <2>1 DEF Inv, OneAtATime, InHand
  <2> QED
    BY <1>2, <1>3, <2>1, <2>2 DEF Inv, OneAtATime, Posted
<1> QED
  BY <1>4, <1>5 DEF Inv

LEMMA AnswerInv == Inv /\ Answer => Inv'
<1> SUFFICES ASSUME Inv, Answer PROVE Inv'
  OBVIOUS
<1> USE DEF Answer, receiver
<1>1. /\ task' \in Tasks /\ task'.pc = "top" /\ task'.hand = task.hand
      /\ task'.text = task.text
  BY GoToType DEF Inv, Pcs
<1>2. /\ answer' \in [0 .. Length -> Marks \cup {0}] /\ answer'[Length] = 0
      /\ \A i \in 0 .. Length - 1 : answer'[i] = answer[0]
  BY DEF Inv, Types, Length
<1>3. Types' /\ Bounded'
  BY <1>1, <1>2 DEF Inv, Types, Bounded, AlwaysServes, InHand
<1>4. OneAtATime'
  <2>1. SUFFICES ASSUME ~ talkedOver PROVE OneAtATime'
    BY DEF OneAtATime
  <2>2. /\ ~ sending /\ cnt = 0 /\ InHand /\ answer[0] \in Marks
        /\ ~ \E i \in DOMAIN queue : Posted(i)
    BY <2>1 DEF Inv, OneAtATime, InHand
  <2>3. wire' = [i \in 1 .. cnt' |-> answer[0]] /\ sending' /\ cnt' < Length
    BY <2>2 DEF Length
  <2>4. ~ InHand'
    BY <1>1 DEF InHand
  <2> QED
    BY <1>1, <1>2, <2>1, <2>2, <2>3, <2>4 DEF Inv, OneAtATime, Posted
<1> QED
  BY <1>3, <1>4 DEF Inv

LEMMA Step == Inv /\ [Next]_vars => Inv'
<1>1. Inv /\ UNCHANGED vars => Inv'
  BY DEF Inv, Types, Bounded, AlwaysServes, OneAtATime, InHand, Posted, vars, receiver,
         transmitter
<1> QED
  BY <1>1, RequestInv, ReceiveInv, TransmitInv, StartInv, TopInv, TakeRequestInv,
     TakeCommandInv, BeginReadInv, EndReadInv, ClearInv, ProcessInv, AnswerInv
     DEF Next, Serve

LEMMA Invariant == Spec => []Inv
  BY InitInv, Step, PTL DEF Spec

-----------------------------------------------------------------------------
(* The theorems.                                                              *)

\* The variables of the exchange keep to their types: no index leaves its
\* array, the queue does not outgrow its storage, the answer stays a string.
THEOREM Typing == Spec => []TypeOK
<1>1. Inv => TypeOK
  BY DEF Inv, Types, TypeOK, Buffers, Tasks, SlotNumbers, Indices, Cells, Pcs
<1> QED
  BY <1>1, Invariant, PTL

\* Whatever bytes come in, and when, taskCU never leaves its loop, and the
\* command it reads leaves room for the 0 that it appends.
THEOREM NeverLeaves == Spec => []AlwaysServes
<1>1. Inv => AlwaysServes
  BY DEF Inv, Bounded
<1> QED
  BY <1>1, Invariant, PTL

\* As long as the control unit waits for the answer to a command before it
\* sends the next, it receives whole answers and nothing else
\* (uart_backplane_start_tx, backplane_uart_isr_snd_hook).
THEOREM AnswersAreWhole == Spec => []AnswerWhole
<1>1. Inv => AnswerWhole
  <2> SUFFICES ASSUME Inv, ~ talkedOver
               PROVE  /\ \E v \in Marks : IsPrefix(wire, Whole(v))
                      /\ ~sending => wire \in {<<>>} \cup {Whole(v) : v \in Marks}
    BY DEF AnswerWhole
  <2>1. ~sending => wire \in {<<>>} \cup {Whole(v) : v \in Marks}
    BY DEF Inv, OneAtATime
  <2>2. \E v \in Marks, n \in 0 .. Length : wire = [i \in 1 .. n |-> v]
    <3>1. CASE sending
      BY <3>1 DEF Inv, OneAtATime, Types, Length
    <3>2. CASE ~ sending
      BY <2>1, <3>2 DEF Whole, Marks, Length
    <3> QED
      BY <3>1, <3>2
  <2>3. PICK v \in Marks, n \in 0 .. Length : wire = [i \in 1 .. n |-> v]
    BY <2>2
  <2>4. IsPrefix(wire, Whole(v))
    BY <2>3 DEF IsPrefix, Whole, Length
  <2> QED
    BY <2>1, <2>4
<1> QED
  BY <1>1, Invariant, PTL

-----------------------------------------------------------------------------
(* What the ring buffer holds.                                                *)

LEMMA Below2 == \A n \in Nat \ {0} : \A a \in 0 .. n - 1 : a % n = a
  OBVIOUS

LEMMA Wrap == ASSUME NEW a \in 0 .. 2 * Total - 1
              PROVE  a % Total = IF a < Total THEN a ELSE a - Total
<1>1. ASSUME NEW n \in Nat \ {0}, NEW c \in n .. 2 * n - 1 PROVE c % n = c - n
  OBVIOUS
<1>2. Total \in Nat \ {0}
  BY Sizes
<1>3. CASE a < Total
  BY <1>2, <1>3, Below2
<1>4. CASE ~ (a < Total)
  BY <1>1, <1>2, <1>4
<1> QED
  BY <1>3, <1>4

\* the place n places after h
After(h, n) == IF h + n < Total THEN h + n ELSE h + n - Total

LEMMA AfterIs ==
  ASSUME NEW h \in Indices, NEW n \in 0 .. Total
  PROVE  (h + n) % Total = After(h, n) /\ After(h, n) \in Indices
<1>1. PICK a \in 0 .. 2 * Total - 1 : a = h + n
  BY Sizes DEF Indices
<1>2. a % Total = IF a < Total THEN a ELSE a - Total
  BY Wrap
<1> QED
  BY <1>1, <1>2, Sizes DEF After, Indices

LEMMA AfterAfter ==
  ASSUME NEW h \in Indices, NEW n \in Nat, NEW m \in Nat, n + m <= Total
  PROVE  After(After(h, n), m) = After(h, n + m)
<1>1. h \in Nat /\ h < Total /\ Total \in Nat
  BY Sizes DEF Indices
<1>2. PICK k \in Nat : k = After(h, n)
  BY <1>1 DEF After
<1>3. k = IF h + n < Total THEN h + n ELSE h + n - Total
  BY <1>2 DEF After
<1>4. After(k, m) = After(h, n + m)
  BY <1>1, <1>3 DEF After
<1> QED
  BY <1>2, <1>4

LEMMA AfterDiffers ==
  ASSUME NEW h \in Indices, NEW n \in 0 .. Total - 1, NEW m \in 0 .. Total - 1, n # m
  PROVE  After(h, n) # After(h, m)
  BY Sizes DEF After, Indices

Holds(b, s) ==
  /\ b.count = Len(s) /\ Len(s) <= Total
  /\ b.tail = After(b.head, Len(s))
  /\ \A i \in 1 .. Len(s) : b.data[After(b.head, i - 1)] = s[i]

LEMMA HoldsNothing == Holds(Ring!EmptyBuffer, <<>>)
  BY Sizes DEF Holds, Ring!EmptyBuffer, After

LEMMA HoldsStored ==
  ASSUME NEW b \in Buffers, NEW s \in Seq(Byte), Holds(b, s)
  PROVE  Ring!Stored(b) = s
<1> DEFINE n == IF b.tail > b.head \/ b.count = 0 THEN b.tail - b.head
                ELSE Total - b.head + b.tail
<1>1. n = Len(s) /\ Len(s) \in Nat /\ Len(s) <= Total /\ b.head \in Indices
  BY Sizes DEF Holds, After, Buffers, Indices
<1>2. ASSUME NEW i \in 1 .. Len(s) PROVE b.data[(b.head + i - 1) % Total] = s[i]
  <2>1. PICK k \in 0 .. Total : k = i - 1
    BY <1>1, Sizes
  <2>2. (b.head + k) % Total = After(b.head, k)
    BY <1>1, AfterIs
  <2>3. b.head + i - 1 = b.head + k
    BY <1>1, <2>1, Sizes DEF Indices
  <2>4. b.data[After(b.head, k)] = s[i]
    BY <2>1 DEF Holds
  <2> QED
    BY <2>2, <2>3, <2>4
<1>3. Ring!Stored(b) = [i \in 1 .. n |-> b.data[(b.head + i - 1) % Total]]
  BY DEF Ring!Stored
<1>4. [i \in 1 .. n |-> b.data[(b.head + i - 1) % Total]] = [i \in 1 .. Len(s) |-> s[i]]
  BY <1>1, <1>2
<1>5. s = [i \in 1 .. Len(s) |-> s[i]]
  OBVIOUS
<1> QED
  BY <1>3, <1>4, <1>5

\* A byte that gets room is the last one.
LEMMA PushHolds ==
  ASSUME NEW b \in Buffers, NEW s \in Seq(Byte), Holds(b, s), ~ Ring!Full(b), NEW byte \in Byte
  PROVE  Holds(Ring!Push(b, byte), Append(s, byte))
<1> DEFINE c == Ring!Push(b, byte)
           t == Append(s, byte)
<1>1. /\ Len(s) \in 0 .. Total - 1 /\ b.head \in Indices /\ b.tail \in Indices
      /\ b.data \in [Indices -> Cells] /\ b.count = Len(s) /\ b.tail = After(b.head, Len(s))
  BY Sizes DEF Holds, Ring!Full, Buffers
<1>2. /\ t \in Seq(Byte) /\ Len(t) = Len(s) + 1 /\ t[Len(s) + 1] = byte
      /\ \A i \in 1 .. Len(s) : t[i] = s[i]
  OBVIOUS
<1>3. /\ c.data = [b.data EXCEPT ![b.tail] = byte] /\ c.count = (b.count + 1) % Word
      /\ c.head = b.head /\ c.tail = (b.tail + 1) % Total
  BY DEF Ring!Push, Ring!Advanced
<1> HIDE DEF c, t
<1>4. c.count = Len(t)
  <2>1. Word \in Nat \ {0} /\ Len(s) + 1 \in 0 .. Word - 1
    BY <1>1, Sizes
  <2> QED
    BY <1>1, <1>2, <1>3, <2>1, Below2
<1>5. c.tail = After(c.head, Len(t))
  <2>1. 1 \in 0 .. Total /\ 1 \in Nat /\ Len(s) \in Nat /\ Len(s) + 1 <= Total
    BY <1>1, Sizes
  <2>2. (b.tail + 1) % Total = After(b.tail, 1)
    BY <1>1, <2>1, AfterIs
  <2>3. After(After(b.head, Len(s)), 1) = After(b.head, Len(s) + 1)
    BY <1>1, <2>1, AfterAfter
  <2> QED
    BY <1>1, <1>2, <1>3, <2>2, <2>3
<1>6. ASSUME NEW i \in 1 .. Len(t) PROVE c.data[After(c.head, i - 1)] = t[i]
  <2>1. i - 1 \in 0 .. Total - 1 /\ i - 1 \in 0 .. Total
    BY <1>1, <1>2, Sizes
  <2>2. CASE i - 1 = Len(s)
    BY <1>1, <1>2, <1>3, <2>2
  <2>3. CASE i - 1 # Len(s)
    <3>1. i \in 1 .. Len(s)
      BY <1>1, <1>2, <2>3
    <3>2. After(b.head, i - 1) # b.tail
      BY <1>1, <2>1, <2>3, AfterDiffers
    <3>3. After(b.head, i - 1) \in Indices
      BY <1>1, <2>1, AfterIs
    <3>4. b.data[After(b.head, i - 1)] = s[i]
      BY <3>1 DEF Holds
    <3> QED
      BY <1>1, <1>2, <1>3, <3>1, <3>2, <3>3, <3>4
  <2> QED
    BY <2>2, <2>3
<1>7. Len(t) <= Total
  BY <1>1, <1>2, Sizes
<1>8. Holds(c, t)
  BY <1>4, <1>5, <1>6, <1>7 DEF Holds
<1> QED
  BY <1>8 DEF c, t

\* how many bytes there are from h to t, if there is one at all
Span(h, t) == IF t > h THEN t - h ELSE Total - h + t

LEMMA HoldsSpan ==
  ASSUME NEW b \in Buffers, NEW s \in Seq(Byte), Holds(b, s), s # <<>>
  PROVE  Span(b.head, b.tail) = Len(s)
  BY Sizes DEF Holds, Span, After, Buffers, Indices

\* The head moves over what is read.
LEMMA ReadMoves ==
  ASSUME NEW h \in Indices, NEW t \in Indices, NEW n \in Nat,
         n <= Span(h, t), ~ Ring!Misplaced(h, t, n)
  PROVE  /\ Ring!First(h, t, n) \in Nat /\ Ring!Second(h, t, n) \in Nat
         /\ Ring!First(h, t, n) + Ring!Second(h, t, n) = n
         /\ After(h, n) = IF Ring!InOnePiece(h, t) THEN h + Ring!First(h, t, n)
                          ELSE Ring!Second(h, t, n)
<1> DEFINE f == Ring!First(h, t, n)
           s == Ring!Second(h, t, n)
<1>1. h \in Nat /\ h < Total /\ t \in Nat /\ t < Total /\ Total \in Nat
  BY Sizes DEF Indices
<1>2. CASE t > h
  <2>1. Ring!InOnePiece(h, t)
    BY <1>1, <1>2 DEF Ring!InOnePiece
  <2>2. f = n /\ s = 0 /\ n <= t - h
    BY <1>1, <1>2, <2>1 DEF Span, Ring!First, Ring!Second, Ring!Least
  <2> HIDE DEF f, s
  <2>3. After(h, n) = h + n
    BY <1>1, <2>2 DEF After
  <2> QED
    BY <2>1, <2>2, <2>3 DEF f, s
<1>3. CASE ~ (t > h)
  <2>1. ~ Ring!InOnePiece(h, t)
    BY <1>1, <1>3 DEF Ring!InOnePiece
  <2>2. /\ f = IF n < Total - h THEN n ELSE Total - h
        /\ s = IF f = n THEN 0 ELSE IF n - f < t THEN n - f ELSE t
        /\ h + f >= Total
    BY <1>1, <2>1 DEF Ring!First, Ring!Second, Ring!Least, Ring!Misplaced
  <2>3. n <= Total - h + t
    BY <1>1, <1>3 DEF Span
  <2> HIDE DEF f, s
  <2>4. f = Total - h /\ n >= Total - h
    BY <1>1, <2>2
  <2>5. s = n - f
    BY <1>1, <2>2, <2>3, <2>4
  <2>6. After(h, n) = n - (Total - h)
    BY <1>1, <2>4 DEF After
  <2>7. f \in Nat /\ s \in Nat /\ f + s = n
    BY <1>1, <2>4, <2>5
  <2> QED
    BY <2>1, <2>4, <2>5, <2>6, <2>7 DEF f, s
<1> QED
  BY <1>2, <1>3

\* A read of what is there takes it off the beginning.
LEMMA ReadHolds ==
  ASSUME NEW b \in Buffers, NEW p \in Seq(Byte), NEW r \in Seq(Byte), Holds(b, p \o r),
         NEW h \in Indices, h = b.head, NEW n \in Nat, n = Len(p), n > 0,
         NEW t \in Indices, n <= Span(h, t), ~ Ring!Misplaced(h, t, n)
  PROVE  Holds(Ring!Read(b, h, t, n), r)
<1> DEFINE f == Ring!First(h, t, n)
           s == Ring!Second(h, t, n)
           c == Ring!Read(b, h, t, n)
<1>1. PICK m \in Nat : m = Len(r)
  OBVIOUS
<1>2. /\ Len(p \o r) = n + m
      /\ \A i \in 1 .. m : (p \o r)[n + i] = r[i]
  BY <1>1
<1>3. /\ f \in Nat /\ s \in Nat /\ f + s = n
      /\ After(h, n) = IF Ring!InOnePiece(h, t) THEN h + f ELSE s
  BY ReadMoves
<1>4. /\ c.data = b.data /\ c.tail = b.tail /\ c.count = (b.count - f - s) % Word
      /\ c.head = IF ~Ring!InOnePiece(h, t) THEN s
                  ELSE IF h + f > h THEN h + f ELSE h
  BY DEF Ring!Read, Buffers
<1>5. /\ b.count = n + m /\ n + m <= Total /\ b.tail = After(h, n + m)
      /\ \A i \in 1 .. n + m : b.data[After(h, i - 1)] = (p \o r)[i]
  BY <1>2 DEF Holds
<1> HIDE DEF f, s, c
<1>6. c.head = After(h, n)
  <2>1. h \in Nat
    BY DEF Indices
  <2>2. IF h + f > h THEN h + f = h + f ELSE h = h + f
    BY <1>3, <2>1
  <2> QED
    BY <1>3, <1>4, <2>2
<1>7. c.count = m
  <2>1. Word \in Nat \ {0} /\ m \in 0 .. Word - 1
    BY <1>5, Sizes
  <2>2. \A k, l \in Nat : k + l = n => n + m - k - l = m
    OBVIOUS
  <2>3. b.count - f - s = m
    <3>1. f \in Nat /\ s \in Nat /\ f + s = n
      BY <1>3
    <3>2. PICK k \in Nat : k = b.count /\ k = n + m
      BY <1>5
    <3>3. k - f - s = m
      BY <2>2, <3>1, <3>2
    <3> QED
      BY <3>2, <3>3
  <2> QED
    BY <1>4, <2>1, <2>3, Below2
<1>8. c.tail = After(c.head, m)
  <2>1. After(After(h, n), m) = After(h, n + m)
    BY <1>5, AfterAfter
  <2> QED
    BY <1>4, <1>5, <1>6, <2>1
<1>9. ASSUME NEW i \in 1 .. m PROVE c.data[After(c.head, i - 1)] = r[i]
  <2>1. PICK j \in Nat : j = i - 1
    OBVIOUS
  <2>2. n + j <= Total /\ n + i \in 1 .. n + m /\ n + i - 1 = n + j
    BY <1>5, <2>1, Sizes
  <2>3. After(After(h, n), j) = After(h, n + j)
    BY <2>2, AfterAfter
  <2>4. PICK k \in 1 .. n + m : k = n + i
    BY <2>2
  <2>5. b.data[After(h, k - 1)] = (p \o r)[k]
    BY <1>5
  <2> QED
    BY <1>2, <1>4, <1>6, <2>1, <2>2, <2>3, <2>4, <2>5
<1>10. Holds(c, r)
  <2>1. m <= Total
    BY <1>5, Sizes
  <2> QED
    BY <1>1, <1>7, <1>8, <1>9, <2>1 DEF Holds
<1> QED
  BY <1>10 DEF c

-----------------------------------------------------------------------------
(* The commands in the queue.                                                 *)

Piece(m) == IF IsSlot(m) THEN <<m>> ELSE <<>>
Slotted(q) == {q[j] : j \in {k \in DOMAIN q : IsSlot(q[k])}}

LEMMA PieceSeq ==
  ASSUME NEW S, NEW q \in Seq(S)
  PROVE  /\ Commands(q) = FlattenSeq([i \in DOMAIN q |-> Piece(q[i])])
         /\ [i \in DOMAIN q |-> Piece(q[i])] \in Seq(Seq(Slotted(q)))
<1> DEFINE p == [i \in DOMAIN q |-> Piece(q[i])]
<1>1. p = [i \in DOMAIN q |-> IF IsSlot(q[i]) THEN <<q[i]>> ELSE <<>>]
  BY DEF Piece
<1>2. ASSUME NEW i \in DOMAIN q PROVE Piece(q[i]) \in Seq(Slotted(q))
  <2>1. CASE IsSlot(q[i])
    <3>1. q[i] \in Slotted(q) /\ Piece(q[i]) = <<q[i]>>
      BY <2>1 DEF Slotted, Piece
    <3> QED
      BY <3>1
  <2>2. CASE ~ IsSlot(q[i])
    BY <2>2 DEF Piece
  <2> QED
    BY <2>1, <2>2
<1>3. DOMAIN q = 1 .. Len(q) /\ Len(q) \in Nat
  OBVIOUS
<1>4. p \in [1 .. Len(q) -> Seq(Slotted(q))]
  BY <1>2, <1>3
<1>5. p \in Seq(Seq(Slotted(q)))
  BY <1>3, <1>4, SeqDef
<1>6. Commands(q) = FlattenSeq(p)
  BY <1>1 DEF Commands
<1> QED
  BY <1>5, <1>6

\* Nothing but commands of the queue.
LEMMA CommandsType ==
  ASSUME NEW S, NEW q \in Seq(S)
  PROVE  Commands(q) \in Seq(Slotted(q))
  BY PieceSeq, FlattenType

LEMMA CommandsAre ==
  ASSUME NEW q \in Seq(Elements)
  PROVE  /\ Commands(q) \in Seq(SlotNumbers)
         /\ \A i \in DOMAIN Commands(q) : \E j \in DOMAIN q : Commands(q)[i] = q[j]
<1>1. Commands(q) \in Seq(Slotted(q))
  BY CommandsType
<1>2. Slotted(q) \subseteq SlotNumbers
  BY DEF Slotted, Elements, IsSlot
<1>3. Commands(q) \in Seq(SlotNumbers)
  BY <1>1, <1>2, SeqMonotonic
<1>4. \A i \in DOMAIN Commands(q) : Commands(q)[i] \in Slotted(q)
  BY <1>1
<1> QED
  BY <1>3, <1>4 DEF Slotted

LEMMA CommandsAppend ==
  ASSUME NEW q \in Seq(Elements), NEW m \in Elements
  PROVE  Commands(Append(q, m)) = Commands(q) \o Piece(m)
<1> DEFINE t == Append(q, m)
           u == [i \in DOMAIN q |-> Piece(q[i])]
           w == [i \in DOMAIN t |-> Piece(t[i])]
<1>1. /\ t \in Seq(Elements) /\ Commands(q) = FlattenSeq(u) /\ Commands(t) = FlattenSeq(w)
  BY PieceSeq, AppendType
<1>2. u \in Seq(Seq(Elements)) /\ Piece(m) \in Seq(Elements)
  <2>1. \A k \in Elements : Piece(k) \in Seq(Elements)
    BY DEF Piece
  <2>2. u \in [1 .. Len(q) -> Seq(Elements)] /\ Len(q) \in Nat
    BY <2>1
  <2> QED
    BY <2>1, <2>2, SeqDef
<1>3. w = Append(u, Piece(m))
  <2>1. Append(u, Piece(m)) = [i \in 1 .. Len(q) + 1 |->
                                 IF i = Len(q) + 1 THEN Piece(m) ELSE u[i]]
    BY <1>2
  <2>2. /\ DOMAIN t = 1 .. Len(q) + 1 /\ t[Len(q) + 1] = m
        /\ \A i \in 1 .. Len(q) : t[i] = q[i] /\ u[i] = Piece(q[i])
        /\ Len(q) \in Nat
    BY AppendType
  <2> HIDE DEF t, u
  <2>3. \A i \in 1 .. Len(q) + 1 : i = Len(q) + 1 \/ i \in 1 .. Len(q)
    BY <2>2
  <2>4. \A i \in 1 .. Len(q) + 1 :
          Piece(t[i]) = IF i = Len(q) + 1 THEN Piece(m) ELSE u[i]
    BY <2>2, <2>3
  <2> QED
    BY <2>1, <2>2, <2>4
<1> HIDE DEF t, u, w
<1>4. FlattenSeq(Append(u, Piece(m))) = FlattenSeq(u) \o Piece(m)
  BY <1>2, FlattenAppend
<1>5. Commands(t) = Commands(q) \o Piece(m)
  BY <1>1, <1>3, <1>4
<1> QED
  BY <1>5 DEF t

LEMMA CommandsHead ==
  ASSUME NEW q \in Seq(Elements), q # <<>>
  PROVE  Commands(q) = Piece(Head(q)) \o Commands(Tail(q))
<1> DEFINE t == Tail(q)
           u == [i \in DOMAIN q |-> Piece(q[i])]
           w == [i \in DOMAIN t |-> Piece(t[i])]
<1>1. /\ t \in Seq(Elements) /\ Commands(q) = FlattenSeq(u) /\ Commands(t) = FlattenSeq(w)
  BY PieceSeq, TailType
<1>2. u \in Seq(Seq(Elements)) /\ u # <<>> /\ Len(u) = Len(q) /\ Len(q) \in Nat \ {0}
  <2>1. \A k \in Elements : Piece(k) \in Seq(Elements)
    BY DEF Piece
  <2>2. u \in [1 .. Len(q) -> Seq(Elements)] /\ Len(q) \in Nat \ {0}
    BY <2>1, TailType
  <2> QED
    BY <2>2, SeqDef
<1>3. Head(u) = Piece(Head(q))
  <2>1. Head(u) = u[1] /\ 1 \in DOMAIN q /\ Head(q) = q[1]
    BY <1>2, TailType
  <2> QED
    BY <2>1
<1>4. Tail(u) = w
  <2>1. /\ DOMAIN t = 1 .. Len(q) - 1 /\ DOMAIN q = 1 .. Len(q)
        /\ \A i \in 1 .. Len(q) - 1 : t[i] = q[i + 1]
    BY TailType
  <2>2. Tail(u) = [i \in 1 .. Len(q) - 1 |-> u[i + 1]]
    BY <1>2
  <2> HIDE DEF t
  <2>3. \A i \in 1 .. Len(q) - 1 : u[i + 1] = Piece(t[i])
    BY <1>2, <2>1
  <2> HIDE DEF u
  <2> QED
    BY <2>1, <2>2, <2>3
<1> HIDE DEF t, u, w
<1>5. FlattenSeq(u) = Head(u) \o FlattenSeq(Tail(u))
  BY <1>2, FlattenHead
<1>6. Commands(q) = Piece(Head(q)) \o Commands(t)
  BY <1>1, <1>3, <1>4, <1>5
<1> QED
  BY <1>6 DEF t

-----------------------------------------------------------------------------
(* The stream of bytes, the queue and the lengths in the slots, while they    *)
(* keep their order.                                                          *)

Text == FlattenSeq(unread) \o partial

Streams == unread \in Seq(Seq(Byte)) /\ partial \in Seq(Byte)

\* What is being read is the command at the head of what the buffer holds, and
\* all of it was there when the read began.
InStep ==
  ~ strayed =>
    /\ Holds(buffer, Text)
    /\ IF met THEN len = Len(partial) ELSE partial = <<>>
    /\ Len(Waiting) = Len(unread)
    /\ \A i \in 1 .. Len(unread) : unread[i] # <<>> /\ slot[Waiting[i]] = Len(unread[i])
    /\ task.pc = "reading" => /\ task.len = slot[task.hand]
                              /\ task.len <= Span(task.head, task.tail)

RingInv == Inv /\ Streams /\ InStep

\* the command in hand, not yet read
Foremost == IF task.pc \in {"command", "reading"} THEN <<task.hand>> ELSE <<>>

LEMMA WaitingType ==
  ASSUME Types
  PROVE  /\ Waiting = Foremost \o Commands(queue)
         /\ Foremost \in Seq(SlotNumbers) /\ Commands(queue) \in Seq(SlotNumbers)
         /\ Waiting \in Seq(SlotNumbers)
<1>1. Foremost \in Seq(SlotNumbers)
  BY DEF Types, Foremost, InHand
<1>2. Commands(queue) \in Seq(SlotNumbers)
  BY CommandsAre DEF Types, Elements
<1> QED
  BY <1>1, <1>2 DEF Waiting, Foremost

\* Every slot that waits is in the queue or in hand.
LEMMA WaitingIn ==
  ASSUME Types, NEW i \in DOMAIN Waiting
  PROVE  Waiting[i] = task.hand \/ \E j \in DOMAIN queue : queue[j] = Waiting[i]
<1>1. /\ Waiting = Foremost \o Commands(queue)
      /\ Foremost \in Seq(SlotNumbers) /\ Commands(queue) \in Seq(SlotNumbers)
  BY WaitingType
<1>2. queue \in Seq(Elements)
  BY DEF Types, Elements
<1>3. \A k \in DOMAIN Commands(queue) : \E j \in DOMAIN queue : Commands(queue)[k] = queue[j]
  BY <1>2, CommandsAre
<1>4. CASE i <= Len(Foremost)
  <2>1. Waiting[i] = Foremost[i] /\ i \in 1 .. Len(Foremost)
    BY <1>1, <1>4
  <2>2. Foremost[i] = task.hand
    BY <2>1 DEF Foremost
  <2> QED
    BY <2>1, <2>2
<1>5. CASE ~ (i <= Len(Foremost))
  <2>1. PICK k \in DOMAIN Commands(queue) : Waiting[i] = Commands(queue)[k]
    BY <1>1, <1>5
  <2> QED
    BY <1>3, <2>1
<1> QED
  BY <1>4, <1>5

LEMMA StreamsText ==
  ASSUME Streams
  PROVE  Text \in Seq(Byte) /\ FlattenSeq(unread) \in Seq(Byte)
<1>1. FlattenSeq(unread) \in Seq(Byte)
  BY FlattenType DEF Streams
<1> QED
  BY <1>1 DEF Text, Streams

LEMMA RingInit == Init => RingInv
<1> SUFFICES ASSUME Init PROVE RingInv
  OBVIOUS
<1>1. Inv
  BY InitInv
<1>2. /\ buffer = Ring!EmptyBuffer /\ unread = <<>> /\ partial = <<>> /\ met = FALSE
      /\ queue = <<>> /\ task.pc = "start"
  BY DEF Init, Idle
<1>3. Text = <<>>
  BY <1>2 DEF Text, FlattenSeq
<1>4. Waiting = <<>>
  <2>1. Commands(queue) = <<>>
    BY <1>2 DEF Commands, FlattenSeq
  <2> QED
    BY <1>2, <2>1 DEF Waiting
<1>5. InStep
  BY <1>2, <1>3, <1>4, HoldsNothing DEF InStep
<1> QED
  BY <1>1, <1>2, <1>5 DEF RingInv, Streams

\* A step that leaves the stream alone, and what waits.
LEMMA StreamAlone ==
  ASSUME InStep, Waiting' = Waiting, UNCHANGED <<buffer, met, len, slot, partial, unread, strayed>>,
         task'.pc = "reading" =>
           /\ task.pc = "reading" /\ task'.len = task.len /\ task'.hand = task.hand
           /\ task'.head = task.head /\ task'.tail = task.tail
  PROVE  InStep'
<1>1. Text' = Text
  BY DEF Text
<1> QED
  BY <1>1 DEF InStep

LEMMA RequestRing == RingInv /\ Request => InStep'
<1> SUFFICES ASSUME RingInv, Request PROVE InStep'
  OBVIOUS
<1>1. PICK m \in Requests : Post(m)
  BY DEF Request
<1>2. queue \in Seq(Elements) /\ m \in Elements /\ ~ IsSlot(m)
  BY DEF RingInv, Inv, Types, Elements, IsSlot
<1>3. Commands(queue') = Commands(queue)
  <2>1. Commands(Append(queue, m)) = Commands(queue) \o <<>>
    BY <1>2, CommandsAppend DEF Piece
  <2>2. Commands(queue) \o <<>> = Commands(queue)
    BY <1>2, CommandsAre
  <2> QED
    BY <1>1, <2>1, <2>2 DEF Post
<1>4. Waiting' = Waiting
  BY <1>3 DEF Waiting, Request
<1> QED
  BY <1>4, StreamAlone DEF RingInv, Request, receiver

LEMMA TransmitRing == RingInv /\ Transmit => InStep'
<1> SUFFICES ASSUME RingInv, Transmit PROVE InStep'
  OBVIOUS
<1>1. Waiting' = Waiting
  BY DEF Waiting, Transmit
<1> QED
  BY <1>1, StreamAlone DEF RingInv, Transmit, receiver

\* A step of the task from a place where no command waits in hand to another.
LEMMA ServeRing ==
  ASSUME RingInv, task.pc \notin {"command", "reading"}, task'.pc \notin {"command", "reading"},
         UNCHANGED <<buffer, met, len, slot, queue, partial, unread, strayed>>
  PROVE  InStep'
<1>1. Waiting' = Waiting
  BY DEF Waiting
<1> QED
  BY <1>1, StreamAlone DEF RingInv

LEMMA ServeAlone ==
  ASSUME RingInv, Start \/ Top \/ Clear \/ Process \/ Answer
  PROVE  InStep'
<1>1. CASE Start
  <2>1. task'.pc = "top"
    BY <1>1, GoToType DEF Start, RingInv, Inv, Pcs
  <2> QED
    BY <1>1, <2>1, ServeRing DEF Start, receiver
<1>2. CASE Top
  <2>1. task'.pc = "pend"
    BY <1>2, IdleType DEF Top
  <2> QED
    BY <1>2, <2>1, ServeRing DEF Top
<1>3. CASE Clear
  <2>1. task'.pc = "process"
    BY <1>3, GoToType DEF Clear, RingInv, Inv, Pcs
  <2> QED
    BY <1>3, <2>1, ServeRing DEF Clear, receiver
<1>4. CASE Process
  <2>1. PICK p \in {"build", "top"} : GoTo(p)
    BY <1>4 DEF Process
  <2>2. task'.pc = p
    BY <2>1, GoToType DEF RingInv, Inv, Pcs
  <2> QED
    BY <1>4, <2>2, ServeRing DEF Process, receiver
<1>5. CASE Answer
  <2>1. task'.pc = "top"
    BY <1>5, GoToType DEF Answer, RingInv, Inv, Pcs
  <2> QED
    BY <1>5, <2>1, ServeRing DEF Answer, receiver
<1> QED
  BY <1>1, <1>2, <1>3, <1>4, <1>5

LEMMA TakeRequestRing == RingInv /\ TakeRequest => InStep'
<1> SUFFICES ASSUME RingInv, TakeRequest PROVE InStep'
  OBVIOUS
<1>1. queue \in Seq(Elements) /\ queue # <<>> /\ ~ IsSlot(Head(queue)) /\ queue' = Tail(queue)
  BY DEF TakeRequest, RingInv, Inv, Types, Elements
<1>2. Commands(queue') = Commands(queue)
  <2>1. Commands(queue) = <<>> \o Commands(Tail(queue))
    BY <1>1, CommandsHead DEF Piece
  <2>2. Commands(Tail(queue)) \in Seq(SlotNumbers)
    BY <1>1, TailType, CommandsAre
  <2>3. <<>> \o Commands(Tail(queue)) = Commands(Tail(queue))
    BY <2>2
  <2> QED
    BY <1>1, <2>1, <2>3
<1>3. task.pc = "pend" /\ task'.pc = "top"
  BY GoToType DEF TakeRequest, RingInv, Inv, Pcs
<1>4. Waiting' = Waiting
  BY <1>2, <1>3 DEF Waiting
<1> QED
  BY <1>3, <1>4, StreamAlone DEF RingInv, TakeRequest

LEMMA TakeCommandRing == RingInv /\ TakeCommand => InStep'
<1> SUFFICES ASSUME RingInv, TakeCommand PROVE InStep'
  OBVIOUS
<1>1. /\ queue \in Seq(Elements) /\ queue # <<>> /\ IsSlot(Head(queue)) /\ queue' = Tail(queue)
      /\ task \in Tasks /\ task' = [task EXCEPT !.pc = "command", !.hand = Head(queue)]
  BY DEF TakeCommand, RingInv, Inv, Types, Elements
<1>2. task.pc = "pend" /\ task'.pc = "command" /\ task'.hand = Head(queue)
  BY <1>1 DEF TakeCommand, Tasks
<1>3. Commands(queue) = <<Head(queue)>> \o Commands(Tail(queue))
  BY <1>1, CommandsHead DEF Piece
<1>4. Waiting' = <<Head(queue)>> \o Commands(Tail(queue))
  BY <1>1, <1>2 DEF Waiting
<1>5. Waiting = Commands(queue)
  BY <1>1, <1>2, CommandsAre DEF Waiting
<1>6. Waiting' = Waiting
  BY <1>3, <1>4, <1>5
<1> QED
  BY <1>2, <1>6, StreamAlone DEF RingInv, TakeCommand, receiver

\* The command at the head of what waits, when the task has it in hand.
LEMMA InHandFirst ==
  ASSUME RingInv, ~ strayed, task.pc \in {"command", "reading"}
  PROVE  /\ unread # <<>> /\ Head(unread) \in Seq(Byte) /\ Head(unread) # <<>>
         /\ slot[task.hand] = Len(Head(unread))
         /\ Text = Head(unread) \o (FlattenSeq(Tail(unread)) \o partial)
         /\ FlattenSeq(Tail(unread)) \o partial \in Seq(Byte)
         /\ Waiting = <<task.hand>> \o Commands(queue)
         /\ Commands(queue) \in Seq(SlotNumbers) /\ task.hand \in SlotNumbers
         /\ Tail(unread) \in Seq(Seq(Byte))
<1>1. Waiting = <<task.hand>> \o Commands(queue)
  BY DEF Waiting
<1>2. Commands(queue) \in Seq(SlotNumbers) /\ task.hand \in SlotNumbers
  BY WaitingType DEF RingInv, Inv, Types, InHand
<1>3. Len(Waiting) = 1 + Len(Commands(queue)) /\ Waiting[1] = task.hand
      /\ Len(Commands(queue)) \in Nat
  BY <1>1, <1>2
<1>4. unread \in Seq(Seq(Byte)) /\ partial \in Seq(Byte) /\ Len(unread) = Len(Waiting)
  BY DEF RingInv, Streams, InStep
<1>5. unread # <<>> /\ 1 \in 1 .. Len(unread) /\ Head(unread) = unread[1]
  BY <1>3, <1>4
<1>6. /\ Head(unread) \in Seq(Byte) /\ Head(unread) # <<>>
      /\ slot[task.hand] = Len(Head(unread))
  BY <1>3, <1>4, <1>5 DEF RingInv, InStep
<1>7. Tail(unread) \in Seq(Seq(Byte))
  BY <1>4, <1>5
<1>8. FlattenSeq(Tail(unread)) \in Seq(Byte)
  BY <1>7, FlattenType
<1>9. Text = Head(unread) \o (FlattenSeq(Tail(unread)) \o partial)
  <2>1. FlattenSeq(unread) = Head(unread) \o FlattenSeq(Tail(unread))
    BY <1>4, <1>5, FlattenHead
  <2>2. \A p, q, r \in Seq(Byte) : (p \o q) \o r = p \o (q \o r)
    BY ConcatAssociative
  <2>3. (Head(unread) \o FlattenSeq(Tail(unread))) \o partial
          = Head(unread) \o (FlattenSeq(Tail(unread)) \o partial)
    BY <1>4, <1>6, <1>8, <2>2
  <2> QED
    BY <2>1, <2>3 DEF Text
<1>10. FlattenSeq(Tail(unread)) \o partial \in Seq(Byte)
  BY <1>4, <1>8
<1> QED
  BY <1>1, <1>2, <1>5, <1>6, <1>7, <1>9, <1>10

LEMMA BeginReadRing == RingInv /\ BeginRead => InStep'
<1> SUFFICES ASSUME RingInv, BeginRead, ~ strayed PROVE InStep'
  BY DEF InStep, BeginRead
<1>1. /\ Head(unread) \in Seq(Byte) /\ Head(unread) # <<>>
      /\ slot[task.hand] = Len(Head(unread)) /\ task.hand \in SlotNumbers
      /\ Text = Head(unread) \o (FlattenSeq(Tail(unread)) \o partial)
      /\ FlattenSeq(Tail(unread)) \o partial \in Seq(Byte)
  BY InHandFirst DEF BeginRead
<1>2. /\ Text \in Seq(Byte) /\ Text # <<>> /\ Len(Head(unread)) \in Nat /\ Len(Text) \in Nat
      /\ Len(Head(unread)) <= Len(Text) /\ Len(Text) # 0
  <2>1. PICK p \in Seq(Byte), r \in Seq(Byte) : p = Head(unread) /\ Text = p \o r
    BY <1>1
  <2>2. p # <<>>
    BY <1>1, <2>1
  <2> QED
    BY <2>1, <2>2
<1>3. Holds(buffer, Text) /\ buffer \in Buffers
  BY DEF RingInv, InStep, Inv, Types
<1>4. buffer.count # 0 /\ Span(buffer.head, buffer.tail) = Len(Text)
  BY <1>2, <1>3, HoldsSpan DEF Holds
<1>5. slot[task.hand] \in Nat /\ slot[task.hand] < MaxLen /\ task \in Tasks
  BY <1>1 DEF RingInv, Inv, Types, Bounded
<1>6. task' = [task EXCEPT !.pc = "reading", !.len = slot[task.hand],
                           !.head = buffer.head, !.tail = buffer.tail]
  BY <1>4, <1>5, Sizes DEF BeginRead
<1>7. /\ task.pc = "command" /\ task'.pc = "reading" /\ task'.len = slot[task.hand]
      /\ task'.hand = task.hand /\ task'.head = buffer.head /\ task'.tail = buffer.tail
  BY <1>5, <1>6 DEF BeginRead, Tasks
<1>8. Waiting' = Waiting
  BY <1>7 DEF Waiting, BeginRead
<1>9. Text' = Text
  BY DEF Text, BeginRead
<1> QED
  BY <1>1, <1>2, <1>4, <1>7, <1>8, <1>9 DEF RingInv, InStep, BeginRead, receiver

LEMMA EndReadRing == RingInv /\ EndRead => InStep'
<1> SUFFICES ASSUME RingInv, EndRead, ~ strayed' PROVE InStep'
  BY DEF InStep
<1>1. /\ ~ strayed /\ ~ Ring!Misplaced(task.head, task.tail, task.len)
      /\ task.pc = "reading" /\ task'.pc # "reading" /\ task'.pc # "command"
  BY DEF EndRead, RingInv, Inv, Types, Tasks
<1> DEFINE rest == FlattenSeq(Tail(unread)) \o partial
<1>2. /\ unread # <<>> /\ Head(unread) \in Seq(Byte) /\ Head(unread) # <<>>
      /\ slot[task.hand] = Len(Head(unread)) /\ Text = Head(unread) \o rest
      /\ rest \in Seq(Byte) /\ Waiting = <<task.hand>> \o Commands(queue)
      /\ Commands(queue) \in Seq(SlotNumbers) /\ task.hand \in SlotNumbers
  BY <1>1, InHandFirst
<1> HIDE DEF rest
<1>3. /\ buffer \in Buffers /\ Holds(buffer, Text) /\ task.len = Len(Head(unread))
      /\ task.len <= Span(task.head, task.tail) /\ task.head = buffer.head
      /\ task.head \in Indices /\ task.tail \in Indices /\ task.len \in Nat
  BY <1>1, <1>2 DEF RingInv, Inv, Types, Bounded, InStep, Tasks
<1>4. unread' = Tail(unread) /\ Text' = rest
  BY <1>2 DEF EndRead, Text, rest
<1>5. Holds(buffer', rest)
  <2>1. task.len > 0
    BY <1>2, <1>3
  <2>2. Holds(Ring!Read(buffer, task.head, task.tail, task.len), rest)
    BY <1>1, <1>2, <1>3, <2>1, ReadHolds
  <2> QED
    BY <2>2 DEF EndRead
<1>6. Waiting' = Commands(queue)
  <2>1. Waiting' = <<>> \o Commands(queue)
    BY <1>1 DEF Waiting, EndRead
  <2> QED
    BY <1>2, <2>1
<1>7. /\ Len(Commands(queue)) \in Nat /\ Len(Waiting) = Len(Commands(queue)) + 1
      /\ \A i \in 1 .. Len(Commands(queue)) : Waiting[i + 1] = Commands(queue)[i]
  BY <1>2
<1>8. /\ unread \in Seq(Seq(Byte)) /\ Len(unread) = Len(Waiting)
      /\ Len(Tail(unread)) = Len(unread) - 1
      /\ \A i \in 1 .. Len(unread) - 1 : Tail(unread)[i] = unread[i + 1]
  <2>1. unread \in Seq(Seq(Byte)) /\ Len(unread) = Len(Waiting)
    BY <1>1 DEF RingInv, Streams, InStep
  <2> QED
    BY <1>2, <2>1, HeadTailProperties
<1>9. Len(Waiting') = Len(unread')
  BY <1>4, <1>6, <1>7, <1>8
<1>10. ASSUME NEW i \in 1 .. Len(unread')
       PROVE  unread'[i] # <<>> /\ slot'[Waiting'[i]] = Len(unread'[i])
  <2>1. i + 1 \in 1 .. Len(unread) /\ i \in 1 .. Len(Commands(queue)) /\ i \in 1 .. Len(unread) - 1
    BY <1>4, <1>7, <1>8
  <2>2. unread[i + 1] # <<>> /\ slot[Waiting[i + 1]] = Len(unread[i + 1])
    BY <1>1, <2>1 DEF RingInv, InStep
  <2> QED
    BY <1>4, <1>6, <1>7, <1>8, <2>1, <2>2 DEF EndRead
<1>11. IF met' THEN len' = Len(partial') ELSE partial' = <<>>
  BY <1>1 DEF RingInv, InStep, EndRead
<1> QED
  BY <1>1, <1>4, <1>5, <1>9, <1>10, <1>11 DEF InStep

\* A byte in the middle of a command.
LEMMA TakeInside ==
  ASSUME RingInv, NEW byte \in Byte, Take(byte), Taken(byte), ~ Ends(byte), ~ strayed',
         UNCHANGED task
  PROVE  InStep'
<1>1. ~ strayed /\ ~ Ring!Full(buffer) /\ ~ (byte = Address /\ met)
  BY DEF Take, Strays
<1>2. /\ buffer \in Buffers /\ Holds(buffer, Text) /\ len \in Nat
      /\ IF met THEN len = Len(partial) ELSE partial = <<>>
      /\ unread \in Seq(Seq(Byte)) /\ partial \in Seq(Byte)
  BY <1>1 DEF RingInv, Inv, Types, Streams, InStep
<1>3. Text \in Seq(Byte) /\ FlattenSeq(unread) \in Seq(Byte)
  BY StreamsText DEF RingInv
<1>4. /\ buffer' = Ring!Push(buffer, byte) /\ len' = NewLen(byte) /\ met' = TRUE
      /\ partial' = Append(partial, byte)
      /\ UNCHANGED <<slot, queue, cur, unread>>
  BY DEF Take
<1>5. Holds(buffer', Text')
  <2>1. Text' = Append(Text, byte)
    BY <1>2, <1>3, <1>4 DEF Text
  <2> QED
    BY <1>1, <1>2, <1>3, <1>4, <2>1, PushHolds
<1>6. len' = Len(partial')
  <2>1. Len(partial') = Len(partial) + 1
    BY <1>2, <1>4
  <2>2. CASE met
    BY <1>1, <1>2, <1>4, <2>1, <2>2 DEF NewLen
  <2>3. CASE ~ met
    <3>1. byte = Address /\ Len(partial) = 0
      BY <1>2, <2>3 DEF Taken
    <3> QED
      BY <1>4, <2>1, <3>1 DEF NewLen
  <2> QED
    BY <2>2, <2>3
<1>7. Waiting' = Waiting
  BY <1>4 DEF Waiting
<1> QED
  BY <1>1, <1>4, <1>5, <1>6, <1>7 DEF RingInv, InStep

\* The last byte of a command, which is posted.
LEMMA TakeEnd ==
  ASSUME RingInv, NEW byte \in Byte, Take(byte), Ends(byte), ~ strayed', UNCHANGED task
  PROVE  InStep'
<1>1. /\ ~ strayed /\ ~ Ring!Full(buffer) /\ Fits
      /\ task.hand # cur /\ \A i \in DOMAIN queue : queue[i] # cur
  BY DEF Take, Strays, SlotInUse
<1>2. /\ buffer \in Buffers /\ Holds(buffer, Text) /\ len \in Nat
      /\ met /\ len = Len(partial) /\ byte # Address
      /\ unread \in Seq(Seq(Byte)) /\ partial \in Seq(Byte)
      /\ cur \in SlotNumbers /\ slot \in [SlotNumbers -> Nat] /\ queue \in Seq(Elements)
  BY <1>1 DEF RingInv, Inv, Types, Streams, InStep, Ends, End, Address, Elements
<1>3. Text \in Seq(Byte) /\ FlattenSeq(unread) \in Seq(Byte)
  BY StreamsText DEF RingInv
<1> DEFINE x == Append(partial, byte)
<1>4. /\ x \in Seq(Byte) /\ x # <<>> /\ Len(x) = len + 1
  BY <1>2, AppendProperties
<1>5. /\ buffer' = Ring!Push(buffer, byte) /\ met' = FALSE /\ partial' = <<>>
      /\ slot' = [slot EXCEPT ![cur] = len + 1] /\ queue' = Append(queue, cur)
      /\ unread' = Append(unread, x)
  BY <1>1, <1>2 DEF Take, NewLen, Post
<1>6. Holds(buffer', Text')
  <2>1. FlattenSeq(unread') = FlattenSeq(unread) \o x
    BY <1>2, <1>4, <1>5, FlattenAppend
  <2>2. (FlattenSeq(unread) \o x) \o <<>> = FlattenSeq(unread) \o x
    BY <1>3, <1>4, ConcatEmptySeq
  <2>3. FlattenSeq(unread) \o x = Append(FlattenSeq(unread) \o partial, byte)
    BY <1>2, <1>3
  <2>4. Text' = Append(Text, byte)
    BY <1>5, <2>1, <2>2, <2>3 DEF Text
  <2> QED
    BY <1>1, <1>2, <1>3, <1>5, <2>4, PushHolds
<1> HIDE DEF x
<1>7. /\ Waiting \in Seq(SlotNumbers) /\ Len(Waiting) = Len(unread) /\ Len(unread) \in Nat
      /\ \A i \in 1 .. Len(unread) : unread[i] # <<>> /\ slot[Waiting[i]] = Len(unread[i])
  BY <1>1, <1>2, WaitingType DEF RingInv, Inv, InStep
<1>8. Waiting' = Append(Waiting, cur)
  <2>1. Waiting = Foremost \o Commands(queue)
        /\ Foremost \in Seq(SlotNumbers) /\ Commands(queue) \in Seq(SlotNumbers)
    BY WaitingType DEF RingInv, Inv
  <2>2. Commands(queue') = Commands(queue) \o <<cur>>
    <3>1. cur \in Elements /\ IsSlot(cur)
      BY <1>2, Sizes DEF Elements, IsSlot
    <3> QED
      BY <1>2, <1>5, <3>1, CommandsAppend DEF Piece
  <2>3. Waiting' = Foremost \o (Commands(queue) \o <<cur>>)
    BY <2>2 DEF Waiting, Foremost
  <2>4. Foremost \o (Commands(queue) \o <<cur>>) = Append(Foremost \o Commands(queue), cur)
    BY <1>2, <2>1
  <2> QED
    BY <2>1, <2>3, <2>4
<1>9. ASSUME NEW i \in 1 .. Len(unread) PROVE Waiting[i] # cur /\ Waiting[i] \in SlotNumbers
  <2>1. i \in DOMAIN Waiting
    BY <1>7
  <2>2. Waiting[i] = task.hand \/ \E j \in DOMAIN queue : queue[j] = Waiting[i]
    BY <2>1, WaitingIn DEF RingInv, Inv
  <2> QED
    BY <1>1, <1>7, <2>1, <2>2
<1>10. Len(Waiting') = Len(unread')
  <2>1. Len(Waiting') = Len(Waiting) + 1
    BY <1>2, <1>7, <1>8
  <2>2. Len(unread') = Len(unread) + 1
    BY <1>2, <1>4, <1>5, AppendProperties
  <2> QED
    BY <1>7, <2>1, <2>2
<1>11. ASSUME NEW i \in 1 .. Len(unread')
       PROVE  unread'[i] # <<>> /\ slot'[Waiting'[i]] = Len(unread'[i])
  <2>1. /\ Len(unread') = Len(unread) + 1 /\ unread'[Len(unread) + 1] = x
        /\ \A k \in 1 .. Len(unread) : unread'[k] = unread[k]
    BY <1>2, <1>4, <1>5, AppendProperties
  <2>2. /\ Waiting'[Len(unread) + 1] = cur
        /\ \A k \in 1 .. Len(unread) : Waiting'[k] = Waiting[k]
    BY <1>2, <1>7, <1>8, AppendProperties
  <2>3. CASE i = Len(unread) + 1
    BY <1>2, <1>4, <1>5, <2>1, <2>2, <2>3
  <2>4. CASE i \in 1 .. Len(unread)
    BY <1>2, <1>5, <1>7, <1>9, <2>1, <2>2, <2>4
  <2> QED
    BY <1>7, <2>1, <2>3, <2>4
<1>12. task'.pc = "reading" => task'.len = slot'[task'.hand]
                             /\ task'.len <= Span(task'.head, task'.tail)
  <2>1. SUFFICES ASSUME task.pc = "reading"
        PROVE task.len = slot'[task.hand] /\ task.len <= Span(task.head, task.tail)
    OBVIOUS
  <2>2. task.hand \in SlotNumbers
    BY <2>1 DEF RingInv, Inv, Types, InHand
  <2> QED
    BY <1>1, <1>2, <1>5, <2>1, <2>2 DEF RingInv, InStep
<1> QED
  BY <1>5, <1>6, <1>10, <1>11, <1>12 DEF InStep

LEMMA ReceiveRing == RingInv /\ Receive => InStep'
<1> SUFFICES ASSUME RingInv, Receive, ~ strayed' PROVE InStep'
  BY DEF InStep
<1>1. UNCHANGED task
  BY DEF Receive
<1>2. PICK byte \in Byte :
        IF listening /\ Taken(byte) THEN Take(byte)
        ELSE UNCHANGED <<buffer, met, len, slot, cur, queue, partial, unread, strayed, talkedOver>>
  BY DEF Receive
<1>3. CASE listening /\ Taken(byte)
  <2>1. CASE Ends(byte)
    BY <1>1, <1>2, <1>3, <2>1, TakeEnd
  <2>2. CASE ~ Ends(byte)
    BY <1>1, <1>2, <1>3, <2>2, TakeInside
  <2> QED
    BY <2>1, <2>2
<1>4. CASE ~ (listening /\ Taken(byte))
  <2>1. Waiting' = Waiting
    BY <1>1, <1>2, <1>4 DEF Waiting
  <2> QED
    BY <1>1, <1>2, <1>4, <2>1, StreamAlone DEF RingInv
<1> QED
  BY <1>3, <1>4

LEMMA StreamsStep == RingInv /\ [Next]_vars => Streams'
<1> SUFFICES ASSUME RingInv, [Next]_vars PROVE Streams'
  OBVIOUS
<1>1. unread \in Seq(Seq(Byte)) /\ partial \in Seq(Byte)
  BY DEF RingInv, Streams
<1>2. CASE Receive
  <2>1. \A byte \in Byte : Append(partial, byte) \in Seq(Byte)
    BY <1>1
  <2>2. PICK byte \in Byte : Take(byte) \/ UNCHANGED <<partial, unread>>
    BY <1>2 DEF Receive
  <2>3. CASE Take(byte)
    <3>1. Append(unread, Append(partial, byte)) \in Seq(Seq(Byte))
      BY <1>1, <2>1, AppendProperties
    <3>2. \/ partial' = <<>> /\ unread' = Append(unread, Append(partial, byte))
          \/ partial' = Append(partial, byte) /\ unread' = unread
      BY <2>3 DEF Take
    <3>3. <<>> \in Seq(Byte)
      OBVIOUS
    <3>4. unread' \in Seq(Seq(Byte))
      BY <1>1, <3>1, <3>2
    <3>5. partial' \in Seq(Byte)
      BY <2>1, <3>2, <3>3
    <3> QED
      BY <3>4, <3>5 DEF Streams
  <2> QED
    BY <1>1, <2>2, <2>3 DEF Streams
<1>3. CASE EndRead
  <2>1. unread # <<>> => Tail(unread) \in Seq(Seq(Byte))
    BY <1>1
  <2> QED
    BY <1>1, <1>3, <2>1 DEF EndRead, Streams
<1>4. CASE UNCHANGED <<partial, unread>>
  BY <1>1, <1>4 DEF Streams
<1> QED
  BY <1>2, <1>3, <1>4 DEF Next, Serve, Request, Transmit, Start, Top, TakeRequest, TakeCommand,
     BeginRead, Clear, Process, Answer, vars

LEMMA RingStep == RingInv /\ [Next]_vars => RingInv'
<1> SUFFICES ASSUME RingInv, [Next]_vars PROVE RingInv'
  OBVIOUS
<1>1. Inv' /\ Streams'
  BY Step, StreamsStep DEF RingInv
<1>2. CASE UNCHANGED vars
  <2>1. Waiting' = Waiting
    BY <1>2 DEF vars, Waiting
  <2> QED
    BY <1>1, <1>2, <2>1, StreamAlone DEF RingInv, vars, receiver
<1>3. CASE Next
  BY <1>1, <1>3, RequestRing, ReceiveRing, TransmitRing, ServeAlone, TakeRequestRing,
     TakeCommandRing, BeginReadRing, EndReadRing DEF Next, Serve, RingInv
<1> QED
  BY <1>2, <1>3

LEMMA RingInvariant == Spec => []RingInv
<1> QED
  BY RingInit, RingStep, PTL DEF Spec

\* While the stream of bytes keeps its order (no address in the middle of a
\* command, no byte or command without room, no command that is too long, no
\* slot filled twice), the ring buffer holds the commands posted and not read,
\* then the one that comes in, and the slots that wait give their lengths in
\* order: for buffers, queues and commands of any size.
THEOREM RingKeepsOrder == Spec => []RingTrue
<1>1. RingInv => RingTrue
  <2> SUFFICES ASSUME RingInv, ~ strayed
               PROVE  /\ Ring!Stored(buffer) = Text /\ buffer.count = Len(Text)
                      /\ [i \in DOMAIN Waiting |-> slot[Waiting[i]]]
                           = [i \in DOMAIN unread |-> Len(unread[i])]
    BY DEF RingTrue, Text
  <2>1. Text \in Seq(Byte) /\ Holds(buffer, Text) /\ buffer \in Buffers
    BY StreamsText DEF RingInv, Inv, Types, InStep
  <2>2. Waiting \in Seq(SlotNumbers) /\ unread \in Seq(Seq(Byte))
    BY WaitingType DEF RingInv, Inv, Streams
  <2>3. /\ DOMAIN Waiting = 1 .. Len(unread) /\ DOMAIN unread = 1 .. Len(unread)
        /\ \A i \in 1 .. Len(unread) : slot[Waiting[i]] = Len(unread[i])
    BY <2>2 DEF RingInv, InStep
  <2> QED
    BY <2>1, <2>3, HoldsStored DEF Holds
<1> QED
  BY <1>1, RingInvariant, PTL
=============================================================================
