--------------------------- MODULE InttaskMessages ---------------------------
(****************************************************************************)
(* One mailbox of Threads/src/inttsk_mgs.c: a static ring of message slots, *)
(* static rings of payload slots, and a uC/OS-II queue of pointers to       *)
(* message slots.  send_to_dc/recv_dc and send_to_pwmng/recv_pwmng are the  *)
(* two instances (N = 8 and N = 4); RingOf says which payload ring, if any, *)
(* a message type uses.                                                     *)
(*                                                                          *)
(* A send is not protected by a lock.  Its steps are the memory accesses an *)
(* interrupt or a task of higher precedence can come between; the kernel    *)
(* calls OSQPost, OSQPend and OSQAccept disable interrupts and are atomic.  *)
(* Priorities are those of uC/OS-II: the lower number runs first.           *)
(****************************************************************************)
EXTENDS Naturals, Sequences

CONSTANTS N,          \* MSGQUELEN_TASK_...: slots of each ring, entries of the queue
          Senders,    \* interrupt handlers and tasks that call send_inttask_message
          Receiver,   \* the task that owns the mailbox
          Prio,       \* [Senders \cup {Receiver} -> Nat]
          Types,      \* the message types sent to this mailbox
          DataRings,  \* the payload rings of this mailbox
          RingOf,     \* [Types -> DataRings \cup {NoRing}]
          NoRing,
          Payloads,   \* the contents a payload may have
          MaySend,    \* [Senders -> SUBSET Types]
          Null

Slots    == 0 .. N - 1
Pointers == DataRings \X Slots
Words    == [msg : Types \cup {Null}, data : Pointers \cup {Null}]
Posted   == [msg : Types, data : Pointers \cup {Null}, payload : Payloads \cup {Null}]

\* A payload ring has one writer: the power manager for the device
\* controller's mailbox, the device controller for the power manager's.
ASSUME MailboxAssumption ==
    /\ N \in Nat /\ N > 1
    /\ Prio \in [Senders \cup {Receiver} -> Nat]
    /\ RingOf \in [Types -> DataRings \cup {NoRing}]
    /\ NoRing \notin DataRings
    /\ MaySend \in [Senders -> SUBSET Types]
    /\ Null \notin Types /\ Null \notin Pointers /\ Null \notin Payloads /\ Null \notin Nat
    /\ \A s, u \in Senders : \A t \in MaySend[s], v \in MaySend[u] :
          RingOf[t] = RingOf[v] /\ RingOf[t] # NoRing => s = u

VARIABLES ring,    \* _dc_currnt_send_msg / _pwmngmnt_currnt_send_msg
          index,   \* _dc_data_index / _pwmngmnt_index
          drings,  \* the payload rings
          dindex,  \* the index of each payload ring
          queue,   \* the pointers held by the kernel queue, oldest first
          held,    \* the slot the receiver works on (_dc_currnt_recv_msg)
          pc,      \* where each sender is inside its send
          local,   \* the sender's own copy of the message
          slot,    \* the slot address the sender's memcpy was given
          reg,     \* the index value the sender loaded to increment it
          fifo,    \* ghost: the messages whose post succeeded and were not received
          heldMsg, \* ghost: the message the receiver was meant to get
          tainted  \* ghost: a send overlapped another one or found no free slot

code  == <<ring, index, drings, dindex, queue, held, pc, local, slot, reg>>
ghost == <<fifo, heldMsg, tainted>>
vars  == <<ring, index, drings, dindex, queue, held, pc, local, slot, reg,
           fifo, heldMsg, tainted>>

NoMessage == [msg |-> Null, data |-> Null, payload |-> Null]

Init ==
    /\ ring = [i \in Slots |-> [msg |-> Null, data |-> Null]]
    /\ index = 0
    /\ drings = [r \in DataRings |-> [i \in Slots |-> Null]]
    /\ dindex = [r \in DataRings |-> 0]
    /\ queue = <<>>
    /\ held = Null
    /\ pc = [s \in Senders |-> "idle"]
    /\ local = [s \in Senders |-> NoMessage]
    /\ slot = [s \in Senders |-> 0]
    /\ reg = [s \in Senders |-> 0]
    /\ fifo = <<>>
    /\ heldMsg = NoMessage
    /\ tainted = FALSE

-----------------------------------------------------------------------------
(* Scheduling and index arithmetic *)

\* Strict preemption: p runs only when nobody of the same or of higher
\* precedence is inside a send.
CanRun(p) == \A s \in Senders \ {p} : pc[s] # "idle" => Prio[s] > Prio[p]

\* Mutants: the index is not wrapped; it is wrapped one slot early.
NextSlotNoWrap(i) == i + 1
NextSlotEarly(i)  == IF i + 2 = N THEN 0 ELSE i + 1

\* ( i + 1 == N ) ? 0 : i + 1
NextSlot(i) == IF i + 1 = N THEN 0 ELSE i + 1

\* Slots that hold a message still unread or still being worked on.
Occupied == Len(queue) + (IF held = Null THEN 0 ELSE 1)

\* The sender touches the ring, the queue or the index.
InWindow(s) == pc[s] \in {"msgword", "dataword", "posted", "loaded"}

Overlaps(s) == \E u \in Senders \ {s} : InWindow(u)

\* Everybody is out of the mailbox: whatever happened before is forgotten.
Quiet(q, h, p) == q = <<>> /\ h = Null /\ \A s \in Senders : p[s] = "idle"

-----------------------------------------------------------------------------
(* send_inttask_message *)

\* Mutant: the payload index stays where it is.
StorePayloadInPlace(r, p) ==
    /\ drings' = [drings EXCEPT ![r] = [@ EXCEPT ![dindex[r]] = p]]
    /\ UNCHANGED dindex

\* Copy the payload to the current slot of its ring and advance the index.
StorePayload(r, p) ==
    /\ drings' = [drings EXCEPT ![r] = [@ EXCEPT ![dindex[r]] = p]]
    /\ dindex' = [dindex EXCEPT ![r] = NextSlot(@)]

\* The switch on message->msg: copy the payload into its ring, point the
\* message at the copy and advance the payload index.
EnterSend(s, t, p) ==
    /\ CanRun(s)
    /\ pc[s] = "idle"
    /\ t \in MaySend[s]
    /\ IF RingOf[t] = NoRing
       THEN /\ local' = [local EXCEPT ![s] = [msg |-> t, data |-> Null, payload |-> Null]]
            /\ UNCHANGED <<drings, dindex, tainted>>
       ELSE /\ StorePayload(RingOf[t], p)
            /\ local' = [local EXCEPT ![s] =
                  [msg |-> t, data |-> <<RingOf[t], dindex[RingOf[t]]>>, payload |-> p]]
            /\ tainted' = (tainted \/ Occupied >= N)
    /\ pc' = [pc EXCEPT ![s] = "entered"]
    /\ UNCHANGED <<ring, index, queue, held, slot, reg, fifo, heldMsg>>

\* memcpy( &ring[index], message ), first word: the message type.
CopyMsgWord(s) ==
    /\ CanRun(s)
    /\ pc[s] = "entered"
    /\ slot' = [slot EXCEPT ![s] = index]
    /\ ring' = [ring EXCEPT ![index] = [msg |-> local[s].msg, data |-> @.data]]
    /\ pc' = [pc EXCEPT ![s] = "msgword"]
    /\ tainted' = (tainted \/ Overlaps(s) \/ Occupied >= N)
    /\ UNCHANGED <<index, drings, dindex, queue, held, local, reg, fifo, heldMsg>>

\* memcpy, second word: the payload pointer.
CopyDataWord(s) ==
    /\ CanRun(s)
    /\ pc[s] = "msgword"
    /\ ring' = [ring EXCEPT ![slot[s]] = [msg |-> @.msg, data |-> local[s].data]]
    /\ pc' = [pc EXCEPT ![s] = "dataword"]
    /\ UNCHANGED <<index, drings, dindex, queue, held, local, slot, reg, ghost>>

\* Mutant: OSQPostFront.
PostFront(s) ==
    /\ CanRun(s)
    /\ pc[s] = "dataword"
    /\ \E i \in {slot[s], index} :
         IF Len(queue) < N
         THEN /\ queue' = <<i>> \o queue
              /\ fifo' = <<local[s]>> \o fifo
         ELSE UNCHANGED <<queue, fifo>>
    /\ pc' = [pc EXCEPT ![s] = "posted"]
    /\ UNCHANGED <<ring, index, drings, dindex, held, local, slot, reg, heldMsg, tainted>>

\* OSQPost( queue, &ring[index] ), its result ignored.  The compiler may keep
\* the slot address it computed for memcpy or read the index again.
Post(s) ==
    /\ CanRun(s)
    /\ pc[s] = "dataword"
    /\ \E i \in {slot[s], index} :
         IF Len(queue) < N
         THEN /\ queue' = Append(queue, i)
              /\ fifo' = Append(fifo, local[s])
         ELSE UNCHANGED <<queue, fifo>>
    /\ pc' = [pc EXCEPT ![s] = "posted"]
    /\ UNCHANGED <<ring, index, drings, dindex, held, local, slot, reg, heldMsg, tainted>>

\* index = ( index + 1 == N ) ? 0 : index + 1, the read ...
LoadIndex(s) ==
    /\ CanRun(s)
    /\ pc[s] = "posted"
    /\ reg' = [reg EXCEPT ![s] = index]
    /\ pc' = [pc EXCEPT ![s] = "loaded"]
    /\ UNCHANGED <<ring, index, drings, dindex, queue, held, local, slot, ghost>>

\* Mutant: the message index is not advanced.
StoreIndexStuck(s) ==
    /\ CanRun(s)
    /\ pc[s] = "loaded"
    /\ index' = reg[s]
    /\ pc' = [pc EXCEPT ![s] = "idle"]
    /\ local' = [local EXCEPT ![s] = NoMessage]
    /\ slot' = [slot EXCEPT ![s] = 0]
    /\ reg' = [reg EXCEPT ![s] = 0]
    /\ UNCHANGED <<ring, drings, dindex, queue, held, ghost>>

\* ... and the write, also when the post failed.
StoreIndex(s) ==
    /\ CanRun(s)
    /\ pc[s] = "loaded"
    /\ index' = NextSlot(reg[s])
    /\ pc' = [pc EXCEPT ![s] = "idle"]
    /\ local' = [local EXCEPT ![s] = NoMessage]
    /\ slot' = [slot EXCEPT ![s] = 0]
    /\ reg' = [reg EXCEPT ![s] = 0]
    /\ tainted' = (tainted /\ ~Quiet(queue, held, pc'))
    /\ UNCHANGED <<ring, drings, dindex, queue, held, fifo, heldMsg>>

-----------------------------------------------------------------------------
(* recv_inttask_message and tryrecv_inttask_message *)

\* OSQPend or OSQAccept hands over the oldest pointer; the message it was
\* working on before is given up by this call.
Receive ==
    /\ CanRun(Receiver)
    /\ queue # <<>>
    /\ held' = Head(queue)
    /\ queue' = Tail(queue)
    /\ heldMsg' = Head(fifo)
    /\ fifo' = Tail(fifo)
    /\ UNCHANGED <<ring, index, drings, dindex, pc, local, slot, reg, tainted>>

\* PMBUS_ALARM_TIMEOUT ticks passed, or the queue was polled while empty:
\* the current message becomes NULL.
ReceiveNothing ==
    /\ CanRun(Receiver)
    /\ queue = <<>>
    /\ held' = Null
    /\ heldMsg' = NoMessage
    /\ tainted' = (tainted /\ ~Quiet(queue, held', pc))
    /\ UNCHANGED <<ring, index, drings, dindex, queue, pc, local, slot, reg, fifo>>

SendStep(s) ==
    \/ \E t \in MaySend[s], p \in Payloads : EnterSend(s, t, p)
    \/ CopyMsgWord(s)
    \/ CopyDataWord(s)
    \/ Post(s)
    \/ LoadIndex(s)
    \/ StoreIndex(s)

Next ==
    \/ \E s \in Senders : SendStep(s)
    \/ Receive
    \/ ReceiveNothing

Spec == Init /\ [][Next]_vars

-----------------------------------------------------------------------------
(* Properties *)

TypeOK ==
    /\ ring \in [Slots -> Words]
    /\ index \in Slots
    /\ drings \in [DataRings -> [Slots -> Payloads \cup {Null}]]
    /\ dindex \in [DataRings -> Slots]
    /\ queue \in Seq(Slots) /\ Len(queue) <= N
    /\ held \in Slots \cup {Null}
    /\ pc \in [Senders -> {"idle", "entered", "msgword", "dataword", "posted", "loaded"}]
    /\ local \in [Senders -> Posted \cup {NoMessage}]
    /\ \A s \in Senders : pc[s] # "idle" => local[s] \in Posted
    /\ slot \in [Senders -> Slots]
    /\ reg \in [Senders -> Slots]
    /\ fifo \in Seq(Posted) /\ Len(fifo) = Len(queue)
    /\ heldMsg \in Posted \cup {NoMessage}
    /\ tainted \in BOOLEAN

Carries(i, m) == ring[i].msg = m.msg /\ ring[i].data = m.data

\* No message is damaged between its post and the end of its handling: the
\* unread slots and the slot being handled still carry what was posted,
\* unless, since the mailbox was last empty and idle, a send began inside
\* another send or began with all N slots in use.
MailboxIntact ==
    ~tainted => /\ \A k \in 1 .. Len(queue) : Carries(queue[k], fifo[k])
                /\ held # Null => Carries(held, heldMsg)

\* The payload behind the pointer survives as long as the message does: the
\* payload rings turn no faster than the message ring.
PayloadOf(i) == IF ring[i].data = Null THEN Null ELSE drings[ring[i].data[1]][ring[i].data[2]]

PayloadIntact ==
    ~tainted => /\ \A k \in 1 .. Len(queue) : PayloadOf(queue[k]) = fifo[k].payload
                /\ held # Null => PayloadOf(held) = heldMsg.payload

\* A sender fills a slot nobody is going to read any more: the slot is neither
\* queued nor in the receiver's hands, and no slot is queued twice.
WriterOwnsSlot ==
    ~tainted =>
        /\ \A s \in Senders : pc[s] \in {"msgword", "dataword"} =>
              /\ slot[s] # held
              /\ \A k \in 1 .. Len(queue) : slot[s] # queue[k]
        /\ \A j, k \in 1 .. Len(queue) : j # k => queue[j] # queue[k]
        /\ \A k \in 1 .. Len(queue) : queue[k] # held

-----------------------------------------------------------------------------
(* The invariant that carries MailboxIntact and WriterOwnsSlot *)

\* The slot d places after i.
Ahead(i, d) == IF i + d < N THEN i + d ELSE i + d - N

Advancing == \E s \in Senders : pc[s] \in {"posted", "loaded"}

OneSender == \A s, u \in Senders : InWindow(s) /\ InWindow(u) => s = u

\* The unread slots are consecutive and end just before index, or at index
\* while the sender that posted the last one has not advanced it yet.
Contiguous ==
    /\ \A k \in 1 .. Len(queue) : queue[k] = Ahead(queue[1], k - 1)
    /\ queue # <<>> =>
          IF Advancing
          THEN index = Ahead(queue[1], Len(queue) - 1)
          ELSE index = Ahead(queue[1], Len(queue))

\* The slot being handled is the one before them.
HeldPrecedes ==
    held # Null =>
        IF queue # <<>> THEN queue[1] = NextSlot(held)
        ELSE IF Advancing
             THEN index = held
             ELSE index = NextSlot(held)

SendersAligned ==
    \A s \in Senders :
        /\ pc[s] \in {"msgword", "dataword"} => slot[s] = index /\ Occupied < N
        /\ pc[s] = "loaded" => reg[s] = index
        /\ pc[s] \in {"msgword", "dataword"} => ring[slot[s]].msg = local[s].msg
        /\ pc[s] = "dataword" => ring[slot[s]].data = local[s].data

Sound == /\ OneSender
         /\ Contiguous
         /\ HeldPrecedes
         /\ SendersAligned
         /\ Occupied <= N
         /\ \A k \in 1 .. Len(queue) : Carries(queue[k], fifo[k])
         /\ held # Null => Carries(held, heldMsg)

MailboxInv == TypeOK /\ (~tainted => Sound)

-----------------------------------------------------------------------------
(* The invariant that carries PayloadIntact *)

\* Sender s has stored a payload whose message is not posted yet.
Carrying(s) == pc[s] \in {"entered", "msgword", "dataword"} /\ local[s].data # Null

Turned(r) == \E s \in Senders : Carrying(s) /\ local[s].data[1] = r

\* The payload ring was advanced at most b times since m's payload was stored,
\* not counting the store of a send that is not posted yet.
Fresh(m, b) ==
    m.data # Null =>
        \E a \in 1 .. N :
            /\ a <= IF Turned(m.data[1]) THEN b + 1 ELSE b
            /\ dindex[m.data[1]] = Ahead(m.data[2], a)

Stored(m) == m.payload = IF m.data = Null THEN Null ELSE drings[m.data[1]][m.data[2]]

\* A payload on its way to the queue is the newest of its ring.
NewestOfItsRing ==
    \A s \in Senders :
        /\ pc[s] \in {"entered", "msgword", "dataword"} => Stored(local[s])
        /\ Carrying(s) =>
              /\ \E t \in MaySend[s] : RingOf[t] = local[s].data[1]
              /\ dindex[local[s].data[1]] = NextSlot(local[s].data[2])

\* A payload is no older than its message: the k-th newest message points at
\* most k slots behind the index of its payload ring.
PayloadsFresh ==
    /\ \A k \in 1 .. Len(fifo) : Fresh(fifo[k], Len(fifo) - k + 1) /\ Stored(fifo[k])
    /\ held # Null => Fresh(heldMsg, Len(fifo) + 1) /\ Stored(heldMsg)

PayloadInv == MailboxInv /\ NewestOfItsRing /\ (~tainted => PayloadsFresh)

-----------------------------------------------------------------------------
(* What the mailbox promises *)

\* A message apart from where its payload lies.
Plain(m) == [msg |-> m.msg, payload |-> m.payload]

\* What the receiver finds when it follows a pointer to a slot.
Found(i) == [msg |-> ring[i].msg, payload |-> PayloadOf(i)]

Unread == [k \in 1 .. Len(queue) |-> Found(queue[k])]

InHand == IF held = Null THEN <<>> ELSE <<Found(held)>>

Stage(s) == IF pc[s] = "idle" THEN "out"
            ELSE IF pc[s] \in {"posted", "loaded"} THEN "posted"
            ELSE "begun"

Queue == INSTANCE MessageQueue WITH
            Messages <- [msg : Types, payload : Payloads \cup {Null}],
            Blank    <- Plain(NoMessage),
            Capacity <- N,
            stage    <- [s \in Senders |-> Stage(s)],
            message  <- [s \in Senders |-> Plain(local[s])],
            waiting  <- Unread,
            hand     <- InHand,
            broken   <- tainted

\* The unguarded send, made of single accesses to two rings, their indices and
\* the kernel's queue, puts the whole message at the end of a first-in first-out
\* queue at one instant, unless, since the mailbox was last empty and idle, a
\* send met another send or found all slots in use (inttsk_mgs.c:72-195).
Delivers == Queue!Spec
=============================================================================
