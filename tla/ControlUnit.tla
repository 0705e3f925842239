----------------------------- MODULE ControlUnit -----------------------------
(* The exchange with the control unit of the rack (Threads/src/threadCU.c).   *)
(* The handler of the UART's interrupts puts the bytes of a command into a    *)
(* ring buffer and, at its end, posts the command's length to the queue of    *)
(* taskCU; the task takes the command out of the ring buffer, has the profile *)
(* make an answer, and the same handler sends it byte by byte.  Other tasks   *)
(* post requests to the same queue.                                           *)
EXTENDS Integers, Sequences, SequencesExt

CONSTANTS
  Total,      \* size of uart_rcv_buff
  Word,       \* its count is kept modulo this
  MaxLen,     \* TASK_CU_RECV_BUFF_LEN
  Slots,      \* taskCU_messages_len
  Renew,      \* RENEW_SFP_PARAMS
  Format,     \* FORMAT_BPEEPROM
  Reset,      \* RESET2DEFAULT
  Nothing,    \* no slot, no byte
  MaxBytes,   \* bound: bytes received
  MaxRequests \* bound: requests of other tasks

ASSUME ControlUnitAssumption ==
  /\ Total \in Nat \ {0}
  /\ Word \in Nat /\ Word > Total
  /\ MaxLen \in Nat \ {0}
  /\ Slots \in Nat \ {0}
  /\ Nothing \notin 0 .. Slots - 1
  /\ {Renew, Format, Reset} \cap (0 .. Slots - 1) = {}

VARIABLES
  buffer,     \* uart_rcv_buff
  listening,  \* __uart_listening
  met,        \* met_address_on_uart
  len,        \* uart_rcvmsg_len
  slot,       \* rcvmsg_len of each taskCU_message
  cur,        \* taskCU_message_cur_num
  queue,      \* cuRcvQueue: slots of commands, and requests
  task,       \* taskCU: where it is, what it has in hand, what it has read
  answer,     \* uart_answer_buff
  cnt,        \* uart_answer_buff_cnt
  sending,    \* the interrupt of the transmitter is enabled
  bytes,      \* counts bytes received, up to MaxBytes
  requests,   \* counts requests, up to MaxRequests
  partial,    \* auxiliary: bytes of the command being received
  unread,     \* auxiliary: commands posted and not yet read
  wire,       \* auxiliary: what was sent of the present answer
  strayed,    \* auxiliary: the stream of bytes or a queue lost its order
  talkedOver  \* auxiliary: a command came before the last one was answered

receiver == <<buffer, listening, met, len, slot, cur, bytes>>
transmitter == <<answer, cnt, sending, wire>>
vars == <<receiver, queue, task, transmitter, requests, partial, unread,
          strayed, talkedOver>>

Ring == INSTANCE CircBuffer

\* A byte is the board's own address, the end of a command, or another one.
Address == "address"
End == "0x0D"
Byte == {Address, End, "other"}

\* an answer of two bytes, unlike the one before; 0 ends a string
Length == 2
Marks == {1, 2}
Other(v) == IF v = 1 THEN 2 ELSE 1
Whole(v) == [i \in 1 .. Length |-> v]

Requests == {Renew, Format, Reset}

Idle == [pc |-> "pend", hand |-> Nothing, head |-> 0, tail |-> 0, len |-> 0,
         text |-> <<>>]

Init ==
  /\ buffer = Ring!EmptyBuffer
  /\ listening = FALSE /\ met = FALSE /\ len = 0
  /\ slot = [k \in 0 .. Slots - 1 |-> 0] /\ cur = 0
  /\ queue = <<>>
  /\ task = [Idle EXCEPT !.pc = "start"]
  /\ answer = [i \in 0 .. Length |-> 0] /\ cnt = 0 /\ sending = FALSE
  /\ bytes = 0 /\ requests = 0
  /\ partial = <<>> /\ unread = <<>> /\ wire = <<>>
  /\ strayed = FALSE /\ talkedOver = FALSE

-----------------------------------------------------------------------------
(* CU_send_queue_message: no queue, no message; OSQPost drops one that does   *)
(* not fit, and nobody looks.                                                 *)
Fits == task.pc # "start" /\ Len(queue) < Slots
Post(m) == queue' = IF Fits THEN Append(queue, m) ELSE queue

\* Measure, and the profile on behalf of the operator
Request ==
  /\ requests < MaxRequests
  /\ requests' = requests + 1
  /\ \E m \in Requests : Post(m)
  /\ UNCHANGED <<receiver, task, transmitter, partial, unread, strayed, talkedOver>>

-----------------------------------------------------------------------------
(* The handler of the UART's interrupts.                                      *)

\* the byte goes into the ring buffer, when a command for us is coming in
Taken(byte) == met \/ byte = Address

NewLen(byte) == (IF byte = Address THEN 0 ELSE len) + 1

\* mutant: a command that fills the task's buffer is posted as well
TooLongAbove(n) == n > MaxLen

TooLong(n) == n >= MaxLen

\* the byte ends a command that is to be posted
Ends(byte) == byte = End /\ met /\ ~TooLong(NewLen(byte))

InHand == task.pc \in {"command", "reading", "clear", "process", "build"}
IsSlot(m) == m \notin Requests
Busy == InHand \/ sending \/ \E i \in DOMAIN queue : IsSlot(queue[i])

\* the slot about to be filled belongs to a command not yet dealt with
SlotInUse == task.hand = cur \/ \E i \in DOMAIN queue : queue[i] = cur

\* what makes the task read something else than the next command: an address
\* within a command, a byte or a command that got no room, a command that is
\* too long, a slot filled twice
Strays(byte) ==
  \/ byte = Address /\ met
  \/ Ring!Full(buffer)
  \/ byte = End /\ TooLong(NewLen(byte))
  \/ Ends(byte) /\ (~Fits \/ SlotInUse)

\* backplane_uart_isr_hook with a byte it takes
Take(byte) ==
  /\ buffer' = Ring!Push(buffer, byte)
  /\ len' = NewLen(byte)
  /\ met' = ~Ends(byte)
  /\ IF Ends(byte)
     THEN /\ slot' = [slot EXCEPT ![cur] = NewLen(byte)]
          /\ Post(cur)
          /\ cur' = (cur + 1) % Slots
          /\ partial' = <<>> /\ unread' = Append(unread, Append(partial, byte))
          /\ talkedOver' = (talkedOver \/ Busy)
     ELSE /\ partial' = Append(partial, byte)
          /\ UNCHANGED <<slot, queue, cur, unread, talkedOver>>
  /\ strayed' = (strayed \/ Strays(byte))

Receive ==
  /\ task.pc # "start"
  /\ bytes < MaxBytes
  /\ bytes' = bytes + 1
  /\ \E byte \in Byte :
       IF listening /\ Taken(byte) THEN Take(byte)
       ELSE UNCHANGED <<buffer, met, len, slot, cur, queue, partial, unread,
                        strayed, talkedOver>>
  /\ UNCHANGED <<listening, task, transmitter, requests>>

\* mutants: the transmitter stops when the last byte is still to be sent; it
\* is not stopped
StopsEarly(i) == i + 1 <= Length /\ answer[i + 1] = 0
StopsNever(i) == FALSE

Stops(i) == answer[i] = 0

\* backplane_uart_isr_snd_hook: one byte at a time
Transmit ==
  /\ sending
  /\ IF answer[cnt] = 0 THEN UNCHANGED <<cnt, wire>>
     ELSE cnt' = cnt + 1 /\ wire' = Append(wire, answer[cnt])
  /\ sending' = ~Stops(cnt')
  /\ UNCHANGED <<receiver, queue, task, answer, requests, partial, unread,
                 strayed, talkedOver>>

-----------------------------------------------------------------------------
(* taskCU.                                                                    *)
GoTo(pc) == task' = [task EXCEPT !.pc = pc]

\* the queue is there before the handler is
Start ==
  /\ task.pc = "start"
  /\ GoTo("top")
  /\ UNCHANGED <<receiver, queue, transmitter, requests, partial, unread,
                 strayed, talkedOver>>

Top ==
  /\ task.pc = "top"
  /\ listening' = TRUE
  /\ task' = Idle
  /\ UNCHANGED <<buffer, met, len, slot, cur, bytes, queue, transmitter,
                 requests, partial, unread, strayed, talkedOver>>

\* a request: the new thresholds of the SFPs and a format switch the commands
\* off until the task is back at the top of its loop
TakeRequest ==
  /\ task.pc = "pend" /\ queue # <<>> /\ ~IsSlot(Head(queue))
  /\ queue' = Tail(queue)
  /\ GoTo("top")
  /\ listening' = (Head(queue) = Reset)
  /\ UNCHANGED <<buffer, met, len, slot, cur, bytes, transmitter, requests,
                 partial, unread, strayed, talkedOver>>

TakeCommand ==
  /\ task.pc = "pend" /\ queue # <<>> /\ IsSlot(Head(queue))
  /\ queue' = Tail(queue)
  /\ task' = [task EXCEPT !.pc = "command", !.hand = Head(queue)]
  /\ UNCHANGED <<receiver, transmitter, requests, partial, unread, strayed, talkedOver>>

\* the answer is emptied, the length checked, the read begun; an empty ring
\* buffer is read at once
BeginRead ==
  /\ task.pc = "command"
  /\ answer' = [answer EXCEPT ![0] = 0]
  /\ LET n == slot[task.hand]
     IN  task' = CASE n > MaxLen -> [task EXCEPT !.pc = "left"]
                   [] n <= MaxLen /\ buffer.count = 0 ->
                        [task EXCEPT !.pc = "clear", !.text = <<>>]
                   [] OTHER -> [task EXCEPT !.pc = "reading", !.len = n,
                                            !.head = buffer.head, !.tail = buffer.tail]
  /\ UNCHANGED <<receiver, queue, cnt, sending, wire, requests, partial, unread,
                 strayed, talkedOver>>

\* The bytes are copied and the head is moved, unless it was moved meanwhile:
\* then the task leaves its loop.
EndRead ==
  /\ task.pc = "reading"
  /\ buffer' = Ring!Read(buffer, task.head, task.tail, task.len)
  /\ task' = [task EXCEPT
       !.pc = IF buffer.head = task.head THEN "clear" ELSE "left",
       !.text = Ring!Copied(buffer, task.head, task.tail, task.len)]
  /\ unread' = IF unread = <<>> THEN <<>> ELSE Tail(unread)
  /\ strayed' = (strayed \/ Ring!Misplaced(task.head, task.tail, task.len))
  /\ UNCHANGED <<listening, met, len, slot, cur, bytes, queue, transmitter,
                 requests, partial, talkedOver>>

Clear ==
  /\ task.pc = "clear"
  /\ answer' = [answer EXCEPT ![0] = 0] /\ cnt' = 0
  /\ GoTo("process")
  /\ UNCHANGED <<receiver, queue, sending, wire, requests, partial, unread,
                 strayed, talkedOver>>

\* Profile_message_processing looks for the address in as many bytes as the
\* slot says, then fills the answer.  The slot may say more than was read.
Addressed == Address \in ToSet(task.text) \/ Len(task.text) < slot[task.hand]

Process ==
  /\ task.pc = "process"
  /\ \/ /\ Addressed
        /\ answer' = [answer EXCEPT ![0] = Other(answer[1])]
        /\ GoTo("build")
     \/ /\ GoTo("top")
        /\ UNCHANGED answer
  /\ UNCHANGED <<receiver, queue, cnt, sending, wire, requests, partial, unread,
                 strayed, talkedOver>>

\* the answer is complete, and uart_backplane_start_tx
Answer ==
  /\ task.pc = "build"
  /\ answer' = [i \in 0 .. Length |-> IF i < Length THEN answer[0] ELSE 0]
  /\ sending' = TRUE /\ wire' = IF sending THEN wire ELSE <<>>
  /\ GoTo("top")
  /\ UNCHANGED <<receiver, queue, cnt, requests, partial, unread, strayed, talkedOver>>

Serve ==
  \/ Start \/ Top \/ TakeRequest \/ TakeCommand \/ BeginRead \/ EndRead
  \/ Clear \/ Process \/ Answer

Next == Request \/ Receive \/ Transmit \/ Serve

\* The task runs when it is ready, the transmitter interrupts when it is empty.
Fairness == WF_vars(Serve) /\ WF_vars(Transmit)

Spec == Init /\ [][Next]_vars /\ Fairness

-----------------------------------------------------------------------------
\* The variables keep to their types.
TypeOK ==
  /\ DOMAIN buffer.data = 0 .. Total - 1
  /\ \A i \in DOMAIN buffer.data : buffer.data[i] \in Byte \cup {Nothing}
  /\ buffer.count \in 0 .. Word - 1
  /\ buffer.head \in 0 .. Total - 1 /\ buffer.tail \in 0 .. Total - 1
  /\ listening \in BOOLEAN /\ met \in BOOLEAN /\ sending \in BOOLEAN
  /\ slot \in [0 .. Slots - 1 -> Nat] /\ cur \in 0 .. Slots - 1
  /\ Len(queue) <= Slots
  /\ task.pc \in {"start", "top", "pend", "command", "reading", "clear",
                  "process", "build", "left"}
  /\ task.hand \in DOMAIN slot \cup {Nothing}
  /\ answer \in [0 .. Length -> Marks \cup {0}] /\ cnt \in 0 .. Length

(* The task never leaves its loop, and a command it reads leaves room for the *)
(* 0 that is put after it.  Its own check of the length would not see to      *)
(* that: the handler's does, whatever comes in.                               *)
AlwaysServes == task.pc # "left" /\ Len(task.text) < MaxLen

\* the slots of the commands in a queue, in order
Commands(q) == FlattenSeq([i \in DOMAIN q |-> IF IsSlot(q[i]) THEN <<q[i]>> ELSE <<>>])

\* the slots of the commands that were posted and not read
Waiting ==
  (IF task.pc \in {"command", "reading"} THEN <<task.hand>> ELSE <<>>) \o Commands(queue)

(* While the stream keeps its order the ring buffer holds the commands posted *)
(* and not read, then the one that is coming in; its count says so, and the   *)
(* slots waiting in the queue, in order, give their lengths.                  *)
RingTrue ==
  ~strayed =>
    /\ Ring!Stored(buffer) = FlattenSeq(unread) \o partial
    /\ buffer.count = Len(FlattenSeq(unread) \o partial)
    /\ [i \in DOMAIN Waiting |-> slot[Waiting[i]]] = [i \in DOMAIN unread |-> Len(unread[i])]

(* If every command waits for the answer to the one before, what is sent is   *)
(* an answer and nothing but an answer.                                       *)
AnswerWhole ==
  ~talkedOver =>
    /\ \E v \in Marks : IsPrefix(wire, Whole(v))
    /\ ~sending => wire \in {<<>>} \cup {Whole(v) : v \in Marks}

(* When nothing more comes in, the task waits with an empty queue and the     *)
(* transmitter is silent.                                                     *)
EventuallyQuiet == <>[](task.pc = "pend" /\ queue = <<>> /\ ~sending)
=============================================================================
