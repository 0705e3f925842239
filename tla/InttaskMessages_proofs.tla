----------------------- MODULE InttaskMessages_proofs -----------------------
(* Proofs about one mailbox, for every ring length, set of senders,          *)
(* assignment of priorities and set of message types.                        *)
EXTENDS InttaskMessages, SequenceTheorems, TLAPS

\* Ring arithmetic: where the slots d places ahead are, and that fewer than N
\* places ahead is never the same slot again.
LEMMA AheadType ==
    ASSUME NEW i \in Slots, NEW d \in 0 .. N
    PROVE  Ahead(i, d) \in Slots
  BY MailboxAssumption DEF Ahead, Slots

LEMMA AheadDistinct ==
    ASSUME NEW i \in Slots, NEW a \in 0 .. N, NEW b \in 0 .. N,
           a < b, b - a < N
    PROVE  Ahead(i, a) # Ahead(i, b)
  BY MailboxAssumption DEF Ahead, Slots

LEMMA AheadStep ==
    ASSUME NEW i \in Slots, NEW d \in 0 .. N - 1
    PROVE  /\ Ahead(i, d + 1) = NextSlot(Ahead(i, d))
           /\ Ahead(NextSlot(i), d) = Ahead(i, d + 1)
           /\ Ahead(i, 0) = i
           /\ NextSlot(i) = Ahead(i, 1)
  BY MailboxAssumption DEF Ahead, NextSlot, Slots

LEMMA NextSlotType ==
    ASSUME NEW i \in Slots
    PROVE  NextSlot(i) \in Slots
  BY MailboxAssumption DEF NextSlot, Slots

LEMMA TypeInit == Init => TypeOK
<1> SUFFICES ASSUME Init
             PROVE  TypeOK
  OBVIOUS
<1>1. 0 \in Slots
  BY MailboxAssumption DEF Slots
<1>2. [msg |-> Null, data |-> Null] \in Words
  BY DEF Words
<1>3. queue \in Seq(Slots) /\ Len(queue) <= N /\ fifo \in Seq(Posted) /\ Len(fifo) = Len(queue)
  BY MailboxAssumption DEF Init
<1> QED
  BY <1>1, <1>2, <1>3 DEF Init, TypeOK

LEMMA TypeStep == TypeOK /\ [Next]_vars => TypeOK'
<1> SUFFICES ASSUME TypeOK, [Next]_vars
             PROVE  TypeOK'
  OBVIOUS
<1> USE MailboxAssumption
<1>1. ASSUME NEW s \in Senders, NEW t \in MaySend[s], NEW p \in Payloads,
             EnterSend(s, t, p)
      PROVE  TypeOK'
  <2> DEFINE r == RingOf[t]
             m == IF r = NoRing THEN [msg |-> t, data |-> Null, payload |-> Null]
                  ELSE [msg |-> t, data |-> <<r, dindex[r]>>, payload |-> p]
  <2>1. t \in Types /\ (r # NoRing => r \in DataRings)
    OBVIOUS
  <2>2. m \in Posted
    <3>1. r # NoRing => <<r, dindex[r]>> \in Pointers
      BY <2>1 DEF TypeOK, Pointers
    <3> QED
      BY <2>1, <3>1 DEF Posted
  <2>3. local' = [local EXCEPT ![s] = m]
    BY <1>1 DEF EnterSend
  <2>4. dindex' \in [DataRings -> Slots]
    BY <1>1, <2>1, NextSlotType DEF EnterSend, StorePayload, TypeOK
  <2>5. drings' \in [DataRings -> [Slots -> Payloads \cup {Null}]]
    <3>1. CASE r = NoRing
      BY <1>1, <3>1 DEF EnterSend, TypeOK
    <3>2. CASE r # NoRing
      <4>1. [drings[r] EXCEPT ![dindex[r]] = p] \in [Slots -> Payloads \cup {Null}]
        BY <2>1, <3>2 DEF TypeOK
      <4>2. drings' = [drings EXCEPT ![r] = [drings[r] EXCEPT ![dindex[r]] = p]]
        BY <1>1, <3>2, <2>1 DEF EnterSend, StorePayload, TypeOK
      <4> HIDE DEF r
      <4> QED
        BY <2>1, <3>2, <4>1, <4>2 DEF TypeOK
    <3> QED
      BY <3>1, <3>2
  <2>6. tainted' \in BOOLEAN
    BY <1>1 DEF EnterSend, TypeOK
  <2>7. local' \in [Senders -> Posted \cup {NoMessage}]
    BY <2>2, <2>3 DEF TypeOK
  <2>8. pc' = [pc EXCEPT ![s] = "entered"]
    BY <1>1 DEF EnterSend
  <2>9. \A u \in Senders : pc'[u] # "idle" => local'[u] \in Posted
    <3> HIDE DEF m
    <3> QED
      BY <2>2, <2>3, <2>8 DEF TypeOK
  <2>10. UNCHANGED <<ring, index, queue, held, slot, reg, fifo, heldMsg>>
    BY <1>1 DEF EnterSend
  <2> QED
    BY <2>4, <2>5, <2>6, <2>7, <2>8, <2>9, <2>10 DEF TypeOK
<1>2. ASSUME NEW s \in Senders, CopyMsgWord(s)
      PROVE  TypeOK'
  <2>1. local[s].msg \in Types
    BY <1>2 DEF CopyMsgWord, TypeOK, Posted
  <2>2. ring' \in [Slots -> Words]
    BY <1>2, <2>1 DEF CopyMsgWord, TypeOK, Words
  <2> QED
    BY <1>2, <2>2 DEF CopyMsgWord, TypeOK
<1>3. ASSUME NEW s \in Senders, CopyDataWord(s)
      PROVE  TypeOK'
  <2>1. local[s].data \in Pointers \cup {Null}
    BY <1>3 DEF CopyDataWord, TypeOK, Posted
  <2>2. ring' \in [Slots -> Words]
    BY <1>3, <2>1 DEF CopyDataWord, TypeOK, Words
  <2> QED
    BY <1>3, <2>2 DEF CopyDataWord, TypeOK, ghost
<1>4. ASSUME NEW s \in Senders, Post(s)
      PROVE  TypeOK'
  <2>1. local[s] \in Posted /\ slot[s] \in Slots /\ index \in Slots
    BY <1>4 DEF Post, TypeOK
  <2>2. PICK i \in {slot[s], index} :
           IF Len(queue) < N
           THEN queue' = Append(queue, i) /\ fifo' = Append(fifo, local[s])
           ELSE UNCHANGED <<queue, fifo>>
    BY <1>4 DEF Post
  <2>3. /\ queue' \in Seq(Slots) /\ Len(queue') <= N
        /\ fifo' \in Seq(Posted) /\ Len(fifo') = Len(queue')
    <3>1. CASE Len(queue) < N
      <4>1. queue' = Append(queue, i) /\ fifo' = Append(fifo, local[s])
        BY <2>2, <3>1
      <4>2. queue' \in Seq(Slots) /\ Len(queue') = Len(queue) + 1
        BY <2>1, <4>1, AppendProperties DEF TypeOK
      <4>3. fifo' \in Seq(Posted) /\ Len(fifo') = Len(fifo) + 1
        BY <2>1, <4>1, AppendProperties DEF TypeOK
      <4>4. Len(queue) \in Nat /\ Len(fifo) = Len(queue) /\ N \in Nat
        BY DEF TypeOK
      <4> QED
        BY <3>1, <4>2, <4>3, <4>4
    <3>2. CASE ~(Len(queue) < N)
      BY <2>2, <3>2 DEF TypeOK
    <3> QED
      BY <3>1, <3>2
  <2>4. /\ pc[s] = "dataword" /\ pc' = [pc EXCEPT ![s] = "posted"]
        /\ UNCHANGED <<ring, index, drings, dindex, held, local, slot, reg, heldMsg, tainted>>
    BY <1>4 DEF Post
  <2> QED
    BY <2>3, <2>4 DEF TypeOK
<1>5. ASSUME NEW s \in Senders, LoadIndex(s)
      PROVE  TypeOK'
  BY <1>5 DEF LoadIndex, TypeOK, ghost
<1>6. ASSUME NEW s \in Senders, StoreIndex(s)
      PROVE  TypeOK'
  <2>1. NextSlot(reg[s]) \in Slots
    BY NextSlotType DEF TypeOK
  <2>2. 0 \in Slots
    BY DEF Slots
  <2> QED
    BY <1>6, <2>1, <2>2 DEF StoreIndex, TypeOK
<1>7. CASE Receive
  <2>0. queue # <<>> /\ fifo # <<>>
    BY <1>7 DEF Receive, TypeOK
  <2>1. /\ Head(queue) \in Slots /\ Tail(queue) \in Seq(Slots)
        /\ Len(Tail(queue)) = Len(queue) - 1
    BY <2>0 DEF TypeOK
  <2>2. /\ Head(fifo) \in Posted /\ Tail(fifo) \in Seq(Posted)
        /\ Len(Tail(fifo)) = Len(fifo) - 1
    BY <2>0 DEF TypeOK
  <2>3. Len(Tail(queue)) <= N /\ Len(Tail(fifo)) = Len(Tail(queue))
    BY <2>1, <2>2 DEF TypeOK
  <2> QED
    BY <1>7, <2>1, <2>2, <2>3 DEF Receive, TypeOK
<1>8. CASE ReceiveNothing
  BY <1>8 DEF ReceiveNothing, TypeOK
<1>9. CASE UNCHANGED vars
  BY <1>9 DEF vars, TypeOK
<1> QED
  BY <1>1, <1>2, <1>3, <1>4, <1>5, <1>6, <1>7, <1>8, <1>9 DEF Next, SendStep

\* Every reachable state is well typed: a pointer never leaves its ring, the
\* kernel queue never holds more than N entries, and the ghost queue follows
\* it (inttsk_mgs.c:72-195).
THEOREM TypeCorrect == Spec => []TypeOK
<1> QED
  BY TypeInit, TypeStep, PTL DEF Spec

-----------------------------------------------------------------------------

\* While nobody is between post and index advance, and a slot is left over,
\* the slot under the index is neither unread nor being handled.
LEMMA IndexFree ==
    ASSUME TypeOK, Sound, Occupied < N, ~Advancing
    PROVE  /\ held # index
           /\ \A k \in 1 .. Len(queue) : queue[k] # index
<1> USE MailboxAssumption
<1>1. Len(queue) \in Nat /\ Len(queue) < N /\ (held # Null => Len(queue) + 1 < N)
  BY DEF TypeOK, Occupied
<1>2. \A k \in 1 .. Len(queue) : queue[k] # index
  <2> SUFFICES ASSUME NEW k \in 1 .. Len(queue)
               PROVE  queue[k] # index
    OBVIOUS
  <2>1. queue # <<>> /\ queue[1] \in Slots
    BY <1>1 DEF TypeOK
  <2>2. queue[k] = Ahead(queue[1], k - 1) /\ index = Ahead(queue[1], Len(queue))
    BY <2>1 DEF Sound, Contiguous
  <2>3. k - 1 \in 0 .. N /\ Len(queue) \in 0 .. N /\ k - 1 < Len(queue) /\ Len(queue) - (k - 1) < N
    BY <1>1
  <2> QED
    BY <2>1, <2>2, <2>3, AheadDistinct
<1>3. ASSUME held # Null
      PROVE  held # index
  <2>1. held \in Slots /\ held = Ahead(held, 0)
    BY <1>3, AheadStep DEF TypeOK
  <2>2. CASE queue = <<>>
    <3>1. index = Ahead(held, 1)
      BY <1>3, <2>1, <2>2, AheadStep DEF Sound, HeldPrecedes
    <3> QED
      BY <2>1, <3>1, AheadDistinct
  <2>3. CASE queue # <<>>
    <3>1. index = Ahead(NextSlot(held), Len(queue))
      BY <1>3, <2>3 DEF Sound, HeldPrecedes, Contiguous
    <3>2. Len(queue) \in 0 .. N - 1
      BY <1>1
    <3>3. index = Ahead(held, Len(queue) + 1)
      BY <2>1, <3>1, <3>2, AheadStep
    <3> QED
      BY <1>1, <1>3, <2>1, <3>2, <3>3, AheadDistinct
  <2> QED
    BY <2>2, <2>3
<1>4. index # Null
  BY DEF TypeOK, Slots
<1> QED
  BY <1>2, <1>3, <1>4

\* A sender alone in the mailbox writes the slot under the index: everything
\* the kernel queue and the receiver refer to keeps its contents.
LEMMA WriteElsewhere ==
    ASSUME TypeOK, Sound, Occupied < N, ~Advancing, NEW w,
           ring' = [ring EXCEPT ![index] = w],
           UNCHANGED <<queue, held, fifo, heldMsg>>
    PROVE  /\ \A k \in 1 .. Len(queue) : Carries(queue[k], fifo[k])'
           /\ (held # Null => Carries(held, heldMsg))'
<1>1. \A i \in Slots \ {index} : ring'[i] = ring[i]
  BY DEF TypeOK
<1>2. /\ held # index
      /\ \A k \in 1 .. Len(queue) : queue[k] # index /\ queue[k] \in Slots
  BY IndexFree DEF TypeOK
<1> QED
  BY <1>1, <1>2 DEF Sound, Carries, TypeOK

LEMMA SoundInit == Init => Sound
<1> SUFFICES ASSUME Init
             PROVE  Sound
  OBVIOUS
<1>1. queue = <<>> /\ Len(queue) = 0 /\ held = Null /\ Occupied = 0
  BY DEF Init, Occupied
<1>2. \A s \in Senders : pc[s] = "idle"
  BY DEF Init
<1> QED
  BY <1>1, <1>2, MailboxAssumption
     DEF Sound, OneSender, InWindow, Contiguous, HeldPrecedes, SendersAligned

\* The mailbox is forgiven an overlap only when nothing is left in it.
LEMMA SoundWhenQuiet ==
    ASSUME TypeOK, Quiet(queue, held, pc)
    PROVE  Sound
<1>1. Len(queue) = 0 /\ Occupied = 0
  BY DEF Quiet, Occupied
<1> QED
  BY <1>1, MailboxAssumption
     DEF Quiet, Sound, OneSender, InWindow, Contiguous, HeldPrecedes, SendersAligned

LEMMA SoundEnterSend ==
    ASSUME TypeOK, Sound, NEW s \in Senders, NEW t \in MaySend[s], NEW p \in Payloads,
           EnterSend(s, t, p)
    PROVE  Sound'
<1>1. /\ pc[s] = "idle" /\ pc' = [pc EXCEPT ![s] = "entered"]
      /\ UNCHANGED <<ring, index, queue, held, slot, reg, fifo, heldMsg>>
  BY DEF EnterSend
<1>2. \A u \in Senders \ {s} : local'[u] = local[u] /\ pc'[u] = pc[u]
  BY DEF EnterSend, TypeOK
<1>3. pc'[s] = "entered"
  BY <1>1 DEF TypeOK
<1>4. Advancing' <=> Advancing
  BY <1>1, <1>2, <1>3 DEF Advancing
<1>5. OneSender'
  BY <1>2, <1>3 DEF Sound, OneSender, InWindow
<1>6. Contiguous' /\ HeldPrecedes'
  BY <1>1, <1>4 DEF Sound, Contiguous, HeldPrecedes
<1>7. SendersAligned'
  BY <1>1, <1>2, <1>3 DEF Sound, SendersAligned, Occupied
<1> QED
  BY <1>1, <1>5, <1>6, <1>7 DEF Sound, Occupied, Carries

LEMMA SoundCopyMsgWord ==
    ASSUME TypeOK, Sound, NEW s \in Senders, CopyMsgWord(s), ~tainted'
    PROVE  Sound'
<1>1. ~Overlaps(s) /\ Occupied < N
  <2>1. ~Overlaps(s) /\ ~(Occupied >= N)
    BY Zenon DEF CopyMsgWord
  <2>2. Occupied \in Nat /\ N \in Nat
    BY MailboxAssumption DEF Occupied, TypeOK
  <2> QED
    BY <2>1, <2>2
<1>2. /\ pc[s] = "entered" /\ pc' = [pc EXCEPT ![s] = "msgword"]
      /\ slot' = [slot EXCEPT ![s] = index]
      /\ ring' = [ring EXCEPT ![index] = [msg |-> local[s].msg, data |-> @.data]]
      /\ UNCHANGED <<index, queue, held, local, reg, fifo, heldMsg>>
  BY DEF CopyMsgWord
<1>3. \A u \in Senders \ {s} : pc'[u] = pc[u] /\ slot'[u] = slot[u] /\ ~InWindow(u)
  BY <1>1, <1>2 DEF Overlaps, TypeOK
<1>4. pc'[s] = "msgword" /\ slot'[s] = index /\ index \in Slots
  BY <1>2 DEF TypeOK
<1>5. ~Advancing /\ ~Advancing'
  BY <1>2, <1>3, <1>4 DEF Advancing, InWindow
<1>6. OneSender'
  BY <1>3, <1>4 DEF OneSender, InWindow
<1>7. Contiguous' /\ HeldPrecedes'
  BY <1>2, <1>5 DEF Sound, Contiguous, HeldPrecedes
<1>8. SendersAligned'
  <2>1. ring'[index].msg = local[s].msg
    BY <1>2, <1>4 DEF TypeOK
  <2> QED
    BY <1>1, <1>2, <1>3, <1>4, <2>1 DEF SendersAligned, InWindow, Occupied
<1>9. /\ \A k \in 1 .. Len(queue) : Carries(queue[k], fifo[k])'
      /\ (held # Null => Carries(held, heldMsg))'
  BY <1>1, <1>2, <1>5, WriteElsewhere
<1> QED
  BY <1>2, <1>6, <1>7, <1>8, <1>9 DEF Sound, Occupied

LEMMA SoundCopyDataWord ==
    ASSUME TypeOK, Sound, NEW s \in Senders, CopyDataWord(s)
    PROVE  Sound'
<1>1. /\ pc[s] = "msgword" /\ pc' = [pc EXCEPT ![s] = "dataword"]
      /\ ring' = [ring EXCEPT ![slot[s]] = [msg |-> @.msg, data |-> local[s].data]]
      /\ UNCHANGED <<index, queue, held, local, slot, reg, fifo, heldMsg>>
  BY DEF CopyDataWord, ghost
<1>2. slot[s] = index /\ Occupied < N /\ index \in Slots /\ ring[index].msg = local[s].msg
  BY <1>1 DEF Sound, SendersAligned, TypeOK
<1>3. \A u \in Senders \ {s} : pc'[u] = pc[u] /\ ~InWindow(u)
  BY <1>1 DEF Sound, OneSender, InWindow, TypeOK
<1>4. pc'[s] = "dataword"
  BY <1>1 DEF TypeOK
<1>5. ~Advancing /\ ~Advancing'
  BY <1>1, <1>3, <1>4 DEF Advancing, InWindow
<1>6. OneSender'
  BY <1>3, <1>4 DEF OneSender, InWindow
<1>7. Contiguous' /\ HeldPrecedes'
  BY <1>1, <1>5 DEF Sound, Contiguous, HeldPrecedes
<1>8. SendersAligned'
  <2>1. ring'[index].msg = local[s].msg /\ ring'[index].data = local[s].data
    BY <1>1, <1>2 DEF TypeOK
  <2> QED
    BY <1>1, <1>2, <1>3, <1>4, <2>1 DEF SendersAligned, InWindow, Occupied
<1>9. /\ \A k \in 1 .. Len(queue) : Carries(queue[k], fifo[k])'
      /\ (held # Null => Carries(held, heldMsg))'
  BY <1>1, <1>2, <1>5, WriteElsewhere
<1> QED
  BY <1>1, <1>2, <1>6, <1>7, <1>8, <1>9 DEF Sound, Occupied

LEMMA SoundPost ==
    ASSUME TypeOK, Sound, NEW s \in Senders, Post(s)
    PROVE  Sound'
<1> USE MailboxAssumption
<1>1. /\ pc[s] = "dataword" /\ pc' = [pc EXCEPT ![s] = "posted"]
      /\ UNCHANGED <<ring, index, held, local, slot, reg, heldMsg>>
  BY DEF Post
<1>2. /\ slot[s] = index /\ Occupied < N /\ index \in Slots /\ local[s] \in Posted
      /\ Carries(index, local[s])
  BY <1>1 DEF Sound, SendersAligned, TypeOK, Carries
<1>3. Len(queue) \in Nat /\ Len(queue) < N /\ Len(fifo) = Len(queue)
  BY <1>2 DEF TypeOK, Occupied
<1>4. queue' = Append(queue, index) /\ fifo' = Append(fifo, local[s])
  BY <1>2, <1>3 DEF Post
<1>5. /\ Len(queue') = Len(queue) + 1
      /\ \A k \in 1 .. Len(queue) : queue'[k] = queue[k]
      /\ queue'[Len(queue) + 1] = index
  BY <1>2, <1>4, AppendProperties DEF TypeOK
<1>6. /\ \A k \in 1 .. Len(queue) : fifo'[k] = fifo[k]
      /\ fifo'[Len(queue) + 1] = local[s]
  BY <1>2, <1>3, <1>4, AppendProperties DEF TypeOK
<1>7. \A u \in Senders \ {s} : pc'[u] = pc[u] /\ ~InWindow(u)
  BY <1>1 DEF Sound, OneSender, InWindow, TypeOK
<1>8. pc'[s] = "posted"
  BY <1>1 DEF TypeOK
<1>9. ~Advancing /\ Advancing'
  BY <1>1, <1>7, <1>8 DEF Advancing, InWindow
<1>10. OneSender'
  BY <1>7, <1>8 DEF OneSender, InWindow
<1>11. /\ \A k \in 1 .. Len(queue') : queue'[k] = Ahead(queue'[1], k - 1)
       /\ index = Ahead(queue'[1], Len(queue') - 1)
  <2>1. CASE queue = <<>>
    <3>1. Len(queue) = 0 /\ queue'[1] = index
      BY <2>1, <1>5
    <3> QED
      BY <3>1, <1>2, <1>5, AheadStep
  <2>2. CASE queue # <<>>
    <3>1. Len(queue) >= 1 /\ queue'[1] = queue[1]
      BY <2>2, <1>3, <1>5 DEF TypeOK
    <3>2. index = Ahead(queue[1], Len(queue))
      BY <2>2, <1>9 DEF Sound, Contiguous
    <3>3. \A k \in 1 .. Len(queue) : queue'[k] = Ahead(queue'[1], k - 1)
      BY <3>1, <1>5 DEF Sound, Contiguous
    <3> QED
      BY <3>1, <3>2, <3>3, <1>3, <1>5
  <2> QED
    BY <2>1, <2>2
<1>12. Contiguous'
  BY <1>1, <1>9, <1>11 DEF Contiguous, Ahead
<1>13. HeldPrecedes'
  <2>1. queue' # <<>>
    BY <1>3, <1>5
  <2>2. held # Null => queue'[1] = NextSlot(held)
    <3>1. CASE queue = <<>>
      BY <3>1, <1>5, <1>9 DEF Sound, HeldPrecedes
    <3>2. CASE queue # <<>>
      BY <3>2, <1>3, <1>5 DEF Sound, HeldPrecedes, TypeOK
    <3> QED
      BY <3>1, <3>2
  <2> QED
    BY <1>1, <2>1, <2>2 DEF HeldPrecedes, NextSlot
<1>14. SendersAligned'
  BY <1>7, <1>8 DEF SendersAligned, InWindow
<1>15. \A k \in 1 .. Len(queue') : Carries(queue'[k], fifo'[k])
  BY <1>2, <1>3, <1>5, <1>6 DEF Sound
<1>16. Occupied' <= N
  BY <1>1, <1>2, <1>3, <1>5 DEF Occupied
<1> QED
  BY <1>1, <1>10, <1>12, <1>13, <1>14, <1>15, <1>16 DEF Sound, Carries

LEMMA SoundLoadIndex ==
    ASSUME TypeOK, Sound, NEW s \in Senders, LoadIndex(s)
    PROVE  Sound'
<1>1. /\ pc[s] = "posted" /\ pc' = [pc EXCEPT ![s] = "loaded"]
      /\ reg' = [reg EXCEPT ![s] = index]
      /\ UNCHANGED <<ring, index, queue, held, local, slot, fifo, heldMsg>>
  BY DEF LoadIndex, ghost
<1>2. \A u \in Senders \ {s} : pc'[u] = pc[u] /\ ~InWindow(u)
  BY <1>1 DEF Sound, OneSender, InWindow, TypeOK
<1>3. pc'[s] = "loaded" /\ reg'[s] = index
  BY <1>1 DEF TypeOK
<1>4. Advancing /\ Advancing'
  BY <1>1, <1>3 DEF Advancing
<1>5. OneSender'
  BY <1>2, <1>3 DEF OneSender, InWindow
<1>6. Contiguous' /\ HeldPrecedes'
  BY <1>1, <1>4 DEF Sound, Contiguous, HeldPrecedes
<1>7. SendersAligned'
  BY <1>1, <1>2, <1>3 DEF SendersAligned, InWindow
<1> QED
  BY <1>1, <1>5, <1>6, <1>7 DEF Sound, Occupied, Carries

LEMMA SoundStoreIndex ==
    ASSUME TypeOK, Sound, NEW s \in Senders, StoreIndex(s)
    PROVE  Sound'
<1> USE MailboxAssumption
<1>1. /\ pc[s] = "loaded" /\ pc' = [pc EXCEPT ![s] = "idle"]
      /\ index' = NextSlot(reg[s])
      /\ UNCHANGED <<ring, queue, held, fifo, heldMsg>>
  BY DEF StoreIndex
<1>2. reg[s] = index /\ index \in Slots
  BY <1>1 DEF Sound, SendersAligned, TypeOK
<1>3. \A u \in Senders \ {s} : pc'[u] = pc[u] /\ ~InWindow(u)
  BY <1>1 DEF Sound, OneSender, InWindow, TypeOK
<1>4. pc'[s] = "idle"
  BY <1>1 DEF TypeOK
<1>5. Advancing /\ ~Advancing'
  BY <1>1, <1>3, <1>4 DEF Advancing, InWindow
<1>6. OneSender'
  BY <1>3, <1>4 DEF OneSender, InWindow
<1>7. queue # <<>> => index' = Ahead(queue[1], Len(queue))
  <2>1. SUFFICES ASSUME queue # <<>>
                 PROVE  index' = Ahead(queue[1], Len(queue))
    OBVIOUS
  <2>2. Len(queue) - 1 \in 0 .. N - 1 /\ queue[1] \in Slots
    BY <2>1 DEF TypeOK
  <2>3. index = Ahead(queue[1], Len(queue) - 1)
    BY <2>1, <1>5 DEF Sound, Contiguous
  <2>4. Ahead(queue[1], (Len(queue) - 1) + 1) = NextSlot(index)
    BY <2>2, <2>3, AheadStep
  <2>5. (Len(queue) - 1) + 1 = Len(queue)
    BY DEF TypeOK
  <2> QED
    BY <1>1, <1>2, <2>4, <2>5
<1>8. Contiguous'
  BY <1>1, <1>5, <1>7 DEF Sound, Contiguous, Ahead
<1>9. HeldPrecedes'
  BY <1>1, <1>2, <1>5 DEF Sound, HeldPrecedes, NextSlot
<1>10. SendersAligned'
  BY <1>3, <1>4 DEF SendersAligned, InWindow
<1> QED
  BY <1>1, <1>6, <1>8, <1>9, <1>10 DEF Sound, Occupied, Carries

LEMMA SoundReceive ==
    ASSUME TypeOK, Sound, Receive
    PROVE  Sound'
<1> USE MailboxAssumption
<1>1. /\ queue # <<>> /\ held' = queue[1] /\ queue' = Tail(queue)
      /\ heldMsg' = fifo[1] /\ fifo' = Tail(fifo)
      /\ UNCHANGED <<ring, index, pc, local, slot, reg>>
  BY DEF Receive
<1>2. /\ Len(queue) \in Nat /\ Len(queue) >= 1 /\ Len(queue) <= N
      /\ fifo # <<>> /\ queue[1] \in Slots /\ Len(fifo) = Len(queue)
  BY <1>1 DEF TypeOK
<1>3. /\ Len(queue') = Len(queue) - 1
      /\ \A k \in 1 .. Len(queue') : queue'[k] = queue[k + 1]
  BY <1>1, HeadTailProperties DEF TypeOK
<1>4. queue' = <<>> <=> Len(queue') = 0
  <2>1. queue' \in Seq(Slots)
    BY <1>1, HeadTailProperties DEF TypeOK
  <2> QED
    BY <2>1
<1>5. \A k \in 1 .. Len(queue') : fifo'[k] = fifo[k + 1]
  BY <1>1, <1>2, <1>3, HeadTailProperties DEF TypeOK
<1>6. Advancing' <=> Advancing
  BY <1>1 DEF Advancing
<1>7. OneSender'
  BY <1>1 DEF Sound, OneSender, InWindow
<1>8. queue' # <<>> => Len(queue) >= 2 /\ queue'[1] = NextSlot(queue[1])
  <2>1. SUFFICES ASSUME queue' # <<>>
                 PROVE  Len(queue) >= 2 /\ queue'[1] = NextSlot(queue[1])
    OBVIOUS
  <2>2. Len(queue) >= 2
    BY <2>1, <1>2, <1>3, <1>4
  <2>3. queue'[1] = queue[2] /\ queue[2] = Ahead(queue[1], 1)
    BY <2>2, <1>2, <1>3 DEF Sound, Contiguous
  <2> QED
    BY <2>2, <2>3, <1>2, AheadStep
<1>9. ASSUME queue' # <<>>, NEW d \in 0 .. Len(queue) - 1
      PROVE  Ahead(queue'[1], d) = Ahead(queue[1], d + 1)
  <2>1. d \in 0 .. N - 1
    BY <1>2
  <2> QED
    BY <2>1, <1>2, <1>8, <1>9, AheadStep
<1>10. \A k \in 1 .. Len(queue') : queue'[k] = Ahead(queue'[1], k - 1)
  <2> SUFFICES ASSUME NEW k \in 1 .. Len(queue')
               PROVE  queue'[k] = Ahead(queue'[1], k - 1)
    OBVIOUS
  <2>1. queue' # <<>> /\ k - 1 \in 0 .. Len(queue) - 1 /\ k + 1 \in 1 .. Len(queue)
    BY <1>2, <1>3, <1>4
  <2>2. queue'[k] = Ahead(queue[1], (k + 1) - 1)
    BY <2>1, <1>3 DEF Sound, Contiguous
  <2>3. (k + 1) - 1 = (k - 1) + 1
    BY <1>2, <1>3
  <2> QED
    BY <2>1, <2>2, <2>3, <1>9
<1>11. queue' # <<>> => index' = IF Advancing THEN Ahead(queue'[1], Len(queue') - 1)
                                              ELSE Ahead(queue'[1], Len(queue'))
  <2>1. SUFFICES ASSUME queue' # <<>>
                 PROVE  index = IF Advancing THEN Ahead(queue'[1], Len(queue') - 1)
                                             ELSE Ahead(queue'[1], Len(queue'))
    BY <1>1
  <2>2. /\ Len(queue') \in 0 .. Len(queue) - 1 /\ Len(queue') - 1 \in 0 .. Len(queue) - 1
        /\ Len(queue') + 1 = Len(queue) /\ (Len(queue') - 1) + 1 = Len(queue) - 1
    BY <2>1, <1>2, <1>3, <1>8
  <2>3. /\ Ahead(queue'[1], Len(queue')) = Ahead(queue[1], Len(queue))
        /\ Ahead(queue'[1], Len(queue') - 1) = Ahead(queue[1], Len(queue) - 1)
    <3>1. Ahead(queue'[1], Len(queue')) = Ahead(queue[1], Len(queue') + 1)
      BY <2>1, <2>2, <1>9
    <3>2. Ahead(queue'[1], Len(queue') - 1) = Ahead(queue[1], (Len(queue') - 1) + 1)
      BY <2>1, <2>2, <1>9
    <3> QED
      BY <3>1, <3>2, <2>2
  <2> QED
    BY <2>3, <1>1 DEF Sound, Contiguous
<1>12. Contiguous'
  BY <1>6, <1>10, <1>11 DEF Contiguous, Ahead
<1>13. HeldPrecedes'
  <2>1. CASE queue' # <<>>
    BY <2>1, <1>1, <1>8 DEF HeldPrecedes, NextSlot
  <2>2. CASE queue' = <<>>
    <3>1. Len(queue) = 1
      <4>1. Len(queue') = 0 /\ Len(queue') = Len(queue) - 1 /\ Len(queue) \in Nat
        BY <2>2, <1>2, <1>3, <1>4
      <4>2. \A a, b \in Int : a = 0 /\ a = b - 1 => b = 1
        OBVIOUS
      <4>3. Len(queue') \in Int
        BY <4>1
      <4> QED
        BY <4>1, <4>2, <4>3
    <3>2. index = IF Advancing THEN Ahead(queue[1], 0) ELSE Ahead(queue[1], 1)
      BY <3>1, <1>1 DEF Sound, Contiguous
    <3>3. index = IF Advancing THEN queue[1] ELSE NextSlot(queue[1])
      BY <3>2, <1>2, AheadStep
    <3> QED
      BY <2>2, <3>3, <1>1, <1>6 DEF HeldPrecedes, NextSlot
  <2> QED
    BY <2>1, <2>2
<1>14. Occupied' <= Occupied /\ Occupied' \in Nat /\ Occupied \in Nat
  <2>1. Occupied' <= Len(queue) /\ Occupied' \in Nat
    BY <1>2, <1>3 DEF Occupied
  <2>2. Len(queue) <= Occupied /\ Occupied \in Nat
    BY <1>2 DEF Occupied
  <2> QED
    BY <2>1, <2>2, <1>2
<1>15. SendersAligned'
  <2>1. Occupied < N => Occupied' < N
    BY <1>14
  <2> QED
    BY <1>1, <2>1 DEF Sound, SendersAligned
<1>16. Occupied' <= N
  BY <1>14 DEF Sound
<1>17. \A k \in 1 .. Len(queue') : Carries(queue'[k], fifo'[k])
  <2>1. \A k \in 1 .. Len(queue') : k + 1 \in 1 .. Len(queue)
    BY <1>2, <1>3
  <2> QED
    BY <2>1, <1>3, <1>5 DEF Sound
<1>18. Carries(held', heldMsg')
  BY <1>1, <1>2 DEF Sound
<1> QED
  BY <1>1, <1>7, <1>12, <1>13, <1>15, <1>16, <1>17, <1>18 DEF Sound, Carries

LEMMA SoundReceiveNothing ==
    ASSUME TypeOK, Sound, ReceiveNothing
    PROVE  Sound'
<1>1. /\ queue = <<>> /\ held' = Null /\ Len(queue) = 0
      /\ UNCHANGED <<ring, index, queue, pc, local, slot, reg, fifo>>
  BY DEF ReceiveNothing
<1>2. Occupied' = 0 /\ 0 < N
  BY <1>1, MailboxAssumption DEF Occupied
<1>3. SendersAligned' /\ OneSender' /\ Contiguous'
  BY <1>1, <1>2, MailboxAssumption
     DEF Sound, SendersAligned, OneSender, InWindow, Contiguous
<1> QED
  BY <1>1, <1>2, <1>3, MailboxAssumption DEF Sound, HeldPrecedes

\* Sound is kept by every step that leaves the mailbox untainted.
LEMMA MailboxStep == MailboxInv /\ [Next]_vars => MailboxInv'
<1> SUFFICES ASSUME MailboxInv, [Next]_vars
             PROVE  MailboxInv'
  OBVIOUS
<1>1. TypeOK /\ TypeOK'
  BY TypeStep DEF MailboxInv
<1> SUFFICES ASSUME ~tainted'
             PROVE  Sound'
  BY <1>1 DEF MailboxInv
<1>2. CASE tainted
  <2>1. Quiet(queue, held, pc)'
    <3>1. ASSUME NEW s \in Senders, NEW t \in MaySend[s], NEW p \in Payloads,
                 EnterSend(s, t, p)
          PROVE  FALSE
      BY <1>2, <3>1 DEF EnterSend
    <3>2. ASSUME NEW s \in Senders, CopyMsgWord(s)
          PROVE  FALSE
      BY <1>2, <3>2 DEF CopyMsgWord
    <3>3. ASSUME NEW s \in Senders, CopyDataWord(s) \/ Post(s) \/ LoadIndex(s)
          PROVE  FALSE
      BY <1>2, <3>3 DEF CopyDataWord, Post, LoadIndex, ghost
    <3>4. ASSUME NEW s \in Senders, StoreIndex(s)
          PROVE  Quiet(queue', held', pc')
      BY <1>2, <3>4 DEF StoreIndex
    <3>5. ASSUME Receive \/ UNCHANGED vars
          PROVE  FALSE
      BY <1>2, <3>5 DEF Receive, vars
    <3>6. ASSUME ReceiveNothing
          PROVE  Quiet(queue', held', pc')
      BY <1>2, <3>6 DEF ReceiveNothing
    <3> QED
      BY <3>1, <3>2, <3>3, <3>4, <3>5, <3>6 DEF Next, SendStep, Quiet
  <2> QED
    BY <1>1, <2>1, SoundWhenQuiet, PTL
<1>3. CASE ~tainted
  <2>1. Sound
    BY <1>3 DEF MailboxInv
  <2>2. CASE UNCHANGED vars
    BY <2>1, <2>2
       DEF vars, Sound, OneSender, InWindow, Contiguous, HeldPrecedes, Advancing,
           SendersAligned, Occupied, Carries
  <2> QED
    BY <1>1, <2>1, <2>2, SoundEnterSend, SoundCopyMsgWord, SoundCopyDataWord, SoundPost,
       SoundLoadIndex, SoundStoreIndex, SoundReceive, SoundReceiveNothing
       DEF Next, SendStep
<1> QED
  BY <1>2, <1>3

\* The inductive invariant: the unread slots and the one being handled are
\* consecutive, the index is where the senders expect it, one sender at a time.
THEOREM MailboxInvariant == Spec => []MailboxInv
<1>1. Init => MailboxInv
  BY TypeInit, SoundInit DEF MailboxInv
<1> QED
  BY <1>1, MailboxStep, PTL DEF Spec

\* What was posted is what the receiver finds under the pointer, for every
\* ring length and every number of interrupt handlers and tasks that send,
\* as long as sends do not overlap or run out of slots (inttsk_mgs.c:72-195).
THEOREM MessagesSurvive == Spec => []MailboxIntact
<1>1. MailboxInv => MailboxIntact
  BY DEF MailboxInv, Sound, MailboxIntact
<1> QED
  BY <1>1, MailboxInvariant, PTL

LEMMA OwnSlot == MailboxInv => WriterOwnsSlot
<1> SUFFICES ASSUME MailboxInv, ~tainted
             PROVE  WriterOwnsSlot
  BY DEF WriterOwnsSlot
<1> USE MailboxAssumption
<1>1. TypeOK /\ Sound
  BY DEF MailboxInv
<1>2. Len(queue) \in Nat /\ Len(queue) <= N /\ (held # Null => Len(queue) + 1 <= N)
  BY <1>1 DEF TypeOK, Sound, Occupied
<1>3. ASSUME NEW s \in Senders, pc[s] \in {"msgword", "dataword"}
      PROVE  slot[s] # held /\ \A k \in 1 .. Len(queue) : slot[s] # queue[k]
  <2>1. slot[s] = index /\ Occupied < N
    BY <1>1, <1>3 DEF Sound, SendersAligned
  <2>2. ~Advancing
    BY <1>1, <1>3 DEF Sound, OneSender, InWindow, Advancing
  <2> QED
    BY <1>1, <2>1, <2>2, IndexFree
<1>4. ASSUME NEW j \in 1 .. Len(queue), NEW k \in 1 .. Len(queue), j < k
      PROVE  queue[j] # queue[k]
  <2>1. /\ queue[j] = Ahead(queue[1], j - 1) /\ queue[k] = Ahead(queue[1], k - 1)
        /\ queue[1] \in Slots
    BY <1>1, <1>2 DEF Sound, Contiguous, TypeOK
  <2>2. j - 1 \in 0 .. N /\ k - 1 \in 0 .. N /\ j - 1 < k - 1 /\ (k - 1) - (j - 1) < N
    BY <1>2, <1>4
  <2> QED
    BY <2>1, <2>2, AheadDistinct
<1>5. \A j, k \in 1 .. Len(queue) : j # k => queue[j] # queue[k]
  <2> SUFFICES ASSUME NEW j \in 1 .. Len(queue), NEW k \in 1 .. Len(queue), j # k
               PROVE  queue[j] # queue[k]
    OBVIOUS
  <2>1. j < k \/ k < j
    BY <1>2
  <2> QED
    BY <2>1, <1>4
<1>6. ASSUME NEW k \in 1 .. Len(queue)
      PROVE  queue[k] # held
  <2>1. CASE held = Null
    BY <2>1, <1>1 DEF TypeOK, Slots
  <2>2. CASE held # Null
    <3>1. /\ queue[1] = NextSlot(held) /\ held \in Slots /\ queue[1] \in Slots
          /\ queue[k] = Ahead(queue[1], k - 1)
      BY <1>1, <1>2, <2>2 DEF Sound, HeldPrecedes, Contiguous, TypeOK
    <3>2. k - 1 \in 0 .. N - 1 /\ k \in 0 .. N /\ (k - 1) + 1 = k /\ 0 < k /\ k - 0 < N
      BY <1>2, <2>2
    <3>3. queue[k] = Ahead(held, k) /\ held = Ahead(held, 0)
      <4>1. Ahead(NextSlot(held), k - 1) = Ahead(held, (k - 1) + 1)
        BY <3>1, <3>2, AheadStep
      <4>2. held = Ahead(held, 0)
        BY <3>1, AheadStep
      <4> QED
        BY <3>1, <3>2, <4>1, <4>2
    <3> QED
      BY <3>1, <3>2, <3>3, AheadDistinct
  <2> QED
    BY <2>1, <2>2
<1> QED
  BY <1>3, <1>5, <1>6 DEF WriterOwnsSlot

\* A sender never fills a slot that is queued or being handled, and no slot is
\* queued twice, under the same conditions.
THEOREM SlotsNotShared == Spec => []WriterOwnsSlot
<1> QED
  BY OwnSlot, MailboxInvariant, PTL
-----------------------------------------------------------------------------

LEMMA PayloadInit == Init => NewestOfItsRing /\ PayloadsFresh
<1> SUFFICES ASSUME Init
             PROVE  NewestOfItsRing /\ PayloadsFresh
  OBVIOUS
<1>1. \A s \in Senders : pc[s] = "idle"
  BY DEF Init
<1>2. Len(fifo) = 0 /\ held = Null
  BY DEF Init
<1> QED
  BY <1>1, <1>2 DEF NewestOfItsRing, Carrying, PayloadsFresh

\* A pointer is a ring and a slot of it.
LEMMA PointerParts ==
    ASSUME NEW m \in Posted, m.data # Null
    PROVE  m.data[1] \in DataRings /\ m.data[2] \in Slots
  BY DEF Posted, Pointers

\* While nobody is sending, nothing is on its way to the queue.
LEMMA OneWriter ==
    ASSUME TypeOK, NewestOfItsRing, NEW s \in Senders, pc[s] = "idle",
           NEW t \in MaySend[s], RingOf[t] # NoRing
    PROVE  ~Turned(RingOf[t])
<1> SUFFICES ASSUME NEW u \in Senders, Carrying(u), local[u].data[1] = RingOf[t]
             PROVE  FALSE
  BY DEF Turned
<1>1. PICK v \in MaySend[u] : RingOf[v] = RingOf[t]
  BY DEF NewestOfItsRing
<1>2. u = s
  BY <1>1, MailboxAssumption
<1> QED
  BY <1>2 DEF Carrying

\* What keeps the payload rings, their indexes and the set of sends under way
\* keeps the age of every message.
LEMMA FreshKept ==
    ASSUME NEW m, NEW b, Fresh(m, b),
           dindex' = dindex, \A r : Turned(r)' <=> Turned(r)
    PROVE  m.data # Null =>
              \E a \in 1 .. N :
                  /\ a <= IF Turned(m.data[1])' THEN b + 1 ELSE b
                  /\ dindex'[m.data[1]] = Ahead(m.data[2], a)
  BY DEF Fresh

\* A payload stored while a slot of the ring is free lands on a slot none of
\* the messages points to, and every message of its ring becomes one older.
LEMMA Outdated ==
    ASSUME TypeOK, NewestOfItsRing, NEW s \in Senders, pc[s] = "idle",
           NEW t \in MaySend[s], RingOf[t] # NoRing, NEW p \in Payloads,
           StorePayload(RingOf[t], p),
           \A q : q # RingOf[t] => (Turned(q)' <=> Turned(q)),
           Turned(RingOf[t])',
           NEW m \in Posted, NEW b \in 1 .. N - 1, Fresh(m, b), Stored(m)
    PROVE  /\ m.data # Null =>
                \E a \in 1 .. N :
                    /\ a <= IF Turned(m.data[1])' THEN b + 1 ELSE b
                    /\ dindex'[m.data[1]] = Ahead(m.data[2], a)
           /\ m.payload = IF m.data = Null THEN Null
                          ELSE drings'[m.data[1]][m.data[2]]
<1> USE MailboxAssumption
<1>1. CASE m.data = Null
  BY <1>1 DEF Stored
<1>2. CASE m.data # Null
  <2> DEFINE r == m.data[1]
             i == m.data[2]
             w == RingOf[t]
  <2>1. r \in DataRings /\ i \in Slots /\ w \in DataRings
    BY <1>2, PointerParts
  <2>2. PICK a \in 1 .. N : /\ a <= IF Turned(r) THEN b + 1 ELSE b
                            /\ dindex[r] = Ahead(i, a)
    BY <1>2 DEF Fresh
  <2>3. /\ dindex' = [dindex EXCEPT ![w] = NextSlot(dindex[w])]
        /\ drings' = [drings EXCEPT ![w] = [drings[w] EXCEPT ![dindex[w]] = p]]
    BY <2>1 DEF StorePayload, TypeOK
  <2>4. m.payload = drings[r][i]
    BY <1>2 DEF Stored
  <2>5. Turned(w)' /\ (r # w => (Turned(r)' <=> Turned(r)))
    OBVIOUS
  <2>6. ~Turned(w)
    BY OneWriter
  <2> HIDE DEF r, i, w
  <2>7. CASE r # w
    <3>1. dindex'[r] = dindex[r] /\ drings'[r] = drings[r]
      BY <2>1, <2>3, <2>7 DEF TypeOK
    <3>2. /\ a <= IF Turned(r)' THEN b + 1 ELSE b
          /\ dindex'[r] = Ahead(i, a)
      BY <2>2, <2>5, <2>7, <3>1
    <3>3. m.payload = drings'[r][i]
      BY <2>4, <3>1
    <3> QED
      BY <1>2, <3>2, <3>3 DEF r, i
  <2>8. CASE r = w
    <3>1. a <= b /\ a \in 1 .. N - 1 /\ a + 1 \in 1 .. N /\ a + 1 <= b + 1
      <4>1. a <= b
        BY <2>2, <2>6, <2>8
      <4> QED
        BY <4>1
    <3>2. dindex'[r] = NextSlot(Ahead(i, a)) /\ dindex[w] = Ahead(i, a)
      BY <2>1, <2>2, <2>3, <2>8 DEF TypeOK
    <3>3. NextSlot(Ahead(i, a)) = Ahead(i, a + 1)
      <4>1. a \in 0 .. N - 1
        BY <3>1
      <4> QED
        BY <2>1, <4>1, AheadStep
    <3>4. i # dindex[w]
      <4>1. Ahead(i, 0) = i
        BY <2>1 DEF Ahead, Slots
      <4>2. Ahead(i, 0) # Ahead(i, a)
        BY <2>1, <3>1, AheadDistinct
      <4> QED
        BY <3>2, <4>1, <4>2
    <3>5. drings'[r][i] = drings[r][i]
      <4>1. drings[w] \in [Slots -> Payloads \cup {Null}] /\ drings'[w] = [drings[w] EXCEPT ![dindex[w]] = p]
        BY <2>1, <2>3 DEF TypeOK
      <4> QED
        BY <2>1, <2>8, <3>4, <4>1
    <3>6. /\ a + 1 <= IF Turned(r)' THEN b + 1 ELSE b
          /\ dindex'[r] = Ahead(i, a + 1)
      BY <2>5, <2>8, <3>1, <3>2, <3>3
    <3> QED
      BY <1>2, <2>4, <3>1, <3>5, <3>6 DEF r, i
  <2> QED
    BY <2>7, <2>8
<1> QED
  BY <1>1, <1>2

\* Every step keeps NewestOfItsRing, tainted or not: a payload ring has one
\* writer.
LEMMA NewestEnterSend ==
    ASSUME TypeOK, NewestOfItsRing, NEW s \in Senders, NEW t \in MaySend[s],
           NEW p \in Payloads, EnterSend(s, t, p)
    PROVE  NewestOfItsRing'
<1> USE MailboxAssumption
<1>1. pc[s] = "idle" /\ pc' = [pc EXCEPT ![s] = "entered"]
  BY DEF EnterSend
<1>2. \A u \in Senders \ {s} : local'[u] = local[u] /\ pc'[u] = pc[u]
  BY DEF EnterSend, TypeOK
<1>3. CASE RingOf[t] = NoRing
  <2>1. /\ local'[s] = [msg |-> t, data |-> Null, payload |-> Null]
        /\ UNCHANGED <<drings, dindex>>
    BY <1>3 DEF EnterSend, TypeOK
  <2> QED
    BY <1>2, <2>1 DEF NewestOfItsRing, Carrying, Stored
<1>4. CASE RingOf[t] # NoRing
  <2> DEFINE w == RingOf[t]
             j == dindex[w]
  <2>1. w \in DataRings /\ j \in Slots
    BY <1>4 DEF TypeOK
  <2>2. local'[s] = [msg |-> t, data |-> <<w, j>>, payload |-> p]
    BY <1>4 DEF EnterSend, TypeOK
  <2>3. /\ dindex' = [dindex EXCEPT ![w] = NextSlot(j)]
        /\ drings' = [drings EXCEPT ![w] = [drings[w] EXCEPT ![j] = p]]
    BY <1>4, <2>1 DEF EnterSend, StorePayload, TypeOK
  <2>4. ~Turned(w)
    BY <1>1, <1>4, OneWriter
  <2> HIDE DEF w, j
  <2>5. /\ dindex'[w] = NextSlot(j) /\ drings'[w][j] = p
        /\ \A r \in DataRings \ {w} : dindex'[r] = dindex[r] /\ drings'[r] = drings[r]
    BY <2>1, <2>3 DEF TypeOK
  <2>6. /\ Stored(local[s])'
        /\ \E v \in MaySend[s] : RingOf[v] = local'[s].data[1]
        /\ dindex'[local'[s].data[1]] = NextSlot(local'[s].data[2])
    <3>1. <<w, j>> # Null
      BY <2>1 DEF Pointers
    <3>2. local'[s].data = <<w, j>> /\ local'[s].payload = p
      BY <2>2
    <3>3. local'[s].data[1] = w /\ local'[s].data[2] = j
      BY <3>2
    <3>4. RingOf[t] = w
      BY DEF w
    <3> QED
      BY <2>5, <3>1, <3>2, <3>3, <3>4 DEF Stored
  <2>7. ASSUME NEW u \in Senders \ {s}, pc[u] \in {"entered", "msgword", "dataword"}
        PROVE  /\ Stored(local[u])'
               /\ Carrying(u) =>
                     /\ \E v \in MaySend[u] : RingOf[v] = local[u].data[1]
                     /\ dindex'[local[u].data[1]] = NextSlot(local[u].data[2])
    <3>1. local[u] \in Posted /\ Stored(local[u])
      BY <2>7 DEF TypeOK, NewestOfItsRing
    <3>2. CASE local[u].data = Null
      BY <1>2, <3>1, <3>2 DEF Stored, Carrying
    <3>3. CASE local[u].data # Null
      <4>1. Carrying(u)
        BY <2>7, <3>3 DEF Carrying
      <4>2. local[u].data[1] \in DataRings \ {w}
        BY <2>4, <3>1, <3>3, <4>1, PointerParts DEF Turned
      <4>3. /\ dindex'[local[u].data[1]] = dindex[local[u].data[1]]
            /\ drings'[local[u].data[1]] = drings[local[u].data[1]]
        BY <2>5, <4>2
      <4> QED
        BY <1>2, <3>1, <3>3, <4>1, <4>3 DEF Stored, NewestOfItsRing
    <3> QED
      BY <3>2, <3>3
  <2> QED
    BY <1>2, <2>6, <2>7 DEF NewestOfItsRing, Carrying
<1> QED
  BY <1>3, <1>4

LEMMA NewestStep == TypeOK /\ NewestOfItsRing /\ [Next]_vars => NewestOfItsRing'
<1> SUFFICES ASSUME TypeOK, NewestOfItsRing, [Next]_vars
             PROVE  NewestOfItsRing'
  OBVIOUS
<1>1. ASSUME NEW s \in Senders, CopyMsgWord(s) \/ CopyDataWord(s)
      PROVE  NewestOfItsRing'
  <2>1. /\ pc[s] \in {"entered", "msgword"} /\ pc'[s] \in {"msgword", "dataword"}
        /\ \A u \in Senders \ {s} : pc'[u] = pc[u]
        /\ UNCHANGED <<drings, dindex, local>>
    BY <1>1 DEF CopyMsgWord, CopyDataWord, TypeOK
  <2> QED
    BY <2>1 DEF NewestOfItsRing, Carrying, Stored
<1>2. ASSUME NEW s \in Senders, Post(s) \/ LoadIndex(s) \/ StoreIndex(s)
      PROVE  NewestOfItsRing'
  <2>1. /\ pc'[s] \in {"posted", "loaded", "idle"}
        /\ \A u \in Senders \ {s} : pc'[u] = pc[u] /\ local'[u] = local[u]
        /\ UNCHANGED <<drings, dindex>>
    BY <1>2 DEF Post, LoadIndex, StoreIndex, TypeOK
  <2> QED
    BY <2>1 DEF NewestOfItsRing, Carrying, Stored
<1>3. CASE Receive \/ ReceiveNothing \/ UNCHANGED vars
  <2>1. UNCHANGED <<drings, dindex, pc, local>>
    BY <1>3 DEF Receive, ReceiveNothing, vars
  <2> QED
    BY <2>1 DEF NewestOfItsRing, Carrying, Stored
<1> QED
  BY <1>1, <1>2, <1>3, NewestEnterSend DEF Next, SendStep

-----------------------------------------------------------------------------

\* A step that moves neither messages nor payloads.
LEMMA FreshUnmoved ==
    ASSUME PayloadsFresh, UNCHANGED <<drings, dindex, fifo, held, heldMsg>>,
           \A r : Turned(r)' <=> Turned(r)
    PROVE  PayloadsFresh'
<1>1. \A m, b : Fresh(m, b) =>
         (m.data # Null =>
              \E a \in 1 .. N :
                  /\ a <= IF Turned(m.data[1])' THEN b + 1 ELSE b
                  /\ dindex'[m.data[1]] = Ahead(m.data[2], a))
  BY FreshKept
<1>2. \A k \in 1 .. Len(fifo) : (Fresh(fifo[k], Len(fifo) - k + 1) /\ Stored(fifo[k]))'
  BY <1>1 DEF PayloadsFresh, Fresh, Stored
<1>3. (held # Null => Fresh(heldMsg, Len(fifo) + 1) /\ Stored(heldMsg))'
  BY <1>1 DEF PayloadsFresh, Fresh, Stored
<1> QED
  BY <1>2, <1>3 DEF PayloadsFresh

LEMMA FreshEnterSend ==
    ASSUME TypeOK, NewestOfItsRing, PayloadsFresh, NEW s \in Senders,
           NEW t \in MaySend[s], NEW p \in Payloads, EnterSend(s, t, p), ~tainted'
    PROVE  PayloadsFresh'
<1> USE MailboxAssumption
<1>1. pc[s] = "idle" /\ pc'[s] = "entered" /\ UNCHANGED <<queue, held, fifo, heldMsg>>
  BY DEF EnterSend, TypeOK
<1>2. \A u \in Senders \ {s} : local'[u] = local[u] /\ pc'[u] = pc[u]
  BY DEF EnterSend, TypeOK
<1>3. ~Carrying(s) /\ \A u \in Senders \ {s} : Carrying(u)' <=> Carrying(u)
  BY <1>1, <1>2 DEF Carrying
<1>4. CASE RingOf[t] = NoRing
  <2>1. local'[s].data = Null /\ UNCHANGED <<drings, dindex>>
    BY <1>4 DEF EnterSend, TypeOK
  <2>2. ~Carrying(s)'
    BY <2>1 DEF Carrying
  <2>3. \A r : Turned(r)' <=> Turned(r)
    BY <1>2, <1>3, <2>2 DEF Turned
  <2> QED
    BY <1>1, <2>1, <2>3, FreshUnmoved
<1>5. CASE RingOf[t] # NoRing
  <2> DEFINE w == RingOf[t]
  <2>1. /\ StorePayload(w, p) /\ Occupied < N /\ Len(fifo) = Len(queue)
        /\ local'[s].data = <<w, dindex[w]>>
    <3>1. StorePayload(w, p) /\ ~(Occupied >= N)
      BY <1>5, Zenon DEF EnterSend
    <3>3. local'[s].data = <<w, dindex[w]>>
      BY <1>5 DEF EnterSend, TypeOK
    <3>2. Occupied \in Nat /\ N \in Nat
      BY DEF Occupied, TypeOK
    <3> QED
      BY <3>1, <3>2, <3>3 DEF TypeOK
  <2>2. w \in DataRings /\ dindex[w] \in Slots
    BY <1>5 DEF TypeOK
  <2>3. local'[s].data # Null /\ local'[s].data[1] = w
    BY <2>1, <2>2 DEF Pointers
  <2>4. Turned(w)' /\ \A q : q # w => (Turned(q)' <=> Turned(q))
    <3>1. Carrying(s)'
      BY <1>1, <2>3 DEF Carrying
    <3> QED
      BY <1>2, <1>3, <2>3, <3>1 DEF Turned
  <2>5. \A k \in 1 .. Len(fifo) : (Fresh(fifo[k], Len(fifo) - k + 1) /\ Stored(fifo[k]))'
    <3> SUFFICES ASSUME NEW k \in 1 .. Len(fifo)
                 PROVE  (Fresh(fifo[k], Len(fifo) - k + 1) /\ Stored(fifo[k]))'
      BY <1>1
    <3>1. PICK m \in Posted : m = fifo[k]
      BY DEF TypeOK
    <3>2. PICK b \in 1 .. N - 1 : b = Len(fifo) - k + 1
      <4>1. Len(queue) <= Occupied /\ Len(queue) \in Nat /\ Occupied \in Nat
        BY DEF Occupied, TypeOK
      <4>2. Len(fifo) \in Nat /\ Len(fifo) < N
        BY <2>1, <4>1
      <4>3. Len(fifo) - k + 1 \in 1 .. N - 1
        BY <4>2
      <4> QED
        BY <4>3
    <3>3. Fresh(m, b) /\ Stored(m)
      BY <3>1, <3>2 DEF PayloadsFresh
    <3>4. /\ m.data # Null =>
                \E a \in 1 .. N :
                    /\ a <= IF Turned(m.data[1])' THEN b + 1 ELSE b
                    /\ dindex'[m.data[1]] = Ahead(m.data[2], a)
          /\ m.payload = IF m.data = Null THEN Null
                         ELSE drings'[m.data[1]][m.data[2]]
      BY <1>1, <1>5, <2>1, <2>4, <3>3, Outdated
    <3>5. fifo'[k] = m /\ Len(fifo') - k + 1 = b
      BY <1>1, <3>1, <3>2
    <3> QED
      BY <3>4, <3>5 DEF Fresh, Stored
  <2>6. (held # Null => Fresh(heldMsg, Len(fifo) + 1) /\ Stored(heldMsg))'
    <3> SUFFICES ASSUME held # Null
                 PROVE  (Fresh(heldMsg, Len(fifo) + 1) /\ Stored(heldMsg))'
      BY <1>1
    <3>1. CASE heldMsg \in Posted
      <4>1. PICK m \in Posted : m = heldMsg
        BY <3>1
      <4>2. PICK b \in 1 .. N - 1 : b = Len(fifo) + 1
        <5>1. Len(queue) + 1 = Occupied /\ Len(queue) \in Nat
          BY DEF Occupied, TypeOK
        <5> QED
          BY <2>1, <5>1
      <4>3. Fresh(m, b) /\ Stored(m)
        BY <4>1, <4>2 DEF PayloadsFresh
      <4>4. /\ m.data # Null =>
                  \E a \in 1 .. N :
                      /\ a <= IF Turned(m.data[1])' THEN b + 1 ELSE b
                      /\ dindex'[m.data[1]] = Ahead(m.data[2], a)
            /\ m.payload = IF m.data = Null THEN Null
                           ELSE drings'[m.data[1]][m.data[2]]
        BY <1>1, <1>5, <2>1, <2>4, <4>3, Outdated
      <4>5. heldMsg' = m /\ Len(fifo') + 1 = b
        BY <1>1, <4>1, <4>2
      <4> QED
        BY <4>4, <4>5 DEF Fresh, Stored
    <3>2. CASE heldMsg = NoMessage
      BY <1>1, <3>2 DEF NoMessage, Fresh, Stored
    <3> QED
      BY <3>1, <3>2 DEF TypeOK
  <2> QED
    BY <1>1, <2>5, <2>6 DEF PayloadsFresh
<1> QED
  BY <1>4, <1>5

LEMMA FreshPost ==
    ASSUME TypeOK, Sound, NewestOfItsRing, PayloadsFresh, NEW s \in Senders, Post(s)
    PROVE  PayloadsFresh'
<1> USE MailboxAssumption
<1>1. /\ pc[s] = "dataword" /\ pc' = [pc EXCEPT ![s] = "posted"]
      /\ UNCHANGED <<drings, dindex, held, local, heldMsg>>
  BY DEF Post
<1>2. Len(queue) \in Nat /\ Len(queue) < N /\ Len(fifo) = Len(queue) /\ local[s] \in Posted
  BY <1>1 DEF Sound, SendersAligned, Occupied, TypeOK
<1>3. fifo' = Append(fifo, local[s])
  BY <1>2 DEF Post
<1>4. /\ Len(fifo') = Len(fifo) + 1
      /\ \A k \in 1 .. Len(fifo) : fifo'[k] = fifo[k]
      /\ fifo'[Len(fifo) + 1] = local[s]
  BY <1>2, <1>3, AppendProperties DEF TypeOK
<1>5. /\ pc'[s] = "posted"
      /\ \A u \in Senders \ {s} : pc'[u] = pc[u]
  BY <1>1 DEF TypeOK
<1>6. \A r : Turned(r)' => Turned(r)
  BY <1>1, <1>5 DEF Turned, Carrying
\* The posted message leaves the account of the sends under way and enters the queue.
<1>7. ASSUME NEW m, NEW b \in Int, Fresh(m, b)
      PROVE  m.data # Null =>
                \E a \in 1 .. N :
                    /\ a <= b + 1
                    /\ dindex[m.data[1]] = Ahead(m.data[2], a)
  BY <1>7 DEF Fresh
<1>8. ASSUME NEW m, NEW b \in Int, Fresh(m, b)
      PROVE  m.data # Null =>
                \E a \in 1 .. N :
                    /\ a <= IF Turned(m.data[1])' THEN (b + 1) + 1 ELSE b + 1
                    /\ dindex'[m.data[1]] = Ahead(m.data[2], a)
  <2> SUFFICES ASSUME m.data # Null
               PROVE  \E a \in 1 .. N :
                        /\ a <= IF Turned(m.data[1])' THEN (b + 1) + 1 ELSE b + 1
                        /\ dindex'[m.data[1]] = Ahead(m.data[2], a)
    OBVIOUS
  <2>1. PICK a \in 1 .. N : a <= b + 1 /\ dindex[m.data[1]] = Ahead(m.data[2], a)
    BY <1>7, <1>8
  <2>2. a <= IF Turned(m.data[1])' THEN (b + 1) + 1 ELSE b + 1
    BY <2>1
  <2> QED
    BY <1>1, <2>1, <2>2
<1>9. ASSUME NEW k \in 1 .. Len(fifo')
      PROVE  (Fresh(fifo[k], Len(fifo) - k + 1) /\ Stored(fifo[k]))'
  <2>1. CASE k \in 1 .. Len(fifo)
    <3>1. PICK m : m = fifo[k]
      OBVIOUS
    <3>2. PICK b \in Int : b = Len(fifo) - k + 1
      <4>1. Len(fifo) - k + 1 \in Int
        BY <1>2, <2>1
      <4> QED
        BY <4>1
    <3>3. Fresh(m, b) /\ Stored(m)
      BY <2>1, <3>1, <3>2 DEF PayloadsFresh
    <3>4. fifo'[k] = m /\ Len(fifo') - k + 1 = b + 1
      BY <1>2, <1>4, <2>1, <3>1, <3>2
    <3> QED
      BY <1>1, <1>8, <3>3, <3>4 DEF Fresh, Stored
  <2>2. CASE k = Len(fifo) + 1
    <3>1. PICK m \in Posted : m = local[s]
      BY <1>2
    <3>2. fifo'[k] = m /\ Len(fifo') - k + 1 = 1
      BY <1>2, <1>4, <2>2, <3>1
    <3>3. Stored(m) /\ (m.data # Null => dindex[m.data[1]] = NextSlot(m.data[2]))
      BY <1>1, <3>1 DEF NewestOfItsRing, Carrying
    <3>4. m.data # Null => dindex[m.data[1]] = Ahead(m.data[2], 1)
      BY <3>3, PointerParts, AheadStep
    <3>5. 1 \in 1 .. N /\ 1 <= 1 /\ 1 <= 1 + 1
      OBVIOUS
    <3> QED
      BY <1>1, <3>2, <3>3, <3>4, <3>5 DEF Fresh, Stored
  <2> QED
    BY <1>2, <1>4, <2>1, <2>2
<1>10. (held # Null => Fresh(heldMsg, Len(fifo) + 1) /\ Stored(heldMsg))'
  <2> SUFFICES ASSUME held # Null
               PROVE  (Fresh(heldMsg, Len(fifo) + 1) /\ Stored(heldMsg))'
    BY <1>1
  <2>1. PICK m : m = heldMsg
    OBVIOUS
  <2>2. PICK b \in Int : b = Len(fifo) + 1
    BY <1>2
  <2>3. Fresh(m, b) /\ Stored(m)
    BY <2>1, <2>2 DEF PayloadsFresh
  <2>4. heldMsg' = m /\ Len(fifo') + 1 = b + 1
    BY <1>1, <1>2, <1>4, <2>1, <2>2
  <2> QED
    BY <1>1, <1>8, <2>3, <2>4 DEF Fresh, Stored
<1> QED
  BY <1>9, <1>10 DEF PayloadsFresh

LEMMA FreshReceive ==
    ASSUME TypeOK, PayloadsFresh, Receive
    PROVE  PayloadsFresh'
<1>1. /\ heldMsg' = fifo[1] /\ fifo' = Tail(fifo)
      /\ UNCHANGED <<drings, dindex, pc, local>>
  BY DEF Receive
<1>2. Len(fifo) \in Nat /\ Len(fifo) >= 1 /\ fifo # <<>>
  BY DEF Receive, TypeOK
<1>3. /\ Len(fifo') = Len(fifo) - 1
      /\ \A k \in 1 .. Len(fifo') : fifo'[k] = fifo[k + 1]
  BY <1>1, <1>2, HeadTailProperties DEF TypeOK
<1>4. \A r : Turned(r)' <=> Turned(r)
  BY <1>1 DEF Turned, Carrying
<1>5. ASSUME NEW m, NEW b, Fresh(m, b)
      PROVE  m.data # Null =>
                \E a \in 1 .. N :
                    /\ a <= IF Turned(m.data[1])' THEN b + 1 ELSE b
                    /\ dindex'[m.data[1]] = Ahead(m.data[2], a)
  BY <1>1, <1>4, <1>5, FreshKept
<1>6. ASSUME NEW k \in 1 .. Len(fifo')
      PROVE  (Fresh(fifo[k], Len(fifo) - k + 1) /\ Stored(fifo[k]))'
  <2>1. PICK m : m = fifo[k + 1]
    OBVIOUS
  <2>2. PICK b : b = Len(fifo) - (k + 1) + 1
    OBVIOUS
  <2>3. k + 1 \in 1 .. Len(fifo) /\ Len(fifo') - k + 1 = b /\ fifo'[k] = m
    BY <1>2, <1>3, <2>1, <2>2
  <2>4. Fresh(m, b) /\ Stored(m)
    BY <2>1, <2>2, <2>3 DEF PayloadsFresh
  <2> QED
    BY <1>1, <1>5, <2>3, <2>4 DEF Fresh, Stored
<1>7. (Fresh(heldMsg, Len(fifo) + 1) /\ Stored(heldMsg))'
  <2>1. PICK m : m = fifo[1]
    OBVIOUS
  <2>2. PICK b : b = Len(fifo) - 1 + 1
    OBVIOUS
  <2>3. 1 \in 1 .. Len(fifo) /\ Len(fifo') + 1 = b /\ heldMsg' = m
    BY <1>1, <1>2, <1>3, <2>1, <2>2
  <2>4. Fresh(m, b) /\ Stored(m)
    BY <2>1, <2>2, <2>3 DEF PayloadsFresh
  <2> QED
    BY <1>1, <1>5, <2>3, <2>4 DEF Fresh, Stored
<1> QED
  BY <1>6, <1>7 DEF PayloadsFresh

LEMMA PayloadStep == PayloadInv /\ [Next]_vars => PayloadInv'
<1> SUFFICES ASSUME PayloadInv, [Next]_vars
             PROVE  PayloadInv'
  OBVIOUS
<1>1. TypeOK /\ NewestOfItsRing /\ MailboxInv' /\ NewestOfItsRing'
  BY MailboxStep, NewestStep DEF PayloadInv, MailboxInv
<1> SUFFICES ASSUME ~tainted'
             PROVE  PayloadsFresh'
  BY <1>1 DEF PayloadInv
<1>2. CASE tainted
  \* The taint is lifted only when nothing is queued and nothing is held.
  <2>1. queue' = <<>> /\ held' = Null
    <3>1. \/ \E s \in Senders : StoreIndex(s)
          \/ ReceiveNothing
      BY <1>2 DEF Next, SendStep, EnterSend, CopyMsgWord, CopyDataWord, Post, LoadIndex,
                  Receive, ghost, vars
    <3>2. ASSUME NEW s \in Senders, StoreIndex(s)
          PROVE  queue' = <<>> /\ held' = Null
      BY <1>2, <3>2 DEF StoreIndex, Quiet
    <3>3. ASSUME ReceiveNothing
          PROVE  queue' = <<>> /\ held' = Null
      BY <1>2, <3>3 DEF ReceiveNothing, Quiet
    <3> QED
      BY <3>1, <3>2, <3>3
  <2>2. Len(fifo') = 0
    <3>1. Len(fifo') = Len(queue')
      BY <1>1 DEF MailboxInv, TypeOK
    <3> QED
      BY <2>1, <3>1
  <2> QED
    BY <2>1, <2>2 DEF PayloadsFresh
<1>3. CASE ~tainted
  <2>1. Sound /\ PayloadsFresh
    BY <1>3 DEF PayloadInv, MailboxInv
  <2>2. ASSUME NEW s \in Senders, CopyMsgWord(s) \/ CopyDataWord(s) \/ LoadIndex(s)
        PROVE  PayloadsFresh'
    <3>1. /\ UNCHANGED <<drings, dindex, fifo, held, heldMsg, local>>
          /\ \A u \in Senders \ {s} : pc'[u] = pc[u]
          /\ \/ pc[s] \in {"entered", "msgword"} /\ pc'[s] \in {"msgword", "dataword"}
             \/ pc[s] = "posted" /\ pc'[s] = "loaded"
      BY <1>1, <2>2 DEF CopyMsgWord, CopyDataWord, LoadIndex, ghost, TypeOK
    <3>2. \A u \in Senders : Carrying(u)' <=> Carrying(u)
      BY <3>1 DEF Carrying
    <3>3. \A r : Turned(r)' <=> Turned(r)
      BY <3>1, <3>2 DEF Turned
    <3> QED
      BY <2>1, <3>1, <3>3, FreshUnmoved
  <2>3. ASSUME NEW s \in Senders, StoreIndex(s)
        PROVE  PayloadsFresh'
    <3>1. /\ UNCHANGED <<drings, dindex, fifo, held, heldMsg>>
          /\ \A u \in Senders \ {s} : pc'[u] = pc[u] /\ local'[u] = local[u]
          /\ pc[s] = "loaded" /\ pc'[s] = "idle"
      BY <1>1, <2>3 DEF StoreIndex, TypeOK
    <3>2. ~Carrying(s) /\ ~Carrying(s)' /\ \A u \in Senders \ {s} : Carrying(u)' <=> Carrying(u)
      BY <3>1 DEF Carrying
    <3>3. \A r : Turned(r)' <=> Turned(r)
      BY <3>1, <3>2 DEF Turned
    <3> QED
      BY <2>1, <3>1, <3>3, FreshUnmoved
  <2>4. CASE ReceiveNothing
    <3>1. held' = Null /\ UNCHANGED <<queue, fifo>> /\ queue = <<>>
      BY <2>4 DEF ReceiveNothing
    <3>2. Len(fifo') = 0
      BY <1>1, <3>1 DEF TypeOK
    <3> QED
      BY <3>1, <3>2 DEF PayloadsFresh
  <2>5. CASE UNCHANGED vars
    BY <2>1, <2>5 DEF vars, PayloadsFresh, Fresh, Stored, Turned, Carrying
  <2> QED
    BY <1>1, <2>1, <2>2, <2>3, <2>4, <2>5, FreshEnterSend, FreshPost, FreshReceive
       DEF Next, SendStep
<1> QED
  BY <1>2, <1>3

\* The payload behind the pointer of an unread message, or of the one being
\* handled, is the one that was sent with it, for every ring length and every
\* number of payload rings with one writer each (inttsk_mgs.c:72-195).
THEOREM PayloadsSurvive == Spec => []PayloadIntact
<1>1. Init => PayloadInv
  BY TypeInit, SoundInit, PayloadInit DEF PayloadInv, MailboxInv
<1>2. PayloadInv => PayloadIntact
  <2> SUFFICES ASSUME PayloadInv, ~tainted
               PROVE  PayloadIntact
    BY DEF PayloadIntact
  <2>1. TypeOK /\ Sound /\ PayloadsFresh
    BY DEF PayloadInv, MailboxInv
  <2>2. ASSUME NEW i, NEW m, Carries(i, m), Stored(m)
        PROVE  PayloadOf(i) = m.payload
    BY <2>2 DEF Carries, Stored, PayloadOf
  <2>3. Len(fifo) = Len(queue)
    BY <2>1 DEF TypeOK
  <2> QED
    BY <2>1, <2>2, <2>3 DEF Sound, PayloadsFresh, PayloadIntact
<1> QED
  BY <1>1, <1>2, PayloadStep, PTL DEF Spec

-----------------------------------------------------------------------------
(* The mailbox implements the queue *)

AsPosted ==
    /\ Unread = [k \in 1 .. Len(fifo) |-> Plain(fifo[k])]
    /\ InHand = IF held = Null THEN <<>> ELSE <<Plain(heldMsg)>>

\* The messages as the receiver sees them.
Views == {Plain(m) : m \in Posted}

AsLong ==
    /\ Len(Unread) = Len(queue)
    /\ Len(InHand) = IF held = Null THEN 0 ELSE 1

\* While nothing is broken, what is found through the pointers is what was
\* posted: the mailbox's view of its contents is the ghost's.
LEMMA UnreadTrue == PayloadInv /\ ~tainted => AsPosted
<1> SUFFICES ASSUME PayloadInv, ~tainted
             PROVE  AsPosted
  OBVIOUS
<1>1. TypeOK /\ Sound /\ PayloadsFresh
  BY DEF PayloadInv, MailboxInv
<1>2. Len(fifo) = Len(queue) /\ Len(fifo) \in Nat
  BY <1>1 DEF TypeOK
<1>3. ASSUME NEW i, NEW m, Carries(i, m), Stored(m)
      PROVE  Found(i) = Plain(m)
  BY <1>3 DEF Carries, Stored, PayloadOf, Found, Plain
<1>4. \A k \in 1 .. Len(fifo) : Found(queue[k]) = Plain(fifo[k])
  BY <1>1, <1>2, <1>3 DEF Sound, PayloadsFresh
<1>5. Unread = [k \in 1 .. Len(fifo) |-> Plain(fifo[k])]
  BY <1>2, <1>4 DEF Unread
<1>6. held # Null => Found(held) = Plain(heldMsg)
  BY <1>1, <1>3 DEF Sound, PayloadsFresh
<1> QED
  BY <1>2, <1>5, <1>6 DEF InHand, AsPosted

LEMMA UnreadType ==
    ASSUME TypeOK, AsPosted
    PROVE  Unread \in Seq(Views)
<1>1. PICK n \in Nat : n = Len(fifo)
  BY DEF TypeOK
<1>2. \A k \in 1 .. n : Plain(fifo[k]) \in Views
  BY <1>1, ElementOfSeq DEF TypeOK, Views
<1>3. Unread \in [1 .. n -> Views]
  BY <1>1, <1>2 DEF AsPosted
<1> QED
  BY <1>3

\* Broken or not, what is unread is as long as the kernel's queue.
LEMMA UnreadLength == TypeOK => AsLong
  BY DEF TypeOK, Unread, InHand, AsLong

\* Every step is a step of the queue.
LEMMA QueueInit == Init => Queue!Init
<1> SUFFICES ASSUME Init
             PROVE  Queue!Init
  OBVIOUS
<1>1. [s \in Senders |-> Stage(s)] = [s \in Senders |-> "out"]
  BY DEF Init, Stage
<1>2. [s \in Senders |-> Plain(local[s])] = [s \in Senders |-> Plain(NoMessage)]
  BY DEF Init
<1>3. Unread = <<>> /\ InHand = <<>>
  BY DEF Init, Unread, InHand
<1> QED
  BY <1>1, <1>2, <1>3 DEF Queue!Init, Init

\* A step of the mailbox with the promise off before or after it.
LEMMA DisorderStep ==
    ASSUME PayloadInv, PayloadInv', Next, tainted \/ tainted'
    PROVE  Queue!Disorder
<1> USE MailboxAssumption
<1>1. TypeOK /\ TypeOK'
  BY DEF PayloadInv, MailboxInv
<1>2. /\ Len(Unread) = Len(queue) /\ Len(Unread)' = Len(queue')
      /\ Len(InHand) = (IF held = Null THEN 0 ELSE 1)
      /\ Len(InHand)' = (IF held' = Null THEN 0 ELSE 1)
  <2>1. (TypeOK => AsLong)'
    BY UnreadLength, PTL
  <2> QED
    BY <1>1, <2>1, UnreadLength DEF AsLong
<1>3. /\ Len(queue) \in Nat /\ Len(queue') \in Nat /\ Len(queue') <= N
      /\ Len(queue') <= Len(queue) + 1 /\ Len(queue) <= Len(queue') + 1
  <2>1. Len(queue) \in Nat /\ Len(queue') \in Nat /\ Len(queue') <= N
    BY <1>1 DEF TypeOK
  <2>2. ASSUME NEW s \in Senders, Post(s)
        PROVE  queue' = queue \/ Len(queue') = Len(queue) + 1
    BY <1>1, <2>2, AppendProperties DEF Post, TypeOK
  <2>3. CASE Receive
    BY <1>1, <2>1, <2>3 DEF Receive, TypeOK
  <2>4. CASE ~Receive
    <3>1. queue' = queue \/ \E s \in Senders : Post(s)
      BY <2>4 DEF Next, SendStep, EnterSend, CopyMsgWord, CopyDataWord, LoadIndex,
                  StoreIndex, ReceiveNothing
    <3> QED
      BY <2>1, <2>2, <3>1
  <2> QED
    BY <2>1, <2>3, <2>4
<1>4. ASSUME ~tainted
      PROVE  \E s \in Senders :
                /\ pc'[s] # "idle"
                /\ \/ Occupied' >= N
                   \/ \E u \in Senders \ {s} : pc'[u] # "idle"
  <2>1. tainted'
    BY <1>4
  <2>2. \E s \in Senders : \/ \E t \in MaySend[s], p \in Payloads : EnterSend(s, t, p)
                           \/ CopyMsgWord(s)
    BY <1>4, <2>1 DEF Next, SendStep, CopyDataWord, Post, LoadIndex, StoreIndex,
                      Receive, ReceiveNothing, ghost
  <2>3. ASSUME NEW s \in Senders, NEW t \in MaySend[s], NEW p \in Payloads,
               EnterSend(s, t, p)
        PROVE  pc'[s] # "idle" /\ Occupied' >= N
    <3>1. pc'[s] = "entered"
      BY <1>1, <2>3 DEF EnterSend, TypeOK
    <3>2. UNCHANGED <<queue, held>> /\ tainted' # tainted
      BY <1>4, <2>1, <2>3 DEF EnterSend
    <3>3. Occupied >= N
      <4>1. RingOf[t] # NoRing /\ tainted' = (tainted \/ Occupied >= N)
        BY <2>3, <3>2 DEF EnterSend
      <4> QED
        BY <1>4, <2>1, <4>1
    <3> QED
      BY <3>1, <3>2, <3>3 DEF Occupied
  <2>4. ASSUME NEW s \in Senders, CopyMsgWord(s)
        PROVE  /\ pc'[s] # "idle"
               /\ \/ Occupied' >= N
                  \/ \E u \in Senders \ {s} : pc'[u] # "idle"
    <3>1. pc'[s] = "msgword" /\ \A u \in Senders \ {s} : pc'[u] = pc[u]
      BY <1>1, <2>4 DEF CopyMsgWord, TypeOK
    <3>2. UNCHANGED <<queue, held>>
      BY <2>4 DEF CopyMsgWord
    <3>3. Overlaps(s) \/ Occupied >= N
      <4>1. tainted' = (tainted \/ Overlaps(s) \/ Occupied >= N)
        BY <2>4 DEF CopyMsgWord
      <4> QED
        BY <1>4, <2>1, <4>1
    <3>4. CASE Overlaps(s)
      BY <3>1, <3>4 DEF Overlaps, InWindow
    <3>5. CASE Occupied >= N
      BY <3>1, <3>2, <3>5 DEF Occupied
    <3> QED
      BY <3>3, <3>4, <3>5
  <2> QED
    BY <2>2, <2>3, <2>4
<1>5. Occupied' = Len(Unread)' + Len(InHand)'
  BY <1>2 DEF Occupied
<1>6. \A s \in Senders : Stage(s)' = "out" <=> pc'[s] = "idle"
  BY DEF Stage
<1>7. ~tainted => Queue!Crowded'
  <2> SUFFICES ASSUME ~tainted
               PROVE  Queue!Crowded'
    OBVIOUS
  <2>1. PICK s \in Senders : /\ pc'[s] # "idle"
                            /\ \/ Occupied' >= N
                               \/ \E u \in Senders \ {s} : pc'[u] # "idle"
    BY <1>4
  <2> QED
    BY <1>5, <1>6, <2>1 DEF Queue!Crowded, Queue!Full
<1>8. ~tainted' => Queue!Deserted'
  <2> SUFFICES ASSUME ~tainted'
               PROVE  Queue!Deserted'
    OBVIOUS
  <2>1. tainted
    OBVIOUS
  <2>2. Quiet(queue', held', pc')
    <3>1. ReceiveNothing \/ \E s \in Senders : StoreIndex(s)
      BY <2>1 DEF Next, SendStep, EnterSend, CopyMsgWord, CopyDataWord, Post, LoadIndex,
                  Receive, ghost
    <3>2. CASE ReceiveNothing
      BY <2>1, <3>2 DEF ReceiveNothing, Quiet
    <3>3. CASE \E s \in Senders : StoreIndex(s)
      BY <2>1, <3>3 DEF StoreIndex, Quiet
    <3> QED
      BY <3>1, <3>2, <3>3
  <2>3. Unread' = <<>> /\ InHand' = <<>>
    BY <2>2 DEF Quiet, Unread, InHand
  <2> QED
    BY <1>6, <2>2, <2>3 DEF Quiet, Queue!Deserted
<1> QED
  BY <1>2, <1>3, <1>7, <1>8 DEF Queue!Disorder

\* A step of the mailbox with the promise on: the post is the delivery, the
\* accesses around it are not seen.
LEMMA OrderlyStep ==
    ASSUME PayloadInv, PayloadInv', Next, ~tainted, ~tainted'
    PROVE  Queue!Orderly \/ UNCHANGED Queue!vars
<1> USE MailboxAssumption
<1>1. TypeOK /\ TypeOK' /\ Sound
  BY DEF PayloadInv, MailboxInv
<1>2. AsPosted /\ AsPosted'
  <2>1. (PayloadInv /\ ~tainted => AsPosted)'
    BY UnreadTrue, PTL
  <2> QED
    BY <2>1, UnreadTrue
<1>3. Len(fifo) \in Nat /\ Len(fifo) = Len(queue)
  BY <1>1 DEF TypeOK
<1> DEFINE stages == [s \in Senders |-> Stage(s)]
           texts  == [s \in Senders |-> Plain(local[s])]
\* A step that leaves the posted messages alone leaves the queue as it is.
<1>4. UNCHANGED <<fifo, held, heldMsg>> => UNCHANGED <<Unread, InHand>>
  BY <1>2 DEF AsPosted
<1>5. ASSUME NEW s \in Senders, NEW x, pc' = [pc EXCEPT ![s] = x],
             NEW y, y = IF x = "idle" THEN "out"
                        ELSE IF x \in {"posted", "loaded"} THEN "posted" ELSE "begun"
      PROVE  stages' = [stages EXCEPT ![s] = y]
  BY <1>1, <1>5 DEF TypeOK, Stage
<1>6. ASSUME NEW s \in Senders, NEW x, local' = [local EXCEPT ![s] = x]
      PROVE  texts' = [texts EXCEPT ![s] = Plain(x)]
  BY <1>1, <1>6 DEF TypeOK
<1>7. \A s \in Senders : stages[s] = Stage(s) /\ texts[s] = Plain(local[s])
  OBVIOUS
<1>8. local' = local => texts' = texts
  OBVIOUS
<1>9. pc' = pc => stages' = stages
  BY DEF Stage
<1>10. ASSUME NEW s \in Senders, NEW t \in MaySend[s], NEW p \in Payloads,
              EnterSend(s, t, p)
       PROVE  Queue!Orderly
  <2> DEFINE m == IF RingOf[t] = NoRing THEN [msg |-> t, data |-> Null, payload |-> Null]
                  ELSE [msg |-> t, data |-> <<RingOf[t], dindex[RingOf[t]]>>, payload |-> p]
  <2>1. /\ pc[s] = "idle" /\ pc' = [pc EXCEPT ![s] = "entered"]
        /\ local' = [local EXCEPT ![s] = m] /\ UNCHANGED <<fifo, held, heldMsg>>
    BY <1>10 DEF EnterSend
  <2>2. Plain(m) \in [msg : Types, payload : Payloads \cup {Null}]
    <3>1. t \in Types
      OBVIOUS
    <3>2. CASE RingOf[t] = NoRing
      BY <3>1, <3>2 DEF Plain
    <3>3. CASE RingOf[t] # NoRing
      BY <3>1, <3>3 DEF Plain
    <3> QED
      BY <3>2, <3>3
  <2>3. stages[s] = "out" /\ stages' = [stages EXCEPT ![s] = "begun"]
    <3>1. stages[s] = "out"
      BY <2>1 DEF Stage
    <3>2. stages' = [stages EXCEPT ![s] = "begun"]
      <4>1. pc' = [pc EXCEPT ![s] = "entered"]
        BY <2>1
      <4>2. "begun" = IF "entered" = "idle" THEN "out"
                      ELSE IF "entered" \in {"posted", "loaded"} THEN "posted" ELSE "begun"
        OBVIOUS
      <4> HIDE DEF m, stages
      <4> QED
        BY <1>5, <4>1, <4>2
    <3> QED
      BY <3>1, <3>2
  <2>4. texts' = [texts EXCEPT ![s] = Plain(m)]
    <3> HIDE DEF m, texts
    <3> QED
      BY <1>6, <2>1
  <2> HIDE DEF m, stages, texts
  <2>5. UNCHANGED <<Unread, InHand>>
    BY <1>4, <2>1
  <2> QED
    BY <2>2, <2>3, <2>4, <2>5 DEF Queue!Orderly, Queue!Begin, stages, texts
<1>11. ASSUME NEW s \in Senders, CopyMsgWord(s) \/ CopyDataWord(s) \/ LoadIndex(s)
       PROVE  UNCHANGED Queue!vars
  <2>1. UNCHANGED <<local, fifo, held, heldMsg>>
    BY <1>11 DEF CopyMsgWord, CopyDataWord, LoadIndex, ghost
  <2>2. UNCHANGED <<Unread, InHand, tainted>>
    BY <1>1, <1>4, <2>1 DEF TypeOK
  <2>3. UNCHANGED stages
    <3>1. \/ pc[s] = "entered" /\ pc' = [pc EXCEPT ![s] = "msgword"]
          \/ pc[s] = "msgword" /\ pc' = [pc EXCEPT ![s] = "dataword"]
          \/ pc[s] = "posted" /\ pc' = [pc EXCEPT ![s] = "loaded"]
      BY <1>11 DEF CopyMsgWord, CopyDataWord, LoadIndex
    <3> QED
      BY <1>1, <3>1 DEF Stage, TypeOK
  <2> QED
    BY <2>1, <2>2, <2>3 DEF Queue!vars
<1>12. ASSUME NEW s \in Senders, Post(s)
       PROVE  Queue!Orderly
  <2>1. /\ pc[s] = "dataword" /\ pc' = [pc EXCEPT ![s] = "posted"]
        /\ UNCHANGED <<local, held, heldMsg>>
    BY <1>12 DEF Post
  <2>2. local[s] \in Posted /\ Occupied < N
    BY <1>1, <2>1 DEF Sound, SendersAligned, TypeOK
  <2>3. fifo' = Append(fifo, local[s])
    BY <1>1, <1>3, <1>12, <2>2 DEF Post, Occupied, TypeOK
  <2>4. stages[s] = "begun" /\ stages' = [stages EXCEPT ![s] = "posted"]
    BY <1>5, <2>1 DEF Stage
  <2>5. Unread' = Append(Unread, texts[s])
    <3>1. /\ Len(fifo') = Len(fifo) + 1
          /\ \A k \in 1 .. Len(fifo) : fifo'[k] = fifo[k]
          /\ fifo'[Len(fifo) + 1] = local[s]
      BY <1>1, <2>2, <2>3, AppendProperties DEF TypeOK
    <3>2. Unread' = [k \in 1 .. Len(fifo) + 1 |-> Plain(fifo'[k])]
      BY <1>2, <3>1 DEF AsPosted
    <3>3. /\ Len(Unread) = Len(fifo)
          /\ \A k \in 1 .. Len(fifo) : Unread[k] = Plain(fifo[k])
      BY <1>2, <1>3 DEF AsPosted
    <3>4. Unread \in Seq(Views) /\ texts[s] \in Views /\ texts[s] = Plain(local[s])
      BY <1>1, <1>2, <2>2, UnreadType DEF Views
    <3> HIDE DEF texts
    <3>5. /\ Append(Unread, texts[s]) \in Seq(Views)
          /\ Len(Append(Unread, texts[s])) = Len(fifo) + 1
          /\ \A k \in 1 .. Len(fifo) : Append(Unread, texts[s])[k] = Unread[k]
          /\ Append(Unread, texts[s])[Len(fifo) + 1] = texts[s]
      BY <3>3, <3>4, AppendProperties
    <3>6. \A k \in 1 .. Len(fifo) + 1 : Plain(fifo'[k]) = Append(Unread, texts[s])[k]
      <4> TAKE k \in 1 .. Len(fifo) + 1
      <4>1. CASE k = Len(fifo) + 1
        BY <3>1, <3>4, <3>5, <4>1
      <4>2. CASE k \in 1 .. Len(fifo)
        BY <3>1, <3>3, <3>5, <4>2
      <4> QED
        <5>1. k = Len(fifo) + 1 \/ k \in 1 .. Len(fifo)
          BY <1>3
        <5> QED
          BY <4>1, <4>2, <5>1
    <3>7. Append(Unread, texts[s]) =
             [k \in 1 .. Len(fifo) + 1 |-> Append(Unread, texts[s])[k]]
      BY <1>3, <3>5
    <3> QED
      BY <3>2, <3>6, <3>7
  <2>6. UNCHANGED InHand
    BY <1>2, <2>1 DEF AsPosted
  <2>7. ~Queue!Full
    <3>1. Len(Unread) + Len(InHand) = Occupied /\ Occupied \in Nat
      <4>1. AsLong /\ Len(queue) \in Nat
        BY <1>1, UnreadLength DEF TypeOK
      <4> QED
        BY <4>1 DEF AsLong, Occupied
    <3> QED
      BY <2>2, <3>1 DEF Queue!Full
  <2> QED
    BY <1>8, <2>1, <2>4, <2>5, <2>6, <2>7 DEF Queue!Orderly, Queue!Deliver
<1>13. ASSUME NEW s \in Senders, StoreIndex(s)
       PROVE  Queue!Orderly
  <2>1. /\ pc[s] = "loaded" /\ pc' = [pc EXCEPT ![s] = "idle"]
        /\ local' = [local EXCEPT ![s] = NoMessage] /\ UNCHANGED <<fifo, held, heldMsg>>
    BY <1>13 DEF StoreIndex
  <2>2. stages[s] = "posted" /\ stages' = [stages EXCEPT ![s] = "out"]
    BY <1>5, <2>1 DEF Stage
  <2>3. texts' = [texts EXCEPT ![s] = Plain(NoMessage)]
    BY <1>6, <2>1
  <2>4. UNCHANGED <<Unread, InHand>>
    BY <1>4, <2>1
  <2> QED
    BY <2>2, <2>3, <2>4 DEF Queue!Orderly, Queue!Return
<1>14. CASE Receive
  <2>1. /\ held' = Head(queue) /\ heldMsg' = Head(fifo) /\ fifo' = Tail(fifo)
        /\ queue # <<>> /\ UNCHANGED <<pc, local>>
    BY <1>14 DEF Receive
  <2>2. fifo # <<>> /\ held' # Null /\ Len(fifo) >= 1
    BY <1>1, <2>1 DEF TypeOK, Slots
  <2>3. Len(Unread) = Len(fifo) /\ Unread # <<>> /\ Head(Unread) = Plain(Head(fifo))
    BY <1>2, <1>3, <2>2 DEF AsPosted
  <2>4. InHand' = <<Head(Unread)>>
    BY <1>2, <2>1, <2>2, <2>3 DEF AsPosted
  <2>5. Unread' = Tail(Unread)
    <3>1. /\ Len(fifo') = Len(fifo) - 1
          /\ \A k \in 1 .. Len(fifo') : fifo'[k] = fifo[k + 1]
      BY <1>1, <2>1, <2>2, HeadTailProperties DEF TypeOK
    <3>2. Unread' = [k \in 1 .. Len(fifo) - 1 |-> Plain(fifo[k + 1])]
      BY <1>2, <3>1 DEF AsPosted
    <3>3. /\ Tail(Unread) \in Seq(Views) /\ Len(Tail(Unread)) = Len(fifo) - 1
          /\ \A k \in 1 .. Len(fifo) - 1 : Tail(Unread)[k] = Unread[k + 1]
      <4>1. Unread \in Seq(Views)
        BY <1>1, <1>2, UnreadType
      <4> QED
        BY <2>3, <4>1, HeadTailProperties
    <3>4. \A k \in 1 .. Len(fifo) - 1 : Unread[k + 1] = Plain(fifo[k + 1])
      BY <1>2, <1>3 DEF AsPosted
    <3>5. Tail(Unread) = [k \in 1 .. Len(fifo) - 1 |-> Tail(Unread)[k]]
      <4>1. Tail(Unread) \in [1 .. Len(Tail(Unread)) -> Views]
        BY <3>3, LenProperties
      <4> QED
        BY <3>3, <4>1
    <3> QED
      BY <3>2, <3>3, <3>4, <3>5
  <2> QED
    BY <1>8, <1>9, <2>1, <2>3, <2>4, <2>5 DEF Queue!Orderly, Queue!Take
<1>15. CASE ReceiveNothing
  <2>1. queue = <<>> /\ held' = Null /\ UNCHANGED <<pc, local, fifo>>
    BY <1>15 DEF ReceiveNothing
  <2>2. Len(fifo) = 0
    BY <1>3, <2>1
  <2>3. Unread = <<>> /\ Unread' = <<>> /\ InHand' = <<>>
    BY <1>2, <2>1, <2>2 DEF AsPosted
  <2> QED
    BY <1>8, <1>9, <2>1, <2>3 DEF Queue!Orderly, Queue!TakeNothing
<1> QED
  BY <1>10, <1>11, <1>12, <1>13, <1>14, <1>15 DEF Next, SendStep

LEMMA QueueStep == PayloadInv /\ PayloadInv' /\ [Next]_vars => [Queue!Next]_Queue!vars
<1> SUFFICES ASSUME PayloadInv, PayloadInv', [Next]_vars
             PROVE  [Queue!Next]_Queue!vars
  OBVIOUS
<1>1. CASE Next
  <2>1. CASE tainted \/ tainted'
    BY <1>1, <2>1, DisorderStep DEF Queue!Next
  <2>2. CASE ~(tainted \/ tainted')
    BY <1>1, <2>2, OrderlyStep DEF Queue!Next
  <2> QED
    BY <2>1, <2>2
<1>2. CASE UNCHANGED vars
  BY <1>2 DEF vars, Queue!vars, Stage, Unread, InHand, Found, PayloadOf
<1> QED
  BY <1>1, <1>2

\* For every ring length and set of senders, the mailbox implements the queue:
\* between two overruns a message is put whole at the end at one instant of its
\* send and the receiver gets the messages in that order, each once, with the
\* payload it was sent with (inttsk_mgs.c:72-232).
THEOREM MailboxDelivers == Spec => Delivers
<1>1. Init => PayloadInv
  BY TypeInit, SoundInit, PayloadInit DEF PayloadInv, MailboxInv
<1> QED
  BY <1>1, QueueInit, PayloadStep, QueueStep, PTL DEF Spec, Delivers, Queue!Spec
=============================================================================
