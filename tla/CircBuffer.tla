----------------------------- MODULE CircBuffer ------------------------------
(* The ring buffer of common_lib/T8_CircBuffer.c: an interrupt handler pushes *)
(* bytes and does not overwrite old ones, a task reads.  A read takes copies  *)
(* of the indices, copies the bytes, and moves the head when it is through,   *)
(* while more bytes may come.                                                 *)
LOCAL INSTANCE Integers
LOCAL INSTANCE Sequences

CONSTANTS
  Total,   \* szTotal
  Word,    \* szActual is counted modulo this
  Nothing  \* contents of a cell before the first push

Least(a, b) == IF a < b THEN a ELSE b

\* data, szActual, iHead, iTail
EmptyBuffer == [data |-> [i \in 0 .. Total - 1 |-> Nothing],
                count |-> 0, head |-> 0, tail |-> 0]

Full(b) == b.count = Total

\* mutant: the index does not wrap
AdvancedBeyond(i) == i + 1

Advanced(i) == (i + 1) % Total

\* CircBuffer_push_one_tender
Push(b, byte) ==
  IF Full(b) THEN b
  ELSE [data |-> [b.data EXCEPT ![b.tail] = byte],
        count |-> (b.count + 1) % Word,
        head |-> b.head,
        tail |-> Advanced(b.tail)]

(* CircBuffer_read of n bytes, begun with the head at h and the tail at t.    *)
InOnePiece(h, t) == t > h

\* up to the tail, or to the end of the array
First(h, t, n) == Least(n, (IF InOnePiece(h, t) THEN t ELSE Total) - h)

\* mutant: the bytes at the beginning of the array are left for another time
SecondNever(h, t, n) == 0

\* from the beginning of the array, if the first piece was not enough
Second(h, t, n) ==
  IF InOnePiece(h, t) \/ First(h, t, n) = n THEN 0
  ELSE Least(n - First(h, t, n), t)

\* what is copied
Copied(b, h, t, n) ==
  [i \in 1 .. First(h, t, n) |-> b.data[h + i - 1]]
    \o [i \in 1 .. Second(h, t, n) |-> b.data[i - 1]]

\* the buffer once it is copied: the head moves, and of an array that was read
\* across its end it is where the second piece ends
Read(b, h, t, n) ==
  [b EXCEPT
     !.head = IF ~InOnePiece(h, t) THEN Second(h, t, n)
              ELSE IF h + First(h, t, n) > @ THEN h + First(h, t, n) ELSE @,
     !.count = (@ - First(h, t, n) - Second(h, t, n)) % Word]

\* the head is set to 0 although the first piece was not read to its end
Misplaced(h, t, n) == ~InOnePiece(h, t) /\ h + First(h, t, n) < Total

-----------------------------------------------------------------------------
(* What the buffer is for: the bytes between the head and the tail, in order. *)
Stored(b) ==
  LET n == IF b.tail > b.head \/ b.count = 0 THEN b.tail - b.head
           ELSE Total - b.head + b.tail
  IN  [i \in 1 .. n |-> b.data[(b.head + i - 1) % Total]]
=============================================================================
