--------------------------- MODULE MirroredEeprom ----------------------------
(* The parameters in the backplane's EEPROM, kept twice                       *)
(* (HAL/BSP/src/T8_Dnepr_BPEEPROM.c): two partitions of EepromStorage, read   *)
(* and written one after the other and repaired from each other at start; and *)
(* the synchronisation of the profile with them                               *)
(* (Dnepr_ProfileStorage_eeprom_sync).  One task calls at a time.             *)
EXTENDS EepromStorage

CONSTANTS
  Order,    \* the names in the order of param_ix
  ValuesOf, \* the values each parameter takes
  Factory,  \* the value each parameter has in RAM when the board starts
  MaxCuts   \* bound: how often the power fails during a call

ASSUME MirrorAssumption ==
  /\ Order \in Seq(Names)
  /\ \A n \in Names : \E k \in DOMAIN Order : Order[k] = n
  /\ ValuesOf \in [Names -> SUBSET Values]
  /\ Factory \in [Names -> Values]
  /\ \A n \in Names : Factory[n] \in ValuesOf[n]
  /\ MaxCuts \in Nat
  /\ Nothing \notin Names \X Values

Copies == {1, 2}  \* the primary and the secondary partition

VARIABLES
  part,    \* the contents of the two partitions
  ok,      \* __eeprom_1_ok, __eeprom_2_ok
  free,    \* the partitions' freesector_bitmap
  present, \* __eeprom_present
  ram,     \* the parameters' values in RAM
  synced,  \* how many parameters eeprom_sync has gone through
  call,    \* the call under way
  cuts,    \* how often the power failed during a call
  kept,    \* auxiliary: the values the two copies together hold
  unhealed \* auxiliary: a copy could not be written back since the start

vars == <<part, ok, free, present, ram, synced, call, cuts, kept, unhealed>>

(* A call: its name and argument, the EEPROM writes it still has to make,     *)
(* what it leaves in RAM, and how it ends ("return", "assert" or "loop").     *)
NoCall == [op |-> "none"]
Off == [op |-> "off"]

Ends == {"return", "assert", "loop"}

\* the writes of one partition's operation, as writes of the pair
In(i, writes) == [k \in DOMAIN writes |-> <<i, writes[k]>>]

-----------------------------------------------------------------------------
(* Dnepr_BPEEPROM_Init: what it writes.                                       *)
Good(p) == OpenPartition(p) /\ CheckPartition(p)

\* mutant: the good copy is overwritten with the bad one
InitWritesSwapped ==
  CASE Good(part[1]) /\ Good(part[2])   -> <<>>
    [] Good(part[1]) /\ ~Good(part[2])  -> In(1, Format \o Copy(part[2]))
    [] ~Good(part[1]) /\ Good(part[2])  -> In(2, Format \o Copy(part[1]))
    [] OTHER                            -> In(1, Format) \o In(2, Format)

InitWrites ==
  CASE Good(part[1]) /\ Good(part[2])   -> <<>>
    [] Good(part[1]) /\ ~Good(part[2])  -> In(2, Format \o Copy(part[1]))
    [] ~Good(part[1]) /\ Good(part[2])  -> In(1, Format \o Copy(part[2]))
    [] OTHER                            -> In(1, Format) \o In(2, Format)

-----------------------------------------------------------------------------
(* Dnepr_BPEEPROM_Write(n, v).                                                *)
Stuck(end) == end \in {"assert", "loop"}

Valid(i, n) == Content(part[i], n).end = "true"

WriteOrder(n) ==
  IF present
  THEN CASE ok[1] /\ ok[2]    -> IF Valid(1, n) /\ ~Valid(2, n) THEN <<2, 1>> ELSE <<1, 2>>
         [] ok[1] /\ ~ok[2]   -> <<1>>
         [] ok[2] /\ ~ok[1]   -> <<2>>
         [] OTHER             -> <<>>
  ELSE <<>>

Leaves == [todo |-> <<>>, ok |-> ok, free |-> free, end |-> "return", healed |-> TRUE]

\* one partition's part in a call; "keep" says whether its failure is ignored
Joined(c, i, r, keep) ==
  [todo |-> c.todo \o In(i, r.out),
   free |-> [c.free EXCEPT ![i] = r.free],
   ok |-> [c.ok EXCEPT ![i] = keep \/ r.end = "true"],
   healed |-> c.healed /\ (keep => r.end = "true"),
   end |-> IF Stuck(r.end) THEN r.end ELSE "return"]

Share(c, i, n, v, keep) ==
  IF c.end # "return" THEN c
  ELSE Joined(c, i, WriteRecord(part[i], c.free[i], n, v), keep)

\* CheckValue looks at both copies before anything is written.
Either(e1, e2) == IF Stuck(e1) THEN e1 ELSE IF Stuck(e2) THEN e2 ELSE "return"

Checked(n) ==
  IF present /\ ok[1] /\ ok[2]
  THEN Either(Content(part[1], n).end, Content(part[2], n).end)
  ELSE "return"

\* mutant: given up, but its header is left good
SpoilingForgotten(c) == <<>>

\* a copy that could not be written is spoiled and given up
Spoiling(c) ==
  LET lost == {i \in Copies : ok[i] /\ ~c.ok[i]}
  IN  (IF 1 \in lost THEN In(1, <<Spoil>>) ELSE <<>>)
        \o (IF 2 \in lost THEN In(2, <<Spoil>>) ELSE <<>>)

Spoiled(c) == IF c.end = "return" THEN [c EXCEPT !.todo = @ \o Spoiling(c)] ELSE c

\* the partition that is the k-th to be written, if there is one
Turn(c, k, order, n, v) ==
  IF k \in DOMAIN order THEN Share(c, order[k], n, v, FALSE) ELSE c

Write(n, v) ==
  LET first == Turn([Leaves EXCEPT !.end = Checked(n)], 1, WriteOrder(n), n, v)
  IN  Spoiled(Turn(first, 2, WriteOrder(n), n, v))

-----------------------------------------------------------------------------
(* Dnepr_BPEEPROM_Read(n): the value it finds, if any, and the partition it   *)
(* comes from.  From the secondary it is written back to the primary, and it  *)
(* does not matter whether that succeeds.                                     *)
NotFound == [end |-> "absent", value |-> Nothing]

Lookup(p, k, on, i, n) == IF on /\ k[i] THEN Content(p[i], n) ELSE NotFound

Better(c1, c2) ==
  IF c1.end = "true" \/ Stuck(c1.end) THEN c1
  ELSE IF c2.end = "true" \/ Stuck(c2.end) THEN c2
  ELSE NotFound

Found(p, k, on, n) == Better(Lookup(p, k, on, 1, n), Lookup(p, k, on, 2, n))

Heal(n, v) ==
  IF ~ok[1] \/ Valid(1, n) THEN Leaves ELSE Share(Leaves, 1, n, v, TRUE)

-----------------------------------------------------------------------------
(* The values the two copies together hold, seen when no call is under way:   *)
(* by a reading while the board runs, by the next start while it does not.    *)
(* No action reads it.                                                        *)
FirstTrue(c1, c2) ==
  IF c1.end = "true" THEN c1.value ELSE IF c2.end = "true" THEN c2.value ELSE Nothing

AtStart(p, n) ==
  FirstTrue(IF Good(p[1]) THEN Content(p[1], n) ELSE NotFound,
            IF Good(p[2]) THEN Content(p[2], n) ELSE NotFound)

KeptOff(p) == [n \in Names |-> AtStart(p, n)]

KeptOn(p, k, on) ==
  [n \in Names |-> IF on THEN Found(p, k, on, n).value ELSE AtStart(p, n)]

-----------------------------------------------------------------------------
Init ==
  /\ part = [i \in Copies |-> Unformatted]
  /\ ok = [i \in Copies |-> FALSE]
  /\ free = [i \in Copies |-> {}]
  /\ present = FALSE
  /\ ram = Factory
  /\ synced = 0
  /\ call = Off
  /\ cuts = 0
  /\ kept = [n \in Names |-> Nothing]
  /\ unhealed = FALSE

\* Dnepr_BPEEPROM_Init begins; the EEPROM answers or it does not.
PowerOn ==
  /\ call = Off
  /\ \E seen \in BOOLEAN :
       /\ present' = seen
       /\ call' = [op |-> "init", todo |-> IF seen THEN InitWrites ELSE <<>>]
  /\ UNCHANGED <<part, ok, free, ram, synced, cuts, kept, unhealed>>

InitDone ==
  /\ call.op = "init"
  /\ call.todo = <<>>
  /\ ok' = [i \in Copies |-> present /\ OpenPartition(part[i])]
  /\ free' = [i \in Copies |-> FreeBitmap(part[i])]
  /\ call' = NoCall
  /\ UNCHANGED <<part, present, ram, synced, cuts, unhealed>>
  /\ kept' = KeptOn(part, ok', present)

Begun(op, n, v, c) ==
  [op |-> op, name |-> n, value |-> v, todo |-> c.todo, ok |-> c.ok,
   free |-> c.free, end |-> c.end, healed |-> c.healed]

\* eeprom_sync takes the next parameter: the EEPROM's value or, when it has
\* none, the value in RAM goes the other way.
Synchronised(n, f) ==
  CASE Stuck(f.end)   -> Begun("write", n, ram[n], [Leaves EXCEPT !.end = f.end])
    [] f.end = "true" -> Begun("load", n, f.value, Heal(n, f.value))
    [] OTHER          -> Begun("write", n, ram[n], Write(n, ram[n]))

SyncNext ==
  /\ call = NoCall
  /\ synced < Len(Order)
  /\ LET n == Order[synced + 1]
     IN  call' = Synchronised(n, Found(part, ok, present, n))
  /\ synced' = synced + 1
  /\ UNCHANGED <<part, ok, free, present, ram, cuts, kept, unhealed>>

\* The profile has changed a parameter and ProfileStorage stores it.
Store(n, v) ==
  /\ call = NoCall
  /\ synced = Len(Order)
  /\ ram' = [ram EXCEPT ![n] = v]
  /\ call' = Begun("write", n, v, Write(n, v))
  /\ UNCHANGED <<part, ok, free, present, synced, cuts, kept, unhealed>>

\* One write to the EEPROM.
EepromWrite ==
  /\ call \notin {Off, NoCall}
  /\ call.todo # <<>>
  /\ LET w == Head(call.todo) IN part' = [part EXCEPT ![w[1]] = Written(@, w[2])]
  /\ call' = [call EXCEPT !.todo = Tail(@)]
  /\ UNCHANGED <<ok, free, present, ram, synced, cuts, kept, unhealed>>

CallReturns ==
  /\ call.op \in {"load", "write"}
  /\ call.todo = <<>>
  /\ call.end = "return"
  /\ ok' = call.ok
  /\ free' = call.free
  /\ ram' = [ram EXCEPT ![call.name] = call.value]
  /\ call' = NoCall
  /\ unhealed' = (unhealed \/ ~call.healed)
  /\ UNCHANGED <<part, present, synced, cuts>>
  /\ kept' = KeptOn(part, ok', present)

\* The power fails or the watchdog resets the board: during a call, between
\* two writes or in the middle of one, at most MaxCuts times.  The board that
\* starts next may be another one, with the factory's values.
PowerLoss ==
  /\ call # Off
  /\ IF call # NoCall /\ call.todo # <<>>
     THEN /\ cuts < MaxCuts
          /\ cuts' = cuts + 1
          /\ LET w == Head(call.todo)
             IN  \/ UNCHANGED part
                 \/ part' = [part EXCEPT ![w[1]] = Torn(@, w[2])]
     ELSE UNCHANGED <<part, cuts>>
  /\ ok' = [i \in Copies |-> FALSE]
  /\ free' = [i \in Copies |-> {}]
  /\ present' = FALSE
  /\ ram' = Factory
  /\ synced' = 0
  /\ call' = Off
  /\ kept' = KeptOff(part')
  /\ unhealed' = FALSE

Next ==
  \/ PowerOn
  \/ InitDone
  \/ SyncNext
  \/ \E n \in Names : \E v \in ValuesOf[n] : Store(n, v)
  \/ EepromWrite
  \/ CallReturns
  \/ PowerLoss

Spec == Init /\ [][Next]_vars

-----------------------------------------------------------------------------
(* Types.                                                                     *)
SectorTypes ==
  [good : BOOLEAN, status : {"FREE", "HEAD", "BODY"},
   name : Names \cup {"INVALID_NAME"}, crc : Values \cup {"zero"},
   nexthash : Sectors, prevhash : Sectors, len : Nat, next : Sectors \cup {None},
   data : {<<>>} \cup (Values \X (Nat \ {0}))]

Partitions ==
  [head : BOOLEAN, table : [Bins -> Sectors \cup {None}],
   crc : [Bins -> Sectors \cup {None}] \cup {<<>>}, sector : [Sectors -> SectorTypes]]

\* The fields a sector is read into keep to their ranges, in both partitions.
TypeOK ==
  /\ part \in [Copies -> Partitions]
  /\ ok \in [Copies -> BOOLEAN]
  /\ free \in [Copies -> SUBSET Sectors]
  /\ present \in BOOLEAN
  /\ ram \in [Names -> Values]
  /\ synced \in 0 .. Len(Order)
  /\ cuts \in 0 .. MaxCuts
  /\ call.op \in {"none", "off", "init", "load", "write"}

Requested == IF call.op = "write" THEN <<call.name, call.value>> ELSE Nothing

(* Whatever is written and wherever the power fails, the two copies together  *)
(* are one store: a name keeps its value or gets the one being written to it, *)
(* and no other name changes.                                                 *)
Store1 == INSTANCE ParamStore
  WITH store <- kept, request <- Requested
Promise == Store1!Spec

\* No call fails an assertion of the store or goes round a hash chain for ever.
CallsReturn == call.op \in {"load", "write"} => ~Stuck(call.end)

(* When nothing is under way and all parameters are synchronised, the next    *)
(* start would find exactly what is in RAM, unless calls were cut off twice.  *)
RamIsStored ==
  call = NoCall /\ synced = Len(Order) /\ present /\ cuts <= 1 =>
    \A n \in Names : AtStart(part, n) = ram[n]

\* At rest no sector of a partition in use that belongs to a record is taken
\* for a free one, however often calls were cut off.
BitmapSafe ==
  call = NoCall => \A i \in Copies : ok[i] => free[i] \subseteq FreeBitmap(part[i])

\* And the bitmap is the whole truth, unless calls were cut off twice and then a
\* copy could not be written back: that may lose a sector until the next start.
BitmapTrue ==
  call = NoCall /\ (cuts <= 1 \/ ~unhealed) =>
    \A i \in Copies : ok[i] => free[i] = FreeBitmap(part[i])

\* Until the power fails during a call, every sector in use belongs to the
\* chain of exactly one record, and chains hold no free sector.  (After a loss
\* of power sectors may leak or be shared; the mirror has to make up for it.)
SectorsFrom(p, head) ==
  LET Follow(c, k) == c \cup ({p.sector[s].next : s \in c} \ {None})
  IN  IF Running(head) /\ head.at # None
      THEN Loop(Follow, {head.at}, 2, head.buf.len)
      ELSE {}

RecordSectors(p, n) == SectorsFrom(p, Seek(Begin(p, {}), n))

SectorsAccounted ==
  call = NoCall /\ cuts = 0 => \A i \in Copies : ok[i] =>
    \A s \in Sectors :
      Cardinality({n \in Names : s \in RecordSectors(part[i], n)})
        = IF s \in FreeBitmap(part[i]) THEN 0 ELSE 1
=============================================================================
