------------------------ MODULE MirroredEeprom_proofs ------------------------
(* The parameters in the EEPROM, for any names, values, hash functions and    *)
(* sizes of partitions.  However often the power fails during a call: types,  *)
(* that no sector of a record is ever taken for a free one, and when no free  *)
(* sector is forgotten.  Until it fails during a call for the first time: the *)
(* layout of the records, that every sector is accounted for and every call   *)
(* returns and, with room for everything, that the next start finds what is   *)
(* in RAM and the two copies are one store, the first such failure included.  *)
EXTENDS MirroredEeprom, FoldLemmas

Places == Sectors \cup {None}
Tables == [Bins -> Places]
Pieces == {<<>>} \cup (Values \X (Nat \ {0}))

\* What is not free has a value and is part of a record that has sectors.
GoodSectors ==
  {r \in SectorTypes : r.status # "FREE" => r.crc \in Values /\ r.len > 0}

GoodPartitions ==
  [head : BOOLEAN, table : Tables, crc : Tables \cup {<<>>},
   sector : [Sectors -> GoodSectors]]

Writes ==
  [to : {"sector"}, at : Places, what : GoodSectors]
    \cup [to : {"bin"}, at : Bins, what : Places]
    \cup [to : {"table"}, what : Tables]
    \cup [to : {"crc"}, what : Tables \cup {<<>>}]
    \cup [to : {"head"}, what : BOOLEAN]

\* An operation under way, by what it puts out; only at its end is it "true".
Stands == {"run", "false", "assert", "loop", "walk"}

Machines(O) ==
  [p : GoodPartitions, free : SUBSET Sectors, at : Places, buf : GoodSectors,
   out : Seq(O), end : Stands]

Readers == Machines(Pieces)
Writers == Machines(Writes)

-----------------------------------------------------------------------------
(* Constants and fields.                                                      *)
LEMMA Constants ==
  /\ NSectors \in Nat \ {0} /\ Size \in [Values -> Nat \ {0}]
  /\ Nothing \notin Values /\ Sectors \subseteq Nat /\ None \notin Sectors
  /\ IsFiniteSet(Sectors)
<1>1. IsFiniteSet(0 .. NSectors - 1)
  BY EepromAssumption, FS_Interval
<1> QED
  BY <1>1, EepromAssumption DEF Sectors, None

LEMMA BinOf == \A n \in Names : Hash[n] \in Bins
  BY DEF Bins

LEMMA FreeSectorIsGood == FreeSector \in GoodSectors /\ FreeSector.status = "FREE"
<1>1. 0 \in Sectors
  BY Constants DEF Sectors
<1> QED
  BY <1>1 DEF FreeSector, GoodSectors, SectorTypes, Sectors

LEMMA MachineFields ==
  ASSUME NEW O, NEW m \in Machines(O)
  PROVE  /\ m.p \in GoodPartitions /\ m.free \subseteq Sectors /\ m.at \in Places
         /\ m.buf \in GoodSectors /\ m.out \in Seq(O) /\ m.end \in Stands
  BY DEF Machines

LEMMA PartitionFields ==
  ASSUME NEW p \in GoodPartitions
  PROVE  /\ p.head \in BOOLEAN /\ p.table \in Tables /\ p.crc \in Tables \cup {<<>>}
         /\ p.sector \in [Sectors -> GoodSectors]
         /\ \A s \in Sectors : p.sector[s] \in GoodSectors
  BY DEF GoodPartitions

LEMMA SectorFields ==
  ASSUME NEW r \in GoodSectors
  PROVE  /\ r \in SectorTypes /\ r.good \in BOOLEAN
         /\ r.status \in {"FREE", "HEAD", "BODY"}
         /\ r.nexthash \in Sectors /\ r.prevhash \in Sectors /\ r.next \in Places
         /\ r.len \in Nat /\ r.crc \in Values \cup {"zero"}
         /\ (r.status # "FREE" => r.crc \in Values /\ r.len > 0)
  BY DEF GoodSectors, SectorTypes, Places

\* One field of an operation under way changes.
LEMMA MachineExcept ==
  ASSUME NEW O, NEW m \in Machines(O)
  PROVE  /\ \A e \in Stands : [m EXCEPT !.end = e] \in Machines(O)
         /\ \A a \in Places : [m EXCEPT !.at = a] \in Machines(O)
         /\ \A b \in GoodSectors : [m EXCEPT !.buf = b] \in Machines(O)
         /\ \A f \in SUBSET Sectors : [m EXCEPT !.free = f] \in Machines(O)
         /\ \A a \in Places, b \in GoodSectors :
              [m EXCEPT !.at = a, !.buf = b] \in Machines(O)
         /\ \A a \in Places, e \in Stands :
              [m EXCEPT !.at = a, !.end = e] \in Machines(O)
  BY DEF Machines

-----------------------------------------------------------------------------
(* Writes.                                                                    *)
LEMMA WriteKinds ==
  ASSUME NEW w \in Writes
  PROVE  \/ w.to = "sector" /\ w.at \in Places /\ w.what \in GoodSectors
         \/ w.to = "bin" /\ w.at \in Bins /\ w.what \in Places
         \/ w.to = "table" /\ w.what \in Tables
         \/ w.to = "crc" /\ w.what \in Tables \cup {<<>>}
         \/ w.to = "head" /\ w.what \in BOOLEAN
  BY DEF Writes

LEMMA WritesAre ==
  /\ \A s \in Places, r \in GoodSectors : SectorWrite(s, r) \in Writes
  /\ \A b \in Bins, s \in Places : BinWrite(b, s) \in Writes
  /\ \A t \in Tables : TableWrite(t) \in Writes
  /\ \A t \in Tables \cup {<<>>} : CrcWrite(t) \in Writes
  /\ \A g \in BOOLEAN : HeaderWrite(g) \in Writes
<1>1. \A s \in Places, r \in GoodSectors : SectorWrite(s, r) \in Writes
  BY DEF SectorWrite, Writes
<1>2. \A b \in Bins, s \in Places : BinWrite(b, s) \in Writes
  BY DEF BinWrite, Writes
<1>3. \A t \in Tables : TableWrite(t) \in Writes
  BY DEF TableWrite, Writes
<1>4. \A t \in Tables \cup {<<>>} : CrcWrite(t) \in Writes
  BY DEF CrcWrite, Writes
<1>5. \A g \in BOOLEAN : HeaderWrite(g) \in Writes
  BY DEF HeaderWrite, Writes
<1> QED
  BY <1>1, <1>2, <1>3, <1>4, <1>5

LEMMA WrittenType ==
  ASSUME NEW p \in GoodPartitions, NEW w \in Writes
  PROVE  Written(p, w) \in GoodPartitions
<1>1. CASE w.to = "sector"
  <2>1. Written(p, w) = [p EXCEPT !.sector[w.at] = w.what] /\ w.what \in GoodSectors
    BY <1>1, WriteKinds DEF Written
  <2> QED
    BY <2>1 DEF GoodPartitions
<1>2. CASE w.to = "bin"
  <2>1. Written(p, w) = [p EXCEPT !.table[w.at] = w.what] /\ w.what \in Places
    BY <1>2, WriteKinds DEF Written
  <2> QED
    BY <2>1 DEF GoodPartitions, Tables
<1>3. CASE w.to = "table"
  <2>1. Written(p, w) = [p EXCEPT !.table = w.what] /\ w.what \in Tables
    BY <1>3, WriteKinds DEF Written
  <2> QED
    BY <2>1 DEF GoodPartitions
<1>4. CASE w.to = "crc"
  <2>1. Written(p, w) = [p EXCEPT !.crc = w.what] /\ w.what \in Tables \cup {<<>>}
    BY <1>4, WriteKinds DEF Written
  <2> QED
    BY <2>1 DEF GoodPartitions
<1>5. CASE w.to = "head"
  <2>1. Written(p, w) = [p EXCEPT !.head = w.what] /\ w.what \in BOOLEAN
    BY <1>5, WriteKinds DEF Written
  <2> QED
    BY <2>1 DEF GoodPartitions
<1> QED
  BY <1>1, <1>2, <1>3, <1>4, <1>5, WriteKinds

\* A write cut short leaves a sector of the same shape, with a bad CRC.
LEMMA TornType ==
  ASSUME NEW p \in GoodPartitions, NEW w \in Writes
  PROVE  Torn(p, w) \in GoodPartitions
<1>1. CASE w.to = "sector"
  <2> DEFINE r == [w.what EXCEPT !.good = FALSE]
  <2>1. Torn(p, w) = [p EXCEPT !.sector[w.at] = r] /\ w.what \in GoodSectors
    BY <1>1, WriteKinds DEF Torn
  <2>2. r \in GoodSectors
    BY <2>1 DEF GoodSectors, SectorTypes
  <2> HIDE DEF r
  <2> QED
    BY <2>1, <2>2 DEF GoodPartitions
<1>2. CASE w.to = "head"
  BY <1>2 DEF Torn, GoodPartitions
<1>3. CASE w.to \in {"bin", "table", "crc"}
  <2>1. Torn(p, w) = [p EXCEPT !.crc = <<>>]
    BY <1>3 DEF Torn
  <2> QED
    BY <2>1 DEF GoodPartitions
<1> QED
  BY <1>1, <1>2, <1>3, WriteKinds

-----------------------------------------------------------------------------
(* Reading.                                                                   *)
LEMMA ExpectType ==
  ASSUME NEW O, NEW m \in Machines(O), NEW r, r = m \/ r = [m EXCEPT !.end = "false"]
  PROVE  /\ r \in Machines(O)
         /\ r.p = m.p /\ r.free = m.free /\ r.at = m.at /\ r.buf = m.buf
         /\ r.out = m.out
         /\ Running(r) => Running(m) /\ r = m
         /\ r.end \in {m.end, "false"}
<1>1. CASE r = m
  BY <1>1
<1>2. CASE r = [m EXCEPT !.end = "false"]
  BY <1>2 DEF Machines, Running, Stands
<1> QED
  BY <1>1, <1>2

LEMMA ReadSectorType ==
  ASSUME NEW O, NEW m \in Machines(O), NEW s
  PROVE  LET r == ReadSector(m, s)
         IN  /\ r \in Machines(O)
             /\ r.p = m.p /\ r.free = m.free /\ r.out = m.out
             /\ Running(r) => /\ Running(m) /\ s \in Sectors /\ r.at = s
                              /\ r.buf = m.p.sector[s] /\ r.buf \in GoodSectors
             /\ r.end \in {m.end, "assert", "false"}
<1>1. CASE ~ Running(m)
  BY <1>1 DEF ReadSector
<1>2. CASE Running(m) /\ s \notin Sectors
  <2>1. ReadSector(m, s) = [m EXCEPT !.end = "assert"]
    BY <1>2 DEF ReadSector
  <2> QED
    BY <2>1 DEF Machines, Running, Stands
<1>3. CASE Running(m) /\ s \in Sectors /\ ~ m.p.sector[s].good
  <2>1. ReadSector(m, s) = [m EXCEPT !.end = "false"]
    BY <1>3 DEF ReadSector
  <2> QED
    BY <2>1 DEF Machines, Running, Stands
<1>4. CASE Running(m) /\ s \in Sectors /\ m.p.sector[s].good
  <2>1. ReadSector(m, s) = [m EXCEPT !.at = s, !.buf = m.p.sector[s]]
    BY <1>4 DEF ReadSector
  <2>2. m.p.sector[s] \in GoodSectors /\ s \in Places
    BY <1>4, MachineFields, PartitionFields DEF Places
  <2>3. ReadSector(m, s) \in Machines(O)
    BY <2>1, <2>2 DEF Machines
  <2> QED
    BY <1>4, <2>1, <2>2, <2>3 DEF Machines
<1> QED
  BY <1>1, <1>2, <1>3, <1>4

LEMMA ReadSectorAsType ==
  ASSUME NEW O, NEW m \in Machines(O), NEW s, NEW status
  PROVE  LET r == ReadSectorAs(m, s, status)
         IN  /\ r \in Machines(O)
             /\ r.p = m.p /\ r.free = m.free /\ r.out = m.out
             /\ Running(r) => /\ Running(m) /\ s \in Sectors /\ r.at = s
                              /\ r.buf = m.p.sector[s] /\ r.buf.status = status
             /\ r.end \in {m.end, "assert", "false"}
<1> DEFINE q == ReadSector(m, s)
<1>1. /\ q \in Machines(O)
      /\ q.p = m.p /\ q.free = m.free /\ q.out = m.out
      /\ Running(q) => /\ Running(m) /\ s \in Sectors /\ q.at = s
                       /\ q.buf = m.p.sector[s]
      /\ q.end \in {m.end, "assert", "false"}
  BY ReadSectorType
<1> HIDE DEF q
<1>2. ReadSectorAs(m, s, status) = Expect(q, q.buf.status = status)
  BY DEF ReadSectorAs, HasStatus, q
<1>3. CASE Running(q) /\ q.buf.status # status
  <2>1. ReadSectorAs(m, s, status) = [q EXCEPT !.end = "false"]
    BY <1>2, <1>3 DEF Expect
  <2> QED
    BY <1>1, <2>1 DEF Machines, Running, Stands
<1>4. CASE ~ (Running(q) /\ q.buf.status # status)
  <2>1. ReadSectorAs(m, s, status) = q
    BY <1>2, <1>4 DEF Expect
  <2> QED
    BY <1>1, <1>4, <2>1
<1> QED
  BY <1>3, <1>4

-----------------------------------------------------------------------------
(* The walk along a hash chain.                                               *)
SeekStep(r, name, first) ==
  IF r.end # "walk" THEN r
  ELSE Recognise(ReadSectorAs([r EXCEPT !.end = "run"], r.at, "HEAD"), name, first)

\* Walks of m to name: the partition and the bitmap stay, and when it has come
\* to a record it is the head of the one it looked for.
Walks(O, m, name) ==
  {r \in Machines(O) :
     /\ r.p = m.p /\ r.free = m.free /\ r.out = m.out
     /\ Running(r) /\ r.at # None =>
          /\ r.at \in Sectors /\ r.buf = m.p.sector[r.at]
          /\ r.buf.status = "HEAD" /\ r.buf.name = name}

LEMMA SeekStepType ==
  ASSUME NEW O, NEW r \in Machines(O), NEW name, NEW first
  PROVE  /\ SeekStep(r, name, first) \in Machines(O)
         /\ \A m : r \in Walks(O, m, name) => SeekStep(r, name, first) \in Walks(O, m, name)
<1>1. CASE r.end # "walk"
  BY <1>1 DEF SeekStep
<1>2. CASE r.end = "walk"
  <2> DEFINE q == [r EXCEPT !.end = "run"]
             t == ReadSectorAs(q, r.at, "HEAD")
  <2>1. q \in Machines(O) /\ q.p = r.p /\ q.free = r.free /\ q.out = r.out
    BY DEF Machines, Stands
  <2> HIDE DEF q
  <2>2. /\ t \in Machines(O)
        /\ t.p = r.p /\ t.free = r.free /\ t.out = r.out
        /\ Running(t) => /\ r.at \in Sectors /\ t.at = r.at
                         /\ t.buf = r.p.sector[r.at] /\ t.buf.status = "HEAD"
    BY <2>1, ReadSectorAsType
  <2> HIDE DEF t
  <2>3. SeekStep(r, name, first) = Recognise(t, name, first)
    BY <1>2 DEF SeekStep, t, q
  <2>4. CASE ~ Running(t) \/ t.buf.name = name
    <3>1. SeekStep(r, name, first) = t
      BY <2>3, <2>4 DEF Recognise
    <3> QED
      BY <2>2, <2>4, <3>1 DEF Walks
  <2>5. CASE Running(t) /\ t.buf.name # name /\ t.buf.nexthash = first
    <3>1. SeekStep(r, name, first) = [t EXCEPT !.at = None]
      BY <2>3, <2>5 DEF Recognise
    <3>2. None \in Places
      BY DEF Places
    <3> QED
      BY <2>2, <3>1, <3>2 DEF Walks, Machines
  <2>6. CASE Running(t) /\ t.buf.name # name /\ t.buf.nexthash # first
    <3>1. SeekStep(r, name, first) = [t EXCEPT !.end = "walk", !.at = t.buf.nexthash]
      BY <2>3, <2>6 DEF Recognise
    <3>2. t.buf.nexthash \in Places
      BY <2>2, MachineFields, SectorFields DEF Places
    <3> QED
      BY <2>2, <3>1, <3>2 DEF Walks, Machines, Running, Stands
  <2> QED
    BY <2>4, <2>5, <2>6
<1> QED
  BY <1>1, <1>2

SeekWalk(m, name, first, last) ==
  Loop(LAMBDA r, k : SeekStep(r, name, first), m, 1, last)

\* The walk along a hash chain is a run of its steps.
LEMMA SeekRun ==
  ASSUME NEW O, NEW m \in Machines(O), NEW name, NEW first
  PROVE  \E h \in [Nat -> Machines(O)] :
           /\ h[0] = m
           /\ \A k \in Nat : h[k + 1] = SeekStep(h[k], name, first)
           /\ \A last \in Int :
                SeekWalk(m, name, first, last) = h[IF 1 <= last THEN last - 1 + 1 ELSE 0]
<1> DEFINE M == Machines(O)
           B == [x \in M \X Nat |-> SeekStep(x[1], name, first)]
<1>1. B \in [M \X Nat -> M]
  BY SeekStepType
<1>2. PICK g \in [Nat -> M] : Iterates(g, B, m, 1)
  BY <1>1, IteratesExists
<1>3. g = [k \in Nat |-> IF k = 0 THEN m ELSE SeekStep(g[k - 1], name, first)]
  <2>1. \A k \in Nat : k # 0 => g[k - 1] \in M /\ 1 + k - 1 \in Nat
    BY <1>2
  <2>2. \A k \in Nat : k # 0 =>
          B[<<g[k - 1], 1 + k - 1>>] = SeekStep(g[k - 1], name, first)
    BY <2>1
  <2> HIDE DEF B
  <2> QED
    BY <1>2, <2>2 DEF Iterates
<1> DEFINE h == CHOOSE f :
             f = [k \in Nat |-> IF k = 0 THEN m ELSE SeekStep(f[k - 1], name, first)]
<1>4. h = [k \in Nat |-> IF k = 0 THEN m ELSE SeekStep(h[k - 1], name, first)]
  BY <1>3
<1>5. ASSUME NEW last \in Int
      PROVE  SeekWalk(m, name, first, last) = h[IF 1 <= last THEN last - 1 + 1 ELSE 0]
  BY DEF SeekWalk, Loop
<1> HIDE DEF h
<1>6. h[0] = m
  BY <1>4
<1>7. \A k \in Nat : h[k + 1] = SeekStep(h[k], name, first)
  <2> TAKE k \in Nat
  <2>1. k + 1 \in Nat /\ k + 1 # 0 /\ (k + 1) - 1 = k
    OBVIOUS
  <2> QED
    BY <1>4, <2>1
<1>8. \A k \in Nat : h[k] \in M => h[k + 1] \in M
  BY <1>7, SeekStepType
<1>9. h = [k \in Nat |-> h[k]]
  BY <1>4
<1>10. h \in [Nat -> M]
  BY <1>6, <1>8, <1>9, StaysIn
<1> QED
  BY <1>5, <1>6, <1>7, <1>10

LEMMA SeekLoop ==
  ASSUME NEW O, NEW m \in Machines(O), NEW name, NEW first, NEW last \in Int,
         NEW q, m \in Walks(O, q, name)
  PROVE  SeekWalk(m, name, first, last) \in Walks(O, q, name)
<1>1. PICK h \in [Nat -> Machines(O)] :
        /\ h[0] = m
        /\ \A k \in Nat : h[k + 1] = SeekStep(h[k], name, first)
        /\ \A x \in Int : SeekWalk(m, name, first, x) = h[IF 1 <= x THEN x - 1 + 1 ELSE 0]
  BY SeekRun
<1> DEFINE G == [k \in Nat |-> Walks(O, q, name)]
<1>2. \A k \in Nat : h[k] \in G[k] => h[k + 1] \in G[k + 1]
  BY <1>1, SeekStepType DEF Walks
<1>3. \A k \in Nat : h[k] \in G[k]
  BY <1>1, <1>2, KeptAlong
<1> QED
  BY <1>1, <1>3

LEMMA SeekType ==
  ASSUME NEW O, NEW m \in Machines(O), Running(m), NEW name \in Names
  PROVE  Seek(m, name) \in Walks(O, m, name) /\ Seek(m, name).end # "walk"
<1> DEFINE first == m.p.table[Hash[name]]
<1>1. first \in Places
  BY MachineFields, PartitionFields, BinOf DEF Tables
<1>2. CASE first = None
  <2>1. Seek(m, name) = [m EXCEPT !.at = None]
    BY <1>2 DEF Seek
  <2>2. None \in Places
    BY DEF Places
  <2> QED
    BY <2>1, <2>2 DEF Walks, Machines, Running
<1>3. CASE first # None
  <2> DEFINE q == [m EXCEPT !.at = first, !.end = "walk"]
             t == SeekWalk(q, name, first, NSectors + 1)
  <2>1. q \in Machines(O) /\ q \in Walks(O, m, name)
    BY <1>1 DEF Walks, Machines, Running, Stands
  <2>2. NSectors + 1 \in Int
    BY Constants
  <2>3. Seek(m, name) = Endless(t)
    BY <1>3 DEF Seek, SeekStep, SeekWalk, Loop
  <2> HIDE DEF q
  <2>4. t \in Walks(O, m, name)
    BY <2>1, <2>2, SeekLoop
  <2> HIDE DEF t
  <2>5. CASE t.end = "walk"
    BY <2>3, <2>4, <2>5 DEF Endless, Walks, Machines, Running, Stands
  <2>6. CASE t.end # "walk"
    BY <2>3, <2>4, <2>6 DEF Endless
  <2> QED
    BY <2>5, <2>6
<1> QED
  BY <1>2, <1>3

-----------------------------------------------------------------------------
(* What is read of a record.                                                  *)
LEMMA ReadNextType ==
  ASSUME NEW O, NEW m \in Machines(O)
  PROVE  LET r == ReadNext(m)
         IN  /\ r \in Machines(O)
             /\ r.p = m.p /\ r.free = m.free /\ r.out = m.out
             /\ Running(r) => /\ Running(m) /\ r.at \in Sectors
                              /\ r.buf = m.p.sector[r.at] /\ r.buf.status = "BODY"
  BY ReadSectorAsType DEF ReadNext

LEMMA GatherType ==
  ASSUME NEW m \in Readers, NEW i
  PROVE  Gather(m, i) \in Readers
<1> DEFINE q == IF m.buf.next # None THEN ReadNext(m) ELSE m
<1>1. q \in Readers
  BY ReadNextType DEF Readers
<1>2. Gather(m, i) = Collected(q)
  BY DEF Gather
<1> HIDE DEF q
<1>3. q.buf.data \in Pieces /\ q.out \in Seq(Pieces)
  BY <1>1, MachineFields DEF Readers, GoodSectors, SectorTypes, Pieces
<1>4. Append(q.out, q.buf.data) \in Seq(Pieces)
  BY <1>3
<1>5. CASE Running(q)
  <2>1. Gather(m, i) = [q EXCEPT !.out = Append(q.out, q.buf.data)]
    BY <1>2, <1>5 DEF Collected
  <2> QED
    BY <1>1, <1>4, <2>1 DEF Readers, Machines
<1>6. CASE ~ Running(q)
  BY <1>1, <1>2, <1>6 DEF Collected
<1> QED
  BY <1>5, <1>6

\* The reading of a content is a run of its steps.
LEMMA GathersRun ==
  ASSUME NEW m \in Readers
  PROVE  \E h \in [Nat -> Readers] :
           /\ h[0] = m
           /\ \A k \in Nat : h[k + 1] = Gather(h[k], 1 + k)
           /\ \A last \in Int :
                Loop(Gather, m, 1, last) = h[IF 1 <= last THEN last - 1 + 1 ELSE 0]
<1> DEFINE B == [x \in Readers \X Nat |-> Gather(x[1], x[2])]
<1>1. B \in [Readers \X Nat -> Readers]
  BY GatherType
<1>2. PICK g \in [Nat -> Readers] : Iterates(g, B, m, 1)
  BY <1>1, IteratesExists
<1>3. g = [k \in Nat |-> IF k = 0 THEN m ELSE Gather(g[k - 1], 1 + k - 1)]
  <2>1. \A k \in Nat : k # 0 => g[k - 1] \in Readers /\ 1 + k - 1 \in Nat
    BY <1>2
  <2>2. \A k \in Nat : k # 0 =>
          B[<<g[k - 1], 1 + k - 1>>] = Gather(g[k - 1], 1 + k - 1)
    BY <2>1
  <2> HIDE DEF B
  <2> QED
    BY <1>2, <2>2 DEF Iterates
<1> DEFINE h == CHOOSE f :
             f = [k \in Nat |-> IF k = 0 THEN m ELSE Gather(f[k - 1], 1 + k - 1)]
<1>4. h = [k \in Nat |-> IF k = 0 THEN m ELSE Gather(h[k - 1], 1 + k - 1)]
  BY <1>3
<1>5. ASSUME NEW last \in Int
      PROVE  Loop(Gather, m, 1, last) = h[IF 1 <= last THEN last - 1 + 1 ELSE 0]
  BY DEF Loop
<1> HIDE DEF h
<1>6. h[0] = m
  BY <1>4
<1>7. \A k \in Nat : h[k + 1] = Gather(h[k], 1 + k)
  <2> TAKE k \in Nat
  <2>1. k + 1 \in Nat /\ k + 1 # 0 /\ (k + 1) - 1 = k /\ 1 + (k + 1) - 1 = 1 + k
    OBVIOUS
  <2> QED
    BY <1>4, <2>1
<1>8. \A k \in Nat : h[k] \in Readers => h[k + 1] \in Readers
  BY <1>7, GatherType
<1>9. h = [k \in Nat |-> h[k]]
  BY <1>4
<1>10. h \in [Nat -> Readers]
  BY <1>6, <1>8, <1>9, StaysIn
<1> QED
  BY <1>5, <1>6, <1>7, <1>10

LEMMA GatherLoop ==
  ASSUME NEW m \in Readers, NEW last \in Int
  PROVE  Loop(Gather, m, 1, last) \in Readers
<1>1. PICK h \in [Nat -> Readers] :
        \A x \in Int : Loop(Gather, m, 1, x) = h[IF 1 <= x THEN x - 1 + 1 ELSE 0]
  BY GathersRun
<1> QED
  BY <1>1

\* What is found is a value.
LEMMA ContentType ==
  ASSUME NEW p \in GoodPartitions, NEW name \in Names
  PROVE  Content(p, name).end = "true" => Content(p, name).value \in Values
<1> DEFINE b == Begin(p, {})
           m == Seek(b, name)
<1>1. b \in Readers /\ Running(b)
  BY FreeSectorIsGood DEF Begin, Readers, Machines, Running, Places, Stands
<1>2. m \in Walks(Pieces, b, name)
  BY <1>1, SeekType DEF Readers
<1>3. Content(p, name) = ContentAt(m)
  BY DEF Content
<1> HIDE DEF m, b
<1>4. m \in Readers /\ m.end # "true"
  BY <1>2 DEF Walks, Readers, Machines, Stands
<1>5. CASE ~ Running(m) \/ m.at = None
  BY <1>3, <1>4, <1>5 DEF ContentAt, NoContent
<1>6. CASE Running(m) /\ m.at # None
  <2> DEFINE q == [m EXCEPT !.out = <<m.buf.data>>]
             t == Loop(Gather, q, 1, m.buf.len - 1)
  <2>1. m.buf.status = "HEAD" /\ m.buf \in GoodSectors
    BY <1>2, <1>6, MachineFields DEF Walks
  <2>2. m.buf.crc \in Values /\ m.buf.len - 1 \in Int
    BY <2>1, SectorFields
  <2>3. <<m.buf.data>> \in Seq(Pieces)
    BY <2>1 DEF GoodSectors, SectorTypes, Pieces
  <2>4. q \in Readers
    BY <1>4, <2>3 DEF Readers, Machines
  <2>5. Content(p, name) = Verified(t, m.buf.crc)
    BY <1>3, <1>6 DEF ContentAt
  <2> HIDE DEF q
  <2>6. t \in Readers
    BY <2>2, <2>4, GatherLoop
  <2>7. t.end # "true"
    BY <2>6 DEF Readers, Machines, Stands
  <2> HIDE DEF t
  <2> QED
    BY <2>2, <2>5, <2>7 DEF Verified, NoContent
<1> QED
  BY <1>5, <1>6

-----------------------------------------------------------------------------
(* Writes one after the other.                                                *)

\* The writes lead from one partition to another.
Leads(p, writes, q) ==
  \E h \in [0 .. Len(writes) -> GoodPartitions] :
    /\ h[0] = p /\ h[Len(writes)] = q
    /\ \A k \in 1 .. Len(writes) : h[k] = Written(h[k - 1], writes[k])

LEMMA LeadsNowhere == \A p \in GoodPartitions : Leads(p, <<>>, p)
<1> TAKE p \in GoodPartitions
<1> DEFINE h == [k \in 0 .. 0 |-> p]
<1>1. h \in [0 .. Len(<<>>) -> GoodPartitions] /\ h[0] = p
  OBVIOUS
<1> HIDE DEF h
<1> QED
  BY <1>1 DEF Leads

LEMMA LeadsFurther ==
  ASSUME NEW p, NEW q \in GoodPartitions, NEW writes \in Seq(Writes), NEW w \in Writes,
         Leads(p, writes, q)
  PROVE  Leads(p, Append(writes, w), Written(q, w))
<1> DEFINE n == Len(writes)
           more == Append(writes, w)
<1>1. PICK h \in [0 .. n -> GoodPartitions] :
        /\ h[0] = p /\ h[n] = q
        /\ \A k \in 1 .. n : h[k] = Written(h[k - 1], writes[k])
  BY DEF Leads
<1>2. /\ n \in Nat /\ Len(more) = n + 1 /\ more[n + 1] = w
      /\ \A k \in 1 .. n : more[k] = writes[k]
  OBVIOUS
<1> DEFINE g == [k \in 0 .. n + 1 |-> IF k <= n THEN h[k] ELSE Written(q, w)]
<1>3. Written(q, w) \in GoodPartitions
  BY WrittenType
<1>4. /\ g \in [0 .. n + 1 -> GoodPartitions] /\ g[0] = p /\ g[n + 1] = Written(q, w)
      /\ \A k \in 0 .. n : g[k] = h[k]
  BY <1>1, <1>2, <1>3
<1> HIDE DEF g, n, more
<1>5. ASSUME NEW k \in 1 .. n + 1 PROVE g[k] = Written(g[k - 1], more[k])
  <2>1. CASE k = n + 1
    <3>1. k - 1 = n /\ n \in 0 .. n
      BY <1>2, <2>1
    <3>2. g[k - 1] = q
      BY <1>1, <1>4, <3>1
    <3> QED
      BY <1>2, <1>4, <2>1, <3>2
  <2>2. CASE k \in 1 .. n
    <3>1. k \in 0 .. n /\ k - 1 \in 0 .. n
      BY <1>2, <2>2
    <3> QED
      BY <1>1, <1>2, <1>4, <2>2, <3>1
  <2> QED
    BY <1>2, <2>1, <2>2
<1>6. Len(more) = n + 1
  BY <1>2
<1>7. Leads(p, more, Written(q, w))
  BY <1>4, <1>5, <1>6 DEF Leads
<1> QED
  BY <1>7 DEF more

-----------------------------------------------------------------------------
(* Operations that write, on a partition that was p0 and with a bitmap that   *)
(* was f0 when they began.                                                    *)

\* While the operation runs and if the bitmap was the truth, the sectors free in
\* the EEPROM but not in the bitmap are among those of spare.
Tight(p0, f0, m, spare) ==
  Running(m) /\ f0 = FreeBitmap(p0) => FreeBitmap(m.p) \subseteq m.free \cup spare

\* What it has put out leads to the partition it sees, and what it takes for
\* free is free.
Sane(p0, f0, spare) ==
  {m \in Writers : /\ m.free \subseteq FreeBitmap(m.p) /\ Leads(p0, m.out, m.p)
                   /\ Tight(p0, f0, m, spare)}

\* The sector at hand is in use, or about to be.
Owns(m) == Running(m) => m.at \notin m.free /\ m.buf.status # "FREE"

Held(p0, f0) == {m \in Writers : m \in Sane(p0, f0, {m.at}) /\ Owns(m)}

LEMMA SaneIsTyped == \A p0, f0, spare, m : m \in Sane(p0, f0, spare) => m \in Writers
  BY DEF Sane

LEMMA SaneStays ==
  ASSUME NEW p0, NEW f0, NEW spare, NEW m \in Sane(p0, f0, spare), NEW r \in Writers,
         r.p = m.p, r.free = m.free, r.out = m.out, Running(r) => Running(m)
  PROVE  r \in Sane(p0, f0, spare)
  BY DEF Sane, Tight

LEMMA SaneMore ==
  ASSUME NEW p0, NEW f0, NEW a, NEW b, a \subseteq b, NEW m \in Sane(p0, f0, a)
  PROVE  m \in Sane(p0, f0, b)
  BY DEF Sane, Tight

LEMMA HeldFrom ==
  ASSUME NEW p0, NEW f0, NEW m \in Sane(p0, f0, {}), Owns(m)
  PROVE  m \in Held(p0, f0)
  BY SaneMore, SaneIsTyped DEF Held

\* The sectors to be spared after a write.
Left(rec, s, spare) ==
  IF rec.status = "FREE" THEN spare \cup {s} ELSE spare \ {s}

Spared(w, spare) == IF w.to # "sector" THEN spare ELSE Left(w.what, w.at, spare)

LEMMA PutSane ==
  ASSUME NEW p0, NEW f0, NEW spare, NEW m \in Sane(p0, f0, spare), NEW w \in Writes,
         w.to = "sector" => w.at \notin m.free \/ w.what.status = "FREE"
  PROVE  LET r == Put(m, w)
         IN  /\ r \in Sane(p0, f0, Spared(w, spare))
             /\ r.p = Written(m.p, w) /\ r.free = m.free /\ r.at = m.at
             /\ r.buf = m.buf /\ r.end = m.end
<1> DEFINE q == Written(m.p, w)
           r == Put(m, w)
<1>1. /\ m \in Writers /\ m.p \in GoodPartitions /\ m.out \in Seq(Writes)
      /\ m.free \subseteq FreeBitmap(m.p) /\ Leads(p0, m.out, m.p)
      /\ Tight(p0, f0, m, spare)
  BY MachineFields DEF Sane, Writers
<1>2. q \in GoodPartitions /\ Append(m.out, w) \in Seq(Writes)
  BY <1>1, WrittenType
<1>3. r = [m EXCEPT !.p = q, !.out = Append(m.out, w)]
  BY DEF Put
<1> DEFINE after(s) == IF w.to = "sector" /\ s = w.at THEN w.what ELSE m.p.sector[s]
<1>a. \A s \in Sectors : q.sector[s] = after(s)
  <2>1. m.p.sector \in [Sectors -> GoodSectors]
    BY <1>1, PartitionFields
  <2>2. CASE w.to = "sector"
    <3>1. q = [m.p EXCEPT !.sector[w.at] = w.what]
      BY <2>2 DEF Written
    <3>2. q.sector = [m.p.sector EXCEPT ![w.at] = w.what]
      BY <1>1, <3>1 DEF GoodPartitions
    <3> QED
      BY <2>1, <2>2, <3>2
  <2>3. CASE w.to # "sector"
    <3>1. q.sector = m.p.sector
      BY <1>1, <2>3, WriteKinds DEF Written, GoodPartitions
    <3> QED
      BY <2>3, <3>1
  <2> QED
    BY <2>2, <2>3
<1>4. m.free \subseteq FreeBitmap(q)
  BY <1>1, <1>a DEF FreeBitmap
<1>b. \A s \in FreeBitmap(q) : s \in FreeBitmap(m.p) \cup Spared(w, {}) /\ s \in Sectors
  BY <1>a DEF FreeBitmap, Spared, Left
<1>c. \A s \in FreeBitmap(q) : w.to = "sector" /\ s = w.at => w.what.status = "FREE"
  BY <1>a DEF FreeBitmap
<1>d. FreeBitmap(m.p) \subseteq m.free \cup spare =>
        FreeBitmap(q) \subseteq m.free \cup Spared(w, spare)
  BY <1>b, <1>c DEF Spared, Left
<1>5. Leads(p0, Append(m.out, w), q)
  BY <1>1, LeadsFurther
<1> HIDE DEF q
<1>6. r \in Writers /\ r.p = q /\ r.out = Append(m.out, w) /\ r.free = m.free
      /\ r.at = m.at /\ r.buf = m.buf /\ r.end = m.end
  BY <1>1, <1>2, <1>3 DEF Writers, Machines
<1>e. Tight(p0, f0, r, Spared(w, spare))
  BY <1>1, <1>6, <1>d DEF Tight, Running
<1>7. r \in Sane(p0, f0, Spared(w, spare))
  BY <1>4, <1>5, <1>6, <1>e DEF Sane
<1> QED
  BY <1>6, <1>7 DEF q

LEMMA WriteSectorSane ==
  ASSUME NEW p0, NEW f0, NEW spare, NEW m \in Sane(p0, f0, spare), NEW s \in Places,
         NEW rec,
         Running(m) => rec \in GoodSectors /\ (s \notin m.free \/ rec.status = "FREE")
  PROVE  LET r == WriteSector(m, s, rec)
         IN  /\ r \in Sane(p0, f0, Left(rec, s, spare))
             /\ r.free = m.free /\ r.at = m.at /\ r.end = m.end
             /\ Running(m) => r.buf = rec /\ r.p = Written(m.p, SectorWrite(s, rec))
             /\ ~ Running(m) => r = m
<1> DEFINE left == Left(rec, s, spare)
<1>1. CASE ~ Running(m)
  <2>1. m \in Sane(p0, f0, left)
    BY <1>1 DEF Sane, Tight
  <2> QED
    BY <1>1, <2>1 DEF WriteSector
<1>2. CASE Running(m)
  <2> DEFINE w == SectorWrite(s, rec)
             q == Put(m, w)
             r == WriteSector(m, s, rec)
  <2>1. w \in Writes /\ w.at = s /\ w.what = rec /\ Spared(w, spare) = left
    <3>1. w \in Writes
      BY <1>2, WritesAre
    <3> QED
      BY <3>1 DEF SectorWrite, Spared
  <2> HIDE DEF left
  <2>2. /\ q \in Sane(p0, f0, left) /\ q.p = Written(m.p, w) /\ q.free = m.free /\ q.at = m.at
        /\ q.end = m.end
    BY <1>2, <2>1, PutSane
  <2>3. r = [q EXCEPT !.buf = rec]
    BY <1>2 DEF WriteSector
  <2> HIDE DEF q
  <2>4. /\ r \in Writers /\ r.p = q.p /\ r.free = q.free /\ r.out = q.out
        /\ r.at = q.at /\ r.end = q.end /\ r.buf = rec
    BY <1>2, <2>2, <2>3, SaneIsTyped DEF Writers, Machines
  <2>5. r \in Sane(p0, f0, left)
    BY <2>2, <2>4, SaneStays DEF Running
  <2> QED
    BY <1>2, <2>2, <2>4, <2>5 DEF left
<1> QED
  BY <1>1, <1>2

\* A read finds a sector in use.
LEMMA ReadSane ==
  ASSUME NEW p0, NEW f0, NEW spare, NEW m \in Sane(p0, f0, spare), NEW s,
         NEW status \in {"HEAD", "BODY"}
  PROVE  LET r == ReadSectorAs(m, s, status)
         IN  /\ r \in Sane(p0, f0, spare) /\ Owns(r) /\ r.free = m.free /\ r.p = m.p
             /\ Running(r) => /\ Running(m) /\ r.at = s /\ s \in Sectors
                              /\ r.buf = m.p.sector[s] /\ r.buf.status = status
<1> DEFINE r == ReadSectorAs(m, s, status)
<1>1. m \in Machines(Writes)
  BY SaneIsTyped DEF Writers
<1>2. /\ r \in Machines(Writes)
      /\ r.p = m.p /\ r.free = m.free /\ r.out = m.out
      /\ Running(r) => /\ Running(m) /\ s \in Sectors /\ r.at = s
                       /\ r.buf = m.p.sector[s] /\ r.buf.status = status
  BY <1>1, ReadSectorAsType
<1> HIDE DEF r
<1>3. r \in Sane(p0, f0, spare)
  BY <1>2, SaneStays DEF Writers
<1>4. Owns(r)
  BY <1>2 DEF Sane, FreeBitmap, Owns
<1> QED
  BY <1>2, <1>3, <1>4 DEF r

LEMMA FilledIsGood ==
  ASSUME NEW m \in Writers, NEW v \in Values, NEW i \in Nat
  PROVE  /\ Filled(m, v, i) \in GoodSectors
         /\ m.buf.status # "FREE" => Filled(m, v, i).status # "FREE"
<1> DEFINE f == Filled(m, v, i)
<1>1. m.buf \in GoodSectors /\ Size[v] \in Nat \ {0} /\ i + 1 \in Nat \ {0}
  BY MachineFields, Constants DEF Writers
<1>2. <<v, i + 1>> \in Pieces
  BY <1>1 DEF Pieces
<1>3. (IF i > 0 THEN "BODY" ELSE m.buf.status) \in {"FREE", "HEAD", "BODY"}
  BY <1>1, SectorFields
<1>4. m.buf \in SectorTypes
  BY <1>1, SectorFields
<1>5. f = [m.buf EXCEPT !.status = IF i > 0 THEN "BODY" ELSE m.buf.status,
                        !.len = Size[v], !.crc = v, !.data = <<v, i + 1>>]
  BY DEF Filled
<1>6. f \in SectorTypes
  BY <1>1, <1>2, <1>3, <1>4, <1>5 DEF SectorTypes, Pieces
<1>7. f.crc = v /\ f.len = Size[v] /\ f.status = IF i > 0 THEN "BODY" ELSE m.buf.status
  BY <1>4, <1>5 DEF SectorTypes
<1> QED
  BY <1>1, <1>6, <1>7 DEF GoodSectors

-----------------------------------------------------------------------------
(* The steps of the loops, and the loops.                                     *)
LEMMA HeldIsSane ==
  \A p0, f0, m : m \in Held(p0, f0) =>
    /\ m \in Sane(p0, f0, {m.at}) /\ m \in Writers /\ Owns(m)
    /\ m.at \in Places /\ m.buf \in GoodSectors /\ m.free \subseteq Sectors
  BY MachineFields DEF Held, Writers

LEMMA ExpectHeld ==
  ASSUME NEW p0, NEW f0, NEW m \in Held(p0, f0), NEW r,
         r = m \/ r = [m EXCEPT !.end = "false"]
  PROVE  r \in Held(p0, f0) /\ (Running(r) => r = m)
<1>1. m \in Sane(p0, f0, {m.at}) /\ m \in Machines(Writes)
  BY HeldIsSane DEF Writers
<1>2. /\ r \in Writers /\ r.p = m.p /\ r.free = m.free /\ r.at = m.at /\ r.out = m.out
      /\ Running(r) => Running(m) /\ r = m
  BY <1>1, ExpectType DEF Writers
<1>3. r \in Sane(p0, f0, {r.at})
  BY <1>1, <1>2, SaneStays
<1> QED
  BY <1>2, <1>3, HeldIsSane DEF Held, Owns

LEMMA ReadNextSane ==
  ASSUME NEW p0, NEW f0
  PROVE  \A m \in Sane(p0, f0, {}) : ReadNext(m) \in Sane(p0, f0, {}) /\ Owns(ReadNext(m))
  BY ReadSane DEF ReadNext

\* The sector at hand is written and then in use.
LEMMA WriteOwnSector ==
  ASSUME NEW p0, NEW f0, NEW m, m \in Held(p0, f0), NEW rec, rec \in GoodSectors,
         Running(m) => rec.status # "FREE"
  PROVE  LET r == WriteSector(m, m.at, rec)
         IN  /\ r \in Sane(p0, f0, {}) /\ Owns(r) /\ r.free = m.free /\ r.at = m.at
             /\ Running(r) => Running(m) /\ r.buf = rec
<1> DEFINE r == WriteSector(m, m.at, rec)
           left == Left(rec, m.at, {m.at})
<1>1. m \in Sane(p0, f0, {m.at}) /\ m \in Writers /\ m.at \in Places /\ Owns(m)
  BY HeldIsSane
<1>2. /\ r \in Sane(p0, f0, left) /\ r.free = m.free /\ r.at = m.at /\ r.end = m.end
      /\ Running(m) => r.buf = rec
  BY <1>1, WriteSectorSane DEF Owns
<1> HIDE DEF r
<1>3. Running(r) => left = {} /\ Running(m)
  BY <1>2 DEF Running, Left
<1> HIDE DEF left
<1>4. r \in Sane(p0, f0, {})
  BY <1>2, <1>3 DEF Sane, Tight
<1>5. Owns(r)
  BY <1>1, <1>2, <1>3 DEF Owns
<1> QED
  BY <1>2, <1>3, <1>4, <1>5 DEF r

LEMMA ExpectSane ==
  ASSUME NEW p0, NEW f0, NEW spare, NEW m \in Sane(p0, f0, spare), NEW r,
         r = m \/ r = [m EXCEPT !.end = "false"]
  PROVE  r \in Sane(p0, f0, spare)
<1>1. m \in Machines(Writes)
  BY SaneIsTyped DEF Writers
<1>2. /\ r \in Writers /\ r.p = m.p /\ r.free = m.free /\ r.out = m.out
      /\ Running(r) => Running(m)
  BY <1>1, ExpectType DEF Writers
<1> QED
  BY <1>2, SaneStays

LEMMA RefillSane ==
  ASSUME NEW p0, NEW f0, NEW v \in Values
  PROVE  \A m \in Held(p0, f0), i \in Nat : Refill(m, v, i) \in Held(p0, f0)
<1> TAKE m \in Held(p0, f0), i \in Nat
<1> DEFINE q == WriteSector(m, m.at, Filled(m, v, i))
           t == HasNext(q)
<1>1. m \in Sane(p0, f0, {m.at}) /\ m \in Writers /\ m.at \in Places /\ Owns(m)
  BY HeldIsSane
<1>2. Filled(m, v, i) \in GoodSectors
      /\ (Running(m) => Filled(m, v, i).status # "FREE")
  BY <1>1, FilledIsGood DEF Owns
<1>3. q \in Sane(p0, f0, {})
  BY <1>1, <1>2, WriteOwnSector
<1> HIDE DEF q
<1>4. t = q \/ t = [q EXCEPT !.end = "false"]
  BY DEF HasNext, Expect
<1> HIDE DEF t
<1>5. t \in Sane(p0, f0, {})
  BY <1>3, <1>4, ExpectSane
<1>6. Refill(m, v, i) = ReadNext(t)
  BY DEF Refill, t, q
<1> QED
  BY <1>5, <1>6, ReadNextSane, HeldFrom

LEMMA NextFreeType ==
  ASSUME NEW f \in SUBSET Sectors
  PROVE  /\ f = {} => NextFree(f) = None
         /\ f # {} => NextFree(f) \in f
         /\ NextFree(f) \in Places
<1>1. CASE f = {}
  BY <1>1 DEF NextFree, Places
<1>2. CASE f # {}
  <2>1. PICK x \in f : \A y \in f : ~ (<<y, x>> \in SmallerThan)
    <3>1. f \subseteq Nat
      BY Constants
    <3> QED
      BY <1>2, <3>1, SmallerThanIsWellFounded, WFMin
  <2>2. ASSUME NEW y \in f PROVE x <= y
    <3>1. x \in Nat /\ y \in Nat
      BY Constants
    <3>2. ~ (y < x)
      BY <2>1, <3>1 DEF SmallerThan
    <3> QED
      BY <3>1, <3>2
  <2>3. NextFree(f) \in f
    BY <1>2, <2>2 DEF NextFree
  <2> QED
    BY <1>2, <2>3 DEF Places
<1> QED
  BY <1>1, <1>2

\* Unless more is to come, there is no sector at hand when it is done.
LEMMA LengthenSane ==
  ASSUME NEW p0, NEW f0, NEW v \in Values
  PROVE  \A m \in Held(p0, f0), i \in Nat :
           /\ Lengthen(m, v, i) \in Held(p0, f0)
           /\ i >= Size[v] - 1 => Lengthen(m, v, i) \in Sane(p0, f0, {})
<1> TAKE m \in Held(p0, f0), i \in Nat
<1> DEFINE more == i < Size[v] - 1
           next == IF more THEN NextFree(m.free) ELSE None
           e == Expect(m, more => next # None)
           q == [e EXCEPT !.free = Busy(@, next)]
<1>1. m \in Sane(p0, f0, {m.at}) /\ m \in Writers /\ m.free \subseteq Sectors
  BY HeldIsSane
<1>2. next \in Places /\ (next # None => next \in m.free)
  BY <1>1, NextFreeType DEF Places
<1>3. i >= Size[v] - 1 => next = None
  BY Constants
<1>4. CASE ~ Running(m)
  <2>1. m \in Sane(p0, f0, {})
    BY <1>1, <1>4 DEF Sane, Tight
  <2> QED
    BY <1>4, <2>1 DEF Lengthen
<1>5. CASE Running(m)
  <2>1. Lengthen(m, v, i) = Extend(q, v, i, next)
    BY <1>5 DEF Lengthen
  <2>2. e = m \/ e = [m EXCEPT !.end = "false"]
    BY DEF Expect
  <2> HIDE DEF e, next, more
  <2>3. e \in Held(p0, f0) /\ (Running(e) => e = m)
    BY <2>2, ExpectHeld
  <2>4. e \in Sane(p0, f0, {e.at}) /\ e \in Writers /\ Owns(e) /\ e.free \subseteq Sectors
    BY <2>3, HeldIsSane
  <2>5. q = [e EXCEPT !.free = e.free \ {next}]
    BY DEF Busy
  <2>6. /\ q \in Writers /\ q.p = e.p /\ q.out = e.out /\ q.free = e.free \ {next}
        /\ q.at = e.at /\ q.end = e.end /\ q.buf = e.buf
    BY <2>4, <2>5 DEF Writers, Machines
  <2> HIDE DEF q
  <2>7. q \in Sane(p0, f0, {q.at} \cup {next}) /\ Owns(q)
    BY <2>4, <2>6 DEF Sane, Owns, Running, Tight
  <2>8. CASE ~ Running(q)
    <3>1. Extend(q, v, i, next) = q
      BY <2>8 DEF Extend
    <3>2. q \in Sane(p0, f0, {}) /\ q \in Sane(p0, f0, {q.at})
      BY <2>7, <2>8 DEF Sane, Tight
    <3> QED
      BY <2>1, <2>6, <2>7, <3>1, <3>2 DEF Held
  <2>9. CASE Running(q)
    <3> DEFINE rec == [Filled(q, v, i) EXCEPT !.next = next]
               t == WriteSector(q, q.at, rec)
               left == Left(rec, q.at, {q.at} \cup {next})
    <3>1. Extend(q, v, i, next) = [t EXCEPT !.at = next]
      BY <2>9 DEF Extend
    <3>2. Filled(q, v, i) \in GoodSectors /\ Filled(q, v, i).status # "FREE"
      BY <2>6, <2>7, <2>9, FilledIsGood DEF Owns
    <3>3. rec \in GoodSectors /\ rec.status # "FREE"
      BY <1>2, <3>2 DEF GoodSectors, SectorTypes, Places
    <3> HIDE DEF rec
    <3>4. q.at \in Places
      BY <2>6, MachineFields DEF Writers
    <3>5. t \in Sane(p0, f0, left) /\ t.free = q.free /\ t.buf = rec
      <4>1. q.at \notin q.free
        BY <2>7, <2>9 DEF Owns
      <4> QED
        BY <2>7, <2>9, <3>3, <3>4, <4>1, WriteSectorSane
    <3> HIDE DEF t
    <3>6. left \subseteq {next}
      BY <3>3 DEF Left
    <3> HIDE DEF left
    <3>7. t \in Sane(p0, f0, {next})
      BY <3>5, <3>6, SaneMore
    <3> DEFINE x == [t EXCEPT !.at = next]
    <3>8. /\ x \in Writers /\ x.p = t.p /\ x.free = t.free /\ x.out = t.out
          /\ x.at = next /\ x.buf = t.buf /\ x.end = t.end
      BY <1>2, <3>5, SaneIsTyped DEF Writers, Machines
    <3> HIDE DEF x
    <3>9. x \in Sane(p0, f0, {x.at})
      BY <3>7, <3>8, SaneStays DEF Running
    <3>10. Owns(x)
      BY <2>6, <3>3, <3>5, <3>8 DEF Owns
    <3>11. x \in Held(p0, f0)
      BY <3>8, <3>9, <3>10 DEF Held
    <3>12. ASSUME next = None PROVE x \in Sane(p0, f0, {})
      <4>1. FreeBitmap(x.p) \subseteq x.free \cup {None} => FreeBitmap(x.p) \subseteq x.free
        BY Constants DEF FreeBitmap
      <4> QED
        BY <3>8, <3>9, <3>12, <4>1 DEF Sane, Tight
    <3> QED
      BY <1>3, <2>1, <3>1, <3>11, <3>12 DEF x
  <2> QED
    BY <2>8, <2>9
<1> QED
  BY <1>4, <1>5

LEMMA ReleaseSane ==
  ASSUME NEW p0, NEW f0
  PROVE  \A m \in Sane(p0, f0, {}) : Release(m) \in Sane(p0, f0, {})
<1> TAKE m \in Sane(p0, f0, {})
<1> DEFINE r == ReadSectorAs(m, m.at, "BODY")
<1>1. /\ r \in Sane(p0, f0, {})
      /\ Running(r) => r.at \in Sectors /\ r.buf.status = "BODY"
  BY ReadSane
<1>2. Release(m) = Released(r)
  BY DEF Release
<1> HIDE DEF r
<1>3. /\ r \in Sane(p0, f0, {}) /\ r \in Writers /\ r.at \in Places /\ r.buf \in GoodSectors
      /\ r.buf.next \in Places
  BY <1>1, SaneIsTyped, MachineFields, SectorFields DEF Writers
<1>4. CASE ~ Running(r)
  BY <1>2, <1>3, <1>4 DEF Released
<1>5. CASE Running(r)
  <2> DEFINE rec == [r.buf EXCEPT !.status = "FREE", !.crc = "zero", !.next = None,
                                  !.data = <<>>]
             t == Surplus(r)
             x == [t EXCEPT !.free = t.free \cup {r.at}, !.at = r.buf.next]
  <2>1. rec \in GoodSectors /\ rec.status = "FREE"
    BY <1>3 DEF GoodSectors, SectorTypes
  <2>2. t = WriteSector(r, r.at, rec)
    BY DEF Surplus
  <2> HIDE DEF rec
  <2>9. /\ t \in Sane(p0, f0, Left(rec, r.at, {})) /\ t.free = r.free
        /\ t.p = Written(r.p, SectorWrite(r.at, rec))
    BY <1>3, <1>5, <2>1, <2>2, WriteSectorSane
  <2>10. Left(rec, r.at, {}) = {r.at}
    BY <2>1 DEF Left
  <2>3. /\ t \in Sane(p0, f0, {r.at}) /\ t.free = r.free
        /\ t.p = Written(r.p, SectorWrite(r.at, rec))
    BY <2>9, <2>10
  <2>4. r.at \in FreeBitmap(t.p)
    <3>1. r.p \in GoodPartitions /\ r.at \in Sectors
      BY <1>1, <1>3, <1>5, MachineFields DEF Writers
    <3>2. t.p = [r.p EXCEPT !.sector[r.at] = rec]
      BY <2>3 DEF Written, SectorWrite
    <3>3. t.p.sector[r.at] = rec
      BY <3>1, <3>2 DEF GoodPartitions
    <3> QED
      BY <2>1, <3>1, <3>3 DEF FreeBitmap
  <2> HIDE DEF t
  <2>5. t \in Writers /\ t.free \cup {r.at} \subseteq Sectors
    BY <1>1, <1>5, <2>3, SaneIsTyped, MachineFields DEF Writers
  <2>6. /\ x \in Writers /\ x.p = t.p /\ x.out = t.out /\ x.end = t.end
        /\ x.free = t.free \cup {r.at}
    BY <1>3, <2>5 DEF Writers, Machines
  <2>7. x \in Sane(p0, f0, {})
    BY <2>3, <2>4, <2>6 DEF Sane, Tight, Running
  <2>8. Release(m) = x
    BY <1>2, <1>5 DEF Released, t
  <2> QED
    BY <2>7, <2>8
<1> QED
  BY <1>4, <1>5

Refills(m, v, first, last) == Loop(LAMBDA r, i : Refill(r, v, i), m, first, last)

LEMMA RefillsStay ==
  ASSUME NEW p0, NEW f0, NEW m \in Held(p0, f0), NEW v \in Values, NEW first \in Nat, NEW last \in Int
  PROVE  Refills(m, v, first, last) \in Held(p0, f0)
<1> DEFINE M == Held(p0, f0)
           B == [x \in M \X Nat |-> Refill(x[1], v, x[2])]
<1>1. B \in [M \X Nat -> M]
  BY RefillSane
<1>2. PICK g \in [Nat -> M] : Iterates(g, B, m, first)
  BY <1>1, IteratesExists
<1>3. g = [k \in Nat |-> IF k = 0 THEN m ELSE Refill(g[k - 1], v, first + k - 1)]
  <2>1. \A k \in Nat : k # 0 => g[k - 1] \in M /\ first + k - 1 \in Nat
    BY <1>2
  <2>2. \A k \in Nat : k # 0 =>
          B[<<g[k - 1], first + k - 1>>] = Refill(g[k - 1], v, first + k - 1)
    BY <2>1
  <2> HIDE DEF B
  <2> QED
    BY <1>2, <2>2 DEF Iterates
<1> DEFINE h == CHOOSE f :
             f = [k \in Nat |-> IF k = 0 THEN m ELSE Refill(f[k - 1], v, first + k - 1)]
<1>4. h = [k \in Nat |-> IF k = 0 THEN m ELSE Refill(h[k - 1], v, first + k - 1)]
  BY <1>3
<1>5. Refills(m, v, first, last) = h[IF first <= last THEN last - first + 1 ELSE 0]
  BY DEF Refills, Loop
<1> HIDE DEF h
<1>6. h[0] = m
  BY <1>4
<1>7. \A k \in Nat : h[k + 1] = Refill(h[k], v, first + k)
  <2> TAKE k \in Nat
  <2>1. k + 1 \in Nat /\ k + 1 # 0 /\ (k + 1) - 1 = k /\ first + (k + 1) - 1 = first + k
    OBVIOUS
  <2> QED
    BY <1>4, <2>1
<1> DEFINE G == [k \in Nat |-> M]
<1>8. \A k \in Nat : h[k] \in G[k] => h[k + 1] \in G[k + 1]
  <2> TAKE k \in Nat
  <2>1. h[k + 1] = Refill(h[k], v, first + k) /\ first + k \in Nat /\ k + 1 \in Nat
    BY <1>7
  <2> QED
    BY <2>1, RefillSane
<1>9. \A k \in Nat : h[k] \in G[k]
  BY <1>6, <1>8, KeptAlong
<1> QED
  BY <1>5, <1>9

Lengthens(m, v, first, last) == Loop(LAMBDA r, i : Lengthen(r, v, i), m, first, last)

LEMMA LengthensStay ==
  ASSUME NEW p0, NEW f0, NEW m \in Held(p0, f0), NEW v \in Values, NEW first \in Nat, NEW last \in Int
  PROVE  /\ Lengthens(m, v, first, last) \in Held(p0, f0)
         /\ first <= last /\ last >= Size[v] - 1 =>
              Lengthens(m, v, first, last) \in Sane(p0, f0, {})
<1> DEFINE M == Held(p0, f0)
           B == [x \in M \X Nat |-> Lengthen(x[1], v, x[2])]
<1>1. B \in [M \X Nat -> M]
  BY LengthenSane
<1>2. PICK g \in [Nat -> M] : Iterates(g, B, m, first)
  BY <1>1, IteratesExists
<1>3. g = [k \in Nat |-> IF k = 0 THEN m ELSE Lengthen(g[k - 1], v, first + k - 1)]
  <2>1. \A k \in Nat : k # 0 => g[k - 1] \in M /\ first + k - 1 \in Nat
    BY <1>2
  <2>2. \A k \in Nat : k # 0 =>
          B[<<g[k - 1], first + k - 1>>] = Lengthen(g[k - 1], v, first + k - 1)
    BY <2>1
  <2> HIDE DEF B
  <2> QED
    BY <1>2, <2>2 DEF Iterates
<1> DEFINE h == CHOOSE f :
             f = [k \in Nat |-> IF k = 0 THEN m ELSE Lengthen(f[k - 1], v, first + k - 1)]
<1>4. h = [k \in Nat |-> IF k = 0 THEN m ELSE Lengthen(h[k - 1], v, first + k - 1)]
  BY <1>3
<1>5. Lengthens(m, v, first, last) = h[IF first <= last THEN last - first + 1 ELSE 0]
  BY DEF Lengthens, Loop
<1> HIDE DEF h
<1>6. h[0] = m
  BY <1>4
<1>7. \A k \in Nat : h[k + 1] = Lengthen(h[k], v, first + k)
  <2> TAKE k \in Nat
  <2>1. k + 1 \in Nat /\ k + 1 # 0 /\ (k + 1) - 1 = k /\ first + (k + 1) - 1 = first + k
    OBVIOUS
  <2> QED
    BY <1>4, <2>1
<1> DEFINE G == [k \in Nat |-> M]
<1>8. \A k \in Nat : h[k] \in G[k] => h[k + 1] \in G[k + 1]
  <2> TAKE k \in Nat
  <2>1. h[k + 1] = Lengthen(h[k], v, first + k) /\ first + k \in Nat /\ k + 1 \in Nat
    BY <1>7
  <2> QED
    BY <2>1, LengthenSane
<1>9. \A k \in Nat : h[k] \in G[k]
  BY <1>6, <1>8, KeptAlong
<1>10. ASSUME first <= last, last >= Size[v] - 1 PROVE h[last - first + 1] \in Sane(p0, f0, {})
  <2>1. PICK k \in Nat : k = last - first
    BY <1>10
  <2>2. h[k + 1] = Lengthen(h[k], v, first + k) /\ h[k] \in Held(p0, f0) /\ first + k = last
    BY <1>7, <1>9, <2>1
  <2>3. last \in Nat /\ last - first + 1 = k + 1
    BY <1>10, <2>1
  <2> QED
    BY <1>10, <2>2, <2>3, LengthenSane
<1> QED
  BY <1>5, <1>9, <1>10
ReadNexts(m, first, last) == Loop(LAMBDA r, i : ReadNext(r), m, first, last)

LEMMA ReadNextsStay ==
  ASSUME NEW p0, NEW f0, NEW m \in Sane(p0, f0, {}), NEW first \in Nat, NEW last \in Int
  PROVE  ReadNexts(m, first, last) \in Sane(p0, f0, {})
<1> DEFINE M == Sane(p0, f0, {})
           B == [x \in M \X Nat |-> ReadNext(x[1])]
<1>1. B \in [M \X Nat -> M]
  BY ReadNextSane
<1>2. PICK g \in [Nat -> M] : Iterates(g, B, m, first)
  BY <1>1, IteratesExists
<1>3. g = [k \in Nat |-> IF k = 0 THEN m ELSE ReadNext(g[k - 1])]
  <2>1. \A k \in Nat : k # 0 => g[k - 1] \in M /\ first + k - 1 \in Nat
    BY <1>2
  <2>2. \A k \in Nat : k # 0 =>
          B[<<g[k - 1], first + k - 1>>] = ReadNext(g[k - 1])
    BY <2>1
  <2> HIDE DEF B
  <2> QED
    BY <1>2, <2>2 DEF Iterates
<1> DEFINE h == CHOOSE f :
             f = [k \in Nat |-> IF k = 0 THEN m ELSE ReadNext(f[k - 1])]
<1>4. h = [k \in Nat |-> IF k = 0 THEN m ELSE ReadNext(h[k - 1])]
  BY <1>3
<1>5. ReadNexts(m, first, last) = h[IF first <= last THEN last - first + 1 ELSE 0]
  BY DEF ReadNexts, Loop
<1> HIDE DEF h
<1>6. h[0] = m
  BY <1>4
<1>7. \A k \in Nat : h[k + 1] = ReadNext(h[k])
  <2> TAKE k \in Nat
  <2>1. k + 1 \in Nat /\ k + 1 # 0 /\ (k + 1) - 1 = k /\ first + (k + 1) - 1 = first + k
    OBVIOUS
  <2> QED
    BY <1>4, <2>1
<1> DEFINE G == [k \in Nat |-> M]
<1>8. \A k \in Nat : h[k] \in G[k] => h[k + 1] \in G[k + 1]
  BY <1>7, ReadNextSane
<1>9. \A k \in Nat : h[k] \in G[k]
  BY <1>6, <1>8, KeptAlong
<1> QED
  BY <1>5, <1>9

Releases(m, first, last) == Loop(LAMBDA r, i : Release(r), m, first, last)

LEMMA ReleasesStay ==
  ASSUME NEW p0, NEW f0, NEW m \in Sane(p0, f0, {}), NEW first \in Nat, NEW last \in Int
  PROVE  Releases(m, first, last) \in Sane(p0, f0, {})
<1> DEFINE M == Sane(p0, f0, {})
           B == [x \in M \X Nat |-> Release(x[1])]
<1>1. B \in [M \X Nat -> M]
  BY ReleaseSane
<1>2. PICK g \in [Nat -> M] : Iterates(g, B, m, first)
  BY <1>1, IteratesExists
<1>3. g = [k \in Nat |-> IF k = 0 THEN m ELSE Release(g[k - 1])]
  <2>1. \A k \in Nat : k # 0 => g[k - 1] \in M /\ first + k - 1 \in Nat
    BY <1>2
  <2>2. \A k \in Nat : k # 0 =>
          B[<<g[k - 1], first + k - 1>>] = Release(g[k - 1])
    BY <2>1
  <2> HIDE DEF B
  <2> QED
    BY <1>2, <2>2 DEF Iterates
<1> DEFINE h == CHOOSE f :
             f = [k \in Nat |-> IF k = 0 THEN m ELSE Release(f[k - 1])]
<1>4. h = [k \in Nat |-> IF k = 0 THEN m ELSE Release(h[k - 1])]
  BY <1>3
<1>5. Releases(m, first, last) = h[IF first <= last THEN last - first + 1 ELSE 0]
  BY DEF Releases, Loop
<1> HIDE DEF h
<1>6. h[0] = m
  BY <1>4
<1>7. \A k \in Nat : h[k + 1] = Release(h[k])
  <2> TAKE k \in Nat
  <2>1. k + 1 \in Nat /\ k + 1 # 0 /\ (k + 1) - 1 = k /\ first + (k + 1) - 1 = first + k
    OBVIOUS
  <2> QED
    BY <1>4, <2>1
<1> DEFINE G == [k \in Nat |-> M]
<1>8. \A k \in Nat : h[k] \in G[k] => h[k + 1] \in G[k + 1]
  BY <1>7, ReleaseSane
<1>9. \A k \in Nat : h[k] \in G[k]
  BY <1>6, <1>8, KeptAlong
<1> QED
  BY <1>5, <1>9

-----------------------------------------------------------------------------
(* The three ways a record is written.                                        *)
LEMMA CloseSane ==
  ASSUME NEW p0, NEW f0, NEW m \in Held(p0, f0), NEW v \in Values
  PROVE  Close(m, v) \in Sane(p0, f0, {})
<1> DEFINE rec == [m.buf EXCEPT !.len = Size[v], !.crc = v, !.next = None,
                                !.data = <<v, Size[v]>>]
<1>1. m.buf \in GoodSectors /\ Owns(m)
  BY HeldIsSane
<1>2. Size[v] \in Nat \ {0}
  BY Constants
<1>3. <<v, Size[v]>> \in Values \X (Nat \ {0}) /\ m.buf \in SectorTypes
  BY <1>1, <1>2 DEF GoodSectors
<1>4. rec \in SectorTypes
  <2>1. [m.buf EXCEPT !.len = Size[v], !.crc = v] \in SectorTypes
    BY <1>2, <1>3 DEF SectorTypes
  <2>2. [[m.buf EXCEPT !.len = Size[v], !.crc = v]
           EXCEPT !.next = None, !.data = <<v, Size[v]>>] \in SectorTypes
    BY <1>3, <2>1 DEF SectorTypes
  <2> QED
    BY <2>2
<1>5. rec.crc = v
  BY <1>3 DEF SectorTypes
<1>6. rec.len = Size[v]
  BY <1>3 DEF SectorTypes
<1>8. Close(m, v) = WriteSector(m, m.at, rec)
  BY DEF Close
<1>9. rec.status = m.buf.status
  BY <1>3 DEF SectorTypes
<1> HIDE DEF rec
<1>7. rec \in GoodSectors
  BY <1>2, <1>4, <1>5, <1>6 DEF GoodSectors
<1> QED
  BY <1>1, <1>7, <1>8, <1>9, WriteOwnSector DEF Owns

LEMMA GrowSane ==
  ASSUME NEW p0, NEW f0, NEW m \in Held(p0, f0), NEW v \in Values,
         m.buf.len > 0, Size[v] > m.buf.len
  PROVE  Grow(m, v) \in Sane(p0, f0, {})
<1> DEFINE old == m.buf.len
           room == Expect(m, Size[v] - old <= Cardinality(m.free))
           full == Refills(room, v, 0, old - 2)
<1>7. m.buf \in GoodSectors
  BY HeldIsSane
<1>8. m.buf.len \in Nat
  BY <1>7, SectorFields
<1>1. old \in Nat \ {0} /\ Size[v] \in Nat /\ Size[v] > old
  BY <1>8, Constants
<1>2. Grow(m, v) = Lengthens(full, v, old - 1, Size[v] - 1)
  BY DEF Grow, Refills, Lengthens, Loop
<1>3. room = m \/ room = [m EXCEPT !.end = "false"]
  BY DEF Expect
<1> HIDE DEF room, old
<1>4. room \in Held(p0, f0)
  BY <1>3, ExpectHeld
<1>5. full \in Held(p0, f0)
  BY <1>1, <1>4, RefillsStay
<1> HIDE DEF full
<1>6. old - 1 \in Nat /\ Size[v] - 1 \in Int /\ old - 1 <= Size[v] - 1
  BY <1>1
<1> QED
  BY <1>2, <1>5, <1>6, LengthensStay

LEMMA ShrinkSane ==
  ASSUME NEW p0, NEW f0, NEW m \in Sane(p0, f0, {}), NEW v \in Values
  PROVE  Shrink(m, v) \in Sane(p0, f0, {})
<1> DEFINE walked == ReadNexts(m, 1, Size[v] - 1)
           past == Past(walked)
           cut == Releases(past, Size[v], m.buf.len - 1)
           head == ReadSectorAs(cut, m.at, "HEAD")
           full == Refills(head, v, 0, Size[v] - 2)
<1>1. m.buf.len \in Nat /\ Size[v] \in Nat
  BY SaneIsTyped, MachineFields, SectorFields, Constants DEF Writers
<1>2. Shrink(m, v) = Close(full, v)
  BY DEF Shrink, ReadNexts, Releases, Refills, Loop
<1>3. walked \in Sane(p0, f0, {})
  BY <1>1, ReadNextsStay
<1> HIDE DEF walked
<1>4. past \in Sane(p0, f0, {})
  <2>1. walked \in Sane(p0, f0, {}) /\ walked \in Writers /\ walked.buf.next \in Places
    BY <1>3, SaneIsTyped, MachineFields, SectorFields DEF Writers
  <2>2. past = [walked EXCEPT !.at = walked.buf.next]
    BY DEF Past
  <2>3. past \in Writers /\ past.p = walked.p /\ past.free = walked.free
        /\ past.out = walked.out /\ past.end = walked.end
    BY <2>1, <2>2 DEF Writers, Machines
  <2> QED
    BY <2>1, <2>3, SaneStays DEF Running
<1> HIDE DEF past
<1>5. cut \in Sane(p0, f0, {})
  BY <1>1, <1>4, ReleasesStay
<1> HIDE DEF cut
<1>6. head \in Held(p0, f0)
  BY <1>5, ReadSane, HeldFrom
<1> HIDE DEF head
<1>7. full \in Held(p0, f0)
  BY <1>1, <1>6, RefillsStay
<1> QED
  BY <1>2, <1>7, CloseSane

LEMMA ComposeSane ==
  ASSUME NEW p0, NEW f0, NEW s \in Sectors, NEW m \in Sane(p0, f0, {s}), s \notin m.free,
         NEW name \in Names, NEW v \in Values, NEW next \in Sectors, NEW prev \in Sectors
  PROVE  Compose(m, s, name, v, next, prev) \in Sane(p0, f0, {})
<1> DEFINE rec == [FreeSector EXCEPT !.name = name, !.status = "HEAD", !.crc = v,
                                     !.len = Size[v], !.nexthash = next, !.prevhash = prev]
           q == [m EXCEPT !.at = s, !.buf = rec]
<1>1. Size[v] \in Nat \ {0}
  BY Constants
<1>2. FreeSector \in SectorTypes
  BY FreeSectorIsGood DEF GoodSectors
<1>3. rec \in SectorTypes
  <2>1. [FreeSector EXCEPT !.name = name, !.status = "HEAD", !.crc = v] \in SectorTypes
    BY <1>2 DEF SectorTypes
  <2>2. [[FreeSector EXCEPT !.name = name, !.status = "HEAD", !.crc = v]
           EXCEPT !.len = Size[v], !.nexthash = next, !.prevhash = prev] \in SectorTypes
    BY <1>1, <2>1 DEF SectorTypes
  <2> QED
    BY <2>2
<1>4. rec.crc = v
  BY DEF FreeSector
<1>5. rec.len = Size[v]
  BY DEF FreeSector
<1>6. Compose(m, s, name, v, next, prev) = Lengthens(q, v, 0, Size[v] - 1)
  BY DEF Compose, Lengthens, Loop
<1>13. rec.status = "HEAD"
  BY DEF FreeSector
<1> HIDE DEF rec
<1>7. rec \in GoodSectors
  BY <1>1, <1>3, <1>4, <1>5 DEF GoodSectors
<1>8. s \in Places
  BY DEF Places
<1>9. m \in Machines(Writes)
  BY SaneIsTyped DEF Writers
<1>10. /\ q \in Writers /\ q.p = m.p /\ q.free = m.free /\ q.out = m.out /\ q.at = s
       /\ q.buf = rec /\ q.end = m.end
  BY <1>7, <1>8, <1>9 DEF Writers, Machines
<1> HIDE DEF q
<1>11. q \in Held(p0, f0)
  BY <1>10, <1>13, SaneStays DEF Held, Owns, Running
<1>12. Size[v] - 1 \in Int /\ 0 <= Size[v] - 1
  BY <1>1
<1> QED
  BY <1>6, <1>11, <1>12, LengthensStay

LEMMA EnterSane ==
  ASSUME NEW p0, NEW f0, NEW s \in Sectors, NEW m \in Sane(p0, f0, {s}), s \notin m.free,
         NEW name \in Names, NEW v \in Values
  PROVE  Enter(m, s, name, v) \in Sane(p0, f0, {})
<1> DEFINE w == BinWrite(Hash[name], s)
           q == Put(m, w)
           t == Compose(q, s, name, v, s, s)
<1>1. w \in Writes /\ w.to = "bin" /\ Spared(w, {s}) = {s}
  <2>1. w \in Writes
    BY WritesAre, BinOf DEF Places
  <2> QED
    BY <2>1 DEF BinWrite, Spared
<1> HIDE DEF w
<1>9. q \in Sane(p0, f0, Spared(w, {s})) /\ q.free = m.free
  BY <1>1, PutSane
<1>2. q \in Sane(p0, f0, {s}) /\ q.free = m.free
  BY <1>1, <1>9
<1> HIDE DEF q
<1>3. t \in Sane(p0, f0, {})
  BY <1>2, ComposeSane
<1>4. Enter(m, s, name, v) = Put(t, CrcWrite(t.p.table))
  BY DEF Enter, RenewCrc, q, w
<1> HIDE DEF t
<1>5. t.p.table \in Tables
  BY <1>3, SaneIsTyped, MachineFields, PartitionFields DEF Writers
<1> DEFINE c == CrcWrite(t.p.table)
<1>6. c \in Writes
  BY <1>5, WritesAre
<1>7. c.to = "crc" /\ Spared(c, {}) = {}
  BY DEF CrcWrite, Spared
<1> HIDE DEF c
<1>8. Put(t, c) \in Sane(p0, f0, {})
  BY <1>3, <1>6, <1>7, PutSane
<1> QED
  BY <1>4, <1>8 DEF c

\* A sector in use is written and stays in use.
LEMMA WriteInUse ==
  ASSUME NEW p0, NEW f0, NEW spare, NEW m \in Sane(p0, f0, spare), NEW s \in Places,
         NEW rec, rec \in GoodSectors, Running(m) => s \notin m.free /\ rec.status # "FREE"
  PROVE  LET r == WriteSector(m, s, rec)
         IN  r \in Sane(p0, f0, spare) /\ r.free = m.free /\ r.at = m.at /\ r.end = m.end
<1> DEFINE r == WriteSector(m, s, rec)
           left == Left(rec, s, spare)
<1>1. r \in Sane(p0, f0, left) /\ r.free = m.free /\ r.at = m.at /\ r.end = m.end
  BY WriteSectorSane
<1> HIDE DEF r
<1>2. Running(r) => left \subseteq spare
  BY <1>1 DEF Running, Left
<1> HIDE DEF left
<1>3. r \in Sane(p0, f0, spare)
  BY <1>1, <1>2 DEF Sane, Tight
<1> QED
  BY <1>1, <1>3 DEF r

\* While a sector is linked in it is not written yet, nor taken for free.
LEMMA HookSane ==
  ASSUME NEW p0, NEW f0, NEW s \in Sectors, NEW m \in Sane(p0, f0, {s}), Owns(m)
  PROVE  LET r == Hook(m, s)
         IN  r \in Sane(p0, f0, {s}) /\ r.free = m.free /\ (Running(r) => r.at \in Sectors)
<1> DEFINE rec == [m.buf EXCEPT !.prevhash = s]
           q == LinkPrev(m, s)
           prev == m.buf.prevhash
           t == ReadSectorAs(q, prev, "HEAD")
           rec2 == [t.buf EXCEPT !.nexthash = s]
           r == Hook(m, s)
<1>1. m.at \in Places /\ m.buf \in GoodSectors
  BY SaneIsTyped, MachineFields DEF Writers
<1>2. rec \in GoodSectors /\ rec.status = m.buf.status
  BY <1>1 DEF GoodSectors, SectorTypes
<1>3. q = WriteSector(m, m.at, rec)
  BY DEF LinkPrev
<1> HIDE DEF rec
<1>4. q \in Sane(p0, f0, {s}) /\ q.free = m.free
  BY <1>1, <1>2, <1>3, WriteInUse DEF Owns
<1> HIDE DEF q
<1>10. "HEAD" \in {"HEAD", "BODY"}
  OBVIOUS
<1> HIDE DEF prev
<1>11. \A x \in Sane(p0, f0, {s}) :
         LET r0 == ReadSectorAs(x, prev, "HEAD")
         IN  /\ r0 \in Sane(p0, f0, {s}) /\ Owns(r0) /\ r0.free = x.free
             /\ Running(r0) => r0.at = prev /\ prev \in Sectors
  BY <1>10, ReadSane
<1>5. /\ t \in Sane(p0, f0, {s}) /\ Owns(t) /\ t.free = q.free
      /\ Running(t) => t.at \in Sectors
  BY <1>4, <1>11
<1> HIDE DEF t
<1>6. t.at \in Places /\ t.buf \in GoodSectors
  BY <1>5, SaneIsTyped, MachineFields DEF Writers
<1>7. rec2 \in GoodSectors /\ rec2.status = t.buf.status
  BY <1>6 DEF GoodSectors, SectorTypes
<1>8. r = WriteSector(t, t.at, rec2)
  BY DEF Hook, LinkNext, t, q, prev
<1> HIDE DEF rec2, r
<1>9. r \in Sane(p0, f0, {s}) /\ r.free = t.free /\ r.at = t.at /\ r.end = t.end
  BY <1>5, <1>6, <1>7, <1>8, WriteInUse DEF Owns
<1> QED
  BY <1>4, <1>5, <1>9 DEF Running, r

LEMMA AddSane ==
  ASSUME NEW p0, NEW f0, NEW m \in Sane(p0, f0, {}), Running(m), NEW name \in Names, NEW v \in Values
  PROVE  Add(m, name, v) \in Sane(p0, f0, {})
<1> DEFINE first == m.p.table[Hash[name]]
           s == NextFree(m.free)
           taken == [m EXCEPT !.free = Busy(@, s)]
<1>1. m \in Writers /\ m.free \subseteq Sectors /\ m.p \in GoodPartitions
  BY SaneIsTyped, MachineFields DEF Writers
<1>2. first \in Places /\ Size[v] \in Nat \ {0}
  BY <1>1, PartitionFields, BinOf, Constants DEF Tables
<1>3. CASE Size[v] > Cardinality(m.free)
  <2>1. Add(m, name, v) = [m EXCEPT !.end = "false"]
    BY <1>3 DEF Add
  <2> DEFINE r == [m EXCEPT !.end = "false"]
  <2>2. r \in Writers /\ r.p = m.p /\ r.free = m.free /\ r.out = m.out
    BY <1>1 DEF Writers, Machines, Stands
  <2> QED
    BY <2>1, <2>2, SaneStays DEF Running
<1>4. CASE ~ (Size[v] > Cardinality(m.free))
  <2>1. m.free # {}
    <3>1. Cardinality({}) = 0
      BY FS_EmptySet
    <3> QED
      BY <1>2, <1>4, <3>1
  <2>2. s \in m.free /\ s \in Sectors
    BY <1>1, <2>1, NextFreeType
  <2> HIDE DEF s
  <2>3. taken = [m EXCEPT !.free = m.free \ {s}]
    BY DEF Busy
  <2>4. /\ taken \in Writers /\ taken.p = m.p /\ taken.free = m.free \ {s}
        /\ taken.out = m.out /\ taken.end = m.end
    BY <1>1, <2>3 DEF Writers, Machines
  <2> HIDE DEF taken
  <2>5. taken \in Sane(p0, f0, {s}) /\ s \notin taken.free
    BY <2>4 DEF Sane, Tight, Running
  <2>6. CASE first = None
    <3>1. Add(m, name, v) = Enter(taken, s, name, v)
      BY <1>4, <2>6 DEF Add, s, taken
    <3> QED
      BY <2>2, <2>5, <3>1, EnterSane
  <2>7. CASE first # None
    <3> DEFINE q == ReadSectorAs(taken, first, "HEAD")
               t == Hook(q, s)
    <3>1. Add(m, name, v) = Join(t, s, name, v, first)
      BY <1>4, <2>7 DEF Add, s, taken
    <3>2. first \in Sectors
      BY <1>2, <2>7 DEF Places
    <3> HIDE DEF first
    <3>3. q \in Sane(p0, f0, {s}) /\ Owns(q) /\ q.free = taken.free
      BY <2>5, ReadSane
    <3> HIDE DEF q
    <3>4. t \in Sane(p0, f0, {s}) /\ t.free = taken.free /\ (Running(t) => t.at \in Sectors)
      BY <2>2, <3>3, HookSane
    <3> HIDE DEF t
    <3>5. CASE Running(t)
      <4>1. Join(t, s, name, v, first) = Compose(t, s, name, v, first, t.at)
        BY <3>5 DEF Join
      <4>2. Compose(t, s, name, v, first, t.at) \in Sane(p0, f0, {})
        BY <2>2, <2>5, <3>2, <3>4, <3>5, ComposeSane
      <4> QED
        BY <3>1, <4>1, <4>2
    <3>6. CASE ~ Running(t)
      <4>1. t \in Sane(p0, f0, {})
        BY <3>4, <3>6 DEF Sane, Tight
      <4> QED
        BY <3>1, <3>6, <4>1 DEF Join
    <3> QED
      BY <3>5, <3>6
  <2> QED
    BY <2>6, <2>7
<1> QED
  BY <1>3, <1>4

\* STEEPROM_WriteRecord: types, the writes lead to what is seen, and what is
\* taken for free is free, however it ends; and when it ends with TRUE, the
\* bitmap is the truth if it was.
LEMMA WriteRecordSane ==
  ASSUME NEW p \in GoodPartitions, NEW f0, f0 \subseteq FreeBitmap(p),
         NEW name \in Names, NEW v \in Values
  PROVE  LET r == WriteRecord(p, f0, name, v)
         IN  /\ r.p \in GoodPartitions /\ r.out \in Seq(Writes)
             /\ Leads(p, r.out, r.p)
             /\ r.free \subseteq Sectors /\ r.free \subseteq FreeBitmap(r.p)
             /\ r.end = "true" /\ f0 = FreeBitmap(p) => r.free = FreeBitmap(r.p)
<1> DEFINE b == Begin(p, f0)
           m == Seek(b, name)
           q == Rewrite(m, name, v)
<1>1. /\ b \in Writers /\ Running(b) /\ b.p = p /\ b.free = f0 /\ b.out = <<>>
  <2>1. f0 \subseteq Sectors
    BY DEF FreeBitmap
  <2> QED
    BY <2>1, FreeSectorIsGood DEF Begin, Writers, Machines, Running, Places, Stands
<1>2. b \in Sane(p, f0, {})
  BY <1>1, LeadsNowhere DEF Sane, Tight
<1>3. WriteRecord(p, f0, name, v) = Returned(q)
  BY DEF WriteRecord
<1> HIDE DEF b
<1>4. m \in Walks(Writes, b, name)
  BY <1>1, SeekType DEF Writers
<1> HIDE DEF m
<1>5. /\ m \in Writers /\ m.p = b.p /\ m.free = b.free /\ m.out = b.out
      /\ Running(m) /\ m.at # None =>
           m.at \in Sectors /\ m.buf = b.p.sector[m.at] /\ m.buf.status = "HEAD"
  BY <1>4 DEF Walks, Writers
<1>6. m \in Sane(p, f0, {})
  BY <1>1, <1>2, <1>5, SaneStays
<1>7. q \in Sane(p, f0, {})
  <2>1. CASE ~ Running(m)
    BY <1>6, <2>1 DEF Rewrite
  <2>2. CASE Running(m) /\ m.at = None
    BY <1>6, <2>2, AddSane DEF Rewrite
  <2>3. CASE Running(m) /\ m.at # None
    <3>1. Owns(m)
      BY <1>5, <1>6, <2>3 DEF Sane, FreeBitmap, Owns
    <3>2. m \in Held(p, f0)
      BY <1>6, <3>1, HeldFrom
    <3>3. m.buf.len > 0
      BY <1>5, <2>3, MachineFields, SectorFields DEF Writers
    <3>4. Size[v] > m.buf.len => Grow(m, v) \in Sane(p, f0, {})
      BY <3>2, <3>3, GrowSane
    <3>5. Shrink(m, v) \in Sane(p, f0, {})
      BY <1>6, ShrinkSane
    <3> QED
      BY <2>3, <3>4, <3>5 DEF Rewrite
  <2> QED
    BY <2>1, <2>2, <2>3
<1> HIDE DEF q
<1>8. q \in Machines(Writes) /\ q.free \subseteq FreeBitmap(q.p) /\ Leads(p, q.out, q.p)
      /\ (Running(q) /\ f0 = FreeBitmap(p) => FreeBitmap(q.p) \subseteq q.free)
  BY <1>7, SaneIsTyped DEF Sane, Tight, Writers
<1>9. /\ q.p \in GoodPartitions /\ q.out \in Seq(Writes) /\ q.free \subseteq Sectors
  BY <1>8, MachineFields
<1>10. LET r == Returned(q)
       IN  r.p = q.p /\ r.out = q.out /\ r.free = q.free /\ (r.end = "true" => Running(q))
  BY <1>8 DEF Returned, Machines, Stands
<1> DEFINE r == Returned(q)
<1>11. /\ r.p = q.p /\ r.out = q.out /\ r.free = q.free
       /\ r.end = "true" => Running(q)
  BY <1>10
<1>12. r.end = "true" /\ f0 = FreeBitmap(p) => FreeBitmap(r.p) = r.free
  <2> SUFFICES ASSUME r.end = "true", f0 = FreeBitmap(p) PROVE FreeBitmap(r.p) = r.free
    OBVIOUS
  <2>1. Running(q)
    BY <1>11
  <2>2. q.free \subseteq FreeBitmap(q.p) /\ FreeBitmap(q.p) \subseteq q.free
    BY <1>8, <2>1
  <2>3. q.free = FreeBitmap(q.p)
    BY <2>2
  <2> QED
    BY <1>11, <2>3
<1> HIDE DEF r
<1>13. WriteRecord(p, f0, name, v) = r
  BY <1>3 DEF r
<1> QED
  BY <1>8, <1>9, <1>11, <1>12, <1>13

-----------------------------------------------------------------------------
(* The pair of partitions.                                                    *)
Pairs == [Copies -> GoodPartitions]
Steps == Copies \X Writes

Applied(p, w) == [p EXCEPT ![w[1]] = Written(@, w[2])]

\* The writes to either partition lead from one pair to another.
Turns(p, todo, q) ==
  \E h \in [0 .. Len(todo) -> Pairs] :
    /\ h[0] = p /\ h[Len(todo)] = q
    /\ \A k \in 1 .. Len(todo) : h[k] = Applied(h[k - 1], todo[k])

LEMMA AppliedType ==
  ASSUME NEW p \in Pairs, NEW w \in Steps
  PROVE  Applied(p, w) \in Pairs /\ Applied(p, w) = [p EXCEPT ![w[1]] = Written(p[w[1]], w[2])]
<1>1. w[1] \in Copies /\ w[2] \in Writes /\ p[w[1]] \in GoodPartitions
  BY DEF Pairs, Steps
<1>2. Written(p[w[1]], w[2]) \in GoodPartitions
  BY <1>1, WrittenType
<1> QED
  BY <1>1, <1>2 DEF Applied, Pairs

LEMMA TurnsNowhere == \A p \in Pairs : Turns(p, <<>>, p)
<1> TAKE p \in Pairs
<1> DEFINE h == [k \in 0 .. 0 |-> p]
<1>1. h \in [0 .. Len(<<>>) -> Pairs] /\ h[0] = p
  OBVIOUS
<1> HIDE DEF h
<1> QED
  BY <1>1 DEF Turns

\* The first write has been carried out.
LEMMA TurnsOn ==
  ASSUME NEW p, NEW q, NEW todo \in Seq(Steps), todo # <<>>, Turns(p, todo, q)
  PROVE  Turns(Applied(p, Head(todo)), Tail(todo), q)
<1> DEFINE n == Len(todo)
           less == Tail(todo)
<1>1. PICK h \in [0 .. n -> Pairs] :
        /\ h[0] = p /\ h[n] = q
        /\ \A k \in 1 .. n : h[k] = Applied(h[k - 1], todo[k])
  BY DEF Turns
<1>2. /\ n \in Nat \ {0} /\ Len(less) = n - 1 /\ Head(todo) = todo[1]
      /\ \A k \in 1 .. n - 1 : less[k] = todo[k + 1]
  OBVIOUS
<1> DEFINE g == [k \in 0 .. n - 1 |-> h[k + 1]]
<1>3. g \in [0 .. n - 1 -> Pairs] /\ g[n - 1] = q
  BY <1>1, <1>2
<1>4. g[0] = Applied(p, Head(todo))
  <2>1. g[0] = h[1] /\ 1 \in 1 .. n
    BY <1>2
  <2> QED
    BY <1>1, <1>2, <2>1
<1>5. ASSUME NEW k \in 1 .. n - 1 PROVE g[k] = Applied(g[k - 1], less[k])
  <2>1. g[k] = h[k + 1] /\ g[k - 1] = h[k] /\ k + 1 \in 1 .. n /\ (k + 1) - 1 = k
    BY <1>2
  <2> QED
    BY <1>1, <1>2, <2>1
<1> HIDE DEF g, n, less
<1>6. Turns(Applied(p, Head(todo)), less, q)
  BY <1>2, <1>3, <1>4, <1>5 DEF Turns
<1> QED
  BY <1>6 DEF less

\* One list of writes after the other.
LEMMA TurnsJoin ==
  ASSUME NEW a \in Seq(Steps), NEW b \in Seq(Steps), NEW p, NEW q, NEW r,
         Turns(p, a, q), Turns(q, b, r)
  PROVE  Turns(p, a \o b, r)
<1> DEFINE n == Len(a)
           m == Len(b)
           c == a \o b
<1>1. PICK h \in [0 .. n -> Pairs] :
        /\ h[0] = p /\ h[n] = q
        /\ \A k \in 1 .. n : h[k] = Applied(h[k - 1], a[k])
  BY DEF Turns
<1>2. PICK f \in [0 .. m -> Pairs] :
        /\ f[0] = q /\ f[m] = r
        /\ \A k \in 1 .. m : f[k] = Applied(f[k - 1], b[k])
  BY DEF Turns
<1>3. /\ n \in Nat /\ m \in Nat /\ Len(c) = n + m
      /\ \A k \in 1 .. n : c[k] = a[k]
      /\ \A k \in n + 1 .. n + m : c[k] = b[k - n]
  OBVIOUS
<1> HIDE DEF n, m, c
<1> DEFINE g == [k \in 0 .. n + m |-> IF k <= n THEN h[k] ELSE f[k - n]]
<1>4. g \in [0 .. n + m -> Pairs]
  BY <1>1, <1>2, <1>3
<1>5. /\ \A k \in 0 .. n : g[k] = h[k]
      /\ \A k \in n .. n + m : g[k] = f[k - n]
  <2>1. \A k \in 0 .. n : g[k] = h[k]
    BY <1>3
  <2>2. ASSUME NEW k \in n .. n + m PROVE g[k] = f[k - n]
    <3>1. CASE k = n
      <4>1. g[k] = h[n] /\ k - n = 0
        BY <1>3, <3>1
      <4> QED
        BY <1>1, <1>2, <4>1
    <3>2. CASE k # n
      BY <1>3, <3>2
    <3> QED
      BY <3>1, <3>2
  <2> QED
    BY <2>1, <2>2
<1> HIDE DEF g
<1>6. g[0] = p /\ g[n + m] = r
  <2>1. 0 \in 0 .. n /\ n + m \in n .. n + m /\ (n + m) - n = m
    BY <1>3
  <2> QED
    BY <1>1, <1>2, <1>5, <2>1
<1>7. ASSUME NEW k \in 1 .. n + m PROVE g[k] = Applied(g[k - 1], c[k])
  <2>1. CASE k \in 1 .. n
    <3>1. k \in 0 .. n /\ k - 1 \in 0 .. n
      BY <1>3, <2>1
    <3> QED
      BY <1>1, <1>3, <1>5, <2>1, <3>1
  <2>2. CASE k \in n + 1 .. n + m
    <3>1. /\ k \in n .. n + m /\ k - 1 \in n .. n + m /\ k - n \in 1 .. m
          /\ (k - 1) - n = (k - n) - 1
      BY <1>3, <2>2
    <3>2. g[k] = f[k - n] /\ g[k - 1] = f[(k - n) - 1]
      BY <1>5, <3>1
    <3> QED
      BY <1>2, <1>3, <2>2, <3>1, <3>2
  <2> QED
    BY <1>3, <2>1, <2>2
<1>8. Turns(p, c, r)
  BY <1>3, <1>4, <1>6, <1>7 DEF Turns
<1> QED
  BY <1>8 DEF c

\* The writes of one partition's operation, as writes of the pair.
LEMMA InType ==
  ASSUME NEW i \in Copies, NEW writes \in Seq(Writes)
  PROVE  /\ In(i, writes) \in Seq(Steps) /\ Len(In(i, writes)) = Len(writes)
         /\ \A k \in 1 .. Len(writes) : In(i, writes)[k] = <<i, writes[k]>>
<1>1. DOMAIN writes = 1 .. Len(writes) /\ Len(writes) \in Nat
  OBVIOUS
<1>2. In(i, writes) = [k \in 1 .. Len(writes) |-> <<i, writes[k]>>]
  BY <1>1 DEF In
<1>3. \A k \in 1 .. Len(writes) : <<i, writes[k]>> \in Steps
  BY DEF Steps
<1> QED
  BY <1>1, <1>2, <1>3

LEMMA TurnsIn ==
  ASSUME NEW p \in Pairs, NEW i \in Copies, NEW writes \in Seq(Writes), NEW r,
         Leads(p[i], writes, r)
  PROVE  Turns(p, In(i, writes), [p EXCEPT ![i] = r]) /\ [p EXCEPT ![i] = r] \in Pairs
<1> DEFINE n == Len(writes)
           todo == In(i, writes)
<1>1. PICK h \in [0 .. n -> GoodPartitions] :
        /\ h[0] = p[i] /\ h[n] = r
        /\ \A k \in 1 .. n : h[k] = Written(h[k - 1], writes[k])
  BY DEF Leads
<1>2. n \in Nat /\ Len(todo) = n /\ \A k \in 1 .. n : todo[k] = <<i, writes[k]>>
  BY InType
<1> HIDE DEF n, todo
<1> DEFINE g == [k \in 0 .. n |-> [p EXCEPT ![i] = h[k]]]
<1>3. \A k \in 0 .. n : g[k] = [p EXCEPT ![i] = h[k]] /\ g[k] \in Pairs /\ g[k][i] = h[k]
  BY <1>1 DEF Pairs
<1>4. g \in [0 .. n -> Pairs]
  BY <1>3
<1>5. g[0] = p /\ g[n] = [p EXCEPT ![i] = r]
  <2>1. 0 \in 0 .. n /\ n \in 0 .. n
    BY <1>2
  <2>2. [p EXCEPT ![i] = p[i]] = p
    BY DEF Pairs
  <2> QED
    BY <1>1, <1>3, <2>1, <2>2
<1> HIDE DEF g
<1>6. ASSUME NEW k \in 1 .. n PROVE g[k] = Applied(g[k - 1], todo[k])
  <2>1. k \in 0 .. n /\ k - 1 \in 0 .. n
    BY <1>2
  <2>2. Applied(g[k - 1], todo[k]) = [g[k - 1] EXCEPT ![i] = Written(h[k - 1], writes[k])]
    <3>1. todo[k] = <<i, writes[k]>> /\ g[k - 1][i] = h[k - 1]
      BY <1>2, <1>3, <2>1
    <3>2. todo[k][1] = i /\ todo[k][2] = writes[k]
      BY <3>1
    <3> QED
      BY <3>1, <3>2 DEF Applied
  <2>3. Applied(g[k - 1], todo[k]) = [g[k - 1] EXCEPT ![i] = h[k]]
    BY <1>1, <2>2
  <2>4. g[k - 1] = [p EXCEPT ![i] = h[k - 1]] /\ g[k] = [p EXCEPT ![i] = h[k]]
    BY <1>3, <2>1
  <2> QED
    BY <2>3, <2>4 DEF Pairs
<1>7. Turns(p, todo, [p EXCEPT ![i] = r])
  BY <1>2, <1>4, <1>5, <1>6 DEF Turns
<1>8. n \in 0 .. n
  BY <1>2
<1> QED
  BY <1>3, <1>5, <1>7, <1>8 DEF todo

-----------------------------------------------------------------------------
(* The calls, worked out when the partitions are part and no call is under    *)
(* way.                                                                       *)

\* No sector of a record is taken for free in a copy in use; and, if w, every
\* other sector is.
Safe(p, k, f, w) ==
  \A i \in Copies : k[i] => /\ f[i] \subseteq FreeBitmap(p[i])
                            /\ w => FreeBitmap(p[i]) \subseteq f[i]

Outcomes ==
  [todo : Seq(Steps), ok : [Copies -> BOOLEAN], free : [Copies -> SUBSET Sectors],
   end : Ends, healed : BOOLEAN]

AtRest ==
  /\ part \in Pairs /\ ok \in [Copies -> BOOLEAN] /\ free \in [Copies -> SUBSET Sectors]
  /\ Safe(part, ok, free, ~ unhealed)

\* What a call has worked out, with the copies of fresh still untouched.
Prepared(fresh) ==
  {c \in Outcomes :
     \E goal \in Pairs :
       /\ Turns(part, c.todo, goal)
       /\ Safe(goal, c.ok, c.free, ~ unhealed /\ c.healed)
       /\ \A i \in fresh : goal[i] = part[i] /\ c.ok[i] = ok[i]}

LEMMA PreparedFewer == \A f, g : g \subseteq f => Prepared(f) \subseteq Prepared(g)
  BY DEF Prepared

LEMMA LeavesPrepared ==
  ASSUME AtRest, NEW e \in Ends
  PROVE  [Leaves EXCEPT !.end = e] \in Prepared(Copies) /\ Leaves \in Prepared(Copies)
<1> DEFINE c == [todo |-> <<>>, ok |-> ok, free |-> free, end |-> e, healed |-> TRUE]
           d == [todo |-> <<>>, ok |-> ok, free |-> free, end |-> "return", healed |-> TRUE]
<1>6. Leaves = d
  BY DEF Leaves
<1>8. \A h : [[todo |-> <<>>, ok |-> ok, free |-> free, end |-> "return", healed |-> h]
                EXCEPT !.end = e]
               = [todo |-> <<>>, ok |-> ok, free |-> free, end |-> e, healed |-> h]
  OBVIOUS
<1>7. [d EXCEPT !.end = e] = c
  BY <1>8, Zenon
<1>1. [Leaves EXCEPT !.end = e] = c /\ Leaves = d
  BY <1>6, <1>7
<1>2. c \in Outcomes /\ d \in Outcomes
  BY DEF AtRest, Outcomes, Ends
<1>3. /\ Turns(part, <<>>, part) /\ part \in Pairs
      /\ Safe(part, ok, free, ~ unhealed /\ TRUE)
  BY TurnsNowhere DEF AtRest, Safe
<1>4. c \in Prepared(Copies)
  BY <1>2, <1>3 DEF Prepared
<1>5. d \in Prepared(Copies)
  BY <1>2, <1>3 DEF Prepared
<1> QED
  BY <1>1, <1>4, <1>5

LEMMA SharePrepared ==
  ASSUME AtRest, NEW fresh \in SUBSET Copies, NEW i \in fresh, ok[i],
         NEW c \in Prepared(fresh), NEW n \in Names, NEW v \in Values, NEW keep \in BOOLEAN
  PROVE  Share(c, i, n, v, keep) \in Prepared(fresh \ {i})
<1>1. PICK goal \in Pairs :
        /\ Turns(part, c.todo, goal)
        /\ Safe(goal, c.ok, c.free, ~ unhealed /\ c.healed)
        /\ \A j \in fresh : goal[j] = part[j] /\ c.ok[j] = ok[j]
  BY DEF Prepared
<1>2. /\ c \in Outcomes /\ c.todo \in Seq(Steps) /\ c.ok \in [Copies -> BOOLEAN]
      /\ c.free \in [Copies -> SUBSET Sectors] /\ i \in Copies
      /\ part[i] \in GoodPartitions
  BY DEF Prepared, Outcomes, AtRest, Pairs
<1>3. CASE c.end # "return"
  BY <1>3, PreparedFewer DEF Share
<1>4. CASE c.end = "return"
  <2> DEFINE r == WriteRecord(part[i], c.free[i], n, v)
             s == Joined(c, i, r, keep)
             next == [goal EXCEPT ![i] = r.p]
  <2>1. c.free[i] \subseteq FreeBitmap(part[i])
    BY <1>1, <1>2 DEF Safe
  <2>2. /\ r.p \in GoodPartitions /\ r.out \in Seq(Writes) /\ Leads(part[i], r.out, r.p)
        /\ r.free \subseteq Sectors /\ r.free \subseteq FreeBitmap(r.p)
        /\ r.end = "true" /\ c.free[i] = FreeBitmap(part[i]) =>
             r.free = FreeBitmap(r.p)
    BY <1>2, <2>1, WriteRecordSane
  <2>3. Share(c, i, n, v, keep) = s
    BY <1>4 DEF Share
  <2> HIDE DEF r
  <2>4. Turns(goal, In(i, r.out), next) /\ next \in Pairs
    BY <1>1, <1>2, <2>2, TurnsIn
  <2>5. In(i, r.out) \in Seq(Steps)
    BY <1>2, <2>2, InType
  <2>6. Turns(part, c.todo \o In(i, r.out), next)
    BY <1>1, <1>2, <2>4, <2>5, TurnsJoin
  <2>7. c.todo \o In(i, r.out) \in Seq(Steps)
    BY <1>2, <2>5
  <2> DEFINE todo == c.todo \o In(i, r.out)
             end == IF Stuck(r.end) THEN r.end ELSE "return"
             sok == [c.ok EXCEPT ![i] = keep \/ r.end = "true"]
             sfree == [c.free EXCEPT ![i] = r.free]
             shealed == c.healed /\ (keep => r.end = "true")
  <2>8. s = [todo |-> todo, free |-> sfree, ok |-> sok, healed |-> shealed, end |-> end]
    BY DEF Joined
  <2>9. end \in Ends
    BY DEF Stuck, Ends
  <2>10. sok \in [Copies -> BOOLEAN] /\ sfree \in [Copies -> SUBSET Sectors]
    BY <1>2, <2>2
  <2>11. /\ next[i] = r.p /\ sfree[i] = r.free
         /\ \A j \in Copies : j # i => /\ next[j] = goal[j] /\ sfree[j] = c.free[j]
                                       /\ sok[j] = c.ok[j]
    BY <1>2, <2>4 DEF Pairs
  <2>16. /\ sok[i] /\ shealed => r.end = "true"
         /\ shealed => c.healed
         /\ shealed \in BOOLEAN
    BY <1>2 DEF Outcomes
  <2> HIDE DEF todo, end, sok, sfree, shealed, next
  <2>17. ~ unhealed /\ shealed => c.free[i] = FreeBitmap(part[i])
    <3>1. c.ok[i] /\ goal[i] = part[i]
      BY <1>1
    <3> QED
      BY <1>1, <1>2, <2>1, <2>16, <3>1 DEF Safe
  <2>12. Safe(next, sok, sfree, ~ unhealed /\ shealed)
    <3>1. ASSUME NEW j \in Copies, sok[j]
          PROVE  /\ sfree[j] \subseteq FreeBitmap(next[j])
                 /\ ~ unhealed /\ shealed => FreeBitmap(next[j]) \subseteq sfree[j]
      <4>1. CASE j = i
        BY <2>2, <2>11, <2>16, <2>17, <3>1, <4>1
      <4>2. CASE j # i
        BY <1>1, <2>11, <2>16, <3>1, <4>2 DEF Safe
      <4> QED
        BY <4>1, <4>2
    <3> QED
      BY <3>1 DEF Safe
  <2>13. s \in Outcomes /\ s.todo = todo /\ s.ok = sok /\ s.free = sfree
         /\ s.healed = shealed
    <3>1. todo \in Seq(Steps)
      BY <2>7 DEF todo
    <3>2. s.todo = todo /\ s.ok = sok /\ s.free = sfree /\ s.healed = shealed
      BY <2>8
    <3> QED
      BY <2>8, <2>9, <2>10, <2>16, <3>1, <3>2 DEF Outcomes
  <2> HIDE DEF s
  <2>14. \A j \in fresh \ {i} : next[j] = part[j] /\ s.ok[j] = ok[j]
    BY <1>1, <2>11, <2>13
  <2>15. s \in Prepared(fresh \ {i})
    BY <2>4, <2>6, <2>12, <2>13, <2>14 DEF Prepared, todo
  <2> QED
    BY <2>3, <2>15
<1> QED
  BY <1>3, <1>4

\* The partitions to be written are in use, and each is written once.
LEMMA OrderIs ==
  ASSUME AtRest, NEW n
  PROVE  \/ WriteOrder(n) = <<>>
         \/ \E i \in Copies : ok[i] /\ WriteOrder(n) = <<i>>
         \/ \E i, j \in Copies : i # j /\ ok[i] /\ ok[j] /\ WriteOrder(n) = <<i, j>>
<1>1. CASE ~ present
  BY <1>1 DEF WriteOrder
<1>2. CASE present /\ ok[1] /\ ok[2]
  <2>1. WriteOrder(n) = <<2, 1>> \/ WriteOrder(n) = <<1, 2>>
    BY <1>2 DEF WriteOrder
  <2> QED
    BY <1>2, <2>1 DEF Copies
<1>3. CASE present /\ ok[1] /\ ~ ok[2]
  <2>1. WriteOrder(n) = <<1>>
    BY <1>3 DEF WriteOrder
  <2> QED
    BY <1>3, <2>1 DEF Copies
<1>4. CASE present /\ ok[2] /\ ~ ok[1]
  <2>1. WriteOrder(n) = <<2>>
    BY <1>4 DEF WriteOrder
  <2> QED
    BY <1>4, <2>1 DEF Copies
<1>5. CASE present /\ ~ ok[1] /\ ~ ok[2]
  <2>1. WriteOrder(n) = <<>>
    BY <1>5 DEF WriteOrder
  <2> QED
    BY <2>1
<1> QED
  BY <1>1, <1>2, <1>3, <1>4, <1>5

\* Giving a copy up changes no sector.
LEMMA SpoilingKeeps ==
  ASSUME NEW q \in Pairs, NEW i \in Copies
  PROVE  /\ In(i, <<Spoil>>) \in Seq(Steps)
         /\ \E r \in Pairs : /\ Turns(q, In(i, <<Spoil>>), r)
                             /\ \A j \in Copies : FreeBitmap(r[j]) = FreeBitmap(q[j])
<1> DEFINE p == q[i]
           s == Written(p, Spoil)
<1>1. p \in GoodPartitions
  BY DEF Pairs
<1>2. Spoil \in Writes
  BY WritesAre DEF Spoil
<1>3. <<Spoil>> \in Seq(Writes) /\ Append(<<>>, Spoil) = <<Spoil>> /\ <<>> \in Seq(Writes)
  BY <1>2
<1>4. Leads(p, <<Spoil>>, s)
  BY <1>1, <1>2, <1>3, LeadsNowhere, LeadsFurther
<1>5. s = [p EXCEPT !.head = FALSE]
  BY DEF Written, Spoil, HeaderWrite
<1>6. FreeBitmap(s) = FreeBitmap(p)
  BY <1>1, <1>5 DEF FreeBitmap, GoodPartitions
<1> HIDE DEF s
<1> DEFINE r == [q EXCEPT ![i] = s]
<1>7. Turns(q, In(i, <<Spoil>>), r) /\ r \in Pairs
  BY <1>3, <1>4, TurnsIn
<1>8. \A j \in Copies : FreeBitmap(r[j]) = FreeBitmap(q[j])
  BY <1>6 DEF Pairs
<1> HIDE DEF r
<1> QED
  BY <1>3, <1>7, <1>8, InType

LEMMA SpoiledPrepared ==
  ASSUME AtRest, NEW c \in Prepared({})
  PROVE  Spoiled(c) \in Prepared({})
<1>1. PICK goal \in Pairs :
        Turns(part, c.todo, goal) /\ Safe(goal, c.ok, c.free, ~ unhealed /\ c.healed)
  BY DEF Prepared
<1>2. c \in Outcomes /\ c.todo \in Seq(Steps)
  BY DEF Prepared, Outcomes
<1> DEFINE lost == {i \in Copies : ok[i] /\ ~ c.ok[i]}
           A(i) == IF i \in lost THEN In(i, <<Spoil>>) ELSE <<>>
<1>3. \A i \in Copies, q \in Pairs :
        /\ A(i) \in Seq(Steps)
        /\ \E r \in Pairs : /\ Turns(q, A(i), r)
                            /\ \A j \in Copies : FreeBitmap(r[j]) = FreeBitmap(q[j])
  BY TurnsNowhere, SpoilingKeeps
<1>4. Spoiling(c) = A(1) \o A(2) /\ 1 \in Copies /\ 2 \in Copies
  BY DEF Spoiling, Copies
<1> HIDE DEF A
<1>5. PICK q \in Pairs : /\ Turns(goal, A(1), q)
                         /\ \A j \in Copies : FreeBitmap(q[j]) = FreeBitmap(goal[j])
  BY <1>3, <1>4
<1>6. PICK r \in Pairs : /\ Turns(q, A(2), r)
                         /\ \A j \in Copies : FreeBitmap(r[j]) = FreeBitmap(q[j])
  BY <1>3, <1>4
<1>7. A(1) \in Seq(Steps) /\ A(2) \in Seq(Steps) /\ Spoiling(c) \in Seq(Steps)
  BY <1>1, <1>3, <1>4
<1>8. Turns(part, c.todo \o Spoiling(c), r)
  BY <1>1, <1>2, <1>4, <1>5, <1>6, <1>7, TurnsJoin
<1>9. Safe(r, c.ok, c.free, ~ unhealed /\ c.healed)
  BY <1>1, <1>5, <1>6 DEF Safe
<1> DEFINE d == [c EXCEPT !.todo = c.todo \o Spoiling(c)]
<1>10. c.todo \o Spoiling(c) \in Seq(Steps)
  BY <1>2, <1>7
<1>11. /\ d \in Outcomes /\ d.todo = c.todo \o Spoiling(c) /\ d.ok = c.ok
       /\ d.free = c.free /\ d.healed = c.healed
  BY <1>2, <1>10 DEF Outcomes
<1>12. Spoiled(c) = d \/ Spoiled(c) = c
  BY DEF Spoiled
<1> HIDE DEF d
<1>13. d \in Prepared({})
  BY <1>8, <1>9, <1>11 DEF Prepared
<1> QED
  BY <1>12, <1>13

LEMMA TurnPrepared ==
  ASSUME AtRest, NEW fresh \in SUBSET Copies, NEW c \in Prepared(fresh),
         NEW k \in Nat, NEW order, NEW n \in Names, NEW v \in Values,
         k \in DOMAIN order => order[k] \in fresh /\ ok[order[k]]
  PROVE  /\ k \in DOMAIN order => Turn(c, k, order, n, v) \in Prepared(fresh \ {order[k]})
         /\ k \notin DOMAIN order => Turn(c, k, order, n, v) = c
  BY SharePrepared DEF Turn

\* Dnepr_BPEEPROM_Write
LEMMA WritePrepared ==
  ASSUME AtRest, NEW n \in Names, NEW v \in Values
  PROVE  Write(n, v) \in Prepared({})
<1> DEFINE order == WriteOrder(n)
           c == [Leaves EXCEPT !.end = Checked(n)]
           first == Turn(c, 1, order, n, v)
           second == Turn(first, 2, order, n, v)
<1>1. c \in Prepared(Copies)
  <2>1. Checked(n) \in Ends
    BY DEF Checked, Either, Stuck, Ends
  <2> QED
    BY <2>1, LeavesPrepared
<1>2. Write(n, v) = Spoiled(second)
  BY DEF Write
<1> HIDE DEF c
<1>3. /\ {} \subseteq Copies
      /\ \A i \in Copies : Copies \ {i} \in SUBSET Copies
  OBVIOUS
<1>4. CASE order = <<>>
  <2>1. first = c /\ second = first
    BY <1>4 DEF Turn
  <2> QED
    BY <1>1, <1>2, <1>3, <2>1, PreparedFewer, SpoiledPrepared
<1>5. ASSUME NEW i \in Copies, ok[i], order = <<i>> PROVE Write(n, v) \in Prepared({})
  <2>1. DOMAIN order = {1} /\ order[1] = i
    BY <1>5
  <2> HIDE DEF order
  <2>2. first \in Prepared(Copies \ {i})
    BY <1>1, <1>5, <2>1, TurnPrepared
  <2> HIDE DEF first
  <2>3. second = first
    BY <2>1 DEF Turn
  <2>4. second \in Prepared({})
    BY <2>2, <2>3, PreparedFewer
  <2> QED
    BY <1>2, <2>4, SpoiledPrepared
<1>6. ASSUME NEW i \in Copies, NEW j \in Copies, i # j, ok[i], ok[j], order = <<i, j>>
      PROVE  Write(n, v) \in Prepared({})
  <2>1. DOMAIN order = {1, 2} /\ order[1] = i /\ order[2] = j
    BY <1>6
  <2> HIDE DEF order
  <2>2. first \in Prepared(Copies \ {i})
    BY <1>1, <1>6, <2>1, TurnPrepared
  <2> HIDE DEF first
  <2>3. second \in Prepared((Copies \ {i}) \ {j})
    BY <1>6, <2>1, <2>2, TurnPrepared
  <2>4. second \in Prepared({})
    BY <2>3, PreparedFewer
  <2> QED
    BY <1>2, <2>4, SpoiledPrepared
<1> HIDE DEF order
<1>7. \/ order = <<>>
      \/ \E i \in Copies : ok[i] /\ order = <<i>>
      \/ \E i, j \in Copies : i # j /\ ok[i] /\ ok[j] /\ order = <<i, j>>
  BY OrderIs DEF order
<1> QED
  BY <1>4, <1>5, <1>6, <1>7

\* What Dnepr_BPEEPROM_Read writes back.
LEMMA HealPrepared ==
  ASSUME AtRest, NEW n \in Names, NEW v \in Values
  PROVE  Heal(n, v) \in Prepared({})
<1>1. Leaves \in Prepared(Copies) /\ 1 \in Copies
  BY LeavesPrepared DEF Ends, Copies
<1>2. CASE ~ ok[1] \/ Valid(1, n)
  BY <1>1, <1>2, PreparedFewer DEF Heal
<1>3. CASE ok[1] /\ ~ Valid(1, n)
  <2>1. Share(Leaves, 1, n, v, TRUE) \in Prepared(Copies \ {1})
    BY <1>1, <1>3, SharePrepared
  <2> QED
    BY <1>3, <2>1, PreparedFewer DEF Heal
<1> QED
  BY <1>2, <1>3

\* Dnepr_BPEEPROM_Init
LEMMA InitWritesType ==
  ASSUME part \in Pairs
  PROVE  InitWrites \in Seq(Steps)
<1>1. /\ FreeSector \in GoodSectors /\ EmptyTable \in Tables
      /\ \A i \in 1 .. NSectors : i - 1 \in Sectors /\ i - 1 \in Places
      /\ NSectors \in Nat
  BY FreeSectorIsGood, Constants DEF Sectors, EmptyTable, Tables, Places
<1>2. Format \in Seq(Writes)
  <2> DEFINE a == <<HeaderWrite(FALSE)>>
             b == [i \in 1 .. NSectors |-> SectorWrite(i - 1, FreeSector)]
             c == <<HeaderWrite(TRUE), TableWrite(EmptyTable), CrcWrite(EmptyTable)>>
  <2>1. a \in Seq(Writes) /\ c \in Seq(Writes)
    <3>1. /\ HeaderWrite(FALSE) \in Writes /\ HeaderWrite(TRUE) \in Writes
          /\ TableWrite(EmptyTable) \in Writes /\ CrcWrite(EmptyTable) \in Writes
      BY <1>1, WritesAre
    <3>2. \A x, y, z \in Writes : <<x>> \in Seq(Writes) /\ <<x, y, z>> \in Seq(Writes)
      OBVIOUS
    <3> QED
      BY <3>1, <3>2
  <2>2. b \in Seq(Writes)
    BY <1>1, WritesAre
  <2>3. Format = a \o b \o c
    BY DEF Format
  <2> HIDE DEF a, b, c
  <2> QED
    BY <2>1, <2>2, <2>3
<1>3. ASSUME NEW p \in GoodPartitions PROVE Copy(p) \in Seq(Writes)
  <2> DEFINE a == <<TableWrite(p.table), CrcWrite(p.crc)>>
             b == [i \in 1 .. NSectors |-> SectorWrite(i - 1, p.sector[i - 1])]
  <2>1. a \in Seq(Writes)
    BY PartitionFields, WritesAre
  <2>2. b \in Seq(Writes)
    BY <1>1, PartitionFields, WritesAre
  <2>3. Copy(p) = a \o b
    BY DEF Copy
  <2> HIDE DEF a, b
  <2> QED
    BY <2>1, <2>2, <2>3
<1>4. 1 \in Copies /\ 2 \in Copies /\ part[1] \in GoodPartitions /\ part[2] \in GoodPartitions
  BY DEF Copies, Pairs
<1>5. /\ Format \o Copy(part[1]) \in Seq(Writes)
      /\ Format \o Copy(part[2]) \in Seq(Writes)
  BY <1>2, <1>3, <1>4
<1>6. /\ In(2, Format \o Copy(part[1])) \in Seq(Steps)
      /\ In(1, Format \o Copy(part[2])) \in Seq(Steps)
      /\ In(1, Format) \in Seq(Steps) /\ In(2, Format) \in Seq(Steps)
  BY <1>2, <1>4, <1>5, InType
<1>7. In(1, Format) \o In(2, Format) \in Seq(Steps) /\ <<>> \in Seq(Steps)
  BY <1>6
<1> QED
  BY <1>6, <1>7 DEF InitWrites

\* What a reading finds is a value.
LEMMA FoundType ==
  ASSUME part \in Pairs, NEW n \in Names, Found(part, ok, present, n).end = "true"
  PROVE  Found(part, ok, present, n).value \in Values
<1> DEFINE c(i) == Lookup(part, ok, present, i, n)
<1>1. ASSUME NEW i \in Copies, c(i).end = "true" PROVE c(i).value \in Values
  <2>1. CASE present /\ ok[i]
    <3>1. c(i) = Content(part[i], n) /\ part[i] \in GoodPartitions
      BY <2>1 DEF Lookup, Pairs
    <3> QED
      BY <1>1, <3>1, ContentType
  <2>2. CASE ~ (present /\ ok[i])
    BY <1>1, <2>2 DEF Lookup, NotFound
  <2> QED
    BY <2>1, <2>2
<1>2. Found(part, ok, present, n) = Better(c(1), c(2)) /\ 1 \in Copies /\ 2 \in Copies
  BY DEF Found, Copies
<1> HIDE DEF c
<1> QED
  BY <1>1, <1>2 DEF Better, Stuck, NotFound

-----------------------------------------------------------------------------
(* The inductive invariant.                                                   *)
Calls ==
  {Off, NoCall}
    \cup [op : {"init"}, todo : Seq(Steps)]
    \cup [op : {"load", "write"}, name : Names, value : Values, todo : Seq(Steps),
          ok : [Copies -> BOOLEAN], free : [Copies -> SUBSET Sectors], end : Ends,
          healed : BOOLEAN]

Types ==
  /\ part \in Pairs
  /\ ok \in [Copies -> BOOLEAN]
  /\ free \in [Copies -> SUBSET Sectors]
  /\ present \in BOOLEAN
  /\ ram \in [Names -> Values]
  /\ synced \in 0 .. Len(Order)
  /\ cuts \in 0 .. MaxCuts
  /\ call \in Calls
  /\ unhealed \in BOOLEAN

\* At rest the bitmaps are safe, and the whole truth until a copy could not be
\* written back; a call that returns will leave them so, for what its writes
\* will have made of the partitions.
BitmapsKept ==
  /\ call = NoCall => Safe(part, ok, free, ~ unhealed)
  /\ call.op \in {"load", "write"} /\ call.end = "return" =>
       \E goal \in Pairs :
         /\ Turns(part, call.todo, goal)
         /\ Safe(goal, call.ok, call.free, ~ unhealed /\ call.healed)

Inv == Types /\ BitmapsKept

LEMMA CallKinds ==
  ASSUME NEW c \in Calls
  PROVE  \/ c = Off \/ c = NoCall
         \/ c.op = "init" /\ c \in [op : {"init"}, todo : Seq(Steps)]
         \/ /\ c.op \in {"load", "write"} /\ c.name \in Names /\ c.value \in Values
            /\ c.ok \in [Copies -> BOOLEAN] /\ c.free \in [Copies -> SUBSET Sectors]
            /\ c.todo \in Seq(Steps) /\ c.end \in Ends /\ c.healed \in BOOLEAN
            /\ c \in [op : {"load", "write"}, name : Names, value : Values,
                      todo : Seq(Steps), ok : [Copies -> BOOLEAN],
                      free : [Copies -> SUBSET Sectors], end : Ends,
                      healed : BOOLEAN]
  BY DEF Calls

LEMMA OpsDiffer ==
  /\ Off.op = "off" /\ NoCall.op = "none" /\ NoCall # Off
  /\ Off \in Calls /\ NoCall \in Calls
  BY DEF Off, NoCall, Calls

LEMMA CallsAre ==
  ASSUME NEW c \in Calls
  PROVE  /\ c.op = "init" => c.todo \in Seq(Steps)
         /\ c.op \in {"load", "write"} =>
              /\ c.name \in Names /\ c.value \in Values /\ c.todo \in Seq(Steps)
              /\ c.ok \in [Copies -> BOOLEAN] /\ c.free \in [Copies -> SUBSET Sectors]
              /\ c.healed \in BOOLEAN
         /\ c \notin {Off, NoCall} => c.op \in {"init", "load", "write"}
  BY CallKinds, OpsDiffer

\* A call that begins.
LEMMA BegunKept ==
  ASSUME NEW op \in {"load", "write"}, NEW n \in Names, NEW v \in Values,
         NEW c \in Prepared({})
  PROVE  LET b == Begun(op, n, v, c)
         IN  /\ b \in Calls /\ b # NoCall
             /\ b.op \in {"load", "write"}
             /\ \E goal \in Pairs :
                  /\ Turns(part, b.todo, goal)
                  /\ Safe(goal, b.ok, b.free, ~ unhealed /\ b.healed)
<1> DEFINE b == Begun(op, n, v, c)
<1>1. /\ c.todo \in Seq(Steps) /\ c.ok \in [Copies -> BOOLEAN]
      /\ c.free \in [Copies -> SUBSET Sectors] /\ c.end \in Ends /\ c.healed \in BOOLEAN
  BY DEF Prepared, Outcomes
<1>2. b = [op |-> op, name |-> n, value |-> v, todo |-> c.todo, ok |-> c.ok,
           free |-> c.free, end |-> c.end, healed |-> c.healed]
  BY DEF Begun
<1>3. /\ b.op = op /\ b.todo = c.todo /\ b.ok = c.ok /\ b.free = c.free
      /\ b.healed = c.healed
  BY <1>2
<1>4. b \in Calls
  BY <1>1, <1>2 DEF Calls
<1>5. b # NoCall
  BY <1>3, OpsDiffer
<1>6. PICK goal \in Pairs :
        Turns(part, c.todo, goal) /\ Safe(goal, c.ok, c.free, ~ unhealed /\ c.healed)
  BY DEF Prepared
<1> HIDE DEF b
<1>7. /\ b.op \in {"load", "write"} /\ Turns(part, b.todo, goal)
      /\ Safe(goal, b.ok, b.free, ~ unhealed /\ b.healed)
  BY <1>3, <1>6
<1> QED
  BY <1>4, <1>5, <1>7 DEF b

LEMMA InvInit == Init => Inv
<1> SUFFICES ASSUME Init PROVE Inv
  OBVIOUS
<1>1. Unformatted \in GoodPartitions
  <2>1. EmptyTable \in Tables
    BY DEF EmptyTable, Tables, Places
  <2> QED
    BY <2>1, FreeSectorIsGood DEF Unformatted, GoodPartitions
<1>2. part \in Pairs /\ ok \in [Copies -> BOOLEAN] /\ free \in [Copies -> SUBSET Sectors]
  BY <1>1 DEF Init, Pairs
<1>3. /\ present \in BOOLEAN /\ ram \in [Names -> Values]
      /\ synced \in 0 .. Len(Order) /\ cuts \in 0 .. MaxCuts
  <2>1. Len(Order) \in Nat /\ MaxCuts \in Nat /\ Factory \in [Names -> Values]
    BY MirrorAssumption
  <2>2. present = FALSE /\ ram = Factory /\ synced = 0 /\ cuts = 0
    BY DEF Init
  <2>3. synced \in 0 .. Len(Order) /\ cuts \in 0 .. MaxCuts
    BY <2>1, <2>2
  <2>4. present \in BOOLEAN /\ ram \in [Names -> Values]
    BY <2>1, <2>2
  <2> QED
    BY <2>3, <2>4
<1>4. call = Off /\ unhealed \in BOOLEAN
  BY DEF Init
<1> QED
  BY <1>2, <1>3, <1>4, OpsDiffer DEF Inv, Types, BitmapsKept

LEMMA InvNext == Inv /\ [Next]_vars => Inv'
<1> SUFFICES ASSUME Inv, [Next]_vars PROVE Inv'
  OBVIOUS
<1> USE DEF Inv
<1>1. CASE PowerOn
  <2>1. PICK seen \in BOOLEAN :
          /\ present' = seen
          /\ call' = [op |-> "init", todo |-> IF seen THEN InitWrites ELSE <<>>]
    BY <1>1 DEF PowerOn
  <2>2. InitWrites \in Seq(Steps) /\ <<>> \in Seq(Steps)
    BY InitWritesType DEF Types
  <2>3. call' \in Calls /\ call'.op = "init"
    BY <2>1, <2>2 DEF Calls
  <2>4. Types'
    BY <1>1, <2>1, <2>3 DEF PowerOn, Types
  <2>5. BitmapsKept'
    BY <2>3, OpsDiffer DEF BitmapsKept
  <2> QED
    BY <2>4, <2>5
<1>2. CASE InitDone
  <2>1. /\ call' = NoCall /\ part' = part
        /\ free' = [i \in Copies |-> FreeBitmap(part[i])]
        /\ ok' = [i \in Copies |-> present /\ OpenPartition(part[i])]
        /\ UNCHANGED <<present, ram, synced, cuts, unhealed>>
    BY <1>2 DEF InitDone
  <2>2. \A i \in Copies : /\ FreeBitmap(part[i]) \subseteq Sectors
                          /\ (present /\ OpenPartition(part[i])) \in BOOLEAN
    BY DEF FreeBitmap, OpenPartition
  <2>3. ok' \in [Copies -> BOOLEAN] /\ free' \in [Copies -> SUBSET Sectors]
    BY <2>1, <2>2
  <2>4. Types'
    BY <2>1, <2>3, OpsDiffer DEF Types
  <2>5. Safe(part', ok', free', ~ unhealed')
    BY <2>1 DEF Safe
  <2>6. BitmapsKept'
    BY <2>1, <2>5, OpsDiffer DEF BitmapsKept
  <2> QED
    BY <2>4, <2>6
<1>3. CASE SyncNext
  <2> DEFINE n == Order[synced + 1]
             f == Found(part, ok, present, n)
  <2>1. /\ call = NoCall /\ synced < Len(Order) /\ synced' = synced + 1
        /\ call' = Synchronised(n, f)
        /\ UNCHANGED <<part, ok, free, present, ram, cuts, unhealed>>
    BY <1>3 DEF SyncNext
  <2>2. AtRest
    BY <2>1 DEF AtRest, Types, BitmapsKept
  <2>3. n \in Names /\ synced' \in 0 .. Len(Order)
    <3>1. Order \in Seq(Names) /\ Len(Order) \in Nat /\ synced + 1 \in 1 .. Len(Order)
      BY <2>1, MirrorAssumption DEF Types
    <3> QED
      BY <2>1, <3>1
  <2> HIDE DEF n
  <2>4. ram[n] \in Values
    BY <2>3 DEF Types
  <2>5. f.end = "true" => f.value \in Values
    BY <2>3, FoundType DEF Types
  <2> HIDE DEF f
  <2>6. CASE Stuck(f.end)
    <3> DEFINE c == [Leaves EXCEPT !.end = f.end]
    <3>1. f.end \in Ends
      BY <2>6 DEF Stuck, Ends
    <3>2. c \in Prepared({})
      BY <2>2, <3>1, LeavesPrepared, PreparedFewer
    <3>3. Synchronised(n, f) = Begun("write", n, ram[n], c)
      BY <2>6 DEF Synchronised, Stuck
    <3> QED
      BY <2>1, <2>3, <2>4, <3>2, <3>3, BegunKept DEF Types, BitmapsKept
  <2>7. CASE f.end = "true"
    <3>1. Heal(n, f.value) \in Prepared({})
      BY <2>2, <2>3, <2>5, <2>7, HealPrepared
    <3>2. Synchronised(n, f) = Begun("load", n, f.value, Heal(n, f.value))
      BY <2>7 DEF Synchronised, Stuck
    <3> QED
      BY <2>1, <2>3, <2>5, <2>7, <3>1, <3>2, BegunKept DEF Types, BitmapsKept
  <2>8. CASE ~ Stuck(f.end) /\ f.end # "true"
    <3>1. Write(n, ram[n]) \in Prepared({})
      BY <2>2, <2>3, <2>4, WritePrepared
    <3>2. Synchronised(n, f) = Begun("write", n, ram[n], Write(n, ram[n]))
      BY <2>8 DEF Synchronised
    <3> QED
      BY <2>1, <2>3, <2>4, <3>1, <3>2, BegunKept DEF Types, BitmapsKept
  <2> QED
    BY <2>6, <2>7, <2>8
<1>4. ASSUME NEW n \in Names, NEW v \in ValuesOf[n], Store(n, v) PROVE Inv'
  <2>1. /\ call = NoCall /\ ram' = [ram EXCEPT ![n] = v]
        /\ call' = Begun("write", n, v, Write(n, v))
        /\ UNCHANGED <<part, ok, free, present, synced, cuts, unhealed>>
    BY <1>4 DEF Store
  <2>2. v \in Values
    BY MirrorAssumption
  <2>3. AtRest
    BY <2>1 DEF AtRest, Types, BitmapsKept
  <2>4. Write(n, v) \in Prepared({})
    BY <2>2, <2>3, WritePrepared
  <2>5. ram' \in [Names -> Values]
    BY <2>1, <2>2 DEF Types
  <2> QED
    BY <2>1, <2>2, <2>4, <2>5, BegunKept DEF Types, BitmapsKept
<1>5. CASE EepromWrite
  <2>1. /\ call \notin {Off, NoCall} /\ call.todo # <<>>
        /\ part' = Applied(part, Head(call.todo))
        /\ call' = [call EXCEPT !.todo = Tail(call.todo)]
        /\ UNCHANGED <<ok, free, present, ram, synced, cuts, unhealed>>
    BY <1>5 DEF EepromWrite, Applied
  <2>2. call \in Calls /\ call.op \in {"init", "load", "write"} /\ call.todo \in Seq(Steps)
    BY <2>1, CallsAre DEF Types
  <2>3. Head(call.todo) \in Steps /\ Tail(call.todo) \in Seq(Steps)
    BY <2>1, <2>2
  <2>4. part' \in Pairs
    BY <2>1, <2>3, AppliedType DEF Types
  <2>5. /\ call' \in Calls /\ call'.op = call.op /\ call'.todo = Tail(call.todo)
        /\ call.op \in {"load", "write"} =>
             /\ call'.end = call.end /\ call'.ok = call.ok /\ call'.free = call.free
             /\ call'.healed = call.healed
    <3>1. CASE call.op = "init"
      <4>1. call \in [op : {"init"}, todo : Seq(Steps)]
        BY <2>2, <3>1, CallKinds, OpsDiffer
      <4> QED
        BY <2>1, <2>3, <3>1, <4>1 DEF Calls
    <3>2. CASE call.op \in {"load", "write"}
      <4>1. call \in [op : {"load", "write"}, name : Names, value : Values,
                      todo : Seq(Steps), ok : [Copies -> BOOLEAN],
                      free : [Copies -> SUBSET Sectors], end : Ends,
                      healed : BOOLEAN]
        BY <2>2, <3>2, CallKinds, OpsDiffer
      <4>2. call' \in [op : {"load", "write"}, name : Names, value : Values,
                       todo : Seq(Steps), ok : [Copies -> BOOLEAN],
                       free : [Copies -> SUBSET Sectors], end : Ends,
                       healed : BOOLEAN]
        BY <2>1, <2>3, <4>1
      <4>3. call' \in Calls
        BY <4>2 DEF Calls
      <4> QED
        BY <2>1, <4>1, <4>3
    <3> QED
      BY <2>2, <3>1, <3>2
  <2>6. Types'
    BY <2>1, <2>4, <2>5 DEF Types
  <2>7. call' # NoCall
    BY <2>2, <2>5, OpsDiffer
  <2>8. ASSUME call'.op \in {"load", "write"}, call'.end = "return"
        PROVE  \E goal \in Pairs :
                 /\ Turns(part', call'.todo, goal)
                 /\ Safe(goal, call'.ok, call'.free, ~ unhealed' /\ call'.healed)
    <3>1. PICK goal \in Pairs :
            /\ Turns(part, call.todo, goal)
            /\ Safe(goal, call.ok, call.free, ~ unhealed /\ call.healed)
      BY <2>5, <2>8 DEF BitmapsKept
    <3>2. Turns(part', call'.todo, goal)
      BY <2>1, <2>2, <2>5, <3>1, TurnsOn
    <3> QED
      BY <2>1, <2>5, <2>8, <3>1, <3>2
  <2> QED
    BY <2>6, <2>7, <2>8 DEF BitmapsKept
<1>6. CASE CallReturns
  <2>1. /\ call.op \in {"load", "write"} /\ call.todo = <<>> /\ call.end = "return"
        /\ ok' = call.ok /\ free' = call.free /\ call' = NoCall
        /\ ram' = [ram EXCEPT ![call.name] = call.value]
        /\ UNCHANGED <<part, present, synced, cuts>>
        /\ unhealed' = (unhealed \/ ~ call.healed)
    BY <1>6 DEF CallReturns
  <2>2. /\ call.name \in Names /\ call.value \in Values
        /\ call.ok \in [Copies -> BOOLEAN] /\ call.free \in [Copies -> SUBSET Sectors]
        /\ call.healed \in BOOLEAN
    BY <2>1, CallsAre DEF Types
  <2>3. Types'
    BY <2>1, <2>2, OpsDiffer DEF Types
  <2>4. PICK goal \in Pairs :
          /\ Turns(part, <<>>, goal)
          /\ Safe(goal, call.ok, call.free, ~ unhealed /\ call.healed)
    BY <2>1 DEF BitmapsKept
  <2>5. goal = part
    BY <2>4 DEF Turns
  <2>6. Safe(part', ok', free', ~ unhealed')
    BY <2>1, <2>2, <2>4, <2>5 DEF Safe
  <2> QED
    BY <2>1, <2>3, <2>6, OpsDiffer DEF BitmapsKept
<1>7. CASE PowerLoss
  <2>1. /\ call # Off /\ call' = Off /\ present' = FALSE /\ ram' = Factory /\ synced' = 0
        /\ ok' = [i \in Copies |-> FALSE] /\ free' = [i \in Copies |-> {}]
        /\ unhealed' = FALSE
    BY <1>7 DEF PowerLoss
  <2>2. part' \in Pairs /\ cuts' \in 0 .. MaxCuts
    <3>1. CASE call # NoCall /\ call.todo # <<>>
      <4>1. /\ cuts < MaxCuts /\ cuts' = cuts + 1
            /\ \/ part' = part
               \/ part' = [part EXCEPT ![Head(call.todo)[1]] =
                                         Torn(part[Head(call.todo)[1]], Head(call.todo)[2])]
        BY <1>7, <3>1 DEF PowerLoss
      <4>2. call.todo \in Seq(Steps)
        BY <2>1, <3>1, CallsAre DEF Types
      <4>3. Head(call.todo) \in Steps
        BY <3>1, <4>2
      <4>4. Head(call.todo)[1] \in Copies /\ Head(call.todo)[2] \in Writes
        BY <4>3 DEF Steps
      <4>5. Torn(part[Head(call.todo)[1]], Head(call.todo)[2]) \in GoodPartitions
        BY <4>4, TornType DEF Types, Pairs
      <4>6. cuts' \in 0 .. MaxCuts
        BY <4>1, MirrorAssumption DEF Types
      <4>7. part' \in Pairs
        BY <4>1, <4>4, <4>5 DEF Types, Pairs
      <4> QED
        BY <4>6, <4>7
    <3>2. CASE ~ (call # NoCall /\ call.todo # <<>>)
      BY <1>7, <3>2 DEF PowerLoss, Types
    <3> QED
      BY <3>1, <3>2
  <2>3. ram' \in [Names -> Values] /\ synced' \in 0 .. Len(Order)
    <3>1. Len(Order) \in Nat
      BY MirrorAssumption
    <3> QED
      BY <2>1, <3>1, MirrorAssumption
  <2>4. Types'
    BY <2>1, <2>2, <2>3, OpsDiffer DEF Types
  <2>5. BitmapsKept'
    BY <2>1, OpsDiffer DEF BitmapsKept
  <2> QED
    BY <2>4, <2>5
<1>8. CASE UNCHANGED vars
  BY <1>8 DEF vars, Types, BitmapsKept
<1> QED
  BY <1>1, <1>2, <1>3, <1>4, <1>5, <1>6, <1>7, <1>8 DEF Next

\* The parameters in the EEPROM: types of what is kept, and of what a call has
\* still to write; the bitmaps of free sectors are safe now or will be when the
\* call returns.
THEOREM MirrorInvariant == Spec => []Inv
<1> QED
  BY InvInit, InvNext, PTL DEF Spec

\* The fields a sector is read into keep to their ranges, in both partitions,
\* and so does everything else that is kept.
THEOREM Typing == Spec => []TypeOK
<1>1. Inv => TypeOK
  <2> SUFFICES ASSUME Inv PROVE TypeOK
    OBVIOUS
  <2>1. GoodPartitions \subseteq Partitions
    BY DEF GoodPartitions, Partitions, GoodSectors, Tables, Places
  <2>2. part \in [Copies -> Partitions]
    BY <2>1 DEF Inv, Types, Pairs
  <2>3. call.op \in {"none", "off", "init", "load", "write"}
    BY CallKinds, OpsDiffer DEF Inv, Types
  <2> QED
    BY <2>2, <2>3 DEF Inv, Types, TypeOK
<1> QED
  BY <1>1, MirrorInvariant, PTL

\* At rest no sector of a partition in use that belongs to a record is taken
\* for a free one, wherever and however often the power failed.
THEOREM NoRecordOverwritten == Spec => []BitmapSafe
<1>1. Inv => BitmapSafe
  BY DEF Inv, BitmapsKept, BitmapSafe, Safe
<1> QED
  BY <1>1, MirrorInvariant, PTL

\* And the bitmap is the whole truth, however often the power failed, until a
\* copy could not be written back in this start.
THEOREM NoSectorLost == Spec => [](~ unhealed => BitmapTrue)
<1>1. Inv => (~ unhealed => BitmapTrue)
  BY DEF Inv, BitmapsKept, BitmapTrue, Safe
<1> QED
  BY <1>1, MirrorInvariant, PTL

-----------------------------------------------------------------------------
(* What the operations do to a partition whose records are in order: how they *)
(* go and what they leave in which sector.                                    *)

\* Two partitions with the same header and hash table.
Alike(p, q) == p.head = q.head /\ p.table = q.table /\ p.crc = q.crc

\* Piece k of the value v, in a sector that has the rest from b.
Like(r, b, v, k, next) ==
  /\ r \in GoodSectors
  /\ r.status = IF k > 1 THEN "BODY" ELSE b.status
  /\ b.good => r.good
  /\ r.name = b.name /\ r.nexthash = b.nexthash /\ r.prevhash = b.prevhash
  /\ r.len = Size[v] /\ r.crc = v /\ r.data = <<v, k>> /\ r.next = next

\* The fields of a machine that may put out the writes O.
LEMMA MachinesMore ==
  ASSUME NEW O \in SUBSET Writes, NEW m \in Machines(O)
  PROVE  /\ m \in Writers
         /\ m.p \in GoodPartitions /\ m.free \subseteq Sectors /\ m.at \in Places
         /\ m.buf \in GoodSectors /\ m.out \in Seq(O)
         /\ m.p.sector \in [Sectors -> GoodSectors]
         /\ \A s \in Sectors : m.p.sector[s] \in GoodSectors
<1>1. /\ m.p \in GoodPartitions /\ m.free \subseteq Sectors /\ m.at \in Places
      /\ m.buf \in GoodSectors /\ m.out \in Seq(O)
  BY MachineFields
<1>2. Seq(O) \subseteq Seq(Writes)
  OBVIOUS
<1>3. m \in Writers
  BY <1>2 DEF Writers, Machines
<1> QED
  BY <1>1, <1>3, PartitionFields

\* A filled sector holds the next piece and is linked as it was, or as it is
\* told.
LEMMA FilledLike ==
  ASSUME NEW m \in Writers, NEW v \in Values, NEW i \in Nat
  PROVE  /\ Like(Filled(m, v, i), m.buf, v, i + 1, m.buf.next)
         /\ \A next \in Places :
              Like([Filled(m, v, i) EXCEPT !.next = next], m.buf, v, i + 1, next)
<1> DEFINE b == m.buf
           f == Filled(m, v, i)
<1>1. b \in GoodSectors /\ b \in SectorTypes
  BY MachineFields, SectorFields DEF Writers
<1>2. f = [b EXCEPT !.status = IF i > 0 THEN "BODY" ELSE b.status,
                    !.len = Size[v], !.crc = v, !.data = <<v, i + 1>>]
  BY DEF Filled
<1>3. f \in GoodSectors
  BY FilledIsGood
<1>4. /\ f.status = IF i > 0 THEN "BODY" ELSE b.status
      /\ f.len = Size[v] /\ f.crc = v /\ f.data = <<v, i + 1>>
  BY <1>1, <1>2 DEF SectorTypes
<1>5. /\ f.name = b.name /\ f.nexthash = b.nexthash /\ f.prevhash = b.prevhash
      /\ f.next = b.next
  BY <1>1, <1>2 DEF SectorTypes
<1>6. b.good => f.good
  BY <1>1, <1>2 DEF SectorTypes
<1> HIDE DEF f, b
<1>7. i + 1 > 1 <=> i > 0
  OBVIOUS
<1>8. Like(f, b, v, i + 1, b.next)
  BY <1>3, <1>4, <1>5, <1>6, <1>7 DEF Like
<1>9. ASSUME NEW next \in Places PROVE Like([f EXCEPT !.next = next], b, v, i + 1, next)
  <2> DEFINE g == [f EXCEPT !.next = next]
  <2>1. g \in GoodSectors
    BY <1>3 DEF GoodSectors, SectorTypes, Places
  <2>2. /\ g.status = f.status /\ g.name = f.name /\ g.nexthash = f.nexthash
        /\ g.prevhash = f.prevhash /\ g.next = next
        /\ g.len = f.len /\ g.crc = f.crc /\ g.data = f.data
    BY <1>3 DEF GoodSectors, SectorTypes
  <2>3. f.good => g.good
    BY <1>3 DEF GoodSectors, SectorTypes
  <2> HIDE DEF g
  <2>4. Like(g, b, v, i + 1, next)
    BY <1>4, <1>5, <1>6, <1>7, <2>1, <2>2, <2>3 DEF Like
  <2> QED
    BY <2>4 DEF g
<1> QED
  BY <1>8, <1>9 DEF f, b

\* A sector is written.
LEMMA WriteDoes ==
  ASSUME NEW O \in SUBSET Writes, NEW m \in Machines(O), Running(m),
         NEW s \in Sectors, NEW rec \in GoodSectors, SectorWrite(s, rec) \in O
  PROVE  LET r == WriteSector(m, s, rec)
         IN  /\ r \in Machines(O) /\ Running(r)
             /\ r.free = m.free /\ r.at = m.at /\ r.buf = rec
             /\ Alike(r.p, m.p) /\ r.p.sector[s] = rec
             /\ \A t \in Sectors : t # s => r.p.sector[t] = m.p.sector[t]
<1> DEFINE w == SectorWrite(s, rec)
           q == Written(m.p, w)
           r == WriteSector(m, s, rec)
<1>1. /\ m.p \in GoodPartitions /\ m.out \in Seq(O) /\ w \in Writes
      /\ m.p.sector \in [Sectors -> GoodSectors]
  BY MachinesMore
<1>2. q = [m.p EXCEPT !.sector[s] = rec]
  BY DEF Written, SectorWrite
<1>3. q \in GoodPartitions /\ Append(m.out, w) \in Seq(O)
  BY <1>1, WrittenType
<1>4. Alike(q, m.p) /\ q.sector = [m.p.sector EXCEPT ![s] = rec]
  BY <1>1, <1>2 DEF GoodPartitions, Alike
<1>5. r = [[m EXCEPT !.p = q, !.out = Append(m.out, w)] EXCEPT !.buf = rec]
  BY DEF WriteSector, Put
<1> HIDE DEF q, w
<1>6. /\ r \in Machines(O) /\ r.p = q /\ r.free = m.free /\ r.at = m.at /\ r.buf = rec
      /\ r.end = m.end
  <2> DEFINE t == [m EXCEPT !.p = q, !.out = Append(m.out, w)]
  <2>1. /\ t \in Machines(O) /\ t.p = q /\ t.free = m.free /\ t.at = m.at
        /\ t.end = m.end
    BY <1>3 DEF Machines
  <2>2. r = [t EXCEPT !.buf = rec]
    BY <1>5
  <2> HIDE DEF t, r
  <2> QED
    BY <2>1, <2>2 DEF Machines
<1> HIDE DEF r
<1>7. Running(r)
  BY <1>6 DEF Running
<1>8. r.p.sector[s] = rec /\ \A t \in Sectors : t # s => r.p.sector[t] = m.p.sector[t]
  BY <1>1, <1>4, <1>6
<1> QED
  BY <1>4, <1>6, <1>7, <1>8 DEF r

\* A sector is read, found good and of the kind that is expected.
LEMMA ReadDoes ==
  ASSUME NEW O, NEW m \in Machines(O), Running(m),
         NEW s \in Sectors, m.p.sector[s].good, NEW status,
         m.p.sector[s].status = status
  PROVE  LET r == ReadSectorAs(m, s, status)
         IN  /\ r \in Machines(O) /\ Running(r) /\ r.p = m.p /\ r.free = m.free
             /\ r.out = m.out /\ r.at = s /\ r.buf = m.p.sector[s]
<1> DEFINE q == [m EXCEPT !.at = s, !.buf = m.p.sector[s]]
<1>1. ReadSector(m, s) = q
  BY DEF ReadSector
<1>2. m.p.sector[s] \in GoodSectors /\ s \in Places
  BY MachineFields, PartitionFields DEF Places
<1>3. /\ q \in Machines(O) /\ q.p = m.p /\ q.free = m.free /\ q.out = m.out /\ q.at = s
      /\ q.buf = m.p.sector[s] /\ q.end = m.end
  BY <1>2 DEF Machines
<1> HIDE DEF q
<1>4. ReadSectorAs(m, s, status) = q
  BY <1>1, <1>3 DEF ReadSectorAs, HasStatus, Expect
<1> QED
  BY <1>3, <1>4 DEF Running

-----------------------------------------------------------------------------
(* The loops, step by step.                                                   *)
LEMMA WriterWrites ==
  ASSUME NEW m \in Writers, NEW s \in Places, NEW rec \in GoodSectors
  PROVE  LET r == WriteSector(m, s, rec)
         IN  r \in Writers /\ r.free = m.free /\ r.at = m.at /\ r.end = m.end
<1> DEFINE w == SectorWrite(s, rec)
           q == Written(m.p, w)
           r == WriteSector(m, s, rec)
<1>1. m \in Machines(Writes) /\ m.p \in GoodPartitions /\ m.out \in Seq(Writes)
  BY MachineFields DEF Writers
<1>2. w \in Writes
  BY WritesAre
<1>3. q \in GoodPartitions /\ Append(m.out, w) \in Seq(Writes)
  BY <1>1, <1>2, WrittenType
<1>4. CASE Running(m)
  <2> DEFINE t == [m EXCEPT !.p = q, !.out = Append(m.out, w)]
  <2>1. r = [t EXCEPT !.buf = rec]
    BY <1>4 DEF WriteSector, Put
  <2> HIDE DEF q, w
  <2>2. /\ t \in Machines(Writes) /\ t.free = m.free /\ t.at = m.at /\ t.end = m.end
    BY <1>1, <1>3 DEF Machines
  <2> HIDE DEF t, r
  <2> QED
    BY <2>1, <2>2 DEF Machines, Writers, r
<1>5. CASE ~ Running(m)
  BY <1>5 DEF WriteSector
<1> QED
  BY <1>4, <1>5

\* Reading and the steps of the loops make machines of machines.
LEMMA WriterReadsNext == \A m \in Writers : ReadNext(m) \in Writers
  BY ReadNextType DEF Writers

\* The loop over the kept sectors ...
LEMMA RefillType ==
  ASSUME NEW v \in Values
  PROVE  \A m \in Writers, i \in Nat : Refill(m, v, i) \in Writers
<1> TAKE m \in Writers, i \in Nat
<1> DEFINE q == WriteSector(m, m.at, Filled(m, v, i))
           t == HasNext(q)
<1>1. Filled(m, v, i) \in GoodSectors /\ m.at \in Places
  BY FilledIsGood, MachineFields DEF Writers
<1>2. q \in Machines(Writes)
  BY <1>1, WriterWrites DEF Writers
<1> HIDE DEF q
<1>3. t = q \/ t = [q EXCEPT !.end = "false"]
  BY DEF HasNext, Expect
<1> HIDE DEF t
<1>4. t \in Writers
  BY <1>2, <1>3, ExpectType DEF Writers
<1> QED
  BY <1>4, WriterReadsNext DEF Refill, t, q

\* ... the one that goes on past them ...
LEMMA LengthenType ==
  ASSUME NEW v \in Values
  PROVE  \A m \in Writers, i \in Nat : Lengthen(m, v, i) \in Writers
<1> TAKE m \in Writers, i \in Nat
<1> DEFINE more == i < Size[v] - 1
           next == IF more THEN NextFree(m.free) ELSE None
           e == Expect(m, more => next # None)
           q == [e EXCEPT !.free = Busy(@, next)]
<1>1. m \in Machines(Writes) /\ m.free \in SUBSET Sectors
  BY MachineFields DEF Writers
<1>2. next \in Places
  BY <1>1, NextFreeType DEF Places
<1>3. e = m \/ e = [m EXCEPT !.end = "false"]
  BY DEF Expect
<1>4. Lengthen(m, v, i) = IF ~ Running(m) THEN m ELSE Extend(q, v, i, next)
  BY DEF Lengthen
<1> HIDE DEF e, next
<1>5. e \in Machines(Writes) /\ e.free = m.free
  BY <1>1, <1>3, ExpectType DEF Writers
<1>6. e.free \ {next} \in SUBSET Sectors
  BY <1>1, <1>5
<1>7. q \in Machines(Writes) /\ q.at \in Places
  BY <1>5, <1>6, MachineExcept, MachineFields DEF Busy
<1> HIDE DEF q
<1> DEFINE rec == [Filled(q, v, i) EXCEPT !.next = next]
           t == WriteSector(q, q.at, rec)
<1>8. Filled(q, v, i) \in GoodSectors
  BY <1>7, FilledIsGood DEF Writers
<1>9. rec \in GoodSectors
  BY <1>2, <1>8 DEF GoodSectors, SectorTypes, Places
<1>10. Extend(q, v, i, next) = IF Running(q) THEN [t EXCEPT !.at = next] ELSE q
  BY DEF Extend
<1> HIDE DEF rec
<1>11. t \in Machines(Writes)
  BY <1>7, <1>9, WriterWrites DEF Writers
<1> HIDE DEF t
<1>12. [t EXCEPT !.at = next] \in Machines(Writes)
  BY <1>2, <1>11, MachineExcept
<1> QED
  BY <1>1, <1>4, <1>7, <1>10, <1>12 DEF Writers

\* What a surplus sector is made.
Emptied(r) ==
  [r EXCEPT !.status = "FREE", !.crc = "zero", !.next = None, !.data = <<>>]

\* ... an emptied sector ...
LEMMA EmptiedIs ==
  ASSUME NEW r \in GoodSectors
  PROVE  /\ Emptied(r) \in GoodSectors /\ Emptied(r).status = "FREE"
         /\ r.good => Emptied(r).good
         /\ Emptied(r).next = None
<1>1. r \in SectorTypes
  BY SectorFields
<1>2. Emptied(r) \in SectorTypes
  BY <1>1 DEF Emptied, SectorTypes
<1>3. Emptied(r).status = "FREE" /\ Emptied(r).next = None
  BY <1>1 DEF Emptied, SectorTypes
<1>4. r.good => Emptied(r).good
  BY <1>1 DEF Emptied, SectorTypes
<1> QED
  BY <1>2, <1>3, <1>4 DEF GoodSectors

\* ... and the loop that frees the surplus ones.
LEMMA ReleaseType == \A m \in Writers : Release(m) \in Writers
<1> TAKE m \in Writers
<1> DEFINE r == ReadSectorAs(m, m.at, "BODY")
           t == Surplus(r)
<1>1. r \in Machines(Writes) /\ (Running(r) => r.at \in Sectors)
  BY ReadSectorAsType DEF Writers
<1> HIDE DEF r
<1>2. /\ r.at \in Places /\ r.buf \in GoodSectors /\ r.free \subseteq Sectors
      /\ r.buf.next \in Places
  BY <1>1, MachineFields, SectorFields
<1>3. t = WriteSector(r, r.at, Emptied(r.buf))
  BY DEF Surplus, Emptied
<1>4. t \in Machines(Writes) /\ t.free = r.free
  BY <1>1, <1>2, <1>3, WriterWrites, EmptiedIs DEF Writers
<1>5. Release(m) = IF Running(r) THEN [t EXCEPT !.free = t.free \cup {r.at}, !.at = r.buf.next]
                   ELSE r
  BY DEF Release, Released, r
<1> HIDE DEF t
<1>6. ASSUME Running(r)
      PROVE  [t EXCEPT !.free = t.free \cup {r.at}, !.at = r.buf.next] \in Machines(Writes)
  <2>1. t.free \cup {r.at} \in SUBSET Sectors
    BY <1>1, <1>2, <1>4, <1>6
  <2> QED
    BY <1>2, <1>4, <2>1 DEF Machines
<1> QED
  BY <1>1, <1>5, <1>6 DEF Writers

\* Each loop of the code is a run of its steps: the kept sectors ...
LEMMA RefillsRun ==
  ASSUME NEW m \in Writers, NEW v \in Values, NEW first \in Nat
  PROVE  \E h \in [Nat -> Writers] :
           /\ h[0] = m
           /\ \A k \in Nat : h[k + 1] = Refill(h[k], v, first + k)
           /\ \A last \in Int :
                Refills(m, v, first, last) = h[IF first <= last THEN last - first + 1 ELSE 0]
<1> DEFINE B == [x \in Writers \X Nat |-> Refill(x[1], v, x[2])]
<1>1. B \in [Writers \X Nat -> Writers]
  BY RefillType
<1>2. PICK g \in [Nat -> Writers] : Iterates(g, B, m, first)
  BY <1>1, IteratesExists
<1>3. g = [k \in Nat |-> IF k = 0 THEN m ELSE Refill(g[k - 1], v, first + k - 1)]
  <2>1. \A k \in Nat : k # 0 => g[k - 1] \in Writers /\ first + k - 1 \in Nat
    BY <1>2
  <2>2. \A k \in Nat : k # 0 =>
          B[<<g[k - 1], first + k - 1>>] = Refill(g[k - 1], v, first + k - 1)
    BY <2>1
  <2> HIDE DEF B
  <2> QED
    BY <1>2, <2>2 DEF Iterates
<1> DEFINE h == CHOOSE f :
             f = [k \in Nat |-> IF k = 0 THEN m ELSE Refill(f[k - 1], v, first + k - 1)]
<1>4. h = [k \in Nat |-> IF k = 0 THEN m ELSE Refill(h[k - 1], v, first + k - 1)]
  BY <1>3
<1>5. ASSUME NEW last \in Int
      PROVE  Refills(m, v, first, last) = h[IF first <= last THEN last - first + 1 ELSE 0]
  BY DEF Refills, Loop
<1> HIDE DEF h
<1>6. h[0] = m
  BY <1>4
<1>7. \A k \in Nat : h[k + 1] = Refill(h[k], v, first + k)
  <2> TAKE k \in Nat
  <2>1. k + 1 \in Nat /\ k + 1 # 0 /\ (k + 1) - 1 = k /\ first + (k + 1) - 1 = first + k
    OBVIOUS
  <2> QED
    BY <1>4, <2>1
<1>8. \A k \in Nat : h[k] \in Writers => h[k + 1] \in Writers
  <2> TAKE k \in Nat
  <2>1. h[k + 1] = Refill(h[k], v, first + k) /\ first + k \in Nat /\ k + 1 \in Nat
    BY <1>7
  <2> QED
    BY <2>1, RefillType
<1>9. h = [k \in Nat |-> h[k]]
  BY <1>4
<1>10. h \in [Nat -> Writers]
  BY <1>6, <1>8, <1>9, StaysIn
<1> QED
  BY <1>5, <1>6, <1>7, <1>10

\* ... the new ones ...
LEMMA LengthensRun ==
  ASSUME NEW m \in Writers, NEW v \in Values, NEW first \in Nat
  PROVE  \E h \in [Nat -> Writers] :
           /\ h[0] = m
           /\ \A k \in Nat : h[k + 1] = Lengthen(h[k], v, first + k)
           /\ \A last \in Int :
                Lengthens(m, v, first, last) = h[IF first <= last THEN last - first + 1 ELSE 0]
<1> DEFINE B == [x \in Writers \X Nat |-> Lengthen(x[1], v, x[2])]
<1>1. B \in [Writers \X Nat -> Writers]
  BY LengthenType
<1>2. PICK g \in [Nat -> Writers] : Iterates(g, B, m, first)
  BY <1>1, IteratesExists
<1>3. g = [k \in Nat |-> IF k = 0 THEN m ELSE Lengthen(g[k - 1], v, first + k - 1)]
  <2>1. \A k \in Nat : k # 0 => g[k - 1] \in Writers /\ first + k - 1 \in Nat
    BY <1>2
  <2>2. \A k \in Nat : k # 0 =>
          B[<<g[k - 1], first + k - 1>>] = Lengthen(g[k - 1], v, first + k - 1)
    BY <2>1
  <2> HIDE DEF B
  <2> QED
    BY <1>2, <2>2 DEF Iterates
<1> DEFINE h == CHOOSE f :
             f = [k \in Nat |-> IF k = 0 THEN m ELSE Lengthen(f[k - 1], v, first + k - 1)]
<1>4. h = [k \in Nat |-> IF k = 0 THEN m ELSE Lengthen(h[k - 1], v, first + k - 1)]
  BY <1>3
<1>5. ASSUME NEW last \in Int
      PROVE  Lengthens(m, v, first, last) = h[IF first <= last THEN last - first + 1 ELSE 0]
  BY DEF Lengthens, Loop
<1> HIDE DEF h
<1>6. h[0] = m
  BY <1>4
<1>7. \A k \in Nat : h[k + 1] = Lengthen(h[k], v, first + k)
  <2> TAKE k \in Nat
  <2>1. k + 1 \in Nat /\ k + 1 # 0 /\ (k + 1) - 1 = k /\ first + (k + 1) - 1 = first + k
    OBVIOUS
  <2> QED
    BY <1>4, <2>1
<1>8. \A k \in Nat : h[k] \in Writers => h[k + 1] \in Writers
  <2> TAKE k \in Nat
  <2>1. h[k + 1] = Lengthen(h[k], v, first + k) /\ first + k \in Nat /\ k + 1 \in Nat
    BY <1>7
  <2> QED
    BY <2>1, LengthenType
<1>9. h = [k \in Nat |-> h[k]]
  BY <1>4
<1>10. h \in [Nat -> Writers]
  BY <1>6, <1>8, <1>9, StaysIn
<1> QED
  BY <1>5, <1>6, <1>7, <1>10

\* ... the walk to the last one that is kept ...
LEMMA ReadNextsRun ==
  ASSUME NEW m \in Writers, NEW first \in Nat
  PROVE  \E h \in [Nat -> Writers] :
           /\ h[0] = m
           /\ \A k \in Nat : h[k + 1] = ReadNext(h[k])
           /\ \A last \in Int :
                ReadNexts(m, first, last) = h[IF first <= last THEN last - first + 1 ELSE 0]
<1> DEFINE B == [x \in Writers \X Nat |-> ReadNext(x[1])]
<1>1. B \in [Writers \X Nat -> Writers]
  BY WriterReadsNext
<1>2. PICK g \in [Nat -> Writers] : Iterates(g, B, m, first)
  BY <1>1, IteratesExists
<1>3. g = [k \in Nat |-> IF k = 0 THEN m ELSE ReadNext(g[k - 1])]
  <2>1. \A k \in Nat : k # 0 => g[k - 1] \in Writers /\ first + k - 1 \in Nat
    BY <1>2
  <2>2. \A k \in Nat : k # 0 =>
          B[<<g[k - 1], first + k - 1>>] = ReadNext(g[k - 1])
    BY <2>1
  <2> HIDE DEF B
  <2> QED
    BY <1>2, <2>2 DEF Iterates
<1> DEFINE h == CHOOSE f :
             f = [k \in Nat |-> IF k = 0 THEN m ELSE ReadNext(f[k - 1])]
<1>4. h = [k \in Nat |-> IF k = 0 THEN m ELSE ReadNext(h[k - 1])]
  BY <1>3
<1>5. ASSUME NEW last \in Int
      PROVE  ReadNexts(m, first, last) = h[IF first <= last THEN last - first + 1 ELSE 0]
  BY DEF ReadNexts, Loop
<1> HIDE DEF h
<1>6. h[0] = m
  BY <1>4
<1>7. \A k \in Nat : h[k + 1] = ReadNext(h[k])
  <2> TAKE k \in Nat
  <2>1. k + 1 \in Nat /\ k + 1 # 0 /\ (k + 1) - 1 = k /\ first + (k + 1) - 1 = first + k
    OBVIOUS
  <2> QED
    BY <1>4, <2>1
<1>8. \A k \in Nat : h[k] \in Writers => h[k + 1] \in Writers
  <2> TAKE k \in Nat
  <2>1. h[k + 1] = ReadNext(h[k]) /\ first + k \in Nat /\ k + 1 \in Nat
    BY <1>7
  <2> QED
    BY <2>1, WriterReadsNext
<1>9. h = [k \in Nat |-> h[k]]
  BY <1>4
<1>10. h \in [Nat -> Writers]
  BY <1>6, <1>8, <1>9, StaysIn
<1> QED
  BY <1>5, <1>6, <1>7, <1>10

\* ... and the surplus ones.
LEMMA ReleasesRun ==
  ASSUME NEW m \in Writers, NEW first \in Nat
  PROVE  \E h \in [Nat -> Writers] :
           /\ h[0] = m
           /\ \A k \in Nat : h[k + 1] = Release(h[k])
           /\ \A last \in Int :
                Releases(m, first, last) = h[IF first <= last THEN last - first + 1 ELSE 0]
<1> DEFINE B == [x \in Writers \X Nat |-> Release(x[1])]
<1>1. B \in [Writers \X Nat -> Writers]
  BY ReleaseType
<1>2. PICK g \in [Nat -> Writers] : Iterates(g, B, m, first)
  BY <1>1, IteratesExists
<1>3. g = [k \in Nat |-> IF k = 0 THEN m ELSE Release(g[k - 1])]
  <2>1. \A k \in Nat : k # 0 => g[k - 1] \in Writers /\ first + k - 1 \in Nat
    BY <1>2
  <2>2. \A k \in Nat : k # 0 =>
          B[<<g[k - 1], first + k - 1>>] = Release(g[k - 1])
    BY <2>1
  <2> HIDE DEF B
  <2> QED
    BY <1>2, <2>2 DEF Iterates
<1> DEFINE h == CHOOSE f :
             f = [k \in Nat |-> IF k = 0 THEN m ELSE Release(f[k - 1])]
<1>4. h = [k \in Nat |-> IF k = 0 THEN m ELSE Release(h[k - 1])]
  BY <1>3
<1>5. ASSUME NEW last \in Int
      PROVE  Releases(m, first, last) = h[IF first <= last THEN last - first + 1 ELSE 0]
  BY DEF Releases, Loop
<1> HIDE DEF h
<1>6. h[0] = m
  BY <1>4
<1>7. \A k \in Nat : h[k + 1] = Release(h[k])
  <2> TAKE k \in Nat
  <2>1. k + 1 \in Nat /\ k + 1 # 0 /\ (k + 1) - 1 = k /\ first + (k + 1) - 1 = first + k
    OBVIOUS
  <2> QED
    BY <1>4, <2>1
<1>8. \A k \in Nat : h[k] \in Writers => h[k + 1] \in Writers
  <2> TAKE k \in Nat
  <2>1. h[k + 1] = Release(h[k]) /\ first + k \in Nat /\ k + 1 \in Nat
    BY <1>7
  <2> QED
    BY <2>1, ReleaseType
<1>9. h = [k \in Nat |-> h[k]]
  BY <1>4
<1>10. h \in [Nat -> Writers]
  BY <1>6, <1>8, <1>9, StaysIn
<1> QED
  BY <1>5, <1>6, <1>7, <1>10

-----------------------------------------------------------------------------
(* The loops, on sectors that are in order.                                   *)

\* What is like b is like c too, if b has c's name and links.
LEMMA LikeOn ==
  ASSUME NEW a, NEW b, NEW c, NEW v, NEW k, NEW x,
         Like(a, b, v, k, x), b.name = c.name, b.nexthash = c.nexthash,
         b.prevhash = c.prevhash, c.good => b.good, k > 1 \/ b.status = c.status
  PROVE  Like(a, c, v, k, x)
  BY DEF Like

\* Outside their sectors partitions may be the same: this carries on from step
\* to step.
LEMMA AlikeOn == \A p, q, r : Alike(p, q) /\ Alike(q, r) => Alike(p, r)
  BY DEF Alike

LEMMA AlikeSelf == \A p : Alike(p, p)
  BY DEF Alike

\* The sectors f[1], f[2] ... f[c + 1] are linked to each other, and m is at the
\* first of them.
Row(O, m, f, v, c) ==
  /\ m \in Machines(O) /\ Running(m)
  /\ f \in [Nat -> Sectors]
  /\ \A i, j \in 1 .. c + 1 : f[i] = f[j] => i = j
  /\ \A k \in 1 .. c : m.p.sector[f[k]].next = f[k + 1] /\ f[k + 1] # 0
  /\ \A k \in 2 .. c + 1 : m.p.sector[f[k]].status = "BODY" /\ m.p.sector[f[k]].good
  /\ m.at = f[1] /\ m.buf = m.p.sector[f[1]]
  /\ \A k \in 1 .. c : \A rec \in GoodSectors :
       Like(rec, m.p.sector[f[k]], v, k, f[k + 1]) => SectorWrite(f[k], rec) \in O

\* j of them have been written.
Refilled(O, m, f, v, j) ==
  {r \in Machines(O) :
     /\ Running(r) /\ r.free = m.free /\ Alike(r.p, m.p)
     /\ r.at = f[j + 1] /\ r.buf = m.p.sector[f[j + 1]]
     /\ \A k \in 1 .. j : Like(r.p.sector[f[k]], m.p.sector[f[k]], v, k, f[k + 1])
     /\ \A s \in Sectors : (\A k \in 1 .. j : s # f[k]) => r.p.sector[s] = m.p.sector[s]}

\* A step of the loop over the kept sectors writes one more of them ...
LEMMA RefillDoes ==
  ASSUME NEW O \in SUBSET Writes, NEW m, NEW f, NEW v \in Values, NEW c \in Nat,
         Row(O, m, f, v, c), NEW j \in Nat, j < c, NEW r \in Refilled(O, m, f, v, j)
  PROVE  Refill(r, v, j) \in Refilled(O, m, f, v, j + 1)
<1> DEFINE rec == Filled(r, v, j)
           q == WriteSector(r, r.at, rec)
           s0 == f[j + 1]
           b == m.p.sector[s0]
           t == HasNext(q)
           u == ReadNext(t)
<1>1. /\ r \in Machines(O) /\ Running(r) /\ r.free = m.free /\ Alike(r.p, m.p)
      /\ r.at = s0 /\ r.buf = b
      /\ \A k \in 1 .. j : Like(r.p.sector[f[k]], m.p.sector[f[k]], v, k, f[k + 1])
      /\ \A s \in Sectors : (\A k \in 1 .. j : s # f[k]) => r.p.sector[s] = m.p.sector[s]
  BY DEF Refilled
<1>2. /\ j + 1 \in 1 .. c /\ j + 2 \in 2 .. c + 1 /\ (j + 1) + 1 = j + 2
      /\ j + 1 \in 1 .. c + 1 /\ j + 2 \in 1 .. c + 1 /\ j + 2 \in Nat /\ j + 1 \in Nat
  OBVIOUS
<1>3. /\ f \in [Nat -> Sectors] /\ s0 \in Sectors /\ f[j + 2] \in Sectors
      /\ \A i, k \in 1 .. c + 1 : f[i] = f[k] => i = k
      /\ b.next = f[j + 2] /\ f[j + 2] # 0
      /\ m.p.sector[f[j + 2]].status = "BODY" /\ m.p.sector[f[j + 2]].good
      /\ \A x \in GoodSectors : Like(x, b, v, j + 1, f[j + 2]) => SectorWrite(s0, x) \in O
  BY <1>2 DEF Row
<1>4. rec \in GoodSectors /\ Like(rec, b, v, j + 1, f[j + 2])
  <2>1. r \in Writers
    BY <1>1, MachinesMore
  <2>2. Like(rec, r.buf, v, j + 1, r.buf.next)
    BY <2>1, FilledLike
  <2> HIDE DEF rec
  <2>3. r.buf = b /\ b.next = f[j + 2]
    BY <1>1, <1>3
  <2> HIDE DEF b
  <2>4. Like(rec, b, v, j + 1, f[j + 2])
    BY <2>2, <2>3
  <2>5. rec \in GoodSectors
    BY <2>2 DEF Like
  <2> QED
    BY <2>4, <2>5
<1> HIDE DEF rec
<1>5. /\ q \in Machines(O) /\ Running(q) /\ q.free = r.free /\ q.buf = rec
      /\ Alike(q.p, r.p) /\ q.p.sector[s0] = rec
      /\ \A x \in Sectors : x # s0 => q.p.sector[x] = r.p.sector[x]
  <2>1. SectorWrite(s0, rec) \in O
    BY <1>3, <1>4
  <2>2. /\ WriteSector(r, s0, rec) \in Machines(O) /\ Running(WriteSector(r, s0, rec))
        /\ WriteSector(r, s0, rec).free = r.free /\ WriteSector(r, s0, rec).buf = rec
        /\ Alike(WriteSector(r, s0, rec).p, r.p) /\ WriteSector(r, s0, rec).p.sector[s0] = rec
        /\ \A x \in Sectors : x # s0 => WriteSector(r, s0, rec).p.sector[x] = r.p.sector[x]
    BY <1>1, <1>3, <1>4, <2>1, WriteDoes
  <2> QED
    BY <1>1, <2>2
<1>6. Refill(r, v, j) = u
  BY DEF Refill, rec
<1> HIDE DEF q
<1>7. t = q
  <2>1. q.buf.next # 0
    BY <1>3, <1>4, <1>5 DEF Like
  <2> QED
    BY <2>1 DEF HasNext, Expect
<1> HIDE DEF t
<1>8. q.p.sector[f[j + 2]] = m.p.sector[f[j + 2]]
  <2>1. \A k \in 1 .. j : k \in 1 .. c + 1 /\ k # j + 2
    BY <1>2
  <2>2. f[j + 2] # s0 /\ \A k \in 1 .. j : f[j + 2] # f[k]
    BY <1>2, <1>3, <2>1
  <2> QED
    BY <1>1, <1>3, <1>5, <2>2
<1>9. u = ReadSectorAs(q, f[j + 2], "BODY")
  BY <1>4, <1>5, <1>7 DEF ReadNext, Like
<1>10. /\ u \in Machines(O) /\ Running(u) /\ u.p = q.p /\ u.free = q.free
       /\ u.at = f[j + 2] /\ u.buf = m.p.sector[f[j + 2]]
  BY <1>3, <1>5, <1>8, <1>9, ReadDoes
<1> HIDE DEF u
<1>11. \A k \in 1 .. j + 1 : Like(u.p.sector[f[k]], m.p.sector[f[k]], v, k, f[k + 1])
  <2> TAKE k \in 1 .. j + 1
  <2>1. CASE k = j + 1
    BY <1>2, <1>4, <1>5, <1>10, <2>1
  <2>2. CASE k # j + 1
    <3>1. k \in 1 .. j /\ k \in 1 .. c + 1 /\ k \in Nat
      BY <1>2, <2>2
    <3>2. f[k] # s0 /\ f[k] \in Sectors
      BY <1>2, <1>3, <2>2, <3>1
    <3> QED
      BY <1>1, <1>5, <1>10, <3>1, <3>2
  <2> QED
    BY <2>1, <2>2
<1>12. ASSUME NEW s \in Sectors, \A k \in 1 .. j + 1 : s # f[k]
       PROVE  u.p.sector[s] = m.p.sector[s]
  <2>1. s # s0 /\ \A k \in 1 .. j : s # f[k]
    BY <1>12
  <2> QED
    BY <1>1, <1>5, <1>10, <2>1
<1>13. Alike(u.p, m.p)
  BY <1>1, <1>5, <1>10, AlikeOn
<1>14. u.free = m.free
  BY <1>1, <1>5, <1>10
<1>15. u \in Refilled(O, m, f, v, j + 1)
  BY <1>2, <1>10, <1>11, <1>12, <1>13, <1>14 DEF Refilled
<1> QED
  BY <1>6, <1>15

\* ... and the loop writes them all.
LEMMA RefillsDo ==
  ASSUME NEW O \in SUBSET Writes, NEW m, NEW f, NEW v \in Values, NEW c \in Nat,
         Row(O, m, f, v, c)
  PROVE  Refills(m, v, 0, c - 1) \in Refilled(O, m, f, v, c)
<1>1. m \in Machines(O) /\ m \in Writers /\ 0 \in Nat
  BY MachinesMore DEF Row
<1>2. PICK h \in [Nat -> Writers] :
        /\ h[0] = m
        /\ \A k \in Nat : h[k + 1] = Refill(h[k], v, 0 + k)
        /\ \A last \in Int :
             Refills(m, v, 0, last) = h[IF 0 <= last THEN last - 0 + 1 ELSE 0]
  BY <1>1, RefillsRun
<1> DEFINE G == [j \in Nat |-> IF j <= c THEN Refilled(O, m, f, v, j) ELSE Writers]
<1>3. h[0] \in G[0]
  <2>1. m \in Refilled(O, m, f, v, 0)
    <3>1. 0 + 1 = 1 /\ 1 .. 0 = {}
      OBVIOUS
    <3> QED
      BY <3>1, AlikeSelf DEF Refilled, Row
  <2> QED
    BY <1>2, <2>1
<1>4. ASSUME NEW j \in Nat, h[j] \in G[j] PROVE h[j + 1] \in G[j + 1]
  <2>1. CASE j < c
    <3>1. h[j] \in Refilled(O, m, f, v, j) /\ h[j + 1] = Refill(h[j], v, j)
      BY <1>2, <1>4, <2>1
    <3>2. h[j + 1] \in Refilled(O, m, f, v, j + 1)
      BY <2>1, <3>1, RefillDoes
    <3> QED
      BY <2>1, <3>2
  <2>2. CASE ~ (j < c)
    <3>1. j + 1 \in Nat /\ ~ (j + 1 <= c)
      BY <2>2
    <3> QED
      BY <1>2, <3>1
  <2> QED
    BY <2>1, <2>2
<1>5. \A j \in Nat : h[j] \in G[j]
  BY <1>3, <1>4, KeptAlong
<1>6. h[c] \in Refilled(O, m, f, v, c)
  BY <1>5
<1>7. Refills(m, v, 0, c - 1) = h[c]
  <2>1. c - 1 \in Int /\ (IF 0 <= c - 1 THEN (c - 1) - 0 + 1 ELSE 0) = c
    OBVIOUS
  <2> QED
    BY <1>2, <2>1
<1> QED
  BY <1>6, <1>7

\* The sectors f[1], f[2] ... f[c] are linked; m is at the first of them.
ReadAlong(O, m, f, j) ==
  {r \in Machines(O) : /\ Running(r) /\ r.p = m.p /\ r.free = m.free /\ r.out = m.out
                        /\ r.at = f[j + 1] /\ r.buf = m.p.sector[f[j + 1]]}

\* The walk along c sectors arrives at the one after them.
LEMMA ReadNextsDo ==
  ASSUME NEW O \in SUBSET Writes, NEW m \in Machines(O), Running(m),
         NEW f \in [Nat -> Sectors], NEW c \in Nat,
         m.at = f[1], m.buf = m.p.sector[f[1]],
         \A k \in 1 .. c : m.p.sector[f[k]].next = f[k + 1],
         \A k \in 2 .. c + 1 : m.p.sector[f[k]].status = "BODY" /\ m.p.sector[f[k]].good
  PROVE  ReadNexts(m, 1, c) \in ReadAlong(O, m, f, c)
<1>7. m \in Writers
  BY MachinesMore
<1>1. PICK h \in [Nat -> Writers] :
        /\ h[0] = m
        /\ \A k \in Nat : h[k + 1] = ReadNext(h[k])
        /\ \A last \in Int :
             ReadNexts(m, 1, last) = h[IF 1 <= last THEN last - 1 + 1 ELSE 0]
  BY <1>7, ReadNextsRun
<1> DEFINE G == [j \in Nat |-> IF j <= c THEN ReadAlong(O, m, f, j) ELSE Writers]
<1>2. h[0] \in G[0]
  <2>1. m \in ReadAlong(O, m, f, 0)
    BY DEF ReadAlong
  <2> QED
    BY <1>1, <2>1
<1>3. ASSUME NEW j \in Nat, h[j] \in G[j] PROVE h[j + 1] \in G[j + 1]
  <2>1. CASE j < c
    <3>1. h[j] \in ReadAlong(O, m, f, j) /\ h[j + 1] = ReadNext(h[j])
      BY <1>1, <1>3, <2>1
    <3>2. /\ j + 1 \in 1 .. c /\ j + 2 \in 2 .. c + 1 /\ (j + 1) + 1 = j + 2
          /\ j + 2 \in Nat
      BY <2>1
    <3>3. /\ f[j + 2] \in Sectors /\ h[j].buf.next = f[j + 2]
          /\ m.p.sector[f[j + 2]].status = "BODY" /\ m.p.sector[f[j + 2]].good
      BY <3>1, <3>2 DEF ReadAlong
    <3>4. /\ h[j] \in Machines(O) /\ Running(h[j]) /\ h[j].p = m.p
          /\ h[j].free = m.free /\ h[j].out = m.out
      BY <3>1 DEF ReadAlong
    <3>5. h[j + 1] = ReadSectorAs(h[j], f[j + 2], "BODY")
      BY <3>1, <3>3 DEF ReadNext
    <3>6. /\ h[j + 1] \in Machines(O) /\ Running(h[j + 1]) /\ h[j + 1].p = m.p
          /\ h[j + 1].free = m.free /\ h[j + 1].out = m.out
          /\ h[j + 1].at = f[j + 2] /\ h[j + 1].buf = m.p.sector[f[j + 2]]
      BY <3>3, <3>4, <3>5, ReadDoes
    <3>7. h[j + 1] \in ReadAlong(O, m, f, j + 1)
      BY <3>2, <3>6 DEF ReadAlong
    <3> QED
      BY <2>1, <3>7
  <2>2. CASE ~ (j < c)
    <3>1. j + 1 \in Nat /\ ~ (j + 1 <= c)
      BY <2>2
    <3> QED
      BY <1>1, <3>1
  <2> QED
    BY <2>1, <2>2
<1>4. \A j \in Nat : h[j] \in G[j]
  BY <1>2, <1>3, KeptAlong
<1>5. h[c] \in ReadAlong(O, m, f, c)
  BY <1>4
<1>6. ReadNexts(m, 1, c) = h[c]
  <2>1. c \in Int /\ (IF 1 <= c THEN c - 1 + 1 ELSE 0) = c
    OBVIOUS
  <2> QED
    BY <1>1, <2>1
<1> QED
  BY <1>5, <1>6

\* The sectors f[a] ... f[c] are to be freed; j of them have been.  (x is the
\* operation before the first.)
Place(f, k, c) == IF k <= c THEN f[k] ELSE None

Cut(O, x, f, a, c, j) ==
  {r \in Machines(O) :
     /\ Running(r) /\ Alike(r.p, x.p) /\ r.at = Place(f, a + j, c)
     /\ \A k \in a .. a + j - 1 :
          r.p.sector[f[k]].status = "FREE" /\ r.p.sector[f[k]].good
     /\ \A s \in Sectors :
          (\A k \in a .. a + j - 1 : s # f[k]) => r.p.sector[s] = x.p.sector[s]}

Surpluses(O, x, f, a, c) ==
  /\ x \in Machines(O) /\ Running(x) /\ x.at = Place(f, a, c)
  /\ f \in [Nat -> Sectors]
  /\ \A i, j \in a .. c : f[i] = f[j] => i = j
  /\ \A k \in a .. c :
       /\ x.p.sector[f[k]].status = "BODY" /\ x.p.sector[f[k]].good
       /\ x.p.sector[f[k]].next = Place(f, k + 1, c)
       /\ SectorWrite(f[k], Emptied(x.p.sector[f[k]])) \in O

\* A step of the loop over the surplus sectors frees one more of them ...
LEMMA ReleaseDoes ==
  ASSUME NEW O \in SUBSET Writes, NEW x, NEW f, NEW a \in Nat, NEW c \in Nat,
         Surpluses(O, x, f, a, c), NEW j \in Nat, a + j <= c,
         NEW m \in Cut(O, x, f, a, c, j)
  PROVE  Release(m) \in Cut(O, x, f, a, c, j + 1)
<1> DEFINE s0 == f[a + j]
           b == x.p.sector[s0]
           r == ReadSectorAs(m, m.at, "BODY")
           t == Surplus(r)
           u == [t EXCEPT !.free = t.free \cup {r.at}, !.at = r.buf.next]
<1>1. /\ m \in Machines(O) /\ Running(m) /\ Alike(m.p, x.p) /\ m.at = s0
      /\ \A k \in a .. a + j - 1 :
           m.p.sector[f[k]].status = "FREE" /\ m.p.sector[f[k]].good
      /\ \A s \in Sectors :
           (\A k \in a .. a + j - 1 : s # f[k]) => m.p.sector[s] = x.p.sector[s]
  BY DEF Cut, Place
<1>2. /\ a + j \in a .. c /\ a + j \in Nat /\ a + j + 1 = a + (j + 1)
      /\ (a + (j + 1)) - 1 = a + j
      /\ \A k \in a .. a + j - 1 : k \in a .. c /\ k # a + j
  OBVIOUS
<1>3. /\ f \in [Nat -> Sectors] /\ s0 \in Sectors
      /\ \A i, k \in a .. c : f[i] = f[k] => i = k
      /\ b.status = "BODY" /\ b.good
      /\ b.next = Place(f, a + (j + 1), c)
      /\ SectorWrite(s0, Emptied(b)) \in O
  BY <1>2 DEF Surpluses
<1>4. m.p.sector[s0] = b
  <2>1. \A k \in a .. a + j - 1 : s0 # f[k]
    BY <1>2, <1>3
  <2> QED
    BY <1>1, <1>3, <2>1
<1>5. b \in GoodSectors /\ x \in Machines(O)
  BY <1>3, MachinesMore DEF Surpluses
<1> HIDE DEF b
<1>6. /\ r \in Machines(O) /\ Running(r) /\ r.p = m.p /\ r.free = m.free
      /\ r.at = s0 /\ r.buf = b
  BY <1>1, <1>3, <1>4, ReadDoes
<1>7. Release(m) = Released(r)
  BY DEF Release
<1> HIDE DEF r
<1>8. t = WriteSector(r, s0, Emptied(b))
  BY <1>6 DEF Surplus, Emptied
<1>9. Release(m) = u
  BY <1>6, <1>7 DEF Released
<1>10. /\ t \in Machines(O) /\ Running(t) /\ t.free = r.free
       /\ Alike(t.p, r.p) /\ t.p.sector[s0] = Emptied(b)
       /\ \A s \in Sectors : s # s0 => t.p.sector[s] = r.p.sector[s]
  BY <1>3, <1>5, <1>6, <1>8, EmptiedIs, WriteDoes
<1> HIDE DEF t
<1>11. t.free \cup {r.at} \in SUBSET Sectors /\ r.buf.next \in Places
  <2>1. t.free \subseteq Sectors
    BY <1>10, MachinesMore
  <2> QED
    BY <1>3, <1>5, <1>6, <2>1, SectorFields
<1>12. /\ u \in Machines(O) /\ u.p = t.p /\ u.at = r.buf.next /\ u.end = t.end
  BY <1>10, <1>11 DEF Machines
<1> HIDE DEF u
<1>13. Emptied(b).status = "FREE" /\ Emptied(b).good
  BY <1>3, <1>5, EmptiedIs
<1>14. ASSUME NEW k \in a .. a + (j + 1) - 1
       PROVE  u.p.sector[f[k]].status = "FREE" /\ u.p.sector[f[k]].good
  <2>1. CASE k = a + j
    BY <1>10, <1>12, <1>13, <2>1
  <2>2. CASE k # a + j
    <3>1. k \in a .. a + j - 1 /\ k \in Nat
      BY <2>2
    <3>2. f[k] \in Sectors /\ f[k] # s0
      BY <1>2, <1>3, <3>1
    <3> QED
      BY <1>1, <1>6, <1>10, <1>12, <3>1, <3>2
  <2> QED
    BY <2>1, <2>2
<1>15. ASSUME NEW s \in Sectors, \A k \in a .. a + (j + 1) - 1 : s # f[k]
       PROVE  u.p.sector[s] = x.p.sector[s]
  <2>1. s # s0 /\ \A k \in a .. a + j - 1 : s # f[k]
    BY <1>2, <1>15
  <2> QED
    BY <1>1, <1>6, <1>10, <1>12, <2>1
<1>16. Running(u) /\ Alike(u.p, x.p) /\ u.at = Place(f, a + (j + 1), c)
  BY <1>1, <1>3, <1>6, <1>10, <1>12, AlikeOn DEF Running
<1>17. u \in Cut(O, x, f, a, c, j + 1)
  BY <1>12, <1>14, <1>15, <1>16 DEF Cut
<1> QED
  BY <1>9, <1>17

\* ... and the loop frees them all.
LEMMA ReleasesDo ==
  ASSUME NEW O \in SUBSET Writes, NEW x, NEW f, NEW a \in Nat, NEW c \in Nat, a <= c + 1,
         Surpluses(O, x, f, a, c)
  PROVE  Releases(x, a, c) \in Cut(O, x, f, a, c, c + 1 - a)
<1>1. x \in Machines(O) /\ x \in Writers
  BY MachinesMore DEF Surpluses
<1>2. PICK h \in [Nat -> Writers] :
        /\ h[0] = x
        /\ \A k \in Nat : h[k + 1] = Release(h[k])
        /\ \A last \in Int :
             Releases(x, a, last) = h[IF a <= last THEN last - a + 1 ELSE 0]
  BY <1>1, ReleasesRun
<1> DEFINE G == [j \in Nat |-> IF a + j <= c + 1 THEN Cut(O, x, f, a, c, j) ELSE Writers]
<1>3. h[0] \in G[0]
  <2>1. x \in Cut(O, x, f, a, c, 0)
    <3>1. a + 0 = a /\ a .. a + 0 - 1 = {}
      OBVIOUS
    <3> QED
      BY <3>1, AlikeSelf DEF Cut, Surpluses
  <2> QED
    BY <1>2, <2>1
<1>4. ASSUME NEW j \in Nat, h[j] \in G[j] PROVE h[j + 1] \in G[j + 1]
  <2>1. CASE a + j <= c
    <3>1. h[j] \in Cut(O, x, f, a, c, j) /\ h[j + 1] = Release(h[j])
      BY <1>2, <1>4, <2>1
    <3>2. h[j + 1] \in Cut(O, x, f, a, c, j + 1)
      BY <2>1, <3>1, ReleaseDoes
    <3> QED
      BY <2>1, <3>2
  <2>2. CASE ~ (a + j <= c)
    <3>1. j + 1 \in Nat /\ ~ (a + (j + 1) <= c + 1)
      BY <2>2
    <3> QED
      BY <1>2, <3>1
  <2> QED
    BY <2>1, <2>2
<1>5. \A j \in Nat : h[j] \in G[j]
  BY <1>3, <1>4, KeptAlong
<1>6. c + 1 - a \in Nat /\ a + (c + 1 - a) <= c + 1
  OBVIOUS
<1>7. h[c + 1 - a] \in Cut(O, x, f, a, c, c + 1 - a)
  BY <1>5, <1>6
<1>8. Releases(x, a, c) = h[c + 1 - a]
  <2>1. c \in Int /\ (IF a <= c THEN c - a + 1 ELSE 0) = c + 1 - a
    OBVIOUS
  <2> QED
    BY <1>2, <2>1
<1> QED
  BY <1>7, <1>8

\* Pieces a + 1 and on of the value v are to be written, the first of them where
\* x stands and the others into free sectors.
Rest(O, x, v, a) ==
  /\ x \in Machines(O) /\ Running(x)
  /\ x.at \in Sectors /\ x.at \notin x.free
  /\ a < Size[v] /\ Size[v] - (a + 1) <= Cardinality(x.free)
  /\ \A s \in x.free \cup {x.at}, rec \in GoodSectors, k \in Nat, next \in Places :
       Like(rec, x.buf, v, k, next) => SectorWrite(s, rec) \in O

\* Pieces a + 1 ... c have been written, into the sectors q[a + 1] ... q[c].
Reached(v, c) == IF c < Size[v] THEN c + 1 ELSE c

Spread(r, x, v, a, c, q) ==
  /\ q[a + 1] = x.at /\ r.at = Place(q, c + 1, Size[v])
  /\ \A i, j \in a + 1 .. Reached(v, c) : q[i] = q[j] => i = j
  /\ \A k \in a + 2 .. Reached(v, c) : q[k] \in x.free /\ q[k] \notin r.free
  /\ r.free \subseteq x.free /\ Size[v] - (c + 1) <= Cardinality(r.free)
  /\ \A k \in a + 1 .. c : Like(r.p.sector[q[k]], x.buf, v, k, Place(q, k + 1, Size[v]))
  /\ \A s \in Sectors : (\A k \in a + 1 .. c : s # q[k]) => r.p.sector[s] = x.p.sector[s]

Follows(b, x, a, c) ==
  /\ b.name = x.buf.name /\ b.nexthash = x.buf.nexthash /\ b.prevhash = x.buf.prevhash
  /\ x.buf.good => b.good
  /\ c = a => b = x.buf

Extended(O, x, v, a, c) ==
  {r \in Machines(O) :
     /\ Running(r) /\ Alike(r.p, x.p) /\ Follows(r.buf, x, a, c)
     /\ \E q \in [Nat -> Sectors] : Spread(r, x, v, a, c, q)}

\* A step past the last sector writes it, and takes a free one for the next piece
\* if there is to be one ...
LEMMA LengthenDoes ==
  ASSUME NEW O \in SUBSET Writes, NEW x, NEW v \in Values, NEW a \in Nat, Rest(O, x, v, a),
         NEW c \in Nat, a <= c, c < Size[v], NEW r \in Extended(O, x, v, a, c)
  PROVE  Lengthen(r, v, c) \in Extended(O, x, v, a, c + 1)
<1> DEFINE N == Size[v]
           more == c < N - 1
           next == IF more THEN NextFree(r.free) ELSE None
           e == [r EXCEPT !.free = Busy(@, next)]
           rec == [Filled(e, v, c) EXCEPT !.next = next]
           t == WriteSector(e, e.at, rec)
           u == [t EXCEPT !.at = next]
<1>1. PICK q \in [Nat -> Sectors] : Spread(r, x, v, a, c, q)
  BY DEF Extended
<1>2. /\ r \in Machines(O) /\ Running(r) /\ Alike(r.p, x.p) /\ Follows(r.buf, x, a, c)
  BY DEF Extended
<1>3. N \in Nat /\ Reached(v, c) = c + 1 /\ c + 1 \in Nat /\ c + 2 \in Nat /\ c + 1 <= N
  BY Constants DEF Reached
<1>4. r.free \in SUBSET Sectors /\ IsFiniteSet(r.free)
  BY <1>2, MachinesMore, Constants, FS_Subset
<1>5. more => next \in r.free /\ next # None
  <2>1. ASSUME more PROVE r.free # {}
    <3>1. N - (c + 1) <= Cardinality(r.free)
      BY <1>1 DEF Spread
    <3>2. N - (c + 1) >= 1
      BY <1>3, <2>1
    <3>3. r.free = {} => Cardinality(r.free) = 0
      BY FS_EmptySet
    <3> QED
      BY <1>3, <3>1, <3>2, <3>3
  <2> QED
    BY <1>4, <2>1, NextFreeType, Constants
<1>6. ~ more => next = None /\ c + 1 = N
  BY <1>3
<1>7. next \in Places
  BY <1>4, NextFreeType DEF Places
<1> DEFINE p == IF more THEN [q EXCEPT ![c + 2] = next] ELSE q
<1>8. /\ p \in [Nat -> Sectors]
      /\ \A k \in Nat : k # c + 2 => p[k] = q[k]
      /\ more => p[c + 2] = next
  BY <1>1, <1>3, <1>4, <1>5
<1>9. Lengthen(r, v, c) = Extend(e, v, c, next)
  <2>1. Expect(r, more => next # None) = r
    BY <1>5 DEF Expect
  <2> QED
    BY <1>2, <2>1 DEF Lengthen
<1> HIDE DEF next, p
<1>10. /\ e \in Machines(O) /\ Running(e) /\ e.p = r.p /\ e.at = r.at /\ e.buf = r.buf
       /\ e.free = r.free \ {next}
  <2>1. r.free \ {next} \in SUBSET Sectors
    BY <1>4
  <2> QED
    BY <1>2, <2>1 DEF Machines, Running, Busy
<1> HIDE DEF e
<1>11. /\ r.at = q[c + 1] /\ r.at \in Sectors
  BY <1>1, <1>3 DEF Spread, Place
<1>12. rec \in GoodSectors /\ Like(rec, x.buf, v, c + 1, next)
  <2>1. e \in Writers
    BY <1>10, MachinesMore
  <2>2. Like(rec, e.buf, v, c + 1, next)
    BY <1>7, <2>1, FilledLike
  <2> HIDE DEF rec
  <2>3. c + 1 > 1 \/ e.buf.status = x.buf.status
    <3>1. CASE c = a
      BY <1>2, <1>10, <3>1 DEF Follows
    <3>2. CASE c # a
      BY <3>2
    <3> QED
      BY <3>1, <3>2
  <2>4. Like(rec, x.buf, v, c + 1, next)
    BY <1>2, <1>10, <2>2, <2>3, LikeOn DEF Follows
  <2> QED
    BY <2>4 DEF Like
<1> HIDE DEF rec
<1>13. SectorWrite(r.at, rec) \in O
  <2>1. r.at \in x.free \cup {x.at}
    <3>1. CASE c = a
      BY <1>1, <1>11, <3>1 DEF Spread
    <3>2. CASE c # a
      <4>1. c + 1 \in a + 2 .. Reached(v, c)
        BY <1>3, <3>2
      <4> QED
        BY <1>1, <1>11, <4>1 DEF Spread
    <3> QED
      BY <3>1, <3>2
  <2> QED
    BY <1>3, <1>7, <1>12, <2>1 DEF Rest
<1>14. /\ t \in Machines(O) /\ Running(t) /\ t.free = e.free /\ t.buf = rec
       /\ Alike(t.p, e.p) /\ t.p.sector[r.at] = rec
       /\ \A s \in Sectors : s # r.at => t.p.sector[s] = e.p.sector[s]
  <2>1. e.at \in Sectors /\ SectorWrite(e.at, rec) \in O
    BY <1>10, <1>11, <1>13
  <2>2. /\ t \in Machines(O) /\ Running(t) /\ t.free = e.free /\ t.buf = rec
        /\ Alike(t.p, e.p) /\ t.p.sector[e.at] = rec
        /\ \A s \in Sectors : s # e.at => t.p.sector[s] = e.p.sector[s]
    BY <1>10, <1>12, <2>1, WriteDoes
  <2> QED
    BY <1>10, <2>2
<1>15. Lengthen(r, v, c) = u
  BY <1>9, <1>10 DEF Extend, rec
<1> HIDE DEF t
<1>16. /\ u \in Machines(O) /\ Running(u) /\ u.p = t.p /\ u.free = r.free \ {next}
       /\ u.at = next /\ u.buf = rec
  BY <1>7, <1>10, <1>14 DEF Machines, Running
<1> HIDE DEF u
<1>17. Alike(u.p, x.p) /\ Follows(u.buf, x, a, c + 1)
  <2>1. Alike(u.p, x.p)
    BY <1>2, <1>10, <1>14, <1>16, AlikeOn
  <2>2. c + 1 # a
    OBVIOUS
  <2> QED
    BY <1>12, <1>16, <2>1, <2>2 DEF Follows, Like
<1>18. u.at = Place(p, (c + 1) + 1, N)
  <2>1. (c + 1) + 1 = c + 2 /\ (more <=> c + 2 <= N)
    BY <1>3
  <2> QED
    BY <1>6, <1>8, <1>16, <2>1 DEF Place
<1>19. p[a + 1] = x.at
  BY <1>1, <1>8 DEF Spread
<1>20. /\ \A i, j \in a + 1 .. c + 1 : q[i] = q[j] => i = j
       /\ \A k \in a + 2 .. c + 1 : q[k] \in x.free /\ q[k] \notin r.free
       /\ r.free \subseteq x.free /\ N - (c + 1) <= Cardinality(r.free)
       /\ \A k \in a + 1 .. c : Like(r.p.sector[q[k]], x.buf, v, k, Place(q, k + 1, N))
       /\ \A s \in Sectors : (\A k \in a + 1 .. c : s # q[k]) => r.p.sector[s] = x.p.sector[s]
       /\ q[a + 1] = x.at
  BY <1>1, <1>3 DEF Spread
<1>21. Reached(v, c + 1) = IF more THEN c + 2 ELSE c + 1
  BY <1>3 DEF Reached
<1>22. more => \A k \in a + 1 .. c + 1 : q[k] # next
  <2> SUFFICES ASSUME more, NEW k \in a + 1 .. c + 1 PROVE q[k] # next
    OBVIOUS
  <2>1. CASE k = a + 1
    <3>1. x.at \notin x.free
      BY DEF Rest
    <3> QED
      BY <1>5, <1>20, <2>1, <3>1
  <2>2. CASE k # a + 1
    <3>1. k \in a + 2 .. c + 1
      BY <2>2
    <3> QED
      BY <1>5, <1>20, <3>1
  <2> QED
    BY <2>1, <2>2
<1>23. \A i, j \in a + 1 .. Reached(v, c + 1) : p[i] = p[j] => i = j
  <2> TAKE i, j \in a + 1 .. Reached(v, c + 1)
  <2>1. i \in Nat /\ j \in Nat /\ (i = c + 2 => more) /\ (j = c + 2 => more)
    BY <1>21
  <2>2. (i # c + 2 => i \in a + 1 .. c + 1) /\ (j # c + 2 => j \in a + 1 .. c + 1)
    BY <1>21
  <2>3. CASE i = c + 2
    BY <1>8, <1>22, <2>1, <2>2, <2>3
  <2>4. CASE j = c + 2
    BY <1>8, <1>22, <2>1, <2>2, <2>4
  <2>5. CASE i # c + 2 /\ j # c + 2
    BY <1>8, <1>20, <2>1, <2>2, <2>5
  <2> QED
    BY <2>3, <2>4, <2>5
<1>24. \A k \in a + 2 .. Reached(v, c + 1) : p[k] \in x.free /\ p[k] \notin u.free
  <2> TAKE k \in a + 2 .. Reached(v, c + 1)
  <2>1. k \in Nat /\ (k = c + 2 => more) /\ (k # c + 2 => k \in a + 2 .. c + 1)
    BY <1>21
  <2>2. CASE k = c + 2
    BY <1>5, <1>8, <1>16, <1>20, <2>1, <2>2
  <2>3. CASE k # c + 2
    BY <1>8, <1>16, <1>20, <2>1, <2>3
  <2> QED
    BY <2>2, <2>3
<1>25. u.free \subseteq x.free /\ N - ((c + 1) + 1) <= Cardinality(u.free)
  <2>1. CASE more
    <3>1. Cardinality(u.free) = Cardinality(r.free) - 1
      <4>1. next \in r.free /\ u.free = r.free \ {next}
        BY <1>5, <1>16, <2>1
      <4>2. Cardinality(r.free \ {next}) = Cardinality(r.free) - 1
        BY <1>4, <4>1, FS_RemoveElement
      <4> QED
        BY <4>1, <4>2
    <3>2. Cardinality(r.free) \in Nat
      BY <1>4, FS_CardinalityType
    <3> QED
      BY <1>3, <1>16, <1>20, <3>1, <3>2
  <2>2. CASE ~ more
    <3>1. u.free \subseteq x.free /\ IsFiniteSet(u.free)
      BY <1>4, <1>16, <1>20, FS_Subset
    <3>2. Cardinality(u.free) \in Nat
      BY <3>1, FS_CardinalityType
    <3> QED
      BY <1>3, <1>6, <2>2, <3>1, <3>2
  <2> QED
    BY <2>1, <2>2
<1>26. \A k \in a + 1 .. c + 1 : Like(u.p.sector[p[k]], x.buf, v, k, Place(p, k + 1, N))
  <2> TAKE k \in a + 1 .. c + 1
  <2>1. CASE k = c + 1
    <3>1. p[k] = r.at
      BY <1>8, <1>11, <2>1
    <3>2. Place(p, k + 1, N) = next
      BY <1>16, <1>18, <2>1
    <3> QED
      BY <1>12, <1>14, <1>16, <2>1, <3>1, <3>2
  <2>2. CASE k # c + 1
    <3>1. k \in a + 1 .. c /\ k \in Nat /\ k + 1 \in Nat /\ k + 1 # c + 2 /\ k # c + 2
      BY <2>2
    <3>2. p[k] = q[k] /\ p[k + 1] = q[k + 1] /\ p[k] \in Sectors
      BY <1>8, <3>1
    <3>3. Place(p, k + 1, N) = Place(q, k + 1, N)
      BY <3>2 DEF Place
    <3>4. p[k] # r.at
      BY <1>3, <1>11, <1>20, <2>2, <3>2
    <3> QED
      BY <1>10, <1>14, <1>16, <1>20, <3>1, <3>2, <3>3, <3>4
  <2> QED
    BY <2>1, <2>2
<1>27. ASSUME NEW s \in Sectors, \A k \in a + 1 .. c + 1 : s # p[k]
       PROVE  u.p.sector[s] = x.p.sector[s]
  <2>1. \A k \in a + 1 .. c + 1 : p[k] = q[k]
    BY <1>8
  <2>2. c + 1 \in a + 1 .. c + 1 /\ \A k \in a + 1 .. c : k \in a + 1 .. c + 1
    OBVIOUS
  <2>3. s # r.at /\ \A k \in a + 1 .. c : s # q[k]
    BY <1>11, <1>27, <2>1, <2>2
  <2> QED
    BY <1>10, <1>14, <1>16, <1>20, <2>3
<1>28. Spread(u, x, v, a, c + 1, p)
  BY <1>18, <1>19, <1>23, <1>24, <1>25, <1>26, <1>27 DEF Spread
<1>29. u \in Extended(O, x, v, a, c + 1)
  BY <1>8, <1>16, <1>17, <1>28 DEF Extended
<1> QED
  BY <1>15, <1>29

\* ... and the loop writes the pieces that are left.
LEMMA LengthensDo ==
  ASSUME NEW O \in SUBSET Writes, NEW x, NEW v \in Values, NEW a \in Nat, Rest(O, x, v, a)
  PROVE  Lengthens(x, v, a, Size[v] - 1) \in Extended(O, x, v, a, Size[v])
<1> DEFINE N == Size[v]
<1>1. x \in Machines(O) /\ x \in Writers /\ N \in Nat /\ a < N
  BY MachinesMore, Constants DEF Rest
<1>2. PICK h \in [Nat -> Writers] :
        /\ h[0] = x
        /\ \A k \in Nat : h[k + 1] = Lengthen(h[k], v, a + k)
        /\ \A last \in Int :
             Lengthens(x, v, a, last) = h[IF a <= last THEN last - a + 1 ELSE 0]
  BY <1>1, LengthensRun
<1> DEFINE G == [j \in Nat |-> IF a + j <= N THEN Extended(O, x, v, a, a + j) ELSE Writers]
<1>3. h[0] \in G[0]
  <2>1. x \in Extended(O, x, v, a, a)
    <3> DEFINE q == [k \in Nat |-> x.at]
    <3>1. q \in [Nat -> Sectors] /\ q[a + 1] = x.at
      BY DEF Rest
    <3>2. Reached(v, a) = a + 1 /\ a + 2 .. a + 1 = {} /\ a + 1 .. a = {}
          /\ \A i \in a + 1 .. a + 1 : i = a + 1
      BY <1>1 DEF Reached
    <3> HIDE DEF q
    <3>3. Place(q, a + 1, N) = x.at
      BY <1>1, <3>1 DEF Place
    <3>4. Spread(x, x, v, a, a, q)
      BY <3>1, <3>2, <3>3 DEF Spread, Rest
    <3>5. Follows(x.buf, x, a, a)
      BY DEF Follows
    <3>6. Running(x) /\ Alike(x.p, x.p)
      BY AlikeSelf DEF Rest
    <3> QED
      BY <1>1, <3>1, <3>4, <3>5, <3>6 DEF Extended
  <2> QED
    BY <1>1, <1>2, <2>1
<1>4. ASSUME NEW j \in Nat, h[j] \in G[j] PROVE h[j + 1] \in G[j + 1]
  <2>1. CASE a + j < N
    <3>1. h[j] \in Extended(O, x, v, a, a + j) /\ h[j + 1] = Lengthen(h[j], v, a + j)
      BY <1>1, <1>2, <1>4, <2>1
    <3>2. a + j \in Nat /\ a <= a + j /\ (a + j) + 1 = a + (j + 1) /\ a + (j + 1) <= N
      BY <1>1, <2>1
    <3>3. h[j + 1] \in Extended(O, x, v, a, (a + j) + 1)
      BY <2>1, <3>1, <3>2, LengthenDoes
    <3> QED
      BY <3>2, <3>3
  <2>2. CASE ~ (a + j < N)
    <3>1. j + 1 \in Nat /\ ~ (a + (j + 1) <= N)
      BY <1>1, <2>2
    <3> QED
      BY <1>2, <3>1
  <2> QED
    BY <2>1, <2>2
<1>5. \A j \in Nat : h[j] \in G[j]
  BY <1>3, <1>4, KeptAlong
<1>6. N - a \in Nat /\ a + (N - a) = N
  BY <1>1
<1>7. h[N - a] \in Extended(O, x, v, a, N)
  BY <1>5, <1>6
<1>8. Lengthens(x, v, a, N - 1) = h[N - a]
  <2>1. N - 1 \in Int /\ (IF a <= N - 1 THEN (N - 1) - a + 1 ELSE 0) = N - a
    BY <1>1
  <2> QED
    BY <1>2, <2>1
<1> QED
  BY <1>7, <1>8

-----------------------------------------------------------------------------
(* Partitions whose records are in order.                                     *)

\* What is where: the value of each name, the sectors of its record one after
\* the other, and the chain of each bin.
Layouts ==
  [val : [Names -> Values \cup {Nothing}], piece : [Names -> [Nat -> Sectors]],
   chain : [Bins -> Seq(Names)]]

Long(L, n) == IF L.val[n] = Nothing THEN 0 ELSE Size[L.val[n]]

\* A sector that holds piece k of the value v of n, with the next one at next.
IsPiece(r, n, v, k, next) ==
  /\ r.good /\ r.status = IF k > 1 THEN "BODY" ELSE "HEAD"
  /\ r.data = <<v, k>> /\ r.next = next
  /\ k = 1 => r.name = n /\ r.crc = v /\ r.len = Size[v]

Placed(p, L, n) ==
  \A k \in 1 .. Long(L, n) :
    IsPiece(p.sector[L.piece[n][k]], n, L.val[n], k, Place(L.piece[n], k + 1, Long(L, n)))

\* No sector is used twice.
Apart(L) ==
  \A n1, n2 \in Names : \A i \in 1 .. Long(L, n1), j \in 1 .. Long(L, n2) :
    L.piece[n1][i] = L.piece[n2][j] => n1 = n2 /\ i = j

\* The others are free.
Idle(L, s) == \A n \in Names : \A k \in 1 .. Long(L, n) : s # L.piece[n][k]

\* Sector 0, which the code takes for "no next sector", is the head of the
\* first record.
ZeroIsHead(L) ==
  /\ \A n \in Names : \A k \in 2 .. Long(L, n) : L.piece[n][k] # 0
  /\ (\E n \in Names : L.val[n] # Nothing) => ~ Idle(L, 0)

\* The record after the i-th of a chain; after the last comes the first.
After(c, i) == c[IF i < Len(c) THEN i + 1 ELSE 1]

ChainIs(p, L, b, c) ==
  /\ \A i \in 1 .. Len(c) :
       /\ Hash[c[i]] = b /\ L.val[c[i]] # Nothing
       /\ p.sector[L.piece[c[i]][1]].nexthash = L.piece[After(c, i)][1]
  /\ \A i, j \in 1 .. Len(c) : c[i] = c[j] => i = j
  /\ \A n \in Names : Hash[n] = b /\ L.val[n] # Nothing => \E i \in 1 .. Len(c) : c[i] = n
  /\ c = <<>> => p.table[b] = None
  /\ c # <<>> => /\ p.table[b] = L.piece[c[1]][1]
                 /\ p.sector[p.table[b]].prevhash = L.piece[c[Len(c)]][1]

Chained(p, L, b) == ChainIs(p, L, b, L.chain[b])

Laid(p, L) ==
  /\ p \in GoodPartitions /\ L \in Layouts
  /\ p.head /\ p.crc = p.table
  /\ \A n \in Names : Placed(p, L, n)
  /\ Apart(L) /\ ZeroIsHead(L)
  /\ \A s \in Sectors : Idle(L, s) => p.sector[s].good /\ p.sector[s].status = "FREE"
  /\ \A b \in Bins : Chained(p, L, b)

\* The fields of a layout.
LEMMA LayoutFields ==
  ASSUME NEW L \in Layouts
  PROVE  /\ \A n \in Names : /\ L.val[n] \in Values \cup {Nothing}
                             /\ L.piece[n] \in [Nat -> Sectors]
                             /\ Long(L, n) \in Nat /\ (L.val[n] # Nothing <=> Long(L, n) > 0)
                             /\ L.val[n] # Nothing => 1 \in 1 .. Long(L, n)
                             /\ \A k \in 1 .. Long(L, n) : k \in Nat /\ L.piece[n][k] \in Sectors
         /\ \A b \in Bins : /\ L.chain[b] \in Seq(Names)
                            /\ Len(L.chain[b]) \in Nat
                            /\ \A i \in 1 .. Len(L.chain[b]) : L.chain[b][i] \in Names
<1>1. ASSUME NEW n \in Names
      PROVE  /\ L.val[n] \in Values \cup {Nothing}
             /\ L.piece[n] \in [Nat -> Sectors]
  BY DEF Layouts
<1>2. ASSUME NEW n \in Names
      PROVE  /\ Long(L, n) \in Nat /\ (L.val[n] # Nothing <=> Long(L, n) > 0)
             /\ L.val[n] # Nothing => 1 \in 1 .. Long(L, n)
             /\ \A k \in 1 .. Long(L, n) : k \in Nat /\ L.piece[n][k] \in Sectors
  <2>1. /\ Long(L, n) \in Nat /\ (L.val[n] # Nothing <=> Long(L, n) > 0)
    BY <1>1, Constants DEF Long
  <2> QED
    BY <1>1, <2>1
<1>3. ASSUME NEW b \in Bins
      PROVE  /\ L.chain[b] \in Seq(Names)
             /\ Len(L.chain[b]) \in Nat
             /\ \A i \in 1 .. Len(L.chain[b]) : L.chain[b][i] \in Names
  <2>1. L.chain[b] \in Seq(Names)
    BY DEF Layouts
  <2> QED
    BY <2>1
<1> QED
  BY <1>1, <1>2, <1>3

\* Heads on a laid partition.
LEMMA HeadsAre ==
  ASSUME NEW p, NEW L, Laid(p, L), NEW n \in Names, L.val[n] # Nothing
  PROVE  LET s == L.piece[n][1]
         IN  /\ s \in Sectors /\ p.sector[s].good /\ p.sector[s].status = "HEAD"
             /\ p.sector[s].name = n /\ p.sector[s].crc = L.val[n]
             /\ p.sector[s].len = Long(L, n) /\ p.sector[s].data = <<L.val[n], 1>>
             /\ \A m \in Names : L.val[m] # Nothing /\ L.piece[m][1] = s => m = n
<1>1. L \in Layouts /\ 1 \in 1 .. Long(L, n) /\ L.piece[n][1] \in Sectors
  BY LayoutFields DEF Laid
<1>2. IsPiece(p.sector[L.piece[n][1]], n, L.val[n], 1, Place(L.piece[n], 1 + 1, Long(L, n)))
  BY <1>1 DEF Laid, Placed
<1>3. ASSUME NEW m \in Names, L.val[m] # Nothing, L.piece[m][1] = L.piece[n][1] PROVE m = n
  <2>1. 1 \in 1 .. Long(L, m)
    BY <1>1, <1>3, LayoutFields
  <2> QED
    BY <1>1, <1>3, <2>1 DEF Laid, Apart
<1> DEFINE s == L.piece[n][1]
<1>4. /\ p.sector[s].good /\ p.sector[s].name = n /\ p.sector[s].crc = L.val[n]
      /\ p.sector[s].status = "HEAD" /\ p.sector[s].data = <<L.val[n], 1>>
      /\ p.sector[s].len = Size[L.val[n]]
  <2> DEFINE r == p.sector[s]
             w == L.val[n]
             next == Place(L.piece[n], 1 + 1, Long(L, n))
  <2>1. IsPiece(r, n, w, 1, next)
    BY <1>2
  <2> HIDE DEF r, w, next
  <2>2. /\ r.good /\ r.name = n /\ r.crc = w /\ r.status = "HEAD" /\ r.data = <<w, 1>>
        /\ r.len = Size[w]
    BY <2>1 DEF IsPiece
  <2> QED
    BY <2>2 DEF r, w
<1>5. Long(L, n) = Size[L.val[n]]
  BY DEF Long
<1>6. s \in Sectors /\ \A m \in Names : L.val[m] # Nothing /\ L.piece[m][1] = s => m = n
  BY <1>1, <1>3
<1> QED
  BY <1>4, <1>5, <1>6

\* What a walk reads there.
LEMMA HeadIs ==
  ASSUME NEW p, NEW L, Laid(p, L), NEW n \in Names, L.val[n] # Nothing
  PROVE  /\ L.piece[n][1] \in Sectors /\ p.sector[L.piece[n][1]].good
         /\ p.sector[L.piece[n][1]].status = "HEAD" /\ p.sector[L.piece[n][1]].name = n
BY HeadsAre

\* Two records have two heads.
LEMMA HeadsDiffer ==
  ASSUME NEW p, NEW L, Laid(p, L), NEW n \in Names, NEW m \in Names,
         L.val[n] # Nothing, L.val[m] # Nothing, L.piece[m][1] = L.piece[n][1]
  PROVE  m = n
<1>1. Apart(L) /\ 1 \in 1 .. Long(L, n) /\ 1 \in 1 .. Long(L, m)
  BY LayoutFields DEF Laid
<1> QED
  BY <1>1 DEF Apart

\* A chain has no more records than there are sectors.
LEMMA ChainFits ==
  ASSUME NEW p, NEW L, Laid(p, L), NEW b \in Bins
  PROVE  Len(L.chain[b]) <= NSectors
<1> DEFINE c == L.chain[b]
           f == [i \in 1 .. Len(c) |-> L.piece[c[i]][1]]
<1>1. /\ L \in Layouts /\ Len(c) \in Nat
      /\ \A i \in 1 .. Len(c) : c[i] \in Names /\ L.val[c[i]] # Nothing
      /\ \A i, j \in 1 .. Len(c) : c[i] = c[j] => i = j
  <2>1. L \in Layouts /\ Chained(p, L, b)
    BY DEF Laid
  <2>2. /\ \A i \in 1 .. Len(c) : L.val[c[i]] # Nothing
        /\ \A i, j \in 1 .. Len(c) : c[i] = c[j] => i = j
    BY <2>1 DEF Chained, ChainIs
  <2>3. Len(c) \in Nat /\ \A i \in 1 .. Len(c) : c[i] \in Names
    BY <2>1, LayoutFields
  <2> QED
    BY <2>1, <2>2, <2>3
<1> HIDE DEF c
<1>2. \A i \in 1 .. Len(c) : L.piece[c[i]][1] \in Sectors
  BY <1>1, HeadsAre
<1>3. \A i, j \in 1 .. Len(c) : L.piece[c[i]][1] = L.piece[c[j]][1] => i = j
  BY <1>1, HeadsAre
<1>4. f \in Injection(1 .. Len(c), Sectors)
  BY <1>2, <1>3 DEF Injection, IsInjective
<1> HIDE DEF f
<1>5. Cardinality(1 .. Len(c)) <= Cardinality(Sectors)
  BY <1>4, Constants, FS_Injection
<1>6. Cardinality(1 .. Len(c)) = Len(c)
  BY <1>1, UpToHas
<1>7. Cardinality(Sectors) = NSectors
  BY Constants, FS_Interval DEF Sectors
<1> QED
  BY <1>5, <1>6, <1>7 DEF c

\* What the walk to a name finds: the head of its record, or nothing.
Sought(O, m, L, n) ==
  {r \in Machines(O) :
     /\ Running(r) /\ r.p = m.p /\ r.free = m.free /\ r.out = m.out
     /\ L.val[n] = Nothing => r.at = None
     /\ L.val[n] # Nothing => r.at = L.piece[n][1] /\ r.buf = m.p.sector[L.piece[n][1]]}

\* j records of the chain c have been passed.
Passed(O, m, L, n, c, j) ==
  Sought(O, m, L, n) \cup
  {r \in Machines(O) :
     /\ r.end = "walk" /\ r.p = m.p /\ r.free = m.free /\ r.out = m.out
     /\ j < Len(c) /\ r.at = L.piece[c[j + 1]][1]
     /\ \A i \in 1 .. j : c[i] # n}

\* A step compares one more record of the chain with the name ...
LEMMA SeekStepDoes ==
  ASSUME NEW O, NEW m, NEW L, Laid(m.p, L), NEW n \in Names, NEW j \in Nat,
         NEW r \in Passed(O, m, L, n, L.chain[Hash[n]], j)
  PROVE  SeekStep(r, n, m.p.table[Hash[n]]) \in Passed(O, m, L, n, L.chain[Hash[n]], j + 1)
<1> DEFINE b == Hash[n]
           c == L.chain[b]
           first == m.p.table[b]
           q == [r EXCEPT !.end = "run"]
           t == ReadSectorAs(q, r.at, "HEAD")
           s == L.piece[c[j + 1]][1]
<1>1. CASE r.end # "walk"
  <2>1. r \in Sought(O, m, L, n)
    BY <1>1 DEF Passed
  <2> QED
    BY <1>1, <2>1 DEF SeekStep, Passed
<1>2. CASE r.end = "walk"
  <2>1. /\ r \in Machines(O) /\ r.p = m.p /\ r.free = m.free /\ r.out = m.out
        /\ j < Len(c) /\ r.at = s /\ \A i \in 1 .. j : c[i] # n
    BY <1>2 DEF Passed, Sought, Running
  <2>2. b \in Bins /\ L \in Layouts /\ Chained(m.p, L, b)
    BY BinOf DEF Laid
  <2>3. /\ Len(c) \in Nat /\ j + 1 \in 1 .. Len(c) /\ c[j + 1] \in Names
        /\ \A i \in 1 .. Len(c) : c[i] \in Names
    BY <2>1, <2>2, LayoutFields
  <2>4. /\ L.val[c[j + 1]] # Nothing
        /\ m.p.sector[s].nexthash = L.piece[After(c, j + 1)][1]
        /\ first = L.piece[c[1]][1]
        /\ \A i \in 1 .. Len(c) : L.val[c[i]] # Nothing
        /\ \A i, k \in 1 .. Len(c) : c[i] = c[k] => i = k
        /\ L.val[n] # Nothing => \E i \in 1 .. Len(c) : c[i] = n
    <3>1. c # <<>>
      BY <2>3
    <3> HIDE DEF c
    <3> QED
      BY <2>2, <2>3, <3>1 DEF Chained, ChainIs, c
  <2>5. /\ s \in Sectors /\ m.p.sector[s].good /\ m.p.sector[s].status = "HEAD"
        /\ m.p.sector[s].name = c[j + 1]
    <3> DEFINE x == c[j + 1]
    <3>1. x \in Names /\ L.val[x] # Nothing
      BY <2>3, <2>4
    <3> HIDE DEF x
    <3>2. /\ L.piece[x][1] \in Sectors /\ m.p.sector[L.piece[x][1]].good
          /\ m.p.sector[L.piece[x][1]].status = "HEAD"
          /\ m.p.sector[L.piece[x][1]].name = x
      BY <3>1, HeadIs
    <3> QED
      BY <3>2 DEF x
  <2> HIDE DEF c, s
  <2>6. q \in Machines(O) /\ Running(q) /\ q.p = m.p /\ q.free = m.free /\ q.out = m.out
    BY <2>1 DEF Machines, Running, Stands
  <2>7. /\ t \in Machines(O) /\ Running(t) /\ t.p = m.p /\ t.free = m.free
        /\ t.out = m.out /\ t.at = s /\ t.buf = m.p.sector[s]
    <3> HIDE DEF q
    <3>1. q.p.sector[s].good /\ q.p.sector[s].status = "HEAD"
      BY <2>5, <2>6
    <3>2. t = ReadSectorAs(q, s, "HEAD")
      BY <2>1
    <3> HIDE DEF t
    <3> QED
      BY <2>5, <2>6, <3>1, <3>2, ReadDoes
  <2>8. SeekStep(r, n, first) = Recognise(t, n, first)
    BY <1>2 DEF SeekStep
  <2> HIDE DEF q, t
  <2>9. CASE c[j + 1] = n
    <3>1. Recognise(t, n, first) = t
      BY <2>5, <2>7, <2>9 DEF Recognise
    <3>2. t \in Sought(O, m, L, n)
      BY <2>4, <2>7, <2>9 DEF Sought, s
    <3> QED
      BY <2>8, <3>1, <3>2 DEF Passed
  <2>10. CASE c[j + 1] # n /\ j + 1 = Len(c)
    <3>1. m.p.sector[s].nexthash = first
      BY <2>3, <2>4, <2>10 DEF After
    <3>2. Recognise(t, n, first) = [t EXCEPT !.at = None]
      BY <2>5, <2>7, <2>10, <3>1 DEF Recognise
    <3>3. \A i \in 1 .. Len(c) : c[i] # n
      <4> TAKE i \in 1 .. Len(c)
      <4>1. i \in 1 .. j \/ i = j + 1
        BY <2>3, <2>10
      <4> QED
        BY <2>1, <2>10, <4>1
    <3>4. L.val[n] = Nothing
      BY <2>4, <3>3
    <3>5. [t EXCEPT !.at = None] \in Sought(O, m, L, n)
      <4>1. None \in Places
        BY DEF Places
      <4> QED
        BY <2>7, <3>4, <4>1 DEF Sought, Machines, Running
    <3> QED
      BY <2>8, <3>2, <3>5 DEF Passed
  <2>11. CASE c[j + 1] # n /\ j + 1 < Len(c)
    <3>1. /\ m.p.sector[s].nexthash = L.piece[c[(j + 1) + 1]][1]
          /\ 1 \in 1 .. Len(c) /\ (j + 1) + 1 \in 1 .. Len(c) /\ (j + 1) + 1 # 1
      BY <2>3, <2>4, <2>11 DEF After
    <3>2. c[(j + 1) + 1] # c[1] /\ c[(j + 1) + 1] \in Names /\ c[1] \in Names
      BY <2>3, <2>4, <3>1
    <3>3. m.p.sector[s].nexthash # first
      <4> DEFINE x == c[(j + 1) + 1]
                 y == c[1]
      <4>1. /\ x \in Names /\ y \in Names /\ x # y
            /\ L.val[x] # Nothing /\ L.val[y] # Nothing
        BY <2>4, <3>1, <3>2
      <4>2. m.p.sector[s].nexthash = L.piece[x][1] /\ first = L.piece[y][1]
        BY <2>4, <3>1
      <4>3. Laid(m.p, L)
        BY <2>4
      <4> HIDE DEF x, y
      <4>4. L.piece[x][1] # L.piece[y][1]
        BY <4>1, <4>3, HeadsDiffer
      <4> QED
        BY <4>2, <4>4
    <3>4. Recognise(t, n, first) = [t EXCEPT !.end = "walk", !.at = t.buf.nexthash]
      BY <2>5, <2>7, <2>11, <3>3 DEF Recognise
    <3>5. t.buf.nexthash \in Places
      BY <2>7, MachineFields, SectorFields DEF Places
    <3> DEFINE u == [t EXCEPT !.end = "walk", !.at = t.buf.nexthash]
    <3>6. /\ u \in Machines(O) /\ u.end = "walk" /\ u.p = m.p /\ u.free = m.free
          /\ u.out = m.out /\ u.at = t.buf.nexthash
      BY <2>7, <3>5 DEF Machines, Stands
    <3> HIDE DEF u
    <3>7. \A i \in 1 .. j + 1 : c[i] # n
      <4> TAKE i \in 1 .. j + 1
      <4>1. i \in 1 .. j \/ i = j + 1
        OBVIOUS
      <4> QED
        BY <2>1, <2>11, <4>1
    <3>8. u \in Passed(O, m, L, n, c, j + 1)
      BY <2>7, <2>11, <3>1, <3>6, <3>7 DEF Passed
    <3> QED
      BY <2>8, <3>4, <3>8 DEF u, c
  <2>12. j + 1 = Len(c) \/ j + 1 < Len(c)
    BY <2>3
  <2> QED
    BY <2>9, <2>10, <2>11, <2>12 DEF c
<1> QED
  BY <1>1, <1>2

\* ... and the walk finds the record, or that there is none: it always ends.
LEMMA SeekFinds ==
  ASSUME NEW O, NEW m \in Machines(O), Running(m), NEW L, Laid(m.p, L), NEW n \in Names
  PROVE  Seek(m, n) \in Sought(O, m, L, n)
<1> DEFINE b == Hash[n]
           c == L.chain[b]
           first == m.p.table[b]
<1>1. b \in Bins /\ L \in Layouts /\ Chained(m.p, L, b) /\ Len(c) \in Nat /\ c \in Seq(Names)
  BY BinOf, LayoutFields DEF Laid
<1>2. CASE c = <<>>
  <2>1. first = None /\ L.val[n] = Nothing
    BY <1>1, <1>2 DEF Chained, ChainIs
  <2>2. Seek(m, n) = [m EXCEPT !.at = None]
    BY <2>1 DEF Seek
  <2> DEFINE r == [m EXCEPT !.at = None]
  <2>3. r \in Machines(O)
    BY DEF Machines, Places
  <2>4. r.p = m.p /\ r.free = m.free /\ r.out = m.out /\ r.at = None /\ r.end = m.end
    BY DEF Machines
  <2> HIDE DEF r
  <2> QED
    BY <2>1, <2>2, <2>3, <2>4 DEF r, Sought, Running
<1>3. CASE c # <<>>
  <2> DEFINE q == [m EXCEPT !.at = first, !.end = "walk"]
             t == SeekWalk(q, n, first, NSectors + 1)
  <2>1. /\ 1 \in 1 .. Len(c) /\ first = L.piece[c[1]][1] /\ L.val[c[1]] # Nothing
        /\ c[1] \in Names
    <3>1. 1 \in 1 .. Len(c)
      BY <1>1, <1>3
    <3>2. c[1] \in Names
      BY <1>1, <3>1
    <3>3. first = L.piece[c[1]][1]
      BY <1>1, <1>3 DEF Chained, ChainIs
    <3>4. L.val[c[1]] # Nothing
      BY <1>1, <3>1 DEF Chained, ChainIs
    <3> QED
      BY <3>1, <3>2, <3>3, <3>4
  <2>2. first \in Sectors
    BY <2>1, HeadsAre
  <2>3. Seek(m, n) = Endless(t)
    BY <2>2, Constants DEF Seek, SeekStep, SeekWalk, Loop
  <2>4. /\ q \in Machines(O) /\ q.end = "walk" /\ q.p = m.p /\ q.free = m.free
        /\ q.out = m.out /\ q.at = first
    BY <2>2 DEF Machines, Stands, Places
  <2> HIDE DEF q, c
  <2>5. PICK h \in [Nat -> Machines(O)] :
          /\ h[0] = q
          /\ \A k \in Nat : h[k + 1] = SeekStep(h[k], n, first)
          /\ \A last \in Int :
               SeekWalk(q, n, first, last) = h[IF 1 <= last THEN last - 1 + 1 ELSE 0]
    BY <2>4, SeekRun
  <2> DEFINE G == [j \in Nat |-> Passed(O, m, L, n, c, j)]
  <2>6. h[0] \in G[0]
    <3>1. 0 < Len(c) /\ 0 + 1 = 1 /\ 1 .. 0 = {}
      BY <1>1, <2>1
    <3>2. q \in Passed(O, m, L, n, c, 0)
      BY <2>1, <2>4, <3>1 DEF Passed
    <3> QED
      BY <2>5, <3>2
  <2>7. ASSUME NEW j \in Nat, h[j] \in G[j] PROVE h[j + 1] \in G[j + 1]
    <3>1. h[j] \in Passed(O, m, L, n, c, j) /\ h[j + 1] = SeekStep(h[j], n, first)
      BY <2>5, <2>7
    <3>2. h[j + 1] \in Passed(O, m, L, n, c, j + 1)
      BY <3>1, SeekStepDoes DEF c
    <3> QED
      BY <3>2
  <2>8. \A j \in Nat : h[j] \in G[j]
    BY <2>6, <2>7, KeptAlong
  <2>9. NSectors + 1 \in Nat /\ Len(c) <= NSectors
    BY <1>1, Constants, ChainFits DEF c
  <2>10. t = h[NSectors + 1]
    <3>1. /\ NSectors + 1 \in Int
          /\ (IF 1 <= NSectors + 1 THEN (NSectors + 1) - 1 + 1 ELSE 0) = NSectors + 1
      BY <2>9, Constants
    <3> QED
      BY <2>5, <3>1
  <2>11. t \in Passed(O, m, L, n, c, NSectors + 1)
    BY <2>8, <2>9, <2>10
  <2> HIDE DEF t
  <2>12. t \in Sought(O, m, L, n)
    <3>1. ~ (NSectors + 1 < Len(c))
      BY <1>1, <2>9, Constants DEF c
    <3> QED
      BY <2>11, <3>1 DEF Passed
  <2>13. Endless(t) = t
    BY <2>12 DEF Endless, Sought, Running
  <2> QED
    BY <2>3, <2>12, <2>13
<1> QED
  BY <1>2, <1>3

\* The record n is to consist of the sectors g[1], g[2] ... for the value v.
Stored(q, L, n, v, g) ==
  /\ q \in GoodPartitions /\ q.head /\ q.crc = q.table
  /\ v \in Values /\ g \in [Nat -> Sectors]
  /\ \A i, j \in 1 .. Size[v] : g[i] = g[j] => i = j
  /\ \A k \in 2 .. Size[v] : g[k] # 0
  /\ \A k \in 1 .. Size[v] : \A x \in Names : \A i \in 1 .. Long(L, x) :
       g[k] = L.piece[x][i] => x = n
  /\ \A k \in 1 .. Size[v] : IsPiece(q.sector[g[k]], n, v, k, Place(g, k + 1, Size[v]))

Revalued(L, n, v, g) == [L EXCEPT !.val[n] = v, !.piece[n] = g]

Amends(M, L, n, v, g) ==
  /\ M \in Layouts /\ M.chain = L.chain /\ M.val = [L.val EXCEPT ![n] = v]
  /\ M.val[n] = v /\ M.piece[n] = g /\ Long(M, n) = Size[v]
  /\ \A x \in Names : x # n =>
       M.val[x] = L.val[x] /\ M.piece[x] = L.piece[x] /\ Long(M, x) = Long(L, x)

\* It differs from L in n alone.
LEMMA RevaluedIs ==
  ASSUME NEW L \in Layouts, NEW n \in Names, NEW v \in Values, NEW g \in [Nat -> Sectors]
  PROVE  Amends(Revalued(L, n, v, g), L, n, v, g)
<1> DEFINE M == Revalued(L, n, v, g)
<1>1. /\ M \in Layouts /\ M.chain = L.chain
      /\ M.val = [L.val EXCEPT ![n] = v] /\ M.piece = [L.piece EXCEPT ![n] = g]
  BY DEF Revalued, Layouts
<1> HIDE DEF M
<1>2. L.val \in [Names -> Values \cup {Nothing}] /\ L.piece \in [Names -> [Nat -> Sectors]]
  BY DEF Layouts
<1>3. /\ M.val[n] = v /\ M.piece[n] = g
      /\ \A x \in Names : x # n => M.val[x] = L.val[x] /\ M.piece[x] = L.piece[x]
  BY <1>1, <1>2
<1>4. Long(M, n) = Size[v] /\ \A x \in Names : x # n => Long(M, x) = Long(L, x)
  BY <1>3, Constants DEF Long
<1>5. Amends(M, L, n, v, g)
  BY <1>1, <1>3, <1>4 DEF Amends
<1> QED
  BY <1>5 DEF M

\* The sectors of the new layout, and those that are idle in it.
LEMMA StoredApart ==
  ASSUME NEW L \in Layouts, Apart(L), NEW n \in Names, NEW q, NEW v, NEW g,
         Stored(q, L, n, v, g)
  PROVE  /\ Apart(Revalued(L, n, v, g))
         /\ \A s \in Sectors : Idle(Revalued(L, n, v, g), s) =>
              /\ \A k \in 1 .. Size[v] : s # g[k]
              /\ \A x \in Names : x # n => \A k \in 1 .. Long(L, x) : s # L.piece[x][k]
<1> DEFINE M == Revalued(L, n, v, g)
<1>1. v \in Values /\ g \in [Nat -> Sectors]
  BY DEF Stored
<1>5. Amends(M, L, n, v, g)
  BY <1>1, RevaluedIs
<1> HIDE DEF M
<1>2. /\ M.val[n] = v /\ M.piece[n] = g /\ Long(M, n) = Size[v]
      /\ \A x \in Names : x # n =>
           M.val[x] = L.val[x] /\ M.piece[x] = L.piece[x] /\ Long(M, x) = Long(L, x)
  BY <1>5 DEF Amends
<1>3. Apart(M)
  <2> SUFFICES ASSUME NEW x \in Names, NEW y \in Names,
                      NEW i \in 1 .. Long(M, x), NEW j \in 1 .. Long(M, y),
                      M.piece[x][i] = M.piece[y][j]
               PROVE  x = y /\ i = j
    BY DEF Apart
  <2>1. CASE x = n /\ y = n
    BY <1>2, <2>1 DEF Stored
  <2>2. CASE x = n /\ y # n
    BY <1>2, <2>2 DEF Stored
  <2>3. CASE x # n /\ y = n
    BY <1>2, <2>3 DEF Stored
  <2>4. CASE x # n /\ y # n
    BY <1>2, <2>4 DEF Apart
  <2> QED
    BY <2>1, <2>2, <2>3, <2>4
<1>4. ASSUME NEW s \in Sectors, Idle(M, s)
      PROVE  /\ \A k \in 1 .. Size[v] : s # g[k]
             /\ \A x \in Names : x # n => \A k \in 1 .. Long(L, x) : s # L.piece[x][k]
  BY <1>2, <1>4 DEF Idle
<1> QED
  BY <1>3, <1>4 DEF M

\* The record of n, which was there, holds v now; its other sectors are free.
Rewritten(p, q, L, n, v, g) ==
  /\ Stored(q, L, n, v, g) /\ q.table = p.table
  /\ L.val[n] # Nothing /\ g[1] = L.piece[n][1]
  /\ q.sector[g[1]].nexthash = p.sector[g[1]].nexthash
  /\ q.sector[g[1]].prevhash = p.sector[g[1]].prevhash
  /\ \A s \in Sectors : (\A k \in 1 .. Size[v] : s # g[k]) =>
       IF \E k \in 1 .. Long(L, n) : s = L.piece[n][k]
       THEN q.sector[s].good /\ q.sector[s].status = "FREE"
       ELSE q.sector[s] = p.sector[s]

\* A record rewritten over the sectors g leaves all records in order.
LEMMA RewrittenLaid ==
  ASSUME NEW p, NEW L, Laid(p, L), NEW n \in Names, NEW q, NEW v, NEW g,
         Rewritten(p, q, L, n, v, g)
  PROVE  Laid(q, Revalued(L, n, v, g))
<1> DEFINE M == Revalued(L, n, v, g)
<1>1. /\ v \in Values /\ g \in [Nat -> Sectors] /\ L \in Layouts /\ Apart(L)
      /\ Stored(q, L, n, v, g) /\ g[1] = L.piece[n][1] /\ L.val[n] # Nothing
      /\ Size[v] \in Nat /\ 1 \in 1 .. Size[v]
  BY Constants DEF Stored, Rewritten, Laid
<1>12. Amends(M, L, n, v, g)
  BY <1>1, RevaluedIs
<1>2. /\ M \in Layouts /\ M.chain = L.chain
      /\ M.val[n] = v /\ M.piece[n] = g /\ Long(M, n) = Size[v]
      /\ \A x \in Names : x # n =>
           M.val[x] = L.val[x] /\ M.piece[x] = L.piece[x] /\ Long(M, x) = Long(L, x)
  <2> HIDE DEF M
  <2> QED
    BY <1>12 DEF Amends
<1>3. /\ Apart(M)
      /\ \A s \in Sectors : Idle(M, s) =>
           /\ \A k \in 1 .. Size[v] : s # g[k]
           /\ \A x \in Names : x # n => \A k \in 1 .. Long(L, x) : s # L.piece[x][k]
  BY <1>1, StoredApart
<1> HIDE DEF M
<1>4. \A x \in Names : /\ M.piece[x][1] = L.piece[x][1]
                       /\ M.val[x] # Nothing <=> L.val[x] # Nothing
  BY <1>1, <1>2, Constants
\* Other records stay as they are.
<1>5. \A x \in Names : x # n => \A k \in 1 .. Long(L, x) :
        q.sector[L.piece[x][k]] = p.sector[L.piece[x][k]]
  <2> TAKE x \in Names
  <2> HAVE x # n
  <2> TAKE k \in 1 .. Long(L, x)
  <2>1. L.piece[x][k] \in Sectors
    BY <1>1, LayoutFields
  <2>2. \A i \in 1 .. Size[v] : L.piece[x][k] # g[i]
    BY <1>1 DEF Stored
  <2>3. \A i \in 1 .. Long(L, n) : L.piece[x][k] # L.piece[n][i]
    BY <1>1 DEF Apart
  <2> QED
    BY <2>1, <2>2, <2>3 DEF Rewritten
<1>6. \A x \in Names : Placed(q, M, x)
  <2> TAKE x \in Names
  <2>1. CASE x = n
    BY <1>1, <1>2, <2>1 DEF Placed, Stored
  <2>2. CASE x # n
    <3>1. Placed(p, L, x)
      BY DEF Laid
    <3> QED
      BY <1>2, <1>5, <2>2, <3>1 DEF Placed
  <2> QED
    BY <2>1, <2>2
<1>7. ZeroIsHead(M)
  <2>1. ASSUME NEW x \in Names, NEW k \in 2 .. Long(M, x) PROVE M.piece[x][k] # 0
    <3>1. CASE x = n
      BY <1>1, <1>2, <3>1 DEF Stored
    <3>2. CASE x # n
      BY <1>2, <3>2 DEF Laid, ZeroIsHead
    <3> QED
      BY <3>1, <3>2
  <2>2. ~ Idle(M, 0)
    <3>0. PICK x \in Names : \E k \in 1 .. Long(L, x) : L.piece[x][k] = 0
      BY <1>1 DEF Laid, ZeroIsHead, Idle
    <3>1. PICK k \in 1 .. Long(L, x) : L.piece[x][k] = 0
      BY <3>0
    <3>2. k = 1
      <4>1. Long(L, x) \in Nat
        BY <1>1, LayoutFields
      <4>2. k # 1 => k \in 2 .. Long(L, x)
        BY <4>1
      <4> QED
        BY <3>1, <4>2 DEF Laid, ZeroIsHead
    <3>3. 1 \in 1 .. Long(M, x)
      BY <1>1, <1>2, <3>2
    <3> QED
      BY <1>4, <3>1, <3>2, <3>3 DEF Idle
  <2> QED
    BY <2>1, <2>2 DEF ZeroIsHead
<1>8. \A s \in Sectors : Idle(M, s) => q.sector[s].good /\ q.sector[s].status = "FREE"
  <2> TAKE s \in Sectors
  <2> HAVE Idle(M, s)
  <2>1. CASE \E k \in 1 .. Long(L, n) : s = L.piece[n][k]
    BY <1>3, <2>1 DEF Rewritten
  <2>2. CASE ~ \E k \in 1 .. Long(L, n) : s = L.piece[n][k]
    <3>1. q.sector[s] = p.sector[s]
      BY <1>3, <2>2 DEF Rewritten
    <3>2. Idle(L, s)
      BY <1>3, <2>2 DEF Idle
    <3> QED
      BY <3>1, <3>2 DEF Laid
  <2> QED
    BY <2>1, <2>2
<1>9. \A x \in Names : L.val[x] # Nothing =>
        /\ q.sector[L.piece[x][1]].nexthash = p.sector[L.piece[x][1]].nexthash
        /\ q.sector[L.piece[x][1]].prevhash = p.sector[L.piece[x][1]].prevhash
  <2> TAKE x \in Names
  <2> HAVE L.val[x] # Nothing
  <2>1. CASE x = n
    BY <1>1, <2>1 DEF Rewritten
  <2>2. CASE x # n
    <3>1. 1 \in 1 .. Long(L, x)
      BY <1>1, LayoutFields
    <3> QED
      BY <1>5, <2>2, <3>1
  <2> QED
    BY <2>1, <2>2
<1>10. \A b \in Bins : Chained(q, M, b)
  <2> TAKE b \in Bins
  <2> DEFINE c == L.chain[b]
  <2>1. /\ Chained(p, L, b) /\ M.chain[b] = c /\ q.table[b] = p.table[b]
        /\ Len(c) \in Nat /\ \A i \in 1 .. Len(c) : c[i] \in Names
        /\ c \in Seq(Names)
    BY <1>1, <1>2, LayoutFields DEF Laid, Rewritten
  <2> HIDE DEF c
  <2>2. /\ \A i \in 1 .. Len(c) :
             /\ Hash[c[i]] = b /\ L.val[c[i]] # Nothing
             /\ p.sector[L.piece[c[i]][1]].nexthash = L.piece[After(c, i)][1]
        /\ \A i, j \in 1 .. Len(c) : c[i] = c[j] => i = j
        /\ \A x \in Names : Hash[x] = b /\ L.val[x] # Nothing =>
             \E i \in 1 .. Len(c) : c[i] = x
        /\ c = <<>> => p.table[b] = None
        /\ c # <<>> => /\ p.table[b] = L.piece[c[1]][1]
                       /\ p.sector[p.table[b]].prevhash = L.piece[c[Len(c)]][1]
    BY <2>1 DEF Chained, ChainIs, c
  <2>3. \A i \in 1 .. Len(c) : After(c, i) \in Names
    <3> TAKE i \in 1 .. Len(c)
    <3>1. 1 \in 1 .. Len(c) /\ (i < Len(c) => i + 1 \in 1 .. Len(c))
      BY <2>1
    <3> QED
      BY <2>1, <3>1 DEF After
  <2>4. \A i \in 1 .. Len(c) :
          /\ Hash[c[i]] = b /\ M.val[c[i]] # Nothing
          /\ q.sector[M.piece[c[i]][1]].nexthash = M.piece[After(c, i)][1]
    <3> TAKE i \in 1 .. Len(c)
    <3>1. /\ c[i] \in Names /\ L.val[c[i]] # Nothing /\ After(c, i) \in Names
          /\ Hash[c[i]] = b
          /\ p.sector[L.piece[c[i]][1]].nexthash = L.piece[After(c, i)][1]
      BY <2>1, <2>2, <2>3
    <3> QED
      BY <1>4, <1>9, <3>1
  <2>5. c # <<>> => /\ q.table[b] = M.piece[c[1]][1]
                    /\ q.sector[q.table[b]].prevhash = M.piece[c[Len(c)]][1]
    <3> HAVE c # <<>>
    <3>1. 1 \in 1 .. Len(c) /\ Len(c) \in 1 .. Len(c)
      BY <2>1
    <3>2. c[1] \in Names /\ c[Len(c)] \in Names /\ L.val[c[1]] # Nothing
      BY <2>1, <2>2, <3>1
    <3>3. q.table[b] = p.table[b] /\ p.table[b] = L.piece[c[1]][1]
          /\ p.sector[p.table[b]].prevhash = L.piece[c[Len(c)]][1]
      BY <2>1, <2>2
    <3>4. q.sector[L.piece[c[1]][1]].prevhash = p.sector[L.piece[c[1]][1]].prevhash
      BY <1>9, <3>2
    <3>5. M.piece[c[1]][1] = L.piece[c[1]][1] /\ M.piece[c[Len(c)]][1] = L.piece[c[Len(c)]][1]
      BY <1>4, <3>2
    <3> QED
      BY <3>3, <3>4, <3>5
  <2>6. \A x \in Names : Hash[x] = b /\ M.val[x] # Nothing =>
          \E i \in 1 .. Len(c) : c[i] = x
    BY <1>4, <2>2
  <2>7. ChainIs(q, M, b, c)
    BY <2>1, <2>2, <2>4, <2>5, <2>6 DEF ChainIs
  <2> QED
    BY <2>1, <2>7 DEF Chained
<1>11. q \in GoodPartitions /\ q.head /\ q.crc = q.table
  BY <1>1 DEF Stored
<1> QED
  BY <1>2, <1>3, <1>6, <1>7, <1>8, <1>10, <1>11 DEF Laid, M

\* The records a new one of n is linked to; itself, if it is the first.
FirstOf(L, n, g) ==
  LET c == L.chain[Hash[n]] IN IF c = <<>> THEN g[1] ELSE L.piece[c[1]][1]
LastOf(L, n, g) ==
  LET c == L.chain[Hash[n]] IN IF c = <<>> THEN g[1] ELSE L.piece[c[Len(c)]][1]

\* Only the links of a sector have changed.
Relinked(r, s) ==
  /\ r.good = s.good /\ r.status = s.status /\ r.name = s.name /\ r.crc = s.crc
  /\ r.len = s.len /\ r.next = s.next /\ r.data = s.data

\* There is a record of n now.
Added(p, q, L, n, v, g) ==
  /\ Stored(q, L, n, v, g) /\ L.val[n] = Nothing
  /\ Idle(L, 0) => g[1] = 0
  /\ q.table = IF L.chain[Hash[n]] = <<>> THEN [p.table EXCEPT ![Hash[n]] = g[1]]
               ELSE p.table
  /\ q.sector[g[1]].nexthash = FirstOf(L, n, g)
  /\ q.sector[LastOf(L, n, g)].nexthash = g[1]
  /\ q.sector[FirstOf(L, n, g)].prevhash = g[1]
  /\ \A s \in Sectors : (\A k \in 1 .. Size[v] : s # g[k]) =>
       /\ Relinked(q.sector[s], p.sector[s])
       /\ s # LastOf(L, n, g) => q.sector[s].nexthash = p.sector[s].nexthash
       /\ s # FirstOf(L, n, g) => q.sector[s].prevhash = p.sector[s].prevhash

Enrolled(L, n, v, g) == [Revalued(L, n, v, g) EXCEPT !.chain[Hash[n]] = Append(@, n)]

\* M is L with a record of n at the end of its chain.
Appended(M, L, n, v, g) ==
  /\ M \in Layouts /\ M.val[n] = v /\ M.piece[n] = g
  /\ \A x \in Names : x # n => M.val[x] = L.val[x] /\ M.piece[x] = L.piece[x]
  /\ M.chain[Hash[n]] = Append(L.chain[Hash[n]], n)
  /\ \A x \in Names : x # n /\ L.val[x] # Nothing =>
       \A k \in 1 .. Size[v] : L.piece[x][1] # g[k]

\* The chain of the bin, with n at its end.
LEMMA ChainExtended ==
  ASSUME NEW p, NEW L, Laid(p, L), NEW n \in Names, NEW q, NEW v, NEW g,
         Added(p, q, L, n, v, g), NEW M, Appended(M, L, n, v, g)
  PROVE  Chained(q, M, Hash[n])
<1>14. /\ M \in Layouts /\ M.val[n] = v /\ M.piece[n] = g
       /\ \A x \in Names : x # n => M.val[x] = L.val[x] /\ M.piece[x] = L.piece[x]
       /\ M.chain[Hash[n]] = Append(L.chain[Hash[n]], n)
       /\ \A x \in Names : x # n /\ L.val[x] # Nothing =>
            \A k \in 1 .. Size[v] : L.piece[x][1] # g[k]
  BY DEF Appended
<1> USE <1>14
<1> DEFINE b == Hash[n]
           c == L.chain[b]
           d == Append(c, n)
           first == FirstOf(L, n, g)
           last == LastOf(L, n, g)
<1>1. /\ L \in Layouts /\ b \in Bins /\ c \in Seq(Names) /\ Len(c) \in Nat
      /\ \A i \in 1 .. Len(c) : c[i] \in Names
      /\ M.chain[b] = d
  <2>1. L \in Layouts /\ b \in Bins
    BY BinOf DEF Laid
  <2>2. c \in Seq(Names) /\ Len(c) \in Nat /\ \A i \in 1 .. Len(c) : c[i] \in Names
    BY <2>1, LayoutFields
  <2>3. M.chain[b] = d
    BY <1>14
  <2> QED
    BY <2>1, <2>2, <2>3
<1>2. /\ Len(d) = Len(c) + 1 /\ d[Len(c) + 1] = n
      /\ \A i \in 1 .. Len(c) : d[i] = c[i]
      /\ d # <<>>
  <2>1. c \in Seq(Names) /\ n \in Names /\ Len(c) \in Nat
    BY <1>1
  <2> HIDE DEF c
  <2>2. /\ Len(d) = Len(c) + 1 /\ d[Len(c) + 1] = n
        /\ \A i \in 1 .. Len(c) : d[i] = c[i]
    BY <2>1
  <2> HIDE DEF d
  <2>3. d # <<>>
    BY <2>1, <2>2
  <2> QED
    BY <2>2, <2>3
<1>3. /\ first = IF c = <<>> THEN g[1] ELSE L.piece[c[1]][1]
      /\ last = IF c = <<>> THEN g[1] ELSE L.piece[c[Len(c)]][1]
  BY DEF FirstOf, LastOf
<1>4. Chained(p, L, b)
  BY <1>1 DEF Laid
<1>12. /\ c = <<>> => Len(c) = 0
       /\ c # <<>> => Len(c) > 0
  BY <1>1
<1>13. v # Nothing /\ v \in Values /\ 1 \in 1 .. Size[v] /\ L.val[n] = Nothing
  BY Constants DEF Added, Stored
<1> HIDE DEF c, d, first, last
<1>5. /\ \A i \in 1 .. Len(c) :
           /\ Hash[c[i]] = b /\ L.val[c[i]] # Nothing
           /\ p.sector[L.piece[c[i]][1]].nexthash = L.piece[After(c, i)][1]
      /\ \A i, j \in 1 .. Len(c) : c[i] = c[j] => i = j
      /\ \A x \in Names : Hash[x] = b /\ L.val[x] # Nothing =>
           \E i \in 1 .. Len(c) : c[i] = x
      /\ c = <<>> => p.table[b] = None
      /\ c # <<>> => /\ p.table[b] = L.piece[c[1]][1]
                     /\ p.sector[p.table[b]].prevhash = L.piece[c[Len(c)]][1]
  BY <1>4 DEF Chained, ChainIs, c
<1>6. /\ q.table = IF c = <<>> THEN [p.table EXCEPT ![b] = g[1]] ELSE p.table
      /\ q.sector[g[1]].nexthash = first /\ q.sector[last].nexthash = g[1]
      /\ q.sector[first].prevhash = g[1]
      /\ \A s \in Sectors : (\A k \in 1 .. Size[v] : s # g[k]) /\ s # last =>
           q.sector[s].nexthash = p.sector[s].nexthash
  BY DEF Added, c, first, last
<1>7. \A i \in 1 .. Len(c) :
        /\ c[i] # n /\ c[i] \in Names /\ L.piece[c[i]][1] \in Sectors
        /\ M.piece[c[i]][1] = L.piece[c[i]][1] /\ M.val[c[i]] = L.val[c[i]]
        /\ \A k \in 1 .. Size[v] : L.piece[c[i]][1] # g[k]
        /\ \A j \in 1 .. Len(c) : L.piece[c[i]][1] = L.piece[c[j]][1] => i = j
  <2> TAKE i \in 1 .. Len(c)
  <2>1. c[i] \in Names /\ L.val[c[i]] # Nothing /\ c[i] # n
    BY <1>1, <1>5, <1>13
  <2>2. L.piece[c[i]][1] \in Sectors
    BY <2>1, HeadsAre
  <2>3. \A j \in 1 .. Len(c) : L.piece[c[i]][1] = L.piece[c[j]][1] => i = j
    <3> TAKE j \in 1 .. Len(c)
    <3> HAVE L.piece[c[i]][1] = L.piece[c[j]][1]
    <3> DEFINE x == c[i]
               y == c[j]
    <3>1. x \in Names /\ y \in Names /\ L.val[x] # Nothing /\ L.val[y] # Nothing
      BY <1>1, <1>5
    <3>2. L.piece[x][1] = L.piece[y][1]
      OBVIOUS
    <3> HIDE DEF x, y
    <3>3. y = x
      BY <3>1, <3>2, HeadsDiffer
    <3> QED
      BY <1>5, <3>3 DEF x, y
  <2> QED
    BY <2>1, <2>2, <2>3
<1>8. \A i \in 1 .. Len(d) :
        /\ Hash[d[i]] = b /\ M.val[d[i]] # Nothing
        /\ q.sector[M.piece[d[i]][1]].nexthash = M.piece[After(d, i)][1]
  <2> TAKE i \in 1 .. Len(d)
  <2>1. CASE i = Len(d)
    <3>1. d[i] = n /\ Hash[d[i]] = b /\ M.val[d[i]] # Nothing /\ M.piece[d[i]] = g
      BY <1>2, <1>13, <2>1
    <3>2. M.piece[After(d, i)][1] = first
      <4>1. After(d, i) = d[1]
        BY <2>1 DEF After
      <4>2. CASE c = <<>>
        BY <1>2, <1>3, <1>12, <4>1, <4>2
      <4>3. CASE c # <<>>
        <5>1. 1 \in 1 .. Len(c)
          BY <1>1, <1>12, <4>3
        <5> QED
          BY <1>2, <1>3, <1>7, <4>1, <4>3, <5>1
      <4> QED
        BY <4>2, <4>3
    <3> QED
      BY <1>6, <3>1, <3>2
  <2>2. CASE i # Len(d)
    <3>1. i \in 1 .. Len(c) /\ i + 1 \in 1 .. Len(d) /\ After(d, i) = d[i + 1]
      BY <1>1, <1>2, <2>2 DEF After
    <3>2. /\ d[i] = c[i] /\ Hash[d[i]] = b /\ M.val[d[i]] # Nothing
          /\ M.piece[d[i]][1] = L.piece[c[i]][1]
      BY <1>2, <1>5, <1>7, <3>1
    <3>3. CASE i = Len(c)
      <4>1. d[i + 1] = n /\ last = L.piece[c[i]][1]
        BY <1>2, <1>3, <1>12, <3>1, <3>3
      <4> QED
        BY <1>6, <3>1, <3>2, <4>1
    <3>4. CASE i # Len(c)
      <4>1. i + 1 \in 1 .. Len(c) /\ Len(c) \in 1 .. Len(c) /\ c # <<>> /\ i < Len(c)
        BY <1>1, <1>12, <3>1, <3>4
      <4>2. L.piece[c[i]][1] # last
        BY <1>3, <1>7, <3>1, <3>4, <4>1
      <4>3. q.sector[L.piece[c[i]][1]].nexthash = p.sector[L.piece[c[i]][1]].nexthash
        BY <1>6, <1>7, <3>1, <4>2
      <4>4. After(c, i) = c[i + 1] /\ d[i + 1] = c[i + 1]
        BY <1>2, <4>1 DEF After
      <4>5. p.sector[L.piece[c[i]][1]].nexthash = L.piece[c[i + 1]][1]
        BY <1>5, <3>1, <4>4
      <4>6. M.piece[c[i + 1]][1] = L.piece[c[i + 1]][1]
        BY <1>7, <4>1
      <4> QED
        BY <3>1, <3>2, <4>3, <4>4, <4>5, <4>6
    <3> QED
      BY <3>3, <3>4
  <2> QED
    BY <2>1, <2>2
<1>9. \A i, j \in 1 .. Len(d) : d[i] = d[j] => i = j
  <2> TAKE i, j \in 1 .. Len(d)
  <2>1. /\ i # Len(d) => i \in 1 .. Len(c)
        /\ j # Len(d) => j \in 1 .. Len(c)
    BY <1>1, <1>2
  <2>2. CASE i = Len(d)
    BY <1>2, <1>7, <2>1, <2>2
  <2>3. CASE j = Len(d)
    BY <1>2, <1>7, <2>1, <2>3
  <2>4. CASE i # Len(d) /\ j # Len(d)
    BY <1>2, <1>5, <2>1, <2>4
  <2> QED
    BY <2>2, <2>3, <2>4
<1>10. \A x \in Names : Hash[x] = b /\ M.val[x] # Nothing =>
         \E i \in 1 .. Len(d) : d[i] = x
  <2> TAKE x \in Names
  <2> HAVE Hash[x] = b /\ M.val[x] # Nothing
  <2>1. CASE x = n
    <3>1. Len(c) + 1 \in 1 .. Len(d)
      BY <1>1, <1>2
    <3> QED
      BY <1>2, <2>1, <3>1
  <2>2. CASE x # n
    <3>1. PICK i \in 1 .. Len(c) : c[i] = x
      BY <1>5, <2>2
    <3>2. i \in 1 .. Len(d)
      BY <1>1, <1>2
    <3> QED
      BY <1>2, <3>1, <3>2
  <2> QED
    BY <2>1, <2>2
<1>11. /\ q.table[b] = M.piece[d[1]][1]
       /\ q.sector[q.table[b]].prevhash = M.piece[d[Len(d)]][1]
  <2>1. q.table[b] = first
    <3>1. CASE c = <<>>
      <4>1. p.table \in Tables
        BY PartitionFields DEF Laid
      <4> QED
        BY <1>1, <1>3, <1>6, <3>1, <4>1 DEF Tables
    <3>2. CASE c # <<>>
      BY <1>3, <1>5, <1>6, <3>2
    <3> QED
      BY <3>1, <3>2
  <2>2. M.piece[d[1]][1] = first
    <3>1. CASE c = <<>>
      BY <1>2, <1>3, <1>12, <3>1
    <3>2. CASE c # <<>>
      <4>1. 1 \in 1 .. Len(c)
        BY <1>1, <1>12, <3>2
      <4> QED
        BY <1>2, <1>3, <1>7, <3>2, <4>1
    <3> QED
      BY <3>1, <3>2
  <2>3. M.piece[d[Len(d)]][1] = g[1]
    BY <1>2
  <2> QED
    BY <1>6, <2>1, <2>2, <2>3
<1>15. d # <<>>
  BY <1>2
<1>16. ChainIs(q, M, b, d)
  BY <1>8, <1>9, <1>10, <1>11, <1>15 DEF ChainIs
<1> QED
  BY <1>1, <1>16 DEF Chained

\* A new record in its place leaves all records in order.
LEMMA AddedLaid ==
  ASSUME NEW p, NEW L, Laid(p, L), NEW n \in Names, NEW q, NEW v, NEW g,
         Added(p, q, L, n, v, g)
  PROVE  Laid(q, Enrolled(L, n, v, g)) /\ Enrolled(L, n, v, g).val = [L.val EXCEPT ![n] = v]
<1> DEFINE R == Revalued(L, n, v, g)
           M == Enrolled(L, n, v, g)
           bin == Hash[n]
<1>1. /\ v \in Values /\ v # Nothing /\ g \in [Nat -> Sectors] /\ L \in Layouts /\ Apart(L)
      /\ Stored(q, L, n, v, g) /\ L.val[n] = Nothing
      /\ Size[v] \in Nat /\ 1 \in 1 .. Size[v] /\ bin \in Bins
  BY Constants, BinOf DEF Stored, Added, Laid
<1>2. Amends(R, L, n, v, g)
  BY <1>1, RevaluedIs
<1>3. /\ Apart(R)
      /\ \A s \in Sectors : Idle(R, s) =>
           /\ \A k \in 1 .. Size[v] : s # g[k]
           /\ \A x \in Names : x # n => \A k \in 1 .. Long(L, x) : s # L.piece[x][k]
  BY <1>1, StoredApart
<1>4. M = [R EXCEPT !.chain[bin] = Append(@, n)]
  BY DEF Enrolled
<1> HIDE DEF R, M
<1>5. /\ M \in Layouts /\ M.val = R.val /\ M.piece = R.piece
      /\ M.chain = [L.chain EXCEPT ![bin] = Append(L.chain[bin], n)]
  <2>1. R \in Layouts /\ R.chain = L.chain /\ L.chain \in [Bins -> Seq(Names)]
    BY <1>1, <1>2 DEF Amends, Layouts
  <2>2. Append(L.chain[bin], n) \in Seq(Names)
    BY <1>1, <2>1
  <2> QED
    BY <1>4, <2>1, <2>2 DEF Layouts
<1>6. /\ M.val[n] = v /\ M.piece[n] = g /\ Long(M, n) = Size[v]
      /\ M.val = [L.val EXCEPT ![n] = v]
      /\ \A x \in Names : x # n =>
           M.val[x] = L.val[x] /\ M.piece[x] = L.piece[x] /\ Long(M, x) = Long(L, x)
  BY <1>2, <1>5 DEF Amends, Long
<1>7. Apart(M)
  BY <1>3, <1>5 DEF Apart, Long
<1>8. \A s \in Sectors : Idle(M, s) =>
        /\ \A k \in 1 .. Size[v] : s # g[k]
        /\ \A x \in Names : x # n => \A k \in 1 .. Long(L, x) : s # L.piece[x][k]
  BY <1>3, <1>5 DEF Idle, Long
<1>14. Long(L, n) = 0 /\ 1 .. Long(L, n) = {}
  BY <1>1 DEF Long
\* Other records keep their place and what is in it.
<1>9. \A x \in Names : x # n => \A k \in 1 .. Long(L, x) :
        /\ L.piece[x][k] \in Sectors
        /\ \A i \in 1 .. Size[v] : L.piece[x][k] # g[i]
        /\ Relinked(q.sector[L.piece[x][k]], p.sector[L.piece[x][k]])
  <2> TAKE x \in Names
  <2> HAVE x # n
  <2> TAKE k \in 1 .. Long(L, x)
  <2>1. L.piece[x][k] \in Sectors
    BY <1>1, LayoutFields
  <2>2. \A i \in 1 .. Size[v] : L.piece[x][k] # g[i]
    BY <1>1 DEF Stored
  <2> QED
    BY <2>1, <2>2 DEF Added
<1>10. \A x \in Names : Placed(q, M, x)
  <2> TAKE x \in Names
  <2>1. CASE x = n
    BY <1>1, <1>6, <2>1 DEF Placed, Stored
  <2>2. CASE x # n
    <3>1. Placed(p, L, x)
      BY DEF Laid
    <3>2. ASSUME NEW k \in 1 .. Long(L, x)
          PROVE  IsPiece(q.sector[L.piece[x][k]], x, L.val[x], k,
                         Place(L.piece[x], k + 1, Long(L, x)))
      <4>1. IsPiece(p.sector[L.piece[x][k]], x, L.val[x], k,
                    Place(L.piece[x], k + 1, Long(L, x)))
        BY <3>1 DEF Placed
      <4>2. Relinked(q.sector[L.piece[x][k]], p.sector[L.piece[x][k]])
        BY <1>9, <2>2
      <4> QED
        BY <4>1, <4>2 DEF Relinked, IsPiece
    <3> QED
      BY <1>6, <2>2, <3>2 DEF Placed
  <2> QED
    BY <2>1, <2>2
<1>11. ZeroIsHead(M)
  <2>1. ASSUME NEW x \in Names, NEW k \in 2 .. Long(M, x) PROVE M.piece[x][k] # 0
    <3>1. CASE x = n
      BY <1>1, <1>6, <3>1 DEF Stored
    <3>2. CASE x # n
      BY <1>6, <3>2 DEF Laid, ZeroIsHead
    <3> QED
      BY <3>1, <3>2
  <2>2. ~ Idle(M, 0)
    <3>1. CASE Idle(L, 0)
      <4>1. g[1] = 0
        BY <3>1 DEF Added
      <4> QED
        BY <1>1, <1>6, <4>1 DEF Idle
    <3>2. CASE ~ Idle(L, 0)
      <4>1. PICK x \in Names : \E k \in 1 .. Long(L, x) : L.piece[x][k] = 0
        BY <3>2 DEF Idle
      <4>2. x # n
        BY <1>14, <4>1
      <4> QED
        BY <1>6, <4>1, <4>2 DEF Idle
    <3> QED
      BY <3>1, <3>2
  <2> QED
    BY <2>1, <2>2 DEF ZeroIsHead
<1>12. \A s \in Sectors : Idle(M, s) => q.sector[s].good /\ q.sector[s].status = "FREE"
  <2> TAKE s \in Sectors
  <2> HAVE Idle(M, s)
  <2>1. Relinked(q.sector[s], p.sector[s])
    BY <1>8 DEF Added
  <2>2. Idle(L, s)
    BY <1>8, <1>14 DEF Idle
  <2> QED
    BY <2>1, <2>2 DEF Laid, Relinked
<1>13. \A b \in Bins : Chained(q, M, b)
  <2> TAKE b \in Bins
  <2>1. CASE b = bin
    <3>1. M.chain[bin] = Append(L.chain[bin], n)
      BY <1>1, <1>5 DEF Layouts
    <3>2. \A x \in Names : x # n /\ L.val[x] # Nothing =>
            \A k \in 1 .. Size[v] : L.piece[x][1] # g[k]
      BY <1>1, <1>9, LayoutFields
    <3>3. Appended(M, L, n, v, g)
      BY <1>5, <1>6, <3>1, <3>2 DEF Appended
    <3>4. Chained(q, M, Hash[n])
      BY <3>3, ChainExtended
    <3> QED
      BY <2>1, <3>4
  <2>2. CASE b # bin
    <3> DEFINE c == L.chain[b]
               e == L.chain[bin]
    <3>1. /\ Chained(p, L, b) /\ Chained(p, L, bin) /\ M.chain[b] = c
          /\ q.table[b] = p.table[b]
          /\ c \in Seq(Names) /\ Len(c) \in Nat /\ \A i \in 1 .. Len(c) : c[i] \in Names
          /\ e \in Seq(Names) /\ Len(e) \in Nat /\ \A i \in 1 .. Len(e) : e[i] \in Names
      <4>1. p.table \in Tables
        BY PartitionFields DEF Laid
      <4>2. q.table[b] = p.table[b]
        BY <1>1, <2>2, <4>1 DEF Added, Tables
      <4>3. M.chain[b] = c
        BY <1>1, <1>5, <2>2 DEF Layouts
      <4> QED
        BY <1>1, <4>2, <4>3, LayoutFields DEF Laid
    <3>2. /\ \A i \in 1 .. Len(c) :
               /\ Hash[c[i]] = b /\ L.val[c[i]] # Nothing
               /\ p.sector[L.piece[c[i]][1]].nexthash = L.piece[After(c, i)][1]
          /\ \A i, j \in 1 .. Len(c) : c[i] = c[j] => i = j
          /\ \A x \in Names : Hash[x] = b /\ L.val[x] # Nothing =>
               \E i \in 1 .. Len(c) : c[i] = x
          /\ c = <<>> => p.table[b] = None
          /\ c # <<>> => /\ p.table[b] = L.piece[c[1]][1]
                         /\ p.sector[p.table[b]].prevhash = L.piece[c[Len(c)]][1]
          /\ \A i \in 1 .. Len(e) : Hash[e[i]] = bin /\ L.val[e[i]] # Nothing
      BY <3>1 DEF Chained, ChainIs
    <3>12. e # <<>> => 1 \in 1 .. Len(e) /\ Len(e) \in 1 .. Len(e)
      BY <3>1
    <3>13. /\ FirstOf(L, n, g) = IF e = <<>> THEN g[1] ELSE L.piece[e[1]][1]
           /\ LastOf(L, n, g) = IF e = <<>> THEN g[1] ELSE L.piece[e[Len(e)]][1]
      BY DEF FirstOf, LastOf
    <3>14. /\ c = <<>> => Len(c) = 0
           /\ c # <<>> => 1 \in 1 .. Len(c) /\ Len(c) \in 1 .. Len(c)
      BY <3>1
    <3> HIDE DEF c, e
    <3>3. \A x \in Names : Hash[x] = b /\ L.val[x] # Nothing =>
            /\ x # n /\ M.val[x] = L.val[x] /\ M.piece[x][1] = L.piece[x][1]
            /\ q.sector[L.piece[x][1]].nexthash = p.sector[L.piece[x][1]].nexthash
            /\ q.sector[L.piece[x][1]].prevhash = p.sector[L.piece[x][1]].prevhash
      <4> TAKE x \in Names
      <4> HAVE Hash[x] = b /\ L.val[x] # Nothing
      <4>1. x # n
        BY <2>2
      <4>2. 1 \in 1 .. Long(L, x)
        BY <1>1, LayoutFields
      <4>3. L.piece[x][1] \in Sectors /\ \A i \in 1 .. Size[v] : L.piece[x][1] # g[i]
        BY <1>9, <4>1, <4>2
      <4>4. ASSUME NEW i \in 1 .. Len(e) PROVE L.piece[x][1] # L.piece[e[i]][1]
        <5> DEFINE y == e[i]
        <5>1. y \in Names /\ L.val[y] # Nothing /\ y # x
          BY <2>2, <3>1, <3>2
        <5> HIDE DEF y
        <5>2. L.piece[x][1] # L.piece[y][1]
          BY <5>1, HeadsDiffer
        <5> QED
          BY <5>2 DEF y
      <4>5. L.piece[x][1] # FirstOf(L, n, g) /\ L.piece[x][1] # LastOf(L, n, g)
        BY <1>1, <3>12, <3>13, <4>3, <4>4
      <4> QED
        BY <1>6, <4>1, <4>3, <4>5 DEF Added
    <3>4. \A i \in 1 .. Len(c) : After(c, i) \in Names /\ L.val[After(c, i)] # Nothing
                                  /\ Hash[After(c, i)] = b
      <4> TAKE i \in 1 .. Len(c)
      <4>1. 1 \in 1 .. Len(c) /\ (i < Len(c) => i + 1 \in 1 .. Len(c))
        BY <3>1
      <4> QED
        BY <3>1, <3>2, <4>1 DEF After
    <3>5. \A i \in 1 .. Len(c) :
            /\ Hash[c[i]] = b /\ M.val[c[i]] # Nothing
            /\ q.sector[M.piece[c[i]][1]].nexthash = M.piece[After(c, i)][1]
      <4> TAKE i \in 1 .. Len(c)
      <4>1. /\ c[i] \in Names /\ Hash[c[i]] = b /\ L.val[c[i]] # Nothing
            /\ p.sector[L.piece[c[i]][1]].nexthash = L.piece[After(c, i)][1]
        BY <3>1, <3>2
      <4>2. M.val[c[i]] # Nothing /\ M.piece[c[i]][1] = L.piece[c[i]][1]
            /\ q.sector[L.piece[c[i]][1]].nexthash = p.sector[L.piece[c[i]][1]].nexthash
        BY <3>3, <4>1
      <4>3. M.piece[After(c, i)][1] = L.piece[After(c, i)][1]
        BY <3>3, <3>4
      <4> QED
        BY <4>1, <4>2, <4>3
    <3>6. c # <<>> => /\ q.table[b] = M.piece[c[1]][1]
                      /\ q.sector[q.table[b]].prevhash = M.piece[c[Len(c)]][1]
      <4> HAVE c # <<>>
      <4>1. /\ c[1] \in Names /\ L.val[c[1]] # Nothing /\ Hash[c[1]] = b
            /\ c[Len(c)] \in Names /\ L.val[c[Len(c)]] # Nothing /\ Hash[c[Len(c)]] = b
        BY <3>1, <3>2, <3>14
      <4>2. /\ p.table[b] = L.piece[c[1]][1]
            /\ p.sector[p.table[b]].prevhash = L.piece[c[Len(c)]][1]
        BY <3>2
      <4>3. /\ q.sector[L.piece[c[1]][1]].prevhash = p.sector[L.piece[c[1]][1]].prevhash
            /\ M.piece[c[1]][1] = L.piece[c[1]][1]
            /\ M.piece[c[Len(c)]][1] = L.piece[c[Len(c)]][1]
        BY <3>3, <4>1
      <4> QED
        BY <3>1, <4>2, <4>3
    <3>7. \A x \in Names : Hash[x] = b /\ M.val[x] # Nothing =>
            \E i \in 1 .. Len(c) : c[i] = x
      <4> TAKE x \in Names
      <4> HAVE Hash[x] = b /\ M.val[x] # Nothing
      <4>1. x # n
        BY <2>2
      <4> QED
        BY <1>6, <3>2, <4>1
    <3>8. c = <<>> => q.table[b] = None
      BY <3>1, <3>2
    <3>9. \A i, j \in 1 .. Len(c) : c[i] = c[j] => i = j
      BY <3>2
    <3>10. ChainIs(q, M, b, c)
      BY <3>5, <3>6, <3>7, <3>8, <3>9 DEF ChainIs
    <3> QED
      BY <3>1, <3>10 DEF Chained
  <2> QED
    BY <2>1, <2>2
<1>15. q \in GoodPartitions /\ q.head /\ q.crc = q.table
  BY <1>1 DEF Stored
<1> QED
  BY <1>5, <1>6, <1>7, <1>10, <1>11, <1>12, <1>13, <1>15 DEF Laid, M

-----------------------------------------------------------------------------
(* STEEPROM_WriteRecord, on a partition whose records are in order.           *)

\* The writes by which n may get v while the values are h: heads of records say
\* what h says, or v if they are those of n.
MildHead(h, n, v, r) ==
  r.name \in Names /\ (r.crc = h[r.name] \/ (r.name = n /\ r.crc = v))

Mild(h, n, v) ==
  {w \in Writes : \/ w.to \in {"bin", "crc"}
                  \/ w.to = "sector" /\ (w.what.status = "HEAD" => MildHead(h, n, v, w.what))}

\* Such writes are those of sectors whose heads do not say anything else, of a
\* bin and of the table's CRC.
LEMMA MildHas ==
  ASSUME NEW h, NEW n \in Names, NEW v
  PROVE  /\ Mild(h, n, v) \in SUBSET Writes
         /\ \A s \in Sectors, r \in GoodSectors :
              (r.status = "HEAD" => MildHead(h, n, v, r)) => SectorWrite(s, r) \in Mild(h, n, v)
         /\ \A s \in Sectors, r \in GoodSectors :
              r.name = n /\ r.crc = v => SectorWrite(s, r) \in Mild(h, n, v)
         /\ \A b \in Bins, s \in Places : BinWrite(b, s) \in Mild(h, n, v)
         /\ \A t \in Tables : CrcWrite(t) \in Mild(h, n, v)
<1>1. Sectors \subseteq Places
  BY DEF Places
<1>2. ASSUME NEW s \in Sectors, NEW r \in GoodSectors,
             r.status = "HEAD" => MildHead(h, n, v, r)
      PROVE  SectorWrite(s, r) \in Mild(h, n, v)
  <2>1. SectorWrite(s, r) \in Writes
    BY <1>1, WritesAre
  <2>2. SectorWrite(s, r).to = "sector" /\ SectorWrite(s, r).what = r
    BY DEF SectorWrite
  <2> QED
    BY <1>2, <2>1, <2>2 DEF Mild
<1>3. ASSUME NEW s \in Sectors, NEW r \in GoodSectors, r.name = n, r.crc = v
      PROVE  SectorWrite(s, r) \in Mild(h, n, v)
  BY <1>2, <1>3 DEF MildHead
<1>4. \A b \in Bins, s \in Places : BinWrite(b, s) \in Mild(h, n, v)
  <2> TAKE b \in Bins, s \in Places
  <2>1. BinWrite(b, s) \in Writes
    BY WritesAre
  <2>2. BinWrite(b, s).to = "bin"
    BY DEF BinWrite
  <2> QED
    BY <2>1, <2>2 DEF Mild
<1>5. \A t \in Tables : CrcWrite(t) \in Mild(h, n, v)
  <2> TAKE t \in Tables
  <2>1. CrcWrite(t) \in Writes
    BY WritesAre
  <2>2. CrcWrite(t).to = "crc"
    BY DEF CrcWrite
  <2> QED
    BY <2>1, <2>2 DEF Mild
<1> QED
  BY <1>2, <1>3, <1>4, <1>5 DEF Mild

\* Where records are in order, what no record uses is what is marked free.
LEMMA IdleIsFree ==
  ASSUME NEW p, NEW L, Laid(p, L)
  PROVE  \A s \in Sectors : s \in FreeBitmap(p) <=> Idle(L, s)
<1> TAKE s \in Sectors
<1>1. Idle(L, s) => s \in FreeBitmap(p)
  BY DEF Laid, FreeBitmap
<1>2. ASSUME ~ Idle(L, s) PROVE s \notin FreeBitmap(p)
  <2>1. PICK n \in Names : \E k \in 1 .. Long(L, n) : s = L.piece[n][k]
    BY <1>2 DEF Idle
  <2>2. PICK k \in 1 .. Long(L, n) : s = L.piece[n][k]
    BY <2>1
  <2>3. IsPiece(p.sector[s], n, L.val[n], k, Place(L.piece[n], k + 1, Long(L, n)))
    BY <2>2 DEF Laid, Placed
  <2> QED
    BY <2>3 DEF IsPiece, FreeBitmap
<1> QED
  BY <1>1, <1>2

\* What is like a good sector and filled with a piece holds the piece.
LEMMA LikeIsPiece ==
  ASSUME NEW r, NEW b, NEW n, NEW v, NEW k \in Nat \ {0}, NEW next, Like(r, b, v, k, next),
         b.good, k = 1 => b.status = "HEAD" /\ b.name = n
  PROVE  IsPiece(r, n, v, k, next)
<1>1. k > 1 \/ k = 1
  OBVIOUS
<1> QED
  BY <1>1 DEF Like, IsPiece

\* An operation that has ended stays as it is.
LEMMA RefillsStop ==
  ASSUME NEW m \in Writers, ~ Running(m), NEW v \in Values, NEW first \in Nat, NEW last \in Int
  PROVE  Refills(m, v, first, last) = m
<1>1. PICK h \in [Nat -> Writers] :
        /\ h[0] = m
        /\ \A k \in Nat : h[k + 1] = Refill(h[k], v, first + k)
        /\ \A l \in Int :
             Refills(m, v, first, l) = h[IF first <= l THEN l - first + 1 ELSE 0]
  BY RefillsRun
<1>2. \A i : Refill(m, v, i) = m
  BY DEF Refill, WriteSector, HasNext, Expect, ReadNext, ReadSectorAs, HasStatus, ReadSector
<1> DEFINE G == [k \in Nat |-> {m}]
<1>3. \A k \in Nat : h[k] \in G[k] => h[k + 1] \in G[k + 1]
  BY <1>1, <1>2
<1>4. \A k \in Nat : h[k] \in G[k]
  BY <1>1, <1>3, KeptAlong
<1>5. (IF first <= last THEN last - first + 1 ELSE 0) \in Nat
  OBVIOUS
<1> QED
  BY <1>1, <1>4, <1>5

\* Once an operation has failed the loop does nothing.
LEMMA LengthensStop ==
  ASSUME NEW m \in Writers, ~ Running(m), NEW v \in Values, NEW first \in Nat, NEW last \in Int
  PROVE  Lengthens(m, v, first, last) = m
<1>1. PICK h \in [Nat -> Writers] :
        /\ h[0] = m
        /\ \A k \in Nat : h[k + 1] = Lengthen(h[k], v, first + k)
        /\ \A l \in Int :
             Lengthens(m, v, first, l) = h[IF first <= l THEN l - first + 1 ELSE 0]
  BY LengthensRun
<1>2. \A i : Lengthen(m, v, i) = m
  BY DEF Lengthen
<1> DEFINE G == [k \in Nat |-> {m}]
<1>3. \A k \in Nat : h[k] \in G[k] => h[k + 1] \in G[k + 1]
  BY <1>1, <1>2
<1>4. \A k \in Nat : h[k] \in G[k]
  BY <1>1, <1>3, KeptAlong
<1>5. (IF first <= last THEN last - first + 1 ELSE 0) \in Nat
  OBVIOUS
<1> QED
  BY <1>1, <1>4, <1>5

\* n is to get v, on a partition laid by L and with all free sectors known.
Ready(O, m, L, n, v) ==
  /\ O = Mild(L.val, n, v) /\ n \in Names /\ v \in Values
  /\ m \in Machines(O) /\ Running(m)
  /\ Laid(m.p, L) /\ m.free = FreeBitmap(m.p)

\* It has got it, or there was no room for it and nothing has happened.
Obeyed(O, m, L, n, v) ==
  {r \in Machines(O) :
     \/ Running(r) /\ \E M \in Layouts : Laid(r.p, M) /\ M.val = [L.val EXCEPT ![n] = v]
     \/ /\ r.end = "false" /\ r.p = m.p /\ r.free = m.free /\ r.out = m.out
        /\ Size[v] > Long(L, n) + Cardinality(m.free)}

\* The record of n and where the operation stands.
AtHead(m, L, n) ==
  L.val[n] # Nothing /\ m.at = L.piece[n][1] /\ m.buf = m.p.sector[L.piece[n][1]]

\* The sectors f[1] ... f[c] of the record of n.
Strung(p, L, n, f, c) ==
  /\ f = L.piece[n] /\ c = Long(L, n)
  /\ f \in [Nat -> Sectors] /\ c \in Nat \ {0} /\ 1 \in 1 .. c
  /\ \A k \in 1 .. c : /\ f[k] \in Sectors /\ k \in Nat \ {0}
                       /\ p.sector[f[k]] \in GoodSectors
                       /\ p.sector[f[k]].good /\ ~ Idle(L, f[k])
                       /\ p.sector[f[k]].next = Place(f, k + 1, c)
                       /\ k > 1 => p.sector[f[k]].status = "BODY" /\ f[k] # 0
  /\ \A i, j \in 1 .. c : f[i] = f[j] => i = j
  /\ p.sector[f[1]].status = "HEAD" /\ p.sector[f[1]].name = n
  /\ p.sector[f[1]].len = c

\* The sectors of a record that is in order are linked from its head on.
LEMMA RecordIs ==
  ASSUME NEW p, NEW L, Laid(p, L), NEW n \in Names, L.val[n] # Nothing
  PROVE  Strung(p, L, n, L.piece[n], Long(L, n))
<1> DEFINE f == L.piece[n]
           c == Long(L, n)
<1>1. L \in Layouts /\ p \in GoodPartitions
  BY DEF Laid
<1>2. /\ f \in [Nat -> Sectors] /\ c \in Nat \ {0} /\ 1 \in 1 .. c
      /\ \A k \in 1 .. c : k \in Nat \ {0} /\ f[k] \in Sectors
  BY <1>1, LayoutFields
<1>3. \A k \in 1 .. c : IsPiece(p.sector[f[k]], n, L.val[n], k, Place(f, k + 1, c))
  BY DEF Laid, Placed
<1>4. \A k \in 1 .. c : k > 1 => k \in 2 .. c
  OBVIOUS
<1>5. \A k \in 1 .. c : k > 1 => f[k] # 0
  BY <1>4 DEF Laid, ZeroIsHead
<1>6. \A i, j \in 1 .. c : f[i] = f[j] => i = j
  BY DEF Laid, Apart
<1>7. \A k \in 1 .. c : p.sector[f[k]] \in GoodSectors /\ ~ Idle(L, f[k])
  BY <1>1, <1>2, PartitionFields DEF Idle
<1>8. /\ p.sector[f[1]].status = "HEAD" /\ p.sector[f[1]].name = n
      /\ p.sector[f[1]].len = c
  BY HeadsAre
<1> HIDE DEF f, c
<1>9. \A k \in 1 .. c : /\ p.sector[f[k]].good /\ p.sector[f[k]].next = Place(f, k + 1, c)
                        /\ k > 1 => p.sector[f[k]].status = "BODY"
  BY <1>3 DEF IsPiece
<1> QED
  BY <1>2, <1>5, <1>6, <1>7, <1>8, <1>9 DEF f, c, Strung

\* The sectors of a longer value: those of the record and then those of q.
Prolonged(f, old, q) == [k \in Nat |-> IF k < old THEN f[k] ELSE q[k]]

\* A record that becomes longer, or one there is no room for, is left in order.
LEMMA GrowDoes ==
  ASSUME NEW O, NEW m, NEW L, NEW n, NEW v, Ready(O, m, L, n, v), AtHead(m, L, n),
         Size[v] > m.buf.len
  PROVE  Grow(m, v) \in Obeyed(O, m, L, n, v)
<1> DEFINE f == L.piece[n]
           old == Long(L, n)
           N == Size[v]
           p == m.p
           room == Expect(m, N - old <= Cardinality(m.free))
           x == Refills(room, v, 0, old - 2)
           r == Lengthens(x, v, old - 1, N - 1)
<1>1. /\ n \in Names /\ v \in Values /\ m \in Machines(O) /\ Running(m)
      /\ Laid(p, L) /\ m.free = FreeBitmap(p) /\ O = Mild(L.val, n, v)
      /\ O \in SUBSET Writes
  BY MildHas DEF Ready
<1>2. Strung(p, L, n, f, old)
  BY <1>1, RecordIs DEF AtHead
<1> HIDE DEF f, old
<1>30. f = L.piece[n] /\ old = Long(L, n)
  BY <1>2 DEF Strung
<1>31. old \in Nat \ {0} /\ 1 \in 1 .. old
  BY <1>2 DEF Strung
<1>32. f \in [Nat -> Sectors]
  BY <1>2 DEF Strung
<1>33. \A k \in 1 .. old : f[k] \in Sectors /\ k \in Nat \ {0} /\ ~ Idle(L, f[k])
  BY <1>2 DEF Strung
<1>34. \A k \in 1 .. old : p.sector[f[k]] \in GoodSectors /\ p.sector[f[k]].good
  BY <1>2 DEF Strung
<1>35. \A k \in 1 .. old : p.sector[f[k]].next = Place(f, k + 1, old)
  BY <1>2 DEF Strung
<1>36. \A k \in 1 .. old : k > 1 => p.sector[f[k]].status = "BODY" /\ f[k] # 0
  BY <1>2 DEF Strung
<1>37. \A i, j \in 1 .. old : f[i] = f[j] => i = j
  BY <1>2 DEF Strung
<1>38. /\ p.sector[f[1]].status = "HEAD" /\ p.sector[f[1]].name = n
       /\ p.sector[f[1]].len = old
  BY <1>2 DEF Strung
<1>39. m.at = f[1] /\ m.buf = p.sector[f[1]] /\ L.val[n] # Nothing
  BY <1>30 DEF AtHead
<1>4. m.buf.len = old /\ N > old
  BY <1>38, <1>39
<1>5. N \in Nat /\ old - 1 \in Nat /\ old - 2 \in Int /\ m \in Writers
  BY <1>1, <1>31, <1>4, Constants, MachinesMore
<1>6. Grow(m, v) = r
  BY <1>31, <1>4 DEF Grow, Refills, Lengthens, Loop
<1> HIDE DEF N
<1>7. CASE ~ (N - old <= Cardinality(m.free))
  <2>1. room = [m EXCEPT !.end = "false"]
    BY <1>1, <1>7 DEF Expect
  <2>2. /\ room \in Machines(O) /\ room.end = "false" /\ room.p = m.p
        /\ room.free = m.free /\ room.out = m.out /\ ~ Running(room)
    BY <1>1, <2>1 DEF Machines, Stands, Running
  <2> HIDE DEF room
  <2>3. room \in Writers
    BY <1>1, <2>2, MachinesMore
  <2>4. x = room
    BY <1>1, <1>5, <2>2, <2>3, RefillsStop
  <2> HIDE DEF x
  <2>5. r = room
    <3>1. N - 1 \in Int
      BY <1>5
    <3> QED
      BY <1>1, <1>5, <2>2, <2>3, <2>4, <3>1, LengthensStop
  <2>6. N > old + Cardinality(m.free)
    <3>1. IsFiniteSet(m.free)
      BY <1>1, MachinesMore, Constants, FS_Subset
    <3>2. Cardinality(m.free) \in Nat
      BY <3>1, FS_CardinalityType
    <3> QED
      BY <1>31, <1>4, <1>5, <1>7, <3>2
  <2> QED
    BY <1>30, <1>6, <2>2, <2>5, <2>6 DEF Obeyed, N
<1>8. CASE N - old <= Cardinality(m.free)
  <2>1. room = m
    BY <1>8 DEF Expect
  <2>2. Row(O, m, f, v, old - 1)
    <3>1. (old - 1) + 1 = old /\ \A k \in 1 .. old - 1 : k \in 1 .. old /\ k + 1 \in 1 .. old
          /\ k + 1 > 1 /\ k + 1 <= old
      BY <1>31
    <3>2. \A k \in 2 .. old : k \in 1 .. old /\ k > 1
      OBVIOUS
    <3>3. \A k \in 1 .. old - 1 : p.sector[f[k]].next = f[k + 1] /\ f[k + 1] # 0
      BY <1>35, <1>36, <3>1 DEF Place
    <3>4. ASSUME NEW k \in 1 .. old - 1, NEW rec \in GoodSectors,
                 Like(rec, p.sector[f[k]], v, k, f[k + 1])
          PROVE  SectorWrite(f[k], rec) \in O
      <4>1. rec.status = "HEAD" => MildHead(L.val, n, v, rec)
        <5>1. CASE k = 1
          BY <1>1, <1>38, <3>4, <5>1 DEF Like, MildHead
        <5>2. CASE k # 1
          <6>1. k > 1
            BY <5>2
          <6> QED
            BY <3>4, <6>1 DEF Like
        <5> QED
          BY <5>1, <5>2
      <4>2. f[k] \in Sectors
        BY <1>33, <3>1
      <4> QED
        BY <1>1, <4>1, <4>2, MildHas
    <3> QED
      <4> DEFINE c == old - 1
      <4>1. c + 1 = old
        BY <1>31
      <4>2. \A k \in 1 .. c : m.p.sector[f[k]].next = f[k + 1] /\ f[k + 1] # 0
        BY <3>3
      <4>3. \A k \in 2 .. old : m.p.sector[f[k]].status = "BODY" /\ m.p.sector[f[k]].good
        BY <1>34, <1>36, <3>2
      <4>4. \A k \in 1 .. c : \A rec \in GoodSectors :
              Like(rec, m.p.sector[f[k]], v, k, f[k + 1]) => SectorWrite(f[k], rec) \in O
        BY <3>4
      <4> HIDE DEF c
      <4>5. Row(O, m, f, v, c)
        BY <1>1, <1>32, <1>37, <1>39, <4>1, <4>2, <4>3, <4>4 DEF Row
      <4> QED
        BY <4>5 DEF c
  <2>3. x \in Refilled(O, m, f, v, old - 1)
    <3>1. old - 2 = (old - 1) - 1
      BY <1>31
    <3>2. Refills(m, v, 0, (old - 1) - 1) \in Refilled(O, m, f, v, old - 1)
      BY <1>1, <1>5, <2>2, RefillsDo
    <3> QED
      BY <2>1, <3>1, <3>2
  <2> HIDE DEF x
  <2>4. /\ x \in Machines(O) /\ Running(x) /\ x.free = m.free /\ Alike(x.p, p)
        /\ x.at = f[old] /\ x.buf = p.sector[f[old]]
        /\ \A k \in 1 .. old - 1 : Like(x.p.sector[f[k]], p.sector[f[k]], v, k, f[k + 1])
        /\ \A s \in Sectors : (\A k \in 1 .. old - 1 : s # f[k]) => x.p.sector[s] = p.sector[s]
    <3>1. (old - 1) + 1 = old
      BY <1>31
    <3> QED
      BY <2>3, <3>1 DEF Refilled
  <2>5. old \in 1 .. old /\ f[old] \in Sectors /\ ~ Idle(L, f[old]) /\ p.sector[f[old]].good
        /\ p.sector[f[old]] \in GoodSectors
    BY <1>31, <1>33, <1>34
  <2>6. \A s \in x.free : s \in Sectors /\ Idle(L, s)
    BY <1>1, <2>4, MachinesMore, IdleIsFree
  <2>7. Rest(O, x, v, old - 1)
    <3>1. x.at \in Sectors /\ x.at \notin x.free
      BY <2>4, <2>5, <2>6
    <3>2. old - 1 < N /\ N - ((old - 1) + 1) <= Cardinality(x.free)
      BY <1>31, <1>4, <1>5, <1>8, <2>4
    <3>3. ASSUME NEW s \in x.free \cup {x.at}, NEW rec \in GoodSectors, NEW k \in Nat,
                 NEW next \in Places, Like(rec, x.buf, v, k, next)
          PROVE  SectorWrite(s, rec) \in O
      <4>1. rec.status = "HEAD" => MildHead(L.val, n, v, rec)
        <5>1. CASE old = 1
          BY <1>1, <1>38, <2>4, <3>3, <5>1 DEF Like, MildHead
        <5>2. CASE old # 1
          <6>1. p.sector[f[old]].status = "BODY"
            BY <1>31, <1>36, <2>5, <5>2
          <6> QED
            BY <2>4, <3>3, <6>1 DEF Like
        <5> QED
          BY <5>1, <5>2
      <4> QED
        BY <1>1, <2>6, <3>1, <4>1, MildHas
    <3> QED
      BY <2>4, <3>1, <3>2, <3>3 DEF Rest, N
  <2>8. r \in Extended(O, x, v, old - 1, N)
    BY <1>1, <1>5, <2>7, LengthensDo DEF N
  <2> HIDE DEF r
  <2>9. /\ r \in Machines(O) /\ Running(r) /\ Alike(r.p, x.p)
        /\ \E q \in [Nat -> Sectors] : Spread(r, x, v, old - 1, N, q)
    BY <2>8 DEF Extended
  <2>10. PICK q \in [Nat -> Sectors] : Spread(r, x, v, old - 1, N, q)
    BY <2>9
  <2>11. /\ (old - 1) + 1 = old /\ (old - 1) + 2 = old + 1 /\ Reached(v, N) = N
    BY <1>31, <1>4, <1>5 DEF Reached, N
  <2>12. /\ q[old] = f[old]
         /\ \A i, j \in old .. N : q[i] = q[j] => i = j
         /\ \A k \in old + 1 .. N : q[k] \in x.free
         /\ \A k \in old .. N : Like(r.p.sector[q[k]], x.buf, v, k, Place(q, k + 1, N))
         /\ \A s \in Sectors : (\A k \in old .. N : s # q[k]) => r.p.sector[s] = x.p.sector[s]
    <3> DEFINE a == old - 1
    <3>1. Spread(r, x, v, a, N, q) /\ a + 1 = old /\ a + 2 = old + 1
      BY <2>10, <2>11
    <3> HIDE DEF a
    <3>2. /\ q[old] = x.at
          /\ \A i, j \in old .. N : q[i] = q[j] => i = j
          /\ \A k \in old + 1 .. N : q[k] \in x.free
      BY <2>11, <3>1 DEF Spread
    <3>3. \A k \in old .. N : Like(r.p.sector[q[k]], x.buf, v, k, Place(q, k + 1, N))
      BY <3>1 DEF Spread, N
    <3>4. \A s \in Sectors : (\A k \in old .. N : s # q[k]) => r.p.sector[s] = x.p.sector[s]
      BY <3>1 DEF Spread
    <3> QED
      BY <2>4, <3>2, <3>3, <3>4
  <2> DEFINE g == Prolonged(f, old, q)
  <2>13. /\ g \in [Nat -> Sectors]
         /\ \A k \in Nat : g[k] = IF k < old THEN f[k] ELSE q[k]
         /\ \A k \in 1 .. old : g[k] = f[k]
    <3>1. \A k \in Nat : IF k < old THEN f[k] \in Sectors ELSE q[k] \in Sectors
      BY <1>32, <2>10
    <3>2. g = [k \in Nat |-> IF k < old THEN f[k] ELSE q[k]]
      BY DEF Prolonged
    <3>3. g \in [Nat -> Sectors] /\ \A k \in Nat : g[k] = IF k < old THEN f[k] ELSE q[k]
      BY <3>1, <3>2
    <3> HIDE DEF g
    <3>4. ASSUME NEW k \in 1 .. old PROVE g[k] = f[k]
      <4>1. k \in Nat /\ (k < old \/ k = old)
        BY <1>31
      <4> QED
        BY <2>12, <3>3, <4>1
    <3> QED
      BY <3>3, <3>4
  <2> HIDE DEF g
  <2>14. \A k \in old + 1 .. N : k \in Nat /\ g[k] = q[k] /\ q[k] \in x.free /\ Idle(L, g[k])
           /\ g[k] # 0
    <3> TAKE k \in old + 1 .. N
    <3>1. k \in Nat /\ ~ (k < old)
      BY <1>31
    <3>2. g[k] = q[k] /\ q[k] \in x.free /\ Idle(L, g[k])
      BY <2>6, <2>12, <2>13, <3>1
    <3>3. ~ Idle(L, 0)
      BY <1>1, <1>39 DEF Laid, ZeroIsHead
    <3> QED
      BY <3>1, <3>2, <3>3
  <2>15. \A i, j \in 1 .. N : g[i] = g[j] => i = j
    <3> TAKE i, j \in 1 .. N
    <3>1. /\ (i <= old => i \in 1 .. old) /\ (~ i <= old => i \in old + 1 .. N /\ i \in old .. N)
          /\ (j <= old => j \in 1 .. old) /\ (~ j <= old => j \in old + 1 .. N /\ j \in old .. N)
      BY <1>31, <1>4, <1>5
    <3>2. CASE i <= old /\ j <= old
      BY <1>37, <2>13, <3>1, <3>2
    <3>3. CASE i <= old /\ ~ j <= old
      BY <1>33, <2>13, <2>14, <3>1, <3>3
    <3>4. CASE ~ i <= old /\ j <= old
      BY <1>33, <2>13, <2>14, <3>1, <3>4
    <3>5. CASE ~ i <= old /\ ~ j <= old
      BY <2>12, <2>14, <3>1, <3>5
    <3> QED
      BY <3>2, <3>3, <3>4, <3>5
  <2>16. \A k \in 1 .. N : \A y \in Names : \A i \in 1 .. Long(L, y) :
           g[k] = L.piece[y][i] => y = n
    <3> TAKE k \in 1 .. N
    <3> TAKE y \in Names
    <3> TAKE i \in 1 .. Long(L, y)
    <3>1. (k <= old => k \in 1 .. old) /\ (~ k <= old => k \in old + 1 .. N)
      BY <1>31, <1>4, <1>5
    <3>2. CASE k <= old
      <4>1. g[k] = L.piece[n][k] /\ k \in 1 .. Long(L, n)
        BY <1>30, <2>13, <3>1, <3>2
      <4>2. Apart(L)
        BY <1>1 DEF Laid
      <4> QED
        BY <1>1, <4>1, <4>2 DEF Apart
    <3>3. CASE ~ k <= old
      BY <2>14, <3>1, <3>3 DEF Idle
    <3> QED
      BY <3>2, <3>3
  \* The sectors before the last one the record had.
  <2>17. \A k \in 1 .. old - 1 : r.p.sector[f[k]] = x.p.sector[f[k]]
    <3> TAKE k \in 1 .. old - 1
    <3>1. k \in 1 .. old /\ f[k] \in Sectors /\ ~ Idle(L, f[k]) /\ k # old
      BY <1>31, <1>33
    <3>2. \A i \in old .. N : f[k] # q[i]
      <4> TAKE i \in old .. N
      <4>1. CASE i = old
        BY <1>37, <2>5, <2>12, <3>1, <4>1
      <4>2. CASE i # old
        <5>1. i \in old + 1 .. N
          BY <1>31, <4>2
        <5> QED
          BY <2>14, <3>1, <5>1
      <4> QED
        BY <4>1, <4>2
    <3> QED
      BY <2>12, <3>1, <3>2
  <2>18. \A k \in 1 .. N : IsPiece(r.p.sector[g[k]], n, v, k, Place(g, k + 1, N))
    <3> TAKE k \in 1 .. N
    <3>0. k \in Nat \ {0} /\ k \in Nat
      OBVIOUS
    <3>1. CASE k < old
      <4>1. k \in 1 .. old - 1 /\ k \in 1 .. old /\ k + 1 \in 1 .. old /\ k + 1 <= N
        BY <1>31, <1>4, <1>5, <3>1
      <4>2. g[k] = f[k] /\ Place(g, k + 1, N) = f[k + 1]
        BY <2>13, <4>1 DEF Place
      <4>3. Like(r.p.sector[g[k]], p.sector[f[k]], v, k, Place(g, k + 1, N))
        BY <2>4, <2>17, <4>1, <4>2
      <4>4. /\ p.sector[f[k]].good
            /\ k = 1 => p.sector[f[k]].status = "HEAD" /\ p.sector[f[k]].name = n
        BY <1>34, <1>38, <4>1
      <4> QED
        BY <3>0, <4>3, <4>4, LikeIsPiece
    <3>2. CASE ~ k < old
      <4>1. k \in old .. N /\ k + 1 \in Nat /\ ~ (k + 1 < old)
        BY <1>31, <3>2
      <4>2. g[k] = q[k] /\ Place(g, k + 1, N) = Place(q, k + 1, N)
        BY <2>13, <3>0, <3>2, <4>1 DEF Place
      <4>3. Like(r.p.sector[g[k]], p.sector[f[old]], v, k, Place(g, k + 1, N))
        BY <2>4, <2>12, <4>1, <4>2
      <4>4. k = 1 => old = 1
        BY <1>31, <3>2
      <4>5. /\ p.sector[f[old]].good
            /\ k = 1 => p.sector[f[old]].status = "HEAD" /\ p.sector[f[old]].name = n
        BY <1>34, <1>38, <2>5, <4>4
      <4> QED
        BY <3>0, <4>3, <4>5, LikeIsPiece
    <3> QED
      BY <3>1, <3>2
  <2>19. /\ g[1] = f[1]
         /\ r.p.sector[g[1]].nexthash = p.sector[g[1]].nexthash
         /\ r.p.sector[g[1]].prevhash = p.sector[g[1]].prevhash
    <3>1. g[1] = f[1]
      BY <1>31, <2>13
    <3>2. CASE old = 1
      <4>1. 1 \in old .. N
        BY <1>4, <1>5, <3>2
      <4> QED
        BY <2>4, <2>12, <3>1, <3>2, <4>1 DEF Like
    <3>3. CASE old # 1
      <4>1. 1 \in 1 .. old - 1
        BY <1>31, <3>3
      <4> QED
        BY <2>4, <2>17, <3>1, <4>1 DEF Like
    <3> QED
      BY <3>1, <3>2, <3>3
  <2>20. ASSUME NEW s \in Sectors, \A k \in 1 .. N : s # g[k]
         PROVE  r.p.sector[s] = p.sector[s] /\ \A k \in 1 .. Long(L, n) : s # L.piece[n][k]
    <3>1. \A k \in 1 .. old : k \in 1 .. N /\ s # f[k]
      BY <1>31, <1>4, <1>5, <2>13, <2>20
    <3>2. \A k \in old .. N : s # q[k]
      <4> TAKE k \in old .. N
      <4>1. k \in 1 .. N /\ k \in Nat /\ ~ (k < old)
        BY <1>31
      <4> QED
        BY <2>13, <2>20, <4>1
    <3>3. \A k \in 1 .. old - 1 : s # f[k]
      BY <1>31, <3>1
    <3> QED
      BY <1>30, <1>31, <2>4, <2>12, <3>1, <3>2, <3>3
  <2>21. Alike(r.p, p) /\ r.p \in GoodPartitions
    BY <1>1, <2>4, <2>9, AlikeOn, MachinesMore
  <2>22. Stored(r.p, L, n, v, g)
    <3>1. r.p.head /\ r.p.crc = r.p.table
      BY <1>1, <2>21 DEF Alike, Laid
    <3>2. \A k \in 2 .. N : g[k] # 0
      <4> TAKE k \in 2 .. N
      <4>1. (k <= old => k \in 1 .. old /\ k > 1) /\ (~ k <= old => k \in old + 1 .. N)
        BY <1>31, <1>4, <1>5
      <4> QED
        BY <1>36, <2>13, <2>14, <4>1
    <3> QED
      BY <1>1, <2>13, <2>15, <2>16, <2>18, <2>21, <3>1, <3>2 DEF Stored, N
  <2>23. Rewritten(p, r.p, L, n, v, g)
    BY <1>30, <1>39, <1>4, <2>19, <2>20, <2>21, <2>22 DEF Rewritten, Alike, N
  <2>24. Laid(r.p, Revalued(L, n, v, g))
    BY <1>1, <2>23, RewrittenLaid
  <2>25. Amends(Revalued(L, n, v, g), L, n, v, g)
    BY <1>1, <2>13, RevaluedIs DEF Laid
  <2> QED
    BY <1>6, <2>9, <2>24, <2>25 DEF Obeyed, Amends
<1> QED
  BY <1>7, <1>8

\* The sectors of a record from the second one on.
Rear(f) == [k \in Nat |-> f[k + 1]]

\* The last sector of a record is closed with its piece.
LEMMA ClosedLike ==
  ASSUME NEW r \in GoodSectors, NEW v \in Values, Size[v] > 1 => r.status = "BODY"
  PROVE  LET rec == [r EXCEPT !.len = Size[v], !.crc = v, !.next = None, !.data = <<v, Size[v]>>]
         IN  Like(rec, r, v, Size[v], None)
<1> DEFINE rec == [r EXCEPT !.len = Size[v], !.crc = v, !.next = None, !.data = <<v, Size[v]>>]
<1>1. Size[v] \in Nat \ {0} /\ r \in SectorTypes /\ <<v, Size[v]>> \in Values \X (Nat \ {0})
  BY Constants, SectorFields
<1>2. rec \in SectorTypes
  <2>1. [r EXCEPT !.len = Size[v], !.crc = v] \in SectorTypes
    BY <1>1 DEF SectorTypes
  <2>2. [[r EXCEPT !.len = Size[v], !.crc = v]
           EXCEPT !.next = None, !.data = <<v, Size[v]>>] \in SectorTypes
    BY <1>1, <2>1 DEF SectorTypes
  <2> QED
    BY <2>2
<1>3. rec.len = Size[v] /\ rec.crc = v
  BY <1>1 DEF SectorTypes
<1>4. rec.next = None /\ rec.data = <<v, Size[v]>>
  BY <1>1 DEF SectorTypes
<1>5. rec.name = r.name /\ rec.nexthash = r.nexthash /\ rec.prevhash = r.prevhash
  BY <1>1 DEF SectorTypes
<1>6. rec.status = r.status
  BY <1>1 DEF SectorTypes
<1>7. r.good => rec.good
  BY <1>1 DEF SectorTypes
<1> HIDE DEF rec
<1>8. rec \in GoodSectors
  BY <1>1, <1>2, <1>3 DEF GoodSectors
<1>9. Like(rec, r, v, Size[v], None)
  BY <1>3, <1>4, <1>5, <1>6, <1>7, <1>8 DEF Like
<1> QED
  BY <1>9 DEF rec

\* A record that becomes shorter, or keeps its length, is left in order.
LEMMA ShrinkDoes ==
  ASSUME NEW O, NEW m, NEW L, NEW n, NEW v, Ready(O, m, L, n, v), AtHead(m, L, n),
         Size[v] <= m.buf.len
  PROVE  Shrink(m, v) \in Obeyed(O, m, L, n, v)
<1> DEFINE f == L.piece[n]
           old == Long(L, n)
           N == Size[v]
           p == m.p
           walked == ReadNexts(m, 1, N - 1)
           past == Past(walked)
           cut == Releases(past, N, old - 1)
           head == ReadSectorAs(cut, m.at, "HEAD")
           x == Refills(head, v, 0, N - 2)
           rec == [x.buf EXCEPT !.len = N, !.crc = v, !.next = None, !.data = <<v, N>>]
           r == WriteSector(x, x.at, rec)
<1>1. /\ n \in Names /\ v \in Values /\ m \in Machines(O) /\ Running(m)
      /\ Laid(p, L) /\ m.free = FreeBitmap(p) /\ O = Mild(L.val, n, v)
      /\ O \in SUBSET Writes
  BY MildHas DEF Ready
<1>2. Strung(p, L, n, f, old)
  BY <1>1, RecordIs DEF AtHead
<1> HIDE DEF f, old
<1>30. f = L.piece[n] /\ old = Long(L, n)
  BY <1>2 DEF Strung
<1>31. old \in Nat \ {0} /\ 1 \in 1 .. old
  BY <1>2 DEF Strung
<1>32. f \in [Nat -> Sectors]
  BY <1>2 DEF Strung
<1>33. \A k \in 1 .. old : f[k] \in Sectors /\ k \in Nat \ {0} /\ ~ Idle(L, f[k])
  BY <1>2 DEF Strung
<1>34. \A k \in 1 .. old : p.sector[f[k]] \in GoodSectors /\ p.sector[f[k]].good
  BY <1>2 DEF Strung
<1>35. \A k \in 1 .. old : p.sector[f[k]].next = Place(f, k + 1, old)
  BY <1>2 DEF Strung
<1>36. \A k \in 1 .. old : k > 1 => p.sector[f[k]].status = "BODY" /\ f[k] # 0
  BY <1>2 DEF Strung
<1>37. \A i, j \in 1 .. old : f[i] = f[j] => i = j
  BY <1>2 DEF Strung
<1>38. /\ p.sector[f[1]].status = "HEAD" /\ p.sector[f[1]].name = n
       /\ p.sector[f[1]].len = old
  BY <1>2 DEF Strung
<1>39. m.at = f[1] /\ m.buf = p.sector[f[1]] /\ L.val[n] # Nothing
  BY <1>30 DEF AtHead
<1>4. m.buf.len = old /\ N <= old
  BY <1>38, <1>39
<1>5. N \in Nat \ {0} /\ N - 1 \in Nat /\ (N - 1) + 1 = N /\ N \in 1 .. old
  BY <1>1, <1>31, <1>4, Constants
<1>6. Shrink(m, v) = r
  BY <1>4 DEF Shrink, Close, ReadNexts, Releases, Refills, Loop
<1> DEFINE c == N - 1
<1>7. c \in Nat /\ c + 1 = N /\ c - 1 = N - 2
  BY <1>5
<1>8. walked = ReadNexts(m, 1, c) /\ x = Refills(head, v, 0, c - 1)
  BY <1>7
<1> HIDE DEF c
<1>9. \A k \in 1 .. c : /\ k \in 1 .. old /\ k + 1 \in 1 .. old /\ k + 1 > 1 /\ k \in 1 .. N
                        /\ p.sector[f[k]].next = f[k + 1] /\ f[k + 1] # 0
  <2> TAKE k \in 1 .. c
  <2>1. k \in 1 .. old /\ k + 1 \in 1 .. old /\ k + 1 > 1 /\ k + 1 <= old /\ k \in 1 .. N
    BY <1>31, <1>4, <1>5, <1>7
  <2> QED
    BY <1>35, <1>36, <2>1 DEF Place
<1>10. \A k \in 2 .. c + 1 : p.sector[f[k]].status = "BODY" /\ p.sector[f[k]].good
  <2> TAKE k \in 2 .. c + 1
  <2>1. k \in 1 .. old /\ k > 1
    BY <1>31, <1>4, <1>5, <1>7
  <2> QED
    BY <1>34, <1>36, <2>1
\* To the last sector it keeps.
<1>11. walked \in ReadAlong(O, m, f, c)
  BY <1>1, <1>32, <1>39, <1>7, <1>8, <1>9, <1>10, ReadNextsDo
<1> HIDE DEF walked
<1>12. /\ walked \in Machines(O) /\ Running(walked) /\ walked.p = p
       /\ walked.buf.next = Place(f, N + 1, old)
  BY <1>11, <1>35, <1>5, <1>7 DEF ReadAlong
<1>13. past \in Machines(O) /\ Running(past) /\ past.p = p /\ past.at = Place(f, N + 1, old)
  <2>1. walked.buf.next \in Places
    BY <1>12, MachineFields, SectorFields
  <2>2. past = [walked EXCEPT !.at = walked.buf.next]
    BY DEF Past
  <2> QED
    BY <1>12, <2>1, <2>2 DEF Machines, Running
<1> HIDE DEF past
\* The others become free.
<1> DEFINE e == Rear(f)
           d == old - 1
<1>14. e \in [Nat -> Sectors] /\ d \in Nat /\ d + 1 = old /\ N <= d + 1
       /\ \A k \in Nat : e[k] = f[k + 1]
  BY <1>31, <1>32, <1>4 DEF Rear
<1>15. cut = Releases(past, N, d)
  OBVIOUS
<1> HIDE DEF e, d
<1>16. \A k \in N .. d : /\ k \in Nat /\ e[k] = f[k + 1] /\ k + 1 \in 1 .. old /\ k + 1 > 1
                         /\ k + 1 > N
  <2> TAKE k \in N .. d
  <2>1. k \in Nat /\ k + 1 \in 1 .. old /\ k + 1 > 1 /\ k + 1 > N
    BY <1>14, <1>5
  <2> QED
    BY <1>14, <2>1
<1>17. \A k \in Nat : Place(e, k, d) = Place(f, k + 1, old)
  <2> TAKE k \in Nat
  <2>1. k <= d <=> k + 1 <= old
    BY <1>14, <1>31
  <2> QED
    BY <1>14, <2>1 DEF Place
<1>18. Surpluses(O, past, e, N, d)
  <2>1. past.at = Place(e, N, d)
    BY <1>13, <1>17, <1>5
  <2>2. \A i, j \in N .. d : e[i] = e[j] => i = j
    <3> TAKE i, j \in N .. d
    <3>1. i \in Nat /\ j \in Nat /\ (i + 1 = j + 1 => i = j)
      BY <1>16
    <3> QED
      BY <1>16, <1>37, <3>1
  <2>3. ASSUME NEW k \in N .. d
        PROVE  /\ past.p.sector[e[k]].status = "BODY" /\ past.p.sector[e[k]].good
               /\ past.p.sector[e[k]].next = Place(e, k + 1, d)
               /\ SectorWrite(e[k], Emptied(past.p.sector[e[k]])) \in O
    <3>1. /\ k \in Nat /\ k + 1 \in Nat /\ k + 1 \in 1 .. old /\ k + 1 > 1 /\ e[k] = f[k + 1]
      BY <1>16
    <3>2. past.p.sector[e[k]].status = "BODY" /\ past.p.sector[e[k]].good
      BY <1>13, <1>34, <1>36, <3>1
    <3>3. past.p.sector[e[k]].next = Place(e, k + 1, d)
      BY <1>13, <1>17, <1>35, <3>1
    <3>4. past.p.sector[e[k]] \in GoodSectors /\ e[k] \in Sectors
      BY <1>13, <1>33, <1>34, <3>1
    <3> DEFINE b == Emptied(past.p.sector[e[k]])
    <3>5. b \in GoodSectors /\ b.status = "FREE"
      BY <3>4, EmptiedIs
    <3> HIDE DEF b
    <3>6. SectorWrite(e[k], b) \in O
      <4>1. b.status # "HEAD"
        BY <3>5
      <4> QED
        BY <1>1, <3>4, <3>5, <4>1, MildHas
    <3> QED
      BY <3>2, <3>3, <3>6 DEF b
  <2> QED
    BY <1>13, <1>14, <2>1, <2>2, <2>3 DEF Surpluses
<1>19. cut \in Cut(O, past, e, N, d, d + 1 - N)
  BY <1>1, <1>14, <1>15, <1>18, <1>5, ReleasesDo
<1> HIDE DEF cut
<1>20. /\ cut \in Machines(O) /\ Running(cut) /\ Alike(cut.p, p)
       /\ \A k \in N .. d : cut.p.sector[e[k]].status = "FREE" /\ cut.p.sector[e[k]].good
       /\ \A s \in Sectors : (\A k \in N .. d : s # e[k]) => cut.p.sector[s] = p.sector[s]
  <2>1. N + (d + 1 - N) - 1 = d
    BY <1>14, <1>5
  <2> QED
    BY <1>13, <1>19, <2>1 DEF Cut
<1>21. \A k \in 1 .. N : k \in 1 .. old /\ cut.p.sector[f[k]] = p.sector[f[k]]
  <2> TAKE k \in 1 .. N
  <2>1. k \in 1 .. old
    BY <1>31, <1>4, <1>5
  <2>2. \A i \in N .. d : f[k] # e[i]
    <3> TAKE i \in N .. d
    <3>1. e[i] = f[i + 1] /\ i + 1 \in 1 .. old /\ i + 1 # k
      BY <1>16, <1>5
    <3> QED
      BY <1>37, <2>1, <3>1
  <2> QED
    BY <1>20, <1>33, <2>1, <2>2
\* The head is read again and what is kept is filled.
<1>22. /\ head \in Machines(O) /\ Running(head) /\ head.p = cut.p
       /\ head.at = f[1] /\ head.buf = cut.p.sector[f[1]]
  <2>1. 1 \in 1 .. N
    BY <1>5
  <2>2. /\ f[1] \in Sectors /\ cut.p.sector[f[1]].good
        /\ cut.p.sector[f[1]].status = "HEAD"
    BY <1>21, <1>31, <1>33, <1>34, <1>38, <2>1
  <2> QED
    BY <1>20, <1>39, <2>2, ReadDoes
<1> HIDE DEF head
<1>23. Row(O, head, f, v, c)
  <2>1. \A i, j \in 1 .. c + 1 : f[i] = f[j] => i = j
    BY <1>21, <1>37, <1>7
  <2>2. \A k \in 1 .. c : head.p.sector[f[k]] = p.sector[f[k]]
    BY <1>21, <1>22, <1>9
  <2>3. \A k \in 2 .. c + 1 : head.p.sector[f[k]] = p.sector[f[k]]
    <3> TAKE k \in 2 .. c + 1
    <3>1. k \in 1 .. N
      BY <1>5, <1>7
    <3> QED
      BY <1>21, <1>22, <3>1
  <2>4. \A k \in 1 .. c : \A q \in GoodSectors :
          Like(q, head.p.sector[f[k]], v, k, f[k + 1]) => SectorWrite(f[k], q) \in O
    <3> TAKE k \in 1 .. c
    <3> TAKE q \in GoodSectors
    <3> HAVE Like(q, head.p.sector[f[k]], v, k, f[k + 1])
    <3>1. Like(q, p.sector[f[k]], v, k, f[k + 1])
      BY <2>2
    <3>2. q.status = "HEAD" => MildHead(L.val, n, v, q)
      <4>1. CASE k = 1
        BY <1>1, <1>38, <3>1, <4>1 DEF Like, MildHead
      <4>2. CASE k # 1
        <5>1. k > 1
          BY <4>2
        <5> QED
          BY <3>1, <5>1 DEF Like
      <4> QED
        BY <4>1, <4>2
    <3>3. f[k] \in Sectors
      BY <1>33, <1>9
    <3> QED
      BY <1>1, <3>2, <3>3, MildHas
  <2>5. \A k \in 1 .. c : head.p.sector[f[k]].next = f[k + 1] /\ f[k + 1] # 0
    BY <1>9, <2>2
  <2>6. \A k \in 2 .. c + 1 :
          head.p.sector[f[k]].status = "BODY" /\ head.p.sector[f[k]].good
    BY <1>10, <2>3
  <2> QED
    BY <1>22, <1>32, <2>1, <2>4, <2>5, <2>6 DEF Row
<1>24. x \in Refilled(O, head, f, v, c)
  BY <1>1, <1>23, <1>7, <1>8, RefillsDo
<1> HIDE DEF x
<1>25. /\ x \in Machines(O) /\ Running(x) /\ Alike(x.p, cut.p)
       /\ x.at = f[N] /\ x.buf = cut.p.sector[f[N]]
       /\ \A k \in 1 .. c : Like(x.p.sector[f[k]], cut.p.sector[f[k]], v, k, f[k + 1])
       /\ \A s \in Sectors : (\A k \in 1 .. c : s # f[k]) => x.p.sector[s] = cut.p.sector[s]
  BY <1>22, <1>24, <1>7 DEF Refilled
<1>26. x.buf = p.sector[f[N]] /\ x.buf \in GoodSectors /\ f[N] \in Sectors
  <2>1. N \in 1 .. N
    BY <1>5
  <2> QED
    BY <1>21, <1>25, <1>33, <1>34, <1>5, <2>1
<1>27. Like(rec, x.buf, v, N, None)
  <2>1. N > 1 => x.buf.status = "BODY"
    BY <1>26, <1>36, <1>5
  <2> QED
    BY <1>1, <1>26, <2>1, ClosedLike
<1> HIDE DEF rec
<1>28. rec \in GoodSectors /\ SectorWrite(f[N], rec) \in O
  <2>1. rec \in GoodSectors
    BY <1>27 DEF Like
  <2>2. rec.status = "HEAD" => MildHead(L.val, n, v, rec)
    <3>1. CASE N = 1
      BY <1>1, <1>26, <1>27, <1>38, <3>1 DEF Like, MildHead
    <3>2. CASE N # 1
      <4>1. N > 1
        BY <1>5, <3>2
      <4> QED
        BY <1>27, <4>1 DEF Like
    <3> QED
      BY <3>1, <3>2
  <2> QED
    BY <1>1, <1>26, <2>1, <2>2, MildHas
<1>29. /\ r \in Machines(O) /\ Running(r) /\ Alike(r.p, x.p) /\ r.p.sector[f[N]] = rec
       /\ \A s \in Sectors : s # f[N] => r.p.sector[s] = x.p.sector[s]
  BY <1>1, <1>25, <1>26, <1>28, WriteDoes
<1> HIDE DEF r
\* What is where now.
<1>40. \A k \in 1 .. c : Like(r.p.sector[f[k]], p.sector[f[k]], v, k, f[k + 1])
  <2> TAKE k \in 1 .. c
  <2>1. k \in 1 .. N /\ k # N /\ N \in 1 .. old /\ k \in 1 .. old
    BY <1>5, <1>7, <1>9
  <2>2. f[k] # f[N] /\ f[k] \in Sectors
    BY <1>33, <1>37, <2>1
  <2> QED
    BY <1>21, <1>25, <1>29, <2>1, <2>2
<1>41. \A k \in 1 .. N : IsPiece(r.p.sector[f[k]], n, v, k, Place(f, k + 1, N))
  <2> TAKE k \in 1 .. N
  <2>1. k \in Nat \ {0} /\ k \in 1 .. old /\ (k = N \/ k \in 1 .. c)
    BY <1>21, <1>5, <1>7
  <2>2. Like(r.p.sector[f[k]], p.sector[f[k]], v, k, Place(f, k + 1, N))
    <3>1. CASE k = N
      <4>1. Place(f, k + 1, N) = None
        BY <1>5, <3>1 DEF Place
      <4> QED
        BY <1>26, <1>27, <1>29, <3>1, <4>1
    <3>2. CASE k # N
      <4>1. k \in 1 .. c /\ k + 1 <= N
        BY <1>5, <1>7, <2>1, <3>2
      <4> QED
        BY <1>40, <4>1 DEF Place
    <3> QED
      BY <3>1, <3>2
  <2>3. p.sector[f[k]].good /\ (k = 1 => p.sector[f[k]].status = "HEAD" /\ p.sector[f[k]].name = n)
    BY <1>34, <1>38, <2>1
  <2> QED
    BY <2>1, <2>2, <2>3, LikeIsPiece
<1>42. /\ r.p.sector[f[1]].nexthash = p.sector[f[1]].nexthash
       /\ r.p.sector[f[1]].prevhash = p.sector[f[1]].prevhash
  <2>1. CASE N = 1
    BY <1>26, <1>27, <1>29, <2>1 DEF Like
  <2>2. CASE N # 1
    <3>1. 1 \in 1 .. c
      BY <1>5, <1>7, <2>2
    <3> QED
      BY <1>40, <3>1 DEF Like
  <2> QED
    BY <2>1, <2>2
<1>43. ASSUME NEW s \in Sectors, \A k \in 1 .. N : s # f[k]
       PROVE  r.p.sector[s] = cut.p.sector[s]
  <2>1. N \in 1 .. N /\ \A k \in 1 .. c : k \in 1 .. N
    BY <1>5, <1>9
  <2> QED
    BY <1>25, <1>29, <1>43, <2>1
<1>44. ASSUME NEW s \in Sectors, \A k \in 1 .. N : s # f[k]
       PROVE  IF \E k \in 1 .. Long(L, n) : s = L.piece[n][k]
              THEN r.p.sector[s].good /\ r.p.sector[s].status = "FREE"
              ELSE r.p.sector[s] = p.sector[s]
  <2>1. r.p.sector[s] = cut.p.sector[s]
    BY <1>43, <1>44
  <2>2. CASE \E k \in 1 .. old : s = f[k]
    <3>1. PICK k \in 1 .. old : s = f[k]
      BY <2>2
    <3>2. k \notin 1 .. N
      BY <1>44, <3>1
    <3>3. k - 1 \in N .. d /\ k - 1 \in Nat /\ (k - 1) + 1 = k
      BY <1>14, <1>5, <3>2
    <3>4. e[k - 1] = s
      BY <1>14, <3>1, <3>3
    <3> QED
      BY <1>20, <1>30, <2>1, <2>2, <3>3, <3>4
  <2>3. CASE ~ \E k \in 1 .. old : s = f[k]
    <3>1. \A k \in N .. d : s # e[k]
      BY <1>16, <2>3
    <3> QED
      BY <1>20, <1>30, <2>1, <2>3, <3>1
  <2> QED
    BY <2>2, <2>3
<1>45. Alike(r.p, p) /\ r.p \in GoodPartitions
  BY <1>1, <1>20, <1>25, <1>29, AlikeOn, MachinesMore
<1>46. Stored(r.p, L, n, v, f)
  <2>1. r.p.head /\ r.p.crc = r.p.table
    BY <1>1, <1>45 DEF Alike, Laid
  <2>2. \A i, j \in 1 .. N : f[i] = f[j] => i = j
    BY <1>21, <1>37
  <2>3. \A k \in 2 .. N : f[k] # 0
    <3> TAKE k \in 2 .. N
    <3>1. k \in 1 .. old /\ k > 1
      BY <1>31, <1>4, <1>5
    <3> QED
      BY <1>36, <3>1
  <2>4. \A k \in 1 .. N : \A y \in Names : \A i \in 1 .. Long(L, y) :
          f[k] = L.piece[y][i] => y = n
    <3>1. Apart(L)
      BY <1>1 DEF Laid
    <3>2. \A k \in 1 .. N : k \in 1 .. Long(L, n)
      BY <1>21, <1>30
    <3> QED
      BY <1>1, <1>30, <3>1, <3>2 DEF Apart
  <2> QED
    BY <1>1, <1>32, <1>41, <1>45, <2>1, <2>2, <2>3, <2>4 DEF Stored
<1>47. Rewritten(p, r.p, L, n, v, f)
  BY <1>30, <1>39, <1>42, <1>44, <1>45, <1>46 DEF Rewritten, Alike
<1>48. Laid(r.p, Revalued(L, n, v, f))
  BY <1>1, <1>47, RewrittenLaid
<1>49. Amends(Revalued(L, n, v, f), L, n, v, f)
  BY <1>1, <1>32, RevaluedIs DEF Laid
<1> QED
  BY <1>29, <1>48, <1>49, <1>6 DEF Obeyed, Amends

\* The free sector taken is the first one.
LEMMA NextFreeZero ==
  ASSUME NEW f \in SUBSET Sectors, 0 \in f
  PROVE  NextFree(f) = 0
<1>1. \A s \in f : s \in Nat
  BY Constants
<1>2. \E s \in f : \A t \in f : s <= t
  BY <1>1
<1>3. NextFree(f) \in f /\ \A t \in f : NextFree(f) <= t
  <2>1. f # {}
    OBVIOUS
  <2> QED
    BY <1>2, <2>1 DEF NextFree
<1>4. NextFree(f) <= 0 /\ NextFree(f) \in Nat
  BY <1>1, <1>3
<1> QED
  BY <1>4

\* A write that is put out and carried out.
LEMMA PutDoes ==
  ASSUME NEW O \in SUBSET Writes, NEW m \in Machines(O), NEW w \in O
  PROVE  LET r == Put(m, w)
         IN  /\ r \in Machines(O) /\ r.p = Written(m.p, w) /\ r.free = m.free
             /\ r.at = m.at /\ r.buf = m.buf /\ r.end = m.end
<1> DEFINE q == Written(m.p, w)
<1>1. m.p \in GoodPartitions /\ m.out \in Seq(O) /\ w \in Writes
  BY MachinesMore
<1>2. q \in GoodPartitions /\ Append(m.out, w) \in Seq(O)
  BY <1>1, WrittenType
<1>3. Put(m, w) = [m EXCEPT !.p = q, !.out = Append(m.out, w)]
  BY DEF Put
<1> HIDE DEF q
<1> QED
  BY <1>2, <1>3 DEF Machines, q

\* A new record of n has been written, its head in sector s.
Composed(O, m, s, n, v, next, prev) ==
  {r \in Machines(O) :
     /\ Running(r) /\ Alike(r.p, m.p)
     /\ \E g \in [Nat -> Sectors] :
          /\ g[1] = s
          /\ \A i, j \in 1 .. Size[v] : g[i] = g[j] => i = j
          /\ \A k \in 2 .. Size[v] : g[k] \in m.free
          /\ \A k \in 1 .. Size[v] :
               IsPiece(r.p.sector[g[k]], n, v, k, Place(g, k + 1, Size[v]))
          /\ r.p.sector[s].nexthash = next /\ r.p.sector[s].prevhash = prev
          /\ \A t \in Sectors : (\A k \in 1 .. Size[v] : t # g[k]) =>
               r.p.sector[t] = m.p.sector[t]}

\* The sectors of a new record: there is room, so all of its pieces are written.
LEMMA ComposeDoes ==
  ASSUME NEW O \in SUBSET Writes, NEW m \in Machines(O), Running(m),
         NEW s \in Sectors, s \notin m.free, NEW n \in Names, NEW v \in Values,
         Size[v] - 1 <= Cardinality(m.free), NEW next \in Sectors, NEW prev \in Sectors,
         \A t \in Sectors, r \in GoodSectors : r.name = n /\ r.crc = v => SectorWrite(t, r) \in O
  PROVE  Compose(m, s, n, v, next, prev) \in Composed(O, m, s, n, v, next, prev)
<1> DEFINE rec == [FreeSector EXCEPT !.name = n, !.status = "HEAD", !.crc = v,
                                     !.len = Size[v], !.nexthash = next, !.prevhash = prev]
           x == [m EXCEPT !.at = s, !.buf = rec]
           N == Size[v]
           r == Lengthens(x, v, 0, N - 1)
<1>1. N \in Nat \ {0}
  BY Constants
<1>2. FreeSector \in SectorTypes
  BY FreeSectorIsGood DEF GoodSectors
<1>3. rec \in SectorTypes
  <2>1. [FreeSector EXCEPT !.name = n, !.status = "HEAD", !.crc = v] \in SectorTypes
    BY <1>2 DEF SectorTypes
  <2>2. [[FreeSector EXCEPT !.name = n, !.status = "HEAD", !.crc = v]
           EXCEPT !.len = Size[v], !.nexthash = next, !.prevhash = prev] \in SectorTypes
    BY <1>1, <2>1 DEF SectorTypes
  <2> QED
    BY <2>2
<1>4. rec.crc = v /\ rec.len = N /\ rec.status = "HEAD"
  BY DEF FreeSector
<1>5. rec.good /\ rec.name = n
  BY DEF FreeSector
<1>6. rec.nexthash = next /\ rec.prevhash = prev
  BY DEF FreeSector
<1>7. Compose(m, s, n, v, next, prev) = r
  BY DEF Compose, Lengthens, Loop
<1> HIDE DEF rec
<1>8. rec \in GoodSectors /\ s \in Places
  BY <1>1, <1>3, <1>4 DEF GoodSectors, Places
<1>9. /\ x \in Machines(O) /\ x.p = m.p /\ x.free = m.free /\ x.at = s /\ x.buf = rec
      /\ Running(x)
  BY <1>8 DEF Machines, Running
<1> HIDE DEF x
<1>10. Rest(O, x, v, 0)
  <2>1. 0 < N /\ N - (0 + 1) <= Cardinality(x.free)
    BY <1>1, <1>9
  <2>2. ASSUME NEW t \in x.free \cup {x.at}, NEW q \in GoodSectors, NEW k \in Nat,
               NEW after \in Places, Like(q, x.buf, v, k, after)
        PROVE  SectorWrite(t, q) \in O
    <3>1. q.name = n /\ q.crc = v
      BY <1>5, <1>9, <2>2 DEF Like
    <3>2. t \in Sectors
      BY <1>9, MachinesMore
    <3> QED
      BY <3>1, <3>2
  <2> QED
    BY <1>9, <2>1, <2>2 DEF Rest
<1>11. 0 \in Nat
  OBVIOUS
<1>12. r \in Extended(O, x, v, 0, N)
  BY <1>10, <1>11, LengthensDo
<1> HIDE DEF r
<1>13. /\ r \in Machines(O) /\ Running(r) /\ Alike(r.p, m.p)
       /\ \E q \in [Nat -> Sectors] : Spread(r, x, v, 0, N, q)
  BY <1>9, <1>12 DEF Extended
<1>14. PICK g \in [Nat -> Sectors] : Spread(r, x, v, 0, N, g)
  BY <1>13
<1>15. 0 + 1 = 1 /\ 0 + 2 = 2 /\ Reached(v, N) = N
  BY <1>1 DEF Reached
<1>16. /\ g[1] = s
       /\ \A i, j \in 1 .. N : g[i] = g[j] => i = j
       /\ \A k \in 2 .. N : g[k] \in m.free
  BY <1>9, <1>14, <1>15 DEF Spread
<1>17. \A k \in 1 .. N : Like(r.p.sector[g[k]], rec, v, k, Place(g, k + 1, N))
  BY <1>9, <1>14, <1>15 DEF Spread
<1>18. \A t \in Sectors : (\A k \in 1 .. N : t # g[k]) => r.p.sector[t] = m.p.sector[t]
  BY <1>9, <1>14, <1>15 DEF Spread
<1>19. \A k \in 1 .. N : IsPiece(r.p.sector[g[k]], n, v, k, Place(g, k + 1, N))
  <2> TAKE k \in 1 .. N
  <2>1. k \in Nat \ {0}
    OBVIOUS
  <2> QED
    BY <1>4, <1>5, <1>17, <2>1, LikeIsPiece
<1>20. r.p.sector[s].nexthash = next /\ r.p.sector[s].prevhash = prev
  <2>1. 1 \in 1 .. N
    BY <1>1
  <2> QED
    BY <1>6, <1>16, <1>17, <2>1 DEF Like
<1> QED
  BY <1>7, <1>13, <1>16, <1>18, <1>19, <1>20 DEF Composed

\* A sector with other links.
ToPrev(r, s) == [r EXCEPT !.prevhash = s]
ToNext(r, s) == [r EXCEPT !.nexthash = s]

\* A head linked to another one keeps everything but the link.
LEMMA RelinkedIs ==
  ASSUME NEW r \in GoodSectors, NEW s \in Sectors
  PROVE  /\ ToPrev(r, s) \in GoodSectors /\ Relinked(ToPrev(r, s), r)
         /\ ToPrev(r, s).prevhash = s /\ ToPrev(r, s).nexthash = r.nexthash
         /\ ToNext(r, s) \in GoodSectors /\ Relinked(ToNext(r, s), r)
         /\ ToNext(r, s).nexthash = s /\ ToNext(r, s).prevhash = r.prevhash
<1>1. r \in SectorTypes
  BY SectorFields
<1> DEFINE q == [r EXCEPT !.prevhash = s]
           t == [r EXCEPT !.nexthash = s]
<1>2. q \in GoodSectors /\ t \in GoodSectors
  BY <1>1 DEF GoodSectors, SectorTypes
<1>3. q.prevhash = s /\ q.nexthash = r.nexthash /\ t.nexthash = s /\ t.prevhash = r.prevhash
  BY <1>1 DEF SectorTypes
<1>4. q.good = r.good /\ t.good = r.good
  BY <1>1, Zenon DEF SectorTypes
<1>5. /\ q.status = r.status /\ q.name = r.name /\ q.crc = r.crc
      /\ q.len = r.len /\ q.next = r.next /\ q.data = r.data
  BY <1>1 DEF SectorTypes
<1>6. /\ t.status = r.status /\ t.name = r.name /\ t.crc = r.crc
      /\ t.len = r.len /\ t.next = r.next /\ t.data = r.data
  BY <1>1 DEF SectorTypes
<1>7. Relinked(q, r)
  BY <1>4, <1>5 DEF Relinked
<1>8. Relinked(t, r)
  BY <1>4, <1>6 DEF Relinked
<1> QED
  BY <1>2, <1>3, <1>7, <1>8 DEF ToPrev, ToNext

\* Linking again changes no more than that.
LEMMA RelinkedOn == \A a, b, c : Relinked(a, b) /\ Relinked(b, c) => Relinked(a, c)
  BY DEF Relinked

LEMMA RelinkedSelf == \A a : Relinked(a, a)
  BY DEF Relinked

\* s is between the last record of a chain and its first one.
Linked(p, q, first, last, s) ==
  /\ \A t \in Sectors : /\ Relinked(q.sector[t], p.sector[t])
                        /\ t # last => q.sector[t].nexthash = p.sector[t].nexthash
                        /\ t # first => q.sector[t].prevhash = p.sector[t].prevhash
  /\ q.sector[last].nexthash = s /\ q.sector[first].prevhash = s

Hooked(O, m, first, last, s) ==
  {r \in Machines(O) : /\ Running(r) /\ Alike(r.p, m.p) /\ r.free = m.free /\ r.at = last
                        /\ Linked(m.p, r.p, first, last, s)}

\* The first and the last of a chain, which may be one, are linked to the new one.
LEMMA HookDoes ==
  ASSUME NEW O \in SUBSET Writes, NEW m \in Machines(O), Running(m),
         NEW first \in Sectors, NEW last \in Sectors, NEW s \in Sectors,
         m.at = first, m.buf = m.p.sector[first], m.buf.prevhash = last,
         m.p.sector[last].good, m.p.sector[last].status = "HEAD",
         \A t \in {first, last}, q \in GoodSectors :
           Relinked(q, m.p.sector[t]) => SectorWrite(t, q) \in O
  PROVE  Hook(m, s) \in Hooked(O, m, first, last, s)
<1> DEFINE rec == ToPrev(m.buf, s)
           x == WriteSector(m, first, rec)
           y == ReadSectorAs(x, last, "HEAD")
           rec2 == ToNext(y.buf, s)
           r == WriteSector(y, last, rec2)
<1>1. \A t \in Sectors : m.p.sector[t] \in GoodSectors
  BY MachinesMore
<1> DEFINE b == m.buf
<1>b. b \in GoodSectors /\ b = m.p.sector[first] /\ rec = ToPrev(b, s)
  BY <1>1
<1> HIDE DEF b, rec
<1>2. /\ rec \in GoodSectors /\ Relinked(rec, b) /\ rec.prevhash = s
      /\ rec.nexthash = b.nexthash
  BY <1>b, RelinkedIs
<1>3. LinkPrev(m, s) = x
  BY DEF LinkPrev, ToPrev, rec
<1>4. SectorWrite(first, rec) \in O
  BY <1>2, <1>b
<1>5. /\ x \in Machines(O) /\ Running(x) /\ x.free = m.free
      /\ Alike(x.p, m.p) /\ x.p.sector[first] = rec
      /\ \A t \in Sectors : t # first => x.p.sector[t] = m.p.sector[t]
  BY <1>2, <1>4, WriteDoes
<1> HIDE DEF x
<1>6. \A t \in Sectors : Relinked(x.p.sector[t], m.p.sector[t])
  BY <1>2, <1>5, <1>b, RelinkedSelf
<1>7. x.p.sector[last].good /\ x.p.sector[last].status = "HEAD"
  BY <1>6 DEF Relinked
<1>8. /\ y \in Machines(O) /\ Running(y) /\ y.p = x.p /\ y.free = x.free
      /\ y.at = last /\ y.buf = x.p.sector[last]
  BY <1>5, <1>7, ReadDoes
<1>9. Hook(m, s) = r
  <2>1. Hook(m, s) = LinkNext(y, s)
    BY <1>3 DEF Hook
  <2> HIDE DEF y
  <2> QED
    BY <1>8, <2>1 DEF LinkNext, ToNext
<1> HIDE DEF y
<1>10. x.p.sector[last] \in GoodSectors
  BY <1>5, MachinesMore
<1> DEFINE b2 == x.p.sector[last]
<1>c. b2 \in GoodSectors /\ rec2 = ToNext(b2, s)
  BY <1>8, <1>10
<1> HIDE DEF b2, rec2
<1>d. /\ rec2 \in GoodSectors /\ Relinked(rec2, b2) /\ rec2.nexthash = s
      /\ rec2.prevhash = b2.prevhash
  BY <1>c, RelinkedIs
<1>11. /\ rec2 \in GoodSectors /\ Relinked(rec2, x.p.sector[last]) /\ rec2.nexthash = s
       /\ rec2.prevhash = x.p.sector[last].prevhash
  BY <1>d DEF b2
<1>12. Relinked(rec2, m.p.sector[last])
  BY <1>6, <1>11, RelinkedOn
<1>13. SectorWrite(last, rec2) \in O
  BY <1>11, <1>12
<1>14. /\ r \in Machines(O) /\ Running(r) /\ r.free = y.free /\ r.at = y.at
       /\ Alike(r.p, y.p) /\ r.p.sector[last] = rec2
       /\ \A t \in Sectors : t # last => r.p.sector[t] = y.p.sector[t]
  BY <1>8, <1>11, <1>13, WriteDoes
<1> HIDE DEF r
<1>15. Linked(m.p, r.p, first, last, s)
  <2>1. \A t \in Sectors : Relinked(r.p.sector[t], m.p.sector[t])
    BY <1>6, <1>8, <1>12, <1>14
  <2>2. \A t \in Sectors : t # last => r.p.sector[t].nexthash = m.p.sector[t].nexthash
    BY <1>2, <1>5, <1>8, <1>14, <1>b
  <2>3. \A t \in Sectors : t # first => r.p.sector[t].prevhash = m.p.sector[t].prevhash
    BY <1>5, <1>8, <1>11, <1>14
  <2>4. r.p.sector[last].nexthash = s
    BY <1>11, <1>14
  <2>5. r.p.sector[first].prevhash = s
    BY <1>2, <1>5, <1>8, <1>11, <1>14
  <2> QED
    BY <2>1, <2>2, <2>3, <2>4, <2>5 DEF Linked
<1>16. Alike(r.p, m.p)
  BY <1>5, <1>8, <1>14, AlikeOn
<1> QED
  BY <1>5, <1>8, <1>9, <1>14, <1>15, <1>16 DEF Hooked

-----------------------------------------------------------------------------
(* A new record.                                                              *)

\* The sectors of the chain it is added to.
AreEnds(p, L, n, first, last) ==
  /\ p.table[Hash[n]] = first /\ first \in Sectors /\ last \in Sectors
  /\ ~ Idle(L, first) /\ ~ Idle(L, last)
  /\ p.sector[first].good /\ p.sector[first].status = "HEAD" /\ p.sector[first].name \in Names
  /\ p.sector[first].crc = L.val[p.sector[first].name] /\ p.sector[first].prevhash = last
  /\ p.sector[last].good /\ p.sector[last].status = "HEAD" /\ p.sector[last].name \in Names
  /\ p.sector[last].crc = L.val[p.sector[last].name]

LEMMA EndsOfChain ==
  ASSUME NEW p, NEW L, Laid(p, L), NEW n \in Names, L.chain[Hash[n]] # <<>>, NEW g
  PROVE  AreEnds(p, L, n, FirstOf(L, n, g), LastOf(L, n, g))
<1> DEFINE b == Hash[n]
           c == L.chain[b]
           x == c[1]
           z == c[Len(c)]
<1>1. /\ L \in Layouts /\ b \in Bins /\ c \in Seq(Names) /\ Len(c) \in Nat
      /\ \A i \in 1 .. Len(c) : c[i] \in Names
  BY BinOf, LayoutFields DEF Laid
<1>2. Chained(p, L, b)
  BY <1>1 DEF Laid
<1>3. 1 \in 1 .. Len(c) /\ Len(c) \in 1 .. Len(c)
  BY <1>1
<1>4. /\ x \in Names /\ z \in Names /\ L.val[x] # Nothing /\ L.val[z] # Nothing
      /\ p.table[b] = L.piece[x][1] /\ p.sector[L.piece[x][1]].prevhash = L.piece[z][1]
  BY <1>1, <1>2, <1>3 DEF Chained, ChainIs
<1>5. FirstOf(L, n, g) = L.piece[x][1] /\ LastOf(L, n, g) = L.piece[z][1]
  BY DEF FirstOf, LastOf
<1> HIDE DEF x, z
<1>6. ASSUME NEW y \in Names, L.val[y] # Nothing
      PROVE  /\ L.piece[y][1] \in Sectors /\ ~ Idle(L, L.piece[y][1])
             /\ p.sector[L.piece[y][1]].good /\ p.sector[L.piece[y][1]].status = "HEAD"
             /\ p.sector[L.piece[y][1]].name = y /\ p.sector[L.piece[y][1]].crc = L.val[y]
  <2>1. 1 \in 1 .. Long(L, y)
    BY <1>1, <1>6, LayoutFields
  <2> QED
    BY <1>6, <2>1, HeadsAre DEF Idle
<1>7. /\ L.piece[x][1] \in Sectors /\ ~ Idle(L, L.piece[x][1])
      /\ p.sector[L.piece[x][1]].good /\ p.sector[L.piece[x][1]].status = "HEAD"
      /\ p.sector[L.piece[x][1]].name = x /\ p.sector[L.piece[x][1]].crc = L.val[x]
  BY <1>4, <1>6
<1>8. /\ L.piece[z][1] \in Sectors /\ ~ Idle(L, L.piece[z][1])
      /\ p.sector[L.piece[z][1]].good /\ p.sector[L.piece[z][1]].status = "HEAD"
      /\ p.sector[L.piece[z][1]].name = z /\ p.sector[L.piece[z][1]].crc = L.val[z]
  BY <1>4, <1>6
<1> DEFINE s == L.piece[x][1]
           t == L.piece[z][1]
<1>9. AreEnds(p, L, n, s, t)
  BY <1>4, <1>7, <1>8 DEF AreEnds
<1>10. FirstOf(L, n, g) = s /\ LastOf(L, n, g) = t
  BY <1>5
<1> HIDE DEF s, t
<1> QED
  BY <1>9, <1>10

\* One of the free sectors is taken.
LEMMA TakenIs ==
  ASSUME NEW O \in SUBSET Writes, NEW m \in Machines(O), NEW s \in m.free
  PROVE  LET r == [m EXCEPT !.free = Busy(@, s)]
         IN  /\ r \in Machines(O) /\ r.p = m.p /\ r.free = m.free \ {s} /\ r.end = m.end
             /\ Cardinality(r.free) = Cardinality(m.free) - 1
             /\ Cardinality(m.free) \in Nat
<1> DEFINE r == [m EXCEPT !.free = Busy(@, s)]
<1>1. m.free \subseteq Sectors /\ r = [m EXCEPT !.free = m.free \ {s}]
  BY MachinesMore DEF Busy
<1>2. r \in Machines(O) /\ r.p = m.p /\ r.free = m.free \ {s} /\ r.end = m.end
  BY <1>1 DEF Machines
<1>3. IsFiniteSet(m.free)
  BY <1>1, Constants, FS_Subset
<1>4. Cardinality(m.free \ {s}) = Cardinality(m.free) - 1 /\ Cardinality(m.free) \in Nat
  BY <1>3, FS_RemoveElement, FS_CardinalityType
<1> QED
  BY <1>2, <1>4

\* The first record of a bin is left in order.
LEMMA EnterDoes ==
  ASSUME NEW O, NEW m, NEW L, NEW n, NEW v, Ready(O, m, L, n, v), L.val[n] = Nothing,
         NEW s, s = NextFree(m.free), s \in m.free, NEW x \in Machines(O), Running(x), x.p = m.p,
         x.free = m.free \ {s}, Size[v] - 1 <= Cardinality(x.free),
         L.chain[Hash[n]] = <<>>
  PROVE  Enter(x, s, n, v) \in Obeyed(O, m, L, n, v)
<1> DEFINE p == m.p
           N == Size[v]
           y == Put(x, BinWrite(Hash[n], s))
           t == Compose(y, s, n, v, s, s)
           r == Put(t, CrcWrite(t.p.table))
<1>1. /\ n \in Names /\ v \in Values /\ m \in Machines(O)
      /\ Laid(p, L) /\ m.free = FreeBitmap(p) /\ O = Mild(L.val, n, v)
      /\ O \in SUBSET Writes /\ Hash[n] \in Bins /\ L \in Layouts
  BY MildHas, BinOf DEF Ready, Laid
<1>2. /\ \A k \in m.free : k \in Sectors /\ Idle(L, k)
      /\ s \in Sectors /\ Idle(L, s) /\ s \notin x.free /\ s \in Places
      /\ (Idle(L, 0) => s = 0)
  <2>1. m.free \subseteq Sectors /\ 0 \in Sectors
    BY <1>1, MachinesMore, Constants DEF Sectors
  <2>2. \A k \in m.free : k \in Sectors /\ Idle(L, k)
    BY <1>1, <2>1, IdleIsFree
  <2>3. Idle(L, 0) => 0 \in m.free
    BY <1>1, <2>1, IdleIsFree
  <2> QED
    BY <2>1, <2>2, <2>3, NextFreeZero DEF Places
<1>3. p \in GoodPartitions /\ p.table \in Tables
  BY <1>1, MachinesMore, PartitionFields
<1>4. BinWrite(Hash[n], s) \in O
  BY <1>1, <1>2, MildHas
<1>5. /\ y \in Machines(O) /\ Running(y) /\ y.free = x.free
      /\ y.p.table = [p.table EXCEPT ![Hash[n]] = s]
      /\ y.p.sector = p.sector /\ y.p.head = p.head
  <2>1. /\ y \in Machines(O) /\ y.p = Written(x.p, BinWrite(Hash[n], s)) /\ y.free = x.free
        /\ y.end = x.end
    BY <1>1, <1>4, PutDoes
  <2>2. Written(p, BinWrite(Hash[n], s)) = [p EXCEPT !.table[Hash[n]] = s]
    BY DEF Written, BinWrite
  <2> HIDE DEF y
  <2>3. y.p = [p EXCEPT !.table[Hash[n]] = s]
    BY <2>1, <2>2
  <2> QED
    BY <1>3, <2>1, <2>3 DEF GoodPartitions, Running
<1> HIDE DEF y
<1>6. t \in Composed(O, y, s, n, v, s, s)
  <2>1. s \notin y.free /\ Size[v] - 1 <= Cardinality(y.free)
    BY <1>2, <1>5
  <2>2. \A k \in Sectors, q \in GoodSectors : q.name = n /\ q.crc = v => SectorWrite(k, q) \in O
    BY <1>1, MildHas
  <2> QED
    BY <1>1, <1>2, <1>5, <2>1, <2>2, ComposeDoes
<1>7. Enter(x, s, n, v) = r
  BY DEF Enter, RenewCrc, y
<1> HIDE DEF t
<1>8. /\ t \in Machines(O) /\ Running(t) /\ t.p.table = y.p.table /\ t.p.head = p.head
      /\ t.p \in GoodPartitions /\ t.p.table \in Tables
  BY <1>1, <1>5, <1>6, MachinesMore, PartitionFields DEF Composed, Alike
<1>9. PICK g \in [Nat -> Sectors] :
        /\ g[1] = s
        /\ \A i, j \in 1 .. N : g[i] = g[j] => i = j
        /\ \A k \in 2 .. N : g[k] \in y.free
        /\ \A k \in 1 .. N : IsPiece(t.p.sector[g[k]], n, v, k, Place(g, k + 1, N))
        /\ t.p.sector[s].nexthash = s /\ t.p.sector[s].prevhash = s
        /\ \A k \in Sectors : (\A i \in 1 .. N : k # g[i]) => t.p.sector[k] = y.p.sector[k]
  BY <1>6 DEF Composed
<1>10. CrcWrite(t.p.table) \in O
  BY <1>1, <1>8, MildHas
<1>11. /\ r \in Machines(O) /\ Running(r) /\ r.p.head = p.head
       /\ r.p.table = y.p.table /\ r.p.crc = r.p.table /\ r.p.sector = t.p.sector
  <2> DEFINE w == CrcWrite(t.p.table)
  <2>1. r \in Machines(O) /\ r.p = Written(t.p, w) /\ r.end = t.end
    <3> HIDE DEF w
    <3> QED
      BY <1>1, <1>8, <1>10, PutDoes DEF w
  <2>2. Written(t.p, w) = [t.p EXCEPT !.crc = t.p.table]
    BY DEF Written, CrcWrite
  <2> HIDE DEF r, w
  <2>3. r.p = [t.p EXCEPT !.crc = t.p.table]
    BY <2>1, <2>2
  <2> QED
    BY <1>8, <2>1, <2>3 DEF GoodPartitions, Running
<1> HIDE DEF r
<1>12. \A k \in 1 .. N : Idle(L, g[k])
  <2> TAKE k \in 1 .. N
  <2>1. k = 1 \/ k \in 2 .. N
    OBVIOUS
  <2> QED
    BY <1>2, <1>5, <1>9, <2>1
<1>13. \A k \in 2 .. N : g[k] # 0
  <2> TAKE k \in 2 .. N
  <2>1. k \in 1 .. N /\ 1 \in 1 .. N /\ k # 1
    BY <1>1, Constants
  <2>2. CASE Idle(L, 0)
    BY <1>2, <1>9, <2>1, <2>2
  <2>3. CASE ~ Idle(L, 0)
    BY <1>12, <2>1, <2>3
  <2> QED
    BY <2>2, <2>3
<1>14. Stored(r.p, L, n, v, g)
  <2>1. r.p.head /\ r.p \in GoodPartitions /\ g \in [Nat -> Sectors]
    BY <1>1, <1>11, MachinesMore DEF Laid
  <2>2. \A k \in 1 .. N : \A z \in Names : \A i \in 1 .. Long(L, z) :
          g[k] = L.piece[z][i] => z = n
    BY <1>12 DEF Idle
  <2> QED
    BY <1>1, <1>9, <1>11, <1>13, <2>1, <2>2 DEF Stored
<1>15. Added(p, r.p, L, n, v, g)
  <2>1. FirstOf(L, n, g) = s /\ LastOf(L, n, g) = s
    BY <1>9 DEF FirstOf, LastOf
  <2>2. \A k \in Sectors : (\A i \in 1 .. N : k # g[i]) => r.p.sector[k] = p.sector[k]
    BY <1>5, <1>9, <1>11
  <2> QED
    BY <1>2, <1>5, <1>9, <1>11, <1>14, <2>1, <2>2, RelinkedSelf DEF Added
<1>16. Laid(r.p, Enrolled(L, n, v, g)) /\ Enrolled(L, n, v, g).val = [L.val EXCEPT ![n] = v]
  BY <1>1, <1>15, AddedLaid
<1> QED
  BY <1>7, <1>11, <1>16 DEF Obeyed, Laid

\* A record added to a chain is left in order.
LEMMA JoinDoes ==
  ASSUME NEW O, NEW m, NEW L, NEW n, NEW v, Ready(O, m, L, n, v), L.val[n] = Nothing,
         NEW s, s = NextFree(m.free), s \in m.free, NEW x \in Machines(O), Running(x), x.p = m.p,
         x.free = m.free \ {s}, Size[v] - 1 <= Cardinality(x.free),
         L.chain[Hash[n]] # <<>>, NEW first, first = m.p.table[Hash[n]]
  PROVE  /\ first # None
         /\ Join(Hook(ReadSectorAs(x, first, "HEAD"), s), s, n, v, first)
              \in Obeyed(O, m, L, n, v)
<1> DEFINE p == m.p
           N == Size[v]
           g0 == [k \in Nat |-> s]
           last == LastOf(L, n, g0)
           y == ReadSectorAs(x, first, "HEAD")
           t == Hook(y, s)
           r == Compose(t, s, n, v, first, last)
<1>1. /\ n \in Names /\ v \in Values /\ m \in Machines(O)
      /\ Laid(p, L) /\ m.free = FreeBitmap(p) /\ O = Mild(L.val, n, v)
      /\ O \in SUBSET Writes /\ L \in Layouts
  BY MildHas DEF Ready, Laid
<1>2. /\ \A k \in m.free : k \in Sectors /\ Idle(L, k)
      /\ s \in Sectors /\ Idle(L, s) /\ s \notin x.free
      /\ ~ Idle(L, 0)
  <2>1. m.free \subseteq Sectors /\ 0 \in Sectors
    BY <1>1, MachinesMore, Constants DEF Sectors
  <2>2. \A k \in m.free : k \in Sectors /\ Idle(L, k)
    BY <1>1, <2>1, IdleIsFree
  <2>3. \E k \in Names : L.val[k] # Nothing
    <3>1. L.chain[Hash[n]] \in Seq(Names) /\ Chained(p, L, Hash[n])
      BY <1>1, BinOf, LayoutFields DEF Laid
    <3>2. 1 \in 1 .. Len(L.chain[Hash[n]])
      BY <3>1
    <3>3. L.chain[Hash[n]][1] \in Names
      BY <3>1, <3>2
    <3> QED
      BY <3>1, <3>2, <3>3 DEF Chained, ChainIs
  <2>4. ~ Idle(L, 0)
    BY <1>1, <2>3 DEF Laid, ZeroIsHead
  <2> QED
    BY <2>1, <2>2, <2>4
<1>3. /\ first = FirstOf(L, n, g0) /\ first \in Sectors /\ last \in Sectors
      /\ ~ Idle(L, first) /\ ~ Idle(L, last)
      /\ p.sector[first].good /\ p.sector[first].status = "HEAD"
      /\ p.sector[first].name \in Names
      /\ p.sector[first].crc = L.val[p.sector[first].name]
      /\ p.sector[first].prevhash = last
      /\ p.sector[last].good /\ p.sector[last].status = "HEAD"
      /\ p.sector[last].name \in Names
      /\ p.sector[last].crc = L.val[p.sector[last].name]
  <2> DEFINE f == FirstOf(L, n, g0)
  <2>1. AreEnds(p, L, n, f, last)
    BY <1>1, EndsOfChain
  <2>2. first = f
    BY <2>1 DEF AreEnds
  <2> HIDE DEF f, last
  <2>3. AreEnds(p, L, n, first, last) /\ first = FirstOf(L, n, g0)
    BY <2>1, <2>2 DEF f
  <2> QED
    BY <2>3 DEF AreEnds
<1>4. \A g : FirstOf(L, n, g) = first /\ LastOf(L, n, g) = last
  BY <1>3 DEF FirstOf, LastOf
<1> HIDE DEF last
<1>5. /\ y \in Machines(O) /\ Running(y) /\ y.p = p /\ y.free = x.free
      /\ y.at = first /\ y.buf = p.sector[first]
  <2>1. x.p.sector[first].good /\ x.p.sector[first].status = "HEAD" /\ first \in Sectors
    BY <1>3
  <2> QED
    BY <2>1, ReadDoes
<1> HIDE DEF y
<1>6. t \in Hooked(O, y, first, last, s)
  <2>1. \A k \in {first, last}, q \in GoodSectors :
          Relinked(q, y.p.sector[k]) => SectorWrite(k, q) \in O
    <3> TAKE k \in {first, last}, q \in GoodSectors
    <3> HAVE Relinked(q, y.p.sector[k])
    <3>1. q.name \in Names /\ q.crc = L.val[q.name]
      <4> DEFINE z == p.sector[k]
      <4>1. y.p.sector[k] = z /\ z.name \in Names /\ z.crc = L.val[z.name]
        BY <1>3, <1>5
      <4> HIDE DEF z
      <4>2. Relinked(q, z)
        BY <4>1
      <4>3. q.name = z.name /\ q.crc = z.crc
        BY <4>2 DEF Relinked
      <4> QED
        BY <4>1, <4>3
    <3>2. k \in Sectors
      BY <1>3
    <3>3. MildHead(L.val, n, v, q)
      BY <3>1 DEF MildHead
    <3> QED
      BY <1>1, <3>2, <3>3, MildHas
  <2> QED
    <3>1. /\ O \in SUBSET Writes /\ y \in Machines(O) /\ Running(y)
          /\ first \in Sectors /\ last \in Sectors /\ s \in Sectors
      BY <1>1, <1>2, <1>3, <1>5
    <3>2. /\ y.at = first /\ y.buf = y.p.sector[first] /\ y.buf.prevhash = last
          /\ y.p.sector[last].good /\ y.p.sector[last].status = "HEAD"
      BY <1>3, <1>5
    <3> QED
      BY <2>1, <3>1, <3>2, HookDoes
<1> HIDE DEF t
<1>7. /\ t \in Machines(O) /\ Running(t) /\ Alike(t.p, p) /\ t.free = x.free /\ t.at = last
      /\ Linked(p, t.p, first, last, s)
  BY <1>5, <1>6 DEF Hooked
<1>8. Join(t, s, n, v, first) = r
  BY <1>7 DEF Join
<1>9. r \in Composed(O, t, s, n, v, first, last)
  <2>1. \A k \in Sectors, q \in GoodSectors : q.name = n /\ q.crc = v => SectorWrite(k, q) \in O
    BY <1>1, MildHas
  <2> QED
    BY <1>1, <1>2, <1>3, <1>7, <2>1, ComposeDoes
<1> HIDE DEF r
<1>10. r \in Machines(O) /\ Running(r) /\ Alike(r.p, t.p)
  BY <1>9 DEF Composed
<1>11. PICK g \in [Nat -> Sectors] :
        /\ g[1] = s
        /\ \A i, j \in 1 .. N : g[i] = g[j] => i = j
        /\ \A k \in 2 .. N : g[k] \in t.free
        /\ \A k \in 1 .. N : IsPiece(r.p.sector[g[k]], n, v, k, Place(g, k + 1, N))
        /\ r.p.sector[s].nexthash = first /\ r.p.sector[s].prevhash = last
        /\ \A k \in Sectors : (\A i \in 1 .. N : k # g[i]) => r.p.sector[k] = t.p.sector[k]
  BY <1>9 DEF Composed
<1>12. \A k \in 1 .. N : Idle(L, g[k])
  <2> TAKE k \in 1 .. N
  <2>1. k = 1 \/ k \in 2 .. N
    OBVIOUS
  <2> QED
    BY <1>2, <1>7, <1>11, <2>1
<1>13. Alike(r.p, p) /\ r.p \in GoodPartitions
  BY <1>1, <1>7, <1>10, AlikeOn, MachinesMore
<1>14. Stored(r.p, L, n, v, g)
  <2>1. r.p.head /\ r.p.crc = r.p.table
    BY <1>1, <1>13 DEF Laid, Alike
  <2>2. \A k \in 1 .. N : \A z \in Names : \A i \in 1 .. Long(L, z) :
          g[k] = L.piece[z][i] => z = n
    BY <1>12 DEF Idle
  <2>3. \A k \in 2 .. N : g[k] # 0
    <3> TAKE k \in 2 .. N
    <3>1. k \in 1 .. N
      BY <1>1, Constants
    <3> QED
      BY <1>2, <1>12, <3>1
  <2> QED
    BY <1>1, <1>11, <1>13, <2>1, <2>2, <2>3 DEF Stored
<1>15. /\ \A i \in 1 .. N : first # g[i] /\ last # g[i]
       /\ r.p.sector[first] = t.p.sector[first] /\ r.p.sector[last] = t.p.sector[last]
  <2>1. \A i \in 1 .. N : first # g[i] /\ last # g[i]
    BY <1>3, <1>12
  <2>2. \A k \in Sectors : (\A i \in 1 .. N : k # g[i]) => r.p.sector[k] = t.p.sector[k]
    BY <1>11
  <2> QED
    BY <1>3, <2>1, <2>2
<1>16. Added(p, r.p, L, n, v, g)
  <2>1. r.p.table = p.table
    BY <1>13 DEF Alike
  <2>2. r.p.sector[last].nexthash = s /\ r.p.sector[first].prevhash = s
    BY <1>7, <1>15 DEF Linked
  <2>3. \A k \in Sectors : (\A i \in 1 .. N : k # g[i]) =>
          /\ Relinked(r.p.sector[k], p.sector[k])
          /\ k # last => r.p.sector[k].nexthash = p.sector[k].nexthash
          /\ k # first => r.p.sector[k].prevhash = p.sector[k].prevhash
    BY <1>7, <1>11 DEF Linked
  <2> QED
    BY <1>2, <1>4, <1>11, <1>14, <2>1, <2>2, <2>3 DEF Added
<1>17. Laid(r.p, Enrolled(L, n, v, g)) /\ Enrolled(L, n, v, g).val = [L.val EXCEPT ![n] = v]
  BY <1>1, <1>16, AddedLaid
<1>18. r \in Obeyed(O, m, L, n, v)
  BY <1>10, <1>17 DEF Obeyed, Laid
<1> QED
  BY <1>3, <1>8, <1>18, Constants DEF t, y

\* A new record, or one there is no room for, leaves all records in order.
LEMMA AddDoes ==
  ASSUME NEW O, NEW m, NEW L, NEW n, NEW v, Ready(O, m, L, n, v), L.val[n] = Nothing
  PROVE  Add(m, n, v) \in Obeyed(O, m, L, n, v)
<1> DEFINE first == m.p.table[Hash[n]]
           s == NextFree(m.free)
           x == [m EXCEPT !.free = Busy(@, s)]
<1>1. /\ n \in Names /\ v \in Values /\ m \in Machines(O) /\ Running(m)
      /\ Laid(m.p, L) /\ O \in SUBSET Writes /\ Size[v] \in Nat \ {0}
      /\ Hash[n] \in Bins /\ Chained(m.p, L, Hash[n])
  BY MildHas, Constants, BinOf DEF Ready, Laid
<1>2. m.free \subseteq Sectors /\ IsFiniteSet(m.free)
  BY <1>1, MachinesMore, Constants, FS_Subset
<1>3. CASE Size[v] > Cardinality(m.free)
  <2> DEFINE r == [m EXCEPT !.end = "false"]
  <2>1. Add(m, n, v) = r
    BY <1>3 DEF Add
  <2>2. /\ r \in Machines(O) /\ r.p = m.p /\ r.free = m.free /\ r.out = m.out
        /\ r.end = "false"
    BY <1>1 DEF Machines, Stands
  <2>3. Size[v] > Long(L, n) + Cardinality(m.free)
    <3>1. Cardinality(m.free) \in Nat /\ Long(L, n) = 0
      BY <1>2, FS_CardinalityType DEF Long
    <3> QED
      BY <1>1, <1>3, <3>1
  <2> HIDE DEF r
  <2> QED
    BY <2>1, <2>2, <2>3 DEF Obeyed
<1>4. CASE ~ (Size[v] > Cardinality(m.free))
  <2>1. m.free # {}
    <3>1. Cardinality({}) = 0
      BY FS_EmptySet
    <3> QED
      BY <1>1, <1>4, <3>1
  <2>2. s \in m.free
    BY <1>2, <2>1, NextFreeType
  <2>3. Add(m, n, v) = IF first = None THEN Enter(x, s, n, v)
                       ELSE Join(Hook(ReadSectorAs(x, first, "HEAD"), s), s, n, v, first)
    BY <1>4 DEF Add
  <2>9. s = NextFree(m.free)
    OBVIOUS
  <2> HIDE DEF s
  <2>4. /\ x \in Machines(O) /\ x.p = m.p /\ x.free = m.free \ {s} /\ x.end = m.end
        /\ Cardinality(x.free) = Cardinality(m.free) - 1 /\ Cardinality(m.free) \in Nat
    BY <1>1, <2>2, TakenIs
  <2> HIDE DEF x
  <2>5. Running(x) /\ Size[v] - 1 <= Cardinality(x.free)
    BY <1>1, <1>4, <2>4 DEF Running
  <2>6. CASE L.chain[Hash[n]] = <<>>
    <3>1. first = None
      BY <1>1, <2>6 DEF Chained, ChainIs
    <3>2. Enter(x, s, n, v) \in Obeyed(O, m, L, n, v)
      BY <2>2, <2>4, <2>5, <2>6, <2>9, EnterDoes
    <3> QED
      BY <2>3, <3>1, <3>2
  <2>7. CASE L.chain[Hash[n]] # <<>>
    <3>1. /\ first # None
          /\ Join(Hook(ReadSectorAs(x, first, "HEAD"), s), s, n, v, first)
               \in Obeyed(O, m, L, n, v)
      BY <2>2, <2>4, <2>5, <2>7, <2>9, JoinDoes
    <3> QED
      BY <2>3, <3>1
  <2> QED
    BY <2>6, <2>7
<1> QED
  BY <1>3, <1>4

-----------------------------------------------------------------------------
(* A partition that holds the values h, and one whose records are in order.   *)
Holds(p, h) == \E L \in Layouts : L.val = h /\ Laid(p, L)

Whole(p) == \E L \in Layouts : Laid(p, L)

\* STEEPROM_WriteRecord on such a partition stores the value, or there is no room
\* for it and nothing happens.
THEOREM WriteRecordDoes ==
  ASSUME NEW p, NEW L, Laid(p, L), NEW n \in Names, NEW v \in Values
  PROVE  LET r == WriteRecord(p, FreeBitmap(p), n, v)
         IN  /\ r.out \in Seq(Mild(L.val, n, v))
             /\ \/ r.end = "true" /\ Holds(r.p, [L.val EXCEPT ![n] = v])
                \/ /\ r.end = "false" /\ r.p = p /\ r.free = FreeBitmap(p) /\ r.out = <<>>
                   /\ Size[v] > Long(L, n) + Cardinality(FreeBitmap(p))
<1> DEFINE O == Mild(L.val, n, v)
           m == Begin(p, FreeBitmap(p))
           q == Seek(m, n)
           t == Rewrite(q, n, v)
           r == WriteRecord(p, FreeBitmap(p), n, v)
<1>1. p \in GoodPartitions /\ O \in SUBSET Writes
  BY MildHas DEF Laid
<1>2. r = Returned(t)
  BY DEF WriteRecord
<1> HIDE DEF O
<1>3. /\ m \in Machines(O) /\ Running(m) /\ m.p = p /\ m.free = FreeBitmap(p) /\ m.out = <<>>
  <2>1. FreeBitmap(p) \subseteq Sectors /\ None \in Places
    BY DEF FreeBitmap, Places
  <2>2. <<>> \in Seq(O)
    OBVIOUS
  <2> QED
    BY <1>1, <2>1, <2>2, FreeSectorIsGood DEF Begin, Machines, Stands, Running
<1> HIDE DEF m
<1>4. q \in Sought(O, m, L, n)
  BY <1>3, SeekFinds
<1> HIDE DEF q
<1>5. /\ q \in Machines(O) /\ Running(q) /\ q.p = p /\ q.free = FreeBitmap(p) /\ q.out = <<>>
      /\ L.val[n] = Nothing => q.at = None
      /\ L.val[n] # Nothing => q.at = L.piece[n][1] /\ q.buf = p.sector[L.piece[n][1]]
  BY <1>3, <1>4 DEF Sought
<1>6. Ready(O, q, L, n, v)
  BY <1>5 DEF Ready, O
<1>7. t \in Obeyed(O, q, L, n, v)
  <2>1. CASE L.val[n] = Nothing
    <3>1. t = Add(q, n, v)
      BY <1>5, <2>1 DEF Rewrite
    <3> QED
      BY <1>6, <2>1, <3>1, AddDoes
  <2>2. CASE L.val[n] # Nothing
    <3>1. AtHead(q, L, n)
      BY <1>5, <2>2 DEF AtHead
    <3>2. q.at \in Sectors
      BY <1>5, <2>2, HeadsAre
    <3>3. CASE Size[v] > q.buf.len
      <4>1. t = Grow(q, v)
        BY <1>5, <3>2, <3>3, Constants DEF Rewrite
      <4> QED
        BY <1>6, <3>1, <3>3, <4>1, GrowDoes
    <3>4. CASE ~ (Size[v] > q.buf.len)
      <4>1. t = Shrink(q, v)
        BY <1>5, <3>2, <3>4, Constants DEF Rewrite
      <4>2. q.buf.len \in Nat /\ Size[v] \in Nat
        BY <1>5, MachineFields, SectorFields, Constants
      <4>3. Size[v] <= q.buf.len
        BY <3>4, <4>2
      <4> QED
        BY <1>6, <3>1, <4>1, <4>3, ShrinkDoes
    <3> QED
      BY <3>3, <3>4
  <2> QED
    BY <2>1, <2>2
<1> HIDE DEF t
<1>8. t \in Machines(O) /\ t.out \in Seq(O)
  BY <1>7, MachineFields DEF Obeyed
<1>9. CASE Running(t) /\ \E M \in Layouts : Laid(t.p, M) /\ M.val = [L.val EXCEPT ![n] = v]
  <2>1. r = [t EXCEPT !.end = "true"]
    BY <1>2, <1>9 DEF Returned
  <2>2. r.out = t.out /\ r.end = "true" /\ r.p = t.p
    BY <1>8, <2>1 DEF Machines
  <2>3. Holds(r.p, [L.val EXCEPT ![n] = v])
    BY <1>9, <2>2 DEF Holds
  <2> HIDE DEF r
  <2> QED
    BY <1>8, <2>2, <2>3 DEF O, r
<1>10. CASE /\ t.end = "false" /\ t.p = q.p /\ t.free = q.free /\ t.out = q.out
            /\ Size[v] > Long(L, n) + Cardinality(q.free)
  <2>1. r = t
    BY <1>2, <1>10 DEF Returned, Running
  <2> HIDE DEF r
  <2>2. /\ r.out \in Seq(O) /\ r.end = "false" /\ r.p = p /\ r.free = FreeBitmap(p)
        /\ r.out = <<>> /\ Size[v] > Long(L, n) + Cardinality(FreeBitmap(p))
    BY <1>5, <1>8, <1>10, <2>1
  <2> QED
    BY <2>2 DEF O, r
<1> QED
  BY <1>7, <1>9, <1>10 DEF Obeyed

-----------------------------------------------------------------------------
(* Reading a partition whose records are in order.                            *)

\* The pieces of v up to the k-th.
PiecesOf(v, k) == [i \in 1 .. k |-> <<v, i>>]

\* The pieces of a value, one after the other.
LEMMA PiecesAre ==
  ASSUME NEW v \in Values, NEW k \in Nat \ {0}
  PROVE  /\ PiecesOf(v, k) \in Seq(Pieces)
         /\ Append(PiecesOf(v, k), <<v, k + 1>>) = PiecesOf(v, k + 1)
         /\ PiecesOf(v, 1) = <<<<v, 1>>>>
<1> DEFINE a == PiecesOf(v, k)
           b == PiecesOf(v, k + 1)
<1>1. \A i \in Nat \ {0} : <<v, i>> \in Pieces
  BY DEF Pieces
<1>2. a \in Seq(Pieces) /\ Len(a) = k /\ \A i \in 1 .. k : a[i] = <<v, i>>
  BY <1>1 DEF PiecesOf
<1>3. b \in Seq(Pieces) /\ Len(b) = k + 1 /\ \A i \in 1 .. k + 1 : b[i] = <<v, i>>
  BY <1>1 DEF PiecesOf
<1> HIDE DEF a, b
<1> DEFINE c == Append(a, <<v, k + 1>>)
<1>4. /\ c \in Seq(Pieces) /\ Len(c) = k + 1 /\ c[k + 1] = <<v, k + 1>>
      /\ \A i \in 1 .. k : c[i] = a[i]
  BY <1>1, <1>2
<1> HIDE DEF c
<1>5. \A i \in 1 .. k + 1 : c[i] = b[i]
  <2> TAKE i \in 1 .. k + 1
  <2>1. i \in 1 .. k \/ i = k + 1
    OBVIOUS
  <2> QED
    BY <1>2, <1>3, <1>4, <2>1
<1>6. c = b
  BY <1>3, <1>4, <1>5, SeqEqual
<1>7. PiecesOf(v, 1) = <<<<v, 1>>>>
  BY DEF PiecesOf
<1> QED
  BY <1>2, <1>6, <1>7 DEF a, b, c

\* j more pieces of the record of n have been read.
Gathered(p, L, n, j) ==
  {r \in Readers :
     /\ Running(r) /\ r.p = p /\ r.at = L.piece[n][j + 1]
     /\ r.buf = p.sector[L.piece[n][j + 1]] /\ r.out = PiecesOf(L.val[n], j + 1)}

\* A step of reading gathers one more piece.
LEMMA GatherDoes ==
  ASSUME NEW p, NEW L, Laid(p, L), NEW n \in Names, L.val[n] # Nothing,
         NEW j \in Nat, j + 1 < Long(L, n), NEW r \in Gathered(p, L, n, j)
  PROVE  Gather(r, 1 + j) \in Gathered(p, L, n, j + 1)
<1> DEFINE v == L.val[n]
           f == L.piece[n]
           q == ReadNext(r)
<1>1. /\ L \in Layouts /\ p \in GoodPartitions /\ v \in Values /\ Long(L, n) \in Nat
      /\ f \in [Nat -> Sectors]
  BY LayoutFields DEF Laid
<1>2. /\ j + 1 \in 1 .. Long(L, n) /\ j + 2 \in 1 .. Long(L, n) /\ (j + 1) + 1 = j + 2
      /\ j + 2 > 1 /\ j + 2 \in Nat /\ j + 1 \in Nat \ {0}
  BY <1>1
<1>3. /\ IsPiece(p.sector[f[j + 1]], n, v, j + 1, Place(f, j + 2, Long(L, n)))
      /\ IsPiece(p.sector[f[j + 2]], n, v, j + 2, Place(f, (j + 2) + 1, Long(L, n)))
  BY <1>2 DEF Laid, Placed
<1>4. Place(f, j + 2, Long(L, n)) = f[j + 2]
  BY <1>1, <1>2 DEF Place
<1>5. f[j + 2] \in Sectors
  BY <1>1, <1>2
<1>6. /\ r \in Readers /\ Running(r) /\ r.p = p /\ r.buf.next = f[j + 2]
      /\ r.out = PiecesOf(v, j + 1)
  BY <1>3, <1>4 DEF Gathered, IsPiece
<1>7. /\ p.sector[f[j + 2]].good /\ p.sector[f[j + 2]].status = "BODY"
      /\ p.sector[f[j + 2]].data = <<v, j + 2>>
  BY <1>2, <1>3 DEF IsPiece
<1>8. q = ReadSectorAs(r, f[j + 2], "BODY")
  BY <1>6 DEF ReadNext
<1> HIDE DEF q, f
<1>9. /\ q \in Readers /\ Running(q) /\ q.p = p /\ q.out = r.out /\ q.at = f[j + 2]
      /\ q.buf = p.sector[f[j + 2]]
  BY <1>5, <1>6, <1>7, <1>8, ReadDoes DEF Readers
<1>10. r.buf.next # None
  BY <1>5, <1>6, Constants
<1> DEFINE x == Gather(r, 1 + j)
<1>11. x = [q EXCEPT !.out = Append(q.out, q.buf.data)]
  BY <1>9, <1>10 DEF Gather, Collected, q
<1>12. /\ Append(q.out, q.buf.data) = PiecesOf(v, j + 2)
       /\ PiecesOf(v, j + 2) \in Seq(Pieces)
  <2> HIDE DEF v
  <2>1. /\ Append(PiecesOf(v, j + 1), <<v, (j + 1) + 1>>) = PiecesOf(v, (j + 1) + 1)
        /\ PiecesOf(v, (j + 1) + 1) \in Seq(Pieces)
    <3>1. (j + 1) + 1 \in Nat \ {0}
      BY <1>2
    <3>2. PiecesOf(v, (j + 1) + 1) \in Seq(Pieces)
      BY <1>1, <3>1, PiecesAre
    <3> QED
      BY <1>1, <1>2, <3>2, PiecesAre
  <2>2. q.out = PiecesOf(v, j + 1) /\ q.buf.data = <<v, j + 2>>
    BY <1>6, <1>7, <1>9
  <2> QED
    BY <1>2, <2>1, <2>2
<1> HIDE DEF x
<1>13. /\ x \in Readers /\ Running(x) /\ x.p = p /\ x.at = f[j + 2]
       /\ x.buf = p.sector[f[j + 2]] /\ x.out = PiecesOf(v, j + 2)
  BY <1>9, <1>11, <1>12 DEF Readers, Machines, Running
<1>14. x \in Gathered(p, L, n, j + 1)
  BY <1>2, <1>13 DEF Gathered, f
<1> QED
  BY <1>14 DEF x

\* STEEPROM_ReadRecord on a partition whose records are in order: the value of
\* the record, or there is none.
LEMMA ContentDoes ==
  ASSUME NEW p, NEW L, Laid(p, L), NEW n \in Names
  PROVE  /\ L.val[n] # Nothing => Content(p, n) = [end |-> "true", value |-> L.val[n]]
         /\ L.val[n] = Nothing => Content(p, n) = NoContent("absent")
<1> DEFINE b == Begin(p, {})
           q == Seek(b, n)
<1>1. b \in Readers /\ Running(b) /\ b.p = p
  BY FreeSectorIsGood DEF Begin, Readers, Machines, Running, Places, Stands, Laid
<1>2. q \in Sought(Pieces, b, L, n)
  BY <1>1, SeekFinds DEF Readers
<1>3. Content(p, n) = ContentAt(q)
  BY DEF Content
<1> HIDE DEF q, b
<1>4. /\ q \in Readers /\ Running(q) /\ q.p = p
      /\ L.val[n] = Nothing => q.at = None
      /\ L.val[n] # Nothing => q.at = L.piece[n][1] /\ q.buf = p.sector[L.piece[n][1]]
  BY <1>1, <1>2 DEF Sought, Readers
<1>5. CASE L.val[n] = Nothing
  BY <1>3, <1>4, <1>5 DEF ContentAt
<1>6. CASE L.val[n] # Nothing
  <2> DEFINE v == L.val[n]
             N == Long(L, n)
             m == [q EXCEPT !.out = <<q.buf.data>>]
  <2>1. /\ q.at = L.piece[n][1] /\ L.piece[n][1] \in Sectors
        /\ q.buf = p.sector[L.piece[n][1]]
        /\ q.buf.len = N /\ q.buf.crc = v /\ q.buf.data = <<v, 1>>
    BY <1>4, <1>6, HeadsAre
  <2>2. v \in Values /\ N \in Nat /\ N > 0 /\ N = Size[v]
    BY <1>6, LayoutFields DEF Laid, Long
  <2>3. Content(p, n) = Verified(Loop(Gather, m, 1, N - 1), v)
    BY <1>3, <1>4, <2>1, Constants DEF ContentAt
  <2>4. m \in Readers /\ Running(m) /\ m.p = p /\ m.at = q.at /\ m.buf = q.buf
        /\ m.out = PiecesOf(v, 1)
    <3>1. <<q.buf.data>> = PiecesOf(v, 1) /\ PiecesOf(v, 1) \in Seq(Pieces)
      <4> HIDE DEF v
      <4>1. 1 \in Nat \ {0}
        OBVIOUS
      <4>2. PiecesOf(v, 1) = <<<<v, 1>>>> /\ PiecesOf(v, 1) \in Seq(Pieces)
        BY <2>2, <4>1, PiecesAre
      <4> QED
        BY <2>1, <4>2
    <3> QED
      BY <1>4, <3>1 DEF Readers, Machines, Running
  <2> HIDE DEF m
  <2>5. PICK h \in [Nat -> Readers] :
          /\ h[0] = m
          /\ \A k \in Nat : h[k + 1] = Gather(h[k], 1 + k)
          /\ \A last \in Int :
               Loop(Gather, m, 1, last) = h[IF 1 <= last THEN last - 1 + 1 ELSE 0]
    BY <2>4, GathersRun
  <2> DEFINE G == [j \in Nat |-> IF j < N THEN Gathered(p, L, n, j) ELSE Readers]
  <2>6. h[0] \in G[0]
    <3>1. m \in Gathered(p, L, n, 0)
      BY <2>1, <2>4 DEF Gathered
    <3> QED
      BY <2>2, <2>5, <3>1
  <2>7. ASSUME NEW j \in Nat, h[j] \in G[j] PROVE h[j + 1] \in G[j + 1]
    <3>1. CASE j + 1 < N
      <4>1. h[j] \in Gathered(p, L, n, j) /\ h[j + 1] = Gather(h[j], 1 + j)
        BY <2>2, <2>5, <2>7, <3>1
      <4>2. h[j + 1] \in Gathered(p, L, n, j + 1)
        BY <1>6, <3>1, <4>1, GatherDoes
      <4> QED
        BY <3>1, <4>2
    <3>2. CASE ~ (j + 1 < N)
      BY <2>5, <3>2
    <3> QED
      BY <3>1, <3>2
  <2>8. \A j \in Nat : h[j] \in G[j]
    BY <2>6, <2>7, KeptAlong
  <2>9. h[N - 1] \in Gathered(p, L, n, N - 1)
    <3>1. N - 1 \in Nat /\ N - 1 < N
      BY <2>2
    <3> QED
      BY <2>8, <3>1
  <2>10. Loop(Gather, m, 1, N - 1) = h[N - 1]
    <3>1. N - 1 \in Int /\ (IF 1 <= N - 1 THEN (N - 1) - 1 + 1 ELSE 0) = N - 1
      BY <2>2
    <3> QED
      BY <2>5, <3>1
  <2>11. Running(h[N - 1]) /\ h[N - 1].out = PiecesOf(v, N)
    <3>1. (N - 1) + 1 = N
      BY <2>2
    <3> QED
      BY <2>9, <3>1 DEF Gathered
  <2> QED
    BY <1>6, <2>2, <2>3, <2>10, <2>11 DEF Verified, PiecesOf
<1> QED
  BY <1>5, <1>6

\* The sectors a record is found to have, by following it from its head.
LEMMA FollowsRun ==
  ASSUME NEW p \in GoodPartitions, NEW c0 \in SUBSET Sectors
  PROVE  LET Follow(c, k) == c \cup ({p.sector[s].next : s \in c} \ {None})
         IN  \E h \in [Nat -> SUBSET Sectors] :
               /\ h[0] = c0
               /\ \A k \in Nat : h[k + 1] = h[k] \cup ({p.sector[s].next : s \in h[k]} \ {None})
               /\ \A last \in Int :
                    Loop(Follow, c0, 2, last) = h[IF 2 <= last THEN last - 2 + 1 ELSE 0]
<1> DEFINE Follow(c, k) == c \cup ({p.sector[s].next : s \in c} \ {None})
           M == SUBSET Sectors
           B == [x \in M \X Nat |-> Follow(x[1], x[2])]
<1>0. \A c \in M : \A k : Follow(c, k) \in M
  BY PartitionFields, SectorFields DEF Places
<1>1. B \in [M \X Nat -> M]
  BY <1>0
<1>2. PICK g \in [Nat -> M] : Iterates(g, B, c0, 2)
  BY <1>1, IteratesExists
<1>3. g = [k \in Nat |-> IF k = 0 THEN c0 ELSE Follow(g[k - 1], 2 + k - 1)]
  <2>1. \A k \in Nat : k # 0 => g[k - 1] \in M /\ 2 + k - 1 \in Nat
    BY <1>2
  <2>2. \A k \in Nat : k # 0 =>
          B[<<g[k - 1], 2 + k - 1>>] = Follow(g[k - 1], 2 + k - 1)
    BY <2>1
  <2> HIDE DEF B
  <2> QED
    BY <1>2, <2>2 DEF Iterates
<1> DEFINE h == CHOOSE f :
             f = [k \in Nat |-> IF k = 0 THEN c0 ELSE Follow(f[k - 1], 2 + k - 1)]
<1>4. h = [k \in Nat |-> IF k = 0 THEN c0 ELSE Follow(h[k - 1], 2 + k - 1)]
  BY <1>3
<1>5. ASSUME NEW last \in Int
      PROVE  Loop(Follow, c0, 2, last) = h[IF 2 <= last THEN last - 2 + 1 ELSE 0]
  BY DEF Loop
<1> HIDE DEF h
<1>6. h[0] = c0
  BY <1>4
<1>7. \A k \in Nat : h[k + 1] = Follow(h[k], 2)
  <2> TAKE k \in Nat
  <2>1. k + 1 \in Nat /\ k + 1 # 0 /\ (k + 1) - 1 = k
    OBVIOUS
  <2> QED
    BY <1>4, <2>1
<1>8. \A k \in Nat : h[k] \in M => h[k + 1] \in M
  BY <1>0, <1>7
<1>9. h = [k \in Nat |-> h[k]]
  BY <1>4
<1>10. h \in [Nat -> M]
  BY <1>6, <1>8, <1>9, StaysIn
<1> QED
  BY <1>5, <1>6, <1>7, <1>10

\* Following a record from its head finds the sectors of its layout.
LEMMA RecordSectorsAre ==
  ASSUME NEW p, NEW L, Laid(p, L), NEW n \in Names
  PROVE  RecordSectors(p, n) = {L.piece[n][k] : k \in 1 .. Long(L, n)}
<1> DEFINE b == Begin(p, {})
           q == Seek(b, n)
           f == L.piece[n]
           N == Long(L, n)
           T(j) == {f[k] : k \in 1 .. j + 1}
<1>1. /\ b \in Readers /\ Running(b) /\ b.p = p /\ p \in GoodPartitions
  BY FreeSectorIsGood DEF Begin, Readers, Machines, Running, Places, Stands, Laid
<1>2. q \in Sought(Pieces, b, L, n)
  BY <1>1, SeekFinds DEF Readers
<1>3. RecordSectors(p, n) = SectorsFrom(p, q)
  BY DEF RecordSectors
<1> HIDE DEF q, b
<1>4. /\ Running(q)
      /\ L.val[n] = Nothing => q.at = None
      /\ L.val[n] # Nothing => q.at = f[1] /\ q.buf = p.sector[f[1]]
  BY <1>1, <1>2 DEF Sought
<1>5. /\ L \in Layouts /\ N \in Nat /\ (L.val[n] # Nothing <=> N > 0)
      /\ f \in [Nat -> Sectors]
  BY LayoutFields DEF Laid
<1>6. CASE L.val[n] = Nothing
  <2>1. RecordSectors(p, n) = {}
    BY <1>3, <1>4, <1>6 DEF SectorsFrom
  <2>2. 1 .. N = {}
    BY <1>5, <1>6
  <2> QED
    BY <2>1, <2>2
<1>7. CASE L.val[n] # Nothing
  <2>1. f[1] \in Sectors /\ q.at = f[1] /\ q.buf.len = N
    BY <1>4, <1>7, HeadsAre
  <2> DEFINE Follow(c, k) == c \cup ({p.sector[s].next : s \in c} \ {None})
  <2>2. RecordSectors(p, n) = Loop(Follow, {f[1]}, 2, N)
    BY <1>3, <1>4, <2>1, Constants DEF SectorsFrom
  <2>3. PICK h \in [Nat -> SUBSET Sectors] :
          /\ h[0] = {f[1]}
          /\ \A k \in Nat : h[k + 1] = h[k] \cup ({p.sector[s].next : s \in h[k]} \ {None})
          /\ \A last \in Int :
               Loop(Follow, {f[1]}, 2, last) = h[IF 2 <= last THEN last - 2 + 1 ELSE 0]
    <3>1. {f[1]} \in SUBSET Sectors
      BY <2>1
    <3> QED
      BY <1>1, <3>1, FollowsRun
  <2>4. RecordSectors(p, n) = h[N - 1]
    <3>1. N \in Int /\ (IF 2 <= N THEN N - 2 + 1 ELSE 0) = N - 1
      BY <1>5, <1>7
    <3> QED
      BY <2>2, <2>3, <3>1
  <2>5. \A k \in 1 .. N : p.sector[f[k]].next = Place(f, k + 1, N)
    BY DEF Laid, Placed, IsPiece
  <2> HIDE DEF f, Follow
  <2> DEFINE G == [j \in Nat |-> IF j < N THEN {T(j)} ELSE SUBSET Sectors]
  <2>6. h[0] \in G[0]
    <3>1. T(0) = {f[1]}
      OBVIOUS
    <3> QED
      BY <1>5, <1>7, <2>3, <3>1
  <2>7. ASSUME NEW j \in Nat, h[j] \in G[j] PROVE h[j + 1] \in G[j + 1]
    <3>1. CASE j + 1 < N
      <4>1. h[j] = T(j)
        BY <1>5, <2>7, <3>1
      <4>2. ASSUME NEW k \in 1 .. j + 1 PROVE p.sector[f[k]].next = f[k + 1]
        <5>1. k \in 1 .. N /\ k + 1 <= N /\ k + 1 \in Nat
          BY <1>5, <3>1
        <5> QED
          BY <2>5, <5>1 DEF Place
      <4>3. ASSUME NEW k \in 1 .. j + 1 PROVE f[k + 1] \in Sectors /\ f[k + 1] # None
        BY <1>5, Constants DEF f
      <4>4. {p.sector[s].next : s \in T(j)} \ {None} = {f[k + 1] : k \in 1 .. j + 1}
        BY <4>2, <4>3
      <4>5. T(j) \cup {f[k + 1] : k \in 1 .. j + 1} = T(j + 1)
        <5>1. ASSUME NEW k \in 1 .. (j + 1) + 1
              PROVE  k \in 1 .. j + 1 \/ (k - 1 \in 1 .. j + 1 /\ k = (k - 1) + 1)
          OBVIOUS
        <5>2. \A k \in 1 .. j + 1 : k \in 1 .. (j + 1) + 1 /\ k + 1 \in 1 .. (j + 1) + 1
          OBVIOUS
        <5> QED
          BY <5>1, <5>2
      <4>6. h[j + 1] = T(j + 1)
        <5> HIDE DEF T
        <5> QED
          BY <2>3, <4>1, <4>4, <4>5
      <4> QED
        BY <3>1, <4>6
    <3>2. CASE ~ (j + 1 < N)
      BY <2>3, <3>2
    <3> QED
      BY <3>1, <3>2
  <2>8. \A j \in Nat : h[j] \in G[j]
    BY <2>6, <2>7, KeptAlong
  <2>9. h[N - 1] = T(N - 1)
    <3>1. N - 1 \in Nat /\ N - 1 < N
      BY <1>5, <1>7
    <3> QED
      BY <2>8, <3>1
  <2>10. (N - 1) + 1 = N
    BY <1>5
  <2> QED
    BY <2>4, <2>9, <2>10 DEF f
<1> QED
  BY <1>6, <1>7

\* Every sector that is not free belongs to one record, and a free one to none.
LEMMA SectorsCounted ==
  ASSUME NEW p, Whole(p), NEW s \in Sectors
  PROVE  Cardinality({n \in Names : s \in RecordSectors(p, n)})
           = IF s \in FreeBitmap(p) THEN 0 ELSE 1
<1> DEFINE C == {n \in Names : s \in RecordSectors(p, n)}
<1>1. PICK L \in Layouts : Laid(p, L)
  BY DEF Whole
<1>2. \A n \in Names : s \in RecordSectors(p, n) <=> \E k \in 1 .. Long(L, n) : s = L.piece[n][k]
  BY <1>1, RecordSectorsAre
<1>3. s \in FreeBitmap(p) <=> Idle(L, s)
  BY <1>1, IdleIsFree
<1>4. CASE Idle(L, s)
  <2>1. C = {}
    BY <1>2, <1>4 DEF Idle
  <2>2. Cardinality({}) = 0
    BY FS_EmptySet
  <2> QED
    BY <1>3, <1>4, <2>1, <2>2
<1>5. CASE ~ Idle(L, s)
  <2>1. PICK n \in Names : \E k \in 1 .. Long(L, n) : s = L.piece[n][k]
    BY <1>5 DEF Idle
  <2>2. \A m \in Names : s \in RecordSectors(p, m) <=> m = n
    BY <1>1, <1>2, <2>1 DEF Laid, Apart
  <2>3. C = {n}
    BY <2>2
  <2>4. Cardinality({n}) = 1
    BY FS_Singleton
  <2> QED
    BY <1>3, <1>5, <2>3, <2>4
<1> QED
  BY <1>4, <1>5

-----------------------------------------------------------------------------
(* Formatting and copying.                                                    *)

\* One list of writes after the other, on one partition.
LEMMA LeadsJoin ==
  ASSUME NEW a \in Seq(Writes), NEW b \in Seq(Writes), NEW p, NEW q, NEW r,
         Leads(p, a, q), Leads(q, b, r)
  PROVE  Leads(p, a \o b, r)
<1> DEFINE n == Len(a)
           m == Len(b)
           c == a \o b
<1>1. PICK h \in [0 .. n -> GoodPartitions] :
        /\ h[0] = p /\ h[n] = q
        /\ \A k \in 1 .. n : h[k] = Written(h[k - 1], a[k])
  BY DEF Leads
<1>2. PICK f \in [0 .. m -> GoodPartitions] :
        /\ f[0] = q /\ f[m] = r
        /\ \A k \in 1 .. m : f[k] = Written(f[k - 1], b[k])
  BY DEF Leads
<1>3. /\ n \in Nat /\ m \in Nat /\ Len(c) = n + m
      /\ \A k \in 1 .. n : c[k] = a[k]
      /\ \A k \in n + 1 .. n + m : c[k] = b[k - n]
  OBVIOUS
<1> HIDE DEF n, m, c
<1> DEFINE g == [k \in 0 .. n + m |-> IF k <= n THEN h[k] ELSE f[k - n]]
<1>4. g \in [0 .. n + m -> GoodPartitions]
  BY <1>1, <1>2, <1>3
<1>5. /\ \A k \in 0 .. n : g[k] = h[k]
      /\ \A k \in n .. n + m : g[k] = f[k - n]
  <2>1. \A k \in 0 .. n : g[k] = h[k]
    BY <1>3
  <2>2. ASSUME NEW k \in n .. n + m PROVE g[k] = f[k - n]
    <3>1. CASE k = n
      <4>1. g[k] = h[n] /\ k - n = 0
        BY <1>3, <3>1
      <4> QED
        BY <1>1, <1>2, <4>1
    <3>2. CASE k # n
      BY <1>3, <3>2
    <3> QED
      BY <3>1, <3>2
  <2> QED
    BY <2>1, <2>2
<1> HIDE DEF g
<1>6. g[0] = p /\ g[n + m] = r
  <2>1. 0 \in 0 .. n /\ n + m \in n .. n + m /\ (n + m) - n = m
    BY <1>3
  <2> QED
    BY <1>1, <1>2, <1>5, <2>1
<1>7. ASSUME NEW k \in 1 .. n + m PROVE g[k] = Written(g[k - 1], c[k])
  <2>1. CASE k \in 1 .. n
    <3>1. k \in 0 .. n /\ k - 1 \in 0 .. n
      BY <1>3, <2>1
    <3> QED
      BY <1>1, <1>3, <1>5, <2>1, <3>1
  <2>2. CASE k \in n + 1 .. n + m
    <3>1. /\ k \in n .. n + m /\ k - 1 \in n .. n + m /\ k - n \in 1 .. m
          /\ (k - 1) - n = (k - n) - 1
      BY <1>3, <2>2
    <3>2. g[k] = f[k - n] /\ g[k - 1] = f[(k - n) - 1]
      BY <1>5, <3>1
    <3> QED
      BY <1>2, <1>3, <2>2, <3>1, <3>2
  <2> QED
    BY <1>3, <2>1, <2>2
<1>8. Leads(p, c, r)
  BY <1>3, <1>4, <1>6, <1>7 DEF Leads
<1> QED
  BY <1>8 DEF c

\* One write.
LEMMA LeadsBy ==
  ASSUME NEW p \in GoodPartitions, NEW w \in Writes
  PROVE  <<w>> \in Seq(Writes) /\ Leads(p, <<w>>, Written(p, w))
<1>1. <<w>> \in Seq(Writes) /\ Append(<<>>, w) = <<w>> /\ <<>> \in Seq(Writes)
  OBVIOUS
<1> QED
  BY <1>1, LeadsNowhere, LeadsFurther

\* All sectors are written, in their order.
LEMMA SectorsWritten ==
  ASSUME NEW p \in GoodPartitions, NEW f \in [Sectors -> GoodSectors]
  PROVE  LET all == [i \in 1 .. NSectors |-> SectorWrite(i - 1, f[i - 1])]
         IN  all \in Seq(Writes) /\ Leads(p, all, [p EXCEPT !.sector = f])
<1> DEFINE all == [i \in 1 .. NSectors |-> SectorWrite(i - 1, f[i - 1])]
           past(k) == [s \in Sectors |-> IF s < k THEN f[s] ELSE p.sector[s]]
           h == [k \in 0 .. NSectors |-> [p EXCEPT !.sector = past(k)]]
<1>1. /\ NSectors \in Nat /\ p.sector \in [Sectors -> GoodSectors]
      /\ \A i \in 1 .. NSectors : i - 1 \in Sectors /\ i - 1 \in Places
      /\ \A s \in Sectors : s \in Nat /\ s < NSectors
  BY Constants, PartitionFields DEF Sectors, Places
<1>2. \A k \in 0 .. NSectors : past(k) \in [Sectors -> GoodSectors]
  BY <1>1
<1>3. all \in Seq(Writes) /\ Len(all) = NSectors
  BY <1>1, WritesAre
<1>4. h \in [0 .. NSectors -> GoodPartitions]
  BY <1>2 DEF GoodPartitions
<1>5. h[0] = p
  <2>1. past(0) = p.sector /\ 0 \in 0 .. NSectors
    BY <1>1
  <2>2. [p EXCEPT !.sector = p.sector] = p
    BY DEF GoodPartitions
  <2> HIDE DEF past
  <2> QED
    BY <2>1, <2>2
<1>6. h[NSectors] = [p EXCEPT !.sector = f]
  <2>1. past(NSectors) = f /\ NSectors \in 0 .. NSectors
    BY <1>1
  <2> HIDE DEF past
  <2> QED
    BY <2>1
<1>7. ASSUME NEW k \in 1 .. NSectors PROVE h[k] = Written(h[k - 1], all[k])
  <2>1. k \in 0 .. NSectors /\ k - 1 \in 0 .. NSectors /\ k - 1 \in Sectors /\ k \in Nat
    BY <1>1
  <2>2. past(k) = [past(k - 1) EXCEPT ![k - 1] = f[k - 1]]
    <3>1. ASSUME NEW s \in Sectors
          PROVE  past(k)[s] = [past(k - 1) EXCEPT ![k - 1] = f[k - 1]][s]
      <4>1. CASE s = k - 1
        BY <1>1, <2>1, <4>1
      <4>2. CASE s # k - 1
        <5>1. s < k <=> s < k - 1
          BY <1>1, <2>1, <4>2
        <5> QED
          BY <2>1, <4>2, <5>1
      <4> QED
        BY <4>1, <4>2
    <3> QED
      BY <3>1
  <2>3. all[k] = SectorWrite(k - 1, f[k - 1])
    OBVIOUS
  <2>4. past(k - 1) \in [Sectors -> GoodSectors]
    BY <1>2, <2>1
  <2>5. h[k - 1] = [p EXCEPT !.sector = past(k - 1)] /\ h[k] = [p EXCEPT !.sector = past(k)]
    BY <2>1
  <2> HIDE DEF past, h, all
  <2>6. Written(h[k - 1], all[k]) = [h[k - 1] EXCEPT !.sector[k - 1] = f[k - 1]]
    BY <2>3 DEF Written, SectorWrite
  <2>7. h[k - 1].sector = past(k - 1) /\ h[k - 1] \in GoodPartitions
    BY <1>4, <2>1, <2>4, <2>5 DEF GoodPartitions
  <2>8. [h[k - 1] EXCEPT !.sector[k - 1] = f[k - 1]]
          = [h[k - 1] EXCEPT !.sector = [past(k - 1) EXCEPT ![k - 1] = f[k - 1]]]
    BY <2>7
  <2> QED
    BY <2>2, <2>5, <2>6, <2>8 DEF GoodPartitions
<1> HIDE DEF h, all
<1>8. Leads(p, all, [p EXCEPT !.sector = f])
  BY <1>3, <1>4, <1>5, <1>6, <1>7 DEF Leads
<1> QED
  BY <1>3, <1>8 DEF all

\* A partition just formatted.
Blank ==
  [head |-> TRUE, table |-> EmptyTable, crc |-> EmptyTable,
   sector |-> [s \in Sectors |-> FreeSector]]

\* It holds nothing.
LEMMA BlankIs ==
  /\ Blank \in GoodPartitions /\ EmptyTable \in Tables
  /\ Holds(Blank, [n \in Names |-> Nothing])
<1> DEFINE L == [val |-> [n \in Names |-> Nothing],
                 piece |-> [n \in Names |-> [k \in Nat |-> 0]],
                 chain |-> [b \in Bins |-> <<>>]]
<1>1. EmptyTable \in Tables
  BY DEF EmptyTable, Tables, Places
<1>2. Blank \in GoodPartitions
  BY <1>1, FreeSectorIsGood DEF Blank, GoodPartitions
<1>3. L \in Layouts
  <2>1. 0 \in Sectors /\ <<>> \in Seq(Names)
    BY Constants DEF Sectors
  <2> QED
    BY <2>1 DEF Layouts
<1>4. /\ \A n \in Names : Long(L, n) = 0 /\ 1 .. Long(L, n) = {} /\ L.val[n] = Nothing
                          /\ 2 .. Long(L, n) = {}
      /\ \A b \in Bins : L.chain[b] = <<>> /\ 1 .. Len(L.chain[b]) = {}
  BY DEF Long
<1>5. L.val = [n \in Names |-> Nothing]
  OBVIOUS
<1> HIDE DEF L
<1>6. Apart(L) /\ ZeroIsHead(L)
  BY <1>4 DEF Apart, ZeroIsHead
<1>7. \A n \in Names : Placed(Blank, L, n)
  BY <1>4 DEF Placed
<1>8. \A b \in Bins : Chained(Blank, L, b)
  <2> TAKE b \in Bins
  <2>1. Blank.table[b] = None
    BY DEF Blank, EmptyTable
  <2> QED
    BY <1>4, <2>1 DEF Chained, ChainIs
<1>9. \A s \in Sectors : Blank.sector[s].good /\ Blank.sector[s].status = "FREE"
  BY DEF Blank, FreeSector
<1>10. Blank.head /\ Blank.crc = Blank.table
  BY DEF Blank
<1>11. Laid(Blank, L)
  BY <1>2, <1>3, <1>6, <1>7, <1>8, <1>9, <1>10 DEF Laid
<1> QED
  BY <1>1, <1>2, <1>3, <1>5, <1>11 DEF Holds

\* STEEPROM_FormatPartition
LEMMA FormatLeads ==
  ASSUME NEW p \in GoodPartitions
  PROVE  Format \in Seq(Writes) /\ Leads(p, Format, Blank)
<1> DEFINE f == [s \in Sectors |-> FreeSector]
           a == <<HeaderWrite(FALSE)>>
           b == [i \in 1 .. NSectors |-> SectorWrite(i - 1, f[i - 1])]
           x == HeaderWrite(TRUE)
           y == TableWrite(EmptyTable)
           z == CrcWrite(EmptyTable)
           p1 == Written(p, HeaderWrite(FALSE))
           p2 == [p1 EXCEPT !.sector = f]
           p3 == Written(p2, x)
           p4 == Written(p3, y)
           p5 == Written(p4, z)
<1>1. /\ HeaderWrite(FALSE) \in Writes /\ x \in Writes /\ y \in Writes /\ z \in Writes
  BY BlankIs, WritesAre
<1>2. f \in [Sectors -> GoodSectors]
  BY FreeSectorIsGood
<1>3. p1 \in GoodPartitions /\ p1 = [p EXCEPT !.head = FALSE]
  BY <1>1, WrittenType DEF Written, HeaderWrite
<1>4. p2 \in GoodPartitions /\ p2 = [[p EXCEPT !.head = FALSE] EXCEPT !.sector = f]
  BY <1>2, <1>3 DEF GoodPartitions
<1>5. p3 \in GoodPartitions /\ p3 = [p2 EXCEPT !.head = TRUE]
  BY <1>1, <1>4, WrittenType DEF Written, HeaderWrite
<1>6. p4 \in GoodPartitions /\ p4 = [p3 EXCEPT !.table = EmptyTable]
  BY <1>1, <1>5, WrittenType DEF Written, TableWrite
<1>7. p5 \in GoodPartitions /\ p5 = [p4 EXCEPT !.crc = EmptyTable]
  BY <1>1, <1>6, WrittenType DEF Written, CrcWrite
<1> HIDE DEF p1, p2, p3, p4, p5, f, x, y, z
<1>8. p5 = Blank
  <2>1. p2 = [head |-> FALSE, table |-> p.table, crc |-> p.crc, sector |-> f]
    BY <1>4 DEF GoodPartitions
  <2>2. p3 = [head |-> TRUE, table |-> p.table, crc |-> p.crc, sector |-> f]
    BY <1>5, <2>1
  <2>3. p5 = [head |-> TRUE, table |-> EmptyTable, crc |-> EmptyTable, sector |-> f]
    BY <1>6, <1>7, <2>2
  <2> QED
    BY <2>3 DEF Blank, f
<1>9. \A i \in 1 .. NSectors : f[i - 1] = FreeSector
  BY Constants DEF f, Sectors
<1>10. Format = a \o b \o <<x, y, z>>
  BY <1>9 DEF Format, x, y, z
<1>11. a \in Seq(Writes) /\ Leads(p, a, p1)
  BY <1>1, LeadsBy DEF p1
<1>12. b \in Seq(Writes) /\ Leads(p1, b, p2)
  BY <1>2, <1>3, SectorsWritten DEF p2
<1>13. <<x, y, z>> \in Seq(Writes) /\ Leads(p2, <<x, y, z>>, p5)
  <2>1. /\ <<x>> \in Seq(Writes) /\ Leads(p2, <<x>>, p3)
        /\ <<y>> \in Seq(Writes) /\ Leads(p3, <<y>>, p4)
        /\ <<z>> \in Seq(Writes) /\ Leads(p4, <<z>>, p5)
    BY <1>1, <1>4, <1>5, <1>6, LeadsBy DEF p3, p4, p5
  <2>2. <<x, y>> \in Seq(Writes) /\ Leads(p2, <<x, y>>, p4)
    <3>1. <<x, y>> = Append(<<x>>, y)
      BY <1>1
    <3>2. <<x, y>> \in Seq(Writes)
      BY <1>1
    <3>3. Leads(p2, Append(<<x>>, y), p4)
      BY <1>1, <1>5, <2>1, LeadsFurther DEF p4
    <3> QED
      BY <3>1, <3>2, <3>3
  <2>3. Leads(p2, <<x, y, z>>, p5)
    <3>1. <<x, y, z>> = Append(<<x, y>>, z)
      BY <1>1
    <3>2. Leads(p2, Append(<<x, y>>, z), p5)
      BY <1>1, <1>6, <2>2, LeadsFurther DEF p5
    <3> QED
      BY <3>1, <3>2
  <2>4. <<x, y, z>> \in Seq(Writes)
    BY <1>1
  <2> QED
    BY <2>3, <2>4
<1> HIDE DEF a, b
<1>14. a \o b \in Seq(Writes) /\ Leads(p, a \o b, p2)
  BY <1>11, <1>12, LeadsJoin
<1> DEFINE c == a \o b
           d == <<x, y, z>>
<1>15. Format = c \o d
  BY <1>10
<1>16. c \in Seq(Writes) /\ d \in Seq(Writes) /\ Leads(p, c, p2) /\ Leads(p2, d, p5)
  BY <1>13, <1>14
<1> HIDE DEF c, d
<1>17. c \o d \in Seq(Writes) /\ Leads(p, c \o d, p5)
  BY <1>16, LeadsJoin
<1> QED
  BY <1>8, <1>15, <1>17

\* __copy_bytes, to a partition that was formatted
LEMMA CopyLeads ==
  ASSUME NEW q \in GoodPartitions, q.head
  PROVE  Copy(q) \in Seq(Writes) /\ Leads(Blank, Copy(q), q)
<1> DEFINE b == [i \in 1 .. NSectors |-> SectorWrite(i - 1, q.sector[i - 1])]
           x == TableWrite(q.table)
           y == CrcWrite(q.crc)
           p1 == Written(Blank, x)
           p2 == Written(p1, y)
           p3 == [p2 EXCEPT !.sector = q.sector]
<1>1. x \in Writes /\ y \in Writes /\ q.sector \in [Sectors -> GoodSectors]
  BY PartitionFields, WritesAre
<1>2. p1 \in GoodPartitions /\ p1 = [Blank EXCEPT !.table = q.table]
  BY <1>1, BlankIs, WrittenType DEF Written, TableWrite
<1>3. p2 \in GoodPartitions /\ p2 = [p1 EXCEPT !.crc = q.crc]
  BY <1>1, <1>2, WrittenType DEF Written, CrcWrite
<1> HIDE DEF p1, p2, x, y
<1>4. p3 = q
  <2>1. p1 = [head |-> TRUE, table |-> q.table, crc |-> EmptyTable,
              sector |-> [s \in Sectors |-> FreeSector]]
    BY <1>2 DEF Blank
  <2>4. p2 = [head |-> TRUE, table |-> q.table, crc |-> q.crc,
              sector |-> [s \in Sectors |-> FreeSector]]
    BY <1>3, <2>1
  <2>2. p3 = [head |-> TRUE, table |-> q.table, crc |-> q.crc, sector |-> q.sector]
    <3> DEFINE f == q.sector
               u == q.table
               c == q.crc
    <3>1. /\ p2 = [head |-> TRUE, table |-> u, crc |-> c,
                   sector |-> [s \in Sectors |-> FreeSector]]
          /\ p3 = [p2 EXCEPT !.sector = f]
      BY <2>4
    <3> HIDE DEF f, u, c, p3
    <3>2. p3 = [head |-> TRUE, table |-> u, crc |-> c, sector |-> f]
      BY <3>1
    <3> QED
      BY <3>2 DEF f, u, c
  <2>3. q = [head |-> TRUE, table |-> q.table, crc |-> q.crc, sector |-> q.sector]
    BY DEF GoodPartitions
  <2> QED
    BY <2>2, <2>3
<1>5. /\ <<x>> \in Seq(Writes) /\ Leads(Blank, <<x>>, p1)
      /\ <<y>> \in Seq(Writes) /\ Leads(p1, <<y>>, p2)
  BY <1>1, <1>2, BlankIs, LeadsBy DEF p1, p2
<1>6. b \in Seq(Writes) /\ Leads(p2, b, p3)
  BY <1>1, <1>3, SectorsWritten
<1> HIDE DEF b, p3
<1>7. <<x, y>> = Append(<<x>>, y) /\ <<x, y>> \in Seq(Writes)
  BY <1>1
<1>8. Leads(Blank, Append(<<x>>, y), p2)
  BY <1>1, <1>2, <1>5, LeadsFurther DEF p2
<1> DEFINE a == <<x, y>>
<1>10. Copy(q) = a \o b
  BY DEF Copy, x, y, b
<1>11. a \in Seq(Writes) /\ Leads(Blank, a, p2)
  BY <1>7, <1>8
<1> HIDE DEF a
<1>9. a \o b \in Seq(Writes) /\ Leads(Blank, a \o b, p3)
  BY <1>6, <1>11, LeadsJoin
<1> QED
  BY <1>4, <1>9, <1>10

-----------------------------------------------------------------------------
(* The pair of partitions until the power fails during a call.                *)

\* The records of every formatted partition are in order, and the bitmap of a
\* partition in use is exact.
Orderly(p) == \A i \in Copies : p[i].head => Whole(p[i])

Tidy(p, k, f) ==
  Orderly(p) /\ \A i \in Copies : k[i] => p[i].head /\ f[i] = FreeBitmap(p[i])

TidyRest ==
  /\ part \in Pairs /\ ok \in [Copies -> BOOLEAN] /\ free \in [Copies -> SUBSET Sectors]
  /\ Tidy(part, ok, free)

\* What a call has worked out that will return, with the copies of fresh still
\* untouched.
Smooth(fresh) ==
  {c \in Outcomes :
     /\ c.end = "return"
     /\ \E goal \in Pairs :
          /\ Turns(part, c.todo, goal)
          /\ Tidy(goal, c.ok, c.free)
          /\ \A i \in fresh : goal[i] = part[i] /\ c.ok[i] = ok[i]}

\* The fewer copies are still to be written, the weaker the requirement.
LEMMA SmoothFewer == \A f, g : g \subseteq f => Smooth(f) \subseteq Smooth(g)
  BY DEF Smooth

\* A partition whose records are in order passes every check, and each of its
\* records is there or not.
LEMMA WholeIs ==
  ASSUME NEW p, Whole(p)
  PROVE  /\ p \in GoodPartitions /\ p.head /\ OpenPartition(p) /\ Good(p)
         /\ \A n \in Names : Content(p, n).end \in {"true", "absent"}
<1>1. PICK L \in Layouts : Laid(p, L)
  BY DEF Whole
<1>2. p \in GoodPartitions /\ p.head /\ OpenPartition(p)
  BY <1>1 DEF Laid, OpenPartition
<1>3. ASSUME NEW s \in Sectors PROVE p.sector[s].good
  <2>1. CASE Idle(L, s)
    BY <1>1, <2>1 DEF Laid
  <2>2. CASE ~ Idle(L, s)
    BY <1>1, <2>2 DEF Laid, Placed, Idle, IsPiece
  <2> QED
    BY <2>1, <2>2
<1>4. Good(p)
  BY <1>2, <1>3 DEF Good, CheckPartition
<1>5. ASSUME NEW n \in Names PROVE Content(p, n).end \in {"true", "absent"}
  <2>1. \/ Content(p, n) = [end |-> "true", value |-> L.val[n]]
        \/ Content(p, n) = NoContent("absent")
    BY <1>1, ContentDoes
  <2> QED
    BY <2>1 DEF NoContent
<1> QED
  BY <1>2, <1>4, <1>5

\* A call that has written nothing yet.
LEMMA LeavesAre ==
  ASSUME TidyRest
  PROVE  LET c == [Leaves EXCEPT !.end = "return"]
         IN  /\ c = Leaves /\ c \in Outcomes /\ c.todo = <<>> /\ c.ok = ok /\ c.free = free
             /\ c.end = "return"
<1> DEFINE d == [todo |-> <<>>, ok |-> ok, free |-> free, end |-> "return", healed |-> TRUE]
<1>1. Leaves = d
  BY DEF Leaves
<1>2. \A h : [[todo |-> <<>>, ok |-> ok, free |-> free, end |-> "return", healed |-> h]
                EXCEPT !.end = "return"]
               = [todo |-> <<>>, ok |-> ok, free |-> free, end |-> "return", healed |-> h]
  OBVIOUS
<1>3. [d EXCEPT !.end = "return"] = d
  BY <1>2, Zenon
<1>4. d \in Outcomes
  BY DEF TidyRest, Outcomes, Ends
<1>5. d.todo = <<>> /\ d.ok = ok /\ d.free = free /\ d.end = "return"
  OBVIOUS
<1> HIDE DEF d
<1> QED
  BY <1>1, <1>3, <1>4, <1>5

\* What it leaves.
LEMMA LeavesSmooth ==
  ASSUME TidyRest
  PROVE  Leaves \in Smooth(Copies) /\ [Leaves EXCEPT !.end = "return"] \in Smooth(Copies)
<1>1. Turns(part, <<>>, part) /\ part \in Pairs /\ Tidy(part, ok, free)
  BY TurnsNowhere DEF TidyRest
<1>2. Leaves \in Smooth(Copies)
  BY <1>1, LeavesAre DEF Smooth
<1> QED
  BY <1>2, LeavesAre

\* One copy's part: it is left tidy, or with a record there was no room for.
LEMMA ShareSmooth ==
  ASSUME TidyRest, NEW fresh \in SUBSET Copies, NEW i \in fresh, ok[i],
         NEW c \in Smooth(fresh), NEW n \in Names, NEW v \in Values, NEW keep \in BOOLEAN
  PROVE  Share(c, i, n, v, keep) \in Smooth(fresh \ {i})
<1>1. PICK goal \in Pairs :
        /\ Turns(part, c.todo, goal)
        /\ Tidy(goal, c.ok, c.free)
        /\ \A j \in fresh : goal[j] = part[j] /\ c.ok[j] = ok[j]
  BY DEF Smooth
<1>2. /\ c \in Outcomes /\ c.todo \in Seq(Steps) /\ c.ok \in [Copies -> BOOLEAN]
      /\ c.free \in [Copies -> SUBSET Sectors] /\ i \in Copies
      /\ part[i] \in GoodPartitions /\ c.end = "return" /\ c.healed \in BOOLEAN
  BY DEF Smooth, Outcomes, TidyRest, Pairs
<1> DEFINE r == WriteRecord(part[i], c.free[i], n, v)
           s == Joined(c, i, r, keep)
           next == [goal EXCEPT ![i] = r.p]
<1>3. Share(c, i, n, v, keep) = s
  BY <1>2 DEF Share
<1>4. c.free[i] = FreeBitmap(part[i]) /\ Whole(part[i])
  BY <1>1, <1>2 DEF Tidy, Orderly
<1>5. /\ r.p \in GoodPartitions /\ r.out \in Seq(Writes) /\ Leads(part[i], r.out, r.p)
      /\ r.free \subseteq Sectors
      /\ r.end = "true" => r.free = FreeBitmap(r.p)
  BY <1>2, <1>4, WriteRecordSane
<1>6. Whole(r.p) /\ r.free = FreeBitmap(r.p) /\ ~ Stuck(r.end)
  <2>1. PICK L \in Layouts : Laid(part[i], L)
    BY <1>4 DEF Whole
  <2> DEFINE t == WriteRecord(part[i], FreeBitmap(part[i]), n, v)
  <2>2. \/ t.end = "true" /\ Holds(t.p, [L.val EXCEPT ![n] = v])
        \/ t.end = "false" /\ t.p = part[i] /\ t.free = FreeBitmap(part[i])
    BY <2>1, WriteRecordDoes
  <2>3. r = t
    BY <1>4
  <2> HIDE DEF r, t
  <2>4. CASE t.end = "true" /\ Holds(t.p, [L.val EXCEPT ![n] = v])
    <3>1. Whole(t.p)
      BY <2>4 DEF Holds, Whole
    <3> QED
      BY <1>5, <2>3, <2>4, <3>1 DEF Stuck
  <2>5. CASE t.end = "false" /\ t.p = part[i] /\ t.free = FreeBitmap(part[i])
    BY <1>4, <2>3, <2>5 DEF Stuck
  <2> QED
    BY <2>2, <2>4, <2>5
<1> HIDE DEF r
<1>7. Turns(goal, In(i, r.out), next) /\ next \in Pairs
  BY <1>1, <1>2, <1>5, TurnsIn
<1>8. In(i, r.out) \in Seq(Steps)
  BY <1>2, <1>5, InType
<1>9. Turns(part, c.todo \o In(i, r.out), next)
  BY <1>1, <1>2, <1>7, <1>8, TurnsJoin
<1>10. c.todo \o In(i, r.out) \in Seq(Steps)
  BY <1>2, <1>8
<1> DEFINE todo == c.todo \o In(i, r.out)
           sok == [c.ok EXCEPT ![i] = keep \/ r.end = "true"]
           sfree == [c.free EXCEPT ![i] = r.free]
           shealed == c.healed /\ (keep => r.end = "true")
<1>11. s = [todo |-> todo, free |-> sfree, ok |-> sok, healed |-> shealed, end |-> "return"]
  BY <1>6 DEF Joined
<1>12. sok \in [Copies -> BOOLEAN] /\ sfree \in [Copies -> SUBSET Sectors]
  BY <1>2, <1>5
<1>13. shealed \in BOOLEAN
  BY <1>2
<1>14. /\ next[i] = r.p /\ sfree[i] = r.free
       /\ \A j \in Copies : j # i => /\ next[j] = goal[j] /\ sfree[j] = c.free[j]
                                     /\ sok[j] = c.ok[j]
  BY <1>2, <1>7 DEF Pairs
<1> HIDE DEF todo, sok, sfree, shealed, next
<1>15. Tidy(next, sok, sfree)
  <2>1. r.p.head
    BY <1>6, WholeIs
  <2>2. ASSUME NEW j \in Copies
        PROVE  /\ next[j].head => Whole(next[j])
               /\ sok[j] => next[j].head /\ sfree[j] = FreeBitmap(next[j])
    <3>1. CASE j = i
      BY <1>6, <1>14, <2>1, <3>1
    <3>2. CASE j # i
      BY <1>1, <1>14, <3>2 DEF Tidy, Orderly
    <3> QED
      BY <3>1, <3>2
  <2> QED
    BY <2>2 DEF Tidy, Orderly
<1>16. s \in Outcomes /\ s.todo = todo /\ s.ok = sok /\ s.free = sfree /\ s.end = "return"
  <2>1. todo \in Seq(Steps) /\ "return" \in Ends
    BY <1>10 DEF todo, Ends
  <2>2. s.todo = todo /\ s.ok = sok /\ s.free = sfree /\ s.end = "return"
    BY <1>11
  <2> QED
    BY <1>11, <1>12, <1>13, <2>1, <2>2 DEF Outcomes
<1> HIDE DEF s
<1>17. \A j \in fresh \ {i} : next[j] = part[j] /\ s.ok[j] = ok[j]
  BY <1>1, <1>14, <1>16
<1>18. s \in Smooth(fresh \ {i})
  BY <1>7, <1>9, <1>15, <1>16, <1>17 DEF Smooth, todo
<1> QED
  BY <1>3, <1>18

\* A copy that is given up counts as unformatted.
LEMMA SpoilingTidy ==
  ASSUME NEW q \in Pairs, NEW i \in Copies, NEW k, NEW f, Tidy(q, k, f), ~ k[i]
  PROVE  /\ In(i, <<Spoil>>) \in Seq(Steps)
         /\ \E r \in Pairs : Turns(q, In(i, <<Spoil>>), r) /\ Tidy(r, k, f)
<1> DEFINE p == q[i]
           s == Written(p, Spoil)
           r == [q EXCEPT ![i] = s]
<1>1. p \in GoodPartitions
  BY DEF Pairs
<1>2. Spoil \in Writes
  BY WritesAre DEF Spoil
<1>3. <<Spoil>> \in Seq(Writes) /\ Leads(p, <<Spoil>>, s)
  BY <1>1, <1>2, LeadsBy
<1>4. s = [p EXCEPT !.head = FALSE]
  BY DEF Written, Spoil, HeaderWrite
<1>5. ~ s.head
  BY <1>1, <1>4 DEF GoodPartitions
<1> HIDE DEF s
<1>6. Turns(q, In(i, <<Spoil>>), r) /\ r \in Pairs
  BY <1>3, TurnsIn
<1>7. r[i] = s /\ \A j \in Copies : j # i => r[j] = q[j]
  BY DEF Pairs
<1> HIDE DEF r
<1>8. ASSUME NEW j \in Copies
      PROVE  /\ r[j].head => Whole(r[j])
             /\ k[j] => r[j].head /\ f[j] = FreeBitmap(r[j])
  <2>1. CASE j = i
    BY <1>5, <1>7, <2>1
  <2>2. CASE j # i
    BY <1>7, <2>2 DEF Tidy, Orderly
  <2> QED
    BY <2>1, <2>2
<1>9. Tidy(r, k, f)
  BY <1>8 DEF Tidy, Orderly
<1> QED
  BY <1>3, <1>6, <1>9, InType

\* What could not be written is spoiled, so it is not in use any more.
LEMMA SpoiledSmooth ==
  ASSUME TidyRest, NEW c \in Smooth({})
  PROVE  Spoiled(c) \in Smooth({})
<1>1. PICK goal \in Pairs : Turns(part, c.todo, goal) /\ Tidy(goal, c.ok, c.free)
  BY DEF Smooth
<1>2. c \in Outcomes /\ c.todo \in Seq(Steps) /\ c.end = "return"
  BY DEF Smooth, Outcomes
<1> DEFINE lost == {i \in Copies : ok[i] /\ ~ c.ok[i]}
           A(i) == IF i \in lost THEN In(i, <<Spoil>>) ELSE <<>>
<1>3. ASSUME NEW i \in Copies, NEW q \in Pairs, Tidy(q, c.ok, c.free)
      PROVE  A(i) \in Seq(Steps) /\ \E r \in Pairs : Turns(q, A(i), r) /\ Tidy(r, c.ok, c.free)
  <2>1. CASE i \in lost
    BY <1>3, <2>1, SpoilingTidy
  <2>2. CASE i \notin lost
    BY <1>3, <2>2, TurnsNowhere
  <2> QED
    BY <2>1, <2>2
<1>4. Spoiling(c) = A(1) \o A(2) /\ 1 \in Copies /\ 2 \in Copies
  BY DEF Spoiling, Copies
<1> HIDE DEF A
<1>5. PICK q \in Pairs : Turns(goal, A(1), q) /\ Tidy(q, c.ok, c.free)
  BY <1>1, <1>3, <1>4
<1>6. PICK r \in Pairs : Turns(q, A(2), r) /\ Tidy(r, c.ok, c.free)
  BY <1>3, <1>4, <1>5
<1>7. A(1) \in Seq(Steps) /\ A(2) \in Seq(Steps)
  BY <1>1, <1>3, <1>4
<1>8. Spoiling(c) \in Seq(Steps)
  BY <1>4, <1>7
<1>9. Turns(goal, Spoiling(c), r)
  BY <1>4, <1>5, <1>6, <1>7, TurnsJoin
<1>10. Turns(part, c.todo \o Spoiling(c), r)
  BY <1>1, <1>2, <1>8, <1>9, TurnsJoin
<1> DEFINE d == [c EXCEPT !.todo = c.todo \o Spoiling(c)]
<1>11. c.todo \o Spoiling(c) \in Seq(Steps)
  BY <1>2, <1>8
<1>12. /\ d \in Outcomes /\ d.todo = c.todo \o Spoiling(c) /\ d.ok = c.ok
       /\ d.free = c.free /\ d.end = c.end
  BY <1>2, <1>11 DEF Outcomes
<1>13. Spoiled(c) = d
  BY <1>2 DEF Spoiled
<1> HIDE DEF d
<1>14. d \in Smooth({})
  BY <1>2, <1>6, <1>10, <1>12 DEF Smooth
<1> QED
  BY <1>13, <1>14

\* The k-th copy in the order, if there is one.
LEMMA TurnSmooth ==
  ASSUME TidyRest, NEW fresh \in SUBSET Copies, NEW c \in Smooth(fresh),
         NEW k \in Nat, NEW order, NEW n \in Names, NEW v \in Values,
         k \in DOMAIN order => order[k] \in fresh /\ ok[order[k]]
  PROVE  /\ k \in DOMAIN order => Turn(c, k, order, n, v) \in Smooth(fresh \ {order[k]})
         /\ k \notin DOMAIN order => Turn(c, k, order, n, v) = c
  BY ShareSmooth DEF Turn

\* The look at both copies before anything is written goes through.
LEMMA CheckedReturns ==
  ASSUME TidyRest, NEW n \in Names
  PROVE  Checked(n) = "return" /\ ~ Stuck(Found(part, ok, present, n).end)
<1>1. ASSUME NEW i \in Copies, ok[i] PROVE Content(part[i], n).end \in {"true", "absent"}
  BY <1>1, WholeIs DEF TidyRest, Tidy, Orderly
<1>2. 1 \in Copies /\ 2 \in Copies
  BY DEF Copies
<1>3. Checked(n) = "return"
  BY <1>1, <1>2 DEF Checked, Either, Stuck
<1> DEFINE c(i) == Lookup(part, ok, present, i, n)
<1>4. ASSUME NEW i \in Copies PROVE c(i).end \in {"true", "absent"}
  BY <1>1 DEF Lookup, NotFound
<1>5. Found(part, ok, present, n) = Better(c(1), c(2))
  BY DEF Found
<1>6. c(1).end \in {"true", "absent"} /\ c(2).end \in {"true", "absent"}
  BY <1>2, <1>4
<1> HIDE DEF c
<1>7. ~ Stuck(Found(part, ok, present, n).end)
  BY <1>5, <1>6 DEF Better, Stuck, NotFound
<1> QED
  BY <1>3, <1>7

\* Dnepr_BPEEPROM_Write
LEMMA WriteSmooth ==
  ASSUME AtRest, TidyRest, NEW n \in Names, NEW v \in Values
  PROVE  Write(n, v) \in Smooth({})
<1> DEFINE order == WriteOrder(n)
           c == [Leaves EXCEPT !.end = Checked(n)]
           first == Turn(c, 1, order, n, v)
           second == Turn(first, 2, order, n, v)
<1>1. c \in Smooth(Copies)
  <2>1. c = [Leaves EXCEPT !.end = "return"]
    BY CheckedReturns
  <2> QED
    BY <2>1, LeavesSmooth
<1>2. Write(n, v) = Spoiled(second)
  BY DEF Write
<1> HIDE DEF c
<1>3. /\ {} \subseteq Copies
      /\ \A i \in Copies : Copies \ {i} \in SUBSET Copies
  OBVIOUS
<1>4. CASE order = <<>>
  <2>1. first = c /\ second = first
    BY <1>4 DEF Turn
  <2> QED
    BY <1>1, <1>2, <1>3, <2>1, SmoothFewer, SpoiledSmooth
<1>5. ASSUME NEW i \in Copies, ok[i], order = <<i>> PROVE Write(n, v) \in Smooth({})
  <2>1. DOMAIN order = {1} /\ order[1] = i
    BY <1>5
  <2> HIDE DEF order
  <2>2. first \in Smooth(Copies \ {i})
    BY <1>1, <1>5, <2>1, TurnSmooth
  <2> HIDE DEF first
  <2>3. second = first
    BY <2>1 DEF Turn
  <2>4. second \in Smooth({})
    BY <2>2, <2>3, SmoothFewer
  <2> QED
    BY <1>2, <2>4, SpoiledSmooth
<1>6. ASSUME NEW i \in Copies, NEW j \in Copies, i # j, ok[i], ok[j], order = <<i, j>>
      PROVE  Write(n, v) \in Smooth({})
  <2>1. DOMAIN order = {1, 2} /\ order[1] = i /\ order[2] = j
    BY <1>6
  <2> HIDE DEF order
  <2>2. first \in Smooth(Copies \ {i})
    BY <1>1, <1>6, <2>1, TurnSmooth
  <2> HIDE DEF first
  <2>3. second \in Smooth((Copies \ {i}) \ {j})
    BY <1>6, <2>1, <2>2, TurnSmooth
  <2>4. second \in Smooth({})
    BY <2>3, SmoothFewer
  <2> QED
    BY <1>2, <2>4, SpoiledSmooth
<1> HIDE DEF order
<1>7. \/ order = <<>>
      \/ \E i \in Copies : ok[i] /\ order = <<i>>
      \/ \E i, j \in Copies : i # j /\ ok[i] /\ ok[j] /\ order = <<i, j>>
  BY OrderIs DEF order
<1> QED
  BY <1>4, <1>5, <1>6, <1>7

\* What Dnepr_BPEEPROM_Read writes back.
LEMMA HealSmooth ==
  ASSUME TidyRest, NEW n \in Names, NEW v \in Values
  PROVE  Heal(n, v) \in Smooth({})
<1>1. Leaves \in Smooth(Copies) /\ 1 \in Copies
  BY LeavesSmooth DEF Copies
<1>2. CASE ~ ok[1] \/ Valid(1, n)
  BY <1>1, <1>2, SmoothFewer DEF Heal
<1>3. CASE ok[1] /\ ~ Valid(1, n)
  <2>1. Share(Leaves, 1, n, v, TRUE) \in Smooth(Copies \ {1})
    BY <1>1, <1>3, ShareSmooth
  <2> QED
    BY <1>3, <2>1, SmoothFewer DEF Heal
<1> QED
  BY <1>2, <1>3

\* Dnepr_BPEEPROM_Init
LEMMA InitOrders ==
  ASSUME part \in Pairs, Orderly(part)
  PROVE  \E goal \in Pairs :
           /\ Turns(part, InitWrites, goal)
           /\ \A i \in Copies : Whole(goal[i])
           /\ \A i \in Copies : part[i].head => goal[i] = part[i]
<1>1. \A i \in Copies : /\ part[i] \in GoodPartitions
                        /\ part[i].head => Whole(part[i])
                        /\ Good(part[i]) <=> part[i].head
  <2>1. \A i \in Copies : part[i] \in GoodPartitions /\ (part[i].head => Whole(part[i]))
    BY DEF Pairs, Orderly
  <2>2. \A i \in Copies : part[i].head => Good(part[i])
    BY <2>1, WholeIs
  <2>3. \A i \in Copies : Good(part[i]) => part[i].head
    BY DEF Good, OpenPartition
  <2> QED
    BY <2>1, <2>2, <2>3
<1>2. 1 \in Copies /\ 2 \in Copies /\ Copies = {1, 2}
  BY DEF Copies
<1>3. Whole(Blank)
  BY BlankIs DEF Holds, Whole
<1>4. ASSUME NEW i \in Copies, NEW j \in Copies, i # j, part[i].head, ~ part[j].head,
             InitWrites = In(j, Format \o Copy(part[i]))
      PROVE  \E goal \in Pairs :
               /\ Turns(part, InitWrites, goal)
               /\ \A k \in Copies : Whole(goal[k])
               /\ \A k \in Copies : part[k].head => goal[k] = part[k]
  <2> DEFINE a == Format
             b == Copy(part[i])
             goal == [part EXCEPT ![j] = part[i]]
  <2>1. a \in Seq(Writes) /\ Leads(part[j], a, Blank)
    BY <1>1, FormatLeads
  <2>2. b \in Seq(Writes) /\ Leads(Blank, b, part[i])
    BY <1>1, <1>4, CopyLeads
  <2>3. InitWrites = In(j, a \o b)
    BY <1>4
  <2> HIDE DEF a, b
  <2>4. a \o b \in Seq(Writes) /\ Leads(part[j], a \o b, part[i])
    BY <2>1, <2>2, LeadsJoin
  <2>5. Turns(part, In(j, a \o b), goal) /\ goal \in Pairs
    BY <2>4, TurnsIn
  <2>6. \A k \in Copies : goal[k] = part[i] /\ Whole(goal[k])
    BY <1>1, <1>2, <1>4 DEF Pairs
  <2>7. \A k \in Copies : part[k].head => goal[k] = part[k]
    BY <1>2, <1>4 DEF Pairs
  <2> HIDE DEF goal
  <2> QED
    BY <2>3, <2>5, <2>6, <2>7
<1>5. CASE part[1].head /\ part[2].head
  <2>1. InitWrites = <<>>
    BY <1>1, <1>2, <1>5 DEF InitWrites
  <2> QED
    BY <1>1, <1>2, <1>5, <2>1, TurnsNowhere
<1>6. CASE part[1].head /\ ~ part[2].head
  <2>1. InitWrites = In(2, Format \o Copy(part[1]))
    BY <1>1, <1>2, <1>6 DEF InitWrites
  <2> QED
    BY <1>2, <1>4, <1>6, <2>1
<1>7. CASE ~ part[1].head /\ part[2].head
  <2>1. InitWrites = In(1, Format \o Copy(part[2]))
    BY <1>1, <1>2, <1>7 DEF InitWrites
  <2> QED
    BY <1>2, <1>4, <1>7, <2>1
<1>8. CASE ~ part[1].head /\ ~ part[2].head
  <2> DEFINE q == [part EXCEPT ![1] = Blank]
             goal == [q EXCEPT ![2] = Blank]
             a == In(1, Format)
             b == In(2, Format)
  <2>1. InitWrites = a \o b
    BY <1>1, <1>2, <1>8 DEF InitWrites
  <2>2. Format \in Seq(Writes) /\ Leads(part[1], Format, Blank)
    BY <1>1, <1>2, FormatLeads
  <2>3. Turns(part, a, q) /\ q \in Pairs /\ a \in Seq(Steps)
    BY <1>2, <2>2, TurnsIn, InType
  <2>4. q[2] \in GoodPartitions
    BY <1>2, <2>3 DEF Pairs
  <2>9. q[1] = Blank
    BY <1>2 DEF Pairs
  <2> HIDE DEF q
  <2>5. Leads(q[2], Format, Blank)
    BY <2>4, FormatLeads
  <2>6. Turns(q, b, goal) /\ goal \in Pairs /\ b \in Seq(Steps)
    BY <1>2, <2>2, <2>3, <2>5, TurnsIn, InType
  <2>7. goal[1] = Blank /\ goal[2] = Blank
    BY <1>2, <2>3, <2>9 DEF Pairs
  <2> HIDE DEF goal, a, b
  <2>8. Turns(part, a \o b, goal)
    BY <2>3, <2>6, TurnsJoin
  <2>10. \A i \in Copies : Whole(goal[i]) /\ ~ part[i].head
    BY <1>2, <1>3, <1>8, <2>7
  <2> QED
    BY <2>1, <2>6, <2>8, <2>10
<1> QED
  BY <1>5, <1>6, <1>7, <1>8

-----------------------------------------------------------------------------
(* Until the power fails during a call.                                       *)

\* At rest everything is in order; a call returns, and will leave it so.
Undisturbed ==
  /\ call.op \in {"none", "off"} => Tidy(part, ok, free)
  /\ call.op = "init" =>
       \E goal \in Pairs : Turns(part, call.todo, goal) /\ Orderly(goal)
  /\ call.op \in {"load", "write"} =>
       /\ call.end = "return"
       /\ \E goal \in Pairs : /\ Turns(part, call.todo, goal)
                              /\ Tidy(goal, call.ok, call.free)

\* At first no copy is in use.
LEMMA UndisturbedInit == Init => Undisturbed
<1> SUFFICES ASSUME Init PROVE Undisturbed
  OBVIOUS
<1>1. call.op = "off" /\ \A i \in Copies : ~ part[i].head /\ ~ ok[i]
  BY OpsDiffer DEF Init, Unformatted
<1> QED
  BY <1>1 DEF Undisturbed, Tidy, Orderly

\* A call that begins.
LEMMA SmoothBegun ==
  ASSUME NEW op \in {"load", "write"}, NEW n, NEW v, NEW c \in Smooth({}),
         call' = Begun(op, n, v, c), part' = part
  PROVE  Undisturbed'
<1>1. /\ call'.op = op /\ call'.todo = c.todo /\ call'.ok = c.ok /\ call'.free = c.free
      /\ call'.end = c.end
  BY DEF Begun
<1>2. PICK goal \in Pairs : Turns(part, c.todo, goal) /\ Tidy(goal, c.ok, c.free)
  BY DEF Smooth
<1>3. c.end = "return"
  BY DEF Smooth
<1>4. Turns(part', call'.todo, goal) /\ Tidy(goal, call'.ok, call'.free)
  BY <1>1, <1>2
<1>5. \E g \in Pairs : Turns(part', call'.todo, g) /\ Tidy(g, call'.ok, call'.free)
  BY <1>4
<1>6. call'.op \notin {"none", "off", "init"}
  BY <1>1
<1> QED
  BY <1>1, <1>3, <1>5, <1>6 DEF Undisturbed

\* Each step keeps this, unless the power fails during a call.
LEMMA UndisturbedNext == Inv /\ Undisturbed /\ [Next]_vars => (cuts' = cuts => Undisturbed')
<1> SUFFICES ASSUME Inv, Undisturbed, [Next]_vars, cuts' = cuts PROVE Undisturbed'
  OBVIOUS
<1> USE DEF Inv
<1>0. call = NoCall => AtRest /\ TidyRest
  BY OpsDiffer DEF AtRest, TidyRest, Types, BitmapsKept, Undisturbed
<1>1. CASE PowerOn
  <2>1. PICK seen \in BOOLEAN :
          /\ part' = part
          /\ call' = [op |-> "init", todo |-> IF seen THEN InitWrites ELSE <<>>]
    BY <1>1 DEF PowerOn
  <2>2. Orderly(part) /\ part \in Pairs
    BY <1>1, OpsDiffer DEF PowerOn, Undisturbed, Tidy, Types
  <2>3. call'.op = "init" /\ call'.todo = IF seen THEN InitWrites ELSE <<>>
    BY <2>1
  <2>4. \E goal \in Pairs : Turns(part', call'.todo, goal) /\ Orderly(goal)
    <3>1. CASE seen
      <4>1. PICK goal \in Pairs :
              Turns(part, InitWrites, goal) /\ \A i \in Copies : Whole(goal[i])
        BY <2>2, InitOrders
      <4> QED
        BY <2>1, <2>3, <3>1, <4>1 DEF Orderly
    <3>2. CASE ~ seen
      BY <2>1, <2>2, <2>3, <3>2, TurnsNowhere
    <3> QED
      BY <3>1, <3>2
  <2> QED
    BY <2>3, <2>4 DEF Undisturbed
<1>2. CASE InitDone
  <2>1. /\ call' = NoCall /\ part' = part /\ call.op = "init" /\ call.todo = <<>>
        /\ free' = [i \in Copies |-> FreeBitmap(part[i])]
        /\ ok' = [i \in Copies |-> present /\ OpenPartition(part[i])]
    BY <1>2 DEF InitDone
  <2>2. PICK goal \in Pairs : Turns(part, <<>>, goal) /\ Orderly(goal)
    BY <2>1 DEF Undisturbed
  <2>3. goal = part
    BY <2>2 DEF Turns
  <2>4. \A i \in Copies : ok'[i] => part[i].head
    BY <2>1 DEF OpenPartition
  <2>5. Tidy(part', ok', free')
    BY <2>1, <2>2, <2>3, <2>4 DEF Tidy
  <2> QED
    BY <2>1, <2>5, OpsDiffer DEF Undisturbed
<1>3. CASE SyncNext
  <2> DEFINE n == Order[synced + 1]
             f == Found(part, ok, present, n)
  <2>1. /\ call = NoCall /\ synced < Len(Order) /\ part' = part
        /\ call' = Synchronised(n, f)
    BY <1>3 DEF SyncNext
  <2>2. AtRest /\ TidyRest
    BY <1>0, <2>1
  <2>3. n \in Names
    <3>1. Order \in Seq(Names) /\ Len(Order) \in Nat /\ synced + 1 \in 1 .. Len(Order)
      BY <2>1, MirrorAssumption DEF Types
    <3> QED
      BY <3>1
  <2> HIDE DEF n
  <2>4. ram[n] \in Values
    BY <2>3 DEF Types
  <2>5. f.end = "true" => f.value \in Values
    BY <2>3, FoundType DEF Types
  <2>6. ~ Stuck(f.end)
    BY <2>2, <2>3, CheckedReturns
  <2> HIDE DEF f
  <2>7. CASE f.end = "true"
    <3>1. Heal(n, f.value) \in Smooth({})
      BY <2>2, <2>3, <2>5, <2>7, HealSmooth
    <3>2. Synchronised(n, f) = Begun("load", n, f.value, Heal(n, f.value))
      BY <2>7 DEF Synchronised, Stuck
    <3> QED
      BY <2>1, <3>1, <3>2, SmoothBegun
  <2>8. CASE f.end # "true"
    <3>1. Write(n, ram[n]) \in Smooth({})
      BY <2>2, <2>3, <2>4, WriteSmooth
    <3>2. Synchronised(n, f) = Begun("write", n, ram[n], Write(n, ram[n]))
      BY <2>6, <2>8 DEF Synchronised
    <3> QED
      BY <2>1, <3>1, <3>2, SmoothBegun
  <2> QED
    BY <2>7, <2>8
<1>4. ASSUME NEW n \in Names, NEW v \in ValuesOf[n], Store(n, v) PROVE Undisturbed'
  <2>1. call = NoCall /\ part' = part /\ call' = Begun("write", n, v, Write(n, v))
    BY <1>4 DEF Store
  <2>2. v \in Values
    BY MirrorAssumption
  <2>3. Write(n, v) \in Smooth({})
    BY <1>0, <2>1, <2>2, WriteSmooth
  <2> QED
    BY <2>1, <2>3, SmoothBegun
<1>5. CASE EepromWrite
  <2>1. /\ call \notin {Off, NoCall} /\ call.todo # <<>>
        /\ part' = Applied(part, Head(call.todo))
        /\ call' = [call EXCEPT !.todo = Tail(call.todo)]
    BY <1>5 DEF EepromWrite, Applied
  <2>2. call \in Calls /\ call.op \in {"init", "load", "write"} /\ call.todo \in Seq(Steps)
    BY <2>1, CallsAre DEF Types
  <2>3. /\ call'.op = call.op /\ call'.todo = Tail(call.todo)
        /\ call.op \in {"load", "write"} =>
             call'.end = call.end /\ call'.ok = call.ok /\ call'.free = call.free
    <3>1. CASE call.op = "init"
      <4>1. call \in [op : {"init"}, todo : Seq(Steps)]
        BY <2>2, <3>1, CallKinds, OpsDiffer
      <4> QED
        BY <2>1, <3>1, <4>1
    <3>2. CASE call.op \in {"load", "write"}
      <4>1. call \in [op : {"load", "write"}, name : Names, value : Values,
                      todo : Seq(Steps), ok : [Copies -> BOOLEAN],
                      free : [Copies -> SUBSET Sectors], end : Ends,
                      healed : BOOLEAN]
        BY <2>2, <3>2, CallKinds, OpsDiffer
      <4> QED
        BY <2>1, <4>1
    <3> QED
      BY <2>2, <3>1, <3>2
  <2>4. \A goal \in Pairs : Turns(part, call.todo, goal) => Turns(part', call'.todo, goal)
    BY <2>1, <2>2, <2>3, TurnsOn
  <2>5. CASE call.op = "init"
    <3>1. PICK goal \in Pairs : Turns(part, call.todo, goal) /\ Orderly(goal)
      BY <2>5 DEF Undisturbed
    <3> QED
      BY <2>3, <2>4, <2>5, <3>1 DEF Undisturbed
  <2>6. CASE call.op \in {"load", "write"}
    <3>1. PICK goal \in Pairs : Turns(part, call.todo, goal) /\ Tidy(goal, call.ok, call.free)
      BY <2>6 DEF Undisturbed
    <3>2. Turns(part', call'.todo, goal) /\ Tidy(goal, call'.ok, call'.free)
      BY <2>3, <2>4, <2>6, <3>1
    <3>3. call'.end = "return" /\ call'.op \notin {"none", "off", "init"}
      BY <2>3, <2>6 DEF Undisturbed
    <3> QED
      BY <3>2, <3>3 DEF Undisturbed
  <2> QED
    BY <2>2, <2>5, <2>6
<1>6. CASE CallReturns
  <2>1. /\ call.op \in {"load", "write"} /\ call.todo = <<>> /\ part' = part
        /\ ok' = call.ok /\ free' = call.free /\ call' = NoCall
    BY <1>6 DEF CallReturns
  <2>2. PICK goal \in Pairs : Turns(part, <<>>, goal) /\ Tidy(goal, call.ok, call.free)
    BY <2>1 DEF Undisturbed
  <2>3. goal = part
    BY <2>2 DEF Turns
  <2>4. Tidy(part', ok', free')
    BY <2>1, <2>2, <2>3
  <2> QED
    BY <2>1, <2>4, OpsDiffer DEF Undisturbed
<1>7. CASE PowerLoss
  <2>1. /\ call # Off /\ call' = Off
        /\ ok' = [i \in Copies |-> FALSE] /\ part' = part
        /\ call = NoCall \/ call.todo = <<>>
    <3>1. CASE call # NoCall /\ call.todo # <<>>
      <4>1. cuts' = cuts + 1 /\ cuts \in Nat
        BY <1>7, <3>1 DEF PowerLoss, Types
      <4>2. cuts + 1 # cuts
        BY <4>1
      <4> QED
        BY <4>1, <4>2
    <3>2. CASE ~ (call # NoCall /\ call.todo # <<>>)
      BY <1>7, <3>2 DEF PowerLoss
    <3> QED
      BY <3>1, <3>2
  <2>2. Orderly(part)
    <3>1. CASE call = NoCall
      BY <3>1, OpsDiffer DEF Undisturbed, Tidy
    <3>2. CASE call # NoCall
      <4>1. call.op \in {"init", "load", "write"} /\ call.todo = <<>>
        BY <2>1, <3>2, CallsAre DEF Types
      <4>2. \E goal \in Pairs : Turns(part, <<>>, goal) /\ Orderly(goal)
        BY <4>1 DEF Undisturbed, Tidy
      <4> QED
        BY <4>2 DEF Turns
    <3> QED
      BY <3>1, <3>2
  <2>3. Tidy(part', ok', free')
    BY <2>1, <2>2 DEF Tidy
  <2> QED
    BY <2>1, <2>3, OpsDiffer DEF Undisturbed
<1>8. CASE UNCHANGED vars
  BY <1>8 DEF vars, Undisturbed
<1> QED
  BY <1>1, <1>2, <1>3, <1>4, <1>5, <1>6, <1>7, <1>8 DEF Next

\* Losses of power during calls are only ever counted up.
LEMMA CutsOnlyGrow == Inv /\ [Next]_vars /\ cuts' = 0 => cuts = 0
<1> SUFFICES ASSUME Inv, [Next]_vars, cuts' = 0 PROVE cuts = 0
  OBVIOUS
<1>1. cuts \in Nat
  BY DEF Inv, Types
<1>2. cuts' = cuts \/ cuts' = cuts + 1
  BY DEF Next, vars, PowerOn, InitDone, SyncNext, Store, EepromWrite, CallReturns, PowerLoss
<1> QED
  BY <1>1, <1>2

\* Until the power fails during a call the records of both partitions are in
\* order, or will be when the call returns, and it does return.
THEOREM UndisturbedInvariant == Spec => [](cuts = 0 => Undisturbed)
<1>1. Init => (cuts = 0 => Undisturbed)
  BY UndisturbedInit
<1>2. Inv /\ (cuts = 0 => Undisturbed) /\ [Next]_vars => (cuts = 0 => Undisturbed)'
  BY UndisturbedNext, CutsOnlyGrow
<1> QED
  BY <1>1, <1>2, MirrorInvariant, PTL DEF Spec

\* Until the power fails during a call, every sector in use belongs to the
\* record of exactly one name, and no record has a free one (what
\* STEEPROM_WriteRecord does to the chains of sectors and to the bitmap).
THEOREM EverySectorAccounted == Spec => []SectorsAccounted
<1>1. (cuts = 0 => Undisturbed) => SectorsAccounted
  <2> SUFFICES ASSUME Undisturbed, call = NoCall, NEW i \in Copies, ok[i], NEW s \in Sectors
               PROVE  Cardinality({n \in Names : s \in RecordSectors(part[i], n)})
                        = IF s \in FreeBitmap(part[i]) THEN 0 ELSE 1
    BY DEF SectorsAccounted
  <2>1. Whole(part[i])
    BY OpsDiffer DEF Undisturbed, Tidy, Orderly
  <2> QED
    BY <2>1, SectorsCounted
<1> QED
  BY <1>1, UndisturbedInvariant, PTL

\* Until the power fails during a call, no call fails an assertion of the store
\* or goes round a hash chain for ever.
THEOREM UncutCallsReturn == Spec => [](cuts = 0 => CallsReturn)
<1>1. (cuts = 0 => Undisturbed) => (cuts = 0 => CallsReturn)
  BY DEF Undisturbed, CallsReturn, Stuck
<1> QED
  BY <1>1, UndisturbedInvariant, PTL

-----------------------------------------------------------------------------
(* A partition in the middle of a write.                                      *)

\* While n gets v, wherever the power fails: the good heads and the bad ones
\* tell of the values h, or of v if they are those of n.
MildPart(p, h, n, v) ==
  /\ p \in GoodPartitions
  /\ \A s \in Sectors : p.sector[s].status = "HEAD" => MildHead(h, n, v, p.sector[s])

\* Another partition with the same sectors.
LEMMA SameSectorsMild ==
  ASSUME NEW p, NEW h, NEW n, NEW v, MildPart(p, h, n, v),
         NEW q \in GoodPartitions, q.sector = p.sector
  PROVE  MildPart(q, h, n, v)
  BY DEF MildPart

\* Mild writes, carried out or torn, leave a partition mild.
LEMMA MildWritten ==
  ASSUME NEW p, NEW h, NEW n \in Names, NEW v, MildPart(p, h, n, v), NEW w \in Mild(h, n, v)
  PROVE  MildPart(Written(p, w), h, n, v) /\ MildPart(Torn(p, w), h, n, v)
<1>1. /\ w \in Writes /\ p \in GoodPartitions
      /\ w.to = "bin" \/ w.to = "crc" \/ w.to = "sector"
      /\ w.to = "sector" => (w.what.status = "HEAD" => MildHead(h, n, v, w.what))
  BY DEF Mild, MildPart
<1>2. Written(p, w) \in GoodPartitions /\ Torn(p, w) \in GoodPartitions
  BY <1>1, WrittenType, TornType
<1>3. CASE w.to = "sector"
  <2> DEFINE bad == [w.what EXCEPT !.good = FALSE]
  <2>1. w.what \in GoodSectors /\ w.at \in Places
    BY <1>1, <1>3, WriteKinds
  <2>2. /\ bad.status = w.what.status /\ bad.name = w.what.name /\ bad.crc = w.what.crc
    BY <2>1 DEF GoodSectors, SectorTypes
  <2>3. bad.status = "HEAD" => MildHead(h, n, v, bad)
    BY <1>1, <1>3, <2>2 DEF MildHead
  <2> HIDE DEF bad
  <2>4. Written(p, w) = [p EXCEPT !.sector[w.at] = w.what]
    BY <1>3 DEF Written
  <2>5. Torn(p, w) = [p EXCEPT !.sector[w.at] = bad]
    BY <1>3 DEF Torn, bad
  <2>6. ASSUME NEW s \in Sectors
        PROVE  /\ Written(p, w).sector[s] = w.what \/ Written(p, w).sector[s] = p.sector[s]
               /\ Torn(p, w).sector[s] = bad \/ Torn(p, w).sector[s] = p.sector[s]
    BY <1>1, <2>4, <2>5 DEF GoodPartitions
  <2>7. ASSUME NEW s \in Sectors
        PROVE  /\ Written(p, w).sector[s].status = "HEAD" =>
                    MildHead(h, n, v, Written(p, w).sector[s])
               /\ Torn(p, w).sector[s].status = "HEAD" => MildHead(h, n, v, Torn(p, w).sector[s])
    BY <1>1, <1>3, <2>3, <2>6 DEF MildPart
  <2> QED
    BY <1>2, <2>7 DEF MildPart
<1>4. CASE w.to = "bin"
  <2>1. Written(p, w).sector = p.sector
    BY <1>1, <1>4 DEF Written, GoodPartitions
  <2>2. Torn(p, w).sector = p.sector
    BY <1>1, <1>4 DEF Torn, GoodPartitions
  <2> QED
    BY <1>2, <2>1, <2>2, SameSectorsMild
<1>5. CASE w.to = "crc"
  <2>1. Written(p, w).sector = p.sector
    BY <1>1, <1>5 DEF Written, GoodPartitions
  <2>2. Torn(p, w).sector = p.sector
    BY <1>1, <1>5 DEF Torn, GoodPartitions
  <2> QED
    BY <1>2, <2>1, <2>2, SameSectorsMild
<1> QED
  BY <1>1, <1>3, <1>4, <1>5

\* Before a write.
LEMMA HoldsMild ==
  ASSUME NEW p, NEW h, Holds(p, h), NEW n, NEW v
  PROVE  MildPart(p, h, n, v)
<1>1. PICK L \in Layouts : L.val = h /\ Laid(p, L)
  BY DEF Holds
<1>2. ASSUME NEW s \in Sectors, p.sector[s].status = "HEAD"
      PROVE  MildHead(h, n, v, p.sector[s])
  <2>1. ~ Idle(L, s)
    BY <1>1, <1>2 DEF Laid
  <2>2. PICK x \in Names : \E k \in 1 .. Long(L, x) : s = L.piece[x][k]
    BY <2>1 DEF Idle
  <2>3. PICK k \in 1 .. Long(L, x) : s = L.piece[x][k]
    BY <2>2
  <2>4. IsPiece(p.sector[s], x, L.val[x], k, Place(L.piece[x], k + 1, Long(L, x)))
    BY <1>1, <2>3 DEF Laid, Placed
  <2>5. k \in Nat /\ ~ (k > 1)
    <3>1. Long(L, x) \in Nat
      BY <1>1, LayoutFields
    <3> QED
      BY <1>2, <2>4, <3>1 DEF IsPiece
  <2>6. k = 1
    <3>1. Long(L, x) \in Nat
      BY <1>1, LayoutFields
    <3> QED
      BY <2>5, <3>1
  <2> QED
    BY <1>1, <2>4, <2>6 DEF IsPiece, MildHead
<1> QED
  BY <1>1, <1>2 DEF MildPart, Laid

\* What is found there is what one of the two would find.
LEMMA MildContent ==
  ASSUME NEW p, NEW h, NEW n, NEW v, MildPart(p, h, n, v), NEW m \in Names,
         Content(p, m).end = "true"
  PROVE  /\ Content(p, m).value \in Values
         /\ Content(p, m).value = h[m] \/ (m = n /\ Content(p, m).value = v)
<1> DEFINE b == Begin(p, {})
           q == Seek(b, m)
<1>1. p \in GoodPartitions
  BY DEF MildPart
<1>2. b \in Readers /\ Running(b) /\ b.p = p
  BY <1>1, FreeSectorIsGood DEF Begin, Readers, Machines, Running, Places, Stands
<1>3. q \in Walks(Pieces, b, m)
  BY <1>2, SeekType DEF Readers
<1>4. Content(p, m) = ContentAt(q)
  BY DEF Content
<1> HIDE DEF q, b
<1>5. q.end # "true" /\ q \in Readers
  BY <1>3 DEF Walks, Readers, Machines, Stands
<1>6. Running(q) /\ q.at # None
  BY <1>4, <1>5 DEF ContentAt, NoContent
<1>7. /\ q.at \in Sectors /\ q.buf = p.sector[q.at] /\ q.buf.status = "HEAD"
      /\ q.buf.name = m
  BY <1>2, <1>3, <1>6 DEF Walks
<1>8. MildHead(h, n, v, q.buf)
  BY <1>7 DEF MildPart
<1>9. Content(p, m).value = q.buf.crc
  <2> DEFINE t == Loop(Gather, [q EXCEPT !.out = <<q.buf.data>>], 1, q.buf.len - 1)
  <2>1. Content(p, m) = Verified(t, q.buf.crc)
    BY <1>4, <1>6 DEF ContentAt
  <2>2. t \in Readers
    <3> DEFINE x == [q EXCEPT !.out = <<q.buf.data>>]
    <3>1. q.buf \in GoodSectors
      BY <1>5, MachineFields DEF Readers
    <3>2. <<q.buf.data>> \in Seq(Pieces) /\ q.buf.len - 1 \in Int
      BY <3>1 DEF GoodSectors, SectorTypes, Pieces
    <3>3. x \in Readers
      BY <1>5, <3>2 DEF Readers, Machines
    <3> HIDE DEF x
    <3>4. Loop(Gather, x, 1, q.buf.len - 1) \in Readers
      BY <3>2, <3>3, GatherLoop
    <3> QED
      BY <3>4 DEF x
  <2> HIDE DEF t
  <2>3. t.end # "true"
    BY <2>2 DEF Readers, Machines, Stands
  <2> QED
    BY <2>1, <2>3 DEF Verified, NoContent
<1>10. Content(p, m).value \in Values
  BY <1>1, ContentType
<1> QED
  BY <1>7, <1>8, <1>9, <1>10 DEF MildHead

\* What is found where the values h are held.
LEMMA HoldsContent ==
  ASSUME NEW p, NEW h, Holds(p, h)
  PROVE  /\ Good(p) /\ p.head /\ OpenPartition(p) /\ p \in GoodPartitions
         /\ h \in [Names -> Values \cup {Nothing}]
         /\ \A n \in Names :
              /\ Content(p, n).end = IF h[n] = Nothing THEN "absent" ELSE "true"
              /\ Content(p, n).value = h[n]
<1>1. PICK L \in Layouts : L.val = h /\ Laid(p, L)
  BY DEF Holds
<1>2. Whole(p)
  BY <1>1 DEF Whole
<1>3. h \in [Names -> Values \cup {Nothing}]
  BY <1>1 DEF Layouts
<1>4. ASSUME NEW n \in Names
      PROVE  /\ Content(p, n).end = IF h[n] = Nothing THEN "absent" ELSE "true"
             /\ Content(p, n).value = h[n]
  <2>1. /\ h[n] # Nothing => Content(p, n) = [end |-> "true", value |-> h[n]]
        /\ h[n] = Nothing => Content(p, n) = NoContent("absent")
    BY <1>1, ContentDoes
  <2> QED
    BY <2>1 DEF NoContent
<1> QED
  BY <1>2, <1>3, <1>4, WholeIs

\* No record is found where the hash table is empty.
LEMMA EmptyContent ==
  ASSUME NEW p, p.table = EmptyTable, NEW n \in Names
  PROVE  Content(p, n) = NoContent("absent")
<1> DEFINE b == Begin(p, {})
<1>1. b.p = p /\ Running(b)
  BY DEF Begin, Running
<1>2. p.table[Hash[n]] = None
  BY BinOf DEF EmptyTable
<1>3. Seek(b, n) = [b EXCEPT !.at = None]
  BY <1>1, <1>2 DEF Seek
<1>4. [b EXCEPT !.at = None].at = None /\ Running([b EXCEPT !.at = None])
  BY DEF Begin, Running
<1> HIDE DEF b
<1>5. Content(p, n) = ContentAt([b EXCEPT !.at = None])
  BY <1>3 DEF Content, b
<1> QED
  BY <1>4, <1>5 DEF ContentAt

-----------------------------------------------------------------------------
(* Lists of writes.                                                           *)
LEMMA LeadsOn ==
  ASSUME NEW p, NEW q, NEW todo \in Seq(Writes), todo # <<>>, Leads(p, todo, q)
  PROVE  Leads(Written(p, Head(todo)), Tail(todo), q)
<1> DEFINE n == Len(todo)
           less == Tail(todo)
<1>1. PICK h \in [0 .. n -> GoodPartitions] :
        /\ h[0] = p /\ h[n] = q
        /\ \A k \in 1 .. n : h[k] = Written(h[k - 1], todo[k])
  BY DEF Leads
<1>2. /\ n \in Nat \ {0} /\ Len(less) = n - 1 /\ Head(todo) = todo[1]
      /\ \A k \in 1 .. n - 1 : less[k] = todo[k + 1]
  OBVIOUS
<1> DEFINE g == [k \in 0 .. n - 1 |-> h[k + 1]]
<1>3. g \in [0 .. n - 1 -> GoodPartitions] /\ g[n - 1] = q
  BY <1>1, <1>2
<1>4. g[0] = Written(p, Head(todo))
  <2>1. g[0] = h[1] /\ 1 \in 1 .. n
    BY <1>2
  <2> QED
    BY <1>1, <1>2, <2>1
<1>5. ASSUME NEW k \in 1 .. n - 1 PROVE g[k] = Written(g[k - 1], less[k])
  <2>1. g[k] = h[k + 1] /\ g[k - 1] = h[k] /\ k + 1 \in 1 .. n /\ (k + 1) - 1 = k
    BY <1>2
  <2> QED
    BY <1>1, <1>2, <2>1
<1> HIDE DEF g, n, less
<1>6. Leads(Written(p, Head(todo)), less, q)
  BY <1>2, <1>3, <1>4, <1>5 DEF Leads
<1> QED
  BY <1>6 DEF less

\* No writes lead nowhere.
LEMMA LeadsToEnd == \A p, q : Leads(p, <<>>, q) => p = q
  BY DEF Leads

\* The writes of an operation on one partition, and then of one on the other.
LEMMA InFirst ==
  ASSUME NEW i \in Copies, NEW a \in Seq(Writes), NEW z \in Seq(Steps)
  PROVE  /\ In(i, <<>>) = <<>>
         /\ a = <<>> => In(i, a) \o z = z
         /\ a # <<>> => /\ In(i, a) \o z # <<>> /\ Head(In(i, a) \o z) = <<i, Head(a)>>
                        /\ Tail(In(i, a) \o z) = In(i, Tail(a)) \o z
         /\ In(i, a) \o <<>> = In(i, a) /\ In(i, a) \in Seq(Steps)
         /\ In(i, a) = <<>> => a = <<>>
<1>1. /\ In(i, a) \in Seq(Steps) /\ Len(In(i, a)) = Len(a)
      /\ \A k \in 1 .. Len(a) : In(i, a)[k] = <<i, a[k]>>
  BY InType
<1>2. In(i, <<>>) = <<>>
  BY DEF In
<1>3. CASE a = <<>>
  <2>1. In(i, a) = <<>>
    BY <1>2, <1>3
  <2>2. <<>> \o z = z
    OBVIOUS
  <2>3. <<>> \o <<>> = <<>>
    OBVIOUS
  <2> QED
    BY <1>1, <1>2, <1>3, <2>1, <2>2, <2>3
<1>4. CASE a # <<>>
  <2> DEFINE x == In(i, a)
             y == In(i, Tail(a))
             c == x \o z
             d == y \o z
  <2>1. /\ Len(a) \in Nat \ {0} /\ Tail(a) \in Seq(Writes) /\ Len(Tail(a)) = Len(a) - 1
        /\ Head(a) = a[1] /\ \A k \in 1 .. Len(a) - 1 : Tail(a)[k] = a[k + 1]
    BY <1>4
  <2>2. /\ y \in Seq(Steps) /\ Len(y) = Len(a) - 1
        /\ \A k \in 1 .. Len(a) - 1 : y[k] = <<i, a[k + 1]>>
    <3>1. /\ y \in Seq(Steps) /\ Len(y) = Len(Tail(a))
          /\ \A k \in 1 .. Len(Tail(a)) : y[k] = <<i, Tail(a)[k]>>
      BY <2>1, InType
    <3> HIDE DEF y
    <3> QED
      BY <2>1, <3>1
  <2>3. /\ x \in Seq(Steps) /\ Len(x) = Len(a)
        /\ \A k \in 1 .. Len(a) : x[k] = <<i, a[k]>>
    BY <1>1
  <2> HIDE DEF x, y
  <2>10. ASSUME NEW e \in Seq(Steps)
         PROVE  /\ e \o z \in Seq(Steps) /\ Len(e \o z) = Len(e) + Len(z) /\ Len(z) \in Nat
                /\ \A k \in 1 .. Len(e) : (e \o z)[k] = e[k]
                /\ \A k \in Len(e) + 1 .. Len(e) + Len(z) : (e \o z)[k] = z[k - Len(e)]
    OBVIOUS
  <2>4. /\ c \in Seq(Steps) /\ Len(c) = Len(a) + Len(z) /\ Len(z) \in Nat
        /\ \A k \in 1 .. Len(a) : c[k] = x[k]
        /\ \A k \in Len(a) + 1 .. Len(a) + Len(z) : c[k] = z[k - Len(a)]
    <3>1. x \in Seq(Steps) /\ Len(x) = Len(a)
      BY <2>3
    <3>2. /\ c \in Seq(Steps) /\ Len(c) = Len(x) + Len(z) /\ Len(z) \in Nat
          /\ \A k \in 1 .. Len(x) : c[k] = x[k]
          /\ \A k \in Len(x) + 1 .. Len(x) + Len(z) : c[k] = z[k - Len(x)]
      BY <2>10, <3>1
    <3> HIDE DEF c
    <3> QED
      BY <3>1, <3>2
  <2>5. /\ d \in Seq(Steps) /\ Len(d) = Len(a) - 1 + Len(z)
        /\ \A k \in 1 .. Len(a) - 1 : d[k] = y[k]
        /\ \A k \in Len(a) .. Len(a) - 1 + Len(z) : d[k] = z[k - (Len(a) - 1)]
    <3>1. y \in Seq(Steps) /\ Len(y) = Len(a) - 1 /\ (Len(a) - 1) + 1 = Len(a)
      BY <2>1, <2>2
    <3>2. /\ d \in Seq(Steps) /\ Len(d) = Len(y) + Len(z) /\ Len(z) \in Nat
          /\ \A k \in 1 .. Len(y) : d[k] = y[k]
          /\ \A k \in Len(y) + 1 .. Len(y) + Len(z) : d[k] = z[k - Len(y)]
      BY <2>10, <3>1
    <3> HIDE DEF d
    <3> QED
      BY <3>1, <3>2
  <2> HIDE DEF c, d
  <2>6. /\ c # <<>> /\ Head(c) = c[1] /\ Tail(c) \in Seq(Steps) /\ Len(Tail(c)) = Len(c) - 1
        /\ \A k \in 1 .. Len(c) - 1 : Tail(c)[k] = c[k + 1]
    <3>1. c \in Seq(Steps)
      BY <2>4
    <3>2. Len(c) > 0
      BY <2>1, <2>4
    <3>3. c # <<>>
      BY <3>1, <3>2
    <3> QED
      BY <3>1, <3>3
  <2>7. Head(c) = <<i, Head(a)>>
    BY <2>1, <2>3, <2>4, <2>6
  <2>8. Tail(c) = d
    <3>1. Len(Tail(c)) = Len(d)
      BY <2>1, <2>4, <2>5, <2>6
    <3>2. ASSUME NEW k \in 1 .. Len(d) PROVE Tail(c)[k] = d[k]
      <4>1. Tail(c)[k] = c[k + 1] /\ k \in Nat
        BY <2>1, <2>4, <2>5, <2>6
      <4>2. CASE k <= Len(a) - 1
        <5>1. k \in 1 .. Len(a) - 1 /\ k + 1 \in 1 .. Len(a)
          BY <2>1, <4>1, <4>2
        <5> QED
          BY <2>2, <2>3, <2>4, <2>5, <4>1, <5>1
      <4>3. CASE ~ (k <= Len(a) - 1)
        <5>1. /\ k \in Len(a) .. Len(a) - 1 + Len(z)
              /\ k + 1 \in Len(a) + 1 .. Len(a) + Len(z)
              /\ (k + 1) - Len(a) = k - (Len(a) - 1)
          BY <2>1, <2>4, <2>5, <4>1, <4>3
        <5> QED
          BY <2>4, <2>5, <4>1, <5>1
      <4> QED
        BY <4>2, <4>3
    <3> QED
      BY <2>5, <2>6, <3>1, <3>2, SeqEqual
  <2>9. x \o <<>> = x /\ x # <<>>
    BY <2>1, <2>3
  <2> QED
    BY <1>2, <1>4, <2>3, <2>6, <2>7, <2>8, <2>9 DEF c, d, x, y
<1> QED
  BY <1>3, <1>4

-----------------------------------------------------------------------------
(* Room for everything.                                                       *)

\* Each piece of each name's longest value can have a sector of its own.
Room ==
  \E slot \in [Names -> [Nat -> Sectors]] :
    \A n1, n2 \in Names : \A v1 \in ValuesOf[n1], v2 \in ValuesOf[n2] :
      \A i \in 1 .. Size[v1], j \in 1 .. Size[v2] :
        slot[n1][i] = slot[n2][j] => n1 = n2 /\ i = j

\* Values the parameters may have.
Proper(h) == \A n \in Names : h[n] \in ValuesOf[n] \cup {Nothing}

\* A value fits in the sectors that are free and those its name has already.
LEMMA RoomSuffices ==
  ASSUME Room, NEW p, NEW L, Laid(p, L), Proper(L.val), NEW n \in Names,
         NEW v \in ValuesOf[n]
  PROVE  Size[v] <= Long(L, n) + Cardinality(FreeBitmap(p))
<1> DEFINE Others == {s \in Sectors : \E x \in Names : x # n /\ \E k \in 1 .. Long(L, x) : s = L.piece[x][k]}
           Own == {s \in Sectors : \E k \in 1 .. Long(L, n) : s = L.piece[n][k]}
           Unused == FreeBitmap(p)
<1>1. PICK slot \in [Names -> [Nat -> Sectors]] :
        \A n1, n2 \in Names : \A v1 \in ValuesOf[n1], v2 \in ValuesOf[n2] :
          \A i \in 1 .. Size[v1], j \in 1 .. Size[v2] :
            slot[n1][i] = slot[n2][j] => n1 = n2 /\ i = j
  BY DEF Room
<1>2. v \in Values /\ Size[v] \in Nat /\ ValuesOf \in [Names -> SUBSET Values]
  BY MirrorAssumption, Constants
<1>3. /\ L \in Layouts /\ Apart(L)
      /\ \A x \in Names : Long(L, x) \in Nat
      /\ \A x \in Names : \A k \in 1 .. Long(L, x) : k \in Nat /\ L.piece[x][k] \in Sectors
  BY LayoutFields DEF Laid
<1>4. \A x \in Names : \A k \in 1 .. Long(L, x) :
        \E w \in ValuesOf[x] : k \in 1 .. Size[w]
  <2> TAKE x \in Names
  <2> TAKE k \in 1 .. Long(L, x)
  <2>1. L.val[x] # Nothing
    BY <1>3 DEF Long
  <2>2. L.val[x] \in ValuesOf[x] /\ Long(L, x) = Size[L.val[x]]
    BY <2>1 DEF Long, Proper
  <2> QED
    BY <2>2
<1> DEFINE Mine == {s \in Sectors : \E j \in 1 .. Size[v] : s = slot[n][j]}
<1>5. /\ IsFiniteSet(Mine) /\ IsFiniteSet(Sectors) /\ IsFiniteSet(Own)
      /\ IsFiniteSet(Others) /\ IsFiniteSet(Unused) /\ IsFiniteSet(Sectors \ Mine)
  BY Constants, FS_Subset DEF FreeBitmap
<1>6. Size[v] <= Cardinality(Mine)
  <2> DEFINE g == [j \in 1 .. Size[v] |-> slot[n][j]]
  <2>1. g \in [1 .. Size[v] -> Mine]
    BY <1>1, <1>2
  <2>2. \A i, j \in 1 .. Size[v] : g[i] = g[j] => i = j
    BY <1>1, <1>2
  <2>3. Cardinality(1 .. Size[v]) = Size[v]
    <3> DEFINE k == Size[v]
    <3>1. k \in Nat
      BY <1>2
    <3> HIDE DEF k
    <3>2. Cardinality(1 .. k) = k
      BY <3>1, UpToHas
    <3> QED
      BY <3>2 DEF k
  <2> HIDE DEF g, Mine
  <2>4. Cardinality(1 .. Size[v]) <= Cardinality(Mine)
    BY <1>5, <2>1, <2>2, NotLarger
  <2> QED
    BY <2>3, <2>4
<1>7. Cardinality(Own) <= Long(L, n)
  <2> DEFINE g == [s \in Own |-> CHOOSE k \in 1 .. Long(L, n) : s = L.piece[n][k]]
  <2>1. \A s \in Own : g[s] \in 1 .. Long(L, n) /\ s = L.piece[n][g[s]]
    OBVIOUS
  <2>2. g \in [Own -> 1 .. Long(L, n)]
    BY <2>1
  <2>3. \A s, t \in Own : g[s] = g[t] => s = t
    BY <2>1
  <2>4. IsFiniteSet(1 .. Long(L, n)) /\ Cardinality(1 .. Long(L, n)) = Long(L, n)
    <3>1. /\ IsFiniteSet(1 .. Long(L, n))
          /\ Cardinality(1 .. Long(L, n)) = IF 1 > Long(L, n) THEN 0 ELSE Long(L, n) - 1 + 1
      BY <1>3, FS_Interval
    <3> QED
      BY <1>3, <3>1
  <2> HIDE DEF g, Own
  <2>5. Cardinality(Own) <= Cardinality(1 .. Long(L, n))
    BY <2>2, <2>3, <2>4, NotLarger
  <2> QED
    BY <2>4, <2>5
<1>8. Cardinality(Others) <= Cardinality(Sectors \ Mine)
  <2> DEFINE who(s) == CHOOSE x \in Names : x # n /\ \E k \in 1 .. Long(L, x) : s = L.piece[x][k]
             where(s) == CHOOSE k \in 1 .. Long(L, who(s)) : s = L.piece[who(s)][k]
             g == [s \in Others |-> slot[who(s)][where(s)]]
  <2>1. \A s \in Others : /\ who(s) \in Names /\ who(s) # n
                          /\ where(s) \in 1 .. Long(L, who(s))
                          /\ s = L.piece[who(s)][where(s)]
    <3> TAKE s \in Others
    <3>1. /\ who(s) \in Names /\ who(s) # n
          /\ \E k \in 1 .. Long(L, who(s)) : s = L.piece[who(s)][k]
      <4> DEFINE Q(x) == x # n /\ \E k \in 1 .. Long(L, x) : s = L.piece[x][k]
      <4>1. \E x \in Names : Q(x)
        OBVIOUS
      <4>2. who(s) = CHOOSE x \in Names : Q(x)
        OBVIOUS
      <4> HIDE DEF Q, who, Others, where, g
      <4>3. who(s) \in Names /\ Q(who(s))
        BY <4>1, <4>2
      <4> QED
        BY <4>3 DEF Q
    <3> HIDE DEF who
    <3> QED
      BY <3>1
  <2>2. \A s \in Others : where(s) \in Nat /\ g[s] = slot[who(s)][where(s)]
    <3> TAKE s \in Others
    <3>1. g[s] = slot[who(s)][where(s)]
      OBVIOUS
    <3>2. who(s) \in Names /\ where(s) \in 1 .. Long(L, who(s))
      BY <2>1
    <3> HIDE DEF who, where, g, Others
    <3>3. where(s) \in Nat
      BY <1>3, <3>2
    <3> QED
      BY <3>1, <3>3
  <2>3. DOMAIN g = Others /\ g = [s \in Others |-> g[s]]
    <3> HIDE DEF who, where, Others, Mine
    <3> QED
      OBVIOUS
  <2> HIDE DEF who, where, g, Others, Mine
  <2>4. \A s \in Others : g[s] \in Sectors \ Mine
    <3> TAKE s \in Others
    <3>1. PICK w \in ValuesOf[who(s)] : where(s) \in 1 .. Size[w]
      BY <1>4, <2>1
    <3>2. \A j \in 1 .. Size[v] : slot[n][j] # slot[who(s)][where(s)]
      BY <1>1, <2>1, <3>1
    <3>3. slot[who(s)][where(s)] \in Sectors
      BY <1>1, <2>1, <2>2
    <3> QED
      BY <2>2, <3>2, <3>3 DEF Mine
  <2>5. \A s, t \in Others : g[s] = g[t] => s = t
    <3> TAKE s \in Others, t \in Others
    <3>1. PICK w \in ValuesOf[who(s)] : where(s) \in 1 .. Size[w]
      BY <1>4, <2>1
    <3>2. PICK z \in ValuesOf[who(t)] : where(t) \in 1 .. Size[z]
      BY <1>4, <2>1
    <3>3. slot[who(s)][where(s)] = slot[who(t)][where(t)] => who(s) = who(t) /\ where(s) = where(t)
      BY <1>1, <2>1, <3>1, <3>2
    <3> QED
      BY <2>1, <2>2, <3>3
  <2>6. g \in [Others -> Sectors \ Mine]
    BY <2>3, <2>4
  <2> QED
    BY <1>5, <2>5, <2>6, NotLarger
<1>9. Sectors = (Others \cup Own) \cup Unused
  <2>1. \A s \in Sectors : s \in Unused \/ ~ Idle(L, s)
    BY IdleIsFree
  <2>2. \A s \in Sectors : ~ Idle(L, s) => s \in Others \cup Own
    BY DEF Idle
  <2>3. Unused \subseteq Sectors
    BY DEF FreeBitmap
  <2> HIDE DEF Unused
  <2> QED
    BY <2>1, <2>2, <2>3
<1>10. Mine \subseteq Sectors
  OBVIOUS
<1> HIDE DEF Mine, Others, Own, Unused
<1>11. /\ Cardinality(Mine) \in Nat /\ Cardinality(Own) \in Nat /\ Cardinality(Others) \in Nat
       /\ Cardinality(Unused) \in Nat /\ Cardinality(Sectors) \in Nat
  BY <1>5, FS_CardinalityType
<1>12. Cardinality(Sectors \ Mine) = Cardinality(Sectors) - Cardinality(Mine)
  <2>1. Sectors \cap Mine = Mine
    BY <1>10
  <2>2. Cardinality(Sectors \ Mine) = Cardinality(Sectors) - Cardinality(Sectors \cap Mine)
    BY <1>5, FS_Difference
  <2> QED
    BY <2>1, <2>2
<1>13. Cardinality(Sectors) <= Cardinality(Others) + Cardinality(Own) + Cardinality(Unused)
  <2> DEFINE A == Others \cup Own
  <2>1. IsFiniteSet(A) /\ Cardinality(A) = Cardinality(Others) + Cardinality(Own) - Cardinality(Others \cap Own)
    BY <1>5, FS_Union
  <2>2. IsFiniteSet(Others \cap Own)
    <3>1. Others \cap Own \in SUBSET Own
      OBVIOUS
    <3> QED
      BY <1>5, <3>1, FS_Subset
  <2>3. Cardinality(Others \cap Own) \in Nat
    BY <2>2, FS_CardinalityType
  <2> HIDE DEF A
  <2>4. Cardinality(A \cup Unused) = Cardinality(A) + Cardinality(Unused) - Cardinality(A \cap Unused)
    BY <1>5, <2>1, FS_Union
  <2>5. Cardinality(A \cap Unused) \in Nat
    <3>1. A \cap Unused \in SUBSET Unused
      OBVIOUS
    <3>2. IsFiniteSet(A \cap Unused)
      BY <1>5, <3>1, FS_Subset
    <3> QED
      BY <3>2, FS_CardinalityType
  <2>6. Sectors = A \cup Unused
    BY <1>9 DEF A
  <2> QED
    BY <1>11, <2>1, <2>3, <2>4, <2>5, <2>6
<1>14. Cardinality(Unused) = Cardinality(FreeBitmap(p))
  BY DEF Unused
<1> QED
  BY <1>2, <1>3, <1>6, <1>7, <1>8, <1>11, <1>12, <1>13, <1>14

\* STEEPROM_WriteRecord, where there is room for everything.
RoomWritten(p, h, n, v, r) ==
  /\ r.end = "true" /\ r.out \in Seq(Mild(h, n, v)) /\ r.out \in Seq(Writes)
  /\ Leads(p, r.out, r.p) /\ Holds(r.p, [h EXCEPT ![n] = v])
  /\ r.free \subseteq Sectors /\ r.free = FreeBitmap(r.p)

\* It succeeds, and the partition holds the new value.
LEMMA RoomWrites ==
  ASSUME Room, NEW p, NEW h, Holds(p, h), Proper(h), NEW n \in Names, NEW v \in ValuesOf[n]
  PROVE  RoomWritten(p, h, n, v, WriteRecord(p, FreeBitmap(p), n, v))
<1> DEFINE r == WriteRecord(p, FreeBitmap(p), n, v)
<1>1. PICK L \in Layouts : L.val = h /\ Laid(p, L)
  BY DEF Holds
<1>2. v \in Values /\ p \in GoodPartitions /\ FreeBitmap(p) \subseteq FreeBitmap(p)
  BY <1>1, MirrorAssumption DEF Laid
<1>3. /\ r.out \in Seq(Mild(h, n, v))
      /\ \/ r.end = "true" /\ Holds(r.p, [h EXCEPT ![n] = v])
         \/ Size[v] > Long(L, n) + Cardinality(FreeBitmap(p))
  BY <1>1, <1>2, WriteRecordDoes
<1>4. /\ r.out \in Seq(Writes) /\ Leads(p, r.out, r.p) /\ r.free \subseteq Sectors
      /\ r.end = "true" => r.free = FreeBitmap(r.p)
  BY <1>2, WriteRecordSane
<1> HIDE DEF r
<1>5. Size[v] <= Long(L, n) + Cardinality(FreeBitmap(p))
  BY <1>1, RoomSuffices
<1>6. Size[v] \in Nat /\ Long(L, n) \in Nat /\ Cardinality(FreeBitmap(p)) \in Nat
  <2>1. IsFiniteSet(FreeBitmap(p))
    BY Constants, FS_Subset DEF FreeBitmap
  <2>2. Cardinality(FreeBitmap(p)) \in Nat
    BY <2>1, FS_CardinalityType
  <2> QED
    BY <1>1, <1>2, <2>2, Constants, LayoutFields
<1>7. ~ (Size[v] > Long(L, n) + Cardinality(FreeBitmap(p)))
  BY <1>5, <1>6
<1> QED
  BY <1>3, <1>4, <1>7 DEF RoomWritten, r

-----------------------------------------------------------------------------
(* What a start finds.                                                        *)
BothHold(q, h) == \A i \in Copies : Holds(q[i], h)

\* Not formatted yet.
Unborn(p) == ~ p.head /\ p.table = EmptyTable

NothingKept == [n \in Names |-> Nothing]

Settled(q, h) == BothHold(q, h) \/ ((\A i \in Copies : Unborn(q[i])) /\ h = NothingKept)

\* What the next start would find, name by name.
LEMMA KeptOffIs ==
  ASSUME NEW q, NEW h \in [Names -> Values \cup {Nothing}], \A n \in Names : AtStart(q, n) = h[n]
  PROVE  KeptOff(q) = h
  BY DEF KeptOff

\* Both copies hold the same values.
LEMMA HeldAtStart ==
  ASSUME NEW q, NEW h, BothHold(q, h)
  PROVE  KeptOff(q) = h /\ \A n \in Names : AtStart(q, n) = h[n]
<1>1. 1 \in Copies /\ 2 \in Copies
  BY DEF Copies
<1>2. /\ Good(q[1]) /\ Good(q[2]) /\ h \in [Names -> Values \cup {Nothing}]
      /\ \A n \in Names :
           /\ Content(q[1], n).end = IF h[n] = Nothing THEN "absent" ELSE "true"
           /\ Content(q[1], n).value = h[n]
           /\ Content(q[2], n).end = IF h[n] = Nothing THEN "absent" ELSE "true"
           /\ Content(q[2], n).value = h[n]
  BY <1>1, HoldsContent DEF BothHold
<1>3. ASSUME NEW n \in Names PROVE AtStart(q, n) = h[n]
  <2>1. AtStart(q, n) = FirstTrue(Content(q[1], n), Content(q[2], n))
    BY <1>2 DEF AtStart
  <2> QED
    BY <1>2, <2>1 DEF FirstTrue
<1> QED
  BY <1>2, <1>3, KeptOffIs

\* Both copies are in use and hold the values h.
InUse(q, h, k, on) == on /\ k[1] /\ k[2] /\ BothHold(q, h)

\* Then h is what readings find.
LEMMA HeldIsFound ==
  ASSUME NEW q, NEW h, NEW k, NEW on, InUse(q, h, k, on), NEW n \in Names
  PROVE  /\ Found(q, k, on, n).value = h[n]
         /\ Found(q, k, on, n).end = IF h[n] = Nothing THEN "absent" ELSE "true"
<1> DEFINE c1 == Content(q[1], n)
           c2 == Content(q[2], n)
<1>1. 1 \in Copies /\ 2 \in Copies
  BY DEF Copies
<1>2. /\ c1.end = IF h[n] = Nothing THEN "absent" ELSE "true"
      /\ c2.end = IF h[n] = Nothing THEN "absent" ELSE "true"
      /\ c1.value = h[n] /\ c2.value = h[n]
  BY <1>1, HoldsContent DEF InUse, BothHold
<1>3. Found(q, k, on, n) = Better(c1, c2)
  BY DEF InUse, Found, Lookup
<1> HIDE DEF c1, c2
<1>4. Better(c1, c2) = IF h[n] = Nothing THEN NotFound ELSE c1
  BY <1>2 DEF Better, Stuck
<1>5. NotFound.end = "absent" /\ NotFound.value = Nothing
  BY DEF NotFound
<1>6. CASE h[n] = Nothing
  BY <1>3, <1>4, <1>5, <1>6
<1>7. CASE h[n] # Nothing
  BY <1>2, <1>3, <1>4, <1>7
<1> QED
  BY <1>6, <1>7

\* No copy has an entry in its table.
LEMMA EmptyAtStart ==
  ASSUME NEW q, \A i \in Copies : q[i].table = EmptyTable
  PROVE  KeptOff(q) = NothingKept
<1>1. ASSUME NEW n \in Names PROVE AtStart(q, n) = Nothing
  <2>1. Content(q[1], n) = NoContent("absent") /\ Content(q[2], n) = NoContent("absent")
    BY EmptyContent DEF Copies
  <2> QED
    BY <2>1 DEF AtStart, FirstTrue, NoContent, NotFound
<1> QED
  BY <1>1 DEF KeptOff, NothingKept

\* Both cases of what there is at rest.
LEMMA SettledAtStart ==
  ASSUME NEW q, NEW h, Settled(q, h)
  PROVE  KeptOff(q) = h
<1>1. CASE BothHold(q, h)
  BY <1>1, HeldAtStart
<1>2. CASE (\A i \in Copies : Unborn(q[i])) /\ h = NothingKept
  BY <1>2, EmptyAtStart DEF Unborn
<1> QED
  BY <1>1, <1>2 DEF Settled

\* The power failed while the first copy was written.
LEMMA FirstTorn ==
  ASSUME NEW q, NEW h, NEW n \in Names, NEW v \in Values, MildPart(q[1], h, n, v),
         Holds(q[2], h)
  PROVE  KeptOff(q) = h \/ KeptOff(q) = [h EXCEPT ![n] = v]
<1> DEFINE c1(m) == IF Good(q[1]) THEN Content(q[1], m) ELSE NotFound
           c2(m) == Content(q[2], m)
<1>1. /\ Good(q[2]) /\ h \in [Names -> Values \cup {Nothing}]
      /\ \A m \in Names : /\ c2(m).end = IF h[m] = Nothing THEN "absent" ELSE "true"
                          /\ c2(m).value = h[m]
  BY HoldsContent
<1>2. ASSUME NEW m \in Names, c1(m).end = "true"
      PROVE  c1(m).value = h[m] \/ (m = n /\ c1(m).value = v)
  <2>1. Content(q[1], m).end = "true" /\ c1(m) = Content(q[1], m)
    BY <1>2 DEF NotFound
  <2>2. Content(q[1], m).value = h[m] \/ (m = n /\ Content(q[1], m).value = v)
    BY <2>1, MildContent
  <2> QED
    BY <2>1, <2>2
<1>3. \A m \in Names : AtStart(q, m) = FirstTrue(c1(m), c2(m))
  BY <1>1 DEF AtStart
<1> HIDE DEF c1, c2
<1>4. ASSUME NEW m \in Names
      PROVE  AtStart(q, m) = h[m] \/ (m = n /\ AtStart(q, m) = v)
  BY <1>1, <1>2, <1>3 DEF FirstTrue
<1>5. CASE AtStart(q, n) = h[n]
  BY <1>1, <1>4, <1>5, KeptOffIs
<1>6. CASE AtStart(q, n) = v
  <2> DEFINE g == [h EXCEPT ![n] = v]
  <2>1. g \in [Names -> Values \cup {Nothing}] /\ \A m \in Names : AtStart(q, m) = g[m]
    BY <1>1, <1>4, <1>6
  <2> HIDE DEF g
  <2> QED
    BY <2>1, KeptOffIs DEF g
<1> QED
  BY <1>4, <1>5, <1>6

\* The power failed while the second one was written.
LEMMA SecondTorn ==
  ASSUME NEW q, NEW h, NEW n \in Names, NEW v \in Values, MildPart(q[2], h, n, v),
         h \in [Names -> Values \cup {Nothing}], NEW g, g = [h EXCEPT ![n] = v], Holds(q[1], g)
  PROVE  KeptOff(q) = g
<1> DEFINE c1(m) == Content(q[1], m)
           c2(m) == IF Good(q[2]) THEN Content(q[2], m) ELSE NotFound
<1>1. /\ Good(q[1]) /\ g \in [Names -> Values \cup {Nothing}]
      /\ \A m \in Names : /\ c1(m).end = IF g[m] = Nothing THEN "absent" ELSE "true"
                          /\ c1(m).value = g[m]
  BY HoldsContent
<1>2. ASSUME NEW m \in Names, c2(m).end = "true"
      PROVE  c2(m).value \in Values /\ (c2(m).value = h[m] \/ m = n)
  <2>1. Content(q[2], m).end = "true" /\ c2(m) = Content(q[2], m)
    BY <1>2 DEF NotFound
  <2>2. /\ Content(q[2], m).value \in Values
        /\ Content(q[2], m).value = h[m] \/ (m = n /\ Content(q[2], m).value = v)
    BY <2>1, MildContent
  <2> QED
    BY <2>1, <2>2
<1>3. \A m \in Names : AtStart(q, m) = FirstTrue(c1(m), c2(m))
  BY <1>1 DEF AtStart
<1>4. g[n] = v /\ (\A m \in Names : m # n => g[m] = h[m]) /\ v # Nothing /\ Nothing \notin Values
  BY Constants
<1> HIDE DEF c1, c2
<1>5. ASSUME NEW m \in Names PROVE AtStart(q, m) = g[m]
  <2>1. CASE g[m] # Nothing
    BY <1>1, <1>3, <2>1 DEF FirstTrue
  <2>2. CASE g[m] = Nothing
    <3>1. m # n /\ h[m] = Nothing
      BY <1>4, <2>2
    <3>2. c2(m).end # "true"
      BY <1>2, <1>4, <3>1
    <3> QED
      BY <1>1, <1>3, <2>2, <3>2 DEF FirstTrue
  <2> QED
    BY <2>1, <2>2
<1> QED
  BY <1>1, <1>5, KeptOffIs

-----------------------------------------------------------------------------
(* Formatting both copies: no entry is made in a table.                       *)
PlainWrites == {w \in Writes : w.to # "bin" /\ (w.to = "table" => w.what = EmptyTable)}
PlainSteps == {w \in Steps : w[2] \in PlainWrites}

BothBlank == [i \in Copies |-> Blank]

Formatting(p, todo) ==
  /\ \A i \in Copies : p[i].table = EmptyTable
  /\ todo \in Seq(PlainSteps) /\ Turns(p, todo, BothBlank)

\* STEEPROM_FormatPartition makes only such writes ...
LEMMA FormatPlain == Format \in Seq(PlainWrites)
<1> DEFINE a == <<HeaderWrite(FALSE)>>
           b == [i \in 1 .. NSectors |-> SectorWrite(i - 1, FreeSector)]
           x == HeaderWrite(TRUE)
           y == TableWrite(EmptyTable)
           z == CrcWrite(EmptyTable)
<1>1. /\ HeaderWrite(FALSE) \in PlainWrites /\ x \in PlainWrites /\ y \in PlainWrites
      /\ z \in PlainWrites
  <2>1. /\ HeaderWrite(FALSE) \in Writes /\ x \in Writes /\ y \in Writes /\ z \in Writes
    BY BlankIs, WritesAre
  <2>2. /\ HeaderWrite(FALSE).to = "head" /\ x.to = "head" /\ y.to = "table"
        /\ y.what = EmptyTable /\ z.to = "crc"
    BY DEF HeaderWrite, TableWrite, CrcWrite
  <2> HIDE DEF x, y, z
  <2> QED
    BY <2>1, <2>2 DEF PlainWrites
<1>2. \A i \in 1 .. NSectors : SectorWrite(i - 1, FreeSector) \in PlainWrites
  <2> TAKE i \in 1 .. NSectors
  <2>1. i - 1 \in Places
    BY Constants DEF Places, Sectors
  <2>2. SectorWrite(i - 1, FreeSector) \in Writes
    BY <2>1, FreeSectorIsGood, WritesAre
  <2>3. SectorWrite(i - 1, FreeSector).to = "sector"
    BY DEF SectorWrite
  <2> QED
    BY <2>2, <2>3 DEF PlainWrites
<1>3. Format = a \o b \o <<x, y, z>>
  BY DEF Format
<1>4. b \in Seq(PlainWrites)
  BY <1>2, Constants
<1>5. \A c, d, e \in PlainWrites : <<c>> \in Seq(PlainWrites) /\ <<c, d, e>> \in Seq(PlainWrites)
  OBVIOUS
<1>6. a \in Seq(PlainWrites) /\ <<x, y, z>> \in Seq(PlainWrites)
  BY <1>1, <1>5
<1> HIDE DEF a, b, x, y, z
<1> QED
  BY <1>3, <1>4, <1>6

\* ... and on either copy.
LEMMA InPlain ==
  ASSUME NEW i \in Copies, NEW a \in Seq(PlainWrites)
  PROVE  In(i, a) \in Seq(PlainSteps)
<1>1. DOMAIN a = 1 .. Len(a) /\ Len(a) \in Nat /\ \A k \in 1 .. Len(a) : a[k] \in PlainWrites
  OBVIOUS
<1>2. \A k \in 1 .. Len(a) : <<i, a[k]>> \in PlainSteps
  BY <1>1 DEF PlainSteps, PlainWrites, Steps
<1>3. In(i, a) = [k \in 1 .. Len(a) |-> <<i, a[k]>>]
  BY <1>1 DEF In
<1> QED
  BY <1>1, <1>2, <1>3

\* Dnepr_BPEEPROM_Init on copies never formatted.
LEMMA FormattingBegins ==
  ASSUME part \in Pairs, \A i \in Copies : Unborn(part[i])
  PROVE  Formatting(part, InitWrites)
<1> DEFINE q == [part EXCEPT ![1] = Blank]
           goal == [q EXCEPT ![2] = Blank]
           a == In(1, Format)
           b == In(2, Format)
<1>1. 1 \in Copies /\ 2 \in Copies /\ Copies = {1, 2}
  BY DEF Copies
<1>2. InitWrites = a \o b
  BY <1>1 DEF InitWrites, Good, OpenPartition, Unborn
<1>3. Format \in Seq(Writes) /\ Leads(part[1], Format, Blank)
  BY <1>1, FormatLeads DEF Pairs
<1>4. Turns(part, a, q) /\ q \in Pairs /\ a \in Seq(Steps)
  BY <1>1, <1>3, TurnsIn, InType
<1>5. q[2] \in GoodPartitions
  BY <1>1, <1>4 DEF Pairs
<1>6. q[1] = Blank
  BY <1>1 DEF Pairs
<1> HIDE DEF q
<1>7. Leads(q[2], Format, Blank)
  BY <1>5, FormatLeads
<1>8. Turns(q, b, goal) /\ goal \in Pairs /\ b \in Seq(Steps)
  BY <1>1, <1>3, <1>4, <1>7, TurnsIn, InType
<1>9. goal[1] = Blank /\ goal[2] = Blank
  BY <1>1, <1>4, <1>6 DEF Pairs
<1> HIDE DEF goal
<1>10. goal = BothBlank
  BY <1>1, <1>8, <1>9 DEF Pairs, BothBlank
<1>11. a \in Seq(PlainSteps) /\ b \in Seq(PlainSteps)
  BY <1>1, FormatPlain, InPlain
<1> HIDE DEF a, b
<1>12. Turns(part, a \o b, goal) /\ a \o b \in Seq(PlainSteps)
  BY <1>4, <1>8, <1>11, TurnsJoin
<1> QED
  BY <1>2, <1>10, <1>12 DEF Formatting, Unborn

\* Its next write, carried out or torn.
LEMMA FormattingGoesOn ==
  ASSUME NEW p \in Pairs, NEW todo, Formatting(p, todo), todo # <<>>
  PROVE  LET w == Head(todo)
             t == [p EXCEPT ![w[1]] = Torn(@, w[2])]
         IN  /\ Formatting(Applied(p, w), Tail(todo))
             /\ \A i \in Copies : t[i].table = EmptyTable
<1> DEFINE w == Head(todo)
           t == [p EXCEPT ![w[1]] = Torn(@, w[2])]
<1>1. /\ todo \in Seq(PlainSteps) /\ Turns(p, todo, BothBlank)
      /\ \A i \in Copies : p[i].table = EmptyTable
  BY DEF Formatting
<1>2. w \in PlainSteps /\ Tail(todo) \in Seq(PlainSteps)
  BY <1>1
<1>3. w \in Steps /\ w[1] \in Copies /\ w[2] \in PlainWrites /\ w[2] \in Writes
  BY <1>2 DEF PlainSteps, PlainWrites, Steps
<1>4. todo \in Seq(Steps)
  <2>1. PlainSteps \subseteq Steps
    BY DEF PlainSteps
  <2> QED
    BY <1>1, <2>1
<1>5. Turns(Applied(p, w), Tail(todo), BothBlank)
  BY <1>1, <1>4, TurnsOn
<1> DEFINE d == w[2]
           i == w[1]
<1>6. Written(p[i], d).table = EmptyTable /\ Torn(p[i], d).table = EmptyTable
  <2>1. p[i] \in GoodPartitions /\ p[i].table = EmptyTable
    BY <1>1, <1>3 DEF Pairs
  <2>2. d \in Writes /\ d.to # "bin" /\ (d.to = "table" => d.what = EmptyTable)
    BY <1>3 DEF PlainWrites
  <2> DEFINE u == p[i]
  <2>3. u \in GoodPartitions /\ u.table = EmptyTable
    BY <2>1
  <2> HIDE DEF d, u
  <2>4. CASE d.to = "sector"
    <3>1. Written(u, d) = [u EXCEPT !.sector[d.at] = d.what]
      BY <2>4 DEF Written
    <3>2. Torn(u, d) = [u EXCEPT !.sector[d.at] = [d.what EXCEPT !.good = FALSE]]
      BY <2>4 DEF Torn
    <3> QED
      BY <2>3, <3>1, <3>2 DEF GoodPartitions, u
  <2>5. CASE d.to = "table"
    <3>1. Written(u, d) = [u EXCEPT !.table = d.what]
      BY <2>5 DEF Written
    <3>2. Torn(u, d) = [u EXCEPT !.crc = <<>>]
      BY <2>5 DEF Torn
    <3> QED
      BY <2>2, <2>3, <2>5, <3>1, <3>2 DEF GoodPartitions, u
  <2>6. CASE d.to = "crc"
    <3>1. Written(u, d) = [u EXCEPT !.crc = d.what]
      BY <2>6 DEF Written
    <3>2. Torn(u, d) = [u EXCEPT !.crc = <<>>]
      BY <2>6 DEF Torn
    <3> QED
      BY <2>3, <3>1, <3>2 DEF GoodPartitions, u
  <2>7. CASE d.to = "head"
    <3>1. Written(u, d) = [u EXCEPT !.head = d.what]
      BY <2>7 DEF Written
    <3>2. Torn(u, d) = [u EXCEPT !.head = FALSE]
      BY <2>7 DEF Torn
    <3> QED
      BY <2>3, <3>1, <3>2 DEF GoodPartitions, u
  <2> QED
    BY <2>2, <2>4, <2>5, <2>6, <2>7, WriteKinds
<1>7. Applied(p, w) = [p EXCEPT ![i] = Written(p[i], d)]
  BY <1>3, AppliedType
<1>8. t = [p EXCEPT ![i] = Torn(p[i], d)]
  OBVIOUS
<1> HIDE DEF i, d, t, w
<1>9. \A j \in Copies : Applied(p, w)[j].table = EmptyTable /\ t[j].table = EmptyTable
  BY <1>1, <1>6, <1>7, <1>8 DEF Pairs
<1>10. Formatting(Applied(p, w), Tail(todo))
  BY <1>2, <1>5, <1>9 DEF Formatting
<1> QED
  BY <1>9, <1>10 DEF t, w

\* At its end.
LEMMA FormattingEnds ==
  ASSUME NEW p, Formatting(p, <<>>)
  PROVE  BothHold(p, NothingKept)
<1>1. p = BothBlank
  BY DEF Formatting, Turns
<1> QED
  BY <1>1, BlankIs DEF BothHold, BothBlank, NothingKept

-----------------------------------------------------------------------------
(* Dnepr_BPEEPROM_Write when both copies hold the same values and there is    *)
(* room for everything.                                                       *)

\* The writes a to the first copy and then b to the second are still to be made
\* for n to have v in both, where the values were h.
Halves(p, h, n, v, a, b, g) ==
  /\ a \in Seq(Mild(h, n, v)) /\ b \in Seq(Mild(h, n, v))
  /\ a \in Seq(Writes) /\ b \in Seq(Writes)
  /\ g \in Pairs /\ BothHold(g, [h EXCEPT ![n] = v])
  /\ Leads(p[1], a, g[1]) /\ Leads(p[2], b, g[2])
  /\ MildPart(p[1], h, n, v) /\ MildPart(p[2], h, n, v)
  /\ a # <<>> => Holds(p[2], h)

Writing(p, todo, h, n, v) ==
  \E a, b, g : todo = In(1, a) \o In(2, b) /\ Halves(p, h, n, v, a, b, g)

\* One copy's part, when its record could be written.
Shared(s, c, i, r) ==
  /\ s \in Outcomes /\ s.todo = c.todo \o In(i, r.out) /\ s.end = "return" /\ s.ok[i]
  /\ \A j \in Copies : j # i => /\ s.free[j] = c.free[j]
                                /\ c.ok[j] => s.ok[j]

\* So it is, when STEEPROM_WriteRecord succeeds.
LEMMA ShareDoes ==
  ASSUME NEW c \in Outcomes, c.end = "return", NEW i \in Copies, NEW n, NEW v,
         NEW r, r = WriteRecord(part[i], c.free[i], n, v),
         r.end = "true", r.out \in Seq(Writes), r.free \subseteq Sectors
  PROVE  Shared(Share(c, i, n, v, FALSE), c, i, r)
<1> DEFINE s == Joined(c, i, r, FALSE)
           todo == c.todo \o In(i, r.out)
           sok == [c.ok EXCEPT ![i] = FALSE \/ r.end = "true"]
           sfree == [c.free EXCEPT ![i] = r.free]
           shealed == c.healed /\ (FALSE => r.end = "true")
<1>1. Share(c, i, n, v, FALSE) = s
  BY DEF Share
<1>2. /\ c.todo \in Seq(Steps) /\ c.ok \in [Copies -> BOOLEAN]
      /\ c.free \in [Copies -> SUBSET Sectors] /\ c.healed \in BOOLEAN
  BY DEF Outcomes
<1>3. s = [todo |-> todo, free |-> sfree, ok |-> sok, healed |-> shealed, end |-> "return"]
  BY DEF Joined, Stuck
<1>4. sok \in [Copies -> BOOLEAN] /\ sfree \in [Copies -> SUBSET Sectors]
  BY <1>2
<1>5. shealed \in BOOLEAN
  BY <1>2
<1>6. sok[i] /\ \A j \in Copies : j # i => sfree[j] = c.free[j] /\ (c.ok[j] => sok[j])
  BY <1>2
<1>7. todo \in Seq(Steps)
  BY <1>2, InType
<1> HIDE DEF todo, sok, sfree, shealed, s
<1>8. s.todo = todo /\ s.free = sfree /\ s.ok = sok /\ s.end = "return"
  BY <1>3
<1>9. s \in Outcomes
  BY <1>3, <1>4, <1>5, <1>7 DEF Outcomes, Ends
<1> QED
  BY <1>1, <1>6, <1>8, <1>9 DEF Shared, todo, s

\* Nothing is given up.
LEMMA NothingSpoiled ==
  ASSUME NEW c \in Outcomes, c.end = "return", \A i \in Copies : ok[i] => c.ok[i]
  PROVE  /\ Spoiled(c).todo = c.todo /\ Spoiled(c).ok = c.ok /\ Spoiled(c).end = "return"
<1>1. Spoiling(c) = <<>> \o <<>>
  BY DEF Spoiling
<1>2. Spoiling(c) = <<>> /\ c.todo \in Seq(Steps)
  BY <1>1 DEF Outcomes
<1>3. c.todo \o <<>> = c.todo
  BY <1>2
<1>4. Spoiled(c) = [c EXCEPT !.todo = c.todo]
  BY <1>2, <1>3 DEF Spoiled
<1> DEFINE t == c.todo
<1>5. Spoiled(c) = [c EXCEPT !.todo = t]
  BY <1>4
<1> HIDE DEF t
<1>6. Spoiled(c).todo = t /\ Spoiled(c).ok = c.ok /\ Spoiled(c).end = c.end
  BY <1>5 DEF Outcomes
<1> QED
  BY <1>6 DEF t

\* The value is written to the first copy, then to the second.
LEMMA WriteBoth ==
  ASSUME Room, TidyRest, present, ok[1], ok[2], BothHold(part, kept), Proper(kept),
         NEW n \in Names, NEW v \in ValuesOf[n]
  PROVE  /\ Writing(part, Write(n, v).todo, kept, n, v)
         /\ Write(n, v).ok[1] /\ Write(n, v).ok[2]
<1> DEFINE c == [Leaves EXCEPT !.end = Checked(n)]
           order == WriteOrder(n)
           r1 == WriteRecord(part[1], free[1], n, v)
           r2 == WriteRecord(part[2], free[2], n, v)
           s1 == Share(c, 1, n, v, FALSE)
           s2 == Share(s1, 2, n, v, FALSE)
<1>1. 1 \in Copies /\ 2 \in Copies /\ Copies = {1, 2}
  BY DEF Copies
<1>2. c \in Outcomes /\ c.todo = <<>> /\ c.ok = ok /\ c.free = free /\ c.end = "return"
  <2>1. c = [Leaves EXCEPT !.end = "return"]
    BY CheckedReturns
  <2> QED
    BY <2>1, LeavesAre
<1>3. order = <<1, 2>>
  <2>1. Holds(part[1], kept) /\ Holds(part[2], kept)
    BY <1>1 DEF BothHold
  <2>2. Valid(1, n) <=> Valid(2, n)
    BY <2>1, HoldsContent DEF Valid
  <2> QED
    BY <2>2 DEF WriteOrder
<1>4. Write(n, v) = Spoiled(s2)
  <2>1. DOMAIN order = {1, 2} /\ order[1] = 1 /\ order[2] = 2
    BY <1>3
  <2> HIDE DEF order, c
  <2>2. Turn(c, 1, order, n, v) = s1
    BY <2>1 DEF Turn
  <2> HIDE DEF s1
  <2>3. Turn(s1, 2, order, n, v) = s2
    BY <2>1 DEF Turn
  <2> HIDE DEF s2
  <2>4. Write(n, v) = Spoiled(Turn(Turn(c, 1, order, n, v), 2, order, n, v))
    BY DEF Write, c, order
  <2> QED
    BY <2>2, <2>3, <2>4
<1>5. /\ RoomWritten(part[1], kept, n, v, r1) /\ RoomWritten(part[2], kept, n, v, r2)
  <2>1. free[1] = FreeBitmap(part[1]) /\ free[2] = FreeBitmap(part[2])
    BY <1>1 DEF TidyRest, Tidy
  <2>2. Holds(part[1], kept) /\ Holds(part[2], kept)
    BY <1>1 DEF BothHold
  <2> QED
    BY <2>1, <2>2, RoomWrites
<1> HIDE DEF c, order, r1, r2
<1>6. Shared(s1, c, 1, r1)
  <2>1. r1 = WriteRecord(part[1], c.free[1], n, v)
    BY <1>2 DEF r1
  <2> QED
    BY <1>1, <1>2, <1>5, <2>1, ShareDoes DEF RoomWritten
<1> HIDE DEF s1
<1>7. s1 \in Outcomes /\ s1.end = "return" /\ s1.free[2] = free[2] /\ s1.ok[1]
  BY <1>1, <1>2, <1>6 DEF Shared
<1>8. Shared(s2, s1, 2, r2)
  <2>1. r2 = WriteRecord(part[2], s1.free[2], n, v)
    BY <1>7 DEF r2
  <2> QED
    BY <1>1, <1>5, <1>7, <2>1, ShareDoes DEF RoomWritten
<1> HIDE DEF s2
<1>9. s2 \in Outcomes /\ s2.end = "return" /\ s2.ok[1] /\ s2.ok[2]
  BY <1>1, <1>7, <1>8 DEF Shared
<1>10. s2.todo = In(1, r1.out) \o In(2, r2.out)
  <2>1. s2.todo = (<<>> \o In(1, r1.out)) \o In(2, r2.out)
    BY <1>2, <1>6, <1>8 DEF Shared
  <2>2. In(1, r1.out) \in Seq(Steps)
    BY <1>1, <1>5, InType DEF RoomWritten
  <2>3. <<>> \o In(1, r1.out) = In(1, r1.out)
    BY <2>2
  <2> QED
    BY <2>1, <2>3
<1>11. Write(n, v).todo = s2.todo /\ Write(n, v).ok = s2.ok
  BY <1>1, <1>4, <1>9, NothingSpoiled
<1> DEFINE g == [i \in Copies |-> IF i = 1 THEN r1.p ELSE r2.p]
<1>12. g[1] = r1.p /\ g[2] = r2.p /\ g \in Pairs
  <2>1. r1.p \in GoodPartitions /\ r2.p \in GoodPartitions
    BY <1>5, HoldsContent DEF RoomWritten
  <2> QED
    BY <1>1, <2>1 DEF Pairs
<1> HIDE DEF g
<1>13. BothHold(g, [kept EXCEPT ![n] = v])
  <2>1. /\ Holds(r1.p, [kept EXCEPT ![n] = v]) /\ Holds(r2.p, [kept EXCEPT ![n] = v])
    BY <1>5 DEF RoomWritten
  <2> QED
    BY <1>1, <1>12, <2>1 DEF BothHold
<1>14. /\ Holds(part[1], kept) /\ Holds(part[2], kept)
       /\ MildPart(part[1], kept, n, v) /\ MildPart(part[2], kept, n, v)
  BY <1>1, HoldsMild DEF BothHold
<1>15. Halves(part, kept, n, v, r1.out, r2.out, g)
  BY <1>5, <1>12, <1>13, <1>14 DEF Halves, RoomWritten
<1> QED
  BY <1>9, <1>10, <1>11, <1>15 DEF Writing

\* Without the EEPROM nothing is written.
LEMMA WriteNowhere ==
  ASSUME TidyRest, ~ present, NEW n \in Names, NEW v
  PROVE  /\ Write(n, v).todo = <<>> /\ Write(n, v).ok = ok
<1> DEFINE c == [Leaves EXCEPT !.end = Checked(n)]
<1>1. c \in Outcomes /\ c.todo = <<>> /\ c.ok = ok /\ c.end = "return"
  <2>1. c = [Leaves EXCEPT !.end = "return"]
    BY CheckedReturns
  <2> QED
    BY <2>1, LeavesAre
<1>2. WriteOrder(n) = <<>>
  BY DEF WriteOrder
<1> HIDE DEF c
<1>3. Write(n, v) = Spoiled(Turn(Turn(c, 1, WriteOrder(n), n, v), 2, WriteOrder(n), n, v))
  BY DEF Write, c
<1>4. Write(n, v) = Spoiled(c)
  BY <1>2, <1>3 DEF Turn
<1> QED
  BY <1>1, <1>4, NothingSpoiled

-----------------------------------------------------------------------------
(* A write to both copies under way.                                          *)

\* What is to be done next.
Due(p, todo, h, n, v, i) ==
  /\ todo # <<>> /\ Head(todo)[1] = i /\ Head(todo)[2] \in Mild(h, n, v)
  /\ Writing(Applied(p, Head(todo)), Tail(todo), h, n, v)

\* The first copy is being written ...
LEMMA HalvesFirst ==
  ASSUME NEW p \in Pairs, NEW todo, NEW h, NEW n \in Names, NEW v, NEW a, NEW b, NEW g,
         todo = In(1, a) \o In(2, b), Halves(p, h, n, v, a, b, g), a # <<>>
  PROVE  Due(p, todo, h, n, v, 1)
<1> DEFINE w == Head(a)
           z == In(2, b)
           q == Applied(p, <<1, w>>)
<1>1. /\ a \in Seq(Mild(h, n, v)) /\ a \in Seq(Writes) /\ b \in Seq(Writes)
      /\ b \in Seq(Mild(h, n, v)) /\ g \in Pairs /\ BothHold(g, [h EXCEPT ![n] = v])
      /\ Leads(p[1], a, g[1]) /\ Leads(p[2], b, g[2])
      /\ MildPart(p[1], h, n, v) /\ MildPart(p[2], h, n, v) /\ Holds(p[2], h)
  BY DEF Halves
<1>2. 1 \in Copies /\ 2 \in Copies
  BY DEF Copies
<1>3. z \in Seq(Steps)
  BY <1>1, <1>2, InType
<1>4. /\ w \in Mild(h, n, v) /\ w \in Writes /\ Tail(a) \in Seq(Mild(h, n, v))
      /\ Tail(a) \in Seq(Writes)
  BY <1>1
<1> HIDE DEF z
<1>5. /\ todo # <<>> /\ Head(todo) = <<1, w>> /\ Tail(todo) = In(1, Tail(a)) \o z
  <2>1. todo = In(1, a) \o z
    BY DEF z
  <2>2. 1 \in Copies /\ a \in Seq(Writes) /\ z \in Seq(Steps)
    BY <1>1, <1>2, <1>3
  <2> HIDE DEF w
  <2>3. /\ In(1, a) \o z # <<>> /\ Head(In(1, a) \o z) = <<1, Head(a)>>
        /\ Tail(In(1, a) \o z) = In(1, Tail(a)) \o z
    BY <2>2, InFirst
  <2> QED
    BY <2>1, <2>3 DEF w
<1>6. q = [p EXCEPT ![1] = Written(p[1], w)]
  <2>1. <<1, w>> \in Steps /\ <<1, w>>[1] = 1 /\ <<1, w>>[2] = w
    BY <1>2, <1>4 DEF Steps
  <2> QED
    BY <2>1, AppliedType
<1> HIDE DEF q, w
<1>7. q[1] = Written(p[1], w) /\ q[2] = p[2]
  BY <1>2, <1>6 DEF Pairs
<1>8. Leads(q[1], Tail(a), g[1])
  BY <1>1, <1>7, LeadsOn DEF w
<1>9. MildPart(q[1], h, n, v)
  BY <1>1, <1>4, <1>7, MildWritten
<1>10. Halves(q, h, n, v, Tail(a), b, g)
  BY <1>1, <1>4, <1>7, <1>8, <1>9 DEF Halves
<1>11. Writing(q, Tail(todo), h, n, v)
  BY <1>5, <1>10 DEF Writing, z
<1>12. Head(todo)[1] = 1 /\ Head(todo)[2] = w
  BY <1>5
<1> QED
  BY <1>4, <1>5, <1>11, <1>12 DEF Due, q

\* ... or the second.
LEMMA HalvesSecond ==
  ASSUME NEW p \in Pairs, NEW todo, NEW h, NEW n \in Names, NEW v, NEW a, NEW b, NEW g,
         todo = In(1, a) \o In(2, b), Halves(p, h, n, v, a, b, g), a = <<>>
  PROVE  /\ Holds(p[1], [h EXCEPT ![n] = v])
         /\ todo = <<>> => Holds(p[2], [h EXCEPT ![n] = v])
         /\ todo # <<>> => Due(p, todo, h, n, v, 2)
<1> DEFINE w == Head(b)
           q == Applied(p, <<2, w>>)
<1>1. /\ a \in Seq(Mild(h, n, v)) /\ a \in Seq(Writes) /\ b \in Seq(Writes)
      /\ b \in Seq(Mild(h, n, v)) /\ g \in Pairs /\ BothHold(g, [h EXCEPT ![n] = v])
      /\ Leads(p[1], a, g[1]) /\ Leads(p[2], b, g[2])
      /\ MildPart(p[1], h, n, v) /\ MildPart(p[2], h, n, v)
  BY DEF Halves
<1>2. 1 \in Copies /\ 2 \in Copies
  BY DEF Copies
<1>3. In(2, b) \in Seq(Steps) /\ <<>> \in Seq(Steps)
  BY <1>1, <1>2, InType
<1>4. todo = In(2, b)
  BY <1>1, <1>2, <1>3, InFirst
<1>5. p[1] = g[1] /\ Holds(g[1], [h EXCEPT ![n] = v]) /\ Holds(g[2], [h EXCEPT ![n] = v])
  BY <1>1, <1>2, LeadsToEnd DEF BothHold
<1>6. CASE todo = <<>>
  <2>1. b = <<>>
    BY <1>1, <1>2, <1>3, <1>4, <1>6, InFirst
  <2>2. p[2] = g[2]
    BY <1>1, <2>1, LeadsToEnd
  <2> QED
    BY <1>5, <1>6, <2>2
<1>7. CASE todo # <<>>
  <2>1. b # <<>>
    BY <1>2, <1>4, <1>7, InFirst, <1>1, <1>3
  <2>2. /\ w \in Mild(h, n, v) /\ w \in Writes /\ Tail(b) \in Seq(Mild(h, n, v))
        /\ Tail(b) \in Seq(Writes)
    BY <1>1, <2>1
  <2>3. In(2, b) \o <<>> = In(2, b) /\ In(2, Tail(b)) \o <<>> = In(2, Tail(b))
    BY <1>1, <1>2, <1>3, <2>2, InFirst
  <2>4. /\ Head(In(2, b) \o <<>>) = <<2, w>>
        /\ Tail(In(2, b) \o <<>>) = In(2, Tail(b)) \o <<>>
    <3> DEFINE e == <<>>
    <3>1. e \in Seq(Steps)
      BY <1>3
    <3> HIDE DEF e
    <3>2. /\ Head(In(2, b) \o e) = <<2, w>>
          /\ Tail(In(2, b) \o e) = In(2, Tail(b)) \o e
      <4>1. b \in Seq(Writes) /\ 2 \in Copies /\ w = Head(b)
        BY <1>1, <1>2
      <4> HIDE DEF w
      <4> QED
        BY <2>1, <3>1, <4>1, InFirst
    <3> QED
      BY <3>2 DEF e
  <2>5. Head(todo) = <<2, w>> /\ Tail(todo) = In(2, Tail(b))
    BY <1>4, <2>3, <2>4
  <2>6. In(2, Tail(b)) \in Seq(Steps)
    BY <1>2, <2>2, InType
  <2>7. Tail(todo) = In(1, a) \o In(2, Tail(b))
    <3> DEFINE e == In(2, Tail(b))
    <3>1. 1 \in Copies /\ a \in Seq(Writes) /\ e \in Seq(Steps) /\ Tail(todo) = e
      BY <1>1, <1>2, <2>5, <2>6
    <3> HIDE DEF e
    <3>2. In(1, a) \o e = e
      BY <3>1, InFirst
    <3> QED
      BY <3>1, <3>2 DEF e
  <2>8. q = [p EXCEPT ![2] = Written(p[2], w)]
    <3>1. <<2, w>> \in Steps /\ <<2, w>>[1] = 2 /\ <<2, w>>[2] = w
      BY <1>2, <2>2 DEF Steps
    <3> QED
      BY <3>1, AppliedType
  <2> HIDE DEF q, w
  <2>9. q[2] = Written(p[2], w) /\ q[1] = p[1]
    BY <1>2, <2>8 DEF Pairs
  <2>10. Leads(q[2], Tail(b), g[2])
    BY <1>1, <2>1, <2>9, LeadsOn DEF w
  <2>11. MildPart(q[2], h, n, v)
    BY <1>1, <2>2, <2>9, MildWritten
  <2>12. Halves(q, h, n, v, a, Tail(b), g)
    BY <1>1, <2>2, <2>9, <2>10, <2>11 DEF Halves
  <2>13. Writing(q, Tail(todo), h, n, v)
    BY <2>7, <2>12 DEF Writing
  <2>14. Head(todo)[1] = 2 /\ Head(todo)[2] = w
    <3>1. Head(todo) = <<2, w>>
      BY <2>5
    <3>2. <<2, w>>[1] = 2 /\ <<2, w>>[2] = w
      OBVIOUS
    <3> QED
      BY <3>1, <3>2, Zenon
  <2>15. Due(p, todo, h, n, v, 2)
    BY <1>7, <2>2, <2>5, <2>13, <2>14 DEF Due, q
  <2> QED
    BY <1>5, <1>7, <2>15
<1> QED
  BY <1>6, <1>7

\* Its next write.
LEMMA WritingGoesOn ==
  ASSUME NEW p \in Pairs, NEW todo, NEW h, NEW n \in Names, NEW v,
         Writing(p, todo, h, n, v), todo # <<>>
  PROVE  Writing(Applied(p, Head(todo)), Tail(todo), h, n, v)
<1>1. PICK a, b, g : todo = In(1, a) \o In(2, b) /\ Halves(p, h, n, v, a, b, g)
  BY DEF Writing
<1>2. CASE a = <<>>
  <2>1. Due(p, todo, h, n, v, 2)
    BY <1>1, <1>2, HalvesSecond
  <2> QED
    BY <2>1 DEF Due
<1>3. CASE a # <<>>
  <2>1. Due(p, todo, h, n, v, 1)
    BY <1>1, <1>3, HalvesFirst
  <2> QED
    BY <2>1 DEF Due
<1> QED
  BY <1>2, <1>3

\* Its end: both copies hold the new value.
LEMMA WritingEnds ==
  ASSUME NEW p \in Pairs, NEW h, NEW n \in Names, NEW v, Writing(p, <<>>, h, n, v)
  PROVE  BothHold(p, [h EXCEPT ![n] = v])
<1>1. PICK a, b, g : <<>> = In(1, a) \o In(2, b) /\ Halves(p, h, n, v, a, b, g)
  BY DEF Writing
<1>2. a # <<>> => Due(p, <<>>, h, n, v, 1)
  BY <1>1, HalvesFirst
<1>4. a = <<>>
  BY <1>2 DEF Due
<1>3. Holds(p[1], [h EXCEPT ![n] = v]) /\ Holds(p[2], [h EXCEPT ![n] = v])
  BY <1>1, <1>4, HalvesSecond
<1> QED
  BY <1>3 DEF BothHold, Copies

\* Where it stands.
LEMMA WritingStands ==
  ASSUME NEW p \in Pairs, NEW todo, NEW h, NEW n \in Names, NEW v,
         Writing(p, todo, h, n, v)
  PROVE  \/ MildPart(p[1], h, n, v) /\ Holds(p[2], h) /\ Due(p, todo, h, n, v, 1)
         \/ /\ Holds(p[1], [h EXCEPT ![n] = v]) /\ MildPart(p[2], h, n, v)
            /\ todo # <<>> => Due(p, todo, h, n, v, 2)
<1>1. PICK a, b, g : todo = In(1, a) \o In(2, b) /\ Halves(p, h, n, v, a, b, g)
  BY DEF Writing
<1>2. MildPart(p[1], h, n, v) /\ MildPart(p[2], h, n, v) /\ (a # <<>> => Holds(p[2], h))
  BY <1>1 DEF Halves
<1>3. CASE a # <<>>
  <2>1. Due(p, todo, h, n, v, 1)
    BY <1>1, <1>3, HalvesFirst
  <2> QED
    BY <1>2, <1>3, <2>1
<1>4. CASE a = <<>>
  <2>1. /\ Holds(p[1], [h EXCEPT ![n] = v])
        /\ todo # <<>> => Due(p, todo, h, n, v, 2)
    BY <1>1, <1>4, HalvesSecond
  <2> QED
    BY <1>2, <2>1
<1> QED
  BY <1>3, <1>4

\* The power fails between two writes or in the middle of one: the value has
\* changed or it has not, and no other has.
Cuts(p, todo) ==
  {p} \cup (IF todo # <<>>
            THEN {[p EXCEPT ![Head(todo)[1]] = Torn(p[Head(todo)[1]], Head(todo)[2])]}
            ELSE {})

\* Whatever the cut leaves is read as the old values or with the new one.
LEMMA WritingCut ==
  ASSUME NEW p \in Pairs, NEW todo, NEW h, h \in [Names -> Values \cup {Nothing}],
         NEW n \in Names, NEW v \in Values, Writing(p, todo, h, n, v), NEW q \in Cuts(p, todo)
  PROVE  KeptOff(q) = h \/ KeptOff(q) = [h EXCEPT ![n] = v]
<1> DEFINE w == Head(todo)[2]
<1>1. 1 \in Copies /\ 2 \in Copies
  BY DEF Copies
<1>2. CASE MildPart(p[1], h, n, v) /\ Holds(p[2], h) /\ Due(p, todo, h, n, v, 1)
  <2>5. todo # <<>> /\ Head(todo)[1] = 1 /\ w \in Mild(h, n, v)
    BY <1>2 DEF Due
  <2>1. q = p \/ q = [p EXCEPT ![1] = Torn(p[1], w)]
    BY <2>5 DEF Cuts
  <2> HIDE DEF w
  <2>2. MildPart(Torn(p[1], w), h, n, v)
    BY <1>2, <2>5, MildWritten
  <2>3. q[2] = p[2] /\ (q[1] = p[1] \/ q[1] = Torn(p[1], w))
    BY <1>1, <2>1 DEF Pairs
  <2>4. MildPart(q[1], h, n, v) /\ Holds(q[2], h)
    BY <1>2, <2>2, <2>3
  <2> QED
    BY <2>4, FirstTorn
<1>3. CASE /\ Holds(p[1], [h EXCEPT ![n] = v]) /\ MildPart(p[2], h, n, v)
           /\ todo # <<>> => Due(p, todo, h, n, v, 2)
  <2>5. todo # <<>> => Head(todo)[1] = 2 /\ w \in Mild(h, n, v)
    BY <1>3 DEF Due
  <2>1. q = p \/ (todo # <<>> /\ q = [p EXCEPT ![2] = Torn(p[2], w)])
    BY <2>5 DEF Cuts
  <2> HIDE DEF w
  <2>2. todo # <<>> => MildPart(Torn(p[2], w), h, n, v)
    BY <1>3, <2>5, MildWritten
  <2>3. q[1] = p[1] /\ (q[2] = p[2] \/ (todo # <<>> /\ q[2] = Torn(p[2], w)))
    BY <1>1, <2>1 DEF Pairs
  <2>4. MildPart(q[2], h, n, v) /\ Holds(q[1], [h EXCEPT ![n] = v])
    BY <1>3, <2>2, <2>3
  <2> DEFINE g == [h EXCEPT ![n] = v]
  <2>6. g = [h EXCEPT ![n] = v] /\ Holds(q[1], g)
    BY <2>4
  <2> HIDE DEF g
  <2>7. KeptOff(q) = g
    BY <2>4, <2>6, SecondTorn
  <2> QED
    BY <2>7 DEF g
<1> QED
  BY <1>2, <1>3, WritingStands

-----------------------------------------------------------------------------
(* Until the power fails during a call, with room for everything.             *)

\* A copy is in use exactly when the EEPROM answered, and then both are and hold
\* the same values.
Usable(p, k) ==
  /\ present => k[1] /\ k[2] /\ BothHold(p, kept)
  /\ ~ present => ~ k[1] /\ ~ k[2]

InitStands ==
  /\ present => \/ kept = NothingKept /\ Formatting(part, call.todo)
                \/ call.todo = <<>> /\ BothHold(part, kept)
  /\ ~ present => call.todo = <<>> /\ Settled(part, kept)

LoadStands ==
  /\ present /\ call.todo = <<>> /\ BothHold(part, kept) /\ call.ok[1] /\ call.ok[2]
  /\ call.value = kept[call.name] /\ call.value # Nothing

WriteStands ==
  /\ call.value \in ValuesOf[call.name]
  /\ present => /\ call.ok[1] /\ call.ok[2]
                /\ Writing(part, call.todo, kept, call.name, call.value)
  /\ ~ present => call.todo = <<>> /\ ~ call.ok[1] /\ ~ call.ok[2] /\ Settled(part, kept)

\* What has been synchronised agrees with RAM, but for what is just being done.
SyncedKept ==
  \A k \in 1 .. synced :
    (call.op \in {"load", "write"} => Order[k] # call.name) => kept[Order[k]] = ram[Order[k]]

Steady ==
  /\ kept \in [Names -> Values \cup {Nothing}] /\ Proper(kept)
  /\ \A n \in Names : ram[n] \in ValuesOf[n]
  /\ call.op \in {"off", "init"} => synced = 0
  /\ call.op \in {"off", "none"} => Settled(part, kept)
  /\ call.op = "none" => Usable(part, ok)
  /\ call.op = "init" => InitStands
  /\ call.op = "load" => LoadStands
  /\ call.op = "write" => WriteStands
  /\ present => SyncedKept

\* A step of the abstract store, or none.
StoreStep == [Store1!Next]_(Store1!vars)

\* At first nothing is kept and nothing requested.
LEMMA SteadyInit == Init => Steady /\ Store1!Init
<1> SUFFICES ASSUME Init PROVE Steady /\ Store1!Init
  OBVIOUS
<1>1. /\ call.op = "off" /\ synced = 0 /\ kept = NothingKept /\ ~ present
      /\ \A i \in Copies : Unborn(part[i])
      /\ \A n \in Names : ram[n] \in ValuesOf[n]
  BY OpsDiffer, MirrorAssumption DEF Init, Unformatted, Unborn, NothingKept
<1>2. kept \in [Names -> Values \cup {Nothing}] /\ Proper(kept)
  BY <1>1 DEF NothingKept, Proper
<1>3. Settled(part, kept)
  BY <1>1 DEF Settled
<1>4. Store1!Init
  BY <1>1 DEF Store1!Init, Requested, NothingKept
<1> QED
  BY <1>1, <1>2, <1>3, <1>4 DEF Steady

\* Steps that leave alone what is kept and what is requested.
LEMMA StoreStays == kept' = kept /\ Requested' = Requested => StoreStep
  BY DEF StoreStep, Store1!vars

\* Only a write is a request.
LEMMA NoRequest == call.op # "write" => Requested = Nothing
  BY DEF Requested

\* Both copies are in use if the EEPROM answers, and anyway they agree on h.
Answers(q, h, k, on) ==
  (on => BothHold(q, h) /\ k[1] /\ k[2]) /\ (~ on => Settled(q, h))

\* Then h is what is kept.
LEMMA KeptOnIs ==
  ASSUME NEW q, NEW h, NEW k, NEW on, Answers(q, h, k, on),
         h \in [Names -> Values \cup {Nothing}]
  PROVE  KeptOn(q, k, on) = h
<1>1. CASE on
  <2>1. InUse(q, h, k, on)
    BY <1>1 DEF Answers, InUse
  <2>2. \A n \in Names : Found(q, k, on, n).value = h[n]
    BY <2>1, HeldIsFound
  <2>3. KeptOn(q, k, on) = [n \in Names |-> Found(q, k, on, n).value]
    BY <1>1 DEF KeptOn
  <2> QED
    BY <2>2, <2>3
<1>2. CASE ~ on
  <2>1. KeptOff(q) = h
    BY <1>2, SettledAtStart DEF Answers
  <2> QED
    BY <1>2, <2>1 DEF KeptOn, KeptOff
<1> QED
  BY <1>1, <1>2

\* Dnepr_BPEEPROM_Init begins: it has nothing to repair.
LEMMA PowerOnSteady == Inv /\ Steady /\ PowerOn => Steady' /\ StoreStep
<1> SUFFICES ASSUME Inv, Steady, PowerOn PROVE Steady' /\ StoreStep
  OBVIOUS
<1>1. PICK seen \in BOOLEAN :
        /\ present' = seen
        /\ call' = [op |-> "init", todo |-> IF seen THEN InitWrites ELSE <<>>]
  BY DEF PowerOn
<1>2. /\ call.op = "off" /\ part' = part /\ kept' = kept /\ ram' = ram /\ synced' = synced
  BY OpsDiffer DEF PowerOn
<1>3. /\ call'.op = "init" /\ call'.todo = IF seen THEN InitWrites ELSE <<>>
  BY <1>1
<1>4. /\ Settled(part, kept) /\ synced = 0 /\ Proper(kept)
      /\ kept \in [Names -> Values \cup {Nothing}] /\ \A n \in Names : ram[n] \in ValuesOf[n]
  BY <1>2 DEF Steady
<1>5. InitStands'
  <2>1. CASE ~ seen
    BY <1>1, <1>2, <1>3, <1>4, <2>1 DEF InitStands
  <2>2. CASE seen /\ BothHold(part, kept)
    <3>1. Good(part[1]) /\ Good(part[2])
      BY <2>2, HoldsContent DEF BothHold, Copies
    <3>2. InitWrites = <<>>
      BY <3>1 DEF InitWrites
    <3> QED
      BY <1>1, <1>2, <1>3, <2>2, <3>2 DEF InitStands
  <2>3. CASE seen /\ (\A i \in Copies : Unborn(part[i])) /\ kept = NothingKept
    <3>1. Formatting(part, InitWrites)
      BY <2>3, FormattingBegins DEF Inv, Types
    <3>2. kept' = NothingKept' /\ Formatting(part', call'.todo)
      BY <1>2, <1>3, <2>3, <3>1 DEF NothingKept
    <3> QED
      BY <1>1, <2>3, <3>2 DEF InitStands
  <2> QED
    BY <1>4, <2>1, <2>2, <2>3 DEF Settled
<1>6. SyncedKept'
  BY <1>2, <1>4 DEF SyncedKept
<1>7. Steady'
  BY <1>2, <1>3, <1>4, <1>5, <1>6 DEF Steady, Proper
<1>8. StoreStep
  <2>1. Requested = Nothing /\ Requested' = Nothing
    BY <1>2, <1>3 DEF Requested
  <2> QED
    BY <1>2, <2>1, StoreStays
<1> QED
  BY <1>7, <1>8

\* It ends, and both partitions are open if the EEPROM answers.
LEMMA InitDoneSteady == Inv /\ Steady /\ InitDone => Steady' /\ StoreStep
<1> SUFFICES ASSUME Inv, Steady, InitDone PROVE Steady' /\ StoreStep
  OBVIOUS
<1>1. /\ call.op = "init" /\ call.todo = <<>> /\ call' = NoCall
      /\ ok' = [i \in Copies |-> present /\ OpenPartition(part[i])]
      /\ part' = part /\ present' = present /\ ram' = ram /\ synced' = synced
      /\ kept' = KeptOn(part, ok', present)
  BY DEF InitDone
<1>2. /\ InitStands /\ synced = 0 /\ Proper(kept)
      /\ kept \in [Names -> Values \cup {Nothing}] /\ \A n \in Names : ram[n] \in ValuesOf[n]
  BY <1>1 DEF Steady
<1>3. present \in BOOLEAN /\ 1 \in Copies /\ 2 \in Copies
  BY DEF Inv, Types, Copies
<1>4. present => BothHold(part, kept)
  BY <1>1, <1>2, FormattingEnds DEF InitStands
<1>5. ~ present => Settled(part, kept)
  BY <1>2 DEF InitStands
<1>6. present => OpenPartition(part[1]) /\ OpenPartition(part[2])
  BY <1>3, <1>4, HoldsContent DEF BothHold
<1>7. (present => ok'[1] /\ ok'[2]) /\ (~ present => ~ ok'[1] /\ ~ ok'[2])
  BY <1>1, <1>3, <1>6
<1>8. kept' = kept
  <2>1. Answers(part, kept, ok', present)
    BY <1>4, <1>5, <1>7 DEF Answers
  <2> QED
    BY <1>1, <1>2, <2>1, KeptOnIs
<1>9. call'.op = "none"
  BY <1>1, OpsDiffer
<1>10. Usable(part, ok)' /\ Settled(part, kept)'
  <2>1. Settled(part, kept)
    BY <1>4, <1>5 DEF Settled
  <2>2. Settled(part', kept')
    BY <1>1, <1>8, <2>1
  <2>3. Settled(part, kept)' = Settled(part', kept')
    BY DEF Settled, Unborn, NothingKept, BothHold
  <2> QED
    BY <1>1, <1>4, <1>7, <1>8, <2>2, <2>3 DEF Usable
<1>11. SyncedKept'
  BY <1>1, <1>2 DEF SyncedKept
<1>12. Steady'
  BY <1>1, <1>2, <1>8, <1>9, <1>10, <1>11 DEF Steady, Proper
<1>13. StoreStep
  <2>1. Requested = Nothing /\ Requested' = Nothing
    BY <1>1, <1>9 DEF Requested
  <2> QED
    BY <1>8, <2>1, StoreStays
<1> QED
  BY <1>12, <1>13

\* Requests are told from none.
LEMMA RequestsDiffer ==
  ASSUME NEW n \in Names, NEW v \in Values
  PROVE  <<n, v>> # Nothing
BY MirrorAssumption

\* Dnepr_BPEEPROM_Write begins.
LEMMA WriteBegins ==
  ASSUME Room, TidyRest, Steady, call.op = "none", NEW n \in Names, NEW v \in ValuesOf[n],
         call' = Begun("write", n, v, Write(n, v)),
         part' = part, present' = present, kept' = kept
  PROVE  /\ call'.op = "write" /\ call'.name = n /\ call'.value = v
         /\ WriteStands' /\ StoreStep
<1> DEFINE c == Write(n, v)
<1>1. /\ call'.op = "write" /\ call'.name = n /\ call'.value = v /\ call'.todo = c.todo
      /\ call'.ok = c.ok
  BY DEF Begun
<1>2. v \in Values
  BY MirrorAssumption
<1>3. Usable(part, ok) /\ Settled(part, kept) /\ Proper(kept)
  BY DEF Steady
<1>4. present => Writing(part, c.todo, kept, n, v) /\ c.ok[1] /\ c.ok[2]
  <2> SUFFICES ASSUME present PROVE Writing(part, c.todo, kept, n, v) /\ c.ok[1] /\ c.ok[2]
    OBVIOUS
  <2>1. ok[1] /\ ok[2] /\ BothHold(part, kept)
    BY <1>3 DEF Usable
  <2> QED
    BY <1>3, <2>1, WriteBoth
<1>5. ~ present => c.todo = <<>> /\ c.ok = ok /\ ~ ok[1] /\ ~ ok[2]
  BY <1>3, WriteNowhere DEF Usable
<1> HIDE DEF c
<1>6. WriteStands'
  <2>1. present' => /\ call'.ok[1] /\ call'.ok[2]
                    /\ Writing(part', call'.todo, kept', call'.name, call'.value)
    BY <1>1, <1>4
  <2>2. ~ present' => /\ call'.todo = <<>> /\ ~ call'.ok[1] /\ ~ call'.ok[2]
                      /\ Settled(part', kept')
    BY <1>1, <1>3, <1>5
  <2> QED
    BY <1>1, <2>1, <2>2 DEF WriteStands, Writing, Halves, Settled, BothHold, Unborn
<1>7. StoreStep
  <2>1. Requested = Nothing /\ Requested' = <<n, v>>
    BY <1>1 DEF Requested
  <2>2. Store1!Submit(n, v)
    BY <2>1 DEF Store1!Submit
  <2> QED
    BY <1>2, <2>2 DEF StoreStep, Store1!Next
<1> QED
  BY <1>1, <1>6, <1>7

\* eeprom_sync takes the next parameter.
LEMMA SyncSteady == Room /\ Inv /\ Undisturbed /\ Steady /\ SyncNext => Steady' /\ StoreStep
<1> SUFFICES ASSUME Room, Inv, Undisturbed, Steady, SyncNext PROVE Steady' /\ StoreStep
  OBVIOUS
<1> DEFINE n == Order[synced + 1]
           f == Found(part, ok, present, n)
<1>1. /\ call = NoCall /\ synced < Len(Order) /\ part' = part /\ ok' = ok
      /\ present' = present /\ ram' = ram /\ kept' = kept /\ synced' = synced + 1
      /\ call' = Synchronised(n, f)
  BY DEF SyncNext
<1>2. TidyRest
  BY <1>1, OpsDiffer DEF Inv, TidyRest, Types, Undisturbed
<1>3. n \in Names /\ synced' \in 1 .. Len(Order) /\ synced \in Nat
  <2>1. Order \in Seq(Names) /\ Len(Order) \in Nat /\ synced + 1 \in 1 .. Len(Order)
        /\ synced \in Nat
    BY <1>1, MirrorAssumption DEF Inv, Types
  <2> QED
    BY <1>1, <2>1
<1>4. Order[synced'] = n
  BY <1>1
<1> HIDE DEF n
<1>5. /\ kept \in [Names -> Values \cup {Nothing}] /\ Proper(kept)
      /\ \A m \in Names : ram[m] \in ValuesOf[m]
      /\ Usable(part, ok) /\ call.op = "none"
  BY <1>1, OpsDiffer DEF Steady
<1>6. present => SyncedKept
  BY DEF Steady
<1>7. ASSUME call'.op \in {"load", "write"}, call'.name = n, present
      PROVE  SyncedKept'
  <2> SUFFICES ASSUME NEW k \in 1 .. synced', Order[k] # n
               PROVE  kept'[Order[k]] = ram'[Order[k]]
    BY <1>7 DEF SyncedKept
  <2>1. k \in 1 .. synced
    BY <1>1, <1>3, <1>4
  <2>2. call.op \notin {"load", "write"}
    BY <1>5
  <2> QED
    BY <1>1, <1>6, <1>7, <2>1, <2>2 DEF SyncedKept
<1>8. CASE present /\ kept[n] # Nothing
  <2>1. InUse(part, kept, ok, present)
    BY <1>5, <1>8 DEF Usable, InUse
  <2>2. f.value = kept[n] /\ f.end = "true"
    <3>1. kept[n] # Nothing
      BY <1>8
    <3>2. f.value = kept[n] /\ f.end = IF kept[n] = Nothing THEN "absent" ELSE "true"
      BY <1>3, <2>1, HeldIsFound
    <3> QED
      BY <3>1, <3>2
  <2>3. Valid(1, n)
    <3>1. Holds(part[1], kept)
      BY <2>1 DEF InUse, BothHold, Copies
    <3> QED
      BY <1>3, <1>8, <3>1, HoldsContent DEF Valid
  <2> HIDE DEF f
  <2>4. call' = Begun("load", n, f.value, Heal(n, f.value))
    BY <1>1, <2>2 DEF Synchronised, Stuck
  <2>5. Heal(n, f.value) = Leaves
    BY <2>3 DEF Heal
  <2>6. /\ call'.op = "load" /\ call'.name = n /\ call'.value = kept[n]
        /\ call'.todo = <<>> /\ call'.ok = ok
    BY <2>2, <2>4, <2>5 DEF Begun, Leaves
  <2>7. LoadStands'
    <3>1. BothHold(part', kept') /\ present' /\ call'.ok[1] /\ call'.ok[2]
      BY <1>1, <2>1, <2>6 DEF InUse
    <3> QED
      BY <1>1, <1>8, <2>6, <3>1 DEF LoadStands, BothHold
  <2>8. SyncedKept'
    BY <1>7, <1>8, <2>6
  <2>9. Steady'
    BY <1>1, <1>5, <2>6, <2>7, <2>8 DEF Steady, Proper
  <2>10. Requested = Nothing /\ Requested' = Nothing
    BY <1>5, <2>6 DEF Requested
  <2> QED
    BY <1>1, <2>9, <2>10, StoreStays
<1>9. CASE ~ (present /\ kept[n] # Nothing)
  <2>1. f.end = "absent"
    <3>1. CASE present
      <4>1. InUse(part, kept, ok, present)
        BY <1>5, <3>1 DEF Usable, InUse
      <4>2. f.end = IF kept[n] = Nothing THEN "absent" ELSE "true"
        BY <1>3, <4>1, HeldIsFound
      <4> QED
        BY <1>9, <3>1, <4>2
    <3>2. CASE ~ present
      BY <3>2 DEF Found, Lookup, NotFound, Better, Stuck
    <3> QED
      BY <3>1, <3>2
  <2> HIDE DEF f
  <2>2. call' = Begun("write", n, ram[n], Write(n, ram[n]))
    BY <1>1, <2>1 DEF Synchronised, Stuck
  <2>3. ram[n] \in ValuesOf[n]
    BY <1>3, <1>5
  <2>4. /\ call'.op = "write" /\ call'.name = n
        /\ WriteStands' /\ StoreStep
    BY <1>1, <1>2, <1>3, <1>5, <2>2, <2>3, WriteBegins
  <2>5. present => SyncedKept'
    BY <1>7, <2>4
  <2>6. Steady'
    BY <1>1, <1>5, <2>4, <2>5 DEF Steady, Proper
  <2> QED
    BY <2>4, <2>6
<1> QED
  BY <1>8, <1>9

\* A parameter the profile has changed.
LEMMA StoreSteady ==
  ASSUME Room, Inv, Undisturbed, Steady, NEW n \in Names, NEW v \in ValuesOf[n], Store(n, v)
  PROVE  Steady' /\ StoreStep
<1>1. /\ call = NoCall /\ part' = part /\ present' = present /\ kept' = kept
      /\ synced' = synced /\ ram' = [ram EXCEPT ![n] = v]
      /\ call' = Begun("write", n, v, Write(n, v))
  BY DEF Store
<1>2. TidyRest /\ ram \in [Names -> Values]
  BY <1>1, OpsDiffer DEF Inv, TidyRest, Types, Undisturbed
<1>3. /\ kept \in [Names -> Values \cup {Nothing}] /\ Proper(kept)
      /\ \A m \in Names : ram[m] \in ValuesOf[m]
      /\ call.op = "none"
  BY <1>1, OpsDiffer DEF Steady
<1>4. /\ call'.op = "write" /\ call'.name = n
      /\ WriteStands' /\ StoreStep
  BY <1>1, <1>2, <1>3, WriteBegins
<1>5. \A m \in Names : ram'[m] = IF m = n THEN v ELSE ram[m]
  BY <1>1, <1>2
<1>6. present => SyncedKept'
  <2> SUFFICES ASSUME present, NEW k \in 1 .. synced', Order[k] # n
               PROVE  kept'[Order[k]] = ram'[Order[k]]
    BY <1>4 DEF SyncedKept
  <2>1. kept[Order[k]] = ram[Order[k]]
    BY <1>1, <1>3 DEF Steady, SyncedKept
  <2>2. Order[k] \in Names
    <3>1. Order \in Seq(Names) /\ k \in 1 .. Len(Order)
      BY <1>1, MirrorAssumption DEF Inv, Types
    <3> QED
      BY <3>1
  <2> QED
    BY <1>1, <1>5, <2>1, <2>2
<1>7. Steady'
  <2>1. \A m \in Names : ram'[m] \in ValuesOf[m]
    BY <1>3, <1>5
  <2> QED
    BY <1>1, <1>3, <1>4, <1>6, <2>1 DEF Steady, Proper
<1> QED
  BY <1>4, <1>7

\* One write to the EEPROM.
LEMMA EepromWriteSteady == Inv /\ Steady /\ EepromWrite => Steady' /\ StoreStep
<1> SUFFICES ASSUME Inv, Steady, EepromWrite PROVE Steady' /\ StoreStep
  OBVIOUS
<1>1. /\ call \notin {Off, NoCall} /\ call.todo # <<>>
      /\ part' = Applied(part, Head(call.todo))
      /\ call' = [call EXCEPT !.todo = Tail(call.todo)]
      /\ ok' = ok /\ present' = present /\ ram' = ram /\ synced' = synced /\ kept' = kept
  BY DEF EepromWrite, Applied
<1>2. call \in Calls /\ call.op \in {"init", "load", "write"} /\ part \in Pairs
  BY <1>1, CallsAre DEF Inv, Types
<1>3. /\ kept \in [Names -> Values \cup {Nothing}] /\ Proper(kept)
      /\ \A m \in Names : ram[m] \in ValuesOf[m]
  BY DEF Steady
<1>4. CASE call.op = "init"
  <2>1. call'.op = "init" /\ call'.todo = Tail(call.todo)
    <3>1. call \in [op : {"init"}, todo : Seq(Steps)]
      BY <1>2, <1>4, CallKinds, OpsDiffer
    <3> QED
      BY <1>1, <1>4, <3>1
  <2>2. InitStands /\ synced = 0
    BY <1>4 DEF Steady
  <2>3. present /\ kept = NothingKept /\ Formatting(part, call.todo)
    BY <1>1, <2>2 DEF InitStands
  <2>4. Formatting(Applied(part, Head(call.todo)), Tail(call.todo))
    BY <1>1, <1>2, <2>3, FormattingGoesOn
  <2>5. Formatting(part', call'.todo)
    BY <1>1, <2>1, <2>4
  <2>6. InitStands'
    BY <1>1, <2>3, <2>5 DEF InitStands, Formatting, NothingKept
  <2>7. SyncedKept'
    BY <1>1, <2>2 DEF SyncedKept
  <2>8. Steady'
    BY <1>1, <1>3, <2>1, <2>2, <2>6, <2>7 DEF Steady, Proper
  <2>9. Requested = Nothing /\ Requested' = Nothing
    BY <1>4, <2>1 DEF Requested
  <2> QED
    BY <1>1, <2>8, <2>9, StoreStays
<1>5. call.op # "load"
  BY <1>1 DEF Steady, LoadStands
<1>6. CASE call.op = "write"
  <2>1. /\ call'.op = "write" /\ call'.todo = Tail(call.todo) /\ call'.name = call.name
        /\ call'.value = call.value /\ call'.ok = call.ok /\ call.name \in Names
    <3>1. call \in [op : {"load", "write"}, name : Names, value : Values,
                    todo : Seq(Steps), ok : [Copies -> BOOLEAN],
                    free : [Copies -> SUBSET Sectors], end : Ends,
                    healed : BOOLEAN]
      BY <1>2, <1>6, CallKinds, OpsDiffer
    <3> QED
      BY <1>1, <1>6, <3>1
  <2>2. WriteStands
    BY <1>6 DEF Steady
  <2>3. /\ present /\ call.ok[1] /\ call.ok[2] /\ call.value \in ValuesOf[call.name]
        /\ Writing(part, call.todo, kept, call.name, call.value)
    BY <1>1, <2>2 DEF WriteStands
  <2>4. Writing(Applied(part, Head(call.todo)), Tail(call.todo), kept, call.name, call.value)
    BY <1>1, <1>2, <2>1, <2>3, WritingGoesOn
  <2>5. Writing(part', call'.todo, kept', call'.name, call'.value)
    BY <1>1, <2>1, <2>4
  <2>6. WriteStands'
    BY <1>1, <2>1, <2>3, <2>5 DEF WriteStands, Writing, Halves
  <2>7. SyncedKept'
    BY <1>1, <1>6, <2>1, <2>3 DEF Steady, SyncedKept
  <2>8. Steady'
    BY <1>1, <1>3, <2>1, <2>6, <2>7 DEF Steady, Proper
  <2>9. Requested' = Requested
    BY <1>6, <2>1 DEF Requested
  <2> QED
    BY <1>1, <2>8, <2>9, StoreStays
<1> QED
  BY <1>2, <1>4, <1>5, <1>6

\* A call that returns has both copies hold what is kept, or none in use.
LEMMA ReturnedSteady ==
  ASSUME Inv, Steady, CallReturns, Answers(part, kept', call.ok, present),
         ~ present => ~ call.ok[1] /\ ~ call.ok[2],
         kept' \in [Names -> Values \cup {Nothing}], Proper(kept'),
         call.value \in ValuesOf[call.name],
         present => kept'[call.name] = call.value
                    /\ \A m \in Names \ {call.name} : kept'[m] = kept[m]
  PROVE  Steady'
<1>1. /\ call.op \in {"load", "write"} /\ part' = part /\ present' = present
      /\ ok' = call.ok /\ synced' = synced /\ call' = NoCall
      /\ ram' = [ram EXCEPT ![call.name] = call.value]
  BY DEF CallReturns
<1>2. call.name \in Names /\ ram \in [Names -> Values]
  BY <1>1, CallsAre DEF Inv, Types
<1>3. \A m \in Names : ram'[m] = IF m = call.name THEN call.value ELSE ram[m]
  BY <1>1, <1>2
<1>4. call'.op = "none"
  BY <1>1, OpsDiffer
<1>5. Settled(part, kept') /\ (present => BothHold(part, kept') /\ call.ok[1] /\ call.ok[2])
  BY DEF Answers, Settled
<1>6. Usable(part, ok)' /\ Settled(part, kept)'
  BY <1>1, <1>5 DEF Usable, Settled, BothHold, Unborn, NothingKept
<1>7. present => SyncedKept'
  <2> SUFFICES ASSUME present, NEW k \in 1 .. synced PROVE kept'[Order[k]] = ram'[Order[k]]
    BY <1>1 DEF SyncedKept
  <2>1. Order[k] \in Names
    <3>1. Order \in Seq(Names) /\ k \in 1 .. Len(Order)
      BY <1>1, MirrorAssumption DEF Inv, Types
    <3> QED
      BY <3>1
  <2>2. Order[k] # call.name => kept[Order[k]] = ram[Order[k]]
    BY DEF Steady, SyncedKept
  <2> QED
    BY <1>3, <2>1, <2>2
<1>8. \A m \in Names : ram'[m] \in ValuesOf[m]
  BY <1>3 DEF Steady
<1> QED
  BY <1>1, <1>4, <1>6, <1>7, <1>8 DEF Steady, Proper

\* A call returns: what was requested is in the abstract store.
LEMMA CallReturnsSteady == Inv /\ Steady /\ CallReturns => Steady' /\ StoreStep
<1> SUFFICES ASSUME Inv, Steady, CallReturns PROVE Steady' /\ StoreStep
  OBVIOUS
<1>1. /\ call.op \in {"load", "write"} /\ call.todo = <<>> /\ part' = part
      /\ present' = present /\ call' = NoCall /\ ok' = call.ok
      /\ kept' = KeptOn(part, call.ok, present)
  BY DEF CallReturns
<1>2. call.name \in Names /\ call.value \in Values /\ part \in Pairs
  BY <1>1, CallsAre DEF Inv, Types
<1>3. kept \in [Names -> Values \cup {Nothing}] /\ Proper(kept)
  BY DEF Steady
<1>4. Requested' = Nothing
  BY <1>1, OpsDiffer DEF Requested
<1>5. CASE call.op = "load"
  <2>1. LoadStands
    BY <1>5 DEF Steady
  <2>2. Answers(part, kept, call.ok, present)
    BY <2>1 DEF LoadStands, Answers
  <2>3. kept' = kept
    BY <1>1, <1>3, <2>2, KeptOnIs
  <2>4. Answers(part, kept', call.ok, present)
    BY <2>2, <2>3
  <2>5. call.value \in ValuesOf[call.name] /\ kept'[call.name] = call.value /\ present
    BY <1>2, <1>3, <2>1, <2>3 DEF LoadStands, Proper
  <2>6. kept' \in [Names -> Values \cup {Nothing}] /\ Proper(kept')
    BY <1>3, <2>3 DEF Proper
  <2>7. Steady'
    BY <2>3, <2>4, <2>5, <2>6, ReturnedSteady
  <2>8. Requested = Nothing
    BY <1>5 DEF Requested
  <2> QED
    BY <1>4, <2>3, <2>7, <2>8, StoreStays
<1>6. CASE call.op = "write"
  <2>1. WriteStands
    BY <1>6 DEF Steady
  <2>2. Requested = <<call.name, call.value>>
    BY <1>6 DEF Requested
  <2>3. Requested # Nothing
    BY <1>2, <2>2, RequestsDiffer
  <2>4. CASE present
    <3> DEFINE g == [kept EXCEPT ![call.name] = call.value]
    <3>1. /\ call.ok[1] /\ call.ok[2] /\ call.value \in ValuesOf[call.name]
          /\ Writing(part, <<>>, kept, call.name, call.value)
      BY <1>1, <2>1, <2>4 DEF WriteStands
    <3>2. BothHold(part, g)
      BY <1>2, <3>1, WritingEnds
    <3>3. /\ g \in [Names -> Values \cup {Nothing}] /\ Proper(g)
          /\ g[call.name] = call.value
          /\ \A m \in Names \ {call.name} : g[m] = kept[m]
      BY <1>2, <1>3, <3>1 DEF Proper
    <3>4. [kept EXCEPT ![Requested[1]] = Requested[2]] = g
      BY <2>2
    <3> HIDE DEF g
    <3>5. Answers(part, g, call.ok, present)
      BY <2>4, <3>1, <3>2 DEF Answers
    <3>6. kept' = g
      BY <1>1, <3>3, <3>5, KeptOnIs
    <3>7. Answers(part, kept', call.ok, present)
      BY <3>5, <3>6
    <3>8. kept' \in [Names -> Values \cup {Nothing}] /\ Proper(kept')
      BY <3>3, <3>6 DEF Proper
    <3>9. Steady'
      BY <2>4, <3>1, <3>3, <3>6, <3>7, <3>8, ReturnedSteady
    <3>10. Store1!Return
      BY <1>4, <2>3, <3>4, <3>6 DEF Store1!Return, Store1!Installed
    <3> QED
      BY <3>9, <3>10 DEF StoreStep, Store1!Next
  <2>5. CASE ~ present
    <3>1. /\ ~ call.ok[1] /\ ~ call.ok[2] /\ call.value \in ValuesOf[call.name]
          /\ Settled(part, kept)
      BY <2>1, <2>5 DEF WriteStands
    <3>2. Answers(part, kept, call.ok, present)
      BY <2>5, <3>1 DEF Answers
    <3>3. kept' = kept
      BY <1>1, <1>3, <3>2, KeptOnIs
    <3>4. Answers(part, kept', call.ok, present)
      BY <3>2, <3>3
    <3>5. kept' \in [Names -> Values \cup {Nothing}] /\ Proper(kept')
      BY <1>3, <3>3 DEF Proper
    <3>6. Steady'
      BY <2>5, <3>1, <3>4, <3>5, ReturnedSteady
    <3>7. Store1!Fail
      BY <1>4, <2>3, <3>3 DEF Store1!Fail
    <3> QED
      BY <3>6, <3>7 DEF StoreStep, Store1!Next
  <2> QED
    BY <2>4, <2>5
<1> QED
  BY <1>1, <1>5, <1>6

\* The power fails when nothing remains to be written.
LEMMA LossAtRest ==
  ASSUME Inv, Steady, PowerLoss, ~ (call # NoCall /\ call.todo # <<>>)
  PROVE  Steady' /\ StoreStep
<1>1. /\ call # Off /\ call' = Off /\ part' = part /\ present' = FALSE /\ ram' = Factory
      /\ synced' = 0 /\ kept' = KeptOff(part')
  BY DEF PowerLoss
<1>2. part \in Pairs /\ call \in Calls /\ call'.op = "off"
  BY <1>1, OpsDiffer DEF Inv, Types
<1>3. kept \in [Names -> Values \cup {Nothing}] /\ Proper(kept)
  BY DEF Steady
<1>4. Requested' = Nothing
  BY <1>2 DEF Requested
<1>5. call = NoCall \/ (call.op \in {"init", "load", "write"} /\ call.todo = <<>>)
  BY <1>1, <1>2, CallsAre
<1>6. ASSUME Settled(part, kept'), kept' \in [Names -> Values \cup {Nothing}], Proper(kept')
      PROVE  Steady'
  <2>1. Settled(part, kept)'
    BY <1>1, <1>6 DEF Settled, BothHold, Unborn, NothingKept
  <2>2. SyncedKept'
    BY <1>1 DEF SyncedKept
  <2>3. \A m \in Names : ram'[m] \in ValuesOf[m]
    BY <1>1, MirrorAssumption
  <2> QED
    BY <1>1, <1>2, <1>6, <2>1, <2>2, <2>3 DEF Steady, Proper
<1>7. ASSUME Settled(part, kept) PROVE Steady' /\ StoreStep
  <2>1. kept' = kept
    BY <1>1, <1>7, SettledAtStart
  <2>2. Settled(part, kept') /\ kept' \in [Names -> Values \cup {Nothing}] /\ Proper(kept')
    BY <1>3, <1>7, <2>1 DEF Proper
  <2>3. Steady'
    BY <1>6, <2>2
  <2>4. CASE call.op = "write"
    <3>1. Requested = <<call.name, call.value>> /\ call.name \in Names /\ call.value \in Values
      BY <1>2, <2>4, CallsAre DEF Requested
    <3>2. Requested # Nothing
      BY <3>1, RequestsDiffer
    <3>3. Store1!Fail
      BY <1>4, <2>1, <3>2 DEF Store1!Fail
    <3> QED
      BY <2>3, <3>3 DEF StoreStep, Store1!Next
  <2>5. CASE call.op # "write"
    BY <1>4, <2>1, <2>3, <2>5, NoRequest, StoreStays
  <2> QED
    BY <2>4, <2>5
<1>8. CASE call = NoCall
  BY <1>7, <1>8, OpsDiffer DEF Steady
<1>9. CASE call.op = "init" /\ call.todo = <<>>
  <2>1. InitStands
    BY <1>9 DEF Steady
  <2>2. Settled(part, kept)
    BY <1>9, <2>1, FormattingEnds DEF InitStands, Settled
  <2> QED
    BY <1>7, <2>2
<1>10. CASE call.op = "load"
  BY <1>7, <1>10 DEF Steady, LoadStands, Settled
<1>11. CASE call.op = "write" /\ call.todo = <<>>
  <2>1. WriteStands /\ call.name \in Names /\ call.value \in Values
    BY <1>2, <1>11, CallsAre DEF Steady
  <2>2. CASE present
    <3> DEFINE g == [kept EXCEPT ![call.name] = call.value]
    <3>1. call.value \in ValuesOf[call.name] /\ Writing(part, <<>>, kept, call.name, call.value)
      BY <1>11, <2>1, <2>2 DEF WriteStands
    <3>2. BothHold(part, g)
      BY <1>2, <2>1, <3>1, WritingEnds
    <3>3. g \in [Names -> Values \cup {Nothing}] /\ Proper(g)
      BY <1>3, <2>1, <3>1 DEF Proper
    <3>4. Requested = <<call.name, call.value>>
      BY <1>11 DEF Requested
    <3>5. [kept EXCEPT ![Requested[1]] = Requested[2]] = g /\ Requested # Nothing
      BY <2>1, <3>4, RequestsDiffer
    <3> HIDE DEF g
    <3>6. kept' = g
      BY <1>1, <3>2, HeldAtStart
    <3>7. Settled(part, kept') /\ kept' \in [Names -> Values \cup {Nothing}] /\ Proper(kept')
      BY <3>2, <3>3, <3>6 DEF Proper, Settled
    <3>8. Steady'
      BY <1>6, <3>7
    <3>9. Store1!Fail
      BY <1>4, <3>5, <3>6 DEF Store1!Fail, Store1!Installed
    <3> QED
      BY <3>8, <3>9 DEF StoreStep, Store1!Next
  <2>3. CASE ~ present
    BY <1>7, <2>1, <2>3 DEF WriteStands
  <2> QED
    BY <2>2, <2>3
<1> QED
  BY <1>5, <1>8, <1>9, <1>10, <1>11

\* It fails during a call: for the first time when both copies agreed before.
LEMMA LossCuts ==
  ASSUME Inv, Steady, PowerLoss, call # NoCall, call.todo # <<>>
  PROVE  StoreStep
<1> DEFINE w == Head(call.todo)
           t == [part EXCEPT ![w[1]] = Torn(part[w[1]], w[2])]
<1>1. /\ call # Off /\ call' = Off /\ kept' = KeptOff(part')
      /\ part' = part \/ part' = t
  BY DEF PowerLoss
<1>2. part \in Pairs /\ call \in Calls /\ call'.op = "off"
  BY <1>1, OpsDiffer DEF Inv, Types
<1>3. Requested' = Nothing
  BY <1>2 DEF Requested
<1>4. call.op \in {"init", "load", "write"}
  BY <1>1, <1>2, CallsAre
<1>5. part' \in Cuts(part, call.todo)
  BY <1>1 DEF Cuts
<1>6. CASE call.op = "init"
  <2>1. present /\ kept = NothingKept /\ Formatting(part, call.todo)
    BY <1>6 DEF Steady, InitStands
  <2>2. \A i \in Copies : part[i].table = EmptyTable /\ t[i].table = EmptyTable
    BY <1>2, <2>1, FormattingGoesOn DEF Formatting
  <2> HIDE DEF t
  <2>3. \A i \in Copies : part'[i].table = EmptyTable
    BY <1>1, <2>2
  <2>4. kept' = kept
    BY <1>1, <2>1, <2>3, EmptyAtStart
  <2> QED
    BY <1>3, <1>6, <2>4, NoRequest, StoreStays
<1>7. CASE call.op = "load"
  BY <1>7 DEF Steady, LoadStands
<1>8. CASE call.op = "write"
  <2>1. WriteStands /\ call.name \in Names /\ call.value \in Values
        /\ kept \in [Names -> Values \cup {Nothing}]
    BY <1>2, <1>8, CallsAre DEF Steady
  <2>2. Writing(part, call.todo, kept, call.name, call.value)
    BY <2>1 DEF WriteStands
  <2>3. KeptOff(part') = kept \/ KeptOff(part') = [kept EXCEPT ![call.name] = call.value]
    BY <1>2, <1>5, <2>1, <2>2, WritingCut
  <2>4. Requested = <<call.name, call.value>>
    BY <1>8 DEF Requested
  <2>5. Requested # Nothing
    BY <2>1, <2>4, RequestsDiffer
  <2>6. Store1!Installed = [kept EXCEPT ![call.name] = call.value]
    BY <2>4 DEF Store1!Installed
  <2>7. Store1!Fail
    BY <1>1, <1>3, <2>3, <2>5, <2>6 DEF Store1!Fail
  <2> QED
    BY <2>7 DEF StoreStep, Store1!Next
<1> QED
  BY <1>4, <1>6, <1>7, <1>8

\* Each step of the mirrored store is one of the abstract store or none, and
\* unless the power fails during a call, the copies go on holding the same.
LEMMA SteadyNext ==
  Room /\ Inv /\ Undisturbed /\ Steady /\ [Next]_vars
    => (cuts' = cuts => Steady') /\ StoreStep
<1> SUFFICES ASSUME Room, Inv, Undisturbed, Steady, [Next]_vars
             PROVE  (cuts' = cuts => Steady') /\ StoreStep
  OBVIOUS
<1>1. CASE PowerOn
  BY <1>1, PowerOnSteady
<1>2. CASE InitDone
  BY <1>2, InitDoneSteady
<1>3. CASE SyncNext
  BY <1>3, SyncSteady
<1>4. ASSUME NEW n \in Names, NEW v \in ValuesOf[n], Store(n, v)
      PROVE  Steady' /\ StoreStep
  BY <1>4, StoreSteady
<1>5. CASE EepromWrite
  BY <1>5, EepromWriteSteady
<1>6. CASE CallReturns
  BY <1>6, CallReturnsSteady
<1>7. CASE PowerLoss
  <2>1. CASE call # NoCall /\ call.todo # <<>>
    <3>1. StoreStep
      BY <1>7, <2>1, LossCuts
    <3>2. cuts' = cuts + 1 /\ cuts \in Nat
      BY <1>7, <2>1 DEF PowerLoss, Inv, Types
    <3>3. cuts' # cuts
      BY <3>2
    <3> QED
      BY <3>1, <3>3
  <2>2. CASE ~ (call # NoCall /\ call.todo # <<>>)
    BY <1>7, <2>2, LossAtRest
  <2> QED
    BY <2>1, <2>2
<1>8. CASE UNCHANGED vars
  <2>0. /\ part' = part /\ ok' = ok /\ present' = present /\ ram' = ram
        /\ synced' = synced /\ call' = call /\ kept' = kept
    BY <1>8 DEF vars
  <2>1. Steady'
    <3>1. Settled(part, kept)' <=> Settled(part, kept)
      BY <2>0 DEF Settled, BothHold, Unborn, NothingKept
    <3>2. Usable(part, ok)' <=> Usable(part, ok)
      BY <2>0 DEF Usable, BothHold
    <3>3. InitStands' <=> InitStands
      BY <2>0 DEF InitStands, Settled, BothHold, Unborn, NothingKept, Formatting
    <3>4. LoadStands' <=> LoadStands
      BY <2>0 DEF LoadStands, BothHold
    <3>5. WriteStands' <=> WriteStands
      BY <2>0 DEF WriteStands, Writing, Halves, Settled, BothHold, Unborn, NothingKept
    <3>6. SyncedKept' <=> SyncedKept
      BY <2>0 DEF SyncedKept
    <3>7. Proper(kept)' <=> Proper(kept)
      BY <2>0 DEF Proper
    <3> QED
      BY <2>0, <3>1, <3>2, <3>3, <3>4, <3>5, <3>6, <3>7 DEF Steady
  <2>2. StoreStep
    BY <1>8, StoreStays DEF vars, Requested
  <2> QED
    BY <2>1, <2>2
<1> QED
  BY <1>1, <1>2, <1>3, <1>4, <1>5, <1>6, <1>7, <1>8 DEF Next

\* With room for everything, until the power fails during a call, the copies
\* hold the same values.
THEOREM SteadyInvariant == ASSUME Room PROVE Spec => [](cuts = 0 => Steady)
<1>1. Init => (cuts = 0 => Steady)
  BY SteadyInit
<1>2. Inv /\ (cuts = 0 => Undisturbed) /\ (cuts = 0 => Steady) /\ [Next]_vars
        => (cuts = 0 => Steady)'
  BY SteadyNext, CutsOnlyGrow
<1> QED
  BY <1>1, <1>2, MirrorInvariant, UndisturbedInvariant, PTL DEF Spec

\* With room for everything, until the power fails during a call, the next start
\* finds what is in RAM, for every parameter (Dnepr_ProfileStorage_eeprom_sync
\* and what is stored after it).
THEOREM RamStaysStored == ASSUME Room PROVE Spec => [](cuts = 0 => RamIsStored)
<1>1. (cuts = 0 => Steady) => (cuts = 0 => RamIsStored)
  <2> SUFFICES ASSUME Steady, call = NoCall, synced = Len(Order), present, NEW n \in Names
               PROVE  AtStart(part, n) = ram[n]
    BY DEF RamIsStored
  <2>1. call.op = "none"
    BY OpsDiffer
  <2>2. BothHold(part, kept) /\ SyncedKept
    BY <2>1 DEF Steady, Usable
  <2>3. AtStart(part, n) = kept[n]
    BY <2>2, HeldAtStart
  <2>4. PICK k \in DOMAIN Order : Order[k] = n
    BY MirrorAssumption
  <2>5. k \in 1 .. synced
    BY <2>4, MirrorAssumption
  <2>6. kept[Order[k]] = ram[Order[k]]
    BY <2>1, <2>2, <2>5 DEF SyncedKept
  <2> QED
    BY <2>3, <2>4, <2>6
<1> QED
  BY <1>1, SteadyInvariant, PTL

\* With room for everything, the mirrored store does what one store does that
\* is written at one instant, up to the first loss of power during a call and
\* including it.
THEOREM MirrorImplements ==
  ASSUME Room
  PROVE  Spec => Store1!Init /\ [][cuts = 0 => [Store1!Next]_(Store1!vars)]_vars
<1>1. Init => Store1!Init
  BY SteadyInit
<1>2. Inv /\ (cuts = 0 => Undisturbed) /\ (cuts = 0 => Steady) /\ [Next]_vars
        => [cuts = 0 => [Store1!Next]_(Store1!vars)]_vars
  BY SteadyNext DEF StoreStep
<1> QED
  BY <1>1, <1>2, MirrorInvariant, UndisturbedInvariant, SteadyInvariant, PTL DEF Spec

\* A board whose power does not fail during a call keeps the promise for good.
THEOREM UncutPromise == ASSUME Room PROVE Spec /\ [](cuts = 0) => Promise
<1>1. cuts = 0 /\ [cuts = 0 => [Store1!Next]_(Store1!vars)]_vars
        => [Store1!Next]_(Store1!vars)
  BY DEF vars, Store1!vars, Requested
<1> QED
  BY <1>1, MirrorImplements, PTL DEF Promise, Store1!Spec
=============================================================================
