---------------------------- MODULE EepromStorage ----------------------------
(* One partition of the parameter store in the backplane's EEPROM             *)
(* (Storage/src/eeprom_storage.c): a hash table of chains of records, each    *)
(* record a head sector followed by body sectors, every sector and the table  *)
(* with a CRC of its own.                                                     *)
(*                                                                            *)
(* The code is sequential, so an operation is a function of the partition and *)
(* of the bitmap of free sectors in RAM: it yields the EEPROM writes it makes,*)
(* in their order, the bitmap it leaves and how it ends.  The module that     *)
(* uses it carries the writes out one at a time and may lose power between    *)
(* two of them or in the middle of one.                                       *)
EXTENDS Integers, Sequences, SequencesExt, FiniteSets

CONSTANTS
  Names,     \* names of records
  Values,    \* values of records
  Nothing,   \* no value
  NSectors,  \* BPEEPROM_TOTALSECTORS
  Hash,      \* the bin of the hash table each name falls into
  Size       \* how many sectors each value takes

ASSUME EepromAssumption ==
  /\ Nothing \notin Values
  /\ NSectors \in Nat \ {0}
  /\ DOMAIN Hash = Names
  /\ Size \in [Values -> Nat \ {0}]

Sectors == 0 .. NSectors - 1

Bins == {Hash[n] : n \in Names}

\* STEEPROM_INVALID_ADDRESS
None == -1

(* A sector: does its CRC match, and its fields.  "crc" stands for the value  *)
(* whose CRC data_crc is, "data" for the piece of a value the sector holds.   *)
FreeSector ==
  [good |-> TRUE, status |-> "FREE", name |-> "INVALID_NAME", crc |-> "zero",
   nexthash |-> 0, prevhash |-> 0, len |-> 0, next |-> None, data |-> <<>>]

(* A partition: is its header good, the hash table, the table that the stored *)
(* CRC of the table was computed from, the sectors.                           *)
EmptyTable == [b \in Bins |-> None]
Unformatted ==
  [head |-> FALSE, table |-> EmptyTable, crc |-> <<>>,
   sector |-> [s \in Sectors |-> FreeSector]]

-----------------------------------------------------------------------------
(* Writes to the EEPROM.                                                      *)
SectorWrite(s, rec) == [to |-> "sector", at |-> s, what |-> rec]
BinWrite(b, s) == [to |-> "bin", at |-> b, what |-> s]
TableWrite(t) == [to |-> "table", what |-> t]
CrcWrite(t) == [to |-> "crc", what |-> t]
HeaderWrite(good) == [to |-> "head", what |-> good]

Written(p, w) ==
  CASE w.to = "sector" -> [p EXCEPT !.sector[w.at] = w.what]
    [] w.to = "bin"    -> [p EXCEPT !.table[w.at] = w.what]
    [] w.to = "table"  -> [p EXCEPT !.table = w.what]
    [] w.to = "crc"    -> [p EXCEPT !.crc = w.what]
    [] w.to = "head"   -> [p EXCEPT !.head = w.what]

(* A write the power failed in: whatever it was writing has a CRC that does   *)
(* not match.                                                                 *)
Torn(p, w) ==
  CASE w.to = "sector" -> [p EXCEPT !.sector[w.at] = [w.what EXCEPT !.good = FALSE]]
    [] w.to = "head"   -> [p EXCEPT !.head = FALSE]
    [] OTHER           -> [p EXCEPT !.crc = <<>>]

-----------------------------------------------------------------------------
(* Opening, checking and formatting.                                          *)
OpenPartition(p) == p.head /\ p.crc = p.table

CheckPartition(p) == \A s \in Sectors : p.sector[s].good

FreeBitmap(p) == {s \in Sectors : p.sector[s].status = "FREE"}

Format ==
  <<HeaderWrite(FALSE)>>
    \o [i \in 1 .. NSectors |-> SectorWrite(i - 1, FreeSector)]
    \o <<HeaderWrite(TRUE), TableWrite(EmptyTable), CrcWrite(EmptyTable)>>

\* __copy_bytes: everything after the header of the good partition p.
Copy(p) ==
  <<TableWrite(p.table), CrcWrite(p.crc)>>
    \o [i \in 1 .. NSectors |-> SectorWrite(i - 1, p.sector[i - 1])]

-----------------------------------------------------------------------------
(* An operation under way: the partition as written so far, the bitmap, the   *)
(* sector number at hand, __sect_buff, what the operation has put out, and    *)
(* how it stands: "run", or it has ended with TRUE, with FALSE, in a failed   *)
(* assertion or in a loop it does not leave.                                  *)
Begin(p, free) ==
  [p |-> p, free |-> free, at |-> None, buf |-> FreeSector, out |-> <<>>,
   end |-> "run"]

Running(m) == m.end = "run"

Expect(m, cond) == IF Running(m) /\ ~cond THEN [m EXCEPT !.end = "false"] ELSE m

\* __read_sector with its assertion on the sector's number
ReadSector(m, s) ==
  IF ~Running(m) THEN m
  ELSE IF s \notin Sectors THEN [m EXCEPT !.end = "assert"]
  ELSE IF ~m.p.sector[s].good THEN [m EXCEPT !.end = "false"]
  ELSE [m EXCEPT !.at = s, !.buf = m.p.sector[s]]

\* the sector just read, and the one it names next
HasStatus(m, status) == Expect(m, m.buf.status = status)

ReadSectorAs(m, s, status) == HasStatus(ReadSector(m, s), status)

ReadNext(m) == ReadSectorAs(m, m.buf.next, "BODY")

Put(m, w) == [m EXCEPT !.p = Written(@, w), !.out = Append(@, w)]

WriteSector(m, s, rec) ==
  IF Running(m) THEN [Put(m, SectorWrite(s, rec)) EXCEPT !.buf = rec] ELSE m

\* __bitmap_next_free
NextFree(free) ==
  IF free = {} THEN None ELSE CHOOSE s \in free : \A t \in free : s <= t

\* __bitmap_set to FALSE
Busy(free, s) == free \ {s}

\* the body of a loop, once for each index from first to last
Loop(Body(_, _), m, first, last) ==
  LET after[k \in Nat] == IF k = 0 THEN m ELSE Body(after[k - 1], first + k - 1)
  IN  after[IF first <= last THEN last - first + 1 ELSE 0]

(* __seek_1st_sector: along the hash chain to the name or back to the first   *)
(* record.  More steps than there are sectors: the chain goes round without   *)
(* coming to its first record and the walk never ends.                        *)
Recognise(m, name, first) ==
  IF ~Running(m) \/ m.buf.name = name THEN m
  ELSE IF m.buf.nexthash = first THEN [m EXCEPT !.at = None]
  ELSE [m EXCEPT !.end = "walk", !.at = m.buf.nexthash]

Endless(m) == IF m.end = "walk" THEN [m EXCEPT !.end = "loop"] ELSE m

Seek(m, name) ==
  LET first == m.p.table[Hash[name]]
      Step(r, k) ==
        IF r.end # "walk" THEN r
        ELSE Recognise(ReadSectorAs([r EXCEPT !.end = "run"], r.at, "HEAD"), name, first)
  IN  IF first = None THEN [m EXCEPT !.at = None]
      ELSE Endless(Loop(Step, [m EXCEPT !.at = first, !.end = "walk"], 1, NSectors + 1))

-----------------------------------------------------------------------------
(* STEEPROM_ReadRecord and STEEPROM_CheckValue: "end" is "true" when the      *)
(* record is there and its data match its CRC, "absent" when it is not there. *)
NoContent(end) == [end |-> end, value |-> Nothing]

\* one more piece; past the end of a chain cut short the sector in __sect_buff
\* is taken once more
Collected(m) == IF Running(m) THEN [m EXCEPT !.out = Append(@, m.buf.data)] ELSE m

Gather(m, i) == Collected(IF m.buf.next # None THEN ReadNext(m) ELSE m)

Verified(m, crc) ==
  IF ~Running(m) THEN NoContent(m.end)
  ELSE IF m.out = [i \in 1 .. Size[crc] |-> <<crc, i>>]
  THEN [end |-> "true", value |-> crc]
  ELSE NoContent("false")

ContentAt(m) ==
  IF ~Running(m) THEN NoContent(m.end)
  ELSE IF m.at = None THEN NoContent("absent")
  ELSE Verified(Loop(Gather, [m EXCEPT !.out = <<m.buf.data>>], 1, m.buf.len - 1),
                m.buf.crc)

Content(p, name) == ContentAt(Seek(Begin(p, {}), name))

-----------------------------------------------------------------------------
(* STEEPROM_WriteRecord.                                                      *)

\* mutant: one piece behind
FilledBehind(m, v, i) ==
  [m.buf EXCEPT !.status = IF i > 0 THEN "BODY" ELSE @,
                !.len = Size[v], !.crc = v, !.data = <<v, i>>]

\* a piece of the value in a sector the record already has
Filled(m, v, i) ==
  [m.buf EXCEPT !.status = IF i > 0 THEN "BODY" ELSE @,
                !.len = Size[v], !.crc = v, !.data = <<v, i + 1>>]

\* the loop over the kept sectors but the last: write one, read the next
HasNext(m) == Expect(m, m.buf.next # 0)

Refill(m, v, i) == ReadNext(HasNext(WriteSector(m, m.at, Filled(m, v, i))))

\* the loop that goes on past the sectors the record had
Extend(m, v, i, next) ==
  IF Running(m)
  THEN [WriteSector(m, m.at, [Filled(m, v, i) EXCEPT !.next = next]) EXCEPT !.at = next]
  ELSE m

Lengthen(m, v, i) ==
  LET more == i < Size[v] - 1
      next == IF more THEN NextFree(m.free) ELSE None
  IN  IF ~Running(m) THEN m
      ELSE Extend([Expect(m, more => next # None) EXCEPT !.free = Busy(@, next)], v, i, next)

Grow(m, v) ==
  LET old == m.buf.len
      room == Expect(m, Size[v] - old <= Cardinality(m.free))
      kept == Loop(LAMBDA r, i : Refill(r, v, i), room, 0, old - 2)
  IN  Loop(LAMBDA r, i : Lengthen(r, v, i), kept, old - 1, Size[v] - 1)

\* a surplus sector becomes free
Surplus(m) ==
  WriteSector(m, m.at, [m.buf EXCEPT !.status = "FREE", !.crc = "zero", !.next = None,
                                     !.data = <<>>])

\* mutant: the bitmap is not told
ReleasedUnmarked(m) ==
  IF Running(m) THEN [Surplus(m) EXCEPT !.at = m.buf.next] ELSE m

Released(m) ==
  IF Running(m) THEN [Surplus(m) EXCEPT !.free = @ \cup {m.at}, !.at = m.buf.next] ELSE m

Release(m) == Released(ReadSectorAs(m, m.at, "BODY"))

\* the last sector of the record
Close(m, v) ==
  WriteSector(m, m.at, [m.buf EXCEPT !.len = Size[v], !.crc = v, !.next = None,
                                     !.data = <<v, Size[v]>>])

\* mutant: the surplus sectors are cut off but not released
ShrinkLeaking(m, v) ==
  Close(Loop(LAMBDA r, i : Refill(r, v, i), m, 0, Size[v] - 2), v)

Past(m) == [m EXCEPT !.at = m.buf.next]

Shrink(m, v) ==
  LET walked == Loop(LAMBDA r, i : ReadNext(r), m, 1, Size[v] - 1)
      cut == Loop(LAMBDA r, i : Release(r), Past(walked), Size[v], m.buf.len - 1)
      head == ReadSectorAs(cut, m.at, "HEAD")
  IN  Close(Loop(LAMBDA r, i : Refill(r, v, i), head, 0, Size[v] - 2), v)

(* A new record: it is entered in the hash table or linked at the end of its  *)
(* chain first, then written; a changed table gets its CRC last.              *)
Compose(m, s, name, v, next, prev) ==
  LET rec == [FreeSector EXCEPT !.name = name, !.status = "HEAD", !.crc = v,
                                !.len = Size[v], !.nexthash = next, !.prevhash = prev]
  IN  Loop(LAMBDA r, i : Lengthen(r, v, i), [m EXCEPT !.at = s, !.buf = rec],
           0, Size[v] - 1)

\* the first of its chain ...
RenewCrc(m) == Put(m, CrcWrite(m.p.table))

Enter(m, s, name, v) ==
  RenewCrc(Compose(Put(m, BinWrite(Hash[name], s)), s, name, v, s, s))

\* ... or between the one that was last and the first
LinkPrev(m, s) == WriteSector(m, m.at, [m.buf EXCEPT !.prevhash = s])
LinkNext(m, s) == WriteSector(m, m.at, [m.buf EXCEPT !.nexthash = s])
Hook(m, s) == LinkNext(ReadSectorAs(LinkPrev(m, s), m.buf.prevhash, "HEAD"), s)
Join(m, s, name, v, first) ==
  IF Running(m) THEN Compose(m, s, name, v, first, m.at) ELSE m

Add(m, name, v) ==
  LET first == m.p.table[Hash[name]]
      s == NextFree(m.free)
      taken == [m EXCEPT !.free = Busy(@, s)]
  IN  IF Size[v] > Cardinality(m.free) THEN [m EXCEPT !.end = "false"]
      ELSE IF first = None THEN Enter(taken, s, name, v)
      ELSE Join(Hook(ReadSectorAs(taken, first, "HEAD"), s), s, name, v, first)

Rewrite(m, name, v) ==
  IF ~Running(m) THEN m
  ELSE IF m.at = None THEN Add(m, name, v)
  ELSE IF Size[v] > m.buf.len THEN Grow(m, v)
  ELSE Shrink(m, v)

Returned(m) == IF Running(m) THEN [m EXCEPT !.end = "true"] ELSE m

WriteRecord(p, free, name, v) ==
  Returned(Rewrite(Seek(Begin(p, free), name), name, v))

\* STEEPROM_SpoilPartition
Spoil == HeaderWrite(FALSE)
=============================================================================
