-------------------------------- MODULE Bio ----------------------------------
(***************************************************************************)
(* Block devices (lib/bio): a partition published on a block driver that   *)
(* leaves reads and writes at byte offsets to the default hooks.  A call   *)
(* is an operator on the contents of the disk.  The driver may fail to     *)
(* write, after any number of the blocks it was given: a write has a set   *)
(* of outcomes [disk, ok].                                                 *)
(***************************************************************************)
EXTENDS Integers, SequencesExt

CONSTANTS
  BLOCK_SIZE,
  BLOCK_COUNT,  \* blocks of the driver's device
  START, COUNT, \* the partition, in blocks
  Byte          \* bound: the bytes callers write

ASSUME BioAssumption ==
  /\ {BLOCK_SIZE, BLOCK_COUNT} \subseteq Nat \ {0}
  /\ START \in Nat /\ COUNT \in Nat
  /\ START + COUNT <= BLOCK_COUNT  \* bio_publish_subdevice()
  /\ Byte \subseteq 0 .. 255

VARIABLE disk  \* offset -> byte

lower(m, n) == IF m < n THEN m ELSE n

\* n bytes at an offset.
bytes(d, offset, n) == [i \in 1 .. n |-> d[offset + i - 1]]

\* memcpy() of a buffer into d.
place(d, offset, buf) ==
  [i \in DOMAIN d |-> IF i - offset \in 0 .. (Len(buf) - 1) THEN buf[i - offset + 1]
                      ELSE d[i]]

done(d) == [disk |-> d, ok |-> TRUE]
failed(d) == [disk |-> d, ok |-> FALSE]

\* The write hook of the driver, which the platform supplies.
driver_write_block(d, buf, block, count) ==
  {done(place(d, block * BLOCK_SIZE, buf))} \union
  {failed(place(d, block * BLOCK_SIZE, SubSeq(buf, 1, k * BLOCK_SIZE))) : k \in 0 .. (count - 1)}

\* The calls follow each other until one of them fails.
after(outcomes, op(_)) ==
  {o \in outcomes : ~o.ok} \union UNION {op(o.disk) : o \in {p \in outcomes : p.ok}}

\* A block is read, changed and written back.
rewrite_block(d, buf, block, block_offset) ==
  driver_write_block(d, [i \in 1 .. BLOCK_SIZE |->
                           IF i - block_offset \in 1 .. Len(buf) THEN buf[i - block_offset]
                           ELSE d[block * BLOCK_SIZE + i - 1]], block, 1)

bio_default_write(d, buf, offset) ==
  LET block  == offset \div BLOCK_SIZE
      within == offset % BLOCK_SIZE
      first  == IF within = 0 THEN 0 ELSE lower(BLOCK_SIZE - within, Len(buf))
      next   == IF within = 0 THEN block ELSE block + 1
      count  == (Len(buf) - first) \div BLOCK_SIZE
      middle == first + count * BLOCK_SIZE
  IN  after(after(
        IF first = 0 THEN {done(d)}
        ELSE rewrite_block(d, SubSeq(buf, 1, first), block, within),
        LAMBDA e : IF count = 0 THEN {done(e)}
                   ELSE driver_write_block(e, SubSeq(buf, first + 1, middle), next, count)),
        LAMBDA e : IF middle = Len(buf) THEN {done(e)}
                   ELSE rewrite_block(e, SubSeq(buf, middle + 1, Len(buf)), next + count, 0))

block_bytes(d, block, count) == bytes(d, block * BLOCK_SIZE, count * BLOCK_SIZE)

\* The driver's read hook has succeeded each time.
bio_default_read(d, offset, len) ==
  LET block  == offset \div BLOCK_SIZE
      within == offset % BLOCK_SIZE
      first  == IF within = 0 THEN 0 ELSE lower(BLOCK_SIZE - within, len)
      next   == IF within = 0 THEN block ELSE block + 1
      count  == (len - first) \div BLOCK_SIZE
      rest   == len - first - count * BLOCK_SIZE
  IN  SubSeq(block_bytes(d, block, 1), within + 1, within + first)
      \o block_bytes(d, next, count)
      \o IF rest = 0 THEN <<>> ELSE SubSeq(block_bytes(d, next + count, 1), 1, rest)

\* Variant for mutation: no range check.
unclipped(size, offset, len) == len

\* The range check of bio_read() and bio_write() on a device of some size.
clipped(size, offset, len) == IF offset >= size THEN 0 ELSE lower(len, size - offset)

\* On the driver's device.
bio_write(d, buf, offset) ==
  LET len == clipped(BLOCK_COUNT * BLOCK_SIZE, offset, Len(buf))
  IN  IF len = 0 THEN {done(d)} ELSE bio_default_write(d, SubSeq(buf, 1, len), offset)

bio_read(d, offset, n) ==
  LET len == clipped(BLOCK_COUNT * BLOCK_SIZE, offset, n)
  IN  IF len = 0 THEN <<>> ELSE bio_default_read(d, offset, len)

\* bio_write() and bio_read() on the partition.
subdev_write(d, buf, offset) ==
  LET len == clipped(COUNT * BLOCK_SIZE, offset, Len(buf))
  IN  IF len = 0 THEN {done(d)}
      ELSE bio_write(d, SubSeq(buf, 1, len), offset + START * BLOCK_SIZE)

subdev_read(d, offset, n) ==
  LET len == clipped(COUNT * BLOCK_SIZE, offset, n)
  IN  IF len = 0 THEN <<>> ELSE bio_read(d, offset + START * BLOCK_SIZE, len)
=============================================================================
