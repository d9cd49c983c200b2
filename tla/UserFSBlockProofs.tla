------------------------- MODULE UserFSBlockProofs -------------------------
(***************************************************************************)
(* What the loops of UserFS over blocks do, for every size of blocks:      *)
(* the lengths and the bytes that WriteBlocks, ShrinkBlocks and GrowBlocks *)
(* leave, and what ReadBytes finds in them: its loop ends, never goes      *)
(* behind the blocks, and returns the bytes of the file in their order.    *)
(***************************************************************************)
EXTENDS UserFS, DataTheorems

Bytes == Byte \cup {JUNK}

(* The blocks of a file are full up to the last, which is not empty and    *)
(* ends with the file; together they hold its bytes.                       *)
Exact(file) ==
  LET n == Len(file.blocks) IN
  /\ Len(file.data) = file.size
  /\ n = 0 => file.size = 0
  /\ n > 0 => /\ file.blocks[n].occupied > 0
              /\ file.size = (n - 1) * BLOCK_SIZE + file.blocks[n].occupied
  /\ \A i \in DOMAIN file.blocks :
       /\ i < n => file.blocks[i].occupied = BLOCK_SIZE
       /\ \A j \in 1..file.blocks[i].occupied :
            file.blocks[i].memory[j] = file.data[(i - 1) * BLOCK_SIZE + j]


-----------------------------------------------------------------------------
(* Sizes and single blocks.                                                *)

(* A block has room for at least one byte.                                 *)
LEMMA BlockSizeType == BLOCK_SIZE \in Nat /\ BLOCK_SIZE > 0 /\ BLOCK_SIZE \in Nat \ {0}
  BY UserFSAssumption

(* A place in a file as a block and a place in it.                         *)
LEMMA Division ==
  ASSUME NEW a \in Nat
  PROVE  /\ a % BLOCK_SIZE \in 0..(BLOCK_SIZE - 1)
         /\ a \div BLOCK_SIZE \in Nat
         /\ a = (a \div BLOCK_SIZE) * BLOCK_SIZE + (a % BLOCK_SIZE)
  BY BlockSizeType

(* What the solver needs to be told about numbers of blocks as bytes.      *)
LEMMA Multiples ==
  ASSUME NEW a \in Int
  PROVE  /\ a * BLOCK_SIZE \in Int
         /\ a \in Nat => a * BLOCK_SIZE \in Nat
         /\ a \in Nat /\ a > 0 => a * BLOCK_SIZE >= BLOCK_SIZE
         /\ (a + 1) * BLOCK_SIZE = a * BLOCK_SIZE + BLOCK_SIZE
         /\ (a - 1) * BLOCK_SIZE = a * BLOCK_SIZE - BLOCK_SIZE
  BY BlockSizeType

(* More blocks have room for at least as many bytes.                       *)
LEMMA Products ==
  ASSUME NEW a \in Int, NEW b \in Int
  PROVE  /\ a * BLOCK_SIZE \in Int
         /\ a \in Nat => a * BLOCK_SIZE \in Nat
         /\ a <= b => a * BLOCK_SIZE <= b * BLOCK_SIZE
         /\ (a + b) * BLOCK_SIZE = a * BLOCK_SIZE + b * BLOCK_SIZE
         /\ (a + 1) * BLOCK_SIZE = a * BLOCK_SIZE + BLOCK_SIZE
         /\ (a - 1) * BLOCK_SIZE = a * BLOCK_SIZE - BLOCK_SIZE
  BY BlockSizeType

(* As many blocks as are needed for size bytes, and no more.               *)
LEMMA BlockCountProperties ==
  ASSUME NEW size \in Nat
  PROVE  /\ BlockCount(size) \in Nat
         /\ size <= BlockCount(size) * BLOCK_SIZE
         /\ BlockCount(size) * BLOCK_SIZE < size + BLOCK_SIZE
         /\ \A n \in Nat : size <= n * BLOCK_SIZE => BlockCount(size) <= n
         /\ size = 0 <=> BlockCount(size) = 0
<1>1. BLOCK_SIZE \in Nat /\ BLOCK_SIZE > 0
  BY BlockSizeType
<1>2. ASSUME NEW n \in Nat, size <= n * BLOCK_SIZE  PROVE  BlockCount(size) <= n
  BY <1>1, <1>2 DEF BlockCount
<1>3. /\ BlockCount(size) \in Nat
      /\ size <= BlockCount(size) * BLOCK_SIZE
      /\ BlockCount(size) * BLOCK_SIZE < size + BLOCK_SIZE
  BY <1>1 DEF BlockCount
<1>4. size = 0 => BlockCount(size) <= 0
  BY <1>1, <1>2
<1> QED
  BY <1>1, <1>2, <1>3, <1>4

(* The last block of a file of the given size holds 1 to BLOCK_SIZE bytes, *)
(* and ends with the file.                                                 *)
LEMMA LastOccupiedProperties ==
  ASSUME NEW size \in Nat
  PROVE  /\ LastOccupied(size) \in 1..BLOCK_SIZE
         /\ size > 0 => size = (BlockCount(size) - 1) * BLOCK_SIZE + LastOccupied(size)
         /\ LastOccupied(size) = BLOCK_SIZE <=> size % BLOCK_SIZE = 0
<1>1. BLOCK_SIZE \in Nat /\ BLOCK_SIZE > 0
  BY BlockSizeType
<1> DEFINE q == size \div BLOCK_SIZE
           r == size % BLOCK_SIZE
<1>2. q \in Nat /\ r \in 0..(BLOCK_SIZE - 1) /\ size = q * BLOCK_SIZE + r
  BY Division
<1>3. /\ BlockCount(size) \in Nat
      /\ size <= BlockCount(size) * BLOCK_SIZE
      /\ BlockCount(size) * BLOCK_SIZE < size + BLOCK_SIZE
  BY BlockCountProperties
<1> HIDE DEF q, r
<1>4. r = 0 => BlockCount(size) = q
  BY <1>1, <1>2, <1>3
<1>5. r > 0 => BlockCount(size) = q + 1
  BY <1>1, <1>2, <1>3
<1>6. LastOccupied(size) = IF r = 0 THEN BLOCK_SIZE ELSE r
  BY DEF LastOccupied, r
<1>7. (r = 0 <=> size % BLOCK_SIZE = 0) /\ r \in Nat
  BY <1>2 DEF r
<1>8. (q - 1) * BLOCK_SIZE = q * BLOCK_SIZE - BLOCK_SIZE
  BY <1>1, <1>2
<1>9. CASE r = 0
  BY <1>1, <1>2, <1>4, <1>6, <1>7, <1>8, <1>9
<1>10. CASE r > 0
  <2>1. BlockCount(size) - 1 = q
    BY <1>2, <1>5, <1>10
  <2> QED
    BY <1>1, <1>2, <1>6, <1>7, <1>10, <2>1
<1> QED
  BY <1>7, <1>9, <1>10

(* malloc and calloc give an empty block.                                  *)
LEMMA NewBlockProperties ==
  ASSUME NEW byte \in Bytes
  PROVE  /\ NewBlock(byte) \in Block
         /\ NewBlock(byte).occupied = 0
         /\ \A i \in 1..BLOCK_SIZE : NewBlock(byte).memory[i] = byte
  BY BlockSizeType DEF NewBlock, Block, Bytes

(* The bytes go to where they should, and the others stay.                 *)
LEMMA PutBytesProperties ==
  ASSUME NEW block \in Block, NEW from \in Nat, NEW bytes \in Seq(Bytes),
         from + Len(bytes) <= BLOCK_SIZE
  PROVE  /\ PutBytes(block, from, bytes) \in Block
         /\ PutBytes(block, from, bytes).occupied =
              Larger(block.occupied, from + Len(bytes))
         /\ \A i \in 1..BLOCK_SIZE :
              PutBytes(block, from, bytes).memory[i] =
                IF i - from \in 1..Len(bytes) THEN bytes[i - from] ELSE block.memory[i]
<1>1. BLOCK_SIZE \in Nat /\ BLOCK_SIZE > 0
  BY BlockSizeType
<1>2. block.occupied \in 0..BLOCK_SIZE /\ block.memory \in [1..BLOCK_SIZE -> Bytes]
  BY DEF Block, Bytes
<1>3. Larger(block.occupied, from + Len(bytes)) \in 0..BLOCK_SIZE
  BY <1>1, <1>2 DEF Larger
<1>4. ASSUME NEW i \in 1..BLOCK_SIZE
      PROVE  (IF i - from \in DOMAIN bytes THEN bytes[i - from] ELSE block.memory[i]) \in Bytes
  <2>1. block.memory[i] \in Bytes
    BY <1>2
  <2>2. i - from \in DOMAIN bytes => bytes[i - from] \in Bytes
    OBVIOUS
  <2> QED
    BY <2>1, <2>2
<1> QED
  BY <1>3, <1>4 DEF PutBytes, Block, Bytes

-----------------------------------------------------------------------------
(* Writing.                                                                *)

(* The parts of a write: what goes into the block of the offset, or into   *)
(* the first new one, and what goes into each block behind that.           *)
FirstLen(offset, buf) == Smaller(Len(buf), BLOCK_SIZE - (offset % BLOCK_SIZE))

RestLen(offset, buf) == Len(buf) - FirstLen(offset, buf)

FirstPart(offset, buf) == SubSeq(buf, 1, FirstLen(offset, buf))

ChunkLen(offset, buf, j) ==
  Smaller(j * BLOCK_SIZE, RestLen(offset, buf)) - (j - 1) * BLOCK_SIZE

InPlace(blocks, offset) ==
  /\ offset \div BLOCK_SIZE + 1 \in DOMAIN blocks
  /\ blocks[offset \div BLOCK_SIZE + 1].occupied # BLOCK_SIZE

Target(blocks, offset) ==
  IF InPlace(blocks, offset) THEN offset \div BLOCK_SIZE + 1 ELSE Len(blocks) + 1

Base(blocks, offset) == IF InPlace(blocks, offset) THEN Len(blocks) ELSE Len(blocks) + 1

OldTarget(blocks, offset) ==
  IF InPlace(blocks, offset) THEN blocks[offset \div BLOCK_SIZE + 1] ELSE NewBlock(JUNK)

(* The bytes of a write that go into the block of the offset: as many as   *)
(* there are, or fit.                                                      *)
LEMMA FirstPartProperties ==
  ASSUME NEW offset \in Nat, NEW buf \in Seq(Byte)
  PROVE  /\ FirstLen(offset, buf) \in Nat
         /\ RestLen(offset, buf) \in Nat
         /\ (offset % BLOCK_SIZE) + FirstLen(offset, buf) <= BLOCK_SIZE
         /\ RestLen(offset, buf) > 0 =>
              (offset % BLOCK_SIZE) + FirstLen(offset, buf) = BLOCK_SIZE
         /\ Len(buf) > 0 => FirstLen(offset, buf) > 0
         /\ FirstPart(offset, buf) \in Seq(Bytes)
         /\ Len(FirstPart(offset, buf)) = FirstLen(offset, buf)
         /\ \A x \in 1..FirstLen(offset, buf) : FirstPart(offset, buf)[x] = buf[x]
<1> DEFINE n == FirstLen(offset, buf)
<1>1. /\ n \in Nat /\ n <= Len(buf) /\ Len(buf) \in Nat
      /\ (offset % BLOCK_SIZE) + n <= BLOCK_SIZE
      /\ Len(buf) - n > 0 => (offset % BLOCK_SIZE) + n = BLOCK_SIZE
      /\ Len(buf) > 0 => n > 0
  <2> DEFINE l == Len(buf)
             m == offset % BLOCK_SIZE
  <2>1. l \in Nat /\ m \in 0..(BLOCK_SIZE - 1)
    <3>1. l \in Nat
      OBVIOUS
    <3> QED
      BY <3>1, Division
  <2>2. n = IF l < BLOCK_SIZE - m THEN l ELSE BLOCK_SIZE - m
    BY DEF FirstLen, Smaller
  <2> HIDE DEF l, m, n
  <2>3. /\ n \in Nat /\ n <= l /\ m + n <= BLOCK_SIZE
        /\ l - n > 0 => m + n = BLOCK_SIZE
        /\ l > 0 => n > 0
    BY <2>1, <2>2, BlockSizeType
  <2> QED
    BY <2>1, <2>3 DEF l, m
<1>2. \A x \in 1..n : buf[x] \in Bytes
  <2> HIDE DEF n
  <2> TAKE x \in 1..n
  <2>1. x \in 1..Len(buf)
    BY <1>1
  <2> QED
    BY <2>1, ElementOfSeq DEF Bytes
<1> HIDE DEF n
<1>3. /\ SubSeq(buf, 1, n) \in Seq(Bytes)
      /\ Len(SubSeq(buf, 1, n)) = IF 1 <= n THEN n - 1 + 1 ELSE 0
      /\ \A i \in 1..(n - 1 + 1) : SubSeq(buf, 1, n)[i] = buf[1 + i - 1]
  BY <1>1, <1>2, SubSeqProperties
<1>4. \A x \in 1..n : SubSeq(buf, 1, n)[x] = buf[x]
  <2> TAKE x \in 1..n
  <2>1. x \in 1..(n - 1 + 1) /\ 1 + x - 1 = x
    BY <1>1
  <2> QED
    BY <1>3, <2>1
<1>5. Len(SubSeq(buf, 1, n)) = n
  BY <1>1, <1>3
<1>6. /\ SubSeq(buf, 1, n) = FirstPart(offset, buf)
      /\ Len(buf) - n = RestLen(offset, buf)
      /\ n = FirstLen(offset, buf)
  BY DEF FirstPart, RestLen, n
<1>7. Len(buf) - n \in Nat
  BY <1>1
<1> QED
  BY <1>1, <1>3, <1>4, <1>5, <1>6, <1>7

(* The chunks of the rest have BLOCK_SIZE bytes, but for the last.         *)
LEMMA ChunkProperties ==
  ASSUME NEW r \in Nat, NEW j \in 1..BlockCount(r)
  PROVE  /\ (j - 1) * BLOCK_SIZE \in Nat
         /\ (j - 1) * BLOCK_SIZE < r
         /\ Smaller(j * BLOCK_SIZE, r) - (j - 1) * BLOCK_SIZE \in 1..BLOCK_SIZE
         /\ j < BlockCount(r) =>
              Smaller(j * BLOCK_SIZE, r) - (j - 1) * BLOCK_SIZE = BLOCK_SIZE
         /\ j = BlockCount(r) => Smaller(j * BLOCK_SIZE, r) = r
<1> DEFINE c == BlockCount(r)
<1>1. /\ c \in Nat /\ r <= c * BLOCK_SIZE /\ c * BLOCK_SIZE < r + BLOCK_SIZE
  BY BlockCountProperties
<1>2. BLOCK_SIZE \in Nat /\ BLOCK_SIZE > 0
  BY BlockSizeType
<1> HIDE DEF c
<1>3. j \in 1..c
  BY DEF c
<1>4. (j - 1) * BLOCK_SIZE = j * BLOCK_SIZE - BLOCK_SIZE /\ (j - 1) * BLOCK_SIZE \in Nat
  BY <1>1, <1>2, <1>3
<1>5. j * BLOCK_SIZE <= c * BLOCK_SIZE /\ j * BLOCK_SIZE \in Nat
  BY <1>1, <1>2, <1>3
<1>6. ASSUME j < c  PROVE  j * BLOCK_SIZE <= r
  <2>1. j * BLOCK_SIZE <= (c - 1) * BLOCK_SIZE
    BY <1>1, <1>2, <1>3, <1>6
  <2>2. (c - 1) * BLOCK_SIZE = c * BLOCK_SIZE - BLOCK_SIZE
    BY <1>1, <1>2
  <2>3. c * BLOCK_SIZE \in Nat
    BY <1>1, <1>2
  <2> QED
    BY <1>1, <1>2, <1>5, <2>1, <2>2, <2>3
<1>7. c * BLOCK_SIZE \in Nat
  BY <1>1, <1>2
<1> QED
  BY <1>1, <1>2, <1>3, <1>4, <1>5, <1>6, <1>7 DEF Smaller, c

(* A write leaves all blocks but one alone, changes or adds that one, and  *)
(* adds what the rest of the bytes needs.                                  *)
LEMMA WriteBlocksProperties ==
  ASSUME NEW blocks \in Seq(Block), NEW offset \in Nat, NEW buf \in Seq(Byte)
  PROVE  /\ WriteBlocks(blocks, offset, buf) \in Seq(Block)
         /\ Len(WriteBlocks(blocks, offset, buf)) =
              Base(blocks, offset) + BlockCount(RestLen(offset, buf))
         /\ Target(blocks, offset) \in 1..Base(blocks, offset)
         /\ Base(blocks, offset) \in Nat
         /\ \A i \in 1..Base(blocks, offset) :
              WriteBlocks(blocks, offset, buf)[i] =
                IF i = Target(blocks, offset)
                THEN PutBytes(OldTarget(blocks, offset), offset % BLOCK_SIZE,
                              FirstPart(offset, buf))
                ELSE blocks[i]
         /\ \A j \in 1..BlockCount(RestLen(offset, buf)) :
              LET new == WriteBlocks(blocks, offset, buf)[Base(blocks, offset) + j] IN
              /\ new.occupied = ChunkLen(offset, buf, j)
              /\ \A x \in 1..new.occupied :
                   new.memory[x] =
                     buf[FirstLen(offset, buf) + (j - 1) * BLOCK_SIZE + x]
<1> DEFINE k == offset \div BLOCK_SIZE + 1
           from == offset % BLOCK_SIZE
           n == FirstLen(offset, buf)
           r == RestLen(offset, buf)
           c == BlockCount(r)
           first == FirstPart(offset, buf)
           rest == SubSeq(buf, n + 1, Len(buf))
           Chunk(j) == SubSeq(rest, (j - 1) * BLOCK_SIZE + 1,
                              Smaller(j * BLOCK_SIZE, Len(rest)))
           head == IF InPlace(blocks, offset)
                   THEN [blocks EXCEPT ![k] = PutBytes(@, from, first)]
                   ELSE Append(blocks, PutBytes(NewBlock(JUNK), from, first))
           tail == [j \in 1..BlockCount(Len(rest)) |-> PutBytes(NewBlock(JUNK), 0, Chunk(j))]
           put == PutBytes(OldTarget(blocks, offset), from, first)
<1>1. WriteBlocks(blocks, offset, buf) = head \o tail
  <2>1. /\ Smaller(Len(buf), BLOCK_SIZE - (offset % BLOCK_SIZE)) = n
        /\ SubSeq(buf, 1, n) = first
    BY DEF FirstLen, FirstPart
  <2>2. Len(first) = n
    BY FirstPartProperties
  <2> DEFINE f1 == SubSeq(buf, 1, Smaller(Len(buf), BLOCK_SIZE - (offset % BLOCK_SIZE)))
             r1 == SubSeq(buf, Len(f1) + 1, Len(buf))
             C1(i) == SubSeq(r1, (i - 1) * BLOCK_SIZE + 1, Smaller(i * BLOCK_SIZE, Len(r1)))
  <2>3. WriteBlocks(blocks, offset, buf) =
          (IF InPlace(blocks, offset)
           THEN [blocks EXCEPT ![k] = PutBytes(@, from, f1)]
           ELSE Append(blocks, PutBytes(NewBlock(JUNK), from, f1)))
          \o [i \in 1..BlockCount(Len(r1)) |-> PutBytes(NewBlock(JUNK), 0, C1(i))]
    BY DEF WriteBlocks, InPlace
  <2>4. f1 = first
    BY <2>1
  <2>5. r1 = rest
    BY <2>2, <2>4
  <2> HIDE DEF f1, first
  <2> QED
    BY <2>3, <2>4, <2>5
<1>2. /\ n \in Nat /\ r \in Nat /\ Len(buf) \in Nat /\ Len(buf) = n + r
      /\ from \in Nat /\ k \in Nat /\ from + n <= BLOCK_SIZE
      /\ first \in Seq(Bytes) /\ Len(first) = n
  <2>1. from \in Nat /\ k \in Nat
    BY BlockSizeType, Division
  <2>2. Len(buf) \in Nat
    OBVIOUS
  <2>3. n \in Nat /\ r \in Nat /\ from + n <= BLOCK_SIZE /\ first \in Seq(Bytes) /\ Len(first) = n
    BY FirstPartProperties
  <2>4. r = Len(buf) - n
    BY DEF RestLen
  <2> HIDE DEF n, r, from, first, k
  <2> QED
    BY <2>1, <2>2, <2>3, <2>4
<1>3. /\ rest \in Seq(Byte) /\ Len(rest) = r
      /\ \A x \in 1..r : rest[x] = buf[n + x]
  <2> HIDE DEF n, r
  <2>1. n + 1 \in Int /\ \A x \in (n + 1)..Len(buf) : buf[x] \in Byte
    <3>1. \A x \in (n + 1)..Len(buf) : x \in 1..Len(buf)
      BY <1>2
    <3> QED
      BY <1>2, <3>1, ElementOfSeq
  <2>2. /\ rest \in Seq(Byte)
        /\ Len(rest) = IF n + 1 <= Len(buf) THEN Len(buf) - (n + 1) + 1 ELSE 0
        /\ \A x \in 1..(Len(buf) - (n + 1) + 1) : rest[x] = buf[(n + 1) + x - 1]
    BY <1>2, <2>1, SubSeqProperties
  <2> HIDE DEF rest
  <2>3. ASSUME NEW x \in 1..r  PROVE  rest[x] = buf[n + x]
    <3>1. x \in 1..(Len(buf) - (n + 1) + 1) /\ (n + 1) + x - 1 = n + x
      BY <1>2
    <3> QED
      BY <2>2, <3>1
  <2> QED
    BY <1>2, <2>2, <2>3
<1>4. ASSUME NEW j \in 1..c
      PROVE  /\ Chunk(j) \in Seq(Bytes)
             /\ Len(Chunk(j)) = Smaller(j * BLOCK_SIZE, r) - (j - 1) * BLOCK_SIZE
             /\ Len(Chunk(j)) \in 1..BLOCK_SIZE
             /\ \A x \in 1..Len(Chunk(j)) : Chunk(j)[x] = buf[n + (j - 1) * BLOCK_SIZE + x]
  <2> DEFINE a == (j - 1) * BLOCK_SIZE
             b == Smaller(j * BLOCK_SIZE, r)
  <2>1. a \in Nat /\ a < r /\ b - a \in 1..BLOCK_SIZE /\ b <= r /\ b \in Int
    <3>1. a \in Nat /\ a < r /\ b - a \in 1..BLOCK_SIZE
      BY <1>2, ChunkProperties
    <3>2. j * BLOCK_SIZE \in Int
      BY BlockSizeType
    <3> QED
      BY <1>2, <3>1, <3>2 DEF Smaller
  <2>2. Chunk(j) = SubSeq(rest, a + 1, b)
    BY <1>3
  <2> HIDE DEF a, b, c, r, n, rest, Chunk
  <2>3. \A x \in (a + 1)..b : rest[x] \in Bytes
    <3>1. \A x \in (a + 1)..b : x \in 1..Len(rest)
      BY <1>2, <1>3, <2>1
    <3> QED
      BY <1>3, <3>1, ElementOfSeq DEF Bytes
  <2>4. /\ Chunk(j) \in Seq(Bytes)
        /\ Len(Chunk(j)) = IF a + 1 <= b THEN b - (a + 1) + 1 ELSE 0
        /\ \A x \in 1..(b - (a + 1) + 1) : Chunk(j)[x] = rest[(a + 1) + x - 1]
    <3>1. a + 1 \in Int /\ b \in Int
      BY <2>1
    <3> QED
      BY <2>2, <2>3, <3>1, SubSeqProperties
  <2>5. Len(Chunk(j)) = b - a
    BY <2>1, <2>4
  <2>6. ASSUME NEW x \in 1..(b - a)  PROVE  Chunk(j)[x] = buf[n + a + x]
    <3>1. x \in 1..(b - (a + 1) + 1) /\ (a + 1) + x - 1 = a + x /\ a + x \in 1..r
      BY <1>2, <2>1
    <3>2. rest[a + x] = buf[n + (a + x)]
      BY <1>3, <3>1
    <3>3. n + (a + x) = n + a + x
      BY <1>2, <2>1
    <3> QED
      BY <2>4, <3>1, <3>2, <3>3
  <2> QED
    BY <2>1, <2>4, <2>5, <2>6 DEF a, b
<1>5. /\ OldTarget(blocks, offset) \in Block
      /\ put \in Block
  <2>1. OldTarget(blocks, offset) \in Block
    BY NewBlockProperties DEF OldTarget, InPlace, Bytes
  <2> QED
    BY <1>2, <2>1, PutBytesProperties
<1>6. /\ head \in Seq(Block)
      /\ Len(head) = Base(blocks, offset)
      /\ Target(blocks, offset) \in 1..Base(blocks, offset)
      /\ Base(blocks, offset) \in Nat
      /\ \A i \in 1..Base(blocks, offset) :
           head[i] = IF i = Target(blocks, offset) THEN put ELSE blocks[i]
  <2> DEFINE old == OldTarget(blocks, offset)
  <2>1. CASE InPlace(blocks, offset)
    <3>1. k \in 1..Len(blocks) /\ old = blocks[k]
      BY <2>1 DEF InPlace, OldTarget
    <3>2. head = [blocks EXCEPT ![k] = put]
      BY <2>1, <3>1
    <3>3. Target(blocks, offset) = k /\ Base(blocks, offset) = Len(blocks)
      BY <2>1 DEF Target, Base
    <3> HIDE DEF put, k, head, old
    <3> QED
      BY <1>5, <3>1, <3>2, <3>3, ExceptSeq
  <2>2. CASE ~InPlace(blocks, offset)
    <3>1. head = Append(blocks, put)
      BY <2>2 DEF OldTarget
    <3>2. Target(blocks, offset) = Len(blocks) + 1 /\ Base(blocks, offset) = Len(blocks) + 1
      BY <2>2 DEF Target, Base
    <3> HIDE DEF put, k, head, old
    <3> QED
      BY <1>5, <3>1, <3>2, AppendProperties
  <2> QED
    BY <2>1, <2>2
<1>7. c \in Nat
  BY <1>2, BlockCountProperties
<1>8. ASSUME NEW j \in 1..c
      PROVE  /\ PutBytes(NewBlock(JUNK), 0, Chunk(j)) \in Block
             /\ PutBytes(NewBlock(JUNK), 0, Chunk(j)).occupied = ChunkLen(offset, buf, j)
             /\ \A x \in 1..ChunkLen(offset, buf, j) :
                  PutBytes(NewBlock(JUNK), 0, Chunk(j)).memory[x] =
                    buf[n + (j - 1) * BLOCK_SIZE + x]
  <2>1. /\ NewBlock(JUNK) \in Block /\ NewBlock(JUNK).occupied = 0
    BY NewBlockProperties DEF Bytes
  <2>2. Len(Chunk(j)) = ChunkLen(offset, buf, j)
    BY <1>4 DEF ChunkLen
  <2> DEFINE l == Len(Chunk(j))
             ch == Chunk(j)
  <2>3. /\ ch \in Seq(Bytes) /\ Len(ch) \in 1..BLOCK_SIZE /\ 0 + Len(ch) <= BLOCK_SIZE
        /\ \A x \in 1..Len(ch) : ch[x] = buf[n + (j - 1) * BLOCK_SIZE + x]
    <3> HIDE DEF Chunk
    <3>1. /\ Chunk(j) \in Seq(Bytes) /\ Len(Chunk(j)) \in 1..BLOCK_SIZE
          /\ \A x \in 1..Len(Chunk(j)) : Chunk(j)[x] = buf[n + (j - 1) * BLOCK_SIZE + x]
      BY <1>4
    <3>2. 0 + Len(Chunk(j)) <= BLOCK_SIZE
      BY <3>1, BlockSizeType
    <3> QED
      BY <3>1, <3>2, Zenon
  <2> HIDE DEF ch, l
  <2>4. /\ PutBytes(NewBlock(JUNK), 0, ch) \in Block
        /\ PutBytes(NewBlock(JUNK), 0, ch).occupied = Larger(NewBlock(JUNK).occupied, 0 + Len(ch))
        /\ \A i \in 1..BLOCK_SIZE :
              PutBytes(NewBlock(JUNK), 0, ch).memory[i] =
                IF i - 0 \in 1..Len(ch) THEN ch[i - 0] ELSE NewBlock(JUNK).memory[i]
    <3> DEFINE zero == 0
    <3>1. zero \in Nat /\ zero + Len(ch) <= BLOCK_SIZE
      BY <2>3
    <3> HIDE DEF zero
    <3>2. /\ PutBytes(NewBlock(JUNK), zero, ch) \in Block
          /\ PutBytes(NewBlock(JUNK), zero, ch).occupied =
               Larger(NewBlock(JUNK).occupied, zero + Len(ch))
          /\ \A i \in 1..BLOCK_SIZE :
               PutBytes(NewBlock(JUNK), zero, ch).memory[i] =
                 IF i - zero \in 1..Len(ch) THEN ch[i - zero] ELSE NewBlock(JUNK).memory[i]
      BY <2>1, <2>3, <3>1, PutBytesProperties
    <3> QED
      BY <3>2 DEF zero
  <2>5. Larger(0, 0 + Len(ch)) = Len(ch)
    BY <2>3 DEF Larger
  <2>6. ASSUME NEW x \in 1..Len(ch)
        PROVE PutBytes(NewBlock(JUNK), 0, ch).memory[x] = ch[x]
    <3>1. x \in 1..BLOCK_SIZE /\ x - 0 = x
      BY <2>3, BlockSizeType
    <3> QED
      BY <2>4, <3>1
  <2>7. ch = Chunk(j)
    BY DEF ch
  <2> HIDE DEF Chunk, n
  <2> QED
    BY <2>1, <2>2, <2>3, <2>4, <2>5, <2>6, <2>7
<1>9. /\ tail \in Seq(Block) /\ Len(tail) = c
      /\ \A j \in 1..c : tail[j] = PutBytes(NewBlock(JUNK), 0, Chunk(j))
  <2>1. tail = [j \in 1..c |-> PutBytes(NewBlock(JUNK), 0, Chunk(j))]
    BY <1>3
  <2> HIDE DEF tail, Chunk, c
  <2> QED
    BY <1>7, <1>8, <2>1
<1> HIDE DEF head, tail, c, put, Chunk
<1> DEFINE new == head \o tail
           base == Base(blocks, offset)
<1>10. /\ new \in Seq(Block)
       /\ Len(new) = Len(head) + Len(tail)
       /\ \A i \in 1..(Len(head) + Len(tail)) :
            new[i] = IF i <= Len(head) THEN head[i] ELSE tail[i - Len(head)]
  BY <1>6, <1>9, ConcatProperties
<1> HIDE DEF new
<1>11. \A i \in 1..base : new[i] = head[i]
  BY <1>6, <1>7, <1>9, <1>10
<1>12. ASSUME NEW j \in 1..c  PROVE  new[base + j] = tail[j]
  <2>1. base + j \in 1..(Len(head) + Len(tail)) /\ ~(base + j <= Len(head))
        /\ (base + j) - Len(head) = j
    BY <1>6, <1>7, <1>9
  <2> QED
    BY <1>10, <2>1
<1>13. new = WriteBlocks(blocks, offset, buf)
  BY <1>1 DEF new
<1>14. Len(new) = base + c
  BY <1>6, <1>9, <1>10
<1>15. \A i \in 1..base : new[i] = IF i = Target(blocks, offset) THEN put ELSE blocks[i]
  BY <1>6, <1>11
<1>16. ASSUME NEW j \in 1..c
       PROVE  /\ new[base + j].occupied = ChunkLen(offset, buf, j)
              /\ \A x \in 1..new[base + j].occupied :
                   new[base + j].memory[x] = buf[n + (j - 1) * BLOCK_SIZE + x]
  <2>1. new[base + j] = PutBytes(NewBlock(JUNK), 0, Chunk(j))
    BY <1>9, <1>12
  <2> QED
    BY <1>8, <2>1
<1> QED
  BY <1>6, <1>10, <1>13, <1>14, <1>15, <1>16 DEF c, put

(* A write that starts where the blocks reach ends where they reach.       *)
LEMMA WriteCovers ==
  ASSUME NEW blocks \in Seq(Block), NEW offset \in Nat, NEW buf \in Seq(Byte),
         offset <= Len(blocks) * BLOCK_SIZE
  PROVE  /\ offset + Len(buf) <= Len(WriteBlocks(blocks, offset, buf)) * BLOCK_SIZE
         /\ Len(WriteBlocks(blocks, offset, buf)) >= Len(blocks)
<1> DEFINE k == offset \div BLOCK_SIZE + 1
           from == offset % BLOCK_SIZE
           n == FirstLen(offset, buf)
           r == RestLen(offset, buf)
           c == BlockCount(r)
           base == Base(blocks, offset)
           l == Len(WriteBlocks(blocks, offset, buf))
<1>1. BLOCK_SIZE \in Nat /\ BLOCK_SIZE > 0 /\ Len(buf) \in Nat /\ Len(blocks) \in Nat
  BY BlockSizeType
<1>2. n \in Nat /\ r \in Nat /\ from + n <= BLOCK_SIZE /\ (r > 0 => from + n = BLOCK_SIZE)
  BY FirstPartProperties
<1>3. Len(buf) = n + r
  <2>1. r = Len(buf) - n
    BY DEF RestLen
  <2> HIDE DEF r, n
  <2> QED
    BY <1>1, <1>2, <2>1
<1>4. from \in Nat /\ k \in Nat /\ offset = (k - 1) * BLOCK_SIZE + from
  <2> DEFINE d == offset \div BLOCK_SIZE
  <2>1. d \in Nat /\ from \in Nat /\ offset = d * BLOCK_SIZE + from
    BY <1>1, Division
  <2>2. k = d + 1
    OBVIOUS
  <2> HIDE DEF d, from, k
  <2>3. k - 1 = d
    BY <2>1, <2>2
  <2> QED
    BY <2>1, <2>2, <2>3
<1>5. c \in Nat /\ r <= c * BLOCK_SIZE /\ c * BLOCK_SIZE \in Nat
  <2>1. c \in Nat /\ r <= c * BLOCK_SIZE
    <3> HIDE DEF r
    <3> QED
      BY <1>2, BlockCountProperties
  <2> HIDE DEF c
  <2> QED
    BY <1>1, <2>1
<1>6. l = base + c /\ base \in Nat
  BY WriteBlocksProperties
<1>7. \/ base = Len(blocks) /\ k <= base
      \/ base = Len(blocks) + 1
  BY DEF Base, InPlace
<1> HIDE DEF k, from, n, r, c, base, l
<1>8. l * BLOCK_SIZE = base * BLOCK_SIZE + c * BLOCK_SIZE
  BY <1>1, <1>5, <1>6
<1>9. offset + n <= base * BLOCK_SIZE
  <2>1. CASE base = Len(blocks) + 1
    <3>1. base * BLOCK_SIZE = Len(blocks) * BLOCK_SIZE + BLOCK_SIZE
      BY <1>1, <2>1
    <3>2. n <= BLOCK_SIZE
      BY <1>1, <1>2, <1>4
    <3> HIDE DEF n
    <3>3. Len(blocks) * BLOCK_SIZE \in Nat
      BY <1>1
    <3> QED
      BY <1>1, <1>2, <3>1, <3>2, <3>3
  <2>2. CASE k <= base
    <3>1. k * BLOCK_SIZE <= base * BLOCK_SIZE
      BY <1>1, <1>4, <1>6, <2>2
    <3>2. (k - 1) * BLOCK_SIZE = k * BLOCK_SIZE - BLOCK_SIZE
      BY <1>1, <1>4
    <3>3. k * BLOCK_SIZE \in Nat /\ base * BLOCK_SIZE \in Nat
      BY <1>1, <1>4, <1>6
    <3> QED
      BY <1>1, <1>2, <1>4, <3>1, <3>2, <3>3
  <2> QED
    BY <1>7, <2>1, <2>2
<1>10. base * BLOCK_SIZE \in Nat
  BY <1>1, <1>6
<1>11. offset + Len(buf) <= l * BLOCK_SIZE
  BY <1>2, <1>3, <1>5, <1>8, <1>9, <1>10
<1>12. l >= Len(blocks)
  BY <1>1, <1>5, <1>6, <1>7
<1> QED
  BY <1>11, <1>12 DEF l

(* The bytes that a file should have after a write.                        *)
LEMMA WriteDataProperties ==
  ASSUME NEW data \in Seq(Byte), NEW offset \in Nat, NEW buf \in Seq(Byte)
  PROVE  /\ WriteData(data, offset, buf) \in Seq(Byte)
         /\ Len(WriteData(data, offset, buf)) = Larger(Len(data), offset + Len(buf))
         /\ \A i \in 1..Larger(Len(data), offset + Len(buf)) :
              WriteData(data, offset, buf)[i] =
                IF i - offset \in 1..Len(buf) THEN buf[i - offset]
                ELSE IF i \in 1..Len(data) THEN data[i] ELSE 0
<1> DEFINE n == Larger(Len(data), offset + Len(buf))
           At(i) == IF i - offset \in 1..Len(buf) THEN buf[i - offset]
                    ELSE IF i \in 1..Len(data) THEN data[i] ELSE 0
<1>1. n \in Nat
  BY DEF Larger
<1>2. WriteData(data, offset, buf) = [i \in 1..n |-> At(i)]
  BY DEF WriteData
<1>3. ASSUME NEW i \in 1..n  PROVE  At(i) \in Byte
  <2>1. 0 \in Byte
    BY DEF Byte
  <2>2. i - offset \in 1..Len(buf) => buf[i - offset] \in Byte
    BY ElementOfSeq
  <2>3. i \in 1..Len(data) => data[i] \in Byte
    BY ElementOfSeq
  <2> QED
    BY <2>1, <2>2, <2>3
<1> HIDE DEF n, At
<1>4. /\ WriteData(data, offset, buf) \in Seq(Byte)
      /\ Len(WriteData(data, offset, buf)) = n
      /\ \A i \in 1..n : WriteData(data, offset, buf)[i] = At(i)
  BY <1>1, <1>2, <1>3
<1> QED
  BY <1>4 DEF n, At

(* Bytes written at the end, or into what a block that is not full is      *)
(* still going to get, leave the blocks exact.                             *)
LEMMA WriteKeepsExact ==
  ASSUME NEW file \in FileRecords, Exact(file),
         NEW offset \in Nat, offset <= file.size, AtTheEnd(file, offset),
         NEW buf \in Seq(Byte), Len(buf) > 0,
         NEW g,
         g.blocks = WriteBlocks(file.blocks, offset, buf),
         g.size = Larger(file.size, offset + Len(buf)),
         g.data = WriteData(file.data, offset, buf)
  PROVE  Exact(g)
<1> DEFINE blocks == file.blocks
           data == file.data
           B == BLOCK_SIZE
           k == offset \div BLOCK_SIZE + 1
           from == offset % BLOCK_SIZE
           n == FirstLen(offset, buf)
           r == RestLen(offset, buf)
           c == BlockCount(r)
           old == OldTarget(blocks, offset)
           q == old.occupied
           new == WriteBlocks(blocks, offset, buf)
           first == FirstPart(offset, buf)
           L == Len(buf)
           a == (k - 1) * B
<1>1. /\ B \in Nat /\ B > 0 /\ L \in Nat /\ L > 0
      /\ blocks \in Seq(Block) /\ data \in Seq(Byte) /\ file.size \in Nat
      /\ Len(blocks) \in Nat /\ Len(data) = file.size
  BY BlockSizeType DEF FileRecords, Exact
<1>2. /\ from \in Nat /\ from < B /\ k \in Nat /\ k >= 1 /\ offset = a + from /\ a \in Nat
  <2> DEFINE d == offset \div BLOCK_SIZE
  <2>1. d \in Nat /\ from \in Nat /\ from < B /\ offset = d * B + from
    BY <1>1, Division
  <2>2. k = d + 1
    OBVIOUS
  <2> HIDE DEF d, from, k, B
  <2>3. k - 1 = d /\ d * B \in Nat
    BY <1>1, <2>1, <2>2
  <2> QED
    BY <2>1, <2>2, <2>3
<1>3. /\ n \in Nat /\ n > 0 /\ r \in Nat /\ L = n + r
      /\ from + n <= B /\ (r > 0 => from + n = B)
      /\ first \in Seq(Bytes) /\ Len(first) = n
      /\ \A x \in 1..n : first[x] = buf[x]
  <2>1. /\ n \in Nat /\ n > 0 /\ r \in Nat /\ r = L - n
        /\ from + n <= B /\ (r > 0 => from + n = B)
        /\ first \in Seq(Bytes) /\ Len(first) = n
        /\ \A x \in 1..n : first[x] = buf[x]
    <3>1. r = L - n
      BY DEF RestLen
    <3> QED
      BY <1>1, <3>1, FirstPartProperties
  <2> HIDE DEF n, r, L, from, first
  <2> QED
    BY <1>1, <2>1
<1>4. c \in Nat /\ (r = 0 <=> c = 0) /\ r <= c * B /\ c * B < r + B
  <2> HIDE DEF r
  <2> QED
    BY <1>3, BlockCountProperties
\* Where the write starts: behind k - 1 full blocks, in what is there of block k.
<1>5. /\ \A i \in 1..(k - 1) :
           /\ i \in DOMAIN blocks
           /\ blocks[i].occupied = B
           /\ \A j \in 1..B : blocks[i].memory[j] = data[(i - 1) * B + j]
      /\ Target(blocks, offset) = k /\ Base(blocks, offset) = k
      /\ old \in Block /\ q \in 0..B /\ from <= q
      /\ file.size = a + q
      /\ \A j \in 1..q : old.memory[j] = data[a + j]
  <2> DEFINE l == Len(blocks)
  <2>1. \A i \in 1..l : i > k - 1 => i = l /\ blocks[i].occupied # B
    <3> DEFINE d == offset \div BLOCK_SIZE
    <3>1. d \in Nat /\ k = d + 1
      BY Division
    <3>2. \A i \in DOMAIN blocks : i > d => i = l /\ blocks[i].occupied # B
      BY DEF AtTheEnd
    <3>3. DOMAIN blocks = 1..l
      BY <1>1
    <3> HIDE DEF d, k, l, blocks
    <3>4. k - 1 = d
      BY <3>1
    <3> QED
      BY <3>2, <3>3, <3>4
  <2>2. \A i \in 1..l :
          /\ i < l => blocks[i].occupied = B
          /\ \A j \in 1..blocks[i].occupied : blocks[i].memory[j] = data[(i - 1) * B + j]
    BY DEF Exact
  <2>3. l = 0 => file.size = 0
    BY DEF Exact
  <2>4. l > 0 => blocks[l].occupied > 0 /\ file.size = (l - 1) * B + blocks[l].occupied
    BY DEF Exact
  <2>5. \A i \in 1..l : blocks[i] \in Block /\ blocks[i].occupied \in 0..B
    <3> TAKE i \in 1..l
    <3>1. blocks[i] \in Block
      BY <1>1, ElementOfSeq
    <3> QED
      BY <3>1 DEF Block
  <2>6. CASE k <= l
    <3>1. k = l /\ blocks[k].occupied # B
      <4>1. k \in 1..l /\ k > k - 1
        BY <1>1, <1>2, <2>6
      <4> HIDE DEF k, l, blocks, B
      <4> QED
        BY <2>1, <4>1
    <3>2. InPlace(blocks, offset)
      BY <1>1, <1>2, <2>6, <3>1 DEF InPlace
    <3>3. old = blocks[k] /\ Target(blocks, offset) = k /\ Base(blocks, offset) = k
      BY <3>1, <3>2 DEF OldTarget, Target, Base
    <3> HIDE DEF old, k, blocks, B, data, from
    <3>4. \A i \in 1..(k - 1) : i \in 1..l /\ i < l
      BY <1>1, <1>2, <3>1
    <3>5. k \in 1..l /\ l > 0
      BY <1>1, <1>2, <3>1
    <3>6. file.size = a + q
      BY <2>4, <3>1, <3>3, <3>5
    <3>7. from <= q
      BY <1>1, <1>2, <2>5, <3>3, <3>5, <3>6
    <3> HIDE DEF l
    <3>8. \A i \in 1..(k - 1) : i \in DOMAIN blocks
      BY <1>1, <3>4 DEF l
    <3> QED
      BY <2>2, <2>5, <3>1, <3>3, <3>4, <3>5, <3>6, <3>7, <3>8
  <2>7. CASE k > l
    <3>1. l * B >= file.size /\ (l > 0 => (file.size = l * B <=> blocks[l].occupied = B))
      <4>1. CASE l = 0
        BY <1>1, <2>3, <4>1
      <4>2. CASE l > 0
        <5>1. (l - 1) * B = l * B - B /\ l * B \in Nat
          BY <1>1
        <5>2. blocks[l].occupied \in 0..B
          BY <1>1, <2>5, <4>2
        <5>3. B \in Nat /\ l \in Nat
          BY <1>1
        <5>4. file.size = l * B - B + blocks[l].occupied
          BY <2>4, <4>2, <5>1
        <5> HIDE DEF l, B, blocks
        <5> DEFINE o == blocks[l].occupied
                   p == l * B
        <5>5. o \in 0..B /\ p \in Nat /\ file.size = p - B + o
          BY <5>1, <5>2, <5>4
        <5> HIDE DEF o, p
        <5>6. p >= file.size /\ (file.size = p <=> o = B)
          BY <5>3, <5>5
        <5> QED
          BY <5>6 DEF o, p
      <4> QED
        BY <1>1, <4>1, <4>2
    <3>2. k = l + 1 /\ from = 0 /\ a = l * B /\ file.size = a
      <4>1. l <= k - 1 /\ l * B <= (k - 1) * B
        <5> DEFINE m == k - 1
        <5>1. m \in Int /\ l \in Int /\ l <= m
          BY <1>1, <1>2, <2>7
        <5> HIDE DEF m, l
        <5>2. l * B <= m * B
          BY <5>1, Products DEF B
        <5> QED
          BY <5>1, <5>2 DEF m
      <4> HIDE DEF k, from, l, B
      <4>2. a = l * B /\ from = 0 /\ file.size = a
        <5>1. l * B \in Nat
          BY <1>1 DEF l
        <5>2. l * B <= a /\ file.size <= l * B /\ offset = a + from /\ offset <= file.size
          BY <1>2, <3>1, <4>1
        <5> HIDE DEF a
        <5> QED
          BY <1>1, <1>2, <5>1, <5>2
      <4>3. k - 1 = l
        <5>1. ASSUME l + 1 <= k - 1  PROVE FALSE
          <6>1. (l + 1) * B <= (k - 1) * B
            <7> DEFINE m == k - 1
                       o == l + 1
            <7>1. m \in Int /\ o \in Int /\ o <= m
              BY <1>1, <1>2, <5>1 DEF l
            <7> HIDE DEF m, o
            <7>2. o * B <= m * B
              BY <7>1, Products DEF B
            <7> QED
              BY <7>2 DEF m, o
          <6>2. (l + 1) * B = l * B + B
            BY <1>1 DEF l
          <6>3. l * B \in Nat /\ B \in Nat /\ B > 0
            BY <1>1 DEF l
          <6>4. (l + 1) * B <= l * B
            BY <4>2, <6>1
          <6> QED
            BY <6>2, <6>3, <6>4
        <5>2. k \in Nat /\ l \in Nat /\ l <= k - 1
          BY <1>1, <1>2, <4>1 DEF l
        <5> QED
          BY <5>1, <5>2
      <4> QED
        BY <1>1, <1>2, <4>2, <4>3 DEF l
    <3>3. ~InPlace(blocks, offset)
      BY <1>1, <2>7 DEF InPlace
    <3>4. /\ old = NewBlock(JUNK)
          /\ Target(blocks, offset) = l + 1 /\ Base(blocks, offset) = l + 1
      BY <3>3 DEF OldTarget, Target, Base
    <3>5. old \in Block /\ q = 0
      BY <3>4, NewBlockProperties DEF Bytes
    <3>6. ASSUME NEW i \in 1..l  PROVE  blocks[i].occupied = B
      <4>1. CASE i < l
        BY <2>2, <4>1
      <4>2. CASE i = l
        <5>1. l > 0
          BY <1>1
        <5> QED
          BY <3>1, <3>2, <4>2, <5>1
      <4> QED
        BY <1>1, <4>1, <4>2
    <3>7. k - 1 = l
      BY <1>1, <3>2
    <3>8. \A i \in 1..l : i \in DOMAIN blocks
      BY <1>1
    <3> HIDE DEF old, k, blocks, B, data, from, a, l
    <3>9. from <= q /\ q \in 0..B /\ file.size = a + q
      BY <1>1, <1>2, <3>2, <3>5
    <3>10. \A j \in 1..q : old.memory[j] = data[a + j]
      BY <3>5
    <3> QED
      BY <2>2, <3>2, <3>4, <3>5, <3>6, <3>7, <3>8, <3>9, <3>10
  <2> QED
    BY <1>1, <1>2, <2>6, <2>7
<1>6. /\ new \in Seq(Block) /\ Len(new) = k + c
      /\ \A i \in 1..k : new[i] = IF i = k THEN PutBytes(old, from, first) ELSE blocks[i]
      /\ \A j \in 1..c :
           /\ new[k + j].occupied = Smaller(j * B, r) - (j - 1) * B
           /\ \A x \in 1..new[k + j].occupied :
                new[k + j].memory[x] = buf[n + (j - 1) * B + x]
  <2> DEFINE base == Base(blocks, offset)
  <2>1. /\ new \in Seq(Block) /\ Len(new) = base + c
        /\ \A i \in 1..base :
             new[i] = IF i = Target(blocks, offset) THEN PutBytes(old, from, first)
                      ELSE blocks[i]
        /\ \A j \in 1..c :
             /\ new[base + j].occupied = ChunkLen(offset, buf, j)
             /\ \A x \in 1..new[base + j].occupied :
                  new[base + j].memory[x] = buf[n + (j - 1) * B + x]
    <3> HIDE DEF blocks, new, base, c, old, from, first, n, r, B, k
    <3>1. /\ WriteBlocks(blocks, offset, buf) \in Seq(Block)
          /\ Len(WriteBlocks(blocks, offset, buf)) =
               Base(blocks, offset) + BlockCount(RestLen(offset, buf))
          /\ \A i \in 1..Base(blocks, offset) :
               WriteBlocks(blocks, offset, buf)[i] =
                 IF i = Target(blocks, offset)
                 THEN PutBytes(OldTarget(blocks, offset), offset % BLOCK_SIZE,
                               FirstPart(offset, buf))
                 ELSE blocks[i]
          /\ \A j \in 1..BlockCount(RestLen(offset, buf)) :
               LET t == WriteBlocks(blocks, offset, buf)[Base(blocks, offset) + j] IN
               /\ t.occupied = ChunkLen(offset, buf, j)
               /\ \A x \in 1..t.occupied :
                    t.memory[x] = buf[FirstLen(offset, buf) + (j - 1) * BLOCK_SIZE + x]
      <4>1. blocks \in Seq(Block)
        BY <1>1
      <4> QED
        BY <4>1, WriteBlocksProperties, Zenon
    <3> QED
      BY <3>1 DEF new, base, c, old, from, first, n, r, B
  <2>2. \A j \in 1..c : ChunkLen(offset, buf, j) = Smaller(j * B, r) - (j - 1) * B
    BY DEF ChunkLen
  <2>3. base = k
    BY <1>5
  <2> HIDE DEF base, new, old, from, first, n, r, c, k, B
  <2> QED
    BY <1>5, <2>1, <2>2, <2>3
<1>7. /\ PutBytes(old, from, first).occupied = Larger(q, from + n)
      /\ \A i \in 1..B :
           PutBytes(old, from, first).memory[i] =
             IF i - from \in 1..n THEN first[i - from] ELSE old.memory[i]
  <2> HIDE DEF old, from, first, n, B
  <2>1. /\ PutBytes(old, from, first).occupied = Larger(old.occupied, from + Len(first))
        /\ \A i \in 1..BLOCK_SIZE :
             PutBytes(old, from, first).memory[i] =
               IF i - from \in 1..Len(first) THEN first[i - from] ELSE old.memory[i]
    BY <1>2, <1>3, <1>5, PutBytesProperties DEF B
  <2> QED
    BY <1>3, <2>1 DEF B
<1> DEFINE size == Larger(a + q, offset + L)
           written == WriteData(data, offset, buf)
<1>8. /\ Len(written) = size
      /\ \A i \in 1..size :
           written[i] = IF i - offset \in 1..L THEN buf[i - offset]
                        ELSE IF i \in 1..(a + q) THEN data[i] ELSE 0
  <2> DEFINE m == Larger(Len(data), offset + L)
  <2>1. /\ Len(written) = m
        /\ \A i \in 1..m :
             written[i] = IF i - offset \in 1..L THEN buf[i - offset]
                          ELSE IF i \in 1..Len(data) THEN data[i] ELSE 0
    <3> HIDE DEF data, written, m, L
    <3>1. /\ Len(WriteData(data, offset, buf)) = Larger(Len(data), offset + Len(buf))
          /\ \A i \in 1..Larger(Len(data), offset + Len(buf)) :
               WriteData(data, offset, buf)[i] =
                 IF i - offset \in 1..Len(buf) THEN buf[i - offset]
                 ELSE IF i \in 1..Len(data) THEN data[i] ELSE 0
      <4>1. data \in Seq(Byte)
        BY <1>1
      <4> QED
        BY <4>1, WriteDataProperties, Zenon
    <3> QED
      BY <3>1 DEF written, m, L
  <2>2. Len(data) = a + q /\ m = size
    BY <1>1, <1>5
  <2> HIDE DEF written, m, size, data, L, a, q
  <2> QED
    BY <2>1, <2>2
<1> HIDE DEF blocks, data, B, k, from, n, r, c, old, new, first, L, a, written
<1> HIDE DEF size
<1>9. size = IF r = 0 THEN a + Larger(q, from + n) ELSE a + B + r
  <2>1. offset + L = a + from + n + r
    BY <1>1, <1>2, <1>3
  <2>2. CASE r = 0
    <3>1. /\ a \in Nat /\ q \in Nat /\ from \in Nat /\ n \in Nat
          /\ offset + L = a + (from + n)
      BY <1>1, <1>2, <1>3, <1>5, <2>1, <2>2
    <3>2. size = IF a + q > offset + L THEN a + q ELSE offset + L
      BY DEF size, Larger
    <3>3. size = a + (IF q > from + n THEN q ELSE from + n)
      BY <3>1, <3>2
    <3> QED
      BY <2>2, <3>3 DEF Larger
  <2>3. CASE r > 0
    <3>1. from + n = B /\ q <= B /\ q \in Nat /\ r \in Nat /\ n \in Nat
      BY <1>1, <1>3, <1>5, <2>3
    <3>2. offset + L = a + B + r
      BY <1>1, <1>2, <2>1, <3>1
    <3>3. a + q < a + B + r
      BY <1>1, <1>2, <2>3, <3>1
    <3>4. size = a + B + r
      <4>1. size = IF a + q > offset + L THEN a + q ELSE offset + L
        BY DEF size, Larger
      <4>2. a + q \in Int /\ a + B + r \in Int
        BY <1>1, <1>2, <3>1
      <4> QED
        BY <3>2, <3>3, <4>1, <4>2
    <3> QED
      BY <2>3, <3>4
  <2> QED
    BY <1>3, <2>2, <2>3
\* The blocks before that of the offset.
<1>10. ASSUME NEW i \in 1..(k - 1)
       PROVE  /\ new[i].occupied = B
              /\ \A j \in 1..B : new[i].memory[j] = written[(i - 1) * B + j]
  <2>1. new[i] = blocks[i]
    <3>1. i \in 1..k /\ i # k
      BY <1>2
    <3> QED
      BY <1>6, <3>1
  <2>2. (i - 1) * B + B <= a /\ (i - 1) * B \in Nat
    <3>1. i <= k - 1 /\ i \in Nat /\ k - 1 \in Nat
      BY <1>2
    <3>2. i * B <= (k - 1) * B
      <4> DEFINE before == k - 1
      <4>1. i \in Int /\ before \in Int /\ i <= before
        BY <3>1
      <4> HIDE DEF before
      <4>2. i * BLOCK_SIZE <= before * BLOCK_SIZE
        BY <4>1, Products
      <4> QED
        BY <4>2 DEF before, B
    <3>3. (i - 1) * B = i * B - B /\ i * B \in Nat /\ (i - 1) * B \in Nat
      BY <1>1, <3>1
    <3>4. B \in Nat
      BY <1>1
    <3> QED
      BY <3>2, <3>3, <3>4 DEF a
  <2>3. ASSUME NEW j \in 1..B  PROVE  blocks[i].memory[j] = written[(i - 1) * B + j]
    <3> DEFINE p == (i - 1) * B + j
    <3>1. p \in 1..(a + q) /\ p <= a /\ p \in Int
      <4> DEFINE m == (i - 1) * B
      <4>1. m + B <= a /\ m \in Nat
        BY <2>2
      <4> HIDE DEF m
      <4>2. m + j \in 1..(a + q) /\ m + j <= a /\ m + j \in Int
        BY <1>1, <1>2, <1>5, <4>1
      <4> QED
        BY <4>2 DEF m
    <3>2. blocks[i].memory[j] = data[p]
      BY <1>5
    <3> HIDE DEF p
    <3>3. p \in 1..size /\ ~(p - offset \in 1..L)
      BY <1>1, <1>2, <1>3, <1>5, <1>9, <3>1 DEF Larger
    <3>4. written[p] = data[p]
      BY <1>8, <3>1, <3>3
    <3> QED
      BY <3>2, <3>4 DEF p
  <2> QED
    BY <1>5, <2>1, <2>3
\* The block of the offset.
<1>11. /\ new[k].occupied = IF r = 0 THEN Larger(q, from + n) ELSE B
       /\ new[k].occupied \in 1..B
       /\ \A j \in 1..new[k].occupied : new[k].memory[j] = written[a + j]
  <2>1. new[k] = PutBytes(old, from, first)
    <3>1. k \in 1..k
      BY <1>2
    <3> QED
      BY <1>6, <3>1
  <2>2. new[k].occupied = Larger(q, from + n) /\ Larger(q, from + n) \in 1..B
    <3>1. /\ q \in 0..B /\ from \in Nat /\ n \in Nat /\ n > 0 /\ from + n <= B
          /\ B \in Nat
      BY <1>1, <1>2, <1>3, <1>5
    <3>2. Larger(q, from + n) \in 1..B
      BY <3>1 DEF Larger
    <3> QED
      BY <1>7, <2>1, <3>2
  <2>3. r > 0 => Larger(q, from + n) = B
    BY <1>1, <1>2, <1>3, <1>5 DEF Larger
  <2>4. ASSUME NEW j \in 1..Larger(q, from + n)  PROVE  new[k].memory[j] = written[a + j]
    <3>1. j \in 1..B /\ j \in Nat
      BY <1>1, <2>2
    <3>2. a + j \in 1..size /\ a + j \in Int
      BY <1>1, <1>2, <1>3, <1>5, <1>9, <2>2, <2>3, <3>1
    <3>3. (a + j) - offset = j - from
      BY <1>2, <3>1
    <3>4. CASE j - from \in 1..n
      <4>1. j - from \in 1..L
        BY <1>3, <3>4
      <4>2. written[a + j] = buf[j - from]
        BY <1>8, <3>2, <3>3, <4>1
      <4>3. new[k].memory[j] = buf[j - from]
        BY <1>3, <1>7, <2>1, <3>1, <3>4
      <4> QED
        BY <4>2, <4>3
    <3>5. CASE ~(j - from \in 1..n)
      <4>1. j <= q /\ ~(j - from \in 1..L)
        <5>1. CASE j - from < 1
          BY <1>1, <1>2, <1>5, <3>1, <5>1
        <5>2. CASE j - from > n
          <6>1. r = 0
            BY <1>1, <1>2, <1>3, <3>1, <5>2
          <6>2. j <= q
            BY <1>2, <1>3, <1>5, <3>1, <5>2 DEF Larger
          <6> QED
            BY <1>3, <5>2, <6>1, <6>2
        <5> QED
          BY <1>2, <1>3, <3>1, <3>5, <5>1, <5>2
      <4>2. a + j \in 1..(a + q) /\ j \in 1..q
        BY <1>2, <1>5, <3>1, <4>1
      <4>3. written[a + j] = data[a + j]
        BY <1>8, <3>2, <3>3, <4>1, <4>2
      <4>4. new[k].memory[j] = old.memory[j]
        BY <1>7, <2>1, <3>1, <3>5
      <4> QED
        BY <1>5, <4>2, <4>3, <4>4
    <3> QED
      BY <3>4, <3>5
  <2>5. r = 0 \/ r > 0
    BY <1>3
  <2> QED
    BY <2>2, <2>3, <2>4, <2>5
\* The new blocks behind it.
<1>12. ASSUME NEW j \in 1..c
       PROVE  /\ new[k + j].occupied \in 1..B
              /\ j < c => new[k + j].occupied = B
              /\ j = c => (k + j - 1) * B + new[k + j].occupied = size
              /\ \A x \in 1..new[k + j].occupied :
                   new[k + j].memory[x] = written[(k + j - 1) * B + x]
  <2> DEFINE b == (j - 1) * B
             e == Smaller(j * B, r)
  <2>1. /\ b \in Nat /\ e - b \in 1..B
        /\ j < c => e - b = B
        /\ j = c => e = r
    BY <1>3, ChunkProperties DEF c, B
  <2>2. new[k + j].occupied = e - b
    BY <1>6
  <2>3. r > 0
    BY <1>3, <1>4
  <2>4. (k + j - 1) * B = a + B + b
    <3>1. j \in Nat /\ k \in Nat
      BY <1>2, <1>4
    <3>2. (k + j - 1) * B = (k - 1) * B + B + (j - 1) * B
      BY <1>1, <3>1
    <3> QED
      BY <3>2 DEF a
  <2>5. size = a + B + r
    BY <1>3, <1>9, <2>3
  <2>6. e <= r /\ e \in Int
    <3>1. j * B \in Int
      BY <1>1, <1>4
    <3> QED
      BY <1>3, <3>1 DEF Smaller
  <2> HIDE DEF b, e
  <2>7. ASSUME NEW x \in 1..(e - b)
        PROVE  new[k + j].memory[x] = written[(k + j - 1) * B + x]
    <3>1. new[k + j].memory[x] = buf[n + b + x]
      BY <1>6, <2>2 DEF b
    <3> DEFINE p == a + B + b + x
    <3>2. p \in 1..size /\ p - offset = n + b + x /\ n + b + x \in 1..L
      BY <1>1, <1>2, <1>3, <2>1, <2>3, <2>5, <2>6
    <3> HIDE DEF p
    <3>3. written[p] = buf[n + b + x]
      BY <1>8, <3>2
    <3>4. (k + j - 1) * B + x = p
      BY <2>4 DEF p
    <3> QED
      BY <3>1, <3>3, <3>4
  <2>8. j = c => (k + j - 1) * B + (e - b) = size
    BY <1>1, <1>2, <1>3, <2>1, <2>4, <2>5, <2>6
  <2> QED
    BY <2>1, <2>2, <2>7, <2>8
<1>13. DOMAIN new = 1..(k + c) /\ k + c \in Nat /\ k + c > 0
  BY <1>2, <1>4, <1>6
<1>14. ASSUME NEW i \in 1..(k + c)
       PROVE  /\ i < k + c => new[i].occupied = B
              /\ i = k + c => /\ new[i].occupied > 0
                              /\ (i - 1) * B + new[i].occupied = size
              /\ \A j \in 1..new[i].occupied : new[i].memory[j] = written[(i - 1) * B + j]
  <2>1. CASE i < k
    <3>1. i \in 1..(k - 1) /\ i < k + c
      BY <1>2, <1>4, <2>1
    <3> QED
      BY <1>10, <3>1
  <2>2. CASE i = k
    <3>1. k < k + c => r > 0
      BY <1>2, <1>3, <1>4
    <3>2. k = k + c => r = 0
      BY <1>2, <1>3, <1>4
    <3>3. k < k + c => new[k].occupied = B
      BY <1>11, <3>1
    <3>4. k = k + c => a + new[k].occupied = size
      BY <1>9, <1>11, <3>2
    <3>5. new[k].occupied > 0
      BY <1>1, <1>11
    <3>6. \A j \in 1..new[k].occupied : new[k].memory[j] = written[(k - 1) * B + j]
      BY <1>11 DEF a
    <3> QED
      BY <2>2, <3>3, <3>4, <3>5, <3>6 DEF a
  <2>3. CASE i > k
    <3> DEFINE j == i - k
    <3>1. j \in 1..c /\ i = k + j /\ (i < k + c <=> j < c) /\ (i = k + c <=> j = c)
      BY <1>2, <1>4, <2>3
    <3> HIDE DEF j
    <3>2. k + j - 1 = i - 1
      BY <1>2, <3>1
    <3>3. /\ new[i].occupied \in 1..B
          /\ j < c => new[i].occupied = B
          /\ j = c => (i - 1) * B + new[i].occupied = size
          /\ \A x \in 1..new[i].occupied : new[i].memory[x] = written[(i - 1) * B + x]
      BY <1>12, <3>1, <3>2
    <3>4. new[i].occupied > 0
      BY <1>1, <3>3
    <3> QED
      BY <3>1, <3>3, <3>4
  <2> QED
    BY <1>2, <1>4, <2>1, <2>2, <2>3
<1>15. g.blocks = new /\ g.size = size /\ g.data = written
  BY <1>5 DEF new, size, written, blocks, data, L
<1> QED
  BY <1>6, <1>8, <1>13, <1>14, <1>15 DEF Exact, B

-----------------------------------------------------------------------------
(* Resizing.                                                               *)

LEMMA SetLastOccupiedProperties ==
  ASSUME NEW blocks \in Seq(Block), NEW n \in 0..BLOCK_SIZE
  PROVE  /\ SetLastOccupied(blocks, n) \in Seq(Block)
         /\ Len(SetLastOccupied(blocks, n)) = Len(blocks)
         /\ \A i \in 1..Len(blocks) :
              /\ SetLastOccupied(blocks, n)[i].memory = blocks[i].memory
              /\ SetLastOccupied(blocks, n)[i].occupied =
                   IF i = Len(blocks) THEN n ELSE blocks[i].occupied
<1> DEFINE l == Len(blocks)
           last == [blocks[l] EXCEPT !.occupied = n]
<1>1. CASE blocks = <<>>
  BY <1>1 DEF SetLastOccupied
<1>2. CASE blocks # <<>>
  <2>1. l \in 1..l
    BY <1>2, EmptySeq
  <2>2. blocks[l] \in Block
    BY <2>1, ElementOfSeq
  <2>3. last \in Block /\ last.memory = blocks[l].memory /\ last.occupied = n
    BY <2>2 DEF Block
  <2>4. SetLastOccupied(blocks, n) = [blocks EXCEPT ![l] = last]
    BY <1>2 DEF SetLastOccupied
  <2> HIDE DEF l, last
  <2>5. /\ [blocks EXCEPT ![l] = last] \in Seq(Block)
        /\ Len([blocks EXCEPT ![l] = last]) = Len(blocks)
        /\ \A j \in 1..Len(blocks) :
             [blocks EXCEPT ![l] = last][j] = IF j = l THEN last ELSE blocks[j]
    <3>1. l \in 1..Len(blocks)
      BY <2>1 DEF l
    <3> QED
      BY <2>3, <3>1, ExceptSeq
  <2> QED
    BY <2>3, <2>4, <2>5 DEF l
<1> QED
  BY <1>1, <1>2

(* A larger size needs at least as many blocks.                            *)
LEMMA BlockCountMonotonic ==
  ASSUME NEW m \in Nat, NEW n \in Nat, m <= n
  PROVE  BlockCount(m) <= BlockCount(n)
<1>1. n <= BlockCount(n) * BLOCK_SIZE /\ BlockCount(n) \in Nat
  BY BlockCountProperties
<1>2. BlockCount(n) * BLOCK_SIZE \in Nat
  BY <1>1, Products
<1>3. m <= BlockCount(n) * BLOCK_SIZE
  BY <1>1, <1>2
<1> QED
  BY <1>1, <1>3, BlockCountProperties

(* Cutting off leaves the blocks that the new size needs, the last of them *)
(* occupied up to the new end; "the assertions" at 482 and 483 hold.       *)
LEMMA ShrinkBlocksProperties ==
  ASSUME NEW blocks \in Seq(Block), NEW size \in Nat, NEW new_size \in Nat,
         new_size < size, size <= Len(blocks) * BLOCK_SIZE
  PROVE  LET kept == ShrinkBlocks(blocks, size, new_size) IN
         /\ kept \in Seq(Block)
         /\ Len(kept) = Len(blocks) - (BlockCount(size) - BlockCount(new_size))
         /\ Len(kept) <= Len(blocks)
         /\ new_size <= Len(kept) * BLOCK_SIZE
         /\ \A i \in 1..Len(kept) :
              /\ kept[i].memory = blocks[i].memory
              /\ kept[i].occupied =
                   IF i = Len(kept) THEN LastOccupied(new_size) ELSE blocks[i].occupied
<1> DEFINE l == Len(blocks)
           m == l - (BlockCount(size) - BlockCount(new_size))
           s == SubSeq(blocks, 1, m)
           kept == ShrinkBlocks(blocks, size, new_size)
<1>1. l \in Nat /\ BlockCount(size) \in Nat /\ BlockCount(new_size) \in Nat
  BY BlockCountProperties
<1>2. BlockCount(new_size) <= BlockCount(size)
  BY BlockCountMonotonic
<1>3. BlockCount(size) <= l
  BY <1>1, BlockCountProperties
<1>4. m \in Nat /\ m <= l /\ BlockCount(new_size) <= m
  BY <1>1, <1>2, <1>3
<1> HIDE DEF l, m
<1>5. new_size <= m * BLOCK_SIZE
  <2>1. BlockCount(new_size) * BLOCK_SIZE <= m * BLOCK_SIZE
    <3> DEFINE c == BlockCount(new_size)
    <3>1. c \in Int /\ m \in Int /\ c <= m
      BY <1>1, <1>4
    <3> HIDE DEF c
    <3>2. c * BLOCK_SIZE <= m * BLOCK_SIZE
      BY <3>1, Products
    <3> QED
      BY <3>2 DEF c
  <2>2. new_size <= BlockCount(new_size) * BLOCK_SIZE
    BY BlockCountProperties
  <2>3. BlockCount(new_size) * BLOCK_SIZE \in Int /\ m * BLOCK_SIZE \in Int
    BY <1>1, <1>4, Products
  <2> QED
    BY <2>1, <2>2, <2>3
<1>6. s \in Seq(Block) /\ Len(s) = m /\ \A i \in 1..m : s[i] = blocks[i]
  <2>1. \A i \in 1..m : blocks[i] \in Block
    <3>1. \A i \in 1..m : i \in 1..Len(blocks)
      BY <1>1, <1>4 DEF l
    <3> QED
      BY <3>1, ElementOfSeq
  <2>2. /\ s \in Seq(Block)
        /\ Len(s) = IF 1 <= m THEN m - 1 + 1 ELSE 0
        /\ \A i \in 1..(m - 1 + 1) : s[i] = blocks[1 + i - 1]
    BY <1>4, <2>1, SubSeqProperties
  <2> HIDE DEF s
  <2>3. ASSUME NEW i \in 1..m  PROVE  s[i] = blocks[i]
    <3>1. i \in 1..(m - 1 + 1) /\ 1 + i - 1 = i
      BY <1>4
    <3> QED
      BY <2>2, <3>1
  <2> QED
    BY <1>4, <2>2, <2>3
<1>7. kept = SetLastOccupied(s, LastOccupied(new_size))
  BY DEF ShrinkBlocks, m, l
<1> HIDE DEF s, kept
<1>8. LastOccupied(new_size) \in 0..BLOCK_SIZE
  <2>1. LastOccupied(new_size) \in 1..BLOCK_SIZE
    BY LastOccupiedProperties
  <2> QED
    BY <2>1, BlockSizeType
<1>9. /\ kept \in Seq(Block) /\ Len(kept) = m
      /\ \A i \in 1..m :
           /\ kept[i].memory = s[i].memory
           /\ kept[i].occupied = IF i = m THEN LastOccupied(new_size) ELSE s[i].occupied
  BY <1>6, <1>7, <1>8, SetLastOccupiedProperties
<1> QED
  BY <1>4, <1>5, <1>6, <1>9 DEF kept, m, l

(* The blocks of a file that only got bytes at its end are as many as its  *)
(* size needs, and the last is occupied as its size says.                  *)
LEMMA ExactSize ==
  ASSUME NEW file \in FileRecords, Exact(file)
  PROVE  /\ Len(file.blocks) = BlockCount(file.size)
         /\ Len(file.blocks) > 0 =>
              file.blocks[Len(file.blocks)].occupied = LastOccupied(file.size)
         /\ file.size <= Len(file.blocks) * BLOCK_SIZE
<1> DEFINE n == Len(file.blocks)
           q == file.blocks[n].occupied
           c == BlockCount(file.size)
           u == LastOccupied(file.size)
<1>1. file.blocks \in Seq(Block) /\ file.size \in Nat /\ n \in Nat
  BY DEF FileRecords
<1>2. CASE n = 0
  <2>1. file.size = 0
    BY <1>2 DEF Exact
  <2>2. c = 0
    BY <2>1, <1>1, BlockCountProperties
  <2> QED
    BY <1>2, <2>1, <2>2, Products
<1>3. CASE n > 0
  <2>1. q > 0 /\ file.size = (n - 1) * BLOCK_SIZE + q
    BY <1>3 DEF Exact
  <2>2. q \in 1..BLOCK_SIZE
    <3>1. n \in 1..n
      BY <1>1, <1>3
    <3>2. file.blocks[n] \in Block
      BY <1>1, <3>1, ElementOfSeq
    <3> QED
      BY <2>1, <3>2 DEF Block
  <2>3. /\ c \in Nat /\ file.size <= c * BLOCK_SIZE /\ c * BLOCK_SIZE < file.size + BLOCK_SIZE
        /\ \A k \in Nat : file.size <= k * BLOCK_SIZE => c <= k
    BY <1>1, BlockCountProperties
  <2>4. u \in 1..BLOCK_SIZE /\ (file.size > 0 => file.size = (c - 1) * BLOCK_SIZE + u)
    BY <1>1, LastOccupiedProperties
  <2> HIDE DEF n, q, c, u
  <2>5. (n - 1) * BLOCK_SIZE = n * BLOCK_SIZE - BLOCK_SIZE /\ n * BLOCK_SIZE \in Nat
    <3>1. n \in Int /\ n \in Nat
      BY <1>1
    <3> QED
      BY <3>1, Multiples
  <2>6. file.size <= n * BLOCK_SIZE
    BY <1>1, <2>1, <2>2, <2>5, BlockSizeType
  <2>7. c <= n
    BY <1>1, <2>3, <2>6
  <2>8. ~(c <= n - 1)
    <3> SUFFICES ASSUME c <= n - 1  PROVE FALSE
      OBVIOUS
    <3>1. c * BLOCK_SIZE <= (n - 1) * BLOCK_SIZE
      <4> DEFINE m == n - 1
      <4>1. m \in Int /\ c \in Int /\ c <= m
        BY <1>1, <2>3
      <4> HIDE DEF m
      <4>2. c * BLOCK_SIZE <= m * BLOCK_SIZE
        BY <4>1, Products
      <4> QED
        BY <4>2 DEF m
    <3>2. c * BLOCK_SIZE \in Nat
      BY <2>3, Products
    <3> QED
      BY <1>1, <2>1, <2>2, <2>3, <2>5, <3>1, <3>2, BlockSizeType
  <2>9. c = n
    BY <1>1, <2>3, <2>7, <2>8
  <2>10. q = u
    <3>1. file.size > 0
      BY <1>1, <2>1, <2>2, <2>5, <1>3, BlockSizeType, Products
    <3> QED
      BY <1>1, <2>1, <2>2, <2>4, <2>5, <2>9, <3>1, BlockSizeType
  <2> QED
    BY <2>6, <2>9, <2>10 DEF n, q, c, u
<1> QED
  BY <1>1, <1>2, <1>3

(* A file that only got bytes at its end is cut off anywhere, and its      *)
(* blocks hold the bytes that are left.                                    *)
LEMMA ShrinkKeepsExact ==
  ASSUME NEW file \in FileRecords, Exact(file),
         NEW new_size \in Nat, new_size < file.size,
         NEW g,
         g.blocks = ShrinkBlocks(file.blocks, file.size, new_size),
         g.size = IF ShrinkBlocks(file.blocks, file.size, new_size) = <<>>
                  THEN 0 ELSE new_size,
         g.data = SubSeq(file.data, 1, new_size)
  PROVE  Exact(g)
<1> DEFINE blocks == file.blocks
           data == file.data
           size == file.size
           B == BLOCK_SIZE
           l == Len(blocks)
           c == BlockCount(new_size)
           u == LastOccupied(new_size)
           kept == ShrinkBlocks(blocks, size, new_size)
           left == SubSeq(data, 1, new_size)
<1>1. /\ blocks \in Seq(Block) /\ data \in Seq(Byte) /\ size \in Nat /\ l \in Nat
      /\ Len(data) = size
      /\ B \in Nat /\ B > 0
  BY BlockSizeType DEF FileRecords, Exact
<1>2. l = BlockCount(size) /\ size <= l * B /\ (l > 0 => blocks[l].occupied = LastOccupied(size))
  BY ExactSize
<1>3. /\ kept \in Seq(Block)
      /\ Len(kept) = l - (BlockCount(size) - c)
      /\ \A i \in 1..Len(kept) :
           /\ kept[i].memory = blocks[i].memory
           /\ kept[i].occupied = IF i = Len(kept) THEN u ELSE blocks[i].occupied
  <2> HIDE DEF blocks, size, l
  <2>1. size <= Len(blocks) * BLOCK_SIZE /\ new_size < size
    BY <1>2 DEF l, size
  <2> QED
    BY <1>1, <2>1, ShrinkBlocksProperties DEF l
<1>4. c \in Nat /\ (new_size = 0 <=> c = 0)
  BY BlockCountProperties
<1>5. u \in 1..B /\ (new_size > 0 => new_size = (c - 1) * B + u)
  BY LastOccupiedProperties
<1>6. /\ \A i \in 1..l :
           /\ i < l => blocks[i].occupied = B
           /\ \A j \in 1..blocks[i].occupied : blocks[i].memory[j] = data[(i - 1) * B + j]
      /\ l > 0 => size = (l - 1) * B + blocks[l].occupied
  <2>1. \A i \in 1..l :
          /\ i < l => blocks[i].occupied = B
          /\ \A j \in 1..blocks[i].occupied : blocks[i].memory[j] = data[(i - 1) * B + j]
    BY DEF Exact
  <2>2. l > 0 => size = (l - 1) * B + blocks[l].occupied
    BY DEF Exact
  <2> QED
    BY <2>1, <2>2
<1>7. c <= l
  <2>1. new_size <= size
    BY <1>1
  <2> QED
    BY <1>1, <1>2, <2>1, BlockCountMonotonic
<1>8. Len(left) = new_size /\ \A p \in 1..new_size : left[p] = data[p]
  <2> HIDE DEF data
  <2>1. \A p \in 1..new_size : data[p] \in Byte
    <3>1. \A p \in 1..new_size : p \in 1..Len(data)
      BY <1>1
    <3> QED
      BY <1>1, <3>1, ElementOfSeq
  <2>2. /\ Len(left) = IF 1 <= new_size THEN new_size - 1 + 1 ELSE 0
        /\ \A p \in 1..(new_size - 1 + 1) : left[p] = data[1 + p - 1]
    BY <2>1, SubSeqProperties
  <2> HIDE DEF left
  <2>3. ASSUME NEW p \in 1..new_size  PROVE  left[p] = data[p]
    <3>1. p \in 1..(new_size - 1 + 1) /\ 1 + p - 1 = p
      OBVIOUS
    <3> QED
      BY <2>2, <3>1
  <2> QED
    BY <2>2, <2>3
<1> HIDE DEF blocks, data, size, B, l, c, u, kept, left
<1>9. Len(kept) = c
  BY <1>1, <1>2, <1>3, <1>4
<1>10. kept = <<>> <=> new_size = 0
  <2>1. kept = <<>> <=> Len(kept) = 0
    BY <1>3, EmptySeq
  <2> QED
    BY <1>4, <1>9, <2>1
<1>11. g.blocks = kept /\ g.size = new_size /\ g.data = left
  BY <1>10 DEF kept, left, blocks, size, data
<1>12. ASSUME NEW i \in 1..c, NEW j \in 1..kept[i].occupied
       PROVE  kept[i].memory[j] = left[(i - 1) * B + j]
  <2> DEFINE a == (i - 1) * B
             o == kept[i].occupied
  <2>1. i \in 1..l /\ i \in Int
    BY <1>1, <1>4, <1>7
  <2>2. kept[i].memory = blocks[i].memory /\ o = IF i = c THEN u ELSE blocks[i].occupied
    BY <1>3, <1>9
  <2>3. blocks[i].occupied \in 0..B
    <3>1. blocks[i] \in Block
      BY <1>1, <2>1, ElementOfSeq DEF l
    <3> QED
      BY <3>1 DEF Block, B
  <2>4. o \in 0..B /\ o <= blocks[i].occupied
    <3>1. CASE i < l
      <4>1. blocks[i].occupied = B
        BY <1>6, <2>1, <3>1
      <4> HIDE DEF o
      <4> QED
        BY <1>1, <1>5, <2>2, <4>1
    <3>2. CASE i = l
      <4>1. i = c /\ c = l
        BY <1>1, <1>4, <1>7, <3>2
      <4>2. size = (c - 1) * B + blocks[i].occupied
        BY <1>1, <1>6, <2>1, <3>2, <4>1
      <4>3. new_size > 0
        BY <1>4, <2>1
      <4>4. (c - 1) * B \in Int
        <5>1. c - 1 \in Int
          BY <1>4
        <5> HIDE DEF c
        <5> QED
          BY <1>1, <5>1
      <4>5. new_size < size
        BY DEF size
      <4> HIDE DEF o
      <4> QED
        BY <1>1, <1>5, <2>2, <2>3, <4>1, <4>2, <4>3, <4>4, <4>5
    <3> QED
      BY <1>1, <2>1, <3>1, <3>2
  <2>5. j \in 1..o /\ j \in 1..blocks[i].occupied /\ j \in Nat
    <3>1. j \in 1..o
      OBVIOUS
    <3> HIDE DEF o
    <3> QED
      BY <1>1, <2>3, <2>4, <3>1
  <2>6. kept[i].memory[j] = data[a + j]
    BY <1>6, <2>1, <2>2, <2>5
  <2>7. a + j \in 1..new_size
    <3>1. new_size > 0 /\ new_size = (c - 1) * B + u
      BY <1>4, <1>5, <2>1
    <3>2. a \in Nat
      <4>1. i - 1 \in Nat
        BY <2>1
      <4> QED
        BY <1>1, <4>1
    <3>3. CASE i = c
      <4> HIDE DEF o
      <4>1. new_size = a + u /\ o = u
        BY <2>2, <3>1, <3>3
      <4> HIDE DEF a
      <4> QED
        BY <1>1, <1>5, <2>5, <3>2, <4>1
    <3>4. CASE i < c
      <4>1. a + B <= (c - 1) * B /\ (c - 1) * B \in Int
        <5> DEFINE m == c - 1
        <5>1. m \in Int /\ i <= m
          BY <1>4, <2>1, <3>4
        <5> HIDE DEF m
        <5>2. i * B <= m * B /\ m * B \in Int
          BY <2>1, <5>1, Products, Multiples DEF B
        <5>3. (i - 1) * B = i * B - B /\ i * B \in Int
          BY <2>1, Multiples DEF B
        <5> QED
          BY <1>1, <5>2, <5>3 DEF m
      <4> HIDE DEF a, o
      <4> QED
        BY <1>1, <1>5, <2>4, <2>5, <3>1, <3>2, <4>1
    <3> QED
      BY <1>4, <2>1, <3>3, <3>4
  <2> QED
    BY <1>8, <2>6, <2>7
<1>13. DOMAIN kept = 1..c
  BY <1>3, <1>9
<1>14. ASSUME NEW i \in 1..c, i < c  PROVE  kept[i].occupied = B
  <2>1. i \in 1..l /\ i < l
    BY <1>1, <1>4, <1>7, <1>14
  <2> QED
    BY <1>3, <1>6, <1>9, <1>14, <2>1
<1>15. c > 0 => kept[c].occupied = u
  <2>1. c > 0 => c \in 1..c
    BY <1>4
  <2> QED
    BY <1>3, <1>9, <2>1
<1>16. /\ Len(g.data) = g.size
       /\ c = 0 => g.size = 0
       /\ c > 0 => g.blocks[c].occupied > 0 /\ g.size = (c - 1) * B + g.blocks[c].occupied
  <2>1. u > 0
    BY <1>1, <1>5
  <2> QED
    BY <1>4, <1>5, <1>8, <1>11, <1>15, <2>1
<1>17. Len(g.blocks) = c /\ DOMAIN g.blocks = 1..c
  BY <1>9, <1>11, <1>13
<1>18. ASSUME NEW i \in 1..c
       PROVE  /\ i < c => g.blocks[i].occupied = B
              /\ \A j \in 1..g.blocks[i].occupied :
                   g.blocks[i].memory[j] = g.data[(i - 1) * B + j]
  BY <1>11, <1>12, <1>14
<1> QED
  BY <1>16, <1>17, <1>18 DEF Exact, B

(* Growing keeps what every block holds and adds zeroed blocks, as many as *)
(* the new size needs; "the assertion" at userfs.c:529 holds.              *)
LEMMA GrowBlocksProperties ==
  ASSUME NEW blocks \in Seq(Block), NEW size \in Nat, NEW new_size \in Nat,
         size < new_size, size <= Len(blocks) * BLOCK_SIZE
  PROVE  LET grown == GrowBlocks(blocks, size, new_size)
             l == Len(blocks)
         IN /\ grown \in Seq(Block)
            /\ Len(grown) = l + (BlockCount(new_size) - BlockCount(size))
            /\ l <= Len(grown)
            /\ new_size <= Len(grown) * BLOCK_SIZE
            /\ \A i \in 1..Len(grown) :
                 /\ i <= l => grown[i].memory = blocks[i].memory
                 /\ i > l => \A j \in 1..BLOCK_SIZE : grown[i].memory[j] = 0
                 /\ grown[i].occupied =
                      IF i = Len(grown) THEN LastOccupied(new_size)
                      ELSE IF i < l THEN blocks[i].occupied ELSE BLOCK_SIZE
<1> DEFINE B == BLOCK_SIZE
           l == Len(blocks)
           c == BlockCount(size)
           d == BlockCount(new_size)
           new == d - c
           u == LastOccupied(new_size)
           full == [NewBlock(0) EXCEPT !.occupied = B]
           before == IF new = 0 THEN blocks ELSE SetLastOccupied(blocks, B)
           added == [i \in 1..new |-> full]
           all == before \o added
           grown == GrowBlocks(blocks, size, new_size)
<1>1. /\ B \in Nat /\ B > 0 /\ B \in 0..B
      /\ l \in Nat /\ c \in Nat /\ d \in Nat
  <2>1. B \in Nat /\ B > 0
    BY BlockSizeType
  <2>2. l \in Nat /\ c \in Nat /\ d \in Nat
    BY BlockCountProperties
  <2> HIDE DEF B, l, c, d
  <2> QED
    BY <2>1, <2>2
<1>2. c <= d /\ c <= l /\ new \in Nat
  <2>1. c <= d
    BY BlockCountMonotonic
  <2>2. c <= l
    BY BlockCountProperties
  <2> HIDE DEF c, d, l
  <2> QED
    BY <1>1, <2>1, <2>2
<1>3. u \in 1..B /\ u \in 0..B
  <2>1. u \in 1..B
    BY LastOccupiedProperties
  <2> HIDE DEF u, B
  <2> QED
    BY <1>1, <2>1
<1>4. full \in Block /\ full.occupied = B /\ \A j \in 1..B : full.memory[j] = 0
  <2> DEFINE zero == 0
  <2>1. zero \in Bytes
    BY DEF Bytes, Byte
  <2> HIDE DEF zero
  <2>2. NewBlock(zero) \in Block /\ \A j \in 1..BLOCK_SIZE : NewBlock(zero).memory[j] = zero
    BY <2>1, NewBlockProperties
  <2>3. NewBlock(0) \in Block /\ \A j \in 1..B : NewBlock(0).memory[j] = 0
    BY <2>2 DEF zero
  <2> QED
    BY <1>1, <2>3 DEF Block
<1>5. grown = SetLastOccupied(all, u)
  BY DEF GrowBlocks
<1> HIDE DEF B, c, d, new, u, full, grown
<1>6. /\ before \in Seq(Block) /\ Len(before) = l
      /\ \A i \in 1..l :
           /\ before[i].memory = blocks[i].memory
           /\ before[i].occupied = IF new > 0 /\ i = l THEN B ELSE blocks[i].occupied
  <2>1. CASE new = 0
    BY <1>1, <2>1
  <2>2. CASE new # 0
    <3>1. before = SetLastOccupied(blocks, B)
      BY <2>2
    <3> HIDE DEF before
    <3>2. /\ SetLastOccupied(blocks, B) \in Seq(Block)
          /\ Len(SetLastOccupied(blocks, B)) = Len(blocks)
          /\ \A i \in 1..Len(blocks) :
              /\ SetLastOccupied(blocks, B)[i].memory = blocks[i].memory
              /\ SetLastOccupied(blocks, B)[i].occupied =
                   IF i = Len(blocks) THEN B ELSE blocks[i].occupied
      <4>1. B \in 0..BLOCK_SIZE
        BY <1>1 DEF B
      <4> QED
        BY <4>1, SetLastOccupiedProperties
    <3>3. new > 0
      BY <1>2, <2>2
    <3> QED
      BY <3>1, <3>2, <3>3
  <2> QED
    BY <2>1, <2>2
<1>7. added \in Seq(Block) /\ Len(added) = new /\ \A i \in 1..new : added[i] = full
  <2>1. added \in [1..new -> Block]
    BY <1>4
  <2> QED
    BY <1>2, <2>1
<1> HIDE DEF before, added, l
<1>8. /\ all \in Seq(Block) /\ Len(all) = l + new
      /\ \A i \in 1..(l + new) : all[i] = IF i <= l THEN before[i] ELSE full
  <2>1. /\ before \o added \in Seq(Block)
        /\ Len(before \o added) = Len(before) + Len(added)
        /\ \A i \in 1..(Len(before) + Len(added)) :
             (before \o added)[i] =
               IF i <= Len(before) THEN before[i] ELSE added[i - Len(before)]
    BY <1>6, <1>7, ConcatProperties
  <2>2. ASSUME NEW i \in 1..(l + new), ~(i <= l)  PROVE  added[i - l] = full
    <3>1. i - l \in 1..new
      BY <1>1, <1>2, <2>2
    <3> QED
      BY <1>7, <3>1
  <2> QED
    BY <1>6, <1>7, <2>1, <2>2
<1> HIDE DEF all
<1>9. /\ grown \in Seq(Block) /\ Len(grown) = l + new
      /\ \A i \in 1..(l + new) :
           /\ grown[i].memory = all[i].memory
           /\ grown[i].occupied = IF i = l + new THEN u ELSE all[i].occupied
  BY <1>3, <1>5, <1>8, SetLastOccupiedProperties DEF B
<1>10. d <= l + new /\ l <= l + new
  BY <1>1, <1>2 DEF new
<1>11. new_size <= (l + new) * B
  <2> DEFINE m == l + new
  <2>1. m \in Int /\ d \in Int /\ d <= m
    BY <1>1, <1>2, <1>10
  <2> HIDE DEF m
  <2>2. d * BLOCK_SIZE <= m * BLOCK_SIZE /\ d * BLOCK_SIZE \in Int /\ m * BLOCK_SIZE \in Int
    BY <2>1, Products, Multiples
  <2>3. new_size <= d * BLOCK_SIZE
    BY BlockCountProperties DEF d
  <2>4. new_size <= m * BLOCK_SIZE
    BY <2>2, <2>3
  <2> QED
    BY <2>4 DEF m, B
<1>12. ASSUME NEW i \in 1..(l + new)
       PROVE  /\ i <= l => grown[i].memory = blocks[i].memory
              /\ i > l => \A j \in 1..B : grown[i].memory[j] = 0
              /\ grown[i].occupied = IF i = l + new THEN u
                                     ELSE IF i < l THEN blocks[i].occupied ELSE B
  <2>1. CASE i <= l
    <3>1. i \in 1..l
      BY <1>1, <1>2, <2>1
    <3>2. i # l + new => (new > 0 /\ i = l <=> ~(i < l))
      BY <1>1, <1>2, <3>1
    <3>3. ~(i > l)
      BY <1>1, <2>1
    <3> QED
      BY <1>6, <1>8, <1>9, <2>1, <3>1, <3>2, <3>3
  <2>2. CASE ~(i <= l)
    <3>1. ~(i < l)
      BY <1>1, <1>2, <2>2
    <3> QED
      BY <1>4, <1>8, <1>9, <2>2, <3>1
  <2> QED
    BY <2>1, <2>2
<1>13. l + new = l + (BlockCount(new_size) - BlockCount(size))
  BY DEF new, c, d
<1> QED
  BY <1>9, <1>10, <1>11, <1>12, <1>13 DEF grown, l, B, u

(* A file that only got bytes at its end is extended from the end of a     *)
(* block, and the new blocks read as zeros.                                *)
LEMMA GrowKeepsExact ==
  ASSUME NEW file \in FileRecords, Exact(file),
         file.size % BLOCK_SIZE = 0,
         NEW new_size \in Nat, new_size > file.size,
         NEW g,
         g.blocks = GrowBlocks(file.blocks, file.size, new_size),
         g.size = new_size,
         g.data = file.data \o [i \in 1..(new_size - Len(file.data)) |-> 0]
  PROVE  Exact(g)
<1> DEFINE blocks == file.blocks
           data == file.data
           size == file.size
           B == BLOCK_SIZE
           l == Len(blocks)
           d == BlockCount(new_size)
           u == LastOccupied(new_size)
           grown == GrowBlocks(blocks, size, new_size)
           zeros == [i \in 1..(new_size - Len(data)) |-> 0]
           longer == data \o zeros
<1>1. /\ blocks \in Seq(Block) /\ data \in Seq(Byte) /\ size \in Nat /\ l \in Nat
      /\ Len(data) = size
      /\ B \in Nat /\ B > 0
  BY BlockSizeType DEF FileRecords, Exact
<1>2. l = BlockCount(size) /\ size <= l * B /\ (l > 0 => blocks[l].occupied = LastOccupied(size))
  BY ExactSize
<1>3. LastOccupied(size) = B
  BY <1>1, LastOccupiedProperties
<1>4. /\ grown \in Seq(Block)
      /\ Len(grown) = l + (d - BlockCount(size))
      /\ \A i \in 1..Len(grown) :
           /\ i <= l => grown[i].memory = blocks[i].memory
           /\ i > l => \A j \in 1..B : grown[i].memory[j] = 0
           /\ grown[i].occupied = IF i = Len(grown) THEN u
                                  ELSE IF i < l THEN blocks[i].occupied ELSE B
  <2> HIDE DEF blocks, size, l
  <2>1. size <= Len(blocks) * BLOCK_SIZE /\ size < new_size /\ size \in Nat
    BY <1>1, <1>2 DEF l, size
  <2> DEFINE n == Len(blocks)
             f == GrowBlocks(blocks, size, new_size)
  <2>2. /\ f \in Seq(Block)
        /\ Len(f) = n + (BlockCount(new_size) - BlockCount(size))
        /\ n <= Len(f)
        /\ new_size <= Len(f) * BLOCK_SIZE
        /\ \A i \in 1..Len(f) :
             /\ i <= n => f[i].memory = blocks[i].memory
             /\ i > n => \A j \in 1..BLOCK_SIZE : f[i].memory[j] = 0
             /\ f[i].occupied =
                  IF i = Len(f) THEN LastOccupied(new_size)
                  ELSE IF i < n THEN blocks[i].occupied ELSE BLOCK_SIZE
    <3>1. blocks \in Seq(Block)
      BY <1>1
    <3> QED
      BY <2>1, <3>1, GrowBlocksProperties
  <2> HIDE DEF n, f
  <2> QED
    BY <2>2 DEF l, n, f
<1>5. d \in Nat /\ new_size <= d * B
  BY BlockCountProperties
<1>6. u \in 1..B /\ (new_size > 0 => new_size = (d - 1) * B + u)
  BY LastOccupiedProperties
<1>7. \A i \in 1..l :
        /\ i < l => blocks[i].occupied = B
        /\ \A j \in 1..blocks[i].occupied : blocks[i].memory[j] = data[(i - 1) * B + j]
  BY DEF Exact
<1>8. size = l * B
  <2>1. l > 0 => size = (l - 1) * B + blocks[l].occupied
    BY DEF Exact
  <2>2. l = 0 => size = 0
    BY DEF Exact
  <2>3. (l - 1) * B = l * B - B /\ l * B \in Int
    BY <1>1, Multiples
  <2> HIDE DEF size, l, blocks, B
  <2>4. l = 0 => l * B = 0
    BY <1>1
  <2> QED
    BY <1>1, <1>2, <1>3, <2>1, <2>2, <2>3, <2>4
<1>9. /\ Len(longer) = new_size
      /\ \A p \in 1..new_size : longer[p] = IF p <= size THEN data[p] ELSE 0
  <2> DEFINE n == new_size - Len(data)
  <2>1. n \in Nat /\ size + n = new_size
    BY <1>1
  <2>2. zeros \in Seq(Byte) /\ Len(zeros) = n /\ \A i \in 1..n : zeros[i] = 0
    <3>1. zeros = [i \in 1..n |-> 0]
      OBVIOUS
    <3> HIDE DEF zeros, n
    <3>2. zeros \in [1..n -> Byte]
      BY <3>1 DEF Byte
    <3>3. zeros \in Seq(Byte)
      BY <2>1, <3>2, SeqDef
    <3>4. DOMAIN zeros = 1..n
      BY <3>2
    <3>5. Len(zeros) = n
      BY <2>1, <3>3, <3>4, LenProperties
    <3> QED
      BY <3>1, <3>3, <3>5
  <2> HIDE DEF zeros, n, data, size
  <2>3. /\ Len(data \o zeros) = Len(data) + Len(zeros)
        /\ \A i \in 1..(Len(data) + Len(zeros)) :
             (data \o zeros)[i] = IF i <= Len(data) THEN data[i] ELSE zeros[i - Len(data)]
    BY <1>1, <2>2, ConcatProperties
  <2>4. ASSUME NEW p \in 1..new_size, ~(p <= size)  PROVE  zeros[p - size] = 0
    <3>1. p - size \in 1..n
      BY <1>1, <2>1, <2>4
    <3> QED
      BY <2>2, <3>1
  <2> QED
    BY <1>1, <2>1, <2>2, <2>3, <2>4
<1>10. g.blocks = grown /\ g.size = new_size /\ g.data = longer
  OBVIOUS
<1>11. new_size > size
  OBVIOUS
<1> HIDE DEF blocks, data, size, B, l, d, u, grown, zeros, longer
<1>12. l < d /\ Len(grown) = d
  <2>1. ~(d <= l)
    <3> SUFFICES ASSUME d <= l  PROVE FALSE
      OBVIOUS
    <3>1. d * B <= l * B /\ d * B \in Int /\ l * B \in Int
      BY <1>1, <1>5, Products, Multiples DEF B
    <3> DEFINE e == l * B
               f == d * B
    <3>2. f <= e /\ e \in Int /\ f \in Int /\ size = e /\ new_size <= f
      BY <1>5, <1>8, <3>1
    <3> HIDE DEF e, f
    <3> QED
      BY <1>11, <3>2
  <2> QED
    BY <1>1, <1>2, <1>4, <1>5, <2>1
<1>13. ASSUME NEW i \in 1..l
       PROVE  /\ grown[i].occupied = B /\ i < d
              /\ \A j \in 1..B : grown[i].memory[j] = longer[(i - 1) * B + j]
  <2>1. i \in 1..Len(grown) /\ i # Len(grown) /\ i <= l /\ i \in Int /\ i < d
    BY <1>1, <1>5, <1>12
  <2>2. blocks[i].occupied = B
    <3>1. CASE i < l
      BY <1>7, <3>1
    <3>2. CASE i = l
      <4>1. l > 0
        BY <1>1, <3>2
      <4> QED
        BY <1>2, <1>3, <3>2, <4>1
    <3> QED
      BY <1>1, <3>1, <3>2
  <2>3. grown[i].occupied = B /\ grown[i].memory = blocks[i].memory
    BY <1>4, <2>1, <2>2
  <2>4. ASSUME NEW j \in 1..B  PROVE  grown[i].memory[j] = longer[(i - 1) * B + j]
    <3> DEFINE p == (i - 1) * B + j
    <3>1. p \in 1..new_size /\ p <= size
      <4>1. (i - 1) * B = i * B - B /\ i * B \in Int /\ (i - 1) * B \in Nat
        <5>1. (i - 1) * B = i * B - B /\ i * B \in Int
          BY <2>1, Multiples DEF B
        <5>2. i - 1 \in Int /\ i - 1 \in Nat
          BY <2>1
        <5> DEFINE m == i - 1
        <5> HIDE DEF m
        <5>3. m \in Int /\ m \in Nat => m * B \in Nat
          BY Multiples DEF B
        <5> QED
          BY <5>1, <5>2, <5>3 DEF m
      <4>2. i * B <= l * B /\ l * B \in Int
        BY <1>1, <2>1, Products, Multiples DEF B
      <4> DEFINE a == (i - 1) * B
      <4> HIDE DEF a
      <4>3. a = i * B - B /\ a \in Nat
        BY <4>1 DEF a
      <4>4. a + j \in 1..new_size /\ a + j <= size
        <5> DEFINE e == l * B
                   f == i * B
        <5>1. a = f - B /\ a \in Nat /\ f \in Int /\ f <= e /\ e \in Int /\ size = e
          BY <1>8, <4>1, <4>2, <4>3
        <5> HIDE DEF e, f
        <5> QED
          BY <1>1, <1>11, <5>1
      <4> QED
        BY <4>4 DEF a
    <3>2. blocks[i].memory[j] = data[p]
      BY <1>7, <2>2
    <3> HIDE DEF p
    <3>3. longer[p] = data[p]
      BY <1>9, <3>1
    <3> QED
      BY <2>3, <3>2, <3>3 DEF p
  <2> QED
    BY <2>1, <2>3, <2>4
<1>14. ASSUME NEW i \in 1..d, ~(i <= l)
       PROVE  /\ grown[i].occupied = IF i = d THEN u ELSE B
              /\ \A j \in 1..grown[i].occupied : grown[i].memory[j] = longer[(i - 1) * B + j]
  <2>1. i \in 1..Len(grown) /\ ~(i < l) /\ i \in Int
    BY <1>1, <1>5, <1>12, <1>14
  <2>2. /\ grown[i].occupied = IF i = d THEN u ELSE B
        /\ \A j \in 1..B : grown[i].memory[j] = 0
    <3>1. i > l
      BY <1>1, <1>14, <2>1
    <3> QED
      BY <1>4, <1>12, <2>1, <3>1
  <2>3. ASSUME NEW j \in 1..grown[i].occupied
        PROVE  grown[i].memory[j] = longer[(i - 1) * B + j]
    <3> DEFINE a == (i - 1) * B
    <3>1. a \in Int /\ l * B <= a /\ a = i * B - B /\ i * B \in Int /\ l * B \in Int
      <4> DEFINE m == i - 1
      <4>1. m \in Int /\ l \in Int /\ l <= m
        BY <1>1, <1>14, <2>1
      <4> HIDE DEF m
      <4>2. l * B <= m * B /\ m * B \in Int
        BY <4>1, Products, Multiples DEF B
      <4>3. (i - 1) * B = i * B - B /\ i * B \in Int /\ l * B \in Int
        BY <1>1, <2>1, Multiples DEF B
      <4> QED
        BY <4>2, <4>3 DEF m
    <3>2. j \in 1..B /\ (i = d => j <= u)
      BY <1>1, <1>6, <2>2
    <3>3. a + j <= new_size
      <4>1. CASE i = d
        <5>1. new_size = a + u
          <6>1. new_size > 0
            BY <1>1, <1>11
          <6> QED
            BY <1>6, <4>1, <6>1
        <5> HIDE DEF a
        <5> QED
          BY <1>6, <3>1, <3>2, <4>1, <5>1
      <4>2. CASE i < d
        <5> DEFINE m == d - 1
        <5>1. m \in Int /\ i <= m
          BY <1>5, <2>1, <4>2
        <5>2. new_size = m * B + u
          <6>1. new_size > 0
            BY <1>1, <1>11
          <6> QED
            BY <1>6, <6>1
        <5> HIDE DEF m, a
        <5>3. i * B <= m * B /\ m * B \in Int
          BY <2>1, <5>1, Products, Multiples DEF B
        <5> QED
          BY <1>1, <1>6, <3>1, <3>2, <5>2, <5>3
      <4> QED
        BY <1>5, <4>1, <4>2
    <3> HIDE DEF a
    <3>4. a + j \in 1..new_size /\ ~(a + j <= size)
      <4> DEFINE e == l * B
      <4>1. e \in Int /\ e <= a /\ size = e
        BY <1>8, <3>1
      <4> HIDE DEF e
      <4>2. j \in 1..B
        BY <3>2
      <4> QED
        BY <1>1, <3>1, <3>3, <4>1, <4>2
    <3>5. longer[a + j] = 0
      BY <1>9, <3>4
    <3> QED
      BY <2>2, <3>2, <3>5 DEF a
  <2> QED
    BY <2>2, <2>3
<1>15. DOMAIN grown = 1..d /\ d > 0
  BY <1>1, <1>4, <1>12
<1>16. grown[d].occupied = u /\ u > 0 /\ new_size = (d - 1) * B + u
  <2>1. d \in 1..d /\ ~(d <= l)
    BY <1>1, <1>5, <1>12
  <2>2. new_size > 0
    BY <1>1, <1>11
  <2> QED
    BY <1>1, <1>6, <1>14, <2>1, <2>2
<1>17. ASSUME NEW i \in 1..d
       PROVE  /\ i < d => grown[i].occupied = B
              /\ \A j \in 1..grown[i].occupied : grown[i].memory[j] = longer[(i - 1) * B + j]
  <2>1. CASE i <= l
    <3>1. i \in 1..l
      BY <1>1, <1>5, <2>1
    <3> QED
      BY <1>13, <3>1
  <2>2. CASE ~(i <= l)
    <3>1. i < d => i # d
      BY <1>5
    <3> QED
      BY <1>14, <2>2, <3>1
  <2> QED
    BY <2>1, <2>2
<1>18. /\ Len(g.blocks) = d /\ DOMAIN g.blocks = 1..d
       /\ Len(g.data) = g.size
       /\ d > 0 => g.blocks[d].occupied > 0 /\ g.size = (d - 1) * B + g.blocks[d].occupied
       /\ ~(d = 0)
  <2>1. ~(d = 0)
    BY <1>5, <1>15
  <2> QED
    BY <1>9, <1>10, <1>12, <1>15, <1>16, <2>1
<1>19. ASSUME NEW i \in 1..d
       PROVE  /\ i < d => g.blocks[i].occupied = B
              /\ \A j \in 1..g.blocks[i].occupied :
                   g.blocks[i].memory[j] = g.data[(i - 1) * B + j]
  BY <1>10, <1>17
<1> QED
  BY <1>18, <1>19 DEF Exact, B

-----------------------------------------------------------------------------
(* The loop of ufs_read.                                                   *)

(* A turn of the loop: when it is the last, how many bytes it copies and   *)
(* which, and where the next one starts.                                   *)
Stops(blocks, p) ==
  \/ p[1] \notin DOMAIN blocks
  \/ p[3] = 0
  \/ p[2] % BLOCK_SIZE >= blocks[p[1]].occupied

Taken(blocks, p) ==
  Smaller(blocks[p[1]].occupied, (p[2] % BLOCK_SIZE) + p[3]) - (p[2] % BLOCK_SIZE)

Part(blocks, p) ==
  SubSeq(blocks[p[1]].memory, (p[2] % BLOCK_SIZE) + 1,
         Smaller(blocks[p[1]].occupied, (p[2] % BLOCK_SIZE) + p[3]))

NextPlace(blocks, p) ==
  <<p[1] + 1, p[2] + Taken(blocks, p), p[3] - Taken(blocks, p)>>

(* The bytes of a turn are those of the block from the offset on, as many  *)
(* as are wanted and there.                                                *)
LEMMA TurnProperties ==
  ASSUME NEW blocks \in Seq(Block), NEW p \in ReadPlaces, ~Stops(blocks, p)
  PROVE  LET t == Taken(blocks, p)
             from == p[2] % BLOCK_SIZE
             block == blocks[p[1]]
         IN /\ p[1] \in 1..Len(blocks) /\ block \in Block
            /\ t \in 1..p[3]
            /\ from \in Nat /\ from + t <= block.occupied
            /\ t = p[3] \/ from + t = block.occupied
            /\ Part(blocks, p) \in Seq(Bytes)
            /\ Len(Part(blocks, p)) = t
            /\ \A x \in 1..t : Part(blocks, p)[x] = block.memory[from + x]
            /\ NextPlace(blocks, p) \in ReadPlaces
            /\ NextPlace(blocks, p)[1] = p[1] + 1
            /\ NextPlace(blocks, p)[2] = p[2] + t
            /\ NextPlace(blocks, p)[3] = p[3] - t
<1> DEFINE i == p[1]
           o == p[2]
           m == p[3]
           t == Taken(blocks, p)
           from == o % BLOCK_SIZE
           block == blocks[i]
           occ == block.occupied
           last == Smaller(occ, from + m)
           memory == block.memory
           part == SubSeq(memory, from + 1, last)
<1>1. i \in Nat /\ o \in Nat /\ m \in Nat
  BY DEF ReadPlaces
<1>2. i \in 1..Len(blocks) /\ m # 0 /\ from < occ /\ block \in Block
  <2>1. i \in 1..Len(blocks) /\ m # 0
    BY DEF Stops
  <2>2. block \in Block
    BY <2>1, ElementOfSeq
  <2>3. occ \in Nat
    BY <2>2, BlockSizeType DEF Block
  <2>4. from \in Nat
    BY <1>1, BlockSizeType
  <2>5. ~(from >= occ)
    BY DEF Stops
  <2> HIDE DEF from, occ, i, m, block
  <2> QED
    BY <2>1, <2>2, <2>3, <2>4, <2>5
<1>3. from \in Nat /\ occ \in 0..BLOCK_SIZE /\ BLOCK_SIZE \in Nat
  <2>1. from \in Nat
    BY <1>1, BlockSizeType
  <2> QED
    BY <1>2, <2>1, BlockSizeType DEF Block
<1>4. memory \in [1..BLOCK_SIZE -> Bytes]
  BY <1>2 DEF Block, Bytes
<1>5. t = last - from
  BY DEF Taken
<1> HIDE DEF i, o, m, t, from, block, occ
<1>6. /\ last \in Nat /\ last > from /\ last <= occ
      /\ t \in 1..m /\ from + t = last
      /\ t = m \/ from + t = occ
  BY <1>1, <1>2, <1>3, <1>5 DEF Smaller
<1> HIDE DEF last, memory
<1>7. memory \in Seq(Bytes)
  BY <1>3, <1>4, SeqDef
<1>8. part \in Seq(Bytes) /\ Len(part) = t /\ \A x \in 1..t : part[x] = memory[from + x]
  <2>1. \A x \in (from + 1)..last : memory[x] \in Bytes
    BY <1>3, <1>4, <1>6
  <2>2. /\ part \in Seq(Bytes)
        /\ Len(part) = IF from + 1 <= last THEN last - (from + 1) + 1 ELSE 0
        /\ \A x \in 1..(last - (from + 1) + 1) : part[x] = memory[(from + 1) + x - 1]
    <3>1. from + 1 \in Int /\ last \in Int
      BY <1>3, <1>6
    <3> QED
      BY <1>7, <2>1, <3>1, SubSeqProperties
  <2> HIDE DEF part
  <2>3. ASSUME NEW x \in 1..t  PROVE  part[x] = memory[from + x]
    <3>1. x \in 1..(last - (from + 1) + 1) /\ (from + 1) + x - 1 = from + x
      BY <1>1, <1>3, <1>6
    <3> QED
      BY <2>2, <3>1
  <2>4. Len(part) = t
    BY <1>1, <1>3, <1>6, <2>2
  <2> QED
    BY <2>2, <2>3, <2>4
<1>9. Part(blocks, p) = part
  BY DEF Part, part, last, memory, from, block, occ, i, o, m
<1>10. NextPlace(blocks, p) = <<i + 1, o + t, m - t>>
  BY DEF NextPlace, t, i, o, m
<1>11. <<i + 1, o + t, m - t>> \in ReadPlaces
  <2>1. i + 1 \in Nat /\ o + t \in Nat /\ m - t \in Nat
    BY <1>1, <1>6
  <2> QED
    BY <2>1 DEF ReadPlaces
<1> HIDE DEF part
<1>12. /\ p[1] \in 1..Len(blocks) /\ block \in Block
       /\ t \in 1..p[3]
       /\ from \in Nat /\ from + t <= block.occupied
       /\ t = p[3] \/ from + t = block.occupied
  BY <1>2, <1>3, <1>6 DEF i, m, occ
<1>13. /\ NextPlace(blocks, p) \in ReadPlaces
       /\ NextPlace(blocks, p)[1] = p[1] + 1
       /\ NextPlace(blocks, p)[2] = p[2] + t
       /\ NextPlace(blocks, p)[3] = p[3] - t
  BY <1>10, <1>11 DEF i, o, m
<1>14. /\ Part(blocks, p) \in Seq(Bytes)
       /\ Len(Part(blocks, p)) = t
       /\ \A x \in 1..t : Part(blocks, p)[x] = block.memory[from + x]
  BY <1>8, <1>9 DEF memory
<1> QED
  BY <1>12, <1>13, <1>14 DEF t, from, block, i, o

(* A turn of the loop in these words.                                     *)
LEMMA ReadTurnSplit ==
  ASSUME NEW blocks, NEW copy, NEW p
  PROVE  ReadTurn(blocks, copy, p) =
           IF Stops(blocks, p) THEN <<>>
           ELSE Part(blocks, p) \o copy[NextPlace(blocks, p)]
<1> DEFINE i == p[1]
           o == p[2]
           m == p[3]
           from == o % BLOCK_SIZE
           last == Smaller(blocks[i].occupied, from + m)
           t == Taken(blocks, p)
<1>1. ReadTurn(blocks, copy, p) =
        IF i \notin DOMAIN blocks \/ m = 0 \/ from >= blocks[i].occupied
        THEN <<>>
        ELSE SubSeq(blocks[i].memory, from + 1, last)
               \o copy[<<i + 1, o + last - from, m - (last - from)>>]
  BY DEF ReadTurn
<1> QED
  BY <1>1 DEF Stops, Part, NextPlace, Taken

(* What holds at a place if it holds wherever less is wanted holds at all. *)
LEMMA PlaceInduction ==
  ASSUME NEW Q,
         \A p \in ReadPlaces : (\A q \in ReadPlaces : q[3] < p[3] => q \in Q) => p \in Q
  PROVE  ReadPlaces \subseteq Q
<1> SUFFICES ASSUME ReadPlaces \ Q # {}  PROVE FALSE
  OBVIOUS
<1> DEFINE T == {p[3] : p \in ReadPlaces \ Q}
<1>1. T \subseteq Nat /\ T # {}
  BY DEF ReadPlaces
<1>2. PICK k \in T : \A j \in T : k <= j
  <2> HIDE DEF T
  <2> QED
    BY <1>1, LeastNumber
<1>3. PICK p \in ReadPlaces \ Q : p[3] = k
  BY <1>2
<1>4. ASSUME NEW q \in ReadPlaces, q[3] < p[3]  PROVE  q \in Q
  <2> SUFFICES ASSUME q \notin Q  PROVE FALSE
    OBVIOUS
  <2>1. q[3] \in T
    OBVIOUS
  <2>2. k <= q[3] /\ k \in Nat /\ q[3] \in Nat
    BY <1>1, <1>2, <2>1
  <2> QED
    BY <1>3, <1>4, <2>2
<1> QED
  BY <1>3, <1>4

(* The loop of ufs_read ends: there is a function that copies, at every    *)
(* place, what a turn finds there and what it copies itself from the next. *)
LEMMA ReadLoopProperties ==
  ASSUME NEW blocks \in Seq(Block)
  PROVE  /\ ReadLoop(blocks) \in [ReadPlaces -> Seq(Bytes)]
         /\ \A p \in ReadPlaces :
              ReadLoop(blocks)[p] =
                IF Stops(blocks, p) THEN <<>>
                ELSE Part(blocks, p) \o ReadLoop(blocks)[NextPlace(blocks, p)]
<1> DEFINE S == ReadPlaces
           T == Seq(Bytes)
           E(g) == g = [p \in S |-> ReadTurn(blocks, g, p)]
           G == [g \in [S -> T] |-> [p \in S |-> ReadTurn(blocks, g, p)]]
           mu == [p \in S |-> p[3]]
<1>1. ReadLoop(blocks) = CHOOSE g : E(g)
  BY DEF ReadLoop
<1>2. mu \in [S -> Nat] /\ T # {}
  <2>1. \A p \in S : p[3] \in Nat
    BY DEF ReadPlaces
  <2>2. <<>> \in T
    BY EmptySeq
  <2> QED
    BY <2>1, <2>2
<1>3. ASSUME NEW g \in [S -> T], NEW p \in S
      PROVE  ReadTurn(blocks, g, p) \in T
  <2>1. CASE Stops(blocks, p)
    BY <2>1, ReadTurnSplit, EmptySeq
  <2>2. CASE ~Stops(blocks, p)
    <3>1. Part(blocks, p) \in T /\ NextPlace(blocks, p) \in S
      BY <2>2, TurnProperties
    <3>2. g[NextPlace(blocks, p)] \in T
      BY <3>1
    <3>3. Part(blocks, p) \o g[NextPlace(blocks, p)] \in T
      BY <3>1, <3>2, ConcatProperties
    <3> QED
      BY <2>2, <3>3, ReadTurnSplit
  <2> QED
    BY <2>1, <2>2
<1>4. G \in [[S -> T] -> [S -> T]]
  BY <1>3
<1>5. ASSUME NEW g \in [S -> T], NEW h \in [S -> T], NEW p \in S,
             AgreeBelow(g, h, mu, S, mu[p])
      PROVE  G[g][p] = G[h][p]
  <2>1. G[g][p] = ReadTurn(blocks, g, p) /\ G[h][p] = ReadTurn(blocks, h, p)
    OBVIOUS
  <2>2. CASE Stops(blocks, p)
    BY <2>1, <2>2, ReadTurnSplit
  <2>3. CASE ~Stops(blocks, p)
    <3> DEFINE q == NextPlace(blocks, p)
               t == Taken(blocks, p)
    <3>1. q \in S /\ q[3] = p[3] - t /\ t \in 1..p[3]
      BY <2>3, TurnProperties
    <3>2. mu[q] < mu[p]
      <4>1. p[3] \in Nat
        BY DEF ReadPlaces
      <4>2. q[3] < p[3]
        <5> HIDE DEF q, t
        <5> QED
          BY <3>1, <4>1
      <4> QED
        BY <3>1, <4>2
    <3>3. g[q] = h[q]
      BY <1>5, <3>1, <3>2 DEF AgreeBelow
    <3> QED
      BY <2>1, <2>3, <3>3, ReadTurnSplit
  <2> QED
    BY <2>2, <2>3
<1>6. LooksBelow(G, mu, S, T)
  <2> HIDE DEF G, mu, S, T
  <2> QED
    BY <1>5 DEF LooksBelow
<1>7. HasSolution(G, S, T)
  <2> HIDE DEF G, mu, S, T
  <2> QED
    BY <1>2, <1>4, <1>6, RecursionHasSolution
<1>8. \E g : E(g)
  <2>1. PICK g \in [S -> T] : g = G[g]
    BY <1>7 DEF HasSolution
  <2> QED
    BY <2>1
<1> HIDE DEF E
<1>9. E(ReadLoop(blocks))
  BY <1>1, <1>8
<1>10. ReadLoop(blocks) = [p \in S |-> ReadTurn(blocks, ReadLoop(blocks), p)]
  BY <1>9 DEF E
<1>11. ASSUME NEW p \in ReadPlaces
       PROVE  ReadLoop(blocks)[p] =
                IF Stops(blocks, p) THEN <<>>
                ELSE Part(blocks, p) \o ReadLoop(blocks)[NextPlace(blocks, p)]
  <2>1. ReadLoop(blocks)[p] = ReadTurn(blocks, ReadLoop(blocks), p)
    BY <1>10
  <2> QED
    BY <2>1, ReadTurnSplit
\* No other solution could leave Seq(Bytes).
<1>12. ASSUME NEW p \in ReadPlaces  PROVE  ReadLoop(blocks)[p] \in Seq(Bytes)
  <2> DEFINE Q == {q \in ReadPlaces : ReadLoop(blocks)[q] \in Seq(Bytes)}
  <2>1. ASSUME NEW r \in ReadPlaces, \A q \in ReadPlaces : q[3] < r[3] => q \in Q
        PROVE  r \in Q
    <3>1. CASE Stops(blocks, r)
      BY <1>11, <3>1, EmptySeq
    <3>2. CASE ~Stops(blocks, r)
      <4> DEFINE q == NextPlace(blocks, r)
                 t == Taken(blocks, r)
      <4>1. q \in ReadPlaces /\ q[3] = r[3] - t /\ t \in 1..r[3] /\ Part(blocks, r) \in Seq(Bytes)
        BY <3>2, TurnProperties
      <4>2. q[3] < r[3]
        <5>1. r[3] \in Nat
          BY DEF ReadPlaces
        <5> HIDE DEF q, t
        <5> QED
          BY <4>1, <5>1
      <4>3. ReadLoop(blocks)[q] \in Seq(Bytes)
        BY <2>1, <4>1, <4>2
      <4>4. Part(blocks, r) \o ReadLoop(blocks)[q] \in Seq(Bytes)
        BY <4>1, <4>3, ConcatProperties
      <4> QED
        BY <1>11, <3>2, <4>4
    <3> QED
      BY <3>1, <3>2
  <2>2. ReadPlaces \subseteq Q
    <3> HIDE DEF Q
    <3> QED
      BY <2>1, PlaceInduction
  <2> QED
    BY <2>2
<1>13. ReadLoop(blocks) \in [ReadPlaces -> Seq(Bytes)]
  <2>1. ReadLoop(blocks) = [p \in ReadPlaces |-> ReadLoop(blocks)[p]]
    BY <1>10
  <2> QED
    BY <1>12, <2>1
<1> QED
  BY <1>11, <1>13

(* No more is read than is wanted.                                         *)
LEMMA ReadLength ==
  ASSUME NEW blocks \in Seq(Block), NEW p \in ReadPlaces
  PROVE  Len(ReadLoop(blocks)[p]) \in 0..p[3]
<1> DEFINE copy == ReadLoop(blocks)
           Q == {q \in ReadPlaces : Len(copy[q]) \in 0..q[3]}
<1>1. ASSUME NEW r \in ReadPlaces, \A q \in ReadPlaces : q[3] < r[3] => q \in Q
      PROVE  r \in Q
  <2>1. r[3] \in Nat
    BY DEF ReadPlaces
  <2>2. CASE Stops(blocks, r)
    <3>1. copy[r] = <<>>
      BY <2>2, ReadLoopProperties
    <3>2. Len(copy[r]) = 0
      BY <3>1
    <3> QED
      BY <2>1, <3>2
  <2>3. CASE ~Stops(blocks, r)
    <3> DEFINE q == NextPlace(blocks, r)
               t == Taken(blocks, r)
               part == Part(blocks, r)
    <3>1. /\ q \in ReadPlaces /\ q[3] = r[3] - t /\ t \in 1..r[3]
          /\ part \in Seq(Bytes) /\ Len(part) = t
      BY <2>3, TurnProperties
    <3>2. copy[r] = part \o copy[q] /\ copy[q] \in Seq(Bytes)
      BY <2>3, <3>1, ReadLoopProperties
    <3> HIDE DEF q, t, part, copy
    <3>3. q[3] < r[3]
      BY <2>1, <3>1
    <3>4. Len(copy[q]) \in 0..q[3]
      BY <1>1, <3>1, <3>3
    <3>5. Len(copy[r]) = t + Len(copy[q])
      <4>1. Len(part \o copy[q]) = Len(part) + Len(copy[q])
        BY <3>1, <3>2, ConcatProperties
      <4> QED
        BY <3>1, <3>2, <4>1
    <3>6. Len(copy[r]) \in 0..r[3]
      BY <2>1, <3>1, <3>4, <3>5
    <3> QED
      BY <3>6 DEF copy
  <2> QED
    BY <2>2, <2>3
<1> HIDE DEF Q
<1>2. ReadPlaces \subseteq Q
  BY <1>1, PlaceInduction
<1> QED
  BY <1>2 DEF Q

(* A read that starts in front of the end of block i, and not behind the   *)
(* last block, ends not behind the last block.                             *)
LEMMA ReadStaysInside ==
  ASSUME NEW blocks \in Seq(Block), NEW p \in ReadPlaces,
         p[2] < p[1] * BLOCK_SIZE, p[2] <= Len(blocks) * BLOCK_SIZE
  PROVE  p[2] + Len(ReadLoop(blocks)[p]) <= Len(blocks) * BLOCK_SIZE
<1> DEFINE copy == ReadLoop(blocks)
           B == BLOCK_SIZE
           l == Len(blocks)
           end == l * B
           Starts(q) == q[2] < q[1] * B /\ q[2] <= end
           Q == {q \in ReadPlaces : Starts(q) => q[2] + Len(copy[q]) <= end}
<1>1. B \in Nat /\ B > 0 /\ l \in Nat /\ end \in Nat
  BY BlockSizeType, Multiples
<1> HIDE DEF l, end
<1>2. ASSUME NEW r \in ReadPlaces, \A q \in ReadPlaces : q[3] < r[3] => q \in Q
      PROVE  r \in Q
  <2>1. r[1] \in Nat /\ r[2] \in Nat /\ r[3] \in Nat
    BY DEF ReadPlaces
  <2> SUFFICES ASSUME Starts(r)  PROVE r[2] + Len(copy[r]) <= end
    OBVIOUS
  <2>2. CASE Stops(blocks, r)
    <3>1. copy[r] = <<>>
      BY <2>2, ReadLoopProperties
    <3>2. Len(copy[r]) = 0
      BY <3>1
    <3> QED
      BY <2>1, <3>2
  <2>3. CASE ~Stops(blocks, r)
    <3> DEFINE q == NextPlace(blocks, r)
               t == Taken(blocks, r)
               part == Part(blocks, r)
               from == r[2] % BLOCK_SIZE
               d == r[2] \div BLOCK_SIZE
               i == r[1]
               o == r[2]
               occ == blocks[i].occupied
    <3>1. /\ q \in ReadPlaces /\ q[1] = i + 1 /\ q[2] = o + t /\ q[3] = r[3] - t
          /\ t \in 1..r[3] /\ i \in 1..l /\ blocks[i] \in Block
          /\ part \in Seq(Bytes) /\ Len(part) = t
          /\ from + t <= occ
      BY <2>3, TurnProperties DEF l
    <3>2. copy[r] = part \o copy[q] /\ copy[q] \in Seq(Bytes)
      BY <2>3, <3>1, ReadLoopProperties
    <3>3. o = d * B + from /\ d \in Nat /\ from \in Nat
      <4>1. from \in 0..(BLOCK_SIZE - 1) /\ d \in Nat /\ o = d * B + from
        BY <2>1, Division
      <4> QED
        BY <1>1, <4>1
    <3>4. occ \in 0..B
      BY <3>1 DEF Block
    <3>5. o < i * B /\ i \in Nat /\ o \in Nat
      BY <2>1
    <3> HIDE DEF q, t, part, copy, from, d, i, o, occ, B
    <3>6. q[3] < r[3]
      BY <2>1, <3>1
    <3>7. o + t <= i * B /\ i * B \in Nat
      <4>1. ~(i <= d)
        <5> SUFFICES ASSUME i <= d  PROVE FALSE
          OBVIOUS
        <5> DEFINE e == i * B
                   f == d * B
        <5>1. e <= f /\ e \in Int /\ f \in Int
          BY <3>3, <3>5, Products, Multiples DEF B
        <5>2. o = f + from /\ o < e
          BY <3>3, <3>5
        <5> HIDE DEF e, f
        <5> QED
          BY <3>3, <5>1, <5>2
      <4> DEFINE m == d + 1
      <4>2. m \in Int /\ m <= i
        BY <3>3, <3>5, <4>1
      <4>3. (d + 1) * B = d * B + B /\ d * B \in Int /\ i * B \in Nat
        BY <3>3, <3>5, Multiples DEF B
      <4> HIDE DEF m
      <4>4. m * B <= i * B
        BY <3>5, <4>2, Products DEF B
      <4> DEFINE e == i * B
                 f == d * B
      <4>5. o = f + from /\ f \in Int /\ e \in Nat /\ f + B <= e
        BY <3>3, <4>3, <4>4 DEF m
      <4> HIDE DEF e, f
      <4>6. o + t <= e /\ e \in Nat
        BY <1>1, <2>1, <3>1, <3>3, <3>4, <3>5, <4>5
      <4> QED
        BY <4>6 DEF e
    <3>8. i * B <= end /\ (i + 1) * B = i * B + B
      <4>1. i * B <= l * B
        BY <1>1, <3>1, <3>5, Products DEF B
      <4> QED
        BY <3>5, <4>1, Multiples DEF end, B
    <3>9. Starts(q)
      <4> DEFINE e == i * B
      <4>1. o + t <= e /\ e \in Nat /\ e <= end /\ (i + 1) * B = e + B
        BY <3>7, <3>8
      <4>2. q[2] = o + t /\ q[1] * B = (i + 1) * B
        BY <3>1
      <4> HIDE DEF e
      <4>3. o + t \in Int
        BY <2>1, <3>1, <3>5
      <4> QED
        BY <1>1, <4>1, <4>2, <4>3
    <3>10. o + t + Len(copy[q]) <= end
      <4>1. q \in Q
        BY <1>2, <3>1, <3>6
      <4>2. q[2] + Len(copy[q]) <= end
        BY <3>9, <4>1
      <4> QED
        BY <3>1, <4>2
    <3>11. Len(copy[r]) = t + Len(copy[q]) /\ Len(copy[q]) \in Nat /\ t \in Nat
      <4>1. Len(part \o copy[q]) = Len(part) + Len(copy[q])
        BY <3>1, <3>2, ConcatProperties
      <4>2. Len(copy[q]) \in Nat /\ t \in Nat
        BY <2>1, <3>1, <3>2, LenProperties
      <4> QED
        BY <3>1, <3>2, <4>1, <4>2
    <3>12. o + Len(copy[r]) <= end
      <4> DEFINE x == Len(copy[q])
                 y == Len(copy[r])
      <4>1. y = t + x /\ x \in Nat /\ t \in Nat /\ o + t + x <= end
        BY <3>10, <3>11
      <4> HIDE DEF x, y
      <4>2. o + y <= end
        BY <1>1, <3>5, <4>1
      <4> QED
        BY <4>2 DEF y
    <3> QED
      BY <3>12 DEF o
  <2> QED
    BY <2>2, <2>3
<1> HIDE DEF Q
<1>3. ReadPlaces \subseteq Q
  BY <1>2, PlaceInduction
<1>4. p \in Q /\ Starts(p)
  BY <1>3 DEF end, l
<1> QED
  BY <1>4 DEF Q, end, l

-----------------------------------------------------------------------------
(* Files that only got bytes at their end.                                 *)

(* The block that an offset is in, of a file that only got bytes at its    *)
(* end: there is one unless the offset is the end of the file.             *)
LEMMA ExactBlockAt ==
  ASSUME NEW file \in FileRecords, Exact(file), NEW o \in Nat, o <= file.size
  PROVE  LET n == Len(file.blocks)
             d == o \div BLOCK_SIZE
             from == o % BLOCK_SIZE
             block == file.blocks[d + 1]
         IN /\ o = file.size /\ d + 1 \in 1..n => from >= block.occupied
            /\ o < file.size =>
                 /\ d + 1 \in 1..n
                 /\ from < block.occupied
                 /\ d + 1 < n => block.occupied = BLOCK_SIZE
                 /\ d + 1 = n => file.size = d * BLOCK_SIZE + block.occupied
                 /\ d * BLOCK_SIZE + block.occupied <= file.size
            /\ d + 1 \in 1..n =>
                 /\ block.occupied \in 0..BLOCK_SIZE
                 /\ \A j \in 1..block.occupied :
                      block.memory[j] = file.data[d * BLOCK_SIZE + j]
<1> DEFINE n == Len(file.blocks)
           B == BLOCK_SIZE
           size == file.size
           d == o \div BLOCK_SIZE
           from == o % BLOCK_SIZE
           block == file.blocks[d + 1]
           occ == block.occupied
           q == file.blocks[n].occupied
           dB == d * B
           nB == n * B
<1>1. /\ file.blocks \in Seq(Block) /\ size \in Nat /\ n \in Nat
      /\ B \in Nat /\ B > 0
  BY BlockSizeType DEF FileRecords
<1>2. d \in Nat /\ from \in Nat /\ from < B /\ o = dB + from
  <2>1. from \in 0..(BLOCK_SIZE - 1) /\ d \in Nat /\ o = d * BLOCK_SIZE + from
    BY Division
  <2> HIDE DEF d, from
  <2> QED
    BY <1>1, <2>1
<1>3. dB \in Nat /\ nB \in Nat /\ (n - 1) * B = nB - B
  BY <1>1, <1>2, Multiples
<1>4. ASSUME d + 1 \in 1..n
      PROVE  /\ occ \in 0..B
             /\ \A j \in 1..occ : block.memory[j] = file.data[dB + j]
             /\ d + 1 < n => occ = B
  <2> DEFINE i == d + 1
  <2>1. i \in 1..n /\ i - 1 = d
    BY <1>2, <1>4
  <2>2. \A k \in 1..n :
          /\ k < n => file.blocks[k].occupied = B
          /\ \A j \in 1..file.blocks[k].occupied :
               file.blocks[k].memory[j] = file.data[(k - 1) * B + j]
    BY DEF Exact
  <2>3. block \in Block
    BY <1>1, <2>1, ElementOfSeq
  <2>4. occ \in 0..B
    BY <2>3 DEF Block
  <2> HIDE DEF d, i, n
  <2>5. block = file.blocks[i]
    BY DEF i
  <2> HIDE DEF block
  <2> QED
    BY <2>1, <2>2, <2>4, <2>5 DEF i
<1>5. n = 0 => size = 0
  BY DEF Exact
<1>6. n > 0 => q \in 1..B /\ size = (nB - B) + q
  <2> SUFFICES ASSUME n > 0  PROVE q \in 1..B /\ size = (nB - B) + q
    OBVIOUS
  <2>1. q > 0 /\ size = (n - 1) * BLOCK_SIZE + q
    BY DEF Exact
  <2>2. n \in 1..n
    BY <1>1
  <2>3. file.blocks[n] \in Block
    BY <1>1, <2>2, ElementOfSeq
  <2>4. q \in 0..B
    BY <2>3 DEF Block
  <2> HIDE DEF n, q, nB
  <2> QED
    BY <1>1, <1>3, <2>1, <2>4
<1>7. d + 1 < n => dB + B <= nB - B
  <2> SUFFICES ASSUME d + 1 < n  PROVE dB + B <= nB - B
    OBVIOUS
  <2> DEFINE a == d + 1
             b == n - 1
  <2>1. a \in Int /\ b \in Int /\ a <= b
    BY <1>1, <1>2
  <2>2. (d + 1) * B = dB + B
    BY <1>2, Multiples
  <2> HIDE DEF a, b
  <2>3. a * B <= b * B
    BY <2>1, Products
  <2> QED
    BY <1>3, <2>2, <2>3 DEF a, b
<1>8. d + 1 = n => dB = nB - B
  <2> SUFFICES ASSUME d + 1 = n  PROVE dB = nB - B
    OBVIOUS
  <2>1. d = n - 1
    BY <1>1, <1>2
  <2> QED
    BY <1>3, <2>1
<1>9. d >= n => dB >= nB
  <2> HIDE DEF d, n
  <2> QED
    BY <1>1, <1>2, Products DEF B
<1>10. d + 1 = n => occ = q
  BY <1>1, <1>2
<1>11. o <= size
  OBVIOUS
<1> HIDE DEF n, B, size, d, from, block, occ, q, dB, nB
<1>12. d + 1 \in 1..n <=> d < n
  BY <1>1, <1>2
<1>13. ASSUME d < n  PROVE  d + 1 < n \/ d + 1 = n
  BY <1>1, <1>2, <1>13
<1>14. ASSUME o = size, d + 1 \in 1..n  PROVE  from >= occ
  <2>1. n > 0
    BY <1>1, <1>2, <1>14
  <2>2. CASE d + 1 < n
    BY <1>1, <1>2, <1>3, <1>6, <1>7, <1>14, <2>1, <2>2
  <2>3. CASE d + 1 = n
    BY <1>1, <1>2, <1>3, <1>6, <1>8, <1>10, <1>14, <2>1, <2>3
  <2> QED
    BY <1>12, <1>13, <1>14, <2>2, <2>3
<1>15. ASSUME o < size
       PROVE  /\ d + 1 \in 1..n /\ from < occ
              /\ d + 1 < n => occ = B
              /\ d + 1 = n => size = dB + occ
              /\ dB + occ <= size
  <2>1. d < n
    <3>1. n > 0
      BY <1>1, <1>5, <1>15
    <3> SUFFICES ASSUME d >= n  PROVE FALSE
      BY <1>1, <1>2
    <3> QED
      BY <1>1, <1>2, <1>3, <1>6, <1>9, <1>15, <3>1
  <2>2. n > 0 /\ d + 1 \in 1..n
    BY <1>1, <1>2, <2>1
  <2>3. CASE d + 1 < n
    <3>1. occ = B /\ dB + B <= nB - B
      BY <1>4, <1>7, <2>2, <2>3
    <3> QED
      BY <1>1, <1>2, <1>3, <1>6, <2>2, <2>3, <3>1
  <2>4. CASE d + 1 = n
    <3>1. occ = q /\ dB = nB - B
      BY <1>8, <1>10, <2>4
    <3> QED
      BY <1>1, <1>2, <1>3, <1>6, <1>15, <2>2, <2>4, <3>1
  <2> QED
    BY <1>13, <2>1, <2>3, <2>4
<1> QED
  BY <1>4, <1>14, <1>15 DEF n, B, size, d, from, block, occ, dB

(* The places that a read of the file can come to.                         *)
RightPlace(file, p) ==
  /\ p[2] <= file.size
  /\ \/ p[3] = 0
     \/ p[2] = file.size /\ p[1] = Len(file.blocks) + 1
     \/ p[1] = p[2] \div BLOCK_SIZE + 1

(* The end of what a read gets of the file, and what it gets.              *)
ReadEnd(file, p) == Smaller(p[2] + p[3], file.size)

ReadsRight(file, p) ==
  LET copy == ReadLoop(file.blocks)[p] IN
  /\ Len(copy) = ReadEnd(file, p) - p[2]
  /\ \A x \in 1..(ReadEnd(file, p) - p[2]) : copy[x] = file.data[p[2] + x]

(* One turn goes from the right place to the right place, and ends only    *)
(* where nothing is wanted or the file ends.                               *)
LEMMA RightTurn ==
  ASSUME NEW file \in FileRecords, Exact(file),
         NEW p \in ReadPlaces, RightPlace(file, p)
  PROVE  LET t == Taken(file.blocks, p)
             next == NextPlace(file.blocks, p)
         IN /\ Stops(file.blocks, p) => ReadEnd(file, p) = p[2]
            /\ ~Stops(file.blocks, p) =>
                 /\ RightPlace(file, next)
                 /\ ReadEnd(file, next) = ReadEnd(file, p)
                 /\ p[2] + t <= ReadEnd(file, p)
                 /\ \A x \in 1..t : Part(file.blocks, p)[x] = file.data[p[2] + x]
<1> DEFINE blocks == file.blocks
           size == file.size
           n == Len(blocks)
           i == p[1]
           o == p[2]
           m == p[3]
           d == o \div BLOCK_SIZE
           from == o % BLOCK_SIZE
           occ == blocks[d + 1].occupied
           B == BLOCK_SIZE
           dB == d * B
           t == Taken(blocks, p)
           next == NextPlace(blocks, p)
<1>1. /\ blocks \in Seq(Block) /\ size \in Nat /\ n \in Nat
      /\ B \in Nat /\ B > 0
      /\ DOMAIN blocks = 1..n
  BY BlockSizeType DEF FileRecords
<1>2. i \in Nat /\ o \in Nat /\ m \in Nat
  BY DEF ReadPlaces
<1>3. d \in Nat /\ from \in Nat /\ from < B /\ o = dB + from /\ dB \in Nat
  <2>1. from \in 0..(BLOCK_SIZE - 1) /\ d \in Nat /\ o = d * BLOCK_SIZE + from
    BY <1>2, Division
  <2> HIDE DEF d, from, o
  <2>2. dB \in Nat
    BY <2>1, Multiples
  <2> QED
    BY <1>1, <2>1, <2>2
<1>4. o <= size /\ (m = 0 \/ (o = size /\ i = n + 1) \/ i = d + 1)
  BY DEF RightPlace
<1>5. /\ o = size /\ d + 1 \in 1..n => from >= occ
      /\ o < size =>
           /\ d + 1 \in 1..n
           /\ from < occ
           /\ d + 1 < n => occ = B
           /\ d + 1 = n => size = dB + occ
           /\ dB + occ <= size
      /\ d + 1 \in 1..n =>
           /\ occ \in 0..B
           /\ \A j \in 1..occ : blocks[d + 1].memory[j] = file.data[dB + j]
  <2> HIDE DEF o
  <2> QED
    BY <1>2, <1>4, ExactBlockAt
<1>6. Stops(blocks, p) <=> (i \notin 1..n \/ m = 0 \/ from >= blocks[i].occupied)
  BY <1>1 DEF Stops
<1>7. ReadEnd(file, p) = IF o + m < size THEN o + m ELSE size
  BY DEF ReadEnd, Smaller
<1>8. ASSUME Stops(blocks, p)  PROVE  ReadEnd(file, p) = o
  <2> HIDE DEF d, from, occ, dB, n, o, m, i, size, B, blocks
  <2>1. CASE m = 0
    BY <1>1, <1>2, <1>4, <1>7, <2>1
  <2>2. CASE o = size
    BY <1>1, <1>2, <1>7, <2>2
  <2>3. CASE i = d + 1 /\ m # 0 /\ o # size
    <3>1. o < size
      BY <1>1, <1>2, <1>4, <2>3
    <3>2. d + 1 \in 1..n /\ from < occ /\ occ \in 0..B
      BY <1>5, <3>1
    <3>3. ~(from >= occ)
      BY <1>1, <1>3, <3>2
    <3> QED
      BY <1>6, <1>8, <2>3, <3>2, <3>3 DEF occ
  <2> QED
    BY <1>4, <2>1, <2>2, <2>3
<1>9. ASSUME ~Stops(blocks, p)
      PROVE  /\ RightPlace(file, next)
             /\ ReadEnd(file, next) = ReadEnd(file, p)
             /\ o + t <= ReadEnd(file, p)
             /\ \A x \in 1..t : Part(blocks, p)[x] = file.data[o + x]
  <2>1. /\ i \in 1..n /\ t \in 1..m
        /\ from + t <= blocks[i].occupied
        /\ t = m \/ from + t = blocks[i].occupied
        /\ \A x \in 1..t : Part(blocks, p)[x] = blocks[i].memory[from + x]
        /\ next \in ReadPlaces
        /\ next[1] = i + 1 /\ next[2] = o + t /\ next[3] = m - t
    BY <1>1, <1>9, TurnProperties
  <2> HIDE DEF d, from, occ, dB, n, o, m, i, size, B, blocks, t, next
  <2>2. i = d + 1 /\ m # 0
    <3>1. m # 0
      BY <1>6, <1>9
    <3>2. i # n + 1
      BY <1>1, <2>1
    <3> QED
      BY <1>4, <3>1, <3>2
  <2>3. o < size
    <3>1. ~(from >= occ)
      BY <1>6, <1>9, <2>2 DEF occ
    <3> QED
      BY <1>1, <1>2, <1>4, <1>5, <2>1, <2>2, <3>1
  <2>4. /\ occ \in 0..B /\ from + t <= occ /\ (t = m \/ from + t = occ)
        /\ d + 1 < n => occ = B
        /\ d + 1 = n => size = dB + occ
        /\ dB + occ <= size
        /\ \A j \in 1..occ : blocks[i].memory[j] = file.data[dB + j]
    BY <1>5, <2>1, <2>2, <2>3 DEF occ
  <2>5. o + t <= size /\ t \in Nat /\ t <= m /\ t > 0
    <3>1. t \in Nat /\ t <= m /\ t > 0
      BY <1>2, <2>1
    <3>2. occ \in Nat
      BY <1>1, <2>4
    <3>3. from + t <= occ /\ dB + occ <= size /\ o = dB + from
      BY <1>3, <2>4
    <3>4. o + t <= size
      BY <1>1, <1>3, <3>1, <3>2, <3>3
    <3> QED
      BY <3>1, <3>4
  <2>6. RightPlace(file, next)
    <3>1. CASE t = m
      <4>1. next[3] = 0
        BY <1>2, <2>1, <3>1
      <4> QED
        BY <2>1, <2>5, <4>1 DEF RightPlace, size
    <3>2. CASE from + t = occ /\ d + 1 = n
      <4>1. o + t = size /\ i + 1 = n + 1
        BY <1>1, <1>2, <1>3, <2>2, <2>4, <2>5, <3>2
      <4> QED
        BY <2>1, <2>5, <4>1 DEF RightPlace, size, n, blocks
    <3>3. CASE from + t = occ /\ d + 1 < n
      <4> DEFINE a == o + t
      <4>1. a = dB + B /\ a \in Nat
        <5>1. occ = B /\ from + t = occ /\ o = dB + from
          BY <1>3, <2>4, <3>3
        <5> QED
          BY <1>1, <1>3, <2>5, <5>1
      <4>2. (d + 1) * B = dB + B
        BY <1>3, Multiples DEF dB, B
      <4> HIDE DEF a
      <4>3. a \div BLOCK_SIZE = d + 1
        <5> DEFINE e == a \div BLOCK_SIZE
                   r == a % BLOCK_SIZE
        <5>1. e \in Nat /\ r \in 0..(BLOCK_SIZE - 1) /\ a = e * BLOCK_SIZE + r
          BY <4>1, Division
        <5> HIDE DEF e, r
        <5>2. (d + 1) * BLOCK_SIZE = a /\ e * BLOCK_SIZE \in Int
          BY <4>1, <4>2, <5>1, Multiples DEF B
        <5>3. ~(e <= d)
          <6> SUFFICES ASSUME e <= d  PROVE FALSE
            OBVIOUS
          <6>1. e * BLOCK_SIZE <= dB
            BY <1>3, <5>1, Products DEF dB, B
          <6> QED
            BY <1>1, <1>3, <4>1, <5>1, <5>2, <6>1 DEF B
        <5>4. ~(e >= d + 2)
          <6> SUFFICES ASSUME e >= d + 2  PROVE FALSE
            OBVIOUS
          <6> DEFINE f == d + 2
          <6>1. f \in Int /\ f <= e
            BY <1>3
          <6>2. (d + 2) * BLOCK_SIZE = (d + 1) * BLOCK_SIZE + BLOCK_SIZE
            BY <1>1, <1>3 DEF B
          <6> HIDE DEF f
          <6>3. f * BLOCK_SIZE <= e * BLOCK_SIZE
            BY <5>1, <6>1, Products
          <6>4. a + B <= e * BLOCK_SIZE
            BY <5>2, <6>2, <6>3 DEF f, B
          <6> QED
            BY <1>1, <4>1, <5>1, <5>2, <6>4 DEF B
        <5>5. e = d + 1
          BY <1>3, <5>1, <5>3, <5>4
        <5> QED
          BY <5>5 DEF e
      <4>4. next[1] = next[2] \div BLOCK_SIZE + 1
        BY <2>1, <2>2, <4>3 DEF a
      <4> QED
        BY <2>1, <2>5, <4>4 DEF RightPlace, size
    <3> QED
      BY <1>1, <1>3, <2>1, <2>2, <2>4, <3>1, <3>2, <3>3
  <2>7. ReadEnd(file, next) = ReadEnd(file, p)
    <3>1. (o + t) + (m - t) = o + m
      BY <1>2, <2>5
    <3>2. next[2] + next[3] = p[2] + p[3]
      BY <2>1, <3>1 DEF o, m
    <3> QED
      BY <3>2 DEF ReadEnd
  <2>8. o + t <= ReadEnd(file, p)
    BY <1>1, <1>2, <1>7, <2>5
  <2>9. ASSUME NEW x \in 1..t  PROVE  Part(blocks, p)[x] = file.data[o + x]
    <3>1. from + x \in 1..occ /\ dB + (from + x) = o + x
      BY <1>1, <1>3, <2>4, <2>5
    <3>2. blocks[i].memory[from + x] = file.data[dB + (from + x)]
      BY <2>4, <3>1
    <3> QED
      BY <2>1, <3>1, <3>2
  <2> QED
    BY <2>6, <2>7, <2>8, <2>9
<1> QED
  BY <1>8, <1>9

(* A read from a right place returns the bytes of the file from there on,  *)
(* as many as are wanted and there.                                        *)
LEMMA ReadLoopExact ==
  ASSUME NEW file \in FileRecords, Exact(file),
         NEW p \in ReadPlaces, RightPlace(file, p)
  PROVE  ReadsRight(file, p)
<1> DEFINE blocks == file.blocks
           copy == ReadLoop(blocks)
           Q == {q \in ReadPlaces : RightPlace(file, q) => ReadsRight(file, q)}
<1>1. blocks \in Seq(Block) /\ file.size \in Nat
  BY DEF FileRecords
<1>2. ASSUME NEW r \in ReadPlaces, \A q \in ReadPlaces : q[3] < r[3] => q \in Q
      PROVE  r \in Q
  <2> SUFFICES ASSUME RightPlace(file, r)  PROVE ReadsRight(file, r)
    OBVIOUS
  <2> DEFINE o == r[2]
             e == ReadEnd(file, r)
  <2>1. o \in Nat /\ r[3] \in Nat /\ e \in Nat
    <3>1. r[2] \in Nat /\ r[3] \in Nat
      BY DEF ReadPlaces
    <3> QED
      BY <1>1, <3>1 DEF ReadEnd, Smaller
  <2>2. CASE Stops(blocks, r)
    <3>1. copy[r] = <<>> /\ e = o
      BY <1>1, <2>2, ReadLoopProperties, RightTurn
    <3>2. Len(copy[r]) = 0
      BY <3>1
    <3> HIDE DEF o, e
    <3>3. e - o = 0
      BY <2>1, <3>1
    <3> QED
      BY <3>2, <3>3 DEF ReadsRight, o, e
  <2>3. CASE ~Stops(blocks, r)
    <3> DEFINE q == NextPlace(blocks, r)
               t == Taken(blocks, r)
               part == Part(blocks, r)
    <3>1. /\ q \in ReadPlaces /\ q[2] = o + t /\ q[3] = r[3] - t
          /\ t \in 1..r[3]
          /\ part \in Seq(Bytes) /\ Len(part) = t
      BY <1>1, <2>3, TurnProperties
    <3>2. copy[r] = part \o copy[q] /\ copy[q] \in Seq(Bytes)
      BY <1>1, <2>3, <3>1, ReadLoopProperties
    <3>3. /\ RightPlace(file, q) /\ ReadEnd(file, q) = e
          /\ o + t <= e
          /\ \A x \in 1..t : part[x] = file.data[o + x]
      BY <2>3, RightTurn
    <3> HIDE DEF q, t, part, o, e, copy
    <3>4. q[3] < r[3] /\ t \in Nat
      BY <2>1, <3>1
    <3>5. ReadsRight(file, q)
      BY <1>2, <3>1, <3>3, <3>4
    <3>6. /\ Len(copy[q]) = e - (o + t)
          /\ \A x \in 1..(e - (o + t)) : copy[q][x] = file.data[(o + t) + x]
      BY <3>1, <3>3, <3>5 DEF ReadsRight, copy, blocks
    <3>7. /\ Len(part \o copy[q]) = Len(part) + Len(copy[q])
          /\ \A x \in 1..(Len(part) + Len(copy[q])) :
               (part \o copy[q])[x] =
                 IF x <= Len(part) THEN part[x] ELSE copy[q][x - Len(part)]
      <4> DEFINE tail == copy[q]
      <4>1. part \in Seq(Bytes) /\ tail \in Seq(Bytes)
        BY <3>1, <3>2
      <4> HIDE DEF tail
      <4>2. /\ Len(part \o tail) = Len(part) + Len(tail)
            /\ \A x \in 1..(Len(part) + Len(tail)) :
                 (part \o tail)[x] = IF x <= Len(part) THEN part[x] ELSE tail[x - Len(part)]
        BY <4>1, ConcatProperties
      <4> QED
        BY <4>2 DEF tail
    <3>8. t + (e - (o + t)) = e - o
      BY <2>1, <3>4
    <3>9. Len(copy[r]) = e - o
      BY <3>1, <3>2, <3>6, <3>7, <3>8
    <3>10. ASSUME NEW x \in 1..(e - o)  PROVE  copy[r][x] = file.data[o + x]
      <4>1. x \in 1..(Len(part) + Len(copy[q]))
        BY <3>1, <3>6, <3>8
      <4>2. copy[r][x] = IF x <= t THEN part[x] ELSE copy[q][x - t]
        BY <3>1, <3>2, <3>7, <4>1
      <4>3. CASE x <= t
        <5>1. x \in 1..t
          BY <3>4, <4>3
        <5> QED
          BY <3>3, <4>2, <4>3, <5>1
      <4>4. CASE ~(x <= t)
        <5>1. x - t \in 1..(e - (o + t)) /\ (o + t) + (x - t) = o + x
          BY <2>1, <3>4, <4>4
        <5>2. copy[q][x - t] = file.data[o + x]
          BY <3>6, <5>1
        <5> QED
          BY <4>2, <4>4, <5>2
      <4> QED
        BY <4>3, <4>4
    <3> QED
      BY <3>9, <3>10 DEF ReadsRight, o, e, copy, blocks
  <2> QED
    BY <2>2, <2>3
<1> HIDE DEF Q
<1>3. ReadPlaces \subseteq Q
  BY <1>2, PlaceInduction
<1> QED
  BY <1>3 DEF Q

-----------------------------------------------------------------------------
(* ufs_read.                                                               *)

(* A read gives bytes, as many as are wanted at most, and does not go      *)
(* behind the last block: the offset stays where there are blocks.         *)
LEMMA ReadBytesProperties ==
  ASSUME NEW blocks \in Seq(Block), NEW size \in Nat, NEW offset \in Nat, NEW n \in Nat
  PROVE  LET read == ReadBytes(blocks, size, offset, n) IN
         /\ read \in Seq(Bytes)
         /\ Len(read) \in 0..n
         /\ offset <= Len(blocks) * BLOCK_SIZE =>
              offset + Len(read) <= Len(blocks) * BLOCK_SIZE
<1> DEFINE read == ReadBytes(blocks, size, offset, n)
           d == offset \div BLOCK_SIZE
           p == <<d + 1, offset, n>>
           copy == ReadLoop(blocks)
<1>1. CASE offset >= size
  <2>1. read = <<>>
    BY <1>1 DEF ReadBytes
  <2>2. <<>> \in Seq(Bytes) /\ Len(<<>>) = 0
    BY EmptySeq
  <2> QED
    BY <2>1, <2>2
<1>2. CASE ~(offset >= size)
  <2>1. read = copy[p]
    BY <1>2 DEF ReadBytes
  <2>2. d \in Nat /\ offset = d * BLOCK_SIZE + (offset % BLOCK_SIZE)
        /\ offset % BLOCK_SIZE \in 0..(BLOCK_SIZE - 1)
    BY Division
  <2>3. p \in ReadPlaces /\ p[1] = d + 1 /\ p[2] = offset /\ p[3] = n
    BY <2>2 DEF ReadPlaces
  <2>4. offset < (d + 1) * BLOCK_SIZE
    <3> DEFINE r == offset % BLOCK_SIZE
               e == d * BLOCK_SIZE
    <3>1. (d + 1) * BLOCK_SIZE = e + BLOCK_SIZE /\ e \in Int
      <4>1. d \in Int
        BY <2>2
      <4> HIDE DEF d
      <4> QED
        BY <4>1, Multiples
    <3>2. offset = e + r /\ r \in 0..(BLOCK_SIZE - 1)
      BY <2>2
    <3> HIDE DEF d, e, r
    <3> QED
      BY <3>1, <3>2, BlockSizeType
  <2> HIDE DEF read, d, p, copy
  <2>5. copy[p] \in Seq(Bytes) /\ Len(copy[p]) \in 0..n
    BY <2>3, ReadLoopProperties, ReadLength DEF copy
  <2>6. offset <= Len(blocks) * BLOCK_SIZE =>
          offset + Len(copy[p]) <= Len(blocks) * BLOCK_SIZE
    BY <2>3, <2>4, ReadStaysInside DEF copy
  <2> QED
    BY <2>1, <2>5, <2>6 DEF read
<1> QED
  BY <1>1, <1>2

(* A read of a file that only got bytes at its end returns them, from      *)
(* wherever it starts, and stops at the end of the file.                   *)
LEMMA ReadBytesExact ==
  ASSUME NEW file \in FileRecords, Exact(file), NEW offset \in Nat, NEW n \in Nat
  PROVE  ReadBytes(file.blocks, file.size, offset, n) =
           SubSeq(file.data, offset + 1, Smaller(offset + n, Len(file.data)))
<1> DEFINE blocks == file.blocks
           data == file.data
           size == file.size
           read == ReadBytes(blocks, size, offset, n)
           e == Smaller(offset + n, Len(data))
           s == SubSeq(data, offset + 1, e)
           d == offset \div BLOCK_SIZE
           p == <<d + 1, offset, n>>
<1>1. blocks \in Seq(Block) /\ data \in Seq(Byte) /\ size \in Nat /\ Len(data) = size
  BY DEF FileRecords, Exact
<1>2. e = IF offset + n < size THEN offset + n ELSE size
  BY <1>1 DEF Smaller
<1>3. read \in Seq(Bytes)
  <2> HIDE DEF blocks, size
  <2> QED
    BY <1>1, ReadBytesProperties
<1> HIDE DEF e, data, size
<1>4. e \in Nat /\ e <= size
  BY <1>1, <1>2
<1>5. /\ s \in Seq(Bytes)
      /\ Len(s) = IF offset + 1 <= e THEN e - offset ELSE 0
      /\ \A x \in 1..(e - offset) : s[x] = data[offset + x]
  <2>1. \A x \in (offset + 1)..e : data[x] \in Bytes
    <3>1. \A x \in (offset + 1)..e : x \in 1..Len(data)
      BY <1>1, <1>4
    <3> QED
      BY <1>1, <3>1, ElementOfSeq DEF Bytes
  <2>2. data \in Seq(Bytes)
    BY <1>1, SeqMonotonic DEF Bytes
  <2>3. /\ s \in Seq(Bytes)
        /\ Len(s) = IF offset + 1 <= e THEN e - (offset + 1) + 1 ELSE 0
        /\ \A x \in 1..(e - (offset + 1) + 1) : s[x] = data[(offset + 1) + x - 1]
    <3>1. offset + 1 \in Int /\ e \in Int
      BY <1>4
    <3> QED
      BY <2>1, <2>2, <3>1, SubSeqProperties
  <2> HIDE DEF s
  <2>4. ASSUME NEW x \in 1..(e - offset)  PROVE  s[x] = data[offset + x]
    <3>1. x \in 1..(e - (offset + 1) + 1) /\ (offset + 1) + x - 1 = offset + x
      BY <1>4
    <3> QED
      BY <2>3, <3>1
  <2>5. e - (offset + 1) + 1 = e - offset
    BY <1>4
  <2> QED
    BY <2>3, <2>4, <2>5
<1> HIDE DEF s
<1>6. CASE offset >= size
  <2>1. read = <<>> /\ Len(read) = 0
    BY <1>6 DEF ReadBytes
  <2>2. Len(s) = 0
    BY <1>1, <1>4, <1>5, <1>6
  <2>3. s = <<>>
    BY <1>5, <2>2, EmptySeq
  <2> QED
    BY <2>1, <2>3 DEF blocks, size, s, data, e
<1>7. CASE ~(offset >= size)
  <2>1. read = ReadLoop(file.blocks)[p]
    BY <1>7 DEF ReadBytes
  <2>2. d \in Nat
    BY Division
  <2>3. p \in ReadPlaces /\ p[1] = d + 1 /\ p[2] = offset /\ p[3] = n
    BY <2>2 DEF ReadPlaces
  <2> HIDE DEF p, read
  <2>4. RightPlace(file, p)
    <3>1. offset <= size
      BY <1>1, <1>7
    <3> QED
      BY <2>3, <3>1 DEF RightPlace, size, d
  <2>5. ReadsRight(file, p)
    BY <2>3, <2>4, ReadLoopExact
  <2>6. ReadEnd(file, p) = e
    BY <1>1, <2>3 DEF ReadEnd, e, size, data
  <2>7. /\ Len(read) = e - offset
        /\ \A x \in 1..(e - offset) : read[x] = data[offset + x]
    BY <2>1, <2>3, <2>5, <2>6 DEF ReadsRight, data
  <2>8. Len(s) = e - offset
    BY <1>1, <1>2, <1>4, <1>5, <1>7
  <2>9. read = s
    <3>1. \A x \in 1..Len(read) : read[x] = s[x]
      BY <1>5, <2>7
    <3> QED
      BY <1>3, <1>5, <2>7, <2>8, <3>1, SeqEqual
  <2> QED
    BY <2>9 DEF read, s, e, data, size
<1> QED
  BY <1>6, <1>7

=============================================================================
