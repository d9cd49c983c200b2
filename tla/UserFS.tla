------------------------------- MODULE UserFS -------------------------------
(***************************************************************************)
(* The in-memory file system of src/homework-03/userfs.c.                  *)
(*                                                                         *)
(* The program is sequential: a step is one call of a function of          *)
(* userfs.h.  The list of blocks from first_block to last_block is a       *)
(* sequence, and so is the list of files.  malloc does not fail (the       *)
(* README of the homework allows that assumption).                         *)
(***************************************************************************)
EXTENDS Integers, Sequences, FiniteSets, Functions, SequencesExt

CONSTANTS
  Files,             \* addresses of struct file
  Names,             \* file names
  NULL,
  BLOCK_SIZE,
  MAX_FILE_SIZE,
  INITIAL_CAPACITY,  \* 10 in the code
  MAX_CAPACITY,      \* bounds of the model, not of the code: places in the
  MAX_BLOCKS,        \* table of descriptors, blocks of a file
  Flags,             \* arguments of ufs_open: sets of flags
  Buffers,           \* arguments of ufs_write: sequences of bytes
  ReadSizes,         \* arguments of ufs_read
  NewSizes,          \* arguments of ufs_resize
  JUNK               \* what malloc leaves in a byte

AllFlags == {"CREATE", "READ_ONLY", "WRITE_ONLY", "READ_WRITE"}

(* struct filedesc *)
FileDescs == [file : Files, open_flags : SUBSET AllFlags, offset : Nat]

ASSUME UserFSAssumption ==
  /\ NULL \notin Files
  /\ NULL \notin FileDescs
  /\ BLOCK_SIZE \in Nat \ {0}
  /\ MAX_FILE_SIZE \in Nat
  /\ INITIAL_CAPACITY \in Nat \ {0}
  /\ MAX_CAPACITY \in Nat
  /\ MAX_BLOCKS \in Nat
  /\ Flags \subseteq SUBSET AllFlags
  /\ Buffers \subseteq Seq(1..255)
  /\ ReadSizes \subseteq Nat
  /\ NewSizes \subseteq Nat
  /\ JUNK \notin 0..255

VARIABLES
  files,                  \* struct file by address; two fields are history:
                          \* data, the bytes the file should have, and
                          \* patched, whether a write or a resize has had to
                          \* change what a block held already
  file_list,
  file_descriptors,       \* the table, NULL in a free place; its length is
                          \* file_descriptor_capacity
  file_descriptor_used,
  ufs_error_code

vars == <<files, file_list, file_descriptors, file_descriptor_used, ufs_error_code>>
descriptors == <<file_descriptors, file_descriptor_used>>

FreeFile == [alive |-> FALSE, name |-> NULL, refs |-> 0, is_ghost |-> FALSE,
             size |-> 0, blocks |-> <<>>, data |-> <<>>, patched |-> FALSE]

Init ==
  /\ files = [f \in Files |-> FreeFile]
  /\ file_list = <<>>
  /\ file_descriptors = <<>>
  /\ file_descriptor_used = 0
  /\ ufs_error_code = "NO_ERR"

-----------------------------------------------------------------------------
(* Blocks.                                                                 *)

Smaller(m, n) == IF m < n THEN m ELSE n
Larger(m, n) == IF m > n THEN m ELSE n

BlockCount(size) == (size + BLOCK_SIZE - 1) \div BLOCK_SIZE

NewBlock(byte) == [occupied |-> 0, memory |-> [i \in 1..BLOCK_SIZE |-> byte]]

(* memcpy into a block, and the update of what is occupied. *)
PutBytes(block, from, bytes) ==
  [occupied |-> Larger(block.occupied, from + Len(bytes)),
   memory   |-> [i \in 1..BLOCK_SIZE |->
                   IF i - from \in DOMAIN bytes THEN bytes[i - from]
                   ELSE block.memory[i]]]

(* The loop of ufs_write.  The first bytes go into the block of the offset *)
(* if there is one that is not full, and otherwise into a new block at the *)
(* end of the file.  They end at a block boundary, where the block they    *)
(* went to is full, or there is nothing left: everything else goes into    *)
(* new blocks.                                                             *)
WriteBlocks(blocks, offset, buf) ==
  LET k == offset \div BLOCK_SIZE + 1
      from == offset % BLOCK_SIZE
      first == SubSeq(buf, 1, Smaller(Len(buf), BLOCK_SIZE - from))
      rest == SubSeq(buf, Len(first) + 1, Len(buf))
      Chunk(i) == SubSeq(rest, (i - 1) * BLOCK_SIZE + 1,
                         Smaller(i * BLOCK_SIZE, Len(rest)))
  IN (IF k \in DOMAIN blocks /\ blocks[k].occupied # BLOCK_SIZE
      THEN [blocks EXCEPT ![k] = PutBytes(@, from, first)]
      ELSE Append(blocks, PutBytes(NewBlock(JUNK), from, first)))
     \o [i \in 1..BlockCount(Len(rest)) |-> PutBytes(NewBlock(JUNK), 0, Chunk(i))]

(* A turn of the loop of ufs_read, at place p: m bytes are wanted, and      *)
(* block i is entered where the offset o has got to in a block.  A block   *)
(* that ends there or before is taken for the end of the file.             *)
ReadTurn(blocks, copy, p) ==
  LET i == p[1]
      o == p[2]
      m == p[3]
      from == o % BLOCK_SIZE
      last == Smaller(blocks[i].occupied, from + m)
  IN IF i \notin DOMAIN blocks \/ m = 0 \/ from >= blocks[i].occupied
     THEN <<>>
     ELSE SubSeq(blocks[i].memory, from + 1, last)
            \o copy[<<i + 1, o + last - from, m - (last - from)>>]

ReadPlaces == Nat \X Nat \X Nat

ReadLoop(blocks) ==
  LET copy[p \in ReadPlaces] == ReadTurn(blocks, copy, p) IN copy

(* The bytes that ufs_read copies, n at most.                              *)
ReadBytes(blocks, size, offset, n) ==
  IF offset >= size THEN <<>>
  ELSE ReadLoop(blocks)[<<offset \div BLOCK_SIZE + 1, offset, n>>]

(* Variant: no special case for a size that ends with a block. *)
LastOccupiedModulo(size) == size % BLOCK_SIZE

LastOccupied(size) == IF size % BLOCK_SIZE = 0 THEN BLOCK_SIZE ELSE size % BLOCK_SIZE

SetLastOccupied(blocks, n) ==
  IF blocks = <<>> THEN blocks ELSE [blocks EXCEPT ![Len(blocks)].occupied = n]

(* As many blocks go as the sizes differ by. *)
ShrinkBlocks(blocks, size, new_size) ==
  SetLastOccupied(
    SubSeq(blocks, 1, Len(blocks) - (BlockCount(size) - BlockCount(new_size))),
    LastOccupied(new_size))

(* New blocks are zeroed by calloc; the one before a new block is full. *)
GrowBlocks(blocks, size, new_size) ==
  LET new == BlockCount(new_size) - BlockCount(size)
      Full(b) == [b EXCEPT !.occupied = BLOCK_SIZE]
  IN SetLastOccupied(
       (IF new = 0 THEN blocks ELSE SetLastOccupied(blocks, BLOCK_SIZE))
         \o [i \in 1..new |-> Full(NewBlock(0))],
       LastOccupied(new_size))

-----------------------------------------------------------------------------
(* Files and descriptors.                                                  *)

Fail(error) ==
  /\ ufs_error_code' = error
  /\ UNCHANGED <<files, file_list, descriptors>>

(* The first file of the list that is not deleted and has the name. *)
Matches(i, filename) ==
  ~files[file_list[i]].is_ghost /\ files[file_list[i]].name = filename

Find(filename) ==
  IF \E i \in DOMAIN file_list : Matches(i, filename)
  THEN file_list[CHOOSE i \in DOMAIN file_list :
                   /\ Matches(i, filename)
                   /\ \A j \in 1..(i - 1) : ~Matches(j, filename)]
  ELSE NULL

IsOpen(fd) == fd \in DOMAIN file_descriptors /\ file_descriptors[fd] # NULL

MayWrite(fd) == file_descriptors[fd].open_flags \cap {"WRITE_ONLY", "READ_WRITE"} # {}
MayRead(fd) == file_descriptors[fd].open_flags \cap {"READ_ONLY", "READ_WRITE"} # {}

(* The table with room for one more descriptor. *)
Table ==
  LET cap == Len(file_descriptors) IN
  CASE cap = 0 -> [i \in 1..INITIAL_CAPACITY |-> NULL]
    [] cap > 0 /\ file_descriptor_used < cap -> file_descriptors
    [] cap > 0 /\ file_descriptor_used >= cap ->
         file_descriptors \o [i \in 1..cap |-> NULL]

(* Variant: a place is free behind as many as are used. *)
PlaceBehindUsed == file_descriptor_used + 1

(* The place for a new descriptor: behind the used ones if the table is    *)
(* enlarged, and the lowest free one otherwise; 0 if none is found.        *)
Place ==
  IF Table # file_descriptors /\ file_descriptors # <<>>
  THEN file_descriptor_used + 1
  ELSE IF \E i \in DOMAIN Table : Table[i] = NULL
  THEN CHOOSE i \in DOMAIN Table :
         Table[i] = NULL /\ \A j \in 1..(i - 1) : Table[j] # NULL
  ELSE 0

(* Without an access flag a file is opened for both. *)
AccessFlags(flags) ==
  IF flags \cap {"READ_ONLY", "WRITE_ONLY"} = {} THEN flags \cup {"READ_WRITE"} ELSE flags

(* The second half of ufs_open, for file f of the list. *)
OpenDescriptor(f, list, record, flags) ==
  /\ Len(Table) <= MAX_CAPACITY
  /\ file_list' = list
  /\ IF Place = 0
     THEN /\ ufs_error_code' = "NOT_IMPLEMENTED"
          /\ files' = [files EXCEPT ![f] = record]
          /\ file_descriptors' = Table
          /\ UNCHANGED file_descriptor_used
     ELSE /\ files' = [files EXCEPT ![f] = [record EXCEPT !.refs = @ + 1]]
          /\ file_descriptors' =
               [Table EXCEPT ![Place] = [file |-> f, open_flags |-> AccessFlags(flags),
                                         offset |-> 0]]
          /\ file_descriptor_used' = file_descriptor_used + 1
          /\ UNCHANGED ufs_error_code

ufs_open(filename, flags) ==
  \/ /\ Find(filename) # NULL
     /\ OpenDescriptor(Find(filename), file_list, files[Find(filename)], flags)
  \/ /\ Find(filename) = NULL
     /\ "CREATE" \notin flags
     /\ Fail("NO_FILE")
  \/ /\ Find(filename) = NULL
     /\ "CREATE" \in flags
     /\ \E f \in Files :
          /\ ~files[f].alive
          /\ OpenDescriptor(f, <<f>> \o file_list,
               [FreeFile EXCEPT !.alive = TRUE, !.name = filename], flags)

(* What the bytes of a file should be after a write. *)
WriteData(data, offset, buf) ==
  [i \in 1..Larger(Len(data), offset + Len(buf)) |->
     IF i - offset \in DOMAIN buf THEN buf[i - offset]
     ELSE IF i \in DOMAIN data THEN data[i] ELSE 0]

(* The write starts behind the full blocks of the file, so that all of it  *)
(* belongs into the last block, if that has room, and into new ones.       *)
AtTheEnd(file, offset) ==
  \A i \in DOMAIN file.blocks :
    i > offset \div BLOCK_SIZE => /\ i = Len(file.blocks)
                                 /\ file.blocks[i].occupied # BLOCK_SIZE

(* The limit is tested on the size of the file, wherever the offset is. *)
TooBig(fd, buf) ==
  files[file_descriptors[fd].file].size + Len(buf) > MAX_FILE_SIZE

ufs_write(fd, buf) ==
  \/ ~IsOpen(fd) /\ Fail("NO_FILE")
  \/ IsOpen(fd) /\ ~MayWrite(fd) /\ Fail("NO_PERMISSION")
  \/ /\ IsOpen(fd) /\ MayWrite(fd) /\ buf # <<>> /\ TooBig(fd, buf)
     /\ Fail("NO_MEM")
  \/ /\ IsOpen(fd) /\ MayWrite(fd) /\ buf # <<>> /\ ~TooBig(fd, buf)
     /\ LET desc == file_descriptors[fd]
            end == desc.offset + Len(buf)
            file == files[desc.file]
        IN /\ Len(WriteBlocks(file.blocks, desc.offset, buf)) <= MAX_BLOCKS
           /\ files' = [files EXCEPT ![desc.file] =
                [file EXCEPT !.blocks = WriteBlocks(@, desc.offset, buf),
                             !.size = Larger(@, end),
                             !.data = WriteData(@, desc.offset, buf),
                             !.patched = @ \/ ~AtTheEnd(file, desc.offset)]]
           /\ file_descriptors' = [file_descriptors EXCEPT ![fd].offset = end]
     /\ UNCHANGED <<file_list, file_descriptor_used, ufs_error_code>>

ufs_read(fd, n) ==
  \/ ~IsOpen(fd) /\ Fail("NO_FILE")
  \/ IsOpen(fd) /\ ~MayRead(fd) /\ Fail("NO_PERMISSION")
  \/ /\ IsOpen(fd) /\ MayRead(fd)
     /\ LET file == files[file_descriptors[fd].file] IN
        file_descriptors' = [file_descriptors EXCEPT ![fd].offset =
          @ + Len(ReadBytes(file.blocks, file.size, @, n))]
     /\ UNCHANGED <<files, file_list, file_descriptor_used, ufs_error_code>>

(* _ufs_unlink_file *)
Unlink(f) == RemoveAt(file_list, CHOOSE i \in DOMAIN file_list : file_list[i] = f)

(* Variants: closing twice counts twice; the counter is forgotten; a       *)
(* deleted file is not freed with its last descriptor.                     *)
CloseTwice(fd) ==
  /\ fd \in DOMAIN file_descriptors
  /\ file_descriptors' = [file_descriptors EXCEPT ![fd] = NULL]
  /\ file_descriptor_used' = file_descriptor_used - 1
  /\ files' = IF IsOpen(fd)
              THEN [files EXCEPT ![file_descriptors[fd].file].refs = @ - 1]
              ELSE files
  /\ UNCHANGED <<file_list, ufs_error_code>>

CloseUncounted(fd) ==
  /\ IsOpen(fd)
  /\ files' = [files EXCEPT ![file_descriptors[fd].file].refs = @ - 1]
  /\ file_descriptors' = [file_descriptors EXCEPT ![fd] = NULL]
  /\ UNCHANGED <<file_list, file_descriptor_used, ufs_error_code>>

CloseKeepsGhost(fd) ==
  /\ IsOpen(fd)
  /\ files' = [files EXCEPT ![file_descriptors[fd].file].refs = @ - 1]
  /\ file_descriptors' = [file_descriptors EXCEPT ![fd] = NULL]
  /\ file_descriptor_used' = file_descriptor_used - 1
  /\ UNCHANGED <<file_list, ufs_error_code>>

ufs_close(fd) ==
  \/ ~IsOpen(fd) /\ Fail("NO_FILE")
  \/ /\ IsOpen(fd)
     /\ LET f == file_descriptors[fd].file IN
        IF files[f].refs <= 1 /\ files[f].is_ghost
        THEN /\ files' = [files EXCEPT ![f] = FreeFile]
             /\ file_list' = Unlink(f)
        ELSE /\ files' = [files EXCEPT ![f].refs = @ - 1]
             /\ UNCHANGED file_list
     /\ file_descriptors' = [file_descriptors EXCEPT ![fd] = NULL]
     /\ file_descriptor_used' = file_descriptor_used - 1
     /\ UNCHANGED ufs_error_code

(* Variant: the file is freed although descriptors refer to it. *)
DeleteAtOnce(filename) ==
  LET f == Find(filename) IN
  /\ f # NULL
  /\ files' = [files EXCEPT ![f] = FreeFile]
  /\ file_list' = Unlink(f)
  /\ UNCHANGED <<descriptors, ufs_error_code>>

ufs_delete(filename) ==
  LET f == Find(filename) IN
  \/ f = NULL /\ Fail("NO_FILE")
  \/ /\ f # NULL
     /\ IF files[f].refs <= 0
        THEN /\ files' = [files EXCEPT ![f] = FreeFile]
             /\ file_list' = Unlink(f)
        ELSE /\ files' = [files EXCEPT ![f].is_ghost = TRUE]
             /\ UNCHANGED file_list
     /\ UNCHANGED <<descriptors, ufs_error_code>>

(* Variant: the offsets stay where they are. *)
KeepOffsets(f, new_size) == file_descriptors

(* Descriptors of the file behind its new end move to the end. *)
ClipOffsets(f, new_size) ==
  [i \in DOMAIN file_descriptors |->
     IF file_descriptors[i] # NULL /\ file_descriptors[i].file = f
     THEN [file_descriptors[i] EXCEPT !.offset = Smaller(@, new_size)]
     ELSE file_descriptors[i]]

ShrinkFile(f, new_size) ==
  LET kept == ShrinkBlocks(files[f].blocks, files[f].size, new_size) IN
  /\ new_size < files[f].size
  /\ files' = [files EXCEPT
       ![f].blocks = kept,
       ![f].size = IF kept = <<>> THEN 0 ELSE new_size,
       ![f].data = SubSeq(@, 1, new_size)]
  /\ file_descriptors' = ClipOffsets(f, new_size)
  /\ UNCHANGED <<file_list, file_descriptor_used, ufs_error_code>>

GrowFile(f, new_size) ==
  /\ new_size > files[f].size
  /\ new_size <= MAX_FILE_SIZE
  /\ files' = [files EXCEPT
       ![f].blocks = GrowBlocks(@, files[f].size, new_size),
       ![f].size = new_size,
       ![f].data = @ \o [i \in 1..(new_size - Len(@)) |-> 0],
       ![f].patched = @ \/ files[f].size % BLOCK_SIZE # 0]
  /\ UNCHANGED <<file_list, descriptors, ufs_error_code>>

(* Any descriptor will do.  A new size equal to the old changes nothing. *)
ufs_resize(fd, new_size) ==
  \/ ~IsOpen(fd) /\ Fail("NO_FILE")
  \/ /\ IsOpen(fd)
     /\ LET f == file_descriptors[fd].file IN
        \/ ShrinkFile(f, new_size)
        \/ GrowFile(f, new_size)
        \/ /\ new_size > files[f].size
           /\ new_size > MAX_FILE_SIZE
           /\ Fail("NO_MEM")

(* Everything is freed; only the error code stays. *)
ufs_destroy ==
  /\ files' = [f \in Files |-> FreeFile]
  /\ file_list' = <<>>
  /\ file_descriptors' = <<>>
  /\ file_descriptor_used' = 0
  /\ UNCHANGED ufs_error_code

Next ==
  \/ \E filename \in Names :
       \/ \E flags \in Flags : ufs_open(filename, flags)
       \/ ufs_delete(filename)
  \/ \E fd \in 0..(MAX_CAPACITY + 1) :
       \/ \E buf \in Buffers : ufs_write(fd, buf)
       \/ \E n \in ReadSizes : ufs_read(fd, n)
       \/ ufs_close(fd)
       \/ \E new_size \in NewSizes : ufs_resize(fd, new_size)
  \/ ufs_destroy

Spec == Init /\ [][Next]_vars

-----------------------------------------------------------------------------
(* Properties.                                                             *)

Byte == 0..255

Block == [occupied : 0..BLOCK_SIZE, memory : [1..BLOCK_SIZE -> Byte \cup {JUNK}]]

FileRecords == [alive : BOOLEAN, name : Names \cup {NULL}, refs : Nat, is_ghost : BOOLEAN,
                size : Nat, blocks : Seq(Block), data : Seq(Byte), patched : BOOLEAN]

(* Every file, descriptor and counter keeps the type of its declaration,   *)
(* and no block is marked as holding more than BLOCK_SIZE bytes.           *)
TypeOK ==
  /\ files \in [Files -> FileRecords]
  /\ file_list \in Seq(Files)
  /\ file_descriptors \in Seq(FileDescs \cup {NULL})
  /\ file_descriptor_used \in Nat
  /\ ufs_error_code \in {"NO_ERR", "NO_FILE", "NO_MEM", "NO_PERMISSION",
                         "NOT_IMPLEMENTED"}

(* The descriptors in the table that belong to file f. *)
DescriptorsOf(f) == {fd \in DOMAIN file_descriptors :
                       IsOpen(fd) /\ file_descriptors[fd].file = f}

(* The count of references by which ufs_close and ufs_delete decide to     *)
(* free a file is the number of open descriptors on it, for files of the   *)
(* list and for deleted ones alike, and no descriptor is left on a file    *)
(* that has been freed.                                                    *)
RefsExact ==
  \A f \in Files :
    /\ files[f].refs = Cardinality(DescriptorsOf(f))
    /\ DescriptorsOf(f) # {} => files[f].alive

(* file_descriptor_used counts the descriptors: ufs_open always finds a    *)
(* place when the counter says so ("it MUST be", userfs.c:214), and        *)
(* enlarges the table only when it is full.                                *)
UsedExact ==
  /\ file_descriptor_used = Cardinality({fd \in DOMAIN file_descriptors : IsOpen(fd)})
  /\ Place # 0

(* A file that is allocated is on the list once, and a deleted one only as *)
(* long as somebody has it open: "the file content will live until the     *)
(* last descriptor is closed" (userfs.h:120-121) and no longer.            *)
NoFileLost ==
  /\ IsInjective(file_list)
  /\ Range(file_list) = {f \in Files : files[f].alive}
  /\ \A f \in Files : files[f].is_ghost => files[f].refs > 0

(* The blocks of a file reach as far as its size and every offset on it:   *)
(* no walk along the list at userfs.c:277, 352 or 468 runs off its end,    *)
(* last_block is not NULL at 529, and the assertions at 482 and 483 hold.  *)
BlocksCover ==
  /\ \A f \in Files : files[f].size <= Len(files[f].blocks) * BLOCK_SIZE
  /\ \A fd \in DOMAIN file_descriptors :
       IsOpen(fd) =>
         LET desc == file_descriptors[fd]
         IN desc.offset <= Len(files[desc.file].blocks) * BLOCK_SIZE

(* No file that only got bytes at its end outgrows MAX_FILE_SIZE.  The     *)
(* limit at userfs.c:270 is tested on the size and not on the offset at    *)
(* which the write starts, so it bounds the file only as long as nobody's  *)
(* descriptor is left, or led by ufs_read, behind the end.                 *)
SizeBound ==
  \A f \in Files : ~files[f].patched => files[f].size <= MAX_FILE_SIZE

(* ufs_read returns the bytes that were written, in order, from wherever   *)
(* the descriptor stands, and stops at the end of the file.                *)
ReadsBack(fd) ==
  \A n \in ReadSizes :
    LET desc == file_descriptors[fd]
        file == files[desc.file]
    IN ReadBytes(file.blocks, file.size, desc.offset, n)
         = SubSeq(file.data, desc.offset + 1,
                  Smaller(desc.offset + n, Len(file.data)))

(* Every open descriptor reads back what was written to a file that only   *)
(* ever got bytes at its end, was cut off anywhere and was extended from   *)
(* the ends of blocks: the sums with block sizes in ufs_write, ufs_read    *)
(* and ufs_resize agree, for every place at which the parts meet.          *)
AppendedReadBack ==
  \A fd \in DOMAIN file_descriptors :
    IsOpen(fd) /\ ~files[file_descriptors[fd].file].patched => ReadsBack(fd)

(* The names, the open descriptors and the bytes that the blocks hold, as  *)
(* a caller of the file system knows them.                                 *)
NamedFiles ==
  [n \in Names |->
    {f \in Files : files[f].alive /\ ~files[f].is_ghost /\ files[f].name = n}]

OpenedFiles ==
  [fd \in {d \in DOMAIN file_descriptors : file_descriptors[d] # NULL} |->
    [file |-> file_descriptors[fd].file,
     rights |-> LET flags == file_descriptors[fd].open_flags IN
       {r \in {"READ_ONLY", "WRITE_ONLY"} : {r, "READ_WRITE"} \cap flags # {}},
     offset |-> file_descriptors[fd].offset]]

BytesHeld ==
  [f \in Files |-> ReadBytes(files[f].blocks, files[f].size, 0, files[f].size)]

Abstract == INSTANCE FileSystem WITH
  Descriptors <- 1..MAX_CAPACITY,
  named <- NamedFiles, opened <- OpenedFiles, content <- BytesHeld, error <- ufs_error_code

(* ufs_resize asks for no right: any descriptor resizes its file. *)
ResizedByAny ==
  \E fd \in 1..MAX_CAPACITY, new_size \in NewSizes : Abstract!ResizeFile(fd, new_size)

(* Every call is a step of the file system that userfs.h describes, or     *)
(* changes nothing of it: names stay "unique" (userfs.h:7-8), a new file   *)
(* under an old name does "not affect existing opened descriptors of the   *)
(* deleted file" (userfs.h:123-124), no descriptor is given out twice or   *)
(* loses its file or its position, nothing is written or read without the  *)
(* right to, and a call that fails changes nothing but the error code.     *)
(* The only exception is a resize through a descriptor that has no right   *)
(* to write, which does to the file what a resize does.                    *)
ImplementsButForResize ==
  Abstract!FSInit /\ [][Abstract!FSNext \/ ResizedByAny]_(Abstract!fsVars)

-----------------------------------------------------------------------------
(* Statements of the tests and the header that the code does not keep.     *)

(* With UFS_READ_ONLY "it is allowed to only read the file"                *)
(* (userfs.h:38-39), so ufs_resize does not change it either.              *)
ImplementsFileSystem == Abstract!FileSystemSpec

(* Every open descriptor reads back what was written, after overwriting    *)
(* ("overwrite" and "got the tail", test.c:141-143) and after growing,     *)
(* which makes "new empty blocks" (userfs.h:136), as well.                 *)
AllReadBack ==
  \A fd \in DOMAIN file_descriptors : IsOpen(fd) => ReadsBack(fd)
=============================================================================
