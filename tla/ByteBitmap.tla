----------------------------- MODULE ByteBitmap -----------------------------
(***************************************************************************)
(* bitmap.h: one of the two bitmaps as the array of bytes it is, and the   *)
(* copies of that array that write_bitmaps and read_bitmaps make to and    *)
(* from a block.  FileSystem and CommandSteps know a bitmap only as the    *)
(* set of its bits that are set; ByteBitmapProofs shows that every method  *)
(* does to that set what they say it does.                                 *)
(*                                                                         *)
(* A byte is the function from its bit numbers to their values, so that a  *)
(* shift by index % 8 and a mask are an application and an EXCEPT.  An     *)
(* index that validate refuses is in no theorem: the exception leaves the  *)
(* array as it was.                                                        *)
(***************************************************************************)
EXTENDS FirstFree

CONSTANTS num_bits, BLOCK_SIZE, UINT32_MAX

num_bytes == (num_bits + 7) \div 8

(* The bitmap fits the block that is its home, and the value that says      *)
(* nothing is free is no index.                                             *)
Fits == /\ num_bits \in Nat /\ BLOCK_SIZE \in Nat /\ UINT32_MAX \in Nat
        /\ num_bytes <= BLOCK_SIZE
        /\ num_bits <= UINT32_MAX

Bits      == 0 .. num_bits - 1
BitOfByte == 0 .. 7
Bytes     == [BitOfByte -> BOOLEAN]
ByteIdx   == 0 .. num_bytes - 1
Images    == [ByteIdx -> Bytes]

NullByte == [b \in BitOfByte |-> FALSE]
Blank    == [k \in ByteIdx |-> NullByte]     \* the constructor and clear_all

Test(data, i)  == data[i \div 8][i % 8]
Set(data, i)   == [data EXCEPT ![i \div 8][i % 8] = TRUE]
Clear(data, i) == [data EXCEPT ![i \div 8][i % 8] = FALSE]

(* The loop of allocate_first_free, from index i on, without its set.       *)
Search(data) ==
  LET from[i \in 0 .. num_bits] == IF i = num_bits THEN UINT32_MAX
                                   ELSE IF Test(data, i) THEN from[i + 1]
                                   ELSE i
  IN  from

AllocateFirstFree(data) ==
  LET i == Search(data)[0]
  IN  [index |-> i, data |-> IF i = UINT32_MAX THEN data ELSE Set(data, i)]

(* The loop of free_count, over the indices below i.                        *)
Counted(data) ==
  LET below[i \in 0 .. num_bits] ==
        IF i = 0 THEN 0
        ELSE IF Test(data, i - 1) THEN below[i - 1] ELSE below[i - 1] + 1
  IN  below
FreeCount(data) == Counted(data)[num_bits]

(* Pass 2 of fsck over the indices below i: a bit that differs from the     *)
(* reference is set or cleared.                                             *)
Corrected(data, ref) ==
  LET below[i \in 0 .. num_bits] ==
        IF i = 0 THEN data
        ELSE IF Test(below[i - 1], i - 1) = Test(ref, i - 1) THEN below[i - 1]
        ELSE IF Test(ref, i - 1) THEN Set(below[i - 1], i - 1)
        ELSE Clear(below[i - 1], i - 1)
  IN  below
Compared(data, ref) == Corrected(data, ref)[num_bits]

(* The copies in write_bitmaps, into a zeroed block, and in read_bitmaps.   *)
Blocks == [0 .. BLOCK_SIZE - 1 -> Bytes]
ToBlock(data)    == [k \in 0 .. BLOCK_SIZE - 1 |->
                       IF k < num_bytes THEN data[k] ELSE NullByte]
FromBlock(block) == [k \in ByteIdx |-> block[k]]

-----------------------------------------------------------------------------
(* What FileSystem takes a bitmap for, and the bits of the last byte that   *)
(* belong to no index.                                                      *)
Allocated(data) == {i \in Bits : Test(data, i)}
Padding(data)   == {i \in num_bits .. 8 * num_bytes - 1 : Test(data, i)}

=============================================================================
