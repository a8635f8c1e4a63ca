-------------------------- MODULE ByteBitmapProofs --------------------------
(* The bytes of bitmap.h implement a set of bits: theorems for every number *)
(* of bits, every block that can hold them and every array.                 *)
EXTENDS ByteBitmap, FiniteSetTheorems, NatLemmas, TLAPS

-----------------------------------------------------------------------------
(* Arithmetic.                                                              *)

(* An index has its own place among the bytes and no other index has it.    *)
LEMMA Place ==
  ASSUME Fits, NEW i \in 0 .. 8 * num_bytes - 1
  PROVE  /\ i \div 8 \in ByteIdx
         /\ i % 8 \in BitOfByte
         /\ i = 8 * (i \div 8) + (i % 8)
BY DEF Fits, num_bytes, ByteIdx, BitOfByte

LEMMA PlaceOf ==
  ASSUME Fits, NEW k \in ByteIdx, NEW b \in BitOfByte
  PROVE  /\ 8 * k + b \in 0 .. 8 * num_bytes - 1
         /\ (8 * k + b) \div 8 = k
         /\ (8 * k + b) % 8 = b
BY DEF Fits, num_bytes, ByteIdx, BitOfByte

(* Every index lies in the array, with at most seven bits of padding.       *)
LEMMA Room ==
  ASSUME Fits
  PROVE  /\ num_bytes \in Nat
         /\ num_bits <= 8 * num_bytes
         /\ 8 * num_bytes <= num_bits + 7
         /\ Bits \subseteq 0 .. 8 * num_bytes - 1
BY DEF Fits, num_bytes, Bits

-----------------------------------------------------------------------------
(* One bit.                                                                 *)

LEMMA TestType ==
  ASSUME Fits, NEW data \in Images, NEW i \in 0 .. 8 * num_bytes - 1
  PROVE  Test(data, i) \in BOOLEAN
<1>1. data[i \div 8] \in Bytes
  BY Place DEF Images
<1> QED BY <1>1, Place DEF Bytes, Test

(* Writing one bit leaves every other bit of the array as it was.           *)
LEMMA SetBit ==
  ASSUME Fits, NEW data \in Images, NEW i \in Bits
  PROVE  /\ Set(data, i) \in Images
         /\ \A j \in 0 .. 8 * num_bytes - 1 :
              Test(Set(data, i), j) = IF j = i THEN TRUE ELSE Test(data, j)
<1>1. i \in 0 .. 8 * num_bytes - 1
  BY Room
<1>2. i \div 8 \in ByteIdx /\ i % 8 \in BitOfByte
  BY <1>1, Place
<1>3. Set(data, i) \in Images
  BY <1>2 DEF Images, Bytes, Set
<1>4. ASSUME NEW j \in 0 .. 8 * num_bytes - 1
      PROVE  Test(Set(data, i), j) = IF j = i THEN TRUE ELSE Test(data, j)
  <2>1. j \div 8 \in ByteIdx /\ j % 8 \in BitOfByte
    BY Place
  <2>2. j = i <=> j \div 8 = i \div 8 /\ j % 8 = i % 8
    BY <1>1, Place
  <2> QED BY <1>2, <2>1, <2>2 DEF Images, Bytes, Set, Test
<1> QED BY <1>3, <1>4

LEMMA ClearBit ==
  ASSUME Fits, NEW data \in Images, NEW i \in Bits
  PROVE  /\ Clear(data, i) \in Images
         /\ \A j \in 0 .. 8 * num_bytes - 1 :
              Test(Clear(data, i), j) = IF j = i THEN FALSE ELSE Test(data, j)
<1>1. i \in 0 .. 8 * num_bytes - 1
  BY Room
<1>2. i \div 8 \in ByteIdx /\ i % 8 \in BitOfByte
  BY <1>1, Place
<1>3. Clear(data, i) \in Images
  BY <1>2 DEF Images, Bytes, Clear
<1>4. ASSUME NEW j \in 0 .. 8 * num_bytes - 1
      PROVE  Test(Clear(data, i), j) = IF j = i THEN FALSE ELSE Test(data, j)
  <2>1. j \div 8 \in ByteIdx /\ j % 8 \in BitOfByte
    BY Place
  <2>2. j = i <=> j \div 8 = i \div 8 /\ j % 8 = i % 8
    BY <1>1, Place
  <2> QED BY <1>2, <2>1, <2>2 DEF Images, Bytes, Clear, Test
<1> QED BY <1>3, <1>4

(* Two arrays with the same bits are the same array.                        *)
LEMMA SameBits ==
  ASSUME Fits, NEW d \in Images, NEW e \in Images,
         \A i \in 0 .. 8 * num_bytes - 1 : Test(d, i) = Test(e, i)
  PROVE  d = e
<1>1. ASSUME NEW k \in ByteIdx, NEW b \in BitOfByte
      PROVE  d[k][b] = e[k][b]
  BY <1>1, PlaceOf DEF Test
<1> QED BY <1>1 DEF Images, Bytes

(* set adds the bit to the set, clear takes it out; neither touches the     *)
(* padding.                                                                 *)
THEOREM BitmapSetClear ==
  ASSUME Fits, NEW data \in Images, NEW i \in Bits
  PROVE  /\ Allocated(Set(data, i)) = Allocated(data) \cup {i}
         /\ Allocated(Clear(data, i)) = Allocated(data) \ {i}
         /\ Padding(Set(data, i)) = Padding(data)
         /\ Padding(Clear(data, i)) = Padding(data)
<1> DEFINE Pads == num_bits .. 8 * num_bytes - 1
<1>1. Bits \subseteq 0 .. 8 * num_bytes - 1 /\ Pads \subseteq 0 .. 8 * num_bytes - 1
  BY Room DEF Fits
<1>2. i \notin Pads
  BY DEF Bits, Fits
<1>3. /\ Allocated(Set(data, i)) = Allocated(data) \cup {i}
      /\ Padding(Set(data, i)) = Padding(data)
  <2> HIDE DEF Pads
  <2>0. \A j \in 0 .. 8 * num_bytes - 1 :
          Test(Set(data, i), j) = IF j = i THEN TRUE ELSE Test(data, j)
    BY SetBit
  <2>1. ASSUME NEW j \in Bits
        PROVE  Test(Set(data, i), j) <=> (j = i \/ Test(data, j))
    <3>1. Test(Set(data, i), j) = IF j = i THEN TRUE ELSE Test(data, j)
      BY <1>1, <2>0
    <3> QED BY <3>1, Zenon
  <2>2. ASSUME NEW j \in Pads
        PROVE  Test(Set(data, i), j) = Test(data, j)
    BY <1>1, <1>2, <2>0
  <2> QED BY <2>1, <2>2 DEF Allocated, Padding, Pads
<1>4. /\ Allocated(Clear(data, i)) = Allocated(data) \ {i}
      /\ Padding(Clear(data, i)) = Padding(data)
  <2> HIDE DEF Pads
  <2>0. \A j \in 0 .. 8 * num_bytes - 1 :
          Test(Clear(data, i), j) = IF j = i THEN FALSE ELSE Test(data, j)
    BY ClearBit
  <2>1. ASSUME NEW j \in Bits
        PROVE  Test(Clear(data, i), j) <=> (j # i /\ Test(data, j))
    <3>1. Test(Clear(data, i), j) = IF j = i THEN FALSE ELSE Test(data, j)
      BY <1>1, <2>0
    <3> QED BY <3>1, Zenon
  <2>2. ASSUME NEW j \in Pads
        PROVE  Test(Clear(data, i), j) = Test(data, j)
    BY <1>1, <1>2, <2>0
  <2> QED BY <2>1, <2>2 DEF Allocated, Padding, Pads
<1> QED BY <1>3, <1>4

LEMMA SameTruth ==
  ASSUME NEW a \in BOOLEAN, NEW b \in BOOLEAN, a <=> b
  PROVE  a = b
OBVIOUS

(* An array without padding bits is determined by the set it stands for,    *)
(* what write_bitmaps writes and read_bitmaps reads back is that array, and *)
(* every block, whatever it holds, reads as some array.                     *)
THEOREM BitmapIsItsSet ==
  ASSUME Fits
  PROVE  /\ \A d, e \in Images :
              Allocated(d) = Allocated(e) /\ Padding(d) = Padding(e) => d = e
         /\ \A d \in Images : ToBlock(d) \in Blocks /\ FromBlock(ToBlock(d)) = d
         /\ \A block \in Blocks : FromBlock(block) \in Images
         /\ Blank \in Images /\ Allocated(Blank) = {} /\ Padding(Blank) = {}
<1>1. ASSUME NEW d \in Images, NEW e \in Images,
             Allocated(d) = Allocated(e), Padding(d) = Padding(e)
      PROVE  d = e
  <2>1. ASSUME NEW i \in 0 .. 8 * num_bytes - 1
        PROVE  Test(d, i) = Test(e, i)
    <3>1. Test(d, i) <=> Test(e, i)
      <4>1. CASE i \in Bits
        BY <1>1, <4>1 DEF Allocated
      <4>2. CASE i \notin Bits
        <5>1. i \in num_bits .. 8 * num_bytes - 1
          BY <4>2, Room DEF Bits, Fits
        <5> QED BY <1>1, <5>1 DEF Padding
      <4> QED BY <4>1, <4>2
    <3>2. Test(d, i) \in BOOLEAN /\ Test(e, i) \in BOOLEAN
      BY TestType
    <3> QED BY <3>1, <3>2, SameTruth
  <2> QED BY <2>1, SameBits
<1>2. NullByte \in Bytes
  BY DEF NullByte, Bytes
<1>3. ByteIdx \subseteq 0 .. BLOCK_SIZE - 1 /\ \A k \in ByteIdx : k < num_bytes
  BY Room DEF Fits, ByteIdx
<1>4. ASSUME NEW k \in 0 .. BLOCK_SIZE - 1, k < num_bytes
      PROVE  k \in ByteIdx
  BY <1>4, Room DEF ByteIdx, Fits
<1>5. ASSUME NEW d \in Images
      PROVE  ToBlock(d) \in Blocks /\ FromBlock(ToBlock(d)) = d
  BY <1>2, <1>3, <1>4 DEF Images, ToBlock, FromBlock, Blocks
<1>6. \A block \in Blocks : FromBlock(block) \in Images
  BY <1>3 DEF FromBlock, Blocks, Images
<1>7. Blank \in Images /\ Allocated(Blank) = {} /\ Padding(Blank) = {}
  <2>1. Blank \in Images
    BY <1>2 DEF Blank, Images
  <2>2. \A i \in 0 .. 8 * num_bytes - 1 : ~ Test(Blank, i)
    BY Place DEF Blank, NullByte, Test
  <2>3. \A i \in num_bits .. 8 * num_bytes - 1 : i \in 0 .. 8 * num_bytes - 1
    BY Room DEF Fits
  <2> QED BY <2>1, <2>2, <2>3, Room DEF Allocated, Padding
<1> QED BY <1>1, <1>5, <1>6, <1>7

-----------------------------------------------------------------------------
(* The loops.  Each is a recursive function: it exists because a function   *)
(* that says directly what the loop computes satisfies its equation, and    *)
(* every function that does is that one.                                    *)

FreeFrom(data, i) == {j \in i .. num_bits - 1 : ~ Test(data, j)}
FirstFrom(data)   ==
  [i \in 0 .. num_bits |->
     IF FreeFrom(data, i) = {} THEN UINT32_MAX
     ELSE CHOOSE x \in FreeFrom(data, i) : \A y \in FreeFrom(data, i) : x <= y]

LEMMA FirstFromStep ==
  ASSUME Fits, NEW data, NEW i \in 0 .. num_bits
  PROVE  FirstFrom(data)[i] = IF i = num_bits THEN UINT32_MAX
                              ELSE IF Test(data, i) THEN FirstFrom(data)[i + 1]
                              ELSE i
<1>1. CASE i = num_bits
  <2>1. FreeFrom(data, i) = {}
    BY <1>1 DEF FreeFrom, Fits
  <2> QED BY <1>1, <2>1 DEF FirstFrom
<1>2. CASE i # num_bits /\ Test(data, i)
  <2>1. i + 1 \in 0 .. num_bits
    BY <1>2 DEF Fits
  <2>2. FreeFrom(data, i) = FreeFrom(data, i + 1)
    BY <1>2 DEF FreeFrom, Fits
  <2> QED BY <1>2, <2>1, <2>2 DEF FirstFrom
<1>3. CASE i # num_bits /\ ~ Test(data, i)
  <2>1. i \in FreeFrom(data, i) /\ \A y \in FreeFrom(data, i) : i <= y /\ y \in Int
    BY <1>3 DEF FreeFrom, Fits
  <2>2. \A x \in FreeFrom(data, i) :
          (\A y \in FreeFrom(data, i) : x <= y) => x = i
    BY <2>1
  <2>3. (CHOOSE x \in FreeFrom(data, i) : \A y \in FreeFrom(data, i) : x <= y) = i
    BY <2>1, <2>2
  <2> QED BY <1>3, <2>1, <2>3 DEF FirstFrom
<1> QED BY <1>1, <1>2, <1>3

LEMMA SearchFinds ==
  ASSUME Fits, NEW data
  PROVE  \A i \in 0 .. num_bits : Search(data)[i] = FirstFrom(data)[i]
<1> DEFINE Step(f) == [i \in 0 .. num_bits |->
                         IF i = num_bits THEN UINT32_MAX
                         ELSE IF Test(data, i) THEN f[i + 1]
                         ELSE i]
           F == FirstFrom(data)
           S == Search(data)
<1>1. F = Step(F)
  <2>1. F = [i \in 0 .. num_bits |-> F[i]]
    BY DEF FirstFrom
  <2>2. \A i \in 0 .. num_bits :
          F[i] = IF i = num_bits THEN UINT32_MAX
                 ELSE IF Test(data, i) THEN F[i + 1]
                 ELSE i
    BY FirstFromStep
  <2> HIDE DEF F
  <2> QED BY <2>1, <2>2
<1>2. S = CHOOSE f : f = Step(f)
  BY DEF Search
<1>3. S = Step(S)
  <2> HIDE DEF F, S, Step
  <2> QED BY <1>1, <1>2
<1>4. \A i \in 0 .. num_bits :
        S[i] = IF i = num_bits THEN UINT32_MAX
               ELSE IF Test(data, i) THEN S[i + 1]
               ELSE i
  <2> HIDE DEF F, S
  <2> QED BY <1>3
<1>5. \A i \in 0 .. num_bits :
        F[i] = IF i = num_bits THEN UINT32_MAX
               ELSE IF Test(data, i) THEN F[i + 1]
               ELSE i
  BY FirstFromStep
<1> HIDE DEF F, S, Step
<1>6. num_bits \in Nat /\ S[num_bits] = F[num_bits]
  BY <1>4, <1>5 DEF Fits
<1>7. \A i \in 0 .. num_bits - 1 : S[i + 1] = F[i + 1] => S[i] = F[i]
  BY <1>4, <1>5 DEF Fits
<1>8. \A i \in 0 .. num_bits : S[i] = F[i]
  BY <1>6, <1>7, AgreeDown
<1> QED BY <1>8 DEF S, F

(* allocate_first_free sets the least free bit and returns its index, which *)
(* is what FileSystem takes it to do; with nothing free it returns          *)
(* UINT32_MAX and leaves the array alone.                                   *)
THEOREM BitmapFirstFree ==
  ASSUME Fits, NEW data \in Images
  PROVE  LET got  == AllocateFirstFree(data)
             free == Bits \ Allocated(data)
         IN  /\ free = {} => got.index = UINT32_MAX /\ got.data = data
             /\ free # {} => /\ got.index \in LeastOf(free)
                             /\ got.index # UINT32_MAX
                             /\ Allocated(got.data) = Allocated(data) \cup {got.index}
             /\ got.data \in Images
             /\ Padding(got.data) = Padding(data)
<1> DEFINE free == Bits \ Allocated(data)
           i    == Search(data)[0]
<1>1. FreeFrom(data, 0) = free
  BY DEF FreeFrom, Bits, Allocated
<1>2. i = IF free = {} THEN UINT32_MAX
          ELSE CHOOSE x \in free : \A y \in free : x <= y
  <2>1. 0 \in 0 .. num_bits
    BY DEF Fits
  <2>2. i = FirstFrom(data)[0]
    BY <2>1, SearchFinds
  <2>3. FirstFrom(data)[0] =
          IF FreeFrom(data, 0) = {} THEN UINT32_MAX
          ELSE CHOOSE x \in FreeFrom(data, 0) : \A y \in FreeFrom(data, 0) : x <= y
    BY <2>1 DEF FirstFrom
  <2> HIDE DEF free, i
  <2> QED BY <1>1, <2>2, <2>3
<1>3. free \subseteq Bits /\ free \subseteq Nat
  BY DEF Bits, Fits
<1>4. AllocateFirstFree(data) = [index |-> i,
                                 data |-> IF i = UINT32_MAX THEN data ELSE Set(data, i)]
  BY DEF AllocateFirstFree
<1> HIDE DEF free, i
<1>5. CASE free = {}
  <2>1. i = UINT32_MAX
    BY <1>2, <1>5
  <2>2. AllocateFirstFree(data).index = UINT32_MAX /\ AllocateFirstFree(data).data = data
    BY <1>4, <2>1
  <2> QED BY <1>5, <2>2 DEF free
<1>6. CASE free # {}
  <2>1. \E x \in free : \A y \in free : x <= y
    BY <1>3, <1>6, LeastNat
  <2>2. i \in free /\ \A y \in free : i <= y
    BY <1>2, <1>6, <2>1
  <2>3. i \in Bits /\ i # UINT32_MAX
    BY <1>3, <2>2 DEF Bits, Fits
  <2>4. AllocateFirstFree(data).index = i /\ AllocateFirstFree(data).data = Set(data, i)
    BY <1>4, <2>3
  <2>5. i \in LeastOf(free)
    BY <2>2 DEF LeastOf
  <2>6. Set(data, i) \in Images
    BY <2>3, SetBit
  <2>7. Allocated(Set(data, i)) = Allocated(data) \cup {i} /\ Padding(Set(data, i)) = Padding(data)
    BY <2>3, BitmapSetClear
  <2> QED BY <1>6, <2>3, <2>4, <2>5, <2>6, <2>7 DEF free
<1> QED BY <1>5, <1>6

-----------------------------------------------------------------------------
FreeBelow(data, i) == {j \in 0 .. i - 1 : ~ Test(data, j)}
SizesBelow(data)   == [i \in 0 .. num_bits |-> Cardinality(FreeBelow(data, i))]

LEMMA SizesBelowStep ==
  ASSUME Fits, NEW data, NEW i \in 0 .. num_bits
  PROVE  SizesBelow(data)[i] =
           IF i = 0 THEN 0
           ELSE IF Test(data, i - 1) THEN SizesBelow(data)[i - 1]
           ELSE SizesBelow(data)[i - 1] + 1
<1>1. CASE i = 0
  <2>1. FreeBelow(data, i) = {}
    BY <1>1 DEF FreeBelow
  <2> QED BY <1>1, <2>1, FS_EmptySet DEF SizesBelow
<1>2. CASE i # 0
  <2>1. i - 1 \in 0 .. num_bits /\ i \in Int
    BY <1>2 DEF Fits
  <2>2. IsFiniteSet(FreeBelow(data, i - 1))
    <3>1. FreeBelow(data, i - 1) \in SUBSET (0 .. i - 2)
      BY <2>1 DEF FreeBelow
    <3>2. IsFiniteSet(0 .. i - 2)
      BY <2>1, FS_Interval
    <3> QED BY <3>1, <3>2, FS_Subset
  <2>3. CASE Test(data, i - 1)
    <3>1. FreeBelow(data, i) = FreeBelow(data, i - 1)
      BY <2>1, <2>3 DEF FreeBelow
    <3> QED BY <1>2, <2>1, <2>3, <3>1 DEF SizesBelow
  <2>4. CASE ~ Test(data, i - 1)
    <3>1. FreeBelow(data, i) = FreeBelow(data, i - 1) \cup {i - 1}
      BY <1>2, <2>1, <2>4 DEF FreeBelow
    <3>2. i - 1 \notin FreeBelow(data, i - 1)
      BY <2>1 DEF FreeBelow
    <3>3. Cardinality(FreeBelow(data, i)) = Cardinality(FreeBelow(data, i - 1)) + 1
      BY <2>2, <3>1, <3>2, FS_AddElement
    <3> QED BY <1>2, <2>1, <2>4, <3>3 DEF SizesBelow
  <2> QED BY <2>3, <2>4
<1> QED BY <1>1, <1>2

(* free_count is the number of elements missing from the set, padding not   *)
(* counted.                                                                 *)
THEOREM BitmapFreeCount ==
  ASSUME Fits, NEW data \in Images
  PROVE  FreeCount(data) = Cardinality(Bits \ Allocated(data))
<1> DEFINE Step(f) == [i \in 0 .. num_bits |->
                         IF i = 0 THEN 0
                         ELSE IF Test(data, i - 1) THEN f[i - 1] ELSE f[i - 1] + 1]
           W == SizesBelow(data)
           C == Counted(data)
<1>1. \A i \in 0 .. num_bits :
        W[i] = IF i = 0 THEN 0
               ELSE IF Test(data, i - 1) THEN W[i - 1] ELSE W[i - 1] + 1
  BY SizesBelowStep
<1>2. W = [i \in 0 .. num_bits |-> W[i]]
  BY DEF SizesBelow
<1>3. W = Step(W)
  <2> HIDE DEF W
  <2> QED BY <1>1, <1>2
<1>4. C = CHOOSE f : f = Step(f)
  BY DEF Counted
<1>5. C = Step(C)
  <2> HIDE DEF W, C, Step
  <2> QED BY <1>3, <1>4
<1>6. \A i \in 0 .. num_bits :
        C[i] = IF i = 0 THEN 0
               ELSE IF Test(data, i - 1) THEN C[i - 1] ELSE C[i - 1] + 1
  <2> HIDE DEF W, C
  <2> QED BY <1>5
<1>7. FreeCount(data) = C[num_bits]
  BY DEF FreeCount
<1>8. W[num_bits] = Cardinality(Bits \ Allocated(data))
  <2>1. FreeBelow(data, num_bits) = Bits \ Allocated(data)
    BY DEF FreeBelow, Bits, Allocated
  <2>2. num_bits \in 0 .. num_bits
    BY DEF Fits
  <2> QED BY <2>1, <2>2 DEF SizesBelow
<1> HIDE DEF W, C, Step
<1>9. C[0] = W[0] /\ num_bits \in Nat
  BY <1>1, <1>6 DEF Fits
<1>10. ASSUME NEW i \in 0 .. num_bits - 1, C[i] = W[i]
       PROVE  C[i + 1] = W[i + 1]
  <2>1. i + 1 \in 0 .. num_bits /\ i + 1 # 0 /\ (i + 1) - 1 = i
    BY DEF Fits
  <2> QED BY <1>1, <1>6, <1>10, <2>1
<1>11. \A i \in 0 .. num_bits : C[i] = W[i]
  BY <1>9, <1>10, AgreeUp
<1>12. C[num_bits] = W[num_bits]
  BY <1>9, <1>11
<1> QED BY <1>7, <1>8, <1>12

-----------------------------------------------------------------------------
Mixed(data, ref, i) ==
  [k \in ByteIdx |-> [b \in BitOfByte |-> IF 8 * k + b < i THEN ref[k][b] ELSE data[k][b]]]
MixedUpTo(data, ref) == [i \in 0 .. num_bits |-> Mixed(data, ref, i)]

LEMMA MixedBits ==
  ASSUME Fits, NEW data \in Images, NEW ref \in Images, NEW i \in 0 .. num_bits
  PROVE  /\ Mixed(data, ref, i) \in Images
         /\ \A j \in 0 .. 8 * num_bytes - 1 :
              Test(Mixed(data, ref, i), j) = IF j < i THEN Test(ref, j) ELSE Test(data, j)
<1>1. Mixed(data, ref, i) \in Images
  BY DEF Mixed, Images, Bytes
<1>2. ASSUME NEW j \in 0 .. 8 * num_bytes - 1
      PROVE  Test(Mixed(data, ref, i), j) = IF j < i THEN Test(ref, j) ELSE Test(data, j)
  BY Place DEF Mixed, Test
<1> QED BY <1>1, <1>2

LEMMA MixedStep ==
  ASSUME Fits, NEW data \in Images, NEW ref \in Images, NEW i \in 1 .. num_bits
  PROVE  LET was == Mixed(data, ref, i - 1)
         IN  Mixed(data, ref, i) =
               IF Test(was, i - 1) = Test(ref, i - 1) THEN was
               ELSE IF Test(ref, i - 1) THEN Set(was, i - 1)
               ELSE Clear(was, i - 1)
<1> DEFINE was == Mixed(data, ref, i - 1)
           now == Mixed(data, ref, i)
<1>1. i - 1 \in Bits /\ i - 1 \in 0 .. num_bits /\ i \in 0 .. num_bits
  BY DEF Bits, Fits
<1>2. was \in Images /\ now \in Images
  BY <1>1, MixedBits
<1>3. i - 1 \in 0 .. 8 * num_bytes - 1
  BY <1>1, Room
<1>4. \A j \in 0 .. 8 * num_bytes - 1 :
        Test(now, j) = IF j = i - 1 THEN Test(ref, j) ELSE Test(was, j)
  <2>1. ASSUME NEW j \in 0 .. 8 * num_bytes - 1
        PROVE  Test(now, j) = IF j = i - 1 THEN Test(ref, j) ELSE Test(was, j)
    <3>1. Test(now, j) = IF j < i THEN Test(ref, j) ELSE Test(data, j)
      BY <1>1, MixedBits
    <3>2. Test(was, j) = IF j < i - 1 THEN Test(ref, j) ELSE Test(data, j)
      BY <1>1, MixedBits
    <3>3. j < i <=> j < i - 1 \/ j = i - 1
      BY <1>1, Room
    <3> QED BY <3>1, <3>2, <3>3
  <2> QED BY <2>1
<1> HIDE DEF was, now
<1>5. Test(ref, i - 1) \in BOOLEAN
  BY <1>3, TestType
<1>6. CASE Test(was, i - 1) = Test(ref, i - 1)
  <2>1. \A j \in 0 .. 8 * num_bytes - 1 : Test(now, j) = Test(was, j)
    BY <1>4, <1>6
  <2> QED BY <1>2, <1>6, <2>1, SameBits DEF was, now
<1>7. CASE Test(was, i - 1) # Test(ref, i - 1) /\ Test(ref, i - 1)
  <2>1. Test(ref, i - 1) = TRUE
    BY <1>5, <1>7
  <2>2. Set(was, i - 1) \in Images
    BY <1>1, <1>2, SetBit
  <2>3. \A j \in 0 .. 8 * num_bytes - 1 :
          Test(Set(was, i - 1), j) = IF j = i - 1 THEN TRUE ELSE Test(was, j)
    BY <1>1, <1>2, SetBit
  <2>4. \A j \in 0 .. 8 * num_bytes - 1 : Test(now, j) = Test(Set(was, i - 1), j)
    BY <1>4, <2>1, <2>3
  <2> QED BY <1>2, <1>7, <2>2, <2>4, SameBits DEF was, now
<1>8. CASE Test(was, i - 1) # Test(ref, i - 1) /\ ~ Test(ref, i - 1)
  <2>1. Test(ref, i - 1) = FALSE
    BY <1>5, <1>8
  <2>2. Clear(was, i - 1) \in Images
    BY <1>1, <1>2, ClearBit
  <2>3. \A j \in 0 .. 8 * num_bytes - 1 :
          Test(Clear(was, i - 1), j) = IF j = i - 1 THEN FALSE ELSE Test(was, j)
    BY <1>1, <1>2, ClearBit
  <2>4. \A j \in 0 .. 8 * num_bytes - 1 : Test(now, j) = Test(Clear(was, i - 1), j)
    BY <1>4, <2>1, <2>3
  <2> QED BY <1>2, <1>8, <2>2, <2>4, SameBits DEF was, now
<1> QED BY <1>6, <1>7, <1>8 DEF was, now

(* Pass 2 of fsck leaves the set its first pass has computed, and the       *)
(* padding that the array was read with.                                    *)
THEOREM BitmapCompared ==
  ASSUME Fits, NEW data \in Images, NEW ref \in Images
  PROVE  /\ Allocated(Compared(data, ref)) = Allocated(ref)
         /\ Padding(Compared(data, ref)) = Padding(data)
         /\ Compared(data, ref) \in Images
<1> DEFINE Next(was, i) == IF Test(was, i - 1) = Test(ref, i - 1) THEN was
                           ELSE IF Test(ref, i - 1) THEN Set(was, i - 1)
                           ELSE Clear(was, i - 1)
           Step(f) == [i \in 0 .. num_bits |-> IF i = 0 THEN data ELSE Next(f[i - 1], i)]
           M == MixedUpTo(data, ref)
           C == Corrected(data, ref)
<1>1. \A i \in 0 .. num_bits : M[i] = IF i = 0 THEN data ELSE Next(M[i - 1], i)
  <2>1. ASSUME NEW i \in 0 .. num_bits, i = 0
        PROVE  M[i] = data
    <3>1. M[i] = Mixed(data, ref, 0)
      BY <2>1 DEF MixedUpTo
    <3>2. Mixed(data, ref, 0) \in Images
      BY <2>1, MixedBits
    <3>3. \A j \in 0 .. 8 * num_bytes - 1 : Test(Mixed(data, ref, 0), j) = Test(data, j)
      BY <2>1, MixedBits
    <3>4. Mixed(data, ref, 0) = data
      BY <3>2, <3>3, SameBits
    <3> QED BY <3>1, <3>4
  <2>2. ASSUME NEW i \in 0 .. num_bits, i # 0
        PROVE  M[i] = Next(M[i - 1], i)
    <3>1. i \in 1 .. num_bits /\ i - 1 \in 0 .. num_bits
      BY <2>2 DEF Fits
    <3>2. M[i] = Mixed(data, ref, i) /\ M[i - 1] = Mixed(data, ref, i - 1)
      BY <3>1 DEF MixedUpTo
    <3>3. Mixed(data, ref, i) = Next(Mixed(data, ref, i - 1), i)
      BY <3>1, MixedStep
    <3> QED BY <3>2, <3>3
  <2> QED BY <2>1, <2>2
<1>2. M = [i \in 0 .. num_bits |-> M[i]]
  BY DEF MixedUpTo
<1>3. M = Step(M)
  <2> HIDE DEF M, Next
  <2> QED BY <1>1, <1>2
<1>4. C = CHOOSE f : f = Step(f)
  BY DEF Corrected
<1>5. C = Step(C)
  <2> HIDE DEF M, C, Step
  <2> QED BY <1>3, <1>4
<1>6. \A i \in 0 .. num_bits : C[i] = IF i = 0 THEN data ELSE Next(C[i - 1], i)
  <2> HIDE DEF C, Next
  <2> QED BY <1>5
<1>7. M[num_bits] = Mixed(data, ref, num_bits) /\ num_bits \in 0 .. num_bits
  BY DEF MixedUpTo, Fits
<1>8. Compared(data, ref) = C[num_bits]
  BY DEF Compared
<1> HIDE DEF M, C, Step, Next
<1>9. C[0] = M[0] /\ num_bits \in Nat
  BY <1>1, <1>6 DEF Fits
<1>10. ASSUME NEW i \in 0 .. num_bits - 1, C[i] = M[i]
       PROVE  C[i + 1] = M[i + 1]
  <2>1. i + 1 \in 0 .. num_bits /\ i + 1 # 0 /\ (i + 1) - 1 = i
    BY DEF Fits
  <2> QED BY <1>1, <1>6, <1>10, <2>1
<1>11. \A i \in 0 .. num_bits : C[i] = M[i]
  BY <1>9, <1>10, AgreeUp
<1>12. Compared(data, ref) = Mixed(data, ref, num_bits)
  BY <1>7, <1>8, <1>9, <1>11
<1>13. \A j \in Bits : j < num_bits /\ j \in 0 .. 8 * num_bytes - 1
  BY Room DEF Bits, Fits
<1>14. \A j \in num_bits .. 8 * num_bytes - 1 : ~ (j < num_bits) /\ j \in 0 .. 8 * num_bytes - 1
  BY Room DEF Fits
<1>15. \A j \in 0 .. 8 * num_bytes - 1 :
         Test(Compared(data, ref), j) = IF j < num_bits THEN Test(ref, j) ELSE Test(data, j)
  <2>1. \A j \in 0 .. 8 * num_bytes - 1 :
          Test(Mixed(data, ref, num_bits), j) =
            IF j < num_bits THEN Test(ref, j) ELSE Test(data, j)
    BY <1>7, MixedBits
  <2> QED BY <1>12, <2>1
<1>16. Compared(data, ref) \in Images
  BY <1>7, <1>12, MixedBits
<1>17. \A j \in Bits : Test(Compared(data, ref), j) = Test(ref, j)
  BY <1>13, <1>15
<1>18. \A j \in num_bits .. 8 * num_bytes - 1 : Test(Compared(data, ref), j) = Test(data, j)
  BY <1>14, <1>15
<1> QED BY <1>16, <1>17, <1>18 DEF Allocated, Padding

=============================================================================
