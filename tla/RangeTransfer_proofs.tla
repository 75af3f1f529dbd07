------------------------- MODULE RangeTransfer_proofs -------------------------
(***************************************************************************)
(* Proofs about the bytes of a transfer, for any size of the file, the     *)
(* chunks, the blocks and the bitmap bytes, and any number of calls.       *)
(***************************************************************************)
EXTENDS RangeTransfer, TLAPS, SequenceTheorems

\* A division rounds down.
LEMMA DivBound ==
    ASSUME NEW x \in Nat, NEW d \in Nat \ {0}
    PROVE  x \div d \in Nat /\ (x \div d) * d <= x /\ x < (x \div d + 1) * d
OBVIOUS

\* It keeps the order.
LEMMA DivMono ==
    ASSUME NEW x \in Nat, NEW y \in Nat, NEW d \in Nat \ {0}, x <= y
    PROVE  x \div d <= y \div d
OBVIOUS

\* How a number of elements is rounded up to whole blocks.
LEMMA DivShift ==
    ASSUME NEW x \in Nat, NEW d \in Nat \ {0}
    PROVE  (x + d) \div d = x \div d + 1
OBVIOUS

-----------------------------------------------------------------------------
\* The transfer of a whole file: what has been read are the first bytes of it,
\* and so is what has been written as long as no write() has failed.
FileInv ==
    /\ TypeOK /\ CleanCopy
    /\ \A i \in 1..Len(buffer) : buffer[i] = i
    /\ written <= size
    /\ IF full THEN 0 < errors ELSE -errors <= written
    /\ pc = "read" => written = 0 /\ file = <<>> /\ errors = 0
    /\ pc = "write" => Len(buffer) = size
    /\ pc = "write" /\ errors = 0 =>
         Len(file) = written /\ \A i \in 1..Len(file) : file[i] = i
    /\ pc # "done" => rc = "none"

\* The types of what is compared.
FileTypes ==
    /\ MaxSize \in Nat /\ Granularity \in Nat \ {0} /\ MaxErrors \in Nat
    /\ size \in Nat /\ 0 < size /\ size <= MaxSize
    /\ written \in Int /\ errors \in Nat /\ errors <= MaxErrors
    /\ Len(buffer) \in Nat /\ Len(buffer) <= size
    /\ Len(file) \in Nat

\* The invariant gives them.
LEMMA FileTyped == TypeOK => FileTypes
BY SizesAssumption DEF TypeOK, FileTypes

\* The smaller of two numbers.
LEMMA LeastOf ==
    ASSUME NEW a \in Int, NEW b \in Int
    PROVE  /\ Least(a, b) \in Int /\ Least(a, b) <= a /\ Least(a, b) <= b
           /\ Least(a, b) = a \/ Least(a, b) = b
BY DEF Least

\* A sequence that counts up from 1 goes on doing so.
LEMMA Counting ==
    ASSUME NEW V, NEW s \in Seq(V), NEW t \in Seq(V),
           \A i \in 1..Len(s) : s[i] = i,
           \A i \in 1..Len(t) : t[i] = Len(s) + i
    PROVE  /\ s \o t \in Seq(V) /\ Len(s \o t) = Len(s) + Len(t)
           /\ \A i \in 1..Len(s \o t) : (s \o t)[i] = i
<1>1. s \o t \in Seq(V) /\ Len(s \o t) = Len(s) + Len(t)
  OBVIOUS
<1>2. ASSUME NEW i \in 1..Len(s \o t) PROVE (s \o t)[i] = i
  <2>1. CASE i <= Len(s)
    BY <2>1
  <2>2. CASE i > Len(s)
    <3>1. i - Len(s) \in 1..Len(t) /\ (s \o t)[i] = t[i - Len(s)]
      BY <1>1, <2>2
    <3> QED BY <3>1
  <2> QED BY <2>1, <2>2
<1> QED BY <1>1, <1>2

\* A sequence that counts up to the size is the file.
LEMMA SourceIs ==
    ASSUME size \in Nat, size <= MaxSize, MaxSize \in Nat
    PROVE  /\ Source \in Seq(1..MaxSize) /\ Len(Source) = size
           /\ \A i \in 1..size : Source[i] = i
           /\ \A S : \A s \in Seq(S) :
                Len(s) = size /\ (\A i \in 1..size : s[i] = i) => s = Source
BY DEF Source

\* What a write() takes of the buffer.
LEMMA SliceIs ==
    ASSUME FileInv, pc = "write", NEW n \in Nat, NEW from \in Int, from + n <= size
    PROVE  /\ Slice(from, n) \in Seq(1..MaxSize \cup {Garbage})
           /\ Len(Slice(from, n)) = n
           /\ 0 <= from => \A i \in 1..n : Slice(from, n)[i] = from + i
<1>1. FileTypes /\ Len(buffer) = size /\ \A i \in 1..size : buffer[i] = i
  BY FileTyped DEF FileInv
<1> QED BY <1>1 DEF FileTypes, Slice

\* Every step of it keeps the invariant.
LEMMA FileStep ==
    ASSUME FileInv, Next
    PROVE  FileInv' /\ size' = size
<1>1. FileTypes /\ TypeOK /\ CleanCopy
  BY FileTyped DEF FileInv
<1>2. size' = size
  BY DEF Next, Step, ReadSmall, ReadChunk, ReadDone, WriteSmall, WriteChunk, WriteDone,
         StoreNotBegun, WriteChunkZero, WriteChunkFails, WriteChunkFailsAgain, Ended, vars
<1>3. Source' = Source
  BY <1>2 DEF Source
<1>4. ASSUME ReadSmall PROVE FileInv'
  <2>1. /\ Source \in Seq(1..MaxSize) /\ Len(Source) = size /\ \A i \in 1..size : Source[i] = i
    BY <1>1, SourceIs DEF FileTypes
  <2> QED BY <1>1, <1>4, <2>1 DEF ReadSmall, Finish, FileInv, TypeOK, CleanCopy
<1>5. ASSUME ReadChunk PROVE FileInv'
  <2>1. CASE Finish("BADFIO") /\ UNCHANGED buffer
    BY <1>5, <2>1 DEF ReadChunk, Finish, FileInv, TypeOK, CleanCopy
  <2>2. CASE \E inlen \in 1..Least(size - Len(buffer), Granularity) :
               /\ buffer' = buffer \o [i \in 1..inlen |-> Len(buffer) + i]
               /\ UNCHANGED <<pc, rc>>
    <3>1. PICK inlen \in 1..Least(size - Len(buffer), Granularity) :
               buffer' = buffer \o [i \in 1..inlen |-> Len(buffer) + i]
      BY <2>2
    <3>2. PICK more : more = [i \in 1..inlen |-> Len(buffer) + i]
      OBVIOUS
    <3>3. inlen \in Nat /\ Len(buffer) + inlen <= size
      <4>1. size - Len(buffer) \in Int /\ Granularity \in Int
        BY <1>1 DEF FileTypes
      <4>2. /\ Least(size - Len(buffer), Granularity) \in Int
            /\ Least(size - Len(buffer), Granularity) <= size - Len(buffer)
        BY ONLY <4>1, LeastOf
      <4> QED BY <1>1, <4>2 DEF FileTypes
    <3>4. more \in Seq(1..MaxSize) /\ Len(more) = inlen /\ \A i \in 1..inlen : more[i] = Len(buffer) + i
      BY <1>1, <3>2, <3>3 DEF FileTypes
    <3>5. buffer \in Seq(1..MaxSize) /\ \A i \in 1..Len(buffer) : buffer[i] = i
      BY <1>1 DEF FileInv, TypeOK
    <3>6. buffer' = buffer \o more
      BY <3>1, <3>2
    <3>7. /\ buffer' \in Seq(1..MaxSize) /\ Len(buffer') = Len(buffer) + inlen
          /\ \A i \in 1..Len(buffer') : buffer'[i] = i
      BY ONLY <3>3, <3>4, <3>5, <3>6, Counting
    <3> QED BY <1>1, <1>5, <2>2, <3>3, <3>7 DEF ReadChunk, FileInv, TypeOK, CleanCopy, FileTypes
  <2> QED BY <1>5, <2>1, <2>2 DEF ReadChunk
<1>6. ASSUME ReadDone PROVE FileInv'
  BY <1>1, <1>6 DEF ReadDone, FileInv, TypeOK, CleanCopy, FileTypes
<1>7. ASSUME StoreNotBegun PROVE FileInv'
  BY <1>1, <1>7 DEF StoreNotBegun, Finish, FileInv, TypeOK, CleanCopy
<1>8. ASSUME WriteSmall PROVE FileInv'
  <2>1. PICK n \in 0..size : file' = Slice(0, n) /\ Finish(IF n = size THEN "OK" ELSE "BADFIO")
    BY <1>8 DEF WriteSmall
  <2>2. /\ file' \in Seq(1..MaxSize \cup {Garbage}) /\ Len(file') = n
        /\ \A i \in 1..n : file'[i] = i
    <3>1. n \in Nat /\ 0 + n <= size /\ 0 \in Int /\ pc = "write"
      BY <1>1, <1>8 DEF WriteSmall, FileTypes
    <3>2. /\ Slice(0, n) \in Seq(1..MaxSize \cup {Garbage}) /\ Len(Slice(0, n)) = n
          /\ 0 <= 0 => \A i \in 1..n : Slice(0, n)[i] = 0 + i
      BY <3>1, SliceIs
    <3> QED BY <2>1, <3>1, <3>2
  <2>3. n = size => file' = Source
    BY <1>1, <2>2, SourceIs DEF FileTypes
  <2> QED BY <1>1, <1>3, <1>8, <2>1, <2>2, <2>3 DEF WriteSmall, Finish, FileInv, TypeOK, CleanCopy
<1>9. ASSUME WriteChunk PROVE FileInv'
  <2>1. PICK n \in 1..Least(size - written, Granularity) :
          file' = file \o Slice(written, n) /\ written' = written + n
    BY <1>9 DEF WriteChunk
  <2>2. n \in Nat /\ written + n <= size
    <3>1. size - written \in Int /\ Granularity \in Int
      BY <1>1 DEF FileTypes
    <3>2. /\ Least(size - written, Granularity) \in Int
          /\ Least(size - written, Granularity) <= size - written
      BY ONLY <3>1, LeastOf
    <3> QED BY <1>1, <3>2 DEF FileTypes
  <2>3. PICK s : s = Slice(written, n)
    OBVIOUS
  <2>4. /\ s \in Seq(1..MaxSize \cup {Garbage}) /\ Len(s) = n
        /\ 0 <= written => \A i \in 1..n : s[i] = written + i
    BY <1>1, <1>9, <2>2, <2>3, SliceIs DEF WriteChunk, FileTypes
  <2>5. file' \in Seq(1..MaxSize \cup {Garbage})
    BY <1>1, <2>1, <2>3, <2>4 DEF TypeOK
  <2>6. errors = 0 => Len(file') = written' /\ \A i \in 1..Len(file') : file'[i] = i
    <3> SUFFICES ASSUME errors = 0
                 PROVE  Len(file') = written' /\ \A i \in 1..Len(file') : file'[i] = i
      OBVIOUS
    <3>1. Len(file) = written /\ \A i \in 1..Len(file) : file[i] = i
      BY <1>9 DEF WriteChunk, FileInv
    <3>2. file \in Seq(1..MaxSize \cup {Garbage}) /\ \A i \in 1..n : s[i] = Len(file) + i
      BY <1>1, <2>4, <3>1 DEF TypeOK, FileTypes
    <3>3. file' = file \o s
      BY <2>1, <2>3
    <3>4. \A i \in 1..Len(s) : s[i] = Len(file) + i
      BY <2>4, <3>2
    <3>5. /\ Len(file \o s) = Len(file) + Len(s)
          /\ \A i \in 1..Len(file \o s) : (file \o s)[i] = i
      BY ONLY <2>4, <3>1, <3>2, <3>4, Counting
    <3> QED BY <2>1, <2>4, <3>1, <3>3, <3>5
  <2>7. pc = "write" /\ ~full /\ rc = "none" /\ UNCHANGED <<pc, size, buffer, errors, full, rc>>
    BY <1>9 DEF WriteChunk, FileInv
  <2>8. written' \in (-MaxErrors)..MaxSize /\ written' <= size /\ -errors <= written'
    <3>1. -errors <= written
      BY <2>7 DEF FileInv
    <3> QED BY ONLY <1>1, <2>1, <2>2, <3>1 DEF FileTypes, TypeOK
  <2>9. TypeOK'
    BY ONLY <1>1, <2>5, <2>7, <2>8 DEF TypeOK
  <2>10. CleanCopy'
    BY <2>7 DEF CleanCopy
  <2>11. Len(buffer') = size' /\ \A i \in 1..Len(buffer') : buffer'[i] = i
    BY <2>7 DEF FileInv
  <2> QED BY ONLY <2>6, <2>7, <2>8, <2>9, <2>10, <2>11 DEF FileInv
<1>10. ASSUME WriteChunkZero PROVE FileInv'
  BY <1>1, <1>10 DEF WriteChunkZero, Finish, FileInv, TypeOK, CleanCopy, FileTypes
<1>11. ASSUME WriteChunkFails PROVE FileInv'
  BY <1>1, <1>11 DEF WriteChunkFails, FileInv, TypeOK, CleanCopy, FileTypes
<1>12. ASSUME WriteChunkFailsAgain PROVE FileInv'
  <2>1. 0 < errors /\ full' /\ 0 < errors' /\ errors' \in 0..MaxErrors
    BY <1>1, <1>12 DEF WriteChunkFailsAgain, FileInv, TypeOK, FileTypes
  <2>2. written' \in (-MaxErrors)..MaxSize /\ written' <= size
    BY <1>1, <1>12 DEF WriteChunkFailsAgain, TypeOK, FileTypes
  <2> QED BY <1>1, <1>12, <2>1, <2>2 DEF WriteChunkFailsAgain, FileInv, TypeOK, CleanCopy, FileTypes
<1>13. ASSUME WriteDone PROVE FileInv'
  <2>1. errors = 0 => file = Source
    BY <1>1, <1>13, SourceIs DEF WriteDone, FileInv, FileTypes, TypeOK
  <2> QED BY <1>1, <1>3, <1>13, <2>1 DEF WriteDone, Finish, FileInv, TypeOK, CleanCopy
<1>14. ASSUME Ended PROVE FileInv'
  BY <1>14 DEF Ended, vars, FileInv, TypeOK, CleanCopy, Source
<1> QED
  BY <1>2, <1>4, <1>5, <1>6, <1>7, <1>8, <1>9, <1>10, <1>11, <1>12, <1>13, <1>14 DEF Next, Step

-----------------------------------------------------------------------------
(* The arithmetic of blocks and bitmap bytes.                              *)

\* The block of byte i.
BlockOf(i) == (i - 1) \div BlockSize

\* Byte i is one of those that the call asks for.
Asked(i) == call.offset < i /\ i <= call.offset + call.length

\* Rounding up gives the number of the last element's block plus one.
LEMMA RoundUp ==
    ASSUME NEW x \in Nat \ {0}, NEW d \in Nat \ {0}
    PROVE  /\ (x - 1) \div d \in Nat
           /\ (x + d - 1) \div d = (x - 1) \div d + 1
<1>1. PICK y \in Nat : y = x - 1
  OBVIOUS
<1>2. x + d - 1 = y + d
  BY <1>1
<1> QED BY <1>1, <1>2, DivBound, DivShift

\* The bitmap has a bit for each block of the origin.
LEMMA BitmapIsLongEnough ==
    ASSUME FileTypes, BlockSize \in Nat \ {0}, BitsPerByte \in Nat \ {0}
    PROVE  /\ range_cache_bitmap_bytes \in Nat \ {0}
           /\ \A b \in Nat : b <= (size - 1) \div BlockSize =>
                b \div BitsPerByte < range_cache_bitmap_bytes
<1>1. PICK last : last = (size - 1) \div BlockSize
  OBVIOUS
<1>2. last \in Nat /\ range_cache_num_blocks = last + 1
  <2>1. size \in Nat \ {0}
    BY DEF FileTypes
  <2> QED BY ONLY <1>1, <2>1, RoundUp, BlockSize \in Nat \ {0} DEF range_cache_num_blocks
<1>3. PICK top : top = last \div BitsPerByte
  OBVIOUS
<1>4. top \in Nat /\ range_cache_bitmap_bytes = top + 1
  <2>1. last + 1 \in Nat \ {0} /\ (last + 1) - 1 = last
    BY <1>2
  <2>2. /\ ((last + 1) - 1) \div BitsPerByte \in Nat
        /\ ((last + 1) + BitsPerByte - 1) \div BitsPerByte = ((last + 1) - 1) \div BitsPerByte + 1
    BY ONLY <2>1, RoundUp, BitsPerByte \in Nat \ {0}
  <2> QED BY ONLY <1>2, <1>3, <2>1, <2>2 DEF range_cache_bitmap_bytes
<1>5. ASSUME NEW b \in Nat, b <= last
      PROVE  b \div BitsPerByte < range_cache_bitmap_bytes
  <2>1. b \div BitsPerByte <= top
    BY ONLY <1>2, <1>3, <1>5, DivMono, BitsPerByte \in Nat \ {0}
  <2>2. b \div BitsPerByte \in Nat
    BY ONLY <1>5, DivBound, BitsPerByte \in Nat \ {0}
  <2> QED BY ONLY <1>4, <2>1, <2>2
<1> QED BY <1>1, <1>4, <1>5

\* What the arithmetic of a call gives the rest of the proof: the blocks of a
\* range have its bytes, their span in the origin has all of their bytes, and only
\* a range that goes beyond the end has a block without a bit.
LEMMA Arithmetic ==
    ASSUME FileTypes, RangeTypeOK
    PROVE  /\ range_cache_bitmap_bytes \in Nat \ {0}
           /\ \A i \in 1..size :
                BlockOf(i) \in Nat /\ BlockOf(i) \div BitsPerByte < range_cache_bitmap_bytes
           /\ \A b \in Nat : b \div BitsPerByte \in Nat
           /\ call.offset \in Nat /\ call.length \in Nat
           /\ call.length > 0 =>
                /\ Blocks \subseteq Nat /\ span_off \in Nat /\ span_end \in Int
                /\ block_end \in Nat
                /\ \A i \in 1..size : Asked(i) => BlockOf(i) \in Blocks
                /\ \A i \in 1..size : BlockOf(i) \in Blocks => span_off < i /\ i <= span_end
                /\ \A b \in Blocks : b \div BitsPerByte <= block_end \div BitsPerByte
                /\ Strays(range_cache_bitmap_bytes) => call.offset + call.length > size
<1>1. /\ BlockSize \in Nat \ {0} /\ BitsPerByte \in Nat \ {0}
      /\ size \in Nat \ {0} /\ call.offset \in Nat /\ call.length \in Nat
  BY RangeAssumption DEF FileTypes, RangeTypeOK, Call
<1>2. range_cache_bitmap_bytes \in Nat \ {0}
  BY <1>1, BitmapIsLongEnough
<1>3. \A b \in Nat : b \div BitsPerByte \in Nat
  BY ONLY <1>1, DivBound
<1>4. ASSUME NEW i \in 1..size
      PROVE  /\ i - 1 \in Nat /\ BlockOf(i) \in Nat
             /\ BlockOf(i) \div BitsPerByte < range_cache_bitmap_bytes
             /\ BlockOf(i) * BlockSize <= i - 1 /\ i - 1 < (BlockOf(i) + 1) * BlockSize
  <2>1. i - 1 \in Nat /\ size - 1 \in Nat /\ i - 1 <= size - 1
    BY <1>1
  <2>2. /\ BlockOf(i) \in Nat
        /\ BlockOf(i) * BlockSize <= i - 1 /\ i - 1 < (BlockOf(i) + 1) * BlockSize
    BY ONLY <1>1, <2>1, DivBound DEF BlockOf
  <2>3. BlockOf(i) <= (size - 1) \div BlockSize
    BY ONLY <1>1, <2>1, DivMono DEF BlockOf
  <2> QED BY <1>1, <2>1, <2>2, <2>3, BitmapIsLongEnough
<1>5. ASSUME call.length > 0
      PROVE  /\ Blocks \subseteq Nat /\ span_off \in Nat /\ span_end \in Int
             /\ block_end \in Nat
             /\ \A i \in 1..size : Asked(i) => BlockOf(i) \in Blocks
             /\ \A i \in 1..size : BlockOf(i) \in Blocks => span_off < i /\ i <= span_end
             /\ \A b \in Blocks : b \div BitsPerByte <= block_end \div BitsPerByte
             /\ Strays(range_cache_bitmap_bytes) => call.offset + call.length > size
  <2>1. PICK o, e, m : o = block_start /\ e = block_end /\ m = call.offset + call.length - 1
    OBVIOUS
  <2>2. m \in Nat /\ call.offset <= m /\ o = call.offset \div BlockSize /\ e = m \div BlockSize
    BY <1>1, <1>5, <2>1 DEF block_start, block_end
  <2>3. o \in Nat /\ e \in Nat
    BY ONLY <1>1, <2>2, DivBound
  <2>4. Blocks = o..e
    BY ONLY <2>1 DEF Blocks
  <2>5. span_off = o * BlockSize /\ span_end = Least((e + 1) * BlockSize, size)
    BY ONLY <2>1 DEF span_off, span_end
  <2>6. o * BlockSize \in Nat /\ (e + 1) * BlockSize \in Nat
    BY ONLY <1>1, <2>3
  <2>7. ASSUME NEW i \in 1..size, Asked(i) PROVE BlockOf(i) \in Blocks
    <3>1. i - 1 \in Nat /\ call.offset <= i - 1 /\ i - 1 <= m
      BY <1>1, <2>1, <2>7 DEF Asked
    <3>2. o <= BlockOf(i) /\ BlockOf(i) <= e
      BY ONLY <1>1, <2>2, <3>1, DivMono DEF BlockOf
    <3> QED BY <1>4, <2>3, <2>4, <3>2
  <2>8. ASSUME NEW i \in 1..size, BlockOf(i) \in Blocks PROVE span_off < i /\ i <= span_end
    <3>1. PICK b : b = BlockOf(i)
      OBVIOUS
    <3>2. /\ b \in Nat /\ o <= b /\ b <= e
          /\ b * BlockSize <= i - 1 /\ i - 1 < (b + 1) * BlockSize
      BY <1>4, <2>3, <2>4, <2>8, <3>1
    <3>3. o * BlockSize <= b * BlockSize /\ (b + 1) * BlockSize <= (e + 1) * BlockSize
      BY ONLY <1>1, <2>3, <3>2
    <3>4. o * BlockSize < i /\ i <= (e + 1) * BlockSize
      <4>1. b * BlockSize \in Nat /\ (b + 1) * BlockSize \in Nat
        BY ONLY <1>1, <3>2
      <4> QED BY ONLY <1>1, <2>6, <2>8, <3>2, <3>3, <4>1
    <3> QED BY <1>1, <2>5, <3>4 DEF Least
  <2>9. ASSUME NEW b \in Blocks PROVE b \div BitsPerByte <= block_end \div BitsPerByte
    <3>1. b \in Nat /\ b <= e
      BY <2>3, <2>4
    <3> QED BY ONLY <1>1, <2>1, <2>3, <3>1, DivMono
  <2>10. ASSUME call.offset + call.length <= size PROVE ~Strays(range_cache_bitmap_bytes)
    <3>1. m <= size - 1 /\ size - 1 \in Nat
      BY <1>1, <2>1, <2>10
    <3>2. e <= (size - 1) \div BlockSize
      BY ONLY <1>1, <2>2, <3>1, DivMono
    <3>3. e \div BitsPerByte < range_cache_bitmap_bytes
      BY <1>1, <2>3, <3>2, BitmapIsLongEnough
    <3>4. e \div BitsPerByte \in Nat
      BY <1>3, <2>3
    <3> QED BY ONLY <1>2, <2>1, <3>3, <3>4 DEF Strays
  <2>11. Blocks \subseteq Nat /\ span_off \in Nat /\ span_end \in Int /\ block_end \in Nat
    BY <1>1, <2>1, <2>3, <2>4, <2>5, <2>6 DEF Least
  <2> QED BY <1>1, <2>7, <2>8, <2>9, <2>10, <2>11
<1> QED BY <1>1, <1>2, <1>3, <1>4, <1>5

-----------------------------------------------------------------------------
(* The files and the call.                                                 *)

\* Once the bitmap has its size the local copy has its own, and a byte whose bit
\* is set is there; a file that was local from the start is there as a whole.
FilesInv ==
    /\ local = [exists |-> local.exists, data |-> local.data]
    /\ bitmap = [bytes |-> bitmap.bytes, bits |-> bitmap.bits]
    /\ bitmap.bits \subseteq Nat
    /\ staged \/ bitmap.bytes # 0 => local.exists /\ Len(local.data) = size
    /\ \A i \in 1..size : staged \/ BlockOf(i) \in bitmap.bits => local.data[i] = i

\* A call on its way to record a span has written all of it, a call that reads
\* finds what was asked for, and what it has read are the bytes from its offset on.
CallInv ==
    /\ rpc \in {"look", "recheck", "fetch", "record"} =>
         ~staged /\ call.length > 0 /\ out = <<>>
    /\ rpc \in {"fetch", "record"} => bitmap.bytes = range_cache_bitmap_bytes
    /\ rpc = "record" => \A i \in 1..size : BlockOf(i) \in Blocks => local.data[i] = i
    /\ rpc = "read" /\ call.length > 0 =>
         /\ local.exists /\ Len(local.data) = size
         /\ \A i \in 1..size : Asked(i) => local.data[i] = i
    /\ rpc = "read" =>
         /\ Len(out) <= call.length
         /\ out # <<>> => call.offset + Len(out) <= size
         /\ \A i \in 1..Len(out) : out[i] = call.offset + i

\* The invariant of range calls.
RangeInv ==
    TypeOK /\ RangeTypeOK /\ FilesInv /\ CallInv /\ OnlyLongRangeStrays /\ RangeIsExact

\* What a call asks for, and where its blocks are, depends on the call alone.
LEMMA SameCall ==
    ASSUME UNCHANGED vars, call' = call
    PROVE  /\ range_cache_bitmap_bytes' = range_cache_bitmap_bytes
           /\ Blocks' = Blocks /\ Source' = Source
           /\ \A i : Asked(i)' <=> Asked(i)
BY DEF vars, range_cache_bitmap_bytes, range_cache_num_blocks, Blocks, block_start, block_end,
       Source, Asked

\* Files that are left alone.
LEMMA FilesStay ==
    ASSUME RangeInv, UNCHANGED <<vars, kind, staged, local, bitmap>>
    PROVE  /\ TypeOK' /\ FilesInv' /\ Source' = Source
           /\ kind' \in {"file", "range"} /\ staged' \in BOOLEAN
           /\ local'.exists \in BOOLEAN
           /\ local'.data \in Seq(0..MaxSize) /\ Len(local'.data) \in {0, size'}
           /\ bitmap'.bytes \in {0, range_cache_bitmap_bytes'}
           /\ bitmap'.bits = InBytes(bitmap'.bits, bitmap'.bytes)
BY DEF RangeInv, TypeOK, vars, FilesInv, BlockOf, RangeTypeOK, Source, InBytes,
       range_cache_bitmap_bytes, range_cache_num_blocks

\* Part of a sequence.
LEMMA Reading ==
    ASSUME NEW V, NEW d \in Seq(V), NEW a \in Nat, NEW n \in Nat, a + n <= Len(d)
    PROVE  /\ SubSeq(d, a + 1, a + n) \in Seq(V)
           /\ Len(SubSeq(d, a + 1, a + n)) = n
           /\ \A i \in 1..n : SubSeq(d, a + 1, a + n)[i] = d[a + i]
<1>1. \A i \in (a + 1)..(a + n) : d[i] \in V
  OBVIOUS
<1> QED BY <1>1, SubSeqProperties

\* A call that has read as many bytes as there are from its offset on, and those,
\* has what it asked for.
LEMMA Exact ==
    ASSUME FileTypes, RangeTypeOK, NEW V, NEW s \in Seq(V),
           \A i \in 1..Len(s) : s[i] = call.offset + i,
           Len(s) = IF call.offset >= size THEN 0 ELSE Least(call.length, size - call.offset)
    PROVE  s = SubSeq(Source, call.offset + 1, Least(call.offset + call.length, size))
<1>1. PICK o, l : o = call.offset /\ l = call.length
  OBVIOUS
<1>2. o \in Nat /\ l \in Nat /\ size \in Nat /\ Len(s) \in Nat
  BY <1>1 DEF RangeTypeOK, Call, FileTypes
<1>3. PICK e : e = Least(o + l, size)
  OBVIOUS
<1>4. e \in Nat /\ e <= size /\ Len(s) = IF o + 1 <= e THEN e - (o + 1) + 1 ELSE 0
  <2>1. Len(s) = IF o >= size THEN 0 ELSE IF l < size - o THEN l ELSE size - o
    BY <1>1 DEF Least
  <2>2. e = IF o + l < size THEN o + l ELSE size
    BY <1>3 DEF Least
  <2> QED BY ONLY <1>2, <2>1, <2>2
<1>5. /\ Source \in Seq(Int) /\ Len(Source) = size /\ \A i \in 1..size : Source[i] = i
  BY <1>2 DEF Source
<1>6. PICK t : t = SubSeq(Source, o + 1, e)
  OBVIOUS
<1>7. /\ t \in Seq(Int) /\ Len(t) = Len(s)
      /\ \A i \in 1..Len(s) : t[i] = Source[o + i]
  <2>1. \A i \in (o + 1)..e : Source[i] \in Int
    BY <1>2, <1>4, <1>5
  <2>2. /\ t \in Seq(Int)
        /\ Len(t) = IF o + 1 <= e THEN e - (o + 1) + 1 ELSE 0
        /\ \A i \in 1..(e - (o + 1) + 1) : t[i] = Source[(o + 1) + i - 1]
    BY ONLY <1>2, <1>4, <1>6, <2>1, SubSeqProperties
  <2> QED BY ONLY <1>2, <1>4, <2>2
<1>8. \A i \in 1..Len(s) : t[i] = s[i]
  <2> SUFFICES ASSUME NEW i \in 1..Len(s) PROVE t[i] = s[i]
    OBVIOUS
  <2>1. i \in Int /\ 1 <= i /\ i <= Len(s) /\ o + i \in 1..size
    BY <1>2, <1>4
  <2>2. t[i] = o + i
    BY ONLY <1>5, <1>7, <2>1, i \in 1..Len(s)
  <2> QED BY <1>1, <2>2
<1>9. s = t
  BY <1>7, <1>8
<1> QED BY <1>1, <1>3, <1>6, <1>9

\* How much the module serves.
LEMMA Served ==
    ASSUME RangeInv, rpc = "read"
    PROVE  /\ range_len \in Nat /\ range_len <= call.length
           /\ range_len > 0 =>
                /\ call.length > 0 /\ Len(local.data) = size
                /\ call.offset + range_len <= size
           /\ range_len = IF call.offset >= size THEN 0
                          ELSE Least(call.length, size - call.offset)
<1>1. PICK o, l, n : o = call.offset /\ l = call.length /\ n = Len(local.data)
  OBVIOUS
<1>2. /\ o \in Nat /\ l \in Nat /\ size \in Nat /\ size > 0 /\ n \in {0, size}
      /\ l > 0 => n = size
  BY <1>1, FileTyped DEF RangeInv, RangeTypeOK, CallInv, Call, FileTypes
<1>3. range_len = IF o >= n THEN 0 ELSE Least(l, n - o)
  BY <1>1 DEF range_len
<1> QED BY <1>1, <1>2, <1>3 DEF Least

-----------------------------------------------------------------------------
(* Every step of a range call keeps the invariant.                         *)

\* A new call finds the file it needs, or has yet to look for it.
LEMMA CallKeeps ==
    ASSUME RangeInv, RangeCall, UNCHANGED vars
    PROVE  RangeInv'
<1>1. FileTypes /\ RangeTypeOK /\ CallInv /\ FilesInv
  BY FileTyped DEF RangeInv
<1>2. /\ TypeOK' /\ FilesInv'
      /\ kind' \in {"file", "range"} /\ staged' \in BOOLEAN
      /\ local'.exists \in BOOLEAN
      /\ local'.data \in Seq(0..MaxSize) /\ Len(local'.data) \in {0, size'}
      /\ bitmap'.bytes \in {0, range_cache_bitmap_bytes'}
      /\ bitmap'.bits = InBytes(bitmap'.bits, bitmap'.bytes)
  BY FilesStay DEF RangeCall
<1>3. /\ call' \in Call /\ calls' \in 0..MaxCalls /\ rrc' = "none" /\ out' = <<>>
      /\ rpc' \in {"look", "read"}
      /\ rpc' = "look" => ~staged' /\ call'.length # 0
      /\ rpc' = "read" => staged' \/ call'.length = 0
  BY <1>1, RangeAssumption DEF RangeCall, RangeTypeOK
<1>4. RangeTypeOK'
  BY <1>2, <1>3 DEF RangeTypeOK
<1>5. call'.length \in Nat /\ call'.offset \in Nat
  BY <1>3 DEF Call
<1>6. CallInv'
  <2>1. \A i \in 1..size' : staged' => local'.data[i] = i
    BY <1>2 DEF FilesInv
  <2>2. staged' => local'.exists /\ Len(local'.data) = size'
    BY <1>2 DEF FilesInv
  <2> QED BY <1>3, <1>5, <2>1, <2>2 DEF CallInv
<1> QED BY <1>2, <1>3, <1>4, <1>6 DEF RangeInv, OnlyLongRangeStrays, RangeIsExact

\* A call that fails leaves the files as they are.
LEMMA FailKeeps ==
    ASSUME RangeInv, RangeFails, UNCHANGED vars
    PROVE  RangeInv'
<1>1. RangeTypeOK'
  BY FilesStay DEF RangeInv, RangeFails, Return, RangeTypeOK
<1>2. CallInv' /\ OnlyLongRangeStrays' /\ RangeIsExact'
  BY DEF RangeFails, Return, CallInv, OnlyLongRangeStrays, RangeIsExact
<1> QED BY <1>1, <1>2, FilesStay DEF RangeInv, RangeFails

\* The fast path.
LEMMA LookKeeps ==
    ASSUME RangeInv, RangeLook, UNCHANGED vars
    PROVE  RangeInv'
<1>1. FileTypes /\ RangeTypeOK /\ CallInv /\ FilesInv
  BY FileTyped DEF RangeInv
<1>2. RangeTypeOK'
  BY FilesStay, <1>1 DEF RangeLook, RangeTypeOK
<1>3. /\ call.length > 0 /\ ~staged /\ out = <<>> /\ call.length \in Nat
      /\ block_end \in Nat /\ block_end \div BitsPerByte \in Nat
      /\ \A i \in 1..size : Asked(i) => BlockOf(i) \in Blocks
  BY <1>1, Arithmetic DEF RangeLook, CallInv
<1>4. CASE ~Strays(bitmap.bytes) /\ Blocks \subseteq bitmap.bits /\ rpc' = "read"
  <2>1. bitmap.bytes # 0
    BY <1>3, <1>4 DEF Strays
  <2>2. local.exists /\ Len(local.data) = size
    BY <1>1, <2>1 DEF FilesInv
  <2>3. \A i \in 1..size : Asked(i) => local.data[i] = i
    BY <1>1, <1>3, <1>4 DEF FilesInv
  <2>4. local' = local /\ size' = size /\ call' = call /\ out' = out
    BY DEF RangeLook, vars
  <2>5. \A i : Asked(i)' <=> Asked(i)
    BY SameCall DEF RangeLook
  <2>6. CallInv'
    BY <1>3, <1>4, <2>2, <2>3, <2>4, <2>5 DEF CallInv
  <2> QED BY <1>2, <1>4, <2>6, FilesStay
          DEF RangeInv, RangeLook, OnlyLongRangeStrays, RangeIsExact
<1>5. CASE rpc' = "recheck"
  <2>1. CallInv'
    BY <1>3, <1>5 DEF CallInv, RangeLook
  <2> QED BY <1>2, <1>5, <2>1, FilesStay
          DEF RangeInv, RangeLook, OnlyLongRangeStrays, RangeIsExact
<1> QED BY <1>4, <1>5 DEF RangeLook

\* ftruncate() gives the local copy the size of the origin.
LEMMA SizedIs ==
    ASSUME FileTypes, RangeTypeOK
    PROVE  Sized(local.data, LocalSize) \in Seq(0..MaxSize)
           /\ Len(Sized(local.data, LocalSize)) = size
<1>1. local.data \in Seq(0..MaxSize) /\ size \in Nat /\ MaxSize \in Nat
  BY DEF FileTypes, RangeTypeOK
<1>2. PICK d : d = local.data
  OBVIOUS
<1>3. d \in Seq(0..MaxSize)
  BY <1>1, <1>2
<1>4. \A i \in 1..size : (IF i <= Len(d) THEN d[i] ELSE 0) \in 0..MaxSize
  BY ONLY <1>1, <1>3
<1>5. [i \in 1..size |-> IF i <= Len(d) THEN d[i] ELSE 0] \in [1..size -> 0..MaxSize]
  BY <1>4
<1>6. PICK t : t = [i \in 1..size |-> IF i <= Len(d) THEN d[i] ELSE 0]
  OBVIOUS
<1>7. t \in Seq(0..MaxSize) /\ Len(t) = size
  BY <1>1, <1>5, <1>6
<1> QED BY <1>2, <1>6, <1>7 DEF Sized, LocalSize

\* pwrite() puts bytes where they are in the origin.
LEMMA FilledIs ==
    ASSUME FileTypes, NEW d \in Seq(0..MaxSize), Len(d) = size, NEW from \in Nat, NEW n \in Int
    PROVE  /\ Filled(d, from, n) \in Seq(0..MaxSize)
           /\ Len(Filled(d, from, n)) = size
           /\ \A i \in 1..size :
                /\ d[i] = i => Filled(d, from, n)[i] = i
                /\ from < i /\ i <= from + n => Filled(d, from, n)[i] = i
<1>1. size \in Nat /\ MaxSize \in Nat /\ size <= MaxSize /\ DOMAIN d = 1..size
  BY DEF FileTypes
<1>2. PICK t : t = [i \in 1..size |-> IF i \in (from + 1)..(from + n) THEN i ELSE d[i]]
  OBVIOUS
<1>3. t = Filled(d, from, n)
  BY <1>1, <1>2 DEF Filled
<1>4. \A i \in 1..size : (IF i \in (from + 1)..(from + n) THEN i ELSE d[i]) \in 0..MaxSize
  BY <1>1
<1>5. t \in [1..size -> 0..MaxSize]
  BY <1>2, <1>4
<1>6. t \in Seq(0..MaxSize) /\ Len(t) = size
  BY <1>1, <1>5
<1>7. \A i \in 1..size : (d[i] = i => t[i] = i) /\ (from < i /\ i <= from + n => t[i] = i)
  BY <1>1, <1>2
<1> QED BY <1>3, <1>6, <1>7

\* Sizing the files or leaving them, as the second look does.
LEMMA SizingKeeps ==
    ASSUME RangeInv, rpc = "recheck", UNCHANGED <<vars, kind, staged, call>>,
           SizeFiles \/ (bitmap' = bitmap /\ bitmap.bytes < range_cache_bitmap_bytes
                         /\ \/ local' = [local EXCEPT !.exists = TRUE]
                            \/ local' = [exists |-> TRUE, data |-> Sized(local.data, LocalSize)])
    PROVE  /\ TypeOK' /\ FilesInv'
           /\ local'.exists \in BOOLEAN
           /\ local'.data \in Seq(0..MaxSize) /\ Len(local'.data) \in {0, size'}
           /\ bitmap'.bytes \in {0, range_cache_bitmap_bytes'}
           /\ bitmap'.bits = InBytes(bitmap'.bits, bitmap'.bytes)
           /\ bitmap'.bits = bitmap.bits
           /\ SizeFiles => bitmap'.bytes = range_cache_bitmap_bytes
<1>1. FileTypes /\ TypeOK /\ RangeTypeOK /\ CallInv /\ FilesInv
  BY FileTyped DEF RangeInv
<1>2. /\ range_cache_bitmap_bytes \in Nat \ {0}
      /\ \A b \in Nat : b \div BitsPerByte \in Nat
      /\ range_cache_bitmap_bytes' = range_cache_bitmap_bytes
  BY <1>1, Arithmetic, SameCall
<1>3. TypeOK' /\ size' = size /\ staged' = staged
  BY <1>1 DEF TypeOK, vars
<1>4. ~staged
  BY <1>1 DEF CallInv
<1>5. CASE SizeFiles /\ bitmap.bytes >= range_cache_bitmap_bytes
  <2>1. UNCHANGED <<local, bitmap>> /\ bitmap.bytes = range_cache_bitmap_bytes
    BY <1>1, <1>2, <1>5 DEF SizeFiles, RangeTypeOK
  <2> QED BY <1>2, <1>3, <2>1, FilesStay
<1>6. CASE bitmap.bytes < range_cache_bitmap_bytes
  <2>1. bitmap.bytes = 0 /\ bitmap.bits = {}
    <3>1. bitmap.bytes = 0
      BY <1>1, <1>2, <1>6 DEF RangeTypeOK
    <3>2. \A b \in bitmap.bits : b \div BitsPerByte < 0 /\ b \in Nat
      BY <1>1, <3>1 DEF RangeTypeOK, InBytes, FilesInv
    <3> QED BY <1>2, <3>1, <3>2
  <2>2. /\ local'.exists = TRUE
        /\ local' = [exists |-> local'.exists, data |-> local'.data]
        /\ \/ local'.data = local.data
           \/ local'.data = Sized(local.data, LocalSize)
        /\ SizeFiles => local'.data = Sized(local.data, LocalSize)
    BY <1>1, <1>2, <1>6 DEF SizeFiles, FilesInv, RangeTypeOK
  <2>3. local'.data \in Seq(0..MaxSize) /\ Len(local'.data) \in {0, size}
        /\ (SizeFiles => Len(local'.data) = size)
    BY <1>1, <2>2, SizedIs DEF RangeTypeOK
  <2>4. /\ bitmap' = [bytes |-> bitmap'.bytes, bits |-> bitmap'.bits] /\ bitmap'.bits = {}
        /\ bitmap'.bytes \in {0, range_cache_bitmap_bytes}
        /\ bitmap'.bytes # 0 => SizeFiles
        /\ SizeFiles => bitmap'.bytes = range_cache_bitmap_bytes
    BY <1>1, <1>2, <1>6, <2>1 DEF SizeFiles, FilesInv
  <2>5. bitmap'.bits = InBytes(bitmap'.bits, bitmap'.bytes)
    BY <2>4 DEF InBytes
  <2>6. FilesInv'
    BY <1>3, <1>4, <2>2, <2>3, <2>4 DEF FilesInv
  <2> QED BY <1>2, <1>3, <2>1, <2>2, <2>3, <2>4, <2>5, <2>6
<1> QED
  <2>1. SizeFiles => bitmap.bytes >= range_cache_bitmap_bytes \/ bitmap.bytes < range_cache_bitmap_bytes
    BY DEF SizeFiles
  <2> QED BY <1>5, <1>6, <2>1

\* A failure to size them.
LEMMA SizeFailsKeeps ==
    ASSUME RangeInv, SizeFilesFails, UNCHANGED vars
    PROVE  RangeInv'
<1>1. /\ TypeOK' /\ FilesInv' /\ local'.exists \in BOOLEAN
      /\ local'.data \in Seq(0..MaxSize) /\ Len(local'.data) \in {0, size'}
      /\ bitmap'.bytes \in {0, range_cache_bitmap_bytes'}
      /\ bitmap'.bits = InBytes(bitmap'.bits, bitmap'.bytes)
  BY SizingKeeps DEF SizeFilesFails
<1>2. RangeTypeOK'
  BY <1>1 DEF RangeInv, RangeTypeOK, SizeFilesFails, Return
<1> QED BY <1>1, <1>2
        DEF RangeInv, SizeFilesFails, Return, CallInv, OnlyLongRangeStrays, RangeIsExact

\* The second look: with a bit for each block that the origin has, all that can be
\* read is there; and it strays only beyond the end.
LEMMA RecheckKeeps ==
    ASSUME RangeInv, RangeRecheck, UNCHANGED vars
    PROVE  RangeInv'
<1>1. FileTypes /\ RangeTypeOK /\ CallInv /\ FilesInv
  BY FileTyped DEF RangeInv
<1>2. /\ TypeOK' /\ FilesInv' /\ local'.exists \in BOOLEAN
      /\ local'.data \in Seq(0..MaxSize) /\ Len(local'.data) \in {0, size'}
      /\ bitmap'.bytes \in {0, range_cache_bitmap_bytes'}
      /\ bitmap'.bits = InBytes(bitmap'.bits, bitmap'.bytes)
      /\ bitmap'.bits = bitmap.bits /\ bitmap'.bytes = range_cache_bitmap_bytes
  BY SizingKeeps DEF RangeRecheck
<1>3. /\ size' = size /\ call' = call /\ out' = out /\ staged' = staged
      /\ range_cache_bitmap_bytes' = range_cache_bitmap_bytes
      /\ \A i : Asked(i)' <=> Asked(i)
  BY SameCall DEF RangeRecheck, vars
<1>4. /\ range_cache_bitmap_bytes \in Nat \ {0}
      /\ call.length > 0 /\ ~staged /\ out = <<>> /\ call.length \in Nat
      /\ block_end \in Nat /\ block_end \div BitsPerByte \in Nat
      /\ Blocks \subseteq Nat
      /\ \A i \in 1..size : Asked(i) => BlockOf(i) \in Blocks
      /\ \A i \in 1..size : BlockOf(i) \div BitsPerByte < range_cache_bitmap_bytes
      /\ \A b \in Blocks : b \div BitsPerByte \in Nat
      /\ \A b \in Blocks : b \div BitsPerByte <= block_end \div BitsPerByte
      /\ Strays(range_cache_bitmap_bytes) => call.offset + call.length > size
  BY <1>1, Arithmetic DEF RangeRecheck, CallInv
<1>5. PICK n, wild :
        /\ wild = Blocks \ InBytes(Blocks, range_cache_bitmap_bytes)
        /\ \/ rpc' = IF Blocks \ wild \subseteq InBytes(bitmap.bits, n) THEN "read" ELSE "fetch"
           \/ wild # {} /\ rpc' \in {"fetch", "crashed"}
  BY DEF RangeRecheck
<1>6. RangeTypeOK'
  BY <1>1, <1>2, <1>5 DEF RangeRecheck, RangeTypeOK
<1>7. CASE rpc' = "read"
  <2>1. Blocks \ wild \subseteq bitmap.bits
    BY <1>5, <1>7 DEF InBytes
  <2>2. local'.exists /\ Len(local'.data) = size
    BY <1>2, <1>3, <1>4 DEF FilesInv
  <2>3. ASSUME NEW i \in 1..size, Asked(i) PROVE local'.data[i] = i
    <3>1. BlockOf(i) \in bitmap'.bits
      BY <1>2, <1>4, <1>5, <2>1, <2>3 DEF InBytes
    <3> QED BY <1>2, <1>3, <3>1 DEF FilesInv, BlockOf
  <2>4. CallInv'
    BY <1>3, <1>4, <1>7, <2>2, <2>3 DEF CallInv
  <2> QED BY <1>2, <1>6, <1>7, <2>4 DEF RangeInv, OnlyLongRangeStrays, RangeIsExact
<1>8. CASE rpc' = "fetch"
  <2>1. CallInv'
    BY <1>2, <1>3, <1>4, <1>8 DEF CallInv
  <2> QED BY <1>2, <1>6, <1>8, <2>1 DEF RangeInv, OnlyLongRangeStrays, RangeIsExact
<1>9. CASE rpc' = "crashed"
  <2>1. PICK b \in Blocks : ~(b \div BitsPerByte < range_cache_bitmap_bytes)
    BY <1>5, <1>9 DEF InBytes
  <2>2. call.offset + call.length > size
    BY <1>4, <2>1 DEF Strays
  <2>3. CallInv' /\ OnlyLongRangeStrays' /\ RangeIsExact'
    BY <1>3, <1>9, <2>2 DEF CallInv, OnlyLongRangeStrays, RangeIsExact
  <2> QED BY <1>2, <1>6, <2>3 DEF RangeInv
<1> QED BY <1>5, <1>7, <1>8, <1>9

\* Replacing the data of a file that exists.
LEMMA DataOf ==
    ASSUME NEW f, NEW b, NEW d, f = [exists |-> TRUE, data |-> b],
           NEW g, g = [f EXCEPT !.data = d]
    PROVE  g = [exists |-> TRUE, data |-> d]
OBVIOUS

\* The span from the origin: whatever part of it is written, bytes that were there
\* stay; all of it is there before the bits are set.
LEMMA FetchKeeps ==
    ASSUME RangeInv, RangeFetch, UNCHANGED vars
    PROVE  RangeInv'
<1>1. FileTypes /\ RangeTypeOK /\ CallInv /\ FilesInv /\ TypeOK
  BY FileTyped DEF RangeInv
<1>2. /\ size' = size /\ call' = call /\ out' = out /\ staged' = staged /\ bitmap' = bitmap
      /\ kind' = kind /\ calls' = calls
      /\ range_cache_bitmap_bytes' = range_cache_bitmap_bytes /\ Blocks' = Blocks
  BY SameCall DEF RangeFetch, vars
<1>3. /\ range_cache_bitmap_bytes \in Nat \ {0}
      /\ call.length > 0 /\ ~staged /\ out = <<>> /\ bitmap.bytes = range_cache_bitmap_bytes
      /\ span_off \in Nat /\ span_end \in Int
      /\ \A i \in 1..size : BlockOf(i) \in Blocks => span_off < i /\ i <= span_end
  BY <1>1, Arithmetic DEF RangeFetch, CallInv
<1>4. /\ local = [exists |-> TRUE, data |-> local.data]
      /\ local.data \in Seq(0..MaxSize) /\ Len(local.data) = size
  BY <1>1, <1>3 DEF FilesInv, RangeTypeOK
<1>5. TypeOK'
  BY <1>1 DEF TypeOK, vars
<1>6. \E n \in Int :
        /\ \/ local' = [local EXCEPT !.data = Filled(@, span_off, n)]
           \/ local' = local /\ rpc' = "idle"
        /\ \/ rpc' = "idle" /\ rrc' = "BADFIO"
           \/ rpc' = "record" /\ rrc' = rrc /\ n = span_end - span_off
  <2>1. PICK all : all = span_end - span_off
    OBVIOUS
  <2>2. all \in Int /\ \A n \in 0..(all - 1) : n \in Int
    BY <1>3, <2>1
  <2>3. CASE /\ local' = [local EXCEPT !.data = Filled(@, span_off, all)]
             /\ rpc' = "record" /\ UNCHANGED rrc
    BY <2>1, <2>2, <2>3, Zenon
  <2>4. CASE /\ \E n \in 0..(all - 1) : local' = [local EXCEPT !.data = Filled(@, span_off, n)]
             /\ Return("BADFIO")
    <3>1. PICK n \in 0..(all - 1) : local' = [local EXCEPT !.data = Filled(@, span_off, n)]
      BY <2>4, Zenon
    <3>2. n \in Int /\ rpc' = "idle" /\ rrc' = "BADFIO"
      BY <2>2, <2>4 DEF Return
    <3> QED BY <3>1, <3>2, Zenon
  <2>5. CASE Return("BADFIO") /\ UNCHANGED local
    BY <2>2, <2>5, Zenon DEF Return
  <2> QED BY <2>1, <2>3, <2>4, <2>5, Zenon DEF RangeFetch
<1>7. PICK n, d :
        /\ n \in Int
        /\ d = Filled(local.data, span_off, n)
        /\ \/ local' = [exists |-> TRUE, data |-> d]
           \/ local' = local /\ rpc' = "idle"
        /\ \/ rpc' = "idle" /\ rrc' = "BADFIO"
           \/ rpc' = "record" /\ rrc' = rrc /\ n = span_end - span_off
  <2>1. PICK n \in Int :
          /\ \/ local' = [local EXCEPT !.data = Filled(@, span_off, n)]
             \/ local' = local /\ rpc' = "idle"
          /\ \/ rpc' = "idle" /\ rrc' = "BADFIO"
             \/ rpc' = "record" /\ rrc' = rrc /\ n = span_end - span_off
    BY <1>6, Zenon
  <2>2. PICK d : d = Filled(local.data, span_off, n)
    OBVIOUS
  <2>3. [local EXCEPT !.data = d] = [exists |-> TRUE, data |-> d]
    BY ONLY <1>4, DataOf, Zenon
  <2>4. [local EXCEPT !.data = Filled(@, span_off, n)] = [local EXCEPT !.data = d]
    BY ONLY <2>2, Zenon
  <2> QED BY <2>1, <2>2, <2>3, <2>4, Zenon
<1>7a. /\ d \in Seq(0..MaxSize) /\ Len(d) = size
       /\ \A i \in 1..size :
           (local.data[i] = i => d[i] = i) /\ (span_off < i /\ i <= span_off + n => d[i] = i)
  <2>1. PICK b : b = local.data
    OBVIOUS
  <2>2. b \in Seq(0..MaxSize) /\ Len(b) = size
    BY <1>4, <2>1
  <2>3. /\ Filled(b, span_off, n) \in Seq(0..MaxSize)
        /\ Len(Filled(b, span_off, n)) = size
        /\ \A i \in 1..size :
             /\ b[i] = i => Filled(b, span_off, n)[i] = i
             /\ span_off < i /\ i <= span_off + n => Filled(b, span_off, n)[i] = i
    BY ONLY <1>1, <1>3, <1>7, <2>2, FilledIs
  <2> QED BY ONLY <1>7, <2>1, <2>3
<1>8. /\ local' = [exists |-> local'.exists, data |-> local'.data] /\ local'.exists = TRUE
      /\ local'.data \in Seq(0..MaxSize) /\ Len(local'.data) = size
      /\ \A i \in 1..size : local.data[i] = i => local'.data[i] = i
      /\ rpc' = "record" => local'.data = d
  BY <1>4, <1>7, <1>7a
<1>9. FilesInv'
  BY <1>1, <1>2, <1>8 DEF FilesInv, BlockOf
<1>10. RangeTypeOK'
  <2>1. bitmap'.bits = InBytes(bitmap'.bits, bitmap'.bytes)
    BY <1>1, <1>2 DEF RangeTypeOK, InBytes
  <2>2. /\ rpc' \in {"idle", "record"} /\ rrc' \in {"none", "OK", "BADFIO"}
        /\ local'.exists \in BOOLEAN /\ local'.data \in Seq(0..MaxSize)
        /\ Len(local'.data) \in {0, size'}
    BY <1>1, <1>2, <1>7, <1>8 DEF RangeTypeOK
  <2> QED BY <1>1, <1>2, <2>1, <2>2 DEF RangeTypeOK
<1>11. rpc' = "record" => \A i \in 1..size : BlockOf(i) \in Blocks => local'.data[i] = i
  BY <1>3, <1>7, <1>7a, <1>8
<1>12. CallInv'
  BY <1>2, <1>3, <1>7, <1>11 DEF CallInv, BlockOf
<1> QED BY <1>5, <1>7, <1>9, <1>10, <1>12 DEF RangeInv, OnlyLongRangeStrays, RangeIsExact

\* The bits: only those of blocks that are there are set, whatever part of the
\* bitmap is read and written.
LEMMA RecordKeeps ==
    ASSUME RangeInv, RangeRecord, UNCHANGED vars
    PROVE  RangeInv'
<1>1. FileTypes /\ RangeTypeOK /\ CallInv /\ FilesInv /\ TypeOK
  BY FileTyped DEF RangeInv
<1>2. /\ size' = size /\ call' = call /\ out' = out /\ staged' = staged /\ local' = local
      /\ kind' = kind /\ calls' = calls
      /\ range_cache_bitmap_bytes' = range_cache_bitmap_bytes
      /\ \A i : Asked(i)' <=> Asked(i)
  BY SameCall DEF RangeRecord, vars
<1>3. /\ range_cache_bitmap_bytes \in Nat \ {0}
      /\ call.length > 0 /\ call.length \in Nat /\ ~staged /\ out = <<>>
      /\ bitmap.bytes = range_cache_bitmap_bytes
      /\ Blocks \subseteq Nat
      /\ \A i \in 1..size : Asked(i) => BlockOf(i) \in Blocks
      /\ Strays(range_cache_bitmap_bytes) => call.offset + call.length > size
      /\ \A i \in 1..size : BlockOf(i) \in Blocks => local.data[i] = i
  BY <1>1, Arithmetic DEF RangeRecord, CallInv
<1>4. local.exists /\ Len(local.data) = size
  BY <1>1, <1>3 DEF FilesInv
<1>5. TypeOK'
  BY <1>1 DEF TypeOK, vars
<1>6. /\ bitmap' = [bytes |-> range_cache_bitmap_bytes, bits |-> bitmap'.bits]
      /\ bitmap'.bits \subseteq bitmap.bits \cup Blocks
      /\ \A b \in bitmap'.bits : b \div BitsPerByte < range_cache_bitmap_bytes
      /\ \/ rpc' = "read" /\ rrc' = rrc
         \/ rpc' = "idle" /\ rrc' = "BADFIO"
         \/ rpc' = "crashed" /\ rrc' = rrc /\ Strays(range_cache_bitmap_bytes)
  <2>1. CASE Strays(range_cache_bitmap_bytes) /\ rpc' = "crashed" /\ UNCHANGED <<bitmap, rrc>>
    BY <1>1, <1>3, <2>1 DEF FilesInv, RangeTypeOK, InBytes
  <2>2. ASSUME NEW n \in 0..range_cache_bitmap_bytes, NEW w \in 0..range_cache_bitmap_bytes,
               NEW merged,
               merged = InBytes(InBytes(bitmap.bits, n) \cup Blocks, range_cache_bitmap_bytes),
               bitmap' = [bitmap EXCEPT !.bits = InBytes(merged, w) \cup (@ \ InBytes(@, w))],
               IF w = range_cache_bitmap_bytes THEN rpc' = "read" /\ UNCHANGED rrc
                                               ELSE Return("BADFIO")
        PROVE  /\ bitmap' = [bytes |-> range_cache_bitmap_bytes, bits |-> bitmap'.bits]
               /\ bitmap'.bits \subseteq bitmap.bits \cup Blocks
               /\ \A b \in bitmap'.bits : b \div BitsPerByte < range_cache_bitmap_bytes
               /\ \/ rpc' = "read" /\ rrc' = rrc
                  \/ rpc' = "idle" /\ rrc' = "BADFIO"
    <3>1. /\ bitmap' = [bytes |-> range_cache_bitmap_bytes, bits |-> bitmap'.bits]
          /\ bitmap'.bits = InBytes(merged, w) \cup (bitmap.bits \ InBytes(bitmap.bits, w))
      BY <1>1, <1>3, <2>2 DEF FilesInv
    <3>2. /\ merged \subseteq bitmap.bits \cup Blocks
          /\ \A b \in merged : b \div BitsPerByte < range_cache_bitmap_bytes
      BY <2>2 DEF InBytes
    <3>3. \A b \in bitmap.bits : b \div BitsPerByte < range_cache_bitmap_bytes
      BY <1>1, <1>3 DEF RangeTypeOK, InBytes
    <3>4. InBytes(merged, w) \subseteq merged
      BY DEF InBytes
    <3>5. \/ rpc' = "read" /\ rrc' = rrc
          \/ rpc' = "idle" /\ rrc' = "BADFIO"
      <4>1. CASE w = range_cache_bitmap_bytes
        BY ONLY <2>2, <4>1, Zenon
      <4>2. CASE w # range_cache_bitmap_bytes
        BY ONLY <2>2, <4>2 DEF Return
      <4> QED BY <4>1, <4>2
    <3>6. bitmap'.bits \subseteq bitmap.bits \cup merged
      BY <3>1, <3>4
    <3> QED BY <3>1, <3>2, <3>3, <3>5, <3>6
  <2> QED BY <2>1, <2>2 DEF RangeRecord
<1>7. FilesInv'
  <2>1. bitmap'.bits \subseteq Nat
    BY <1>1, <1>3, <1>6 DEF FilesInv
  <2>2. \A i \in 1..size : BlockOf(i) \in bitmap'.bits => local.data[i] = i
    BY <1>1, <1>3, <1>6 DEF FilesInv
  <2> QED BY <1>1, <1>2, <1>3, <1>4, <1>6, <2>1, <2>2 DEF FilesInv, BlockOf
<1>8. RangeTypeOK'
  <2>1. bitmap'.bits = InBytes(bitmap'.bits, bitmap'.bytes)
    BY <1>6 DEF InBytes
  <2> QED BY <1>1, <1>2, <1>6, <2>1 DEF RangeTypeOK
<1>9. CallInv'
  <2>1. \A i \in 1..size : Asked(i) => local.data[i] = i
    BY <1>3
  <2> QED BY <1>2, <1>3, <1>4, <1>6, <2>1 DEF CallInv
<1>10. OnlyLongRangeStrays' /\ RangeIsExact'
  BY <1>1, <1>2, <1>3, <1>6 DEF OnlyLongRangeStrays, RangeIsExact
<1> QED BY <1>5, <1>7, <1>8, <1>9, <1>10 DEF RangeInv

\* The bytes of the local copy that a call asks for are there, as far as the copy
\* goes.
LEMMA Found ==
    ASSUME RangeInv, rpc = "read", call.length > 0,
           NEW a \in Nat, NEW n \in Nat,
           call.offset <= a, a + n <= call.offset + call.length, a + n <= size
    PROVE  /\ ReadAt(a, n) \in Seq(0..MaxSize) /\ Len(ReadAt(a, n)) = n
           /\ \A i \in 1..n : ReadAt(a, n)[i] = a + i
<1>1. FileTypes /\ RangeTypeOK /\ CallInv
  BY FileTyped DEF RangeInv
<1>2. PICK d : d = local.data
  OBVIOUS
<1>3. /\ d \in Seq(0..MaxSize) /\ Len(d) = size /\ size \in Nat
      /\ \A i \in 1..size : Asked(i) => d[i] = i
      /\ call.offset \in Nat /\ call.length \in Nat
  BY <1>1, <1>2 DEF RangeTypeOK, CallInv, FileTypes, Call
<1>4. ReadAt(a, n) = SubSeq(d, a + 1, a + n)
  <2>1. Least(a + n, Len(d)) = a + n
    BY <1>3 DEF Least
  <2> QED BY ONLY <1>2, <2>1 DEF ReadAt
<1>5. PICK t : t = SubSeq(d, a + 1, a + n)
  OBVIOUS
<1>6. t \in Seq(0..MaxSize) /\ Len(t) = n /\ \A i \in 1..n : t[i] = d[a + i]
  <2>1. a + n <= Len(d) /\ d \in Seq(0..MaxSize) /\ a \in Nat /\ n \in Nat
    BY <1>3
  <2>2. /\ SubSeq(d, a + 1, a + n) \in Seq(0..MaxSize)
        /\ Len(SubSeq(d, a + 1, a + n)) = n
        /\ \A i \in 1..n : SubSeq(d, a + 1, a + n)[i] = d[a + i]
    BY ONLY <2>1, Reading
  <2> QED BY ONLY <1>5, <2>2
<1>7. \A i \in 1..n : t[i] = a + i
  <2> SUFFICES ASSUME NEW i \in 1..n PROVE t[i] = a + i
    OBVIOUS
  <2>1. a + i \in 1..size /\ Asked(a + i)
    BY <1>3 DEF Asked
  <2> QED BY <1>3, <1>6, <2>1
<1> QED BY <1>4, <1>5, <1>6, <1>7

\* One chunk more.
LEMMA ReadChunkKeeps ==
    ASSUME RangeInv, RangeReadChunk, UNCHANGED vars
    PROVE  RangeInv'
<1>1. FileTypes /\ RangeTypeOK /\ CallInv /\ FilesInv
  BY FileTyped DEF RangeInv
<1>2. /\ rpc = "read" /\ rpc' = rpc /\ call' = call /\ local' = local /\ size' = size
      /\ rrc' = rrc /\ UNCHANGED <<kind, staged, calls, bitmap>>
      /\ Len(out) < range_len
  BY DEF RangeReadChunk, vars
<1>3. PICK l, o : l = range_len /\ o = call.offset
  OBVIOUS
<1>4. /\ l \in Nat /\ l <= call.length /\ call.length \in Nat /\ o \in Nat /\ size \in Nat
      /\ Len(out) \in Nat /\ Len(out) < l
      /\ call.length > 0 /\ o + l <= size /\ out \in Seq(0..MaxSize)
  BY <1>1, <1>2, <1>3, Served DEF RangeTypeOK, Call, FileTypes
<1>5. PICK n \in 1..Least(l - Len(out), Granularity) :
        out' = out \o ReadAt(o + Len(out), n)
  BY <1>3 DEF RangeReadChunk
<1>6. n \in Nat /\ Len(out) + n <= l
  <2>1. l - Len(out) \in Int /\ Granularity \in Int
    BY <1>1, <1>4 DEF FileTypes
  <2>2. Least(l - Len(out), Granularity) \in Int /\ Least(l - Len(out), Granularity) <= l - Len(out)
    BY ONLY <2>1, LeastOf
  <2> QED BY <1>4, <2>2
<1>7. PICK t, a : t = ReadAt(a, n) /\ a = o + Len(out)
  OBVIOUS
<1>8. t \in Seq(0..MaxSize) /\ Len(t) = n /\ \A i \in 1..n : t[i] = o + Len(out) + i
  <2>1. a \in Nat /\ o <= a /\ a + n <= o + call.length /\ a + n <= size
    BY <1>4, <1>6, <1>7
  <2>2. /\ ReadAt(a, n) \in Seq(0..MaxSize) /\ Len(ReadAt(a, n)) = n
        /\ \A i \in 1..n : ReadAt(a, n)[i] = a + i
    BY <1>2, <1>3, <1>4, <1>6, <2>1, Found
  <2> QED BY <1>4, <1>7, <2>2
<1>9. \A i \in 1..Len(out) : out[i] = o + i
  BY <1>1, <1>2, <1>3 DEF CallInv
<1>10. /\ out' \in Seq(0..MaxSize) /\ Len(out') = Len(out) + n
       /\ \A i \in 1..Len(out') : out'[i] = o + i
  <2>1. out' = out \o t
    BY <1>5, <1>7
  <2>2. out' \in Seq(0..MaxSize) /\ Len(out') = Len(out) + n
    <3>1. out \o t \in Seq(0..MaxSize) /\ Len(out \o t) = Len(out) + Len(t)
      BY <1>4, <1>8
    <3> QED BY <1>8, <2>1, <3>1
  <2>3. ASSUME NEW i \in 1..Len(out') PROVE out'[i] = o + i
    <3>1. CASE i <= Len(out)
      BY ONLY <1>4, <1>6, <1>8, <1>9, <2>1, <2>2, <3>1, i \in 1..Len(out')
    <3>2. CASE i > Len(out)
      <4>1. i - Len(out) \in 1..n /\ out'[i] = t[i - Len(out)]
        BY ONLY <1>4, <1>6, <1>8, <2>1, <2>2, <3>2, i \in 1..Len(out')
      <4>2. i \in Int
        BY <1>4, <1>6, <2>2
      <4> QED BY ONLY <1>4, <1>8, <4>1, <4>2
    <3> QED BY <1>4, <1>6, <2>2, <3>1, <3>2
  <2> QED BY <2>2, <2>3
<1>11. RangeTypeOK'
  BY FilesStay, <1>1, <1>2, <1>10, UNCHANGED vars DEF RangeTypeOK
<1>12. CallInv'
  <2>1. \A i : Asked(i)' <=> Asked(i)
    BY <1>2, SameCall
  <2> QED BY <1>1, <1>2, <1>3, <1>4, <1>6, <1>10, <2>1 DEF CallInv
<1> QED BY <1>2, <1>11, <1>12, FilesStay DEF RangeInv, OnlyLongRangeStrays, RangeIsExact

\* Returning what was read.
LEMMA ReadDoneKeeps ==
    ASSUME RangeInv, RangeReadDone, UNCHANGED vars
    PROVE  RangeInv'
<1>1. FileTypes /\ RangeTypeOK /\ CallInv /\ FilesInv
  BY FileTyped DEF RangeInv
<1>2. /\ rpc = "read" /\ rpc' = "idle" /\ rrc' = "OK" /\ Len(out) = range_len
      /\ UNCHANGED <<kind, staged, call, calls, local, bitmap, out>> /\ size' = size
  BY DEF RangeReadDone, Return, vars
<1>3. RangeTypeOK'
  BY FilesStay, <1>1, <1>2, UNCHANGED vars DEF RangeTypeOK
<1>4. out = SubSeq(Source, call.offset + 1, Least(call.offset + call.length, size))
  <2>1. /\ out \in Seq(0..MaxSize) /\ \A i \in 1..Len(out) : out[i] = call.offset + i
        /\ Len(out) = IF call.offset >= size THEN 0 ELSE Least(call.length, size - call.offset)
    BY <1>1, <1>2, Served DEF RangeTypeOK, CallInv
  <2> QED BY <1>1, <2>1, Exact
<1>5. RangeIsExact'
  BY <1>2, <1>4, SameCall DEF RangeIsExact
<1> QED BY <1>2, <1>3, <1>5, FilesStay DEF RangeInv, OnlyLongRangeStrays, CallInv

\* One pread() for all of it.
LEMMA ReadOnceKeeps ==
    ASSUME RangeInv, RangeReadOnce, UNCHANGED vars
    PROVE  RangeInv'
<1>1. FileTypes /\ RangeTypeOK /\ CallInv /\ FilesInv
  BY FileTyped DEF RangeInv
<1>2. /\ rpc = "read" /\ rpc' = "idle"
      /\ UNCHANGED <<kind, staged, call, calls, local, bitmap>> /\ size' = size
  BY DEF RangeReadOnce, Return, vars
<1>3. PICK o, l, wanted, got :
        /\ o = call.offset /\ l = call.length
        /\ wanted = IF call.via = "local" THEN call.length ELSE range_len
        /\ got = ReadAt(o, wanted)
  OBVIOUS
<1>4. /\ call.via # "local" => 0 < wanted /\ wanted = range_len
      /\ call.via = "local" => wanted = l
      /\ \/ Len(got) = wanted /\ rrc' = "OK" /\ out' = got
         \/ rrc' = "BADFIO" /\ out' = <<>>
  BY <1>3 DEF RangeReadOnce, Return
<1>5. o \in Nat /\ l \in Nat /\ size \in Nat /\ size > 0
  BY <1>1, <1>3 DEF RangeTypeOK, Call, FileTypes
<1>6. CASE rrc' = "BADFIO" /\ out' = <<>>
  <2>1. RangeTypeOK'
    BY FilesStay, <1>1, <1>2, <1>6, UNCHANGED vars DEF RangeTypeOK
  <2> QED BY <1>2, <1>6, <2>1, FilesStay DEF RangeInv, OnlyLongRangeStrays, RangeIsExact, CallInv
<1>7. CASE Len(got) = wanted /\ rrc' = "OK" /\ out' = got
  <2>1. /\ got \in Seq(0..MaxSize) /\ \A i \in 1..Len(got) : got[i] = o + i
        /\ Len(got) = IF o >= size THEN 0 ELSE Least(l, size - o)
    <3>1. CASE l = 0
      <4>1. range_len = 0
        BY <1>2, <1>3, <1>5, <3>1, Served
      <4>2. wanted = 0
        BY <1>3, <1>4, <3>1, <4>1
      <4>3. PICK d : d = local.data
        OBVIOUS
      <4>4. d \in Seq(0..MaxSize)
        BY <1>1, <4>3 DEF RangeTypeOK
      <4>5. PICK e : e = Least(o, Len(d))
        OBVIOUS
      <4>6. e \in Int /\ e <= o
        BY <1>5, <4>4, <4>5 DEF Least
      <4>7. \A i \in (o + 1)..e : d[i] \in 0..MaxSize
        BY <1>5, <4>6
      <4>8. got = SubSeq(d, o + 1, e)
        <5>1. o + wanted = o
          BY <1>5, <4>2
        <5> QED BY ONLY <1>3, <4>3, <4>5, <5>1 DEF ReadAt
      <4>9. got \in Seq(0..MaxSize)
        BY ONLY <1>5, <4>6, <4>7, <4>8, SubSeqProperties
      <4> QED BY <1>5, <1>7, <3>1, <4>2, <4>9 DEF Least
    <3>2. CASE l > 0
      <4>1. local.exists /\ Len(local.data) = size
        BY <1>1, <1>2, <1>3, <3>2 DEF CallInv
      <4>2. wanted \in Nat /\ wanted <= l /\ wanted > 0
        BY <1>2, <1>3, <1>4, <1>5, <3>2, Served
      <4>3. o + wanted <= size
        <5>1. CASE call.via # "local"
          BY <1>2, <1>3, <1>4, <4>2, <5>1, Served
        <5>2. CASE call.via = "local"
          <6>1. PICK d, e : d = local.data /\ e = Least(o + wanted, size)
            OBVIOUS
          <6>2. /\ d \in Seq(0..MaxSize) /\ Len(d) = size
                /\ e \in Int /\ e <= size /\ (e = o + wanted \/ e = size)
            BY <1>1, <1>5, <4>1, <4>2, <6>1 DEF RangeTypeOK, Least
          <6>3. got = SubSeq(d, o + 1, e)
            BY ONLY <1>3, <4>1, <6>1 DEF ReadAt
          <6>4. \A i \in (o + 1)..e : d[i] \in 0..MaxSize
            <7> SUFFICES ASSUME NEW i \in (o + 1)..e PROVE d[i] \in 0..MaxSize
              OBVIOUS
            <7>1. i \in 1..Len(d)
              BY <1>5, <6>2
            <7>2. MaxSize \in Nat
              BY <1>1 DEF FileTypes
            <7> QED BY ONLY <6>2, <7>1, <7>2
          <6>5. Len(got) = IF o + 1 <= e THEN e - (o + 1) + 1 ELSE 0
            BY ONLY <1>5, <6>2, <6>3, <6>4, SubSeqProperties
          <6> QED BY ONLY <1>5, <1>7, <4>2, <6>2, <6>5
        <5> QED BY <5>1, <5>2
      <4>4. /\ ReadAt(o, wanted) \in Seq(0..MaxSize)
            /\ \A i \in 1..wanted : ReadAt(o, wanted)[i] = o + i
        <5>1. /\ rpc = "read" /\ call.length > 0 /\ call.offset <= o
              /\ o + wanted <= call.offset + call.length
          BY ONLY <1>2, <1>3, <1>5, <3>2, <4>2
        <5> QED BY ONLY RangeInv, <1>5, <4>2, <4>3, <5>1, Found
      <4>5. wanted = IF o >= size THEN 0 ELSE Least(l, size - o)
        <5>1. CASE call.via # "local"
          BY <1>2, <1>3, <1>4, <5>1, Served
        <5>2. CASE call.via = "local"
          BY <1>4, <1>5, <4>2, <4>3, <5>2 DEF Least
        <5> QED BY <5>1, <5>2
      <4> QED BY <1>3, <1>7, <4>4, <4>5
    <3> QED BY <1>5, <3>1, <3>2
  <2>2. got = SubSeq(Source, o + 1, Least(o + l, size))
    BY <1>1, <1>3, <2>1, Exact
  <2>3. RangeIsExact'
    BY <1>2, <1>3, <1>7, <2>2, SameCall DEF RangeIsExact
  <2>4. RangeTypeOK'
    BY FilesStay, <1>1, <1>2, <1>7, <2>1, UNCHANGED vars DEF RangeTypeOK
  <2> QED BY <1>2, <2>3, <2>4, FilesStay DEF RangeInv, OnlyLongRangeStrays, CallInv
<1> QED BY <1>4, <1>6, <1>7

-----------------------------------------------------------------------------
\* A behaviour is of one kind: a whole file is transferred with the variables of
\* the range calls at rest, or ranges are with those of the whole file at rest.
BothInv == IF kind = "file" THEN FileInv /\ RangeTypeOK /\ rpc = "idle" /\ rrc = "none"
                            ELSE kind = "range" /\ FileInv /\ RangeInv

LEMMA BothInitHolds == BothInit => BothInv
<1> SUFFICES ASSUME BothInit PROVE BothInv
  OBVIOUS
<1>1. Source \in Seq(1..MaxSize) /\ Len(Source) = size /\ \A i \in 1..size : Source[i] = i
  <2>1. size \in Nat /\ size <= MaxSize /\ MaxSize \in Nat
    BY SizesAssumption DEF BothInit, Init
  <2> QED BY <2>1, SourceIs
<1>2. TypeOK /\ CleanCopy
  <2>1. full \in BOOLEAN
    BY DEF BothInit, Init
  <2>2. /\ pc = "read" /\ size \in 1..MaxSize /\ buffer = <<>> /\ written = 0
        /\ file = <<>> /\ errors = 0 /\ rc = "none"
    BY DEF BothInit, Init
  <2>3. 0 \in (-MaxErrors)..MaxSize /\ 0 \in 0..MaxErrors /\ size \in Nat
    BY <2>2, SizesAssumption
  <2> QED BY ONLY <2>1, <2>2, <2>3 DEF TypeOK, CleanCopy
<1>3. FileInv
  BY <1>2, SizesAssumption DEF BothInit, Init, FileInv, TypeOK
<1>4. /\ local = [exists |-> staged, data |-> IF staged THEN Source ELSE <<>>]
      /\ bitmap = [bytes |-> 0, bits |-> {}] /\ staged \in BOOLEAN
  BY DEF BothInit, RangeInit
<1>5. /\ local = [exists |-> local.exists, data |-> local.data] /\ local.exists \in BOOLEAN
      /\ bitmap = [bytes |-> bitmap.bytes, bits |-> bitmap.bits]
      /\ bitmap.bits = {} /\ bitmap.bytes = 0
  BY <1>4
<1>6. /\ local.data \in Seq(0..MaxSize) /\ Len(local.data) \in {0, size}
      /\ staged => local.exists /\ Len(local.data) = size /\ \A i \in 1..size : local.data[i] = i
  <2>1. CASE staged
    <3>1. local.data = Source /\ local.exists
      BY <1>4, <2>1
    <3>2. MaxSize \in Nat
      BY SizesAssumption
    <3>3. Source \in Seq(0..MaxSize)
      BY <1>1, <3>2
    <3> QED BY <1>1, <3>1, <3>3
  <2>2. CASE ~staged
    <3>1. local.data = <<>>
      BY <1>4, <2>2
    <3> QED BY <2>2, <3>1
  <2> QED BY <2>1, <2>2
<1>7. RangeTypeOK
  BY <1>5, <1>6, RangeAssumption DEF BothInit, RangeInit, RangeTypeOK, InBytes, Call, Servers
<1>8. FilesInv
  BY <1>5, <1>6 DEF FilesInv
<1>9. CallInv /\ OnlyLongRangeStrays /\ RangeIsExact
  BY DEF BothInit, RangeInit, CallInv, OnlyLongRangeStrays, RangeIsExact
<1> QED BY <1>2, <1>3, <1>7, <1>8, <1>9 DEF BothInv, RangeInv, BothInit, RangeInit

\* The range calls at rest.
LEMMA RangeStutters ==
    ASSUME RangeTypeOK, UNCHANGED rangeVars, size' = size
    PROVE  RangeTypeOK'
BY DEF RangeTypeOK, rangeVars, InBytes, range_cache_bitmap_bytes, range_cache_num_blocks

\* The whole file at rest.
LEMMA FileStutters ==
    ASSUME FileInv, UNCHANGED vars
    PROVE  FileInv'
BY DEF FileInv, TypeOK, CleanCopy, Source, vars

LEMMA BothStep == BothInv /\ [BothNext]_<<vars, rangeVars>> => BothInv'
<1> SUFFICES ASSUME BothInv, [BothNext]_<<vars, rangeVars>> PROVE BothInv'
  OBVIOUS
<1>1. CASE kind = "file" /\ Next /\ UNCHANGED rangeVars
  <2>1. FileInv /\ RangeTypeOK /\ rpc = "idle" /\ rrc = "none"
    BY <1>1 DEF BothInv
  <2>2. FileInv' /\ size' = size
    BY <1>1, <2>1, FileStep
  <2>3. RangeTypeOK'
    BY <1>1, <2>1, <2>2, RangeStutters
  <2> QED BY <1>1, <2>1, <2>2, <2>3 DEF BothInv, rangeVars
<1>2. CASE RangeNext /\ UNCHANGED vars
  <2>1. CASE kind = "file"
    <3>1. FALSE
      BY <1>2, <2>1 DEF BothInv, RangeNext, RangeCall, RangeStep, RangeLook, RangeRecheck,
         RangeFetch, RangeRecord, RangeReadChunk, RangeReadDone, RangeReadOnce, RangeFails,
         SizeFilesFails, RangeEnded
    <3> QED BY <3>1
  <2>2. CASE kind = "range"
    <3>1. RangeInv /\ FileInv
      BY <2>2 DEF BothInv
    <3>2. kind' = "range"
      BY <1>2, <2>2 DEF RangeNext, RangeCall, RangeStep, RangeLook, RangeRecheck,
         RangeFetch, RangeRecord, RangeReadChunk, RangeReadDone, RangeReadOnce, RangeFails,
         SizeFilesFails, RangeEnded, rangeVars
    <3>3. RangeEnded => RangeInv'
      <4> SUFFICES ASSUME RangeEnded PROVE RangeInv'
        OBVIOUS
      <4>1. UNCHANGED rangeVars /\ UNCHANGED vars
        BY <1>2 DEF RangeEnded
      <4>2. TypeOK' /\ FilesInv'
        BY <3>1, <4>1, FilesStay DEF rangeVars
      <4>3. RangeTypeOK'
        BY <3>1, <4>1, RangeStutters DEF RangeInv, vars
      <4>4. CallInv' /\ OnlyLongRangeStrays' /\ RangeIsExact'
        BY <3>1, <4>1 DEF RangeEnded, RangeInv, CallInv, OnlyLongRangeStrays, RangeIsExact,
           rangeVars, vars, Source
      <4> QED BY <4>2, <4>3, <4>4 DEF RangeInv
    <3>4. RangeInv'
      BY <1>2, <3>1, <3>3, CallKeeps, FailKeeps, LookKeeps, RecheckKeeps, FetchKeeps,
         RecordKeeps, ReadChunkKeeps, ReadDoneKeeps, ReadOnceKeeps, SizeFailsKeeps
         DEF RangeNext, RangeStep
    <3> QED BY <1>2, <3>1, <3>2, <3>4, FileStutters DEF BothInv
  <2> QED BY <2>1, <2>2 DEF BothInv
<1>3. CASE UNCHANGED <<vars, rangeVars>>
  <2>1. FileInv /\ RangeTypeOK
    BY DEF BothInv, RangeInv
  <2>2. FileInv' /\ size' = size
    BY <1>3, <2>1, FileStutters DEF vars
  <2>3. RangeTypeOK'
    BY <1>3, <2>1, <2>2, RangeStutters
  <2>4. CASE kind = "file"
    BY <1>3, <2>2, <2>3, <2>4 DEF BothInv, rangeVars
  <2>5. CASE kind = "range"
    <3>1. RangeInv
      BY <2>5 DEF BothInv
    <3>2. TypeOK' /\ FilesInv'
      BY <1>3, <3>1, FilesStay DEF rangeVars
    <3>3. CallInv'
      <4>1. /\ Blocks' = Blocks /\ range_cache_bitmap_bytes' = range_cache_bitmap_bytes
            /\ \A i : Asked(i)' <=> Asked(i)
        BY <1>3, SameCall DEF rangeVars
      <4>2. UNCHANGED <<rpc, staged, call, out, bitmap, local, size>>
        BY <1>3 DEF rangeVars, vars
      <4> QED BY <3>1, <4>1, <4>2 DEF RangeInv, CallInv, BlockOf
    <3>4. OnlyLongRangeStrays' /\ RangeIsExact'
      BY <1>3, <3>1 DEF RangeInv, OnlyLongRangeStrays, RangeIsExact, rangeVars, vars, Source
    <3> QED BY <1>3, <2>2, <2>3, <2>5, <3>2, <3>3, <3>4 DEF BothInv, RangeInv, rangeVars
  <2> QED BY <2>4, <2>5 DEF BothInv
<1> QED BY <1>1, <1>2, <1>3 DEF BothNext

LEMMA BothInvariant == BothSpec => []BothInv
BY BothInitHolds, BothStep, PTL DEF BothSpec

\* The loops over chunks never leave the file, the buffer or the local copy, and a
\* whole-file transfer in which no write() failed has copied the file, whatever the
\* size of the file and of the chunks.
THEOREM TransfersAreSound == BothSpec => []TransferSound
<1>1. BothInv => TransferSound
  BY DEF BothInv, FileInv, RangeInv, TransferSound
<1> QED BY <1>1, BothInvariant, PTL

\* dyad_consume_range() and dyad.fetch_range hand over the bytes that were asked
\* for or fail, for any sizes of file, block, bitmap byte and chunk, any number of
\* calls, and wherever earlier ones were cut short.
THEOREM RangesAreExact == BothSpec => []RangeIsExact
<1>1. BothInv => RangeIsExact
  BY DEF BothInv, RangeInv, RangeIsExact
<1> QED BY <1>1, BothInvariant, PTL

\* Only a range that ends beyond the origin makes dyad_range_cache_ensure() index
\* past its bitmap buffer.
THEOREM StraysOnlyBeyondEnd == BothSpec => []OnlyLongRangeStrays
<1>1. BothInv => OnlyLongRangeStrays
  BY DEF BothInv, RangeInv, OnlyLongRangeStrays
<1> QED BY <1>1, BothInvariant, PTL
=============================================================================
