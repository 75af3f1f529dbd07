---------------------------- MODULE RangeTransfer ----------------------------
(***************************************************************************)
(* The bytes of range requests: calls of dyad_consume_range() and of the   *)
(* module's dyad.fetch_range, one after the other, on one local copy that  *)
(* dyad_range_cache_ensure() fills from the origin block by block.  This   *)
(* module is about the arithmetic (offsets, blocks, bitmap bytes, clamping *)
(* and chunks); what concurrent callers do to each other is in RangeCache. *)
(* A byte is its offset in the origin plus one, 0 is a hole.  The other    *)
(* kind of transfer, the whole file, is the one of Transfer; a behaviour   *)
(* is of one kind.                                                         *)
(***************************************************************************)
EXTENDS Transfer, FiniteSets

CONSTANTS
    BlockSize,     \* DYAD_RANGE_CACHE_BLOCK_SIZE
    BitsPerByte,   \* the 8 of the bitmap code, smaller so that it matters
    MaxOffset,     \* bound: offset a call asks for
    MaxLength,     \* bound: length a call asks for
    MaxCalls       \* bound: calls

ASSUME RangeAssumption ==
    /\ BlockSize \in Nat \ {0} /\ BitsPerByte \in Nat \ {0}
    /\ MaxOffset \in Nat /\ MaxLength \in Nat /\ MaxCalls \in Nat

VARIABLES
    kind,     \* "file" or "range": which transfers this behaviour is about
    staged,   \* no origin_path: the file is local already
    rpc,      \* control of the range call
    call,     \* offset, length and who serves it
    calls,    \* calls so far
    local,    \* the local copy
    bitmap,   \* the .dyad_cached file: its size and the bits set in it
    out,      \* what the call has read
    rrc       \* what the call returned

rangeVars == <<kind, staged, rpc, call, calls, local, bitmap, out, rrc>>

\* "worker": dyad_fetch_worker_process(); "callback": the synchronous path of
\* dyad_fetch_range_request_cb(); "local": dyad_consume_range() itself.
Servers == {"worker", "callback", "local"}

Call == [offset : 0..MaxOffset, length : 0..MaxLength, via : Servers]

-----------------------------------------------------------------------------
(* The arithmetic of range_cache.c.                                        *)

range_cache_num_blocks == (size + BlockSize - 1) \div BlockSize

\* Variant: the last, partly used byte of the bitmap is forgotten.
BitmapBytesFloor == range_cache_num_blocks \div BitsPerByte

range_cache_bitmap_bytes ==
    (range_cache_num_blocks + BitsPerByte - 1) \div BitsPerByte

block_start == call.offset \div BlockSize

block_end == (call.offset + call.length - 1) \div BlockSize

Blocks == block_start..block_end

\* The bits in the first n bytes of a bitmap.
InBytes(bits, n) == {b \in bits : b \div BitsPerByte < n}

\* The loop runs past a bitmap of that many bytes.
Strays(bytes) == block_end \div BitsPerByte >= bytes

span_off == block_start * BlockSize

\* Variant: the last block is left out.
SpanEndShort == Least(block_end * BlockSize, size)

span_end == Least((block_end + 1) * BlockSize, size)

\* What the local copy is sized to.
LocalSize == size

\* ftruncate() to n bytes.
Sized(data, n) == [i \in 1..n |-> IF i <= Len(data) THEN data[i] ELSE 0]

\* pwrite() of n bytes of the origin at offset from.
Filled(data, from, n) ==
    [i \in DOMAIN data |-> IF i \in (from + 1)..(from + n) THEN i ELSE data[i]]

-----------------------------------------------------------------------------
RangeTypeOK ==
    /\ kind \in {"file", "range"} /\ staged \in BOOLEAN
    /\ rpc \in {"idle", "look", "recheck", "fetch", "record", "read", "crashed"}
    /\ call \in Call /\ calls \in 0..MaxCalls
    /\ local.exists \in BOOLEAN
    /\ local.data \in Seq(0..MaxSize) /\ Len(local.data) \in {0, size}
    /\ bitmap.bytes \in {0, range_cache_bitmap_bytes}
    /\ bitmap.bits = InBytes(bitmap.bits, bitmap.bytes)
    /\ out \in Seq(0..MaxSize)
    /\ rrc \in {"none", "OK", "BADFIO"}

RangeInit ==
    /\ staged \in BOOLEAN /\ (kind = "file" => ~staged)
    /\ rpc = "idle"
    /\ call = [offset |-> 0, length |-> 0, via |-> "local"]
    /\ calls = 0
    /\ local = [exists |-> staged, data |-> IF staged THEN Source ELSE <<>>]
    /\ bitmap = [bytes |-> 0, bits |-> {}]
    /\ out = <<>>
    /\ rrc = "none"

Return(code) == rpc' = "idle" /\ rrc' = code

\* The call.  dyad_range_cache_ensure() has nothing to do without an origin
\* and for an empty range.
RangeCall ==
    /\ kind = "range" /\ rpc = "idle"
    /\ calls < MaxCalls /\ calls' = calls + 1
    /\ call' \in Call
    /\ rpc' = IF staged \/ call'.length = 0 THEN "read" ELSE "look"
    /\ rrc' = "none" /\ out' = <<>>
    /\ UNCHANGED <<kind, staged, local, bitmap>>

\* An open(), lock, stat(), allocation or pread() of the call fails, or a
\* pread() that must be complete is cut short.
RangeFails ==
    /\ rpc \in {"look", "recheck", "record", "read"}
    /\ Return("BADFIO") /\ out' = <<>>
    /\ UNCHANGED <<kind, staged, call, calls, local, bitmap>>

\* The fast path under the shared lock; a bitmap that is too short, or that
\* cannot be read, is a miss.
RangeLook ==
    /\ rpc = "look"
    /\ \/ ~Strays(bitmap.bytes) /\ Blocks \subseteq bitmap.bits /\ rpc' = "read"
       \/ rpc' = "recheck"
    /\ UNCHANGED <<kind, staged, call, calls, local, bitmap, out, rrc>>

\* First touch: the local copy and then the bitmap are given their sizes.
\* Either ftruncate() may fail, and the call with it.
SizeFiles ==
    \/ /\ bitmap.bytes >= range_cache_bitmap_bytes
       /\ UNCHANGED <<local, bitmap>>
    \/ /\ bitmap.bytes < range_cache_bitmap_bytes
       /\ local' = [exists |-> TRUE, data |-> Sized(local.data, LocalSize)]
       /\ bitmap' = [bitmap EXCEPT !.bytes = range_cache_bitmap_bytes]

SizeFilesFails ==
    /\ rpc = "recheck"
    /\ bitmap.bytes < range_cache_bitmap_bytes
    /\ \/ local' = [local EXCEPT !.exists = TRUE]
       \/ local' = [exists |-> TRUE, data |-> Sized(local.data, LocalSize)]
    /\ Return("BADFIO")
    /\ UNCHANGED <<kind, staged, call, calls, bitmap, out>>

\* The test again, under the exclusive lock, on a buffer of bitmap_bytes: a
\* short pread() leaves zeros in it, and a bit beyond the buffer is whatever
\* lies there, if it can be read at all.
RangeRecheck ==
    /\ rpc = "recheck"
    /\ SizeFiles
    /\ \E n \in 0..range_cache_bitmap_bytes :
        LET seen == InBytes(bitmap.bits, n)
            wild == Blocks \ InBytes(Blocks, range_cache_bitmap_bytes)
        IN  \/ rpc' = IF Blocks \ wild \subseteq seen THEN "read" ELSE "fetch"
            \/ wild # {} /\ rpc' \in {"fetch", "crashed"}
    /\ UNCHANGED <<kind, staged, call, calls, out, rrc>>

\* range_cache_fetch_span(): the blocks up to the end of the origin; pwrite()
\* may stop half way.
RangeFetch ==
    /\ rpc = "fetch"
    /\ \/ /\ span_end > span_off
          /\ local' = [local EXCEPT !.data = Filled(@, span_off, span_end - span_off)]
          /\ rpc' = "record" /\ UNCHANGED rrc
       \/ /\ \E n \in 0..(span_end - span_off - 1) :
                local' = [local EXCEPT !.data = Filled(@, span_off, n)]
          /\ Return("BADFIO")
       \/ /\ Return("BADFIO") /\ UNCHANGED local
    /\ UNCHANGED <<kind, staged, call, calls, bitmap, out>>

\* The read-modify-write of the bitmap.  The pread() is not looked at, a
\* pwrite() that is cut short is an error, and the loop that sets the bits
\* writes past the buffer if the blocks do.
RangeRecord ==
    /\ rpc = "record"
    /\ \/ \E n, w \in 0..range_cache_bitmap_bytes :
            LET merged == InBytes(InBytes(bitmap.bits, n) \cup Blocks,
                                  range_cache_bitmap_bytes)
            IN  /\ bitmap' = [bitmap EXCEPT
                     !.bits = InBytes(merged, w) \cup (@ \ InBytes(@, w))]
                /\ IF w = range_cache_bitmap_bytes
                   THEN rpc' = "read" /\ UNCHANGED rrc
                   ELSE Return("BADFIO")
       \/ Strays(range_cache_bitmap_bytes) /\ rpc' = "crashed" /\ UNCHANGED <<bitmap, rrc>>
    /\ UNCHANGED <<kind, staged, call, calls, local, out>>

\* The length the module serves, clamped to the size of the local copy.
range_len ==
    IF call.offset >= Len(local.data) THEN 0
    ELSE Least(call.length, Len(local.data) - call.offset)

\* pread() of n bytes of the local copy, as far as it goes.
ReadAt(offset, n) == SubSeq(local.data, offset + 1, Least(offset + n, Len(local.data)))

\* The module: the worker always reads in chunks, the synchronous path only
\* at the granularity or above, and below it with one pread().
RangeReadChunk ==
    /\ rpc = "read" /\ local.exists
    /\ \/ call.via = "worker"
       \/ call.via = "callback" /\ range_len >= Granularity
    /\ Len(out) < range_len
    /\ \E inlen \in 1..Least(range_len - Len(out), Granularity) :
        out' = out \o ReadAt(call.offset + Len(out), inlen)
    /\ UNCHANGED <<kind, staged, rpc, call, calls, local, bitmap, rrc>>

RangeReadDone ==
    /\ rpc = "read" /\ local.exists
    /\ call.via \in {"worker", "callback"}
    /\ Len(out) = range_len
    /\ Return("OK")
    /\ UNCHANGED <<kind, staged, call, calls, local, bitmap, out>>

\* One pread() that must give all that was asked for: range_len bytes in the
\* module, length bytes in dyad_consume_range(), which does not clamp.
RangeReadOnce ==
    /\ rpc = "read" /\ local.exists
    /\ \/ call.via = "callback" /\ 0 < range_len /\ range_len < Granularity
       \/ call.via = "local"
    /\ LET wanted == IF call.via = "local" THEN call.length ELSE range_len
           got == ReadAt(call.offset, wanted)
       IN  IF Len(got) = wanted THEN Return("OK") /\ out' = got
                                ELSE Return("BADFIO") /\ out' = <<>>
    /\ UNCHANGED <<kind, staged, call, calls, local, bitmap>>

RangeStep ==
    \/ RangeLook \/ RangeRecheck \/ RangeFetch \/ RangeRecord
    \/ RangeReadChunk \/ RangeReadDone \/ RangeReadOnce
    \/ RangeFails

\* All calls made, or the process died.
RangeEnded ==
    /\ kind = "range"
    /\ \/ rpc = "crashed"
       \/ rpc = "idle" /\ calls = MaxCalls
    /\ UNCHANGED rangeVars

RangeNext == RangeCall \/ RangeStep \/ SizeFilesFails \/ RangeEnded

-----------------------------------------------------------------------------
BothInit == kind \in {"file", "range"} /\ Init /\ RangeInit

BothNext ==
    \/ kind = "file" /\ Next /\ UNCHANGED rangeVars
    \/ RangeNext /\ UNCHANGED vars

\* System calls return, also those that fail, so a call goes on.
BothSpec ==
    /\ BothInit /\ [][BothNext]_<<vars, rangeVars>>
    /\ WF_<<vars, rangeVars>>(kind = "file" /\ Step /\ UNCHANGED rangeVars)
    /\ WF_<<vars, rangeVars>>(RangeStep /\ UNCHANGED vars)
-----------------------------------------------------------------------------
\* A range call that returns DYAD_RC_OK hands over the bytes of the origin, cut
\* off at its end, whatever earlier calls fetched, failed to write half way, or
\* asked for beyond the end, and whatever block and chunk borders it crosses.
RangeIsExact ==
    rpc = "idle" /\ rrc = "OK" =>
        out = SubSeq(Source, call.offset + 1, Least(call.offset + call.length, size))

\* Only a range that ends beyond the origin makes dyad_range_cache_ensure() index
\* past its bitmap buffer.
OnlyLongRangeStrays ==
    rpc = "crashed" => call.offset + call.length > size

\* Every range call returns (or the process dies), also when the files cannot be
\* written.
RangeReturns == rpc # "idle" ~> rpc \in {"idle", "crashed"}

\* A whole-file transfer ends, or it is in the one loop that does not: that of a
\* chunked store whose write() fails on every turn from some turn on, which the
\* test of dyad_cons_store() does not see.
WholeTransferEnds ==
    kind = "file" ~> pc = "done" \/ [](full /\ pc = "write" /\ size >= Granularity)

\* The chunk loops of the whole-file path stay within the file and the buffer and
\* lose or repeat no byte, whatever read() and write() return on the way.
TransferSound == TypeOK /\ RangeTypeOK /\ CleanCopy

\* Every transfer ends, whole file or range, however short its reads and writes
\* are and whichever of its system calls fail, except a chunked store on a file
\* system that takes nothing more (ENOSPC, EIO): dyad_client.c documents
\* DYAD_RC_BADFIO for a write() that failed, and the loop goes on for ever.
EveryTransferEnds == WholeTransferEnds /\ RangeReturns
=============================================================================
