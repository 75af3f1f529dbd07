------------------------------ MODULE Transfer -------------------------------
(***************************************************************************)
(* The bytes of one whole-file transfer: the module reads the file into a  *)
(* buffer (dyad_fetch_request_cb), the DTL moves the buffer, and the       *)
(* consumer writes it to its own copy (dyad_cons_store).  Files of at      *)
(* least DYAD_POSIX_TRANSFER_GRANULARITY bytes are read and written in     *)
(* chunks, and each read() and write() may do less than it was asked for.  *)
(* A byte is the offset it had in the producer's file.                     *)
(***************************************************************************)
EXTENDS Integers, Sequences

CONSTANTS
    MaxSize,       \* bound: bytes in the file
    Granularity,   \* DYAD_POSIX_TRANSFER_GRANULARITY
    MaxErrors,     \* bound: failing write() calls that a later one may make up for
    Garbage        \* a byte in front of the buffer

ASSUME SizesAssumption ==
    /\ MaxSize \in Nat \ {0}
    /\ Granularity \in Nat \ {0}
    /\ MaxErrors \in Nat

VARIABLES
    pc,       \* "read", "write" or "done"
    size,     \* file_size on the producer, data_len on the consumer
    buffer,   \* what the module has read so far
    written,  \* written_data of dyad_cons_store()
    file,     \* the consumer's copy
    errors,   \* write() calls that returned 0 or -1 so far
    full,     \* the file system takes nothing more: write() keeps failing
    rc        \* what the transfer returned

vars == <<pc, size, buffer, written, file, errors, full, rc>>

Source == [i \in 1..size |-> i]

Least(a, b) == IF a < b THEN a ELSE b

\* The bytes file_data[from] ... file_data[from + n - 1].
Slice(from, n) ==
    [i \in 1..n |-> IF from + i \in 1..size THEN buffer[from + i] ELSE Garbage]

TypeOK ==
    /\ pc \in {"read", "write", "done"}
    /\ size \in 1..MaxSize
    /\ buffer \in Seq(1..MaxSize) /\ Len(buffer) <= size
    /\ written \in (-MaxErrors)..MaxSize
    /\ file \in Seq(1..MaxSize \cup {Garbage})
    /\ errors \in 0..MaxErrors
    /\ full \in BOOLEAN
    /\ rc \in {"none", "OK", "BADFIO"}

Init ==
    /\ pc = "read"
    /\ size \in 1..MaxSize
    /\ buffer = <<>>
    /\ written = 0
    /\ file = <<>>
    /\ errors = 0
    /\ full = FALSE
    /\ rc = "none"

Finish(code) == pc' = "done" /\ rc' = code

-----------------------------------------------------------------------------
(* dyad_fetch_request_cb().                                                *)

\* A file below the granularity is read with one read(), which must return
\* all of it.
ReadSmall ==
    /\ pc = "read"
    /\ size < Granularity
    /\ \/ buffer' = Source /\ pc' = "write" /\ UNCHANGED rc
       \/ Finish("BADFIO") /\ UNCHANGED buffer
    /\ UNCHANGED <<size, written, file, errors, full>>

\* One turn of the read loop: the rest of the file or one chunk at most.
ReadChunk ==
    /\ pc = "read"
    /\ size >= Granularity
    /\ Len(buffer) < size
    /\ LET read_data == Len(buffer)
           read_size == Least(size - read_data, Granularity)
       IN  \/ \E inlen \in 1..read_size :
                /\ buffer' = buffer \o [i \in 1..inlen |-> read_data + i]
                /\ UNCHANGED <<pc, rc>>
           \/ Finish("BADFIO") /\ UNCHANGED buffer
    /\ UNCHANGED <<size, written, file, errors, full>>

\* The loop is over; send() and recv() move the buffer.
ReadDone ==
    /\ pc = "read"
    /\ size >= Granularity
    /\ Len(buffer) = size
    /\ pc' = "write"
    /\ UNCHANGED <<size, buffer, written, file, errors, full, rc>>

-----------------------------------------------------------------------------
(* dyad_cons_store().                                                      *)

\* send(), recv() or mkdir_as_needed() fails ahead of the first write().
StoreNotBegun ==
    /\ pc = "write"
    /\ written = 0 /\ file = <<>>
    /\ Finish("BADFIO")
    /\ UNCHANGED <<size, buffer, written, file, errors, full>>

\* Small data: one write(), which must take all of it.
WriteSmall ==
    /\ pc = "write"
    /\ size < Granularity
    /\ \E n \in 0..size :
        /\ file' = Slice(0, n)
        /\ Finish(IF n = size THEN "OK" ELSE "BADFIO")
    /\ UNCHANGED <<size, buffer, written, errors, full>>

\* Variant: every chunk is taken from the start of the buffer.
WriteChunkFromStart ==
    /\ pc = "write" /\ ~full
    /\ size >= Granularity
    /\ written < size
    /\ \E n \in 1..Least(size - written, Granularity) :
        /\ file' = file \o Slice(0, n)
        /\ written' = written + n
    /\ UNCHANGED <<pc, size, buffer, errors, full, rc>>

\* One turn of the write loop; write() may take less than the chunk.
WriteChunk ==
    /\ pc = "write" /\ ~full
    /\ size >= Granularity
    /\ written < size
    /\ \E n \in 1..Least(size - written, Granularity) :
        /\ file' = file \o Slice(written, n)
        /\ written' = written + n
    /\ UNCHANGED <<pc, size, buffer, errors, full, rc>>

\* write() returns 0: the loop is left, but rc is still DYAD_RC_OK.
WriteChunkZero ==
    /\ pc = "write" /\ ~full
    /\ size >= Granularity
    /\ written < size
    /\ errors < MaxErrors
    /\ errors' = errors + 1
    /\ Finish("OK")
    /\ UNCHANGED <<size, buffer, written, file, full>>

\* Variant: an error starts the store again from the first byte.
WriteChunkRestarts ==
    /\ pc = "write"
    /\ size >= Granularity
    /\ 0 < written /\ written < size
    /\ written' = 0
    /\ file' = <<>>
    /\ UNCHANGED <<pc, size, buffer, errors, full, rc>>

\* write() returns -1.  written_len is a size_t, so the test for a failure
\* (written_len <= 0) does not see it, and written_data goes back by one.  The
\* failure may pass (EINTR) or last (ENOSPC, EIO).
WriteChunkFails ==
    /\ pc = "write" /\ ~full
    /\ size >= Granularity
    /\ written < size
    /\ errors < MaxErrors
    /\ errors' = errors + 1
    /\ written' = written - 1
    /\ full' \in BOOLEAN
    /\ UNCHANGED <<pc, size, buffer, file, rc>>

\* One more turn of the loop on a file system that takes nothing: the same as
\* above.  written_data falls on (for 2^63 turns); here it is followed down to
\* -MaxErrors, and errors is counted round from 1 to MaxErrors.
WriteChunkFailsAgain ==
    /\ pc = "write" /\ full
    /\ size >= Granularity
    /\ written < size
    /\ errors' = IF errors = MaxErrors THEN 1 ELSE errors + 1
    /\ written' = IF written = -MaxErrors THEN written ELSE written - 1
    /\ UNCHANGED <<pc, size, buffer, file, full, rc>>

WriteDone ==
    /\ pc = "write"
    /\ size >= Granularity
    /\ written = size
    /\ Finish("OK")
    /\ UNCHANGED <<size, buffer, written, file, errors, full>>

Ended == pc = "done" /\ UNCHANGED vars

Step ==
    \/ ReadSmall \/ ReadChunk \/ ReadDone
    \/ WriteSmall \/ WriteChunk \/ WriteChunkFailsAgain \/ WriteDone

Next == Step \/ StoreNotBegun \/ WriteChunkZero \/ WriteChunkFails \/ Ended

-----------------------------------------------------------------------------
\* As long as no write() returns 0 or -1, the copy is the producer's file, byte
\* for byte, however the reads and the writes were cut up.
CleanCopy == rc = "OK" /\ errors = 0 => file = Source
=============================================================================
