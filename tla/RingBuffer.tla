----------------------------- MODULE RingBuffer -----------------------------
(***************************************************************************)
(* NetworkBuffer over Buffer (network_buffer.cpp, base_buffer.cpp): the    *)
(* ring that holds the bytes of one direction of a connection.  A ring is  *)
(* a record of the fields of the C++ object; _buffer is a function from    *)
(* offsets to bytes.  _beginIndex = _endIndex means empty or full, and     *)
(* only _dataSize tells which.  A byte is opaque here; Junk is what        *)
(* new char[] leaves in a fresh allocation.                                *)
(***************************************************************************)
EXTENDS Integers, Sequences

CONSTANTS
    Additional,   \* ADDITIONAL_SIZE: bytes gained by one reallocation
    Junk          \* an uninitialised byte

ASSUME AdditionalAssumption == Additional \in Nat \ {0}

NewRing(size) ==
    [buf |-> [i \in 0 .. size - 1 |-> Junk], size |-> size,
     begin |-> 0, end |-> 0, data |-> 0]

\* The object goes back to its pool: the allocation and the bytes in it stay.
BackToPool(r) == [r EXCEPT !.begin = 0, !.end = 0, !.data = 0]

GetEmptySize(r) == r.size - r.data
GetWriteSize(r) == IF r.begin <= r.end THEN r.size - r.end ELSE r.begin - r.end
GetReadSize(r) ==
    IF r.data <= 0 THEN 0
    ELSE IF r.begin < r.end THEN r.end - r.begin ELSE r.size - r.begin

FillData(r, n) ==
    [r EXCEPT !.data = @ + n,
              !.end = IF r.size - r.end <= n THEN n - (r.size - r.end) ELSE @ + n]

RemoveData(r, n) ==
    [r EXCEPT !.data = @ - n,
              !.begin = IF @ + n >= r.size THEN n - (r.size - @) ELSE @ + n]

\* The data moves to the front of a larger allocation.
ReAllocBuffer(r) ==
    LET straight == r.begin < r.end
        kept == IF straight THEN r.end - r.begin
                ELSE IF r.begin = r.end /\ r.data <= 0 THEN 0
                ELSE r.size - r.begin + r.end
        Copy(i) == IF straight \/ r.begin + i < r.size
                   THEN r.buf[r.begin + i] ELSE r.buf[i - (r.size - r.begin)]
    IN [r EXCEPT !.buf = [i \in 0 .. r.size + Additional - 1 |->
                              IF i < kept THEN Copy(i) ELSE Junk],
                 !.size = @ + Additional, !.begin = 0, !.end = kept]

\* The first n bytes, read in one or two copies; nothing is removed.
MemcpyFromBuffer(r, n) ==
    [i \in 1 .. n |-> IF i <= GetReadSize(r) THEN r.buf[r.begin + i - 1]
                      ELSE r.buf[i - GetReadSize(r) - 1]]

\* Mutant: the second copy is forgotten.
MemcpyToBuffer_Once(r, bytes) ==
    LET n == Len(bytes)
        w == GetWriteSize(r)
        tail == IF w < n THEN w ELSE n
    IN FillData([r EXCEPT !.buf = [i \in 0 .. r.size - 1 |->
                     IF r.end <= i /\ i < r.end + tail THEN bytes[i - r.end + 1]
                     ELSE r.buf[i]]], n)

\* bytes written at the end index in one or two copies, then FillData.
MemcpyToBuffer(r, bytes) ==
    LET n == Len(bytes)
        w == GetWriteSize(r)
        tail == IF w < n THEN w ELSE n
    IN FillData([r EXCEPT !.buf = [i \in 0 .. r.size - 1 |->
                     IF r.end <= i /\ i < r.end + tail THEN bytes[i - r.end + 1]
                     ELSE IF i < n - tail THEN bytes[i + tail + 1]
                     ELSE r.buf[i]]], n)

\* ::recv puts bytes at _buffer + _endIndex, then FillData.
RecvInto(r, bytes) ==
    FillData([r EXCEPT !.buf = [i \in 0 .. r.size - 1 |->
                  IF r.end <= i /\ i < r.end + Len(bytes)
                  THEN bytes[i - r.end + 1] ELSE r.buf[i]]], Len(bytes))

-----------------------------------------------------------------------------
\* What the ring promises: the indices stay inside the allocation and differ
\* by the number of bytes held.
RingOK(r) ==
    /\ r.size \in Nat \ {0} /\ r.data \in 0 .. r.size
    /\ r.begin \in 0 .. r.size - 1 /\ r.end \in 0 .. r.size - 1
    /\ r.end = IF r.begin + r.data < r.size THEN r.begin + r.data
               ELSE r.begin + r.data - r.size

\* The bytes held, oldest first.
Content(r) ==
    [i \in 1 .. r.data |-> IF r.begin + i - 1 < r.size THEN r.buf[r.begin + i - 1]
                           ELSE r.buf[r.begin + i - 1 - r.size]]
=============================================================================
