------------------------------ MODULE ABuffer ------------------------------
(***************************************************************************)
(* android::ABuffer of host/frontend/gcastv2/libandroid/ABuffer.cpp: a    *)
(* heap block of mCapacity bytes with a valid range [mRangeOffset,        *)
(* mRangeOffset + mRangeLength).  size_t is W bits wide, so every sum the *)
(* code computes in size_t is taken modulo 2^W.                           *)
(*                                                                         *)
(* The bytes are abstracted to labels: the byte the constructor's block   *)
(* holds at index i is labelled i, and Garbage marks a byte nobody wrote  *)
(* (fresh realloc/malloc memory).  The model only needs to tell whether a *)
(* byte survived a reallocation at the same index.                        *)
(***************************************************************************)
EXTENDS Naturals

CONSTANT W          \* width of size_t in bits

ASSUME W \in Nat \ {0}

SizeT == 2^W
SizeValues == 0..(SizeT - 1)
Garbage == SizeT     \* a label no constructor byte carries

VARIABLES
    capacity,      \* mCapacity
    rangeOffset,   \* mRangeOffset
    rangeLength,   \* mRangeLength
    content,       \* mData[0 .. mCapacity-1], as labels
    hasMeta,       \* mMeta != nullptr
    dataNull,      \* mData == NULL
    status         \* "ok", "aborted" (a CHECK failed) or "crashed"

vars == <<capacity, rangeOffset, rangeLength, content, hasMeta, dataNull,
          status>>

\* The absolute indices of the valid range, data()[0 .. size()-1].
RangeIdx == rangeOffset..(rangeOffset + rangeLength - 1)

\* ABuffer(capacity): mData = malloc(capacity), the range is the block.
Init ==
    \E cap \in SizeValues :
        /\ capacity = cap
        /\ rangeOffset = 0
        /\ rangeLength = cap
        /\ content = [i \in 0..(cap - 1) |-> i]
        /\ hasMeta = FALSE
        /\ dataNull = FALSE
        /\ status = "ok"

\* setRange: both CHECK_LEs compare size_t values; offset + size wraps.
SetRange(offset, size) ==
    /\ status = "ok"
    /\ IF offset <= capacity /\ (offset + size) % SizeT <= capacity
       THEN /\ rangeOffset' = offset
            /\ rangeLength' = size
            /\ UNCHANGED status
       ELSE /\ status' = "aborted"
            /\ UNCHANGED <<rangeOffset, rangeLength>>
    /\ UNCHANGED <<capacity, content, hasMeta, dataNull>>

\* meta(): creates the AMessage on first use.
Meta ==
    /\ status = "ok"
    /\ hasMeta' = TRUE
    /\ UNCHANGED <<capacity, rangeOffset, rangeLength, content, dataNull,
                   status>>

\* Mutant: realloc keeps the old block size.
ReallocKeepsSize(size) == content

\* realloc(mData, size) succeeded: the old bytes stay at their indices.
Reallocated(size) ==
    [i \in 0..(size - 1) |-> IF i < capacity THEN content[i] ELSE Garbage]

\* Mutant: memcpy to newData instead of newData + mRangeOffset.
FallbackCopyUnshifted(size) ==
    [i \in 0..(size - 1) |->
        IF i < rangeLength /\ rangeOffset + i < capacity
        THEN content[rangeOffset + i] ELSE Garbage]

\* realloc failed, malloc(size) succeeded: memcpy(newData + mRangeOffset,
\* data(), size()) copies the range only; bytes read past the old block
\* (a range set past mCapacity) are Garbage, bytes written past the new
\* block are lost.
FallbackCopy(size) ==
    [i \in 0..(size - 1) |->
        IF i \in RangeIdx /\ i < capacity THEN content[i] ELSE Garbage]

\* reserve(size): nothing to do if the block is large enough; otherwise
\* mCapacity = size and the block is reallocated (realloc of a null mData
\* is a malloc).  When realloc and then malloc fail, memcpy writes
\* through a null pointer: a crash, except that copying size() == 0 bytes
\* does nothing on the real build, and the buffer goes on with
\* mData = NULL and mCapacity = size.
Reserve(size) ==
    /\ status = "ok"
    /\ IF capacity >= size
       THEN UNCHANGED <<capacity, content, dataNull, status>>
       ELSE \/ /\ capacity' = size
               /\ content' = Reallocated(size)
               /\ dataNull' = FALSE
               /\ UNCHANGED status
            \/ /\ ~dataNull \/ rangeLength = 0   \* else memcpy reads NULL
               /\ capacity' = size
               /\ content' = FallbackCopy(size)
               /\ dataNull' = FALSE
               /\ UNCHANGED status
            \/ /\ rangeLength = 0
               /\ capacity' = size
               /\ content' = [i \in 0..(size - 1) |-> Garbage]
               /\ dataNull' = TRUE
               /\ UNCHANGED status
            \/ /\ status' = "crashed"       \* the process is gone
               /\ UNCHANGED <<capacity, content, dataNull>>
    /\ UNCHANGED <<rangeOffset, rangeLength, hasMeta>>

Next ==
    \/ \E offset, size \in SizeValues : SetRange(offset, size)
    \/ Meta
    \/ \E size \in SizeValues : Reserve(size)

Spec == Init /\ [][Next]_vars

-----------------------------------------------------------------------------

TypeOK ==
    /\ capacity \in SizeValues
    /\ rangeOffset \in SizeValues
    /\ rangeLength \in SizeValues
    /\ content \in [0..(capacity - 1) -> 0..Garbage]
    /\ hasMeta \in BOOLEAN
    /\ dataNull \in BOOLEAN
    /\ status \in {"ok", "aborted", "crashed"}

\* The range lies inside the block: the contract setRange's CHECK_LEs are
\* there to enforce, and what data() + size() readers rely on.
RangeInBounds ==
    status = "ok" => rangeOffset + rangeLength <= capacity

\* A buffer that did not crash has a block behind its capacity:
\* reserve(size) sets mCapacity = size before it knows an allocation
\* succeeded, and never checks the result of its fallback malloc.
BlockBacksCapacity ==
    status = "ok" /\ capacity > 0 => ~dataNull

\* A reserve that does not crash keeps every byte of a valid range at its
\* index, on the realloc path and on the malloc + memcpy fallback alike.
ReserveKeepsRange ==
    [][ (/\ status' = "ok"
         /\ rangeOffset + rangeLength <= capacity
         /\ capacity' # capacity)
        => \A i \in RangeIdx : content'[i] = content[i] ]_vars
=============================================================================
