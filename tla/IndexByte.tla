----------------------------- MODULE IndexByte -----------------------------
(***************************************************************************)
(* The byte index_producer of a p7r message box: bit 0 is the side that     *)
(* the producer appends to, bit 1 (CP_BUFFER_PRODUCER_BUSY) says that one   *)
(* is at work.  The other side belongs to the consumer.                    *)
(***************************************************************************)
EXTENDS Naturals

Side(i)      == i % 2                            \* normalized_index
OtherSide(i) == 1 - Side(i)                      \* flipped_index
IsBusy(i)    == i >= 2
WithBusy(i)  == IF IsBusy(i) THEN i ELSE i + 2   \* or-fetch of BUSY
NoBusy(i)    == IF IsBusy(i) THEN i - 2 ELSE i   \* and-fetch of ~BUSY

\* The compare-and-exchange of cp_buffer_consume expects the bare side, so it
\* succeeds exactly when BUSY is not set.
CanSwap(i)   == ~ IsBusy(i)
=============================================================================
