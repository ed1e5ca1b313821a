------------------------------ MODULE SqlChunks ------------------------------
(***************************************************************************)
(* How a column's text is read in pieces: the loop of fetch_column_chunks, *)
(* fetch_single_row and append_json_row around SQLGetData, which is asked  *)
(* for Chunk bytes at a time, writes at most Chunk - 1 of them and a       *)
(* terminator, and reports in its indicator how many bytes were left when  *)
(* it was called, not how many it has written.  SQL_SUCCESS_WITH_INFO is   *)
(* how it tells a truncated piece, and any other warning as well.          *)
(***************************************************************************)
EXTENDS Integers, Sequences

CONSTANTS
    Chunk,       \* size of the piece, 4096 or 8192 in the code; at least 2
    MaxLength,   \* bound of a value's length
    TotalKnown   \* the driver reports what is left, or SQL_NO_TOTAL

Null == -1       \* SQL_NULL_DATA
NoTotal == -4    \* SQL_NO_TOTAL

Nul == 0         \* the terminator
Junk == -1       \* a byte the driver has not written

VARIABLES
    length,   \* of the value in the database, Null if there is none
    read,     \* bytes the driver has delivered
    text,     \* the string: numbers of the value's bytes, Nul, Junk
    more      \* has_more_chunks

vars == <<length, read, text, more>>

Left == length - read
Truncates == Left >= Chunk
Written == IF Truncates THEN Chunk - 1 ELSE Left
Indicator == IF Truncates /\ ~TotalKnown THEN NoTotal ELSE Left

\* What lies in the string's memory from its end on, up to n bytes of it:
\* beyond the terminator that is whatever was there before, and beyond the
\* piece it is not the string's (undefined behaviour of resize_and_overwrite).
Memory(n) == [i \in 1..n |-> CASE i <= Written    -> read + i
                               [] i = Written + 1 -> Nul
                               [] OTHER           -> Junk]

Init ==
    /\ length \in {Null} \cup 0..MaxLength
    /\ read = 0 /\ text = <<>> /\ more = TRUE

ReadNull ==
    /\ more /\ length = Null
    /\ more' = FALSE
    /\ UNCHANGED <<length, read, text>>

\* The driver has delivered the value, which was not empty.
Delivered == length > 0 /\ read = length

\* SQL_SUCCESS, or SQL_SUCCESS_WITH_INFO: the piece is truncated or there is a
\* warning of another kind.
ReadPiece ==
    /\ more /\ length # Null /\ ~Delivered
    /\ read' = read + Written
    /\ \E warned \in BOOLEAN :
           IF Indicator > 0
           THEN text' = text \o Memory(Indicator) /\ more' = (Truncates \/ warned)
           ELSE more' = FALSE /\ UNCHANGED text
    /\ UNCHANGED length

\* SQL_NO_DATA: the string keeps its size, has_more_chunks its value, and the
\* loop goes on, for ever.
ReadNoData ==
    /\ more /\ Delivered
    /\ UNCHANGED vars

Done == ~more /\ UNCHANGED vars

Next == ReadNull \/ ReadPiece \/ ReadNoData \/ Done

Spec == Init /\ [][Next]_vars

\* sql.cpp:68 says the loop "robustly chunks large texts without silently
\* truncating": when it ends, the string is the value.
ValueIntact ==
    ~more => text = [i \in 1..(IF length = Null THEN 0 ELSE length) |-> i]

=============================================================================
