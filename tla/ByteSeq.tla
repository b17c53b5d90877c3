------------------------------- MODULE ByteSeq -------------------------------
(***************************************************************************)
(* What a ByteArray promises: a sequence of bytes and a position in it.    *)
(* Blocks, and the cursor into them, are not part of it.                   *)
(***************************************************************************)
EXTENDS Integers, Sequences

VARIABLES
    bytes,   \* the data
    at,      \* the position: how many bytes are before it
    got      \* the last operation: [res, raw], raw the bytes it moved

SeqInit == bytes = <<>> /\ at = 0 /\ got = [res |-> "ok", raw |-> <<>>]

\* Bytes are written at the position, over what is there or behind the end.
Put ==
    /\ at' >= at
    /\ Len(bytes') = IF at' > Len(bytes) THEN at' ELSE Len(bytes)
    /\ \A i \in 1..Len(bytes) : (i <= at \/ i > at') => bytes'[i] = bytes[i]
    /\ got' = [res |-> "ok", raw |-> SubSeq(bytes', at + 1, at')]

\* Bytes are read.  A read of several parts may run out of data in the middle:
\* it throws, and the parts it has read are gone.
Take ==
    /\ at' \in at..Len(bytes)
    /\ got'.res \in {"ok", "throws"}
    /\ got'.raw = SubSeq(bytes, at + 1, at')
    /\ UNCHANGED bytes

\* The position moves; moved behind the end, it takes the end with it, and the
\* bytes between are whatever the memory holds.
Seek ==
    /\ Len(bytes') = IF at' > Len(bytes) THEN at' ELSE Len(bytes)
    /\ SubSeq(bytes', 1, Len(bytes)) = bytes
    /\ got' = [res |-> "ok", raw |-> <<>>]

Clear == bytes' = <<>> /\ at' = 0 /\ got' = [res |-> "ok", raw |-> <<>>]

\* An empty read behind the last byte, the one operation that may end the
\* process.
EmptyRead ==
    /\ at' = at + Len(got'.raw) /\ at' = Len(bytes)
    /\ got'.res = "crash" /\ got'.raw = SubSeq(bytes, at + 1, at')
    /\ UNCHANGED bytes

SeqNext == got.res # "crash" /\ (Put \/ Take \/ Seek \/ Clear \/ EmptyRead)

SeqSpec == SeqInit /\ [][SeqNext]_<<bytes, at, got>>

=============================================================================
