------------------------------- MODULE MCParts -------------------------------
(***************************************************************************)
(* The parts of the framework that share no state and have no deadline,    *)
(* side by side: the events of IOManager, the parsers of the HTTP client   *)
(* and server, the pool and the byte array.  One of them, `part', runs in  *)
(* each behaviour, the others stand still.                                 *)
(***************************************************************************)
EXTENDS MCIOManager, Uri, HttpSession, HttpConnection, HttpConnectionPool, ByteArray

CONSTANT Parts

VARIABLE part

PartsInit ==
    /\ Init /\ UriInit /\ RequestInit /\ ResponseInit /\ PoolInit /\ ByteInit
    /\ part \in Parts
    /\ part # "events" => use = Reading
    /\ part # "request" => rrelaxed = FALSE

PartsNext ==
    \/ /\ part = "events" /\ Next
       /\ UNCHANGED <<uriVars, requestVars, responseVars, poolVars, byteVars, part>>
    \/ /\ part = "uri" /\ UriNext
       /\ UNCHANGED <<vars, requestVars, responseVars, poolVars, byteVars, part>>
    \/ /\ part = "request" /\ RequestNext
       /\ UNCHANGED <<vars, uriVars, responseVars, poolVars, byteVars, part>>
    \/ /\ part = "response" /\ ResponseNext
       /\ UNCHANGED <<vars, uriVars, requestVars, poolVars, byteVars, part>>
    \/ /\ part = "pool" /\ PoolNext
       /\ UNCHANGED <<vars, uriVars, requestVars, responseVars, byteVars, part>>
    \/ /\ part = "bytearray" /\ ByteNext
       /\ UNCHANGED <<vars, uriVars, requestVars, responseVars, poolVars, part>>

PartsSpec ==
    /\ PartsInit
    /\ [][PartsNext]_<<vars, uriVars, requestVars, responseVars, poolVars, byteVars, part>>

AllParts == {"events", "uri", "request", "response", "pool", "bytearray"}

\* ByteArray: the smallest and the largest value of three bits, and those
\* next to 0; strings of no, one and more bytes than a block has.
SomeInts == {-4, -1, 0, 3}
SomeWords == {<<>>, <<1>>, <<2, 3, 1>>}

\* Sizes that an int of three bits holds, with and without the two bytes that
\* follow a chunk, that it truncates to a negative number, to 0 or to a smaller
\* one, and that a long of five bits does not hold, or not as a signed one.
SomeSizes == {0, 1, 2, 4, 7, 8, 9, 15, 16, 32}
=============================================================================
