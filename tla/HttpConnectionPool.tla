------------------------- MODULE HttpConnectionPool -------------------------
(***************************************************************************)
(* HttpConnectionPool of http_connection.cc: callers in several fibers and *)
(* threads take a connection from m_conns or make one, send a request over *)
(* it, and give it back through the deleter of the shared_ptr, ReleasePtr. *)
(* m_conns is guarded by m_mutex; everything else happens between.         *)
(***************************************************************************)
EXTENDS Naturals, Sequences, FiniteSets

CONSTANTS
    Callers,         \* the fibers that call doRequest
    Conns,           \* the addresses a HttpConnection may have
    m_maxRequest, m_maxAliveTime,
    NowMS            \* what GetcurrentMS() returns, at least

NoConn == "nullptr"

\* m_maxAliveTime has 32 bits; the milliseconds since 1970 need 41.
ASSUME PoolAssumption ==
    /\ IsFiniteSet(Callers) /\ NoConn \notin Conns
    /\ m_maxRequest \in Nat /\ m_maxAliveTime \in Nat
    /\ NowMS \in Nat /\ m_maxAliveTime < NowMS

VARIABLES
    m_conns,         \* the list of connections not in use
    m_total,
    conn,            \* for each address its m_request and isConnected(), or Deleted
    caller           \* for each caller where it is, its connection, invalid_conns

poolVars == <<m_conns, m_total, conn, caller>>

Deleted == [request |-> 0, connected |-> FALSE, exists |-> FALSE]
Idle == [at |-> "idle", ptr |-> NoConn, invalid |-> {}]

Lent == {caller[c].ptr : c \in Callers} \ {NoConn}

\* Nothing sets m_createTime, so that it is 0.
m_createTime == 0

PoolInit ==
    /\ m_conns = <<>> /\ m_total = 0
    /\ conn = [x \in Conns |-> Deleted]
    /\ caller = [c \in Callers |-> Idle]

-----------------------------------------------------------------------------
\* The two tests of the loop in getConnection.
Invalid(x) == ~conn[x].connected \/ m_createTime + m_maxAliveTime > NowMS

\* getConnection under the lock: the first valid connection; those before it are
\* taken out of the list as well.
TakeConnection(c) ==
    LET valid == {i \in DOMAIN m_conns : ~Invalid(m_conns[i])}
        k == IF valid = {} THEN Len(m_conns) + 1
             ELSE CHOOSE i \in valid : \A j \in valid : i <= j
    IN  /\ caller[c].at = "idle"
        /\ m_conns' = SubSeq(m_conns, k + 1, Len(m_conns))
        /\ caller' = [caller EXCEPT ![c] =
                        [at |-> "taken", ptr |-> IF valid = {} THEN NoConn ELSE m_conns[k],
                         invalid |-> {m_conns[i] : i \in 1..(k - 1)}]]
        /\ UNCHANGED <<m_total, conn>>

\* After the lock: the invalid ones are deleted.
DeleteInvalid(c) ==
    /\ caller[c].at = "taken"
    /\ conn' = [x \in Conns |-> IF x \in caller[c].invalid THEN Deleted ELSE conn[x]]
    /\ m_total' = m_total - Cardinality(caller[c].invalid)
    /\ caller' = [caller EXCEPT ![c].at = IF caller[c].ptr = NoConn THEN "connecting" ELSE "using",
                                ![c].invalid = {}]
    /\ UNCHANGED m_conns

\* Look up the address, connect, and make the connection; or one of them fails.
Connected(c) ==
    /\ caller[c].at = "connecting"
    /\ \E x \in {y \in Conns : ~conn[y].exists} :
         /\ conn' = [conn EXCEPT ![x] = [request |-> 0, connected |-> TRUE, exists |-> TRUE]]
         /\ caller' = [caller EXCEPT ![c].at = "using", ![c].ptr = x]
    /\ m_total' = m_total + 1
    /\ UNCHANGED m_conns

NotConnected(c) ==
    /\ caller[c].at = "connecting"
    /\ caller' = [caller EXCEPT ![c] = Idle]
    /\ UNCHANGED <<m_conns, m_total, conn>>

\* doRequest: a response, or sendRequest fails, which closes nothing; or
\* recvResponse fails, which closes the connection.
RequestDone(c) ==
    /\ caller[c].at = "using"
    /\ caller' = [caller EXCEPT ![c].at = "releasing"]
    /\ \/ UNCHANGED conn
       \/ conn' = [conn EXCEPT ![caller[c].ptr].connected = FALSE]
    /\ UNCHANGED <<m_conns, m_total>>

\* Mutant: a connection that has served its requests goes back to the list.
ReleasePtrForever(c) ==
    LET x == caller[c].ptr
        drop == ~conn[x].connected
    IN  /\ caller[c].at = "releasing"
        /\ conn' = [conn EXCEPT ![x] = IF drop THEN Deleted
                                       ELSE [@ EXCEPT !.request = @ + 1]]
        /\ m_total' = IF drop THEN m_total - 1 ELSE m_total
        /\ m_conns' = IF drop THEN m_conns ELSE Append(m_conns, x)
        /\ caller' = [caller EXCEPT ![c] = Idle]

\* ReleasePtr: the connection is deleted, or goes to the end of the list.
ReleasePtr(c) ==
    LET x == caller[c].ptr
        request == conn[x].request + 1
        drop == \/ ~conn[x].connected
                \/ m_createTime + m_maxAliveTime >= NowMS
                \/ request >= m_maxRequest
    IN  /\ caller[c].at = "releasing"
        /\ conn' = [conn EXCEPT ![x] = IF drop THEN Deleted ELSE [@ EXCEPT !.request = request]]
        /\ m_total' = IF drop THEN m_total - 1 ELSE m_total
        /\ m_conns' = IF drop THEN m_conns ELSE Append(m_conns, x)
        /\ caller' = [caller EXCEPT ![c] = Idle]

PoolNext ==
    \E c \in Callers : \/ TakeConnection(c) \/ DeleteInvalid(c) \/ Connected(c)
                       \/ NotConnected(c) \/ RequestDone(c) \/ ReleasePtr(c)

PoolSpec == PoolInit /\ [][PoolNext]_poolVars

-----------------------------------------------------------------------------
(* Properties.                                                             *)

\* The pool keeps account of its connections: every one that exists is either in
\* the list, once, or lent to one caller, and m_total is their number; none
\* serves more requests than m_maxRequest; and although m_maxSize is never
\* looked at, there are never more of them, with those being made, than callers.
PoolAccounts ==
    LET existing == {x \in Conns : conn[x].exists}
        listed == {m_conns[i] : i \in DOMAIN m_conns}
    IN  /\ existing = listed \cup Lent \cup UNION {caller[c].invalid : c \in Callers}
        /\ listed \cap Lent = {}
        /\ Cardinality(listed) = Len(m_conns)
        /\ \A c, d \in Callers : c # d /\ caller[c].ptr # NoConn => caller[c].ptr # caller[d].ptr
        /\ m_total = Cardinality(existing)
        /\ \A x \in existing : conn[x].request < m_maxRequest \/ m_maxRequest = 0
        /\ Cardinality(existing)
             + Cardinality({c \in Callers : caller[c].at = "connecting"}) <= Cardinality(Callers)

-----------------------------------------------------------------------------
(* The inductive invariant behind it.                                      *)

Listed == {m_conns[i] : i \in DOMAIN m_conns}
Existing == {x \in Conns : conn[x].exists}

PoolTypeOK ==
    /\ m_conns \in Seq(Conns)
    /\ conn \in [Conns -> [request : Nat, connected : BOOLEAN, exists : BOOLEAN]]
    /\ caller \in [Callers -> [at : {"idle", "taken", "connecting", "using", "releasing"},
                               ptr : Conns \cup {NoConn}, invalid : SUBSET Conns]]

\* What a caller's position says of its connection.  No connection of the list is
\* invalid, so that getConnection never has one to delete.
CallerInv ==
    \A c \in Callers :
        /\ caller[c].at \in {"idle", "connecting"} => caller[c].ptr = NoConn
        /\ caller[c].at \in {"using", "releasing"} => caller[c].ptr # NoConn
        /\ caller[c].invalid = {}

\* A connection exists in one place, and those of the list are connected.
PlaceInv ==
    /\ Existing = Listed \cup Lent
    /\ Listed \cap Lent = {}
    /\ \A i, j \in DOMAIN m_conns : m_conns[i] = m_conns[j] => i = j
    /\ \A c, d \in Callers : c # d /\ caller[c].ptr # NoConn => caller[c].ptr # caller[d].ptr
    /\ \A x \in Listed : conn[x].connected
    /\ \A x \in Existing : conn[x].request < m_maxRequest \/ m_maxRequest = 0

\* A caller that finds the list empty is busy, and so are those that made it so.
Busy == {c \in Callers : caller[c].at # "idle"}
TotalInv ==
    /\ m_total = Cardinality(Existing)
    /\ Len(m_conns) + Cardinality(Busy) <= Cardinality(Callers)

PoolInv == PoolTypeOK /\ CallerInv /\ PlaceInv /\ TotalInv

=============================================================================
