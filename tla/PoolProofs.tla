----------------------------- MODULE PoolProofs -----------------------------
(***************************************************************************)
(* Proofs about HttpConnectionPool, for any number of callers.             *)
(***************************************************************************)
EXTENDS HttpConnectionPool, FiniteSetTheorems, SequenceTheorems, TLAPS

-----------------------------------------------------------------------------
(* The list.                                                               *)

Rest(s) == SubSeq(s, 2, Len(s))
Elements(s) == {s[i] : i \in DOMAIN s}
Distinct(s) == \A i, j \in DOMAIN s : s[i] = s[j] => i = j

\* The list has a first element and a rest, or is empty.
LEMMA ListHead ==
  ASSUME NEW s \in Seq(Conns), Len(s) > 0, Distinct(s)
  PROVE  /\ Rest(s) \in Seq(Conns) /\ Len(Rest(s)) = Len(s) - 1
         /\ s[1] \in Conns /\ 1 \in DOMAIN s
         /\ Elements(Rest(s)) = Elements(s) \ {s[1]}
         /\ Distinct(Rest(s))
  <1> DEFINE r == Rest(s)
  <1>0. Len(s) \in Nat /\ DOMAIN s = 1..Len(s)  BY LenProperties
  <1>1. \A i \in 1..Len(s) : s[i] \in Conns  BY ElementOfSeq
  <1>2. /\ r \in Seq(Conns) /\ Len(r) = Len(s) - 1
        /\ \A i \in 1..(Len(s) - 1) : r[i] = s[i + 1]
    <2>1. \A i \in 2..Len(s) : s[i] \in Conns  BY <1>0, <1>1
    <2>2. 2 \in Int /\ Len(s) \in Int  BY <1>0
    <2>3. /\ SubSeq(s, 2, Len(s)) \in Seq(Conns)
          /\ Len(SubSeq(s, 2, Len(s))) = IF 2 <= Len(s) THEN Len(s) - 2 + 1 ELSE 0
          /\ \A i \in 1..(Len(s) - 2 + 1) : SubSeq(s, 2, Len(s))[i] = s[2 + i - 1]
      BY <2>1, <2>2, SubSeqProperties
    <2>4. Len(r) = Len(s) - 1  BY <2>3, <1>0 DEF Rest
    <2>5. ASSUME NEW i \in 1..(Len(s) - 1) PROVE r[i] = s[i + 1]
      <3>1. i \in 1..(Len(s) - 2 + 1) /\ 2 + i - 1 = i + 1  BY <1>0
      <3> QED  BY <3>1, <2>3 DEF Rest
    <2> QED  BY <2>3, <2>4, <2>5 DEF Rest
  <1> HIDE DEF r
  <1>3. DOMAIN r = 1..(Len(s) - 1)  BY <1>2, <1>0, LenProperties
  <1>4. 1 \in DOMAIN s  BY <1>0
  <1>5. ASSUME NEW i \in DOMAIN s, s[i] # s[1] PROVE \E j \in DOMAIN r : r[j] = s[i]
    <2>1. i - 1 \in 1..(Len(s) - 1)  BY <1>0, <1>5
    <2>2. r[i - 1] = s[i]
      <3>1. r[i - 1] = s[(i - 1) + 1]  BY <2>1, <1>2
      <3>2. (i - 1) + 1 = i  BY <1>0
      <3> QED  BY <3>1, <3>2
    <2> QED  BY <2>1, <2>2, <1>3
  <1>6. ASSUME NEW j \in DOMAIN r PROVE r[j] \in {s[i] : i \in DOMAIN s} /\ r[j] # s[1]
    <2>1. r[j] = s[j + 1] /\ j + 1 \in DOMAIN s /\ j + 1 # 1  BY <1>0, <1>2, <1>3
    <2> QED  BY <2>1, <1>4 DEF Distinct
  <1>7. ASSUME NEW i \in DOMAIN r, NEW j \in DOMAIN r, r[i] = r[j] PROVE i = j
    <2>1. r[i] = s[i + 1] /\ r[j] = s[j + 1] /\ i + 1 \in DOMAIN s /\ j + 1 \in DOMAIN s
      BY <1>0, <1>2, <1>3
    <2>2. i + 1 = j + 1  BY <2>1, <1>7 DEF Distinct
    <2> QED  BY <2>2, <1>0, <1>3
  <1>8. {r[i] : i \in DOMAIN r} = {s[i] : i \in DOMAIN s} \ {s[1]}
    BY <1>5, <1>6
  <1>9. s[1] \in Conns  BY <1>0, <1>1, <1>4
  <1> QED  BY <1>2, <1>4, <1>7, <1>8, <1>9 DEF r, Elements, Distinct

\* A connection that is not in the list goes to its end.
LEMMA ListAppend ==
  ASSUME NEW s \in Seq(Conns), NEW x \in Conns, x \notin {s[i] : i \in DOMAIN s},
         \A i, j \in DOMAIN s : s[i] = s[j] => i = j,
         NEW r, r = Append(s, x)
  PROVE  /\ r \in Seq(Conns) /\ Len(r) = Len(s) + 1
         /\ {r[i] : i \in DOMAIN r} = {s[i] : i \in DOMAIN s} \cup {x}
         /\ \A i, j \in DOMAIN r : r[i] = r[j] => i = j
  <1>0. Len(s) \in Nat /\ DOMAIN s = 1..Len(s)  BY LenProperties
  <1>1. /\ r \in Seq(Conns) /\ Len(r) = Len(s) + 1
        /\ \A i \in 1..Len(s) : r[i] = s[i]
        /\ r[Len(s) + 1] = x
    BY AppendProperties
  <1>2. DOMAIN r = 1..(Len(s) + 1)  BY <1>0, <1>1, LenProperties
  <1>3. \A i \in DOMAIN r : i \in DOMAIN s \/ i = Len(s) + 1  BY <1>0, <1>2
  <1>4. {r[i] : i \in DOMAIN r} = {s[i] : i \in DOMAIN s} \cup {x}
    BY <1>0, <1>1, <1>2, <1>3
  <1>5. \A i, j \in DOMAIN r : r[i] = r[j] => i = j
    BY <1>0, <1>1, <1>3
  <1> QED  BY <1>1, <1>4, <1>5

-----------------------------------------------------------------------------
(* Who has which connection.                                               *)

\* A caller's record, its parts, and where the others' connections are after
\* the caller's record has changed.
LEMMA LentChange ==
  ASSUME PoolTypeOK, PlaceInv, NEW c \in Callers, NEW r,
         r \in [at : {"idle", "taken", "connecting", "using", "releasing"},
                ptr : Conns \cup {NoConn}, invalid : SUBSET Conns],
         caller' = [caller EXCEPT ![c] = r]
  PROVE  /\ caller' \in [Callers ->
               [at : {"idle", "taken", "connecting", "using", "releasing"},
                ptr : Conns \cup {NoConn}, invalid : SUBSET Conns]]
         /\ caller'[c] = r /\ \A d \in Callers : d # c => caller'[d] = caller[d]
         /\ r.ptr = caller[c].ptr => Lent' = Lent
         /\ caller[c].ptr = NoConn /\ r.ptr # NoConn => Lent' = Lent \cup {r.ptr}
         /\ caller[c].ptr # NoConn /\ r.ptr = NoConn => Lent' = Lent \ {caller[c].ptr}
  <1>1. /\ caller' \in [Callers ->
               [at : {"idle", "taken", "connecting", "using", "releasing"},
                ptr : Conns \cup {NoConn}, invalid : SUBSET Conns]]
        /\ caller'[c] = r /\ \A d \in Callers : d # c => caller'[d] = caller[d]
    BY DEF PoolTypeOK
  <1>2. \A x : x \in Lent <=> x # NoConn /\ \E d \in Callers : caller[d].ptr = x
    BY DEF Lent
  <1>3. \A x : x \in Lent' <=> x # NoConn /\ \E d \in Callers : caller'[d].ptr = x
    BY DEF Lent
  <1>4. r.ptr = caller[c].ptr => Lent' = Lent
    <2> SUFFICES ASSUME r.ptr = caller[c].ptr PROVE Lent' = Lent  OBVIOUS
    <2>1. \A d \in Callers : caller'[d].ptr = caller[d].ptr  BY <1>1
    <2> QED  BY <2>1 DEF Lent
  <1>5. caller[c].ptr = NoConn /\ r.ptr # NoConn => Lent' = Lent \cup {r.ptr}
    BY <1>1, <1>2, <1>3
  <1>6. caller[c].ptr # NoConn /\ r.ptr = NoConn => Lent' = Lent \ {caller[c].ptr}
    <2>1. \A d \in Callers : d # c /\ caller[c].ptr # NoConn => caller[d].ptr # caller[c].ptr
      BY DEF PlaceInv
    <2> QED  BY <1>1, <1>2, <1>3, <2>1
  <1> QED  BY <1>1, <1>4, <1>5, <1>6

\* The sets that are counted are finite.
LEMMA PoolFinite ==
  ASSUME PoolTypeOK, PlaceInv
  PROVE  /\ IsFiniteSet(Existing) /\ Cardinality(Existing) \in Nat
         /\ IsFiniteSet(Busy) /\ Cardinality(Busy) \in Nat
         /\ Cardinality(Callers) \in Nat
         /\ IsFiniteSet(Listed) /\ Cardinality(Listed) = Len(m_conns)
         /\ IsFiniteSet(Lent)
  <1>1. IsFiniteSet(Busy)
    <2>1. Busy \in SUBSET Callers  BY DEF Busy
    <2> QED  BY <2>1, PoolAssumption, FS_Subset
  <1>2. IsFiniteSet(Listed) /\ Cardinality(Listed) = Len(m_conns)
    <2>1. Len(m_conns) \in Nat /\ DOMAIN m_conns = 1..Len(m_conns)
      BY LenProperties DEF PoolTypeOK
    <2> DEFINE f == [i \in 1..Len(m_conns) |-> m_conns[i]]
    <2>2. f \in [1..Len(m_conns) -> Listed]  BY <2>1 DEF Listed
    <2>3. \A i, j \in 1..Len(m_conns) : f[i] = f[j] => i = j  BY <2>1 DEF PlaceInv
    <2>4. \A x \in Listed : \E i \in 1..Len(m_conns) : f[i] = x  BY <2>1 DEF Listed
    <2>5. f \in Bijection(1..Len(m_conns), Listed)
      <3>1. \A i, j \in DOMAIN f : f[i] = f[j] => i = j  BY <2>3
      <3> HIDE DEF f
      <3> QED  BY <2>2, <2>4, <3>1 DEF Bijection, Injection, Surjection, IsInjective
    <2>6. ExistsBijection(1..Len(m_conns), Listed)  BY <2>5 DEF ExistsBijection
    <2> QED  BY <2>1, <2>6, FS_NatBijection, FS_CountingElements
  <1>3. IsFiniteSet(Lent)
    <2> DEFINE S == {caller[c].ptr : c \in Callers}
               f == [c \in Callers |-> caller[c].ptr]
    <2>1. f \in [Callers -> S] /\ \A x \in S : \E c \in Callers : f[c] = x  OBVIOUS
    <2>2. f \in Surjection(Callers, S)  BY <2>1 DEF Surjection
    <2>3. IsFiniteSet(S)  BY <2>2, PoolAssumption, FS_Surjection
    <2>4. Lent \in SUBSET S  BY DEF Lent
    <2> QED  BY <2>3, <2>4, FS_Subset
  <1>4. IsFiniteSet(Existing)
    <2>1. Existing = Listed \cup Lent  BY DEF PlaceInv
    <2> QED  BY <2>1, <1>2, <1>3, FS_Union
  <1> QED  BY <1>1, <1>2, <1>3, <1>4, PoolAssumption, FS_CardinalityType

\* A caller becomes busy or idle, or stays what it is.
LEMMA BusyChange ==
  ASSUME PoolTypeOK, PlaceInv, NEW c \in Callers, NEW at,
         caller'[c].at = at, \A d \in Callers : d # c => caller'[d] = caller[d]
  PROVE  /\ caller[c].at = "idle" /\ at # "idle" => Cardinality(Busy') = Cardinality(Busy) + 1
         /\ caller[c].at # "idle" /\ at = "idle" => Cardinality(Busy') = Cardinality(Busy) - 1
         /\ caller[c].at # "idle" /\ at # "idle" => Cardinality(Busy') = Cardinality(Busy)
  <1>1. \A d : d \in Busy' <=> d \in Callers /\ caller'[d].at # "idle"  BY DEF Busy
  <1>2. \A d : d \in Busy <=> d \in Callers /\ caller[d].at # "idle"  BY DEF Busy
  <1>0. IsFiniteSet(Busy) /\ Cardinality(Busy) \in Nat  BY PoolFinite
  <1>3. CASE caller[c].at = "idle" /\ at # "idle"
    <2>1. Busy' = Busy \cup {c} /\ c \notin Busy  BY <1>1, <1>2, <1>3
    <2> QED  BY <1>0, <1>3, <2>1, FS_AddElement
  <1>4. CASE caller[c].at # "idle" /\ at = "idle"
    <2>1. Busy' = Busy \ {c} /\ c \in Busy  BY <1>1, <1>2, <1>4
    <2> QED  BY <1>0, <1>4, <2>1, FS_RemoveElement
  <1>5. CASE caller[c].at # "idle" /\ at # "idle"
    <2>1. Busy' = Busy  BY <1>1, <1>2, <1>5
    <2> QED  BY <1>5, <2>1
  <1> QED  BY <1>3, <1>4, <1>5

-----------------------------------------------------------------------------
(* The steps.                                                              *)

\* What getConnection takes: the first connection of the list, or none.
LEMMA TakenFirst ==
  ASSUME PoolInv, NEW c \in Callers, TakeConnection(c)
  PROVE  /\ caller[c].at = "idle"
         /\ \/ /\ Len(m_conns) = 0 /\ m_conns' = m_conns
               /\ caller' = [caller EXCEPT ![c] = [at |-> "taken", ptr |-> NoConn, invalid |-> {}]]
            \/ /\ Len(m_conns) > 0 /\ m_conns' = SubSeq(m_conns, 2, Len(m_conns))
               /\ caller' = [caller EXCEPT ![c] = [at |-> "taken", ptr |-> m_conns[1], invalid |-> {}]]
  <1> USE DEF PoolInv
  <1>0. Len(m_conns) \in Nat /\ DOMAIN m_conns = 1..Len(m_conns)
    BY LenProperties DEF PoolTypeOK
  <1> DEFINE valid == {i \in DOMAIN m_conns : ~Invalid(m_conns[i])}
             k == IF valid = {} THEN Len(m_conns) + 1
                  ELSE CHOOSE i \in valid : \A j \in valid : i <= j
  <1>1. /\ caller[c].at = "idle"
        /\ m_conns' = SubSeq(m_conns, k + 1, Len(m_conns))
        /\ caller' = [caller EXCEPT ![c] =
                        [at |-> "taken", ptr |-> IF valid = {} THEN NoConn ELSE m_conns[k],
                         invalid |-> {m_conns[i] : i \in 1..(k - 1)}]]
    BY DEF TakeConnection
  <1>2. valid = DOMAIN m_conns
    <2>1. ASSUME NEW i \in DOMAIN m_conns PROVE ~Invalid(m_conns[i])
      <3>1. conn[m_conns[i]].connected  BY DEF PlaceInv, Listed
      <3>2. ~(m_createTime + m_maxAliveTime > NowMS)  BY PoolAssumption DEF m_createTime
      <3> QED  BY <3>1, <3>2 DEF Invalid
    <2> QED  BY <2>1
  <1>3. k = 1
    <2>1. CASE Len(m_conns) = 0  BY <2>1, <1>0, <1>2
    <2>2. CASE Len(m_conns) > 0
      <3>1. 1 \in valid /\ \A j \in valid : 1 <= j  BY <2>2, <1>0, <1>2
      <3>2. \A i \in valid : (\A j \in valid : i <= j) => i = 1  BY <3>1, <1>0, <1>2
      <3>3. (CHOOSE i \in valid : \A j \in valid : i <= j) = 1
        <4> HIDE DEF valid
        <4> QED  BY <3>1, <3>2
      <3> QED  BY <3>1, <3>3
    <2> QED  BY <1>0, <2>1, <2>2
  <1>4. {m_conns[i] : i \in 1..(k - 1)} = {}  BY <1>3
  <1> HIDE DEF k
  <1>5. m_conns' = SubSeq(m_conns, 2, Len(m_conns))  BY <1>1, <1>3
  <1>6. CASE Len(m_conns) = 0
    <2>1. valid = {}  BY <1>0, <1>2, <1>6
    <2>2. m_conns' = << >>
      <3>1. /\ SubSeq(m_conns, 2, Len(m_conns)) \in Seq(Conns)
            /\ Len(SubSeq(m_conns, 2, Len(m_conns))) = 0
        BY <1>6, SubSeqProperties DEF PoolTypeOK
      <3> QED  BY <1>5, <3>1, EmptySeq
    <2>3. m_conns = << >>  BY <1>6, EmptySeq DEF PoolTypeOK
    <2> HIDE DEF valid
    <2> QED  BY <1>1, <1>4, <1>6, <2>1, <2>2, <2>3
  <1>7. CASE Len(m_conns) > 0
    <2>1. valid # {}  BY <1>0, <1>2, <1>7
    <2> HIDE DEF valid
    <2> QED  BY <1>1, <1>3, <1>4, <1>5, <1>7, <2>1
  <1> QED  BY <1>0, <1>6, <1>7

LEMMA TakeConnectionStep ==
  ASSUME PoolInv, NEW c \in Callers, TakeConnection(c)
  PROVE  PoolInv'
  <1> USE DEF PoolInv
  <1>0. UNCHANGED <<m_total, conn>> /\ caller[c].at = "idle" /\ caller[c].ptr = NoConn
        /\ Len(m_conns) \in Nat
    BY TakenFirst, LenProperties DEF TakeConnection, CallerInv, PoolTypeOK
  <1>1. Existing' = Existing  BY <1>0 DEF Existing
  <1>F. /\ Cardinality(Busy) \in Nat /\ Cardinality(Callers) \in Nat
        /\ IsFiniteSet(Busy)
    BY PoolFinite
  <1>2. CASE /\ Len(m_conns) = 0 /\ m_conns' = m_conns
             /\ caller' = [caller EXCEPT ![c] = [at |-> "taken", ptr |-> NoConn, invalid |-> {}]]
    <2> DEFINE r == [at |-> "taken", ptr |-> NoConn, invalid |-> {}]
    <2>1. /\ caller' \in [Callers ->
               [at : {"idle", "taken", "connecting", "using", "releasing"},
                ptr : Conns \cup {NoConn}, invalid : SUBSET Conns]]
          /\ caller'[c] = r /\ \A d \in Callers : d # c => caller'[d] = caller[d]
          /\ Lent' = Lent
      <3>1. /\ r \in [at : {"idle", "taken", "connecting", "using", "releasing"},
                      ptr : Conns \cup {NoConn}, invalid : SUBSET Conns]
            /\ r.ptr = caller[c].ptr
            /\ caller' = [caller EXCEPT ![c] = r]
        BY <1>0, <1>2
      <3> HIDE DEF r
      <3> QED  BY <3>1, LentChange
    <2>2. PoolTypeOK'  BY <2>1, <1>0, <1>2 DEF PoolTypeOK
    <2>3. CallerInv'  BY <2>1 DEF CallerInv
    <2>4. Listed' = Listed  BY <1>2 DEF Listed
    <2>5. \A d, e \in Callers : d # e /\ caller'[d].ptr # NoConn => caller'[d].ptr # caller'[e].ptr
      BY <2>1, <1>0 DEF PlaceInv
    <2>6. PlaceInv'  BY <2>1, <2>4, <2>5, <1>0, <1>1, <1>2 DEF PlaceInv
    <2>7. TotalInv'
      <3>1. Busy' \in SUBSET Callers  BY DEF Busy
      <3>2. Cardinality(Busy') <= Cardinality(Callers) /\ IsFiniteSet(Busy')
        BY <3>1, PoolAssumption, FS_Subset
      <3>3. Cardinality(Busy') \in Nat  BY <3>2, FS_CardinalityType
      <3> QED  BY <1>0, <1>1, <1>2, <1>F, <3>2, <3>3 DEF TotalInv
    <2> QED  BY <2>2, <2>3, <2>6, <2>7
  <1>3. CASE /\ Len(m_conns) > 0 /\ m_conns' = SubSeq(m_conns, 2, Len(m_conns))
             /\ caller' = [caller EXCEPT ![c] = [at |-> "taken", ptr |-> m_conns[1], invalid |-> {}]]
    <2> DEFINE x == m_conns[1]
               r == [at |-> "taken", ptr |-> x, invalid |-> {}]
    <2>0. /\ m_conns' \in Seq(Conns) /\ Len(m_conns') = Len(m_conns) - 1
          /\ x \in Conns /\ 1 \in DOMAIN m_conns /\ Listed' = Listed \ {x}
          /\ \A i, j \in DOMAIN m_conns' : m_conns'[i] = m_conns'[j] => i = j
      <3>1. m_conns \in Seq(Conns) /\ \A i, j \in DOMAIN m_conns : m_conns[i] = m_conns[j] => i = j
        BY DEF PoolTypeOK, PlaceInv
      <3>2. /\ m_conns' \in Seq(Conns) /\ Len(m_conns') = Len(m_conns) - 1
            /\ x \in Conns /\ 1 \in DOMAIN m_conns
            /\ {m_conns'[i] : i \in DOMAIN m_conns'} = {m_conns[i] : i \in DOMAIN m_conns} \ {x}
            /\ \A i, j \in DOMAIN m_conns' : m_conns'[i] = m_conns'[j] => i = j
        <4>1. m_conns' = Rest(m_conns) /\ Distinct(m_conns)  BY <1>3, <3>1 DEF Rest, Distinct
        <4>2. /\ Rest(m_conns) \in Seq(Conns) /\ Len(Rest(m_conns)) = Len(m_conns) - 1
              /\ m_conns[1] \in Conns /\ 1 \in DOMAIN m_conns
              /\ Elements(Rest(m_conns)) = Elements(m_conns) \ {m_conns[1]}
              /\ Distinct(Rest(m_conns))
          BY <1>3, <3>1, <4>1, ListHead
        <4> QED  BY <4>1, <4>2 DEF Elements, Distinct
      <3> QED  BY <3>2 DEF Listed
    <2>1. x # NoConn /\ x \in Listed  BY <2>0, PoolAssumption DEF Listed
    <2>2. /\ caller' \in [Callers ->
               [at : {"idle", "taken", "connecting", "using", "releasing"},
                ptr : Conns \cup {NoConn}, invalid : SUBSET Conns]]
          /\ caller'[c] = r /\ \A d \in Callers : d # c => caller'[d] = caller[d]
          /\ Lent' = Lent \cup {x}
      <3> HIDE DEF x
      <3>1. /\ r \in [at : {"idle", "taken", "connecting", "using", "releasing"},
                      ptr : Conns \cup {NoConn}, invalid : SUBSET Conns]
            /\ r.ptr = x
            /\ caller' = [caller EXCEPT ![c] = r]
        BY <1>3, <2>0 DEF x
      <3> HIDE DEF r
      <3> QED  BY <1>0, <2>1, <3>1, LentChange
    <2>3. PoolTypeOK'  BY <2>0, <2>2, <1>0 DEF PoolTypeOK
    <2>4. CallerInv'  BY <2>2 DEF CallerInv
    <2>5. \A d \in Callers : caller[d].ptr # x
      BY <2>1 DEF PlaceInv, Lent
    <2>6. \A d, e \in Callers : d # e /\ caller'[d].ptr # NoConn => caller'[d].ptr # caller'[e].ptr
      BY <2>2, <2>5, <1>0 DEF PlaceInv
    <2>7. Existing' = Listed' \cup Lent' /\ Listed' \cap Lent' = {}
      BY <2>0, <2>1, <2>2, <1>1 DEF PlaceInv
    <2>8. PlaceInv'  BY <2>0, <2>6, <2>7, <1>0, <1>1 DEF PlaceInv
    <2>9. TotalInv'
      <3>1. Cardinality(Busy') = Cardinality(Busy) + 1
        <4>1. caller'[c].at = "taken"  BY <2>2
        <4> QED  BY <4>1, <2>2, <1>0, BusyChange
      <3> QED  BY <3>1, <2>0, <1>0, <1>1, <1>F DEF TotalInv
    <2> QED  BY <2>3, <2>4, <2>8, <2>9
  <1> QED  BY <1>2, <1>3, TakenFirst

LEMMA DeleteInvalidStep ==
  ASSUME PoolInv, NEW c \in Callers, DeleteInvalid(c)
  PROVE  PoolInv'
  <1> USE DEF PoolInv
  <1>1. caller[c].at = "taken" /\ caller[c].invalid = {} /\ m_conns' = m_conns
    BY DEF DeleteInvalid, CallerInv
  <1>2. conn' = conn  BY <1>1 DEF DeleteInvalid, PoolTypeOK
  <1>3. m_total' = m_total
    <2>1. Cardinality({}) = 0  BY FS_EmptySet
    <2>2. m_total \in Nat  BY PoolFinite DEF TotalInv
    <2> QED  BY <1>1, <2>1, <2>2 DEF DeleteInvalid
  <1> DEFINE r == [at |-> IF caller[c].ptr = NoConn THEN "connecting" ELSE "using",
                   ptr |-> caller[c].ptr, invalid |-> {}]
  <1>4. /\ r \in [at : {"idle", "taken", "connecting", "using", "releasing"},
                  ptr : Conns \cup {NoConn}, invalid : SUBSET Conns]
        /\ r.ptr = caller[c].ptr /\ caller' = [caller EXCEPT ![c] = r]
    <2> DEFINE a == IF caller[c].ptr = NoConn THEN "connecting" ELSE "using"
    <2>1. caller' = [caller EXCEPT ![c].at = a, ![c].invalid = {}]  BY DEF DeleteInvalid
    <2>2. a \in {"connecting", "using"}  OBVIOUS
    <2> HIDE DEF a
    <2>3. r = [at |-> a, ptr |-> caller[c].ptr, invalid |-> {}]  BY DEF a
    <2>4. caller[c] \in [at : {"idle", "taken", "connecting", "using", "releasing"},
                         ptr : Conns \cup {NoConn}, invalid : SUBSET Conns]
      BY DEF PoolTypeOK
    <2>5. [[caller[c] EXCEPT !.at = a] EXCEPT !.invalid = {}]
            = [at |-> a, ptr |-> caller[c].ptr, invalid |-> {}]
      <3>1. [caller[c] EXCEPT !.at = a]
              = [at |-> a, ptr |-> caller[c].ptr, invalid |-> caller[c].invalid]
        BY <2>4
      <3>2. [[at |-> a, ptr |-> caller[c].ptr, invalid |-> caller[c].invalid] EXCEPT !.invalid = {}]
              = [at |-> a, ptr |-> caller[c].ptr, invalid |-> {}]
        OBVIOUS
      <3> QED  BY <3>1, <3>2
    <2>6. caller' = [caller EXCEPT ![c] = [at |-> a, ptr |-> caller[c].ptr, invalid |-> {}]]
      BY <2>1, <2>5 DEF PoolTypeOK
    <2> HIDE DEF r
    <2> QED  BY <2>2, <2>3, <2>4, <2>6
  <1>5. /\ caller' \in [Callers ->
               [at : {"idle", "taken", "connecting", "using", "releasing"},
                ptr : Conns \cup {NoConn}, invalid : SUBSET Conns]]
        /\ caller'[c] = r /\ \A d \in Callers : d # c => caller'[d] = caller[d]
        /\ Lent' = Lent
    <2> HIDE DEF r
    <2> QED  BY <1>4, LentChange
  <1>6. PoolTypeOK'  BY <1>1, <1>2, <1>5 DEF PoolTypeOK
  <1>7. CallerInv'  BY <1>5 DEF CallerInv
  <1>8. Listed' = Listed /\ Existing' = Existing  BY <1>1, <1>2 DEF Listed, Existing
  <1>9. \A d, e \in Callers : d # e /\ caller'[d].ptr # NoConn => caller'[d].ptr # caller'[e].ptr
    BY <1>5 DEF PlaceInv
  <1>10. PlaceInv'  BY <1>1, <1>2, <1>5, <1>8, <1>9 DEF PlaceInv
  <1>11. TotalInv'
    <2>1. caller'[c].at # "idle"  BY <1>5
    <2>2. Cardinality(Busy') = Cardinality(Busy)  BY <2>1, <1>1, <1>5, BusyChange
    <2> QED  BY <2>2, <1>1, <1>3, <1>8 DEF TotalInv
  <1> QED  BY <1>6, <1>7, <1>10, <1>11

LEMMA ConnectedStep ==
  ASSUME PoolInv, NEW c \in Callers, Connected(c)
  PROVE  PoolInv'
  <1> USE DEF PoolInv
  <1>1. PICK x \in Conns :
          /\ ~conn[x].exists
          /\ conn' = [conn EXCEPT ![x] = [request |-> 0, connected |-> TRUE, exists |-> TRUE]]
          /\ caller' = [caller EXCEPT ![c].at = "using", ![c].ptr = x]
    BY DEF Connected
  <1>2. /\ caller[c].at = "connecting" /\ caller[c].ptr = NoConn /\ caller[c].invalid = {}
        /\ m_conns' = m_conns /\ m_total' = m_total + 1
    BY DEF Connected, CallerInv
  <1> DEFINE r == [at |-> "using", ptr |-> x, invalid |-> {}]
  <1>3. /\ r \in [at : {"idle", "taken", "connecting", "using", "releasing"},
                  ptr : Conns \cup {NoConn}, invalid : SUBSET Conns]
        /\ r.ptr = x /\ caller' = [caller EXCEPT ![c] = r] /\ x # NoConn
    BY <1>1, <1>2, PoolAssumption DEF PoolTypeOK
  <1>4. /\ caller' \in [Callers ->
               [at : {"idle", "taken", "connecting", "using", "releasing"},
                ptr : Conns \cup {NoConn}, invalid : SUBSET Conns]]
        /\ caller'[c] = r /\ \A d \in Callers : d # c => caller'[d] = caller[d]
        /\ Lent' = Lent \cup {x}
    <2> HIDE DEF r
    <2> QED  BY <1>2, <1>3, LentChange
  <1>5. PoolTypeOK'  BY <1>1, <1>2, <1>4 DEF PoolTypeOK
  <1>6. CallerInv'  BY <1>3, <1>4 DEF CallerInv
  <1>7. Listed' = Listed  BY <1>2 DEF Listed
  <1>8. Existing' = Existing \cup {x} /\ x \notin Existing
    BY <1>1 DEF Existing, PoolTypeOK
  <1>9. x \notin Listed /\ x \notin Lent  BY <1>8 DEF PlaceInv
  <1>10. \A d \in Callers : caller[d].ptr # x  BY <1>9, <1>3 DEF Lent
  <1>11. \A d, e \in Callers : d # e /\ caller'[d].ptr # NoConn => caller'[d].ptr # caller'[e].ptr
    BY <1>2, <1>3, <1>4, <1>10 DEF PlaceInv
  <1>12. /\ \A y \in Listed' : conn'[y].connected
         /\ \A y \in Existing' : conn'[y].request < m_maxRequest \/ m_maxRequest = 0
    <2>1. Listed \subseteq Existing  BY DEF PlaceInv
    <2>2. \A y \in Existing : y # x /\ conn'[y] = conn[y]
      BY <1>1, <1>8 DEF Existing, PoolTypeOK
    <2>3. conn'[x].request = 0  BY <1>1 DEF PoolTypeOK
    <2> QED  BY <1>7, <1>8, <2>1, <2>2, <2>3, PoolAssumption DEF PlaceInv
  <1>13. PlaceInv'
    <2>1. Existing' = Listed' \cup Lent' /\ Listed' \cap Lent' = {}
      BY <1>4, <1>7, <1>8, <1>9 DEF PlaceInv
    <2>2. \A i, j \in DOMAIN m_conns' : m_conns'[i] = m_conns'[j] => i = j
      BY <1>2 DEF PlaceInv
    <2> QED  BY <2>1, <2>2, <1>11, <1>12 DEF PlaceInv
  <1>14. TotalInv'
    <2>1. caller'[c].at # "idle"  BY <1>4
    <2>2. Cardinality(Busy') = Cardinality(Busy)  BY <2>1, <1>2, <1>4, BusyChange
    <2>3. Cardinality(Existing') = Cardinality(Existing) + 1
      BY <1>8, PoolFinite, FS_AddElement
    <2> QED  BY <2>2, <2>3, <1>2 DEF TotalInv
  <1> QED  BY <1>5, <1>6, <1>13, <1>14

LEMMA NotConnectedStep ==
  ASSUME PoolInv, NEW c \in Callers, NotConnected(c)
  PROVE  PoolInv'
  <1> USE DEF PoolInv
  <1>1. /\ caller[c].at = "connecting" /\ caller[c].ptr = NoConn
        /\ caller' = [caller EXCEPT ![c] = Idle]
        /\ UNCHANGED <<m_conns, m_total, conn>>
    BY DEF NotConnected, CallerInv
  <1>2. /\ Idle \in [at : {"idle", "taken", "connecting", "using", "releasing"},
                     ptr : Conns \cup {NoConn}, invalid : SUBSET Conns]
        /\ Idle.ptr = NoConn /\ Idle.at = "idle" /\ Idle.invalid = {}
    BY DEF Idle
  <1>3. /\ caller' \in [Callers ->
               [at : {"idle", "taken", "connecting", "using", "releasing"},
                ptr : Conns \cup {NoConn}, invalid : SUBSET Conns]]
        /\ caller'[c] = Idle /\ \A d \in Callers : d # c => caller'[d] = caller[d]
        /\ Lent' = Lent
    BY <1>1, <1>2, LentChange
  <1>4. PoolTypeOK'  BY <1>1, <1>3 DEF PoolTypeOK
  <1>5. CallerInv'  BY <1>2, <1>3 DEF CallerInv
  <1>6. Listed' = Listed /\ Existing' = Existing  BY <1>1 DEF Listed, Existing
  <1>7. \A d, e \in Callers : d # e /\ caller'[d].ptr # NoConn => caller'[d].ptr # caller'[e].ptr
    BY <1>1, <1>2, <1>3 DEF PlaceInv
  <1>8. PlaceInv'  BY <1>1, <1>3, <1>6, <1>7 DEF PlaceInv
  <1>9. TotalInv'
    <2>1. Cardinality(Busy') = Cardinality(Busy) - 1  BY <1>1, <1>2, <1>3, BusyChange
    <2>2. Len(m_conns) \in Nat  BY LenProperties DEF PoolTypeOK
    <2> QED  BY <2>1, <2>2, <1>1, <1>6, PoolFinite DEF TotalInv
  <1> QED  BY <1>4, <1>5, <1>8, <1>9

LEMMA RequestDoneStep ==
  ASSUME PoolInv, NEW c \in Callers, RequestDone(c)
  PROVE  PoolInv'
  <1> USE DEF PoolInv
  <1> DEFINE x == caller[c].ptr
             r == [at |-> "releasing", ptr |-> x, invalid |-> {}]
  <1>1. /\ caller[c].at = "using" /\ x # NoConn /\ caller[c].invalid = {}
        /\ UNCHANGED <<m_conns, m_total>>
        /\ conn' = conn \/ conn' = [conn EXCEPT ![x].connected = FALSE]
    BY DEF RequestDone, CallerInv
  <1>2. x \in Conns  BY <1>1 DEF PoolTypeOK
  <1>3. /\ r \in [at : {"idle", "taken", "connecting", "using", "releasing"},
                  ptr : Conns \cup {NoConn}, invalid : SUBSET Conns]
        /\ r.ptr = caller[c].ptr /\ caller' = [caller EXCEPT ![c] = r]
    <2>1. caller' = [caller EXCEPT ![c].at = "releasing"]  BY DEF RequestDone
    <2>2. caller[c] \in [at : {"idle", "taken", "connecting", "using", "releasing"},
                         ptr : Conns \cup {NoConn}, invalid : SUBSET Conns]
      BY DEF PoolTypeOK
    <2>3. [caller[c] EXCEPT !.at = "releasing"] = r  BY <1>1, <2>2
    <2>4. caller' = [caller EXCEPT ![c] = r]  BY <2>1, <2>3 DEF PoolTypeOK
    <2> QED  BY <1>2, <2>4
  <1>4. /\ caller' \in [Callers ->
               [at : {"idle", "taken", "connecting", "using", "releasing"},
                ptr : Conns \cup {NoConn}, invalid : SUBSET Conns]]
        /\ caller'[c] = r /\ \A d \in Callers : d # c => caller'[d] = caller[d]
        /\ Lent' = Lent
    <2> HIDE DEF r, x
    <2> QED  BY <1>3, LentChange
  <1>5. PoolTypeOK'
    <2>1. conn[x] \in [request : Nat, connected : BOOLEAN, exists : BOOLEAN]
      BY <1>2 DEF PoolTypeOK
    <2>2. [conn[x] EXCEPT !.connected = FALSE]
            \in [request : Nat, connected : BOOLEAN, exists : BOOLEAN]
      BY <2>1
    <2>3. conn' \in [Conns -> [request : Nat, connected : BOOLEAN, exists : BOOLEAN]]
      <3>1. conn' = conn \/ conn' = [conn EXCEPT ![x] = [conn[x] EXCEPT !.connected = FALSE]]
        BY <1>1
      <3> QED  BY <3>1, <2>2, <1>2 DEF PoolTypeOK
    <2> QED  BY <2>3, <1>1, <1>4 DEF PoolTypeOK
  <1>6. CallerInv'  BY <1>1, <1>4 DEF CallerInv
  <1>7. Listed' = Listed  BY <1>1 DEF Listed
  <1>8. \A y \in Conns : /\ conn'[y].exists = conn[y].exists
                         /\ conn'[y].request = conn[y].request
                         /\ y # x => conn'[y] = conn[y]
    BY <1>1, <1>2 DEF PoolTypeOK
  <1>9. Existing' = Existing  BY <1>8 DEF Existing
  <1>10. x \in Lent /\ x \notin Listed  BY <1>1 DEF Lent, PlaceInv
  <1>11. \A d, e \in Callers : d # e /\ caller'[d].ptr # NoConn => caller'[d].ptr # caller'[e].ptr
    BY <1>4 DEF PlaceInv
  <1>12. PlaceInv'
    <2>1. \A y \in Existing : y \in Conns  BY DEF Existing
    <2>2. Listed \subseteq Existing  BY DEF PlaceInv
    <2>3. \A y \in Listed' : conn'[y].connected
      <3> TAKE y \in Listed'
      <3>1. y \in Listed /\ y \in Conns /\ y # x  BY <1>7, <1>10, <2>1, <2>2
      <3>2. conn'[y] = conn[y]  BY <3>1, <1>8
      <3> QED  BY <3>1, <3>2 DEF PlaceInv
    <2>4. \A y \in Existing' : conn'[y].request < m_maxRequest \/ m_maxRequest = 0
      BY <1>8, <1>9, <2>1 DEF PlaceInv
    <2> QED  BY <1>1, <1>4, <1>7, <1>9, <1>11, <2>3, <2>4 DEF PlaceInv
  <1>13. TotalInv'
    <2>1. caller'[c].at # "idle"  BY <1>4
    <2>2. Cardinality(Busy') = Cardinality(Busy)  BY <2>1, <1>1, <1>4, BusyChange
    <2> QED  BY <2>2, <1>1, <1>9 DEF TotalInv
  <1> QED  BY <1>5, <1>6, <1>12, <1>13

LEMMA ReleasePtrStep ==
  ASSUME PoolInv, NEW c \in Callers, ReleasePtr(c)
  PROVE  PoolInv'
  <1> USE DEF PoolInv
  <1> DEFINE x == caller[c].ptr
             request == conn[x].request + 1
             drop == \/ ~conn[x].connected
                     \/ m_createTime + m_maxAliveTime >= NowMS
                     \/ request >= m_maxRequest
  <1>1. /\ caller[c].at = "releasing" /\ x # NoConn
        /\ caller' = [caller EXCEPT ![c] = Idle]
        /\ conn' = [conn EXCEPT ![x] = IF drop THEN Deleted ELSE [@ EXCEPT !.request = request]]
        /\ m_total' = IF drop THEN m_total - 1 ELSE m_total
        /\ m_conns' = IF drop THEN m_conns ELSE Append(m_conns, x)
    BY DEF ReleasePtr, CallerInv
  <1>2. x \in Conns /\ conn[x] \in [request : Nat, connected : BOOLEAN, exists : BOOLEAN]
    BY <1>1 DEF PoolTypeOK
  <1>3. /\ Idle \in [at : {"idle", "taken", "connecting", "using", "releasing"},
                     ptr : Conns \cup {NoConn}, invalid : SUBSET Conns]
        /\ Idle.ptr = NoConn /\ Idle.at = "idle" /\ Idle.invalid = {}
    BY DEF Idle
  <1>4. /\ caller' \in [Callers ->
               [at : {"idle", "taken", "connecting", "using", "releasing"},
                ptr : Conns \cup {NoConn}, invalid : SUBSET Conns]]
        /\ caller'[c] = Idle /\ \A d \in Callers : d # c => caller'[d] = caller[d]
        /\ Lent' = Lent \ {x}
    BY <1>1, <1>3, LentChange
  <1>5. x \in Lent /\ x \notin Listed /\ x \in Existing  BY <1>1 DEF Lent, PlaceInv
  <1>6. CallerInv'  BY <1>3, <1>4 DEF CallerInv
  <1>7. \A d, e \in Callers : d # e /\ caller'[d].ptr # NoConn => caller'[d].ptr # caller'[e].ptr
    BY <1>3, <1>4 DEF PlaceInv
  <1>8. Listed \subseteq Existing /\ Existing \subseteq Conns  BY DEF PlaceInv, Existing
  <1>9. Cardinality(Busy') = Cardinality(Busy) - 1  BY <1>1, <1>3, <1>4, BusyChange
  <1>10. Len(m_conns) \in Nat /\ m_conns \in Seq(Conns)  BY LenProperties DEF PoolTypeOK
  <1>11. CASE drop
    <2>1. conn' = [conn EXCEPT ![x] = Deleted] /\ m_total' = m_total - 1 /\ m_conns' = m_conns
      BY <1>1, <1>11
    <2>2. PoolTypeOK'  BY <2>1, <1>2, <1>4 DEF PoolTypeOK, Deleted
    <2>3. Listed' = Listed  BY <2>1 DEF Listed
    <2>4. \A y \in Conns : conn'[y] = IF y = x THEN Deleted ELSE conn[y]
      BY <2>1, <1>2 DEF PoolTypeOK
    <2>5. Existing' = Existing \ {x}  BY <2>4 DEF Existing, Deleted
    <2>6. Existing' = Listed' \cup Lent' /\ Listed' \cap Lent' = {}
      BY <2>3, <2>5, <1>4, <1>5 DEF PlaceInv
    <2>7. \A y \in Listed' : conn'[y].connected
      <3> TAKE y \in Listed'
      <3>1. y \in Conns /\ y # x /\ y \in Listed  BY <2>3, <1>5, <1>8
      <3> QED  BY <3>1, <2>4 DEF PlaceInv
    <2>8. \A y \in Existing' : conn'[y].request < m_maxRequest \/ m_maxRequest = 0
      BY <2>4, <2>5, <1>8 DEF PlaceInv
    <2>9. PlaceInv'  BY <2>1, <2>6, <2>7, <2>8, <1>7 DEF PlaceInv
    <2>10. TotalInv'
      <3>1. Cardinality(Existing') = Cardinality(Existing) - 1
        BY <2>5, <1>5, PoolFinite, FS_RemoveElement
      <3>2. Len(m_conns') + Cardinality(Busy') <= Cardinality(Callers)
        BY <2>1, <1>9, <1>10, PoolFinite DEF TotalInv
      <3> QED  BY <3>1, <3>2, <2>1 DEF TotalInv
    <2> QED  BY <2>2, <1>6, <2>9, <2>10
  <1>12. CASE ~drop
    <2>1. /\ conn' = [conn EXCEPT ![x] = [@ EXCEPT !.request = request]]
          /\ m_total' = m_total /\ m_conns' = Append(m_conns, x)
      BY <1>1, <1>12
    <2>2. conn[x].connected /\ request \in Nat /\ request < m_maxRequest
      BY <1>12, <1>2, PoolAssumption
    <2>3. /\ m_conns' \in Seq(Conns) /\ Len(m_conns') = Len(m_conns) + 1
          /\ Listed' = Listed \cup {x}
          /\ \A i, j \in DOMAIN m_conns' : m_conns'[i] = m_conns'[j] => i = j
      <3>1. \A i, j \in DOMAIN m_conns : m_conns[i] = m_conns[j] => i = j  BY DEF PlaceInv
      <3>2. x \notin {m_conns[i] : i \in DOMAIN m_conns}  BY <1>5 DEF Listed
      <3> HIDE DEF x
      <3>3. /\ m_conns' \in Seq(Conns) /\ Len(m_conns') = Len(m_conns) + 1
            /\ {m_conns'[i] : i \in DOMAIN m_conns'} = {m_conns[i] : i \in DOMAIN m_conns} \cup {x}
            /\ \A i, j \in DOMAIN m_conns' : m_conns'[i] = m_conns'[j] => i = j
        BY <2>1, <1>2, <1>10, <3>1, <3>2, ListAppend
      <3> QED  BY <3>3 DEF Listed
    <2>4. \A y \in Conns : /\ conn'[y].exists = conn[y].exists
                           /\ conn'[y].connected = conn[y].connected
                           /\ conn'[y].request = IF y = x THEN request ELSE conn[y].request
      BY <2>1, <1>2 DEF PoolTypeOK
    <2>5. Existing' = Existing  BY <2>4 DEF Existing
    <2>6. PoolTypeOK'
      <3>1. conn' \in [Conns -> [request : Nat, connected : BOOLEAN, exists : BOOLEAN]]
        BY <2>1, <2>2, <1>2 DEF PoolTypeOK
      <3> QED  BY <3>1, <2>3, <1>4 DEF PoolTypeOK
    <2>7. Existing' = Listed' \cup Lent' /\ Listed' \cap Lent' = {}
      BY <2>3, <2>5, <1>4, <1>5 DEF PlaceInv
    <2>8. \A y \in Listed' : conn'[y].connected
      <3> TAKE y \in Listed'
      <3>1. y \in Conns /\ (y = x \/ y \in Listed)  BY <2>3, <1>2, <1>8
      <3>2. conn[y].connected  BY <3>1, <2>2 DEF PlaceInv
      <3> QED  BY <3>1, <3>2, <2>4
    <2>9. \A y \in Existing' : conn'[y].request < m_maxRequest \/ m_maxRequest = 0
      <3> HIDE DEF request
      <3> QED  BY <2>2, <2>4, <2>5, <1>8 DEF PlaceInv
    <2>10. PlaceInv'  BY <2>3, <2>7, <2>8, <2>9, <1>7 DEF PlaceInv
    <2>11. TotalInv'
      <3>1. Len(m_conns') + Cardinality(Busy') <= Cardinality(Callers)
        BY <2>3, <1>9, <1>10, PoolFinite DEF TotalInv
      <3> QED  BY <3>1, <2>1, <2>5 DEF TotalInv
    <2> QED  BY <2>6, <1>6, <2>10, <2>11
  <1> QED  BY <1>11, <1>12

-----------------------------------------------------------------------------
(* The theorem.                                                            *)

LEMMA PoolInitInv == PoolInit => PoolInv
  <1> SUFFICES ASSUME PoolInit PROVE PoolInv  OBVIOUS
  <1> USE DEF PoolInit
  <1>1. PoolTypeOK  BY DEF PoolTypeOK, Deleted, Idle
  <1>2. CallerInv  BY DEF CallerInv, Idle
  <1>3. Listed = {} /\ Existing = {} /\ Lent = {} /\ Busy = {}
    BY DEF Listed, Existing, Lent, Busy, Deleted, Idle
  <1>4. PlaceInv  BY <1>3 DEF PlaceInv, Idle
  <1>5. TotalInv
    <2>1. Cardinality(Callers) \in Nat  BY PoolAssumption, FS_CardinalityType
    <2> QED  BY <2>1, <1>3, FS_EmptySet DEF TotalInv
  <1> QED  BY <1>1, <1>2, <1>4, <1>5 DEF PoolInv

LEMMA PoolInductive == PoolSpec => []PoolInv
  <1>1. PoolInv /\ [PoolNext]_poolVars => PoolInv'
    <2> SUFFICES ASSUME PoolInv, [PoolNext]_poolVars PROVE PoolInv'  OBVIOUS
    <2>1. CASE UNCHANGED poolVars
      <3>1. UNCHANGED <<m_conns, m_total, conn, caller>>  BY <2>1 DEF poolVars
      <3>2. Listed' = Listed /\ Existing' = Existing /\ Lent' = Lent /\ Busy' = Busy
        BY <3>1 DEF Listed, Existing, Lent, Busy
      <3>3. PoolTypeOK' /\ CallerInv'  BY <3>1 DEF PoolInv, PoolTypeOK, CallerInv
      <3>4. PlaceInv' /\ TotalInv'  BY <3>1, <3>2 DEF PoolInv, PlaceInv, TotalInv
      <3> QED  BY <3>3, <3>4 DEF PoolInv
    <2>2. CASE PoolNext
      BY <2>2, TakeConnectionStep, DeleteInvalidStep, ConnectedStep, NotConnectedStep,
         RequestDoneStep, ReleasePtrStep DEF PoolNext
    <2> QED  BY <2>1, <2>2
  <1> QED  BY <1>1, PoolInitInv, PTL DEF PoolSpec

\* The pool's books are right for any number of callers: every connection is in
\* the list or lent to one caller, m_total counts them, and there are never more
\* than callers, although m_maxSize is not looked at.
THEOREM PoolAccountsRight == PoolSpec => []PoolAccounts
  <1>1. PoolInv => PoolAccounts
    <2> SUFFICES ASSUME PoolInv PROVE PoolAccounts  OBVIOUS
    <2> USE DEF PoolInv
    <2> DEFINE holders == {c \in Callers : caller[c].ptr # NoConn}
               waiters == {c \in Callers : caller[c].at = "connecting"}
    <2>1. UNION {caller[c].invalid : c \in Callers} = {}  BY DEF CallerInv
    <2>2. Cardinality(Listed) = Len(m_conns) /\ Len(m_conns) \in Nat
      BY PoolFinite, LenProperties DEF PoolTypeOK
    <2>3. IsFiniteSet(holders) /\ Cardinality(Lent) = Cardinality(holders)
      <3>1. holders \in SUBSET Callers  OBVIOUS
      <3>2. IsFiniteSet(holders)  BY <3>1, PoolAssumption, FS_Subset
      <3> DEFINE f == [c \in holders |-> caller[c].ptr]
      <3>3. f \in [holders -> Lent]  BY DEF Lent
      <3>4. \A c, d \in DOMAIN f : f[c] = f[d] => c = d  BY DEF PlaceInv
      <3>5. \A x \in Lent : \E c \in holders : f[c] = x  BY DEF Lent
      <3> HIDE DEF f
      <3>6. f \in Bijection(holders, Lent)
        BY <3>3, <3>4, <3>5 DEF Bijection, Injection, Surjection, IsInjective
      <3>7. ExistsBijection(holders, Lent)  BY <3>6 DEF ExistsBijection
      <3> HIDE DEF holders
      <3> QED  BY <3>2, <3>7, FS_Bijection
    <2>4. IsFiniteSet(waiters)
      <3>1. waiters \in SUBSET Callers  OBVIOUS
      <3> QED  BY <3>1, PoolAssumption, FS_Subset
    <2>5. Cardinality(holders) + Cardinality(waiters) <= Cardinality(Busy)
      <3>1. holders \cap waiters = {}  BY DEF CallerInv
      <3>2. holders \cup waiters \in SUBSET Busy  BY DEF Busy, CallerInv
      <3> HIDE DEF holders, waiters
      <3>3. Cardinality(holders \cup waiters) = Cardinality(holders) + Cardinality(waiters)
        <4>1. Cardinality(holders \cup waiters)
                = Cardinality(holders) + Cardinality(waiters) - Cardinality(holders \cap waiters)
          BY <2>3, <2>4, FS_Union
        <4>2. Cardinality(holders \cap waiters) = 0  BY <3>1, FS_EmptySet
        <4>3. Cardinality(holders) \in Nat /\ Cardinality(waiters) \in Nat
          BY <2>3, <2>4, FS_CardinalityType
        <4> QED  BY <4>1, <4>2, <4>3
      <3>4. Cardinality(holders \cup waiters) <= Cardinality(Busy)
        BY <3>2, PoolFinite, FS_Subset
      <3> QED  BY <3>3, <3>4
    <2>6. Cardinality(Existing) = Len(m_conns) + Cardinality(holders)
      <3> HIDE DEF holders
      <3>1. Cardinality(Listed \cup Lent)
              = Cardinality(Listed) + Cardinality(Lent) - Cardinality(Listed \cap Lent)
        BY PoolFinite, FS_Union
      <3>2. Cardinality(Listed \cap Lent) = 0  BY FS_EmptySet DEF PlaceInv
      <3>3. Cardinality(holders) \in Nat  BY <2>3, FS_CardinalityType
      <3> QED  BY <3>1, <3>2, <3>3, <2>2, <2>3 DEF PlaceInv
    <2>7. Cardinality(Existing) + Cardinality(waiters) <= Cardinality(Callers)
      <3> HIDE DEF holders, waiters
      <3>1. /\ Cardinality(holders) \in Nat /\ Cardinality(waiters) \in Nat
            /\ Cardinality(Busy) \in Nat /\ Cardinality(Callers) \in Nat
        BY <2>3, <2>4, PoolFinite, FS_CardinalityType
      <3> QED  BY <3>1, <2>2, <2>5, <2>6 DEF TotalInv
    <2> QED  BY <2>1, <2>2, <2>7 DEF PoolAccounts, PlaceInv, TotalInv, Listed, Existing
  <1> QED  BY <1>1, PoolInductive, PTL

=============================================================================
