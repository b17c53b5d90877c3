--------------------------- MODULE ByteArrayProofs ---------------------------
(***************************************************************************)
(* Proofs about ByteArray, for any size of the blocks, width of the        *)
(* integers and of a varint's groups, and whatever is written where.       *)
(***************************************************************************)
EXTENDS ByteArray, SequenceTheorems, WellFoundedInduction, TLAPS

-----------------------------------------------------------------------------
(* Numbers.                                                                *)

\* The order of the natural numbers as a relation.
NatLess == {p \in Nat \X Nat : p[1] < p[2]}

\* What holds at 0, and at n + 1 if at n, holds up to N: otherwise there would
\* be a first number where it does not.
LEMMA Induction ==
  ASSUME NEW N \in Nat, NEW S, 0 \in S, \A n \in 0..(N - 1) : n \in S => n + 1 \in S
  PROVE  \A n \in 0..N : n \in S
  <1> DEFINE T == {n \in 0..N : n \notin S}
  <1> SUFFICES ASSUME T # {}  PROVE FALSE  OBVIOUS
  <1>1. IsWellFoundedOn(NatLess, Nat)
    BY NatLessThanWellFounded, Zenon DEF OpToRel, NatLess
  <1>2. T \subseteq Nat  OBVIOUS
  <1>3. PICK n \in T : \A k \in T : ~(<<k, n>> \in NatLess)
    <2> HIDE DEF T
    <2> QED  BY <1>1, <1>2, WFMin
  <1>4. n \in 0..N /\ n \notin S /\ n # 0  OBVIOUS
  <1>5. n - 1 \in 0..(N - 1) /\ (n - 1) + 1 = n  BY <1>4
  <1>6. n - 1 \notin S  BY <1>4, <1>5
  <1>7. n - 1 \in T  BY <1>4, <1>5, <1>6
  <1> DEFINE p == <<n - 1, n>>
  <1>8. p \in Nat \X Nat /\ p[1] = n - 1 /\ p[2] = n  BY <1>4, <1>5
  <1>9. p \notin NatLess  BY <1>3, <1>7
  <1> HIDE DEF p
  <1> QED  BY <1>4, <1>8, <1>9 DEF NatLess

\* Quotient and remainder, and that they are the only ones.
LEMMA DivMod ==
  ASSUME NEW a \in Nat, NEW b \in Nat \ {0}
  PROVE  a \div b \in Nat /\ a % b \in 0..(b - 1) /\ a = b * (a \div b) + (a % b)
  OBVIOUS

LEMMA DivModUnique ==
  ASSUME NEW a \in Nat, NEW b \in Nat \ {0}, NEW q \in Nat, NEW r \in 0..(b - 1),
         a = b * q + r
  PROVE  a \div b = q /\ a % b = r
  OBVIOUS

\* The group of digits behind the first n: u % (P * h) in terms of u % P.
LEMMA NextDigit ==
  ASSUME NEW u \in Nat, NEW P \in Nat \ {0}, NEW h \in Nat \ {0}
  PROVE  u % (h * P) = (u % P) + (((u \div P) % h) * P)
  <1> DEFINE q == u \div P  r == u % P  k == q \div h  s == q % h
  <1>1. q \in Nat /\ r \in 0..(P - 1) /\ u = P * q + r  BY DivMod
  <1>2. k \in Nat /\ s \in 0..(h - 1) /\ q = h * k + s
    <2> HIDE DEF q, r
    <2> QED  BY <1>1, DivMod
  <1> HIDE DEF q, r, k, s
  <1>3. h * P \in Nat \ {0}  OBVIOUS
  <1>4. P * (h * k) = (h * P) * k /\ P * s = s * P  BY <1>2
  <1>5. u = (h * P) * k + (s * P + r)  BY <1>1, <1>2, <1>4
  <1>6. s * P + r \in 0..(h * P - 1)
    <2>1. (s + 1) * P <= h * P  BY <1>2
    <2>2. (s + 1) * P = s * P + P /\ s * P >= 0  BY <1>2
    <2> QED  BY <1>1, <1>2, <2>1, <2>2
  <1>7. u % (h * P) = s * P + r  BY <1>2, <1>3, <1>5, <1>6, DivModUnique
  <1> QED  BY <1>1, <1>2, <1>7 DEF q, r, k, s

-----------------------------------------------------------------------------
(* Powers.                                                                 *)

LEMMA PowersPositive ==
  /\ High \in Nat /\ High > 1 /\ High^0 = 1
  /\ \A n \in 0..Width : High^n \in Nat \ {0}
  <1>1. High \in Nat /\ High > 1 /\ High^0 = 1
    <2>1. GroupBits \in Nat  BY ByteArrayAssumption
    <2>2. 2^GroupBits \in Int  BY <2>1
    <2>3. High \in Int  BY <2>2 DEF High
    <2> QED  BY <2>3, PowerAssumption
  <1> DEFINE S == {n \in 0..Width : High^n \in Nat \ {0}}
  <1>2. Width \in Nat \ {0}  BY ByteArrayAssumption
  <1>3. 0 \in S  BY <1>1, <1>2
  <1>4. ASSUME NEW n \in 0..(Width - 1), n \in S  PROVE n + 1 \in S
    <2>1. High^(n + 1) = High * High^n /\ High^n \in Nat \ {0}
      BY <1>4, PowerAssumption
    <2>2. High * High^n \in Nat \ {0}  BY <1>1, <2>1
    <2>3. n + 1 \in 0..Width  BY <1>2
    <2> QED  BY <2>1, <2>2, <2>3
  <1>5. \A n \in 0..Width : n \in S
    <2> HIDE DEF S
    <2> QED  BY <1>2, <1>3, <1>4, Induction
  <1> QED  BY <1>1, <1>5

\* The powers grow.
LEMMA PowersGrow ==
  ASSUME NEW m \in 0..Width, NEW n \in m..Width
  PROVE  High^m <= High^n
  <1>0. Width \in Nat \ {0} /\ m \in Nat  BY ByteArrayAssumption
  <1> DEFINE N == Width - m
             S == {k \in 0..N : High^m <= High^(m + k)}
  <1>1. N \in Nat  BY <1>0
  <1>2. 0 \in S
    <2>1. m + 0 = m  OBVIOUS
    <2> QED  BY <1>1, <2>1, PowersPositive
  <1>3. ASSUME NEW k \in 0..(N - 1), k \in S  PROVE k + 1 \in S
    <2>1. m + k \in 0..(Width - 1) /\ (m + k) + 1 = m + (k + 1) /\ m + k \in 0..Width
      BY <1>0, <1>1
    <2>2. High^(m + (k + 1)) = High * High^(m + k)  BY <2>1, PowerAssumption
    <2>3. High^(m + k) \in Nat \ {0} /\ High^m \in Nat \ {0} /\ High \in Nat /\ High > 1
      BY <2>1, PowersPositive
    <2>4. High^m <= High^(m + k)  BY <1>3
    <2>5. High^(m + k) <= High * High^(m + k)
      <3> DEFINE x == High^(m + k)
      <3> HIDE DEF x
      <3>1. \A h \in Nat : h > 1 => x <= h * x  BY <2>3 DEF x
      <3> QED  BY <2>3, <3>1 DEF x
    <2>6. High^m <= High^(m + (k + 1))  BY <2>2, <2>3, <2>4, <2>5
    <2>7. k + 1 \in 0..N  BY <1>1
    <2> QED  BY <2>6, <2>7
  <1>4. \A k \in 0..N : k \in S
    <2> HIDE DEF S, N
    <2> QED  BY <1>1, <1>2, <1>3, Induction
  <1>5. n - m \in 0..N /\ m + (n - m) = n  BY <1>0
  <1> QED  BY <1>4, <1>5

-----------------------------------------------------------------------------
(* Varints.                                                                *)

LEMMA GroupsFit == MaxGroups \in 1..Width
  <1> DEFINE a == Width + GroupBits - 1  q == MaxGroups
  <1>1. Width \in Nat \ {0} /\ GroupBits \in Nat \ {0} /\ a \in Nat
    BY ByteArrayAssumption
  <1>2. q = a \div GroupBits  BY DEF MaxGroups
  <1> HIDE DEF q
  <1>3. q \in Nat /\ a % GroupBits \in 0..(GroupBits - 1) /\ a = GroupBits * q + (a % GroupBits)
    <2> HIDE DEF a
    <2> QED  BY <1>1, <1>2, DivMod
  <1>4. q # 0  BY <1>1, <1>3
  <1>5. q <= Width
    <2> SUFFICES ASSUME q >= Width + 1  PROVE FALSE  BY <1>1, <1>3
    <2>1. GroupBits * q >= GroupBits * (Width + 1)  BY <1>1, <1>3
    <2>2. GroupBits * (Width + 1) = GroupBits * Width + GroupBits  BY <1>1
    <2>3. GroupBits * Width >= Width  BY <1>1
    <2> QED  BY <1>1, <1>3, <2>1, <2>2, <2>3
  <1> QED  BY <1>1, <1>3, <1>4, <1>5 DEF q

\* What a number of Width bits is.
Word == 0..(2^Width - 1)

LEMMA WordType == 2^Width \in Nat \ {0} /\ 2^(Width - 1) \in Nat \ {0}
  <1>1. Width \in Nat /\ Width - 1 \in Nat  BY ByteArrayAssumption
  <1>2. 2^Width \in Int /\ 2^(Width - 1) \in Int  BY <1>1
  <1> QED  BY <1>2, PowerAssumption

\* The loop of writeUint32 ends within the bytes of tmp.
LEMMA VarintLength ==
  ASSUME NEW u \in Word
  PROVE  /\ VarintLen(u) \in 1..Width /\ VarintLen(u) <= MaxGroups
         /\ u < High^VarintLen(u)
         /\ VarintLen(u) > 1 => u >= High^(VarintLen(u) - 1)
  <1>0. /\ Width \in Nat \ {0} /\ u \in Nat /\ 2^Width \in Nat /\ u < 2^Width
        /\ MaxGroups \in 1..Width
    BY ByteArrayAssumption, WordType, GroupsFit DEF Word
  <1>1. u < High^MaxGroups
    <2>1. High^MaxGroups \in Nat /\ 2^Width <= High^MaxGroups
      BY <1>0, PowersPositive, PowerAssumption
    <2> QED  BY <1>0, <2>1
  <1> DEFINE Fits(n) == u < High^n /\ (n > 1 => u >= High^(n - 1))
  <1>2. \E n \in 1..MaxGroups : Fits(n)
    <2> SUFFICES ASSUME \A n \in 1..MaxGroups : ~Fits(n)  PROVE FALSE  OBVIOUS
    <2> DEFINE S == {n \in 0..MaxGroups : n = 0 \/ u >= High^n}
    <2>1. 0 \in S /\ MaxGroups \in Nat  BY <1>0
    <2>2. ASSUME NEW n \in 0..(MaxGroups - 1), n \in S  PROVE n + 1 \in S
      <3>1. n + 1 \in 1..MaxGroups /\ (n + 1) - 1 = n /\ n + 1 \in 0..Width  BY <1>0
      <3>2. ~Fits(n + 1)  BY <3>1
      <3>3. High^(n + 1) \in Nat  BY <3>1, PowersPositive
      <3>4. n + 1 > 1 => u >= High^n  BY <2>2, <3>1
      <3>5. ~(u < High^(n + 1))  BY <3>1, <3>2, <3>4
      <3>6. u >= High^(n + 1)  BY <1>0, <3>3, <3>5
      <3> QED  BY <3>1, <3>6
    <2>3. \A n \in 0..MaxGroups : n \in S
      <3> HIDE DEF S
      <3> QED  BY <2>1, <2>2, Induction
    <2>4. u >= High^MaxGroups  BY <1>0, <2>3
    <2>5. High^MaxGroups \in Nat  BY <1>0, PowersPositive
    <2> QED  BY <1>0, <1>1, <2>4, <2>5
  <1>3. \E n \in 1..Width : Fits(n)  BY <1>0, <1>2
  <1> DEFINE L == VarintLen(u)
  <1>4. L = CHOOSE n \in 1..Width : Fits(n)  BY DEF VarintLen
  <1> HIDE DEF L
  <1>5. L \in 1..Width /\ Fits(L)
    <2> HIDE DEF Fits
    <2> QED  BY <1>3, <1>4
  <1>6. L <= MaxGroups
    <2> SUFFICES ASSUME L > MaxGroups  PROVE FALSE  BY <1>0, <1>5
    <2>1. L - 1 \in MaxGroups..Width /\ L > 1 /\ MaxGroups \in 0..Width /\ L - 1 \in 0..Width
      BY <1>0, <1>5
    <2>2. High^MaxGroups <= High^(L - 1)  BY <2>1, PowersGrow
    <2>3. u >= High^(L - 1)  BY <1>5, <2>1
    <2>4. High^MaxGroups \in Nat /\ High^(L - 1) \in Nat  BY <2>1, PowersPositive
    <2> QED  BY <1>0, <1>1, <2>2, <2>3, <2>4
  <1> QED  BY <1>5, <1>6 DEF L

\* All bytes of a varint but the last have the flag, and each has its group.
LEMMA VarintBytes ==
  ASSUME NEW u \in Word
  PROVE  /\ Varint(u) \in Seq(Nat) /\ Len(Varint(u)) = VarintLen(u)
         /\ \A i \in 1..VarintLen(u) :
               /\ Varint(u)[i] % High = (u \div High^(i - 1)) % High
               /\ Varint(u)[i] < High <=> i = VarintLen(u)
  <1> DEFINE L == VarintLen(u)
             g(i) == (u \div High^(i - 1)) % High
             b(i) == g(i) + IF i < L THEN High ELSE 0
  <1>1. L \in 1..Width /\ Width \in Nat /\ u \in Nat
    BY VarintLength, ByteArrayAssumption, WordType DEF Word
  <1>2. Varint(u) = [i \in 1..L |-> b(i)]  BY DEF Varint
  <1> HIDE DEF L
  <1>3. ASSUME NEW i \in 1..L
        PROVE  /\ b(i) \in Nat /\ b(i) % High = g(i) /\ (b(i) < High <=> i = L)
    <2>1. i - 1 \in 0..Width  BY <1>1
    <2>2. High^(i - 1) \in Nat \ {0} /\ High \in Nat \ {0}  BY <2>1, PowersPositive
    <2>3. u \div High^(i - 1) \in Nat  BY <1>1, <2>2, DivMod
    <2>4. g(i) \in 0..(High - 1)  BY <2>2, <2>3, DivMod
    <2> HIDE DEF g
    <2>5. CASE i < L
      <3>1. b(i) = High * 1 + g(i) /\ b(i) \in Nat /\ b(i) >= High  BY <2>2, <2>4, <2>5
      <3>2. b(i) % High = g(i)
        <4> HIDE DEF b
        <4> QED  BY <2>2, <2>4, <3>1, DivModUnique
      <3> QED  BY <1>1, <2>2, <2>5, <3>1, <3>2
    <2>6. CASE i = L
      <3>1. b(i) = High * 0 + g(i) /\ b(i) \in Nat /\ b(i) < High  BY <1>1, <2>2, <2>4, <2>6
      <3>2. b(i) % High = g(i)
        <4> HIDE DEF b
        <4> QED  BY <2>2, <2>4, <3>1, DivModUnique
      <3> QED  BY <2>6, <3>1, <3>2
    <2> QED  BY <1>1, <2>5, <2>6
  <1> HIDE DEF b, g
  <1>4. Varint(u) \in [1..L -> Nat]  BY <1>2, <1>3
  <1>5. Varint(u) \in Seq(Nat)  BY <1>1, <1>4, SeqDef
  <1>6. Len(Varint(u)) = L  BY <1>1, <1>4, <1>5, LenProperties
  <1>7. \A i \in 1..L : /\ Varint(u)[i] % High = g(i)
                        /\ Varint(u)[i] < High <=> i = L
    BY <1>2, <1>3
  <1> QED  BY <1>5, <1>6, <1>7 DEF L, g

\* Partial sums of a function exist, so that a recursive function that adds
\* them up satisfies its equation.
LEMMA SumExists ==
  ASSUME NEW N \in Nat, NEW d \in [1..N -> Nat]
  PROVE  \E f \in [0..N -> Nat] : f = [n \in 0..N |-> IF n = 0 THEN 0 ELSE f[n - 1] + d[n]]
  <1> DEFINE Sums(f, m) == \A n \in 0..m : f[n] = IF n = 0 THEN 0 ELSE f[n - 1] + d[n]
             S == {m \in 0..N : \E f \in [0..m -> Nat] : Sums(f, m)}
  <1>1. 0 \in S
    <2>1. [n \in 0..0 |-> 0] \in [0..0 -> Nat] /\ Sums([n \in 0..0 |-> 0], 0)  OBVIOUS
    <2>2. 0 \in 0..N  OBVIOUS
    <2>3. \E f \in [0..0 -> Nat] : Sums(f, 0)  BY <2>1
    <2> QED  BY <2>2, <2>3
  <1>2. ASSUME NEW m \in 0..(N - 1), m \in S  PROVE m + 1 \in S
    <2>1. PICK f \in [0..m -> Nat] : Sums(f, m)  BY <1>2
    <2> DEFINE g == [n \in 0..(m + 1) |-> IF n = m + 1 THEN f[m] + d[m + 1] ELSE f[n]]
    <2>2. m + 1 \in 1..N /\ m \in 0..m /\ m \in Nat  OBVIOUS
    <2>3. f[m] + d[m + 1] \in Nat  BY <2>2
    <2>4. g \in [0..(m + 1) -> Nat]
      <3>1. ASSUME NEW n \in 0..(m + 1)  PROVE g[n] \in Nat
        <4>1. CASE n = m + 1  BY <2>3, <4>1
        <4>2. CASE n \in 0..m  BY <2>2, <4>2
        <4> QED  BY <2>2, <4>1, <4>2
      <3> QED  BY <3>1
    <2>5. ASSUME NEW n \in 0..(m + 1)  PROVE g[n] = IF n = 0 THEN 0 ELSE g[n - 1] + d[n]
      <3>1. CASE n = m + 1
        <4>1. g[n] = f[m] + d[n] /\ n - 1 = m /\ n # 0 /\ n - 1 \in 0..(m + 1)  BY <2>2, <3>1
        <4>2. g[n - 1] = f[m]  BY <2>2, <4>1
        <4> QED  BY <4>1, <4>2
      <3>2. CASE n \in 0..m
        <4>1. g[n] = f[n]  BY <2>2, <3>2
        <4>2. n # 0 => g[n - 1] = f[n - 1]  BY <2>2, <3>2
        <4>3. f[n] = IF n = 0 THEN 0 ELSE f[n - 1] + d[n]  BY <2>1, <3>2
        <4> QED  BY <4>1, <4>2, <4>3
      <3> QED  BY <2>2, <3>1, <3>2
    <2> HIDE DEF g
    <2>6. Sums(g, m + 1)  BY <2>5
    <2>7. m + 1 \in 0..N  OBVIOUS
    <2> QED  BY <2>4, <2>6, <2>7
  <1>3. \A m \in 0..N : m \in S
    <2> HIDE DEF S
    <2> QED  BY <1>1, <1>2, Induction
  <1>4. PICK f \in [0..N -> Nat] : Sums(f, N)
    <2>1. N \in 0..N  OBVIOUS
    <2> QED  BY <1>3, <2>1
  <1>5. f = [n \in 0..N |-> IF n = 0 THEN 0 ELSE f[n - 1] + d[n]]  BY <1>4
  <1> QED  BY <1>5

\* What readUint32 computes from the bytes it has read.
LEMMA VarintSum ==
  ASSUME NEW bs \in Seq(Int), Len(bs) <= Width
  PROVE  \E f \in [0..Len(bs) -> Nat] :
            /\ f[0] = 0
            /\ \A n \in 1..Len(bs) : f[n] = f[n - 1] + ((bs[n] % High) * High^(n - 1))
            /\ FromVarint(bs) = f[Len(bs)] % 2^Width
  <1> DEFINE N == Len(bs)
             e(n) == (bs[n] % High) * High^(n - 1)
             sum[n \in 0..N] == IF n = 0 THEN 0 ELSE sum[n - 1] + e(n)
             d == [n \in 1..N |-> e(n)]
  <1>0. N \in Nat /\ N <= Width /\ Width \in Nat  BY LenProperties, ByteArrayAssumption
  <1>1. FromVarint(bs) = sum[N] % 2^Width  BY DEF FromVarint
  <1>2. ASSUME NEW n \in 1..N  PROVE e(n) \in Nat
    <2>1. bs[n] \in Int  BY ElementOfSeq
    <2>2. High \in Nat \ {0}  BY PowersPositive
    <2>3. bs[n] % High \in Nat  BY <2>1, <2>2
    <2>4. n - 1 \in 0..Width  BY <1>0
    <2>5. High^(n - 1) \in Nat  BY <2>4, PowersPositive
    <2> QED  BY <2>3, <2>5
  <1> HIDE DEF N
  <1>3. d \in [1..N -> Nat] /\ \A n \in 1..N : d[n] = e(n)  BY <1>2
  <1> HIDE DEF d
  <1>4. PICK f \in [0..N -> Nat] :
                 f = [n \in 0..N |-> IF n = 0 THEN 0 ELSE f[n - 1] + d[n]]
    BY <1>0, <1>3, SumExists
  <1> HIDE DEF e
  <1>5. f = [n \in 0..N |-> IF n = 0 THEN 0 ELSE f[n - 1] + e(n)]
    <2>1. ASSUME NEW n \in 0..N
          PROVE (IF n = 0 THEN 0 ELSE f[n - 1] + d[n]) = (IF n = 0 THEN 0 ELSE f[n - 1] + e(n))
      BY <1>0, <1>3
    <2> QED  BY <1>4, <2>1
  <1>6. sum = [n \in 0..N |-> IF n = 0 THEN 0 ELSE sum[n - 1] + e(n)]  BY <1>5
  <1> HIDE DEF sum
  <1>7. \A n \in 0..N : sum[n] = f[n]
    <2> DEFINE S == {n \in 0..N : sum[n] = f[n]}
    <2>1. 0 \in S  BY <1>0, <1>5, <1>6
    <2>2. ASSUME NEW n \in 0..(N - 1), n \in S  PROVE n + 1 \in S
      <3>1. n + 1 \in 0..N /\ n + 1 # 0 /\ (n + 1) - 1 = n  BY <1>0
      <3>2. sum[n + 1] = sum[n] + e(n + 1)  BY <1>6, <3>1
      <3>3. f[n + 1] = f[n] + e(n + 1)  BY <1>5, <3>1
      <3> QED  BY <2>2, <3>1, <3>2, <3>3
    <2>3. \A n \in 0..N : n \in S
      <3> HIDE DEF S
      <3> QED  BY <1>0, <2>1, <2>2, Induction
    <2> QED  BY <2>3
  <1>8. sum[N] = f[N]  BY <1>0, <1>7
  <1>9. f[0] = 0  BY <1>0, <1>5
  <1>10. ASSUME NEW n \in 1..N  PROVE f[n] = f[n - 1] + e(n)  BY <1>0, <1>5
  <1> QED  BY <1>1, <1>8, <1>9, <1>10 DEF e, N

\* A length read from the array is a number of bytes.
LEMMA FromVarintType ==
  ASSUME NEW bs \in Seq(Int), Len(bs) <= Width
  PROVE  FromVarint(bs) \in Nat
  <1>1. PICK f \in [0..Len(bs) -> Nat] : FromVarint(bs) = f[Len(bs)] % 2^Width  BY VarintSum
  <1>2. Len(bs) \in 0..Len(bs)  BY LenProperties
  <1>3. f[Len(bs)] \in Nat /\ 2^Width \in Nat \ {0}  BY <1>1, <1>2, WordType
  <1>4. PICK v \in Nat, W \in Nat \ {0} : v = f[Len(bs)] /\ W = 2^Width  BY <1>3
  <1>5. v % W \in Nat
    <2>1. v % W \in 0..(W - 1)  BY DivMod
    <2> QED  BY <2>1
  <1> QED  BY <1>1, <1>4, <1>5

\* readUint32 of what writeUint32 wrote.
LEMMA VarintBack ==
  ASSUME NEW u \in Word
  PROVE  FromVarint(Varint(u)) = u
  <1> DEFINE bs == Varint(u)  L == VarintLen(u)
  <1>1. /\ L \in 1..Width /\ u < High^L /\ u \in Nat /\ u < 2^Width /\ 2^Width \in Nat \ {0}
        /\ Width \in Nat
    BY VarintLength, ByteArrayAssumption, WordType DEF Word
  <1>2. /\ bs \in Seq(Nat) /\ Len(bs) = L
        /\ \A i \in 1..L : bs[i] % High = (u \div High^(i - 1)) % High
    BY VarintBytes
  <1>3. bs \in Seq(Int) /\ Len(bs) <= Width  BY <1>1, <1>2, SeqMonotonic
  <1> HIDE DEF bs, L
  <1>4. PICK f \in [0..L -> Nat] :
                 /\ f[0] = 0
                 /\ \A n \in 1..L : f[n] = f[n - 1] + ((bs[n] % High) * High^(n - 1))
                 /\ FromVarint(bs) = f[L] % 2^Width
    BY <1>2, <1>3, VarintSum
  <1> DEFINE S == {n \in 0..L : f[n] = u % High^n}
  <1>5. 0 \in S
    <2>1. u % 1 = 0  BY <1>1
    <2> QED  BY <1>1, <1>4, <2>1, PowersPositive
  <1>6. ASSUME NEW n \in 0..(L - 1), n \in S  PROVE n + 1 \in S
    <2>1. /\ n + 1 \in 1..L /\ n + 1 \in 0..L /\ (n + 1) - 1 = n
          /\ n \in 0..(Width - 1) /\ n \in 0..Width
      BY <1>1
    <2>2. High^n \in Nat \ {0} /\ High \in Nat \ {0}  BY <2>1, PowersPositive
    <2>3. High^(n + 1) = High * High^n  BY <2>1, PowerAssumption
    <2>4. u % (High * High^n) = (u % High^n) + (((u \div High^n) % High) * High^n)
      BY <1>1, <2>2, NextDigit
    <2>5. f[n + 1] = f[n] + ((bs[n + 1] % High) * High^n)  BY <1>4, <2>1
    <2>6. bs[n + 1] % High = (u \div High^n) % High  BY <1>2, <2>1
    <2> QED  BY <1>6, <2>1, <2>3, <2>4, <2>5, <2>6
  <1>7. \A n \in 0..L : n \in S
    <2>1. L \in Nat  BY <1>1
    <2> HIDE DEF S
    <2> QED  BY <1>5, <1>6, <2>1, Induction
  <1>8. f[L] = u % High^L  BY <1>1, <1>7
  <1>9. High^L \in Nat \ {0}  BY <1>1, PowersPositive
  <1>10. u % High^L = u /\ u % 2^Width = u
    <2>1. ASSUME NEW b \in Nat \ {0}, u < b  PROVE u % b = u
      <3>1. u = b * 0 + u /\ u \in 0..(b - 1)  BY <1>1, <2>1
      <3> QED  BY <1>1, <3>1, DivModUnique
    <2> QED  BY <1>1, <1>9, <2>1
  <1>11. FromVarint(bs) = u  BY <1>4, <1>8, <1>10
  <1> QED  BY <1>11 DEF bs

\* The zigzag code is a code.
LEMMA ZigzagBack ==
  ASSUME NEW v \in Ints
  PROVE  EncodeZigzag(v) \in Word /\ DecodeZigzag(EncodeZigzag(v)) = v
  <1> DEFINE H == 2^(Width - 1)  W == 2^Width
             z == IF v < 0 THEN (-v) * 2 - 1 ELSE v * 2
  <1>1. H \in Nat \ {0} /\ W \in Nat \ {0} /\ W = 2 * H  BY WordType, PowerAssumption
  <1>2. v \in (-H)..(H - 1)  BY ByteArrayAssumption
  <1>3. EncodeZigzag(v) = z % W  BY DEF EncodeZigzag
  <1> HIDE DEF H, W
  <1>4. z \in 0..(W - 1)  BY <1>1, <1>2
  <1>5. z = W * 0 + z /\ z \in Nat  BY <1>1, <1>4
  <1>6. z % W = z
    <2> HIDE DEF z
    <2> QED  BY <1>1, <1>4, <1>5, DivModUnique
  <1>7. DecodeZigzag(z) = v
    <2>1. v \in Int  BY <1>1, <1>2
    <2> QED  BY <2>1 DEF DecodeZigzag
  <1> HIDE DEF z
  <1> QED  BY <1>3, <1>4, <1>6, <1>7 DEF Word, W

-----------------------------------------------------------------------------
(* The chain of blocks.                                                    *)

LEMMA BaseSize == m_baseSize \in Nat \ {0}
  BY ByteArrayAssumption

\* A block's number and an offset in it are a place in memory, and going on by n
\* bytes from there is going on in memory.
LEMMA BlockPlace ==
  ASSUME NEW p \in Nat, NEW n \in Nat
  PROVE  /\ p \div m_baseSize \in Nat /\ p % m_baseSize \in Nat
         /\ (((p \div m_baseSize) + 1) - 1) * m_baseSize + (p % m_baseSize) = p
         /\ ((p \div m_baseSize) + 1) + (((p % m_baseSize) + n) \div m_baseSize)
              = ((p + n) \div m_baseSize) + 1
  <1> DEFINE B == m_baseSize  q == p \div B  r == p % B  k == (r + n) \div B  t == (r + n) % B
  <1>0. B \in Nat \ {0}  BY BaseSize
  <1>1. q \in Nat /\ r \in 0..(B - 1) /\ p = B * q + r
    <2> HIDE DEF B
    <2> QED  BY <1>0, DivMod
  <1> HIDE DEF B, q, r
  <1>2. r + n \in Nat  BY <1>0, <1>1
  <1>3. k \in Nat /\ t \in 0..(B - 1) /\ r + n = B * k + t  BY <1>0, <1>2, DivMod
  <1> HIDE DEF k, t
  <1>4. B * (q + k) = B * q + B * k /\ q + k \in Nat /\ q * B = B * q  BY <1>0, <1>1, <1>3
  <1>5. p + n = B * (q + k) + t /\ p + n \in Nat  BY <1>0, <1>1, <1>3, <1>4
  <1>6. (p + n) \div B = q + k  BY <1>0, <1>3, <1>4, <1>5, DivModUnique
  <1>7. (q + 1) - 1 = q /\ ((q + 1) - 1) * B + r = p /\ (q + 1) + k = (q + k) + 1
    BY <1>0, <1>1, <1>3, <1>4
  <1>8. r \in Nat  BY <1>0, <1>1
  <1> QED  BY <1>1, <1>6, <1>7, <1>8 DEF q, r, k, B

\* Only the end of memory is behind the last block.
LEMMA BlockEnd ==
  ASSUME NEW M \in Nat, M % m_baseSize = 0, NEW p \in 0..M
  PROVE  (p \div m_baseSize) + 1 > M \div m_baseSize <=> p = M
  <1> DEFINE B == m_baseSize  q == p \div B  r == p % B  k == M \div B
  <1>0. B \in Nat \ {0}  BY BaseSize
  <1>1. q \in Nat /\ r \in 0..(B - 1) /\ p = B * q + r
    <2> HIDE DEF B
    <2>1. p \in Nat  OBVIOUS
    <2> QED  BY <1>0, <2>1, DivMod
  <1>2. k \in Nat /\ M = B * k
    <2> HIDE DEF B
    <2>1. M % B = 0  BY DEF B
    <2>2. k \in Nat /\ M = B * k + (M % B)  BY <1>0, DivMod
    <2> QED  BY <1>0, <2>1, <2>2
  <1> HIDE DEF B, q, r, k
  <1>3. ASSUME p = M  PROVE q + 1 > k
    <2>1. q = k
      <3>1. p = B * k + 0 /\ 0 \in 0..(B - 1) /\ p \in Nat  BY <1>0, <1>2, <1>3
      <3>2. p \div B = k  BY <1>0, <1>2, <3>1, DivModUnique
      <3> QED  BY <3>2 DEF q
    <2> QED  BY <1>1, <1>2, <2>1
  <1>4. ASSUME p # M  PROVE ~(q + 1 > k)
    <2>1. p < M  BY <1>4
    <2> SUFFICES ASSUME q >= k  PROVE FALSE  BY <1>1, <1>2
    <2>2. B * q >= B * k  BY <1>0, <1>1, <1>2
    <2> QED  BY <1>0, <1>1, <1>2, <2>1, <2>2
  <1> QED  BY <1>3, <1>4 DEF q, k, B

\* An array while an operation works on it.
Arrays == [mem : Seq(Int), cur : Nat, pos : Nat, size : Nat]

\* addCapacity makes room and changes nothing that is there.
LEMMA AddCapacity ==
  ASSUME NEW a \in Arrays, Sound(a), NEW n \in Nat
  PROVE  LET b == addCapacity(a, n)
         IN  /\ b \in Arrays /\ Sound(b)
             /\ b.pos = a.pos /\ b.size = a.size
             /\ Len(b.mem) >= Len(a.mem) /\ Len(b.mem) >= a.pos + n
             /\ \A i \in 1..Len(a.mem) : b.mem[i] = a.mem[i]
  <1> DEFINE B == m_baseSize
             M == Len(a.mem)
             room == M - a.pos
             count == IF room >= n THEN 0 ELSE (n - room + B - 1) \div B
             ext == [i \in 1..count * B |-> Junk]
             cur == IF count > 0 /\ room = 0 THEN (M \div B) + 1 ELSE a.cur
             b == addCapacity(a, n)
  <1>1. b = [a EXCEPT !.mem = a.mem \o ext, !.cur = cur]  BY DEF addCapacity
  <1>2. /\ B \in Nat \ {0} /\ M \in Nat /\ M > 0 /\ M % B = 0
        /\ a.mem \in Seq(Int) /\ a.pos \in Nat /\ a.pos <= M
        /\ a.size \in Nat /\ a.pos <= a.size /\ a.size <= M
    BY BaseSize, LenProperties DEF Sound, Arrays
  <1>3. a.cur = IF a.pos = M THEN 0 ELSE (a.pos \div B) + 1  BY DEF Sound
  <1> HIDE DEF B, M, b
  <1>4. room \in Nat  BY <1>2
  <1>5. count \in Nat /\ count * B >= n - room /\ count * B \in Nat /\ (count = 0 \/ count * B > 0)
    <2>1. CASE room >= n  BY <1>2, <1>4, <2>1
    <2>2. CASE ~(room >= n)
      <3> DEFINE x == n - room + B - 1
      <3>1. x \in Nat  BY <1>2, <1>4, <2>2
      <3>2. count = x \div B  BY <2>2
      <3> HIDE DEF x
      <3>3. x \div B \in Nat /\ x % B \in 0..(B - 1) /\ x = B * (x \div B) + (x % B)
        BY <1>2, <3>1, DivMod
      <3> HIDE DEF count
      <3>4. count \in Nat /\ B * count = count * B /\ x = B * count + (x % B)  BY <1>2, <3>2, <3>3
      <3>5. count * B >= n - room
        <4>1. ASSUME NEW c \in Int, NEW y \in 0..(B - 1), x = c + y  PROVE c >= n - room
          BY <1>2, <1>4, <4>1 DEF x
        <4>2. B * count \in Int  BY <1>2, <3>4
        <4> QED  BY <3>3, <3>4, <4>1, <4>2
      <3>6. count * B \in Nat /\ (count = 0 \/ count * B > 0)  BY <1>2, <3>4
      <3> QED  BY <3>4, <3>5, <3>6
    <2> QED  BY <2>1, <2>2
  <1> HIDE DEF count
  <1>6. ext \in Seq(Int) /\ Len(ext) = count * B
    <2>1. ext \in [1..(count * B) -> Int]  BY DEF Junk
    <2>2. ext \in Seq(Int)  BY <1>5, <2>1, SeqDef
    <2>3. DOMAIN ext = 1..(count * B) /\ DOMAIN ext = 1..Len(ext) /\ Len(ext) \in Nat
      BY <2>2, LenProperties
    <2> HIDE DEF ext
    <2> QED  BY <1>5, <2>2, <2>3
  <1> HIDE DEF ext
  <1>7. /\ a.mem \o ext \in Seq(Int) /\ Len(a.mem \o ext) = M + count * B
        /\ \A i \in 1..M : (a.mem \o ext)[i] = a.mem[i]
    <2>1. PICK m : m = a.mem  OBVIOUS
    <2>2. m \in Seq(Int) /\ Len(m) = M  BY <1>2, <2>1 DEF M
    <2>3. /\ m \o ext \in Seq(Int)
          /\ Len(m \o ext) = Len(m) + Len(ext)
          /\ \A i \in 1..Len(m) + Len(ext) :
                (m \o ext)[i] = IF i <= Len(m) THEN m[i] ELSE ext[i - Len(m)]
      BY <1>6, <2>2, ConcatProperties
    <2> QED  BY <1>2, <1>5, <1>6, <2>1, <2>2, <2>3
  <1>8. (M + count * B) % B = 0
    <2> DEFINE k == M \div B
    <2>1. k \in Nat /\ M = B * k + (M % B)  BY <1>2, DivMod
    <2> HIDE DEF k
    <2>2. M + count * B = B * (k + count) + 0 /\ k + count \in Nat /\ 0 \in 0..(B - 1)
      BY <1>2, <1>5, <2>1
    <2>3. M + count * B \in Nat  BY <1>2, <1>5
    <2> QED  BY <1>2, <2>2, <2>3, DivModUnique
  <1>9. cur = IF a.pos = M + count * B THEN 0 ELSE (a.pos \div B) + 1
    <2>1. CASE count = 0
      <3>1. cur = a.cur /\ M + count * B = M  BY <1>2, <2>1
      <3> QED  BY <1>3, <3>1
    <2>2. CASE count # 0
      <3>1. a.pos # M + count * B  BY <1>2, <1>5, <2>2
      <3>2. CASE room = 0
        <4>1. a.pos = M /\ cur = (M \div B) + 1  BY <1>2, <1>5, <2>2, <3>2
        <4> QED  BY <3>1, <4>1
      <3>3. CASE room # 0
        <4>1. a.pos # M /\ cur = a.cur  BY <1>2, <3>3
        <4> QED  BY <1>3, <3>1, <4>1
      <3> QED  BY <3>2, <3>3
    <2> QED  BY <2>1, <2>2
  <1>10. cur \in Nat
    <2>1. a.pos \div B \in Nat  BY <1>2, DivMod
    <2> QED  BY <1>9, <2>1
  <1> HIDE DEF cur
  <1>11. /\ b.mem = a.mem \o ext /\ b.cur = cur /\ b.pos = a.pos /\ b.size = a.size
         /\ b \in Arrays
    BY <1>1, <1>7, <1>10 DEF Arrays
  <1>12. Sound(b)
    <2>1. Len(b.mem) = M + count * B /\ M + count * B >= M  BY <1>2, <1>5, <1>7, <1>11
    <2>2. b.mem \in Seq(Int) /\ Len(b.mem) > 0 /\ Len(b.mem) % B = 0
      BY <1>2, <1>7, <1>8, <1>11, <2>1
    <2>3. b.size \in 0..Len(b.mem) /\ b.pos \in 0..b.size  BY <1>2, <1>11, <2>1
    <2>4. b.cur = IF b.pos = Len(b.mem) THEN 0 ELSE (b.pos \div B) + 1
      BY <1>9, <1>11, <2>1
    <2> QED  BY <2>2, <2>3, <2>4 DEF Sound, B
  <1>13. Len(b.mem) >= M /\ Len(b.mem) >= a.pos + n
    <2>1. ASSUME NEW c \in Nat, c >= n - room  PROVE M + c >= M /\ M + c >= a.pos + n
      BY <1>2, <2>1
    <2> QED  BY <1>5, <1>7, <1>11, <2>1
  <1>14. \A i \in 1..M : b.mem[i] = a.mem[i]  BY <1>7, <1>11
  <1> QED  BY <1>11, <1>12, <1>13, <1>14 DEF b, M

\* write puts the bytes at the position, over what is there, and moves behind
\* them.
LEMMA Write ==
  ASSUME NEW a \in Arrays, Sound(a), NEW buf \in Seq(Int)
  PROVE  LET b == write(a, buf)
         IN  /\ b \in Arrays /\ Sound(b)
             /\ b.pos = a.pos + Len(buf)
             /\ b.size = IF b.pos > a.size THEN b.pos ELSE a.size
             /\ Len(b.mem) >= Len(a.mem)
             /\ \A i \in 1..Len(a.mem) : i <= a.pos \/ i > b.pos => b.mem[i] = a.mem[i]
             /\ \A i \in 1..Len(buf) : b.mem[a.pos + i] = buf[i]
  <1> DEFINE B == m_baseSize
             n == Len(buf)
             c == addCapacity(a, n)
             b == write(a, buf)
             p == a.pos
  <1>0. /\ n \in Nat /\ (n = 0 <=> buf = <<>>) /\ \A i \in 1..n : buf[i] \in Int
        /\ B \in Nat \ {0}
    BY BaseSize, LenProperties, EmptySeq, ElementOfSeq
  <1>1. /\ a.mem \in Seq(Int) /\ Len(a.mem) \in Nat /\ p \in Nat /\ p <= a.size
        /\ a.size \in Nat /\ a.size <= Len(a.mem)
    BY LenProperties DEF Sound, Arrays
  <1>2. CASE buf = <<>>
    <2>1. b = a  BY <1>2 DEF write
    <2>2. n = 0  BY <1>0, <1>2
    <2> QED  BY <1>1, <2>1, <2>2
  <1>3. CASE buf # <<>>
    <2>1. n > 0  BY <1>0, <1>3
    <2>2. /\ c \in Arrays /\ Sound(c) /\ c.pos = p /\ c.size = a.size
          /\ Len(c.mem) >= Len(a.mem) /\ Len(c.mem) >= p + n
          /\ \A i \in 1..Len(a.mem) : c.mem[i] = a.mem[i]
      <3> HIDE DEF n, c, p
      <3>1. LET d == addCapacity(a, n)
            IN  /\ d \in Arrays /\ Sound(d)
                /\ d.pos = a.pos /\ d.size = a.size
                /\ Len(d.mem) >= Len(a.mem) /\ Len(d.mem) >= a.pos + n
                /\ \A i \in 1..Len(a.mem) : d.mem[i] = a.mem[i]
        BY <1>0, AddCapacity
      <3> QED  BY <3>1 DEF c, p
    <2> DEFINE first == ((c.cur - 1) * B) + (c.pos % B)
               next == c.cur + (((c.pos % B) + n) \div B)
               end == c.pos + n
               M == Len(c.mem)
               m == [i \in DOMAIN c.mem |->
                       IF i > first /\ i <= first + n THEN buf[i - first] ELSE c.mem[i]]
    <2>3. b = [mem |-> m, cur |-> IF next > M \div B THEN 0 ELSE next, pos |-> end,
               size |-> IF end > c.size THEN end ELSE c.size]
      BY <1>3 DEF write
    <2> HIDE DEF n, c, b, p, B
    <2>4. /\ c.mem \in Seq(Int) /\ M \in Nat /\ M > 0 /\ M % B = 0 /\ DOMAIN c.mem = 1..M
          /\ \A i \in 1..M : c.mem[i] \in Int
      <3>1. c.mem \in Seq(Int) /\ M > 0 /\ M % B = 0  BY <2>2 DEF Sound, B
      <3> QED  BY <3>1, LenProperties, ElementOfSeq
    <2> HIDE DEF M
    <2>0. M >= Len(a.mem) /\ M >= p + n /\ M \in Nat /\ n \in Nat /\ p \in Nat
      BY <1>0, <1>1, <2>2, <2>4 DEF M
    <2>5. c.cur = (p \div B) + 1
      <3>1. p # M  BY <1>0, <1>1, <2>1, <2>2 DEF M
      <3> QED  BY <2>2, <3>1 DEF Sound, M, B
    <2>6. first = p /\ next = ((p + n) \div B) + 1 /\ (p + n) \div B \in Nat
      <3>1. /\ (((p \div B) + 1) - 1) * B + (p % B) = p
            /\ ((p \div B) + 1) + (((p % B) + n) \div B) = ((p + n) \div B) + 1
        BY <1>0, <1>1, BlockPlace DEF B
      <3>2. p + n \in Nat  BY <1>0, <1>1
      <3>3. (p + n) \div B \in Nat  BY <1>0, <3>2, DivMod
      <3> QED  BY <2>2, <2>5, <3>1, <3>3
    <2> HIDE DEF first, next
    <2>7. /\ DOMAIN m = 1..M
          /\ \A i \in 1..M : m[i] = IF i > p /\ i <= p + n THEN buf[i - p] ELSE c.mem[i]
      BY <2>4, <2>6
    <2> HIDE DEF m
    <2>8. m \in Seq(Int) /\ Len(m) = M
      <3>1. ASSUME NEW i \in 1..M  PROVE m[i] \in Int
        <4>1. CASE i > p /\ i <= p + n
          <5>1. i - p \in 1..n  BY <1>0, <1>1, <2>4, <4>1
          <5> QED  BY <1>0, <2>7, <4>1, <5>1
        <4>2. CASE ~(i > p /\ i <= p + n)  BY <2>4, <2>7, <4>2
        <4> QED  BY <4>1, <4>2
      <3>2. m = [i \in 1..M |-> m[i]]  BY <2>7 DEF m
      <3>3. m \in [1..M -> Int]  BY <3>1, <3>2
      <3>4. m \in Seq(Int)  BY <2>4, <3>3, SeqDef
      <3>5. DOMAIN m = 1..Len(m) /\ Len(m) \in Nat  BY <3>4, LenProperties
      <3> QED  BY <2>4, <2>7, <3>4, <3>5
    <2>9. next > M \div B <=> p + n = M
      <3>1. p + n \in 0..M  BY <1>0, <1>1, <2>2, <2>4 DEF M
      <3> QED  BY <2>4, <2>6, <3>1, BlockEnd DEF B
    <2>10. /\ b.mem = m /\ b.pos = p + n
           /\ b.size = IF p + n > a.size THEN p + n ELSE a.size
           /\ b.cur = IF p + n = M THEN 0 ELSE ((p + n) \div B) + 1
      BY <2>2, <2>3, <2>6, <2>9
    <2>11. b.size \in Nat /\ b.pos \in Nat /\ b.cur \in Nat  BY <1>0, <1>1, <2>6, <2>10
    <2>12. b \in Arrays
      <3>1. b = [mem |-> b.mem, cur |-> b.cur, pos |-> b.pos, size |-> b.size]  BY <2>3
      <3> QED  BY <2>8, <2>10, <2>11, <3>1 DEF Arrays
    <2>13. Sound(b)
      <3>1. b.size \in 0..M /\ b.pos \in 0..b.size  BY <1>1, <2>0, <2>10
      <3> QED  BY <2>4, <2>8, <2>10, <3>1 DEF Sound, B
    <2>14. Len(b.mem) >= Len(a.mem)  BY <2>2, <2>8, <2>10 DEF M
    <2>15. ASSUME NEW i \in 1..Len(a.mem), i <= p \/ i > p + n  PROVE b.mem[i] = a.mem[i]
      <3>1. PICK h \in Nat : h = Len(a.mem)  BY <1>1
      <3>2. i \in 1..h /\ h <= M  BY <2>0, <2>15, <3>1
      <3>3. i \in 1..M  BY <2>0, <3>1, <3>2
      <3>4. i \in Nat /\ p + n \in Nat /\ (i <= p \/ i > p + n)  BY <2>0, <2>15, <3>1, <3>2
      <3>5. ~(i > p /\ i <= p + n)  BY <2>0, <3>4
      <3> QED  BY <2>2, <2>7, <2>10, <3>3, <3>5
    <2>16. ASSUME NEW i \in 1..n  PROVE b.mem[p + i] = buf[i]
      <3>1. /\ p + i \in 1..M /\ p + i > p /\ p + i <= p + n /\ (p + i) - p = i
        BY <2>0
      <3> QED  BY <2>7, <2>10, <3>1
    <2> QED  BY <2>10, <2>12, <2>13, <2>14, <2>15, <2>16 DEF b, n, p
  <1> QED  BY <1>2, <1>3

-----------------------------------------------------------------------------
(* Reading.                                                                *)

\* The bytes behind the first i and up to the j-th.
LEMMA Part ==
  ASSUME NEW m \in Seq(Int), NEW j \in 0..Len(m), NEW i \in 0..j
  PROVE  /\ SubSeq(m, i + 1, j) \in Seq(Int) /\ Len(SubSeq(m, i + 1, j)) = j - i
         /\ \A k \in 1..(j - i) : SubSeq(m, i + 1, j)[k] = m[i + k]
  <1>1. /\ Len(m) \in Nat /\ i \in Nat /\ j \in Nat /\ i + 1 \in Int
        /\ i <= j /\ j <= Len(m) /\ j - (i + 1) + 1 = j - i
    BY LenProperties
  <1>2. \A k \in (i + 1)..j : m[k] \in Int  BY <1>1, ElementOfSeq
  <1>3. /\ SubSeq(m, i + 1, j) \in Seq(Int)
        /\ Len(SubSeq(m, i + 1, j)) = IF i + 1 <= j THEN j - (i + 1) + 1 ELSE 0
        /\ \A k \in 1..(j - (i + 1) + 1) : SubSeq(m, i + 1, j)[k] = m[(i + 1) + k - 1]
    BY <1>1, <1>2, SubSeqProperties
  <1>4. Len(SubSeq(m, i + 1, j)) = j - i  BY <1>1, <1>3
  <1>5. ASSUME NEW k \in 1..(j - i)  PROVE SubSeq(m, i + 1, j)[k] = m[i + k]
    <2>1. (i + 1) + k - 1 = i + k  BY <1>1
    <2> QED  BY <1>1, <1>3, <2>1
  <1> QED  BY <1>3, <1>4, <1>5

\* Two parts, one behind the other.
LEMMA Join ==
  ASSUME NEW m \in Seq(Int), NEW k \in 0..Len(m), NEW j \in 0..k, NEW i \in 0..j
  PROVE  SubSeq(m, i + 1, j) \o SubSeq(m, j + 1, k) = SubSeq(m, i + 1, k)
  <1>1. /\ i + 1 \in 1..(Len(m) + 1) /\ j \in ((i + 1) - 1)..Len(m) /\ k \in j..Len(m)
    BY LenProperties
  <1> QED  BY <1>1, ConcatAdjacentSubSeq

\* What is at a place of memory is what it has been compared with.
LEMMA PartIs ==
  ASSUME NEW m \in Seq(Int), NEW w \in Seq(Int), NEW i \in Nat, i + Len(w) <= Len(m),
         \A k \in 1..Len(w) : m[i + k] = w[k]
  PROVE  SubSeq(m, i + 1, i + Len(w)) = w
  <1> DEFINE n == Len(w)  s == SubSeq(m, i + 1, i + n)
  <1>1. n \in Nat /\ Len(m) \in Nat /\ i + n \in 0..Len(m) /\ i \in 0..(i + n) /\ (i + n) - i = n
    BY LenProperties
  <1> HIDE DEF n
  <1>2. s \in Seq(Int) /\ Len(s) = n /\ \A k \in 1..n : s[k] = m[i + k]  BY <1>1, Part
  <1>3. \A k \in 1..n : s[k] = w[k]  BY <1>2 DEF n
  <1> HIDE DEF s
  <1>4. s = w  BY <1>2, <1>3, SeqEqual DEF n
  <1> QED  BY <1>4 DEF s, n

\* The state's numbers.
LEMMA ChainTypes ==
  ASSUME ChainInv
  PROVE  /\ mem \in Seq(Int) /\ Len(mem) \in Nat /\ Len(mem) > 0 /\ Len(mem) % m_baseSize = 0
         /\ m_size \in Nat /\ m_size <= Len(mem) /\ m_position \in Nat /\ m_position <= m_size
         /\ m_cur = IF m_position = Len(mem) THEN 0 ELSE (m_position \div m_baseSize) + 1
         /\ m_cur \in Nat
         /\ Now \in Arrays /\ Sound(Now)
         /\ m_endian \in {"big", "little"}
  <1>1. /\ mem \in Seq(Int) /\ Len(mem) > 0 /\ Len(mem) % m_baseSize = 0
        /\ m_size \in 0..Len(mem) /\ m_position \in 0..m_size
        /\ m_cur = IF m_position = Len(mem) THEN 0 ELSE (m_position \div m_baseSize) + 1
        /\ Sound(Now) /\ m_endian \in {"big", "little"}
    BY DEF ChainInv, Sound, Now
  <1>2. Len(mem) \in Nat  BY <1>1, LenProperties
  <1>3. m_size \in Nat /\ m_size <= Len(mem) /\ m_position \in Nat /\ m_position <= m_size
    BY <1>1, <1>2
  <1>4. m_position \div m_baseSize \in Nat  BY <1>3, BaseSize, DivMod
  <1>5. m_cur \in Nat  BY <1>1, <1>4
  <1>6. Now \in Arrays  BY <1>1, <1>3, <1>5 DEF Now, Arrays
  <1> QED  BY <1>1, <1>2, <1>3, <1>5, <1>6

\* The copying loops, started in the block of byte p: they copy what is behind p
\* and end in the block they should.
LEMMA CopyRight ==
  ASSUME ChainInv, NEW p \in Nat, NEW n \in Nat, p < Len(mem), p + n <= Len(mem)
  PROVE  /\ Copy((p \div m_baseSize) + 1, p % m_baseSize, n) = SubSeq(mem, p + 1, p + n)
         /\ Moved((p \div m_baseSize) + 1, p % m_baseSize, n)
              = IF p + n = Len(mem) THEN 0 ELSE ((p + n) \div m_baseSize) + 1
  <1> DEFINE B == m_baseSize  cur == (p \div B) + 1  off == p % B  M == Len(mem)
  <1>1. M \in Nat /\ M % B = 0 /\ B \in Nat \ {0}  BY ChainTypes, BaseSize
  <1>2. /\ p \div B \in Nat /\ off \in Nat
        /\ (cur - 1) * B + off = p
        /\ cur + ((off + n) \div B) = ((p + n) \div B) + 1
    BY BlockPlace
  <1>3. cur # 0  BY <1>2
  <1>4. p + n \in 0..M  BY <1>1
  <1>5. ((p + n) \div B) + 1 > M \div B <=> p + n = M  BY <1>1, <1>4, BlockEnd
  <1>6. Copy(cur, off, n) = SubSeq(mem, p + 1, p + n)
    <2>1. Copy(cur, off, n) = IF cur = 0 \/ p + n > M THEN OffChain ELSE SubSeq(mem, p + 1, p + n)
      <3> HIDE DEF cur, off
      <3> QED  BY <1>2 DEF Copy
    <2> HIDE DEF cur, off, M
    <2> QED  BY <1>1, <1>3, <1>4, <2>1
  <1>7. Moved(cur, off, n) = IF p + n = M THEN 0 ELSE ((p + n) \div B) + 1
    <2>1. Moved(cur, off, n) = IF ((p + n) \div B) + 1 > M \div B THEN 0 ELSE ((p + n) \div B) + 1
      <3> HIDE DEF cur, off
      <3> QED  BY <1>2 DEF Moved, Blocks
    <2> QED  BY <1>5, <2>1
  <1> QED  BY <1>6, <1>7

\* A reader in the middle of an operation: it has read what is between
\* m_position and its own position, and only the end of memory crashes it.
Readers == [cur : Nat, pos : Nat, res : {"ok", "throws", "crash"}, raw : Seq(Int)]
GoodReader(r) ==
    /\ r \in Readers /\ r.pos >= m_position /\ r.pos <= m_size
    /\ r.cur = IF r.pos = Len(mem) THEN 0 ELSE (r.pos \div m_baseSize) + 1
    /\ r.raw = SubSeq(mem, m_position + 1, r.pos)
    /\ r.res = "crash" => r.pos = Len(mem)

LEMMA ReaderStarts ==
  ASSUME ChainInv
  PROVE  GoodReader(Reader) /\ Reader.res = "ok" /\ Reader.pos = m_position /\ Reader.raw = <<>>
  <1>1. Reader \in Readers
    BY ChainTypes, EmptySeq DEF Reader, Readers
  <1>2. SubSeq(mem, m_position + 1, m_position) = <<>>
    <2>1. m_position + 1 \in Int /\ m_position \in Int /\ m_position < m_position + 1  BY ChainTypes
    <2> QED  BY <2>1, SubSeqEmpty
  <1> QED  BY <1>1, <1>2, ChainTypes DEF Reader, GoodReader

\* read copies n bytes if there are as many, and otherwise throws.
LEMMA Read ==
  ASSUME ChainInv, NEW r, GoodReader(r), NEW n \in Nat
  PROVE  LET s == read(r, n)
         IN  /\ GoodReader(s) /\ s.pos >= r.pos /\ s.pos <= r.pos + n
             /\ r.res # "ok" => s = r
             /\ s.res = "ok" => s.pos = r.pos + n /\ s.pos <= m_size
             /\ r.res = "ok" /\ r.pos + n <= m_size =>
                  IF r.pos = Len(mem) THEN s.res = "crash" /\ s.pos = r.pos
                  ELSE s.res = "ok" /\ s.pos = r.pos + n
  <1> DEFINE M == Len(mem)
  <1> SUFFICES ASSUME NEW s, s = read(r, n)
               PROVE  /\ GoodReader(s) /\ s.pos >= r.pos /\ s.pos <= r.pos + n
                      /\ r.res # "ok" => s = r
                      /\ s.res = "ok" => s.pos = r.pos + n /\ s.pos <= m_size
                      /\ r.res = "ok" /\ r.pos + n <= m_size =>
                           IF r.pos = M THEN s.res = "crash" /\ s.pos = r.pos
                           ELSE s.res = "ok" /\ s.pos = r.pos + n
    OBVIOUS
  <1>1. /\ M \in Nat /\ m_size \in Nat /\ m_size <= M /\ m_position \in Nat /\ m_position <= m_size
        /\ mem \in Seq(Int)
    BY ChainTypes
  <1>2. /\ r \in Readers /\ r.pos \in Nat /\ r.pos >= m_position /\ r.pos <= m_size
        /\ r.cur = (IF r.pos = M THEN 0 ELSE (r.pos \div m_baseSize) + 1) /\ r.cur \in Nat
        /\ r.raw = SubSeq(mem, m_position + 1, r.pos) /\ r.raw \in Seq(Int)
        /\ r.res \in {"ok", "throws", "crash"}
        /\ r.res = "crash" => r.pos = M
    BY DEF GoodReader, Readers
  <1>3. r.pos = M <=> r.cur = 0
    <2>1. r.pos \div m_baseSize \in Nat  BY <1>2, BaseSize, DivMod
    <2> QED  BY <1>2, <2>1
  <1>4. CASE r.res # "ok"
    <2>1. s = r  BY <1>4 DEF read
    <2> QED  BY <1>1, <1>2, <1>4, <2>1
  <1>5. CASE r.res = "ok" /\ n > m_size - r.pos
    <2>0. ~(n <= m_size - r.pos)  BY <1>1, <1>2, <1>5
    <2>1. s = [r EXCEPT !.res = "throws"]  BY <1>5, <2>0 DEF read
    <2>2. s \in Readers /\ s.pos = r.pos /\ s.cur = r.cur /\ s.raw = r.raw /\ s.res = "throws"
      BY <1>2, <2>1 DEF Readers
    <2>3. GoodReader(s)  BY <1>2, <2>2 DEF GoodReader
    <2>4. ~(r.pos + n <= m_size) /\ s.pos >= r.pos /\ s.pos <= r.pos + n
      <3>1. r.pos \in Nat /\ m_size \in Nat  BY <1>1, <1>2
      <3>2. ~(r.pos + n <= m_size) /\ r.pos >= r.pos /\ r.pos <= r.pos + n  BY <1>5, <3>1
      <3> QED  BY <2>2, <3>2
    <2> QED  BY <1>5, <2>2, <2>3, <2>4
  <1>6. CASE r.res = "ok" /\ n <= m_size - r.pos /\ r.cur = 0
    <2>0. ~(n > m_size - r.pos)  BY <1>1, <1>2, <1>6
    <2>1. s = [r EXCEPT !.res = "crash"]  BY <1>6, <2>0 DEF read
    <2>2. s \in Readers /\ s.pos = r.pos /\ s.cur = r.cur /\ s.raw = r.raw /\ s.res = "crash"
      BY <1>2, <2>1 DEF Readers
    <2>3. GoodReader(s)  BY <1>2, <1>3, <1>6, <2>2 DEF GoodReader
    <2>4. r.pos = M /\ s.pos >= r.pos /\ s.pos <= r.pos + n
      <3>1. r.pos = M /\ r.pos >= r.pos /\ r.pos <= r.pos + n  BY <1>2, <1>3, <1>6
      <3> QED  BY <2>2, <3>1
    <2> QED  BY <1>6, <2>2, <2>3, <2>4
  <1>7. CASE r.res = "ok" /\ n <= m_size - r.pos /\ r.cur # 0
    <2> DEFINE p == r.pos
               cur == Moved(r.cur, p % m_baseSize, n)
               bs == Copy(r.cur, p % m_baseSize, n)
    <2>0. ~(n > m_size - r.pos)  BY <1>1, <1>2, <1>7
    <2>1. s = [r EXCEPT !.cur = cur, !.pos = p + n, !.raw = r.raw \o bs]  BY <1>7, <2>0 DEF read
    <2>2. p \in Nat /\ p # M /\ p < M /\ p + n <= M /\ p + n \in Nat /\ p + n <= m_size
      <3>1. p # M /\ n <= m_size - p /\ p \in Nat /\ p <= m_size  BY <1>2, <1>3, <1>7
      <3> HIDE DEF p, M
      <3> QED  BY <1>1, <3>1
    <2>3. r.cur = (p \div m_baseSize) + 1  BY <1>2, <2>2
    <2> HIDE DEF p
    <2>4. /\ bs = SubSeq(mem, p + 1, p + n)
          /\ cur = IF p + n = M THEN 0 ELSE ((p + n) \div m_baseSize) + 1
      BY <2>2, <2>3, CopyRight
    <2> HIDE DEF bs, cur
    <2>5. r.raw = SubSeq(mem, m_position + 1, p)  BY <1>2 DEF p
    <2>6. p + n \in 0..M /\ p \in 0..(p + n) /\ m_position \in 0..p /\ m_position \in 0..(p + n)
      <3>1. p >= m_position  BY <1>2 DEF p
      <3> HIDE DEF M
      <3> QED  BY <1>1, <2>2, <3>1
    <2>7. r.raw \o bs = SubSeq(mem, m_position + 1, p + n)
      BY <1>1, <2>4, <2>5, <2>6, Join DEF M
    <2>8. r.raw \o bs \in Seq(Int)  BY <1>1, <2>6, <2>7, Part DEF M
    <2>9. cur \in Nat
      <3>1. (p + n) \div m_baseSize \in Nat  BY <2>2, BaseSize, DivMod
      <3> QED  BY <2>4, <3>1
    <2>10. /\ s \in Readers /\ s.pos = p + n /\ s.cur = cur /\ s.res = "ok"
           /\ s.raw = SubSeq(mem, m_position + 1, p + n)
      BY <1>2, <1>7, <2>1, <2>2, <2>7, <2>8, <2>9 DEF Readers
    <2>11. GoodReader(s)  BY <1>1, <1>2, <2>2, <2>4, <2>10 DEF GoodReader, p
    <2>12. p + n >= p  BY <2>2
    <2>13. s.pos >= r.pos /\ s.pos <= r.pos + n /\ s.pos = r.pos + n /\ s.pos <= m_size /\ r.pos # M
      <3>1. p + n <= p + n  BY <2>2
      <3> QED  BY <2>2, <2>10, <2>12, <3>1 DEF p
    <2> QED  BY <1>7, <2>10, <2>11, <2>13
  <1>8. n > m_size - r.pos \/ n <= m_size - r.pos  BY <1>1, <1>2
  <1> QED  BY <1>4, <1>5, <1>6, <1>7, <1>8

\* The loop of readUint32: its i-th round, and its rounds one after the other.
VarintStep(b, i) ==
    IF i > 1 /\ b.res = "ok" /\ b.raw[Len(b.raw)] < High THEN b ELSE read(b, 1)

LEMMA VarintRounds ==
  ASSUME NEW r
  PROVE  \E f : /\ f[0] = r
                /\ \A i \in 1..MaxGroups : f[i] = VarintStep(f[i - 1], i)
                /\ readVarint(r) = f[MaxGroups]
  <1> DEFINE N == MaxGroups
             more[i \in 0..N] ==
               IF i = 0 THEN r
               ELSE LET b == more[i - 1]
                    IN  IF i > 1 /\ b.res = "ok" /\ b.raw[Len(b.raw)] < High THEN b
                        ELSE read(b, 1)
  <1>1. N \in Nat
    <2>1. Width \in Nat /\ MaxGroups \in 1..Width  BY GroupsFit, ByteArrayAssumption
    <2> QED  BY <2>1
  <1>2. readVarint(r) = more[N]  BY DEF readVarint
  <1> HIDE DEF N
  <1>3. \E f : f = [i \in 0..N |-> IF i = 0 THEN r ELSE VarintStep(f[i - 1], i)]
    <2> DEFINE Rounds(f, m) ==
                  f = [i \in 0..m |-> IF i = 0 THEN r ELSE VarintStep(f[i - 1], i)]
               S == {m \in 0..N : \E f : Rounds(f, m)}
    <2>1. 0 \in S
      <3> DEFINE g == [i \in 0..0 |-> r]
      <3>1. g = [i \in 0..0 |-> IF i = 0 THEN r ELSE VarintStep(g[i - 1], i)]
        <4>1. \A i \in 0..0 : i = 0  OBVIOUS
        <4> HIDE DEF VarintStep
        <4> QED  BY <4>1
      <3>2. \E f : Rounds(f, 0)  BY <3>1
      <3>3. 0 \in 0..N  BY <1>1
      <3> QED  BY <3>2, <3>3
    <2>2. ASSUME NEW m \in 0..(N - 1), m \in S  PROVE m + 1 \in S
      <3>1. PICK f : Rounds(f, m)  BY <2>2
      <3> DEFINE g == [i \in 0..(m + 1) |-> IF i = m + 1 THEN VarintStep(f[m], i) ELSE f[i]]
      <3>2. m \in Nat /\ m \in 0..m  BY <1>1
      <3>3. ASSUME NEW i \in 0..(m + 1)
            PROVE  g[i] = IF i = 0 THEN r ELSE VarintStep(g[i - 1], i)
        <4>1. CASE i = m + 1
          <5>1. g[i] = VarintStep(f[m], i) /\ i # 0 /\ i - 1 = m /\ m \in 0..(m + 1) /\ m # m + 1
            BY <3>2, <4>1
          <5>2. g[i - 1] = f[m]
            <6>1. g[m] = f[m]  BY <5>1
            <6> HIDE DEF g
            <6> QED  BY <5>1, <6>1
          <5> HIDE DEF g
          <5> QED  BY <5>1, <5>2
        <4>2. CASE i \in 0..m
          <5>1. g[i] = f[i]  BY <3>2, <4>2
          <5>2. i # 0 => g[i - 1] = f[i - 1]
            <6>1. i # 0 => i - 1 \in 0..(m + 1) /\ i - 1 # m + 1  BY <3>2, <4>2
            <6> QED  BY <6>1
          <5>3. f[i] = IF i = 0 THEN r ELSE VarintStep(f[i - 1], i)  BY <3>1, <4>2
          <5> HIDE DEF g
          <5> QED  BY <5>1, <5>2, <5>3
        <4> QED  BY <3>2, <4>1, <4>2
      <3>4. Rounds(g, m + 1)
        <4>1. g = [i \in 0..(m + 1) |-> g[i]]  OBVIOUS
        <4> HIDE DEF g
        <4> QED  BY <3>3, <4>1
      <3>5. m + 1 \in 0..N  BY <1>1
      <3> HIDE DEF g, Rounds
      <3> QED  BY <3>4, <3>5
    <2>3. \A m \in 0..N : m \in S
      <3> HIDE DEF S
      <3> QED  BY <1>1, <2>1, <2>2, Induction
    <2>4. N \in S  BY <1>1, <2>3
    <2> QED  BY <2>4
  <1>4. more = [i \in 0..N |-> IF i = 0 THEN r ELSE VarintStep(more[i - 1], i)]
    BY <1>3, Zenon DEF VarintStep
  <1> HIDE DEF more
  <1>5. more[0] = r  BY <1>1, <1>4
  <1>6. ASSUME NEW i \in 1..N  PROVE more[i] = VarintStep(more[i - 1], i)
    <2>1. i \in 0..N /\ i # 0  BY <1>1
    <2> QED  BY <1>4, <2>1
  <1> QED  BY <1>2, <1>5, <1>6 DEF N

\* Reading a varint, whatever is there, moves over at most MaxGroups bytes.
LEMMA ReadVarint ==
  ASSUME ChainInv, NEW r, GoodReader(r)
  PROVE  LET s == readVarint(r)
         IN  /\ GoodReader(s) /\ s.pos >= r.pos /\ s.pos <= r.pos + MaxGroups
  <1> DEFINE N == MaxGroups
  <1>0. N \in Nat /\ 1 \in Nat
    <2>1. Width \in Nat /\ MaxGroups \in 1..Width  BY GroupsFit, ByteArrayAssumption
    <2> QED  BY <2>1
  <1> HIDE DEF N
  <1>1. PICK f : /\ f[0] = r
                 /\ \A i \in 1..N : f[i] = VarintStep(f[i - 1], i)
                 /\ readVarint(r) = f[N]
    BY VarintRounds DEF N
  <1> DEFINE S == {i \in 0..N : GoodReader(f[i]) /\ f[i].pos >= r.pos /\ f[i].pos <= r.pos + i}
  <1>2. r.pos \in Nat  BY DEF GoodReader, Readers
  <1>3. 0 \in S  BY <1>0, <1>1, <1>2
  <1>4. ASSUME NEW i \in 0..(N - 1), i \in S  PROVE i + 1 \in S
    <2> DEFINE b == f[i]  s == f[i + 1]
    <2>1. GoodReader(b) /\ b.pos >= r.pos /\ b.pos <= r.pos + i  BY <1>4
    <2>2. i + 1 \in 1..N /\ i + 1 \in 0..N /\ (i + 1) - 1 = i /\ i \in Nat  BY <1>0
    <2>3. s = VarintStep(b, i + 1)  BY <1>1, <2>2
    <2> HIDE DEF b, s
    <2>4. b.pos \in Nat  BY <2>1 DEF GoodReader, Readers
    <2>5. CASE s = b
      <3>1. s.pos <= r.pos + (i + 1)  BY <1>2, <2>1, <2>2, <2>4, <2>5
      <3> QED  BY <2>1, <2>2, <2>5, <3>1 DEF s
    <2>6. CASE s = read(b, 1)
      <3>1. GoodReader(s) /\ s.pos >= b.pos /\ s.pos <= b.pos + 1  BY <1>0, <2>1, <2>6, Read
      <3>2. s.pos \in Nat  BY <3>1 DEF GoodReader, Readers
      <3>3. s.pos >= r.pos /\ s.pos <= r.pos + (i + 1)  BY <1>2, <2>1, <2>2, <2>4, <3>1, <3>2
      <3> QED  BY <2>2, <3>1, <3>3 DEF s
    <2> QED  BY <2>3, <2>5, <2>6 DEF VarintStep
  <1>5. \A i \in 0..N : i \in S
    <2> HIDE DEF S
    <2> QED  BY <1>0, <1>3, <1>4, Induction
  <1>6. N \in S  BY <1>0, <1>5
  <1> QED  BY <1>1, <1>6 DEF N

\* Reading a varint where one was written ends behind its last byte.
LEMMA ReadVarintBack ==
  ASSUME ChainInv, NEW u \in Word, m_position + VarintLen(u) <= m_size,
         SubSeq(mem, m_position + 1, m_position + VarintLen(u)) = Varint(u)
  PROVE  LET s == readVarint(Reader)
         IN  /\ GoodReader(s) /\ s.res = "ok" /\ s.pos = m_position + VarintLen(u)
             /\ s.raw = Varint(u)
  <1> DEFINE N == MaxGroups  L == VarintLen(u)  p == m_position  V == Varint(u)
  <1>0. N \in Nat /\ 1 \in Nat /\ L \in 1..N /\ L \in Nat
    <2>1. /\ Width \in Nat /\ MaxGroups \in 1..Width /\ VarintLen(u) \in 1..Width
          /\ VarintLen(u) <= MaxGroups
      BY GroupsFit, ByteArrayAssumption, VarintLength
    <2> QED  BY <2>1
  <1>1. /\ mem \in Seq(Int) /\ Len(mem) \in Nat /\ m_size \in Nat /\ m_size <= Len(mem) /\ p \in Nat
    BY ChainTypes
  <1>2. /\ V \in Seq(Nat) /\ Len(V) = L
        /\ \A i \in 1..L : V[i] < High <=> i = L
    BY VarintBytes
  <1> HIDE DEF N, L, V, p
  <1>3. p + L <= m_size /\ SubSeq(mem, p + 1, p + L) = V  BY DEF p, L, V
  <1>4. ASSUME NEW i \in 1..L  PROVE mem[p + i] = V[i]
    <2>1. p + L \in 0..Len(mem) /\ p \in 0..(p + L) /\ (p + L) - p = L  BY <1>0, <1>1, <1>3
    <2>2. \A k \in 1..((p + L) - p) : SubSeq(mem, p + 1, p + L)[k] = mem[p + k]
      BY <1>1, <2>1, Part
    <2> QED  BY <1>3, <2>1, <2>2
  <1>5. PICK f : /\ f[0] = Reader
                 /\ \A i \in 1..N : f[i] = VarintStep(f[i - 1], i)
                 /\ readVarint(Reader) = f[N]
    BY VarintRounds DEF N
  <1> DEFINE At(i) == IF i < L THEN i ELSE L
             S == {i \in 0..N : GoodReader(f[i]) /\ f[i].res = "ok" /\ f[i].pos = p + At(i)}
  <1>6. 0 \in S
    <2>1. GoodReader(Reader) /\ Reader.res = "ok" /\ Reader.pos = p  BY ReaderStarts DEF p
    <2>2. p + At(0) = p /\ 0 \in 0..N  BY <1>0, <1>1
    <2> QED  BY <1>5, <2>1, <2>2
  <1>7. ASSUME NEW i \in 0..(N - 1), i \in S  PROVE i + 1 \in S
    <2> DEFINE b == f[i]  s == f[i + 1]
    <2>1. GoodReader(b) /\ b.res = "ok" /\ b.pos = p + At(i)  BY <1>7
    <2>2. i + 1 \in 1..N /\ i + 1 \in 0..N /\ (i + 1) - 1 = i /\ i \in Nat  BY <1>0
    <2>3. s = VarintStep(b, i + 1)  BY <1>5, <2>2
    <2> HIDE DEF b, s
    <2>4. b.raw = SubSeq(mem, p + 1, p + At(i))  BY <2>1 DEF GoodReader, p
    <2>5. ASSUME i > 0
          PROVE  b.raw[Len(b.raw)] < High <=> i >= L
      <3> DEFINE j == At(i)
      <3>1. j \in 1..L /\ (j = L <=> i >= L)  BY <1>0, <2>2, <2>5
      <3> HIDE DEF j
      <3>2. p + j \in 0..Len(mem) /\ p \in 0..(p + j) /\ (p + j) - p = j
        BY <1>0, <1>1, <1>3, <3>1
      <3>3. Len(b.raw) = j /\ \A k \in 1..j : b.raw[k] = mem[p + k]
        <4>1. b.raw = SubSeq(mem, p + 1, p + j)  BY <2>4 DEF j
        <4>2. /\ Len(SubSeq(mem, p + 1, p + j)) = (p + j) - p
              /\ \A k \in 1..((p + j) - p) : SubSeq(mem, p + 1, p + j)[k] = mem[p + k]
          BY <1>1, <3>2, Part
        <4> QED  BY <3>2, <4>1, <4>2
      <3>4. j \in 1..j  BY <1>0, <3>1
      <3>5. b.raw[Len(b.raw)] = V[j]  BY <1>4, <3>1, <3>3, <3>4
      <3> QED  BY <1>2, <3>1, <3>5
    <2>6. CASE i >= L
      <3>1. i > 0 /\ i + 1 > 1 /\ At(i) = L /\ At(i + 1) = L  BY <1>0, <2>2, <2>6
      <3>2. s = b  BY <2>1, <2>3, <2>5, <2>6, <3>1 DEF VarintStep
      <3> QED  BY <2>1, <2>2, <3>1, <3>2 DEF s
    <2>7. CASE i < L
      <3>1. At(i) = i /\ At(i + 1) = i + 1 /\ ~(i >= L)  BY <1>0, <2>2, <2>7
      <3>2. s = read(b, 1)
        <4>1. i + 1 > 1 => i > 0  BY <2>2
        <4> QED  BY <2>3, <2>5, <3>1, <4>1 DEF VarintStep
      <3>3. b.pos + 1 <= m_size /\ b.pos # Len(mem) /\ b.pos + 1 = p + (i + 1)
        <4>1. b.pos = p + i  BY <2>1, <3>1
        <4> QED  BY <1>0, <1>1, <1>3, <2>2, <2>7, <4>1
      <3>4. GoodReader(s) /\ s.res = "ok" /\ s.pos = b.pos + 1
        BY <1>0, <2>1, <3>2, <3>3, Read
      <3>5. s.pos = p + At(i + 1)  BY <3>1, <3>3, <3>4
      <3> QED  BY <2>2, <3>4, <3>5 DEF s
    <2> QED  BY <1>0, <2>2, <2>6, <2>7
  <1>8. \A i \in 0..N : i \in S
    <2> HIDE DEF S
    <2> QED  BY <1>0, <1>6, <1>7, Induction
  <1>9. N \in S /\ At(N) = L  BY <1>0, <1>8
  <1>10. GoodReader(f[N]) /\ f[N].res = "ok" /\ f[N].pos = p + L  BY <1>9
  <1>11. f[N].raw = V  BY <1>3, <1>10 DEF GoodReader, p
  <1> QED  BY <1>5, <1>10, <1>11 DEF p, L, V

-----------------------------------------------------------------------------
(* The inductive invariant.                                                *)

\* Two writes, one after the other, are one.
LEMMA TwoWrites ==
  ASSUME ChainInv, NEW s \in Seq(Int), NEW t \in Seq(Int)
  PROVE  LET a == write(write(Now, s), t)
             n == Len(s) + Len(t)
         IN  /\ a \in Arrays /\ Sound(a) /\ n \in Nat
             /\ a.pos = m_position + n
             /\ a.size = IF a.pos > m_size THEN a.pos ELSE m_size
             /\ Len(a.mem) >= Len(mem)
             /\ \A i \in 1..Len(mem) : i <= m_position \/ i > a.pos => a.mem[i] = mem[i]
             /\ SubSeq(a.mem, m_position + 1, a.pos) = s \o t
             /\ s \o t \in Seq(Int) /\ Len(s \o t) = n
  <1> DEFINE b == write(Now, s)  a == write(b, t)  n == Len(s) + Len(t)  p == m_position
             S == Len(s)  T == Len(t)  M == Len(mem)
  <1>0. /\ S \in Nat /\ T \in Nat /\ M \in Nat /\ p \in Nat /\ p <= m_size
        /\ m_size \in Nat /\ m_size <= M
    BY ChainTypes, LenProperties
  <1>1. /\ Now \in Arrays /\ Sound(Now) /\ Now.mem = mem /\ Now.pos = p /\ Now.size = m_size
    BY ChainTypes DEF Now
  <1>2. /\ b \in Arrays /\ Sound(b)
        /\ b.pos = p + S
        /\ b.size = IF b.pos > m_size THEN b.pos ELSE m_size
        /\ Len(b.mem) >= M
        /\ \A i \in 1..M : i <= p \/ i > b.pos => b.mem[i] = mem[i]
        /\ \A i \in 1..S : b.mem[p + i] = s[i]
    BY <1>1, Write
  <1> HIDE DEF b
  <1>3. /\ a \in Arrays /\ Sound(a)
        /\ a.pos = b.pos + T
        /\ a.size = IF a.pos > b.size THEN a.pos ELSE b.size
        /\ Len(a.mem) >= Len(b.mem)
        /\ \A i \in 1..Len(b.mem) : i <= b.pos \/ i > a.pos => a.mem[i] = b.mem[i]
        /\ \A i \in 1..T : a.mem[b.pos + i] = t[i]
    BY <1>2, Write
  <1> HIDE DEF a
  <1>4. /\ b.mem \in Seq(Int) /\ Len(b.mem) \in Nat /\ b.pos <= b.size /\ b.size <= Len(b.mem)
        /\ b.size \in Nat
    BY <1>2, LenProperties DEF Sound, Arrays
  <1>5. a.mem \in Seq(Int) /\ Len(a.mem) \in Nat /\ a.pos <= a.size /\ a.size <= Len(a.mem) /\ a.size \in Nat
    BY <1>3, LenProperties DEF Sound, Arrays
  <1>6. n \in Nat /\ a.pos = p + n /\ n = S + T  BY <1>0, <1>2, <1>3
  <1>7. a.size = IF a.pos > m_size THEN a.pos ELSE m_size
    <2>1. ASSUME NEW x \in Nat, NEW y \in Nat, NEW z \in Nat, y = x + T,
                 z = IF y > (IF x > m_size THEN x ELSE m_size) THEN y
                     ELSE IF x > m_size THEN x ELSE m_size
          PROVE  z = IF y > m_size THEN y ELSE m_size
      BY <1>0, <2>1
    <2>2. b.pos \in Nat /\ a.pos \in Nat /\ a.size \in Nat  BY <1>2, <1>3 DEF Arrays
    <2> HIDE DEF T
    <2> QED  BY <1>2, <1>3, <2>1, <2>2
  <1>8. Len(a.mem) >= M  BY <1>0, <1>2, <1>3, <1>4, <1>5
  <1> HIDE DEF S, T, M, p, n
  <1>9. ASSUME NEW i \in 1..M, i <= p \/ i > a.pos  PROVE a.mem[i] = mem[i]
    <2>1. i \in 1..Len(b.mem) /\ (i <= b.pos \/ i > a.pos) /\ (i <= p \/ i > b.pos)
      BY <1>0, <1>2, <1>4, <1>6, <1>9
    <2> QED  BY <1>2, <1>3, <2>1
  <1> DEFINE w == s \o t
  <1>10. /\ w \in Seq(Int) /\ Len(w) = n
         /\ \A i \in 1..n : w[i] = IF i <= S THEN s[i] ELSE t[i - S]
    BY <1>6, ConcatProperties DEF S, T
  <1> HIDE DEF w
  <1>11. ASSUME NEW i \in 1..n  PROVE a.mem[p + i] = w[i]
    <2>1. CASE i <= S
      <3>1. i \in 1..S /\ p + i \in 1..Len(b.mem) /\ p + i <= b.pos
        BY <1>0, <1>2, <1>4, <1>6, <2>1
      <3>2. a.mem[p + i] = b.mem[p + i]  BY <1>3, <3>1
      <3>3. b.mem[p + i] = s[i]  BY <1>2, <3>1
      <3> QED  BY <1>10, <2>1, <3>2, <3>3
    <2>2. CASE ~(i <= S)
      <3>1. i - S \in 1..T /\ b.pos + (i - S) = p + i  BY <1>0, <1>2, <1>6, <2>2
      <3>2. a.mem[p + i] = t[i - S]
        <4>1. a.mem[b.pos + (i - S)] = t[i - S]  BY <1>3, <3>1
        <4> QED  BY <3>1, <4>1
      <3> QED  BY <1>10, <2>2, <3>2
    <2> QED  BY <2>1, <2>2
  <1>12. SubSeq(a.mem, p + 1, p + n) = w
    <2>1. PICK m : m = a.mem  OBVIOUS
    <2>2. m \in Seq(Int) /\ p + Len(w) <= Len(m) /\ p \in Nat /\ \A i \in 1..Len(w) : m[p + i] = w[i]
      <3>1. p + n <= Len(a.mem)  BY <1>0, <1>5, <1>6
      <3> QED  BY <1>0, <1>5, <1>10, <1>11, <2>1, <3>1
    <2>3. SubSeq(m, p + 1, p + Len(w)) = w  BY <1>10, <2>2, PartIs
    <2> QED  BY <1>10, <2>1, <2>3
  <1>13. a = write(write(Now, s), t) /\ n = Len(s) + Len(t) /\ p = m_position /\ M = Len(mem)
    BY DEF a, b, n, p, M
  <1>14. SubSeq(a.mem, p + 1, a.pos) = w  BY <1>6, <1>12
  <1> QED  BY <1>3, <1>6, <1>7, <1>8, <1>9, <1>10, <1>13, <1>14 DEF w

\* What a write does to the state.
LEMMA WritesStep ==
  ASSUME ChainInv, NEW s \in Seq(Int), NEW t \in Seq(Int), NEW kind, NEW val,
         Writes(kind, val, s, t)
  PROVE  /\ ChainInv'
         /\ Len(s) + Len(t) \in Nat /\ m_position' = m_position + (Len(s) + Len(t))
         /\ m_size' = IF m_position' > m_size THEN m_position' ELSE m_size
         /\ Len(mem') >= Len(mem)
         /\ \A i \in 1..Len(mem) : i <= m_position \/ i > m_position' => mem'[i] = mem[i]
         /\ SubSeq(mem', m_position + 1, m_position') = s \o t
         /\ s \o t \in Seq(Int) /\ Len(s \o t) = Len(s) + Len(t)
  <1> DEFINE a == write(write(Now, s), t)
  <1>1. /\ mem' = a.mem /\ m_cur' = a.cur /\ m_position' = a.pos /\ m_size' = a.size
        /\ m_endian' = m_endian
    BY DEF Writes
  <1>2. /\ a \in Arrays /\ Sound(a) /\ Len(s) + Len(t) \in Nat
        /\ a.pos = m_position + (Len(s) + Len(t))
        /\ a.size = IF a.pos > m_size THEN a.pos ELSE m_size
        /\ Len(a.mem) >= Len(mem)
        /\ \A i \in 1..Len(mem) : i <= m_position \/ i > a.pos => a.mem[i] = mem[i]
        /\ SubSeq(a.mem, m_position + 1, a.pos) = s \o t
        /\ s \o t \in Seq(Int) /\ Len(s \o t) = Len(s) + Len(t)
    BY TwoWrites
  <1> HIDE DEF a
  <1>3. ChainInv'  BY <1>1, <1>2, ChainTypes DEF ChainInv, Sound, Now
  <1> QED  BY <1>1, <1>2, <1>3

\* What ItemInv says of one item, of memory m with data of the given size.
Kept(x, m, size) ==
    /\ x.p \in Nat /\ x.len \in Nat /\ x.endian \in {"big", "little"}
    /\ \/ x.kind = "int" /\ \E v \in Ints : x.val = <<v>>
       \/ x.kind = "fint" /\ \E v \in Ints : v >= 0 /\ x.val = <<v>>
       \/ x.kind = "string" /\ x.val \in Words
    /\ x.p + x.len <= size
    /\ SubSeq(m, x.p + 1, x.p + x.len) = Code(x)

LEMMA ItemsKept ==
  /\ ItemInv <=> \A x \in items : Kept(x, mem, m_size)
  /\ ItemInv' <=> \A x \in items' : Kept(x, mem', m_size')
  BY DEF ItemInv, Kept

\* An item outlives what leaves its bytes alone.
LEMMA KeptOn ==
  ASSUME NEW x, NEW m \in Seq(Int), NEW size \in 0..Len(m), Kept(x, m, size),
         NEW k \in Seq(Int), NEW size2 \in 0..Len(k), size2 >= size,
         \A i \in (x.p + 1)..(x.p + x.len) : k[i] = m[i]
  PROVE  Kept(x, k, size2)
  <1> DEFINE p == x.p  n == x.len  w == Code(x)
  <1>1. /\ p \in Nat /\ n \in Nat /\ p + n <= size /\ SubSeq(m, p + 1, p + n) = w
        /\ size \in Nat /\ Len(m) \in Nat /\ Len(k) \in Nat /\ size2 \in Nat
        /\ size <= Len(m) /\ size2 <= Len(k)
    BY LenProperties DEF Kept
  <1> HIDE DEF p, n, w
  <1>2. p + n \in 0..Len(m) /\ p \in 0..(p + n) /\ (p + n) - p = n /\ p + n <= size2 /\ p + n <= Len(k)
    BY <1>1
  <1>3. w \in Seq(Int) /\ Len(w) = n /\ \A i \in 1..n : w[i] = m[p + i]
    BY <1>1, <1>2, Part
  <1>4. ASSUME NEW i \in 1..n  PROVE k[p + i] = w[i]
    <2>0. p \in Nat /\ n \in Nat  BY <1>1
    <2>1. p + i \in (p + 1)..(p + n)  BY <2>0
    <2> QED  BY <1>3, <2>1 DEF p, n
  <1>5. SubSeq(k, p + 1, p + n) = w
    <2>1. SubSeq(k, p + 1, p + Len(w)) = w  BY <1>1, <1>2, <1>3, <1>4, PartIs
    <2> QED  BY <1>3, <2>1
  <1> QED  BY <1>2, <1>5 DEF Kept, p, n, w

\* A write: items it overwrites are forgotten, the others stay.
LEMMA WritesKeep ==
  ASSUME ByteInv, NEW s \in Seq(Int), NEW t \in Seq(Int), NEW kind, NEW val,
         Writes(kind, val, s, t),
         NEW x, x = [p |-> m_position, len |-> Len(s) + Len(t), kind |-> kind, val |-> val,
                     endian |-> m_endian],
         \/ kind = "bytes"
         \/ kind = "int" /\ (\E v \in Ints : val = <<v>>) /\ s \o t = Code(x)
         \/ kind = "fint" /\ (\E v \in Ints : v >= 0 /\ val = <<v>>) /\ s \o t = Code(x)
         \/ kind = "string" /\ val \in Words /\ s \o t = Code(x)
  PROVE  ByteInv'
  <1> DEFINE n == Len(s) + Len(t)
  <1>0. ChainInv /\ ItemInv  BY DEF ByteInv
  <1>1. /\ ChainInv' /\ n \in Nat /\ m_position' = m_position + n
        /\ m_size' = IF m_position' > m_size THEN m_position' ELSE m_size
        /\ Len(mem') >= Len(mem)
        /\ \A i \in 1..Len(mem) : i <= m_position \/ i > m_position' => mem'[i] = mem[i]
        /\ SubSeq(mem', m_position + 1, m_position') = s \o t
    BY <1>0, WritesStep
  <1>2. /\ mem \in Seq(Int) /\ Len(mem) \in Nat /\ m_size \in Nat /\ m_size <= Len(mem)
        /\ m_position \in Nat /\ m_position <= m_size /\ m_endian \in {"big", "little"}
    BY <1>0, ChainTypes
  <1>3. /\ mem' \in Seq(Int) /\ Len(mem') \in Nat /\ m_size' \in 0..Len(mem') /\ m_position' <= m_size'
    <2>1. mem' \in Seq(Int) /\ m_size' \in 0..Len(mem') /\ m_position' \in 0..m_size'
      BY <1>1 DEF ChainInv, Sound, Now
    <2>2. Len(mem') \in Nat  BY <2>1, LenProperties
    <2> QED  BY <1>1, <1>2, <2>1, <2>2
  <1>4. /\ items' = Spared(n) \cup IF kind = "bytes" THEN {} ELSE {x}
        /\ out'.op = "write"
    BY DEF Writes, Result
  <1> HIDE DEF n
  <1>5. ASSUME NEW y \in Spared(n)  PROVE Kept(y, mem', m_size')
    <2>1. y \in items /\ (y.p + y.len <= m_position \/ y.p >= m_position + n)  BY DEF Spared
    <2>2. Kept(y, mem, m_size)  BY <1>0, <2>1, ItemsKept
    <2>3. y.p \in Nat /\ y.len \in Nat /\ y.p + y.len <= m_size  BY <2>2 DEF Kept
    <2>4. ASSUME NEW i \in (y.p + 1)..(y.p + y.len)  PROVE mem'[i] = mem[i]
      <3>1. i \in 1..Len(mem) /\ (i <= m_position \/ i > m_position + n)
        <4> DEFINE a == y.p  b == y.len
        <4>1. /\ a \in Nat /\ b \in Nat /\ a + b <= m_size /\ i \in (a + 1)..(a + b)
              /\ a + b <= m_position \/ a >= m_position + n
          BY <2>1, <2>3
        <4> HIDE DEF a, b
        <4>2. n \in Nat  BY <1>1
        <4> QED  BY <1>2, <4>1, <4>2
      <3> QED  BY <1>1, <3>1
    <2>5. m_size \in 0..Len(mem) /\ m_size' >= m_size  BY <1>1, <1>2
    <2> QED  BY <1>2, <1>3, <2>2, <2>4, <2>5, KeptOn
  <1>6. ASSUME kind # "bytes"  PROVE Kept(x, mem', m_size')
    <2>1. x.p = m_position /\ x.len = n /\ x.kind = kind /\ x.val = val /\ x.endian = m_endian
      BY DEF n
    <2>2. SubSeq(mem', x.p + 1, x.p + x.len) = Code(x)  BY <1>1, <1>6, <2>1
    <2>3. x.p + x.len <= m_size'  BY <1>1, <1>3, <2>1
    <2> QED  BY <1>1, <1>2, <1>6, <2>1, <2>2, <2>3 DEF Kept
  <1>7. \A y \in items' : Kept(y, mem', m_size')  BY <1>4, <1>5, <1>6
  <1>8. ItemInv'  BY <1>7, ItemsKept
  <1>9. ReadsBack'  BY <1>4, <1>7 DEF ReadsBack, Kept
  <1> QED  BY <1>1, <1>8, <1>9 DEF ByteInv

\* What a read does to the state.
LEMMA ReadsStep ==
  ASSUME ChainInv, NEW r, GoodReader(r), NEW kind, NEW val, Reads(kind, r, val)
  PROVE  /\ ChainInv' /\ UNCHANGED <<mem, m_size, m_endian, items>>
         /\ m_position' = r.pos
         /\ out'.op = kind /\ out'.at = m_position /\ out'.res = r.res /\ out'.raw = r.raw
         /\ r.res = "ok" => out'.val = val
  <1>1. /\ m_cur' = r.cur /\ m_position' = r.pos /\ UNCHANGED <<mem, m_size, m_endian, items>>
        /\ out'.op = kind /\ out'.at = m_position /\ out'.res = r.res /\ out'.raw = r.raw
        /\ r.res = "ok" => out'.val = val
    BY DEF Reads, Result
  <1>2. /\ r.pos \in Nat /\ r.pos <= m_size
        /\ r.cur = IF r.pos = Len(mem) THEN 0 ELSE (r.pos \div m_baseSize) + 1
    BY DEF GoodReader, Readers
  <1>3. r.pos \in 0..m_size /\ m_size \in Nat  BY <1>2, ChainTypes
  <1>4. ChainInv'  BY <1>1, <1>2, <1>3 DEF ChainInv, Sound, Now
  <1> QED  BY <1>1, <1>4

\* A read of an item reads it.
ItemRead(x, r, val) ==
    \/ r.res = "ok" /\ val = x.val /\ r.pos = x.p + x.len
    \/ r.res = "crash" /\ x.val = <<>> /\ x.p + x.len = Len(mem)

\* A read that reads the items of its kind right keeps the invariant.
LEMMA ReadsKeep ==
  ASSUME ByteInv, NEW r, GoodReader(r), NEW kind, NEW val, Reads(kind, r, val),
         \A x \in items : x.kind = kind /\ x.p = m_position /\ (kind = "fint" => m_endian = x.endian)
                            => ItemRead(x, r, val)
  PROVE  ByteInv'
  <1>0. ChainInv /\ ItemInv  BY DEF ByteInv
  <1>1. /\ ChainInv' /\ mem' = mem /\ m_size' = m_size /\ m_endian' = m_endian /\ items' = items
        /\ m_position' = r.pos
        /\ out'.op = kind /\ out'.at = m_position /\ out'.res = r.res
        /\ r.res = "ok" => out'.val = val
    BY <1>0, ReadsStep
  <1>2. ItemInv'  BY <1>0, <1>1 DEF ItemInv
  <1>3. ReadsBack'
    <2> SUFFICES ASSUME NEW x \in items, kind = x.kind, m_position = x.p,
                        x.kind = "fint" => m_endian = x.endian
                 PROVE  \/ out'.res = "ok" /\ out'.val = x.val /\ m_position' = x.p + x.len
                        \/ out'.res = "crash" /\ x.val = <<>> /\ x.p + x.len = Len(mem)
      BY <1>1 DEF ReadsBack
    <2>1. ItemRead(x, r, val)  OBVIOUS
    <2> QED  BY <1>1, <2>1 DEF ItemRead
  <1> QED  BY <1>1, <1>2, <1>3 DEF ByteInv

\* The codes are sequences of bytes as long as the item.
LEMMA CodeLength ==
  ASSUME ChainInv, NEW x, Kept(x, mem, m_size)
  PROVE  /\ Code(x) \in Seq(Int) /\ Len(Code(x)) = x.len
         /\ x.p \in Nat /\ x.len \in Nat /\ x.p + x.len \in 0..m_size
         /\ \A i \in 1..x.len : mem[x.p + i] = Code(x)[i]
  <1> DEFINE p == x.p  n == x.len
  <1>1. p \in Nat /\ n \in Nat /\ p + n <= m_size /\ SubSeq(mem, p + 1, p + n) = Code(x)
    BY DEF Kept
  <1> HIDE DEF p, n
  <1>2. mem \in Seq(Int) /\ Len(mem) \in Nat /\ m_size \in Nat /\ m_size <= Len(mem)
    BY ChainTypes
  <1>3. p + n \in 0..Len(mem) /\ p \in 0..(p + n) /\ (p + n) - p = n /\ p + n \in 0..m_size
    <2>1. p \in Nat /\ n \in Nat /\ p + n <= m_size  BY <1>1
    <2> QED  BY <1>2, <2>1
  <1>4. /\ SubSeq(mem, p + 1, p + n) \in Seq(Int) /\ Len(SubSeq(mem, p + 1, p + n)) = (p + n) - p
        /\ \A k \in 1..((p + n) - p) : SubSeq(mem, p + 1, p + n)[k] = mem[p + k]
    BY <1>2, <1>3, Part
  <1>5. /\ Code(x) \in Seq(Int) /\ Len(Code(x)) = n /\ \A i \in 1..n : mem[p + i] = Code(x)[i]
    BY <1>1, <1>3, <1>4
  <1> QED  BY <1>1, <1>3, <1>5 DEF p, n

\* readInt of what writeInt wrote.
LEMMA IntBack ==
  ASSUME ChainInv, NEW x, Kept(x, mem, m_size), x.kind = "int", x.p = m_position
  PROVE  LET r == readVarint(Reader) IN ItemRead(x, r, <<DecodeZigzag(FromVarint(r.raw))>>)
  <1>1. PICK v \in Ints : x.val = <<v>>  BY DEF Kept
  <1> DEFINE u == EncodeZigzag(v)  r == readVarint(Reader)
  <1>2. u \in Word /\ DecodeZigzag(u) = v  BY ZigzagBack
  <1>3. Code(x) = Varint(u)
    <2>1. x.val[1] = v  BY <1>1
    <2> QED  BY <2>1 DEF Code
  <1> HIDE DEF u, r
  <1>4. Len(Varint(u)) = VarintLen(u) /\ VarintLen(u) \in Nat
    <2>1. VarintLen(u) \in 1..Width /\ Width \in Nat  BY <1>2, VarintLength, ByteArrayAssumption
    <2> QED  BY <1>2, <2>1, VarintBytes
  <1>5. x.len = VarintLen(u)  BY <1>3, <1>4, CodeLength
  <1>6. m_position + VarintLen(u) <= m_size
         /\ SubSeq(mem, m_position + 1, m_position + VarintLen(u)) = Varint(u)
    BY <1>3, <1>5 DEF Kept
  <1>7. r.res = "ok" /\ r.pos = m_position + VarintLen(u) /\ r.raw = Varint(u)
    BY <1>2, <1>6, ReadVarintBack DEF r
  <1>8. DecodeZigzag(FromVarint(r.raw)) = v
    <2>1. FromVarint(r.raw) = u  BY <1>2, <1>7, VarintBack
    <2> QED  BY <1>2, <2>1
  <1>9. ItemRead(x, r, <<DecodeZigzag(FromVarint(r.raw))>>)
    BY <1>1, <1>5, <1>7, <1>8 DEF ItemRead
  <1> QED  BY <1>9 DEF r

\* readFint of what writeFint wrote, under the byte order of the write.
LEMMA FintBack ==
  ASSUME ChainInv, NEW x, Kept(x, mem, m_size), x.kind = "fint", x.p = m_position,
         m_endian = x.endian
  PROVE  LET r == read(Reader, 2) IN ItemRead(x, r, <<FromFixed(r.raw)>>)
  <1>1. PICK v \in Ints : v >= 0 /\ x.val = <<v>>  BY DEF Kept
  <1> DEFINE r == read(Reader, 2)  H == 2 * High  lo == v % H  hi == v \div H
  <1>2. v \in Nat /\ H \in Nat \ {0}
    <2>1. v \in Int
      <3>1. 2^(Width - 1) \in Nat  BY WordType
      <3> QED  BY <3>1, ByteArrayAssumption
    <2>2. High \in Nat /\ High > 1  BY PowersPositive
    <2> QED  BY <1>1, <2>1, <2>2
  <1>3. v = H * hi + lo /\ hi \in Nat /\ lo \in Nat
    <2> HIDE DEF H
    <2>1. hi \in Nat /\ lo \in 0..(H - 1) /\ v = H * hi + lo  BY <1>2, DivMod
    <2> HIDE DEF hi, lo
    <2> QED  BY <1>2, <2>1
  <1>4. Code(x) = IF x.endian = "little" THEN <<lo, hi>> ELSE <<hi, lo>>
    <2>1. x.val[1] = v  BY <1>1
    <2> QED  BY <2>1 DEF Code
  <1> HIDE DEF r, H, lo, hi
  <1>5. x.len = 2 /\ x.p + x.len \in 0..m_size /\ x.p \in Nat
    <2>1. Len(Code(x)) = 2  BY <1>4
    <2> QED  BY <2>1, CodeLength
  <1>6. /\ m_size \in Nat /\ Len(mem) \in Nat /\ m_size <= Len(mem) /\ m_position \in Nat
    BY ChainTypes
  <1>7. m_position + 2 <= m_size /\ m_position # Len(mem)  BY <1>5, <1>6
  <1>8. GoodReader(r) /\ r.res = "ok" /\ r.pos = m_position + 2
    BY <1>7, ReaderStarts, Read DEF r
  <1>9. r.raw = Code(x)
    <2>1. r.raw = SubSeq(mem, m_position + 1, m_position + 2)  BY <1>8 DEF GoodReader
    <2>2. SubSeq(mem, x.p + 1, x.p + x.len) = Code(x)  BY DEF Kept
    <2> QED  BY <1>5, <2>1, <2>2
  <1>10. FromFixed(r.raw) = v
    <2>1. CASE m_endian = "little"
      <3>1. r.raw = <<lo, hi>>  BY <1>4, <1>9, <2>1
      <3>2. FromFixed(r.raw) = lo + H * hi  BY <2>1, <3>1 DEF FromFixed, H
      <3> QED  BY <1>2, <1>3, <3>2
    <2>2. CASE m_endian # "little"
      <3>1. r.raw = <<hi, lo>>  BY <1>4, <1>9, <2>2
      <3>2. FromFixed(r.raw) = lo + H * hi  BY <2>2, <3>1 DEF FromFixed, H
      <3> QED  BY <1>2, <1>3, <3>2
    <2> QED  BY <2>1, <2>2
  <1>11. ItemRead(x, r, <<FromFixed(r.raw)>>)
    BY <1>1, <1>5, <1>8, <1>10 DEF ItemRead
  <1> QED  BY <1>11 DEF r

\* The number a varint's reader has read is a length.
LEMMA LengthType ==
  ASSUME ChainInv
  PROVE  LET len == readVarint(Reader) IN GoodReader(len) /\ FromVarint(len.raw) \in Nat
  <1> DEFINE len == readVarint(Reader)
  <1>1. GoodReader(len) /\ len.pos >= m_position /\ len.pos <= m_position + MaxGroups
    BY ReaderStarts, ReadVarint
  <1> HIDE DEF len
  <1>2. MaxGroups \in 1..Width /\ Width \in Nat  BY GroupsFit, ByteArrayAssumption
  <1>3. /\ m_size \in Nat /\ Len(mem) \in Nat /\ m_size <= Len(mem) /\ m_position \in Nat
        /\ mem \in Seq(Int)
    BY ChainTypes
  <1> DEFINE e == len.pos
  <1>4. e \in Nat /\ e <= m_size /\ len.raw = SubSeq(mem, m_position + 1, e)
    BY <1>1 DEF GoodReader, Readers
  <1>5. e >= m_position /\ e <= m_position + MaxGroups  BY <1>1
  <1> HIDE DEF e
  <1>6. e \in 0..Len(mem) /\ m_position \in 0..e /\ e - m_position <= Width
    BY <1>2, <1>3, <1>4, <1>5
  <1>7. len.raw \in Seq(Int) /\ Len(len.raw) = e - m_position  BY <1>3, <1>4, <1>6, Part
  <1>8. FromVarint(len.raw) \in Nat  BY <1>6, <1>7, FromVarintType
  <1> QED  BY <1>1, <1>8 DEF len

\* readStringVint of what writeStringVint wrote; an empty string that ends with
\* the memory crashes.
LEMMA StringBack ==
  ASSUME ChainInv, NEW x, Kept(x, mem, m_size), x.kind = "string", x.p = m_position
  PROVE  LET len == readVarint(Reader)
             r == read(len, FromVarint(len.raw))
         IN  ItemRead(x, r, SubSeq(r.raw, Len(len.raw) + 1, Len(r.raw)))
  <1> DEFINE w == x.val  W == Len(w)  V == Varint(W)  L == VarintLen(W)  p == m_position
             len == readVarint(Reader)
             r == read(len, FromVarint(len.raw))
  <1>1. w \in Seq(Int) /\ W \in Word /\ W \in Nat
    <2>1. w \in Words  BY DEF Kept
    <2>2. w \in Seq(Nat) /\ Len(w) < 2^Width  BY <2>1, ByteArrayAssumption
    <2>3. w \in Seq(Int) /\ Len(w) \in Nat  BY <2>2, SeqMonotonic, LenProperties
    <2> QED  BY <2>2, <2>3, WordType DEF Word
  <1>2. Code(x) = V \o w  BY DEF Code
  <1>3. V \in Seq(Int) /\ Len(V) = L /\ L \in Nat /\ L >= 1
    <2> HIDE DEF W
    <2>1. V \in Seq(Nat) /\ Len(V) = L /\ L \in 1..Width /\ Width \in Nat
      BY <1>1, VarintBytes, VarintLength, ByteArrayAssumption
    <2> HIDE DEF L, V
    <2> QED  BY <2>1, SeqMonotonic
  <1> HIDE DEF W, V, L, len, r
  <1>4. /\ Len(V \o w) = L + W
        /\ \A i \in 1..(L + W) : (V \o w)[i] = IF i <= L THEN V[i] ELSE w[i - L]
    <2> HIDE DEF w
    <2> QED  BY <1>1, <1>3, ConcatProperties DEF W
  <1>5. x.len = L + W /\ p + (L + W) <= m_size
        /\ \A i \in 1..(L + W) : mem[p + i] = (V \o w)[i]
    <2>1. /\ Len(Code(x)) = x.len /\ x.p + x.len \in 0..m_size
          /\ \A i \in 1..x.len : mem[x.p + i] = Code(x)[i]
      BY CodeLength
    <2>2. x.len = L + W  BY <1>2, <1>4, <2>1
    <2> QED  BY <1>2, <2>1, <2>2
  <1>6. /\ m_size \in Nat /\ Len(mem) \in Nat /\ m_size <= Len(mem) /\ p \in Nat /\ mem \in Seq(Int)
    BY ChainTypes
  <1> HIDE DEF p, w
  <1>7. p + L <= m_size /\ SubSeq(mem, p + 1, p + L) = V
    <2>1. p + L <= m_size  BY <1>1, <1>3, <1>5, <1>6
    <2>2. \A i \in 1..Len(V) : mem[p + i] = V[i]
      <3> SUFFICES ASSUME NEW i \in 1..L  PROVE mem[p + i] = V[i]  BY <1>3
      <3>1. i \in 1..(L + W) /\ i <= L  BY <1>1, <1>3
      <3> QED  BY <1>4, <1>5, <3>1
    <2>3. p + Len(V) <= Len(mem)  BY <1>3, <1>6, <2>1
    <2>4. SubSeq(mem, p + 1, p + Len(V)) = V  BY <1>3, <1>6, <2>2, <2>3, PartIs
    <2> QED  BY <1>3, <2>1, <2>4
  <1>8. GoodReader(len) /\ len.res = "ok" /\ len.pos = p + L /\ len.raw = V
    BY <1>1, <1>7, ReadVarintBack DEF len, p, L, V
  <1>9. FromVarint(len.raw) = W  BY <1>1, <1>8, VarintBack DEF V
  <1>10. r = read(len, W)  BY <1>9 DEF r
  <1>11. (p + L) + W = p + (L + W) /\ (p + L) + W <= m_size  BY <1>1, <1>3, <1>5, <1>6
  <1>12. CASE p + L = Len(mem)
    <2>1. r.res = "crash"  BY <1>1, <1>8, <1>10, <1>11, <1>12, Read
    <2>2. W = 0  BY <1>1, <1>3, <1>6, <1>11, <1>12
    <2>3. w = <<>>  BY <1>1, <2>2, EmptySeq DEF W
    <2>4. x.p + x.len = Len(mem)  BY <1>3, <1>5, <1>6, <1>12, <2>2 DEF p
    <2> QED  BY <2>1, <2>3, <2>4 DEF ItemRead, w, r, len
  <1>13. CASE p + L # Len(mem)
    <2>1. GoodReader(r) /\ r.res = "ok" /\ r.pos = p + (L + W)
      BY <1>1, <1>8, <1>10, <1>11, <1>13, Read
    <2>2. r.raw = V \o w
      <3>1. r.raw = SubSeq(mem, p + 1, p + (L + W))  BY <2>1 DEF GoodReader, p
      <3>2. SubSeq(mem, x.p + 1, x.p + x.len) = Code(x)  BY DEF Kept
      <3> QED  BY <1>2, <1>5, <3>1, <3>2 DEF p
    <2>3. SubSeq(V \o w, L + 1, L + W) = w
      <3>1. PICK s : s = V \o w  OBVIOUS
      <3>2. s \in Seq(Int)  BY <1>1, <1>3, <3>1, ConcatProperties
      <3>3. Len(s) = L + W /\ L + Len(w) <= Len(s)
        <4>1. Len(s) = L + W  BY <1>4, <3>1
        <4> QED  BY <1>1, <1>3, <4>1 DEF W
      <3>4. \A i \in 1..Len(w) : s[L + i] = w[i]
        <4> SUFFICES ASSUME NEW i \in 1..W  PROVE s[L + i] = w[i]  BY DEF W
        <4>1. L + i \in 1..(L + W) /\ ~(L + i <= L) /\ (L + i) - L = i  BY <1>1, <1>3
        <4>2. s[L + i] = w[(L + i) - L]  BY <1>4, <3>1, <4>1
        <4> QED  BY <4>1, <4>2
      <3>5. SubSeq(s, L + 1, L + Len(w)) = w  BY <1>1, <1>3, <3>2, <3>3, <3>4, PartIs
      <3> QED  BY <3>1, <3>5 DEF W
    <2>4. SubSeq(r.raw, Len(len.raw) + 1, Len(r.raw)) = w
      BY <1>3, <1>4, <1>8, <2>2, <2>3
    <2>5. r.pos = x.p + x.len  BY <1>5, <2>1 DEF p
    <2> QED  BY <2>1, <2>4, <2>5 DEF ItemRead, w, r, len
  <1> QED  BY <1>12, <1>13

LEMMA InitByte == ByteInit => ByteInv
  <1> SUFFICES ASSUME ByteInit  PROVE ByteInv  OBVIOUS
  <1> DEFINE B == m_baseSize
  <1>1. /\ mem = [i \in 1..B |-> Junk] /\ m_cur = 1 /\ m_position = 0 /\ m_size = 0
        /\ m_endian = "big" /\ items = {}
    BY DEF ByteInit
  <1>2. B \in Nat \ {0}  BY BaseSize
  <1> HIDE DEF B
  <1>3. mem \in Seq(Int) /\ Len(mem) = B
    <2>1. mem \in [1..B -> Int]  BY <1>1 DEF Junk
    <2>2. mem \in Seq(Int)  BY <1>2, <2>1, SeqDef
    <2>3. DOMAIN mem = 1..B /\ DOMAIN mem = 1..Len(mem) /\ Len(mem) \in Nat
      BY <2>1, <2>2, LenProperties
    <2> QED  BY <1>2, <2>2, <2>3
  <1>4. B % B = 0 /\ 0 \div B = 0
    <2>1. B = B * 1 + 0 /\ 0 \in 0..(B - 1) /\ 0 = B * 0 + 0  BY <1>2
    <2>2. B % B = 0  BY <1>2, <2>1, DivModUnique
    <2>3. 0 \div B = 0  BY <1>2, <2>1, DivModUnique
    <2> QED  BY <2>2, <2>3
  <1>5. Sound(Now)
    <2>1. /\ Now.mem = mem /\ Now.cur = 1 /\ Now.pos = 0 /\ Now.size = 0  BY <1>1 DEF Now
    <2>2. 0 # Len(mem) /\ Len(mem) > 0 /\ 0 \in 0..Len(mem) /\ 0 \in 0..0 /\ Len(mem) % B = 0
      BY <1>2, <1>3, <1>4
    <2> QED  BY <1>3, <1>4, <2>1, <2>2 DEF Sound, B
  <1> QED  BY <1>1, <1>5 DEF ByteInv, ChainInv, ItemInv, ReadsBack

LEMMA FixedType ==
  ASSUME NEW v \in Ints, v >= 0
  PROVE  Fixed(v) \in Seq(Int)
  <1> DEFINE H == 2 * High  s == Fixed(v)
  <1>1. v \in Nat /\ H \in Nat \ {0}
    <2>1. v \in Int
      <3>1. 2^(Width - 1) \in Nat  BY WordType
      <3> QED  BY <3>1, ByteArrayAssumption
    <2>2. High \in Nat /\ High > 1  BY PowersPositive
    <2> QED  BY <2>1, <2>2
  <1>2. s = IF m_endian = "little" THEN <<v % H, v \div H>> ELSE <<v \div H, v % H>>
    BY DEF Fixed
  <1> HIDE DEF s, H
  <1>3. v % H \in Int /\ v \div H \in Int  BY <1>1
  <1>4. s \in Seq(Int)  BY <1>2, <1>3
  <1> QED  BY <1>4 DEF s

LEMMA WriteActionsKeep ==
  ASSUME ByteInv, WriteBytes \/ writeInt \/ writeFint \/ writeStringVint
  PROVE  ByteInv'
  <1>0. <<>> \in Seq(Int) /\ Len(<<>>) = 0  BY EmptySeq
  <1>1. CASE WriteBytes
    <2>1. PICK w \in Words : Writes("bytes", <<>>, w, <<>>)  BY <1>1 DEF WriteBytes
    <2>2. w \in Seq(Int)  BY ByteArrayAssumption, SeqMonotonic
    <2> QED  BY <1>0, <2>1, <2>2, WritesKeep
  <1>2. CASE writeInt
    <2>1. PICK v \in Ints : Writes("int", <<v>>, Varint(EncodeZigzag(v)), <<>>)
      BY <1>2 DEF writeInt
    <2> DEFINE s == Varint(EncodeZigzag(v))
               x == [p |-> m_position, len |-> Len(s) + Len(<<>>), kind |-> "int", val |-> <<v>>,
                     endian |-> m_endian]
    <2>2. s \in Seq(Nat)  BY ZigzagBack, VarintBytes
    <2>3. s \in Seq(Int)  BY <2>2, SeqMonotonic
    <2>4. Code(x) = s
      <3>1. x.kind = "int" /\ x.val[1] = v  OBVIOUS
      <3> HIDE DEF x
      <3> QED  BY <3>1 DEF Code
    <2> HIDE DEF s, x
    <2>5. s \o <<>> = s  BY <2>3, ConcatEmptySeq
    <2>6. Writes("int", <<v>>, s, <<>>)  BY <2>1 DEF s
    <2>7. x = [p |-> m_position, len |-> Len(s) + Len(<<>>), kind |-> "int", val |-> <<v>>,
               endian |-> m_endian]
      BY DEF x
    <2> QED  BY <1>0, <2>3, <2>4, <2>5, <2>6, <2>7, WritesKeep
  <1>3. CASE writeFint
    <2>1. PICK v \in Ints : v >= 0 /\ Writes("fint", <<v>>, Fixed(v), <<>>)
      BY <1>3 DEF writeFint
    <2> DEFINE s == Fixed(v)
               x == [p |-> m_position, len |-> Len(s) + Len(<<>>), kind |-> "fint", val |-> <<v>>,
                     endian |-> m_endian]
    <2>2. s \in Seq(Int)  BY <2>1, FixedType
    <2>3. Code(x) = s
      <3>1. x.kind = "fint" /\ x.val[1] = v /\ x.endian = m_endian  OBVIOUS
      <3> HIDE DEF x
      <3> QED  BY <3>1 DEF Code, Fixed
    <2> HIDE DEF s, x
    <2>4. s \o <<>> = s  BY <2>2, ConcatEmptySeq
    <2>5. Writes("fint", <<v>>, s, <<>>)  BY <2>1 DEF s
    <2>6. x = [p |-> m_position, len |-> Len(s) + Len(<<>>), kind |-> "fint", val |-> <<v>>,
               endian |-> m_endian]
      BY DEF x
    <2> QED  BY <1>0, <2>1, <2>2, <2>3, <2>4, <2>5, <2>6, WritesKeep
  <1>4. CASE writeStringVint
    <2>1. PICK w \in Words : Writes("string", w, Varint(Len(w)), w)  BY <1>4 DEF writeStringVint
    <2> DEFINE s == Varint(Len(w))
               x == [p |-> m_position, len |-> Len(s) + Len(w), kind |-> "string", val |-> w,
                     endian |-> m_endian]
    <2>2. w \in Seq(Int) /\ Len(w) \in Word
      <3>1. w \in Seq(Nat) /\ Len(w) < 2^Width  BY ByteArrayAssumption
      <3>2. w \in Seq(Int) /\ Len(w) \in Nat  BY <3>1, SeqMonotonic, LenProperties
      <3> QED  BY <3>1, <3>2, WordType DEF Word
    <2>3. s \in Seq(Nat)  BY <2>2, VarintBytes
    <2>4. s \in Seq(Int)  BY <2>3, SeqMonotonic
    <2>5. Code(x) = s \o w
      <3>1. x.kind = "string" /\ x.val = w  OBVIOUS
      <3> HIDE DEF x
      <3> QED  BY <3>1 DEF Code
    <2> HIDE DEF s, x
    <2>6. Writes("string", w, s, w)  BY <2>1 DEF s
    <2>7. x = [p |-> m_position, len |-> Len(s) + Len(w), kind |-> "string", val |-> w,
               endian |-> m_endian]
      BY DEF x
    <2> QED  BY <2>2, <2>4, <2>5, <2>6, <2>7, WritesKeep
  <1> QED  BY <1>1, <1>2, <1>3, <1>4

\* The reader of each read is a good one.
LEMMA ReadsGood ==
  ASSUME ChainInv
  PROVE  /\ ReadBytes => \E r : GoodReader(r) /\ Reads("bytes", r, r.raw)
         /\ readInt => LET r == readVarint(Reader)
                       IN  GoodReader(r) /\ Reads("int", r, <<DecodeZigzag(FromVarint(r.raw))>>)
         /\ readFint => LET r == read(Reader, 2)
                        IN  GoodReader(r) /\ Reads("fint", r, <<FromFixed(r.raw)>>)
         /\ readStringVint =>
              LET len == readVarint(Reader)
                  r == read(len, FromVarint(len.raw))
              IN  GoodReader(r) /\ Reads("string", r, SubSeq(r.raw, Len(len.raw) + 1, Len(r.raw)))
  <1>1. ReadBytes => \E r : GoodReader(r) /\ Reads("bytes", r, r.raw)
    <2> SUFFICES ASSUME ReadBytes  PROVE \E r : GoodReader(r) /\ Reads("bytes", r, r.raw)
      OBVIOUS
    <2>1. PICK n \in 0..MaxCapacity : LET r == read(Reader, n) IN Reads("bytes", r, r.raw)
      BY DEF ReadBytes
    <2>2. n \in Nat  BY ByteArrayAssumption
    <2>3. GoodReader(read(Reader, n))  BY <2>2, ReaderStarts, Read
    <2> QED  BY <2>1, <2>3
  <1>2. GoodReader(readVarint(Reader))  BY LengthType
  <1>3. GoodReader(read(Reader, 2))  BY ReaderStarts, Read
  <1>4. LET len == readVarint(Reader) IN GoodReader(read(len, FromVarint(len.raw)))
    <2> DEFINE len == readVarint(Reader)
    <2>1. GoodReader(len) /\ FromVarint(len.raw) \in Nat  BY LengthType
    <2> HIDE DEF len
    <2>2. GoodReader(read(len, FromVarint(len.raw)))  BY <2>1, Read
    <2> QED  BY <2>2 DEF len
  <1> QED  BY <1>1, <1>2, <1>3, <1>4 DEF readInt, readFint, readStringVint

LEMMA ReadActionsKeep ==
  ASSUME ByteInv, ReadBytes \/ readInt \/ readFint \/ readStringVint
  PROVE  ByteInv'
  <1>0. ChainInv /\ \A x \in items : Kept(x, mem, m_size)  BY ItemsKept DEF ByteInv
  <1>1. CASE ReadBytes
    <2>1. PICK r : GoodReader(r) /\ Reads("bytes", r, r.raw)  BY <1>0, <1>1, ReadsGood
    <2>2. \A x \in items : x.kind # "bytes"  BY <1>0 DEF Kept
    <2> QED  BY <2>1, <2>2, ReadsKeep
  <1>2. CASE readInt
    <2> DEFINE r == readVarint(Reader)  val == <<DecodeZigzag(FromVarint(r.raw))>>
    <2>1. GoodReader(r) /\ Reads("int", r, val)  BY <1>0, <1>2, ReadsGood
    <2>2. ASSUME NEW x \in items, x.kind = "int", x.p = m_position  PROVE ItemRead(x, r, val)
      BY <1>0, <2>2, IntBack
    <2> HIDE DEF r, val
    <2> QED  BY <2>1, <2>2, ReadsKeep
  <1>3. CASE readFint
    <2> DEFINE r == read(Reader, 2)  val == <<FromFixed(r.raw)>>
    <2>1. GoodReader(r) /\ Reads("fint", r, val)  BY <1>0, <1>3, ReadsGood
    <2>2. ASSUME NEW x \in items, x.kind = "fint", x.p = m_position, m_endian = x.endian
          PROVE  ItemRead(x, r, val)
      BY <1>0, <2>2, FintBack
    <2> HIDE DEF r, val
    <2> QED  BY <2>1, <2>2, ReadsKeep
  <1>4. CASE readStringVint
    <2> DEFINE len == readVarint(Reader)
               r == read(len, FromVarint(len.raw))
               val == SubSeq(r.raw, Len(len.raw) + 1, Len(r.raw))
    <2>1. GoodReader(r) /\ Reads("string", r, val)  BY <1>0, <1>4, ReadsGood
    <2>2. ASSUME NEW x \in items, x.kind = "string", x.p = m_position  PROVE ItemRead(x, r, val)
      BY <1>0, <2>2, StringBack
    <2> HIDE DEF len, r, val
    <2> QED  BY <2>1, <2>2, ReadsKeep
  <1> QED  BY <1>1, <1>2, <1>3, <1>4

\* What setPosition, getWriteBuffers and clear do to the chain.
LEMMA SetPositionStep ==
  ASSUME ChainInv, setPosition
  PROVE  /\ ChainInv' /\ mem' = mem /\ m_endian' = m_endian /\ items' = items
         /\ out'.op = "setPosition" /\ out'.raw = <<>>
         /\ \/ out'.res = "throws" /\ UNCHANGED <<m_position, m_size>>
            \/ /\ out'.res = "ok" /\ m_position' \in Nat
               /\ m_size' = IF m_position' > m_size THEN m_position' ELSE m_size
  <1>0. MaxCapacity \in Nat  BY ByteArrayAssumption
  <1>1. /\ mem \in Seq(Int) /\ Len(mem) \in Nat /\ m_size \in Nat /\ m_size <= Len(mem)
        /\ m_position \in Nat /\ m_position <= m_size
    BY ChainTypes
  <1>2. mem' = mem /\ m_endian' = m_endian /\ items' = items  BY DEF setPosition
  <1>3. PICK v \in 0..MaxCapacity + 1 :
          IF v > Len(mem)
          THEN Result("setPosition", "throws", <<>>, <<>>) /\ UNCHANGED <<m_cur, m_position, m_size>>
          ELSE /\ m_position' = v
               /\ m_size' = IF v > m_size THEN v ELSE m_size
               /\ m_cur' = BlockOf(v)
               /\ Result("setPosition", "ok", <<>>, <<>>)
    BY DEF setPosition
  <1>4. v \in Nat  BY <1>0
  <1>5. CASE v > Len(mem)
    <2>1. /\ m_cur' = m_cur /\ m_position' = m_position /\ m_size' = m_size
          /\ out'.op = "setPosition" /\ out'.raw = <<>> /\ out'.res = "throws"
      BY <1>3, <1>5 DEF Result
    <2>2. ChainInv'  BY <1>2, <2>1 DEF ChainInv, Sound, Now
    <2> QED  BY <1>2, <2>1, <2>2
  <1>6. CASE ~(v > Len(mem))
    <2>1. /\ m_position' = v /\ m_size' = (IF v > m_size THEN v ELSE m_size)
          /\ m_cur' = (IF v = Len(mem) THEN 0 ELSE (v \div m_baseSize) + 1)
          /\ out'.op = "setPosition" /\ out'.raw = <<>> /\ out'.res = "ok"
      BY <1>3, <1>6 DEF Result, BlockOf
    <2>2. m_size' \in 0..Len(mem) /\ v \in 0..m_size'  BY <1>1, <1>4, <1>6, <2>1
    <2>3. ChainInv'  BY <1>2, <2>1, <2>2 DEF ChainInv, Sound, Now
    <2> QED  BY <1>2, <1>4, <2>1, <2>3
  <1> QED  BY <1>5, <1>6

LEMMA WriteBuffersStep ==
  ASSUME ChainInv, getWriteBuffers
  PROVE  /\ ChainInv' /\ UNCHANGED <<m_position, m_size, m_endian, items>>
         /\ out'.op = "getWriteBuffers" /\ out'.raw = <<>> /\ out'.res = "ok"
         /\ Len(mem') >= Len(mem) /\ \A i \in 1..Len(mem) : mem'[i] = mem[i]
  <1>1. PICK len \in 0..MaxCapacity :
          LET a == addCapacity(Now, len)
          IN  Len(a.mem) <= MaxCapacity /\ mem' = a.mem /\ m_cur' = a.cur
    BY DEF getWriteBuffers
  <1> DEFINE a == addCapacity(Now, len)
  <1>2. len \in Nat  BY ByteArrayAssumption
  <1>3. /\ m_position' = m_position /\ m_size' = m_size /\ m_endian' = m_endian /\ items' = items
        /\ out'.op = "getWriteBuffers" /\ out'.raw = <<>> /\ out'.res = "ok"
    BY DEF getWriteBuffers, Result
  <1>4. /\ Now \in Arrays /\ Sound(Now)
        /\ Now.mem = mem /\ Now.pos = m_position /\ Now.size = m_size
    BY ChainTypes DEF Now
  <1>5. /\ Sound(a) /\ a.pos = m_position /\ a.size = m_size
        /\ Len(a.mem) >= Len(mem) /\ \A i \in 1..Len(mem) : a.mem[i] = mem[i]
    BY <1>2, <1>4, AddCapacity
  <1>6. mem' = a.mem /\ m_cur' = a.cur  BY <1>1
  <1> HIDE DEF a
  <1>7. ChainInv'  BY <1>3, <1>5, <1>6 DEF ChainInv, Sound, Now
  <1> QED  BY <1>3, <1>5, <1>6, <1>7

LEMMA ClearStep ==
  ASSUME ChainInv, clear
  PROVE  /\ ChainInv' /\ m_position' = 0 /\ m_size' = 0 /\ items' = {}
         /\ out'.op = "clear" /\ out'.raw = <<>> /\ out'.res = "ok"
  <1> DEFINE B == m_baseSize  M == Len(mem)
  <1>1. B \in Nat \ {0} /\ mem \in Seq(Int) /\ M \in Nat /\ M > 0 /\ M % B = 0
    BY BaseSize, ChainTypes
  <1>2. /\ mem' = SubSeq(mem, 1, B) /\ m_cur' = 1 /\ m_position' = 0 /\ m_size' = 0
        /\ items' = {} /\ m_endian' = m_endian
        /\ out'.op = "clear" /\ out'.raw = <<>> /\ out'.res = "ok"
    BY DEF clear, Result
  <1> HIDE DEF B
  <1>3. B <= M
    <2> SUFFICES ASSUME M < B  PROVE FALSE  BY <1>1
    <2>1. M = B * 0 + M /\ M \in 0..(B - 1)  BY <1>1
    <2> HIDE DEF M
    <2>2. M % B = M  BY <1>1, <2>1, DivModUnique
    <2> QED  BY <1>1, <2>2
  <1>4. mem' \in Seq(Int) /\ Len(mem') = B
    <2>1. B \in 0..Len(mem) /\ 0 \in 0..B /\ 0 + 1 = 1 /\ B - 0 = B  BY <1>1, <1>3
    <2>2. SubSeq(mem, 0 + 1, B) \in Seq(Int) /\ Len(SubSeq(mem, 0 + 1, B)) = B - 0
      BY <1>1, <2>1, Part
    <2> QED  BY <1>2, <2>1, <2>2
  <1>5. B % B = 0 /\ 0 \div B = 0
    <2>1. B = B * 1 + 0 /\ 0 \in 0..(B - 1) /\ 0 = B * 0 + 0  BY <1>1
    <2>2. B % B = 0  BY <1>1, <2>1, DivModUnique
    <2>3. 0 \div B = 0  BY <1>1, <2>1, DivModUnique
    <2> QED  BY <2>2, <2>3
  <1>6. 0 # Len(mem') /\ Len(mem') > 0 /\ 0 \in 0..Len(mem') /\ 0 \in 0..0 /\ Len(mem') % B = 0
    BY <1>1, <1>4, <1>5
  <1>7. ChainInv'  BY <1>2, <1>4, <1>5, <1>6 DEF ChainInv, Sound, Now, B
  <1> QED  BY <1>2, <1>7

LEMMA OtherActionsKeep ==
  ASSUME ByteInv, setPosition \/ getWriteBuffers \/ clear \/ setIsLittleEndian
  PROVE  ByteInv'
  <1>0. ChainInv /\ \A x \in items : Kept(x, mem, m_size)  BY ItemsKept DEF ByteInv
  <1>1. /\ mem \in Seq(Int) /\ Len(mem) \in Nat /\ m_size \in Nat /\ m_size <= Len(mem)
        /\ m_size \in 0..Len(mem)
    <2>1. /\ mem \in Seq(Int) /\ Len(mem) \in Nat /\ m_size \in Nat /\ m_size <= Len(mem)
      BY <1>0, ChainTypes
    <2> QED  BY <2>1
  <1>2. SUFFICES ChainInv' /\ (\A x \in items' : Kept(x, mem', m_size'))
                   /\ out'.op \notin {"int", "fint", "string"}
    BY ItemsKept DEF ByteInv, ReadsBack, Kept
  <1>3. CASE setPosition
    <2>1. /\ ChainInv' /\ mem' = mem /\ items' = items /\ out'.op = "setPosition"
          /\ m_size' = m_size \/ m_size' = IF m_position' > m_size THEN m_position' ELSE m_size
      BY <1>0, <1>3, SetPositionStep
    <2>2. m_size' \in 0..Len(mem) /\ m_position' \in 0..m_size'  BY <2>1 DEF ChainInv, Sound, Now
    <2>3. m_size' >= m_size  BY <1>1, <2>1, <2>2
    <2>4. ASSUME NEW x \in items  PROVE Kept(x, mem, m_size')
      BY <1>0, <1>1, <2>2, <2>3, KeptOn
    <2> QED  BY <2>1, <2>4
  <1>4. CASE getWriteBuffers
    <2>1. /\ ChainInv' /\ m_size' = m_size /\ items' = items /\ out'.op = "getWriteBuffers"
          /\ Len(mem') >= Len(mem) /\ \A i \in 1..Len(mem) : mem'[i] = mem[i]
      BY <1>0, <1>4, WriteBuffersStep
    <2>2. mem' \in Seq(Int) /\ m_size \in 0..Len(mem')  BY <2>1 DEF ChainInv, Sound, Now
    <2>3. ASSUME NEW x \in items  PROVE Kept(x, mem', m_size)
      <3>1. Kept(x, mem, m_size)  BY <1>0
      <3> DEFINE a == x.p  b == x.len
      <3>2. a \in Nat /\ b \in Nat /\ a + b <= m_size  BY <3>1 DEF Kept
      <3> HIDE DEF a, b
      <3>3. \A i \in (a + 1)..(a + b) : i \in 1..Len(mem)  BY <1>1, <3>2
      <3>4. \A i \in (a + 1)..(a + b) : mem'[i] = mem[i]  BY <2>1, <3>3
      <3>5. m_size >= m_size  BY <1>1
      <3> QED  BY <1>1, <2>2, <3>1, <3>4, <3>5, KeptOn DEF a, b
    <2> QED  BY <2>1, <2>3
  <1>5. CASE clear
    <2>1. ChainInv' /\ items' = {} /\ out'.op = "clear"  BY <1>0, <1>5, ClearStep
    <2> QED  BY <2>1
  <1>6. CASE setIsLittleEndian
    <2>1. /\ mem' = mem /\ m_cur' = m_cur /\ m_position' = m_position /\ m_size' = m_size
          /\ items' = items /\ out'.op = "setIsLittleEndian" /\ m_endian' \in {"big", "little"}
      BY <1>6 DEF setIsLittleEndian, Result
    <2>2. ChainInv'  BY <1>0, <2>1 DEF ChainInv, Sound, Now
    <2> QED  BY <1>0, <2>1, <2>2
  <1> QED  BY <1>3, <1>4, <1>5, <1>6

\* The chain stays sound and the items stay where they are, whatever is called.
THEOREM ByteInvariant == ByteSpec => []ByteInv
  <1>1. ByteInv /\ [ByteNext]_byteVars => ByteInv'
    <2> SUFFICES ASSUME ByteInv, [ByteNext]_byteVars  PROVE ByteInv'  OBVIOUS
    <2>1. CASE WriteBytes \/ writeInt \/ writeFint \/ writeStringVint
      BY <2>1, WriteActionsKeep
    <2>2. CASE ReadBytes \/ readInt \/ readFint \/ readStringVint
      BY <2>2, ReadActionsKeep
    <2>3. CASE setPosition \/ getWriteBuffers \/ clear \/ setIsLittleEndian
      BY <2>3, OtherActionsKeep
    <2>4. CASE UNCHANGED byteVars
      BY <2>4 DEF byteVars, ByteInv, ChainInv, Sound, Now, ItemInv, ReadsBack
    <2> QED  BY <2>1, <2>2, <2>3, <2>4 DEF ByteNext
  <1> QED  BY <1>1, InitByte, PTL DEF ByteSpec

\* What was written, and not overwritten, is what the matching read returns.
THEOREM WrittenIsRead == ByteSpec => []ReadsBack
  <1>1. ByteInv => ReadsBack  BY DEF ByteInv
  <1> QED  BY <1>1, ByteInvariant, PTL

-----------------------------------------------------------------------------
(* Looking at the data.                                                    *)

\* The beginning of a memory.
LEMMA Prefix ==
  ASSUME NEW m \in Seq(Int), NEW size \in 0..Len(m)
  PROVE  /\ SubSeq(m, 1, size) \in Seq(Int) /\ Len(SubSeq(m, 1, size)) = size
         /\ \A i \in 1..size : SubSeq(m, 1, size)[i] = m[i]
         /\ \A j \in 0..size : \A i \in 0..j :
               SubSeq(SubSeq(m, 1, size), i + 1, j) = SubSeq(m, i + 1, j)
  <1> DEFINE d == SubSeq(m, 1, size)
  <1>1. Len(m) \in Nat /\ size \in Nat /\ size <= Len(m)  BY LenProperties
  <1>2. 0 \in 0..size /\ 0 + 1 = 1 /\ size - 0 = size  BY <1>1
  <1>3. /\ SubSeq(m, 0 + 1, size) \in Seq(Int) /\ Len(SubSeq(m, 0 + 1, size)) = size - 0
        /\ \A k \in 1..(size - 0) : SubSeq(m, 0 + 1, size)[k] = m[0 + k]
    BY <1>2, Part
  <1>4. d \in Seq(Int) /\ Len(d) = size  BY <1>2, <1>3
  <1>5. ASSUME NEW i \in 1..size  PROVE d[i] = m[i]
    <2>1. 0 + i = i  BY <1>1
    <2> QED  BY <1>2, <1>3, <2>1
  <1> HIDE DEF d
  <1>6. ASSUME NEW j \in 0..size, NEW i \in 0..j
        PROVE  SubSeq(d, i + 1, j) = SubSeq(m, i + 1, j)
    <2> DEFINE w == SubSeq(m, i + 1, j)
    <2>1. j \in 0..Len(m) /\ i \in Nat /\ i + (j - i) = j /\ j <= size /\ j - i \in Nat
      BY <1>1
    <2>2. w \in Seq(Int) /\ Len(w) = j - i /\ \A k \in 1..(j - i) : w[k] = m[i + k]
      BY <2>1, Part
    <2> HIDE DEF w
    <2>3. ASSUME NEW k \in 1..Len(w)  PROVE d[i + k] = w[k]
      <3>1. k \in 1..(j - i) /\ i + k \in 1..size  BY <1>1, <2>1, <2>2
      <3> QED  BY <1>5, <2>2, <3>1
    <2>4. SubSeq(d, i + 1, i + Len(w)) = w
      <3>1. i + Len(w) <= Len(d)  BY <1>1, <1>4, <2>1, <2>2
      <3> QED  BY <1>4, <2>1, <2>2, <2>3, <3>1, PartIs
    <2> QED  BY <2>1, <2>2, <2>4 DEF w
  <1> QED  BY <1>4, <1>5, <1>6 DEF d

\* The data is the beginning of the memory.
LEMMA DataPart ==
  ASSUME ChainInv
  PROVE  /\ Data \in Seq(Int) /\ Len(Data) = m_size
         /\ \A i \in 1..m_size : Data[i] = mem[i]
         /\ \A j \in 0..m_size : \A i \in 0..j : SubSeq(Data, i + 1, j) = SubSeq(mem, i + 1, j)
  <1>1. mem \in Seq(Int) /\ m_size \in 0..Len(mem)  BY DEF ChainInv, Sound, Now
  <1> QED  BY <1>1, Prefix DEF Data

\* The copying loops show the data behind byte p, from p's own block.
LEMMA Peek ==
  ASSUME ChainInv, NEW p \in Nat, NEW n \in Nat, n > 0, p + n <= m_size
  PROVE  Copy((p \div m_baseSize) + 1, p % m_baseSize, n) = SubSeq(Data, p + 1, p + n)
  <1>1. Len(mem) \in Nat /\ m_size \in Nat /\ m_size <= Len(mem)  BY ChainTypes
  <1>2. p < Len(mem) /\ p + n <= Len(mem) /\ p + n \in 0..m_size /\ p \in 0..(p + n)  BY <1>1
  <1> QED  BY <1>2, CopyRight, DataPart

\* The rounds of writeToFile.
LEMMA FileRounds ==
  ASSUME ChainInv
  PROVE  \E f : /\ f[0] = [left |-> ReadSize, pos |-> m_position, cur |-> m_cur, file |-> <<>>]
                /\ \A i \in 1..(Blocks + 1) : f[i] = WriteRound(f[i - 1])
                /\ writeToFile = f[Blocks + 1].file
                /\ Blocks \in Nat
  <1> DEFINE N == Blocks + 1
             r == [left |-> ReadSize, pos |-> m_position, cur |-> m_cur, file |-> <<>>]
             rounds[i \in 0..N] == IF i = 0 THEN r ELSE WriteRound(rounds[i - 1])
  <1>0. Blocks \in Nat
    <2>1. Len(mem) \in Nat  BY ChainTypes
    <2> QED  BY <2>1, BaseSize, DivMod DEF Blocks
  <1>1. N \in Nat  BY <1>0
  <1>2. writeToFile = rounds[N].file  BY DEF writeToFile
  <1> HIDE DEF N, r
  <1>3. \E f : f = [i \in 0..N |-> IF i = 0 THEN r ELSE WriteRound(f[i - 1])]
    <2> DEFINE Rounds(f, m) == f = [i \in 0..m |-> IF i = 0 THEN r ELSE WriteRound(f[i - 1])]
               S == {m \in 0..N : \E f : Rounds(f, m)}
    <2>1. 0 \in S
      <3> DEFINE g == [i \in 0..0 |-> r]
      <3>1. g = [i \in 0..0 |-> IF i = 0 THEN r ELSE WriteRound(g[i - 1])]
        <4>1. \A i \in 0..0 : i = 0  OBVIOUS
        <4> QED  BY <4>1
      <3>2. \E f : Rounds(f, 0)  BY <3>1
      <3>3. 0 \in 0..N  BY <1>1
      <3> QED  BY <3>2, <3>3
    <2>2. ASSUME NEW m \in 0..(N - 1), m \in S  PROVE m + 1 \in S
      <3>1. PICK f : Rounds(f, m)  BY <2>2
      <3> DEFINE g == [i \in 0..(m + 1) |-> IF i = m + 1 THEN WriteRound(f[m]) ELSE f[i]]
      <3>2. m \in Nat /\ m \in 0..m  BY <1>1
      <3>3. ASSUME NEW i \in 0..(m + 1)
            PROVE  g[i] = IF i = 0 THEN r ELSE WriteRound(g[i - 1])
        <4>1. CASE i = m + 1
          <5>1. g[i] = WriteRound(f[m]) /\ i # 0 /\ i - 1 = m /\ m \in 0..(m + 1) /\ m # m + 1
            BY <3>2, <4>1
          <5>2. g[i - 1] = f[m]
            <6>1. g[m] = f[m]  BY <5>1
            <6> HIDE DEF g
            <6> QED  BY <5>1, <6>1
          <5> HIDE DEF g
          <5> QED  BY <5>1, <5>2
        <4>2. CASE i \in 0..m
          <5>1. g[i] = f[i]  BY <3>2, <4>2
          <5>2. i # 0 => g[i - 1] = f[i - 1]
            <6>1. i # 0 => i - 1 \in 0..(m + 1) /\ i - 1 # m + 1  BY <3>2, <4>2
            <6> QED  BY <6>1
          <5>3. f[i] = IF i = 0 THEN r ELSE WriteRound(f[i - 1])  BY <3>1, <4>2
          <5> HIDE DEF g
          <5> QED  BY <5>1, <5>2, <5>3
        <4> QED  BY <3>2, <4>1, <4>2
      <3>4. Rounds(g, m + 1)
        <4>1. g = [i \in 0..(m + 1) |-> g[i]]  OBVIOUS
        <4> HIDE DEF g
        <4> QED  BY <3>3, <4>1
      <3>5. m + 1 \in 0..N  BY <1>1
      <3> HIDE DEF g, Rounds
      <3> QED  BY <3>4, <3>5
    <2>3. \A m \in 0..N : m \in S
      <3> HIDE DEF S
      <3> QED  BY <1>1, <2>1, <2>2, Induction
    <2>4. N \in S  BY <1>1, <2>3
    <2> QED  BY <2>4
  <1>4. rounds = [i \in 0..N |-> IF i = 0 THEN r ELSE WriteRound(rounds[i - 1])]  BY <1>3
  <1> HIDE DEF rounds
  <1>5. rounds[0] = r  BY <1>1, <1>4
  <1>6. ASSUME NEW i \in 1..N  PROVE rounds[i] = WriteRound(rounds[i - 1])
    <2>1. i \in 0..N /\ i # 0  BY <1>1
    <2> QED  BY <1>4, <2>1
  <1> QED  BY <1>0, <1>2, <1>5, <1>6 DEF N, r

\* One round, started at a block's beginning or with a block's worth of data left:
\* it writes up to the end of the block or of the data.
LEMMA FileRound ==
  ASSUME ChainInv, NEW pos \in Nat, pos >= m_position, pos < m_size,
         pos % m_baseSize = 0 \/ m_size - pos >= m_baseSize
  PROVE  LET w == WriteRound([left |-> m_size - pos, pos |-> pos, cur |-> (pos \div m_baseSize) + 1,
                              file |-> SubSeq(mem, m_position + 1, pos)])
         IN  \E e \in Nat :
               /\ w = [left |-> m_size - e, pos |-> e, cur |-> (pos \div m_baseSize) + 2,
                       file |-> SubSeq(mem, m_position + 1, e)]
               /\ e >= m_position /\ e <= m_size
               /\ e < m_size => e % m_baseSize = 0 /\ (e \div m_baseSize) + 1 = (pos \div m_baseSize) + 2
  <1> DEFINE B == m_baseSize  q == pos \div B  diff == pos % B  left == m_size - pos
             len == Least(left, B) - diff
             file == SubSeq(mem, m_position + 1, pos)
             v == [left |-> left, pos |-> pos, cur |-> q + 1, file |-> file]
             e == pos + len
  <1>1. /\ mem \in Seq(Int) /\ Len(mem) \in Nat /\ Len(mem) % B = 0
        /\ m_size \in Nat /\ m_size <= Len(mem) /\ m_position \in Nat /\ B \in Nat \ {0}
    BY ChainTypes, BaseSize
  <1>2. q \in Nat /\ diff \in 0..(B - 1) /\ pos = B * q + diff
    <2> HIDE DEF B
    <2> QED  BY <1>1, DivMod
  <1>3. left \in Nat /\ left > 0 /\ (diff = 0 \/ left >= B)  BY <1>1
  <1>4. WriteRound(v) =
          CASE left <= 0 -> v
            [] left > 0 /\ q + 1 \notin 1..Blocks -> [v EXCEPT !.left = 0, !.file = @ \o OffChain]
            [] OTHER -> [left |-> left - len, pos |-> e, cur |-> (q + 1) + 1,
                         file |-> file \o Copy(q + 1, diff, IF len > 0 THEN len ELSE 0)]
    BY DEF WriteRound
  <1>5. q + 1 \in 1..Blocks
    <2>1. pos \in 0..Len(mem) /\ pos # Len(mem)  BY <1>1
    <2>2. ~(q + 1 > Len(mem) \div B)  BY <1>1, <2>1, BlockEnd
    <2>3. Len(mem) \div B \in Nat  BY <1>1, DivMod
    <2> HIDE DEF q
    <2> QED  BY <1>2, <2>2, <2>3 DEF Blocks
  <1> HIDE DEF B, q, diff, left, len, file, v, e
  <1>6. /\ len \in Nat /\ len > 0 /\ e <= m_size /\ e \in Nat /\ left - len = m_size - e
        /\ left >= B => len = B - diff
        /\ left < B => e = m_size
        /\ e = pos + len
    <2>1. CASE left >= B
      <3>1. Least(left, B) = B  BY <1>1, <1>3, <2>1 DEF Least
      <3>2. len = B - diff  BY <3>1 DEF len
      <3> QED  BY <1>1, <1>2, <1>3, <2>1, <3>2 DEF left, e
    <2>2. CASE left < B
      <3>1. Least(left, B) = left  BY <2>2 DEF Least
      <3>2. len = left  BY <1>1, <1>3, <2>2, <3>1 DEF len
      <3> QED  BY <1>1, <1>2, <1>3, <2>2, <3>2 DEF left, e
    <2> QED  BY <1>1, <1>3, <2>1, <2>2
  <1>7. WriteRound(v) = [left |-> m_size - e, pos |-> e, cur |-> q + 2,
                         file |-> file \o Copy(q + 1, diff, len)]
    <2>1. ~(left <= 0) /\ (q + 1) + 1 = q + 2  BY <1>2, <1>3
    <2> QED  BY <1>4, <1>5, <1>6, <2>1
  <1>8. file \o Copy(q + 1, diff, len) = SubSeq(mem, m_position + 1, e)
    <2>1. pos < Len(mem) /\ pos + len <= Len(mem) /\ e \in 0..Len(mem) /\ pos \in 0..e /\ m_position \in 0..pos
      BY <1>1, <1>6
    <2>2. Copy(q + 1, diff, len) = SubSeq(mem, pos + 1, pos + len)
      BY <1>6, <2>1, CopyRight DEF q, diff, B
    <2>3. SubSeq(mem, m_position + 1, pos) \o SubSeq(mem, pos + 1, e) = SubSeq(mem, m_position + 1, e)
      BY <1>1, <2>1, Join
    <2> QED  BY <1>6, <2>2, <2>3 DEF file
  <1>9. ASSUME e < m_size  PROVE e % B = 0 /\ (e \div B) + 1 = q + 2
    <2>1. len = B - diff  BY <1>1, <1>3, <1>6, <1>9
    <2>2. B * (q + 1) = B * q + B /\ q + 1 \in Nat  BY <1>1, <1>2
    <2>3. e = B * (q + 1) + 0 /\ 0 \in 0..(B - 1)
      <3>1. ASSUME NEW x \in Int, pos = x + diff  PROVE e = x + B
        BY <1>1, <1>2, <1>6, <2>1, <3>1
      <3>2. B * q \in Int  BY <1>1, <1>2
      <3> QED  BY <1>1, <1>2, <2>2, <3>1, <3>2
    <2>4. e \div B = q + 1 /\ e % B = 0  BY <1>1, <1>6, <2>2, <2>3, DivModUnique
    <2> QED  BY <1>2, <2>4
  <1>10. e >= m_position  BY <1>1, <1>6
  <1>11. v = [left |-> m_size - pos, pos |-> pos, cur |-> (pos \div m_baseSize) + 1,
              file |-> SubSeq(mem, m_position + 1, pos)]
    BY DEF v, left, q, B, file
  <1>12. WriteRound(v) = [left |-> m_size - e, pos |-> e, cur |-> q + 2,
                          file |-> SubSeq(mem, m_position + 1, e)]
    BY <1>7, <1>8
  <1> QED  BY <1>6, <1>9, <1>10, <1>11, <1>12 DEF q, B

\* So writeToFile writes all the data that is left.
LEMMA FileRight ==
  ASSUME ChainInv, m_position % m_baseSize = 0 \/ ReadSize >= m_baseSize \/ ReadSize = 0
  PROVE  writeToFile = SubSeq(mem, m_position + 1, m_size)
  <1> DEFINE B == m_baseSize  N == Blocks + 1
  <1>0. PICK f : /\ f[0] = [left |-> ReadSize, pos |-> m_position, cur |-> m_cur, file |-> <<>>]
                 /\ \A i \in 1..N : f[i] = WriteRound(f[i - 1])
                 /\ writeToFile = f[N].file
                 /\ Blocks \in Nat
    BY FileRounds
  <1>1. /\ mem \in Seq(Int) /\ Len(mem) \in Nat /\ Len(mem) % B = 0
        /\ m_size \in Nat /\ m_size <= Len(mem) /\ m_position \in Nat /\ m_position <= m_size
        /\ B \in Nat \ {0}
        /\ m_cur = IF m_position = Len(mem) THEN 0 ELSE (m_position \div B) + 1
    BY ChainTypes, BaseSize
  <1>2. N \in Nat  BY <1>0
  <1> HIDE DEF B, N
  <1> DEFINE Good(i, e) ==
                 /\ e >= m_position /\ e <= m_size
                 /\ f[i].left = m_size - e /\ f[i].file = SubSeq(mem, m_position + 1, e)
                 /\ e < m_size =>
                      /\ e % B = 0 \/ m_size - e >= B
                      /\ (e \div B) + 1 > i
                      /\ f[i] = [left |-> m_size - e, pos |-> e, cur |-> (e \div B) + 1,
                                 file |-> SubSeq(mem, m_position + 1, e)]
             S == {i \in 0..N : \E e \in Nat : Good(i, e)}
  <1>3. 0 \in S
    <2>1. SubSeq(mem, m_position + 1, m_position) = <<>>
      <3>1. m_position + 1 \in Int /\ m_position \in Int /\ m_position < m_position + 1  BY <1>1
      <3> QED  BY <3>1, SubSeqEmpty
    <2>2. ReadSize = m_size - m_position  BY DEF ReadSize
    <2>3. f[0].left = m_size - m_position /\ f[0].file = SubSeq(mem, m_position + 1, m_position)
      <3>1. PICK w : w = f[0]  OBVIOUS
      <3>2. w = [left |-> ReadSize, pos |-> m_position, cur |-> m_cur, file |-> <<>>]
        BY <1>0, <3>1
      <3>3. w.left = ReadSize /\ w.file = <<>>  BY <3>2
      <3> QED  BY <2>1, <2>2, <3>1, <3>3
    <2>4. ASSUME m_position < m_size
          PROVE /\ m_position % B = 0 \/ m_size - m_position >= B
                /\ (m_position \div B) + 1 > 0
                /\ f[0] = [left |-> m_size - m_position, pos |-> m_position,
                           cur |-> (m_position \div B) + 1,
                           file |-> SubSeq(mem, m_position + 1, m_position)]
      <3>1. m_size - m_position # 0 /\ m_position # Len(mem)  BY <1>1, <2>4
      <3>2. m_position \div B \in Nat  BY <1>1, DivMod
      <3>3. (m_position \div B) + 1 > 0
        <4>1. PICK k \in Nat : k = m_position \div B  BY <3>2
        <4>2. k + 1 > 0  OBVIOUS
        <4> QED  BY <4>1, <4>2
      <3>4. m_position % B = 0 \/ m_size - m_position >= B  BY <2>2, <3>1 DEF B
      <3>5. m_cur = (m_position \div B) + 1  BY <1>1, <3>1
      <3> QED  BY <1>0, <2>1, <2>2, <3>3, <3>4, <3>5
    <2>5. m_position >= m_position  BY <1>1
    <2>6. Good(0, m_position)  BY <1>1, <2>3, <2>4, <2>5
    <2>7. 0 \in 0..N  BY <1>2
    <2> HIDE DEF Good
    <2> QED  BY <1>1, <2>6, <2>7
  <1>4. ASSUME NEW i \in 0..(N - 1), i \in S  PROVE i + 1 \in S
    <2>1. PICK e \in Nat : Good(i, e)  BY <1>4
    <2>2. i + 1 \in 1..N /\ i + 1 \in 0..N /\ (i + 1) - 1 = i /\ i \in Nat  BY <1>2
    <2>3. f[i + 1] = WriteRound(f[i])  BY <1>0, <2>2
    <2>4. CASE e = m_size
      <3>1. f[i].left <= 0  BY <1>1, <2>1, <2>4
      <3>2. f[i + 1] = f[i]
        <4>1. PICK w : w = f[i]  OBVIOUS
        <4>2. w.left <= 0 /\ w.left = 0  BY <1>1, <2>1, <2>4, <4>1
        <4>3. WriteRound(w) = w  BY <4>2 DEF WriteRound
        <4> QED  BY <2>3, <4>1, <4>3
      <3>3. Good(i + 1, e)  BY <1>1, <2>1, <2>4, <3>2
      <3> HIDE DEF Good
      <3> QED  BY <2>2, <3>3
    <2>5. CASE e < m_size
      <3> DEFINE w == [left |-> m_size - e, pos |-> e, cur |-> (e \div B) + 1,
                       file |-> SubSeq(mem, m_position + 1, e)]
      <3>1. f[i] = w /\ (e % B = 0 \/ m_size - e >= B) /\ (e \div B) + 1 > i /\ e >= m_position
        BY <2>1, <2>5
      <3>2. PICK d \in Nat :
               /\ WriteRound(w) = [left |-> m_size - d, pos |-> d, cur |-> (e \div B) + 2,
                                   file |-> SubSeq(mem, m_position + 1, d)]
               /\ d >= m_position /\ d <= m_size
               /\ d < m_size => d % B = 0 /\ (d \div B) + 1 = (e \div B) + 2
        BY <2>5, <3>1, FileRound DEF B
      <3> HIDE DEF w
      <3>3. f[i + 1] = [left |-> m_size - d, pos |-> d, cur |-> (e \div B) + 2,
                        file |-> SubSeq(mem, m_position + 1, d)]
        BY <2>3, <3>1, <3>2
      <3>4. (e \div B) + 2 > i + 1
        <4>1. PICK k \in Nat : k = e \div B  BY <1>1, DivMod
        <4>2. k + 1 > i  BY <3>1, <4>1
        <4>3. k + 2 > i + 1  BY <2>2, <4>2
        <4> QED  BY <4>1, <4>3
      <3>5. f[i + 1].left = m_size - d /\ f[i + 1].file = SubSeq(mem, m_position + 1, d)
        <4>1. PICK v : v = f[i + 1]  OBVIOUS
        <4>2. v = [left |-> m_size - d, pos |-> d, cur |-> (e \div B) + 2,
                   file |-> SubSeq(mem, m_position + 1, d)]
          BY <3>3, <4>1
        <4>3. v.left = m_size - d /\ v.file = SubSeq(mem, m_position + 1, d)  BY <4>2
        <4> QED  BY <4>1, <4>3
      <3>6. ASSUME d < m_size
            PROVE  /\ d % B = 0 \/ m_size - d >= B
                   /\ (d \div B) + 1 > i + 1
                   /\ f[i + 1] = [left |-> m_size - d, pos |-> d, cur |-> (d \div B) + 1,
                                  file |-> SubSeq(mem, m_position + 1, d)]
        <4>1. d % B = 0 /\ (d \div B) + 1 = (e \div B) + 2  BY <3>2, <3>6
        <4> QED  BY <3>3, <3>4, <4>1
      <3>7. Good(i + 1, d)  BY <3>2, <3>5, <3>6
      <3> HIDE DEF Good
      <3> QED  BY <2>2, <3>7
    <2>6. e <= m_size  BY <2>1
    <2> HIDE DEF S
    <2>7. e = m_size \/ e < m_size  BY <1>1, <2>6
    <2> QED  BY <2>4, <2>5, <2>7
  <1>5. \A i \in 0..N : i \in S
    <2> HIDE DEF S
    <2> QED  BY <1>2, <1>3, <1>4, Induction
  <1>6. PICK e \in Nat : Good(N, e)
    <2>1. N \in S
      <3> HIDE DEF S
      <3>1. N \in 0..N  BY <1>2
      <3> QED  BY <1>5, <3>1
    <2> HIDE DEF Good
    <2> QED  BY <2>1
  <1>7. e = m_size
    <2> SUFFICES ASSUME e < m_size  PROVE FALSE  BY <1>1, <1>6
    <2>1. (e \div B) + 1 > N  BY <1>6
    <2>2. e \in 0..Len(mem) /\ e # Len(mem)  BY <1>1
    <2>3. ~((e \div B) + 1 > Len(mem) \div B)  BY <1>1, <2>2, BlockEnd DEF B
    <2>4. N = (Len(mem) \div B) + 1  BY DEF N, Blocks, B
    <2>5. PICK k \in Nat, b \in Nat : k = e \div B /\ b = Len(mem) \div B
      <3>1. e \div B \in Nat /\ Len(mem) \div B \in Nat  BY <1>1, DivMod
      <3> QED  BY <3>1
    <2>6. k + 1 > b + 1 /\ ~(k + 1 > b)  BY <2>1, <2>3, <2>4, <2>5
    <2> QED  BY <2>5, <2>6
  <1> QED  BY <1>0, <1>6, <1>7

\* What the peeking operations show is the data.
THEOREM PeeksAreData == ByteSpec => []PeeksRight
  <1>1. ByteInv => PeeksRight
    <2> SUFFICES ASSUME ByteInv  PROVE PeeksRight  OBVIOUS
    <2> DEFINE p == m_position  B == m_baseSize
    <2>0. ChainInv  BY DEF ByteInv
    <2>1. /\ Len(mem) \in Nat /\ m_size \in Nat /\ m_size <= Len(mem) /\ p \in Nat /\ p <= m_size
          /\ m_cur = (IF p = Len(mem) THEN 0 ELSE (p \div B) + 1) /\ MaxCapacity \in Nat
          /\ mem \in Seq(Int)
      BY <2>0, ChainTypes, ByteArrayAssumption
    <2>2. ReadSize \in Nat /\ p + ReadSize = m_size /\ ReadSize = m_size - p  BY <2>1 DEF ReadSize
    <2>3. ReadSize > 0 => m_cur = (p \div B) + 1
      <3>1. ReadSize > 0 => p # Len(mem)  BY <2>1, <2>2
      <3> QED  BY <2>1, <3>1
    <2> HIDE DEF p, B
    <2>4. ASSUME NEW i \in Nat  PROVE SubSeq(Data, i + 1, i) = <<>>
      <3>1. i + 1 \in Int /\ i \in Int /\ i < i + 1  OBVIOUS
      <3> QED  BY <3>1, SubSeqEmpty
    <2>5. ASSUME NEW n \in Nat, n <= ReadSize
          PROVE  (IF n = 0 THEN <<>> ELSE Copy(m_cur, p % B, n)) = SubSeq(Data, p + 1, p + n)
      <3>1. CASE n = 0
        <4>1. p + n = p  BY <2>1, <3>1
        <4> QED  BY <2>1, <2>4, <3>1, <4>1
      <3>2. CASE n > 0
        <4>1. p + n <= m_size /\ ReadSize > 0  BY <2>1, <2>2, <2>5, <3>2
        <4>2. Copy((p \div B) + 1, p % B, n) = SubSeq(Data, p + 1, p + n)
          BY <2>0, <2>1, <3>2, <4>1, Peek DEF B
        <4> QED  BY <2>3, <3>2, <4>1, <4>2
      <3> QED  BY <3>1, <3>2
    <2>6. ASSUME NEW len \in 1..MaxCapacity
          PROVE  Least(len, ReadSize) \in Nat /\ Least(len, ReadSize) <= ReadSize
      BY <2>1, <2>2 DEF Least
    <2>7. toString = SubSeq(Data, p + 1, m_size)
      <3>1. ReadSize <= ReadSize  BY <2>2
      <3> QED  BY <2>2, <2>5, <3>1 DEF toString, p, B
    <2>8. ASSUME NEW len \in 1..MaxCapacity
          PROVE  getReadBuffers(len) = SubSeq(Data, p + 1, p + Least(len, ReadSize))
      BY <2>5, <2>6 DEF getReadBuffers, p, B
    <2>9. ASSUME NEW i \in 0..p, NEW len \in 1..MaxCapacity
          PROVE  getReadBuffersAt(len, i) = SubSeq(Data, i + 1, i + Least(len, ReadSize))
      <3> DEFINE n == Least(len, ReadSize)
      <3>1. getReadBuffersAt(len, i) = IF n = 0 THEN <<>> ELSE Copy((i \div B) + 1, i % B, n)
        BY DEF getReadBuffersAt, B
      <3>2. n \in Nat /\ n <= ReadSize /\ i \in Nat  BY <2>1, <2>6
      <3> HIDE DEF n
      <3>3. CASE n = 0
        <4>1. i + n = i  BY <3>2, <3>3
        <4> QED  BY <2>4, <3>1, <3>2, <3>3, <4>1 DEF n
      <3>4. CASE n > 0
        <4>1. i + n <= m_size  BY <2>1, <2>2, <3>2
        <4>2. Copy((i \div B) + 1, i % B, n) = SubSeq(Data, i + 1, i + n)
          BY <2>0, <3>2, <3>4, <4>1, Peek DEF B
        <4> QED  BY <3>1, <3>4, <4>2 DEF n
      <3> QED  BY <3>2, <3>3, <3>4
    <2>10. ASSUME NEW i \in 0..(m_size - 1), NEW n \in 1..(m_size - i), (i \div B) + 1 = m_cur
           PROVE  readAt(n, i) = SubSeq(Data, i + 1, i + n)
      <3>1. i \in Nat /\ n \in Nat /\ n > 0 /\ i + n <= m_size  BY <2>1
      <3>2. Copy((i \div B) + 1, i % B, n) = SubSeq(Data, i + 1, i + n)
        BY <2>0, <3>1, Peek DEF B
      <3> QED  BY <2>10, <3>2 DEF readAt, B
    <2>11. ASSUME p % B = 0 \/ ReadSize >= B \/ ReadSize = 0
           PROVE  writeToFile = SubSeq(Data, p + 1, m_size)
      <3>1. writeToFile = SubSeq(mem, p + 1, m_size)  BY <2>0, <2>11, FileRight DEF p, B
      <3>2. m_size \in 0..m_size /\ p \in 0..m_size  BY <2>1
      <3> QED  BY <2>0, <3>1, <3>2, DataPart
    <2> QED  BY <2>7, <2>8, <2>9, <2>10, <2>11 DEF PeeksRight, p, B
  <1> QED  BY <1>1, ByteInvariant, PTL

-----------------------------------------------------------------------------
(* The array is a sequence of bytes.                                       *)

\* Data and out, as ByteSeq sees them, before and behind a step.
LEMMA DataNext ==
  ASSUME ChainInv, ChainInv'
  PROVE  /\ Data \in Seq(Int) /\ Len(Data) = m_size
         /\ Data' \in Seq(Int) /\ Len(Data') = m_size'
         /\ \A i \in 1..m_size : Data[i] = mem[i]
         /\ \A i \in 1..m_size' : Data'[i] = mem'[i]
         /\ \A j \in 0..m_size' : \A i \in 0..j :
               SubSeq(Data', i + 1, j) = SubSeq(mem', i + 1, j)
  <1>1. mem' \in Seq(Int) /\ m_size' \in 0..Len(mem')  BY DEF ChainInv, Sound, Now
  <1>2. PICK m, size : m = mem' /\ size = m_size' /\ m \in Seq(Int) /\ size \in 0..Len(m)
    BY <1>1
  <1>3. Data' = SubSeq(m, 1, size)  BY <1>2 DEF Data
  <1>4. /\ SubSeq(m, 1, size) \in Seq(Int) /\ Len(SubSeq(m, 1, size)) = size
        /\ \A i \in 1..size : SubSeq(m, 1, size)[i] = m[i]
        /\ \A j \in 0..size : \A i \in 0..j :
              SubSeq(SubSeq(m, 1, size), i + 1, j) = SubSeq(m, i + 1, j)
    BY <1>2, Prefix
  <1> QED  BY <1>2, <1>3, <1>4, DataPart

\* A step that keeps the bytes of the data and moves the position is a Seek.
LEMMA SeekStep ==
  ASSUME ChainInv, ChainInv', out'.res = "ok", out'.raw = <<>>,
         \A i \in 1..m_size : mem'[i] = mem[i],
         m_size' = IF m_position' > m_size THEN m_position' ELSE m_size
  PROVE  Abstract!Seek
  <1>1. /\ m_size \in Nat /\ m_size' \in Nat /\ m_position' \in Nat /\ m_size <= m_size'
    <2>1. m_size \in Nat  BY ChainTypes
    <2>2. /\ mem' \in Seq(Int) /\ m_size' \in 0..Len(mem') /\ m_position' \in 0..m_size'
      BY DEF ChainInv, Sound, Now
    <2>3. Len(mem') \in Nat  BY <2>2, LenProperties
    <2> QED  BY <2>1, <2>2, <2>3
  <1>2. /\ Data \in Seq(Int) /\ Len(Data) = m_size
        /\ Data' \in Seq(Int) /\ Len(Data') = m_size'
        /\ \A i \in 1..m_size : Data[i] = mem[i]
        /\ \A i \in 1..m_size' : Data'[i] = mem'[i]
    BY DataNext
  <1>3. SubSeq(Data', 1, Len(Data)) = Data
    <2>1. PICK d \in Seq(Int), e \in Seq(Int) : d = Data /\ e = Data'  BY <1>2
    <2>2. \A k \in 1..Len(d) : e[0 + k] = d[k]
      <3> SUFFICES ASSUME NEW k \in 1..m_size  PROVE e[0 + k] = d[k]  BY <1>2, <2>1
      <3>1. k \in 1..m_size' /\ 0 + k = k  BY <1>1
      <3> QED  BY <1>2, <2>1, <3>1
    <2>3. 0 \in Nat /\ 0 + Len(d) <= Len(e) /\ 0 + 1 = 1 /\ 0 + Len(d) = Len(d)
      BY <1>1, <1>2, <2>1
    <2>4. SubSeq(e, 0 + 1, 0 + Len(d)) = d  BY <2>2, <2>3, PartIs
    <2> QED  BY <2>1, <2>3, <2>4
  <1>4. Len(Data') = IF m_position' > Len(Data) THEN m_position' ELSE Len(Data)  BY <1>2
  <1> HIDE DEF Data
  <1> QED  BY <1>3, <1>4 DEF Abstract!Seek

\* A write is a Put.
LEMMA PutStep ==
  ASSUME ChainInv, NEW s \in Seq(Int), NEW t \in Seq(Int), NEW kind, NEW val,
         Writes(kind, val, s, t)
  PROVE  Abstract!Put /\ out.res # "crash"
  <1> DEFINE n == Len(s) + Len(t)
  <1>1. /\ ChainInv' /\ n \in Nat /\ m_position' = m_position + n
        /\ m_size' = IF m_position' > m_size THEN m_position' ELSE m_size
        /\ Len(mem') >= Len(mem)
        /\ \A i \in 1..Len(mem) : i <= m_position \/ i > m_position' => mem'[i] = mem[i]
        /\ SubSeq(mem', m_position + 1, m_position') = s \o t
    BY WritesStep
  <1> HIDE DEF n
  <1>2. /\ m_size \in Nat /\ m_position \in Nat /\ m_position <= m_size
        /\ Len(mem) \in Nat /\ m_size <= Len(mem)
    BY ChainTypes
  <1>3. /\ m_position' \in Nat /\ m_position' >= m_position /\ m_size' \in Nat
        /\ m_size <= m_size' /\ m_position' <= m_size'
    BY <1>1, <1>2
  <1>4. out'.res = "ok" /\ out'.raw = s \o t /\ out.res # "crash"
    BY DEF Writes, Result, Op
  <1>5. /\ Len(Data) = m_size /\ Len(Data') = m_size'
        /\ \A i \in 1..m_size : Data[i] = mem[i]
        /\ \A i \in 1..m_size' : Data'[i] = mem'[i]
        /\ SubSeq(Data', m_position + 1, m_position') = SubSeq(mem', m_position + 1, m_position')
    <2>1. m_position' \in 0..m_size' /\ m_position \in 0..m_position'  BY <1>2, <1>3
    <2> QED  BY <1>1, <2>1, DataNext
  <1>6. Len(Data') = IF m_position' > Len(Data) THEN m_position' ELSE Len(Data)
    BY <1>1, <1>5
  <1>7. ASSUME NEW i \in 1..Len(Data), i <= m_position \/ i > m_position'
        PROVE  Data'[i] = Data[i]
    <2>1. i \in 1..m_size  BY <1>5
    <2>2. i \in 1..m_size' /\ i \in 1..Len(mem)  BY <1>2, <1>3, <2>1
    <2> QED  BY <1>1, <1>5, <1>7, <2>1, <2>2
  <1>8. out'.raw = SubSeq(Data', m_position + 1, m_position')  BY <1>1, <1>4, <1>5
  <1> HIDE DEF Data
  <1> QED  BY <1>3, <1>4, <1>6, <1>7, <1>8 DEF Abstract!Put

\* A read is a Take, or crashes as an EmptyRead.
LEMMA TakeStep ==
  ASSUME ChainInv, NEW r, GoodReader(r), NEW kind, NEW val, Reads(kind, r, val)
  PROVE  (Abstract!Take \/ Abstract!EmptyRead) /\ out.res # "crash"
  <1>1. /\ mem' = mem /\ m_size' = m_size /\ m_position' = r.pos
        /\ out'.res = r.res /\ out'.raw = r.raw
    BY ReadsStep
  <1>2. /\ m_size \in Nat /\ m_position \in Nat /\ m_position <= m_size
        /\ Len(mem) \in Nat /\ m_size <= Len(mem) /\ mem \in Seq(Int)
    BY ChainTypes
  <1>3. /\ r.pos \in Nat /\ r.pos >= m_position /\ r.pos <= m_size
        /\ r.raw = SubSeq(mem, m_position + 1, r.pos)
        /\ r.res \in {"ok", "throws", "crash"} /\ (r.res = "crash" => r.pos = Len(mem))
    BY DEF GoodReader, Readers
  <1> DEFINE p == r.pos
  <1>4. p \in 0..m_size /\ p \in 0..Len(mem) /\ m_position \in 0..p /\ p \in m_position..m_size
    BY <1>2, <1>3
  <1> HIDE DEF p
  <1>5. Data' = Data /\ Len(Data) = m_size  BY <1>1, DataPart DEF Data
  <1>6. r.raw = SubSeq(Data, m_position + 1, p)
    <2>1. SubSeq(Data, m_position + 1, p) = SubSeq(mem, m_position + 1, p)  BY <1>4, DataPart
    <2> QED  BY <1>3, <2>1 DEF p
  <1>7. out.res # "crash"  BY DEF Reads, Op
  <1> HIDE DEF Data
  <1>8. CASE r.res # "crash"
    <2>1. Abstract!Take  BY <1>1, <1>3, <1>4, <1>5, <1>6, <1>8 DEF Abstract!Take, p
    <2> QED  BY <1>7, <2>1
  <1>9. CASE r.res = "crash"
    <2>1. p = Len(Data)  BY <1>2, <1>3, <1>5, <1>9 DEF p
    <2>2. Len(r.raw) = p - m_position
      <3>1. Len(SubSeq(mem, m_position + 1, p)) = p - m_position  BY <1>2, <1>4, Part
      <3> QED  BY <1>3, <3>1 DEF p
    <2>3. p = m_position + Len(r.raw)  BY <1>2, <1>4, <2>2
    <2>4. Abstract!EmptyRead
      BY <1>1, <1>5, <1>6, <1>9, <2>1, <2>3 DEF Abstract!EmptyRead, p
    <2> QED  BY <1>7, <2>4
  <1> QED  BY <1>8, <1>9

\* Every operation is one of ByteSeq's.
LEMMA StepImplements ==
  ASSUME ByteInv, ByteInv', ByteNext
  PROVE  Abstract!SeqNext
  <1>0. ChainInv /\ ChainInv' /\ <<>> \in Seq(Int)  BY EmptySeq DEF ByteInv
  <1>1. CASE WriteBytes \/ writeInt \/ writeFint \/ writeStringVint
    <2>1. \E kind, val : \E s, t \in Seq(Int) : Writes(kind, val, s, t)
      <3>1. CASE WriteBytes
        <4>1. PICK w \in Words : Writes("bytes", <<>>, w, <<>>)  BY <3>1 DEF WriteBytes
        <4>2. w \in Seq(Int)  BY ByteArrayAssumption, SeqMonotonic
        <4> HIDE DEF Writes
        <4> QED  BY <1>0, <4>1, <4>2
      <3>2. CASE writeInt
        <4>1. PICK v \in Ints : Writes("int", <<v>>, Varint(EncodeZigzag(v)), <<>>)
          BY <3>2 DEF writeInt
        <4>2. Varint(EncodeZigzag(v)) \in Seq(Nat)  BY ZigzagBack, VarintBytes
        <4>3. Varint(EncodeZigzag(v)) \in Seq(Int)  BY <4>2, SeqMonotonic
        <4> QED  BY <1>0, <4>1, <4>3
      <3>3. CASE writeFint
        <4>1. PICK v \in Ints : v >= 0 /\ Writes("fint", <<v>>, Fixed(v), <<>>)
          BY <3>3 DEF writeFint
        <4>2. Fixed(v) \in Seq(Int)  BY <4>1, FixedType
        <4> QED  BY <1>0, <4>1, <4>2
      <3>4. CASE writeStringVint
        <4>1. PICK w \in Words : Writes("string", w, Varint(Len(w)), w)
          BY <3>4 DEF writeStringVint
        <4>2. w \in Seq(Nat) /\ Len(w) < 2^Width  BY ByteArrayAssumption
        <4>3. w \in Seq(Int) /\ Len(w) \in Nat  BY <4>2, SeqMonotonic, LenProperties
        <4>4. Len(w) \in Word  BY <4>2, <4>3, WordType DEF Word
        <4>5. Varint(Len(w)) \in Seq(Nat)  BY <4>4, VarintBytes
        <4>6. Varint(Len(w)) \in Seq(Int)  BY <4>5, SeqMonotonic
        <4> QED  BY <4>1, <4>3, <4>6
      <3> QED  BY <1>1, <3>1, <3>2, <3>3, <3>4
    <2>2. PICK kind, val : \E s, t \in Seq(Int) : Writes(kind, val, s, t)  BY <2>1
    <2>3. PICK s \in Seq(Int), t \in Seq(Int) : Writes(kind, val, s, t)  BY <2>2
    <2>4. Abstract!Put /\ out.res # "crash"  BY <1>0, <2>3, PutStep
    <2> QED  BY <2>4 DEF Abstract!SeqNext
  <1>2. CASE ReadBytes \/ readInt \/ readFint \/ readStringVint
    <2>1. \E r, kind, val : GoodReader(r) /\ Reads(kind, r, val)
      <3>1. CASE ReadBytes  BY <1>0, <3>1, ReadsGood
      <3>2. CASE readInt  BY <1>0, <3>2, ReadsGood
      <3>3. CASE readFint  BY <1>0, <3>3, ReadsGood
      <3>4. CASE readStringVint  BY <1>0, <3>4, ReadsGood
      <3> QED  BY <1>2, <3>1, <3>2, <3>3, <3>4
    <2>2. PICK r, kind, val : GoodReader(r) /\ Reads(kind, r, val)  BY <2>1
    <2>3. (Abstract!Take \/ Abstract!EmptyRead) /\ out.res # "crash"  BY <1>0, <2>2, TakeStep
    <2> QED  BY <2>3 DEF Abstract!SeqNext
  <1>3. /\ m_size \in Nat /\ m_position \in Nat /\ m_position <= m_size
        /\ Len(mem) \in Nat /\ m_size <= Len(mem)
    BY <1>0, ChainTypes
  <1>4. CASE setPosition
    <2>1. out.res # "crash"  BY <1>4 DEF setPosition, Op
    <2>2. /\ mem' = mem /\ out'.raw = <<>>
          /\ \/ out'.res = "throws" /\ m_position' = m_position /\ m_size' = m_size
             \/ /\ out'.res = "ok" /\ m_position' \in Nat
                /\ m_size' = IF m_position' > m_size THEN m_position' ELSE m_size
      BY <1>0, <1>4, SetPositionStep
    <2>3. CASE out'.res = "throws" /\ m_position' = m_position /\ m_size' = m_size
      <3>1. Data' = Data /\ Len(Data) = m_size  BY <1>0, <2>2, <2>3, DataPart DEF Data
      <3>2. SubSeq(Data, m_position + 1, m_position) = <<>>
        <4>1. m_position + 1 \in Int /\ m_position \in Int /\ m_position < m_position + 1  BY <1>3
        <4> QED  BY <4>1, SubSeqEmpty
      <3>3. m_position \in m_position..m_size  BY <1>3
      <3> HIDE DEF Data
      <3>4. Abstract!Take  BY <2>2, <2>3, <3>1, <3>2, <3>3 DEF Abstract!Take
      <3> QED  BY <2>1, <3>4 DEF Abstract!SeqNext
    <2>4. CASE /\ out'.res = "ok" /\ m_position' \in Nat
               /\ m_size' = IF m_position' > m_size THEN m_position' ELSE m_size
      <3>1. Abstract!Seek  BY <1>0, <2>2, <2>4, SeekStep
      <3> QED  BY <2>1, <3>1 DEF Abstract!SeqNext
    <2> QED  BY <2>2, <2>3, <2>4
  <1>5. CASE getWriteBuffers
    <2>1. out.res # "crash"  BY <1>5 DEF getWriteBuffers, Op
    <2>2. /\ m_position' = m_position /\ m_size' = m_size /\ out'.raw = <<>> /\ out'.res = "ok"
          /\ \A i \in 1..Len(mem) : mem'[i] = mem[i]
      BY <1>0, <1>5, WriteBuffersStep
    <2>3. m_size' = IF m_position' > m_size THEN m_position' ELSE m_size  BY <1>3, <2>2
    <2>4. \A i \in 1..m_size : mem'[i] = mem[i]  BY <1>3, <2>2
    <2>5. Abstract!Seek  BY <1>0, <2>2, <2>3, <2>4, SeekStep
    <2> QED  BY <2>1, <2>5 DEF Abstract!SeqNext
  <1>6. CASE clear
    <2>1. out.res # "crash"  BY <1>6 DEF clear, Op
    <2>2. m_position' = 0 /\ m_size' = 0 /\ out'.raw = <<>> /\ out'.res = "ok"
      BY <1>0, <1>6, ClearStep
    <2>3. Data' = <<>>
      <3>1. Data' \in Seq(Int) /\ Len(Data') = 0  BY <1>0, <2>2, DataNext
      <3> HIDE DEF Data
      <3> QED  BY <3>1, EmptySeq
    <2> HIDE DEF Data
    <2>4. Abstract!Clear  BY <2>2, <2>3 DEF Abstract!Clear
    <2> QED  BY <2>1, <2>4 DEF Abstract!SeqNext
  <1>7. CASE setIsLittleEndian
    <2>1. out.res # "crash"  BY <1>7 DEF setIsLittleEndian, Op
    <2>2. /\ mem' = mem /\ m_position' = m_position /\ m_size' = m_size
          /\ out'.raw = <<>> /\ out'.res = "ok"
      BY <1>7 DEF setIsLittleEndian, Result
    <2>3. m_size' = IF m_position' > m_size THEN m_position' ELSE m_size  BY <1>3, <2>2
    <2>4. Abstract!Seek  BY <1>0, <2>2, <2>3, SeekStep
    <2> QED  BY <2>1, <2>4 DEF Abstract!SeqNext
  <1> QED  BY <1>1, <1>2, <1>4, <1>5, <1>6, <1>7 DEF ByteNext

\* The byte array implements the sequence of bytes: blocks, and the cursor into
\* them, cannot be seen from outside.
THEOREM ArrayIsSequence == ByteSpec => ImplementsByteSeq
  <1>1. ByteInit => Abstract!SeqInit
    <2> SUFFICES ASSUME ByteInit  PROVE Abstract!SeqInit  OBVIOUS
    <2>1. ByteInv  BY InitByte
    <2>2. m_size = 0 /\ m_position = 0 /\ out.res = "ok" /\ out.raw = <<>>
      BY DEF ByteInit, Done
    <2>3. Data = <<>>
      <3>1. Data \in Seq(Int) /\ Len(Data) = 0  BY <2>1, <2>2, DataPart DEF ByteInv
      <3> HIDE DEF Data
      <3> QED  BY <3>1, EmptySeq
    <2> HIDE DEF Data
    <2> QED  BY <2>2, <2>3 DEF Abstract!SeqInit
  <1>2. ByteInv /\ ByteInv' /\ [ByteNext]_byteVars
          => [Abstract!SeqNext]_<<Data, m_position, [res |-> out.res, raw |-> out.raw]>>
    <2> SUFFICES ASSUME ByteInv, ByteInv', [ByteNext]_byteVars
                 PROVE  [Abstract!SeqNext]_<<Data, m_position, [res |-> out.res, raw |-> out.raw]>>
      OBVIOUS
    <2>1. CASE ByteNext  BY <2>1, StepImplements
    <2>2. CASE UNCHANGED byteVars
      <3>1. mem' = mem /\ m_size' = m_size /\ m_position' = m_position /\ out' = out
        BY <2>2 DEF byteVars
      <3> QED  BY <3>1 DEF Data
    <2> QED  BY <2>1, <2>2
  <1> QED  BY <1>1, <1>2, ByteInvariant, PTL DEF ByteSpec, ImplementsByteSeq, Abstract!SeqSpec

=============================================================================
