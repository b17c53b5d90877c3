------------------------------ MODULE ByteArray ------------------------------
(***************************************************************************)
(* HCServer/bytearray.cc: a chain of blocks of m_baseSize bytes, a         *)
(* position, and m_cur, the block the position is in.                      *)
(*                                                                         *)
(* mem is the memory of the chain, block after block: byte i (from 0) of   *)
(* block b (from 1) is mem[(b-1)*m_baseSize + i + 1].  m_cur is a block's  *)
(* number; NULL is 0.  The copying loops fill or empty m_cur from the      *)
(* position's offset on and go on to the next block: Copy and Paste.       *)
(*                                                                         *)
(* A byte has GroupBits + 1 bits (7 + 1 in the code): GroupBits bits of a  *)
(* varint and the flag that more follow.                                   *)
(***************************************************************************)
EXTENDS Integers, Sequences, FiniteSets

CONSTANTS
    m_baseSize,
    GroupBits, Width, \* bits of a varint's group, and of an integer
    Ints, Words,     \* the integers and strings the program writes
    MaxCapacity,     \* bound: bytes of memory
    MaxOps           \* bound: operations

ASSUME ByteArrayAssumption ==
    /\ m_baseSize \in Nat \ {0} /\ GroupBits \in Nat \ {0} /\ Width \in Nat \ {0}
    /\ Ints \subseteq -(2^(Width - 1))..(2^(Width - 1) - 1)
    /\ Words \subseteq Seq(Nat) /\ \A w \in Words : Len(w) < 2^Width
    /\ MaxCapacity \in Nat /\ MaxOps \in Nat

VARIABLES
    mem, m_cur, m_position, m_size, m_endian,
    out,             \* the last operation: [op, at, res, raw, val]
    items,           \* what was written where, and not overwritten since
    ops              \* operations so far

byteVars == <<mem, m_cur, m_position, m_size, m_endian, out, items, ops>>

Blocks == Len(mem) \div m_baseSize
High == 2^GroupBits                  \* the flag of a varint's byte, 0x80
MaxGroups == (Width + GroupBits - 1) \div GroupBits   \* bytes of the longest varint

\* Facts of arithmetic, which the provers do not know.
ASSUME PowerAssumption ==
    /\ High > 1 /\ High^0 = 1
    /\ \A n \in 0..(Width - 1) : High^(n + 1) = High * High^n
    /\ 2^(Width - 1) > 0 /\ 2^Width = 2 * 2^(Width - 1)
    /\ 2^Width <= High^MaxGroups

Junk == -1                       \* memory nobody wrote
OffChain == <<-2>>               \* bytes of a block that is not there: a crash
Done == [op |-> "none", at |-> 0, res |-> "ok", raw |-> <<>>, val |-> <<>>]

ByteInit ==
    /\ mem = [i \in 1..m_baseSize |-> Junk]
    /\ m_cur = 1 /\ m_position = 0 /\ m_size = 0 /\ m_endian = "big"
    /\ out = Done /\ items = {} /\ ops = 0

-----------------------------------------------------------------------------
(* Integers as bytes.                                                      *)

\* Mutant: (uint32_t)(-v) * 2 without the - 1.
EncodeZigzagEven(v) == (IF v < 0 THEN (-v) * 2 ELSE v * 2) % 2^Width

EncodeZigzag(v) == (IF v < 0 THEN (-v) * 2 - 1 ELSE v * 2) % 2^Width

\* (v >> 1) ^ -(v & 1)
DecodeZigzag(u) == IF u % 2 = 0 THEN u \div 2 ELSE -(u \div 2) - 1

\* tmp[i++] = (value & 0x7F) | 0x80; value >>= 7
VarintLen(u) == CHOOSE n \in 1..Width : u < High^n /\ (n > 1 => u >= High^(n - 1))
Varint(u) ==
    [i \in 1..VarintLen(u) |->
        ((u \div High^(i - 1)) % High) + IF i < VarintLen(u) THEN High ELSE 0]

\* result |= (b & 0x7f) << i, in Width bits.
FromVarint(bs) ==
    LET sum[n \in 0..Len(bs)] ==
          IF n = 0 THEN 0 ELSE sum[n - 1] + ((bs[n] % High) * High^(n - 1))
    IN  sum[Len(bs)] % 2^Width

\* A fixed-length integer, of two bytes here; byteswap if the byte order of the
\* array is not the machine's (little endian).
Fixed(v) ==
    LET lo == v % (2 * High)  hi == v \div (2 * High)
    IN  IF m_endian = "little" THEN <<lo, hi>> ELSE <<hi, lo>>
FromFixed(bs) ==
    LET b == IF m_endian = "little" THEN bs ELSE <<bs[2], bs[1]>>
    IN  b[1] + 2 * High * b[2]

-----------------------------------------------------------------------------
(* The chain.                                                              *)

\* Where m_cur is after n bytes from offset npos of block cur.
Moved(cur, npos, n) ==
    LET b == cur + ((npos + n) \div m_baseSize) IN IF b > Blocks THEN 0 ELSE b

\* n bytes from offset npos of block cur on; the chain may end before.
Copy(cur, npos, n) ==
    LET first == (cur - 1) * m_baseSize + npos
    IN  IF cur = 0 \/ first + n > Len(mem) THEN OffChain
        ELSE SubSeq(mem, first + 1, first + n)

\* The array while an operation works on it: a has the fields mem, cur, pos, size.
Now == [mem |-> mem, cur |-> m_cur, pos |-> m_position, size |-> m_size]

\* Mutant: the cursor is not set when the memory was full.
addCapacityNoCur(a, size) ==
    LET room  == Len(a.mem) - a.pos
        count == IF room >= size THEN 0 ELSE (size - room + m_baseSize - 1) \div m_baseSize
    IN  [a EXCEPT !.mem = @ \o [i \in 1..count * m_baseSize |-> Junk]]

\* Blocks for size bytes behind the position; m_cur is the first of them if the
\* memory was full.
addCapacity(a, size) ==
    LET room  == Len(a.mem) - a.pos
        count == IF room >= size THEN 0 ELSE (size - room + m_baseSize - 1) \div m_baseSize
    IN  [a EXCEPT !.mem = @ \o [i \in 1..count * m_baseSize |-> Junk],
                  !.cur = IF count > 0 /\ room = 0 THEN (Len(a.mem) \div m_baseSize) + 1 ELSE @]

write(old, buf) ==
    LET a == addCapacity(old, Len(buf))
        first == ((a.cur - 1) * m_baseSize) + (a.pos % m_baseSize)
        next == a.cur + (((a.pos % m_baseSize) + Len(buf)) \div m_baseSize)
        end == a.pos + Len(buf)
    IN  IF buf = <<>> THEN old
        ELSE [mem |-> [i \in DOMAIN a.mem |->
                         IF i > first /\ i <= first + Len(buf) THEN buf[i - first] ELSE a.mem[i]],
              cur |-> IF next > Len(a.mem) \div m_baseSize THEN 0 ELSE next,
              pos |-> end,
              size |-> IF end > a.size THEN end ELSE a.size]

\* read(buf, n) of the reader r = [cur, pos, res, raw]; nothing follows a throw.
\* m_cur->size is looked at even if n is 0.
read(r, n) ==
    CASE r.res # "ok" -> r
      [] r.res = "ok" /\ n > m_size - r.pos -> [r EXCEPT !.res = "throws"]
      [] r.res = "ok" /\ n <= m_size - r.pos /\ r.cur = 0 -> [r EXCEPT !.res = "crash"]
      [] OTHER -> [r EXCEPT !.cur = Moved(r.cur, r.pos % m_baseSize, n), !.pos = @ + n,
                            !.raw = @ \o Copy(r.cur, r.pos % m_baseSize, n)]

Reader == [cur |-> m_cur, pos |-> m_position, res |-> "ok", raw |-> <<>>]

\* readUint32: bytes until one has no flag, at most as many as the width takes.
readVarint(r) ==
    LET more[i \in 0..MaxGroups] ==
          IF i = 0 THEN r
          ELSE LET b == more[i - 1]
               IN  IF i > 1 /\ b.res = "ok" /\ b.raw[Len(b.raw)] < High THEN b
                   ELSE read(b, 1)
    IN  more[MaxGroups]

-----------------------------------------------------------------------------
(* Operations.                                                             *)

Op == ops < MaxOps /\ ops' = ops + 1 /\ out.res # "crash"

Result(op, res, raw, val) ==
    out' = [op |-> op, at |-> m_position, res |-> res, raw |-> raw, val |-> val]

\* Items that a write of n bytes here leaves alone.
Spared(n) == {x \in items : x.p + x.len <= m_position \/ x.p >= m_position + n}

\* One or two writes; kind and val are what was written.
Writes(kind, val, part1, part2) ==
    LET a == write(write(Now, part1), part2)
        n == Len(part1) + Len(part2)
    IN  /\ Op /\ Len(a.mem) <= MaxCapacity
        /\ mem' = a.mem /\ m_cur' = a.cur /\ m_position' = a.pos /\ m_size' = a.size
        /\ items' = Spared(n) \cup
              IF kind = "bytes" THEN {}
              ELSE {[p |-> m_position, len |-> n, kind |-> kind, val |-> val, endian |-> m_endian]}
        /\ Result("write", "ok", part1 \o part2, <<>>)
        /\ UNCHANGED m_endian

\* A read that ended as r, of value val.  Programs do not read memory that
\* nobody wrote.
Reads(kind, r, val) ==
    /\ Op
    /\ \A i \in DOMAIN r.raw : r.raw[i] # Junk
    /\ m_cur' = r.cur /\ m_position' = r.pos
    /\ Result(kind, r.res, r.raw, IF r.res = "ok" THEN val ELSE <<>>)
    /\ UNCHANGED <<mem, m_size, m_endian, items>>

\* write, readFromFile (a file's bytes, block by block), writeStringWithoutLength
WriteBytes == \E w \in Words : Writes("bytes", <<>>, w, <<>>)
writeInt   == \E v \in Ints : Writes("int", <<v>>, Varint(EncodeZigzag(v)), <<>>)
writeFint  == \E v \in Ints : v >= 0 /\ Writes("fint", <<v>>, Fixed(v), <<>>)
writeStringVint == \E w \in Words : Writes("string", w, Varint(Len(w)), w)

ReadBytes == \E n \in 0..MaxCapacity : LET r == read(Reader, n) IN Reads("bytes", r, r.raw)
readInt   == LET r == readVarint(Reader) IN Reads("int", r, <<DecodeZigzag(FromVarint(r.raw))>>)
readFint  == LET r == read(Reader, 2) IN Reads("fint", r, <<FromFixed(r.raw)>>)
readStringVint ==
    LET len == readVarint(Reader)
        r == read(len, FromVarint(len.raw))
    IN  Reads("string", r, SubSeq(r.raw, Len(len.raw) + 1, Len(r.raw)))

\* Mutant: v >= m_cur->size, and no test for the end of a block.
BlockOfStrict(v) == IF v = 0 THEN 1 ELSE ((v - 1) \div m_baseSize) + 1

\* The loop of setPosition: the block of byte v, or NULL at the end of memory.
BlockOf(v) == IF v = Len(mem) THEN 0 ELSE (v \div m_baseSize) + 1

setPosition ==
    /\ Op
    /\ \E v \in 0..MaxCapacity + 1 :
          IF v > Len(mem)
          THEN Result("setPosition", "throws", <<>>, <<>>) /\ UNCHANGED <<m_cur, m_position, m_size>>
          ELSE /\ m_position' = v
               /\ m_size' = IF v > m_size THEN v ELSE m_size
               /\ m_cur' = BlockOf(v)
               /\ Result("setPosition", "ok", <<>>, <<>>)
    /\ UNCHANGED <<mem, m_endian, items>>

\* getWriteBuffers: memory for len bytes.
getWriteBuffers ==
    /\ Op
    /\ \E len \in 0..MaxCapacity :
          LET a == addCapacity(Now, len)
          IN  Len(a.mem) <= MaxCapacity /\ mem' = a.mem /\ m_cur' = a.cur
    /\ Result("getWriteBuffers", "ok", <<>>, <<>>)
    /\ UNCHANGED <<m_position, m_size, m_endian, items>>

clear ==
    /\ Op
    /\ mem' = SubSeq(mem, 1, m_baseSize)
    /\ m_cur' = 1 /\ m_position' = 0 /\ m_size' = 0 /\ items' = {}
    /\ Result("clear", "ok", <<>>, <<>>)
    /\ UNCHANGED m_endian

setIsLittleEndian ==
    /\ Op
    /\ m_endian' \in {"big", "little"} \ {m_endian}
    /\ Result("setIsLittleEndian", "ok", <<>>, <<>>)
    /\ UNCHANGED <<mem, m_cur, m_position, m_size, items>>

ByteNext ==
    \/ WriteBytes \/ writeInt \/ writeFint \/ writeStringVint
    \/ ReadBytes \/ readInt \/ readFint \/ readStringVint
    \/ setPosition \/ getWriteBuffers \/ clear \/ setIsLittleEndian

ByteSpec == ByteInit /\ [][ByteNext]_byteVars

-----------------------------------------------------------------------------
(* Looking at the data without moving the position.                        *)

ReadSize == m_size - m_position

toString == IF ReadSize = 0 THEN <<>> ELSE Copy(m_cur, m_position % m_baseSize, ReadSize)

Least(m, n) == IF m < n THEN m ELSE n

getReadBuffers(len) ==
    IF Least(len, ReadSize) = 0 THEN <<>>
    ELSE Copy(m_cur, m_position % m_baseSize, Least(len, ReadSize))

\* The length is cut to what there is behind m_position, not behind position.
getReadBuffersAt(len, position) ==
    IF Least(len, ReadSize) = 0 THEN <<>>
    ELSE Copy((position \div m_baseSize) + 1, position % m_baseSize, Least(len, ReadSize))

\* The offset is that of position, the block is m_cur.
readAt(size, position) == Copy(m_cur, position % m_baseSize, size)

\* One round of writeToFile's loop: len = min(read_size, m_baseSize) - diff bytes
\* of a block, and on to the next.
WriteRound(w) ==
    LET diff == w.pos % m_baseSize
        len == Least(w.left, m_baseSize) - diff
    IN  CASE w.left <= 0 -> w
          [] w.left > 0 /\ w.cur \notin 1..Blocks ->
                [w EXCEPT !.left = 0, !.file = @ \o OffChain]
          [] OTHER -> [left |-> w.left - len, pos |-> w.pos + len, cur |-> w.cur + 1,
                       file |-> w.file \o Copy(w.cur, diff, IF len > 0 THEN len ELSE 0)]

\* Each round goes on to the next block, so there are not more than Blocks + 1.
writeToFile ==
    LET rounds[i \in 0..Blocks + 1] ==
          IF i = 0 THEN [left |-> ReadSize, pos |-> m_position, cur |-> m_cur, file |-> <<>>]
          ELSE WriteRound(rounds[i - 1])
    IN  rounds[Blocks + 1].file

-----------------------------------------------------------------------------
(* Properties.                                                             *)

Data == SubSeq(mem, 1, m_size)

\* Whatever was written, at whatever place of the chain, and not overwritten, is
\* what the matching read at that place returns, and the read ends where the
\* item does (fixed-length integers: under the byte order they were written in).
\* One exception: an empty string that ends with the memory cannot be read.
ReadsBack ==
    \A x \in items :
        out.op = x.kind /\ out.at = x.p /\ (x.kind = "fint" => m_endian = x.endian) =>
            \/ out.res = "ok" /\ out.val = x.val /\ m_position = x.p + x.len
            \/ out.res = "crash" /\ x.val = <<>> /\ x.p + x.len = Len(mem)

\* toString and getReadBuffers show what is behind the position.  The variants
\* with a position do under conditions their code does not test: read only
\* within the current block, getReadBuffers only if position is not behind
\* m_position, writeToFile only if the position is at a block's beginning or a
\* block's worth of data is left.
PeeksRight ==
    /\ toString = SubSeq(Data, m_position + 1, m_size)
    /\ \A len \in 1..MaxCapacity :
          getReadBuffers(len) = SubSeq(Data, m_position + 1, m_position + Least(len, ReadSize))
    /\ \A p \in 0..m_position, len \in 1..MaxCapacity :
          getReadBuffersAt(len, p) = SubSeq(Data, p + 1, p + Least(len, ReadSize))
    /\ \A p \in 0..(m_size - 1) : \A n \in 1..(m_size - p) :
          (p \div m_baseSize) + 1 = m_cur => readAt(n, p) = SubSeq(Data, p + 1, p + n)
    /\ m_position % m_baseSize = 0 \/ ReadSize >= m_baseSize \/ ReadSize = 0 =>
          writeToFile = SubSeq(Data, m_position + 1, m_size)

\* The array is a sequence of bytes with a position.
Abstract == INSTANCE ByteSeq WITH bytes <- Data, at <- m_position,
                                  got <- [res |-> out.res, raw |-> out.raw]
ImplementsByteSeq == Abstract!SeqSpec

-----------------------------------------------------------------------------
(* The inductive invariant behind them.                                    *)

\* The memory is whole blocks, the position is in the data, the data in the
\* memory, and the cursor is the block of the position.
Sound(a) ==
    /\ a.mem \in Seq(Int) /\ Len(a.mem) > 0 /\ Len(a.mem) % m_baseSize = 0
    /\ a.size \in 0..Len(a.mem) /\ a.pos \in 0..a.size
    /\ a.cur = IF a.pos = Len(a.mem) THEN 0 ELSE (a.pos \div m_baseSize) + 1
ChainInv == Sound(Now) /\ m_endian \in {"big", "little"}

\* The bytes an item was written as.
Code(x) ==
    LET v == x.val[1]
        lo == v % (2 * High)  hi == v \div (2 * High)
    IN  CASE x.kind = "int" -> Varint(EncodeZigzag(v))
          [] x.kind = "fint" -> IF x.endian = "little" THEN <<lo, hi>> ELSE <<hi, lo>>
          [] OTHER -> Varint(Len(x.val)) \o x.val

\* They are still where they were written.
ItemInv ==
    \A x \in items :
        /\ x.p \in Nat /\ x.len \in Nat /\ x.endian \in {"big", "little"}
        /\ \/ x.kind = "int" /\ \E v \in Ints : x.val = <<v>>
           \/ x.kind = "fint" /\ \E v \in Ints : v >= 0 /\ x.val = <<v>>
           \/ x.kind = "string" /\ x.val \in Words
        /\ x.p + x.len <= m_size
        /\ SubSeq(mem, x.p + 1, x.p + x.len) = Code(x)

ByteInv == ChainInv /\ ItemInv /\ ReadsBack

=============================================================================
