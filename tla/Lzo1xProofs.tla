----------------------------- MODULE Lzo1xProofs -----------------------------
(***************************************************************************)
(* What holds of the codec for every input and whatever the search finds:   *)
(* the bound on the size of the stream, and that the decompressor reads an  *)
(* instruction as the compressor meant it.                                  *)
(***************************************************************************)
EXTENDS Lzo1x, TLAPS

-----------------------------------------------------------------------------
\* Sizes of instructions

LEMMA LongLength ==
    ASSUME NEW n \in Nat, n >= 1
    PROVE  Len(Long(n)) = (n - 1) \div 255 + 1 /\ Long(n) \in Seq(Int)
<1>. DEFINE z == (n - 1) \div 255
<1>1. z \in Nat
  OBVIOUS
<1>2. Zeros(z) \in Seq(Int) /\ Len(Zeros(z)) = z
  BY <1>1 DEF Zeros
<1>3. <<((n - 1) % 255) + 1>> \in Seq(Int) /\ Len(<<((n - 1) % 255) + 1>>) = 1
  OBVIOUS
<1>. HIDE DEF z
<1>4. Zeros(z) \o <<((n - 1) % 255) + 1>> \in Seq(Int)
  BY <1>2, <1>3
<1>5. Len(Zeros(z) \o <<((n - 1) % 255) + 1>>) = z + 1
  BY <1>2, <1>3
<1>. QED
  BY <1>4, <1>5 DEF Long, z

LEMMA Joined ==
    ASSUME NEW s \in Seq(Int), NEW u \in Seq(Int)
    PROVE  /\ Len(s) \in Nat /\ Len(u) \in Nat
           /\ Len(s \o u) = Len(s) + Len(u)
  OBVIOUS

LEMMA Prefixed ==
    ASSUME NEW b \in Int, NEW s \in Seq(Int)
    PROVE  Len(<<b>> \o s) = Len(s) + 1 /\ <<b>> \o s \in Seq(Int)
  OBVIOUS

\* n literals take at most a sixteenth and one byte more.
LEMMA LiteralBound ==
    ASSUME NEW n \in Nat
    PROVE  LiteralBytes(n) \in Nat /\ 16 * LiteralBytes(n) <= 17 * n + 16
<1>1. CASE n <= 18
  BY <1>1 DEF LiteralBytes, LiteralCode
<1>2. CASE n > 18
  <2>1. Len(Long(n - 18)) = (n - 19) \div 255 + 1 /\ Long(n - 18) \in Seq(Int)
    BY <1>2, LongLength
  <2>2. Len(LiteralCode(n)) = (n - 19) \div 255 + 2
    BY <1>2, <2>1, Prefixed DEF LiteralCode
  <2>. QED
    BY <1>2, <2>2 DEF LiteralBytes
<1>. QED
  BY <1>1, <1>2

LEMMA LengthBound ==
    ASSUME NEW marker \in Nat, NEW max \in 8..33, NEW m \in Nat, m >= 4
    PROVE  /\ LengthCode(marker, max, m) \in Seq(Int)
           /\ 16 * Len(LengthCode(marker, max, m)) <= 17 * m - 48
<1>1. CASE m <= max
  BY <1>1 DEF LengthCode
<1>2. CASE m > max
  <2>1. /\ Len(Long(m - max)) = (m - max - 1) \div 255 + 1
        /\ Long(m - max) \in Seq(Int)
    BY <1>2, LongLength
  <2>2. LengthCode(marker, max, m) = <<marker>> \o Long(m - max)
    BY <1>2 DEF LengthCode
  <2>3. /\ LengthCode(marker, max, m) \in Seq(Int)
        /\ Len(LengthCode(marker, max, m)) = (m - max - 1) \div 255 + 2
    BY <2>1, <2>2, Prefixed
  <2>4. (m - max - 1) \div 255 + 2 <= m - max + 1
    BY <1>2
  <2>5. 16 * Len(LengthCode(marker, max, m)) <= 17 * m - 48
    BY <2>3, <1>2
  <2>. QED
    BY <2>3, <2>5
<1>. QED
  BY <1>1, <1>2

LEMMA WithOffset ==
    ASSUME NEW l \in Seq(Int), NEW o \in Int, NEW m \in Nat, 16 * Len(l) <= 17 * m - 48
    PROVE  Len(l \o OffsetCode(o)) \in Nat /\ 16 * Len(l \o OffsetCode(o)) <= 17 * m - 16
<1>1. OffsetCode(o) \in Seq(Int) /\ Len(OffsetCode(o)) = 2
  BY DEF OffsetCode
<1>2. Len(l \o OffsetCode(o)) = Len(l) + 2 /\ Len(l) \in Nat
  BY <1>1, Joined
<1>. QED
  BY <1>2

\* A match takes at least one byte less than it stands for.
LEMMA MatchBound ==
    ASSUME NEW m_off \in Nat, m_off >= 1, NEW m_len \in Nat, m_len >= 4
    PROVE  /\ Len(MatchCode(m_off, m_len)) \in Nat
           /\ 16 * Len(MatchCode(m_off, m_len)) <= 17 * m_len - 16
<1>1. CASE m_len <= M2_MAX_LEN /\ m_off <= M2_MAX_OFFSET
  BY <1>1 DEF MatchCode, M2_MAX_LEN, M2_MAX_OFFSET
<1>2. CASE ~(m_len <= M2_MAX_LEN /\ m_off <= M2_MAX_OFFSET) /\ m_off <= M3_MAX_OFFSET
  <2>. DEFINE l == LengthCode(M3_MARKER, M3_MAX_LEN, m_len)
  <2>1. M3_MARKER \in Nat /\ M3_MAX_LEN \in 8..33 /\ m_off - 1 \in Int
    BY DEF M3_MARKER, M3_MAX_LEN
  <2>2. l \in Seq(Int) /\ 16 * Len(l) <= 17 * m_len - 48
    BY <2>1, LengthBound
  <2>3. MatchCode(m_off, m_len) = l \o OffsetCode(m_off - 1)
    BY <1>2 DEF MatchCode
  <2>. HIDE DEF l
  <2>. QED
    BY <2>1, <2>2, <2>3, WithOffset
<1>3. CASE ~(m_len <= M2_MAX_LEN /\ m_off <= M2_MAX_OFFSET) /\ ~(m_off <= M3_MAX_OFFSET)
  <2>. DEFINE k == M4_MARKER + 8 * (((m_off - 16384) \div 16384) % 2)
              o == m_off - 16384
              l == LengthCode(k, M4_MAX_LEN, m_len)
  <2>1. k \in Nat
    BY DEF M4_MARKER
  <2>2. M4_MAX_LEN \in 8..33
    BY DEF M4_MAX_LEN
  <2>3. MatchCode(m_off, m_len) = l \o OffsetCode(o)
    BY <1>3 DEF MatchCode
  <2>. HIDE DEF k
  <2>4. l \in Seq(Int) /\ 16 * Len(l) <= 17 * m_len - 48
    BY <2>1, <2>2, LengthBound
  <2>5. o \in Int
    OBVIOUS
  <2>. HIDE DEF l, o
  <2>. QED
    BY <2>3, <2>4, <2>5, WithOffset
<1>. QED
  BY <1>1, <1>2, <1>3

-----------------------------------------------------------------------------
\* The size of the stream

\* The compressor has written at most 17/16 of what it has passed; the last
\* literals and the end marker add at most 4 bytes.
SizeInv ==
    /\ pc \in Places
    /\ in_len \in Nat /\ base \in 0..in_len /\ lit \in 0..in_len
    /\ ll \in Nat /\ ip \in Nat /\ written \in Nat
    /\ pc = "chunk" => lit <= base
    /\ pc = "search" => base + ll <= in_len /\ lit <= ip /\ lit <= base + ll
    /\ pc \in {"chunk", "search"} => 16 * written <= 17 * lit
    /\ pc \notin {"chunk", "search"} => 16 * written <= 17 * in_len + 64

LEMMA SizeOfToken ==
    ASSUME NEW w \in Nat, NEW l \in Nat, NEW n \in Nat, NEW m \in Nat,
           NEW a \in Nat, NEW b \in Nat,
           16 * w <= 17 * l, 16 * a <= 17 * n + 16, 16 * b <= 17 * m - 16
    PROVE  w + a + b \in Nat /\ 16 * (w + a + b) <= 17 * (l + n + m)
  OBVIOUS

LEMMA SizeAtStart == ASSUME Init PROVE SizeInv
  BY Lzo1xAssumption DEF Init, SizeInv, Places

\* A step of the decompressor leaves the stream alone.
Decompresses ==
    /\ pc \notin {"chunk", "search"} /\ UNCHANGED compressVars
    /\ pc' \in Places \ {"chunk", "search"}

LEMMA LiteralsDecompress ==
    ASSUME pc \notin {"chunk", "search"}, NEW n, NEW used,
           NEW next \in Places \ {"chunk", "search"}, CopyLiterals(n, used, next)
    PROVE  Decompresses
  BY DEF CopyLiterals, Stop, Decompresses, Places

LEMMA MatchesDecompress ==
    ASSUME ReadMatch PROVE Decompresses
<1>1. pc \notin {"chunk", "search"}
  BY DEF ReadMatch
<1>2. CASE Stop("LZO_E_INPUT_OVERRUN")
  BY <1>1, <1>2 DEF Stop, Decompresses, Places
<1>3. CASE Finish
  BY <1>1, <1>3 DEF Finish, Decompresses, Places
<1>4. CASE CopyMatch
  <2>1. \/ Stop("LZO_E_LOOKBEHIND_OVERRUN") \/ Stop("LZO_E_OUTPUT_OVERRUN")
        \/ UNCHANGED compressVars /\ pc' \in {"run", "next"}
    BY <1>4 DEF CopyMatch
  <2>. QED
    BY <1>1, <2>1 DEF Stop, Decompresses, Places
<1>. QED
  BY <1>2, <1>3, <1>4 DEF ReadMatch

LEMMA SizeStays ==
    ASSUME SizeInv, Decompresses PROVE SizeInv'
  BY DEF SizeInv, Decompresses, compressVars, Places

LEMMA SizeKept ==
    ASSUME SizeInv, [Next]_vars PROVE SizeInv'
<1>1. CASE Chunk
  BY <1>1 DEF Chunk, MaxChunk, SizeInv, Places
<1>2. CASE EndOfChunk
  BY <1>2 DEF EndOfChunk, SizeInv, Places
<1>3. CASE LastRun
  <2>. DEFINE n == in_len - lit
  <2>1. n \in Nat /\ pc = "chunk" /\ 16 * written <= 17 * lit
    BY <1>3 DEF LastRun, SizeInv
  <2>2. LastBytes(n) \in Nat /\ 16 * LastBytes(n) <= 17 * n + 16
    <3>1. LiteralBytes(n) \in Nat /\ 16 * LiteralBytes(n) <= 17 * n + 16
      BY <2>1, LiteralBound
    <3>2. LastBytes(n) = n + 1 \/ LastBytes(n) = LiteralBytes(n)
      BY DEF LastBytes
    <3>. HIDE DEF n
    <3>. QED
      BY <2>1, <3>1, <3>2
  <2>3. written' = written + LastBytes(n) + 3
    BY <1>3 DEF LastRun, EndCode
  <2>4. pc' = "done" /\ UNCHANGED <<in_len, base, ll, ip, lit>>
    BY <1>3 DEF LastRun
  <2>. HIDE DEF n
  <2>5. in_len = lit + n /\ in_len \in Nat /\ lit \in Nat /\ written \in Nat
    BY DEF SizeInv, n
  <2>6. written' \in Nat /\ 16 * written' <= 17 * in_len + 64
    BY <2>1, <2>2, <2>3, <2>5
  <2>. QED
    BY <2>4, <2>6 DEF SizeInv, Places
<1>4. ASSUME NEW gap \in Gaps, NEW m_off \in Offsets, NEW m_len \in Lengths,
             Match(gap, m_off, m_len)
      PROVE  SizeInv'
  <2>. DEFINE n == ip + gap - lit
  <2>1. /\ pc = "search" /\ gap \in Nat /\ m_len \in Nat /\ m_len >= 4
        /\ m_off \in Nat /\ m_off >= 1
    BY <1>4, Lzo1xAssumption DEF Match
  <2>2. /\ n \in Nat /\ ip + gap + m_len = lit + n + m_len /\ lit \in Nat
        /\ written \in Nat /\ 16 * written <= 17 * lit
    BY <2>1 DEF SizeInv
  <2>3. LiteralBytes(n) \in Nat /\ 16 * LiteralBytes(n) <= 17 * n + 16
    BY <2>2, LiteralBound
  <2>4. /\ Len(MatchCode(m_off, m_len)) \in Nat
        /\ 16 * Len(MatchCode(m_off, m_len)) <= 17 * m_len - 16
    BY <2>1, MatchBound
  <2>5. written' = written + LiteralBytes(n) + Len(MatchCode(m_off, m_len))
    BY <1>4 DEF Match
  <2>. HIDE DEF n
  <2>6. written' \in Nat /\ 16 * written' <= 17 * (lit + n + m_len)
    BY <2>1, <2>2, <2>3, <2>4, <2>5, SizeOfToken
  <2>7. /\ UNCHANGED <<pc, in_len, base, ll>>
        /\ ip' = ip + gap + m_len /\ lit' = ip + gap + m_len
        /\ ip + gap + m_len <= base + ll - 9
    BY <1>4 DEF Match
  <2>8. /\ lit' \in Nat /\ lit' = lit + n + m_len /\ ip' = lit'
        /\ lit' <= base + ll - 9 /\ pc' = "search"
    BY <2>1, <2>2, <2>7
  <2>9. base + ll <= in_len /\ base \in 0..in_len /\ in_len \in Nat /\ ll \in Nat
    BY <2>1 DEF SizeInv
  <2>10. lit' \in 0..in_len /\ lit' <= base + ll
    BY <2>8, <2>9
  <2>. QED
    BY <2>6, <2>7, <2>8, <2>9, <2>10 DEF SizeInv, Places
<1>5. ASSUME NEW loss, NEW short, Deliver(loss, short) PROVE SizeInv'
  BY <1>5, SizeStays DEF Deliver, Decompresses, Places
<1>6. CASE First
  <2>1. pc \notin {"chunk", "search"}
    BY <1>6 DEF First
  <2>2. CASE Stop("LZO_E_INPUT_OVERRUN")
    BY <2>1, <2>2, SizeStays DEF Stop, Decompresses, Places
  <2>3. CASE CopyLiterals(out[1] - 17, 1, "match")
            \/ CopyLiterals(out[1] - 17, 1, "afterRun")
    BY <2>1, <2>3, LiteralsDecompress, SizeStays DEF Places
  <2>4. CASE pc' = "run" /\ UNCHANGED compressVars
    BY <2>1, <2>4, SizeStays DEF Decompresses, Places
  <2>. QED
    BY <1>6, <2>2, <2>3, <2>4 DEF First
<1>7. CASE Run
  <2>1. pc \notin {"chunk", "search"}
    BY <1>7 DEF Run
  <2>2. CASE Stop("LZO_E_INPUT_OVERRUN")
    BY <2>1, <2>2, SizeStays DEF Stop, Decompresses, Places
  <2>3. ASSUME NEW n, NEW used, CopyLiterals(n, used, "afterRun") PROVE SizeInv'
    BY <2>1, <2>3, LiteralsDecompress, SizeStays DEF Places
  <2>4. CASE pc' = "match" /\ UNCHANGED compressVars
    BY <2>1, <2>4, SizeStays DEF Decompresses, Places
  <2>. QED
    BY <1>7, <2>2, <2>3, <2>4 DEF Run
<1>8. CASE ReadMatch
  BY <1>8, MatchesDecompress, SizeStays
<1>9. CASE MatchNext
  BY <1>9, LiteralsDecompress, SizeStays DEF MatchNext, Places
<1>10. CASE UNCHANGED vars
  BY <1>10 DEF vars, compressVars, SizeInv
<1>. QED
  BY <1>1, <1>2, <1>3, <1>4, <1>5, <1>6, <1>7, <1>8, <1>9, <1>10 DEF Next

\* The stream is never longer than the formula of LZO.FAQ (WorstCase), for every
\* size of the input and every choice of matches.
THEOREM StreamIsBounded == Spec => []WorstCase
<1>1. SizeInv => WorstCase
  BY DEF SizeInv, WorstCase
<1>. QED
  BY <1>1, SizeAtStart, SizeKept, PTL DEF Spec

-----------------------------------------------------------------------------
\* Reading back

\* The code c stands in the stream from cell i on.
Stands(c, i) ==
    /\ i >= 1 /\ i + Len(c) - 1 <= Len(out)
    /\ \A k \in 1..Len(c) : out[i + k - 1] = c[k]

LEMMA StandsSplit ==
    ASSUME NEW c \in Seq(Int), NEW d \in Seq(Int), NEW i \in Nat, Stands(c \o d, i)
    PROVE  Stands(c, i) /\ (d # <<>> => Stands(d, i + Len(c)))
<1>1. Len(c) \in Nat /\ Len(d) \in Nat /\ Len(c \o d) = Len(c) + Len(d)
  OBVIOUS
<1>2. \A k \in 1..Len(c) : (c \o d)[k] = c[k] /\ k \in 1..Len(c \o d)
  BY <1>1
<1>3. \A k \in 1..Len(d) : /\ (c \o d)[Len(c) + k] = d[k]
                           /\ Len(c) + k \in 1..Len(c \o d)
  BY <1>1
<1>4. \A k \in 1..Len(c) : out[i + k - 1] = c[k]
  BY <1>2 DEF Stands
<1>5. ASSUME NEW k \in 1..Len(d) PROVE out[i + Len(c) + k - 1] = d[k]
  <2>1. out[i + (Len(c) + k) - 1] = (c \o d)[Len(c) + k]
    BY <1>3 DEF Stands
  <2>2. i + (Len(c) + k) - 1 = i + Len(c) + k - 1
    BY <1>1
  <2>. QED
    BY <1>3, <2>1, <2>2
<1>. QED
  BY <1>1, <1>4, <1>5 DEF Stands

LEMMA ZerosAreCounted ==
    ASSUME NEW i \in Nat, NEW z \in Nat, Len(out) \in Nat, i + z <= Len(out),
           out[i + z] # 0, \A k \in 0..(z - 1) : out[i + k] = 0
    PROVE  ZerosAt(i) = z
<1>. DEFINE Good(n) == out[i + n] # 0 /\ \A k \in 0..(n - 1) : out[i + k] = 0
<1>1. z \in 0..(Len(out) - i) /\ Good(z)
  OBVIOUS
<1>2. ASSUME NEW n \in 0..(Len(out) - i), Good(n) PROVE n = z
  <2>1. ~(z < n)
    BY <1>2
  <2>2. ~(n < z)
    BY <1>2
  <2>. QED
    BY <2>1, <2>2
<1>3. ZerosAt(i) = CHOOSE n \in 0..(Len(out) - i) : Good(n)
  BY DEF ZerosAt
<1>. HIDE DEF Good
<1>. QED
  BY <1>1, <1>2, <1>3

LEMMA LongIsReadBack ==
    ASSUME NEW n \in Nat, n >= 1, NEW i \in Nat, Len(out) \in Nat, Stands(Long(n), i)
    PROVE  LongAt(i) = n /\ ZerosAt(i) + 1 = Len(Long(n)) /\ ZerosAt(i) \in Nat
<1>. DEFINE z == (n - 1) \div 255
            b == ((n - 1) % 255) + 1
<1>1. z \in Nat /\ b \in 1..255 /\ 255 * z + b = n
  OBVIOUS
<1>2. Long(n) = Zeros(z) \o <<b>>
  BY DEF Long
<1>. HIDE DEF z, b
<1>3. Zeros(z) \in Seq(Int) /\ Len(Zeros(z)) = z /\ \A k \in 1..z : Zeros(z)[k] = 0
  BY <1>1 DEF Zeros
<1>4. <<b>> \in Seq(Int) /\ <<b>> # <<>> /\ Len(<<b>>) = 1 /\ <<b>>[1] = b
  BY <1>1
<1>5. Stands(Zeros(z), i) /\ Stands(<<b>>, i + z)
  BY <1>2, <1>3, <1>4, StandsSplit
<1>6. out[i + z] = b /\ i + z <= Len(out)
  <2>1. out[(i + z) + 1 - 1] = b /\ (i + z) + 1 - 1 <= Len(out)
    BY <1>1, <1>4, <1>5 DEF Stands
  <2>2. (i + z) + 1 - 1 = i + z
    BY <1>1
  <2>. QED
    BY <2>1, <2>2
<1>7. ASSUME NEW k \in 0..(z - 1) PROVE out[i + k] = 0
  <2>1. k + 1 \in 1..z /\ i + (k + 1) - 1 = i + k
    BY <1>1
  <2>2. out[i + (k + 1) - 1] = Zeros(z)[k + 1]
    BY <1>3, <1>5, <2>1 DEF Stands
  <2>. QED
    BY <1>3, <2>1, <2>2
<1>8. ZerosAt(i) = z
  <2>1. out[i + z] # 0 /\ z \in Nat /\ i + z <= Len(out)
    BY <1>1, <1>6
  <2>. QED
    BY <1>7, <2>1, ZerosAreCounted
<1>9. Len(Long(n)) = z + 1
  BY <1>2, <1>3, <1>4, Joined
<1>. QED
  BY <1>1, <1>6, <1>8, <1>9 DEF LongAt

LEMMA LengthIsSequence ==
    ASSUME NEW marker \in Nat, NEW max \in Nat, NEW m \in Nat
    PROVE  LengthCode(marker, max, m) \in Seq(Int)
<1>1. CASE m <= max
  BY <1>1 DEF LengthCode
<1>2. CASE m > max
  <2>1. Long(m - max) \in Seq(Int)
    BY <1>2, LongLength
  <2>. QED
    BY <1>2, <2>1, Prefixed DEF LengthCode
<1>. QED
  BY <1>1, <1>2

\* The parts of an instruction that hold the length of a match: mask is the
\* largest value of its low bits, max the largest length they can hold.
Form(marker, mask, max) ==
    \/ marker = 32 /\ mask = 31 /\ max = 33
    \/ marker \in {16, 24} /\ mask = 7 /\ max = 9

LEMMA FormBits ==
    ASSUME NEW marker \in Nat, NEW mask \in Nat, NEW max \in Nat, Form(marker, mask, max),
           NEW n \in Nat, n <= mask
    PROVE  max = mask + 2 /\ (marker + n) % (mask + 1) = n
<1>1. CASE marker = 32 /\ mask = 31 /\ max = 33
  <2>1. n <= 31
    BY <1>1
  <2>2. (32 + n) % 32 = n
    BY <2>1
  <2>. QED
    BY <1>1, <2>2
<1>2. CASE marker \in {16, 24} /\ mask = 7 /\ max = 9
  <2>1. n <= 7
    BY <1>2
  <2>2. (16 + n) % 8 = n /\ (24 + n) % 8 = n
    BY <2>1
  <2>. QED
    BY <1>2, <2>2
<1>. QED
  BY <1>1, <1>2 DEF Form

LEMMA LengthIsReadBack ==
    ASSUME NEW marker \in Nat, NEW mask \in Nat, NEW max \in Nat, Form(marker, mask, max),
           NEW m \in Nat, m >= 3, NEW i \in Nat, at = i, Len(out) \in Nat,
           Stands(LengthCode(marker, max, m), i)
    PROVE  /\ LengthAt(mask).len = m
           /\ LengthAt(mask).bytes = Len(LengthCode(marker, max, m))
           /\ out[i] \in Nat /\ out[i] >= marker /\ out[i] <= marker + mask
<1>0. max = mask + 2 /\ marker % (mask + 1) = 0
  <2>1. 0 \in Nat /\ 0 <= mask /\ marker + 0 = marker
    OBVIOUS
  <2>. QED
    BY <2>1, FormBits
<1>1. CASE m <= max
  <2>1. LengthCode(marker, max, m) = <<marker + (m - 2)>>
    BY <1>1 DEF LengthCode
  <2>. DEFINE n == m - 2
  <2>2. n \in Nat /\ n >= 1 /\ n <= mask /\ m = n + 2
    BY <1>0, <1>1
  <2>3. out[i + 1 - 1] = marker + n /\ i + 1 - 1 = i
    BY <2>1 DEF Stands
  <2>. HIDE DEF n
  <2>4. out[at] = marker + n
    BY <2>3
  <2>5. out[at] % (mask + 1) = n
    BY <2>2, <2>4, FormBits
  <2>6. LengthAt(mask) = [len |-> n + 2, bytes |-> 1]
    BY <2>2, <2>5 DEF LengthAt
  <2>7. Len(LengthCode(marker, max, m)) = 1
    BY <2>1
  <2>. QED
    BY <2>2, <2>4, <2>6, <2>7
<1>2. CASE m > max
  <2>. DEFINE n == m - max
  <2>1. n \in Nat /\ n >= 1 /\ m = n + mask + 2
    BY <1>0, <1>2
  <2>2. LengthCode(marker, max, m) = <<marker>> \o Long(n)
    BY <1>2 DEF LengthCode
  <2>. HIDE DEF n
  <2>3. Long(n) \in Seq(Int) /\ Long(n) # <<>> /\ Len(Long(n)) \in Nat
    <3>1. Long(n) \in Seq(Int) /\ Len(Long(n)) = (n - 1) \div 255 + 1
      BY <2>1, LongLength
    <3>2. (n - 1) \div 255 + 1 \in Nat /\ (n - 1) \div 255 + 1 # 0
      BY <2>1
    <3>. QED
      BY <3>1, <3>2
  <2>4. <<marker>> \in Seq(Int) /\ Len(<<marker>>) = 1 /\ <<marker>>[1] = marker
    OBVIOUS
  <2>5. Stands(<<marker>>, i) /\ Stands(Long(n), i + 1)
    BY <2>2, <2>3, <2>4, StandsSplit
  <2>6. out[i] = marker
    BY <2>4, <2>5 DEF Stands
  <2>7. LongAt(i + 1) = n /\ ZerosAt(i + 1) + 1 = Len(Long(n)) /\ ZerosAt(i + 1) \in Nat
    BY <2>1, <2>5, LongIsReadBack
  <2>8. Len(LengthCode(marker, max, m)) = Len(Long(n)) + 1
    BY <2>2, <2>3, Prefixed
  <2>9. LengthAt(mask) = [len |-> LongAt(at + 1) + mask + 2,
                          bytes |-> 2 + ZerosAt(at + 1)]
    BY <1>0, <2>6 DEF LengthAt
  <2>. QED
    BY <2>1, <2>3, <2>6, <2>7, <2>8, <2>9
<1>. QED
  BY <1>1, <1>2

\* The codes of a match whose low bits announce the literals after it
OffsetLow(o, low) == <<((o * 4) % 256) + low, (o \div 64) % 256>>

MatchLow(m_off, m_len, low) ==
    IF m_len <= M2_MAX_LEN /\ m_off <= M2_MAX_OFFSET
    THEN <<(m_len - 1) * 32 + ((m_off - 1) % 8) * 4 + low, ((m_off - 1) \div 8) % 256>>
    ELSE IF m_off <= M3_MAX_OFFSET
    THEN LengthCode(M3_MARKER, M3_MAX_LEN, m_len) \o OffsetLow(m_off - 1, low)
    ELSE LengthCode(M4_MARKER + 8 * (((m_off - 16384) \div 16384) % 2),
                    M4_MAX_LEN, m_len) \o OffsetLow(m_off - 16384, low)

LEMMA OffsetIsReadBack ==
    ASSUME NEW o \in Nat, o <= 32767, NEW low \in Nat, low <= 3, NEW i \in Nat, Len(out) \in Nat,
           Stands(OffsetLow(o, low), i)
    PROVE  OffsetAt(i) = o % 16384 /\ out[i] % 4 = low
<1>1. out[i + 1 - 1] = ((o * 4) % 256) + low /\ out[i + 2 - 1] = (o \div 64) % 256
  BY DEF Stands, OffsetLow
<1>2. out[i] = ((o * 4) % 256) + low /\ out[i + 1] = (o \div 64) % 256
  BY <1>1
<1>3. (((o * 4) % 256) + low) \div 4 = o % 64 /\ (((o * 4) % 256) + low) % 4 = low
  OBVIOUS
<1>4. (o % 64) + ((o \div 64) % 256) * 64 = o % 16384
  OBVIOUS
<1>. QED
  BY <1>2, <1>3, <1>4 DEF OffsetAt

\* An instruction with a length and an offset of their own
FarLow(marker, max, o, m, low) == LengthCode(marker, max, m) \o OffsetLow(o, low)

LEMMA FarLength ==
    ASSUME NEW marker \in Nat, NEW max \in Nat, NEW o \in Nat, NEW m \in Nat,
           NEW low \in Nat, low <= 3
    PROVE  Len(FarLow(marker, max, o, m, low)) = Len(LengthCode(marker, max, m)) + 2
<1>. DEFINE l == LengthCode(marker, max, m)
            d == OffsetLow(o, low)
<1>1. l \in Seq(Int)
  BY LengthIsSequence
<1>2. d \in Seq(Int) /\ Len(d) = 2
  BY DEF OffsetLow
<1>. HIDE DEF l, d
<1>3. Len(l \o d) = Len(l) + 2
  BY <1>1, <1>2, Joined
<1>. QED
  BY <1>3 DEF FarLow, l, d

LEMMA FarIsSplit ==
    ASSUME NEW max \in Nat, NEW marker \in Nat, NEW o \in Nat, NEW m \in Nat,
           NEW low \in Nat, low <= 3, NEW i \in Nat, Stands(FarLow(marker, max, o, m, low), i)
    PROVE  /\ Stands(LengthCode(marker, max, m), i)
           /\ Len(LengthCode(marker, max, m)) \in Nat
           /\ Stands(OffsetLow(o, low), i + Len(LengthCode(marker, max, m)))
<1>. DEFINE l == LengthCode(marker, max, m)
            d == OffsetLow(o, low)
<1>1. l \in Seq(Int)
  BY LengthIsSequence
<1>2. d \in Seq(Int) /\ d # <<>> /\ Len(d) = 2
  BY DEF OffsetLow
<1>3. FarLow(marker, max, o, m, low) = l \o d
  BY DEF FarLow
<1>. HIDE DEF l, d
<1>4. Stands(l \o d, i)
  BY <1>3
<1>5. Stands(l, i) /\ Stands(d, i + Len(l))
  BY <1>1, <1>2, <1>4, StandsSplit
<1>. QED
  BY <1>1, <1>5 DEF l, d

\* Offsets that an instruction of the far kind can hold
InFifteenBits(o) == o <= 32767

LEMMA FarIsReadBack ==
    ASSUME NEW marker \in Nat, NEW mask \in Nat, NEW max \in Nat, Form(marker, mask, max),
           NEW o \in Nat, InFifteenBits(o), NEW low \in Nat, low <= 3, NEW m \in Nat, m >= 3,
           NEW i \in Nat, at = i, Len(out) \in Nat, Stands(FarLow(marker, max, o, m, low), i)
    PROVE  /\ LengthAt(mask).len = m
           /\ out[i] \in Nat /\ out[i] >= marker /\ out[i] <= marker + mask
           /\ LengthAt(mask).bytes \in Nat
           /\ LengthAt(mask).bytes + 2 = Len(FarLow(marker, max, o, m, low))
           /\ OffsetAt(i + LengthAt(mask).bytes) = o % 16384
           /\ out[i + LengthAt(mask).bytes] % 4 = low
<1>. DEFINE l == LengthCode(marker, max, m)
            b == LengthAt(mask).bytes
<1>1. /\ Stands(l, i) /\ Len(l) \in Nat /\ Stands(OffsetLow(o, low), i + Len(l))
      /\ Len(FarLow(marker, max, o, m, low)) = Len(l) + 2
  <2>1. /\ Stands(LengthCode(marker, max, m), i)
        /\ Len(LengthCode(marker, max, m)) \in Nat
    BY FarIsSplit
  <2>2. Stands(OffsetLow(o, low), i + Len(LengthCode(marker, max, m)))
    BY FarIsSplit
  <2>3. Len(FarLow(marker, max, o, m, low)) = Len(LengthCode(marker, max, m)) + 2
    BY FarLength
  <2>. QED
    BY <2>1, <2>2, <2>3
<1>2. /\ LengthAt(mask).len = m /\ b = Len(l)
      /\ out[i] \in Nat /\ out[i] >= marker /\ out[i] <= marker + mask
  BY <1>1, LengthIsReadBack
<1>. HIDE DEF l, b
<1>3. i + Len(l) \in Nat
  BY <1>1
<1>4. OffsetAt(i + Len(l)) = o % 16384 /\ out[i + Len(l)] % 4 = low
  BY <1>1, <1>3, OffsetIsReadBack DEF InFifteenBits
<1>. QED
  BY <1>1, <1>2, <1>4 DEF b

LEMMA HighBit ==
    ASSUME NEW o \in Nat PROVE (o \div 16384) * 16384 + (o % 16384) = o
  OBVIOUS

\* The decompressor reads back every match the compressor may write: the length,
\* the offset, the number of bytes and the literals announced after it, whatever
\* their form and without taking it for the end marker.
THEOREM MatchIsReadBack ==
    ASSUME NEW m_off \in Nat, m_off >= 1, m_off <= 49151,
           NEW m_len \in Nat, m_len >= 3, NEW low \in Nat, low <= 3,
           at \in Nat, Len(out) \in Nat, Stands(MatchLow(m_off, m_len, low), at)
    PROVE  /\ Distance = m_off /\ Instruction.len = m_len
           /\ Instruction.bytes = Len(MatchLow(m_off, m_len, low))
           /\ ~IsEnd
           /\ out[at + Instruction.bytes - 2] % 4 = low
<1>1. CASE m_len <= M2_MAX_LEN /\ m_off <= M2_MAX_OFFSET
  <2>1. MatchLow(m_off, m_len, low)
          = <<(m_len - 1) * 32 + ((m_off - 1) % 8) * 4 + low, ((m_off - 1) \div 8) % 256>>
    BY <1>1 DEF MatchLow
  <2>2. /\ out[at + 1 - 1] = (m_len - 1) * 32 + ((m_off - 1) % 8) * 4 + low
        /\ out[at + 2 - 1] = ((m_off - 1) \div 8) % 256
    BY <2>1 DEF Stands
  <2>3. /\ out[at] = (m_len - 1) * 32 + ((m_off - 1) % 8) * 4 + low
        /\ out[at + 1] = ((m_off - 1) \div 8) % 256
    BY <2>2
  <2>4. m_len \in 3..8 /\ m_off >= 1 /\ m_off <= 2048
    BY <1>1 DEF M2_MAX_LEN, M2_MAX_OFFSET
  <2>5. /\ out[at] \in Nat /\ out[at] >= 64 /\ out[at] \div 32 = m_len - 1
        /\ (out[at] \div 4) % 8 = (m_off - 1) % 8 /\ out[at] % 4 = low
    BY <2>3, <2>4
  <2>6. 1 + ((m_off - 1) % 8) + out[at + 1] * 8 = m_off
    BY <2>3, <2>4
  <2>7. Instruction = [len |-> m_len, off |-> m_off, bytes |-> 2]
    BY <2>4, <2>5, <2>6 DEF Instruction, M2
  <2>8. ~IsM4
    BY <2>5 DEF IsM4
  <2>9. at + 2 - 2 = at
    OBVIOUS
  <2>. QED
    BY <2>1, <2>5, <2>7, <2>8, <2>9 DEF Distance, IsEnd
<1>2. CASE ~(m_len <= M2_MAX_LEN /\ m_off <= M2_MAX_OFFSET) /\ m_off <= M3_MAX_OFFSET
  <2>. DEFINE c == MatchLow(m_off, m_len, low)
              o == m_off - 1
              b == LengthAt(31).bytes
  <2>1. c = LengthCode(32, 33, m_len) \o OffsetLow(o, low)
    BY <1>2 DEF MatchLow, M3_MARKER, M3_MAX_LEN
  <2>2. o \in Nat /\ o < 16384 /\ o + 1 = m_off
    BY <1>2 DEF M3_MAX_OFFSET
  <2>. HIDE DEF c, o
  <2>3. o % 16384 = o
    BY <2>2
  <2>4. c = FarLow(32, 33, o, m_len, low) /\ o <= 32767
    BY <2>1, <2>2 DEF FarLow
  <2>5. Stands(c, at)
    BY DEF c
  <2>6. /\ LengthAt(31).len = m_len
        /\ out[at] \in Nat /\ out[at] >= 32 /\ out[at] <= 32 + 31
        /\ b \in Nat /\ b + 2 = Len(c)
        /\ OffsetAt(at + b) = o % 16384 /\ out[at + b] % 4 = low
    <3>1. PICK i \in Nat, p \in Nat, n \in Nat : i = at /\ p = o /\ n = m_len
      BY <2>2
    <3>2. InFifteenBits(p) /\ n >= 3 /\ Stands(FarLow(32, 33, p, n, low), i) /\ Form(32, 31, 33)
      BY <2>4, <2>5, <3>1 DEF Form, InFifteenBits
    <3>3. /\ LengthAt(31).len = n
          /\ out[i] \in Nat /\ out[i] >= 32 /\ out[i] <= 32 + 31
          /\ b \in Nat /\ b + 2 = Len(FarLow(32, 33, p, n, low))
          /\ OffsetAt(i + b) = p % 16384 /\ out[i + b] % 4 = low
      BY <3>1, <3>2, FarIsReadBack
    <3>. QED
      BY <2>4, <3>1, <3>3
  <2>. HIDE DEF b
  <2>7. ~IsM4 /\ ~(out[at] >= 64) /\ out[at] >= 32
    BY <2>6 DEF IsM4
  <2>8. M3 = [len |-> m_len, off |-> 1 + o, bytes |-> b + 2]
    BY <2>3, <2>6 DEF M3, b
  <2>9. Instruction = [len |-> m_len, off |-> m_off, bytes |-> b + 2]
    BY <2>2, <2>7, <2>8 DEF Instruction
  <2>10. at + (b + 2) - 2 = at + b
    BY <2>6
  <2>. QED
    BY <2>6, <2>7, <2>9, <2>10 DEF Distance, IsEnd, c
<1>3. CASE ~(m_len <= M2_MAX_LEN /\ m_off <= M2_MAX_OFFSET) /\ ~(m_off <= M3_MAX_OFFSET)
  <2>. DEFINE c == MatchLow(m_off, m_len, low)
              o == m_off - 16384
              marker == M4_MARKER + 8 * ((o \div 16384) % 2)
              b == LengthAt(7).bytes
  <2>1. o \in Nat /\ o >= 1 /\ o <= 32767 /\ o + 16384 = m_off
    BY <1>3 DEF M3_MAX_OFFSET
  <2>2. c = LengthCode(marker, 9, m_len) \o OffsetLow(o, low)
    BY <1>3 DEF MatchLow, M4_MAX_LEN
  <2>. HIDE DEF c, o
  <2>3. \/ marker = 16 /\ o \div 16384 = 0
        \/ marker = 24 /\ o \div 16384 = 1
    BY <2>1 DEF M4_MARKER
  <2>. HIDE DEF marker
  <2>5. c = FarLow(marker, 9, o, m_len, low) /\ Stands(c, at)
    BY <2>2 DEF c, FarLow
  <2>6. /\ LengthAt(7).len = m_len
        /\ out[at] \in Nat /\ out[at] >= marker /\ out[at] <= marker + 7
        /\ b \in Nat /\ b + 2 = Len(c)
        /\ OffsetAt(at + b) = o % 16384 /\ out[at + b] % 4 = low
    <3>1. PICK i \in Nat, p \in Nat, n \in Nat, mark \in Nat :
            i = at /\ p = o /\ n = m_len /\ mark = marker
      <4>1. at \in Nat /\ o \in Nat /\ m_len \in Nat
        BY <2>1
      <4>2. marker \in Nat
        BY <2>3
      <4>. QED
        BY <4>1, <4>2
    <3>2. InFifteenBits(p) /\ n >= 3 /\ Stands(FarLow(mark, 9, p, n, low), i) /\ Form(mark, 7, 9)
      BY <2>1, <2>3, <2>5, <3>1 DEF Form, InFifteenBits
    <3>3. /\ LengthAt(7).len = n
          /\ out[i] \in Nat /\ out[i] >= mark /\ out[i] <= mark + 7
          /\ b \in Nat /\ b + 2 = Len(FarLow(mark, 9, p, n, low))
          /\ OffsetAt(i + b) = p % 16384 /\ out[i + b] % 4 = low
      BY <3>1, <3>2, FarIsReadBack
    <3>. QED
      BY <2>5, <3>1, <3>3
  <2>. HIDE DEF b
  <2>7. IsM4 /\ ~(out[at] >= 32) /\ out[at] >= 16
    BY <2>3, <2>6 DEF IsM4
  <2>8. (out[at] \div 8) % 2 = o \div 16384
    <3>1. out[at] \in Nat /\ out[at] >= marker /\ out[at] <= marker + 7
      BY <2>6
    <3>2. CASE marker = 16 /\ o \div 16384 = 0
      <4>1. out[at] \in 16..23
        BY <3>1, <3>2
      <4>. QED
        BY <3>2, <4>1
    <3>3. CASE marker = 24 /\ o \div 16384 = 1
      <4>1. out[at] \in 24..31
        BY <3>1, <3>3
      <4>. QED
        BY <3>3, <4>1
    <3>. QED
      BY <2>3, <3>2, <3>3
  <2>9. (o \div 16384) * 16384 + (o % 16384) = o
    BY <2>1, HighBit
  <2>10. M4 = [len |-> m_len, off |-> o, bytes |-> b + 2]
    BY <2>6, <2>8, <2>9 DEF M4, b
  <2>11. Instruction = M4
    <3>1. ~(out[at] >= 64) /\ ~(out[at] >= 32) /\ out[at] >= 16
      BY <2>6, <2>7
    <3>. QED
      BY <3>1 DEF Instruction
  <2>12. at + (b + 2) - 2 = at + b
    BY <2>6
  <2>. QED
    BY <2>1, <2>6, <2>7, <2>10, <2>11, <2>12 DEF Distance, IsEnd, c
<1>. QED
  BY <1>1, <1>2, <1>3
=============================================================================
