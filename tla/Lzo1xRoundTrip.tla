---------------------------- MODULE Lzo1xRoundTrip ----------------------------
(***************************************************************************)
(* The decompressor carries out the tokens of the compressor and nothing    *)
(* else, for every input, whatever the search finds, and whatever the       *)
(* stream loses at its end.  The argument needs the layout of the stream:   *)
(* for each token the cell at which its code begins, the bytes before it    *)
(* and the output before it.                                                *)
(***************************************************************************)
EXTENDS Lzo1xProofs

-----------------------------------------------------------------------------
\* The code of one token

Tokens == [lits : Nat, off : Nat, len : Nat]

\* What do_compress makes a match of; a token of no length is the end marker.
Sound(tok) ==
    /\ tok \in Tokens
    /\ \/ tok.len = 0 /\ tok.off = 0
       \/ tok.len >= 4 /\ tok.off >= 1 /\ tok.off <= 49151

Announced(n) == IF n <= 3 THEN n ELSE 0

\* What stands before the literals of the token, the first of the stream or not
Lead(first, tok) ==
    IF tok.lits = 0 THEN <<>>
    ELSE IF first /\ tok.len = 0 /\ tok.lits <= 238 THEN <<17 + tok.lits>>
    ELSE IF tok.lits <= 3 THEN <<>> ELSE LiteralCode(tok.lits)

\* What stands after them
Code(tok, low) == IF tok.len = 0 THEN EndCode ELSE MatchLow(tok.off, tok.len, low)

Cells(n) == IF n = 0 THEN 0 ELSE 1

LEMMA LiteralIsSequence ==
    ASSUME NEW n \in Nat, n >= 1
    PROVE  LiteralCode(n) \in Seq(Int) /\ Len(LiteralCode(n)) \in Nat
<1>1. CASE n <= 18
  BY <1>1 DEF LiteralCode
<1>2. CASE n > 18
  <2>1. Long(n - 18) \in Seq(Int)
    BY <1>2, LongLength
  <2>. QED
    BY <1>2, <2>1, Prefixed DEF LiteralCode
<1>. QED
  BY <1>1, <1>2

LEMMA LeadIsSequence ==
    ASSUME NEW first \in BOOLEAN, NEW tok \in Tokens
    PROVE  Lead(first, tok) \in Seq(Int) /\ Len(Lead(first, tok)) \in Nat
<1>1. tok.lits \in Nat /\ (tok.lits > 3 => LiteralCode(tok.lits) \in Seq(Int))
  BY LiteralIsSequence DEF Tokens
<1>. QED
  BY <1>1 DEF Lead

LEMMA Joins ==
    ASSUME NEW c \in Seq(Int), NEW d \in Seq(Int)
    PROVE  /\ c \o d \in Seq(Int) /\ Len(c) \in Nat /\ Len(d) \in Nat
           /\ Len(c \o d) = Len(c) + Len(d)
           /\ \A k \in 1..Len(c) : (c \o d)[k] = c[k]
           /\ \A k \in 1..Len(d) : (c \o d)[Len(c) + k] = d[k]
<1>1. /\ c \o d \in Seq(Int) /\ Len(c) \in Nat /\ Len(d) \in Nat
      /\ Len(c \o d) = Len(c) + Len(d)
  OBVIOUS
<1>2. \A k \in 1..Len(c) : (c \o d)[k] = c[k]
  OBVIOUS
<1>3. ASSUME NEW k \in 1..Len(d) PROVE (c \o d)[Len(c) + k] = d[k]
  <2>1. Len(c) + k \in 1..(Len(c) + Len(d)) /\ ~(Len(c) + k <= Len(c))
        /\ Len(c) + k - Len(c) = k
    BY <1>1
  <2>. QED
    BY <1>1, <2>1
<1>. QED
  BY <1>1, <1>2, <1>3

\* A code of two bytes or more; the announced literals are in the two low bits
\* of the last but one.
LowOnly(plain, code, low) ==
    /\ plain \in Seq(Int) /\ code \in Seq(Int)
    /\ Len(plain) \in Nat /\ Len(plain) >= 2 /\ Len(code) = Len(plain)
    /\ plain[Len(plain) - 1] \in Nat /\ plain[Len(plain) - 1] % 4 = 0
    /\ \A k \in 1..Len(plain) :
         code[k] = IF k = Len(plain) - 1 THEN plain[k] + low ELSE plain[k]

LEMMA FarIsLow ==
    ASSUME NEW marker \in Nat, NEW max \in Nat, NEW m \in Nat, NEW o \in Nat,
           NEW low \in Nat, low <= 3
    PROVE  LowOnly(LengthCode(marker, max, m) \o OffsetLow(o, 0),
                   LengthCode(marker, max, m) \o OffsetLow(o, low), low)
<1>. DEFINE c == LengthCode(marker, max, m)
            d == OffsetLow(o, 0)
            e == OffsetLow(o, low)
<1>1. /\ d \in Seq(Int) /\ e \in Seq(Int) /\ Len(d) = 2 /\ Len(e) = 2
      /\ d[1] \in Nat /\ d[1] % 4 = 0 /\ e[1] = d[1] + low /\ e[2] = d[2]
  BY DEF OffsetLow
<1>. HIDE DEF d, e
<1>0. c \in Seq(Int)
  BY LengthIsSequence
<1>. HIDE DEF c
<1>2. /\ c \o d \in Seq(Int) /\ Len(c \o d) = Len(c) + 2
      /\ Len(c) \in Nat /\ \A k \in 1..Len(c) : (c \o d)[k] = c[k]
      /\ (c \o d)[Len(c) + 1] = d[1] /\ (c \o d)[Len(c) + 2] = d[2]
  <2>1. /\ c \o d \in Seq(Int) /\ Len(c \o d) = Len(c) + Len(d) /\ Len(c) \in Nat
        /\ \A k \in 1..Len(c) : (c \o d)[k] = c[k]
    BY <1>0, <1>1, Joins
  <2>2. \A k \in 1..Len(d) : (c \o d)[Len(c) + k] = d[k]
    BY <1>0, <1>1, Joins
  <2>3. 1 \in 1..Len(d) /\ 2 \in 1..Len(d)
    BY <1>1
  <2>. QED
    BY <1>1, <2>1, <2>2, <2>3
<1>3. /\ c \o e \in Seq(Int) /\ Len(c \o e) = Len(c) + 2
      /\ \A k \in 1..Len(c) : (c \o e)[k] = c[k]
      /\ (c \o e)[Len(c) + 1] = e[1] /\ (c \o e)[Len(c) + 2] = e[2]
  <2>1. /\ c \o e \in Seq(Int) /\ Len(c \o e) = Len(c) + Len(e) /\ Len(c) \in Nat
        /\ \A k \in 1..Len(c) : (c \o e)[k] = c[k]
    BY <1>0, <1>1, Joins
  <2>2. \A k \in 1..Len(e) : (c \o e)[Len(c) + k] = e[k]
    BY <1>0, <1>1, Joins
  <2>3. 1 \in 1..Len(e) /\ 2 \in 1..Len(e)
    BY <1>1
  <2>. QED
    BY <1>1, <2>1, <2>2, <2>3
<1>4. LowOnly(c \o d, c \o e, low)
  <2>1. ASSUME NEW k \in 1..(Len(c) + 2)
        PROVE  (c \o e)[k] = IF k = Len(c) + 1 THEN (c \o d)[k] + low ELSE (c \o d)[k]
    <3>1. k \in 1..Len(c) \/ k = Len(c) + 1 \/ k = Len(c) + 2
      BY <1>2
    <3>. QED
      BY <1>1, <1>2, <1>3, <3>1
  <2>. QED
    BY <1>1, <1>2, <1>3, <2>1 DEF LowOnly
<1>. QED
  BY <1>4 DEF c, d, e

LEMMA MatchIsLow ==
    ASSUME NEW m_off \in Nat, m_off >= 1, NEW m_len \in Nat, m_len >= 3,
           NEW low \in Nat, low <= 3
    PROVE  LowOnly(MatchLow(m_off, m_len, 0), MatchLow(m_off, m_len, low), low)
<1>1. CASE m_len <= M2_MAX_LEN /\ m_off <= M2_MAX_OFFSET
  <2>. DEFINE x == (m_len - 1) * 32 + ((m_off - 1) % 8) * 4
              y == ((m_off - 1) \div 8) % 256
  <2>1. x \in Nat /\ x % 4 = 0 /\ y \in Nat
    BY <1>1 DEF M2_MAX_LEN, M2_MAX_OFFSET
  <2>2. /\ MatchLow(m_off, m_len, 0) = <<x + 0, y>>
        /\ MatchLow(m_off, m_len, low) = <<x + low, y>>
    BY <1>1 DEF MatchLow
  <2>. HIDE DEF x, y
  <2>3. LowOnly(<<x + 0, y>>, <<x + low, y>>, low)
    BY <2>1 DEF LowOnly
  <2>. QED
    BY <2>2, <2>3
<1>2. CASE ~(m_len <= M2_MAX_LEN /\ m_off <= M2_MAX_OFFSET) /\ m_off <= M3_MAX_OFFSET
  <2>1. m_off - 1 \in Nat /\ M3_MARKER \in Nat /\ M3_MAX_LEN \in Nat
    BY DEF M3_MARKER, M3_MAX_LEN
  <2>2. LowOnly(LengthCode(M3_MARKER, M3_MAX_LEN, m_len) \o OffsetLow(m_off - 1, 0),
                LengthCode(M3_MARKER, M3_MAX_LEN, m_len) \o OffsetLow(m_off - 1, low), low)
    BY <2>1, FarIsLow
  <2>. QED
    BY <1>2, <2>2 DEF MatchLow
<1>3. CASE ~(m_len <= M2_MAX_LEN /\ m_off <= M2_MAX_OFFSET) /\ ~(m_off <= M3_MAX_OFFSET)
  <2>. DEFINE o == m_off - 16384
              k == M4_MARKER + 8 * ((o \div 16384) % 2)
  <2>1. o \in Nat /\ k \in Nat /\ M4_MAX_LEN \in Nat
    BY <1>3 DEF M4_MARKER, M4_MAX_LEN, M3_MAX_OFFSET
  <2>2. /\ MatchLow(m_off, m_len, 0)
             = LengthCode(k, M4_MAX_LEN, m_len) \o OffsetLow(o, 0)
        /\ MatchLow(m_off, m_len, low)
             = LengthCode(k, M4_MAX_LEN, m_len) \o OffsetLow(o, low)
    BY <1>3 DEF MatchLow
  <2>. HIDE DEF o, k
  <2>3. LowOnly(LengthCode(k, M4_MAX_LEN, m_len) \o OffsetLow(o, 0),
                LengthCode(k, M4_MAX_LEN, m_len) \o OffsetLow(o, low), low)
    BY <2>1, FarIsLow
  <2>. QED
    BY <2>2, <2>3
<1>. QED
  BY <1>1, <1>2, <1>3

\* With nothing announced the code is what the compressor writes.
LEMMA PlainCode ==
    ASSUME NEW m_off \in Nat, NEW m_len \in Nat
    PROVE  MatchLow(m_off, m_len, 0) = MatchCode(m_off, m_len)
<1>1. \A o \in Int : OffsetLow(o, 0) = OffsetCode(o)
  BY DEF OffsetLow, OffsetCode
<1>. QED
  BY <1>1 DEF MatchLow, MatchCode

LEMMA CodeIsLow ==
    ASSUME NEW tok, Sound(tok), NEW low \in Nat, low <= 3, tok.len = 0 => low = 0
    PROVE  /\ LowOnly(Code(tok, 0), Code(tok, low), low)
           /\ tok.len = 0 => Len(Code(tok, low)) = 3
<1>1. CASE tok.len = 0
  BY <1>1 DEF Code, EndCode, LowOnly, M4_MARKER
<1>2. CASE tok.len # 0
  <2>1. tok.off \in Nat /\ tok.off >= 1 /\ tok.len \in Nat /\ tok.len >= 3
    BY <1>2 DEF Sound, Tokens
  <2>. QED
    BY <1>2, <2>1, MatchIsLow DEF Code
<1>. QED
  BY <1>1, <1>2

LEMMA OrOfLow ==
    ASSUME NEW b \in Nat, b % 4 = 0, NEW n \in Nat, n <= 3
    PROVE  OrLow(b, n) = b + n
<1>1. b % 2 = 0 /\ (b \div 2) % 2 = 0
  OBVIOUS
<1>2. n = 0 \/ n = 1 \/ n = 2 \/ n = 3
  OBVIOUS
<1>. QED
  BY <1>1, <1>2 DEF OrLow

-----------------------------------------------------------------------------
\* The layout of the stream

\* The sequence x stands in s from cell i on.
Found(s, x, i) ==
    /\ i \in Nat /\ i >= 1 /\ i + Len(x) - 1 <= Len(s)
    /\ \A k \in 1..Len(x) : s[i + k - 1] = x[k]

LowAt(ts, i) == IF i < Len(ts) THEN Announced(ts[i + 1].lits) ELSE 0

LeadAt(ts, i) == Lead(i = 1, ts[i])

CodeCell(ts, c, i) == c[i] + Len(LeadAt(ts, i)) + Cells(ts[i].lits)

\* Token i stands at cell c[i], after b[i] bytes and o[i] bytes of output.
TokenAt(s, ts, c, b, o, i) ==
    /\ Sound(ts[i]) /\ (i < Len(ts) => ts[i].len # 0)
    /\ ts[i].len # 0 => ts[i].off <= o[i] + ts[i].lits /\ (i = 1 => ts[i].lits > 3)
    /\ Found(s, LeadAt(ts, i), c[i])
    /\ Found(s, Code(ts[i], LowAt(ts, i)), CodeCell(ts, c, i))
    /\ c[i + 1] = CodeCell(ts, c, i) + Len(Code(ts[i], 0))
    /\ b[i + 1] = b[i] + Len(LeadAt(ts, i)) + ts[i].lits + Len(Code(ts[i], 0))
    /\ o[i + 1] = o[i] + ts[i].lits + ts[i].len

Rises(f, n) == \A i, j \in 1..n : i <= j => f[i] <= f[j]

Layout(s, ts, c, b, o) ==
    LET n == Len(ts) + 1
    IN  /\ c \in [1..n -> Nat] /\ b \in [1..n -> Nat] /\ o \in [1..n -> Nat]
        /\ c[1] = 1 /\ b[1] = 0 /\ o[1] = 0 /\ c[n] = Len(s) + 1
        /\ Rises(c, n) /\ Rises(b, n) /\ Rises(o, n)
        /\ \A i \in 1..Len(ts) : TokenAt(s, ts, c, b, o, i)

Extended(f, n, v) == [i \in 1..(n + 1) |-> IF i <= n THEN f[i] ELSE v]

Agrees(f, g, n) == \A i \in 1..n : f[i] = g[i]

LEMMA ExtendedRises ==
    ASSUME NEW n \in Nat, n >= 1, NEW f \in [1..n -> Nat], Rises(f, n),
           NEW v \in Nat, f[n] <= v
    PROVE  /\ Extended(f, n, v) \in [1..(n + 1) -> Nat]
           /\ Rises(Extended(f, n, v), n + 1)
           /\ Agrees(Extended(f, n, v), f, n)
           /\ Extended(f, n, v)[n + 1] = v
<1>. DEFINE g == Extended(f, n, v)
<1>1. g \in [1..(n + 1) -> Nat] /\ (\A i \in 1..n : g[i] = f[i]) /\ g[n + 1] = v
  BY DEF Extended
<1>. HIDE DEF g
<1>2. ASSUME NEW i \in 1..(n + 1), NEW j \in 1..(n + 1), i <= j PROVE g[i] <= g[j]
  <2>1. CASE j <= n
    <3>1. i \in 1..n /\ j \in 1..n
      BY <1>2, <2>1
    <3>. QED
      BY <1>1, <1>2, <3>1 DEF Rises
  <2>2. CASE j = n + 1
    <3>1. CASE i = n + 1
      BY <1>1, <2>2, <3>1
    <3>2. CASE i \in 1..n
      <4>1. f[i] <= f[n] /\ f[i] \in Nat /\ f[n] \in Nat
        BY <3>2 DEF Rises
      <4>. QED
        BY <1>1, <2>2, <3>2, <4>1
    <3>. QED
      BY <3>1, <3>2
  <2>. QED
    BY <2>1, <2>2
<1>. QED
  BY <1>1, <1>2 DEF Rises, Agrees, g

\* u is s with up to 3 literals announced in the last but one cell, and more
\* after it.
Continues(s, u, n) ==
    /\ Len(u) >= Len(s)
    /\ \A k \in 1..Len(s) :
         u[k] = IF n >= 1 /\ n <= 3 /\ k = Len(s) - 1 THEN OrLow(s[k], n) ELSE s[k]

LEMMA FoundBefore ==
    ASSUME NEW s \in Seq(Int), NEW u \in Seq(Int), NEW n \in Nat,
           Continues(s, u, n), NEW x \in Seq(Int), NEW i \in Nat, Found(s, x, i),
           i + Len(x) - 1 <= Len(s) - 2
    PROVE  Found(u, x, i)
<1>1. /\ Len(s) \in Nat /\ Len(u) \in Nat /\ Len(x) \in Nat /\ Len(u) >= Len(s)
      /\ i \in Nat /\ i >= 1
  BY DEF Found, Continues
<1>2. ASSUME NEW k \in 1..Len(x) PROVE u[i + k - 1] = x[k]
  <2>1. i + k - 1 \in 1..Len(s) /\ i + k - 1 # Len(s) - 1
    <3>1. PICK lx \in Nat, ls \in Nat : lx = Len(x) /\ ls = Len(s)
      BY <1>1
    <3>2. k \in 1..lx /\ i + lx - 1 <= ls - 2 /\ i >= 1
      BY <1>1, <3>1
    <3>3. i + k - 1 \in 1..ls /\ i + k - 1 # ls - 1
      BY <3>2
    <3>. QED
      BY <3>1, <3>3
  <2>2. u[i + k - 1] = s[i + k - 1]
    BY <2>1 DEF Continues
  <2>. QED
    BY <2>2 DEF Found
<1>. QED
  BY <1>1, <1>2 DEF Found

LEMMA FoundAtEnd ==
    ASSUME NEW s \in Seq(Int), NEW u \in Seq(Int), NEW n \in Nat,
           Continues(s, u, n), NEW x \in Seq(Int), NEW y \in Seq(Int), NEW i \in Nat,
           LowOnly(x, y, Announced(n)), Found(s, x, i), i + Len(x) - 1 = Len(s)
    PROVE  Found(u, y, i)
<1>1. /\ Len(s) \in Nat /\ Len(u) \in Nat /\ Len(u) >= Len(s) /\ i \in Nat /\ i >= 1
      /\ Len(x) \in Nat /\ Len(x) >= 2 /\ Len(y) = Len(x)
  <2>1. Len(s) \in Nat /\ Len(u) \in Nat
    OBVIOUS
  <2>2. Len(u) >= Len(s)
    BY DEF Continues
  <2>3. i >= 1
    BY DEF Found
  <2>4. Len(x) \in Nat /\ Len(x) >= 2 /\ Len(y) = Len(x)
    BY DEF LowOnly
  <2>. QED
    BY <2>1, <2>2, <2>3, <2>4
<1>2. ASSUME NEW k \in 1..Len(x) PROVE u[i + k - 1] = y[k]
  <2>1. i + k - 1 \in 1..Len(s) /\ (i + k - 1 = Len(s) - 1 <=> k = Len(x) - 1)
    <3>1. PICK lx \in Nat, ls \in Nat : lx = Len(x) /\ ls = Len(s)
      BY <1>1
    <3>2. k \in 1..lx /\ i + lx - 1 = ls /\ i >= 1
      BY <1>1, <3>1
    <3>3. i + k - 1 \in 1..ls /\ (i + k - 1 = ls - 1 <=> k = lx - 1)
      BY <3>2
    <3>. QED
      BY <3>1, <3>3
  <2>2. s[i + k - 1] = x[k]
    BY DEF Found
  <2>3. CASE k # Len(x) - 1
    <3>1. u[i + k - 1] = s[i + k - 1]
      BY <2>1, <2>3 DEF Continues
    <3>2. y[k] = x[k]
      BY <2>3 DEF LowOnly
    <3>. QED
      BY <2>2, <3>1, <3>2
  <2>4. CASE k = Len(x) - 1
    <3>1. x[k] \in Nat /\ x[k] % 4 = 0 /\ y[k] = x[k] + Announced(n)
      BY <2>4 DEF LowOnly
    <3>2. CASE n >= 1 /\ n <= 3
      <4>1. u[i + k - 1] = OrLow(x[k], n)
        BY <2>1, <2>2, <2>4, <3>2 DEF Continues
      <4>2. OrLow(x[k], n) = x[k] + n
        BY <3>1, <3>2, OrOfLow
      <4>3. Announced(n) = n
        BY <3>2 DEF Announced
      <4>. QED
        BY <3>1, <4>1, <4>2, <4>3, Zenon
    <3>3. CASE ~(n >= 1 /\ n <= 3)
      <4>1. u[i + k - 1] = x[k]
        BY <2>1, <2>2, <3>3 DEF Continues
      <4>2. Announced(n) = 0
        BY <3>3 DEF Announced
      <4>3. x[k] + Announced(n) = x[k]
        BY <3>1, <4>2
      <4>. QED
        BY <3>1, <4>1, <4>3, Zenon
    <3>. QED
      BY <3>2, <3>3
  <2>. QED
    BY <2>3, <2>4
<1>. QED
  BY <1>1, <1>2 DEF Found

LEMMA AnnouncedIsLow ==
    ASSUME NEW n \in Nat PROVE Announced(n) \in Nat /\ Announced(n) <= 3
  BY DEF Announced

\* The sizes of the parts of token i
LEMMA TokenSizes ==
    ASSUME NEW ts \in Seq(Tokens), NEW s, NEW c, NEW b, NEW o, NEW i \in 1..Len(ts),
           TokenAt(s, ts, c, b, o, i)
    PROVE  /\ ts[i] \in Tokens /\ Sound(ts[i])
           /\ LeadAt(ts, i) \in Seq(Int) /\ Len(LeadAt(ts, i)) \in Nat
           /\ Cells(ts[i].lits) \in Nat
           /\ LowAt(ts, i) \in Nat /\ LowAt(ts, i) <= 3
           /\ ts[i].len = 0 => LowAt(ts, i) = 0
           /\ LowOnly(Code(ts[i], 0), Code(ts[i], LowAt(ts, i)), LowAt(ts, i))
           /\ Len(Code(ts[i], 0)) \in Nat /\ Len(Code(ts[i], 0)) >= 2
<1>1. ts[i] \in Tokens /\ Sound(ts[i])
  BY DEF TokenAt
<1>2. LeadAt(ts, i) \in Seq(Int) /\ Len(LeadAt(ts, i)) \in Nat
  BY <1>1, LeadIsSequence DEF LeadAt
<1>3. LowAt(ts, i) \in Nat /\ LowAt(ts, i) <= 3
  <2>1. CASE i < Len(ts)
    <3>1. ts[i + 1] \in Tokens
      BY <2>1
    <3>2. ts[i + 1].lits \in Nat
      BY <3>1 DEF Tokens
    <3>. QED
      BY <2>1, <3>2, AnnouncedIsLow DEF LowAt
  <2>2. CASE ~(i < Len(ts))
    BY <2>2 DEF LowAt
  <2>. QED
    BY <2>1, <2>2
<1>4. ts[i].len = 0 => LowAt(ts, i) = 0
  BY DEF TokenAt, LowAt
<1>5. LowOnly(Code(ts[i], 0), Code(ts[i], LowAt(ts, i)), LowAt(ts, i))
  BY <1>1, <1>3, <1>4, CodeIsLow
<1>6. Len(Code(ts[i], 0)) \in Nat /\ Len(Code(ts[i], 0)) >= 2
  BY <1>5 DEF LowOnly
<1>. QED
  BY <1>1, <1>2, <1>3, <1>4, <1>5, <1>6 DEF Cells

\* A token that is not the last one stays as it is.
LEMMA TokenBefore ==
    ASSUME NEW s \in Seq(Int), NEW ts \in Seq(Tokens), NEW c, NEW b, NEW o,
           Layout(s, ts, c, b, o), NEW u \in Seq(Int), NEW n \in Nat,
           Continues(s, u, n), NEW us \in Seq(Tokens), NEW d, NEW e, NEW q,
           NEW i \in 1..Len(ts), i < Len(ts), Len(us) > Len(ts),
           us[i] = ts[i], us[i + 1] = ts[i + 1],
           d[i] = c[i], d[i + 1] = c[i + 1], e[i] = b[i], e[i + 1] = b[i + 1],
           q[i] = o[i], q[i + 1] = o[i + 1]
    PROVE  TokenAt(u, us, d, e, q, i)
<1>. DEFINE lead == LeadAt(ts, i)
            code == Code(ts[i], LowAt(ts, i))
            m == CodeCell(ts, c, i)
<1>1. TokenAt(s, ts, c, b, o, i)
  BY DEF Layout
<1>2. /\ lead \in Seq(Int) /\ Len(lead) \in Nat /\ code \in Seq(Int)
      /\ Cells(ts[i].lits) \in Nat
      /\ Len(code) = Len(Code(ts[i], 0)) /\ Len(code) \in Nat /\ Len(code) >= 2
  <2>1. /\ LeadAt(ts, i) \in Seq(Int) /\ Len(LeadAt(ts, i)) \in Nat
        /\ Cells(ts[i].lits) \in Nat
    BY <1>1, TokenSizes
  <2>2. LowOnly(Code(ts[i], 0), Code(ts[i], LowAt(ts, i)), LowAt(ts, i))
    BY <1>1, TokenSizes
  <2>. HIDE DEF lead
  <2>. QED
    BY <2>1, <2>2 DEF LowOnly, lead
<1>3. /\ LeadAt(us, i) = lead /\ CodeCell(us, d, i) = m
      /\ Code(us[i], LowAt(us, i)) = code
  <2>1. LeadAt(us, i) = lead
    BY DEF LeadAt
  <2>2. LowAt(us, i) = LowAt(ts, i)
    <3>1. i < Len(us)
      OBVIOUS
    <3>. QED
      BY <3>1 DEF LowAt
  <2>. QED
    BY <2>1, <2>2 DEF CodeCell
<1>4. /\ c[i] \in Nat /\ c[i + 1] \in Nat /\ m = c[i] + Len(lead) + Cells(ts[i].lits)
      /\ m + Len(code) <= Len(s) - 1
  <2>1. PICK N \in Nat : N = Len(ts)
    OBVIOUS
  <2>2. /\ c \in [1..(N + 1) -> Nat] /\ c[N + 1] = Len(s) + 1 /\ Rises(c, N + 1)
        /\ TokenAt(s, ts, c, b, o, N)
    <3>1. N \in 1..Len(ts)
      BY <2>1
    <3>. QED
      BY <2>1, <3>1 DEF Layout
  <2>3. i \in 1..(N + 1) /\ i + 1 \in 1..(N + 1) /\ N \in 1..(N + 1) /\ i + 1 <= N
    BY <2>1
  <2>4. c[i + 1] <= c[N] /\ c[i] \in Nat /\ c[i + 1] \in Nat /\ c[N] \in Nat
    BY <2>2, <2>3 DEF Rises
  <2>5. m = c[i] + Len(lead) + Cells(ts[i].lits) /\ c[i + 1] = m + Len(code)
    BY <1>1, <1>2 DEF TokenAt, CodeCell
  <2>6. PICK x \in Nat, y \in Nat, z \in Nat :
          /\ x = Len(LeadAt(ts, N)) /\ y = Cells(ts[N].lits) /\ z = Len(Code(ts[N], 0))
          /\ z >= 2 /\ c[N + 1] = c[N] + x + y + z
    <3>1. N \in 1..Len(ts)
      BY <2>1
    <3>2. /\ Len(LeadAt(ts, N)) \in Nat /\ Cells(ts[N].lits) \in Nat
          /\ Len(Code(ts[N], 0)) \in Nat /\ Len(Code(ts[N], 0)) >= 2
      BY <2>2, <3>1, TokenSizes
    <3>3. c[N + 1] = c[N] + Len(LeadAt(ts, N)) + Cells(ts[N].lits) + Len(Code(ts[N], 0))
      BY <2>2 DEF TokenAt, CodeCell
    <3>. QED
      BY <3>2, <3>3
  <2>7. PICK ls \in Nat, cN \in Nat, cI \in Nat :
          ls = Len(s) /\ cN = c[N] /\ cI = c[i + 1]
    BY <2>4
  <2>8. cI <= ls - 1
    <3>1. cN + x + y + z = ls + 1 /\ cI <= cN
      BY <2>2, <2>4, <2>6, <2>7
    <3>. QED
      BY <2>6, <3>1
  <2>. QED
    BY <2>4, <2>5, <2>7, <2>8
<1>. HIDE DEF lead, code, m
<1>5. Found(s, lead, c[i]) /\ Found(s, code, m) /\ m \in Nat
  BY <1>1 DEF TokenAt, Found, lead, code, m
<1>6. c[i] + Len(lead) - 1 <= Len(s) - 2 /\ m + Len(code) - 1 <= Len(s) - 2
  <2>1. PICK x \in Nat, y \in Nat, z \in Nat, p \in Nat, ls \in Nat :
          x = Len(lead) /\ y = Cells(ts[i].lits) /\ z = Len(code) /\ p = c[i] /\ ls = Len(s)
    <3>1. /\ Len(lead) \in Nat /\ Cells(ts[i].lits) \in Nat /\ Len(code) \in Nat
          /\ c[i] \in Nat /\ Len(s) \in Nat
      BY <1>2, <1>4
    <3>. QED
      BY <3>1, Zenon
  <2>2. p + x + y + z <= ls - 1
    BY <1>4, <2>1
  <2>3. p + x - 1 <= ls - 2 /\ p + x + y + z - 1 <= ls - 2
    BY <2>2
  <2>. QED
    BY <1>4, <2>1, <2>3
<1>7. Found(u, lead, c[i])
  BY <1>2, <1>4, <1>5, <1>6, FoundBefore
<1>8. Found(u, code, m)
  BY <1>2, <1>5, <1>6, FoundBefore
<1>9. /\ Sound(us[i]) /\ us[i].len # 0
      /\ us[i].off <= q[i] + us[i].lits /\ (i = 1 => us[i].lits > 3)
  BY <1>1 DEF TokenAt
<1>10. /\ d[i + 1] = m + Len(Code(us[i], 0))
       /\ e[i + 1] = e[i] + Len(lead) + us[i].lits + Len(Code(us[i], 0))
       /\ q[i + 1] = q[i] + us[i].lits + us[i].len
  BY <1>1 DEF TokenAt, lead, m
<1>. QED
  BY <1>3, <1>7, <1>8, <1>9, <1>10 DEF TokenAt

\* The last token announces the next one's literals.
LEMMA TokenAtEnd ==
    ASSUME NEW s \in Seq(Int), NEW ts \in Seq(Tokens), NEW c, NEW b, NEW o,
           Layout(s, ts, c, b, o), NEW u \in Seq(Int), NEW n \in Nat,
           Continues(s, u, n), NEW us \in Seq(Tokens), NEW d, NEW e, NEW q,
           NEW i \in 1..Len(ts), i = Len(ts), Len(us) = i + 1, ts[i].len # 0,
           us[i] = ts[i], us[i + 1].lits = n,
           d[i] = c[i], d[i + 1] = c[i + 1], e[i] = b[i], e[i + 1] = b[i + 1],
           q[i] = o[i], q[i + 1] = o[i + 1]
    PROVE  TokenAt(u, us, d, e, q, i)
<1>. DEFINE lead == LeadAt(ts, i)
            plain == Code(ts[i], 0)
            code == Code(ts[i], Announced(n))
            m == CodeCell(ts, c, i)
<1>1. TokenAt(s, ts, c, b, o, i)
  BY DEF Layout
<1>2. LowAt(ts, i) = 0
  BY DEF LowAt
<1>3. /\ lead \in Seq(Int) /\ Len(lead) \in Nat /\ Cells(ts[i].lits) \in Nat
      /\ plain \in Seq(Int) /\ Len(plain) \in Nat /\ Len(plain) >= 2
      /\ Sound(ts[i])
  <2>1. /\ LeadAt(ts, i) \in Seq(Int) /\ Len(LeadAt(ts, i)) \in Nat
        /\ Cells(ts[i].lits) \in Nat /\ Sound(ts[i])
    BY <1>1, TokenSizes
  <2>2. LowOnly(Code(ts[i], 0), Code(ts[i], LowAt(ts, i)), LowAt(ts, i))
    BY <1>1, TokenSizes
  <2>. HIDE DEF lead
  <2>. QED
    BY <2>1, <2>2 DEF LowOnly, lead
<1>4. LowOnly(plain, code, Announced(n)) /\ code \in Seq(Int)
  <2>1. Announced(n) \in Nat /\ Announced(n) <= 3
    BY AnnouncedIsLow
  <2>2. LowOnly(Code(ts[i], 0), Code(ts[i], Announced(n)), Announced(n))
    BY <1>3, <2>1, CodeIsLow
  <2>. QED
    BY <2>2 DEF LowOnly
<1>5. /\ LeadAt(us, i) = lead /\ CodeCell(us, d, i) = m
      /\ Code(us[i], LowAt(us, i)) = code
  <2>1. LeadAt(us, i) = lead
    BY DEF LeadAt
  <2>2. LowAt(us, i) = Announced(n)
    BY DEF LowAt
  <2>. QED
    BY <2>1, <2>2 DEF CodeCell
<1>6. /\ c[i] \in Nat /\ m = c[i] + Len(lead) + Cells(ts[i].lits)
      /\ m + Len(plain) = Len(s) + 1
  <2>1. c \in [1..(i + 1) -> Nat] /\ c[i + 1] = Len(s) + 1
    BY DEF Layout
  <2>2. i \in 1..(i + 1)
    OBVIOUS
  <2>. QED
    BY <1>1, <2>1, <2>2 DEF TokenAt, CodeCell
<1>. HIDE DEF lead, plain, code, m
<1>7. Found(s, lead, c[i]) /\ Found(s, plain, m) /\ m \in Nat
  BY <1>1, <1>2 DEF TokenAt, Found, lead, plain, m
<1>8. c[i] + Len(lead) - 1 <= Len(s) - 2 /\ m + Len(plain) - 1 = Len(s)
  <2>1. PICK x \in Nat, y \in Nat, z \in Nat, p \in Nat, ls \in Nat :
          x = Len(lead) /\ y = Cells(ts[i].lits) /\ z = Len(plain) /\ p = c[i] /\ ls = Len(s)
    <3>1. /\ Len(lead) \in Nat /\ Cells(ts[i].lits) \in Nat /\ Len(plain) \in Nat
          /\ c[i] \in Nat /\ Len(s) \in Nat
      BY <1>3, <1>6
    <3>. QED
      BY <3>1, Zenon
  <2>2. p + x + y + z = ls + 1 /\ z >= 2
    BY <1>3, <1>6, <2>1
  <2>3. p + x - 1 <= ls - 2 /\ p + x + y + z - 1 = ls
    BY <2>2
  <2>. QED
    BY <1>6, <2>1, <2>3
<1>9. Found(u, lead, c[i])
  BY <1>3, <1>6, <1>7, <1>8, FoundBefore
<1>10. Found(u, code, m)
  BY <1>3, <1>4, <1>7, <1>8, FoundAtEnd
<1>11. /\ Sound(us[i]) /\ us[i].len # 0
       /\ us[i].off <= q[i] + us[i].lits /\ (i = 1 => us[i].lits > 3)
  BY <1>1 DEF TokenAt
<1>12. /\ d[i + 1] = m + Len(Code(us[i], 0))
       /\ e[i + 1] = e[i] + Len(lead) + us[i].lits + Len(Code(us[i], 0))
       /\ q[i + 1] = q[i] + us[i].lits + us[i].len
  BY <1>1 DEF TokenAt, lead, m
<1>. QED
  BY <1>5, <1>9, <1>10, <1>11, <1>12 DEF TokenAt

\* What the compressor puts after the stream s for the token tok, when its
\* literals are announced in s
Adds(s, u, first, tok) ==
    LET lead == Lead(first, tok)
        cells == Cells(tok.lits)
        code == Code(tok, 0)
    IN  /\ Continues(s, u, tok.lits)
        /\ Len(u) = Len(s) + Len(lead) + cells + Len(code)
        /\ Found(u, lead, Len(s) + 1)
        /\ Found(u, code, Len(s) + 1 + Len(lead) + cells)

\* The token tok may come after those of ts.
MayFollow(ts, o, tok) ==
    LET n == Len(ts)
    IN  /\ Sound(tok)
        /\ n # 0 => ts[n].len # 0
        /\ tok.len # 0 => tok.off <= o[n + 1] + tok.lits /\ (n = 0 => tok.lits > 3)

\* The stream u has a layout with the token after those of ts.
Grown(u, ts, b, o, tok) ==
    LET n == Len(ts)
    IN  \E d, e, q :
          /\ Layout(u, Append(ts, tok), d, e, q)
          /\ e[n + 2] = b[n + 1] + Len(Lead(n = 0, tok)) + tok.lits + Len(Code(tok, 0))
          /\ q[n + 2] = o[n + 1] + tok.lits + tok.len

LEMMA LayoutExtends ==
    ASSUME NEW s \in Seq(Int), NEW ts \in Seq(Tokens), NEW c, NEW b, NEW o,
           Layout(s, ts, c, b, o), NEW tok, MayFollow(ts, o, tok),
           NEW u \in Seq(Int), Adds(s, u, Len(ts) = 0, tok)
    PROVE  Grown(u, ts, b, o, tok)
<1>. SUFFICES ASSUME NEW N \in Nat, N = Len(ts), N # 0 => ts[N].len # 0, Sound(tok),
                     tok.len # 0 => tok.off <= o[N + 1] + tok.lits /\ (N = 0 => tok.lits > 3),
                     Adds(s, u, N = 0, tok)
              PROVE  \E d, e, q :
                       /\ Layout(u, Append(ts, tok), d, e, q)
                       /\ e[N + 2] = b[N + 1] + Len(Lead(N = 0, tok)) + tok.lits
                                       + Len(Code(tok, 0))
                       /\ q[N + 2] = o[N + 1] + tok.lits + tok.len
  <2>1. Len(ts) \in Nat
    OBVIOUS
  <2>. QED
    BY <2>1 DEF MayFollow, Grown
<1>. DEFINE us == Append(ts, tok)
            lead == Lead(N = 0, tok)
            code == Code(tok, 0)
            cells == Cells(tok.lits)
<1>1. tok \in Tokens /\ tok.lits \in Nat /\ tok.len \in Nat
  BY DEF Sound, Tokens
<1>2. /\ us \in Seq(Tokens) /\ Len(us) = N + 1 /\ us[N + 1] = tok
      /\ \A i \in 1..N : us[i] = ts[i]
  BY <1>1
<1>3. /\ lead \in Seq(Int) /\ Len(lead) \in Nat /\ cells \in Nat
      /\ code \in Seq(Int) /\ Len(code) \in Nat /\ Len(code) >= 2
  <2>1. Lead(N = 0, tok) \in Seq(Int) /\ Len(Lead(N = 0, tok)) \in Nat
    BY <1>1, LeadIsSequence
  <2>2. LowOnly(Code(tok, 0), Code(tok, 0), 0)
    BY CodeIsLow
  <2>3. Cells(tok.lits) \in Nat
    BY DEF Cells
  <2>. HIDE DEF lead, cells
  <2>. QED
    BY <2>1, <2>2, <2>3 DEF LowOnly, lead, cells
<1>. HIDE DEF us, lead, code, cells
<1>4. /\ c \in [1..(N + 1) -> Nat] /\ b \in [1..(N + 1) -> Nat] /\ o \in [1..(N + 1) -> Nat]
      /\ c[1] = 1 /\ b[1] = 0 /\ o[1] = 0 /\ c[N + 1] = Len(s) + 1
      /\ Rises(c, N + 1) /\ Rises(b, N + 1) /\ Rises(o, N + 1)
      /\ c[N + 1] \in Nat /\ b[N + 1] \in Nat /\ o[N + 1] \in Nat
  <2>1. N + 1 \in 1..(N + 1)
    OBVIOUS
  <2>. QED
    BY <2>1 DEF Layout
<1>5. /\ Continues(s, u, tok.lits) /\ Len(u) = Len(s) + Len(lead) + cells + Len(code)
      /\ Found(u, lead, Len(s) + 1) /\ Found(u, code, Len(s) + 1 + Len(lead) + cells)
  BY DEF Adds, lead, cells, code
<1>6. PICK ls \in Nat, x \in Nat, y \in Nat, z \in Nat :
         ls = Len(s) /\ x = Len(lead) /\ y = cells /\ z = Len(code)
  <2>1. Len(s) \in Nat
    OBVIOUS
  <2>. QED
    BY <1>3, <2>1, Zenon
<1>7. PICK n \in Nat, l \in Nat, bn \in Nat, on \in Nat, M \in Nat :
         n = tok.lits /\ l = tok.len /\ bn = b[N + 1] /\ on = o[N + 1] /\ M = N + 1
  <2>1. N + 1 \in Nat
    OBVIOUS
  <2>. QED
    BY <1>1, <1>4, <2>1, Zenon
<1>8. Len(u) = ls + x + y + z
  BY <1>5, <1>6
<1>. DEFINE d == Extended(c, M, ls + x + y + z + 1)
            e == Extended(b, M, bn + x + n + z)
            q == Extended(o, M, on + n + l)
<1>9. M >= 1 /\ M + 1 = N + 2
  BY <1>7
<1>10. /\ d \in [1..(N + 2) -> Nat] /\ Rises(d, N + 2) /\ d[N + 2] = ls + x + y + z + 1
      /\ \A i \in 1..(N + 1) : d[i] = c[i]
  <2>1. PICK v \in Nat : v = ls + x + y + z + 1 /\ ls + 1 <= v
    OBVIOUS
  <2>2. c \in [1..M -> Nat] /\ Rises(c, M) /\ c[M] <= v
    BY <1>4, <1>6, <1>7, <2>1
  <2>3. /\ Extended(c, M, v) \in [1..(M + 1) -> Nat]
        /\ Rises(Extended(c, M, v), M + 1)
        /\ Extended(c, M, v)[M + 1] = v
        /\ Agrees(Extended(c, M, v), c, M)
    <3>1. M >= 1
      BY <1>9
    <3>2. Extended(c, M, v) \in [1..(M + 1) -> Nat]
      BY <2>2, <3>1, ExtendedRises, Zenon
    <3>3. Rises(Extended(c, M, v), M + 1) /\ Agrees(Extended(c, M, v), c, M)
      BY <2>2, <3>1, ExtendedRises, Zenon
    <3>4. Extended(c, M, v)[M + 1] = v
      BY DEF Extended
    <3>. QED
      BY <3>2, <3>3, <3>4
  <2>4. d = Extended(c, M, v)
    BY <2>1
  <2>. HIDE DEF d
  <2>. QED
    BY <1>7, <1>9, <2>1, <2>3, <2>4 DEF Agrees
<1>11. /\ e \in [1..(N + 2) -> Nat] /\ Rises(e, N + 2) /\ e[N + 2] = bn + x + n + z
      /\ \A i \in 1..(N + 1) : e[i] = b[i]
  <2>1. PICK v \in Nat : v = bn + x + n + z /\ bn <= v
    OBVIOUS
  <2>2. b \in [1..M -> Nat] /\ Rises(b, M) /\ b[M] <= v
    BY <1>4, <1>6, <1>7, <2>1
  <2>3. /\ Extended(b, M, v) \in [1..(M + 1) -> Nat]
        /\ Rises(Extended(b, M, v), M + 1)
        /\ Extended(b, M, v)[M + 1] = v
        /\ Agrees(Extended(b, M, v), b, M)
    <3>1. M >= 1
      BY <1>9
    <3>2. Extended(b, M, v) \in [1..(M + 1) -> Nat]
      BY <2>2, <3>1, ExtendedRises, Zenon
    <3>3. Rises(Extended(b, M, v), M + 1) /\ Agrees(Extended(b, M, v), b, M)
      BY <2>2, <3>1, ExtendedRises, Zenon
    <3>4. Extended(b, M, v)[M + 1] = v
      BY DEF Extended
    <3>. QED
      BY <3>2, <3>3, <3>4
  <2>4. e = Extended(b, M, v)
    BY <2>1
  <2>. HIDE DEF e
  <2>. QED
    BY <1>7, <1>9, <2>1, <2>3, <2>4 DEF Agrees
<1>12. /\ q \in [1..(N + 2) -> Nat] /\ Rises(q, N + 2) /\ q[N + 2] = on + n + l
      /\ \A i \in 1..(N + 1) : q[i] = o[i]
  <2>1. PICK v \in Nat : v = on + n + l /\ on <= v
    OBVIOUS
  <2>2. o \in [1..M -> Nat] /\ Rises(o, M) /\ o[M] <= v
    BY <1>4, <1>6, <1>7, <2>1
  <2>3. /\ Extended(o, M, v) \in [1..(M + 1) -> Nat]
        /\ Rises(Extended(o, M, v), M + 1)
        /\ Extended(o, M, v)[M + 1] = v
        /\ Agrees(Extended(o, M, v), o, M)
    <3>1. M >= 1
      BY <1>9
    <3>2. Extended(o, M, v) \in [1..(M + 1) -> Nat]
      BY <2>2, <3>1, ExtendedRises, Zenon
    <3>3. Rises(Extended(o, M, v), M + 1) /\ Agrees(Extended(o, M, v), o, M)
      BY <2>2, <3>1, ExtendedRises, Zenon
    <3>4. Extended(o, M, v)[M + 1] = v
      BY DEF Extended
    <3>. QED
      BY <3>2, <3>3, <3>4
  <2>4. q = Extended(o, M, v)
    BY <2>1
  <2>. HIDE DEF q
  <2>. QED
    BY <1>7, <1>9, <2>1, <2>3, <2>4 DEF Agrees
<1>. HIDE DEF d, e, q
<1>13. ASSUME NEW i \in 1..N PROVE TokenAt(u, us, d, e, q, i)
  <2>1. /\ i \in 1..(N + 1) /\ i + 1 \in 1..(N + 1) /\ i \in 1..Len(ts)
        /\ us[i] = ts[i]
    BY <1>2
  <2>2. /\ d[i] = c[i] /\ d[i + 1] = c[i + 1] /\ e[i] = b[i] /\ e[i + 1] = b[i + 1]
        /\ q[i] = o[i] /\ q[i + 1] = o[i + 1]
    BY <1>10, <1>11, <1>12, <2>1
  <2>3. CASE i < N
    <3>1. i + 1 \in 1..N
      BY <2>3
    <3>2. us[i + 1] = ts[i + 1] /\ i < Len(ts) /\ Len(us) > Len(ts)
      BY <1>2, <2>3, <3>1
    <3>. QED
      BY <1>1, <1>2, <1>5, <2>1, <2>2, <3>2, TokenBefore
  <2>4. CASE i = N
    <3>1. i = Len(ts) /\ Len(us) = i + 1 /\ ts[i].len # 0 /\ us[i + 1].lits = tok.lits
      BY <1>2, <2>4
    <3>2. Continues(s, u, tok.lits) /\ us \in Seq(Tokens) /\ tok.lits \in Nat
      BY <1>1, <1>2, <1>5
    <3>. QED
      BY <2>1, <2>2, <3>1, <3>2, TokenAtEnd, Zenon
  <2>. QED
    BY <2>3, <2>4
<1>14. TokenAt(u, us, d, e, q, N + 1)
  <2>1. N + 1 \in 1..(N + 1) /\ d[N + 1] = ls + 1 /\ e[N + 1] = bn /\ q[N + 1] = on
    <3>1. N + 1 \in 1..(N + 1)
      OBVIOUS
    <3>2. d[N + 1] = c[N + 1] /\ e[N + 1] = b[N + 1] /\ q[N + 1] = o[N + 1]
      BY <1>10, <1>11, <1>12, <3>1
    <3>. QED
      BY <1>4, <1>6, <1>7, <3>1, <3>2
  <2>2. LeadAt(us, N + 1) = lead
    <3>1. (N + 1 = 1) = (N = 0)
      OBVIOUS
    <3>. QED
      BY <1>2, <3>1 DEF LeadAt, lead
  <2>3. Code(us[N + 1], LowAt(us, N + 1)) = code /\ Code(us[N + 1], 0) = code
    <3>1. ~(N + 1 < Len(us))
      BY <1>2
    <3>. QED
      BY <1>2, <3>1 DEF LowAt, code
  <2>4. CodeCell(us, d, N + 1) = ls + 1 + x + y
    <3>1. CodeCell(us, d, N + 1) = d[N + 1] + Len(lead) + cells
      BY <1>2, <2>2 DEF CodeCell, cells
    <3>. QED
      BY <1>6, <2>1, <3>1
  <2>5. (N + 1) + 1 = N + 2
    OBVIOUS
  <2>6. d[N + 2] = (ls + 1 + x + y) + z
    BY <1>10
  <2>7. ~(N + 1 < Len(us)) /\ (N + 1 = 1 => N = 0)
    BY <1>2
  <2>8. tok.len # 0 => tok.off <= q[N + 1] + tok.lits /\ (N + 1 = 1 => tok.lits > 3)
    BY <1>7, <2>1, <2>7
  <2>9. Found(u, lead, ls + 1) /\ Found(u, code, ls + 1 + x + y)
    BY <1>5, <1>6
  <2>10. d[N + 2] = CodeCell(us, d, N + 1) + Len(code)
    BY <1>6, <2>4, <2>6
  <2>11. /\ e[N + 2] = e[N + 1] + Len(lead) + tok.lits + Len(code)
         /\ q[N + 2] = q[N + 1] + tok.lits + tok.len
    BY <1>11, <1>12, <1>6, <1>7, <2>1
  <2>. QED
    BY <1>2, <2>1, <2>2, <2>3, <2>4, <2>5, <2>7, <2>8, <2>9, <2>10, <2>11 DEF TokenAt
<1>15. Layout(u, us, d, e, q)
  <2>1. \A i \in 1..Len(us) : TokenAt(u, us, d, e, q, i)
    <3>1. \A i \in 1..Len(us) : i \in 1..N \/ i = N + 1
      BY <1>2
    <3>. QED
      BY <1>13, <1>14, <3>1
  <2>2. Len(us) + 1 = N + 2 /\ 1 \in 1..(N + 1)
    BY <1>2
  <2>3. d[1] = 1 /\ e[1] = 0 /\ q[1] = 0
    BY <1>4, <1>10, <1>11, <1>12, <2>2
  <2>4. d[N + 2] = Len(u) + 1
    BY <1>10, <1>8
  <2>. QED
    BY <2>4, <1>10, <1>11, <1>12, <2>1, <2>2, <2>3 DEF Layout
<1>16. /\ e[N + 2] = b[N + 1] + Len(lead) + tok.lits + Len(code)
       /\ q[N + 2] = o[N + 1] + tok.lits + tok.len
  BY <1>11, <1>12, <1>6, <1>7
<1>. QED
  BY <1>15, <1>16 DEF us, lead, code

-----------------------------------------------------------------------------
\* What the compressor writes

LEMMA FoundJoined ==
    ASSUME NEW s \in Seq(Int), NEW x \in Seq(Int)
    PROVE  Found(s \o x, x, Len(s) + 1)
<1>1. PICK ls \in Nat, lx \in Nat : ls = Len(s) /\ lx = Len(x)
  OBVIOUS
<1>2. Len(s \o x) = ls + lx /\ ls + 1 + lx - 1 = ls + lx
  BY <1>1
<1>3. \A k \in 1..Len(x) : (s \o x)[Len(s) + k] = x[k]
  BY Joins
<1>4. \A k \in 1..lx : ls + 1 + k - 1 = ls + k
  OBVIOUS
<1>5. \A k \in 1..lx : (s \o x)[ls + 1 + k - 1] = x[k]
  BY <1>1, <1>3, <1>4, Zenon
<1>6. ls + 1 \in Nat /\ ls + 1 >= 1 /\ ls + 1 + lx - 1 <= ls + lx
  OBVIOUS
<1>7. Found(s \o x, x, ls + 1)
  BY <1>1, <1>2, <1>5, <1>6, SMT DEF Found
<1>. QED
  BY <1>1, <1>7, Zenon

LEMMA FoundStays ==
    ASSUME NEW s \in Seq(Int), NEW x \in Seq(Int), NEW i \in Nat, Found(s, x, i),
           NEW y \in Seq(Int)
    PROVE  Found(s \o y, x, i)
<1>1. PICK ls \in Nat, lx \in Nat, ly \in Nat : ls = Len(s) /\ lx = Len(x) /\ ly = Len(y)
  OBVIOUS
<1>2. Len(s \o y) = ls + ly /\ i >= 1 /\ i + lx - 1 <= ls
  BY <1>1 DEF Found
<1>3. i + lx - 1 <= ls + ly
  BY <1>2
<1>4. ASSUME NEW k \in 1..Len(x) PROVE (s \o y)[i + k - 1] = x[k]
  <2>1. k \in 1..lx
    BY <1>1
  <2>2. i + k - 1 \in 1..ls
    BY <1>2, <2>1
  <2>3. i + k - 1 \in 1..Len(s)
    BY <1>1, <2>2
  <2>4. (s \o y)[i + k - 1] = s[i + k - 1]
    BY <2>3, Joins
  <2>. QED
    BY <2>4 DEF Found
<1>. QED
  BY <1>1, <1>2, <1>3, <1>4 DEF Found

\* The stream with the literals, before the code of the match
LEMMA PutAdds ==
    ASSUME NEW s \in Seq(Int), NEW n \in Nat, n \in 1..3 => Len(s) >= 2,
           NEW x \in Seq(Int), x = IF n <= 3 THEN <<>> ELSE LiteralCode(n)
    PROVE  /\ PutLiterals(s, n) \in Seq(Int) /\ Continues(s, PutLiterals(s, n), n)
           /\ Len(PutLiterals(s, n)) = Len(s) + Len(x) + Cells(n)
           /\ Found(PutLiterals(s, n), x, Len(s) + 1)
<1>1. CASE n = 0
  <2>1. PutLiterals(s, n) = s /\ x = <<>> /\ Cells(n) = 0
    BY <1>1 DEF PutLiterals, Cells
  <2>2. Continues(s, s, n)
    BY <1>1 DEF Continues
  <2>3. Found(s, <<>>, Len(s) + 1)
    BY DEF Found
  <2>. QED
    BY <2>1, <2>2, <2>3
<1>2. CASE n \in 1..3
  <2>. DEFINE w == [s EXCEPT ![Len(s) - 1] = OrLow(@, n)]
              v == Append(w, -n)
  <2>1. x = <<>> /\ Cells(n) = 1 /\ PutLiterals(s, n) = v
    BY <1>2 DEF Cells, PutLiterals
  <2>2. Len(s) - 1 \in 1..Len(s) /\ Len(s) \in Nat
    BY <1>2
  <2>3. OrLow(s[Len(s) - 1], n) \in Int
    BY <2>2 DEF OrLow
  <2>4. /\ w \in Seq(Int) /\ Len(w) = Len(s)
        /\ \A k \in 1..Len(s) :
             w[k] = IF k = Len(s) - 1 THEN OrLow(s[k], n) ELSE s[k]
    BY <2>2, <2>3
  <2>. HIDE DEF w
  <2>5. /\ v \in Seq(Int) /\ Len(v) = Len(s) + 1
        /\ \A k \in 1..Len(s) : v[k] = w[k]
    BY <1>2, <2>4
  <2>. HIDE DEF v
  <2>6. Continues(s, v, n)
    <3>1. Len(v) >= Len(s) /\ n >= 1 /\ n <= 3
      BY <1>2, <2>2, <2>5
    <3>2. \A k \in 1..Len(s) : v[k] = IF k = Len(s) - 1 THEN OrLow(s[k], n) ELSE s[k]
      BY <2>4, <2>5
    <3>. QED
      BY <3>1, <3>2 DEF Continues
  <2>7. Found(v, <<>>, Len(s) + 1)
    BY <2>2, <2>5 DEF Found
  <2>8. Len(<<>>) = 0 /\ Len(s) + 0 + 1 = Len(s) + 1
    BY <2>2
  <2>. QED
    BY <2>1, <2>5, <2>6, <2>7, <2>8
<1>3. CASE n > 3
  <2>. DEFINE v == s \o x
  <2>1. x = LiteralCode(n) /\ Cells(n) = 1
    BY <1>3 DEF Cells
  <2>2. PutLiterals(s, n) = v \o <<-n>>
    BY <1>3, <2>1 DEF PutLiterals
  <2>3. v \in Seq(Int) /\ Len(v) = Len(s) + Len(x) /\ \A k \in 1..Len(s) : v[k] = s[k]
    BY Joins
  <2>4. Found(v, x, Len(s) + 1)
    BY FoundJoined
  <2>. HIDE DEF v
  <2>5. <<-n>> \in Seq(Int) /\ Len(<<-n>>) = 1
    OBVIOUS
  <2>6. /\ v \o <<-n>> \in Seq(Int) /\ Len(v \o <<-n>>) = Len(v) + 1
        /\ \A k \in 1..Len(v) : (v \o <<-n>>)[k] = v[k]
    BY <2>3, <2>5, Joins
  <2>7. Len(s) + 1 \in Nat /\ Len(s) \in Nat /\ Len(x) \in Nat
    OBVIOUS
  <2>8. Found(v \o <<-n>>, x, Len(s) + 1)
    BY <2>3, <2>4, <2>5, <2>7, FoundStays
  <2>9. Continues(s, v \o <<-n>>, n)
    <3>1. Len(v \o <<-n>>) >= Len(s)
      BY <2>3, <2>6, <2>7
    <3>2. ASSUME NEW k \in 1..Len(s) PROVE (v \o <<-n>>)[k] = s[k]
      <4>1. k \in 1..Len(v)
        BY <2>3, <2>7
      <4>. QED
        BY <2>3, <2>6, <4>1
    <3>3. ~(n <= 3)
      BY <1>3
    <3>. QED
      BY <3>1, <3>2, <3>3 DEF Continues
  <2>. QED
    BY <2>1, <2>2, <2>3, <2>6, <2>7, <2>8, <2>9
<1>. QED
  BY <1>1, <1>2, <1>3

LEMMA JoinedAdds ==
    ASSUME NEW s \in Seq(Int), NEW tok \in Tokens, NEW first \in BOOLEAN,
           NEW lead \in Seq(Int), lead = Lead(first, tok),
           NEW code \in Seq(Int), code = Code(tok, 0),
           NEW v \in Seq(Int), Continues(s, v, tok.lits),
           Len(v) = Len(s) + Len(lead) + Cells(tok.lits), Found(v, lead, Len(s) + 1)
    PROVE  v \o code \in Seq(Int) /\ Adds(s, v \o code, first, tok)
<1>1. PICK ls \in Nat, lx \in Nat, lc \in Nat, y \in Nat :
        ls = Len(s) /\ lx = Len(lead) /\ lc = Len(code) /\ y = Cells(tok.lits)
  <2>1. Cells(tok.lits) \in Nat
    BY DEF Cells
  <2>2. Len(s) \in Nat /\ Len(lead) \in Nat /\ Len(code) \in Nat
    OBVIOUS
  <2>. QED
    BY <2>1, <2>2, Zenon
<1>2. /\ v \o code \in Seq(Int) /\ Len(v) = ls + lx + y /\ Len(v \o code) = Len(v) + lc
      /\ \A k \in 1..Len(v) : (v \o code)[k] = v[k]
  BY <1>1, Joins
<1>3. ls + 1 \in Nat /\ ls + lx + y + 1 = ls + 1 + lx + y
  OBVIOUS
<1>4. Found(v \o code, lead, ls + 1)
  BY <1>1, <1>3, FoundStays
<1>5. Found(v \o code, code, ls + 1 + lx + y)
  BY <1>2, <1>3, FoundJoined
<1>6. Continues(s, v \o code, tok.lits)
  <2>1. ls <= ls + lx + y /\ ls <= ls + lx + y + lc
    OBVIOUS
  <2>2. Len(v \o code) >= Len(s)
    BY <1>1, <1>2, <2>1
  <2>3. \A k \in 1..ls : k \in 1..(ls + lx + y)
    OBVIOUS
  <2>4. \A k \in 1..Len(s) : (v \o code)[k] = v[k]
    BY <1>1, <1>2, <2>3
  <2>. QED
    BY <2>2, <2>4 DEF Continues
<1>. QED
  BY <1>1, <1>2, <1>4, <1>5, <1>6 DEF Adds

-----------------------------------------------------------------------------
\* The invariant

Compressing == pc \in {"chunk", "search"}
Reading == {"first", "run", "afterRun", "match", "next"}

\* The stream has a layout, up to the literals that are not yet written.
Laid(c, b, o) ==
    /\ Layout(out, tokens, c, b, o)
    /\ b[Len(tokens) + 1] = written
    /\ Compressing =>
         /\ o[Len(tokens) + 1] = lit
         /\ Len(tokens) # 0 => tokens[Len(tokens)].len # 0
    /\ ~Compressing =>
         /\ o[Len(tokens) + 1] = in_len
         /\ Len(tokens) # 0 /\ tokens[Len(tokens)].len = 0

\* The decompressor has not started.
Waits ==
    /\ at = 1 /\ lost = 0 /\ left = 0 /\ room = 0 /\ op = 0 /\ t = 0 /\ run = 0
    /\ replay = <<>> /\ result = "none"

\* It reads token i, before its lead or before its code.
ReadsAt(c, b, o, i) ==
    LET tok == tokens[i]
        lead == LeadAt(tokens, i)
    IN  /\ result = "none"
        /\ pc = "first" => i = 1
        /\ pc \in {"first", "run", "next"} =>
             /\ at = c[i] /\ left = written - lost - b[i] /\ op = o[i] /\ run = 0
        /\ pc = "run" => tok.lits = 0 \/ (tok.lits > 3 /\ lead = LiteralCode(tok.lits))
        /\ pc = "next" => t = tok.lits /\ t >= 1 /\ lead = <<>>
        /\ pc \in {"match", "afterRun"} =>
             /\ at = CodeCell(tokens, c, i) /\ op = o[i] + tok.lits /\ run = tok.lits
             /\ left = written - lost - (b[i] + Len(lead) + tok.lits) /\ left >= 3

Ended ==
    /\ result \in Codes
    /\ result = "LZO_E_OK" <=> lost = 0 /\ room = in_len
    /\ result = "LZO_E_OK" => Len(replay) = Len(tokens) /\ op = in_len
    /\ run # 0 => Len(replay) < Len(tokens) /\ run = tokens[Len(replay) + 1].lits

Follows(c, b, o) ==
    /\ replay \in Seq(Tokens) /\ Len(replay) <= Len(tokens)
    /\ \A k \in 1..Len(replay) : replay[k] = tokens[k]
    /\ at \in Nat /\ run \in Nat /\ t \in 0..3
    /\ lost \in Nat /\ lost <= written /\ room \in 0..in_len
    /\ left \in Nat /\ op \in Nat /\ op <= room
    /\ pc \in Reading => Len(replay) < Len(tokens) /\ ReadsAt(c, b, o, Len(replay) + 1)
    /\ pc = "end" => Ended

CodecTypes ==
    /\ SizeInv
    /\ in_len \in InputSizes /\ ll <= 49152
    /\ out \in Seq(Int) /\ tokens \in Seq(Tokens)
    /\ pc = "search" /\ Len(tokens) = 0 => lit + 4 <= ip

Phases(c, b, o) ==
    /\ Laid(c, b, o)
    /\ pc \in {"chunk", "search", "done"} => Waits
    /\ pc \notin {"chunk", "search", "done"} => Follows(c, b, o)

CodecInv == CodecTypes /\ \E c, b, o : Phases(c, b, o)

LEMMA CodecAtStart == ASSUME Init PROVE CodecInv
<1>1. CodecTypes
  <2>1. SizeInv
    BY SizeAtStart
  <2>. QED
    BY <2>1 DEF Init, CodecTypes
<1>. DEFINE c == [i \in 1..1 |-> 1]
            b == [i \in 1..1 |-> 0]
<1>2. out = <<>> /\ tokens = <<>> /\ Len(tokens) = 0 /\ Len(out) = 0
  BY DEF Init
<1>3. Rises(c, 1) /\ Rises(b, 1)
  BY DEF Rises
<1>4. Layout(out, tokens, c, b, b)
  <2>1. c \in [1..1 -> Nat] /\ b \in [1..1 -> Nat] /\ c[1] = 1 /\ b[1] = 0
    OBVIOUS
  <2>. HIDE DEF c, b
  <2>2. 1..Len(tokens) = {}
    BY <1>2
  <2>. QED
    BY <1>2, <1>3, <2>1, <2>2 DEF Layout
<1>5. Laid(c, b, b)
  <2>1. b[1] = 0 /\ Len(tokens) + 1 = 1
    BY <1>2
  <2>. HIDE DEF c, b
  <2>. QED
    BY <1>2, <1>4, <2>1 DEF Laid, Init, Compressing
<1>6. Waits /\ pc = "chunk"
  BY DEF Init, Waits
<1>. HIDE DEF c, b
<1>7. Phases(c, b, b)
  BY <1>5, <1>6 DEF Phases
<1>. QED
  BY <1>1, <1>7 DEF CodecInv

-----------------------------------------------------------------------------
\* The compressor keeps it

LEMMA ChunkKeeps == ASSUME CodecInv, Chunk PROVE CodecInv'
<1>1. SizeInv'
  BY SizeKept DEF CodecInv, CodecTypes, Next
<1>2. PICK c, b, o : Phases(c, b, o)
  BY DEF CodecInv
<1>3. CodecTypes'
  <2>1. /\ base \in Nat /\ lit \in Nat /\ lit <= base /\ in_len \in Nat /\ base <= in_len
        /\ pc = "chunk"
    BY DEF CodecInv, CodecTypes, SizeInv, Chunk
  <2>2. /\ ip' = base + (IF base - lit < 4 THEN 4 - (base - lit) ELSE 0) + 1
        /\ ll' = IF in_len - base > MaxChunk THEN MaxChunk ELSE in_len - base
        /\ UNCHANGED <<in_len, lit, out, tokens>>
    BY DEF Chunk
  <2>3. lit' + 4 <= ip' /\ ll' <= 49152
    BY <2>1, <2>2 DEF MaxChunk
  <2>. QED
    BY <1>1, <2>2, <2>3 DEF CodecInv, CodecTypes
<1>4. Laid(c, b, o)'
  BY <1>2 DEF Phases, Laid, Chunk, Compressing
<1>5. Waits'
  BY <1>2 DEF Phases, Waits, Chunk, decompressVars
<1>6. pc' = "search"
  BY DEF Chunk
<1>7. Phases(c, b, o)'
  BY <1>4, <1>5, <1>6 DEF Phases
<1>. QED
  BY <1>3, <1>7 DEF CodecInv

LEMMA EndOfChunkKeeps == ASSUME CodecInv, EndOfChunk PROVE CodecInv'
<1>1. SizeInv'
  BY SizeKept DEF CodecInv, CodecTypes, Next
<1>2. PICK c, b, o : Phases(c, b, o)
  BY DEF CodecInv
<1>3. CodecTypes'
  BY <1>1 DEF CodecInv, CodecTypes, EndOfChunk
<1>4. Laid(c, b, o)'
  BY <1>2 DEF Phases, Laid, EndOfChunk, Compressing
<1>5. Waits'
  BY <1>2 DEF Phases, Waits, EndOfChunk, decompressVars
<1>6. pc' = "chunk"
  BY DEF EndOfChunk
<1>7. Phases(c, b, o)'
  BY <1>4, <1>5, <1>6 DEF Phases
<1>. QED
  BY <1>3, <1>7 DEF CodecInv

\* The stream is empty if and only if no token has been written.
LEMMA StreamOfTokens ==
    ASSUME NEW s \in Seq(Int), NEW ts \in Seq(Tokens), NEW c, NEW b, NEW o,
           Layout(s, ts, c, b, o)
    PROVE  /\ Len(ts) = 0 => Len(s) = 0
           /\ Len(ts) # 0 => Len(s) >= 2
<1>1. PICK N \in Nat, ls \in Nat : N = Len(ts) /\ ls = Len(s)
  OBVIOUS
<1>2. c \in [1..(N + 1) -> Nat] /\ c[1] = 1 /\ c[N + 1] = ls + 1 /\ Rises(c, N + 1)
  BY <1>1 DEF Layout
<1>3. ASSUME N = 0 PROVE ls = 0
  BY <1>2, <1>3
<1>4. ASSUME N # 0 PROVE ls >= 2
  <2>1. N \in 1..N /\ N \in 1..(N + 1) /\ 1 \in 1..(N + 1) /\ 1 <= N
    BY <1>4
  <2>2. TokenAt(s, ts, c, b, o, N)
    BY <1>1, <2>1 DEF Layout
  <2>3. c[N] \in Nat /\ c[N] >= 1
    BY <1>2, <2>1 DEF Rises
  <2>4. PICK x \in Nat, y \in Nat, z \in Nat :
          /\ x = Len(LeadAt(ts, N)) /\ y = Cells(ts[N].lits) /\ z = Len(Code(ts[N], 0))
          /\ z >= 2 /\ c[N + 1] = c[N] + x + y + z
    <3>2. /\ Len(LeadAt(ts, N)) \in Nat /\ Cells(ts[N].lits) \in Nat
          /\ Len(Code(ts[N], 0)) \in Nat /\ Len(Code(ts[N], 0)) >= 2
      BY <1>1, <2>1, <2>2, TokenSizes
    <3>3. c[N + 1] = c[N] + Len(LeadAt(ts, N)) + Cells(ts[N].lits) + Len(Code(ts[N], 0))
      BY <2>2 DEF TokenAt, CodeCell
    <3>. QED
      BY <3>2, <3>3
  <2>. QED
    BY <1>2, <2>3, <2>4
<1>. QED
  BY <1>1, <1>3, <1>4

\* One more token, with its literals in v
LEMMA TokenAdded ==
    ASSUME NEW s \in Seq(Int), NEW ts \in Seq(Tokens), NEW c, NEW b, NEW o,
           Layout(s, ts, c, b, o), NEW tok, MayFollow(ts, o, tok),
           NEW v \in Seq(Int), Continues(s, v, tok.lits),
           Len(v) = Len(s) + Len(Lead(Len(ts) = 0, tok)) + Cells(tok.lits),
           Found(v, Lead(Len(ts) = 0, tok), Len(s) + 1)
    PROVE  /\ v \o Code(tok, 0) \in Seq(Int)
           /\ Grown(v \o Code(tok, 0), ts, b, o, tok)
<1>. DEFINE code == Code(tok, 0)
            first == Len(ts) = 0
<1>1. Sound(tok) /\ tok \in Tokens /\ first \in BOOLEAN
  BY DEF Sound, MayFollow
<1>2. Lead(first, tok) \in Seq(Int)
  <2>. HIDE DEF first
  <2>. QED
    BY <1>1, LeadIsSequence
<1>3. code \in Seq(Int)
  <2>1. LowOnly(Code(tok, 0), Code(tok, 0), 0)
    BY <1>1, CodeIsLow
  <2>. QED
    BY <2>1 DEF LowOnly
<1>. HIDE DEF first
<1>4. /\ Len(v) = Len(s) + Len(Lead(first, tok)) + Cells(tok.lits)
      /\ Found(v, Lead(first, tok), Len(s) + 1)
  BY DEF first
<1>5. v \o code \in Seq(Int) /\ Adds(s, v \o code, first, tok)
  BY <1>1, <1>2, <1>3, <1>4, JoinedAdds
<1>6. Adds(s, v \o code, Len(ts) = 0, tok)
  BY <1>5 DEF first
<1>. QED
  BY <1>5, <1>6, LayoutExtends

\* The form that only the first literals of an input have is not taken.
Plain(ts, tok) == Len(ts) = 0 /\ tok.len = 0 => tok.lits \notin 1..238

LEMMA PlainLead ==
    ASSUME NEW ts \in Seq(Tokens), NEW tok \in Tokens, Plain(ts, tok)
    PROVE  /\ Lead(Len(ts) = 0, tok)
                = IF tok.lits <= 3 THEN <<>> ELSE LiteralCode(tok.lits)
           /\ Len(Lead(Len(ts) = 0, tok)) + tok.lits = LiteralBytes(tok.lits)
<1>1. tok.lits \in Nat
  BY DEF Tokens
<1>2. CASE tok.lits = 0
  <2>1. Lead(Len(ts) = 0, tok) = <<>> /\ LiteralBytes(tok.lits) = 0
    BY <1>2 DEF Lead, LiteralBytes
  <2>. QED
    BY <1>2, <2>1
<1>3. CASE tok.lits # 0
  <2>1. Lead(Len(ts) = 0, tok) = IF tok.lits <= 3 THEN <<>> ELSE LiteralCode(tok.lits)
    <3>1. ~(Len(ts) = 0 /\ tok.len = 0 /\ tok.lits <= 238)
      <4>1. ASSUME tok.lits <= 238 PROVE tok.lits \in 1..238
        <5>1. PICK n \in Nat : n = tok.lits
          BY <1>1
        <5>2. n <= 238 /\ n # 0
          BY <1>3, <4>1, <5>1
        <5>3. n \in 1..238
          BY <5>2
        <5>. QED
          BY <5>1, <5>3
      <4>. QED
        BY <4>1 DEF Plain
    <3>. QED
      BY <1>3, <3>1, Zenon DEF Lead
  <2>2. CASE tok.lits <= 3
    BY <1>1, <2>1, <2>2 DEF LiteralBytes
  <2>3. CASE ~(tok.lits <= 3)
    BY <2>1, <2>3 DEF LiteralBytes
  <2>. QED
    BY <2>1, <2>2, <2>3
<1>. QED
  BY <1>2, <1>3

LEMMA PutToken ==
    ASSUME NEW s \in Seq(Int), NEW ts \in Seq(Tokens), NEW c, NEW b, NEW o,
           Layout(s, ts, c, b, o), NEW tok, MayFollow(ts, o, tok), Plain(ts, tok)
    PROVE  /\ PutLiterals(s, tok.lits) \o Code(tok, 0) \in Seq(Int)
           /\ Grown(PutLiterals(s, tok.lits) \o Code(tok, 0), ts, b, o, tok)
           /\ Len(Lead(Len(ts) = 0, tok)) + tok.lits = LiteralBytes(tok.lits)
<1>1. tok \in Tokens /\ tok.lits \in Nat
  BY DEF MayFollow, Sound, Tokens
<1>2. tok.lits \in 1..3 => Len(s) >= 2
  <2>1. Len(ts) # 0 => Len(s) >= 2
    BY StreamOfTokens
  <2>2. tok.lits \in 1..3 => Len(ts) # 0
    BY DEF MayFollow, Plain
  <2>. QED
    BY <2>1, <2>2
<1>. DEFINE x == IF tok.lits <= 3 THEN <<>> ELSE LiteralCode(tok.lits)
            v == PutLiterals(s, tok.lits)
<1>3. x \in Seq(Int)
  BY <1>1, LiteralIsSequence
<1>4. /\ Lead(Len(ts) = 0, tok) = x
      /\ Len(Lead(Len(ts) = 0, tok)) + tok.lits = LiteralBytes(tok.lits)
  BY <1>1, PlainLead
<1>5. /\ v \in Seq(Int) /\ Continues(s, v, tok.lits)
      /\ Len(v) = Len(s) + Len(x) + Cells(tok.lits) /\ Found(v, x, Len(s) + 1)
  BY <1>1, <1>2, <1>3, PutAdds
<1>. HIDE DEF x, v
<1>6. /\ Len(v) = Len(s) + Len(Lead(Len(ts) = 0, tok)) + Cells(tok.lits)
      /\ Found(v, Lead(Len(ts) = 0, tok), Len(s) + 1)
  BY <1>4, <1>5
<1>7. v \o Code(tok, 0) \in Seq(Int) /\ Grown(v \o Code(tok, 0), ts, b, o, tok)
  BY <1>5, <1>6, TokenAdded
<1>. QED
  BY <1>4, <1>7 DEF v

LEMMA MatchKeeps ==
    ASSUME CodecInv, NEW gap \in Gaps, NEW m_off \in Offsets, NEW m_len \in Lengths,
           Match(gap, m_off, m_len)
    PROVE  CodecInv'
<1>. DEFINE n == ip + gap - lit
            tok == Token(n, m_off, m_len)
<1>1. SizeInv'
  BY SizeKept DEF CodecInv, CodecTypes, Next
<1>2. PICK c, b, o : Phases(c, b, o)
  BY DEF CodecInv
<1>3. /\ pc = "search" /\ gap \in Nat /\ m_len \in Nat /\ m_len >= 4
      /\ m_off \in Nat /\ m_off >= 1
  BY Lzo1xAssumption DEF Match
<1>4. /\ base \in Nat /\ lit \in Nat /\ ip \in Nat /\ ll \in Nat /\ ll <= 49152
      /\ lit <= ip /\ written \in Nat /\ (Len(tokens) = 0 => lit + 4 <= ip)
      /\ out \in Seq(Int) /\ tokens \in Seq(Tokens)
  BY <1>3 DEF CodecInv, CodecTypes, SizeInv
<1>5. ip + gap < base + ll - 20 /\ m_off <= ip + gap - base
  BY DEF Match
<1>6. /\ n \in Nat /\ n + lit = ip + gap /\ (Len(tokens) = 0 => n > 3)
      /\ m_off <= 49151 /\ m_off <= lit + n
  <2>1. (Len(tokens) = 0) \in BOOLEAN
    OBVIOUS
  <2>. QED
    BY <1>3, <1>4, <1>5
<1>7. tok.lits = n /\ tok.off = m_off /\ tok.len = m_len
  BY DEF Token
<1>8. tok \in Tokens
  BY <1>3, <1>6 DEF Token, Tokens
<1>9. Code(tok, 0) = MatchCode(m_off, m_len)
  <2>1. MatchLow(m_off, m_len, 0) = MatchCode(m_off, m_len)
    BY <1>3, PlainCode
  <2>2. m_len # 0
    BY <1>3
  <2>. QED
    BY <1>7, <2>1, <2>2 DEF Code
<1>10. /\ out' = PutLiterals(out, n) \o MatchCode(m_off, m_len)
       /\ written' = written + LiteralBytes(n) + Len(MatchCode(m_off, m_len))
       /\ tokens' = Append(tokens, tok)
       /\ pc' = "search" /\ lit' = lit + n + m_len
       /\ UNCHANGED <<in_len, ll, decompressVars>>
  <2>1. lit' = ip + gap + m_len
    BY DEF Match
  <2>2. lit' = lit + n + m_len
    BY <1>3, <1>4, <1>6, <2>1
  <2>. QED
    BY <1>3, <2>2 DEF Match
<1>. HIDE DEF n, tok
<1>11. /\ Layout(out, tokens, c, b, o) /\ b[Len(tokens) + 1] = written
       /\ o[Len(tokens) + 1] = lit
       /\ Len(tokens) # 0 => tokens[Len(tokens)].len # 0
       /\ Waits
  BY <1>2, <1>3 DEF Phases, Laid, Compressing
<1>12. MayFollow(tokens, o, tok) /\ Plain(tokens, tok)
  <2>1. Sound(tok)
    BY <1>3, <1>6, <1>7, <1>8 DEF Sound
  <2>2. m_len # 0
    BY <1>3
  <2>. QED
    BY <1>6, <1>7, <1>11, <2>1, <2>2 DEF MayFollow, Plain
<1>13. /\ PutLiterals(out, n) \o Code(tok, 0) \in Seq(Int)
       /\ Grown(PutLiterals(out, n) \o Code(tok, 0), tokens, b, o, tok)
       /\ Len(Lead(Len(tokens) = 0, tok)) + n = LiteralBytes(n)
  BY <1>4, <1>7, <1>11, <1>12, PutToken
<1>14. out' \in Seq(Int) /\ Grown(out', tokens, b, o, tok)
  BY <1>9, <1>10, <1>13
<1>15. tokens' \in Seq(Tokens) /\ Len(tokens') = Len(tokens) + 1 /\ Len(tokens) \in Nat
       /\ tokens'[Len(tokens')] = tok
  BY <1>4, <1>8, <1>10
<1>16. PICK d, e, q :
         /\ Layout(out', tokens', d, e, q)
         /\ e[Len(tokens) + 2] = written + Len(Lead(Len(tokens) = 0, tok)) + n
                                   + Len(MatchCode(m_off, m_len))
         /\ q[Len(tokens) + 2] = lit + n + m_len
  BY <1>7, <1>9, <1>10, <1>11, <1>14 DEF Grown
<1>17. written + Len(Lead(Len(tokens) = 0, tok)) + n + Len(MatchCode(m_off, m_len)) = written'
  <2>1. PICK x \in Nat, z \in Nat :
          x = Len(Lead(Len(tokens) = 0, tok)) /\ z = Len(MatchCode(m_off, m_len))
    <3>1. Len(MatchCode(m_off, m_len)) \in Nat
      BY <1>3, MatchBound
    <3>2. Lead(Len(tokens) = 0, tok) = IF n <= 3 THEN <<>> ELSE LiteralCode(n)
      BY <1>4, <1>7, <1>8, <1>12, PlainLead
    <3>3. n > 3 => LiteralCode(n) \in Seq(Int)
      BY <1>6, LiteralIsSequence
    <3>4. Len(Lead(Len(tokens) = 0, tok)) \in Nat
      BY <1>6, <3>2, <3>3
    <3>. QED
      BY <3>1, <3>4
  <2>2. written' = written + (x + n) + z
    BY <1>10, <1>13, <2>1
  <2>. QED
    BY <1>4, <1>6, <2>1, <2>2
<1>18. Len(tokens) + 2 = Len(tokens') + 1
  BY <1>15
<1>19. Laid(d, e, q)'
  <2>1. tokens'[Len(tokens')].len # 0
    BY <1>3, <1>7, <1>15
  <2>2. e[Len(tokens') + 1] = written' /\ q[Len(tokens') + 1] = lit'
    BY <1>10, <1>16, <1>17, <1>18
  <2>. QED
    BY <1>10, <1>16, <2>1, <2>2 DEF Laid, Compressing
<1>20. Waits'
  BY <1>10, <1>11 DEF Waits, decompressVars
<1>21. Phases(d, e, q)'
  BY <1>10, <1>19, <1>20 DEF Phases
<1>22. CodecTypes'
  <2>1. Len(tokens') # 0
    BY <1>15
  <2>. QED
    BY <1>1, <1>10, <1>14, <1>15, <2>1 DEF CodecInv, CodecTypes
<1>. QED
  BY <1>21, <1>22 DEF CodecInv

LEMMA Singles ==
    ASSUME NEW a \in Int, NEW z \in Int
    PROVE  /\ <<a>> \in Seq(Int) /\ Len(<<a>>) = 1 /\ <<a>>[1] = a
           /\ <<a, z>> \in Seq(Int) /\ Len(<<a, z>>) = 2 /\ <<a, z>>[1] = a
  OBVIOUS

\* The last literals after the stream s, and their size
RunCells(s, n) == IF s = <<>> /\ n > 0 /\ n <= 238 THEN <<17 + n, -n>> ELSE PutLiterals(s, n)

RunBytes(s, n) == IF s = <<>> /\ n > 0 /\ n <= 238 THEN n + 1 ELSE LiteralBytes(n)

\* The last token, in either form
LEMMA LastToken ==
    ASSUME NEW s \in Seq(Int), NEW ts \in Seq(Tokens), NEW c, NEW b, NEW o,
           Layout(s, ts, c, b, o), NEW n \in Nat, NEW tok, tok = Token(n, 0, 0),
           MayFollow(ts, o, tok)
    PROVE  /\ RunCells(s, n) \o EndCode \in Seq(Int)
           /\ Grown(RunCells(s, n) \o EndCode, ts, b, o, tok)
           /\ Len(Lead(Len(ts) = 0, tok)) + n = RunBytes(s, n)
<1>1. tok \in Tokens /\ tok.lits = n /\ tok.len = 0 /\ Code(tok, 0) = EndCode
  BY DEF Token, Tokens, Code
<1>2. s = <<>> <=> Len(ts) = 0
  <2>1. Len(ts) = 0 => Len(s) = 0
    BY StreamOfTokens
  <2>2. Len(ts) # 0 => Len(s) >= 2
    BY StreamOfTokens
  <2>3. Len(s) = 0 => s = <<>>
    OBVIOUS
  <2>4. s = <<>> => ~(Len(s) >= 2)
    OBVIOUS
  <2>. QED
    BY <2>1, <2>2, <2>3, <2>4
<1>3. CASE s = <<>> /\ n > 0 /\ n <= 238
  <2>1. Len(ts) = 0 /\ Len(s) = 0
    BY <1>2, <1>3
  <2>2. RunCells(s, n) = <<17 + n, -n>> /\ RunBytes(s, n) = n + 1
    BY <1>3, Zenon DEF RunCells, RunBytes
  <2>3. Lead(Len(ts) = 0, tok) = <<17 + n>>
    <3>1. ~(n = 0)
      BY <1>3
    <3>. QED
      BY <1>1, <1>3, <2>1, <3>1, Zenon DEF Lead
  <2>. DEFINE x == <<17 + n>>
              v == <<17 + n, -n>>
  <2>4. /\ x \in Seq(Int) /\ Len(x) = 1 /\ x[1] = 17 + n
        /\ v \in Seq(Int) /\ Len(v) = 2 /\ v[1] = 17 + n
    <3>1. 17 + n \in Int /\ -n \in Int
      OBVIOUS
    <3>. QED
      BY <3>1, Singles
  <2>. HIDE DEF x, v
  <2>5. Continues(s, v, n)
    <3>1. 1..0 = {} /\ 2 >= 0
      OBVIOUS
    <3>. QED
      BY <2>1, <2>4, <3>1 DEF Continues
  <2>6. Found(v, x, 1) /\ Cells(n) = 1
    BY <1>3, <2>4 DEF Found, Cells
  <2>7. Len(v) = Len(s) + Len(Lead(Len(ts) = 0, tok)) + Cells(tok.lits)
    <3>1. 2 = 0 + 1 + 1
      OBVIOUS
    <3>2. Lead(Len(ts) = 0, tok) = x
      BY <2>3 DEF x
    <3>. QED
      BY <1>1, <2>1, <2>4, <2>6, <3>1, <3>2, Zenon
  <2>8. Found(v, Lead(Len(ts) = 0, tok), Len(s) + 1)
    <3>1. 0 + 1 = 1
      OBVIOUS
    <3>2. Lead(Len(ts) = 0, tok) = x
      BY <2>3 DEF x
    <3>. QED
      BY <2>1, <2>6, <3>1, <3>2, Zenon
  <2>9. v \o Code(tok, 0) \in Seq(Int) /\ Grown(v \o Code(tok, 0), ts, b, o, tok)
    BY <1>1, <2>4, <2>5, <2>7, <2>8, TokenAdded
  <2>10. Len(Lead(Len(ts) = 0, tok)) + n = RunBytes(s, n)
    <3>1. 1 + n = n + 1
      OBVIOUS
    <3>2. Lead(Len(ts) = 0, tok) = x
      BY <2>3 DEF x
    <3>. QED
      BY <2>2, <2>4, <3>1, <3>2, Zenon
  <2>. QED
    BY <1>1, <2>2, <2>9, <2>10 DEF v
<1>4. CASE ~(s = <<>> /\ n > 0 /\ n <= 238)
  <2>1. RunCells(s, n) = PutLiterals(s, tok.lits) /\ RunBytes(s, n) = LiteralBytes(n)
    BY <1>1, <1>4, Zenon DEF RunCells, RunBytes
  <2>2. Plain(ts, tok)
    <3>1. n \in 1..238 => n > 0 /\ n <= 238
      OBVIOUS
    <3>. QED
      BY <1>1, <1>2, <1>4, <3>1, Zenon DEF Plain
  <2>3. /\ PutLiterals(s, tok.lits) \o Code(tok, 0) \in Seq(Int)
        /\ Grown(PutLiterals(s, tok.lits) \o Code(tok, 0), ts, b, o, tok)
        /\ Len(Lead(Len(ts) = 0, tok)) + tok.lits = LiteralBytes(tok.lits)
    BY <2>2, PutToken
  <2>. QED
    BY <1>1, <2>1, <2>3
<1>. QED
  BY <1>3, <1>4

LEMMA LastRunKeeps == ASSUME CodecInv, LastRun PROVE CodecInv'
<1>. DEFINE n == in_len - lit
            tok == Token(n, 0, 0)
            v == LastLiterals(n)
            size == LastBytes(n)
            first == Len(tokens) = 0
<1>1. SizeInv'
  BY SizeKept DEF CodecInv, CodecTypes, Next
<1>2. PICK c, b, o : Phases(c, b, o)
  BY DEF CodecInv
<1>3. /\ pc = "chunk" /\ in_len \in Nat /\ lit \in Nat /\ written \in Nat
      /\ out \in Seq(Int) /\ tokens \in Seq(Tokens) /\ n \in Nat /\ n + lit = in_len
  BY DEF CodecInv, CodecTypes, SizeInv, LastRun
<1>4. /\ tok.lits = n /\ tok.len = 0 /\ tok.off = 0
      /\ tok \in Tokens /\ Code(tok, 0) = EndCode
  BY <1>3 DEF Token, Tokens, Code
<1>5. /\ out' = v \o EndCode /\ written' = written + size + 3
      /\ tokens' = Append(tokens, tok) /\ pc' = "done"
      /\ UNCHANGED <<in_len, ll, decompressVars>> /\ Len(EndCode) = 3
  BY DEF LastRun, EndCode
<1>6. /\ Layout(out, tokens, c, b, o) /\ b[Len(tokens) + 1] = written
      /\ o[Len(tokens) + 1] = lit
      /\ Len(tokens) # 0 => tokens[Len(tokens)].len # 0
      /\ Waits
  BY <1>2, <1>3 DEF Phases, Laid, Compressing
<1>7. MayFollow(tokens, o, tok)
  BY <1>4, <1>6 DEF MayFollow, Sound
<1>8. v = RunCells(out, n) /\ size = RunBytes(out, n) /\ tok = Token(n, 0, 0)
  BY DEF LastLiterals, LastBytes, RunCells, RunBytes
<1>. HIDE DEF n, v, size, tok
<1>9. /\ out' \in Seq(Int) /\ Grown(out', tokens, b, o, tok)
      /\ Len(Lead(Len(tokens) = 0, tok)) + n = size
  BY <1>3, <1>5, <1>6, <1>7, <1>8, LastToken
<1>10. tokens' \in Seq(Tokens) /\ Len(tokens') = Len(tokens) + 1 /\ Len(tokens) \in Nat
       /\ tokens'[Len(tokens')] = tok
  BY <1>3, <1>4, <1>5
<1>11. PICK d, e, q :
         /\ Layout(out', tokens', d, e, q)
         /\ e[Len(tokens) + 2] = written + Len(Lead(Len(tokens) = 0, tok)) + n + 3
         /\ q[Len(tokens) + 2] = lit + n + 0
  <2>1. PICK d, e, q :
          /\ Layout(out', Append(tokens, tok), d, e, q)
          /\ e[Len(tokens) + 2] = b[Len(tokens) + 1] + Len(Lead(Len(tokens) = 0, tok))
                                    + tok.lits + Len(Code(tok, 0))
          /\ q[Len(tokens) + 2] = o[Len(tokens) + 1] + tok.lits + tok.len
    BY <1>9, Zenon DEF Grown
  <2>2. /\ Layout(out', tokens', d, e, q)
        /\ e[Len(tokens) + 2] = written + Len(Lead(Len(tokens) = 0, tok)) + n + 3
        /\ q[Len(tokens) + 2] = lit + n + 0
    BY <1>4, <1>5, <1>6, <2>1, Zenon
  <2>. QED
    BY <2>2, Zenon
<1>12. written + Len(Lead(Len(tokens) = 0, tok)) + n + 3 = written'
  <2>1. Len(Lead(first, tok)) \in Nat
    <3>1. first \in BOOLEAN
      OBVIOUS
    <3>. HIDE DEF first
    <3>. QED
      BY <1>4, <3>1, LeadIsSequence
  <2>2. PICK x \in Nat : x = Len(Lead(Len(tokens) = 0, tok))
    BY <2>1
  <2>3. written' = written + (x + n) + 3
    BY <1>5, <1>9, <2>2
  <2>. QED
    BY <1>3, <2>2, <2>3
<1>13. Len(tokens) + 2 = Len(tokens') + 1 /\ Len(tokens') # 0
  BY <1>10
<1>14. Laid(d, e, q)'
  <2>0. lit + n + 0 = in_len
    BY <1>3
  <2>1. e[Len(tokens') + 1] = written' /\ q[Len(tokens') + 1] = in_len'
    BY <1>5, <1>11, <1>12, <1>13, <2>0, Zenon
  <2>. QED
    BY <1>4, <1>5, <1>10, <1>11, <1>13, <2>1 DEF Laid, Compressing
<1>15. Waits'
  BY <1>5, <1>6 DEF Waits, decompressVars
<1>16. Phases(d, e, q)'
  BY <1>5, <1>14, <1>15 DEF Phases
<1>17. CodecTypes'
  BY <1>1, <1>5, <1>9, <1>10 DEF CodecInv, CodecTypes
<1>. QED
  BY <1>16, <1>17 DEF CodecInv

-----------------------------------------------------------------------------
\* The stream is handed over

\* Where token i begins and ends, in bytes and in output: three bytes or more
\* follow its literals.
Placed(b, o, i) ==
    LET tok == tokens[i]
        lead == Len(LeadAt(tokens, i))
        code == Len(Code(tok, 0))
    IN  /\ b[i] \in Nat /\ b[i + 1] \in Nat /\ b[i + 1] <= written
        /\ b[i] + lead + tok.lits + code = b[i + 1]
        /\ o[i] \in Nat /\ o[i + 1] \in Nat /\ o[i + 1] <= in_len
        /\ o[i] + tok.lits + tok.len = o[i + 1]
        /\ b[i] + lead + tok.lits + 3 <= written
        /\ tok.len = 0 <=> i = Len(tokens)
        /\ i = Len(tokens) => b[i + 1] = written /\ o[i + 1] = in_len /\ code = 3

LEMMA TokenPlaced ==
    ASSUME CodecTypes, NEW c, NEW b, NEW o, Laid(c, b, o), ~Compressing,
           NEW i \in 1..Len(tokens)
    PROVE  Placed(b, o, i) /\ TokenAt(out, tokens, c, b, o, i) /\ c[i] \in Nat
<1>1. PICK N \in Nat : N = Len(tokens)
  BY DEF CodecTypes
<1>2. /\ c \in [1..(N + 1) -> Nat] /\ b \in [1..(N + 1) -> Nat] /\ o \in [1..(N + 1) -> Nat]
      /\ Rises(b, N + 1) /\ Rises(o, N + 1)
      /\ \A k \in 1..N : TokenAt(out, tokens, c, b, o, k)
  BY <1>1 DEF Laid, Layout
<1>3. b[N + 1] = written /\ o[N + 1] = in_len /\ N # 0 /\ tokens[N].len = 0
  BY <1>1 DEF Laid
<1>4. /\ i \in 1..N /\ i \in 1..(N + 1) /\ i + 1 \in 1..(N + 1) /\ N + 1 \in 1..(N + 1)
      /\ N \in 1..N /\ N \in 1..(N + 1)
  BY <1>1, <1>3
<1>5. /\ c[i] \in Nat /\ b[i] \in Nat /\ b[i + 1] \in Nat /\ b[N] \in Nat /\ b[N + 1] \in Nat
      /\ o[i] \in Nat /\ o[i + 1] \in Nat
  BY <1>2, <1>4
<1>6. b[i + 1] <= written /\ o[i + 1] <= in_len /\ (i < N => b[i + 1] <= b[N])
  <2>1. i + 1 <= N + 1 /\ (i < N => i + 1 <= N)
    BY <1>4
  <2>. QED
    BY <1>2, <1>3, <1>4, <2>1 DEF Rises
<1>7. ASSUME NEW k \in 1..N
      PROVE  /\ Len(LeadAt(tokens, k)) \in Nat /\ tokens[k].lits \in Nat
             /\ Len(Code(tokens[k], 0)) \in Nat
             /\ tokens[k].len = 0 => Len(Code(tokens[k], 0)) = 3
             /\ b[k + 1] = b[k] + Len(LeadAt(tokens, k)) + tokens[k].lits
                           + Len(Code(tokens[k], 0))
             /\ o[k + 1] = o[k] + tokens[k].lits + tokens[k].len
             /\ k < N => tokens[k].len # 0
  <2>1. TokenAt(out, tokens, c, b, o, k)
    BY <1>2
  <2>2. tokens \in Seq(Tokens) /\ k \in 1..Len(tokens)
    BY <1>1 DEF CodecTypes
  <2>3. tokens[k] \in Tokens /\ Len(LeadAt(tokens, k)) \in Nat
        /\ Len(Code(tokens[k], 0)) \in Nat
    BY <2>1, <2>2, TokenSizes
  <2>4. tokens[k].lits \in Nat
    BY <2>3 DEF Tokens
  <2>5. tokens[k].len = 0 => Len(Code(tokens[k], 0)) = 3
    BY DEF Code, EndCode
  <2>. QED
    BY <1>1, <2>1, <2>3, <2>4, <2>5 DEF TokenAt
<1>8. b[i] + Len(LeadAt(tokens, i)) + tokens[i].lits + 3 <= written
  <2>1. PICK x \in Nat, n \in Nat, z \in Nat, p \in Nat, r \in Nat :
          /\ x = Len(LeadAt(tokens, i)) /\ n = tokens[i].lits /\ z = Len(Code(tokens[i], 0))
          /\ p = b[i] /\ r = b[i + 1]
    <3>1. /\ Len(LeadAt(tokens, i)) \in Nat /\ tokens[i].lits \in Nat
          /\ Len(Code(tokens[i], 0)) \in Nat
      BY <1>4, <1>7, Zenon
    <3>. QED
      BY <1>5, <3>1, Zenon
  <2>2. r = p + x + n + z
    BY <1>4, <1>7, <2>1, Zenon
  <2>3. CASE i = N
    <3>1. z = 3 /\ r = written
      BY <1>3, <1>4, <1>7, <2>1, <2>3, Zenon
    <3>2. p + x + n + 3 = r
      BY <2>2, <3>1
    <3>3. p + x + n + 3 <= r
      BY <3>2
    <3>. QED
      BY <2>1, <3>1, <3>3, Zenon
  <2>4. CASE i < N
    <3>1. PICK y \in Nat, m \in Nat, q \in Nat, w \in Nat :
            /\ y = Len(LeadAt(tokens, N)) /\ m = tokens[N].lits /\ q = b[N] /\ w = b[N + 1]
      <4>1. Len(LeadAt(tokens, N)) \in Nat /\ tokens[N].lits \in Nat
        BY <1>4, <1>7, Zenon
      <4>. QED
        BY <1>5, <4>1, Zenon
    <3>2. w = q + y + m + Len(Code(tokens[N], 0)) /\ Len(Code(tokens[N], 0)) = 3
      BY <1>3, <1>4, <1>7, <3>1, Zenon
    <3>3. r <= q /\ w = written
      BY <1>3, <1>6, <2>1, <2>4, <3>1, Zenon
    <3>4. w = q + y + m + 3
      BY <3>2
    <3>5. p + x + n + 3 <= w
      BY <2>2, <3>3, <3>4
    <3>. QED
      BY <2>1, <3>3, <3>5, Zenon
  <2>5. i < N \/ i = N
    BY <1>4
  <2>. QED
    BY <2>3, <2>4, <2>5
<1>9. tokens[i].len = 0 <=> i = N
  <2>1. i < N \/ i = N
    BY <1>4
  <2>. QED
    BY <1>3, <1>4, <1>7, <2>1
<1>10. Placed(b, o, i)
  BY <1>1, <1>3, <1>4, <1>5, <1>6, <1>7, <1>8, <1>9 DEF Placed
<1>. QED
  BY <1>2, <1>4, <1>5, <1>10

LEMMA DeliverKeeps ==
    ASSUME CodecInv, NEW loss \in Losses, NEW short \in Shorts, Deliver(loss, short)
    PROVE  CodecInv'
<1>1. SizeInv'
  BY SizeKept DEF CodecInv, CodecTypes, Next
<1>2. PICK c, b, o : Phases(c, b, o)
  BY DEF CodecInv
<1>3. pc = "done" /\ loss \in Nat /\ short \in Nat /\ loss <= written /\ short <= in_len
  BY Lzo1xAssumption DEF Deliver
<1>4. in_len \in Nat /\ written \in Nat
  BY DEF CodecInv, CodecTypes, SizeInv
<1>5. /\ lost' = loss /\ left' = written - loss /\ room' = in_len - short /\ pc' = "first"
      /\ UNCHANGED <<compressVars, at, op, t, run, replay, result>>
  BY DEF Deliver
<1>6. Laid(c, b, o) /\ Waits
  BY <1>2, <1>3 DEF Phases
<1>7. Laid(c, b, o)'
  BY <1>3, <1>5, <1>6 DEF Laid, Compressing, compressVars
<1>8. tokens \in Seq(Tokens) /\ Len(tokens) \in Nat /\ Len(tokens) # 0
  BY <1>3, <1>6 DEF Laid, Compressing, CodecInv, CodecTypes
<1>9. c[1] = 1 /\ b[1] = 0 /\ o[1] = 0
  BY <1>6 DEF Laid, Layout
<1>10. Len(replay) = 0 /\ replay \in Seq(Tokens) /\ replay = <<>>
  BY <1>6 DEF Waits
<1>11. Follows(c, b, o)'
  <2>1. ReadsAt(c, b, o, 1)'
    <3>1. at' = c[1] /\ op' = o[1] /\ run' = 0 /\ result' = "none"
      BY <1>5, <1>6, <1>9 DEF Waits
    <3>2. left' = written' - lost' - b[1]
      BY <1>3, <1>4, <1>5, <1>9 DEF compressVars
    <3>. QED
      BY <1>5, <3>1, <3>2 DEF ReadsAt
  <2>2. /\ replay' = replay /\ tokens' = tokens /\ written' = written /\ in_len' = in_len
        /\ Len(replay') = 0
    BY <1>5, <1>10 DEF compressVars
  <2>3. Len(replay)' + 1 = 1 /\ Len(replay)' < Len(tokens)' /\ Len(replay)' <= Len(tokens)'
        /\ 1..Len(replay)' = {}
    BY <1>8, <2>2
  <2>4. /\ at' \in Nat /\ run' \in Nat /\ t' \in 0..3 /\ op' = 0
    BY <1>5, <1>6 DEF Waits
  <2>5. /\ lost' \in Nat /\ lost' <= written' /\ room' \in 0..in_len' /\ left' \in Nat
        /\ op' \in Nat /\ op' <= room'
    BY <1>3, <1>4, <1>5, <2>2, <2>4
  <2>6. ReadsAt(c, b, o, Len(replay) + 1)'
    BY <2>1, <2>3
  <2>. QED
    BY <1>5, <1>10, <2>2, <2>3, <2>4, <2>5, <2>6 DEF Follows
<1>12. Phases(c, b, o)'
  BY <1>5, <1>7, <1>11 DEF Phases
<1>13. CodecTypes'
  BY <1>1, <1>5 DEF CodecInv, CodecTypes, compressVars
<1>. QED
  BY <1>12, <1>13 DEF CodecInv

-----------------------------------------------------------------------------
\* The decompressor keeps it

LEMMA FollowsKeeps ==
    ASSUME CodecTypes, NEW c, NEW b, NEW o, Phases(c, b, o), pc \in Reading,
           UNCHANGED compressVars, pc' \in Reading \cup {"end"}, Follows(c, b, o)'
    PROVE  CodecInv'
<1>1. SizeInv'
  BY SizeStays DEF CodecTypes, Reading, Decompresses, Places
<1>2. Laid(c, b, o)'
  BY DEF Phases, Laid, Compressing, compressVars, Reading
<1>3. Phases(c, b, o)'
  BY <1>2 DEF Phases, Reading
<1>4. CodecTypes'
  BY <1>1 DEF CodecTypes, compressVars, Reading
<1>. QED
  BY <1>3, <1>4 DEF CodecInv

\* What is known of the token that is read
Current(c, b, o, i) ==
    /\ i \in 1..Len(tokens) /\ i = Len(replay) + 1
    /\ tokens[i] \in Tokens /\ Sound(tokens[i])
    /\ Len(LeadAt(tokens, i)) \in Nat /\ Len(Code(tokens[i], 0)) \in Nat
    /\ Placed(b, o, i) /\ TokenAt(out, tokens, c, b, o, i) /\ c[i] \in Nat
    /\ ReadsAt(c, b, o, i)
    /\ written \in Nat /\ lost \in Nat /\ in_len \in Nat /\ room \in 0..in_len
    /\ lost <= written /\ out \in Seq(Int) /\ tokens \in Seq(Tokens)
    /\ at \in Nat /\ left \in Nat /\ op \in Nat /\ op <= room

LEMMA IsCurrent ==
    ASSUME CodecTypes, NEW c, NEW b, NEW o, Phases(c, b, o), pc \in Reading
    PROVE  \E i \in Nat : Current(c, b, o, i)
<1>1. /\ Laid(c, b, o) /\ ~Compressing /\ Follows(c, b, o)
      /\ ReadsAt(c, b, o, Len(replay) + 1) /\ Len(replay) < Len(tokens)
  BY DEF Phases, Compressing, Reading, Follows
<1>2. PICK N \in Nat, r \in Nat : N = Len(tokens) /\ r = Len(replay) /\ r < N
  BY <1>1 DEF CodecTypes, Follows
<1>. DEFINE i == r + 1
<1>3. i \in 1..Len(tokens) /\ i = Len(replay) + 1 /\ i \in Nat
  BY <1>2
<1>. HIDE DEF i
<1>4. Placed(b, o, i) /\ TokenAt(out, tokens, c, b, o, i) /\ c[i] \in Nat
  BY <1>1, <1>3, TokenPlaced
<1>5. tokens \in Seq(Tokens) /\ out \in Seq(Int)
  BY DEF CodecTypes
<1>6. /\ tokens[i] \in Tokens /\ Sound(tokens[i])
      /\ Len(LeadAt(tokens, i)) \in Nat /\ Len(Code(tokens[i], 0)) \in Nat
  BY <1>3, <1>4, <1>5, TokenSizes
<1>7. ReadsAt(c, b, o, i)
  BY <1>1, <1>3
<1>8. written \in Nat /\ in_len \in Nat
  BY DEF CodecTypes, SizeInv
<1>9. /\ lost \in Nat /\ lost <= written /\ room \in 0..in_len
      /\ at \in Nat /\ left \in Nat /\ op \in Nat /\ op <= room
  BY <1>1 DEF Follows
<1>10. Current(c, b, o, i)
  BY <1>3, <1>4, <1>5, <1>6, <1>7, <1>8, <1>9 DEF Current
<1>. QED
  BY <1>3, <1>10

\* It gives up only a stream that was cut or a buffer that is too small.
LEMMA StopKeeps ==
    ASSUME CodecTypes, NEW c, NEW b, NEW o, Phases(c, b, o), pc \in Reading,
           NEW code \in Codes \ {"LZO_E_OK"}, Stop(code), ~(lost = 0 /\ room = in_len)
    PROVE  CodecInv'
<1>1. PICK i \in Nat : Current(c, b, o, i)
  BY IsCurrent
<1>2. /\ UNCHANGED compressVars
      /\ UNCHANGED <<at, lost, left, room, op, t, run, replay>>
      /\ result' = code /\ pc' = "end"
  BY DEF Stop
<1>3. run # 0 => run = tokens[Len(replay) + 1].lits
  BY <1>1 DEF Current, ReadsAt, Reading
<1>4. Follows(c, b, o) /\ Len(replay) < Len(tokens)
  BY DEF Phases, Reading, Follows
<1>5. Ended'
  BY <1>2, <1>3, <1>4 DEF Ended, compressVars
<1>6. Follows(c, b, o)'
  BY <1>2, <1>4, <1>5 DEF Follows, compressVars, Reading
<1>. QED
  BY <1>2, <1>6, FollowsKeeps

LEMMA OutputNumbers ==
    ASSUME NEW n \in Nat, NEW q \in Nat, NEW r \in Nat, NEW m \in Nat, q + n <= m
    PROVE  /\ r - q < n => r # m
           /\ ~(r - q < n) => q + n \in Nat /\ q + n <= r
  OBVIOUS

LEMMA InputNumbers ==
    ASSUME NEW w \in Nat, NEW l \in Nat, NEW p \in Nat, NEW x \in Nat, NEW n \in Nat,
           p + x + n + 3 <= w
    PROVE  /\ (w - l - p) - x < n + 3 => l # 0
           /\ ~((w - l - p) - x < n + 3) => (w - l - p) - x - n \in Nat
           /\ ~((w - l - p) - x < n + 3) => (w - l - p) - x - n >= 3
           /\ (w - l - p) - x - n = w - l - (p + x + n)
  OBVIOUS

LEMMA SumBelow ==
    ASSUME NEW x \in Nat, NEW n \in Nat, NEW z \in Nat, NEW m \in Nat, x + n + z <= m
    PROVE  x + n <= m
  OBVIOUS

\* All literals of a token
LEMMA LiteralsKeep ==
    ASSUME CodecTypes, NEW c, NEW b, NEW o, Phases(c, b, o),
           pc \in {"first", "run", "next"}, NEW i \in Nat, Current(c, b, o, i),
           NEW n \in Nat, n = tokens[i].lits, n >= 1,
           NEW used \in Nat, used = Len(LeadAt(tokens, i)),
           NEW next \in {"match", "afterRun"}, CopyLiterals(n, used, next)
    PROVE  CodecInv'
<1>1. /\ at = c[i] /\ left = written - lost - b[i] /\ op = o[i] /\ run = 0
      /\ result = "none" /\ pc \in Reading
  BY DEF Current, ReadsAt, Reading
<1>2. /\ written \in Nat /\ lost \in Nat /\ in_len \in Nat /\ room \in 0..in_len
      /\ at \in Nat /\ left \in Nat /\ op \in Nat /\ op <= room
      /\ i \in 1..Len(tokens) /\ i = Len(replay) + 1
  BY DEF Current
<1>3. PICK p \in Nat, q \in Nat : p = b[i] /\ q = o[i] /\ p + used + n + 3 <= written
                                  /\ q + n <= in_len
  <2>1. /\ b[i] \in Nat /\ o[i] \in Nat /\ b[i] + used + n + 3 <= written
        /\ o[i] + n + tokens[i].len = o[i + 1] /\ o[i + 1] <= in_len /\ o[i + 1] \in Nat
    BY DEF Current, Placed
  <2>2. tokens[i].len \in Nat
    BY DEF Current, Tokens
  <2>3. PICK x \in Nat, y \in Nat, z \in Nat :
          x = o[i] /\ y = o[i + 1] /\ z = tokens[i].len /\ x + n + z = y /\ y <= in_len
    BY <2>1, <2>2
  <2>4. x + n <= in_len
    <3>1. x + n + z <= in_len
      BY <2>3, Zenon
    <3>. QED
      BY <1>2, <3>1, SumBelow, Zenon
  <2>. QED
    BY <2>1, <2>3, <2>4, Zenon
<1>0. /\ room - op < n => room # in_len
      /\ left - used < n + 3 => lost # 0
      /\ ~(room - op < n) => op + n \in Nat /\ op + n <= room
      /\ ~(left - used < n + 3) => left - used - n \in Nat /\ left - used - n >= 3
      /\ left - used - n = written - lost - (b[i] + used + n)
  <2>1. room \in Nat
    BY <1>2
  <2>2. op = q /\ left = written - lost - p
    BY <1>1, <1>3, Zenon
  <2>3. /\ room - q < n => room # in_len
        /\ ~(room - q < n) => q + n \in Nat /\ q + n <= room
    BY <1>2, <1>3, <2>1, OutputNumbers, Zenon
  <2>4. /\ (written - lost - p) - used < n + 3 => lost # 0
        /\ ~((written - lost - p) - used < n + 3) =>
             (written - lost - p) - used - n \in Nat
        /\ ~((written - lost - p) - used < n + 3) =>
             (written - lost - p) - used - n >= 3
        /\ (written - lost - p) - used - n = written - lost - (p + used + n)
    <3>1. PICK w \in Nat, l \in Nat : w = written /\ l = lost
      BY <1>2
    <3>2. p + used + n + 3 <= w
      BY <1>3, <3>1, Zenon
    <3>3. /\ (w - l - p) - used < n + 3 => l # 0
          /\ (w - l - p) - used - n = w - l - (p + used + n)
      BY <3>2, InputNumbers
    <3>4. ~((w - l - p) - used < n + 3) => (w - l - p) - used - n \in Nat
      BY <3>2, InputNumbers
    <3>5. ~((w - l - p) - used < n + 3) => (w - l - p) - used - n >= 3
      BY <3>2, InputNumbers
    <3>. QED
      BY <3>1, <3>3, <3>4, <3>5, Zenon
  <2>. QED
    BY <1>3, <2>2, <2>3, <2>4, Zenon
<1>4. CASE room - op < n
  <2>1. Stop("LZO_E_OUTPUT_OVERRUN")
    BY <1>4 DEF CopyLiterals
  <2>2. room # in_len
    BY <1>0, <1>4, Zenon
  <2>. QED
    BY <1>1, <2>1, <2>2, StopKeeps DEF Codes
<1>5. CASE ~(room - op < n) /\ left - used < n + 3
  <2>1. Stop("LZO_E_INPUT_OVERRUN")
    BY <1>5 DEF CopyLiterals
  <2>2. lost # 0
    BY <1>0, <1>5, Zenon
  <2>. QED
    BY <1>1, <2>1, <2>2, StopKeeps DEF Codes
<1>6. CASE ~(room - op < n) /\ ~(left - used < n + 3)
  <2>1. /\ at' = at + used + 1 /\ left' = left - used - n /\ op' = op + n
        /\ run' = run + n /\ pc' = next
        /\ UNCHANGED <<compressVars, lost, room, t, replay, result>>
    BY <1>6 DEF CopyLiterals
  <2>2. /\ at' \in Nat /\ left' \in Nat /\ left' >= 3 /\ op' \in Nat /\ op' <= room
        /\ run' = n
    <3>1. at + used + 1 \in Nat /\ 0 + n = n
      BY <1>2
    <3>. QED
      BY <1>0, <1>1, <1>6, <2>1, <3>1, Zenon
  <2>3. at' = CodeCell(tokens, c, i)
    BY <1>1, <2>1 DEF CodeCell, Cells
  <2>4. left' = written - lost - (b[i] + Len(LeadAt(tokens, i)) + tokens[i].lits)
    BY <1>0, <1>6, <2>1, Zenon
  <2>5. ReadsAt(c, b, o, i)'
    BY <1>1, <2>1, <2>2, <2>3, <2>4 DEF ReadsAt, compressVars
  <2>6. Follows(c, b, o) /\ Len(replay) < Len(tokens) /\ Len(replay) + 1 = i
    BY <1>1, <1>2 DEF Phases, Reading, Follows
  <2>7. Follows(c, b, o)'
    BY <2>1, <2>2, <2>5, <2>6 DEF Follows, compressVars
  <2>. QED
    BY <1>1, <2>1, <2>7, FollowsKeeps DEF Reading
<1>. QED
  BY <1>4, <1>5, <1>6

LEMMA FoundStands ==
    ASSUME NEW x, NEW i, Found(out, x, i) PROVE Stands(x, i) /\ i \in Nat
  BY DEF Found, Stands

\* The code of a number of literals is read back.
LEMMA LiteralIsReadBack ==
    ASSUME NEW n \in Nat, n > 3, at \in Nat, Len(out) \in Nat, Stands(LiteralCode(n), at)
    PROVE  /\ n <= 18 => /\ out[at] = n - 3 /\ Len(LiteralCode(n)) = 1
           /\ n > 18 => /\ out[at] = 0 /\ ZerosAt(at + 1) \in Nat
                        /\ LongAt(at + 1) + 18 = n
                        /\ 2 + ZerosAt(at + 1) = Len(LiteralCode(n))
<1>1. CASE n <= 18
  <2>1. LiteralCode(n) = <<n - 3>>
    BY <1>1 DEF LiteralCode
  <2>2. out[at + 1 - 1] = n - 3 /\ at + 1 - 1 = at
    BY <2>1 DEF Stands
  <2>. QED
    BY <1>1, <2>1, <2>2
<1>2. CASE n > 18
  <2>. DEFINE k == n - 18
  <2>1. k \in Nat /\ k >= 1 /\ k + 18 = n
    BY <1>2
  <2>2. LiteralCode(n) = <<0>> \o Long(k)
    BY <1>2 DEF LiteralCode
  <2>. HIDE DEF k
  <2>3. Long(k) \in Seq(Int) /\ Long(k) # <<>> /\ Len(Long(k)) \in Nat
    <3>1. Long(k) \in Seq(Int) /\ Len(Long(k)) = (k - 1) \div 255 + 1
      BY <2>1, LongLength
    <3>2. (k - 1) \div 255 + 1 \in Nat /\ (k - 1) \div 255 + 1 # 0
      BY <2>1
    <3>. QED
      BY <3>1, <3>2
  <2>4. <<0>> \in Seq(Int) /\ Len(<<0>>) = 1 /\ <<0>>[1] = 0
    OBVIOUS
  <2>5. Stands(<<0>>, at) /\ Stands(Long(k), at + 1)
    BY <2>2, <2>3, <2>4, StandsSplit
  <2>6. out[at] = 0
    BY <2>4, <2>5 DEF Stands
  <2>7. LongAt(at + 1) = k /\ ZerosAt(at + 1) + 1 = Len(Long(k)) /\ ZerosAt(at + 1) \in Nat
    BY <2>1, <2>5, LongIsReadBack
  <2>8. Len(LiteralCode(n)) = Len(Long(k)) + 1
    BY <2>2, <2>3, Prefixed
  <2>9. 2 + ZerosAt(at + 1) = Len(LiteralCode(n))
    BY <2>7, <2>8
  <2>. QED
    BY <1>2, <2>1, <2>6, <2>7, <2>9
<1>. QED
  BY <1>1, <1>2

\* No code of a match begins like a number of literals.
LEMMA LengthBegins ==
    ASSUME NEW marker \in Nat, NEW max \in Nat, NEW m \in Nat, m >= 3
    PROVE  /\ Len(LengthCode(marker, max, m)) \in Nat /\ Len(LengthCode(marker, max, m)) >= 1
           /\ LengthCode(marker, max, m)[1] \in Nat
           /\ LengthCode(marker, max, m)[1] >= marker
<1>1. CASE m <= max
  BY <1>1 DEF LengthCode
<1>2. CASE m > max
  <2>1. Long(m - max) \in Seq(Int) /\ <<marker>> \in Seq(Int)
        /\ Len(<<marker>>) = 1 /\ <<marker>>[1] = marker
    BY <1>2, LongLength
  <2>2. LengthCode(marker, max, m) = <<marker>> \o Long(m - max)
    BY <1>2 DEF LengthCode
  <2>3. /\ Len(<<marker>> \o Long(m - max)) = 1 + Len(Long(m - max))
        /\ Len(Long(m - max)) \in Nat /\ (<<marker>> \o Long(m - max))[1] = <<marker>>[1]
    <3>1. 1 \in 1..Len(<<marker>>)
      BY <2>1
    <3>. QED
      BY <2>1, <3>1, Joins
  <2>. QED
    BY <2>1, <2>2, <2>3
<1>. QED
  BY <1>1, <1>2

LEMMA FarBegins ==
    ASSUME NEW marker \in Nat, NEW max \in Nat, NEW m \in Nat, m >= 3, NEW o \in Nat,
           NEW low \in Nat
    PROVE  /\ (LengthCode(marker, max, m) \o OffsetLow(o, low))[1] \in Nat
           /\ (LengthCode(marker, max, m) \o OffsetLow(o, low))[1] >= marker
<1>. DEFINE l == LengthCode(marker, max, m)
            d == OffsetLow(o, low)
<1>1. l \in Seq(Int) /\ Len(l) \in Nat /\ Len(l) >= 1 /\ l[1] \in Nat /\ l[1] >= marker
  BY LengthBegins, LengthIsSequence
<1>2. d \in Seq(Int)
  BY DEF OffsetLow
<1>. HIDE DEF l, d
<1>3. 1 \in 1..Len(l)
  BY <1>1
<1>4. (l \o d)[1] = l[1]
  BY <1>1, <1>2, <1>3, Joins
<1>. QED
  BY <1>1, <1>4 DEF l, d

LEMMA CodeBegins ==
    ASSUME NEW tok, Sound(tok), NEW low \in Nat, low <= 3
    PROVE  /\ Code(tok, low)[1] \in Nat /\ Code(tok, low)[1] >= 16
           /\ tok.len = 0 => Code(tok, low)[1] = 17
<1>1. CASE tok.len = 0
  BY <1>1 DEF Code, EndCode, M4_MARKER
<1>2. CASE tok.len # 0
  <2>1. PICK m_off \in Nat, m_len \in Nat :
          m_off = tok.off /\ m_len = tok.len /\ m_off >= 1 /\ m_len >= 3
    BY <1>2 DEF Sound, Tokens
  <2>2. Code(tok, low) = MatchLow(m_off, m_len, low)
    BY <1>2, <2>1 DEF Code
  <2>3. CASE m_len <= M2_MAX_LEN /\ m_off <= M2_MAX_OFFSET
    <3>1. MatchLow(m_off, m_len, low)[1] = (m_len - 1) * 32 + ((m_off - 1) % 8) * 4 + low
      BY <2>3 DEF MatchLow
    <3>2. (m_len - 1) * 32 \in Nat /\ (m_len - 1) * 32 >= 64 /\ ((m_off - 1) % 8) * 4 \in Nat
      BY <2>1
    <3>3. PICK x \in Nat, y \in Nat :
            x = (m_len - 1) * 32 /\ y = ((m_off - 1) % 8) * 4 /\ x >= 64
      BY <3>2
    <3>4. x + y + low \in Nat /\ x + y + low >= 16
      BY <3>3
    <3>. QED
      BY <1>2, <2>2, <3>1, <3>3, <3>4, Zenon
  <2>4. CASE ~(m_len <= M2_MAX_LEN /\ m_off <= M2_MAX_OFFSET) /\ m_off <= M3_MAX_OFFSET
    <3>1. m_off - 1 \in Nat /\ M3_MARKER \in Nat /\ M3_MAX_LEN \in Nat /\ M3_MARKER >= 16
      BY <2>1 DEF M3_MARKER, M3_MAX_LEN
    <3>2. MatchLow(m_off, m_len, low)
            = LengthCode(M3_MARKER, M3_MAX_LEN, m_len) \o OffsetLow(m_off - 1, low)
      BY <2>4 DEF MatchLow
    <3>3. PICK x \in Nat : x = Code(tok, low)[1] /\ x >= M3_MARKER
      <4>1. PICK k \in Nat, g \in Nat, o \in Nat :
              k = M3_MARKER /\ g = M3_MAX_LEN /\ o = m_off - 1
        BY <3>1
      <4>2. /\ (LengthCode(k, g, m_len) \o OffsetLow(o, low))[1] \in Nat
            /\ (LengthCode(k, g, m_len) \o OffsetLow(o, low))[1] >= k
        BY <2>1, FarBegins
      <4>. QED
        BY <2>2, <3>2, <4>1, <4>2
    <3>4. x >= 16
      BY <3>3 DEF M3_MARKER
    <3>. QED
      BY <1>2, <3>3, <3>4, Zenon
  <2>5. CASE ~(m_len <= M2_MAX_LEN /\ m_off <= M2_MAX_OFFSET) /\ ~(m_off <= M3_MAX_OFFSET)
    <3>. DEFINE o == m_off - 16384
                k == M4_MARKER + 8 * ((o \div 16384) % 2)
    <3>1. o \in Nat /\ k \in Nat /\ k >= 16 /\ M4_MAX_LEN \in Nat
      BY <2>5 DEF M4_MARKER, M4_MAX_LEN, M3_MAX_OFFSET
    <3>2. MatchLow(m_off, m_len, low) = LengthCode(k, M4_MAX_LEN, m_len) \o OffsetLow(o, low)
      BY <2>5 DEF MatchLow
    <3>. HIDE DEF o, k
    <3>3. PICK x \in Nat : x = Code(tok, low)[1] /\ x >= k
      BY <2>1, <2>2, <3>1, <3>2, FarBegins
    <3>4. x >= 16
      BY <3>1, <3>3
    <3>. QED
      BY <1>2, <3>3, <3>4, Zenon
  <2>. QED
    BY <2>3, <2>4, <2>5
<1>. QED
  BY <1>1, <1>2

LEMMA LeftShort ==
    ASSUME NEW w \in Nat, NEW l \in Nat, NEW p \in Nat, NEW x \in Nat, NEW n \in Nat,
           NEW k \in Nat, p + x + n + k <= w
    PROVE  (w - l - (p + x + n)) < k => l # 0
  OBVIOUS

\* The whole stream is there: a token has three bytes or more before it ends.
LEMMA ThreeAreThere ==
    ASSUME NEW c, NEW b, NEW o, NEW i, Current(c, b, o, i),
           left = written - lost - b[i], left < 3
    PROVE  lost # 0
<1>1. PICK w \in Nat, l \in Nat, p \in Nat, x \in Nat, n \in Nat :
        /\ w = written /\ l = lost /\ p = b[i] /\ x = Len(LeadAt(tokens, i))
        /\ n = tokens[i].lits
  <2>1. /\ written \in Nat /\ lost \in Nat /\ b[i] \in Nat /\ Len(LeadAt(tokens, i)) \in Nat
    BY DEF Current, Placed
  <2>2. tokens[i].lits \in Nat
    BY DEF Current, Tokens
  <2>. QED
    BY <2>1, <2>2, Zenon
<1>2. p + x + n + 3 <= w
  BY <1>1, Zenon DEF Current, Placed
<1>3. w - l - p < 3
  BY <1>1, Zenon
<1>4. l # 0
  BY <1>2, <1>3
<1>. QED
  BY <1>1, <1>4

\* The next instruction is taken for what it is, and nothing has been read.
LEMMA PlaceKeeps ==
    ASSUME CodecTypes, NEW c, NEW b, NEW o, Phases(c, b, o), NEW i \in Nat,
           Current(c, b, o, i), pc \in Reading, pc' \in Reading,
           UNCHANGED <<compressVars, decompressVars>>, ReadsAt(c, b, o, i)'
    PROVE  CodecInv'
<1>1. Follows(c, b, o) /\ Len(replay) < Len(tokens) /\ Len(replay) + 1 = i
  BY DEF Phases, Reading, Follows, Current
<1>2. pc' # "end" /\ Len(replay)' + 1 = i /\ Len(replay)' < Len(tokens)'
  BY <1>1 DEF Reading, decompressVars, compressVars
<1>3. Follows(c, b, o)'
  BY <1>1, <1>2 DEF Follows, compressVars, decompressVars
<1>. QED
  BY <1>3, FollowsKeeps

\* The token has no literals before its code: the code begins where it is read.
Bare(i) == tokens[i].lits = 0

LEMMA NoLiterals ==
    ASSUME NEW c, NEW b, NEW o, NEW i \in Nat, Current(c, b, o, i), Bare(i)
    PROVE  /\ LeadAt(tokens, i) = <<>> /\ CodeCell(tokens, c, i) = c[i]
           /\ out[c[i]] \in Nat /\ out[c[i]] >= 16
           /\ tokens[i].len = 0 => out[c[i]] = 17
<1>1. LeadAt(tokens, i) = <<>>
  BY DEF LeadAt, Lead, Bare
<1>2. c[i] \in Nat
  BY DEF Current
<1>3. CodeCell(tokens, c, i) = c[i]
  BY <1>1, <1>2 DEF CodeCell, Cells, Bare
<1>4. PICK low \in Nat : low = LowAt(tokens, i) /\ low <= 3
  BY TokenSizes DEF Current
<1>5. Sound(tokens[i]) /\ Found(out, Code(tokens[i], low), c[i])
  BY <1>3, <1>4 DEF Current, TokenAt
<1>. DEFINE x == Code(tokens[i], low)
<1>6. x[1] \in Nat /\ x[1] >= 16 /\ (tokens[i].len = 0 => x[1] = 17)
  BY <1>4, <1>5, CodeBegins
<1>7. Len(x) \in Nat /\ Len(x) >= 2
  <2>1. LowOnly(Code(tokens[i], 0), x, low)
    BY <1>4, TokenSizes DEF Current
  <2>2. Len(Code(tokens[i], 0)) \in Nat /\ Len(Code(tokens[i], 0)) >= 2
    BY TokenSizes DEF Current
  <2>. QED
    BY <2>1, <2>2 DEF LowOnly
<1>. HIDE DEF x
<1>8. out[c[i]] = x[1]
  <2>1. 1 \in 1..Len(x) /\ c[i] + 1 - 1 = c[i]
    BY <1>2, <1>7
  <2>2. Found(out, x, c[i])
    BY <1>5 DEF x
  <2>3. out[c[i] + 1 - 1] = x[1]
    BY <2>1, <2>2 DEF Found
  <2>. QED
    BY <2>1, <2>3
<1>. QED
  BY <1>1, <1>3, <1>6, <1>8

LEMMA MatchNextKeeps == ASSUME CodecInv, MatchNext PROVE CodecInv'
<1>1. PICK c, b, o : Phases(c, b, o)
  BY DEF CodecInv
<1>2. CodecTypes /\ pc = "next" /\ CopyLiterals(t, 0, "match")
  BY DEF CodecInv, MatchNext
<1>3. PICK i \in Nat : Current(c, b, o, i)
  BY <1>1, <1>2, IsCurrent DEF Reading
<1>4. t = tokens[i].lits /\ t >= 1 /\ LeadAt(tokens, i) = <<>>
  BY <1>2, <1>3 DEF Current, ReadsAt
<1>5. PICK n \in Nat : n = t
  BY <1>3, <1>4 DEF Current, Tokens
<1>6. n = tokens[i].lits /\ n >= 1 /\ 0 = Len(LeadAt(tokens, i)) /\ 0 \in Nat
      /\ CopyLiterals(n, 0, "match")
  BY <1>2, <1>4, <1>5
<1>. QED
  BY <1>1, <1>2, <1>3, <1>6, LiteralsKeep

LEMMA FirstKeeps == ASSUME CodecInv, First PROVE CodecInv'
<1>1. PICK c, b, o : Phases(c, b, o)
  BY DEF CodecInv
<1>2. CodecTypes /\ pc = "first" /\ pc \in Reading
  BY DEF CodecInv, First, Reading
<1>3. PICK i \in Nat : Current(c, b, o, i)
  BY <1>1, <1>2, IsCurrent
<1>4. /\ i = 1 /\ at = c[i] /\ left = written - lost - b[i] /\ op = o[i] /\ run = 0
      /\ result = "none"
  BY <1>2, <1>3 DEF Current, ReadsAt
<1>5. c[i] = 1
  BY <1>1, <1>4 DEF Phases, Laid, Layout
<1>6. PICK n \in Nat : n = tokens[i].lits
  BY <1>3 DEF Current, Tokens
<1>. DEFINE special == n # 0 /\ tokens[i].len = 0 /\ n <= 238
<1>7. LeadAt(tokens, i) = Lead(TRUE, tokens[i])
  BY <1>4 DEF LeadAt
<1>8. tokens[i].len # 0 => n > 3
  BY <1>3, <1>4, <1>6 DEF Current, TokenAt
<1>9. left \in Nat
  BY <1>3 DEF Current
<1>10. CASE left < 1
  <2>1. Stop("LZO_E_INPUT_OVERRUN")
    BY <1>10 DEF First
  <2>2. left < 3
    BY <1>9, <1>10
  <2>3. lost # 0
    BY <1>3, <1>4, <2>2, ThreeAreThere
  <2>. QED
    BY <1>1, <1>2, <2>1, <2>3, StopKeeps DEF Codes
<1>11. CASE ~(left < 1) /\ special
  <2>1. LeadAt(tokens, i) = <<17 + n>>
    BY <1>6, <1>7, <1>11, Zenon DEF Lead
  <2>. DEFINE x == <<17 + n>>
  <2>2. Len(x) = 1 /\ x[1] = 17 + n
    OBVIOUS
  <2>3. Found(out, LeadAt(tokens, i), c[i])
    BY <1>3 DEF Current, TokenAt
  <2>4. out[1] = 17 + n
    <3>1. Found(out, x, 1)
      BY <1>5, <2>1, <2>3
    <3>. HIDE DEF x
    <3>2. 1 \in 1..1 /\ 1 + 1 - 1 = 1
      OBVIOUS
    <3>3. out[1 + 1 - 1] = x[1]
      BY <2>2, <3>1, <3>2, Zenon DEF Found
    <3>. QED
      BY <2>2, <3>2, <3>3, Zenon
  <2>5. out[1] > 17 /\ out[1] - 17 = n /\ n >= 1
    BY <1>11, <2>4
  <2>6. \E next \in {"match", "afterRun"} : CopyLiterals(n, 1, next)
    BY <1>11, <2>5 DEF First
  <2>7. 1 = Len(LeadAt(tokens, i)) /\ 1 \in Nat
    BY <2>1, <2>2
  <2>. QED
    BY <1>1, <1>2, <1>3, <1>6, <2>5, <2>6, <2>7, LiteralsKeep
<1>12. CASE ~(left < 1) /\ ~special
  <2>1. n = 0 \/ (n > 3 /\ LeadAt(tokens, i) = LiteralCode(n))
    <3>1. n = 0 \/ n > 3
      BY <1>8, <1>12
    <3>2. n > 3 => n # 0 /\ ~(n <= 3)
      OBVIOUS
    <3>3. n > 3 => LeadAt(tokens, i) = LiteralCode(n)
      BY <1>6, <1>7, <1>12, <3>2, Zenon DEF Lead
    <3>. QED
      BY <3>1, <3>3
  <2>2. ~(out[1] > 17)
    <3>1. CASE n = 0
      <4>1. tokens[i].len = 0
        BY <1>8, <3>1
      <4>0. Bare(i)
        BY <1>6, <3>1 DEF Bare
      <4>2. out[c[i]] = 17
        BY <1>3, <4>0, <4>1, NoLiterals, Zenon
      <4>. QED
        BY <1>5, <4>2
    <3>2. CASE n > 3 /\ LeadAt(tokens, i) = LiteralCode(n)
      <4>1. Found(out, LiteralCode(n), c[i])
        BY <1>3, <3>2 DEF Current, TokenAt
      <4>2. Stands(LiteralCode(n), at) /\ at \in Nat
        BY <1>4, <4>1, FoundStands
      <4>3. Len(out) \in Nat
        BY <1>3 DEF Current
      <4>4. (n <= 18 => out[at] = n - 3) /\ (n > 18 => out[at] = 0)
        BY <3>2, <4>2, <4>3, LiteralIsReadBack
      <4>5. (n <= 18 => out[1] = n - 3) /\ (n > 18 => out[1] = 0)
        BY <1>4, <1>5, <4>4
      <4>. QED
        BY <4>5
    <3>. QED
      BY <2>1, <3>1, <3>2
  <2>3. pc' = "run" /\ UNCHANGED <<compressVars, decompressVars>>
    BY <1>12, <2>2 DEF First
  <2>4. ReadsAt(c, b, o, i)'
    BY <1>4, <1>6, <2>1, <2>3 DEF ReadsAt, compressVars, decompressVars
  <2>. QED
    BY <1>1, <1>2, <1>3, <2>3, <2>4, PlaceKeeps DEF Reading
<1>. QED
  BY <1>10, <1>11, <1>12

LEMMA NumberMissing ==
    ASSUME NEW w \in Nat, NEW l \in Nat, NEW p \in Nat, NEW z \in Nat, NEW n \in Nat,
           p + (2 + z) + n + 3 <= w, (w - l - p) - 1 - z < 1
    PROVE  l # 0
  OBVIOUS

LEMMA RunKeeps == ASSUME CodecInv, Run PROVE CodecInv'
<1>1. PICK c, b, o : Phases(c, b, o)
  BY DEF CodecInv
<1>2. CodecTypes /\ pc = "run" /\ pc \in Reading
  BY DEF CodecInv, Run, Reading
<1>3. PICK i \in Nat : Current(c, b, o, i)
  BY <1>1, <1>2, IsCurrent
<1>4. /\ at = c[i] /\ left = written - lost - b[i] /\ op = o[i] /\ run = 0
      /\ result = "none" /\ at \in Nat /\ left \in Nat
  BY <1>2, <1>3 DEF Current, ReadsAt
<1>5. PICK n \in Nat : n = tokens[i].lits
  BY <1>3 DEF Current, Tokens
<1>6. n = 0 \/ (n > 3 /\ LeadAt(tokens, i) = LiteralCode(n))
  BY <1>2, <1>3, <1>5 DEF Current, ReadsAt
<1>7. CASE left < 3
  <2>1. Stop("LZO_E_INPUT_OVERRUN")
    BY <1>7 DEF Run
  <2>2. lost # 0
    BY <1>3, <1>4, <1>7, ThreeAreThere
  <2>. QED
    BY <1>1, <1>2, <2>1, <2>2, StopKeeps DEF Codes
<1>8. CASE ~(left < 3) /\ n = 0
  <2>1. /\ LeadAt(tokens, i) = <<>> /\ CodeCell(tokens, c, i) = at /\ out[at] >= 16
    <3>1. Bare(i)
      BY <1>5, <1>8 DEF Bare
    <3>2. /\ LeadAt(tokens, i) = <<>> /\ CodeCell(tokens, c, i) = c[i] /\ out[c[i]] >= 16
      BY <1>3, <3>1, NoLiterals, Zenon
    <3>. QED
      BY <1>4, <3>2, Zenon
  <2>2. pc' = "match" /\ UNCHANGED <<compressVars, decompressVars>>
    BY <1>8, <2>1 DEF Run
  <2>3. op = o[i] + tokens[i].lits /\ left >= 3
        /\ left = written - lost - (b[i] + Len(LeadAt(tokens, i)) + tokens[i].lits)
    <3>1. Len(LeadAt(tokens, i)) = 0
      BY <2>1
    <3>2. o[i] + 0 = o[i] /\ b[i] + 0 + 0 = b[i]
      BY <1>3 DEF Current, Placed
    <3>3. left >= 3
      BY <1>4, <1>8
    <3>. QED
      BY <1>4, <1>5, <1>8, <3>1, <3>2, <3>3, Zenon
  <2>4. ReadsAt(c, b, o, i)'
    BY <1>4, <1>5, <1>8, <2>1, <2>2, <2>3 DEF ReadsAt, compressVars, decompressVars
  <2>. QED
    BY <1>1, <1>2, <1>3, <2>2, <2>4, PlaceKeeps DEF Reading
<1>9. CASE ~(left < 3) /\ n > 3 /\ LeadAt(tokens, i) = LiteralCode(n)
  <2>1. Found(out, LiteralCode(n), c[i])
    BY <1>3, <1>9 DEF Current, TokenAt
  <2>2. Stands(LiteralCode(n), at)
    BY <1>4, <2>1, FoundStands
  <2>3. Len(out) \in Nat
    BY <1>3 DEF Current
  <2>4. CASE n <= 18
    <3>1. out[at] = n - 3 /\ Len(LiteralCode(n)) = 1
      BY <1>4, <1>9, <2>2, <2>3, <2>4, LiteralIsReadBack
    <3>2. ~(out[at] >= 16) /\ out[at] # 0 /\ out[at] + 3 = n
      BY <1>9, <2>4, <3>1
    <3>3. CopyLiterals(n, 1, "afterRun")
      BY <1>9, <3>2 DEF Run
    <3>4. n >= 1 /\ 1 \in Nat /\ 1 = Len(LeadAt(tokens, i))
      BY <1>9, <3>1
    <3>. QED
      BY <1>1, <1>2, <1>3, <1>5, <3>3, <3>4, LiteralsKeep
  <2>5. CASE n > 18
    <3>1. /\ out[at] = 0 /\ ZerosAt(at + 1) \in Nat /\ LongAt(at + 1) + 18 = n
          /\ 2 + ZerosAt(at + 1) = Len(LiteralCode(n))
      BY <1>4, <1>9, <2>2, <2>3, <2>5, LiteralIsReadBack
    <3>2. PICK z \in Nat, used \in Nat :
            z = ZerosAt(at + 1) /\ used = 2 + z /\ used = Len(LeadAt(tokens, i))
      BY <1>9, <3>1
    <3>3. n >= 1
      BY <2>5
    <3>4. CASE left - 1 - z < 1
      <4>1. Stop("LZO_E_INPUT_OVERRUN")
        BY <1>9, <3>1, <3>2, <3>4 DEF Run
      <4>2. PICK w \in Nat, l \in Nat, p \in Nat : w = written /\ l = lost /\ p = b[i]
        BY <1>3 DEF Current, Placed
      <4>3. p + used + n + 3 <= w
        BY <1>3, <1>5, <3>2, <4>2, Zenon DEF Current, Placed
      <4>4. (w - l - p) - 1 - z < 1
        BY <1>4, <3>4, <4>2, Zenon
      <4>5. l # 0
        <5>1. p + (2 + z) + n + 3 <= w
          BY <3>2, <4>3, Zenon
        <5>. QED
          BY <4>4, <5>1, NumberMissing
      <4>. QED
        BY <1>1, <1>2, <4>1, <4>2, <4>5, StopKeeps DEF Codes
    <3>5. CASE ~(left - 1 - z < 1)
      <4>1. CopyLiterals(n, used, "afterRun")
        BY <1>9, <3>1, <3>2, <3>5 DEF Run
      <4>. QED
        BY <1>1, <1>2, <1>3, <1>5, <3>2, <3>3, <4>1, LiteralsKeep
    <3>. QED
      BY <3>4, <3>5
  <2>. QED
    BY <2>4, <2>5
<1>. QED
  BY <1>6, <1>7, <1>8, <1>9

\* The code of the current token stands where it is read.
LEMMA CodeIsHere ==
    ASSUME NEW c, NEW b, NEW o, NEW i \in Nat, Current(c, b, o, i),
           pc \in {"match", "afterRun"}
    PROVE  \E low \in Nat :
             /\ low = LowAt(tokens, i) /\ low <= 3
             /\ Stands(Code(tokens[i], low), at)
             /\ Len(Code(tokens[i], low)) = Len(Code(tokens[i], 0))
             /\ out[at] \in Nat /\ out[at] >= 16
<1>1. PICK low \in Nat : low = LowAt(tokens, i) /\ low <= 3
  BY TokenSizes DEF Current
<1>. DEFINE x == Code(tokens[i], low)
<1>2. at = CodeCell(tokens, c, i) /\ Sound(tokens[i])
  BY DEF Current, ReadsAt
<1>3. Found(out, x, at)
  BY <1>1, <1>2 DEF Current, TokenAt
<1>4. Len(x) = Len(Code(tokens[i], 0)) /\ Len(x) \in Nat /\ Len(x) >= 2
  <2>1. LowOnly(Code(tokens[i], 0), x, low)
    BY <1>1, TokenSizes DEF Current
  <2>2. Len(Code(tokens[i], 0)) \in Nat /\ Len(Code(tokens[i], 0)) >= 2
    BY TokenSizes DEF Current
  <2>. QED
    BY <2>1, <2>2 DEF LowOnly
<1>5. x[1] \in Nat /\ x[1] >= 16
  BY <1>1, <1>2, CodeBegins
<1>. HIDE DEF x
<1>6. Stands(x, at) /\ at \in Nat
  BY <1>3, FoundStands
<1>7. out[at] = x[1]
  <2>1. 1 \in 1..Len(x) /\ at + 1 - 1 = at
    BY <1>4, <1>6
  <2>2. out[at + 1 - 1] = x[1]
    BY <1>3, <2>1 DEF Found
  <2>. QED
    BY <2>1, <2>2
<1>. QED
  BY <1>1, <1>4, <1>5, <1>6, <1>7 DEF x

\* The end marker is read as such.
LEMMA EndIsReadBack ==
    ASSUME at \in Nat, Stands(EndCode, at)
    PROVE  IsEnd /\ ~LengthMissing /\ M4.bytes = 3
<1>1. EndCode = <<17, 0, 0>> /\ Len(EndCode) = 3
  BY DEF EndCode, M4_MARKER
<1>2. out[at + 1 - 1] = 17 /\ out[at + 2 - 1] = 0 /\ out[at + 3 - 1] = 0
  BY <1>1 DEF Stands
<1>3. out[at] = 17 /\ out[at + 1] = 0 /\ out[at + 1 + 1] = 0
  <2>1. at + 1 - 1 = at /\ at + 2 - 1 = at + 1 /\ at + 3 - 1 = at + 1 + 1
    OBVIOUS
  <2>. QED
    BY <1>2, <2>1
<1>4. 17 % 8 = 1 /\ (17 \div 8) % 2 = 0 /\ 0 \div 4 = 0
  OBVIOUS
<1>5. LengthAt(7) = [len |-> 3, bytes |-> 1]
  BY <1>3, <1>4 DEF LengthAt
<1>6. OffsetAt(at + 1) = 0
  BY <1>3, <1>4 DEF OffsetAt
<1>7. M4 = [len |-> 3, off |-> 0, bytes |-> 3]
  BY <1>3, <1>4, <1>5, <1>6 DEF M4
<1>8. IsM4 /\ Instruction = M4
  BY <1>3 DEF IsM4, Instruction
<1>. QED
  BY <1>7, <1>8 DEF IsEnd, LengthMissing

LEMMA FinishKeeps ==
    ASSUME CodecTypes, NEW c, NEW b, NEW o, Phases(c, b, o), NEW i \in Nat,
           Current(c, b, o, i), pc \in {"match", "afterRun"}, Finish, M4.bytes = 3,
           tokens[i].len = 0
    PROVE  CodecInv'
<1>1. /\ op = o[i] + tokens[i].lits /\ run = tokens[i].lits /\ left >= 3
      /\ left = written - lost - (b[i] + Len(LeadAt(tokens, i)) + tokens[i].lits)
  BY DEF Current, ReadsAt
<1>2. PICK w \in Nat, l \in Nat, p \in Nat, x \in Nat, n \in Nat, q \in Nat, r \in Nat,
           m \in Nat :
        /\ w = written /\ l = lost /\ p = b[i] /\ x = Len(LeadAt(tokens, i))
        /\ n = tokens[i].lits /\ q = o[i] /\ r = room /\ m = in_len
  <2>1. /\ written \in Nat /\ lost \in Nat /\ b[i] \in Nat /\ Len(LeadAt(tokens, i)) \in Nat
        /\ o[i] \in Nat /\ room \in Nat /\ in_len \in Nat
    BY DEF Current, Placed
  <2>2. tokens[i].lits \in Nat
    BY DEF Current, Tokens
  <2>. QED
    BY <2>1, <2>2, Zenon
<1>3. i = Len(tokens) /\ b[i + 1] = written /\ o[i + 1] = in_len
      /\ Len(Code(tokens[i], 0)) = 3
  BY DEF Current, Placed
<1>4. p + x + n + 3 = w
  <2>1. b[i] + Len(LeadAt(tokens, i)) + tokens[i].lits + Len(Code(tokens[i], 0)) = b[i + 1]
    BY DEF Current, Placed
  <2>. QED
    BY <1>2, <1>3, <2>1, Zenon
<1>5. q + n + 0 = m
  <2>1. o[i] + tokens[i].lits + tokens[i].len = o[i + 1]
    BY DEF Current, Placed
  <2>. QED
    BY <1>2, <1>3, <2>1, Zenon
<1>6. w - l - (p + x + n) >= 3 /\ left = w - l - (p + x + n)
  BY <1>1, <1>2, Zenon
<1>7. l = 0 /\ left = 3
  BY <1>4, <1>6
<1>8. op = m
  <2>1. op = q + n
    BY <1>1, <1>2, Zenon
  <2>. QED
    BY <1>5, <2>1
<1>9. r = m
  <2>1. op <= room /\ room \in 0..in_len
    BY DEF Current
  <2>2. m <= r /\ r \in 0..m
    BY <1>2, <1>8, <2>1
  <2>. QED
    BY <2>2
<1>10. /\ left' = 0 /\ at' = at + 3 /\ result' = "LZO_E_OK"
       /\ replay' = Append(replay, Token(run, 0, 0)) /\ run' = 0 /\ pc' = "end"
       /\ UNCHANGED <<compressVars, lost, room, op, t>>
  BY <1>7 DEF Finish
<1>11. Token(run, 0, 0) = tokens[i] /\ tokens[i] \in Tokens
  <2>1. tokens[i] \in Tokens /\ tokens[i].off = 0
    BY DEF Current, Sound
  <2>. QED
    BY <1>1, <2>1 DEF Token, Tokens
<1>12. Follows(c, b, o)
  BY DEF Phases
<1>13. /\ replay' \in Seq(Tokens) /\ Len(replay') = i
       /\ \A k \in 1..i : replay'[k] = tokens[k]
  <2>1. /\ replay \in Seq(Tokens) /\ \A k \in 1..Len(replay) : replay[k] = tokens[k]
        /\ i = Len(replay) + 1
    BY <1>12 DEF Follows, Current
  <2>. QED
    BY <1>10, <1>11, <2>1
<1>14. Ended'
  BY <1>2, <1>3, <1>7, <1>8, <1>9, <1>10, <1>13 DEF Ended, Codes, compressVars
<1>15. Follows(c, b, o)'
  <2>1. /\ at' \in Nat /\ run' \in Nat /\ left' \in Nat /\ pc' \notin Reading
    BY <1>10 DEF Current, Reading
  <2>2. Len(replay') <= Len(tokens')
    BY <1>3, <1>10, <1>13 DEF compressVars
  <2>. QED
    BY <1>10, <1>12, <1>13, <1>14, <2>1, <2>2 DEF Follows, compressVars
<1>. QED
  BY <1>10, <1>15, FollowsKeeps DEF Reading

\* The token after this one is announced by its match, or begins with a code.
LEMMA AnnouncedNext ==
    ASSUME NEW c, NEW b, NEW o, NEW i \in Nat, Current(c, b, o, i), i < Len(tokens)
    PROVE  /\ LowAt(tokens, i) = 0 =>
                \/ tokens[i + 1].lits = 0
                \/ /\ tokens[i + 1].lits > 3
                   /\ LeadAt(tokens, i + 1) = LiteralCode(tokens[i + 1].lits)
           /\ LowAt(tokens, i) # 0 =>
                /\ LowAt(tokens, i) = tokens[i + 1].lits /\ LowAt(tokens, i) >= 1
                /\ LeadAt(tokens, i + 1) = <<>>
<1>1. i \in 1..Len(tokens) /\ tokens \in Seq(Tokens)
  BY DEF Current
<1>2. PICK n \in Nat : n = tokens[i + 1].lits
  <2>1. tokens[i + 1] \in Tokens
    BY <1>1
  <2>. QED
    BY <2>1 DEF Tokens
<1>3. LowAt(tokens, i) = IF n <= 3 THEN n ELSE 0
  BY <1>2 DEF LowAt, Announced
<1>4. ~(i + 1 = 1)
  BY <1>1
<1>5. LeadAt(tokens, i + 1)
        = IF n = 0 THEN <<>> ELSE IF n <= 3 THEN <<>> ELSE LiteralCode(n)
  BY <1>2, <1>4 DEF LeadAt, Lead
<1>. QED
  BY <1>2, <1>3, <1>5

LEMMA BytesAreThere ==
    ASSUME out[at] \in Nat, out[at] >= 16, NEW k \in Nat, k = Instruction.bytes,
           left \in Nat, left >= 3, ~LengthMissing
    PROVE  k <= left
<1>1. CASE k <= 3
  BY <1>1
<1>2. CASE k > 3
  <2>1. ~(out[at] >= 64)
    <3>1. ASSUME out[at] >= 64 PROVE Instruction.bytes = 2
      BY <3>1 DEF Instruction, M2
    <3>. QED
      BY <1>2, <3>1
  <2>2. out[at] \in 16..63
    BY <2>1
  <2>. QED
    BY <1>2, <2>2 DEF LengthMissing
<1>. QED
  BY <1>1, <1>2

\* The match of a token is carried out.
LEMMA CopyMatchKeeps ==
    ASSUME CodecTypes, NEW c, NEW b, NEW o, Phases(c, b, o), NEW i \in Nat,
           Current(c, b, o, i), pc \in {"match", "afterRun"}, tokens[i].len # 0,
           CopyMatch, NEW low \in Nat, low = LowAt(tokens, i), low <= 3,
           Distance = tokens[i].off, Instruction.len = tokens[i].len,
           out[at + Instruction.bytes - 2] % 4 = low,
           NEW k \in Nat, k = Instruction.bytes, k = Len(Code(tokens[i], 0)), k <= left
    PROVE  CodecInv'
<1>1. /\ op = o[i] + tokens[i].lits /\ run = tokens[i].lits /\ result = "none"
      /\ left = written - lost - (b[i] + Len(LeadAt(tokens, i)) + tokens[i].lits)
      /\ at = CodeCell(tokens, c, i)
  BY DEF Current, ReadsAt
<1>2. PICK w \in Nat, l \in Nat, p \in Nat, x \in Nat, n \in Nat, q \in Nat, r \in Nat,
           m \in Nat :
        /\ w = written /\ l = lost /\ p = b[i] /\ x = Len(LeadAt(tokens, i))
        /\ n = tokens[i].lits /\ q = o[i] /\ r = room /\ m = in_len
  <2>1. /\ written \in Nat /\ lost \in Nat /\ b[i] \in Nat /\ Len(LeadAt(tokens, i)) \in Nat
        /\ o[i] \in Nat /\ room \in Nat /\ in_len \in Nat
    BY DEF Current, Placed
  <2>2. tokens[i].lits \in Nat
    BY DEF Current, Tokens
  <2>. QED
    BY <2>1, <2>2, Zenon
<1>3. PICK u \in Nat, v \in Nat, e \in Nat : u = b[i + 1] /\ v = o[i + 1] /\ e = tokens[i].len
  <2>1. b[i + 1] \in Nat /\ o[i + 1] \in Nat
    BY DEF Current, Placed
  <2>2. tokens[i].len \in Nat
    BY DEF Current, Tokens
  <2>. QED
    BY <2>1, <2>2, Zenon
<1>4. p + x + n + k = u /\ u <= w /\ q + n + e = v /\ v <= m /\ i # Len(tokens)
  BY <1>2, <1>3, Zenon DEF Current, Placed
<1>5. op = q + n /\ left = w - l - (p + x + n)
  BY <1>1, <1>2, Zenon
<1>6. ~(Distance > op)
  <2>1. tokens[i].off <= o[i] + tokens[i].lits
    BY DEF Current, TokenAt
  <2>2. PICK f \in Nat : f = tokens[i].off
    BY DEF Current, Tokens
  <2>3. f <= q + n
    BY <1>2, <2>1, <2>2, Zenon
  <2>4. ~(f > q + n)
    BY <2>3
  <2>. QED
    BY <1>5, <2>2, <2>4, Zenon
<1>7. CASE room - op < Instruction.len
  <2>1. Stop("LZO_E_OUTPUT_OVERRUN")
    BY <1>6, <1>7 DEF CopyMatch
  <2>2. r - (q + n) < e
    BY <1>2, <1>3, <1>5, <1>7, Zenon
  <2>3. r # m
    BY <1>4, <2>2
  <2>. QED
    BY <1>2, <2>1, <2>3, StopKeeps DEF Codes, Reading
<1>8. CASE ~(room - op < Instruction.len)
  <2>1. /\ op' = op + e /\ at' = at + k /\ left' = left - k
        /\ replay' = Append(replay, Token(run, Distance, e)) /\ run' = 0 /\ t' = low
        /\ pc' = (IF low = 0 THEN "run" ELSE "next")
        /\ UNCHANGED <<compressVars, lost, room, result>>
    BY <1>3, <1>6, <1>8 DEF CopyMatch
  <2>2. op' = v /\ v <= r
    <3>1. ~(r - (q + n) < e)
      BY <1>2, <1>3, <1>5, <1>8, Zenon
    <3>2. v <= r /\ (q + n) + e = v
      BY <1>4, <3>1
    <3>. QED
      BY <1>5, <2>1, <3>2, Zenon
  <2>3. left' \in Nat /\ left' = w - l - u
    <3>1. left \in Nat
      BY DEF Current
    <3>2. left - k \in Nat /\ left - k = w - l - u
      BY <1>4, <1>5, <3>1
    <3>. QED
      BY <2>1, <3>2, Zenon
  <2>4. at' = c[i + 1] /\ at' \in Nat
    <3>1. c[i + 1] = CodeCell(tokens, c, i) + Len(Code(tokens[i], 0)) /\ at \in Nat
      BY DEF Current, TokenAt
    <3>2. at + k \in Nat
      BY <3>1
    <3>3. at + k = c[i + 1]
      BY <1>1, <3>1, Zenon
    <3>. QED
      BY <2>1, <3>2, <3>3, Zenon
  <2>5. Token(run, Distance, e) = tokens[i] /\ tokens[i] \in Tokens
    <3>1. tokens[i] \in Tokens
      BY DEF Current
    <3>. QED
      BY <1>1, <1>3, <3>1 DEF Token, Tokens
  <2>6. Follows(c, b, o)
    BY DEF Phases
  <2>7. /\ replay' \in Seq(Tokens) /\ Len(replay') = i
        /\ \A j \in 1..i : replay'[j] = tokens[j]
    <3>1. /\ replay \in Seq(Tokens) /\ \A j \in 1..Len(replay) : replay[j] = tokens[j]
          /\ i = Len(replay) + 1
      BY <2>6 DEF Follows, Current
    <3>. QED
      BY <2>1, <2>5, <3>1
  <2>8. i < Len(tokens)
    BY <1>4 DEF Current
  <2>9. ReadsAt(c, b, o, i + 1)'
    <3>1. /\ low = 0 =>
                \/ tokens[i + 1].lits = 0
                \/ /\ tokens[i + 1].lits > 3
                   /\ LeadAt(tokens, i + 1) = LiteralCode(tokens[i + 1].lits)
          /\ low # 0 =>
                /\ low = tokens[i + 1].lits /\ low >= 1 /\ LeadAt(tokens, i + 1) = <<>>
      BY <2>8, AnnouncedNext
    <3>2. /\ result' = "none" /\ at' = c[i + 1] /\ run' = 0 /\ op' = o[i + 1]
          /\ left' = written' - lost' - b[i + 1]
      BY <1>1, <1>2, <1>3, <2>1, <2>2, <2>3, <2>4 DEF compressVars
    <3>. QED
      BY <2>1, <3>1, <3>2 DEF ReadsAt, compressVars
  <2>10. Follows(c, b, o)'
    <3>1. Len(replay)' + 1 = i + 1 /\ Len(replay)' < Len(tokens)' /\ Len(replay)' <= Len(tokens)'
      BY <2>1, <2>7, <2>8 DEF compressVars
    <3>2. /\ run' \in Nat /\ t' \in 0..3 /\ op' \in Nat /\ op' <= room' /\ pc' # "end"
      <4>1. low \in 0..3 /\ 0 \in Nat
        OBVIOUS
      <4>2. op' \in Nat /\ op' <= room'
        BY <1>2, <2>1, <2>2, Zenon
      <4>3. run' \in Nat /\ t' \in 0..3
        BY <2>1, <4>1, Zenon
      <4>. QED
        BY <2>1, <4>2, <4>3
    <3>. QED
      BY <2>1, <2>3, <2>4, <2>6, <2>7, <2>9, <3>1, <3>2 DEF Follows, compressVars
  <2>. QED
    BY <2>1, <2>10, FollowsKeeps DEF Reading
<1>. QED
  BY <1>7, <1>8

LEMMA ReadMatchKeeps == ASSUME CodecInv, ReadMatch PROVE CodecInv'
<1>1. PICK c, b, o : Phases(c, b, o)
  BY DEF CodecInv
<1>2. CodecTypes /\ pc \in {"match", "afterRun"} /\ pc \in Reading
  BY DEF CodecInv, ReadMatch, Reading
<1>3. PICK i \in Nat : Current(c, b, o, i)
  BY <1>1, <1>2, IsCurrent
<1>4. PICK low \in Nat :
             /\ low = LowAt(tokens, i) /\ low <= 3
             /\ Stands(Code(tokens[i], low), at)
             /\ Len(Code(tokens[i], low)) = Len(Code(tokens[i], 0))
             /\ out[at] \in Nat /\ out[at] >= 16
  BY <1>2, <1>3, CodeIsHere
<1>5. at \in Nat /\ Len(out) \in Nat /\ left \in Nat /\ Sound(tokens[i])
      /\ Len(Code(tokens[i], 0)) \in Nat
  BY <1>3 DEF Current
<1>6. left >= 3
  BY <1>2, <1>3 DEF Current, ReadsAt
<1>7. CASE tokens[i].len = 0
  <2>1. Stands(EndCode, at)
    BY <1>4, <1>7 DEF Code
  <2>2. IsEnd /\ ~LengthMissing /\ M4.bytes = 3
    BY <1>5, <2>1, EndIsReadBack
  <2>3. Finish
    BY <2>2 DEF ReadMatch
  <2>. QED
    BY <1>1, <1>2, <1>3, <1>7, <2>2, <2>3, FinishKeeps
<1>8. CASE tokens[i].len # 0
  <2>1. PICK f \in Nat, e \in Nat :
          f = tokens[i].off /\ e = tokens[i].len /\ f >= 1 /\ f <= 49151 /\ e >= 3
    BY <1>5, <1>8 DEF Sound, Tokens
  <2>2. Stands(MatchLow(f, e, low), at) /\ Code(tokens[i], low) = MatchLow(f, e, low)
    BY <1>4, <1>8, <2>1 DEF Code
  <2>3. /\ Distance = f /\ Instruction.len = e
        /\ Instruction.bytes = Len(MatchLow(f, e, low)) /\ ~IsEnd
        /\ out[at + Instruction.bytes - 2] % 4 = low
    BY <1>4, <1>5, <2>1, <2>2, MatchIsReadBack
  <2>4. PICK k \in Nat : k = Instruction.bytes /\ k = Len(Code(tokens[i], 0))
    BY <1>4, <1>5, <2>2, <2>3
  <2>5. CASE LengthMissing
    <3>1. Stop("LZO_E_INPUT_OVERRUN") /\ left < k
      BY <2>4, <2>5 DEF ReadMatch, LengthMissing
    <3>2. PICK w \in Nat, l \in Nat, p \in Nat, x \in Nat, n \in Nat :
            /\ w = written /\ l = lost /\ p = b[i] /\ x = Len(LeadAt(tokens, i))
            /\ n = tokens[i].lits
      <4>1. /\ written \in Nat /\ lost \in Nat /\ b[i] \in Nat
            /\ Len(LeadAt(tokens, i)) \in Nat
        BY <1>3 DEF Current, Placed
      <4>2. tokens[i].lits \in Nat
        BY <1>3 DEF Current, Tokens
      <4>. QED
        BY <4>1, <4>2, Zenon
    <3>3. p + x + n + k <= w
      BY <1>3, <2>4, <3>2, Zenon DEF Current, Placed
    <3>4. left = w - l - (p + x + n)
      BY <1>2, <1>3, <3>2 DEF Current, ReadsAt
    <3>5. l # 0
      BY <3>1, <3>3, <3>4, LeftShort
    <3>. QED
      BY <1>1, <1>2, <3>1, <3>2, <3>5, StopKeeps DEF Codes
  <2>6. CASE ~LengthMissing
    <3>1. k <= left
      BY <1>4, <1>5, <1>6, <2>4, <2>6, BytesAreThere
    <3>2. CopyMatch
      BY <2>3, <2>6 DEF ReadMatch
    <3>. QED
      BY <1>1, <1>2, <1>3, <1>4, <1>8, <2>1, <2>3, <2>4, <3>1, <3>2, CopyMatchKeeps
  <2>. QED
    BY <2>5, <2>6
<1>. QED
  BY <1>7, <1>8

-----------------------------------------------------------------------------
\* What holds at every moment

LEMMA CodecStands == ASSUME CodecInv, UNCHANGED vars PROVE CodecInv'
<1>1. /\ pc' = pc /\ in_len' = in_len /\ base' = base /\ ll' = ll /\ ip' = ip /\ lit' = lit
      /\ out' = out /\ written' = written /\ tokens' = tokens
      /\ at' = at /\ lost' = lost /\ left' = left /\ room' = room /\ op' = op /\ t' = t
      /\ run' = run /\ replay' = replay /\ result' = result
  BY DEF vars, compressVars, decompressVars
<1>2. CodecTypes'
  BY <1>1, SMT DEF CodecInv, CodecTypes, SizeInv
<1>3. PICK c, b, o : Phases(c, b, o)
  BY DEF CodecInv
<1>4. Laid(c, b, o)'
  BY <1>1, <1>3, Zenon DEF Phases, Laid, Compressing
<1>5. Waits' = Waits /\ Ended' = Ended
  BY <1>1, Zenon DEF Waits, Ended
<1>6. \A i : ReadsAt(c, b, o, i)' = ReadsAt(c, b, o, i)
  BY <1>1, Zenon DEF ReadsAt
<1>7. Follows(c, b, o)' = Follows(c, b, o)
  BY <1>1, <1>5, <1>6, Zenon DEF Follows
<1>8. Phases(c, b, o)'
  BY <1>1, <1>3, <1>4, <1>5, <1>7, Zenon DEF Phases
<1>. QED
  BY <1>2, <1>8, Zenon DEF CodecInv

LEMMA CodecKept == ASSUME CodecInv, [Next]_vars PROVE CodecInv'
<1>1. CASE Chunk
  BY <1>1, ChunkKeeps
<1>2. CASE EndOfChunk
  BY <1>2, EndOfChunkKeeps
<1>3. CASE LastRun
  BY <1>3, LastRunKeeps
<1>4. ASSUME NEW gap \in Gaps, NEW m_off \in Offsets, NEW m_len \in Lengths,
             Match(gap, m_off, m_len)
      PROVE  CodecInv'
  BY <1>4, MatchKeeps
<1>5. ASSUME NEW loss \in Losses, NEW short \in Shorts, Deliver(loss, short)
      PROVE  CodecInv'
  BY <1>5, DeliverKeeps
<1>6. CASE First
  BY <1>6, FirstKeeps
<1>7. CASE Run
  BY <1>7, RunKeeps
<1>8. CASE ReadMatch
  BY <1>8, ReadMatchKeeps
<1>9. CASE MatchNext
  BY <1>9, MatchNextKeeps
<1>10. CASE UNCHANGED vars
  BY <1>10, CodecStands
<1>. QED
  BY <1>1, <1>2, <1>3, <1>4, <1>5, <1>6, <1>7, <1>8, <1>9, <1>10 DEF Next

LEMMA CodecAlways == Spec => []CodecInv
  BY CodecAtStart, CodecKept, PTL DEF Spec

LEMMA Prefix ==
    ASSUME NEW r \in Seq(Tokens), NEW ts \in Seq(Tokens), Len(r) <= Len(ts),
           \A k \in 1..Len(r) : r[k] = ts[k]
    PROVE  r = SubSeq(ts, 1, Len(r)) /\ (Len(r) = Len(ts) => r = ts)
  OBVIOUS

\* What the decompressor has carried out is what the compressor wrote, for every
\* input, every choice of matches, and every loss at the end of the stream; and
\* it ends with success if and only if nothing is lost and the buffer is as
\* large as the input.
THEOREM RoundTripHolds == Spec => []RoundTrip
<1>1. ASSUME CodecInv PROVE RoundTrip
  <2>1. PICK c, b, o : Phases(c, b, o)
    BY <1>1 DEF CodecInv
  <2>2. tokens \in Seq(Tokens) /\ pc \in Places
    BY <1>1 DEF CodecInv, CodecTypes, SizeInv
  <2>3. CASE pc \in {"chunk", "search", "done"}
    <3>1. Waits
      BY <2>1, <2>3 DEF Phases
    <3>2. Len(replay) = 0 /\ replay \in Seq(Tokens) /\ Len(replay) <= Len(tokens)
          /\ replay = SubSeq(tokens, 1, Len(replay))
      BY <2>2, <3>1 DEF Waits
    <3>. QED
      BY <2>3, <3>1, <3>2 DEF Waits, RoundTrip
  <2>4. CASE pc \notin {"chunk", "search", "done"}
    <3>1. Follows(c, b, o)
      BY <2>1, <2>4 DEF Phases
    <3>2. /\ replay \in Seq(Tokens) /\ Len(replay) <= Len(tokens)
          /\ \A k \in 1..Len(replay) : replay[k] = tokens[k]
      BY <3>1 DEF Follows
    <3>3. /\ replay = SubSeq(tokens, 1, Len(replay))
          /\ Len(replay) = Len(tokens) => replay = tokens
      BY <2>2, <3>2, Prefix
    <3>4. CASE pc = "end"
      BY <3>1, <3>2, <3>3, <3>4 DEF Follows, Ended, RoundTrip
    <3>5. CASE pc \in Reading
      <4>1. ReadsAt(c, b, o, Len(replay) + 1)
        BY <3>1, <3>5 DEF Follows
      <4>2. result = "none" /\ (run # 0 => run = tokens[Len(replay) + 1].lits)
        BY <3>5, <4>1 DEF ReadsAt, Reading
      <4>. QED
        BY <3>2, <3>3, <3>5, <4>2 DEF RoundTrip, Reading
    <3>. QED
      BY <2>2, <2>4, <3>4, <3>5 DEF Places, Reading
  <2>. QED
    BY <2>3, <2>4
<1>. QED
  BY <1>1, CodecAlways, PTL

\* It neither reads behind the end of a stream that was cut nor writes behind
\* the end of its buffer.
THEOREM StaysInBounds == Spec => []InBounds
<1>1. ASSUME CodecInv PROVE InBounds
  <2>1. PICK c, b, o : Phases(c, b, o)
    BY <1>1 DEF CodecInv
  <2>2. CASE pc \in {"chunk", "search", "done"}
    BY <2>1, <2>2 DEF Phases, Waits, InBounds
  <2>3. CASE pc \notin {"chunk", "search", "done"}
    BY <2>1, <2>3 DEF Phases, Follows, InBounds
  <2>. QED
    BY <2>2, <2>3
<1>. QED
  BY <1>1, CodecAlways, PTL

\* Every variable of the codec has a value of its kind.
THEOREM CodecIsTyped == Spec => []TypeOK
<1>1. ASSUME CodecInv PROVE TypeOK
  <2>1. PICK c, b, o : Phases(c, b, o)
    BY <1>1 DEF CodecInv
  <2>2. /\ pc \in Places /\ in_len \in InputSizes /\ in_len \in Nat
        /\ base \in 0..in_len /\ lit \in 0..in_len
        /\ ll \in 0..MaxChunk /\ ip \in Nat /\ written \in Nat
        /\ out \in Seq(Int) /\ tokens \in Seq([lits : Nat, off : Nat, len : Nat])
    BY <1>1 DEF CodecInv, CodecTypes, SizeInv, Tokens, MaxChunk
  <2>3. CASE pc \in {"chunk", "search", "done"}
    <3>1. Waits
      BY <2>1, <2>3 DEF Phases
    <3>2. /\ 1 \in Nat /\ 0 \in Nat /\ 0 \in Int /\ 0 \in 0..in_len /\ 0 \in 0..3
      BY <2>2
    <3>3. result \in Codes
      BY <3>1 DEF Waits, Codes
    <3>4. /\ at \in Nat /\ lost \in Nat /\ left \in Int /\ room \in 0..in_len
          /\ op \in Int /\ t \in 0..3 /\ run \in Int
      BY <3>1, <3>2, Zenon DEF Waits
    <3>. QED
      BY <2>2, <3>3, <3>4, Zenon DEF TypeOK
  <2>4. CASE pc \notin {"chunk", "search", "done"}
    <3>1. Follows(c, b, o)
      BY <2>1, <2>4 DEF Phases
    <3>2. result \in Codes
      <4>1. CASE pc = "end"
        BY <3>1, <4>1 DEF Follows, Ended
      <4>2. CASE pc # "end"
        <5>1. pc \in Reading
          BY <2>2, <2>4, <4>2 DEF Places, Reading
        <5>. QED
          BY <3>1, <5>1 DEF Follows, ReadsAt, Codes
      <4>. QED
        BY <4>1, <4>2
    <3>3. /\ at \in Nat /\ lost \in Nat /\ left \in Int /\ room \in 0..in_len
          /\ op \in Int /\ t \in 0..3 /\ run \in Int
      BY <3>1 DEF Follows
    <3>. QED
      BY <2>2, <3>2, <3>3, Zenon DEF TypeOK
  <2>. QED
    BY <2>3, <2>4
<1>. QED
  BY <1>1, CodecAlways, PTL
=============================================================================
