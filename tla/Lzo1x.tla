-------------------------------- MODULE Lzo1x --------------------------------
(***************************************************************************)
(* The LZO1X codec of the tunnel's packets: lzo1x_1_compress and            *)
(* lzo1x_decompress_safe, as minilzo.c has them (the library that is linked *)
(* has the same code in several files).                                     *)
(*                                                                         *)
(* The compressor turns its input into tokens: some literals, then a match, *)
(* which repeats m_len bytes from m_off bytes before.  It writes each as an *)
(* instruction, and the decompressor reads them back.  The instructions are *)
(* modelled byte by byte.  The bytes of the data are not: where the search  *)
(* finds a match is a choice, and n literals are one cell -n of the stream. *)
(* The two agree on the data when they agree on the tokens.  The copying    *)
(* by words, and the test for lengths near the end of an integer, are left  *)
(* out.                                                                     *)
(***************************************************************************)
EXTENDS Integers, Sequences

CONSTANTS
    InputSizes,    \* the sizes of the input
    Gaps,          \* how many bytes the search passes before a match
    Lengths,       \* lengths of matches
    Offsets,       \* distances of matches
    MaxMatches,    \* bound on the matches of one input
    Losses,        \* bytes that are cut off the end of the stream
    Shorts         \* bytes by which the output buffer is too small

ASSUME Lzo1xAssumption ==
    /\ InputSizes \subseteq Nat /\ Gaps \subseteq Nat /\ MaxMatches \in Nat
    /\ \A n \in Lengths : n \in Nat /\ n >= 4
    /\ \A n \in Offsets : n \in Nat /\ n >= 1
    /\ Losses \subseteq Nat /\ Shorts \subseteq Nat

VARIABLES
    pc,            \* "chunk", "search", "done", then the place in the decompressor
    in_len,
    base,          \* the start of the chunk
    ll,            \* its length
    ip,            \* the next place the search looks at
    lit,           \* ii - ti: the first literal not yet written
    out,           \* the stream: bytes, and cells -n for n literals
    written,       \* its size in bytes
    tokens,        \* history: what the compressor wrote
    at,            \* the cell the decompressor reads next
    lost,          \* bytes that were cut off
    left,          \* ip_end - ip: bytes it has not read
    room,          \* the size of the buffer for its output
    op,            \* bytes it has put out
    t,             \* literals that a match announces
    run,           \* history: literals since the last match
    replay,        \* history: the tokens it carried out
    result

compressVars == <<in_len, base, ll, ip, lit, out, written, tokens>>
decompressVars == <<at, lost, left, room, op, t, run, replay, result>>
vars == <<pc, compressVars, decompressVars>>

Token(literals, m_off, m_len) == [lits |-> literals, off |-> m_off, len |-> m_len]

Init ==
    /\ pc = "chunk"
    /\ in_len \in InputSizes
    /\ base = 0 /\ ll = 0 /\ ip = 0 /\ lit = 0
    /\ out = <<>> /\ written = 0 /\ tokens = <<>>
    /\ at = 1 /\ lost = 0 /\ left = 0 /\ room = 0 /\ op = 0 /\ t = 0 /\ run = 0
    /\ replay = <<>> /\ result = "none"

-----------------------------------------------------------------------------
\* Instructions

M2_MAX_LEN == 8
M2_MAX_OFFSET == 2048
M3_MAX_LEN == 33
M3_MAX_OFFSET == 16384
M4_MAX_LEN == 9
M3_MARKER == 32
M4_MARKER == 16

Zeros(n) == [i \in 1..n |-> 0]

\* Mutant: a zero stands for 15.
MutantLong(n) == Zeros((n - 1) \div 15) \o <<((n - 1) % 15) + 1>>

\* A zero for each 255 that does not reach the end, and the rest
Long(n) == Zeros((n - 1) \div 255) \o <<((n - 1) % 255) + 1>>

LiteralCode(n) == IF n <= 18 THEN <<n - 3>> ELSE <<0>> \o Long(n - 18)

LengthCode(marker, max, m_len) ==
    IF m_len <= max THEN <<marker + (m_len - 2)>>
                    ELSE <<marker>> \o Long(m_len - max)

\* The offset in 14 bits, below which there is room for 2 more
OffsetCode(m_off) == <<(m_off * 4) % 256, (m_off \div 64) % 256>>

\* Mutant: offset 0x800 does not fit any more.
MutantMatchCode(m_off, m_len) ==
    IF m_len <= M2_MAX_LEN /\ m_off <= M2_MAX_OFFSET
    THEN <<(m_len - 1) * 32 + (m_off % 8) * 4, (m_off \div 8) % 256>>
    ELSE IF m_off <= M3_MAX_OFFSET
    THEN LengthCode(M3_MARKER, M3_MAX_LEN, m_len) \o OffsetCode(m_off - 1)
    ELSE LengthCode(M4_MARKER + 8 * (((m_off - 16384) \div 16384) % 2),
                    M4_MAX_LEN, m_len) \o OffsetCode(m_off - 16384)

MatchCode(m_off, m_len) ==
    IF m_len <= M2_MAX_LEN /\ m_off <= M2_MAX_OFFSET
    THEN <<(m_len - 1) * 32 + ((m_off - 1) % 8) * 4, ((m_off - 1) \div 8) % 256>>
    ELSE IF m_off <= M3_MAX_OFFSET
    THEN LengthCode(M3_MARKER, M3_MAX_LEN, m_len) \o OffsetCode(m_off - 1)
    ELSE LengthCode(M4_MARKER + 8 * (((m_off - 16384) \div 16384) % 2),
                    M4_MAX_LEN, m_len) \o OffsetCode(m_off - 16384)

\* op[-2] | n: the two low bits of a byte
OrLow(b, n) ==
    b + (IF n % 2 > b % 2 THEN 1 ELSE 0)
      + (IF (n \div 2) % 2 > (b \div 2) % 2 THEN 2 ELSE 0)

\* The stream s with n literals: up to 3 are announced by the match before them
PutLiterals(s, n) ==
    IF n = 0 THEN s
    ELSE IF n <= 3
    THEN Append([s EXCEPT ![Len(s) - 1] = OrLow(@, n)], -n)
    ELSE s \o LiteralCode(n) \o <<-n>>

LiteralBytes(n) == IF n <= 3 THEN n ELSE Len(LiteralCode(n)) + n

-----------------------------------------------------------------------------
\* The compressor

\* Mutant: the chunk is all of the input, and offsets do not fit 16 bits.
MutantChunk ==
    /\ pc = "chunk"
    /\ LET rest == in_len - base
           ti == base - lit
       IN  /\ rest > 20 /\ (ti + rest) \div 32 > 0
           /\ ll' = rest
           /\ ip' = base + (IF ti < 4 THEN 4 - ti ELSE 0) + 1
    /\ pc' = "search"
    /\ UNCHANGED <<in_len, base, lit, out, written, tokens, decompressVars>>

\* The most bytes that do_compress goes through at once
MaxChunk == 49152

\* lzo1x_1_compress takes the next chunk, unless what is left is too short.
\* A match needs 4 bytes before it that can carry the number of literals.
Chunk ==
    /\ pc = "chunk"
    /\ LET rest == in_len - base
           size == IF rest > MaxChunk THEN MaxChunk ELSE rest
           ti == base - lit
       IN  /\ rest > 20 /\ (ti + size) \div 32 > 0
           /\ ll' = size
           /\ ip' = base + (IF ti < 4 THEN 4 - ti ELSE 0) + 1
    /\ pc' = "search"
    /\ UNCHANGED <<in_len, base, lit, out, written, tokens, decompressVars>>

\* do_compress finds a match and writes it, with the literals before it. The
\* search stops 20 bytes before the end of the chunk, and the comparison passes
\* 8 bytes before it looks where it is: the last 9 bytes are in no match.
Match(gap, m_off, m_len) ==
    /\ pc = "search" /\ Len(tokens) < MaxMatches
    /\ ip + gap < base + ll - 20
    /\ m_off <= ip + gap - base
    /\ ip + gap + m_len <= base + ll - 9
    /\ LET n == ip + gap - lit
       IN  /\ out' = PutLiterals(out, n) \o MatchCode(m_off, m_len)
           /\ written' = written + LiteralBytes(n) + Len(MatchCode(m_off, m_len))
           /\ tokens' = Append(tokens, Token(n, m_off, m_len))
    /\ ip' = ip + gap + m_len
    /\ lit' = ip + gap + m_len
    /\ UNCHANGED <<pc, in_len, base, ll, decompressVars>>

\* The search reaches ip_end: the literals are left to the next chunk.
EndOfChunk ==
    /\ pc = "search"
    /\ base' = base + ll
    /\ pc' = "chunk"
    /\ UNCHANGED <<in_len, ll, ip, lit, out, written, tokens, decompressVars>>

\* The literals that are left, and the end marker
EndCode == <<M4_MARKER + 1, 0, 0>>

LastLiterals(n) ==
    IF out = <<>> /\ n > 0 /\ n <= 238
    THEN <<17 + n, -n>>
    ELSE PutLiterals(out, n)

LastBytes(n) == IF out = <<>> /\ n > 0 /\ n <= 238 THEN n + 1 ELSE LiteralBytes(n)

LastRun ==
    /\ pc = "chunk"
    /\ \/ in_len - base <= 20
       \/ ((base - lit) + (in_len - base)) \div 32 = 0
    /\ LET n == in_len - lit
       IN  /\ out' = LastLiterals(n) \o EndCode
           /\ written' = written + LastBytes(n) + Len(EndCode)
           /\ tokens' = Append(tokens, Token(n, 0, 0))
    /\ pc' = "done"
    /\ UNCHANGED <<in_len, base, ll, ip, lit, decompressVars>>

\* The stream is handed to the decompressor, whole or cut, with a buffer.
Deliver(loss, short) ==
    /\ pc = "done"
    /\ loss <= written /\ short <= in_len
    /\ lost' = loss
    /\ left' = written - loss
    /\ room' = in_len - short
    /\ pc' = "first"
    /\ UNCHANGED <<compressVars, at, op, t, run, replay, result>>

-----------------------------------------------------------------------------
\* The decompressor

Stop(code) ==
    /\ result' = code
    /\ pc' = "end"
    /\ UNCHANGED <<compressVars, at, lost, left, room, op, t, run, replay>>

\* Mutant: the test for room is missing.
MutantCopyLiterals(n, used, next) ==
    IF left - used < n + 3 THEN Stop("LZO_E_INPUT_OVERRUN")
    ELSE /\ at' = at + used + 1
         /\ left' = left - used - n
         /\ op' = op + n
         /\ run' = run + n
         /\ pc' = next
         /\ UNCHANGED <<compressVars, lost, room, t, replay, result>>

\* n literals after an instruction of used bytes; NEED_OP and NEED_IP
CopyLiterals(n, used, next) ==
    IF room - op < n THEN Stop("LZO_E_OUTPUT_OVERRUN")
    ELSE IF left - used < n + 3 THEN Stop("LZO_E_INPUT_OVERRUN")
    ELSE /\ at' = at + used + 1
         /\ left' = left - used - n
         /\ op' = op + n
         /\ run' = run + n
         /\ pc' = next
         /\ UNCHANGED <<compressVars, lost, room, t, replay, result>>

First ==
    /\ pc = "first"
    /\ IF left < 1 THEN Stop("LZO_E_INPUT_OVERRUN")
       ELSE IF out[1] > 17
       THEN IF out[1] - 17 < 4 THEN CopyLiterals(out[1] - 17, 1, "match")
            ELSE CopyLiterals(out[1] - 17, 1, "afterRun")
       ELSE /\ pc' = "run"
            /\ UNCHANGED <<compressVars, decompressVars>>

\* The number of zeros in the stream from cell i on, and what they stand for
ZerosAt(i) == CHOOSE n \in 0..(Len(out) - i) :
                /\ out[i + n] # 0
                /\ \A k \in 0..(n - 1) : out[i + k] = 0

LongAt(i) == 255 * ZerosAt(i) + out[i + ZerosAt(i)]

\* A run of literals, or at once a match
Run ==
    /\ pc = "run"
    /\ IF left < 3 THEN Stop("LZO_E_INPUT_OVERRUN")
       ELSE IF out[at] >= 16
       THEN /\ pc' = "match"
            /\ UNCHANGED <<compressVars, decompressVars>>
       ELSE IF out[at] # 0 THEN CopyLiterals(out[at] + 3, 1, "afterRun")
       ELSE IF left - 1 - ZerosAt(at + 1) < 1 THEN Stop("LZO_E_INPUT_OVERRUN")
       ELSE CopyLiterals(LongAt(at + 1) + 18, 2 + ZerosAt(at + 1), "afterRun")

\* The instruction at the next cell, when it is a match: its length, its offset
\* and how many bytes it takes.  M1 has its meaning from what came before it.
M1 == IF pc = "afterRun"
      THEN [len |-> 3, off |-> 1 + M2_MAX_OFFSET + out[at] \div 4 + out[at + 1] * 4,
            bytes |-> 2]
      ELSE [len |-> 2, off |-> 1 + out[at] \div 4 + out[at + 1] * 4, bytes |-> 2]

M2 == [len |-> out[at] \div 32 + 1,
       off |-> 1 + ((out[at] \div 4) % 8) + out[at + 1] * 8,
       bytes |-> 2]

\* mask is the part of the instruction that holds the length; the number of
\* bytes is that of the length, before the 2 of the offset
LengthAt(mask) ==
    IF out[at] % (mask + 1) # 0
    THEN [len |-> (out[at] % (mask + 1)) + 2, bytes |-> 1]
    ELSE [len |-> LongAt(at + 1) + mask + 2, bytes |-> 2 + ZerosAt(at + 1)]

OffsetAt(i) == out[i] \div 4 + out[i + 1] * 64

M3 == LET l == LengthAt(31)
      IN  [len |-> l.len, off |-> 1 + OffsetAt(at + l.bytes), bytes |-> l.bytes + 2]

M4 == LET l == LengthAt(7)
          high == ((out[at] \div 8) % 2) * 16384
      IN  [len |-> l.len, off |-> high + OffsetAt(at + l.bytes),
           bytes |-> l.bytes + 2]

Instruction ==
    IF out[at] >= 64 THEN M2
    ELSE IF out[at] >= 32 THEN M3
    ELSE IF out[at] >= 16 THEN M4 ELSE M1

\* NEED_IP(1) after each zero of a length, and NEED_IP(2) after all of it
LengthMissing ==
    /\ out[at] \in 16..63 /\ Instruction.bytes > 3
    /\ left < Instruction.bytes

IsM4 == 16 <= out[at] /\ out[at] < 32

IsEnd == IsM4 /\ M4.off = 0

\* eof_found
Finish ==
    /\ left' = left - M4.bytes
    /\ at' = at + M4.bytes
    /\ result' = IF left' = 0 THEN "LZO_E_OK"
                 ELSE IF left' > 0 THEN "LZO_E_INPUT_NOT_CONSUMED"
                 ELSE "LZO_E_INPUT_OVERRUN"
    /\ replay' = Append(replay, Token(run, 0, 0))
    /\ run' = 0
    /\ pc' = "end"
    /\ UNCHANGED <<compressVars, lost, room, op, t>>

\* The distance of a match: M4 counts from 0x4000
Distance == IF IsM4 THEN M4.off + 16384 ELSE Instruction.off

\* TEST_LB, NEED_OP, copy_match and match_done
CopyMatch ==
    LET i == Instruction
        low == out[at + i.bytes - 2] % 4
    IN  IF Distance > op THEN Stop("LZO_E_LOOKBEHIND_OVERRUN")
        ELSE IF room - op < i.len THEN Stop("LZO_E_OUTPUT_OVERRUN")
        ELSE /\ op' = op + i.len
             /\ at' = at + i.bytes
             /\ left' = left - i.bytes
             /\ replay' = Append(replay, Token(run, Distance, i.len))
             /\ run' = 0
             /\ t' = low
             /\ pc' = IF low = 0 THEN "run" ELSE "next"
             /\ UNCHANGED <<compressVars, lost, room, result>>

ReadMatch ==
    /\ pc \in {"match", "afterRun"}
    /\ IF LengthMissing THEN Stop("LZO_E_INPUT_OVERRUN")
       ELSE IF IsEnd THEN Finish ELSE CopyMatch

\* match_next: the literals that the match announced
MatchNext ==
    /\ pc = "next"
    /\ CopyLiterals(t, 0, "match")

Next ==
    \/ Chunk \/ EndOfChunk \/ LastRun
    \/ \E gap \in Gaps, m_off \in Offsets, m_len \in Lengths : Match(gap, m_off, m_len)
    \/ \E loss \in Losses, short \in Shorts : Deliver(loss, short)
    \/ First \/ Run \/ ReadMatch \/ MatchNext

Spec == Init /\ [][Next]_vars

-----------------------------------------------------------------------------
\* Every variable has a value of its kind.
Places == {"chunk", "search", "done", "first", "run", "afterRun", "match", "next",
           "end"}

Codes == {"none", "LZO_E_OK", "LZO_E_INPUT_OVERRUN", "LZO_E_OUTPUT_OVERRUN",
          "LZO_E_LOOKBEHIND_OVERRUN", "LZO_E_INPUT_NOT_CONSUMED"}

TypeOK ==
    /\ pc \in Places
    /\ in_len \in InputSizes
    /\ base \in 0..in_len /\ lit \in 0..in_len
    /\ ll \in 0..MaxChunk /\ ip \in Nat
    /\ out \in Seq(Int) /\ written \in Nat
    /\ tokens \in Seq([lits : Nat, off : Nat, len : Nat])
    /\ at \in Nat /\ lost \in Nat /\ left \in Int /\ room \in 0..in_len
    /\ op \in Int /\ t \in 0..3 /\ run \in Int
    /\ result \in Codes

\* A stream is never longer than LZO.FAQ:206 says, whatever the search finds: a
\* caller of lzo1x_1_compress, which does not know the size of its buffer, makes
\* the buffer as large as that.
WorstCase ==
    pc \notin {"chunk", "search"} => written <= in_len + in_len \div 16 + 64 + 3

\* lzo1x_decompress_safe carries out what the compressor wrote and nothing else:
\* at every moment its tokens are the first of those, and it ends with success
\* if and only if nothing is cut off and there is room for all of the output.
RoundTrip ==
    /\ Len(replay) <= Len(tokens) /\ replay = SubSeq(tokens, 1, Len(replay))
    /\ run # 0 => run = tokens[Len(replay) + 1].lits
    /\ pc = "end" => (result = "LZO_E_OK" <=> lost = 0 /\ room = in_len)
    /\ result = "LZO_E_OK" => replay = tokens /\ op = in_len

\* It never reads behind the end of a stream that was cut, and never writes
\* behind the end of its buffer.
InBounds == left >= 0 /\ op <= room
=============================================================================
