-------------------------------- MODULE Lzw --------------------------------
(***************************************************************************)
(* The streaming decoder of compress (.Z) archives, crates/core/src/lzw.rs *)
(* against an encoder that follows the format as its header describes it.  *)
(*                                                                         *)
(* The format is scaled down: Literals literals where it has 256, codes    *)
(* InitWidth bits wide at first where it has 9, groups of Group codes      *)
(* where it has 8, bytes of Byte bits, and dictionary slots counted in a   *)
(* CodeBits-bit integer where the decoder uses u16.  The shapes are those  *)
(* of the source: 2^InitWidth = 2 * Literals, a byte is narrower than a    *)
(* code, a group is a whole number of bytes.                               *)
(***************************************************************************)
EXTENDS Integers, FiniteSets, SequencesExt

CONSTANTS
  Literals, InitWidth, Group, Byte, CodeBits,
  MaxWidths,   \* the maximum code widths a header may declare
  Inputs,      \* what is compressed
  MaxClears,   \* bound: how often the encoder starts over
  Noise        \* streams that no encoder wrote

Bit   == {0, 1}
Literal == 0..Literals - 1

ASSUME ShapeAssumption ==
  /\ Literals \in Nat \ {0, 1} /\ InitWidth \in Nat /\ 2^InitWidth = 2 * Literals
  /\ Group \in Nat \ {0} /\ Byte \in 1..InitWidth /\ Group % Byte = 0
  /\ CodeBits \in Nat /\ MaxWidths \subseteq InitWidth..CodeBits
ASSUME StreamsAssumption ==
  /\ Inputs \subseteq Seq(Literal) /\ Noise \subseteq Seq(Bit) /\ MaxClears \in Nat

Clear == Literals       \* in block mode, the code that resets the dictionary
NoCode == -1

VARIABLES
  input,      \* what is compressed
  rest,       \* what the encoder has still to write
  maxWidth, blockMode,
  table,      \* the encoder's dictionary: the string of each code
  encWidth, encGroup,   \* its code width, and codes since the last boundary
  clears,     \* how often it has started over
  bits,       \* the stream: written by the encoder, then eaten by the decoder
  width, inGroup,       \* the same on the decoder's side
  free,       \* the next dictionary slot
  prefix, suffix,       \* entry n is entry prefix[n], then the byte suffix[n]
  prev,       \* the previous code
  out,        \* what has been decoded
  source,     \* the stream is "whole", "cut" or "noise"
  state       \* "encoding", "decoding", "done" or "corrupt"

encoder == <<rest, table, encWidth, encGroup, clears>>
decoder == <<width, inGroup, free, prefix, suffix, prev, out>>
lzwVars == <<input, maxWidth, blockMode, encoder, decoder, bits, source, state>>

-----------------------------------------------------------------------------
\* Bits, the lowest of a code first.
CodeToBits(code, w) == [i \in 1..w |-> (code \div (2^(i - 1))) % 2]

\* The highest bit is the last.
BitsToCode(s) ==
  LET high[n \in 0..Len(s)] ==
        IF n = 0 THEN 0 ELSE 2 * high[n - 1] + s[Len(s) + 1 - n]
  IN  high[Len(s)]

Zeros(n) == [i \in 1..n |-> 0]

Drop(s, n) == SubSeq(s, n + 1, Len(s))

FirstFree(block) == IF block THEN Literals + 1 ELSE Literals

\* Bits to the end of a group of codes of width w of which n are there.
Padding(n, w) == IF n % Group = 0 THEN 0 ELSE (Group - (n % Group)) * w

Capacity == 2^maxWidth

-----------------------------------------------------------------------------
\* The encoder.

LzwInit ==
  /\ input \in Inputs /\ rest = input
  /\ maxWidth \in MaxWidths /\ blockMode \in BOOLEAN
  /\ table = [n \in Literal |-> <<n>>]
  /\ encWidth = InitWidth /\ encGroup = 0 /\ clears = 0
  /\ bits = <<>>
  /\ width = InitWidth /\ inGroup = 0 /\ free = FirstFree(blockMode)
  /\ prefix = [n \in 0..Capacity - 1 |-> 0] /\ suffix = [n \in 0..Capacity - 1 |-> 0]
  /\ prev = NoCode /\ out = <<>>
  /\ source = "whole" /\ state = "encoding"

Coded == {n \in DOMAIN table : IsPrefix(table[n], rest)}

Longest == CHOOSE n \in Coded : \A m \in Coded : Len(table[m]) <= Len(table[n])

\* Entries the table has, the reserved code included.
TableEnd == FirstFree(blockMode) + Cardinality(DOMAIN table) - Literals

\* The longest known string is written.  The code grows when the entries made
\* so far need it; then the string and what follows it become an entry.
EncodeString ==
  /\ state = "encoding" /\ rest # <<>>
  /\ LET code  == Longest
         left  == Drop(rest, Len(table[code]))
         grow  == TableEnd > 2^encWidth - 1 /\ encWidth < maxWidth
     IN  /\ rest' = left
         /\ bits' = bits \o CodeToBits(code, encWidth)
                      \o Zeros(IF grow THEN Padding(encGroup + 1, encWidth) ELSE 0)
         /\ encWidth' = IF grow THEN encWidth + 1 ELSE encWidth
         /\ encGroup' = IF grow THEN 0 ELSE encGroup + 1
         /\ table' = IF left = <<>> \/ TableEnd >= Capacity THEN table
                     ELSE [n \in DOMAIN table \union {TableEnd} |->
                             IF n = TableEnd THEN Append(table[code], Head(left))
                             ELSE table[n]]
  /\ UNCHANGED <<input, maxWidth, blockMode, clears, decoder, source, state>>

\* In block mode the encoder may start over between any two strings.
EncodeClear ==
  /\ state = "encoding" /\ blockMode /\ rest \notin {<<>>, input}
  /\ clears < MaxClears /\ clears' = clears + 1
  /\ bits' = bits \o CodeToBits(Clear, encWidth) \o Zeros(Padding(encGroup + 1, encWidth))
  /\ table' = [n \in Literal |-> <<n>>]
  /\ encWidth' = InitWidth /\ encGroup' = 0
  /\ UNCHANGED <<input, rest, maxWidth, blockMode, decoder, source, state>>

\* The last byte is filled up with zeros.
EncodeEnd ==
  /\ state = "encoding" /\ rest = <<>>
  /\ bits' = bits \o Zeros((-Len(bits)) % Byte)
  /\ state' = "decoding"
  /\ UNCHANGED <<input, maxWidth, blockMode, encoder, decoder, source>>

\* The archive breaks off after any byte of it.
Truncate ==
  /\ state = "encoding" /\ rest = <<>>
  /\ \E n \in 0..Len(bits) \div Byte : bits' = SubSeq(bits, 1, n * Byte)
  /\ source' = "cut" /\ state' = "decoding"
  /\ UNCHANGED <<input, maxWidth, blockMode, encoder, decoder>>

\* Or it never was one.
Garbage ==
  /\ state = "encoding" /\ input = <<>>
  /\ bits' \in Noise /\ source' = "noise" /\ state' = "decoding"
  /\ UNCHANGED <<input, maxWidth, blockMode, encoder, decoder>>

-----------------------------------------------------------------------------
\* The decoder.

\* BitReader::code and ::discard.
Code == BitsToCode(SubSeq(bits, 1, width))
Discard(s, n) == Drop(s, IF n <= Len(s) THEN n ELSE Len(s))

\* Mutant of Realign: nothing is skipped between groups.
RealignNot(s, n, w) == s

\* realign: skip the padding to the end of the group.
Realign(s, n, w) == Discard(s, Padding(n, w))

\* The links from an entry down to a literal; at most one step per slot.
Chain(code) ==
  LET at[k \in 0..Capacity] ==
        IF k = 0 THEN code
        ELSE IF at[k - 1] < Literals THEN at[k - 1] ELSE prefix[at[k - 1]]
  IN  at

\* expand: the bytes of a code, or none when the links lead nowhere.
Expand(code) ==
  LET at   == Chain(code)
      ends == {k \in 0..Capacity : at[k] < Literals}
  IN  IF ends = {} THEN <<>>
      ELSE LET k == CHOOSE e \in ends : \A f \in ends : e <= f
           IN  [i \in 1..k + 1 |-> IF i = 1 THEN at[k] ELSE suffix[at[k + 1 - i]]]

\* Input too short for a code is the padding of the last byte.
DecodeEnd ==
  /\ state = "decoding" /\ Len(bits) < width
  /\ state' = "done"
  /\ UNCHANGED <<input, maxWidth, blockMode, encoder, decoder, bits, source>>

\* Mutant of DecodeClear: the previous code survives the reset.
ClearKeepsPrev ==
  /\ state = "decoding" /\ Len(bits) >= width /\ blockMode /\ Code = Clear
  /\ bits' = Realign(Drop(bits, width), inGroup + 1, width)
  /\ inGroup' = 0 /\ free' = FirstFree(blockMode) /\ width' = InitWidth
  /\ UNCHANGED <<input, maxWidth, blockMode, encoder, prefix, suffix, prev, out, source,
                 state>>

DecodeClear ==
  /\ state = "decoding" /\ Len(bits) >= width /\ blockMode /\ Code = Clear
  /\ bits' = Realign(Drop(bits, width), inGroup + 1, width)
  /\ inGroup' = 0 /\ free' = FirstFree(blockMode) /\ width' = InitWidth /\ prev' = NoCode
  /\ UNCHANGED <<input, maxWidth, blockMode, encoder, prefix, suffix, out, source, state>>

\* The first code of a stream, and of a block, has to be a literal.
DecodeFirst ==
  /\ state = "decoding" /\ Len(bits) >= width /\ ~(blockMode /\ Code = Clear) /\ prev = NoCode
  /\ bits' = Drop(bits, width) /\ inGroup' = inGroup + 1
  /\ IF Code < Literals THEN out' = Append(out, Code) /\ prev' = Code /\ UNCHANGED state
                        ELSE state' = "corrupt" /\ UNCHANGED <<out, prev>>
  /\ UNCHANGED <<input, maxWidth, blockMode, encoder, width, free, prefix, suffix,
                 source>>

Known(code) == code < free

\* Mutant of HasRoom: one slot too many is filled.
HasRoomForOneMore == free <= Capacity

HasRoom == free < Capacity

\* Any other code: an entry, or the entry about to be made (the previous string
\* and its own first byte).  It makes an entry itself while there is room, in a
\* counter that wraps, and widens the codes once they no longer reach the last.
DecodeNext ==
  /\ state = "decoding" /\ Len(bits) >= width /\ ~(blockMode /\ Code = Clear) /\ prev # NoCode
  /\ LET string == IF Known(Code) THEN Expand(Code)
                   ELSE IF Code = free /\ Expand(prev) # <<>>
                          THEN Append(Expand(prev), Head(Expand(prev)))
                          ELSE <<>>
         next  == IF HasRoom THEN (free + 1) % 2^CodeBits ELSE free
         grow  == next > 2^width - 1 /\ width < maxWidth
         after == Drop(bits, width)
     IN  IF string = <<>>
         THEN /\ state' = "corrupt" /\ bits' = after /\ inGroup' = inGroup + 1
              /\ UNCHANGED <<width, free, prefix, suffix, prev, out>>
         ELSE /\ out' = out \o string /\ prev' = Code /\ free' = next
              /\ prefix' = IF HasRoom THEN [prefix EXCEPT ![free] = prev] ELSE prefix
              /\ suffix' = IF HasRoom THEN [suffix EXCEPT ![free] = Head(string)] ELSE suffix
              /\ bits' = IF grow THEN Realign(after, inGroup + 1, width) ELSE after
              /\ inGroup' = IF grow THEN 0 ELSE inGroup + 1
              /\ width' = IF grow THEN width + 1 ELSE width
              /\ UNCHANGED state
  /\ UNCHANGED <<input, maxWidth, blockMode, encoder, source>>

-----------------------------------------------------------------------------
Encode == EncodeString \/ EncodeClear \/ EncodeEnd \/ Truncate \/ Garbage
Decode == DecodeEnd \/ DecodeClear \/ DecodeFirst \/ DecodeNext

LzwNext == Encode \/ Decode

LzwSpec == LzwInit /\ [][LzwNext]_lzwVars

-----------------------------------------------------------------------------
\* Properties.

Slots == 0..Capacity - 1

LzwTypeOK ==
  /\ input \in Seq(Literal) /\ rest \in Seq(Literal)
  /\ maxWidth \in MaxWidths /\ blockMode \in BOOLEAN
  /\ \A n \in DOMAIN table : table[n] \in Seq(Literal)
  /\ encWidth \in InitWidth..maxWidth /\ width \in InitWidth..maxWidth
  /\ encGroup \in Nat /\ clears \in 0..MaxClears /\ inGroup \in Nat /\ bits \in Seq(Bit)
  /\ free \in 0..Capacity
  /\ prefix \in [Slots -> Slots] /\ suffix \in [Slots -> Literal]
  /\ prev \in Slots \union {NoCode} /\ out \in Seq(Literal)
  /\ source \in {"whole", "cut", "noise"}
  /\ state \in {"encoding", "decoding", "done", "corrupt"}

\* The decoder gives back what was compressed, for every input, with and
\* without block mode and wherever the encoder starts over: code widths, padding
\* and dictionary stay in step, also once the dictionary is full.  A truncated
\* archive gives a beginning of it and is never taken for a corrupt one.
RoundTrip ==
  source # "noise" => /\ state # "corrupt" /\ IsPrefix(out, input)
                      /\ state = "done" /\ source = "whole" => out = input

\* lzw.rs: "The chain strictly decreases, so it cannot loop".  On any stream,
\* noise included, the links of the dictionary lead down to a literal.
ChainsEnd == \A n \in FirstFree(blockMode)..free - 1 : prefix[n] < n
=============================================================================
