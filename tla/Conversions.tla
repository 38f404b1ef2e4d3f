----------------------------- MODULE Conversions -----------------------------
(***************************************************************************)
(* Conversions of src/stlext/iostreams between values and text.            *)
(*                                                                         *)
(* A codec is an output iterator: each byte or character assigned to it    *)
(* goes through a small buffer to the iterator behind it.  Here an encoder *)
(* writes what a decoder reads, one text after the other.  itos writes one *)
(* integer, through an output iterator or into an empty string.            *)
(*                                                                         *)
(* Characters are their places in the alphabet.  Left out: itos in base 8, *)
(* which is not implemented and writes nothing, and the SSE2 versions for  *)
(* unsigned integers of 32 and 64 bits.                                    *)
(***************************************************************************)
EXTENDS Integers, SequencesExt

CONSTANTS
  Byte,      \* the bytes of texts
  MaxBytes,  \* the bound on their number in one text
  Base,      \* the bases of itos
  Width      \* the bits of an integer, a multiple of 8

VARIABLES
  kind,     \* "base64", "base16", "BASE16" with the flag uppercase, "itos" or "string"
  input,    \* the text given to the encoder, or the integer <<i>>
  coder,    \* the encoder's <<buf, nbits>>, or <<__val, base>> of itos
  wire,     \* characters written and not read, or the buffer of itos
  decoder,  \* the decoder's <<buf, nbits>>, or <<i>>, the shift of itos in base 2
  output,   \* what was decoded, or written by itos
  pc

vars == <<kind, input, coder, wire, decoder, output, pc>>

Pad     == 64  \* '='
Newline == 65  \* and any other character that is not in the alphabet
Minus   == -1

Codecs == {"base64", "base16", "BASE16"}

\* Integers on both sides of where their text gets longer, signed and unsigned.
Limit == 2 ^ Width
Edges == UNION {{b ^ k : k \in {j \in 0..Width : b = 2 \/ (b = 10 /\ j < 5) \/ (b = 16 /\ 4 * j < Width)}} : b \in {2, 10, 16}}
Numbers == {v \in UNION {{e - 1, e, -e, 1 - e} : e \in Edges} : v \in (-(Limit \div 2))..(Limit - 1)}

Init ==
  /\ \/ kind \in Codecs /\ input = <<>> /\ coder = <<0, 0>> /\ decoder = <<0, 0>> /\ pc = "open"
     \/ /\ kind \in {"itos", "string"}
        /\ \E v \in Numbers : input = <<v>>
        /\ \E b \in Base : coder = <<0, b>>
        /\ decoder = <<Width - 8>> /\ pc = "start"
  /\ wire = <<>> /\ output = <<>>

-----------------------------------------------------------------------------
(* Codecs *)

Sextets(buf) == <<buf \div 2 ^ 18, (buf \div 2 ^ 12) % 64, (buf \div 64) % 64, buf % 64>>

\* The three bytes of a group have places of their own in the buffer.
Encode64(byte) ==
  LET buf == coder[1]  nbits == coder[2] IN
  IF nbits = 2 THEN wire' = wire \o Sextets(buf + byte) /\ coder' = <<0, 0>>
  ELSE coder' = <<buf + byte * 2 ^ (2 ^ (4 - nbits)), nbits + 1>> /\ UNCHANGED wire

\* The alphabet has the upper case digits behind the lower case ones.
Digit(v) == IF kind = "BASE16" /\ v > 9 THEN v + 16 ELSE v

Encode16(byte) ==
  wire' = wire \o <<Digit(byte \div 16), Digit(byte % 16)>> /\ UNCHANGED coder

Encode ==
  \E byte \in Byte :
    /\ pc = "open" /\ Len(input) < MaxBytes
    /\ IF kind = "base64" THEN Encode64(byte) ELSE Encode16(byte)
    /\ input' = Append(input, byte)
    /\ UNCHANGED <<decoder, output, pc>>

\* flush: an incomplete group is written and padded.
Flush ==
  /\ pc = "open"
  /\ wire' = wire \o CASE coder[2] = 0 -> <<>>
                       [] coder[2] = 1 -> SubSeq(Sextets(coder[1]), 1, 2) \o <<Pad, Pad>>
                       [] coder[2] = 2 -> SubSeq(Sextets(coder[1]), 1, 3) \o <<Pad>>
  /\ coder' = <<0, 0>> /\ pc' = "flushed"
  /\ UNCHANGED <<input, decoder, output>>

\* Whoever stores the text breaks its lines.
BreakLine ==
  /\ kind \in Codecs /\ wire # <<>> /\ Last(wire) # Newline
  /\ wire' = Append(wire, Newline)
  /\ UNCHANGED <<input, coder, decoder, output, pc>>

\* Six bits are added; when there are eight, the upper ones go out.
Decode64(ch) ==
  LET buf   == (decoder[1] * 64 + ch) % 2 ^ 24
      nbits == decoder[2] + 6
  IN  IF ch \notin 0..63 THEN UNCHANGED <<decoder, output>>
      ELSE IF nbits >= 8
      THEN /\ output' = Append(output, (buf \div 2 ^ (nbits - 8)) % 256)
           /\ decoder' = <<buf % 2 ^ (nbits - 8), nbits - 8>>
      ELSE decoder' = <<buf, nbits>> /\ UNCHANGED output

\* The second digit is in the lower half; an upper case one is 16 places on.
Decode16(ch) ==
  LET buf == (decoder[1] * 16 + IF ch > 15 THEN ch - 16 ELSE ch) % 256 IN
  IF ch \notin 0..31 THEN UNCHANGED <<decoder, output>>
  ELSE IF decoder[2] = 1 THEN output' = Append(output, buf) /\ decoder' = <<buf, 0>>
  ELSE decoder' = <<buf, 1>> /\ UNCHANGED output

Decode ==
  /\ kind \in Codecs /\ wire # <<>>
  /\ IF kind = "base64" THEN Decode64(Head(wire)) ELSE Decode16(Head(wire))
  /\ wire' = Tail(wire)
  /\ UNCHANGED <<input, coder, pc>>

Decoded ==
  /\ pc = "flushed" /\ wire = <<>>
  /\ pc' = "done"
  /\ UNCHANGED <<input, coder, wire, decoder, output>>

\* Another text, with the encoder that was flushed and a decoder of its own.
Again ==
  /\ kind \in Codecs /\ pc = "done"
  /\ pc' = "open" /\ input' = <<>> /\ output' = <<>> /\ decoder' = <<0, 0>>
  /\ UNCHANGED <<coder, wire>>

-----------------------------------------------------------------------------
(* itos *)

Number == input[1]
Val    == coder[1]
B      == coder[2]

\* Only base 10 has a sign, and into a string every base without a version of its own.
Signed == B = 10 \/ (kind = "string" /\ B \notin {2, 16})

Start ==
  /\ pc = "start"
  /\ IF Number = 0
     THEN /\ output' = IF B = 2 THEN [i \in 1..Width |-> 0] ELSE <<0>>
          /\ pc' = "done" /\ UNCHANGED coder
     ELSE /\ output' = IF Number < 0 /\ Signed THEN <<Minus>> ELSE <<>>
          /\ coder' = <<IF Number < 0 /\ Signed THEN -Number ELSE Number % Limit, B>>
          /\ pc' = "convert"
  /\ UNCHANGED <<input, wire, decoder>>

\* The digits of __val, as many as there are while it is less than B ^ 2.
LastDigits(val) == IF val >= B THEN <<val \div B, val % B>> ELSE <<val>>

Return(digits) ==
  output' = output \o digits /\ wire' = digits /\ pc' = "done" /\ UNCHANGED <<coder, decoder>>

\* In base 2, eight digits of a table for each byte, from the highest on.
ByBytes ==
  LET byte == (Val \div 2 ^ decoder[1]) % 256 IN
  /\ output' = output \o [i \in 1..8 |-> (byte \div 2 ^ (8 - i)) % 2]
  /\ decoder' = <<decoder[1] - 8>>
  /\ pc' = IF decoder[1] = 0 THEN "done" ELSE pc
  /\ UNCHANGED <<coder, wire>>

\* In base 10 and 16, two digits at a time, from the lowest on.
ByPairs ==
  IF Val >= B * B
  THEN /\ wire' = <<(Val % (B * B)) \div B, Val % B>> \o wire
       /\ coder' = <<Val \div (B * B), B>>
       /\ UNCHANGED <<decoder, output, pc>>
  ELSE Return(LastDigits(Val) \o wire)

\* In other bases one; the buffer is longer than any integer.
ByDigits ==
  IF Val >= B
  THEN /\ wire' = <<Val % B>> \o wire
       /\ coder' = <<Val \div B, B>>
       /\ UNCHANGED <<decoder, output, pc>>
  ELSE Return(<<Val>> \o wire)

Convert ==
  /\ pc = "convert"
  /\ IF B = 2 THEN ByBytes ELSE IF B \in {10, 16} THEN ByPairs ELSE ByDigits
  /\ UNCHANGED input

Next ==
  /\ Encode \/ Flush \/ BreakLine \/ Decode \/ Decoded \/ Again \/ Start \/ Convert
  /\ UNCHANGED kind

Spec == Init /\ [][Next]_vars /\ WF_vars(Next)

-----------------------------------------------------------------------------
(* Properties *)

\* What a decoder gives is the text the encoder was given, however its lines are broken; on
\* the way it is a part of it, which lacks at most an incomplete group once all is read.
RoundTrip ==
  kind \in Codecs =>
    /\ IsPrefix(output, input)
    /\ wire = <<>> => Len(input) - Len(output) <= 2
    /\ pc = "done" => output = input

\* What itos writes reads back as the integer, in the bits of its type where no sign is
\* written, and without zeros in front of it.
ReadsBack ==
  kind \notin Codecs /\ pc = "done" =>
    LET minus  == output[1] = Minus
        digits == IF minus THEN Tail(output) ELSE output
        value  == FoldLeft(LAMBDA acc, d : acc * B + d, 0, digits)
    IN  /\ \A i \in DOMAIN digits : digits[i] \in 0..(B - 1)
        /\ IF minus THEN Signed /\ value = -Number
           ELSE value = (IF Signed THEN Number ELSE Number % Limit)
        /\ IF B = 2 THEN Len(output) = Width ELSE digits[1] # 0 \/ digits = <<0>>

\* numeric_limits<_Int>::digits10
Digits10 == CHOOSE d \in 1..Width : 10 ^ d <= Limit \div 2 /\ 10 ^ (d + 1) > Limit

\* max_size, the length of the buffer and, but for bases without a version of their own, of
\* the room made in a string.
Room == CASE B = 2 -> Width [] B = 10 -> Digits10 + 2 [] B = 16 -> Width \div 4 + 1 [] OTHER -> 64

\* No digit is written before the buffer or behind the room, with the sign at the minimum.
WithinRoom ==
  kind \notin Codecs => /\ Len(wire) <= Room
                        /\ (kind = "string" /\ B \in {2, 10, 16}) => Len(output) <= Room
=============================================================================
