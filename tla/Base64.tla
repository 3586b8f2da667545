------------------------------- MODULE Base64 -------------------------------
(***************************************************************************)
(* base64_encode and base64_decode (src/c++/base/base64.cpp).  Bytes are   *)
(* numbers below 256.  A character of base64_chars is its index there;     *)
(* Pad is '=', and any other character is a larger number.                 *)
(***************************************************************************)
EXTENDS Integers, Sequences

Pad == 64

\* char_array_4 of three bytes, and char_array_3 of four indices.
Sextets(a, b, c) ==
    <<a \div 4, 16 * (a % 4) + (b \div 16), 4 * (b % 16) + (c \div 64), c % 64>>
Octets(a, b, c, d) ==
    <<(4 * a + ((b \div 16) % 4)) % 256,
      (16 * (b % 16) + ((c \div 4) % 16)) % 256,
      (64 * (c % 4) + d) % 256>>

\* Item k of s, or what the array is filled up with.
Item(s, k, filler) == IF k <= Len(s) THEN s[k] ELSE filler

(* Fault variant: a rest of one byte gets one character too few. *)
EncodeShort(bytes) ==
    [k \in 1..(4 * ((Len(bytes) + 2) \div 3)) |->
        LET g == (k - 1) \div 4
            q == (k - 1) % 4
        IN  IF 3 * g + q >= Len(bytes) + (IF q > 1 THEN 1 ELSE 0) THEN Pad
            ELSE Sextets(Item(bytes, 3 * g + 1, 0),
                         Item(bytes, 3 * g + 2, 0),
                         Item(bytes, 3 * g + 3, 0))[q + 1]]

\* Group g of three bytes gives four characters; of the last group, those
\* that hold a bit of the text.
base64_encode(bytes) ==
    [k \in 1..(4 * ((Len(bytes) + 2) \div 3)) |->
        LET g == (k - 1) \div 4
            q == (k - 1) % 4
        IN  IF 3 * g + q > Len(bytes) THEN Pad
            ELSE Sextets(Item(bytes, 3 * g + 1, 0),
                         Item(bytes, 3 * g + 2, 0),
                         Item(bytes, 3 * g + 3, 0))[q + 1]]

\* The characters before the first that is not in base64_chars.
is_base64(c) == c < Pad
Valid(text) ==
    LET ends == {k \in 0..Len(text) : \A j \in 1..k : is_base64(text[j])}
    IN  SubSeq(text, 1, CHOOSE k \in ends : \A j \in ends : j <= k)

\* The last group is filled up with zeros, for which find() says npos: 255
\* as an unsigned char.
base64_decode(encoded_string) ==
    LET in == Valid(encoded_string)
        rest == Len(in) % 4
    IN  [k \in 1..(3 * (Len(in) \div 4) + IF rest > 0 THEN rest - 1 ELSE 0) |->
            LET g == (k - 1) \div 3
            IN  Octets(in[4 * g + 1],
                       Item(in, 4 * g + 2, 255),
                       Item(in, 4 * g + 3, 255),
                       Item(in, 4 * g + 4, 255))[((k - 1) % 3) + 1]]
=============================================================================
