-------------------------------- MODULE Words --------------------------------
(***************************************************************************)
(* Bits, bytes and words, for the encodings of the handshake.  A text is a *)
(* sequence of bytes.  A word is the sequence of its bits, the most        *)
(* significant first, so that C's operators on unsigned words are          *)
(* operators on sequences of 32 bits, and & 0xFFFFFFFF drops a carry.      *)
(***************************************************************************)
EXTENDS Integers, SequencesExt

Zeros(n) == [i \in 1..n |-> 0]

Bits(n, width) == [i \in 1..width |-> (n \div 2^(width - i)) % 2]

Number(bits) ==
  LET number[i \in 0..Len(bits)] ==
        IF i = 0 THEN 0 ELSE 2 * number[i - 1] + bits[i]
  IN  number[Len(bits)]

Bytes(s) == FlattenSeq([i \in DOMAIN s |-> Bits(s[i], 8)])

\* The pieces of n bits each that s is made of.
Pieces(s, n) == [i \in 1..(Len(s) \div n) |-> SubSeq(s, n * (i - 1) + 1, n * i)]

\* A word written as two halves.
Word(hi, lo) == Bits(hi, 16) \o Bits(lo, 16)

Xor(x, y) == [i \in 1..32 |-> (x[i] + y[i]) % 2]
And(x, y) == [i \in 1..32 |-> x[i] * y[i]]
Or(x, y)  == [i \in 1..32 |-> IF x[i] + y[i] = 0 THEN 0 ELSE 1]
Not(x)    == [i \in 1..32 |-> 1 - x[i]]

\* The sum has 33 bits, of which the first is dropped.
Plus(x, y) ==
  LET sum[i \in 1..33] ==
        IF i = 33 THEN <<0>>
        ELSE LET s == sum[i + 1]
                 n == x[i] + y[i] + Head(s)
             IN  <<n \div 2, n % 2>> \o Tail(s)
  IN  Tail(sum[1])

SHA1CircularShift(n, x) == SubSeq(x, n + 1, 32) \o SubSeq(x, 1, n)
=============================================================================
