----------------------------- MODULE SecureHash ------------------------------
(***************************************************************************)
(* The hash function SHA-1 as its standard (FIPS 180-4) defines it, for    *)
(* texts of less than 8192 bytes: the first 48 of the 64 bits that hold    *)
(* the length are 0.  This is what sha1.h is compared with, and none of it *)
(* is taken from there but the order in which five words are added.        *)
(***************************************************************************)
EXTENDS Words

\* 3.2: rotation to the left.
ROTL(n, x) == SubSeq(x, n + 1, 32) \o SubSeq(x, 1, n)

\* 4.1.1: the functions of the rounds.
Ch(x, y, z)     == Xor(And(x, y), And(Not(x), z))
Parity(x, y, z) == Xor(x, Xor(y, z))
Maj(x, y, z)    == Xor(And(x, y), Xor(And(x, z), And(y, z)))

RoundFunction(t, x, y, z) ==
  IF t < 20 THEN Ch(x, y, z)
  ELSE IF 40 <= t /\ t < 60 THEN Maj(x, y, z) ELSE Parity(x, y, z)

\* 4.2.1: the constants of the rounds.
RoundConstant(t) ==
  IF t < 20 THEN Word(23170, 31129) ELSE IF t < 40 THEN Word(28377, 60321)
  ELSE IF t < 60 THEN Word(36635, 48348) ELSE Word(51810, 49622)

\* 5.1.1: a bit 1, as few bits 0 as fill the last block, and the length.
Padded(s) ==
  LET l == 8 * Len(s)
  IN  Bytes(s) \o <<1>> \o Zeros((447 - l) % 512) \o Zeros(48) \o Bits(l, 16)

\* 5.3.1
InitialHash == <<Word(26437, 8961), Word(61389, 43913), Word(39098, 56574),
                 Word(4146, 21622), Word(50130, 57840)>>

\* 6.1.2, 1: the first t words of the schedule of a block.
Schedule(B) ==
  LET words[t \in 16..80] ==
        IF t = 16 THEN Pieces(B, 32)
        ELSE LET w == words[t - 1]
             IN  Append(w, ROTL(1, Xor(Xor(w[t - 3], w[t - 8]),
                                       Xor(w[t - 14], w[t - 16]))))
  IN  words

\* 6.1.2, 2 and 3: the five variables after t rounds.
Rounds(B, h) ==
  LET w == Schedule(B)[80]
      variables[t \in 0..80] ==
        IF t = 0 THEN h
        ELSE LET v == variables[t - 1]
             IN  [v EXCEPT ![1] = Plus(Plus(Plus(ROTL(5, v[1]),
                             RoundFunction(t - 1, v[2], v[3], v[4])),
                             Plus(v[5], w[t])), RoundConstant(t - 1)),
                           ![2] = v[1], ![3] = ROTL(30, v[2]),
                           ![4] = v[3], ![5] = v[4]]
  IN  variables

\* 6.1.2, 4: the hash value after n blocks.
Hashes(s) ==
  LET M == Pieces(Padded(s), 512)
      values[n \in 0..Len(M)] ==
        IF n = 0 THEN InitialHash
        ELSE LET h == values[n - 1]
                 v == Rounds(M[n], h)[80]
             IN  [i \in 1..5 |-> Plus(h[i], v[i])]
  IN  values

\* The bytes of the digest.
SHA1Digest(s) ==
  LET h == Hashes(s)[Len(Padded(s)) \div 512]
      first(i) == (8 * ((i - 1) % 4)) + 1
  IN  [i \in 1..20 |->
        Number(SubSeq(h[((i - 1) \div 4) + 1], first(i), first(i) + 7))]
=============================================================================
