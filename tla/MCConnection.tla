---------------------------- MODULE MCConnection -----------------------------
(* A small instance of Connection for TLC.                                 *)
EXTENDS Connection, TLC

\* The GUID of RFC 6455.
MCGUID ==
  <<50, 53, 56, 69, 65, 70, 65, 53, 45, 69, 57, 49, 52, 45, 52, 55, 68, 65,
    45, 57, 53, 67, 65, 45, 67, 53, 65, 66, 48, 68, 67, 56, 53, 66, 49, 49>>

\* The key of the example in RFC 6455, one whose digest has a zero byte, and
\* keys for which the padding ends a block, begins one, and is one.
KeyOfRFC ==
  <<100, 71, 104, 108, 73, 72, 78, 104, 98, 88, 66, 115, 90, 83, 66, 117, 98,
    50, 53, 106, 90, 81, 61, 61>>

KeyWithZero ==
  <<68, 76, 102, 114, 116, 55, 121, 116, 72, 74, 89, 56, 97, 98, 108, 85,
    110, 90, 107, 69, 106, 81, 61, 61>>

Key19 ==
  <<82, 88, 120, 50, 110, 122, 110, 89, 90, 69, 71, 90, 119, 79, 87, 57, 121,
    70, 115>>

Key20 ==
  <<100, 71, 104, 108, 73, 72, 78, 104, 98, 88, 66, 115, 90, 83, 66, 117, 98,
    50, 53, 106>>

Key28 ==
  <<100, 71, 104, 108, 73, 72, 78, 104, 98, 88, 66, 115, 90, 83, 66, 117, 98,
    50, 53, 106, 90, 81, 61, 61, 100, 71, 104, 108>>

MCKey == {KeyOfRFC, KeyWithZero, Key19, Key20, Key28}

\* Computed outside this project.
MCSHA1 ==
  KeyOfRFC :>
    <<179, 122, 79, 44, 192, 98, 79, 22, 144, 246, 70, 6, 207, 56, 89, 69,
      178, 190, 196, 234>> @@
  KeyWithZero :>
    <<110, 253, 162, 214, 10, 252, 242, 182, 0, 43, 67, 124, 229, 12, 210,
      182, 34, 125, 32, 62>> @@
  Key19 :>
    <<167, 22, 155, 252, 115, 197, 4, 90, 113, 191, 214, 207, 117, 32, 138,
      236, 80, 108, 20, 246>> @@
  Key20 :>
    <<147, 219, 133, 81, 13, 236, 198, 192, 115, 163, 147, 180, 255, 41, 107,
      189, 138, 249, 206, 78>> @@
  Key28 :>
    <<247, 203, 25, 168, 62, 42, 122, 179, 116, 56, 169, 227, 93, 116, 26,
      93, 150, 115, 78, 56>>

MCKeyCut == {0, 12}

Whole(n) == [length |-> n, fin |-> TRUE, masked |-> TRUE]

\* Lengths on both sides of those where the header grows, and of the buffer.
MCPlan ==
  {<<Whole(125), Whole(126), Whole(1015)>>, <<Whole(1016), Whole(20)>>,
   <<[Whole(30) EXCEPT !.fin = FALSE], [Whole(30) EXCEPT !.masked = FALSE],
     Whole(30)>>}

\* Lengths on both sides of those where packData changes the header.
MCMessage == {125, 126, 65534, 65535}
=============================================================================
