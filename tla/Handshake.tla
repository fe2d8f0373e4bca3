------------------------------ MODULE Handshake ------------------------------
(***************************************************************************)
(* The answer to the key of a WebSocket handshake: requestReceiver.h       *)
(* (fetchSecKey, computeAcceptKey), sha1.h, intLib.h (htoi), base64.h.     *)
(*                                                                         *)
(* The hash is computed in steps, one turn of a loop each.                 *)
(***************************************************************************)
EXTENDS Words

CONSTANTS
  NoKey,    \* the request has no key, or the server no answer
  GUID      \* the text computeAcceptKey appends to the key

VARIABLES
  hashing,  \* computeAcceptKey is running
  blocks,   \* SHA1Context::Message_Block, this one and those to come
  digest,   \* SHA1Context::Message_Digest
  W,        \* the array of SHA1ProcessMessageBlock
  turn,     \* its t and <<A, B, C, D, E>>
  answer    \* Sec-WebSocket-Accept

handshakeVars == <<hashing, blocks, digest, W, turn, answer>>

-----------------------------------------------------------------------------
(* base64.h: characters are indices into base, where 64 is the sign =.     *)

\* The four characters for up to three bytes.
Quad(bytes) ==
  LET prepare == Bytes(bytes) \o Zeros(8 * (3 - Len(bytes)))
  IN  [i \in 1..4 |-> IF Len(bytes) < i - 1 THEN 64
                      ELSE Number(Pieces(prepare, 6)[i])]

base64_encode(data) ==
  FlattenSeq([g \in 1..((Len(data) + 2) \div 3) |->
    Quad(SubSeq(data, 3 * g - 2,
                IF 3 * g < Len(data) THEN 3 * g ELSE Len(data)))])

-----------------------------------------------------------------------------
(* The texts of requestReceiver.h.                                         *)

\* What strlen and strcat see of s.
CString(s) ==
  IF 0 \in ToSet(s) THEN SubSeq(s, 1, SelectInSeq(s, LAMBDA b : b = 0) - 1)
  ELSE s

\* The size of the buffer for the key, the GUID and the 0 behind them.
WEB_SOCKET_KEY_LEN_MAX == 256

\* What follows "Sec-WebSocket-Key: " up to the end of the line; NoKey if the
\* request has no such header.  A longer key than the buffer takes is written
\* past its end, and no state after that is modelled (KeyAssumption).
fetchSecKey(buf) ==
  IF buf # NoKey /\ \E i \in DOMAIN buf : buf[i] \in {10, 13}
  THEN SubSeq(buf, 1, SelectInSeq(buf, LAMBDA b : b \in {10, 13}) - 1)
  ELSE buf

\* The bytes of the digest, printed with %08X and read two digits at a time.
htoi(words) == [i \in 1..20 |-> Number(Pieces(FlattenSeq(words), 8)[i])]

-----------------------------------------------------------------------------
(* sha1.h                                                                  *)

SHA1Reset == <<Word(26437, 8961), Word(61389, 43913), Word(39098, 56574),
               Word(4146, 21622), Word(50130, 57840)>>

K == <<Word(23170, 31129), Word(28377, 60321), Word(36635, 48348),
       Word(51810, 49622)>>

(* The message, the byte 0x80, zeros up to byte 56 of a block, which is the *)
(* next block if the index into the last one is past 55, and the length.   *)
Pad(s, zeros) ==
  Bytes(s) \o Bits(128, 8) \o Zeros(8 * zeros) \o Zeros(48) \o Bits(8 * Len(s), 16)

\* Mutant: the index is compared with 56.
SHA1PadShort(s) ==
  LET index == Len(s) % 64
  IN  Pad(s, IF index > 56 THEN 119 - index ELSE 55 - index)

SHA1PadMessage(s) ==
  LET index == Len(s) % 64
  IN  Pad(s, IF index > 55 THEN 119 - index ELSE 55 - index)

Mix(t, B, C, D) ==
  CASE t < 20       -> Or(And(B, C), And(Not(B), D))
    [] t \in 40..59 -> Or(And(B, C), Or(And(B, D), And(C, D)))
    [] OTHER        -> Xor(B, Xor(C, D))

InitHandshake ==
  /\ hashing = FALSE /\ answer = NoKey
  /\ blocks = <<>> /\ digest = <<>> /\ W = <<>>
  /\ turn = [t |-> 0, v |-> <<>>]

\* computeAcceptKey calls sha1_hash with the key and the GUID.
BeginHash(key) ==
  /\ hashing' = TRUE
  /\ blocks' = Pieces(SHA1PadMessage(CString(key) \o GUID), 512)
  /\ digest' = SHA1Reset
  /\ UNCHANGED <<W, turn, answer>>

BeginBlock ==
  /\ W = <<>> /\ blocks # <<>>
  /\ W' = Pieces(Head(blocks), 32)
  /\ turn' = [t |-> 0, v |-> digest]
  /\ UNCHANGED <<hashing, blocks, digest, answer>>

\* W[t], from t = 16.
ExtendW ==
  /\ Len(W) \in 16..79
  /\ LET t == Len(W) + 1
     IN  W' = Append(W, SHA1CircularShift(1,
                Xor(Xor(W[t - 3], W[t - 8]), Xor(W[t - 14], W[t - 16]))))
  /\ UNCHANGED <<hashing, blocks, digest, turn, answer>>

\* One turn of the four loops over t.
Turn ==
  /\ Len(W) = 80 /\ turn.t < 80
  /\ LET t == turn.t
         v == turn.v
         temp == Plus(Plus(Plus(SHA1CircularShift(5, v[1]),
                                Mix(t, v[2], v[3], v[4])),
                           Plus(v[5], W[t + 1])), K[t \div 20 + 1])
     IN  turn' = [t |-> t + 1,
                  v |-> <<temp, v[1], SHA1CircularShift(30, v[2]), v[3], v[4]>>]
  /\ UNCHANGED <<hashing, blocks, digest, W, answer>>

EndBlock ==
  /\ Len(W) = 80 /\ turn.t = 80
  /\ digest' = [i \in 1..5 |-> Plus(digest[i], turn.v[i])]
  /\ blocks' = Tail(blocks)
  /\ W' = <<>>
  /\ UNCHANGED <<hashing, turn, answer>>

\* The length of the 20 bytes is taken with strlen.
EndHash ==
  /\ hashing /\ blocks = <<>>
  /\ hashing' = FALSE
  /\ answer' = base64_encode(CString(htoi(digest)))
  /\ digest' = <<>> /\ turn' = [t |-> 0, v |-> <<>>]
  /\ UNCHANGED <<blocks, W>>

Hash == BeginBlock \/ ExtendW \/ Turn \/ EndBlock \/ EndHash
=============================================================================
