----------------------------- MODULE Connection ------------------------------
(***************************************************************************)
(* The bytes of one connection: the handshake, recv and analyData          *)
(* (requestReceiver.h), and packData and send (websocketSendAction.h).     *)
(* The server takes what one call of recv returns for one request, and     *)
(* sends without waiting.  The client is a browser: it frames its requests *)
(* and reads frames as the WebSocket protocol says, closes the connection  *)
(* if the key it is given is wrong, and sends nothing before the handshake.*)
(*                                                                         *)
(* The stream of requests is modelled by positions: the kernel has bytes   *)
(* up to "arrived", and recv has returned those up to "taken".  Between    *)
(* two clients the buffer of receiveRequest is all zeros.                  *)
(***************************************************************************)
EXTENDS Handshake, SecureHash

CONSTANTS
  Key,         \* keys of clients
  KeyCut,      \* how much of a key the first read may return
  SHA1,        \* the standard digest of each key with the GUID
  Plan,        \* sequences of requests, each [length, fin, masked]
  Message,     \* lengths of messages to the client
  MaxMessages, \* bound on the messages sent
  BUFF_SIZE,
  SendBuffer   \* the bytes the kernel holds for a client that does not read

ASSUME ConnectionAssumption ==
  /\ BUFF_SIZE \in Nat \ {0} /\ SendBuffer \in Nat /\ MaxMessages \in Nat
  /\ Message \subseteq Nat \ {0}
  /\ Plan \subseteq Seq([length : Nat, fin : BOOLEAN, masked : BOOLEAN])

\* Keys are texts of base64, short enough for the buffer in which the server
\* puts them.  None of them has the digest of a part of it.
ASSUME KeyAssumption ==
  /\ Key \subseteq Seq((1..255) \ {10, 13}) /\ GUID \in Seq(1..255)
  /\ NoKey \notin Seq(0..255)
  /\ \A k \in Key :
       /\ Len(k) + Len(GUID) < WEB_SOCKET_KEY_LEN_MAX
       /\ SHA1[k] = SHA1Digest(k \o GUID)
       /\ KeyCut \subseteq 0..(Len(k) - 1)
       /\ \A n \in KeyCut : SHA1Digest(SubSeq(k, 1, n) \o GUID) # SHA1[k]

VARIABLES
  phase,       \* of receiveRequest and its client
  key,         \* the key of the client, forgotten after the handshake
  cut,         \* history: the first read returned a part of the handshake
  plan,        \* the requests the client sends, chosen after the handshake
  arrived, taken,
  handled,     \* the requests that dealRequest parsed
  spoiled,     \* history: requests not received alone and in one piece
  died,        \* the process has read the method of a value that has none
  told,        \* the messages response was called with
  wire,        \* the frames the kernel holds for the client
  understood,  \* the messages the client has read
  garbled,     \* the client has taken bytes for a message that were none
  noRoom,      \* history: messages that found no room at all
  short        \* history: messages of which a part was sent

inVars == <<plan, arrived, taken, handled, spoiled, died>>
outVars == <<told, wire, understood, garbled, noRoom, short>>
vars == <<handshakeVars, phase, key, cut, inVars, outVars>>

-----------------------------------------------------------------------------
(* The frames of the client.                                               *)

\* Two bytes, the extended length, and the mask.
HeaderSize(r) ==
  (IF r.length < 126 THEN 2 ELSE IF r.length < 65536 THEN 4 ELSE 10)
    + (IF r.masked THEN 4 ELSE 0)

Start[i \in 1..(Len(plan) + 1)] ==
  IF i = 1 THEN 0
  ELSE Start[i - 1] + HeaderSize(plan[i - 1]) + plan[i - 1].length

Request == DOMAIN plan
End(i) == Start[i + 1]

\* The network may deliver any part of the stream; these are worth a case.
Boundaries ==
  UNION {{Start[i], Start[i] + 1, Start[i] + HeaderSize(plan[i]), End(i) - 1,
          End(i)} : i \in Request}

-----------------------------------------------------------------------------
Init ==
  /\ InitHandshake
  /\ phase = "new" /\ key \in Key /\ cut = FALSE
  /\ plan = <<>> /\ arrived = 0 /\ taken = 0 /\ handled = <<>> /\ spoiled = {}
  /\ died = FALSE
  /\ told = <<>> /\ wire = <<>> /\ understood = <<>>
  /\ garbled = FALSE /\ noRoom = {} /\ short = {}

(* The only read of the handshake.  Without the header of the key there is *)
(* no answer, but a session all the same; a key may end where the read     *)
(* ended.                                                                  *)
ReadHandshake ==
  /\ phase = "new"
  /\ \E buf \in {NoKey} \cup {SubSeq(key, 1, n) : n \in KeyCut}
                  \cup {key \o <<13, 10>>} :
       /\ cut' = (buf = NoKey \/ Len(buf) < Len(key))
       /\ IF fetchSecKey(buf) = NoKey
          THEN phase' = "unanswered" /\ UNCHANGED handshakeVars
          ELSE phase' = "hashing" /\ BeginHash(fetchSecKey(buf))
  /\ UNCHANGED <<key, inVars, outVars>>

ComputeAcceptKey ==
  /\ phase = "hashing"
  /\ Hash
  /\ UNCHANGED <<phase, key, cut, inVars, outVars>>

ShakeHand ==
  /\ phase = "hashing" /\ ~hashing
  /\ phase' = "answered"
  /\ UNCHANGED <<handshakeVars, key, cut, inVars, outVars>>

\* The text of a digest that base64 stands for.
Standard(k) == base64_encode(SHA1[k])

\* The client; it forgets the key and the answer.
ClientChecks ==
  /\ phase = "answered"
  /\ \/ answer = Standard(key) /\ phase' = "open" /\ plan' \in Plan
     \/ answer # Standard(key) /\ phase' = "refused" /\ UNCHANGED plan
  /\ key' = <<>> /\ answer' = NoKey
  /\ UNCHANGED <<hashing, blocks, digest, W, turn, cut, arrived, taken,
                 handled, spoiled, died, outVars>>

-----------------------------------------------------------------------------
(* From the server to the client.                                          *)

\* Mutant: the short header is used up to 126 bytes.
PackDataClosed(n) ==
  [length |-> n, first |-> IF n <= 126 THEN n ELSE 126, ext |-> n > 126]

\* The frame of packData: the second byte, and whether two more follow it.
packData(n) ==
  [length |-> n, first |-> IF n < 126 THEN n ELSE 126, ext |-> n >= 126]

FrameSize(f) == f.length + (IF f.ext THEN 4 ELSE 2)

Held == FoldLeft(LAMBDA n, e : n + e.put, 0, wire)

\* send with MSG_DONTWAIT: what there is room for.  packData makes no frame
\* of a message of 0xFFFF bytes or more.
Send(n) ==
  LET id   == Len(told) + 1
      f    == packData(n)
      room == SendBuffer - Held
  IN  /\ told' = Append(told, n)
      /\ \/ /\ n >= 65535 \/ room = 0
            /\ noRoom' = IF n < 65535 THEN noRoom \cup {id} ELSE noRoom
            /\ UNCHANGED <<wire, short>>
         \/ /\ n < 65535 /\ room > 0
            /\ LET put == Min({FrameSize(f), room})
               IN  /\ wire' = Append(wire, [id |-> id, frame |-> f, put |-> put])
                   /\ short' = IF put < FrameSize(f) THEN short \cup {id}
                               ELSE short
            /\ UNCHANGED noRoom
      /\ UNCHANGED <<understood, garbled>>

Response ==
  IF Len(told) < MaxMessages THEN \E n \in Message : Send(n)
  ELSE UNCHANGED outVars

\* Another thread sends to this client.
Notice ==
  /\ phase = "open" /\ ~died /\ Len(told) < MaxMessages
  /\ Response
  /\ UNCHANGED <<handshakeVars, phase, key, cut, inVars>>

(* The client reads the first frame.  A frame that announces another       *)
(* length than that of its message, or the rest of which is the frame      *)
(* behind it, is taken for something else, and so is all that follows.     *)
ClientReads ==
  /\ phase = "open" /\ ~garbled /\ wire # <<>>
  /\ LET e == Head(wire)
         announced == (e.frame.first = 126) = e.frame.ext
     IN  \/ /\ announced /\ e.put = FrameSize(e.frame)
            /\ understood' = Append(understood, e.id)
            /\ UNCHANGED garbled
         \/ /\ ~announced \/ (e.put < FrameSize(e.frame) /\ Len(wire) > 1)
            /\ garbled' = TRUE
            /\ UNCHANGED understood
  /\ wire' = Tail(wire)
  /\ UNCHANGED <<handshakeVars, phase, key, cut, inVars, told, noRoom, short>>

-----------------------------------------------------------------------------
(* From the client to the server.                                          *)

Arrive ==
  /\ phase = "open" /\ ~died
  /\ \E n \in Boundaries : n > arrived /\ arrived' = n
  /\ UNCHANGED <<handshakeVars, phase, key, cut, plan, taken, handled, spoiled,
                 died, outVars>>

\* Mutant: a payload of 126 bytes is looked for behind the short header.
PayloadAtOpen(r) ==
  IF r.length <= 126 THEN 6 ELSE IF r.length < 65536 THEN 8 ELSE 14

\* Where analyData finds the payload.
PayloadAt(r) ==
  IF r.length < 126 THEN 6 ELSE IF r.length < 65536 THEN 8 ELSE 14

\* The bytes from taken up to n are analysed as the request i.
AnalyData(i, n) ==
  /\ Start[i] = taken
  /\ plan[i].fin /\ plan[i].masked
  /\ PayloadAt(plan[i]) = HeaderSize(plan[i])
  /\ taken + PayloadAt(plan[i]) + plan[i].length <= n

Overlaps(i, n) == Start[i] < n /\ taken < End(i)
Alone(i, n) == Start[i] = taken /\ End(i) <= n

(* One call of recv, analyData and dealRequest.  The beginning of a request *)
(* is not JSON: the bytes that are missing are read from the buffer, which *)
(* holds zeros there.  Bytes from the middle of a request are a frame of   *)
(* any kind, and may be JSON without a method, which dealRequest does not  *)
(* expect.                                                                 *)
Recv ==
  /\ phase = "open" /\ ~died /\ taken < arrived
  /\ LET n == Min({arrived, taken + BUFF_SIZE - 1})
     IN  /\ taken' = n
         /\ spoiled' = spoiled \cup
                         {i \in Request : Overlaps(i, n) /\ ~Alone(i, n)}
         /\ \/ /\ \E i \in Request :
                    AnalyData(i, n) /\ handled' = Append(handled, i)
               /\ Response
               /\ UNCHANGED died
            \/ /\ ~\E i \in Request : AnalyData(i, n)
               /\ \/ UNCHANGED died
                  \/ /\ ~\E i \in Request : Start[i] = taken
                     /\ n - taken > 1
                     /\ died' = TRUE
               /\ UNCHANGED <<handled, outVars>>
  /\ UNCHANGED <<handshakeVars, phase, key, cut, plan, arrived>>

-----------------------------------------------------------------------------
Next ==
  \/ ReadHandshake \/ ComputeAcceptKey \/ ShakeHand \/ ClientChecks
  \/ Arrive \/ Recv
  \/ Notice \/ ClientReads

Spec == Init /\ [][Next]_vars

-----------------------------------------------------------------------------
(* Properties.                                                             *)

(* The client is given the key of the protocol exactly if the whole        *)
(* handshake was read at once and the digest has no zero byte, where       *)
(* strlen would end it: SHA-1 with its padding at every length, the two    *)
(* conversions by way of a text of hexadecimal digits, and base64 agree    *)
(* with the standard otherwise (requestReceiver.h:66-105).                 *)
KeyIsStandard ==
  phase = "answered" =>
    (answer = Standard(key) <=> ~cut /\ 0 \notin ToSet(SHA1[key]))

(* The requests the server handles are those of the client, in order and   *)
(* once each; missing are those that are not one masked frame, and those   *)
(* that did not arrive alone and in one piece, among them every one that   *)
(* is longer than the buffer.  And only after such a request may bytes be  *)
(* taken for a request that never was one (requestReceiver.h:115-190,      *)
(* 230-259).                                                               *)
Received == {i \in Request : End(i) <= taken}
Frame(i) == plan[i].fin /\ plan[i].masked

Increasing(s) == \A a, b \in DOMAIN s : a < b => s[a] < s[b]

RequestsAreClients ==
  /\ Increasing(handled)
  /\ ToSet(handled) = {i \in Received \ spoiled : Frame(i)}
  /\ \A i \in Received : HeaderSize(plan[i]) + plan[i].length >= BUFF_SIZE
                            => i \in spoiled
  /\ died => spoiled # {}

(* The client reads the messages in the order of the calls of response,    *)
(* and misses only those of 65535 bytes and more, and those that found the *)
(* buffer full (websocketSendAction.h:20-52, 77) -- until one that was     *)
(* sent in part, from which on it may take anything for a message.         *)
MessagesArrive ==
  LET Sent   == {k \in DOMAIN told : told[k] < 65535} \ noRoom
      Coming == [k \in DOMAIN wire |-> wire[k].id]
      Read   == ToSet(understood)
  IN  /\ garbled => short # {}
      /\ Increasing(understood \o Coming)
      /\ Read \subseteq Sent
      /\ \A k \in Sent \ Read : \A n \in Read : n < k
      /\ short = {} => Sent \ Read = ToSet(Coming)
=============================================================================
