--------------------------- MODULE ConnectionProofs ---------------------------
(***************************************************************************)
(* Theorems of Connection, for any keys, plan of requests, lengths of      *)
(* messages and sizes of the two buffers: which requests the server        *)
(* handles, which messages the client reads and, in the second half, which *)
(* key the client is given.  That half proves sha1.h and base64.h right:   *)
(* the one computes the hash of the standard, the other is injective.      *)
(***************************************************************************)
EXTENDS Connection, WellFoundedInduction, TLAPS

(* The two directions are independent, and have an invariant each.         *)

Req == [length : Nat, fin : BOOLEAN, masked : BOOLEAN]

\* The bytes taken are of the plan, and spoiled is what has begun before them.
Stream ==
  /\ plan \in Seq(Req)
  /\ arrived \in Nat /\ taken \in 0..arrived
  /\ arrived = 0 \/ \E i \in Request : arrived <= End(i)
  /\ spoiled \subseteq Request /\ \A i \in spoiled : Start[i] < taken
  /\ handled \in Seq(Nat) /\ ToSet(handled) \subseteq Request

\* The client sends nothing before the handshake.
Silent ==
  phase # "open" =>
    plan = <<>> /\ arrived = 0 /\ taken = 0 /\ handled = <<>> /\ spoiled = {} /\ ~died

InInv == Stream /\ Silent /\ RequestsAreClients

\* The frames on the way are those packData made; those in part are known.
Frames ==
  /\ told \in Seq(Nat) /\ understood \in Seq(Nat)
  /\ \E S : wire \in Seq(S)
  /\ \A b \in DOMAIN wire :
       /\ \E n \in Nat : wire[b].frame = packData(n)
       /\ wire[b].put < FrameSize(wire[b].frame) => wire[b].id \in short
  /\ noRoom \subseteq DOMAIN told
  /\ garbled => short # {}

Sent == {k \in DOMAIN told : told[k] < 65535} \ noRoom

\* What was read, and what is on the way, in order.
Ordered ==
  /\ Increasing(understood)
  /\ \A a, b \in DOMAIN wire : a < b => wire[a].id < wire[b].id
  /\ \A a \in DOMAIN understood, b \in DOMAIN wire : understood[a] < wire[b].id

\* The message k was read, or is on the way.
IsRead(k)   == \E a \in DOMAIN understood : understood[a] = k
IsComing(k) == \E b \in DOMAIN wire : wire[b].id = k

\* Nothing is passed over, and nothing missing until bytes were garbled.
Complete ==
  /\ \A a \in DOMAIN understood : understood[a] \in Sent
  /\ \A b \in DOMAIN wire : wire[b].id \in Sent
  /\ \A k \in Sent : IsRead(k) \/ \A a \in DOMAIN understood : understood[a] < k
  /\ garbled \/ \A k \in Sent : IsRead(k) \/ IsComing(k)

OutInv == Frames /\ Ordered /\ Complete

-----------------------------------------------------------------------------
(* The positions of the requests in the stream.                            *)

(* A non-empty set of numbers has a least one.                             *)
LEMMA Least ==
  ASSUME NEW T \in SUBSET Nat, T # {}
  PROVE  \E n \in T : \A m \in T : n <= m
<1>1. PICK n \in T : \A m \in T : ~(<<m, n>> \in OpToRel(<, Nat))
  BY NatLessThanWellFounded, WFMin
<1>2. \A m \in T : ~(m < n)
  BY <1>1 DEF OpToRel
<1> QED BY <1>2

Size(i) == HeaderSize(plan[i]) + plan[i].length

\* A plan is a sequence of requests.
LEMMA Requests ==
  ASSUME plan \in Seq(Req)
  PROVE  /\ Len(plan) \in Nat /\ Request = 1..Len(plan)
         /\ \A i \in Request : plan[i] \in Req
BY DEF Request

\* A request has at least the two bytes of its header.
LEMMA SizeType ==
  ASSUME plan \in Seq(Req), NEW i \in Request
  PROVE  /\ plan[i].length \in Nat
         /\ HeaderSize(plan[i]) \in Nat /\ HeaderSize(plan[i]) >= 2
         /\ Size(i) = HeaderSize(plan[i]) + plan[i].length
         /\ Size(i) \in Nat /\ Size(i) >= 2
<1>1. plan[i] \in Req
  BY Requests
<1>2. plan[i].length \in Nat
  BY <1>1 DEF Req
<1>3. HeaderSize(plan[i]) \in Nat /\ HeaderSize(plan[i]) >= 2
  BY DEF HeaderSize
<1> QED BY <1>2, <1>3 DEF Size

\* f has the positions up to the end of the request n.
Placed(f, n) ==
  /\ f \in [1..(n + 1) -> Nat]
  /\ f[1] = 0
  /\ \A i \in 1..n : f[i + 1] = f[i] + Size(i)

\* Starts as Start's recursion wants them exist, for any plan.
LEMMA PlacedExists ==
  ASSUME plan \in Seq(Req)
  PROVE  \E f : Placed(f, Len(plan))
<1> DEFINE T == {n \in 0..Len(plan) : ~\E f : Placed(f, n)}
<1>0. Len(plan) \in Nat /\ Request = 1..Len(plan)
  BY Requests
<1>1. SUFFICES ASSUME T # {} PROVE FALSE
  BY <1>0
<1>2. PICK n \in T : \A m \in T : n <= m
  <2>1. T \in SUBSET Nat
    OBVIOUS
  <2> HIDE DEF T
  <2> QED BY <1>1, <2>1, Least
<1>3. n # 0
  <2> DEFINE f == [i \in 1..1 |-> 0]
  <2>1. Placed(f, 0)
    BY DEF Placed
  <2> QED BY <1>2, <2>1
<1>4. n \in Request /\ n - 1 \in 0..Len(plan) /\ n - 1 \notin T
  BY <1>0, <1>2, <1>3
<1>5. PICK f : Placed(f, n - 1)
  BY <1>4
<1>6. Size(n) \in Nat
  BY <1>4, SizeType
<1>7. f \in [1..n -> Nat] /\ f[1] = 0 /\ \A i \in 1..(n - 1) : f[i + 1] = f[i] + Size(i)
  BY <1>4, <1>5 DEF Placed
<1> DEFINE g == [i \in 1..(n + 1) |-> IF i = n + 1 THEN f[n] + Size(n) ELSE f[i]]
<1>8. Placed(g, n)
  <2>1. g \in [1..(n + 1) -> Nat] /\ g[1] = 0
    BY <1>4, <1>6, <1>7
  <2>2. \A i \in 1..n : g[i + 1] = g[i] + Size(i)
    BY <1>4, <1>7
  <2> HIDE DEF g
  <2> QED BY <2>1, <2>2 DEF Placed
<1> QED BY <1>2, <1>8

(* Start is what its recursive definition says it is.                      *)
LEMMA Positions ==
  ASSUME plan \in Seq(Req)
  PROVE  Placed(Start, Len(plan))
<1> DEFINE Step(f) == [i \in 1..(Len(plan) + 1) |->
                         IF i = 1 THEN 0
                         ELSE f[i - 1] + HeaderSize(plan[i - 1]) + plan[i - 1].length]
<1>1. Len(plan) \in Nat /\ Request = 1..Len(plan)
  BY Requests
<1>2. PICK f : Placed(f, Len(plan))
  BY PlacedExists
<1>3. f = Step(f)
  <2>1. ASSUME NEW i \in 1..(Len(plan) + 1), i # 1
        PROVE  f[i] = f[i - 1] + HeaderSize(plan[i - 1]) + plan[i - 1].length
    <3>1. i - 1 \in Request /\ (i - 1) + 1 = i
      BY <1>1, <2>1
    <3>2. f[i] = f[i - 1] + Size(i - 1) /\ f[i - 1] \in Nat
      <4> DEFINE j == i - 1
      <4>1. j \in 1..Len(plan) /\ j \in 1..(Len(plan) + 1) /\ j + 1 = i
        BY <1>1, <3>1
      <4>2. f[j + 1] = f[j] + Size(j) /\ f[j] \in Nat
        BY <1>2, <4>1 DEF Placed
      <4> QED BY <4>1, <4>2
    <3> QED BY <3>1, <3>2, SizeType
  <2> QED BY <1>2, <2>1 DEF Placed
<1>4. Start = Step(Start)
  <2>1. Start = CHOOSE h : h = Step(h)
    BY DEF Start
  <2> HIDE DEF Step
  <2> QED BY <1>3, <2>1
<1>5. /\ DOMAIN Start = 1..(Len(plan) + 1) /\ Start[1] = 0
      /\ Start = [i \in DOMAIN Start |-> Start[i]]
      /\ \A i \in Request :
           Start[i + 1] = Start[i] + HeaderSize(plan[i]) + plan[i].length
  BY <1>1, <1>4
<1>6. \A i \in 1..(Len(plan) + 1) : Start[i] \in Nat
  <2> DEFINE T == {i \in 1..(Len(plan) + 1) : Start[i] \notin Nat}
  <2>1. SUFFICES ASSUME T # {} PROVE FALSE
    OBVIOUS
  <2>2. PICK i \in T : \A j \in T : i <= j
    <3>1. T \in SUBSET Nat
      OBVIOUS
    <3> HIDE DEF T
    <3> QED BY <2>1, <3>1, Least
  <2>3. i # 1
    BY <1>5, <2>2
  <2>4. i - 1 \in Request /\ i - 1 \in 1..(Len(plan) + 1) /\ (i - 1) + 1 = i
    BY <1>1, <2>2, <2>3
  <2>5. Start[i - 1] \in Nat
    BY <2>2, <2>4
  <2>6. HeaderSize(plan[i - 1]) \in Nat /\ plan[i - 1].length \in Nat
    BY <2>4, SizeType
  <2> QED BY <1>5, <2>2, <2>4, <2>5, <2>6
<1>7. \A i \in 1..Len(plan) : Start[i + 1] = Start[i] + Size(i)
  <2> SUFFICES ASSUME NEW i \in Request PROVE Start[i + 1] = Start[i] + Size(i)
    BY <1>1
  <2>1. HeaderSize(plan[i]) \in Nat /\ plan[i].length \in Nat /\ Start[i] \in Nat
    <3>1. i \in 1..(Len(plan) + 1)
      BY <1>1
    <3> QED BY <1>6, <3>1, SizeType
  <2> QED BY <1>5, <2>1, SizeType
<1> QED BY <1>5, <1>6, <1>7 DEF Placed

\* A request ends behind its start.
LEMMA Ends ==
  ASSUME plan \in Seq(Req), NEW i \in Request
  PROVE  /\ Start[i] \in Nat /\ End(i) \in Nat /\ End(i) = Start[i] + Size(i)
         /\ Start[i] < End(i)
<1>1. Len(plan) \in Nat /\ Request = 1..Len(plan)
  BY Requests
<1>2. i + 1 \in 1..(Len(plan) + 1) /\ i \in 1..(Len(plan) + 1)
  BY <1>1
<1>3. Start[i] \in Nat /\ Start[i + 1] \in Nat /\ Start[i + 1] = Start[i] + Size(i)
  BY <1>1, <1>2, Positions DEF Placed
<1> QED BY <1>3, SizeType DEF End

(* A request ends where a later one begins, or before.                     *)
LEMMA OneBehindTheOther ==
  ASSUME plan \in Seq(Req), NEW i \in Request, NEW j \in Request, i < j
  PROVE  End(i) <= Start[j]
<1> DEFINE T == {k \in Request : i < k /\ ~(End(i) <= Start[k])}
<1>0. Len(plan) \in Nat /\ Request = 1..Len(plan)
  BY Requests
<1>1. SUFFICES ASSUME T # {} PROVE FALSE
  OBVIOUS
<1>2. PICK k \in T : \A l \in T : k <= l
  <2>1. T \in SUBSET Nat
    BY <1>0
  <2> HIDE DEF T
  <2> QED BY <1>1, <2>1, Least
<1>3. CASE k = i + 1
  BY <1>2, <1>3, Ends DEF End
<1>4. CASE k # i + 1
  <2>1. k - 1 \in Request /\ i < k - 1 /\ k - 1 \notin T /\ (k - 1) + 1 = k
    BY <1>0, <1>2, <1>4
  <2>2. End(i) <= Start[k - 1] /\ Start[k - 1] < End(k - 1) /\ End(k - 1) = Start[k]
    BY <2>1, Ends DEF End
  <2>3. Start[k - 1] \in Nat /\ Start[k] \in Nat /\ End(i) \in Nat
    BY <1>2, <2>1, Ends
  <2> QED BY <1>2, <2>2, <2>3
<1> QED BY <1>3, <1>4

(* Every byte is of some request.                                          *)
LEMMA NoGap ==
  ASSUME plan \in Seq(Req), NEW n \in Nat, NEW j \in Request, n < End(j)
  PROVE  \E i \in Request : Start[i] <= n /\ n < End(i)
<1> DEFINE T == {i \in Request : n < End(i)}
<1>0. Len(plan) \in Nat /\ Request = 1..Len(plan)
  BY Requests
<1>1. PICK i \in T : \A l \in T : i <= l
  <2>1. T \in SUBSET Nat /\ T # {}
    BY <1>0
  <2> HIDE DEF T
  <2> QED BY <2>1, Least
<1>2. CASE i = 1
  BY <1>1, <1>2, Positions DEF Placed
<1>3. CASE i # 1
  <2>1. i - 1 \in Request /\ i - 1 \notin T /\ (i - 1) + 1 = i
    <3>1. i \in Nat /\ i > 1 /\ i - 1 \in Request
      BY <1>0, <1>1, <1>3
    <3>2. ~(i <= i - 1)
      BY <3>1
    <3> QED BY <1>1, <3>1, <3>2
  <2>2. End(i - 1) = Start[i] /\ ~(n < End(i - 1)) /\ Start[i] \in Nat
    BY <1>1, <2>1, Ends DEF End
  <2> QED BY <1>1, <2>2
<1> QED BY <1>2, <1>3

\* No request ends at 0.
LEMMA EndsPositive ==
  plan \in Seq(Req) => \A i \in Request : End(i) \in Nat /\ End(i) > 0
BY Ends

(* Requests that end in the same place are one.                            *)
LEMMA Apart ==
  ASSUME plan \in Seq(Req), NEW i \in Request, NEW j \in Request,
         End(j) <= Start[i]
  PROVE  j < i
<1>1. i \in Nat /\ j \in Nat
  BY Requests
<1>2. i # j
  BY Ends
<1>3. CASE i < j
  <2>1. End(i) <= Start[j]
    BY <1>3, OneBehindTheOther
  <2> QED BY <2>1, Ends
<1> QED BY <1>1, <1>2, <1>3

\* What a sequence with one element more holds.
LEMMA AppendSet ==
  ASSUME NEW S, NEW s \in Seq(S), NEW e \in S
  PROVE  /\ Append(s, e) \in Seq(S)
         /\ Len(Append(s, e)) = Len(s) + 1
         /\ \A a \in DOMAIN s : Append(s, e)[a] = s[a]
         /\ Append(s, e)[Len(s) + 1] = e
         /\ DOMAIN s = 1..Len(s) /\ DOMAIN Append(s, e) = 1..(Len(s) + 1)
         /\ ToSet(Append(s, e)) = ToSet(s) \cup {e}
<1>1. /\ Append(s, e) \in Seq(S)
      /\ Len(s) \in Nat
      /\ Len(Append(s, e)) = Len(s) + 1
      /\ \A a \in DOMAIN s : Append(s, e)[a] = s[a]
      /\ Append(s, e)[Len(s) + 1] = e
      /\ DOMAIN s = 1..Len(s) /\ DOMAIN Append(s, e) = 1..(Len(s) + 1)
  OBVIOUS
<1> DEFINE t == Append(s, e)
<1>2. /\ Len(s) \in Nat /\ DOMAIN s = 1..Len(s) /\ DOMAIN t = 1..(Len(s) + 1)
      /\ \A a \in DOMAIN s : t[a] = s[a]
      /\ t[Len(s) + 1] = e
  BY <1>1
<1> HIDE DEF t
<1>3. ToSet(t) = ToSet(s) \cup {e}
  <2>1. ASSUME NEW x \in ToSet(t) PROVE x \in ToSet(s) \cup {e}
    <3>1. PICK a \in DOMAIN t : x = t[a]
      BY DEF ToSet
    <3>2. CASE a = Len(s) + 1
      BY <1>2, <3>1, <3>2
    <3>3. CASE a # Len(s) + 1
      <4>1. a \in DOMAIN s
        BY <1>2, <3>1, <3>3
      <4> QED BY <1>2, <3>1, <4>1 DEF ToSet
    <3> QED BY <3>2, <3>3
  <2>2. e \in ToSet(t)
    <3>1. Len(s) + 1 \in DOMAIN t
      BY <1>2
    <3> QED BY <1>2, <3>1 DEF ToSet
  <2>3. ASSUME NEW x \in ToSet(s) PROVE x \in ToSet(t)
    <3>1. PICK a \in DOMAIN s : x = s[a]
      BY DEF ToSet
    <3>2. a \in DOMAIN t /\ t[a] = x
      BY <1>2, <3>1
    <3> QED BY <3>2 DEF ToSet
  <2> QED BY <2>1, <2>2, <2>3
<1> QED BY <1>1, <1>3 DEF t

(* A greater number keeps a sequence increasing.                           *)
LEMMA AppendIncreasing ==
  ASSUME NEW s \in Seq(Nat), NEW e \in Nat, Increasing(s),
         \A x \in ToSet(s) : x < e
  PROVE  Increasing(Append(s, e))
<1> DEFINE t == Append(s, e)
<1>1. /\ Len(s) \in Nat /\ DOMAIN s = 1..Len(s) /\ DOMAIN t = 1..(Len(s) + 1)
      /\ \A a \in DOMAIN s : t[a] = s[a]
      /\ t[Len(s) + 1] = e
  OBVIOUS
<1>2. \A a \in DOMAIN s : s[a] < e
  BY DEF ToSet
<1> HIDE DEF t
<1>3. ASSUME NEW a \in DOMAIN t, NEW b \in DOMAIN t, a < b PROVE t[a] < t[b]
  <2>1. a \in DOMAIN s
    BY <1>1, <1>3
  <2>2. CASE b = Len(s) + 1
    BY <1>1, <1>2, <2>1, <2>2
  <2>3. CASE b \in DOMAIN s
    BY <1>1, <1>3, <2>1, <2>3 DEF Increasing
  <2> QED BY <1>1, <2>2, <2>3
<1>4. Increasing(t)
  BY <1>3 DEF Increasing
<1> QED BY <1>4 DEF t

-----------------------------------------------------------------------------
(* From the client to the server.                                          *)

LEMMA InStarts == Init => InInv
<1> SUFFICES ASSUME Init PROVE InInv
  OBVIOUS
<1>1. plan = <<>> /\ arrived = 0 /\ taken = 0 /\ handled = <<>> /\ spoiled = {} /\ died = FALSE
  BY DEF Init
<1>2. Request = {}
  BY <1>1 DEF Request
<1>3. ToSet(handled) = {}
  BY <1>1 DEF ToSet
<1>4. Stream
  <2>1. plan \in Seq(Req) /\ handled \in Seq(Nat)
    BY <1>1
  <2> QED BY <1>1, <1>3, <2>1 DEF Stream
<1>5. Increasing(handled)
  BY <1>1 DEF Increasing
<1> QED BY <1>1, <1>2, <1>3, <1>4, <1>5 DEF InInv, Silent, RequestsAreClients, Received

(* A step that leaves the requests alone.                                  *)
LEMMA InKept ==
  ASSUME InInv, UNCHANGED <<plan, taken, handled, spoiled, died>>,
         \/ arrived' = arrived
         \/ arrived' \in Nat /\ arrived' > arrived /\ \E i \in Request : arrived' <= End(i),
         phase' = "open" \/ (phase # "open" /\ arrived' = arrived)
  PROVE  InInv'
<1>1. Start' = Start
  BY DEF Start
<1>2. Request' = Request /\ \A i : End(i)' = End(i)
  BY <1>1 DEF Request, End
<1>3. Received' = Received
  BY <1>2 DEF Received
<1>4. RequestsAreClients'
  BY <1>3 DEF InInv, RequestsAreClients, Increasing, ToSet, Frame, HeaderSize
<1>5. Stream'
  BY <1>1, <1>2 DEF InInv, Stream, ToSet
<1>6. Silent'
  BY DEF InInv, Silent
<1> QED BY <1>4, <1>5, <1>6 DEF InInv

(* The client has chosen its requests, and none has arrived.               *)
LEMMA InChosen ==
  ASSUME InInv, ClientChecks
  PROVE  InInv'
<1>1. /\ phase = "answered"
      /\ UNCHANGED <<arrived, taken, handled, spoiled, died>>
      /\ (phase' = "open" /\ plan' \in Plan) \/ (phase' = "refused" /\ plan' = plan)
  BY DEF ClientChecks, outVars
<1>2. plan = <<>> /\ arrived = 0 /\ taken = 0 /\ handled = <<>> /\ spoiled = {} /\ ~died
  BY <1>1 DEF InInv, Silent
<1>3. plan' \in Seq(Req)
  <2>1. Plan \subseteq Seq(Req)
    BY ConnectionAssumption DEF ConnectionAssumption, Req
  <2>2. <<>> \in Seq(Req)
    OBVIOUS
  <2> QED BY <1>1, <1>2, <2>1, <2>2
<1>4. (plan \in Seq(Req) => \A i \in Request : End(i) \in Nat /\ End(i) > 0)'
  BY EndsPositive, PTL
<1>5. Received' = {}
  BY <1>1, <1>2, <1>3, <1>4 DEF Received
<1>6. handled' = <<>> /\ spoiled' = {} /\ arrived' = 0 /\ taken' = 0 /\ died' = FALSE
  BY <1>1, <1>2 DEF InInv, RequestsAreClients
<1>7. ToSet(handled') = {} /\ Increasing(handled')
  BY <1>6 DEF ToSet, Increasing
<1>8. Stream'
  <2>1. handled' \in Seq(Nat)
    BY <1>6
  <2> QED BY <1>3, <1>6, <1>7, <2>1 DEF Stream
<1>9. RequestsAreClients'
  BY <1>5, <1>6, <1>7 DEF RequestsAreClients
<1>10. Silent'
  BY <1>1, <1>2, <1>6 DEF Silent
<1> QED BY <1>8, <1>9, <1>10 DEF InInv

\* The network cuts the stream at no byte behind its end.
LEMMA InBoundary ==
  ASSUME plan \in Seq(Req), NEW n \in Boundaries
  PROVE  n \in Nat /\ \E i \in Request : n <= End(i)
<1>1. PICK i \in Request : n \in {Start[i], Start[i] + 1, Start[i] + HeaderSize(plan[i]),
                                  End(i) - 1, End(i)}
  BY DEF Boundaries
<1>2. /\ Start[i] \in Nat /\ End(i) = Start[i] + Size(i)
      /\ Size(i) \in Nat /\ Size(i) >= 2
      /\ plan[i].length \in Nat
      /\ HeaderSize(plan[i]) \in Nat /\ Size(i) = HeaderSize(plan[i]) + plan[i].length
  BY Ends, SizeType
<1> QED BY <1>1, <1>2

(* What one call of recv does to the stream, n being where it ends.        *)
Took(n) ==
  /\ n \in taken..arrived /\ n <= taken + BUFF_SIZE - 1
  /\ taken' = n /\ UNCHANGED <<plan, arrived, phase>>
  /\ spoiled' = spoiled \cup {i \in Request : Overlaps(i, n) /\ ~Alone(i, n)}
  /\ \/ /\ \E i \in Request : AnalyData(i, n) /\ handled' = Append(handled, i)
        /\ died' = died
     \/ /\ ~\E i \in Request : AnalyData(i, n)
        /\ handled' = handled
        /\ died' = died \/ (taken < n /\ ~\E i \in Request : Start[i] = taken)

\* recv takes some of the bytes that have arrived.
LEMMA RecvTakes ==
  ASSUME Stream, Recv
  PROVE  \E n \in Nat : Took(n)
<1> DEFINE n == Min({arrived, taken + BUFF_SIZE - 1})
<1>1. /\ arrived \in Nat /\ taken \in Nat /\ taken <= arrived /\ BUFF_SIZE \in Nat /\ BUFF_SIZE >= 1
  BY ConnectionAssumption DEF Stream, ConnectionAssumption
<1>2. n \in {arrived, taken + BUFF_SIZE - 1} /\ n <= arrived /\ n <= taken + BUFF_SIZE - 1
  <2>1. \E x \in {arrived, taken + BUFF_SIZE - 1} :
          \A y \in {arrived, taken + BUFF_SIZE - 1} : x <= y
    BY <1>1
  <2> QED BY <1>1, <2>1 DEF Min
<1>3. n \in taken..arrived /\ n <= taken + BUFF_SIZE - 1 /\ n \in Nat
  <2> HIDE DEF n
  <2> QED BY <1>1, <1>2
<1>4. /\ taken' = n /\ UNCHANGED <<plan, arrived, phase>>
      /\ spoiled' = spoiled \cup {i \in Request : Overlaps(i, n) /\ ~Alone(i, n)}
      /\ \/ /\ \E i \in Request : AnalyData(i, n) /\ handled' = Append(handled, i)
            /\ UNCHANGED died
         \/ /\ ~\E i \in Request : AnalyData(i, n)
            /\ handled' = handled
            /\ UNCHANGED died \/ (taken < n /\ ~\E i \in Request : Start[i] = taken)
  <2> HIDE DEF n
  <2>1. n = Min({arrived, taken + BUFF_SIZE - 1})
    BY DEF n
  <2>2. n - taken > 1 => taken < n
    BY <1>1, <1>3
  <2> QED BY <2>1, <2>2 DEF Recv
<1> HIDE DEF n
<1> QED BY <1>3, <1>4 DEF Took

(* analyData finds a request exactly if it is one masked frame and in the  *)
(* bytes from their beginning on.                                          *)
LEMMA Analysed ==
  ASSUME plan \in Seq(Req), NEW i \in Request, NEW n \in Nat, taken \in Nat
  PROVE  AnalyData(i, n) <=> Start[i] = taken /\ Frame(i) /\ End(i) <= n
<1>1. plan[i].masked => PayloadAt(plan[i]) = HeaderSize(plan[i])
  BY SizeType DEF PayloadAt, HeaderSize
<1>2. /\ Start[i] \in Nat /\ End(i) = Start[i] + (HeaderSize(plan[i]) + plan[i].length)
      /\ HeaderSize(plan[i]) \in Nat /\ plan[i].length \in Nat
  BY Ends, SizeType
<1>3. CASE plan[i].masked /\ plan[i].fin /\ Start[i] = taken
  <2>1. taken + PayloadAt(plan[i]) + plan[i].length = End(i)
    BY <1>1, <1>2, <1>3
  <2> QED BY <1>1, <1>3, <2>1 DEF AnalyData, Frame
<1>4. CASE ~(plan[i].masked /\ plan[i].fin /\ Start[i] = taken)
  BY <1>4 DEF AnalyData, Frame
<1> QED BY <1>3, <1>4

(* A call of recv receives what ends in its bytes, and spoils of it what   *)
(* does not begin with them.                                               *)
LEMMA NewlyReceived ==
  ASSUME Stream, NEW n \in Nat, Took(n), NEW i \in Request, Start' = Start
  PROVE  /\ i \in Received' <=> End(i) <= n
         /\ i \in Received => i \in Received' /\ (i \in spoiled' <=> i \in spoiled)
         /\ i \in Received' \ Received => (i \notin spoiled' <=> Start[i] = taken)
<1>1. plan \in Seq(Req) /\ taken \in Nat /\ taken <= n
  BY DEF Stream, Took
<1>2. Start[i] \in Nat /\ End(i) \in Nat /\ Start[i] < End(i)
  BY <1>1, Ends
<1>3. i \in Received' <=> End(i) <= n
  BY <1>1 DEF Received, Took, Request, End
<1>4. i \in Received <=> End(i) <= taken
  BY DEF Received
<1>5. i \in spoiled' <=> i \in spoiled \/ (Overlaps(i, n) /\ ~Alone(i, n))
  BY DEF Took
<1>6. Overlaps(i, n) <=> Start[i] < n /\ taken < End(i)
  BY DEF Overlaps
<1>7. Alone(i, n) <=> Start[i] = taken /\ End(i) <= n
  BY DEF Alone
<1>8. i \in spoiled => Start[i] < taken
  BY DEF Stream
<1> QED BY <1>1, <1>2, <1>3, <1>4, <1>5, <1>6, <1>7, <1>8

\* One turn of receiveRequest keeps the invariant of the requests.
LEMMA InRecv ==
  ASSUME InInv, Recv
  PROVE  InInv'
<1>1. PICK n \in Nat : Took(n)
  BY RecvTakes DEF InInv
<1>2. /\ Stream /\ plan \in Seq(Req) /\ taken \in Nat /\ arrived \in Nat /\ taken <= n /\ n <= arrived
      /\ plan' = plan /\ phase' = phase /\ arrived' = arrived /\ taken' = n
  BY <1>1 DEF InInv, Stream, Took
<1>3. Start' = Start /\ Request' = Request /\ \A i : End(i)' = End(i) /\ Frame(i)' = Frame(i)
  BY <1>2 DEF Start, Request, End, Frame
<1>4. phase = "open" /\ ~died /\ taken < arrived
  BY DEF Recv
<1>5. \A i \in Request : Start[i] \in Nat /\ End(i) \in Nat /\ Start[i] < End(i)
  BY <1>2, Ends
<1> DEFINE Old == {i \in Received \ spoiled : Frame(i)}
           New == {i \in Request : AnalyData(i, n)}
<1>6. ToSet(handled) = Old /\ Increasing(handled) /\ handled \in Seq(Nat) /\ Old \subseteq Request
  BY DEF InInv, RequestsAreClients, Stream, Received
<1>7. {i \in Received \ spoiled : Frame(i)}' = Old \cup New
  <2>1. Received' \subseteq Request /\ Received \subseteq Request
    BY <1>3 DEF Received
  <2>2. ASSUME NEW i \in Request
        PROVE  i \in {i_1 \in Received \ spoiled : Frame(i_1)}' <=> i \in Old \cup New
    <3>1. i \in New <=> Start[i] = taken /\ Frame(i) /\ End(i) <= n
      BY <1>2, Analysed
    <3>2. i \in {i_1 \in Received \ spoiled : Frame(i_1)}'
            <=> i \in Received' /\ i \notin spoiled' /\ Frame(i)
      BY <1>3
    <3>3. i \in Old <=> i \in Received /\ i \notin spoiled /\ Frame(i)
      OBVIOUS
    <3>4. i \in Received => Start[i] # taken
      BY <1>2, <1>5 DEF Received
    <3>5. /\ i \in Received' <=> End(i) <= n
          /\ i \in Received => i \in Received' /\ (i \in spoiled' <=> i \in spoiled)
          /\ i \in Received' \ Received => (i \notin spoiled' <=> Start[i] = taken)
      BY <1>1, <1>2, <1>3, NewlyReceived
    <3> HIDE DEF Old, New
    <3> QED BY <3>1, <3>2, <3>3, <3>4, <3>5
  <2>3. {i \in Received \ spoiled : Frame(i)}' \subseteq Request /\ Old \cup New \subseteq Request
    BY <2>1
  <2> QED BY <2>2, <2>3
<1>8. /\ handled' \in Seq(Nat) /\ Increasing(handled')
      /\ ToSet(handled') = Old \cup New
  <2>1. CASE ~\E i \in Request : AnalyData(i, n)
    <3>1. handled' = handled /\ New = {}
      BY <1>1, <2>1 DEF Took
    <3> QED BY <1>6, <3>1
  <2>2. CASE \E i \in Request : AnalyData(i, n)
    <3>1. PICK i \in Request : AnalyData(i, n) /\ handled' = Append(handled, i)
      BY <1>1, <2>2 DEF Took
    <3>2. New = {i}
      <4>1. ASSUME NEW j \in New PROVE j = i
        <5>1. Start[i] = taken /\ Start[j] = taken /\ j \in Request
          BY <1>2, <3>1, Analysed
        <5>2. ~(i < j) /\ ~(j < i)
          BY <1>2, <1>5, <5>1, OneBehindTheOther
        <5> QED BY <1>2, <5>1, <5>2, Requests
      <4> QED BY <3>1, <4>1
    <3>3. i \in Nat
      BY <1>2, Requests
    <3>4. \A j \in Old : j < i
      <4>1. ASSUME NEW j \in Old PROVE j < i
        <5>1. j \in Request /\ End(j) <= taken
          BY DEF Received
        <5>2. Start[i] = taken
          BY <1>2, <3>1, Analysed
        <5> QED BY <1>2, <5>1, <5>2, Apart
      <4> QED BY <4>1
    <3> HIDE DEF Old, New
    <3>5. \A x \in ToSet(handled) : x < i
      BY <1>6, <3>4
    <3>6. Increasing(Append(handled, i))
      BY <1>6, <3>3, <3>5, AppendIncreasing
    <3>7. Append(handled, i) \in Seq(Nat) /\ ToSet(Append(handled, i)) = ToSet(handled) \cup {i}
      BY <1>6, <3>3, AppendSet
    <3> QED BY <1>6, <3>1, <3>2, <3>6, <3>7
  <2> QED BY <2>1, <2>2
<1>9. Stream'
  <2>1. \A i \in spoiled' : i \in Request /\ Start[i] < n
    <3>1. ASSUME NEW i \in spoiled' PROVE i \in Request /\ Start[i] < n
      <4>1. i \in spoiled \/ (i \in Request /\ Overlaps(i, n))
        BY <1>1 DEF Took
      <4>2. i \in spoiled => i \in Request /\ Start[i] < taken
        BY <1>2 DEF Stream
      <4>3. Overlaps(i, n) => Start[i] < n
        BY DEF Overlaps
      <4> QED BY <1>2, <1>5, <4>1, <4>2, <4>3
    <3> QED BY <3>1
  <2>2. arrived = 0 \/ \E i \in Request : arrived <= End(i)
    BY <1>2 DEF Stream
  <2>3. Old \cup New \subseteq Request
    BY <1>6
  <2> HIDE DEF Old, New
  <2> QED BY <1>2, <1>3, <1>8, <2>1, <2>2, <2>3 DEF Stream
<1>10. \A i \in Received' : (HeaderSize(plan[i]) + plan[i].length >= BUFF_SIZE)' => i \in spoiled'
  <2>1. SUFFICES ASSUME NEW i \in Received', HeaderSize(plan[i]) + plan[i].length >= BUFF_SIZE
                 PROVE  i \in spoiled'
    BY <1>2 DEF HeaderSize
  <2>2. i \in Request /\ End(i) <= n
    BY <1>2, <1>3 DEF Received
  <2>3. CASE i \in Received
    <3>1. i \in spoiled
      BY <2>1, <2>3 DEF InInv, RequestsAreClients
    <3> QED BY <1>1, <3>1 DEF Took
  <2>4. CASE i \notin Received
    <3>1. /\ End(i) = Start[i] + Size(i) /\ Start[i] \in Nat /\ Size(i) \in Nat /\ Size(i) >= BUFF_SIZE
      BY <1>2, <2>1, <2>2, Ends, SizeType
    <3>2. n <= taken + BUFF_SIZE - 1 /\ BUFF_SIZE \in Nat
      BY <1>1, ConnectionAssumption DEF Took, ConnectionAssumption
    <3>3. Start[i] # taken
      BY <1>2, <2>2, <3>1, <3>2
    <3> QED BY <1>1, <1>2, <1>3, <2>1, <2>2, <2>4, <3>3, NewlyReceived
  <2> QED BY <2>3, <2>4
<1>11. died' => spoiled' # {}
  <2>1. CASE \E i \in Request : AnalyData(i, n)
    BY <1>1, <1>4, <2>1 DEF Took
  <2>2. CASE \E i \in Request : Start[i] = taken
    BY <1>1, <1>4, <2>2 DEF Took
  <2>3. CASE /\ ~\E i \in Request : Start[i] = taken
             /\ taken < n
    <3>1. PICK j \in Request : arrived <= End(j)
      BY <1>2, <1>4 DEF Stream
    <3>2. taken < End(j)
      BY <1>2, <1>4, <1>5, <3>1
    <3>3. PICK i \in Request : Start[i] <= taken /\ taken < End(i)
      BY <1>2, <3>2, NoGap
    <3>4. Start[i] # taken /\ Start[i] < n
      BY <1>2, <1>5, <2>3, <3>3
    <3>5. Overlaps(i, n) /\ ~Alone(i, n)
      BY <3>3, <3>4 DEF Overlaps, Alone
    <3> QED BY <1>1, <3>5 DEF Took
  <2>4. CASE ~(taken < n) /\ ~\E i \in Request : AnalyData(i, n)
    BY <1>1, <1>4, <2>4 DEF Took
  <2> QED BY <2>1, <2>2, <2>3, <2>4
<1>12. RequestsAreClients'
  <2>1. ToSet(handled)' = {i \in Received \ spoiled : Frame(i)}'
    BY <1>7, <1>8
  <2> QED BY <1>8, <1>10, <1>11, <2>1 DEF RequestsAreClients, Increasing
<1>13. Silent'
  BY <1>2, <1>4 DEF Silent
<1> QED BY <1>9, <1>12, <1>13 DEF InInv

-----------------------------------------------------------------------------
(* From the server to the client.                                          *)

LEMMA OutStarts == Init => OutInv
<1> SUFFICES ASSUME Init PROVE OutInv
  OBVIOUS
<1>1. told = <<>> /\ wire = <<>> /\ understood = <<>> /\ garbled = FALSE /\ noRoom = {}
  BY DEF Init
<1>2. told \in Seq(Nat) /\ understood \in Seq(Nat) /\ wire \in Seq(Nat)
  BY <1>1
<1>3. DOMAIN told = {} /\ DOMAIN wire = {} /\ DOMAIN understood = {}
  BY <1>1
<1>4. Frames
  BY <1>1, <1>2, <1>3 DEF Frames
<1>5. Ordered
  BY <1>3 DEF Ordered, Increasing
<1>6. Complete
  BY <1>3 DEF Complete, Sent
<1> QED BY <1>4, <1>5, <1>6 DEF OutInv

\* Whatever leaves the messages alone keeps their invariant.
LEMMA OutKept ==
  ASSUME OutInv, UNCHANGED <<told, wire, understood, garbled, noRoom, short>>
  PROVE  OutInv'
BY DEF OutInv, Frames, Ordered, Complete, Sent, IsRead, IsComing, Increasing

(* The second byte of a frame says truly whether a longer length follows.  *)
LEMMA Announced ==
  ASSUME NEW n \in Nat
  PROVE  (packData(n).first = 126) = packData(n).ext
BY DEF packData

\* The positions of a sequence with one element more.
LEMMA Appended ==
  ASSUME NEW S, NEW s \in Seq(S), NEW e
  PROVE  /\ \E T : Append(s, e) \in Seq(T)
         /\ Len(s) \in Nat /\ DOMAIN s = 1..Len(s)
         /\ DOMAIN Append(s, e) = 1..(Len(s) + 1)
         /\ \A a \in DOMAIN s : Append(s, e)[a] = s[a]
         /\ Append(s, e)[Len(s) + 1] = e
<1>1. s \in Seq(S \cup {e})
  OBVIOUS
<1>2. Append(s, e) \in Seq(S \cup {e})
  BY <1>1
<1> QED BY <1>1, <1>2

(* What a call of response adds.                                           *)
LEMMA OutSend ==
  ASSUME OutInv, NEW n \in Nat, Send(n)
  PROVE  OutInv'
<1> DEFINE id == Len(told) + 1
           room == SendBuffer - Held
<1>1. /\ told \in Seq(Nat) /\ Len(told) \in Nat /\ DOMAIN told = 1..Len(told)
      /\ noRoom \subseteq DOMAIN told /\ id \in Nat /\ id \notin DOMAIN told
  BY DEF OutInv, Frames
<1>2. /\ told' \in Seq(Nat) /\ DOMAIN told' = DOMAIN told \cup {id}
      /\ \A k \in DOMAIN told : told'[k] = told[k]
      /\ told'[id] = n
  <2>1. told' = Append(told, n)
    BY DEF Send
  <2>2. /\ Append(told, n) \in Seq(Nat)
        /\ DOMAIN Append(told, n) = 1..(Len(told) + 1)
        /\ \A k \in DOMAIN told : Append(told, n)[k] = told[k]
        /\ Append(told, n)[Len(told) + 1] = n
    BY <1>1, AppendSet
  <2>3. 1..(Len(told) + 1) = 1..Len(told) \cup {Len(told) + 1}
    BY <1>1
  <2> QED BY <1>1, <2>1, <2>2, <2>3
<1>3. understood' = understood /\ garbled' = garbled
  BY DEF Send
<1>4. Sent \subseteq DOMAIN told
  BY DEF Sent
<1> HIDE DEF id
<1>5. CASE /\ n >= 65535 \/ room = 0
           /\ noRoom' = IF n < 65535 THEN noRoom \cup {id} ELSE noRoom
           /\ UNCHANGED <<wire, short>>
  <2>1. Sent' = Sent
    BY <1>1, <1>2, <1>5 DEF Sent
  <2>2. noRoom' \subseteq DOMAIN told'
    BY <1>1, <1>2, <1>5
  <2>3. wire' = wire /\ short' = short
    BY <1>5
  <2>4. Frames'
    BY <1>2, <1>3, <2>2, <2>3 DEF OutInv, Frames
  <2>5. Ordered'
    BY <1>3, <2>3 DEF OutInv, Ordered, Increasing
  <2>6. Complete'
    BY <1>3, <2>1, <2>3 DEF OutInv, Complete, IsRead, IsComing
  <2> QED BY <2>4, <2>5, <2>6 DEF OutInv
<1>6. CASE /\ n < 65535 /\ room > 0
           /\ LET put == Min({FrameSize(packData(n)), room})
              IN  /\ wire' = Append(wire, [id |-> id, frame |-> packData(n), put |-> put])
                  /\ short' = IF put < FrameSize(packData(n)) THEN short \cup {id} ELSE short
           /\ UNCHANGED noRoom
  <2> DEFINE put == Min({FrameSize(packData(n)), room})
             e   == [id |-> id, frame |-> packData(n), put |-> put]
             w   == Len(wire) + 1
  <2>1. /\ wire' = Append(wire, e) /\ noRoom' = noRoom
        /\ short' = IF put < FrameSize(packData(n)) THEN short \cup {id} ELSE short
    BY <1>6
  <2>2. e.id = id /\ e.frame = packData(n) /\ (e.put < FrameSize(e.frame) => id \in short')
    BY <2>1
  <2> HIDE DEF put, e
  <2>3. PICK S : wire \in Seq(S)
    BY DEF OutInv, Frames
  <2>4. /\ \E T : wire' \in Seq(T)
        /\ Len(wire) \in Nat /\ DOMAIN wire = 1..Len(wire)
        /\ DOMAIN wire' = 1..(Len(wire) + 1)
        /\ \A b \in DOMAIN wire : wire'[b] = wire[b]
        /\ wire'[w] = e
    BY <2>1, <2>3, Appended
  <2>5. /\ w \in Nat /\ \A b \in DOMAIN wire : b \in Nat /\ b < w
        /\ DOMAIN wire' = DOMAIN wire \cup {w}
    BY <2>4
  <2> HIDE DEF w
  <2>6. Sent' = Sent \cup {id}
    BY <1>1, <1>2, <1>6, <2>1 DEF Sent
  <2>7. \A k \in Sent : k \in Nat /\ k < id
    BY <1>1, <1>4 DEF id
  <2>8. short \subseteq short'
    BY <2>1
  <2>9. Frames'
    <3>1. \A b \in DOMAIN wire' :
            /\ \E m \in Nat : wire'[b].frame = packData(m)
            /\ wire'[b].put < FrameSize(wire'[b].frame) => wire'[b].id \in short'
      <4>1. ASSUME NEW b \in DOMAIN wire
            PROVE  /\ \E m \in Nat : wire[b].frame = packData(m)
                   /\ wire[b].put < FrameSize(wire[b].frame) => wire[b].id \in short'
        BY <2>8 DEF OutInv, Frames
      <4>2. /\ \E m \in Nat : e.frame = packData(m)
            /\ e.put < FrameSize(e.frame) => e.id \in short'
        BY <2>2
      <4> QED BY <2>4, <2>5, <4>1, <4>2
    <3>2. garbled' => short' # {}
      BY <1>3, <2>8 DEF OutInv, Frames
    <3>3. understood' \in Seq(Nat)
      BY <1>3 DEF OutInv, Frames
    <3>4. (\A b \in DOMAIN wire :
             /\ \E m \in Nat : wire[b].frame = packData(m)
             /\ wire[b].put < FrameSize(wire[b].frame) => wire[b].id \in short)'
      BY <3>1 DEF packData, FrameSize
    <3> QED BY <1>1, <1>2, <2>1, <2>4, <3>2, <3>3, <3>4 DEF Frames
  <2>10. Ordered'
    <3>1. \A b \in DOMAIN wire : wire[b].id \in Sent
      BY DEF OutInv, Complete
    <3>2. \A a \in DOMAIN understood : understood[a] \in Sent
      BY DEF OutInv, Complete
    <3>3. ASSUME NEW a \in DOMAIN wire', NEW b \in DOMAIN wire', a < b
          PROVE  wire'[a].id < wire'[b].id
      <4>1. a \in DOMAIN wire
        BY <2>5, <3>3
      <4>2. CASE b = w
        BY <2>2, <2>4, <2>7, <3>1, <4>1, <4>2
      <4>3. CASE b \in DOMAIN wire
        BY <2>4, <3>3, <4>1, <4>3 DEF OutInv, Ordered
      <4> QED BY <2>5, <4>2, <4>3
    <3>4. ASSUME NEW a \in DOMAIN understood, NEW b \in DOMAIN wire'
          PROVE  understood[a] < wire'[b].id
      <4>1. CASE b = w
        BY <2>2, <2>4, <2>7, <3>2, <4>1
      <4>2. CASE b \in DOMAIN wire
        BY <2>4, <4>2 DEF OutInv, Ordered
      <4> QED BY <2>5, <4>1, <4>2
    <3>5. Increasing(understood)'
      BY <1>3 DEF OutInv, Ordered, Increasing
    <3> QED BY <1>3, <3>3, <3>4, <3>5 DEF Ordered
  <2>11. Complete'
    <3>1. \A a \in DOMAIN understood : understood[a] \in Sent
      BY DEF OutInv, Complete
    <3>2. \A b \in DOMAIN wire' : wire'[b].id \in Sent'
      BY <2>2, <2>4, <2>5, <2>6 DEF OutInv, Complete
    <3>3. \A k \in Sent' : (\E a \in DOMAIN understood : understood[a] = k)
                              \/ \A a \in DOMAIN understood : understood[a] < k
      BY <2>6, <2>7, <3>1 DEF OutInv, Complete, IsRead
    <3>4. garbled \/ \A k \in Sent' : (\E a \in DOMAIN understood : understood[a] = k)
                                         \/ \E b \in DOMAIN wire' : wire'[b].id = k
      <4>1. \E b \in DOMAIN wire' : wire'[b].id = id
        BY <2>2, <2>4, <2>5
      <4>2. ASSUME NEW k \in Sent, \E b \in DOMAIN wire : wire[b].id = k
            PROVE  \E b \in DOMAIN wire' : wire'[b].id = k
        BY <2>4, <2>5, <4>2
      <4> QED BY <2>6, <4>1, <4>2 DEF OutInv, Complete, IsRead, IsComing
    <3> QED BY <1>3, <2>6, <3>1, <3>2, <3>3, <3>4 DEF Complete, IsRead, IsComing
  <2> QED BY <2>9, <2>10, <2>11 DEF OutInv
<1> QED BY <1>5, <1>6 DEF Send, id

\* The positions of a sequence without its first.
LEMMA Tails ==
  ASSUME NEW S, NEW s \in Seq(S), s # <<>>
  PROVE  /\ Tail(s) \in Seq(S) /\ Head(s) = s[1]
         /\ Len(s) \in Nat /\ Len(s) > 0 /\ DOMAIN s = 1..Len(s)
         /\ DOMAIN Tail(s) = 1..(Len(s) - 1)
         /\ \A a \in 1..(Len(s) - 1) : Tail(s)[a] = s[a + 1]
OBVIOUS

(* The client takes the first frame.                                       *)
LEMMA OutRead ==
  ASSUME OutInv, ClientReads
  PROVE  OutInv'
<1>1. PICK S : wire \in Seq(S)
  BY DEF OutInv, Frames
<1>2. /\ ~garbled /\ wire # <<>> /\ wire' = Tail(wire)
      /\ told' = told /\ noRoom' = noRoom /\ short' = short
  BY DEF ClientReads
<1> DEFINE e == wire[1]
<1>3. /\ wire' \in Seq(S) /\ Head(wire) = e
      /\ 1 \in DOMAIN wire
      /\ \A b \in DOMAIN wire' : b + 1 \in DOMAIN wire /\ wire'[b] = wire[b + 1]
      /\ \A b \in DOMAIN wire : b # 1 => b - 1 \in DOMAIN wire' /\ wire'[b - 1] = wire[b]
      /\ \A b \in DOMAIN wire' : b \in Nat /\ b + 1 > 1
      /\ \A b \in DOMAIN wire : b \in Nat /\ b >= 1
  <2>1. /\ Tail(wire) \in Seq(S) /\ Head(wire) = wire[1]
        /\ Len(wire) \in Nat /\ Len(wire) > 0 /\ DOMAIN wire = 1..Len(wire)
        /\ DOMAIN Tail(wire) = 1..(Len(wire) - 1)
        /\ \A a \in 1..(Len(wire) - 1) : Tail(wire)[a] = wire[a + 1]
    BY <1>1, <1>2, Tails
  <2>2. ASSUME NEW b \in DOMAIN wire, b # 1
        PROVE  b - 1 \in DOMAIN wire' /\ wire'[b - 1] = wire[b]
    <3>1. b - 1 \in 1..(Len(wire) - 1) /\ (b - 1) + 1 = b
      BY <2>1, <2>2
    <3> QED BY <1>2, <2>1, <3>1
  <2> QED BY <1>2, <2>1, <2>2
<1>4. PICK n \in Nat : e.frame = packData(n)
  BY <1>3 DEF OutInv, Frames
<1>5. \/ understood' = Append(understood, e.id) /\ garbled' = garbled
      \/ /\ e.put < FrameSize(e.frame)
         /\ garbled' = TRUE /\ understood' = understood
  <2>1. (e.frame.first = 126) = e.frame.ext
    BY <1>4, Announced
  <2> HIDE DEF e
  <2> QED BY <1>3, <2>1 DEF ClientReads
<1>6. e.put < FrameSize(e.frame) => e.id \in short
  BY <1>3 DEF OutInv, Frames
<1> HIDE DEF e
<1>7. Sent' = Sent
  BY <1>2 DEF Sent
<1>8. /\ e.id \in Sent /\ Sent \subseteq Nat
      /\ \A b \in DOMAIN wire : wire[b].id \in Sent
      /\ \A a \in DOMAIN understood : understood[a] \in Sent
  <2>1. Sent \subseteq Nat
    BY DEF OutInv, Frames, Sent
  <2> QED BY <1>3, <2>1 DEF OutInv, Complete, e
<1>9. /\ \A b \in DOMAIN wire' : e.id < wire'[b].id
      /\ \A a \in DOMAIN understood : understood[a] < e.id
      /\ \A b \in DOMAIN wire : wire[b].id = e.id \/ \E c \in DOMAIN wire' : wire'[c].id = wire[b].id
  <2>1. \A b \in DOMAIN wire' : e.id < wire'[b].id
    BY <1>3 DEF OutInv, Ordered, e
  <2>2. \A a \in DOMAIN understood : understood[a] < e.id
    BY <1>3 DEF OutInv, Ordered, e
  <2>3. \A b \in DOMAIN wire : wire[b].id = e.id \/ \E c \in DOMAIN wire' : wire'[c].id = wire[b].id
    BY <1>3 DEF e
  <2> QED BY <2>1, <2>2, <2>3
<1>10. /\ \A a, b \in DOMAIN wire' : a < b => wire'[a].id < wire'[b].id
       /\ \A b \in DOMAIN wire' : wire'[b].id \in Sent
       /\ \A a \in DOMAIN understood, b \in DOMAIN wire' : understood[a] < wire'[b].id
       /\ \A b \in DOMAIN wire' :
            /\ \E m \in Nat : wire'[b].frame = packData(m)
            /\ wire'[b].put < FrameSize(wire'[b].frame) => wire'[b].id \in short
  <2>1. ASSUME NEW a \in DOMAIN wire', NEW b \in DOMAIN wire', a < b
        PROVE  wire'[a].id < wire'[b].id
    <3>1. a + 1 \in DOMAIN wire /\ b + 1 \in DOMAIN wire /\ a + 1 < b + 1
      BY <1>3, <2>1
    <3>2. wire[a + 1].id < wire[b + 1].id
      BY <3>1 DEF OutInv, Ordered
    <3> QED BY <1>3, <3>2
  <2>2. \A a \in DOMAIN understood, b \in DOMAIN wire' : understood[a] < wire'[b].id
    BY <1>3 DEF OutInv, Ordered
  <2>3. ASSUME NEW b \in DOMAIN wire'
        PROVE  /\ \E m \in Nat : wire'[b].frame = packData(m)
               /\ wire'[b].put < FrameSize(wire'[b].frame) => wire'[b].id \in short
    <3>1. b + 1 \in DOMAIN wire /\ wire'[b] = wire[b + 1]
      BY <1>3
    <3>2. /\ \E m \in Nat : wire[b + 1].frame = packData(m)
          /\ wire[b + 1].put < FrameSize(wire[b + 1].frame) => wire[b + 1].id \in short
      BY <3>1 DEF OutInv, Frames
    <3> QED BY <3>1, <3>2
  <2> QED BY <1>3, <1>8, <2>1, <2>2, <2>3
<1>11. (\A b \in DOMAIN wire :
          /\ \E m \in Nat : wire[b].frame = packData(m)
          /\ wire[b].put < FrameSize(wire[b].frame) => wire[b].id \in short)'
  BY <1>2, <1>10 DEF packData, FrameSize
<1>12. understood \in Seq(Nat) /\ told \in Seq(Nat) /\ noRoom \subseteq DOMAIN told
  BY DEF OutInv, Frames
<1>13. CASE understood' = Append(understood, e.id) /\ garbled' = garbled
  <2> DEFINE u == Append(understood, e.id)
             l == Len(understood) + 1
  <2>1. /\ u \in Seq(Nat) /\ DOMAIN u = DOMAIN understood \cup {l}
        /\ \A a \in DOMAIN understood : u[a] = understood[a]
        /\ u[l] = e.id
    <3>1. /\ u \in Seq(Nat)
          /\ DOMAIN understood = 1..Len(understood)
          /\ DOMAIN u = 1..(Len(understood) + 1)
          /\ \A a \in DOMAIN understood : u[a] = understood[a]
          /\ u[l] = e.id
      <4>1. e.id \in Nat
        BY <1>8
      <4> HIDE DEF u
      <4>2. u = Append(understood, e.id)
        BY DEF u
      <4> QED BY <1>12, <4>1, <4>2, AppendSet
    <3>2. Len(understood) \in Nat
      BY <1>12
    <3> HIDE DEF u
    <3> QED BY <3>1, <3>2
  <2>2. Increasing(u)
    <3>1. \A x \in ToSet(understood) : x < e.id
      BY <1>9 DEF ToSet
    <3>2. Increasing(understood)
      BY DEF OutInv, Ordered
    <3> QED BY <1>8, <1>12, <3>1, <3>2, AppendIncreasing
  <2> HIDE DEF u, l
  <2>3. understood' = u
    BY <1>13 DEF u
  <2>4. Frames'
    <3>1. ~garbled'
      BY <1>2, <1>13
    <3> QED BY <1>2, <1>3, <1>11, <1>12, <2>1, <2>3, <3>1 DEF Frames
  <2>5. Ordered'
    <3>1. \A a \in DOMAIN u, b \in DOMAIN wire' : u[a] < wire'[b].id
      BY <1>9, <1>10, <2>1
    <3>2. Increasing(understood)'
      BY <2>2, <2>3 DEF Increasing
    <3> QED BY <1>10, <2>3, <3>1, <3>2 DEF Ordered
  <2>6. Complete'
    <3>1. \A a \in DOMAIN u : u[a] \in Sent
      BY <1>8, <2>1
    <3>2. \A k \in Sent : (\E a \in DOMAIN u : u[a] = k) \/ \E b \in DOMAIN wire' : wire'[b].id = k
      <4>1. ASSUME NEW k \in Sent
            PROVE  (\E a \in DOMAIN u : u[a] = k) \/ \E b \in DOMAIN wire' : wire'[b].id = k
        <5>1. IsRead(k) \/ IsComing(k)
          BY <1>2 DEF OutInv, Complete
        <5>2. CASE IsRead(k)
          BY <2>1, <5>2 DEF IsRead
        <5>3. CASE IsComing(k)
          BY <1>9, <2>1, <5>3 DEF IsComing
        <5> QED BY <5>1, <5>2, <5>3
      <4> QED BY <4>1
    <3>3. \A k \in Sent : (\E a \in DOMAIN u : u[a] = k) \/ \A a \in DOMAIN u : u[a] < k
      <4>1. ASSUME NEW b \in DOMAIN wire' PROVE \A a \in DOMAIN u : u[a] < wire'[b].id
        BY <1>9, <1>10, <2>1
      <4> QED BY <3>2, <4>1
    <3> QED BY <1>7, <1>10, <2>3, <3>1, <3>2, <3>3 DEF Complete, IsRead, IsComing
  <2> QED BY <2>4, <2>5, <2>6 DEF OutInv
<1>14. CASE e.put < FrameSize(e.frame) /\ garbled' = TRUE /\ understood' = understood
  <2>1. Frames'
    BY <1>2, <1>3, <1>6, <1>11, <1>12, <1>14 DEF Frames
  <2>2. Ordered'
    BY <1>10, <1>14 DEF Ordered, OutInv, Increasing
  <2>3. Complete'
    BY <1>7, <1>8, <1>10, <1>14 DEF Complete, OutInv, IsRead
  <2> QED BY <2>1, <2>2, <2>3 DEF OutInv
<1> QED BY <1>5, <1>13, <1>14

-----------------------------------------------------------------------------
\* A message that is sent, whole, in part or not at all, keeps the invariant.
LEMMA Responses ==
  ASSUME OutInv, Response
  PROVE  OutInv'
<1>1. CASE \E n \in Message : Send(n)
  <2>1. PICK n \in Message : Send(n)
    BY <1>1
  <2>2. n \in Nat
    BY ConnectionAssumption DEF ConnectionAssumption
  <2> QED BY <2>1, <2>2, OutSend
<1>2. CASE UNCHANGED outVars
  BY <1>2, OutKept DEF outVars
<1> QED BY <1>1, <1>2 DEF Response

\* Steps that do not touch the requests keep their invariant.
LEMMA InLeft ==
  ASSUME InInv, UNCHANGED inVars, phase' = phase \/ phase # "open"
  PROVE  InInv'
<1>1. UNCHANGED <<plan, taken, handled, spoiled, died>> /\ arrived' = arrived
  BY DEF inVars
<1>2. phase' = "open" \/ (phase # "open" /\ arrived' = arrived)
  BY <1>1
<1> QED BY <1>1, <1>2, InKept

\* Steps that do not touch the messages keep their invariant.
LEMMA OutLeft ==
  ASSUME OutInv, UNCHANGED outVars
  PROVE  OutInv'
<1>1. UNCHANGED <<told, wire, understood, garbled, noRoom, short>>
  BY DEF outVars
<1> QED BY <1>1, OutKept

(* Each direction keeps its invariant.                                     *)
LEMMA Invariance == Spec => [](InInv /\ OutInv)
<1>1. Init => InInv /\ OutInv
  BY InStarts, OutStarts
<1>2. InInv /\ OutInv /\ [Next]_vars => InInv' /\ OutInv'
  <2> SUFFICES ASSUME InInv, OutInv, [Next]_vars PROVE InInv' /\ OutInv'
    OBVIOUS
  <2>1. CASE ReadHandshake
    <3>1. phase # "open" /\ UNCHANGED inVars /\ UNCHANGED outVars
      BY <2>1 DEF ReadHandshake
    <3> QED BY <3>1, InLeft, OutLeft
  <2>2. CASE ComputeAcceptKey
    <3>1. UNCHANGED phase /\ UNCHANGED inVars /\ UNCHANGED outVars
      BY <2>2 DEF ComputeAcceptKey
    <3> QED BY <3>1, InLeft, OutLeft
  <2>3. CASE ShakeHand
    <3>1. phase # "open" /\ UNCHANGED inVars /\ UNCHANGED outVars
      BY <2>3 DEF ShakeHand
    <3> QED BY <3>1, InLeft, OutLeft
  <2>4. CASE ClientChecks
    <3>1. UNCHANGED outVars
      BY <2>4 DEF ClientChecks
    <3> QED BY <2>4, <3>1, InChosen, OutLeft
  <2>5. CASE Arrive
    <3>1. /\ phase' = "open" /\ UNCHANGED <<plan, taken, handled, spoiled, died, outVars>>
          /\ \E n \in Boundaries : n > arrived /\ arrived' = n
      BY <2>5 DEF Arrive
    <3>2. arrived' \in Nat /\ arrived' > arrived /\ \E i \in Request : arrived' <= End(i)
      BY <3>1, InBoundary DEF InInv, Stream
    <3> QED BY <3>1, <3>2, InKept, OutKept DEF outVars
  <2>6. CASE Recv
    <3>1. Response \/ UNCHANGED outVars
      BY <2>6 DEF Recv
    <3>2. OutInv'
      BY <3>1, Responses, OutLeft
    <3> QED BY <2>6, <3>2, InRecv
  <2>7. CASE Notice
    <3>1. Response /\ UNCHANGED phase /\ UNCHANGED inVars
      BY <2>7 DEF Notice
    <3> QED BY <3>1, InLeft, Responses
  <2>8. CASE ClientReads
    <3>1. UNCHANGED phase /\ UNCHANGED inVars
      BY <2>8 DEF ClientReads
    <3> QED BY <2>8, <3>1, InLeft, OutRead
  <2>9. CASE UNCHANGED vars
    <3>1. UNCHANGED phase /\ UNCHANGED inVars /\ UNCHANGED outVars
      BY <2>9 DEF vars
    <3> QED BY <3>1, InLeft, OutLeft
  <2> QED BY <2>1, <2>2, <2>3, <2>4, <2>5, <2>6, <2>7, <2>8, <2>9 DEF Next
<1> QED BY <1>1, <1>2, PTL DEF Spec

\* The positions of two sequences, one behind the other.
LEMMA Joined ==
  ASSUME NEW s \in Seq(Nat), NEW t \in Seq(Nat)
  PROVE  /\ DOMAIN (s \o t) = 1..(Len(s) + Len(t))
         /\ \A a \in 1..Len(s) : (s \o t)[a] = s[a]
         /\ \A a \in (Len(s) + 1)..(Len(s) + Len(t)) : (s \o t)[a] = t[a - Len(s)]
OBVIOUS

(* Whatever requests a client sends and however the network divides them,  *)
(* the server handles those that are one masked frame and came alone and   *)
(* in one piece, in order and once each; every request as long as the      *)
(* buffer is lost; and bytes are taken for a request that never was one    *)
(* only behind one that was spoiled (requestReceiver.h:115-190, 230-259).  *)
THEOREM Handled == Spec => []RequestsAreClients
<1>1. InInv => RequestsAreClients
  BY DEF InInv
<1> QED BY Invariance, <1>1, PTL

(* The client reads the messages in the order of response, and until one   *)
(* was sent in part misses only those of 65535 bytes and more and those    *)
(* that found no room, for any lengths and any size of the buffer of the   *)
(* kernel (websocketSendAction.h:20-52, 77).                               *)
THEOREM Arrived == Spec => []MessagesArrive
<1>1. OutInv => MessagesArrive
  <2> SUFFICES ASSUME OutInv PROVE MessagesArrive
    OBVIOUS
  <2> DEFINE Coming == [k \in DOMAIN wire |-> wire[k].id]
             Read == ToSet(understood)
  <2>1. garbled => short # {}
    BY DEF OutInv, Frames
  <2>2. PICK S : wire \in Seq(S)
    BY DEF OutInv, Frames
  <2>3. understood \in Seq(Nat)
    BY DEF OutInv, Frames
  <2>4. \A k : k \in Read <=> IsRead(k)
    BY DEF IsRead, ToSet
  <2>5. \A k : k \in ToSet(Coming) <=> IsComing(k)
    BY DEF IsComing, ToSet
  <2>6. \A b \in DOMAIN wire : wire[b].id \in Nat
    BY DEF OutInv, Frames, Complete, Sent
  <2>7. /\ Len(wire) \in Nat /\ DOMAIN wire = 1..Len(wire)
        /\ Len(understood) \in Nat /\ DOMAIN understood = 1..Len(understood)
    BY <2>2, <2>3
  <2>8. /\ Coming \in Seq(Nat) /\ DOMAIN Coming = DOMAIN wire /\ Len(Coming) = Len(wire)
        /\ \A b \in DOMAIN wire : Coming[b] = wire[b].id
    <3>1. Coming \in [1..Len(wire) -> Nat]
      BY <2>6, <2>7
    <3> QED BY <2>7, <3>1
  <2>9. Increasing(understood \o Coming)
    <3> DEFINE s == understood \o Coming
               m == Len(understood)
    <3> HIDE DEF Coming
    <3>1. /\ DOMAIN s = 1..(m + Len(wire))
          /\ \A a \in 1..m : s[a] = understood[a]
          /\ \A a \in (m + 1)..(m + Len(wire)) : s[a] = Coming[a - m]
      BY <2>3, <2>8, Joined
    <3> HIDE DEF s
    <3>2. ASSUME NEW a \in DOMAIN s, NEW b \in DOMAIN s, a < b
          PROVE  s[a] < s[b]
      <4>1. CASE b <= m
        BY <2>7, <3>1, <3>2, <4>1 DEF OutInv, Ordered, Increasing
      <4>2. CASE a <= m /\ b > m
        <5>1. b - m \in DOMAIN wire /\ a \in DOMAIN understood /\ b \in (m + 1)..(m + Len(wire))
          BY <2>7, <3>1, <4>2
        <5>2. understood[a] < wire[b - m].id
          BY <5>1 DEF OutInv, Ordered
        <5> QED BY <2>7, <2>8, <3>1, <5>1, <5>2
      <4>3. CASE a > m
        <5>1. /\ b - m \in DOMAIN wire /\ a - m \in DOMAIN wire /\ a - m < b - m
              /\ a \in (m + 1)..(m + Len(wire)) /\ b \in (m + 1)..(m + Len(wire))
          BY <2>7, <3>1, <3>2, <4>3
        <5>2. wire[a - m].id < wire[b - m].id
          BY <5>1 DEF OutInv, Ordered
        <5> QED BY <2>8, <3>1, <5>1, <5>2
      <4> QED BY <2>7, <3>1, <3>2, <4>1, <4>2, <4>3
    <3>3. Increasing(s)
      BY <3>2 DEF Increasing
    <3> QED BY <3>3 DEF s
  <2> HIDE DEF Coming, Read
  <2>10. Read \subseteq Sent
    BY <2>4 DEF OutInv, Complete, IsRead
  <2>11. \A k \in Sent \ Read : \A n \in Read : n < k
    BY <2>4 DEF OutInv, Complete, IsRead
  <2>12. short = {} => Sent \ Read = ToSet(Coming)
    <3>1. ASSUME NEW k, IsComing(k) PROVE k \in Sent /\ ~IsRead(k)
      <4>1. k \in Sent
        BY <3>1 DEF OutInv, Complete, IsComing
      <4>2. k \in Nat
        BY <4>1 DEF OutInv, Frames, Sent
      <4>3. IsRead(k) => k < k
        BY <3>1 DEF OutInv, Ordered, IsComing, IsRead
      <4> QED BY <4>1, <4>2, <4>3
    <3>2. short = {} => \A k \in Sent : IsRead(k) \/ IsComing(k)
      BY <2>1 DEF OutInv, Complete
    <3> QED BY <2>4, <2>5, <3>1, <3>2
  <2> QED BY <2>1, <2>9, <2>10, <2>11, <2>12 DEF MessagesArrive, Sent, Coming, Read
<1> QED BY Invariance, <1>1, PTL

-----------------------------------------------------------------------------
(* Functions defined by recursion.  f[i] == e(i, f[i - 1]) is a CHOOSE, and*)
(* has its values because a function with them exists.                     *)

(* Induction over an interval.                                             *)
LEMMA Induct ==
  ASSUME NEW a \in Nat, NEW b \in Nat, NEW T,
         a \in T, \A i \in a..b : i # a /\ i - 1 \in T => i \in T
  PROVE  a..b \subseteq T
<1> DEFINE R == (a..b) \ T
<1>1. SUFFICES ASSUME R # {} PROVE FALSE
  OBVIOUS
<1>2. PICK i \in R : \A j \in R : i <= j
  <2>1. R \in SUBSET Nat
    OBVIOUS
  <2> HIDE DEF R
  <2> QED BY <1>1, <2>1, Least
<1>3. i \in a..b /\ i # a /\ i - 1 \in a..b /\ ~(i <= i - 1)
  BY <1>2
<1> QED BY <1>2, <1>3

(* The same from 0: a set that holds 0 and, with i - 1, also i holds all of*)
(* 0..b.                                                                   *)
LEMMA InductFrom0 ==
  ASSUME NEW b \in Nat, NEW T, 0 \in T, \A i \in 0..b : i # 0 /\ i - 1 \in T => i \in T
  PROVE  0..b \subseteq T
<1> DEFINE a == 0
<1>1. a \in Nat /\ a \in T /\ \A i \in a..b : i # a /\ i - 1 \in T => i \in T
  OBVIOUS
<1> HIDE DEF a
<1>2. a..b \subseteq T
  BY <1>1, Induct
<1> QED BY <1>2 DEF a

\* Kept folded, so that a lemma about functions can be found by the provers.
Maps(A, B) == [A -> B]

(* Recursion over an interval: s[i] takes the value at i - 1 to that at i. *)
LEMMA Recursion ==
  ASSUME NEW a \in Nat, NEW b \in Nat, a <= b, NEW S, NEW v \in S,
         NEW s \in Maps(a..b, Maps(S, S))
  PROVE  \E f \in Maps(a..b, S) :
           f[a] = v /\ \A i \in a..b : i # a => f[i] = s[i][f[i - 1]]
<1> USE DEF Maps
<1> DEFINE Up(f, n) == /\ f \in [a..n -> S] /\ f[a] = v
                       /\ \A i \in a..n : i # a => f[i] = s[i][f[i - 1]]
           T == {n \in a..b : \E f : Up(f, n)}
<1>1. a \in T
  <2> DEFINE f == [i \in a..a |-> v]
  <2>1. Up(f, a)
    OBVIOUS
  <2> HIDE DEF f, Up
  <2> QED BY <2>1
<1>2. ASSUME NEW n \in a..b, n # a, n - 1 \in T PROVE n \in T
  <2>1. PICK f : Up(f, n - 1)
    BY <1>2
  <2> DEFINE g == [i \in a..n |-> IF i = n THEN s[n][f[n - 1]] ELSE f[i]]
  <2>2. f[n - 1] \in S /\ s[n] \in [S -> S] /\ n - 1 \in a..(n - 1)
    BY <1>2, <2>1
  <2>3. g \in [a..n -> S] /\ g[a] = v
    BY <1>2, <2>1, <2>2
  <2>4. ASSUME NEW i \in a..n, i # a PROVE g[i] = s[i][g[i - 1]]
    <3>1. i \in a..n /\ i - 1 \in a..n /\ i - 1 # n
      BY <2>4
    <3>2. CASE i = n
      BY <3>1, <3>2
    <3>3. CASE i # n
      <4>1. i \in a..(n - 1)
        BY <3>3
      <4> QED BY <2>1, <2>4, <3>1, <3>3, <4>1
    <3> QED BY <3>2, <3>3
  <2> HIDE DEF g
  <2>5. Up(g, n)
    BY <2>3, <2>4
  <2> HIDE DEF Up
  <2> QED BY <2>5
<1>3. b \in T
  <2> HIDE DEF T
  <2>1. a..b \subseteq T
    BY <1>1, <1>2, Induct
  <2> QED BY <2>1
<1> QED BY <1>3
\* The same from 0, where nearly all the recursions of the model begin.
LEMMA RecursionFrom0 ==
  ASSUME NEW b \in Nat, NEW S, NEW v \in S, NEW s \in Maps(0..b, Maps(S, S))
  PROVE  \E f \in Maps(0..b, S) :
           f[0] = v /\ \A i \in 0..b : i # 0 => f[i] = s[i][f[i - 1]]
<1> DEFINE a == 0
<1>1. a \in Nat /\ a <= b /\ s \in Maps(a..b, Maps(S, S))
  OBVIOUS
<1> HIDE DEF a
<1>2. \E f \in Maps(a..b, S) :
        f[a] = v /\ \A i \in a..b : i # a => f[i] = s[i][f[i - 1]]
  BY <1>1, Recursion
<1> QED BY <1>2 DEF a

-----------------------------------------------------------------------------
(* Sequences, one behind the other.                                        *)

(* Where the piece after the first k pieces of m elements lies among i     *)
(* pieces.                                                                 *)
LEMMA Times ==
  ASSUME NEW m \in Nat, NEW k \in Nat, NEW i \in Nat, NEW j \in 1..m, k < i
  PROVE  /\ m * k \in Nat /\ m * i \in Nat
         /\ m * k + j \in 1..(m * i)
         /\ m * i + m = m * (i + 1)
<1>1. m * k \in Nat /\ m * i \in Nat /\ m * i + m = m * (i + 1) /\ m * k + m = m * (k + 1)
  OBVIOUS
<1>2. m * (i - (k + 1)) \in Nat
  OBVIOUS
<1>3. m * (i - (k + 1)) = m * i - m * (k + 1)
  OBVIOUS
<1> QED BY <1>1, <1>2, <1>3

\* Kept folded, as Maps is.
OfLength(x, n, S) == x \in Seq(S) /\ Len(x) = n
\* The concatenation, folded.
Then(x, y) == x \o y

\* p is y behind x.
Behind(p, x, m, y, n, S) ==
  /\ OfLength(p, m + n, S)
  /\ \A l \in 1..m : p[l] = x[l]
  /\ \A j \in 1..n : p[m + j] = y[j]

\* A concatenation is its second part behind its first.
LEMMA Concatenated ==
  ASSUME NEW S, NEW m \in Nat, NEW n \in Nat,
         NEW x, OfLength(x, m, S), NEW y, OfLength(y, n, S)
  PROVE  Behind(Then(x, y), x, m, y, n, S)
<1>1. /\ x \in Seq(S) /\ y \in Seq(S) /\ Len(x) = m /\ Len(y) = n
      /\ x \o y \in Seq(S) /\ Len(x \o y) = m + n
  BY DEF OfLength
<1>2. ASSUME NEW j \in 1..n PROVE (x \o y)[m + j] = y[j]
  <2>1. m + j \in 1..(m + n) /\ ~(m + j <= m) /\ (m + j) - m = j
    OBVIOUS
  <2> QED BY <1>1, <2>1
<1>3. ASSUME NEW l \in 1..m PROVE (x \o y)[l] = x[l]
  BY <1>1
<1> QED BY <1>1, <1>2, <1>3 DEF OfLength, Then, Behind

\* n sequences of m elements each.
Uniform(s, n, m, S) ==
  s \in [1..n -> Seq(S)] /\ \A i \in 1..n : Len(s[i]) = m

\* f is what they make, one behind the other.
Row(f, s, n, m, S) ==
  /\ f \in Seq(S) /\ Len(f) = m * n
  /\ \A i \in 1..n, j \in 1..m : f[m * (i - 1) + j] = s[i][j]

(* Sequences of one length, one behind the other.                          *)
LEMMA Flattened ==
  ASSUME NEW S, NEW m \in Nat, NEW n \in Nat \ {0}, NEW s,
         Uniform(s, n, m, S)
  PROVE  Row(FlattenSeq(s), s, n, m, S)
<1> DEFINE Step(f) == [i \in 1..n |-> IF i = 1 THEN s[i] ELSE f[i - 1] \o s[i]]
           F == CHOOSE h : h = Step(h)
<1>0. s \in [1..n -> Seq(S)] /\ \A i \in 1..n : Len(s[i]) = m
  BY DEF Uniform
<1>1. Len(s) = n
  BY <1>0
<1>2. FlattenSeq(s) = F[n]
  BY <1>1 DEF FlattenSeq
<1>3. F = Step(F)
  <2> DEFINE up == [i \in 1..n |-> [x \in Seq(S) |-> x \o s[i]]]
  <2>1. up \in [1..n -> [Seq(S) -> Seq(S)]]
    BY <1>0
  <2>2. s[1] \in Seq(S) /\ 1 <= n
    BY <1>0
  <2>3. PICK g \in Maps(1..n, Seq(S)) :
          g[1] = s[1] /\ \A i \in 1..n : i # 1 => g[i] = up[i][g[i - 1]]
    <3>1. up \in Maps(1..n, Maps(Seq(S), Seq(S)))
      BY <2>1 DEF Maps
    <3> HIDE DEF up, F, Step
    <3> QED BY <2>2, <3>1, Recursion
  <2>4. \A i \in 1..n : i # 1 => g[i] = g[i - 1] \o s[i]
    <3> SUFFICES ASSUME NEW i \in 1..n, i # 1 PROVE g[i] = g[i - 1] \o s[i]
      OBVIOUS
    <3>1. g[i - 1] \in Seq(S)
      BY DEF Maps
    <3> QED BY <2>3, <3>1
  <2>5. g = Step(g)
    BY <2>3, <2>4 DEF Maps
  <2> HIDE DEF Step
  <2> QED BY <2>5
<1>4. \A i \in 1..n : F[i] = IF i = 1 THEN s[i] ELSE F[i - 1] \o s[i]
  BY <1>3
<1> DEFINE P(i) == /\ F[i] \in Seq(S) /\ Len(F[i]) = m * i
                   /\ \A k \in 1..i, j \in 1..m : F[i][m * (k - 1) + j] = s[k][j]
           T == {i \in 1..n : P(i)}
<1> HIDE DEF F
<1>5. 1 \in T
  <2>1. F[1] = s[1] /\ F[1] \in Seq(S) /\ Len(F[1]) = m
    BY <1>0, <1>4
  <2>2. m * 1 = m /\ \A k \in 1..1, j \in 1..m : k = 1 /\ m * (k - 1) + j = j
    OBVIOUS
  <2> QED BY <2>1, <2>2
<1>6. ASSUME NEW i \in 1..n, i # 1, i - 1 \in T PROVE i \in T
  <2> DEFINE c == m * (i - 1)
             x == F[i - 1]
             y == s[i]
  <2>1. i \in 1..n /\ i - 1 \in 1..n /\ i - 1 \in Nat /\ i # 1
    BY <1>6
  <2>2. F[i] = x \o y
    BY <1>4, <2>1
  <2>3. c \in Nat /\ c + m = m * i
    BY <2>1
  <2>4. x \in Seq(S) /\ Len(x) = c /\ y \in Seq(S) /\ Len(y) = m
    BY <1>0, <1>6, <2>1
  <2>5. \A k \in 1..(i - 1), j \in 1..m : x[m * (k - 1) + j] = s[k][j]
    BY <1>6
  <2>6. \A k \in 1..(i - 1), j \in 1..m : m * (k - 1) + j \in 1..c
    <3> SUFFICES ASSUME NEW k \in 1..(i - 1), NEW j \in 1..m
                 PROVE  m * (k - 1) + j \in 1..c
      OBVIOUS
    <3>1. k - 1 \in Nat /\ k - 1 < i - 1
      BY <2>1
    <3> QED BY <2>1, <3>1, Times
  <2> HIDE DEF c, x, y
  <2>7. /\ x \o y \in Seq(S) /\ Len(x \o y) = c + m
        /\ \A l \in 1..c : (x \o y)[l] = x[l]
        /\ \A j \in 1..m : (x \o y)[c + j] = y[j]
    <3>1. c \in Nat /\ OfLength(x, c, S) /\ OfLength(y, m, S)
      BY <2>3, <2>4 DEF OfLength
    <3>2. Behind(Then(x, y), x, c, y, m, S)
      BY <3>1, Concatenated
    <3> QED BY <3>2 DEF Behind, OfLength, Then
  <2>8. ASSUME NEW k \in 1..i, NEW j \in 1..m PROVE F[i][m * (k - 1) + j] = s[k][j]
    <3>1. CASE k = i
      BY <2>2, <2>7, <3>1 DEF c, y
    <3>2. CASE k # i
      <4>1. k \in 1..(i - 1)
        BY <3>2
      <4>2. m * (k - 1) + j \in 1..c /\ x[m * (k - 1) + j] = s[k][j]
        BY <2>5, <2>6, <4>1
      <4> QED BY <2>2, <2>7, <4>2
    <3> QED BY <3>1, <3>2
  <2> QED BY <2>1, <2>2, <2>3, <2>7, <2>8
<1>7. n \in T
  <2> HIDE DEF T
  <2>1. 1..n \subseteq T
    BY <1>5, <1>6, Induct
  <2> QED BY <2>1
<1>8. F[n] \in Seq(S) /\ Len(F[n]) = m * n
      /\ \A i \in 1..n, j \in 1..m : F[n][m * (i - 1) + j] = s[i][j]
  BY <1>7
<1> QED BY <1>2, <1>8 DEF Row

-----------------------------------------------------------------------------
(* Bits, and the numbers they make.                                        *)

\* A bit, and n bits in a row.
Bit == {0, 1}

BitString(b, n) == b \in Seq(Bit) /\ Len(b) = n

\* The members of a string of bits are bits.
LEMMA BitsOf ==
  ASSUME NEW n \in Nat, NEW b, BitString(b, n), NEW i \in 1..n
  PROVE  b[i] \in Bit /\ b[i] \in 0..1
BY DEF BitString, Bit

\* Bits(n, width) are width bits.
LEMMA BitsType ==
  ASSUME NEW n \in Nat, NEW width \in Nat
  PROVE  BitString(Bits(n, width), width) /\ Bits(n, width) \in [1..width -> Bit]
<1>1. ASSUME NEW i \in 1..width PROVE (n \div 2^(width - i)) % 2 \in Bit
  <2> DEFINE j == width - i
  <2>1. j \in Nat
    OBVIOUS
  <2> HIDE DEF j
  <2>2. (n \div 2^j) % 2 \in {0, 1}
    BY <2>1
  <2> QED BY <2>2 DEF j, Bit
<1> QED BY <1>1 DEF Bits, BitString

\* A byte is determined by its eight binary digits.
LEMMA ByteOfBits ==
  ASSUME NEW x \in 0..255, NEW y \in 0..255,
         (x \div 1) % 2 = (y \div 1) % 2, (x \div 2) % 2 = (y \div 2) % 2,
         (x \div 4) % 2 = (y \div 4) % 2, (x \div 8) % 2 = (y \div 8) % 2,
         (x \div 16) % 2 = (y \div 16) % 2, (x \div 32) % 2 = (y \div 32) % 2,
         (x \div 64) % 2 = (y \div 64) % 2, (x \div 128) % 2 = (y \div 128) % 2
  PROVE  x = y
BY SMTT(60)

(* A byte is told by its bits.                                             *)
LEMMA ByteBits ==
  ASSUME NEW x \in 0..255, NEW y \in 0..255, \A i \in 1..8 : Bits(x, 8)[i] = Bits(y, 8)[i]
  PROVE  x = y
<1>1. /\ 2^(8 - 1) = 128 /\ 2^(8 - 2) = 64 /\ 2^(8 - 3) = 32 /\ 2^(8 - 4) = 16
      /\ 2^(8 - 5) = 8 /\ 2^(8 - 6) = 4 /\ 2^(8 - 7) = 2 /\ 2^(8 - 8) = 1
  OBVIOUS
<1>2. ASSUME NEW i \in 1..8 PROVE (x \div 2^(8 - i)) % 2 = (y \div 2^(8 - i)) % 2
  BY DEF Bits
<1>3. /\ (x \div 128) % 2 = (y \div 128) % 2 /\ (x \div 64) % 2 = (y \div 64) % 2
      /\ (x \div 32) % 2 = (y \div 32) % 2 /\ (x \div 16) % 2 = (y \div 16) % 2
      /\ (x \div 8) % 2 = (y \div 8) % 2 /\ (x \div 4) % 2 = (y \div 4) % 2
      /\ (x \div 2) % 2 = (y \div 2) % 2 /\ (x \div 1) % 2 = (y \div 1) % 2
  BY <1>1, <1>2
<1> QED BY <1>3, ByteOfBits, Zenon

\* f is the number of each beginning of b.
Sums(f, b, n) ==
  /\ f[0] = 0 /\ \A i \in 1..n : f[i] \in Nat /\ f[i] = 2 * f[i - 1] + b[i]

\* Number of Words adds the bits up, as its recursion says.
LEMMA Numbers ==
  ASSUME NEW n \in Nat, NEW b, BitString(b, n)
  PROVE  \E f : Sums(f, b, n) /\ Number(b) = f[n]
<1> DEFINE Step(f) == [i \in 0..n |-> IF i = 0 THEN 0 ELSE 2 * f[i - 1] + b[i]]
           F == CHOOSE h : h = Step(h)
           up == [i \in 0..n |-> [x \in Nat |-> IF i = 0 THEN 0 ELSE 2 * x + b[i]]]
<1>1. n \in Nat /\ Len(b) = n /\ \A i \in 1..n : b[i] \in Bit
  BY DEF BitString
<1>2. Number(b) = F[n]
  BY <1>1 DEF Number
<1>3. PICK f \in Maps(0..n, Nat) :
        f[0] = 0 /\ \A i \in 0..n : i # 0 => f[i] = up[i][f[i - 1]]
  <2>1. up \in Maps(0..n, Maps(Nat, Nat))
    BY <1>1 DEF Maps, Bit
  <2> DEFINE z == 0
             N == Nat
  <2>2. z \in N /\ up \in Maps(0..n, Maps(N, N))
    BY <2>1
  <2> HIDE DEF up, F, Step, z, N
  <2>3. \E f \in Maps(0..n, N) :
          f[0] = z /\ \A i \in 0..n : i # 0 => f[i] = up[i][f[i - 1]]
    BY <1>1, <2>2, RecursionFrom0
  <2> QED BY <2>3 DEF z, N
<1>4. f \in [0..n -> Nat]
  BY DEF Maps
<1>5. \A i \in 0..n : i # 0 => f[i] = 2 * f[i - 1] + b[i]
  <2> SUFFICES ASSUME NEW i \in 0..n, i # 0 PROVE f[i] = 2 * f[i - 1] + b[i]
    OBVIOUS
  <2>1. f[i - 1] \in Nat
    BY <1>1, <1>4
  <2> QED BY <1>3, <2>1
<1>6. f = Step(f)
  BY <1>3, <1>4, <1>5
<1>7. F = Step(F)
  <2> HIDE DEF Step
  <2> QED BY <1>6
<1> HIDE DEF F, up
<1>8. \A i \in 0..n : F[i] = f[i]
  <2> DEFINE T == {i \in 0..n : F[i] = f[i]}
  <2>1. 0 \in T
    BY <1>1, <1>3, <1>7
  <2>2. ASSUME NEW i \in 0..n, i # 0, i - 1 \in T PROVE i \in T
    <3>1. F[i] = 2 * F[i - 1] + b[i]
      BY <1>7, <2>2
    <3> QED BY <1>5, <2>2, <3>1
  <2>3. 0..n \subseteq T
    <3> HIDE DEF T
    <3> QED BY <1>1, <2>1, <2>2, Induct
  <2> QED BY <2>3
<1>9. f[n] = F[n]
  BY <1>1, <1>8
<1>10. \A i \in 1..n : f[i] \in Nat /\ f[i] = 2 * f[i - 1] + b[i]
  BY <1>1, <1>4, <1>5
<1> HIDE DEF F, up, Step
<1> QED BY <1>2, <1>3, <1>9, <1>10 DEF Sums

(* Eight bits make a byte.                                                 *)
LEMMA Eight ==
  ASSUME NEW b, BitString(b, 8)
  PROVE  Number(b) \in 0..255
<1>1. /\ b[1] \in 0..1 /\ b[2] \in 0..1 /\ b[3] \in 0..1 /\ b[4] \in 0..1
      /\ b[5] \in 0..1 /\ b[6] \in 0..1 /\ b[7] \in 0..1 /\ b[8] \in 0..1
  BY BitsOf
<1>2. PICK f : Sums(f, b, 8) /\ Number(b) = f[8]
  BY Numbers
<1>3. /\ f[0] = 0 /\ f[1] = 2 * f[0] + b[1] /\ f[2] = 2 * f[1] + b[2]
      /\ f[3] = 2 * f[2] + b[3] /\ f[4] = 2 * f[3] + b[4] /\ f[5] = 2 * f[4] + b[5]
      /\ f[6] = 2 * f[5] + b[6] /\ f[7] = 2 * f[6] + b[7] /\ f[8] = 2 * f[7] + b[8]
  BY <1>2 DEF Sums
<1>4. f[3] \in 0..7
  BY <1>1, <1>3
<1>5. f[6] \in 0..63
  BY <1>1, <1>3, <1>4
<1> QED BY <1>1, <1>2, <1>3, <1>5

(* Six bits make one of 64 characters, and are told by it.                 *)
LEMMA Character ==
  ASSUME NEW b, BitString(b, 6)
  PROVE  Number(b) \in 0..63
<1>1. /\ b[1] \in 0..1 /\ b[2] \in 0..1 /\ b[3] \in 0..1 /\ b[4] \in 0..1
      /\ b[5] \in 0..1 /\ b[6] \in 0..1
  BY BitsOf
<1>2. PICK f : Sums(f, b, 6) /\ Number(b) = f[6]
  BY Numbers
<1>3. /\ f[0] = 0 /\ f[1] = 2 * f[0] + b[1] /\ f[2] = 2 * f[1] + b[2]
      /\ f[3] = 2 * f[2] + b[3] /\ f[4] = 2 * f[3] + b[4] /\ f[5] = 2 * f[4] + b[5]
      /\ f[6] = 2 * f[5] + b[6]
  BY <1>2 DEF Sums
<1>4. f[3] \in 0..7
  BY <1>1, <1>3
<1> QED BY <1>1, <1>2, <1>3, <1>4

\* The last bit of a number and the rest of it are determined by the number.
LEMMA Halves ==
  ASSUME NEW x \in Nat, NEW y \in Nat, NEW p \in 0..1, NEW q \in 0..1,
         2 * x + p = 2 * y + q
  PROVE  x = y /\ p = q
OBVIOUS

(* Six bits are determined by their number: base64.h looks up one character*)
(* for it.                                                                 *)
LEMMA SameCharacter ==
  ASSUME NEW b, BitString(b, 6), NEW c, BitString(c, 6), Number(b) = Number(c)
  PROVE  \A i \in 1..6 : b[i] = c[i]
<1>1. PICK f : Sums(f, b, 6) /\ Number(b) = f[6]
  BY Numbers
<1>2. PICK g : Sums(g, c, 6) /\ Number(c) = g[6]
  BY Numbers
<1>3. ASSUME NEW i \in 1..6, f[i] = g[i]
      PROVE  f[i - 1] = g[i - 1] /\ b[i] = c[i]
  <2>1. f[i] = 2 * f[i - 1] + b[i] /\ g[i] = 2 * g[i - 1] + c[i]
    BY <1>1, <1>2 DEF Sums
  <2>2. f[i - 1] \in Nat /\ g[i - 1] \in Nat
    <3>1. CASE i = 1
      BY <1>1, <1>2, <3>1 DEF Sums
    <3>2. CASE i # 1
      <4>1. i - 1 \in 1..6
        BY <3>2
      <4> QED BY <1>1, <1>2, <4>1 DEF Sums
    <3> QED BY <3>1, <3>2
  <2>3. b[i] \in 0..1 /\ c[i] \in 0..1
    BY BitsOf
  <2>4. 2 * f[i - 1] + b[i] = 2 * g[i - 1] + c[i]
    BY <1>3, <2>1
  <2> QED BY <2>2, <2>3, <2>4, Halves
<1>4. f[6] = g[6]
  BY <1>1, <1>2
<1>5. f[5] = g[5] /\ b[6] = c[6]
  BY <1>3, <1>4
<1>6. f[4] = g[4] /\ b[5] = c[5]
  BY <1>3, <1>5
<1>7. f[3] = g[3] /\ b[4] = c[4]
  BY <1>3, <1>6
<1>8. f[2] = g[2] /\ b[3] = c[3]
  BY <1>3, <1>7
<1>9. f[1] = g[1] /\ b[2] = c[2]
  BY <1>3, <1>8
<1>10. b[1] = c[1]
  BY <1>3, <1>9
<1>11. \A i \in 1..6 : i = 1 \/ i = 2 \/ i = 3 \/ i = 4 \/ i = 5 \/ i = 6
  OBVIOUS
<1> QED BY <1>5, <1>6, <1>7, <1>8, <1>9, <1>10, <1>11

(* The bits of a sequence of bytes.                                        *)
Byte == 0..255
\* n bytes in a row.
ByteString(s, n) == s \in Seq(Byte) /\ Len(s) = n

\* The members of a string of bytes are bytes.
LEMMA BytesOf ==
  ASSUME NEW n \in Nat, NEW s, ByteString(s, n)
  PROVE  DOMAIN s = 1..n /\ \A i \in 1..n : s[i] \in Byte
BY DEF ByteString

\* Nothing flattened is nothing.
LEMMA Empty == FlattenSeq(<<>>) = <<>> /\ Len(<<>>) = 0
BY DEF FlattenSeq

\* Bytes(s) are the bits of the first byte, then those of the second, ...
LEMMA BytesType ==
  ASSUME NEW n \in Nat, NEW s, ByteString(s, n)
  PROVE  /\ BitString(Bytes(s), 8 * n)
         /\ \A i \in 1..n, j \in 1..8 : Bytes(s)[8 * (i - 1) + j] = Bits(s[i], 8)[j]
<1> DEFINE t == [i \in 1..n |-> Bits(s[i], 8)]
<1>1. DOMAIN s = 1..n /\ \A i \in 1..n : s[i] \in Nat
  <2>1. \A b \in Byte : b \in Nat
    BY DEF Byte
  <2> QED BY <2>1, BytesOf
<1>2. Bytes(s) = FlattenSeq(t)
  BY <1>1 DEF Bytes
<1>3. CASE n = 0
  <2>1. t = <<>>
    BY <1>3
  <2> HIDE DEF t
  <2>2. Bytes(s) = <<>> /\ Len(Bytes(s)) = 0
    BY <1>2, <2>1, Empty
  <2>3. BitString(Bytes(s), 8 * n)
    BY <1>3, <2>2 DEF BitString
  <2> QED BY <1>3, <2>3
<1>4. CASE n # 0
  <2>1. \A i \in 1..n : Bits(s[i], 8) \in Seq(Bit) /\ Len(Bits(s[i], 8)) = 8
    BY <1>1, BitsType DEF BitString
  <2> DEFINE m == 8
             B == Bit
  <2>2. Uniform(t, n, m, B) /\ m \in Nat /\ n \in Nat \ {0}
    BY <1>4, <2>1 DEF Uniform
  <2> HIDE DEF t, m, B
  <2>3. Row(FlattenSeq(t), t, n, m, B)
    BY <2>2, Flattened
  <2>4. BitString(Bytes(s), 8 * n)
    BY <1>2, <2>3 DEF m, B, BitString, Row
  <2>5. \A i \in 1..n, j \in 1..8 : Bytes(s)[8 * (i - 1) + j] = t[i][j]
    BY <1>2, <2>3 DEF m, Row
  <2> QED BY <2>4, <2>5 DEF t
<1> QED BY <1>3, <1>4

-----------------------------------------------------------------------------
(* Pieces of a sequence of bits, and the groups of base64.                 *)

\* Division undoes multiplication.
LEMMA Quotient ==
  ASSUME NEW m \in Nat \ {0}, NEW n \in Nat
  PROVE  (m * n) \div m = n
OBVIOUS

\* p are the n pieces of m bits of b.
Cut(p, b, m, n) ==
  /\ p \in [1..n -> Seq(Bit)] /\ Len(p) = n
  /\ \A i \in 1..n : /\ BitString(p[i], m)
                     /\ \A j \in 1..m : p[i][j] = b[m * (i - 1) + j]

(* The pieces of a sequence of bits.                                       *)
LEMMA PiecesOf ==
  ASSUME NEW m \in Nat \ {0}, NEW n \in Nat, NEW k \in Nat, k = m * n,
         NEW b, BitString(b, k)
  PROVE  Cut(Pieces(b, m), b, m, n)
<1>1. b \in Seq(Bit) /\ Len(b) = m * n
  BY DEF BitString
<1>2. Pieces(b, m) = [i \in 1..n |-> SubSeq(b, m * (i - 1) + 1, m * i)]
  BY <1>1, Quotient DEF Pieces
<1>3. ASSUME NEW i \in 1..n
      PROVE  /\ BitString(SubSeq(b, m * (i - 1) + 1, m * i), m)
             /\ \A j \in 1..m : SubSeq(b, m * (i - 1) + 1, m * i)[j] = b[m * (i - 1) + j]
  <2> DEFINE c == m * (i - 1)
             d == m * i
             l == m * n
  <2>1. c \in Nat /\ d = c + m /\ l \in Nat
    OBVIOUS
  <2>2. d <= l
    <3>1. m * (n - i) \in Nat
      OBVIOUS
    <3>2. m * (n - i) = l - d
      OBVIOUS
    <3> QED BY <2>1, <3>1, <3>2
  <2> HIDE DEF c, d, l
  <2>3. b \in Seq(Bit) /\ Len(b) = l
    BY <1>1 DEF l
  <2>4. SubSeq(b, c + 1, d) \in Seq(Bit) /\ Len(SubSeq(b, c + 1, d)) = m
        /\ \A j \in 1..m : SubSeq(b, c + 1, d)[j] = b[c + j]
    BY <2>1, <2>2, <2>3
  <2> QED BY <2>4 DEF BitString, c, d
<1>4. Len(Pieces(b, m)) = n
  BY <1>2
<1>5. \A i \in 1..n : Pieces(b, m)[i] = SubSeq(b, m * (i - 1) + 1, m * i)
  BY <1>2
<1>6. \A i \in 1..n :
        /\ BitString(Pieces(b, m)[i], m)
        /\ \A j \in 1..m : Pieces(b, m)[i][j] = b[m * (i - 1) + j]
  BY <1>3, <1>5, Zenon
<1>7. Pieces(b, m) \in [1..n -> Seq(Bit)]
  BY <1>2, <1>5, <1>6 DEF BitString
<1> QED BY <1>4, <1>6, <1>7 DEF Cut

\* Zeros(n) are n bits 0.
LEMMA ZerosType ==
  ASSUME NEW n \in Nat
  PROVE  BitString(Zeros(n), n) /\ \A i \in 1..n : Zeros(n)[i] = 0
BY DEF Zeros, BitString, Bit

\* Concatenated of bits.
LEMMA BitsJoined ==
  ASSUME NEW m \in Nat, NEW n \in Nat, NEW x, BitString(x, m), NEW y, BitString(y, n)
  PROVE  /\ BitString(Then(x, y), m + n)
         /\ \A l \in 1..m : Then(x, y)[l] = x[l]
         /\ \A j \in 1..n : Then(x, y)[m + j] = y[j]
<1> DEFINE B == Bit
<1>1. OfLength(x, m, B) /\ OfLength(y, n, B)
  BY DEF BitString, OfLength
<1> HIDE DEF B
<1>2. Behind(Then(x, y), x, m, y, n, B)
  BY <1>1, Concatenated
<1> QED BY <1>2 DEF Behind, B, BitString, OfLength

(* The characters of a group.                                              *)
Text(q, n) == q \in [1..4 -> 0..64] /\ \A i \in 1..4 : q[i] = 64 <=> n < i - 1

\* p are the 24 bits of a group of n bytes.
Prepared(p, s, n) ==
  /\ BitString(p, 24) /\ Cut(Pieces(p, 6), p, 6, 4)
  /\ \A i \in 1..4 : i <= n + 1 => Quad(s)[i] = Number(Pieces(p, 6)[i])
  /\ \A i \in 1..n, j \in 1..8 : p[8 * (i - 1) + j] = Bits(s[i], 8)[j]

(* Quad of base64.h makes four characters of one, two or three bytes,      *)
(* padded with "=" (64).                                                   *)
LEMMA QuadType ==
  ASSUME NEW n \in 1..3, NEW s, ByteString(s, n)
  PROVE  Text(Quad(s), n) /\ \E p : Prepared(p, s, n)
<1> DEFINE p == Bytes(s) \o Zeros(8 * (3 - n))
<1>1. Len(s) = n
  BY DEF ByteString
<1>2. BitString(Bytes(s), 8 * n)
  BY BytesType
<1>3. BitString(Zeros(8 * (3 - n)), 8 * (3 - n))
  BY ZerosType
<1>4. BitString(p, 24) /\ \A l \in 1..(8 * n) : p[l] = Bytes(s)[l]
  <2> DEFINE a == 8 * n
             z == 8 * (3 - n)
  <2>1. a \in Nat /\ z \in Nat /\ a + z = 24
    OBVIOUS
  <2>2. BitString(Bytes(s), a) /\ BitString(Zeros(z), z)
    BY <1>2, <1>3
  <2> DEFINE x == Bytes(s)
             y == Zeros(z)
  <2> HIDE DEF a, z, x, y
  <2>3. BitString(x, a) /\ BitString(y, z)
    BY <2>2 DEF x, y
  <2>4. BitString(Then(x, y), a + z) /\ \A l \in 1..a : Then(x, y)[l] = x[l]
    BY <2>1, <2>3, BitsJoined
  <2> QED BY <2>1, <2>4 DEF a, z, x, y, Then
<1>5. Quad(s) = [i \in 1..4 |-> IF n < i - 1 THEN 64 ELSE Number(Pieces(p, 6)[i])]
  BY <1>1 DEF Quad
<1> HIDE DEF p
<1>6. Cut(Pieces(p, 6), p, 6, 4)
  <2> DEFINE m == 6
             n_1 == 4
             k == 24
  <2>1. m \in Nat \ {0} /\ n_1 \in Nat /\ k \in Nat /\ k = m * n_1 /\ BitString(p, k)
    BY <1>4
  <2> HIDE DEF m, n_1, k
  <2>2. Cut(Pieces(p, m), p, m, n_1)
    BY <2>1, PiecesOf
  <2> QED BY <2>2 DEF m, n_1
<1>7. \A i \in 1..4 : Number(Pieces(p, 6)[i]) \in 0..63
  BY <1>6, Character DEF Cut
<1>8. Text(Quad(s), n)
  BY <1>5, <1>7 DEF Text
<1>9. \A i \in 1..n, j \in 1..8 : p[8 * (i - 1) + j] = Bits(s[i], 8)[j]
  <2> SUFFICES ASSUME NEW i \in 1..n, NEW j \in 1..8
               PROVE  p[8 * (i - 1) + j] = Bits(s[i], 8)[j]
    OBVIOUS
  <2>1. 8 * (i - 1) + j \in 1..(8 * n)
    OBVIOUS
  <2>2. Bytes(s)[8 * (i - 1) + j] = Bits(s[i], 8)[j]
    <3>1. n \in Nat
      OBVIOUS
    <3> QED BY <3>1, BytesType
  <2> QED BY <1>4, <2>1, <2>2
<1>10. \A i \in 1..4 : i <= n + 1 => Quad(s)[i] = Number(Pieces(p, 6)[i])
  BY <1>5
<1>11. Prepared(p, s, n)
  BY <1>4, <1>6, <1>9, <1>10 DEF Prepared
<1> QED BY <1>8, <1>11

-----------------------------------------------------------------------------
(* base64_encode, group by group.                                          *)

(* A group is told by its characters.                                      *)
LEMMA SameQuad ==
  ASSUME NEW n \in 1..3, NEW s, ByteString(s, n),
         NEW k \in 1..3, NEW r, ByteString(r, k), Quad(s) = Quad(r)
  PROVE  n = k /\ \A i \in 1..n : s[i] = r[i]
<1>1. n = k
  <2>1. Text(Quad(s), n) /\ Text(Quad(s), k)
    BY QuadType
  <2>2. (n < 2 <=> k < 2) /\ (n < 3 <=> k < 3)
    <3>1. 3 \in 1..4 /\ 4 \in 1..4 /\ 3 - 1 = 2 /\ 4 - 1 = 3
      OBVIOUS
    <3>2. (n < 3 - 1 <=> k < 3 - 1) /\ (n < 4 - 1 <=> k < 4 - 1)
      BY <2>1, <3>1 DEF Text
    <3> QED BY <3>1, <3>2
  <2> QED BY <2>2
<1>2. PICK p : Prepared(p, s, n)
  BY QuadType
<1>3. PICK q : Prepared(q, r, k)
  BY QuadType
<1>4. Cut(Pieces(p, 6), p, 6, 4) /\ Cut(Pieces(q, 6), q, 6, 4)
  BY <1>2, <1>3 DEF Prepared
<1>5. ASSUME NEW i \in 1..4, i <= n + 1, NEW j \in 1..6
      PROVE  p[6 * (i - 1) + j] = q[6 * (i - 1) + j]
  <2>1. Number(Pieces(p, 6)[i]) = Number(Pieces(q, 6)[i])
    BY <1>1, <1>2, <1>3, <1>5 DEF Prepared
  <2>2. Pieces(p, 6)[i][j] = Pieces(q, 6)[i][j]
    BY <1>4, <2>1, SameCharacter DEF Cut
  <2> QED BY <1>4, <2>2 DEF Cut
<1>6. ASSUME NEW l \in 1..(8 * n) PROVE p[l] = q[l]
  <2> DEFINE i == ((l - 1) \div 6) + 1
             j == ((l - 1) % 6) + 1
  <2>1. i \in 1..4 /\ i <= n + 1 /\ j \in 1..6 /\ l = 6 * (i - 1) + j
    OBVIOUS
  <2> HIDE DEF i, j
  <2> QED BY <1>5, <2>1
<1>7. ASSUME NEW i \in 1..n PROVE s[i] = r[i]
  <2>1. ASSUME NEW j \in 1..8 PROVE Bits(s[i], 8)[j] = Bits(r[i], 8)[j]
    <3>1. 8 * (i - 1) + j \in 1..(8 * n)
      OBVIOUS
    <3>2. p[8 * (i - 1) + j] = q[8 * (i - 1) + j]
      BY <1>6, <3>1
    <3> QED BY <1>1, <1>2, <1>3, <3>2 DEF Prepared
  <2>2. s[i] \in 0..255 /\ r[i] \in 0..255
    BY <1>1, BytesOf DEF Byte
  <2> QED BY <2>1, <2>2, ByteBits
<1> QED BY <1>1, <1>7

(* base64_encode group by group.                                           *)
GroupSize(n, g) == IF 3 * g < n THEN 3 ELSE n - 3 * (g - 1)
\* The bytes of group g of s.
Group(s, n, g) == SubSeq(s, 3 * g - 2, IF 3 * g < n THEN 3 * g ELSE n)

(* A group has one to three bytes of s, which lie behind the groups before *)
(* it.                                                                     *)
LEMMA Grouped ==
  ASSUME NEW n \in Nat, NEW s, ByteString(s, n), NEW g \in 1..((n + 2) \div 3)
  PROVE  /\ GroupSize(n, g) \in 1..3
         /\ ByteString(Group(s, n, g), GroupSize(n, g))
         /\ \A j \in 1..GroupSize(n, g) :
              3 * (g - 1) + j \in 1..n /\ Group(s, n, g)[j] = s[3 * (g - 1) + j]
<1> DEFINE B == Byte
           a == 3 * (g - 1)
           k == GroupSize(n, g)
<1>1. s \in Seq(B) /\ Len(s) = n
  BY DEF ByteString
<1>2. a \in Nat /\ k \in 1..3 /\ a + k <= n /\ 3 * g - 2 = a + 1
      /\ (IF 3 * g < n THEN 3 * g ELSE n) = a + k
  BY DEF GroupSize
<1>3. Group(s, n, g) = SubSeq(s, a + 1, a + k)
  BY <1>2 DEF Group
<1> HIDE DEF B, a, k
<1>4. /\ SubSeq(s, a + 1, a + k) \in Seq(B) /\ Len(SubSeq(s, a + 1, a + k)) = k
      /\ \A j \in 1..k : SubSeq(s, a + 1, a + k)[j] = s[a + j]
  BY <1>1, <1>2
<1>5. \A j \in 1..k : a + j \in 1..n
  BY <1>2
<1> QED BY <1>2, <1>3, <1>4, <1>5 DEF B, a, k, ByteString

\* e are the characters of n bytes, in N groups.
Encoded(e, s, n, N) ==
  /\ Len(e) = 4 * N
  /\ \A g \in 1..N, i \in 1..4 : e[4 * (g - 1) + i] = Quad(Group(s, n, g))[i]

\* Four characters are a sequence of length 4.
LEMMA FourOf ==
  ASSUME NEW C, NEW f \in [1..4 -> C]
  PROVE  f \in Seq(C) /\ Len(f) = 4
<1>1. f = [i \in 1..4 |-> f[i]] /\ \A i \in 1..4 : f[i] \in C
  OBVIOUS
<1>2. [i \in 1..4 |-> f[i]] \in Seq(C) /\ Len([i \in 1..4 |-> f[i]]) = 4
  BY <1>1
<1> QED BY <1>1, <1>2

(* base64_encode writes four characters for each group of three bytes or   *)
(* fewer.                                                                  *)
LEMMA Base64Type ==
  ASSUME NEW n \in Nat, NEW s, ByteString(s, n), NEW N \in Nat, N = (n + 2) \div 3
  PROVE  Encoded(base64_encode(s), s, n, N)
<1> DEFINE t == [g \in 1..N |-> Quad(Group(s, n, g))]
<1>1. Len(s) = n
  BY DEF ByteString
<1>2. base64_encode(s) = FlattenSeq(t)
  BY <1>1 DEF base64_encode, Group
<1>3. \A g \in 1..N : Text(Quad(Group(s, n, g)), GroupSize(n, g))
  BY Grouped, QuadType
<1>4. CASE N = 0
  <2>1. t = <<>>
    BY <1>4
  <2> HIDE DEF t
  <2>2. Len(base64_encode(s)) = 0
    BY <1>2, <2>1, Empty
  <2> QED BY <1>4, <2>2 DEF Encoded
<1>5. CASE N # 0
  <2> DEFINE m == 4
             C == 0..64
  <2>1. \A g \in 1..N : Quad(Group(s, n, g)) \in [1..4 -> C]
    BY <1>3 DEF Text
  <2> HIDE DEF C
  <2>2. \A g \in 1..N : t[g] \in Seq(C) /\ Len(t[g]) = 4
    BY <2>1, FourOf
  <2>3. Uniform(t, N, m, C) /\ m \in Nat /\ N \in Nat \ {0}
    BY <1>5, <2>2 DEF Uniform
  <2> HIDE DEF t, m
  <2>4. Row(FlattenSeq(t), t, N, m, C)
    BY <2>3, Flattened
  <2>5. Len(base64_encode(s)) = 4 * N
    BY <1>2, <2>4 DEF m, Row
  <2>6. \A g \in 1..N, i \in 1..4 : base64_encode(s)[4 * (g - 1) + i] = t[g][i]
    BY <1>2, <2>4 DEF m, Row
  <2> QED BY <2>5, <2>6 DEF t, Encoded
<1> QED BY <1>4, <1>5

(* Different texts have different base64.                                  *)
LEMMA Base64Injective ==
  ASSUME NEW n \in Nat, NEW s, ByteString(s, n),
         NEW k \in Nat, NEW r, ByteString(r, k),
         base64_encode(s) = base64_encode(r)
  PROVE  s = r
<1> DEFINE N == (n + 2) \div 3
<1>1. N = (k + 2) \div 3 /\ N \in Nat
  <2>1. Len(base64_encode(s)) = 4 * N /\ Len(base64_encode(r)) = 4 * ((k + 2) \div 3)
    <3>1. N \in Nat /\ (k + 2) \div 3 \in Nat
      OBVIOUS
    <3> QED BY <3>1, Base64Type DEF Encoded
  <2> QED BY <2>1
<1>2. ASSUME NEW g \in 1..N
      PROVE  /\ GroupSize(n, g) = GroupSize(k, g)
             /\ \A j \in 1..GroupSize(n, g) : Group(s, n, g)[j] = Group(r, k, g)[j]
  <2>1. g \in 1..((n + 2) \div 3) /\ g \in 1..((k + 2) \div 3)
    BY <1>1
  <2>2. \A i \in 1..4 : Quad(Group(s, n, g))[i] = Quad(Group(r, k, g))[i]
    <3>1. Encoded(base64_encode(s), s, n, N) /\ Encoded(base64_encode(r), r, k, N)
      BY <1>1, Base64Type
    <3> QED BY <3>1 DEF Encoded
  <2>3. /\ GroupSize(n, g) \in 1..3 /\ ByteString(Group(s, n, g), GroupSize(n, g))
        /\ GroupSize(k, g) \in 1..3 /\ ByteString(Group(r, k, g), GroupSize(k, g))
    BY <2>1, Grouped
  <2>4. Quad(Group(s, n, g)) = Quad(Group(r, k, g))
    <3>1. Text(Quad(Group(s, n, g)), GroupSize(n, g))
            /\ Text(Quad(Group(r, k, g)), GroupSize(k, g))
      BY <2>3, QuadType
    <3> QED BY <2>2, <3>1 DEF Text
  <2> QED BY <2>3, <2>4, SameQuad
<1>3. n = k
  <2>1. CASE N = 0
    BY <1>1, <2>1
  <2>2. CASE N # 0
    <3>1. GroupSize(n, N) = GroupSize(k, N)
      BY <1>1, <1>2, <2>2
    <3>2. ~(3 * N < n) /\ ~(3 * N < k)
      BY <1>1
    <3> QED BY <3>1, <3>2 DEF GroupSize
  <2> QED BY <2>1, <2>2
<1>4. ASSUME NEW i \in 1..n PROVE s[i] = r[i]
  <2> DEFINE g == ((i - 1) \div 3) + 1
             j == ((i - 1) % 3) + 1
  <2>1. g \in 1..N /\ j \in 1..GroupSize(n, g) /\ i = 3 * (g - 1) + j
    BY DEF GroupSize
  <2> HIDE DEF g, j
  <2>2. Group(s, n, g)[j] = s[i]
    BY <2>1, Grouped
  <2>3. Group(r, k, g)[j] = r[i]
    BY <1>3, <2>1, Grouped
  <2> QED BY <1>2, <2>1, <2>2, <2>3
<1> QED BY <1>3, <1>4 DEF ByteString

-----------------------------------------------------------------------------
(* Words: the operators of sha1.h stay within 32 bits.                     *)

\* Kept folded, as Then is.
Slice(x, a, b) == SubSeq(x, a + 1, b)

\* A slice of bits has the bits it is cut from.
LEMMA BitsSlice ==
  ASSUME NEW n \in Nat, NEW x, BitString(x, n), NEW a \in Nat, NEW b \in Nat,
         NEW k \in Nat, b = a + k, b <= n
  PROVE  BitString(Slice(x, a, b), k) /\ \A j \in 1..k : Slice(x, a, b)[j] = x[a + j]
<1> DEFINE B == Bit
<1>1. x \in Seq(B) /\ Len(x) = n
  BY DEF BitString
<1> HIDE DEF B
<1>2. /\ SubSeq(x, a + 1, b) \in Seq(B) /\ Len(SubSeq(x, a + 1, b)) = k
      /\ \A j \in 1..k : SubSeq(x, a + 1, b)[j] = x[a + j]
  <2>1. CASE k = 0
    BY <1>1, <2>1
  <2>2. CASE k # 0
    BY <1>1, <2>2
  <2> QED BY <2>1, <2>2
<1> QED BY <1>2 DEF B, BitString, Slice

\* Bits without the first.
LEMMA BitsTail ==
  ASSUME NEW n \in Nat, NEW x, BitString(x, n + 1)
  PROVE  BitString(Tail(x), n)
<1> DEFINE B == Bit
<1>1. x \in Seq(B) /\ Len(x) = n + 1
  BY DEF BitString
<1> HIDE DEF B
<1>2. Tail(x) \in Seq(B) /\ Len(Tail(x)) = n
  BY <1>1
<1> QED BY <1>2 DEF B, BitString

\* Words of 32 bits, and what the operators of C on them are.
Word32 == {w \in Seq(Bit) : BitString(w, 32)}

\* The set of words and the predicate on strings of bits agree.
LEMMA IsWord == \A w : w \in Word32 <=> BitString(w, 32)
BY DEF Word32, BitString

\* The members of a word are bits.
LEMMA WordBits ==
  ASSUME NEW x \in Word32
  PROVE  DOMAIN x = 1..32 /\ \A i \in 1..32 : x[i] \in 0..1
<1> DEFINE n == 32
<1>1. n \in Nat /\ BitString(x, n)
  BY IsWord
<1>2. DOMAIN x = 1..32
  BY <1>1 DEF BitString
<1> HIDE DEF n
<1>3. \A i \in 1..n : x[i] \in 0..1
  BY <1>1, BitsOf
<1> QED BY <1>2, <1>3 DEF n

\* Any 32 bits are a word.
LEMMA BitsWord ==
  ASSUME NEW f, \A i \in 1..32 : f[i] \in 0..1
  PROVE  [i \in 1..32 |-> f[i]] \in Word32
<1>1. \A i \in 1..32 : f[i] \in Bit
  BY DEF Bit
<1>2. [i \in 1..32 |-> f[i]] \in Seq(Bit)
  BY <1>1
<1> QED BY <1>2 DEF Word32, BitString

\* ^ on words.
LEMMA XorWord ==
  ASSUME NEW x \in Word32, NEW y \in Word32
  PROVE  Xor(x, y) \in Word32 /\ \A i \in 1..32 : Xor(x, y)[i] = (x[i] + y[i]) % 2
<1> DEFINE f == [i \in 1..32 |-> (x[i] + y[i]) % 2]
<1>1. \A i \in 1..32 : f[i] \in 0..1
  <2> SUFFICES ASSUME NEW i \in 1..32 PROVE (x[i] + y[i]) % 2 \in 0..1
    OBVIOUS
  <2> QED BY WordBits
<1>2. f \in Word32
  <2>1. f = [i \in 1..32 |-> f[i]]
    OBVIOUS
  <2> HIDE DEF f
  <2> QED BY <1>1, <2>1, BitsWord
<1> QED BY <1>2 DEF Xor

\* & on words.
LEMMA AndWord ==
  ASSUME NEW x \in Word32, NEW y \in Word32
  PROVE  And(x, y) \in Word32 /\ \A i \in 1..32 : And(x, y)[i] = x[i] * y[i]
<1> DEFINE f == [i \in 1..32 |-> x[i] * y[i]]
<1>1. \A i \in 1..32 : f[i] \in 0..1
  <2> SUFFICES ASSUME NEW i \in 1..32 PROVE x[i] * y[i] \in 0..1
    OBVIOUS
  <2>1. (x[i] = 0 \/ x[i] = 1) /\ (y[i] = 0 \/ y[i] = 1)
    BY WordBits
  <2> QED BY <2>1
<1>2. f \in Word32
  <2>1. f = [i \in 1..32 |-> f[i]]
    OBVIOUS
  <2> HIDE DEF f
  <2> QED BY <1>1, <2>1, BitsWord
<1> QED BY <1>2 DEF And

\* | on words.
LEMMA OrWord ==
  ASSUME NEW x \in Word32, NEW y \in Word32
  PROVE  Or(x, y) \in Word32
<1> DEFINE f == [i \in 1..32 |-> IF x[i] + y[i] = 0 THEN 0 ELSE 1]
<1>1. f \in Word32
  <2>1. f = [i \in 1..32 |-> f[i]] /\ \A i \in 1..32 : f[i] \in 0..1
    OBVIOUS
  <2> HIDE DEF f
  <2> QED BY <2>1, BitsWord
<1> QED BY <1>1 DEF Or

\* ~ on words.
LEMMA NotWord ==
  ASSUME NEW x \in Word32
  PROVE  Not(x) \in Word32 /\ \A i \in 1..32 : Not(x)[i] = 1 - x[i]
<1> DEFINE f == [i \in 1..32 |-> 1 - x[i]]
<1>1. \A i \in 1..32 : f[i] \in 0..1
  <2> SUFFICES ASSUME NEW i \in 1..32 PROVE 1 - x[i] \in 0..1
    OBVIOUS
  <2> QED BY WordBits
<1>2. f \in Word32
  <2>1. f = [i \in 1..32 |-> f[i]]
    OBVIOUS
  <2> HIDE DEF f
  <2> QED BY <1>1, <2>1, BitsWord
<1> QED BY <1>2 DEF Not

\* SHA1CircularShift of sha1.h:25 is the rotation of the standard.
LEMMA ShiftWord ==
  ASSUME NEW x \in Word32, NEW n \in 0..32
  PROVE  SHA1CircularShift(n, x) \in Word32 /\ SHA1CircularShift(n, x) = ROTL(n, x)
<1> DEFINE z == 0
           m == 32
           k == 32 - n
           a == Slice(x, n, m)
           b == Slice(x, z, n)
<1>1. BitString(x, m) /\ m \in Nat /\ z \in Nat /\ k \in Nat /\ n \in Nat
        /\ m = n + k /\ n = z + n /\ n <= m /\ m <= m
  BY IsWord
<1> HIDE DEF z, m, k
<1>2. BitString(a, k)
  BY <1>1, BitsSlice
<1>3. BitString(b, n)
  BY <1>1, BitsSlice
<1> HIDE DEF a, b
<1>4. BitString(Then(a, b), k + n)
  BY <1>1, <1>2, <1>3, BitsJoined
<1>5. k + n = 32
  BY DEF k
<1>6. Then(a, b) = SHA1CircularShift(n, x)
  BY DEF a, b, Then, Slice, SHA1CircularShift, z, m
<1> QED BY <1>4, <1>5, <1>6, IsWord DEF SHA1CircularShift, ROTL

\* A word written as two halves.
LEMMA HalvesWord ==
  ASSUME NEW hi \in Nat, NEW lo \in Nat
  PROVE  Word(hi, lo) \in Word32
<1> DEFINE n == 16
           a == Bits(hi, 16)
           b == Bits(lo, 16)
<1>1. n \in Nat /\ BitString(a, n) /\ BitString(b, n)
  BY BitsType
<1> HIDE DEF n, a, b
<1>2. BitString(Then(a, b), n + n)
  BY <1>1, BitsJoined
<1>3. n + n = 32 /\ Then(a, b) = Word(hi, lo)
  BY DEF n, a, b, Then, Word
<1> QED BY <1>2, <1>3, IsWord

(* The sum of two words is a word.                                         *)
LEMMA PlusWord ==
  ASSUME NEW x \in Word32, NEW y \in Word32
  PROVE  Plus(x, y) \in Word32
<1> DEFINE next(i, s) == LET n == x[i] + y[i] + Head(s)
                         IN  <<n \div 2, n % 2>> \o Tail(s)
           Step(f) == [i \in 1..33 |-> IF i = 33 THEN <<0>> ELSE next(i, f[i + 1])]
           F == CHOOSE h : h = Step(h)
           S == {s \in Seq(Bit) : Len(s) \in Nat \ {0}}
<1>1. Plus(x, y) = Tail(F[1])
  BY DEF Plus
<1>2. ASSUME NEW i \in 1..32, NEW k \in Nat, NEW s, BitString(s, k + 1)
      PROVE  BitString(next(i, s), (k + 1) + 1)
  <2> DEFINE n == x[i] + y[i] + Head(s)
             p == <<n \div 2, n % 2>>
             t == Tail(s)
             two == 2
  <2>1. BitString(t, k)
    BY <1>2, BitsTail
  <2>2. n \in 0..3
    <3>1. x[i] \in 0..1 /\ y[i] \in 0..1
      BY WordBits
    <3>2. Head(s) \in 0..1
      BY <1>2 DEF BitString, Bit
    <3> QED BY <3>1, <3>2
  <2>3. n \div 2 \in Bit /\ n % 2 \in Bit
    BY <2>2 DEF Bit
  <2> HIDE DEF n, t
  <2>4. two \in Nat /\ BitString(p, two)
    BY <2>3 DEF BitString
  <2> HIDE DEF p, two
  <2>5. BitString(Then(p, t), two + k)
    BY <2>1, <2>4, BitsJoined
  <2>6. two + k = (k + 1) + 1 /\ Then(p, t) = next(i, s)
    BY DEF two, Then, p, t, n
  <2> QED BY <2>5, <2>6
<1>3. BitString(<<0>>, 1)
  BY DEF Bit, BitString
<1> HIDE DEF next
<1>3a. ASSUME NEW i \in 1..32, NEW s \in S PROVE next(i, s) \in S
  <2>1. PICK k \in Nat : BitString(s, k + 1)
    <3>1. Len(s) - 1 \in Nat /\ Len(s) = (Len(s) - 1) + 1
      OBVIOUS
    <3> QED BY <3>1 DEF BitString
  <2>2. BitString(next(i, s), (k + 1) + 1)
    BY <1>2, <2>1
  <2> QED BY <2>2 DEF BitString
<1>3b. <<0>> \in S
  BY <1>3 DEF BitString
<1> DEFINE up == [k \in 0..32 |-> [s \in S |-> IF k = 0 THEN <<0>> ELSE next(33 - k, s)]]
<1>4. up \in Maps(0..32, Maps(S, S))
  <2>1. \A k \in 0..32 : k # 0 => 33 - k \in 1..32
    OBVIOUS
  <2> HIDE DEF next, S
  <2> QED BY <1>3a, <1>3b, <2>1 DEF Maps
<1>5. PICK g \in Maps(0..32, S) :
        g[0] = <<0>> /\ \A k \in 0..32 : k # 0 => g[k] = up[k][g[k - 1]]
  <2> DEFINE v == <<0>>
             b == 32
  <2>1. v \in S /\ b \in Nat /\ up \in Maps(0..b, Maps(S, S))
    BY <1>3b, <1>4
  <2> HIDE DEF up, S, v, b
  <2>2. \E f \in Maps(0..b, S) : f[0] = v /\ \A i \in 0..b : i # 0 => f[i] = up[i][f[i - 1]]
    BY <2>1, RecursionFrom0
  <2> QED BY <2>2 DEF v, b
<1> HIDE DEF next, S
<1>6. \A k \in 0..32 : g[k] \in S /\ (k # 0 => g[k] = next(33 - k, g[k - 1]))
  <2> SUFFICES ASSUME NEW k \in 0..32
               PROVE  g[k] \in S /\ (k # 0 => g[k] = next(33 - k, g[k - 1]))
    OBVIOUS
  <2>1. g[k] \in S /\ (k # 0 => g[k - 1] \in S)
    BY <1>5 DEF Maps
  <2> QED BY <1>5, <2>1
<1>7. F = Step(F)
  <2> DEFINE f == [i \in 1..33 |-> g[33 - i]]
  <2>1. f = Step(f)
    <3>1. ASSUME NEW i \in 1..33
          PROVE  g[33 - i] = IF i = 33 THEN <<0>> ELSE next(i, f[i + 1])
      <4>1. CASE i = 33
        BY <1>5, <4>1
      <4>2. CASE i # 33
        <5>1. 33 - i \in 0..32 /\ 33 - i # 0 /\ 33 - (33 - i) = i /\ i + 1 \in 1..33
              /\ 33 - (i + 1) = (33 - i) - 1
          BY <4>2
        <5>2. g[33 - i] = next(i, g[(33 - i) - 1])
          BY <1>6, <5>1
        <5> QED BY <4>2, <5>1, <5>2
      <4> QED BY <4>1, <4>2
    <3> QED BY <3>1
  <2> HIDE DEF Step, f
  <2> QED BY <2>1
<1>8. \A i \in 1..33 : F[i] = IF i = 33 THEN <<0>> ELSE next(i, F[i + 1])
  BY <1>7
<1> DEFINE P(k) == BitString(F[33 - k], k + 1)
           T == {k \in 0..32 : P(k)}
<1> HIDE DEF F
<1>9. 0 \in T
  BY <1>3, <1>8
<1>10. ASSUME NEW k \in 0..32, k # 0, k - 1 \in T PROVE k \in T
  <2> DEFINE l == k - 1
  <2>1. 33 - k \in 1..32 /\ 33 - k # 33 /\ (33 - k) + 1 = 33 - l /\ l \in Nat
        /\ (l + 1) + 1 = k + 1
    BY <1>10
  <2>2. F[33 - k] = next(33 - k, F[33 - l])
    BY <1>8, <2>1
  <2>3. BitString(F[33 - l], l + 1)
    BY <1>10
  <2> HIDE DEF l
  <2>4. BitString(next(33 - k, F[33 - l]), (l + 1) + 1)
    BY <1>2, <2>1, <2>3
  <2> QED BY <2>1, <2>2, <2>4
<1>11. 32 \in T
  <2> HIDE DEF T
  <2>1. 0..32 \subseteq T
    BY <1>9, <1>10, Induct
  <2> QED BY <2>1
<1>12. BitString(F[1], 32 + 1)
  BY <1>11
<1>13. BitString(Tail(F[1]), 32)
  <2> DEFINE n == 32
  <2>1. n \in Nat /\ BitString(F[1], n + 1)
    BY <1>12
  <2> HIDE DEF n
  <2>2. BitString(Tail(F[1]), n)
    BY <2>1, BitsTail
  <2> QED BY <2>2 DEF n
<1> QED BY <1>1, <1>13, IsWord

-----------------------------------------------------------------------------
(* The functions and constants of the rounds.                              *)

\* Words with the same bits are equal.
LEMMA WordsEqual ==
  ASSUME NEW x \in Word32, NEW y \in Word32, \A i \in 1..32 : x[i] = y[i]
  PROVE  x = y
<1> DEFINE B == Bit
           n == 32
<1>1. x \in Seq(B) /\ Len(x) = n /\ y \in Seq(B) /\ Len(y) = n
  BY IsWord DEF BitString
<1>2. \A i \in 1..n : x[i] = y[i]
  OBVIOUS
<1> HIDE DEF B, n
<1> QED BY <1>1, <1>2

\* | bit by bit.
LEMMA OrBits ==
  ASSUME NEW x \in Word32, NEW y \in Word32
  PROVE  \A i \in 1..32 : Or(x, y)[i] = IF x[i] + y[i] = 0 THEN 0 ELSE 1
BY DEF Or

(* One bit of the functions of the rounds.                                 *)
LEMMA ChBit ==
  ASSUME NEW b \in 0..1, NEW c \in 0..1, NEW d \in 0..1
  PROVE  (IF b * c + (1 - b) * d = 0 THEN 0 ELSE 1) = (b * c + (1 - b) * d) % 2
<1>1. CASE b = 0
  BY <1>1
<1>2. CASE b = 1
  BY <1>2
<1> QED BY <1>1, <1>2

\* The same of the three products of the majority.
LEMMA MajBit ==
  ASSUME NEW b \in 0..1, NEW c \in 0..1, NEW d \in 0..1
  PROVE  (IF b * c + (IF b * d + c * d = 0 THEN 0 ELSE 1) = 0 THEN 0 ELSE 1)
           = (b * c + ((b * d + c * d) % 2)) % 2
<1>1. CASE b = 0
  <2>1. CASE c = 0
    BY <1>1, <2>1
  <2>2. CASE c = 1
    BY <1>1, <2>2
  <2> QED BY <2>1, <2>2
<1>2. CASE b = 1
  <2>1. CASE c = 0
    BY <1>2, <2>1
  <2>2. CASE c = 1
    BY <1>2, <2>2
  <2> QED BY <2>1, <2>2
<1> QED BY <1>1, <1>2

(* The function of the first 20 rounds (sha1.h:109) is the choice of the   *)
(* standard.                                                               *)
LEMMA ChWord ==
  ASSUME NEW b \in Word32, NEW c \in Word32, NEW d \in Word32
  PROVE  Or(And(b, c), And(Not(b), d)) = Ch(b, c, d) /\ Ch(b, c, d) \in Word32
<1> DEFINE p == And(b, c)
           n == Not(b)
           q == And(n, d)
<1>1. p \in Word32 /\ n \in Word32 /\ \A i \in 1..32 : p[i] = b[i] * c[i] /\ n[i] = 1 - b[i]
  BY AndWord, NotWord
<1>2. q \in Word32 /\ \A i \in 1..32 : q[i] = n[i] * d[i]
  <2> HIDE DEF p, n
  <2> QED BY <1>1, AndWord
<1> HIDE DEF p, n, q
<1>3. Or(p, q) \in Word32 /\ Xor(p, q) \in Word32
  BY <1>1, <1>2, OrWord, XorWord
<1>4. \A i \in 1..32 : Or(p, q)[i] = Xor(p, q)[i]
  <2> SUFFICES ASSUME NEW i \in 1..32 PROVE Or(p, q)[i] = Xor(p, q)[i]
    OBVIOUS
  <2>1. p[i] = b[i] * c[i] /\ q[i] = (1 - b[i]) * d[i]
    BY <1>1, <1>2
  <2>2. Or(p, q)[i] = (IF p[i] + q[i] = 0 THEN 0 ELSE 1) /\ Xor(p, q)[i] = (p[i] + q[i]) % 2
    BY <1>1, <1>2, OrBits, XorWord
  <2>3. b[i] \in 0..1 /\ c[i] \in 0..1 /\ d[i] \in 0..1
    BY WordBits
  <2> QED BY <2>1, <2>2, <2>3, ChBit
<1>5. Or(p, q) = Xor(p, q)
  BY <1>3, <1>4, WordsEqual
<1> QED BY <1>3, <1>5 DEF p, n, q, Ch

(* The function of rounds 40 to 59 (sha1.h:127) is the majority of the     *)
(* standard.                                                               *)
LEMMA MajWord ==
  ASSUME NEW b \in Word32, NEW c \in Word32, NEW d \in Word32
  PROVE  Or(And(b, c), Or(And(b, d), And(c, d))) = Maj(b, c, d) /\ Maj(b, c, d) \in Word32
<1> DEFINE p == And(b, c)
           q == And(b, d)
           r == And(c, d)
           o == Or(q, r)
           x == Xor(q, r)
<1>1. /\ p \in Word32 /\ q \in Word32 /\ r \in Word32
      /\ \A i \in 1..32 : p[i] = b[i] * c[i] /\ q[i] = b[i] * d[i] /\ r[i] = c[i] * d[i]
  BY AndWord
<1> HIDE DEF p, q, r
<1>2. o \in Word32 /\ x \in Word32
  BY <1>1, OrWord, XorWord
<1>3. \A i \in 1..32 : o[i] = (IF q[i] + r[i] = 0 THEN 0 ELSE 1) /\ x[i] = (q[i] + r[i]) % 2
  BY <1>1, OrBits, XorWord
<1> HIDE DEF o, x
<1>4. Or(p, o) \in Word32 /\ Xor(p, x) \in Word32
  BY <1>1, <1>2, OrWord, XorWord
<1>5. \A i \in 1..32 : Or(p, o)[i] = Xor(p, x)[i]
  <2> SUFFICES ASSUME NEW i \in 1..32 PROVE Or(p, o)[i] = Xor(p, x)[i]
    OBVIOUS
  <2>1. p[i] = b[i] * c[i] /\ q[i] = b[i] * d[i] /\ r[i] = c[i] * d[i]
    BY <1>1
  <2>2. Or(p, o)[i] = (IF p[i] + o[i] = 0 THEN 0 ELSE 1) /\ Xor(p, x)[i] = (p[i] + x[i]) % 2
    BY <1>1, <1>2, OrBits, XorWord
  <2>3. b[i] \in 0..1 /\ c[i] \in 0..1 /\ d[i] \in 0..1
    BY WordBits
  <2>4. o[i] = (IF b[i] * d[i] + c[i] * d[i] = 0 THEN 0 ELSE 1)
          /\ x[i] = (b[i] * d[i] + c[i] * d[i]) % 2
    BY <1>3, <2>1
  <2> QED BY <2>1, <2>2, <2>3, <2>4, MajBit
<1>6. Or(p, o) = Xor(p, x)
  BY <1>4, <1>5, WordsEqual
<1> QED BY <1>4, <1>6 DEF p, q, r, o, x, Maj

(* The functions and the constants of the rounds are those of the standard. *)
LEMMA MixStandard ==
  ASSUME NEW t \in 0..79, NEW b \in Word32, NEW c \in Word32, NEW d \in Word32
  PROVE  /\ Mix(t, b, c, d) = RoundFunction(t, b, c, d)
         /\ RoundFunction(t, b, c, d) \in Word32
<1>1. CASE t < 20
  BY <1>1, ChWord DEF Mix, RoundFunction
<1>2. CASE t \in 40..59
  <2>1. ~(t < 20) /\ 40 <= t /\ t < 60
    BY <1>2
  <2>2. Mix(t, b, c, d) = Or(And(b, c), Or(And(b, d), And(c, d)))
    BY <1>2, <2>1 DEF Mix
  <2>3. RoundFunction(t, b, c, d) = Maj(b, c, d)
    BY <2>1 DEF RoundFunction
  <2> QED BY <2>2, <2>3, MajWord
<1>3. CASE ~(t < 20) /\ t \notin 40..59
  <2>1. Xor(b, Xor(c, d)) \in Word32
    BY XorWord
  <2>2. Mix(t, b, c, d) = Xor(b, Xor(c, d))
    BY <1>3 DEF Mix
  <2> QED BY <1>3, <2>1, <2>2 DEF RoundFunction, Parity
<1> QED BY <1>1, <1>2, <1>3

\* The four constants of sha1.h:87 are those of the standard, and words.
LEMMA ConstantStandard ==
  ASSUME NEW t \in 0..79
  PROVE  K[(t \div 20) + 1] = RoundConstant(t) /\ RoundConstant(t) \in Word32
<1>1. t \div 20 = IF t < 20 THEN 0 ELSE IF t < 40 THEN 1 ELSE IF t < 60 THEN 2 ELSE 3
  OBVIOUS
<1>2. K[(t \div 20) + 1] = RoundConstant(t)
  BY <1>1 DEF K, RoundConstant
<1>3. RoundConstant(t) \in Word32
  BY HalvesWord DEF RoundConstant
<1> QED BY <1>2, <1>3

-----------------------------------------------------------------------------
(* The padding.                                                            *)

\* Strings of bits with the same bits are equal.
LEMMA BitsEqual ==
  ASSUME NEW n \in Nat, NEW x, BitString(x, n), NEW y, BitString(y, n),
         \A i \in 1..n : x[i] = y[i]
  PROVE  x = y
<1> DEFINE B == Bit
<1>1. x \in Seq(B) /\ Len(x) = n /\ y \in Seq(B) /\ Len(y) = n
  BY DEF BitString
<1> HIDE DEF B
<1> QED BY <1>1

\* Concatenation is associative.
LEMMA Associative ==
  ASSUME NEW k \in Nat, NEW x, BitString(x, k), NEW m \in Nat, NEW y, BitString(y, m),
         NEW n \in Nat, NEW z, BitString(z, n)
  PROVE  Then(Then(x, y), z) = Then(x, Then(y, z))
<1> DEFINE B == Bit
<1>1. x \in Seq(B) /\ y \in Seq(B) /\ z \in Seq(B)
  BY DEF BitString
<1> HIDE DEF B
<1>2. (x \o y) \o z = x \o (y \o z)
  BY <1>1
<1> QED BY <1>2 DEF Then

\* The bytes of zeros SHA1PadMessage writes up to the length.
Gap(n) == IF n % 64 > 55 THEN 119 - (n % 64) ELSE 55 - (n % 64)

(* The byte 0x80 and zeros are a bit 1 and zeros.                          *)
LEMMA OneAndZeros ==
  ASSUME NEW z \in Nat
  PROVE  /\ Then(Bits(128, 8), Zeros(8 * z)) = Then(<<1>>, Zeros(8 * z + 7))
         /\ BitString(Bits(128, 8), 8) /\ BitString(Zeros(8 * z), 8 * z)
         /\ BitString(<<1>>, 1) /\ BitString(Zeros(8 * z + 7), 8 * z + 7)
<1> DEFINE a == Bits(128, 8)
           b == Zeros(8 * z)
           c == <<1>>
           d == Zeros(8 * z + 7)
           k == 8 * z
           e == 8
           o == 1
           l == 8 * z + 7
<1>1. k \in Nat /\ e \in Nat /\ o \in Nat /\ l \in Nat /\ e + k = l + 1 /\ o + l = l + 1
  OBVIOUS
<1>2. BitString(a, e)
  BY BitsType
<1>3. BitString(c, o) /\ c[1] = 1
  BY DEF BitString, Bit
<1>4. BitString(b, k) /\ \A i \in 1..k : b[i] = 0
  BY ZerosType
<1>5. BitString(d, l) /\ \A i \in 1..l : d[i] = 0
  BY ZerosType
<1>6. \A i \in 1..8 : a[i] = IF i = 1 THEN 1 ELSE 0
  <2>1. /\ 2^(8 - 1) = 128 /\ 2^(8 - 2) = 64 /\ 2^(8 - 3) = 32 /\ 2^(8 - 4) = 16
        /\ 2^(8 - 5) = 8 /\ 2^(8 - 6) = 4 /\ 2^(8 - 7) = 2 /\ 2^(8 - 8) = 1
    OBVIOUS
  <2>2. \A i \in 1..8 : a[i] = (128 \div 2^(8 - i)) % 2
    BY DEF Bits
  <2>3. \A i \in 1..8 : i = 1 \/ i = 2 \/ i = 3 \/ i = 4 \/ i = 5 \/ i = 6 \/ i = 7 \/ i = 8
    OBVIOUS
  <2> HIDE DEF a
  <2>4. a[1] = 1 /\ a[2] = 0 /\ a[3] = 0 /\ a[4] = 0 /\ a[5] = 0 /\ a[6] = 0
          /\ a[7] = 0 /\ a[8] = 0
    BY <2>1, <2>2
  <2> QED BY <2>3, <2>4
<1> HIDE DEF a, b, c, d, k, l, e, o
<1>7. BitString(Then(a, b), e + k) /\ (\A i \in 1..e : Then(a, b)[i] = a[i])
      /\ \A i \in 1..k : Then(a, b)[e + i] = b[i]
  BY <1>1, <1>2, <1>4, BitsJoined
<1>8. BitString(Then(c, d), o + l) /\ (\A i \in 1..o : Then(c, d)[i] = c[i])
      /\ \A i \in 1..l : Then(c, d)[o + i] = d[i]
  BY <1>1, <1>3, <1>5, BitsJoined
<1>9. \A i \in 1..(l + 1) : Then(a, b)[i] = IF i = 1 THEN 1 ELSE 0
  <2> SUFFICES ASSUME NEW i \in 1..(l + 1)
               PROVE  Then(a, b)[i] = IF i = 1 THEN 1 ELSE 0
    OBVIOUS
  <2>1. CASE i <= e
    BY <1>6, <1>7, <2>1 DEF e
  <2>2. CASE i > e
    <3>1. i - e \in 1..k /\ e + (i - e) = i /\ i # 1
      BY <1>1, <2>2 DEF e
    <3> QED BY <1>4, <1>7, <3>1
  <2> QED BY <1>1, <2>1, <2>2
<1>10. \A i \in 1..(l + 1) : Then(c, d)[i] = IF i = 1 THEN 1 ELSE 0
  <2> SUFFICES ASSUME NEW i \in 1..(l + 1)
               PROVE  Then(c, d)[i] = IF i = 1 THEN 1 ELSE 0
    OBVIOUS
  <2>1. CASE i = 1
    BY <1>3, <1>8, <2>1 DEF o
  <2>2. CASE i # 1
    <3>1. i - 1 \in 1..l /\ o + (i - 1) = i
      BY <1>1, <2>2 DEF o
    <3> QED BY <1>5, <1>8, <3>1, <2>2
  <2> QED BY <2>1, <2>2
<1>11. Then(a, b) = Then(c, d)
  <2> DEFINE N == l + 1
  <2>1. N \in Nat /\ BitString(Then(a, b), N) /\ BitString(Then(c, d), N)
        /\ \A i \in 1..N : Then(a, b)[i] = Then(c, d)[i]
    BY <1>1, <1>7, <1>8, <1>9, <1>10
  <2> HIDE DEF N
  <2> QED BY <2>1, BitsEqual
<1> QED BY <1>2, <1>3, <1>4, <1>5, <1>11 DEF a, b, c, d, k, l, e, o

(* SHA1PadMessage pads as the standard does, a whole number of blocks.     *)
LEMMA PadStandard ==
  ASSUME NEW n \in Nat, n < 8192, NEW s, ByteString(s, n)
  PROVE  /\ SHA1PadMessage(s) = Padded(s)
         /\ \E N \in Nat \ {0} : BitString(Padded(s), 512 * N)
<1> DEFINE z == Gap(n)
           x == Bytes(s)
           a == Bits(128, 8)
           b == Zeros(8 * z)
           c == <<1>>
           d == Zeros(8 * z + 7)
           y == Zeros(48)
           l == Bits(8 * n, 16)
<1>1. Len(s) = n
  BY DEF ByteString
<1>2. z \in Nat /\ (447 - 8 * n) % 512 = 8 * z + 7
  BY DEF Gap
<1>3. SHA1PadMessage(s) = Then(Then(Then(Then(x, a), b), y), l)
  BY <1>1 DEF SHA1PadMessage, Pad, Then, Gap
<1>4. Padded(s) = Then(Then(Then(Then(x, c), d), y), l)
  <2>1. Padded(s) = x \o c \o Zeros((447 - 8 * n) % 512) \o y \o l
    BY <1>1 DEF Padded
  <2>2. Zeros((447 - 8 * n) % 512) = d
    BY <1>2
  <2> HIDE DEF x, c, d, y, l
  <2>3. Padded(s) = x \o c \o d \o y \o l
    <3>1. x \o c \o Zeros((447 - 8 * n) % 512) \o y \o l = x \o c \o d \o y \o l
      BY <2>2
    <3>2. Padded(s) = x \o c \o Zeros((447 - 8 * n) % 512) \o y \o l
      BY <2>1 DEF x, y, c, l
    <3> QED BY <3>1, <3>2
  <2> QED BY <2>3 DEF Then
<1>5. BitString(x, 8 * n)
  BY BytesType
<1>6. Then(a, b) = Then(c, d) /\ BitString(a, 8) /\ BitString(b, 8 * z)
      /\ BitString(c, 1) /\ BitString(d, 8 * z + 7)
  BY <1>2, OneAndZeros
<1>7. BitString(y, 48) /\ BitString(l, 16)
  BY ZerosType, BitsType
<1> DEFINE e == 8
           k == 8 * n
           m == 8 * z
           o == 1
           p == 8 * z + 7
           u == 48
           w == 16
<1>8. e \in Nat /\ k \in Nat /\ m \in Nat /\ o \in Nat /\ p \in Nat /\ u \in Nat
        /\ w \in Nat
  BY <1>2
<1>9. BitString(x, k) /\ BitString(a, e) /\ BitString(b, m) /\ BitString(c, o)
      /\ BitString(d, p) /\ BitString(y, u) /\ BitString(l, w)
  BY <1>5, <1>6, <1>7
<1>10. \E N \in Nat \ {0} : (((k + o) + p) + u) + w = 512 * N
  <2> DEFINE N == ((n + 8) \div 64) + 1
  <2>1. N \in Nat \ {0} /\ 8 * n + 8 * z + 72 = 512 * N
    BY DEF Gap
  <2> HIDE DEF N
  <2>2. (((k + o) + p) + u) + w = 512 * N
    BY <2>1, <1>2
  <2> QED BY <2>1, <2>2
<1> HIDE DEF z, x, a, b, c, d, y, l, e, k, m, o, p, u, w
<1>11. Then(Then(x, a), b) = Then(x, Then(a, b))
         /\ Then(Then(x, c), d) = Then(x, Then(c, d))
  BY <1>8, <1>9, Associative
<1>12. SHA1PadMessage(s) = Padded(s)
  BY <1>3, <1>4, <1>6, <1>11
<1>13. BitString(Padded(s), (((k + o) + p) + u) + w)
  <2>1. BitString(Then(x, c), k + o) /\ k + o \in Nat
    BY <1>8, <1>9, BitsJoined
  <2>2. BitString(Then(Then(x, c), d), (k + o) + p) /\ (k + o) + p \in Nat
    BY <1>8, <1>9, <2>1, BitsJoined
  <2>3. BitString(Then(Then(Then(x, c), d), y), ((k + o) + p) + u)
          /\ ((k + o) + p) + u \in Nat
    BY <1>8, <1>9, <2>2, BitsJoined
  <2>4. BitString(Then(Then(Then(Then(x, c), d), y), l), (((k + o) + p) + u) + w)
    BY <1>8, <1>9, <2>3, BitsJoined
  <2> QED BY <1>4, <2>4
<1> QED BY <1>10, <1>12, <1>13

-----------------------------------------------------------------------------
(* The functions of the standard have the values their recursion says: the *)
(* schedule of a block, ...                                                *)

\* w are t words.
WordsOf(w, t) == w \in Seq(Word32) /\ Len(w) = t

\* The members of a sequence of words are words.
LEMMA WordIn ==
  ASSUME NEW t \in Nat, NEW w, WordsOf(w, t), NEW i \in 1..t
  PROVE  w[i] \in Word32
BY DEF WordsOf

\* One word more.
LEMMA WordsAppend ==
  ASSUME NEW t \in Nat, NEW w, WordsOf(w, t), NEW x \in Word32
  PROVE  /\ WordsOf(Append(w, x), t + 1)
         /\ \A i \in 1..t : Append(w, x)[i] = w[i]
         /\ Append(w, x)[t + 1] = x
<1> DEFINE S == Word32
<1>1. w \in Seq(S) /\ Len(w) = t /\ x \in S
  BY DEF WordsOf
<1> HIDE DEF S
<1>2. Append(w, x) \in Seq(S) /\ Len(Append(w, x)) = t + 1
      /\ (\A i \in 1..t : Append(w, x)[i] = w[i]) /\ Append(w, x)[t + 1] = x
  BY <1>1
<1> QED BY <1>2 DEF S, WordsOf

\* The word t of the schedule, from those before it.
NextWord(w, t) == ROTL(1, Xor(Xor(w[t - 3], w[t - 8]), Xor(w[t - 14], w[t - 16])))

\* The schedule with one word more.
Longer(w, t) == Append(w, NextWord(w, t))

\* The next word is a word, and the one sha1.h:100 computes.
LEMMA NextWordType ==
  ASSUME NEW t \in 17..80, NEW w, WordsOf(w, t - 1)
  PROVE  /\ NextWord(w, t) \in Word32
         /\ SHA1CircularShift(1, Xor(Xor(w[t - 3], w[t - 8]), Xor(w[t - 14], w[t - 16])))
              = NextWord(w, t)
<1> DEFINE a == w[t - 3]
           b == w[t - 8]
           c == w[t - 14]
           d == w[t - 16]
<1>1. a \in Word32 /\ b \in Word32 /\ c \in Word32 /\ d \in Word32
  <2> DEFINE k == t - 1
  <2>1. k \in Nat /\ WordsOf(w, k) /\ t - 3 \in 1..k /\ t - 8 \in 1..k
          /\ t - 14 \in 1..k /\ t - 16 \in 1..k
    OBVIOUS
  <2> HIDE DEF k
  <2> QED BY <2>1, WordIn
<1> DEFINE x == Xor(Xor(a, b), Xor(c, d))
<1> HIDE DEF a, b, c, d
<1>2. Xor(a, b) \in Word32 /\ Xor(c, d) \in Word32
  BY <1>1, XorWord
<1>3. x \in Word32
  BY <1>2, XorWord
<1> HIDE DEF x
<1>4. 1 \in 0..32
  OBVIOUS
<1>5. SHA1CircularShift(1, x) = ROTL(1, x) /\ SHA1CircularShift(1, x) \in Word32
  BY <1>3, <1>4, ShiftWord
<1> QED BY <1>5 DEF x, a, b, c, d, NextWord

\* The pieces of 32 bits are words.
LEMMA WordsPieces ==
  ASSUME NEW n \in Nat, NEW k \in Nat, k = 32 * n, NEW b, BitString(b, k)
  PROVE  WordsOf(Pieces(b, 32), n)
<1> DEFINE m == 32
<1>1. m \in Nat \ {0} /\ k = m * n
  OBVIOUS
<1> HIDE DEF m
<1>2. Cut(Pieces(b, m), b, m, n)
  BY <1>1, PiecesOf
<1>3. \A i \in 1..n : Pieces(b, 32)[i] \in Word32
  BY <1>2, IsWord DEF Cut, m
<1>4. Pieces(b, 32) = [i \in 1..n |-> Pieces(b, 32)[i]]
  BY <1>2 DEF Cut, m
<1> DEFINE S == Word32
           p == Pieces(b, 32)
<1> HIDE DEF S, p
<1>5. (\A i \in 1..n : p[i] \in S) /\ p = [i \in 1..n |-> p[i]]
  BY <1>3, <1>4 DEF S, p
<1>6. [i \in 1..n |-> p[i]] \in Seq(S) /\ Len([i \in 1..n |-> p[i]]) = n
  BY <1>5
<1> QED BY <1>5, <1>6 DEF S, p, WordsOf

\* The schedule of a block is built word by word.
Scheduled(F, b) ==
  /\ F[16] = Pieces(b, 32)
  /\ \A t \in 16..80 : WordsOf(F[t], t)
  /\ \A t \in 17..80 : F[t] = Longer(F[t - 1], t)

\* The schedule of a block is defined by its recursion.
LEMMA ScheduleOf ==
  ASSUME NEW b, BitString(b, 512)
  PROVE  Scheduled(Schedule(b), b)
<1> DEFINE Step(f) == [t \in 16..80 |->
             IF t = 16 THEN Pieces(b, 32)
             ELSE LET w == f[t - 1]
                  IN  Append(w, ROTL(1, Xor(Xor(w[t - 3], w[t - 8]), Xor(w[t - 14],
                    w[t - 16]))))]
           F == CHOOSE h : h = Step(h)
           S == {w \in Seq(Word32) : Len(w) \in 16..80}
           v == Pieces(b, 32)
           up == [t \in 16..80 |-> [w \in S |->
                    IF Len(w) = t - 1 THEN Longer(w, t) ELSE w]]
<1>1. Schedule(b) = F
  BY DEF Schedule
<1>2. WordsOf(v, 16)
  <2> DEFINE n == 16
             k == 512
  <2>1. n \in Nat /\ k \in Nat /\ k = 32 * n /\ BitString(b, k)
    OBVIOUS
  <2> HIDE DEF n, k
  <2>2. WordsOf(Pieces(b, 32), n)
    BY <2>1, WordsPieces
  <2> QED BY <2>2 DEF n
<1> HIDE DEF v
<1>3. ASSUME NEW t \in 17..80, NEW w, WordsOf(w, t - 1)
      PROVE  WordsOf(Longer(w, t), t)
  <2> DEFINE k == t - 1
  <2>1. k \in Nat /\ WordsOf(w, k) /\ k + 1 = t /\ NextWord(w, t) \in Word32
    BY <1>3, NextWordType
  <2> HIDE DEF k
  <2>2. WordsOf(Longer(w, t), k + 1)
    BY <2>1, WordsAppend DEF Longer
  <2> QED BY <2>1, <2>2
<1>4. ASSUME NEW t \in 16..80, NEW w \in S
      PROVE  (IF Len(w) = t - 1 THEN Longer(w, t) ELSE w) \in S
  <2>1. CASE Len(w) = t - 1
    <3>1. t \in 17..80 /\ WordsOf(w, t - 1)
      <4>1. w \in Seq(Word32) /\ Len(w) \in 16..80
        BY DEF S
      <4> QED BY <2>1, <4>1 DEF WordsOf
    <3>2. WordsOf(Longer(w, t), t)
      BY <1>3, <3>1
    <3> QED BY <2>1, <3>2 DEF WordsOf
  <2>2. CASE Len(w) # t - 1
    BY <2>2
  <2> QED BY <2>1, <2>2
<1>5. v \in S
  BY <1>2 DEF WordsOf
<1> HIDE DEF S
<1>6. up \in Maps(16..80, Maps(S, S))
  BY <1>4 DEF Maps
<1>7. PICK g \in Maps(16..80, S) :
        g[16] = v /\ \A t \in 16..80 : t # 16 => g[t] = up[t][g[t - 1]]
  <2> DEFINE a == 16
             z == 80
  <2>1. a \in Nat /\ z \in Nat /\ a <= z /\ v \in S /\ up \in Maps(a..z, Maps(S, S))
    BY <1>5, <1>6
  <2> HIDE DEF a, z, up
  <2>2. \E f \in Maps(a..z, S) : f[a] = v /\ \A i \in a..z : i # a => f[i] = up[i][f[i - 1]]
    BY <2>1, Recursion
  <2> QED BY <2>2 DEF a, z
<1>8. \A t \in 17..80 : g[t] = IF Len(g[t - 1])
        = t - 1 THEN Longer(g[t - 1], t) ELSE g[t - 1]
  <2> SUFFICES ASSUME NEW t \in 17..80
               PROVE  g[t] = IF Len(g[t - 1]) = t - 1 THEN Longer(g[t - 1], t) ELSE g[t - 1]
    OBVIOUS
  <2>1. t \in 16..80 /\ t # 16 /\ t - 1 \in 16..80
    OBVIOUS
  <2>2. g[t - 1] \in S
    BY <2>1 DEF Maps
  <2> QED BY <1>7, <2>1, <2>2
<1> HIDE DEF up
<1> DEFINE T == {t \in 16..80 : WordsOf(g[t], t)}
<1>9. 16..80 \subseteq T
  <2>1. 16 \in T
    BY <1>2, <1>7
  <2>2. ASSUME NEW t \in 16..80, t # 16, t - 1 \in T PROVE t \in T
    <3>1. t \in 17..80 /\ WordsOf(g[t - 1], t - 1)
      BY <2>2
    <3>2. g[t] = Longer(g[t - 1], t)
      BY <1>8, <3>1 DEF WordsOf
    <3> QED BY <1>3, <3>1, <3>2
  <2> HIDE DEF T
  <2> DEFINE a == 16
             z == 80
  <2>3. a \in Nat /\ z \in Nat /\ a \in T /\ \A i \in a..z : i # a /\ i - 1 \in T => i \in T
    BY <2>1, <2>2
  <2> HIDE DEF a, z
  <2>4. a..z \subseteq T
    BY <2>3, Induct
  <2> QED BY <2>4 DEF a, z
<1>10. \A t \in 16..80 : WordsOf(g[t], t)
  BY <1>9
<1>11. \A t \in 17..80 : g[t] = Longer(g[t - 1], t)
  <2> SUFFICES ASSUME NEW t \in 17..80 PROVE g[t] = Longer(g[t - 1], t)
    OBVIOUS
  <2>1. WordsOf(g[t - 1], t - 1)
    BY <1>10
  <2> QED BY <1>8, <2>1 DEF WordsOf
<1> HIDE DEF T
<1>12. g = Step(g)
  <2>1. g = [t \in 16..80 |-> g[t]]
    BY DEF Maps
  <2>2. \A t \in 16..80 : g[t] = IF t = 16 THEN Pieces(b, 32) ELSE Longer(g[t - 1], t)
    BY <1>7, <1>11 DEF v
  <2>3. Step(g) = [t \in 16..80 |-> IF t = 16 THEN Pieces(b, 32) ELSE Longer(g[t - 1], t)]
    BY DEF NextWord, Longer
  <2> HIDE DEF Step
  <2>4. [t \in 16..80 |-> IF t = 16 THEN Pieces(b, 32) ELSE Longer(g[t - 1], t)]
          = [t \in 16..80 |-> g[t]]
    BY <2>2
  <2> QED BY <2>1, <2>3, <2>4
<1>13. F = Step(F)
  <2> HIDE DEF Step
  <2> QED BY <1>12
<1> HIDE DEF F
<1>14. \A t \in 16..80 : F[t] = IF t = 16 THEN v ELSE Longer(F[t - 1], t)
  BY <1>13 DEF NextWord, Longer, v
<1> HIDE DEF Step
<1> DEFINE U == {t \in 16..80 : F[t] = g[t]}
<1>15. 16..80 \subseteq U
  <2>1. 16 \in U
    BY <1>7, <1>14
  <2>2. ASSUME NEW t \in 16..80, t # 16, t - 1 \in U PROVE t \in U
    <3>1. t \in 17..80 /\ F[t - 1] = g[t - 1]
      BY <2>2
    <3> QED BY <1>11, <1>14, <3>1
  <2> HIDE DEF U
  <2> DEFINE a == 16
             z == 80
  <2>3. a \in Nat /\ z \in Nat /\ a \in U /\ \A i \in a..z : i # a /\ i - 1 \in U => i \in U
    BY <2>1, <2>2
  <2> HIDE DEF a, z
  <2>4. a..z \subseteq U
    BY <2>3, Induct
  <2> QED BY <2>4 DEF a, z
<1>16. \A t \in 16..80 : F[t] = g[t]
  BY <1>15
<1>17. F[16] = v /\ (\A t \in 16..80 : WordsOf(F[t], t))
       /\ \A t \in 17..80 : F[t] = Longer(F[t - 1], t)
  BY <1>10, <1>14, <1>16
<1> QED BY <1>1, <1>17 DEF Scheduled, v

-----------------------------------------------------------------------------
(* ... its rounds, ...                                                     *)

\* The five words of a hash value or of the variables A to E.
Five == [1..5 -> Word32]

\* What five words are.
LEMMA FiveOf ==
  ASSUME NEW v \in Five
  PROVE  /\ v[1] \in Word32 /\ v[2] \in Word32 /\ v[3] \in Word32 /\ v[4] \in Word32
              /\ v[5] \in Word32
         /\ v = [i \in 1..5 |-> v[i]]
BY DEF Five

\* How they are made.
LEMMA FiveMade ==
  ASSUME NEW a \in Word32, NEW b \in Word32, NEW c \in Word32, NEW d \in Word32,
           NEW e \in Word32
  PROVE  <<a, b, c, d, e>> \in Five
<1> DEFINE w == Word32
<1> HIDE DEF w
<1>1. a \in w /\ b \in w /\ c \in w /\ d \in w /\ e \in w
  BY DEF w
<1>2. <<a, b, c, d, e>> \in [1..5 -> w]
  BY <1>1
<1> QED BY <1>2 DEF Five, w

\* The variable A after a round.
First(v, x, t) ==
  Plus(Plus(Plus(ROTL(5, v[1]), RoundFunction(t - 1, v[2], v[3], v[4])),
            Plus(v[5], x)), RoundConstant(t - 1))

\* All five after the round.
Round(v, x, t) == <<First(v, x, t), v[1], ROTL(30, v[2]), v[3], v[4]>>

\* A after a round is a word, and the sum sha1.h:109-141 computes in temp.
LEMMA FirstType ==
  ASSUME NEW t \in 1..80, NEW v \in Five, NEW x \in Word32
  PROVE  /\ First(v, x, t) \in Word32
         /\ Plus(Plus(Plus(SHA1CircularShift(5, v[1]), Mix(t - 1, v[2], v[3], v[4])),
                      Plus(v[5], x)), K[((t - 1) \div 20) + 1]) = First(v, x, t)
<1> DEFINE r == t - 1
<1>1. r \in 0..79 /\ 5 \in 0..32
  OBVIOUS
<1> HIDE DEF r
<1>2. v[1] \in Word32 /\ v[2] \in Word32 /\ v[3] \in Word32 /\ v[4] \in Word32
        /\ v[5] \in Word32
  BY FiveOf
<1>3. SHA1CircularShift(5, v[1]) = ROTL(5, v[1]) /\ SHA1CircularShift(5, v[1]) \in Word32
  BY <1>1, <1>2, ShiftWord
<1>4. Mix(r, v[2], v[3], v[4]) = RoundFunction(r, v[2], v[3], v[4])
        /\ RoundFunction(r, v[2], v[3], v[4]) \in Word32
  BY <1>1, <1>2, MixStandard
<1>5. K[(r \div 20) + 1] = RoundConstant(r) /\ RoundConstant(r) \in Word32
  BY <1>1, ConstantStandard
<1> DEFINE a == ROTL(5, v[1])
           f == RoundFunction(r, v[2], v[3], v[4])
           k == RoundConstant(r)
<1>6. a \in Word32 /\ f \in Word32 /\ k \in Word32
  BY <1>3, <1>4, <1>5
<1> HIDE DEF a, f, k
<1>7. Plus(a, f) \in Word32 /\ Plus(v[5], x) \in Word32
  BY <1>2, <1>6, PlusWord
<1>8. Plus(Plus(a, f), Plus(v[5], x)) \in Word32
  BY <1>7, PlusWord
<1>9. Plus(Plus(Plus(a, f), Plus(v[5], x)), k) \in Word32
  BY <1>6, <1>8, PlusWord
<1>10. First(v, x, t) = Plus(Plus(Plus(a, f), Plus(v[5], x)), k)
  BY DEF First, a, f, k, r
<1>11. Plus(Plus(Plus(SHA1CircularShift(5, v[1]), Mix(r, v[2], v[3], v[4])),
                      Plus(v[5], x)), K[(r \div 20) + 1])
                        = Plus(Plus(Plus(a, f), Plus(v[5], x)), k)
  BY <1>3, <1>4, <1>5 DEF a, f, k
<1> QED BY <1>9, <1>10, <1>11 DEF r

\* A round makes five words, and is the round of the standard.
LEMMA RoundType ==
  ASSUME NEW t \in 1..80, NEW v \in Five, NEW x \in Word32
  PROVE  /\ Round(v, x, t) \in Five
         /\ [v EXCEPT ![1] = First(v, x, t), ![2] = v[1], ![3] = ROTL(30, v[2]),
                      ![4] = v[3], ![5] = v[4]] = Round(v, x, t)
<1> DEFINE a == First(v, x, t)
           c == ROTL(30, v[2])
           b == v[1]
           d == v[3]
           e == v[4]
<1>1. a \in Word32 /\ b \in Word32 /\ v[2] \in Word32 /\ d \in Word32 /\ e \in Word32
      /\ v = [i \in 1..5 |-> v[i]]
  BY FirstType, FiveOf
<1>2. c \in Word32
  <2>1. 30 \in 0..32
    OBVIOUS
  <2> QED BY <1>1, <2>1, ShiftWord
<1> HIDE DEF a, b, c, d, e
<1>3. <<a, b, c, d, e>> \in Five
  BY <1>1, <1>2, FiveMade
<1>4. [v EXCEPT ![1] = a, ![2] = b, ![3] = c, ![4] = d, ![5] = e] = <<a, b, c, d, e>>
  <2>1. DOMAIN v = 1..5
    BY DEF Five
  <2> DEFINE u == [v EXCEPT ![1] = a, ![2] = b, ![3] = c, ![4] = d, ![5] = e]
             w == <<a, b, c, d, e>>
  <2>2. u = [i \in 1..5 |-> u[i]] /\ u[1] = a /\ u[2] = b /\ u[3] = c /\ u[4] = d
          /\ u[5] = e
    <3>1. v \in [1..5 -> Word32]
      BY DEF Five
    <3>2. u = [i \in 1..5 |-> u[i]]
      BY <2>1, <3>1
    <3>3. u[1] = a /\ u[2] = b
      BY <2>1, <3>1
    <3>4. u[3] = c /\ u[4] = d /\ u[5] = e
      BY <2>1, <3>1
    <3> QED BY <3>2, <3>3, <3>4
  <2>3. w = [i \in 1..5 |-> w[i]] /\ w[1] = a /\ w[2] = b /\ w[3] = c /\ w[4] = d
          /\ w[5] = e
    OBVIOUS
  <2> HIDE DEF u, w
  <2>4. \A i \in 1..5 : u[i] = w[i]
    <3>1. \A i \in 1..5 : i = 1 \/ i = 2 \/ i = 3 \/ i = 4 \/ i = 5
      OBVIOUS
    <3> QED BY <2>2, <2>3, <3>1
  <2>5. u = w
    BY <2>2, <2>3, <2>4
  <2> QED BY <2>5 DEF u, w
<1> QED BY <1>3, <1>4 DEF a, b, c, d, e, Round

\* F are the variables after each round.
Rounded(F, b, h) ==
  /\ F[0] = h
  /\ \A t \in 0..80 : F[t] \in Five
  /\ \A t \in 1..80 : F[t] = Round(F[t - 1], Schedule(b)[80][t], t)

\* The rounds over a block are defined by their recursion.
LEMMA RoundsOf ==
  ASSUME NEW b, BitString(b, 512), NEW h \in Five
  PROVE  Rounded(Rounds(b, h), b, h)
<1> DEFINE w == Schedule(b)[80]
           Step(f) == [t \in 0..80 |->
             IF t = 0 THEN h
             ELSE LET v == f[t - 1]
                  IN  [v EXCEPT ![1] = Plus(Plus(Plus(ROTL(5, v[1]),
                             RoundFunction(t - 1, v[2], v[3], v[4])),
                             Plus(v[5], w[t])), RoundConstant(t - 1)),
                           ![2] = v[1], ![3] = ROTL(30, v[2]),
                           ![4] = v[3], ![5] = v[4]]]
           F == CHOOSE f : f = Step(f)
           up == [t \in 0..80 |-> [v \in Five |-> IF t = 0 THEN v ELSE Round(v, w[t], t)]]
           Except(v, t) == [v EXCEPT ![1] = First(v, w[t], t), ![2] = v[1], ![3]
             = ROTL(30, v[2]),
                      ![4] = v[3], ![5] = v[4]]
<1>1. Rounds(b, h) = F
  BY DEF Rounds
<1>2. \A t \in 1..80 : w[t] \in Word32
  <2> DEFINE n == 80
  <2>1. n \in Nat /\ WordsOf(w, n)
    BY ScheduleOf DEF Scheduled
  <2> HIDE DEF n, w
  <2>2. \A t \in 1..n : w[t] \in Word32
    BY <2>1, WordIn
  <2> QED BY <2>2 DEF n
<1> HIDE DEF w
<1>3. ASSUME NEW t \in 1..80, NEW v \in Five
      PROVE  Round(v, w[t], t) \in Five /\ Except(v, t) = Round(v, w[t], t)
  BY <1>2, RoundType
<1>4. up \in Maps(0..80, Maps(Five, Five))
  <2>1. \A t \in 0..80, v \in Five : (IF t = 0 THEN v ELSE Round(v, w[t], t)) \in Five
    <3> SUFFICES ASSUME NEW t \in 0..80, NEW v \in Five, t # 0
                 PROVE  Round(v, w[t], t) \in Five
      OBVIOUS
    <3>1. t \in 1..80
      OBVIOUS
    <3> QED BY <1>3, <3>1
  <2> QED BY <2>1 DEF Maps
<1>5. PICK g \in Maps(0..80, Five) :
        g[0] = h /\ \A t \in 0..80 : t # 0 => g[t] = up[t][g[t - 1]]
  <2> DEFINE z == 80
  <2>1. z \in Nat /\ up \in Maps(0..z, Maps(Five, Five))
    BY <1>4
  <2> HIDE DEF z, up
  <2>2. \E f \in Maps(0..z, Five) : f[0] = h
          /\ \A i \in 0..z : i # 0 => f[i] = up[i][f[i - 1]]
    BY <2>1, RecursionFrom0
  <2> QED BY <2>2 DEF z
<1>6. \A t \in 0..80 : g[t] \in Five
  BY DEF Maps
<1>7. \A t \in 1..80 : g[t] = Round(g[t - 1], w[t], t)
  <2> SUFFICES ASSUME NEW t \in 1..80 PROVE g[t] = Round(g[t - 1], w[t], t)
    OBVIOUS
  <2>1. t \in 0..80 /\ t # 0 /\ t - 1 \in 0..80
    OBVIOUS
  <2> QED BY <1>5, <1>6, <2>1
<1> HIDE DEF up
<1>8. \A f : Step(f) = [t \in 0..80 |-> IF t = 0 THEN h ELSE Except(f[t - 1], t)]
  BY DEF First
<1> HIDE DEF Step
<1>9. g = Step(g)
  <2>1. g = [t \in 0..80 |-> g[t]]
    BY DEF Maps
  <2>2. \A t \in 1..80 : Except(g[t - 1], t) = Round(g[t - 1], w[t], t)
    <3> SUFFICES ASSUME NEW t \in 1..80 PROVE Except(g[t - 1], t) = Round(g[t - 1], w[t], t)
      OBVIOUS
    <3>1. g[t - 1] \in Five
      <4>1. t - 1 \in 0..80
        OBVIOUS
      <4> QED BY <1>6, <4>1
    <3> HIDE DEF Except
    <3> QED BY <1>3, <3>1
  <2> HIDE DEF Except
  <2>3. \A t \in 0..80 : g[t] = IF t = 0 THEN h ELSE Except(g[t - 1], t)
    BY <1>5, <1>7, <2>2
  <2>4. [t \in 0..80 |-> IF t = 0 THEN h ELSE Except(g[t - 1], t)] = [t \in 0..80 |-> g[t]]
    BY <2>3
  <2> QED BY <1>8, <2>1, <2>4
<1>10. F = Step(F)
  BY <1>9
<1> HIDE DEF F, Except
<1>11. F[0] = h /\ \A t \in 1..80 : F[t] = Except(F[t - 1], t)
  BY <1>8, <1>10
<1> DEFINE T == {t \in 0..80 : F[t] = g[t]}
<1>12. 0..80 \subseteq T
  <2>1. 0 \in T
    BY <1>5, <1>11
  <2>2. ASSUME NEW t \in 0..80, t # 0, t - 1 \in T PROVE t \in T
    <3>1. t \in 1..80 /\ F[t - 1] = g[t - 1] /\ t - 1 \in 0..80
      BY <2>2
    <3>2. Except(g[t - 1], t) = Round(g[t - 1], w[t], t)
      BY <1>3, <1>6, <3>1
    <3> QED BY <1>7, <1>11, <3>1, <3>2
  <2> HIDE DEF T
  <2> DEFINE a == 0
             z == 80
  <2>3. a \in Nat /\ z \in Nat /\ a \in T /\ \A i \in a..z : i # a /\ i - 1 \in T => i \in T
    BY <2>1, <2>2
  <2> HIDE DEF a, z
  <2>4. a..z \subseteq T
    BY <2>3, Induct
  <2> QED BY <2>4 DEF a, z
<1>13. \A t \in 0..80 : F[t] = g[t]
  BY <1>12
<1> HIDE DEF T
<1>14. \A t \in 1..80 : F[t] = Round(F[t - 1], w[t], t)
  <2> SUFFICES ASSUME NEW t \in 1..80 PROVE F[t] = Round(F[t - 1], w[t], t)
    OBVIOUS
  <2>1. t \in 0..80 /\ t - 1 \in 0..80
    OBVIOUS
  <2>2. F[t] = g[t] /\ F[t - 1] = g[t - 1]
    BY <1>13, <2>1
  <2> QED BY <1>7, <2>2
<1> QED BY <1>1, <1>6, <1>11, <1>13, <1>14 DEF Rounded, w

-----------------------------------------------------------------------------
(* ... the hash value after each block, and the bytes of the digest.       *)

\* The hash value with the words of the last round added.
Added(h, v) == [i \in 1..5 |-> Plus(h[i], v[i])]

\* It has five words again.
LEMMA AddedType ==
  ASSUME NEW h \in Five, NEW v \in Five
  PROVE  Added(h, v) \in Five
<1> SUFFICES ASSUME NEW i \in 1..5 PROVE Plus(h[i], v[i]) \in Word32
  BY DEF Added, Five
<1>1. h[i] \in Word32 /\ v[i] \in Word32
  BY DEF Five
<1> QED BY <1>1, PlusWord

(* sha1.h begins with the hash value of the standard (SHA1Reset,           *)
(* sha1.h:30-43).                                                          *)
LEMMA InitialFive == InitialHash \in Five /\ SHA1Reset = InitialHash
<1>1. InitialHash \in Five
  <2> DEFINE a == Word(26437, 8961)
             b == Word(61389, 43913)
             c == Word(39098, 56574)
             d == Word(4146, 21622)
             e == Word(50130, 57840)
  <2>1. a \in Word32 /\ b \in Word32 /\ c \in Word32 /\ d \in Word32 /\ e \in Word32
    BY HalvesWord
  <2> HIDE DEF a, b, c, d, e
  <2>2. <<a, b, c, d, e>> \in Five
    BY <2>1, FiveMade
  <2> QED BY <2>2 DEF InitialHash, a, b, c, d, e
<1> QED BY <1>1 DEF InitialHash, SHA1Reset

\* The blocks of a padded text.
Blocks(s) == Pieces(Padded(s), 512)

\* F is the hash value after each of the N blocks.
Hashed(F, s, N) ==
  /\ \A n \in 1..N : BitString(Blocks(s)[n], 512)
  /\ Blocks(s) = [n \in 1..N |-> Blocks(s)[n]] /\ Len(Blocks(s)) = N
  /\ Len(Padded(s)) \div 512 = N
  /\ F[0] = InitialHash
  /\ \A n \in 0..N : F[n] \in Five
  /\ \A n \in 1..N : F[n] = Added(F[n - 1], Rounds(Blocks(s)[n], F[n - 1])[80])

(* The hash values of a text are defined by their recursion, over one block*)
(* or more.                                                                *)
LEMMA HashesOf ==
  ASSUME NEW n \in Nat, n < 8192, NEW s, ByteString(s, n)
  PROVE  \E N \in Nat \ {0} : Hashed(Hashes(s), s, N)
<1> DEFINE M == Blocks(s)
<1>1. PICK N \in Nat \ {0} : BitString(Padded(s), 512 * N)
  BY PadStandard
<1>2. /\ \A k \in 1..N : BitString(M[k], 512)
      /\ M = [k \in 1..N |-> M[k]] /\ Len(M) = N
  <2> DEFINE m == 512
             l == 512 * N
  <2>1. m \in Nat \ {0} /\ N \in Nat /\ l \in Nat /\ l = m * N /\ BitString(Padded(s), l)
    BY <1>1
  <2> HIDE DEF m, l
  <2>2. Cut(Pieces(Padded(s), m), Padded(s), m, N)
    BY <2>1, PiecesOf
  <2>3. Cut(M, Padded(s), m, N)
    BY <2>2 DEF Blocks, m
  <2> HIDE DEF M
  <2> QED BY <2>3 DEF Cut, m
<1>3. Len(Padded(s)) \div 512 = N
  BY <1>1 DEF BitString
<1> DEFINE FinalHash(k, h) == Rounds(M[k], h)[80]
           Step(f) == [k \in 0..Len(M) |->
                        IF k = 0 THEN InitialHash
                        ELSE LET h == f[k - 1]
                                 v == Rounds(M[k], h)[80]
                             IN  [i \in 1..5 |-> Plus(h[i], v[i])]]
           F == CHOOSE f : f = Step(f)
           next(k, h) == Added(h, FinalHash(k, h))
           up == [k \in 0..N |-> [h \in Five |-> IF k = 0 THEN h ELSE next(k, h)]]
<1>4. Hashes(s) = F
  BY DEF Hashes, Blocks
<1>5. \A f : Step(f) = [k \in 0..N |-> IF k = 0 THEN InitialHash ELSE next(k, f[k - 1])]
  BY <1>2 DEF Added
<1> HIDE DEF M, Step
<1>6. ASSUME NEW k \in 1..N, NEW h \in Five PROVE next(k, h) \in Five
  <2>1. Rounded(Rounds(M[k], h), M[k], h)
    BY <1>2, RoundsOf
  <2>2. FinalHash(k, h) \in Five
    BY <2>1 DEF Rounded
  <2> HIDE DEF FinalHash
  <2> QED BY <2>2, AddedType
<1> HIDE DEF next
<1>7. up \in Maps(0..N, Maps(Five, Five))
  <2>1. \A k \in 0..N, h \in Five : (IF k = 0 THEN h ELSE next(k, h)) \in Five
    <3> SUFFICES ASSUME NEW k \in 0..N, NEW h \in Five, k # 0 PROVE next(k, h) \in Five
      OBVIOUS
    <3>1. k \in 1..N
      OBVIOUS
    <3> QED BY <1>6, <3>1
  <2> QED BY <2>1 DEF Maps
<1>8. PICK g \in Maps(0..N, Five) :
        g[0] = InitialHash /\ \A k \in 0..N : k # 0 => g[k] = up[k][g[k - 1]]
  <2> DEFINE v == InitialHash
             S == Five
  <2>1. v \in S /\ up \in Maps(0..N, Maps(S, S))
    BY <1>7, InitialFive
  <2> HIDE DEF v, S, up
  <2>2. \E f \in Maps(0..N, S) : f[0] = v /\ \A i \in 0..N : i # 0 => f[i] = up[i][f[i - 1]]
    BY <1>1, <2>1, RecursionFrom0
  <2> QED BY <2>2 DEF v, S
<1>9. \A k \in 0..N : g[k] \in Five
  BY DEF Maps
<1>10. \A k \in 1..N : g[k] = next(k, g[k - 1])
  <2> SUFFICES ASSUME NEW k \in 1..N PROVE g[k] = next(k, g[k - 1])
    OBVIOUS
  <2>1. k \in 0..N /\ k # 0 /\ k - 1 \in 0..N
    OBVIOUS
  <2>2. g[k - 1] \in Five
    BY <1>9, <2>1
  <2>3. up[k] = [h \in Five |-> next(k, h)]
    BY <2>1
  <2>4. up[k][g[k - 1]] = next(k, g[k - 1])
    <3> HIDE DEF up
    <3> QED BY <2>2, <2>3
  <2> HIDE DEF up
  <2> QED BY <1>8, <2>1, <2>4
<1> HIDE DEF up
<1>11. g = Step(g)
  <2> DEFINE X == [k \in 0..N |-> IF k = 0 THEN InitialHash ELSE next(k, g[k - 1])]
  <2>1. g = [k \in 0..N |-> g[k]]
    BY DEF Maps
  <2>2. \A k \in 0..N : g[k] = IF k = 0 THEN InitialHash ELSE next(k, g[k - 1])
    BY <1>8, <1>10
  <2>3. g = X
    <3>1. X = [k \in 0..N |-> X[k]] /\ \A k \in 0..N : X[k] = g[k]
      BY <2>2
    <3> HIDE DEF X
    <3> QED BY <2>1, <3>1
  <2>4. Step(g) = X
    BY <1>5
  <2> HIDE DEF X
  <2> QED BY <2>3, <2>4
<1>12. F = Step(F)
  BY <1>11
<1> HIDE DEF F
<1>13. F[0] = InitialHash /\ \A k \in 1..N : F[k] = next(k, F[k - 1])
  BY <1>1, <1>5, <1>12
<1> DEFINE T == {k \in 0..N : F[k] = g[k]}
<1>14. 0..N \subseteq T
  <2>1. 0 \in T
    BY <1>8, <1>13
  <2>2. ASSUME NEW k \in 0..N, k # 0, k - 1 \in T PROVE k \in T
    <3>1. k \in 1..N /\ F[k - 1] = g[k - 1]
      BY <2>2
    <3> QED BY <1>10, <1>13, <3>1
  <2> HIDE DEF T
  <2>3. N \in Nat
    BY <1>1
  <2> QED BY <2>1, <2>2, <2>3, InductFrom0
<1>15. \A k \in 0..N : F[k] \in Five
  BY <1>9, <1>14
<1>16. \A k \in 1..N : F[k] = Added(F[k - 1], Rounds(M[k], F[k - 1])[80])
  BY <1>13 DEF next
<1> QED BY <1>2, <1>3, <1>4, <1>13, <1>15, <1>16 DEF Hashed, M

(* The bytes that htoi reads are those of the hash value.                  *)
LEMMA DigestBytes ==
  ASSUME NEW h \in Five
  PROVE  /\ htoi(h) = [i \in 1..20 |-> Number(Slice(h[((i - 1) \div 4) + 1],
                                 8 * ((i - 1) % 4), 8 * ((i - 1) % 4) + 8))]
         /\ ByteString(htoi(h), 20)
<1> DEFINE f == FlattenSeq(h)
           p == Pieces(f, 8)
<1>1. \A i \in 1..5 : BitString(h[i], 32)
  BY IsWord DEF Five
<1>2. Row(f, h, 5, 32, Bit)
  <2> DEFINE S == Bit
             m == 32
             n == 5
  <2>1. m \in Nat /\ n \in Nat \ {0}
    OBVIOUS
  <2>2. Uniform(h, n, m, S)
    <3>1. \A i \in 1..5 : h[i] \in Seq(S) /\ Len(h[i]) = m
      BY <1>1 DEF BitString
    <3>2. h = [i \in 1..5 |-> h[i]]
      BY DEF Five
    <3> HIDE DEF S, m
    <3>3. h \in [1..5 -> Seq(S)]
      BY <3>1, <3>2
    <3> QED BY <3>1, <3>3 DEF Uniform
  <2> HIDE DEF S, m, n, f
  <2>3. Row(FlattenSeq(h), h, n, m, S)
    BY <2>1, <2>2, Flattened
  <2> QED BY <2>3 DEF S, m, n, f
<1> HIDE DEF f
<1>3. BitString(f, 160)
  BY <1>2 DEF Row, BitString
<1>4. Cut(p, f, 8, 20)
  <2> DEFINE m == 8
             n == 20
             k == 160
  <2>1. m \in Nat \ {0} /\ n \in Nat /\ k \in Nat /\ k = m * n /\ BitString(f, k)
    BY <1>3
  <2> HIDE DEF m, n, k
  <2>2. Cut(Pieces(f, m), f, m, n)
    BY <2>1, PiecesOf
  <2> QED BY <2>2 DEF m, n
<1>5. htoi(h) = [i \in 1..20 |-> Number(p[i])]
  BY DEF htoi, f
<1> HIDE DEF p
<1>6. ASSUME NEW i \in 1..20
      PROVE  p[i] = Slice(h[((i - 1) \div 4) + 1], 8 * ((i - 1) % 4), 8 * ((i - 1) % 4) + 8)
  <2> DEFINE q == ((i - 1) \div 4) + 1
             a == 8 * ((i - 1) % 4)
             b == a + 8
             k == 8
             n == 32
  <2>1. q \in 1..5 /\ a \in Nat /\ b \in Nat /\ k \in Nat /\ n \in Nat /\ b = a + k
          /\ b <= n
        /\ 8 * (i - 1) = 32 * (q - 1) + a
    OBVIOUS
  <2>2. BitString(h[q], n) /\ BitString(p[i], k)
    BY <1>1, <1>4, <2>1 DEF Cut
  <2>3. \A j \in 1..k : p[i][j] = f[8 * (i - 1) + j]
    BY <1>4 DEF Cut
  <2> HIDE DEF q, a, b, n
  <2>4. \A j \in 1..k : p[i][j] = h[q][a + j]
    <3> SUFFICES ASSUME NEW j \in 1..k PROVE p[i][j] = h[q][a + j]
      OBVIOUS
    <3>1. a + j \in 1..32 /\ 8 * (i - 1) + j = 32 * (q - 1) + (a + j)
      BY <2>1 DEF n
    <3>2. f[32 * (q - 1) + (a + j)] = h[q][a + j]
      BY <1>2, <2>1, <3>1 DEF Row
    <3> QED BY <2>3, <3>1, <3>2
  <2> HIDE DEF k
  <2>5. BitString(Slice(h[q], a, b), k)
          /\ \A j \in 1..k : Slice(h[q], a, b)[j] = h[q][a + j]
    <3> DEFINE x == h[q]
    <3>1. BitString(x, n)
      BY <2>2
    <3> HIDE DEF x
    <3>2. BitString(Slice(x, a, b), k) /\ \A j \in 1..k : Slice(x, a, b)[j] = x[a + j]
      BY <2>1, <3>1, BitsSlice
    <3> QED BY <3>2 DEF x
  <2>6. p[i] = Slice(h[q], a, b)
    BY <2>1, <2>2, <2>4, <2>5, BitsEqual
  <2> QED BY <2>6 DEF q, a, b
<1>7. \A i \in 1..20 : Number(p[i]) \in Byte
  BY <1>4, Eight DEF Cut, Byte
<1>8. ByteString(htoi(h), 20)
  <2> DEFINE S == Byte
             t == [i \in 1..20 |-> Number(p[i])]
  <2>1. \A i \in 1..20 : Number(p[i]) \in S
    BY <1>7
  <2> HIDE DEF S
  <2>2. t \in Seq(S) /\ Len(t) = 20
    BY <2>1
  <2> QED BY <1>5, <2>2 DEF S, ByteString
<1>9. htoi(h) = [i \in 1..20 |-> Number(Slice(h[((i - 1) \div 4) + 1],
                                 8 * ((i - 1) % 4), 8 * ((i - 1) % 4) + 8))]
  BY <1>5, <1>6
<1> QED BY <1>8, <1>9

(* The digest of the standard is the last hash value, as htoi (intLib.h)   *)
(* writes it in bytes.                                                     *)
LEMMA DigestStandard ==
  ASSUME NEW n \in Nat, n < 8192, NEW s, ByteString(s, n),
         NEW N \in Nat \ {0}, Hashed(Hashes(s), s, N)
  PROVE  htoi(Hashes(s)[N]) = SHA1Digest(s) /\ ByteString(SHA1Digest(s), 20)
<1> DEFINE h == Hashes(s)[N]
<1>1. h \in Five
  BY DEF Hashed
<1>2. SHA1Digest(s) = [i \in 1..20 |-> Number(Slice(h[((i - 1) \div 4) + 1],
                                 8 * ((i - 1) % 4), 8 * ((i - 1) % 4) + 8))]
  <2>1. Len(Padded(s)) \div 512 = N
    BY DEF Hashed
  <2>2. SHA1Digest(s) = [i \in 1..20 |->
          Number(SubSeq(h[((i - 1) \div 4) + 1], 8 * ((i - 1) % 4) + 1,
            (8 * ((i - 1) % 4) + 1) + 7))]
    BY <2>1 DEF SHA1Digest
  <2> HIDE DEF h
  <2>3. \A i \in 1..20 : (8 * ((i - 1) % 4) + 1) + 7 = 8 * ((i - 1) % 4) + 8
    OBVIOUS
  <2> QED BY <2>2, <2>3 DEF Slice
<1> HIDE DEF h
<1>3. htoi(h) = SHA1Digest(s) /\ ByteString(htoi(h), 20)
  BY <1>1, <1>2, DigestBytes
<1> QED BY <1>3 DEF h

-----------------------------------------------------------------------------
(* The texts of the handshake.                                             *)

\* A byte of a key: not a NUL, and neither character of the end of its line.
Letter == (1..255) \ {10, 13}

\* A part of a key, with what is not of the line of the key.
Letters(s, n) == s \in Seq(Letter) /\ Len(s) = n

\* The members of a string of letters are letters.
LEMMA LettersOf ==
  ASSUME NEW n \in Nat, NEW s, Letters(s, n)
  PROVE  DOMAIN s = 1..n /\ \A i \in 1..n : s[i] \in 1..255 /\ s[i] \notin {10, 13}
<1> DEFINE S == Letter
<1>1. s \in Seq(S) /\ Len(s) = n
  BY DEF Letters
<1> HIDE DEF S
<1>2. DOMAIN s = 1..n /\ \A i \in 1..n : s[i] \in S
  BY <1>1
<1> QED BY <1>2 DEF S, Letter

\* A key is made of letters (KeyAssumption).
LEMMA KeyLetters ==
  ASSUME NEW k \in Key
  PROVE  \E n \in Nat : Letters(k, n) /\ Len(k) = n
<1>1. k \in Seq(Letter)
  BY KeyAssumption DEF Letter
<1> QED BY <1>1 DEF Letters

\* So is what the server reads of it when it reads only a part.
LEMMA KeyPart ==
  ASSUME NEW n \in Nat, NEW k, Letters(k, n), NEW m \in 0..n
  PROVE  Letters(SubSeq(k, 1, m), m) /\ (m = n => SubSeq(k, 1, m) = k)
<1> DEFINE S == Letter
<1>1. k \in Seq(S) /\ Len(k) = n
  BY DEF Letters
<1> HIDE DEF S
<1>2. SubSeq(k, 1, m) \in Seq(S) /\ Len(SubSeq(k, 1, m)) = m
  BY <1>1
<1>3. m = n => SubSeq(k, 1, m) = k
  BY <1>1
<1> QED BY <1>2, <1>3 DEF S, Letters

\* Letters are bytes.
LEMMA LettersBytes ==
  ASSUME NEW n \in Nat, NEW s, Letters(s, n)
  PROVE  ByteString(s, n) /\ s # NoKey
<1> DEFINE S == Byte
<1>1. DOMAIN s = 1..n /\ (\A i \in 1..n : s[i] \in S) /\ Len(s) = n
  <2>1. DOMAIN s = 1..n /\ \A i \in 1..n : s[i] \in 1..255
    BY LettersOf
  <2> QED BY <2>1 DEF Byte, Letters
<1>2. s = [i \in 1..n |-> s[i]]
  <2> DEFINE L == Letter
  <2>1. s \in Seq(L) /\ Len(s) = n
    BY DEF Letters
  <2> HIDE DEF L
  <2> QED BY <2>1
<1> HIDE DEF S
<1>3. [i \in 1..n |-> s[i]] \in Seq(S)
  BY <1>1
<1>4. ByteString(s, n)
  BY <1>1, <1>2, <1>3 DEF S, ByteString
<1>5. s # NoKey
  BY <1>4, KeyAssumption DEF ByteString, Byte
<1> QED BY <1>4, <1>5

\* What of a text is left by strlen.
LEMMA CStringWhole ==
  ASSUME NEW n \in Nat, NEW s, Letters(s, n)
  PROVE  CString(s) = s
<1>1. DOMAIN s = 1..n /\ \A i \in 1..n : s[i] \in 1..255
  BY LettersOf
<1>2. ASSUME NEW i \in DOMAIN s PROVE s[i] # 0
  <2>1. s[i] \in 1..255
    BY <1>1
  <2>2. \A x \in 1..255 : x # 0
    OBVIOUS
  <2> QED BY <2>1, <2>2, Zenon
<1> QED BY <1>2 DEF CString, ToSet

\* A C string ends before the first NUL.
LEMMA CStringCut ==
  ASSUME NEW n \in Nat, NEW s, ByteString(s, n), 0 \in ToSet(s)
  PROVE  \E m \in Nat : m < n /\ ByteString(CString(s), m)
<1> DEFINE I == {i \in 1..n : s[i] = 0}
           B == Byte
<1>1. s \in Seq(B) /\ Len(s) = n
  BY DEF ByteString
<1>2. SelectInSeq(s, LAMBDA b : b = 0) = IF I # {} THEN Min(I) ELSE 0
  BY <1>1 DEF SelectInSeq
<1>3. I # {}
  BY <1>1 DEF ToSet
<1>4. PICK l \in I : \A j \in I : l <= j
  <2>1. I \in SUBSET Nat
    OBVIOUS
  <2> HIDE DEF I
  <2> QED BY <1>3, <2>1, Least
<1>5. Min(I) = l
  <2>1. Min(I) = CHOOSE x \in I : \A y \in I : x <= y
    BY DEF Min
  <2>2. \A x \in I : (\A y \in I : x <= y) => x = l
    BY <1>4
  <2> HIDE DEF I
  <2> QED BY <1>4, <2>1, <2>2
<1>6. l \in 1..n
  OBVIOUS
<1> HIDE DEF I
<1>7. CString(s) = SubSeq(s, 1, l - 1)
  BY <1>2, <1>3, <1>5 DEF CString
<1> HIDE DEF B
<1>8. SubSeq(s, 1, l - 1) \in Seq(B) /\ Len(SubSeq(s, 1, l - 1)) = l - 1
  BY <1>1, <1>6
<1>9. l - 1 \in Nat /\ l - 1 < n
  BY <1>6
<1> QED BY <1>7, <1>8, <1>9 DEF B, ByteString

\* The two outcomes of the read of a key.
LEMMA FetchPart ==
  ASSUME NEW n \in Nat, NEW s, Letters(s, n)
  PROVE  fetchSecKey(s) = s
<1>1. \A i \in DOMAIN s : s[i] \notin {10, 13}
  BY LettersOf
<1> QED BY <1>1 DEF fetchSecKey

(* When the end of the line was read too, fetchSecKey finds the key before *)
(* it.                                                                     *)
LEMMA FetchWhole ==
  ASSUME NEW n \in Nat, NEW k, Letters(k, n)
  PROVE  fetchSecKey(k \o <<13, 10>>) = k /\ k \o <<13, 10>> # NoKey
           /\ Len(k \o <<13, 10>>) = n + 2
<1> DEFINE e == <<13, 10>>
           buf == k \o e
           B == Byte
           I == {i \in 1..(n + 2) : buf[i] \in {10, 13}}
<1>1. k \in Seq(B) /\ Len(k) = n
  BY LettersBytes DEF ByteString
<1>2. e \in Seq(B) /\ Len(e) = 2 /\ e[1] = 13 /\ e[2] = 10
  BY DEF Byte
<1> HIDE DEF B, e
<1>3. buf \in Seq(B) /\ Len(buf) = n + 2 /\ (\A i \in 1..n : buf[i] = k[i])
        /\ buf[n + 1] = 13
  <2> DEFINE two == 2
  <2>1. two \in Nat /\ OfLength(k, n, B) /\ OfLength(e, two, B)
    BY <1>1, <1>2 DEF OfLength
  <2> HIDE DEF two
  <2>2. Behind(Then(k, e), k, n, e, two, B)
    BY <2>1, Concatenated
  <2>3. OfLength(buf, n + 2, B) /\ (\A i \in 1..n : buf[i] = k[i])
          /\ \A j \in 1..2 : buf[n + j] = e[j]
    BY <2>2 DEF Behind, Then, two
  <2> HIDE DEF buf
  <2> QED BY <1>2, <2>3 DEF OfLength
<1> HIDE DEF buf
<1>4. buf # NoKey
  BY <1>3, KeyAssumption DEF B, Byte
<1>5. n + 1 \in I /\ \A i \in I : n + 1 <= i
  <2>1. \A i \in 1..n : buf[i] \notin {10, 13}
    BY <1>3, LettersOf
  <2> QED BY <1>3, <2>1
<1>6. SelectInSeq(buf, LAMBDA b : b \in {10, 13}) = IF I # {} THEN Min(I) ELSE 0
  BY <1>3 DEF SelectInSeq
<1>7. Min(I) = n + 1
  <2>1. Min(I) = CHOOSE x \in I : \A y \in I : x <= y
    BY DEF Min
  <2>2. \A x \in I : (\A y \in I : x <= y) => x = n + 1
    BY <1>5
  <2> HIDE DEF I
  <2> QED BY <1>5, <2>1, <2>2
<1>8. \E i \in DOMAIN buf : buf[i] \in {10, 13}
  <2>1. n + 1 \in DOMAIN buf
    BY <1>3
  <2> QED BY <1>3, <2>1
<1>9. fetchSecKey(buf) = SubSeq(buf, 1, n)
  <2>1. SelectInSeq(buf, LAMBDA b : b \in {10, 13}) - 1 = n
    <3> HIDE DEF I
    <3> QED BY <1>5, <1>6, <1>7
  <2> QED BY <1>4, <1>8, <2>1 DEF fetchSecKey
<1>10. SubSeq(buf, 1, n) = k
  BY <1>1, <1>3
<1> QED BY <1>3, <1>4, <1>9, <1>10 DEF buf, e

\* What is hashed when n bytes of the key k were read: they, and the GUID.
HashedText(k, n) == Then(SubSeq(k, 1, n), GUID)

\* A string of bytes has one length.
LEMMA SameLength ==
  ASSUME NEW s, NEW m, NEW n, ByteString(s, m), ByteString(s, n)
  PROVE  m = n
BY DEF ByteString

(* The digest that belongs to a key, which no part of the key has          *)
(* (KeyAssumption).                                                        *)
LEMMA KeyDigest ==
  ASSUME NEW k \in Key
  PROVE  /\ SHA1[k] = SHA1Digest(Then(k, GUID))
         /\ \A n \in KeyCut : n # Len(k) /\ SHA1Digest(HashedText(k, n)) # SHA1[k]
<1>1. \A n \in KeyCut : n # Len(k)
  <2>1. PICK m \in Nat : Letters(k, m) /\ Len(k) = m
    BY KeyLetters
  <2>2. KeyCut \subseteq 0..(m - 1)
    BY <2>1, KeyAssumption
  <2> QED BY <2>1, <2>2
<1> QED BY <1>1, KeyAssumption DEF HashedText, Then

(* What was read of a key are letters, and the text that is hashed is short*)
(* enough.                                                                 *)
LEMMA TextBytes ==
  ASSUME NEW k \in Key, NEW n \in KeyCut \cup {Len(k)}
  PROVE  /\ n \in 0..Len(k) /\ Letters(SubSeq(k, 1, n), n)
              /\ (n = Len(k) => SubSeq(k, 1, n) = k)
         /\ \E l \in Nat : l < 8192 /\ ByteString(HashedText(k, n), l)
<1>1. PICK m \in Nat : Letters(k, m) /\ Len(k) = m
  BY KeyLetters
<1>2. n \in 0..m /\ Len(k) = m /\ m + Len(GUID) < 8192
  <2>1. KeyCut \subseteq 0..(Len(k) - 1) /\ Len(k) + Len(GUID) < 256
    BY KeyAssumption DEF WEB_SOCKET_KEY_LEN_MAX
  <2>2. Len(GUID) \in Nat
    <3> DEFINE A == 1..255
    <3>1. GUID \in Seq(A)
      BY KeyAssumption
    <3> HIDE DEF A
    <3> QED BY <3>1
  <2> QED BY <1>1, <2>1, <2>2
<1>3. Letters(SubSeq(k, 1, n), n) /\ (n = m => SubSeq(k, 1, n) = k)
  BY <1>1, <1>2, KeyPart
<1>4. ByteString(SubSeq(k, 1, n), n)
  BY <1>2, <1>3, LettersBytes
<1>5. \E l \in Nat : l < 8192 /\ ByteString(HashedText(k, n), l)
  <2> DEFINE S == Byte
             x == SubSeq(k, 1, n)
  <2>1. x \in Seq(S) /\ Len(x) = n
    BY <1>4 DEF ByteString
  <2>2. GUID \in Seq(S)
    <3> DEFINE A == 1..255
    <3>1. GUID \in Seq(A) /\ \A a \in A : a \in S
      BY KeyAssumption DEF Byte
    <3> HIDE DEF A, S
    <3> QED BY <3>1
  <2> HIDE DEF S, x
  <2>3. x \o GUID \in Seq(S) /\ Len(x \o GUID) = Len(x) + Len(GUID) /\ Len(GUID) \in Nat
    BY <2>1, <2>2
  <2>4. n + Len(GUID) \in Nat /\ n + Len(GUID) < 8192
    BY <1>2, <2>3
  <2> QED BY <2>1, <2>3, <2>4 DEF S, x, ByteString, HashedText, Then
<1> QED BY <1>2, <1>3, <1>5

(* What the client is told of its key.                                     *)
LEMMA AnswerStandard ==
  ASSUME NEW k \in Key, NEW n \in KeyCut \cup {Len(k)}
  PROVE  base64_encode(CString(SHA1Digest(HashedText(k, n)))) = Standard(k)
           <=> n = Len(k) /\ 0 \notin ToSet(SHA1[k])
<1> DEFINE D == SHA1Digest(HashedText(k, n))
           E == SHA1[k]
<1>0. \A m \in KeyCut \cup {Len(k)} : m = Len(k) => SubSeq(k, 1, m) = k
  BY TextBytes
<1>1. n = Len(k) => D = E
  <2>1. n = Len(k) => HashedText(k, n) = Then(k, GUID)
    BY <1>0 DEF HashedText
  <2>2. E = SHA1Digest(Then(k, GUID))
    BY KeyDigest
  <2> QED BY <2>1, <2>2
<1>2. n # Len(k) => D # E
  BY KeyDigest
<1>3. ASSUME NEW m \in KeyCut \cup {Len(k)} PROVE ByteString(SHA1Digest(HashedText(k, m)), 20)
  <2>1. PICK l \in Nat : l < 8192 /\ ByteString(HashedText(k, m), l)
    BY TextBytes
  <2>2. PICK N \in Nat \ {0} : Hashed(Hashes(HashedText(k, m)), HashedText(k, m), N)
    BY <2>1, HashesOf
  <2> QED BY <2>1, <2>2, DigestStandard
<1>4. ByteString(D, 20)
  BY <1>3
<1>5. ByteString(E, 20)
  <2>1. SubSeq(k, 1, Len(k)) = k
    BY <1>0
  <2>2. E = SHA1Digest(HashedText(k, Len(k)))
    BY <2>1, KeyDigest DEF HashedText
  <2> QED BY <1>3, <2>2
<1> HIDE DEF D, E
<1>6. CASE 0 \in ToSet(D)
  <2>1. PICK m \in Nat : m < 20 /\ ByteString(CString(D), m)
    <3>1. 20 \in Nat
      OBVIOUS
    <3> QED BY <1>4, <1>6, <3>1, CStringCut
  <2>2. CString(D) # E
    <3>1. ~(20 < 20)
      OBVIOUS
    <3> QED BY <1>5, <2>1, <3>1, SameLength
  <2>3. base64_encode(CString(D)) # base64_encode(E)
    <3>1. 20 \in Nat
      OBVIOUS
    <3> QED BY <1>5, <2>1, <2>2, <3>1, Base64Injective
  <2> QED BY <1>1, <1>6, <2>3 DEF D, E, Standard
<1>7. CASE 0 \notin ToSet(D)
  <2>1. CString(D) = D
    BY <1>7 DEF CString
  <2>2. base64_encode(D) = base64_encode(E) => D = E
    <3>1. 20 \in Nat
      OBVIOUS
    <3> QED BY <1>4, <1>5, <3>1, Base64Injective
  <2> QED BY <1>1, <1>2, <1>7, <2>1, <2>2 DEF D, E, Standard
<1> QED BY <1>6, <1>7

-----------------------------------------------------------------------------
(* The hash of sha1.h, step by step.                                       *)

\* Of the N blocks of s, those from j + 1 on.
Rest(s, j, N) == [i \in 1..(N - j) |-> Blocks(s)[j + i]]

\* w is the schedule of the block B so far, and u are the rounds done with it.
Under(B, h, w, u) ==
  /\ Len(w) \in 16..80 /\ w = Schedule(B)[Len(w)]
  /\ u.t \in 0..80 /\ u.v = Rounds(B, h)[u.t]

\* The blocks of the text s up to j are hashed, and perhaps a part of the next.
HashedUpTo(s, j, N, bs, d, w, u) ==
  /\ j \in 0..N /\ Hashed(Hashes(s), s, N)
  /\ bs = Rest(s, j, N) /\ d = Hashes(s)[j]
  /\ w = <<>> \/ (j < N /\ Under(Blocks(s)[j + 1], d, w, u))

\* The blocks that are left after j blocks.
LEMMA RestOf ==
  ASSUME NEW s, NEW N \in Nat \ {0}, NEW j \in 0..N, Hashed(Hashes(s), s, N)
  PROVE  /\ j = N <=> Rest(s, j, N) = <<>>
         /\ j = 0 => Rest(s, j, N) = Blocks(s)
         /\ j < N => /\ Head(Rest(s, j, N)) = Blocks(s)[j + 1]
                     /\ Tail(Rest(s, j, N)) = Rest(s, j + 1, N)
<1> DEFINE M == Blocks(s)
           r == Rest(s, j, N)
           S == Seq(Bit)
<1>1. M = [i \in 1..N |-> M[i]] /\ \A i \in 1..N : M[i] \in S
  BY DEF Hashed, BitString
<1> HIDE DEF M, S
<1>2. r = [i \in 1..(N - j) |-> M[j + i]]
  BY DEF Rest, M
<1>3. r \in Seq(S) /\ Len(r) = N - j
  <2>1. \A i \in 1..(N - j) : M[j + i] \in S
    BY <1>1
  <2>2. N - j \in Nat
    OBVIOUS
  <2> HIDE DEF r
  <2> QED BY <1>2, <2>1, <2>2
<1>4. j = N <=> r = <<>>
  <2>1. j = N => r = <<>>
    BY <1>2
  <2> HIDE DEF r
  <2>2. r = <<>> => Len(r) = 0
    OBVIOUS
  <2> QED BY <1>3, <2>1, <2>2
<1>5. j = 0 => r = M
  <2>1. j = 0 => r = [i \in 1..N |-> M[i]]
    BY <1>2
  <2> HIDE DEF r
  <2> QED BY <1>1, <2>1
<1>6. ASSUME j < N PROVE Head(r) = M[j + 1] /\ Tail(r) = Rest(s, j + 1, N)
  <2>1. Head(r) = r[1] /\ r[1] = M[j + 1]
    <3>1. 1 \in 1..(N - j)
      BY <1>6
    <3>2. r[1] = M[j + 1]
      BY <1>2, <3>1
    <3> HIDE DEF r
    <3>3. Head(r) = r[1]
      BY <1>3, <1>6
    <3> QED BY <3>2, <3>3
  <2>2. Tail(r) = [i \in 1..(N - (j + 1)) |-> r[i + 1]]
    <3> HIDE DEF r
    <3> DEFINE n == N - (j + 1)
    <3>1. n \in Nat /\ Len(r) = n + 1
      BY <1>3, <1>6
    <3> HIDE DEF n
    <3>2. Tail(r) \in Seq(S) /\ Len(Tail(r)) = n
      BY <1>3, <3>1
    <3>3. \A i \in 1..n : Tail(r)[i] = r[i + 1]
      BY <1>3, <3>1
    <3>4. Tail(r) = [i \in 1..n |-> Tail(r)[i]]
      <4> DEFINE q == Tail(r)
      <4>1. q \in Seq(S) /\ Len(q) = n
        BY <3>2
      <4> HIDE DEF q
      <4>2. q = [i \in 1..n |-> q[i]]
        BY <4>1
      <4> QED BY <4>2 DEF q
    <3>5. Tail(r) = [i \in 1..n |-> r[i + 1]]
      BY <3>3, <3>4
    <3> QED BY <3>5 DEF n
  <2>3. \A i \in 1..(N - (j + 1)) : r[i + 1] = M[(j + 1) + i]
    <3> SUFFICES ASSUME NEW i \in 1..(N - (j + 1)) PROVE r[i + 1] = M[(j + 1) + i]
      OBVIOUS
    <3>1. i + 1 \in 1..(N - j) /\ j + (i + 1) = (j + 1) + i
      BY <1>6
    <3>2. r[i + 1] = M[j + (i + 1)]
      BY <1>2, <3>1
    <3> QED BY <3>1, <3>2
  <2>4. Rest(s, j + 1, N) = [i \in 1..(N - (j + 1)) |-> M[(j + 1) + i]]
    BY DEF Rest, M
  <2> HIDE DEF r
  <2> QED BY <2>1, <2>2, <2>3, <2>4
<1> QED BY <1>4, <1>5, <1>6 DEF M

\* Block j + 1, and what it makes of the hash value before it.
LEMMA BlockBits ==
  ASSUME NEW s, NEW N \in Nat \ {0}, NEW j \in 0..N, j < N, Hashed(Hashes(s), s, N)
  PROVE  /\ BitString(Blocks(s)[j + 1], 512) /\ Hashes(s)[j] \in Five
         /\ Hashes(s)[j + 1]
              = Added(Hashes(s)[j], Rounds(Blocks(s)[j + 1], Hashes(s)[j])[80])
<1>1. j + 1 \in 1..N /\ (j + 1) - 1 = j
  OBVIOUS
<1>2. BitString(Blocks(s)[j + 1], 512) /\ Hashes(s)[j] \in Five
  BY <1>1 DEF Hashed
<1>3. \A n \in 1..N : Hashes(s)[n]
        = Added(Hashes(s)[n - 1], Rounds(Blocks(s)[n], Hashes(s)[n - 1])[80])
  BY DEF Hashed
<1>4. Hashes(s)[j + 1] = Added(Hashes(s)[(j + 1) - 1], Rounds(Blocks(s)[j + 1],
        Hashes(s)[(j + 1) - 1])[80])
  BY <1>1, <1>3
<1> QED BY <1>1, <1>2, <1>4

\* The first 16 words of the schedule are cut from the block (sha1.h:91-98).
LEMMA BlockBegins ==
  ASSUME NEW s, NEW N \in Nat \ {0}, NEW j \in Nat, NEW bs, NEW d, NEW w, NEW u,
         HashedUpTo(s, j, N, bs, d, w, u), w = <<>>, bs # <<>>
  PROVE  HashedUpTo(s, j, N, bs, d, Pieces(Head(bs), 32), [t |-> 0, v |-> d])
<1> DEFINE B == Blocks(s)[j + 1]
           p == Pieces(B, 32)
           z == [t |-> 0, v |-> d]
<1>1. j \in 0..N /\ Hashed(Hashes(s), s, N) /\ bs = Rest(s, j, N) /\ d = Hashes(s)[j]
  BY DEF HashedUpTo
<1>2. j < N /\ Head(bs) = B
  <2>1. j # N
    BY <1>1, RestOf
  <2>2. j < N
    BY <1>1, <2>1
  <2> QED BY <1>1, <2>2, RestOf
<1>3. BitString(B, 512) /\ d \in Five
  BY <1>1, <1>2, BlockBits
<1> HIDE DEF B
<1>4. Scheduled(Schedule(B), B) /\ Rounded(Rounds(B, d), B, d)
  BY <1>3, ScheduleOf, RoundsOf
<1>5. p = Schedule(B)[16] /\ Len(p) = 16
  <2>1. 16 \in 16..80 /\ p = Schedule(B)[16]
    BY <1>4 DEF Scheduled
  <2>2. WordsOf(Schedule(B)[16], 16)
    BY <1>4, <2>1 DEF Scheduled
  <2> QED BY <2>1, <2>2 DEF WordsOf
<1>6. d = Rounds(B, d)[0]
  BY <1>4 DEF Rounded
<1> HIDE DEF p
<1>7. z.t = 0 /\ z.v = d
  OBVIOUS
<1> HIDE DEF z
<1>8. Under(B, d, p, z)
  BY <1>5, <1>6, <1>7 DEF Under
<1> QED BY <1>1, <1>2, <1>8 DEF HashedUpTo, B, p, z

\* A schedule is not empty.
LEMMA Schedules ==
  ASSUME NEW w, Len(w) \in 16..80
  PROVE  w # <<>>
<1>1. w = <<>> => Len(w) = 0
  OBVIOUS
<1> QED BY <1>1

\* The indices of a schedule that grows.
LEMMA ScheduleLength ==
  ASSUME NEW l \in 16..79
  PROVE  l + 1 \in 17..80 /\ (l + 1) - 1 \in 16..80 /\ l + 1 \in 16..80 /\ (l + 1) - 1 = l
OBVIOUS

\* The hash of s is inside its block B.
Inside(s, j, N, bs, d, w, u, B) ==
  /\ j < N /\ j \in 0..N /\ Hashed(Hashes(s), s, N)
  /\ bs = Rest(s, j, N) /\ d = Hashes(s)[j]
  /\ Under(B, d, w, u)
  /\ Scheduled(Schedule(B), B) /\ Rounded(Rounds(B, d), B, d)

\* While W holds words the hash is inside block j + 1.
LEMMA InBlock ==
  ASSUME NEW s, NEW N \in Nat \ {0}, NEW j \in Nat, NEW bs, NEW d, NEW w, NEW u,
         HashedUpTo(s, j, N, bs, d, w, u), Len(w) \in 16..80
  PROVE  Inside(s, j, N, bs, d, w, u, Blocks(s)[j + 1])
<1>1. j \in 0..N /\ Hashed(Hashes(s), s, N) /\ bs = Rest(s, j, N) /\ d = Hashes(s)[j]
  BY DEF HashedUpTo
<1>2. w # <<>>
  BY Schedules
<1>3. j < N /\ Under(Blocks(s)[j + 1], d, w, u)
  BY <1>2 DEF HashedUpTo
<1>4. BitString(Blocks(s)[j + 1], 512) /\ d \in Five
  BY <1>1, <1>3, BlockBits
<1>5. Scheduled(Schedule(Blocks(s)[j + 1]), Blocks(s)[j + 1])
      /\ Rounded(Rounds(Blocks(s)[j + 1], d), Blocks(s)[j + 1], d)
  BY <1>4, ScheduleOf, RoundsOf
<1> QED BY <1>1, <1>3, <1>5 DEF Inside

\* W grows by a word of the schedule (sha1.h:100).
LEMMA WordExtends ==
  ASSUME NEW s, NEW N \in Nat \ {0}, NEW j \in Nat, NEW bs, NEW d, NEW w, NEW u,
         HashedUpTo(s, j, N, bs, d, w, u), Len(w) \in 16..79, NEW t, t = Len(w) + 1
  PROVE  HashedUpTo(s, j, N, bs, d,
           Append(w, SHA1CircularShift(1, Xor(Xor(w[t - 3], w[t - 8]),
                                              Xor(w[t - 14], w[t - 16])))), u)
<1> DEFINE B == Blocks(s)[j + 1]
           F == Schedule(B)
           x == Append(w, SHA1CircularShift(1, Xor(Xor(w[t - 3], w[t - 8]),
                                              Xor(w[t - 14], w[t - 16]))))
<1>1. /\ j < N /\ j \in 0..N /\ Hashed(Hashes(s), s, N)
      /\ bs = Rest(s, j, N) /\ d = Hashes(s)[j]
      /\ Under(B, d, w, u) /\ Scheduled(F, B)
  <2>1. Len(w) \in 16..80
    OBVIOUS
  <2>2. Inside(s, j, N, bs, d, w, u, B)
    BY <2>1, InBlock
  <2> HIDE DEF B
  <2> QED BY <2>2 DEF Inside
<1> HIDE DEF B, F
<1>2. t \in 17..80 /\ t - 1 \in 16..80 /\ w = F[t - 1] /\ WordsOf(F[t], t)
        /\ WordsOf(F[t - 1], t - 1)
  <2>1. t \in 17..80 /\ t - 1 \in 16..80 /\ t \in 16..80 /\ t - 1 = Len(w)
    BY ScheduleLength
  <2> QED BY <1>1, <2>1 DEF Under, Scheduled, F
<1>3. F[t] = Longer(F[t - 1], t)
  BY <1>1, <1>2 DEF Scheduled
<1>4. x = Longer(w, t)
  <2>1. SHA1CircularShift(1, Xor(Xor(w[t - 3], w[t - 8]), Xor(w[t - 14], w[t - 16])))
          = NextWord(w, t)
    BY <1>2, NextWordType
  <2> QED BY <2>1 DEF Longer
<1> HIDE DEF x
<1>5. x = F[t] /\ Len(x) = t
  BY <1>2, <1>3, <1>4 DEF WordsOf
<1>6. Under(B, d, x, u)
  <2>1. Len(x) \in 16..80 /\ x = Schedule(B)[Len(x)]
    <3>1. Len(x) \in 17..80
      BY <1>2, <1>5
    <3> QED BY <1>5, <3>1 DEF F
  <2> QED BY <1>1, <2>1 DEF Under
<1> QED BY <1>1, <1>6 DEF HashedUpTo, B, x

\* A round of sha1.h is a round of the standard (sha1.h:101-143).
LEMMA RoundTurns ==
  ASSUME NEW s, NEW N \in Nat \ {0}, NEW j \in Nat, NEW bs, NEW d, NEW w, NEW u,
         HashedUpTo(s, j, N, bs, d, w, u), Len(w) = 80, u.t < 80,
         NEW t, t = u.t, NEW v, v = u.v
  PROVE  HashedUpTo(s, j, N, bs, d, w,
           [t |-> t + 1,
            v |-> <<Plus(Plus(Plus(SHA1CircularShift(5, v[1]), Mix(t, v[2], v[3], v[4])),
                              Plus(v[5], w[t + 1])), K[t \div 20 + 1]),
                    v[1], SHA1CircularShift(30, v[2]), v[3], v[4]>>])
<1> DEFINE B == Blocks(s)[j + 1]
           F == Rounds(B, d)
           a == Plus(Plus(Plus(SHA1CircularShift(5, v[1]), Mix(t, v[2], v[3], v[4])),
                              Plus(v[5], w[t + 1])), K[t \div 20 + 1])
           y == [t |-> t + 1, v |-> <<a, v[1], SHA1CircularShift(30, v[2]), v[3], v[4]>>]
           r == t + 1
<1>1. /\ j < N /\ j \in 0..N /\ Hashed(Hashes(s), s, N)
      /\ bs = Rest(s, j, N) /\ d = Hashes(s)[j]
      /\ Under(B, d, w, u) /\ Scheduled(Schedule(B), B) /\ Rounded(F, B, d)
  <2>1. Len(w) \in 16..80
    OBVIOUS
  <2>2. Inside(s, j, N, bs, d, w, u, B)
    BY <2>1, InBlock
  <2> HIDE DEF B
  <2> QED BY <2>2 DEF Inside
<1> HIDE DEF B, F
<1>2. r \in 1..80 /\ r \in 0..80 /\ r - 1 = t /\ t \in 0..80 /\ v = F[t]
        /\ w = Schedule(B)[80]
  BY <1>1 DEF Under, F
<1>3. v \in Five
  BY <1>1, <1>2 DEF Rounded
<1>4. w[r] \in Word32
  <2> DEFINE n == 80
  <2>1. n \in Nat /\ WordsOf(w, n) /\ r \in 1..n
    BY <1>1, <1>2 DEF Scheduled
  <2> HIDE DEF n
  <2> QED BY <2>1, WordIn
<1>5. F[r] = Round(v, w[r], r)
  BY <1>1, <1>2 DEF Rounded
<1>6. a = First(v, w[r], r)
  <2>1. Plus(Plus(Plus(SHA1CircularShift(5, v[1]), Mix(r - 1, v[2], v[3], v[4])),
                      Plus(v[5], w[r])), K[((r - 1) \div 20) + 1]) = First(v, w[r], r)
    BY <1>2, <1>3, <1>4, FirstType
  <2> QED BY <1>2, <2>1
<1>7. SHA1CircularShift(30, v[2]) = ROTL(30, v[2])
  BY DEF SHA1CircularShift, ROTL
<1> HIDE DEF a
<1>8. y.t = r /\ y.v = F[r]
  <2>1. y.v = <<a, v[1], SHA1CircularShift(30, v[2]), v[3], v[4]>> /\ y.t = r
    OBVIOUS
  <2> HIDE DEF y
  <2> QED BY <1>5, <1>6, <1>7, <2>1 DEF Round
<1> HIDE DEF y
<1>9. Under(B, d, w, y)
  BY <1>1, <1>2, <1>8 DEF Under, F
<1> QED BY <1>1, <1>9 DEF HashedUpTo, B, y, a

\* The words are added to the hash value (sha1.h:144-150).
LEMMA BlockEnds ==
  ASSUME NEW s, NEW N \in Nat \ {0}, NEW j \in Nat, NEW bs, NEW d, NEW w, NEW u,
         HashedUpTo(s, j, N, bs, d, w, u), Len(w) = 80, u.t = 80,
         NEW e, e = [i \in 1..5 |-> Plus(d[i], u.v[i])]
  PROVE  j + 1 \in Nat /\ HashedUpTo(s, j + 1, N, Tail(bs), e, <<>>, u)
<1> DEFINE B == Blocks(s)[j + 1]
<1>1. /\ j < N /\ j \in 0..N /\ Hashed(Hashes(s), s, N)
      /\ bs = Rest(s, j, N) /\ d = Hashes(s)[j] /\ Under(B, d, w, u)
  <2>1. Len(w) \in 16..80
    OBVIOUS
  <2>2. Inside(s, j, N, bs, d, w, u, B)
    BY <2>1, InBlock
  <2> HIDE DEF B
  <2> QED BY <2>2 DEF Inside
<1>2. Tail(bs) = Rest(s, j + 1, N) /\ j + 1 \in 0..N
  BY <1>1, RestOf
<1>3. Hashes(s)[j + 1] = Added(d, u.v)
  <2>1. u.v = Rounds(B, d)[80]
    BY <1>1 DEF Under
  <2> QED BY <1>1, <2>1, BlockBits
<1>4. Hashes(s)[j + 1] = e
  BY <1>3 DEF Added
<1> QED BY <1>1, <1>2, <1>4 DEF HashedUpTo

\* Without blocks left the digest is the hash value of the standard.
LEMMA AllEnds ==
  ASSUME NEW s, NEW N \in Nat \ {0}, NEW j \in Nat, NEW bs, NEW d, NEW w, NEW u,
         HashedUpTo(s, j, N, bs, d, w, u), bs = <<>>
  PROVE  d = Hashes(s)[N] /\ w = <<>>
<1>1. j \in 0..N /\ Hashed(Hashes(s), s, N) /\ bs = Rest(s, j, N) /\ d = Hashes(s)[j]
  BY DEF HashedUpTo
<1>2. j = N
  BY <1>1, RestOf
<1> QED BY <1>1, <1>2 DEF HashedUpTo

\* The hash begins with all blocks of the padded text.
LEMMA AllBegins ==
  ASSUME NEW s, NEW n \in Nat, n < 8192, ByteString(s, n), NEW u
  PROVE  \E N \in Nat \ {0} : HashedUpTo(s, 0, N, Pieces(SHA1PadMessage(s), 512),
           SHA1Reset, <<>>, u)
<1>1. PICK N \in Nat \ {0} : Hashed(Hashes(s), s, N)
  BY HashesOf
<1>2. Pieces(SHA1PadMessage(s), 512) = Blocks(s)
  BY PadStandard DEF Blocks
<1>3. SHA1Reset = Hashes(s)[0]
  BY <1>1, InitialFive DEF Hashed
<1>4. 0 \in 0..N /\ Blocks(s) = Rest(s, 0, N)
  <2>1. 0 \in 0..N
    OBVIOUS
  <2> QED BY <1>1, <2>1, RestOf
<1> QED BY <1>1, <1>2, <1>3, <1>4 DEF HashedUpTo

-----------------------------------------------------------------------------
(* The invariant of the handshake.                                         *)

\* The first n bytes of the key were read.
ReadUpTo(n) ==
  /\ n \in KeyCut \cup {Len(key)} /\ (cut <=> n # Len(key))
  /\ \/ /\ hashing
        /\ \E N \in Nat \ {0}, j \in Nat :
             HashedUpTo(HashedText(key, n), j, N, blocks, digest, W, turn)
     \/ /\ ~hashing /\ W = <<>> /\ blocks = <<>>
        /\ answer = base64_encode(CString(SHA1Digest(HashedText(key, n))))

(* The inductive invariant of the key: while the digest is computed it is  *)
(* that of some part of the key, as far as the standard has come; once it  *)
(* was, the answer is written from it.                                     *)
KeyInv ==
  /\ phase \in {"new", "hashing", "answered"} => key \in Key
  /\ phase = "new" => W = <<>>
  /\ phase = "answered" => ~hashing
  /\ phase \in {"hashing", "answered"} => \E n : ReadUpTo(n)

\* At first nothing was read.
LEMMA KeyStarts == Init => KeyInv
BY DEF Init, InitHandshake, KeyInv

(* The server reads the request of the handshake, or a part of it, and     *)
(* begins the hash.                                                        *)
LEMMA KeyRead ==
  ASSUME KeyInv, ReadHandshake
  PROVE  KeyInv'
<1>1. phase = "new" /\ key \in Key /\ key' = key /\ W = <<>>
  BY DEF ReadHandshake, KeyInv
<1>2. PICK buf \in {NoKey} \cup {SubSeq(key, 1, n) : n \in KeyCut} \cup {key \o <<13,
             10>>} :
        /\ cut' = (buf = NoKey \/ Len(buf) < Len(key))
        /\ IF fetchSecKey(buf) = NoKey
           THEN phase' = "unanswered" /\ UNCHANGED handshakeVars
           ELSE phase' = "hashing" /\ BeginHash(fetchSecKey(buf))
  BY DEF ReadHandshake
<1>3. ASSUME NEW n \in KeyCut \cup {Len(key)}, fetchSecKey(buf) = SubSeq(key, 1, n),
             cut' <=> n # Len(key), buf # NoKey
      PROVE  KeyInv'
  <2> DEFINE s == HashedText(key, n)
  <2>1. /\ Letters(SubSeq(key, 1, n), n) /\ n \in 0..Len(key)
        /\ \E l \in Nat : l < 8192 /\ ByteString(s, l)
    BY <1>1, <1>3, TextBytes
  <2>2. n \in Nat
    <3>1. PICK m \in Nat : Letters(key, m) /\ Len(key) = m
      BY <1>1, KeyLetters
    <3> QED BY <2>1, <3>1
  <2>3. SubSeq(key, 1, n) # NoKey /\ CString(SubSeq(key, 1, n)) = SubSeq(key, 1, n)
    <3> DEFINE x == SubSeq(key, 1, n)
    <3>1. Letters(x, n)
      BY <2>1
    <3> HIDE DEF x
    <3>2. x # NoKey /\ CString(x) = x
      BY <2>2, <3>1, LettersBytes, CStringWhole
    <3> QED BY <3>2 DEF x
  <2>4. phase' = "hashing" /\ BeginHash(fetchSecKey(buf))
    BY <1>2, <1>3, <2>3
  <2>5. /\ hashing' = TRUE /\ blocks' = Pieces(SHA1PadMessage(s), 512)
             /\ digest' = SHA1Reset
        /\ W' = <<>> /\ turn' = turn
    BY <1>1, <1>3, <2>3, <2>4 DEF BeginHash, HashedText, Then
  <2>6. PICK N \in Nat \ {0} :
          HashedUpTo(s, 0, N, Pieces(SHA1PadMessage(s), 512), SHA1Reset, <<>>, turn)
    BY <2>1, AllBegins
  <2>7. HashedUpTo(HashedText(key', n), 0, N, blocks', digest', W', turn')
    BY <1>1, <2>5, <2>6
  <2>8. n \in KeyCut \cup {Len(key')} /\ (cut' <=> n # Len(key'))
    BY <1>1, <1>3
  <2>9. ReadUpTo(n)'
    <3>1. 0 \in Nat
      OBVIOUS
    <3> HIDE DEF s
    <3> QED BY <2>5, <2>7, <2>8, <3>1 DEF ReadUpTo
  <2> QED BY <1>1, <2>4, <2>9 DEF KeyInv
<1>4. CASE buf = NoKey
  <2>1. fetchSecKey(buf) = NoKey
    BY <1>4 DEF fetchSecKey
  <2> QED BY <1>2, <2>1 DEF KeyInv
<1>5. ASSUME NEW n \in KeyCut, buf = SubSeq(key, 1, n) PROVE KeyInv'
  <2>1. Letters(buf, n) /\ n \in 0..Len(key)
    BY <1>1, <1>5, TextBytes
  <2>2. PICK m \in Nat : Letters(key, m) /\ Len(key) = m
    BY <1>1, KeyLetters
  <2>3. n \in Nat /\ n < Len(key) /\ Len(buf) = n
    <3>1. n # Len(key)
      BY <1>1, KeyDigest
    <3> QED BY <2>1, <2>2, <3>1 DEF Letters
  <2>4. fetchSecKey(buf) = buf /\ buf # NoKey
    BY <2>1, <2>3, FetchPart, LettersBytes
  <2>5. cut' <=> n # Len(key)
    <3>1. Len(buf) < Len(key) /\ n # Len(key)
      BY <2>2, <2>3
    <3> QED BY <1>2, <3>1, Zenon
  <2> QED BY <1>3, <1>5, <2>4, <2>5
<1>6. CASE buf = key \o <<13, 10>>
  <2>1. PICK m \in Nat : Letters(key, m) /\ Len(key) = m
    BY <1>1, KeyLetters
  <2>2. fetchSecKey(buf) = key /\ buf # NoKey /\ Len(buf) = m + 2
    BY <1>6, <2>1, FetchWhole
  <2>3. SubSeq(key, 1, Len(key)) = key
    <3>1. m \in 0..m
      BY <2>1
    <3> QED BY <2>1, <3>1, KeyPart
  <2>4. cut' <=> Len(key) # Len(key)
    <3>1. ~(Len(buf) < Len(key))
      BY <2>1, <2>2
    <3> QED BY <1>2, <2>2, <3>1, Zenon
  <2> QED BY <1>3, <2>2, <2>3, <2>4
<1> QED BY <1>2, <1>4, <1>5, <1>6

\* A step of the hash; the last one writes the answer.
LEMMA KeyHashed ==
  ASSUME KeyInv, ComputeAcceptKey
  PROVE  KeyInv'
<1>1. phase = "hashing" /\ phase' = phase /\ key' = key /\ cut' = cut /\ key \in Key /\ Hash
  BY DEF ComputeAcceptKey, KeyInv
<1>2. PICK n : ReadUpTo(n)
  BY <1>1 DEF KeyInv
<1> DEFINE s == HashedText(key, n)
<1>3. s = HashedText(key', n) /\ n \in KeyCut \cup {Len(key')} /\ (cut' <=> n # Len(key'))
  BY <1>1, <1>2 DEF ReadUpTo
<1>4. hashing
  <2>1. ~hashing => W = <<>> /\ blocks = <<>>
    BY <1>2 DEF ReadUpTo
  <2>2. ASSUME W = <<>> /\ blocks = <<>> /\ ~hashing PROVE FALSE
    <3>1. Len(W) = 0
      BY <2>2
    <3>2. BeginBlock \/ ExtendW \/ Turn \/ EndBlock \/ EndHash
      BY <1>1 DEF Hash
    <3>3. ~BeginBlock /\ ~EndHash
      BY <2>2 DEF BeginBlock, EndHash
    <3>4. ~ExtendW /\ ~Turn /\ ~EndBlock
      BY <3>1 DEF ExtendW, Turn, EndBlock
    <3> QED BY <3>2, <3>3, <3>4
  <2> QED BY <2>1, <2>2
<1>5. PICK N \in Nat \ {0}, j \in Nat : HashedUpTo(s, j, N, blocks, digest, W, turn)
  BY <1>2, <1>4 DEF ReadUpTo
<1> HIDE DEF s
<1>6. SUFFICES \/ /\ hashing' = TRUE
                  /\ \E i \in Nat : HashedUpTo(s, i, N, blocks', digest', W', turn')
               \/ /\ hashing' = FALSE /\ W' = <<>> /\ blocks' = <<>>
                  /\ answer' = base64_encode(CString(SHA1Digest(s)))
  <2>1. ReadUpTo(n)'
    BY <1>3, <1>6 DEF ReadUpTo
  <2> QED BY <1>1, <2>1 DEF KeyInv
<1>7. CASE BeginBlock
  <2>1. W = <<>> /\ blocks # <<>> /\ hashing' = hashing /\ blocks' = blocks
          /\ digest' = digest
        /\ W' = Pieces(Head(blocks), 32) /\ turn' = [t |-> 0, v |-> digest]
    BY <1>7 DEF BeginBlock
  <2>2. HashedUpTo(s, j, N, blocks, digest, Pieces(Head(blocks), 32), [t |-> 0,
          v |-> digest])
    BY <1>5, <2>1, BlockBegins
  <2> QED BY <1>4, <2>1, <2>2
<1>8. CASE ExtendW
  <2> DEFINE t == Len(W) + 1
             w == Append(W, SHA1CircularShift(1, Xor(Xor(W[t - 3], W[t - 8]),
               Xor(W[t - 14], W[t - 16]))))
  <2>1. Len(W) \in 16..79 /\ hashing' = hashing /\ blocks' = blocks /\ digest' = digest
        /\ W' = w /\ turn' = turn
    BY <1>8 DEF ExtendW
  <2>2. HashedUpTo(s, j, N, blocks, digest, w, turn)
    BY <1>5, <2>1, WordExtends
  <2> HIDE DEF w
  <2> QED BY <1>4, <2>1, <2>2
<1>9. CASE Turn
  <2> DEFINE t == turn.t
             v == turn.v
             u == [t |-> t + 1,
                   v |-> <<Plus(Plus(Plus(SHA1CircularShift(5, v[1]), Mix(t, v[2],
                     v[3], v[4])),
                                     Plus(v[5], W[t + 1])), K[t \div 20 + 1]),
                           v[1], SHA1CircularShift(30, v[2]), v[3], v[4]>>]
  <2>1. Len(W) = 80 /\ turn.t < 80 /\ hashing' = hashing /\ blocks' = blocks
          /\ digest' = digest
        /\ W' = W /\ turn' = u
    BY <1>9 DEF Turn
  <2>2. HashedUpTo(s, j, N, blocks, digest, W, u)
    BY <1>5, <2>1, RoundTurns
  <2> HIDE DEF u
  <2> QED BY <1>4, <2>1, <2>2
<1>10. CASE EndBlock
  <2> DEFINE d == [i \in 1..5 |-> Plus(digest[i], turn.v[i])]
  <2>1. Len(W) = 80 /\ turn.t = 80 /\ hashing' = hashing /\ blocks' = Tail(blocks)
          /\ digest' = d
        /\ W' = <<>> /\ turn' = turn
    BY <1>10 DEF EndBlock
  <2>2. d = [i \in 1..5 |-> Plus(digest[i], turn.v[i])]
    OBVIOUS
  <2> HIDE DEF d
  <2>3. j + 1 \in Nat /\ HashedUpTo(s, j + 1, N, Tail(blocks), d, <<>>, turn)
    BY <1>5, <2>1, <2>2, BlockEnds
  <2> QED BY <1>4, <2>1, <2>3
<1>11. CASE EndHash
  <2>1. blocks = <<>> /\ hashing' = FALSE /\ answer' = base64_encode(CString(htoi(digest)))
        /\ blocks' = blocks /\ W' = W
    BY <1>11 DEF EndHash
  <2>2. digest = Hashes(s)[N] /\ W = <<>>
    BY <1>5, <2>1, AllEnds
  <2>3. PICK l \in Nat : l < 8192 /\ ByteString(s, l)
    BY <1>1, <1>2, TextBytes DEF s, ReadUpTo
  <2>4. htoi(Hashes(s)[N]) = SHA1Digest(s)
    <3>1. Hashed(Hashes(s), s, N)
      BY <1>5 DEF HashedUpTo
    <3> QED BY <2>3, <3>1, DigestStandard
  <2> QED BY <2>1, <2>2, <2>4
<1> QED BY <1>1, <1>7, <1>8, <1>9, <1>10, <1>11 DEF Hash

\* The answer is sent.
LEMMA KeyShaken ==
  ASSUME KeyInv, ShakeHand
  PROVE  KeyInv'
<1>1. phase = "hashing" /\ ~hashing /\ phase' = "answered" /\ key' = key
        /\ cut' = cut /\ UNCHANGED handshakeVars
  BY DEF ShakeHand
<1>2. PICK n : ReadUpTo(n)
  BY <1>1 DEF KeyInv
<1>3. ReadUpTo(n)'
  BY <1>1, <1>2 DEF ReadUpTo, handshakeVars
<1> QED BY <1>1, <1>3 DEF KeyInv, handshakeVars

\* Nothing else touches the key, the hash and the answer.
LEMMA KeyLeft ==
  ASSUME KeyInv, UNCHANGED <<handshakeVars, phase, key, cut>>
  PROVE  KeyInv'
<1>1. \A n : ReadUpTo(n) => ReadUpTo(n)'
  BY DEF ReadUpTo, handshakeVars
<1> QED BY <1>1 DEF KeyInv, handshakeVars

\* KeyInv holds always.
LEMMA KeyInvariance == Spec => []KeyInv
<1>1. KeyInv /\ [Next]_vars => KeyInv'
  <2> SUFFICES ASSUME KeyInv, [Next]_vars PROVE KeyInv'
    OBVIOUS
  <2>1. CASE ReadHandshake
    BY <2>1, KeyRead
  <2>2. CASE ComputeAcceptKey
    BY <2>2, KeyHashed
  <2>3. CASE ShakeHand
    BY <2>3, KeyShaken
  <2>4. CASE ClientChecks
    BY <2>4 DEF ClientChecks, KeyInv
  <2>5. CASE Arrive \/ Recv \/ Notice \/ ClientReads
    <3>1. UNCHANGED <<handshakeVars, phase, key, cut>>
      BY <2>5 DEF Arrive, Recv, Notice, ClientReads
    <3> QED BY <3>1, KeyLeft
  <2>6. CASE UNCHANGED vars
    <3>1. UNCHANGED <<handshakeVars, phase, key, cut>>
      BY <2>6 DEF vars
    <3> QED BY <3>1, KeyLeft
  <2> QED BY <2>1, <2>2, <2>3, <2>4, <2>5, <2>6 DEF Next
<1> QED BY KeyStarts, <1>1, PTL DEF Spec

(* The client is given the key the standard of websockets prescribes if and*)
(* only if the server read the whole handshake at once and no byte of the  *)
(* digest is 0, for every key: sha1.h and base64.h are the standard, and a *)
(* part of a key, or a digest cut at a 0, never gives the same answer by   *)
(* chance (requestReceiver.h:66-105).                                      *)
THEOREM Accepted == Spec => []KeyIsStandard
<1>1. KeyInv => KeyIsStandard
  <2> SUFFICES ASSUME KeyInv, phase = "answered"
               PROVE  answer = Standard(key) <=> ~cut /\ 0 \notin ToSet(SHA1[key])
    BY DEF KeyIsStandard
  <2>1. key \in Key /\ ~hashing
    BY DEF KeyInv
  <2>2. PICK n : ReadUpTo(n)
    BY DEF KeyInv
  <2>3. n \in KeyCut \cup {Len(key)} /\ (cut <=> n # Len(key))
        /\ answer = base64_encode(CString(SHA1Digest(HashedText(key, n))))
    BY <2>1, <2>2 DEF ReadUpTo
  <2>4. answer = Standard(key) <=> n = Len(key) /\ 0 \notin ToSet(SHA1[key])
    BY <2>1, <2>3, AnswerStandard
  <2> QED BY <2>3, <2>4
<1> QED BY KeyInvariance, <1>1, PTL

=============================================================================
