-------------------------- MODULE RecvBufferProofs --------------------------
(***************************************************************************)
(* The reassembly buffer is correct for every size of the number space,    *)
(* every initial sequence number and every length of the stream.           *)
(***************************************************************************)
EXTENDS RecvBufferSpec, RecvBufferLemmas

USE Zenon

(* The inductive invariant: the type invariant and the three properties    *)
(* that support each other.  BackPresent bounds the span by HALF, which is *)
(* what keeps the arithmetic of SlotsMatch within one turn.                *)
IInv ==
    /\ TypeOK
    /\ SlotsMatch
    /\ BackPresent
    /\ CountExact
-----------------------------------------------------------------------------
(* Moving the base forward by n, dropping what it passes, keeps the        *)
(* invariant when the true index moves by n too.                           *)
LEMMA AdvancePreserves ==
    ASSUME IInv, NEW n \in 1 .. HALF,
           buf' = Advance(buf, n), index' = index + n, out' \in Nat \cup {-1}
    PROVE  IInv'
<1> DEFINE S == Packet \cup {NoPacket}
<1>1. /\ buf.base \in SeqNumber
      /\ buf.slots \in Seq(S)
      /\ buf.received \in Nat
      /\ index \in Nat
      /\ Len(buf.slots) \in Nat
  BY SMT DEF IInv, TypeOK
<1>2. /\ buf'.base = Mask(buf.base + n)
      /\ buf'.slots = SubSeq(buf.slots, n + 1, Len(buf.slots))
      /\ buf'.received = buf.received - Cardinality({i \in Present(buf) : i <= n})
      /\ buf' = [base |-> buf'.base, slots |-> buf'.slots, received |-> buf'.received]
  BY DEF Advance
<1>3. HALF \in Nat /\ n \in Nat /\ n <= HALF
  BY HalfAssumption, SMT
<1> HIDE DEF S
<1>4. /\ buf'.slots \in Seq(S)
      /\ Len(buf'.slots) = IF n <= Len(buf.slots) THEN Len(buf.slots) - n ELSE 0
      /\ \A i \in 1 .. Len(buf.slots) - n : buf'.slots[i] = buf.slots[n + i]
  <2>1. /\ SubSeq(buf.slots, n + 1, Len(buf.slots)) \in Seq(S)
        /\ Len(SubSeq(buf.slots, n + 1, Len(buf.slots)))
              = IF n <= Len(buf.slots) THEN Len(buf.slots) - n ELSE 0
        /\ \A i \in 1 .. Len(buf.slots) - n :
              SubSeq(buf.slots, n + 1, Len(buf.slots))[i] = buf.slots[n + i]
    BY <1>1, <1>3, SuffixProperties
  <2> QED
    BY <1>2, <2>1
<1>5. /\ Present(buf') = {i \in 1 .. Len(buf.slots) - n : n + i \in Present(buf)}
      /\ Cardinality(Present(buf)) = Cardinality(Present(buf'))
                                      + Cardinality({i \in Present(buf) : i <= n})
  BY <1>1, <1>3, AdvancePresent, SMT
<1>6. CountExact'
  <2>1. buf.received = Cardinality(Present(buf))
    BY DEF IInv, CountExact
  <2>2. Cardinality(Present(buf')) \in Nat
    BY <1>1, <1>3, <1>4, PresentFinite, SMT
  <2>3. Cardinality({i \in Present(buf) : i <= n}) \in Nat
    <3>1. IsFiniteSet(Present(buf))
      BY <1>1, PresentFinite
    <3>2. {i \in Present(buf) : i <= n} \subseteq Present(buf)
      OBVIOUS
    <3> QED
      BY <3>1, <3>2, FS_Subset, FS_CardinalityType
  <2> DEFINE dropped == Cardinality({i \in Present(buf) : i <= n})
             kept == Cardinality(Present(buf'))
  <2>4. buf'.received = (kept + dropped) - dropped
    BY <1>2, <1>5, <2>1
  <2>5. kept \in Nat /\ dropped \in Nat
    BY <2>2, <2>3
  <2> HIDE DEF kept, dropped
  <2>6. buf'.received = kept
    BY <2>4, <2>5, SMT
  <2> QED
    BY <2>6 DEF kept, CountExact
<1>7. TypeOK'
  <2>1. buf'.base \in SeqNumber
    <3>1. buf.base + n \in Int /\ -COUNT <= buf.base + n /\ buf.base + n < 2 * COUNT
      BY <1>1, <1>3, SMT DEF SeqNumber, COUNT
    <3> QED
      BY <1>2, <3>1, MaskType
  <2>2. buf'.received \in Nat
    BY <1>1, <1>3, <1>4, <1>6, PresentFinite, SMT DEF CountExact
  <2>3. buf' \in [base : SeqNumber, slots : Seq(S), received : Nat]
    BY <1>2, <1>4, <2>1, <2>2
  <2>4. index' \in Nat
    BY <1>1, <1>3, SMT
  <2> QED
    BY <2>3, <2>4 DEF TypeOK, S
<1>8. SlotsMatch'
  <2> SUFFICES ASSUME NEW i \in Present(buf')
               PROVE  buf'.slots[i] = PacketAt(i - 1)'
    BY DEF SlotsMatch
  <2>1. /\ i \in 1 .. Len(buf.slots) - n
        /\ n + i \in Present(buf)
        /\ buf'.slots[i] = buf.slots[n + i]
    BY <1>4, <1>5
  <2>2. Len(buf.slots) <= HALF
    BY DEF IInv, BackPresent
  <2>3. buf.slots[n + i] = [seq     |-> Mask(buf.base + (n + i - 1)),
                           payload |-> index + (n + i - 1)]
    BY <2>1, SMT DEF IInv, SlotsMatch, PacketAt
  <2>4. i - 1 \in Int /\ -1 <= i - 1 /\ i - 1 <= HALF /\ n + i - 1 = n + (i - 1)
    BY <1>1, <1>3, <2>1, <2>2, DisplacementOf
  <2>5. Mask(Mask(buf.base + n) + (i - 1)) = Mask(buf.base + (n + (i - 1)))
    BY <1>1, <1>3, <2>4, MaskAdds
  <2>6. PacketAt(i - 1)' = [seq     |-> Mask(buf'.base + (i - 1)),
                            payload |-> index' + (i - 1)]
    BY DEF PacketAt
  <2>7. index + (n + (i - 1)) = (index + n) + (i - 1)
    BY <1>1, <1>3, <2>4, SMT
  <2> QED
    BY <1>2, <2>1, <2>3, <2>4, <2>5, <2>6, <2>7
<1>9. BackPresent'
  <2>1. /\ Len(buf.slots) <= HALF
        /\ buf.slots # <<>> => Len(buf.slots) \in Present(buf)
    BY DEF IInv, BackPresent
  <2>2. Len(buf'.slots) <= HALF
    BY <1>1, <1>3, <1>4, <2>1, SMT
  <2>3. ASSUME buf'.slots # <<>> PROVE Len(buf'.slots) \in Present(buf')
    <3>1. Len(buf'.slots) # 0
      BY <1>4, <2>3, SMT
    <3>2. Len(buf'.slots) = Len(buf.slots) - n /\ Len(buf.slots) > n
      BY <1>1, <1>3, <1>4, <3>1, SMT
    <3>3. buf.slots # <<>>
      BY <1>3, <3>2, SMT
    <3>4. n + Len(buf'.slots) = Len(buf.slots)
      BY <1>1, <1>3, <3>2, SMT
    <3> QED
      BY <1>1, <1>3, <1>5, <2>1, <3>2, <3>3, <3>4, SMT
  <2> QED
    BY <2>2, <2>3 DEF BackPresent
<1> QED
  BY <1>6, <1>7, <1>8, <1>9 DEF IInv

(* pop() is an advance to just past the first packet held.                 *)
LEMMA PopAdvances ==
    ASSUME IInv, ~ IsEmpty(buf)
    PROVE  /\ FirstPresent(buf) \in 1 .. HALF
           /\ Pop(buf) = Advance(buf, FirstPresent(buf))
           /\ Popped(buf).payload = index + FirstPresent(buf) - 1
           /\ index + FirstPresent(buf) - 1 \in Nat
<1> DEFINE n == FirstPresent(buf)
<1>1. /\ buf.base \in SeqNumber
      /\ index \in Nat
      /\ Len(buf.slots) \in Nat
  BY SMT DEF IInv, TypeOK
<1>2. n \in Present(buf) /\ \A j \in Present(buf) : n <= j
  BY <1>1, FirstPresentExists
<1>3. Present(buf) \subseteq 1 .. Len(buf.slots) /\ Len(buf.slots) <= HALF
  BY DEF Present, IInv, BackPresent
<1>4. n \in 1 .. HALF
  BY <1>1, <1>2, <1>3, HalfAssumption, SMT
<1>5. Popped(buf) = [seq |-> Mask(buf.base + (n - 1)), payload |-> index + (n - 1)]
  BY <1>2 DEF Popped, IInv, SlotsMatch, PacketAt
<1> HIDE DEF n
<1>6. SeqNext(Popped(buf).seq) = Mask(buf.base + n)
  <2>1. n - 1 \in Nat /\ n - 1 <= HALF /\ (n - 1) + 1 = n /\ HALF \in Nat /\ 1 <= HALF
    BY <1>4, HalfAssumption, SMT
  <2>2. Mask(Mask(buf.base + (n - 1)) + 1) = Mask(buf.base + ((n - 1) + 1))
    BY <1>1, <2>1, MaskAdds, SMT
  <2> QED
    BY <1>5, <2>1, <2>2, SMT DEF SeqNext
<1>7. Cardinality({i \in Present(buf) : i <= n}) = 1
  <2>1. {i \in Present(buf) : i <= n} = {n}
    BY <1>1, <1>2, <1>3, <1>4, SMT
  <2> QED
    BY <2>1, FS_Singleton
<1>8. Pop(buf) = Advance(buf, n)
  BY <1>6, <1>7 DEF Pop, Advance, n
<1>9. Popped(buf).payload = index + n - 1 /\ index + n - 1 \in Nat
  BY <1>1, <1>4, <1>5, SMT
<1> QED
  BY <1>4, <1>8, <1>9 DEF n

(* drop_range() is an advance to just past the range when the range        *)
(* reaches the base, and nothing otherwise.                                *)
LEMMA DropAdvances ==
    ASSUME IInv, NEW f \in Displacement, NEW l \in Displacement
    PROVE  DropRange(buf, Mask(buf.base + f), Mask(buf.base + l))
             = IF f <= 0 /\ 0 <= l THEN Advance(buf, l + 1) ELSE buf
<1> DEFINE first == Mask(buf.base + f)
           last == Mask(buf.base + l)
<1>1. buf.base \in SeqNumber
  BY DEF IInv, TypeOK
<1>2. f \in (-HALF) .. THRESHOLD /\ l \in (-HALF) .. THRESHOLD
  BY DEF Displacement
<1>3. f \in Int /\ l \in Int /\ l < HALF /\ HALF \in Nat /\ 1 <= HALF
  BY <1>2, HalfAssumption, SMT DEF THRESHOLD
<1>4. OffsetFrom(first, buf.base) = f /\ OffsetFrom(last, buf.base) = l
  BY <1>1, <1>2, OffsetOfDisplaced
<1> HIDE DEF first, last
<1>5. CASE f <= 0 /\ 0 <= l
  <2>1. ~ Before(last, buf.base) /\ ~ After(first, buf.base)
    BY <1>3, <1>4, <1>5, SMT DEF Before, After
  <2>2. SeqNext(last) = Mask(buf.base + (l + 1))
    BY <1>1, <1>3, <1>5, MaskAdds, SMT DEF SeqNext, last
  <2>3. DropRange(buf, first, last) = Advance(buf, l + 1)
    BY <1>4, <2>1, <2>2 DEF DropRange, Advance
  <2> QED
    BY <1>5, <2>3 DEF first, last
<1>6. CASE ~ (f <= 0 /\ 0 <= l)
  <2>1. Before(last, buf.base) \/ After(first, buf.base)
    BY <1>3, <1>4, <1>6, SMT DEF Before, After
  <2>2. DropRange(buf, first, last) = buf
    BY <2>1 DEF DropRange
  <2> QED
    BY <1>6, <2>2 DEF first, last
<1> QED
  BY <1>5, <1>6

(* insert() of a packet d past the base fills slot d + 1 and no other.     *)
LEMMA InsertFills ==
    ASSUME IInv, NEW d \in Displacement, Accepts(buf, PacketAt(d))
    PROVE  LET a == Insert(buf, PacketAt(d))
               n == IF d + 1 > Len(buf.slots) THEN d + 1 ELSE Len(buf.slots)
           IN  /\ d \in 0 .. THRESHOLD
               /\ d + 1 \notin Present(buf)
               /\ PacketAt(d) \in Packet
               /\ a.base = buf.base
               /\ a.received = buf.received + 1
               /\ a = [base |-> a.base, slots |-> a.slots, received |-> a.received]
               /\ a.slots \in Seq(Packet \cup {NoPacket})
               /\ Len(a.slots) = n
               /\ Present(a) = Present(buf) \cup {d + 1}
               /\ a.slots[d + 1] = PacketAt(d)
               /\ \A i \in Present(buf) : a.slots[i] = buf.slots[i]
<1> DEFINE S == Packet \cup {NoPacket}
           q == PacketAt(d)
           n == IF d + 1 > Len(buf.slots) THEN d + 1 ELSE Len(buf.slots)
           a == Insert(buf, q)
           t == [j \in 1 .. n |-> IF j = d + 1 THEN q
                                  ELSE IF j <= Len(buf.slots) THEN buf.slots[j]
                                  ELSE NoPacket]
<1>1. /\ buf = [base |-> buf.base, slots |-> buf.slots, received |-> buf.received]
      /\ buf.base \in SeqNumber
      /\ buf.slots \in Seq(S)
      /\ buf.received \in Nat
      /\ index \in Nat
      /\ Len(buf.slots) \in Nat
  BY SMT DEF IInv, TypeOK
<1>2. d \in (-HALF) .. THRESHOLD /\ index + d \in Nat
  BY <1>1, HalfAssumption, SMT DEF Displacement, THRESHOLD
<1>3. Mask(buf.base + d) \in SeqNumber /\ OffsetFrom(q.seq, buf.base) = d
  BY <1>1, <1>2, OffsetOfDisplaced DEF PacketAt
<1>4. d >= 0 /\ d + 1 \notin Present(buf)
  BY <1>3 DEF Accepts
<1>5. d \in 0 .. THRESHOLD /\ n \in Nat /\ d + 1 \in 1 .. n /\ Len(buf.slots) <= n
  BY <1>1, <1>2, <1>4, HalfAssumption, SMT DEF THRESHOLD
<1>6. q \in Packet
  BY <1>2, <1>3 DEF PacketAt, Packet
<1>7. q # NoPacket
  BY <1>6, SpecAssumption
<1>8. \A j \in 1 .. Len(buf.slots) : buf.slots[j] \in S
  BY <1>1, SMT
<1> HIDE DEF q
<1>9. t \in Seq(S) /\ Len(t) = n
  <2> HIDE DEF n
  <2>1. t \in [1 .. n -> S]
    BY <1>1, <1>5, <1>6, <1>8, SMT
  <2> HIDE DEF t
  <2>2. t \in Seq(S)
    BY <1>5, <2>1, SMT
  <2>3. DOMAIN t = 1 .. n /\ DOMAIN t = 1 .. Len(t) /\ Len(t) \in Nat
    BY <2>1, <2>2, SMT
  <2> QED
    BY <1>5, <2>2, <2>3, SMT
<1>10. /\ a.base = buf.base
       /\ a.slots = t
       /\ a.received = buf.received + 1
       /\ a = [base |-> a.base, slots |-> a.slots, received |-> a.received]
  <2>1. a = [buf EXCEPT !.slots = t, !.received = @ + 1]
    BY <1>3 DEF Insert
  <2> HIDE DEF a, t, n
  <2> QED
    BY <1>1, <2>1
<1>11. Present(a) = Present(buf) \cup {d + 1}
  <2>1. Present(a) = {i \in 1 .. n : t[i] # NoPacket}
    BY <1>9, <1>10 DEF Present
  <2>2. \A i \in 1 .. n : t[i] # NoPacket <=> i \in Present(buf) \cup {d + 1}
    BY <1>1, <1>5, <1>7, SMT DEF Present
  <2>3. Present(buf) \cup {d + 1} \subseteq 1 .. n
    BY <1>1, <1>5, SMT DEF Present
  <2> QED
    BY <2>1, <2>2, <2>3
<1>12. t[d + 1] = q /\ \A i \in Present(buf) : t[i] = buf.slots[i]
  BY <1>1, <1>4, <1>5, SMT DEF Present
<1> HIDE DEF a, t, n
<1>13. Len(a.slots) = n /\ a.slots \in Seq(S) /\ a.slots[d + 1] = q
       /\ \A i \in Present(buf) : a.slots[i] = buf.slots[i]
  BY <1>9, <1>10, <1>12
<1> QED
  BY <1>4, <1>5, <1>6, <1>10, <1>11, <1>13 DEF q, a, n

(* insert() keeps the invariant: the filled slot holds the packet of its   *)
(* true position, and a slot beyond the back becomes the back.             *)
LEMMA InsertPreserves ==
    ASSUME IInv, InsertPacket
    PROVE  IInv'
<1>1. PICK d \in Displacement : /\ Accepts(buf, PacketAt(d))
                                /\ buf' = Insert(buf, PacketAt(d))
                                /\ UNCHANGED <<index, out>>
  BY DEF InsertPacket
<1>2. /\ buf.base \in SeqNumber
      /\ buf.received \in Nat
      /\ index \in Nat
      /\ out \in Nat \cup {-1}
      /\ Len(buf.slots) \in Nat
  BY SMT DEF IInv, TypeOK
<1>3. /\ d \in 0 .. THRESHOLD
      /\ d + 1 \notin Present(buf)
      /\ buf'.base = buf.base
      /\ buf'.received = buf.received + 1
      /\ buf' = [base |-> buf'.base, slots |-> buf'.slots, received |-> buf'.received]
      /\ buf'.slots \in Seq(Packet \cup {NoPacket})
      /\ Len(buf'.slots) = IF d + 1 > Len(buf.slots) THEN d + 1 ELSE Len(buf.slots)
      /\ Present(buf') = Present(buf) \cup {d + 1}
      /\ buf'.slots[d + 1] = PacketAt(d)
      /\ \A i \in Present(buf) : buf'.slots[i] = buf.slots[i]
  BY <1>1, InsertFills
<1>4. TypeOK'
  BY <1>1, <1>2, <1>3, SMT DEF TypeOK
<1>5. SlotsMatch'
  <2> SUFFICES ASSUME NEW i \in Present(buf')
               PROVE  buf'.slots[i] = PacketAt(i - 1)
    BY <1>1, <1>3 DEF SlotsMatch, PacketAt
  <2>1. CASE i \in Present(buf)
    BY <1>3, <2>1 DEF IInv, SlotsMatch
  <2>2. CASE i = d + 1
    <3>1. i - 1 = d
      BY <1>3, <2>2, SMT
    <3> QED
      BY <1>3, <2>2, <3>1
  <2> QED
    BY <1>3, <2>1, <2>2
<1>6. BackPresent'
  <2>1. /\ Len(buf.slots) <= HALF
        /\ buf.slots # <<>> => Len(buf.slots) \in Present(buf)
    BY DEF IInv, BackPresent
  <2>2. d + 1 <= HALF /\ d + 1 > 0
    BY <1>3, HalfAssumption, SMT DEF THRESHOLD
  <2>3. Len(buf'.slots) <= HALF
    BY <1>3, <2>1, <2>2
  <2>4. CASE d + 1 > Len(buf.slots)
    BY <1>3, <2>3, <2>4 DEF BackPresent
  <2>5. CASE ~ (d + 1 > Len(buf.slots))
    <3>1. buf.slots # <<>>
      BY <1>2, <1>3, <2>2, <2>5
    <3> QED
      BY <1>3, <2>1, <2>3, <2>5, <3>1 DEF BackPresent
  <2> QED
    BY <2>4, <2>5
<1>7. CountExact'
  <2>1. IsFiniteSet(Present(buf))
    BY <1>2, PresentFinite
  <2>2. Cardinality(Present(buf) \cup {d + 1}) = Cardinality(Present(buf)) + 1
    BY <1>3, <2>1, FS_AddElement
  <2> QED
    BY <1>3, <2>2 DEF IInv, CountExact
<1> QED
  BY <1>4, <1>5, <1>6, <1>7 DEF IInv

(* The invariant holds initially.                                          *)
LEMMA InitEstablishes == Init => IInv
<1> SUFFICES ASSUME Init PROVE IInv
  OBVIOUS
<1>1. /\ buf = [base |-> InitialSeq, slots |-> <<>>, received |-> 0]
      /\ index = 0
      /\ out = -1
  BY DEF Init, NewRecvBuffer
<1>2. Present(buf) = {}
  BY <1>1, SMT DEF Present
<1>3. TypeOK
  BY <1>1, SpecAssumption, SMT DEF TypeOK
<1>4. SlotsMatch
  BY <1>2 DEF SlotsMatch
<1>5. BackPresent
  BY <1>1, HalfAssumption, SMT DEF BackPresent
<1>6. CountExact
  BY <1>1, <1>2, FS_EmptySet DEF CountExact
<1> QED
  BY <1>3, <1>4, <1>5, <1>6 DEF IInv

(* Every call on the buffer preserves the invariant.                       *)
LEMMA NextPreserves == IInv /\ [Next]_vars => IInv'
<1> SUFFICES ASSUME IInv, [Next]_vars PROVE IInv'
  OBVIOUS
<1>1. CASE InsertPacket
  BY <1>1, InsertPreserves
<1>2. CASE PopPacket
  <2>1. /\ ~ IsEmpty(buf)
        /\ buf' = Pop(buf)
        /\ index' = index + FirstPresent(buf)
        /\ out' = Popped(buf).payload
    BY <1>2 DEF PopPacket
  <2>2. /\ FirstPresent(buf) \in 1 .. HALF
        /\ buf' = Advance(buf, FirstPresent(buf))
        /\ out' \in Nat \cup {-1}
    BY <2>1, PopAdvances
  <2> QED
    BY <2>1, <2>2, AdvancePreserves
<1>3. CASE PopInOrder
  <2>1. /\ 1 \in Present(buf)
        /\ buf' = Pop(buf)
        /\ index' = index + 1
        /\ out' = Popped(buf).payload
    BY <1>3 DEF PopInOrder, CanPopInOrder
  <2>2. ~ IsEmpty(buf) /\ Len(buf.slots) \in Nat
    BY <2>1, SMT DEF IsEmpty, IInv, TypeOK
  <2>3. FirstPresent(buf) = 1
    <3>1. FirstPresent(buf) \in Present(buf) /\ FirstPresent(buf) <= 1
      BY <2>1, <2>2, FirstPresentExists
    <3> QED
      BY <2>2, <3>1, SMT DEF Present
  <2>4. /\ FirstPresent(buf) \in 1 .. HALF
        /\ buf' = Advance(buf, FirstPresent(buf))
        /\ out' \in Nat \cup {-1}
    BY <2>1, <2>2, PopAdvances
  <2> QED
    BY <2>1, <2>3, <2>4, AdvancePreserves
<1>4. CASE DropPackets
  <2>1. PICK f \in Displacement, l \in Displacement :
           /\ buf' = DropRange(buf, Mask(buf.base + f), Mask(buf.base + l))
           /\ index' = IF f <= 0 /\ 0 <= l THEN index + l + 1 ELSE index
           /\ out' = out
    BY <1>4 DEF DropPackets
  <2>2. buf' = IF f <= 0 /\ 0 <= l THEN Advance(buf, l + 1) ELSE buf
    BY <2>1, DropAdvances
  <2>3. index \in Nat /\ out \in Nat \cup {-1}
    BY DEF IInv, TypeOK
  <2>4. CASE f <= 0 /\ 0 <= l
    <3>1. l + 1 \in 1 .. HALF /\ index' = index + (l + 1)
      BY <2>1, <2>3, <2>4, HalfAssumption, SMT DEF Displacement, THRESHOLD
    <3> QED
      BY <2>1, <2>2, <2>3, <2>4, <3>1, AdvancePreserves
  <2>5. CASE ~ (f <= 0 /\ 0 <= l)
    <3>1. UNCHANGED vars
      BY <2>1, <2>2, <2>5 DEF vars
    <3> QED
      BY <3>1 DEF vars, IInv, TypeOK, SlotsMatch, PacketAt, BackPresent, CountExact
  <2> QED
    BY <2>4, <2>5
<1>5. CASE UNCHANGED vars
  BY <1>5 DEF vars, IInv, TypeOK, SlotsMatch, PacketAt, BackPresent, CountExact
<1> QED
  BY <1>1, <1>2, <1>3, <1>4, <1>5 DEF Next
-----------------------------------------------------------------------------
(* The inductive invariant holds throughout.                               *)
THEOREM InvariantHolds == Spec => []IInv
BY InitEstablishes, NextPreserves, PTL DEF Spec

(* Type correctness, in particular that `received` never goes below zero   *)
(* when pop() and drop_range() subtract from it.                           *)
THEOREM TypeCorrect == Spec => []TypeOK
<1>1. IInv => TypeOK
  BY DEF IInv
<1> QED
  BY <1>1, InvariantHolds, PTL

(* Every slot holds the packet of its true position, whatever the circular *)
(* numbers wrapped to.                                                     *)
THEOREM SlotsAlwaysMatch == Spec => []SlotsMatch
<1>1. IInv => SlotsMatch
  BY DEF IInv
<1> QED
  BY <1>1, InvariantHolds, PTL

(* The back slot is always present and the span never outgrows half of the *)
(* number space.                                                           *)
THEOREM BackAlwaysPresent == Spec => []BackPresent
<1>1. IInv => BackPresent
  BY DEF IInv
<1> QED
  BY <1>1, InvariantHolds, PTL

(* The incremental count is exact.                                         *)
THEOREM CountAlwaysExact == Spec => []CountExact
<1>1. IInv => CountExact
  BY DEF IInv
<1> QED
  BY <1>1, InvariantHolds, PTL

(* has_gaps() agrees with missing(): it follows from the exact count and   *)
(* from the presence of the back slot, not from either alone.              *)
THEOREM GapsAlwaysAgree == Spec => []GapsAgree
<1>1. ASSUME IInv PROVE GapsAgree
  <2>1. Len(buf.slots) \in Nat /\ buf.received = Cardinality(Present(buf))
    BY <1>1, SMT DEF IInv, TypeOK, CountExact
  <2>2. Present(buf) \subseteq 1 .. Len(buf.slots)
    BY DEF Present
  <2>3. IsFiniteSet(1 .. Len(buf.slots)) /\ Cardinality(1 .. Len(buf.slots)) = Len(buf.slots)
    BY <2>1, InitialSegment
  <2>4. HasGaps(buf) <=> Present(buf) # 1 .. Len(buf.slots)
    BY <2>1, <2>2, <2>3, FS_Subset DEF HasGaps
  <2> DEFINE absent == {j \in 1 .. Len(buf.slots) : j \notin Present(buf)
                                               /\ \E k \in Present(buf) : j < k}
  <2>5. Missing(buf) # {} <=> absent # {}
    BY DEF Missing
  <2>6. absent # {} <=> Present(buf) # 1 .. Len(buf.slots)
    <3>1. ASSUME NEW j \in 1 .. Len(buf.slots), j \notin Present(buf)
          PROVE  j \in absent
      <4>1. buf.slots # <<>>
        BY <2>1, SMT
      <4>2. Len(buf.slots) \in Present(buf)
        BY <1>1, <4>1 DEF IInv, BackPresent
      <4> QED
        BY <2>1, <3>1, <4>2, SMT
    <3> QED
      BY <2>2, <3>1
  <2> QED
    BY <2>4, <2>5, <2>6 DEF GapsAgree
<1> QED
  BY <1>1, InvariantHolds, PTL

(* The set missing_aged() works out by comparing circular numbers is the   *)
(* set of the packets that truly lag.                                      *)
LEMMA AgedTruly ==
    ASSUME IInv, NEW tolerance \in 0 .. THRESHOLD
    PROVE  MissingAged(buf, tolerance) = TrulyAged(tolerance)
<1> DEFINE n == Len(buf.slots)
           h == Highest(buf)
           t == Threshold(buf, h, tolerance)
           gaps == {j \in 1 .. n : j \notin Present(buf) /\ \E k \in Present(buf) : j < k}
           old == {j \in 1 .. n : j \notin Present(buf) /\ j + tolerance <= n}
           seq(j) == Mask(buf.base + j - 1)
<1>1. n \in Nat /\ n <= HALF /\ buf.base \in SeqNumber /\ tolerance \in Nat
  BY HalfAssumption, SMT DEF IInv, TypeOK, BackPresent, THRESHOLD
<1>2. Spanned(buf)
  BY <1>1 DEF Spanned
<1>3. Present(buf) \subseteq 1 .. n
  BY DEF Present
<1>4. n # 0 => n \in Present(buf)
  <2>1. buf.slots = <<>> => n = 0
    BY SMT
  <2> QED
    BY <2>1 DEF IInv, BackPresent
<1>5. \A j \in 1 .. n : SeqAdd(buf.base, j - 1) = seq(j)
  <2>1. \A j \in 1 .. n : buf.base + (j - 1) = buf.base + j - 1
    BY <1>1, SMT DEF SeqNumber, COUNT
  <2> QED
    BY <2>1 DEF SeqAdd
<1>6. Missing(buf) = {seq(j) : j \in gaps}
  BY <1>5 DEF Missing
<1>7. TrulyAged(tolerance) = {seq(j) : j \in old}
  BY DEF TrulyAged
<1> HIDE DEF n
<1>8. \A j \in 1 .. n : j \notin Present(buf) => j < n /\ n \in Present(buf)
  <2>1. \A j \in 1 .. n : n # 0 /\ (j # n => j < n)
    BY <1>1, SMT
  <2> QED
    BY <1>4, <2>1
<1>9. gaps = {j \in 1 .. n : j \notin Present(buf)}
  BY <1>8
<1>10. CASE tolerance = 0 \/ IsEmpty(buf)
  <2>1. MissingAged(buf, tolerance) = Missing(buf)
    BY <1>10 DEF MissingAged
  <2>2. tolerance = 0 => \A j \in 1 .. n : j + tolerance <= n
    BY <1>1, SMT
  <2>3. IsEmpty(buf) => 1 .. n = {}
    <3>1. IsEmpty(buf) => n = 0
      BY <1>4 DEF IsEmpty
    <3>2. 1 .. 0 = {}
      BY SMT
    <3> QED
      BY <3>1, <3>2
  <2>4. gaps = old
    BY <1>9, <1>10, <2>2, <2>3
  <2> QED
    BY <1>6, <1>7, <2>1, <2>4
<1>11. CASE ~ (tolerance = 0 \/ IsEmpty(buf))
  <2>1. h \in Present(buf) /\ \A j \in Present(buf) : j <= h
    BY <1>1, <1>11, HighestExists DEF n
  <2>2. h = n
    <3>1. h \in 1 .. n /\ n # 0
      BY <1>1, <1>3, <2>1, SMT
    <3>2. n <= h
      BY <1>4, <2>1, <3>1
    <3> QED
      BY <1>1, <3>1, <3>2, SMT
  <2>3. n \in 1 .. n
    BY <1>3, <2>1, <2>2
  <2>4. MissingAged(buf, tolerance) = {s \in Missing(buf) : ~ After(s, t)}
    BY <1>11 DEF MissingAged, Highest, Threshold
  <2>5. \A j \in 1 .. n : After(SeqAdd(buf.base, j - 1), t) <=> j + tolerance > n
    BY <1>2, <2>2, <2>3, ThresholdCompares DEF n
  <2>6. \A j \in 1 .. n : ~ After(seq(j), t) <=> j + tolerance <= n
    <3>1. \A j \in 1 .. n : j + tolerance <= n <=> ~ (j + tolerance > n)
      BY <1>1, SMT
    <3> QED
      BY <1>5, <2>5, <3>1
  <2> HIDE DEF t, h
  <2>7. MissingAged(buf, tolerance) = {seq(j) : j \in {i \in gaps : ~ After(seq(i), t)}}
    BY <1>6, <2>4
  <2>8. {i \in gaps : ~ After(seq(i), t)} = old
    BY <1>9, <2>6
  <2> QED
    BY <1>7, <2>7, <2>8
<1> QED
  BY <1>10, <1>11

(* A NAK names exactly the packets that are missing and old enough to be   *)
(* reported, and after it was written to the wire and read back it still   *)
(* does, for every tolerance of less than half of the number space.        *)
THEOREM NaksAlwaysNameMissing == Spec => []NakNamesMissing
<1>1. ASSUME IInv PROVE NakNamesMissing
  <2>1. SUFFICES ASSUME NEW tolerance \in 0 .. THRESHOLD
        PROVE  LET decoded == DecodeLoss(EncodeLoss(MissingAgedRanges(buf, tolerance)))
               IN  /\ MissingAged(buf, tolerance) = TrulyAged(tolerance)
                   /\ ~ decoded.truncated
                   /\ Names(decoded.ranges) = TrulyAged(tolerance)
    BY <2>1 DEF NakNamesMissing
  <2> DEFINE x == MissingAgedRanges(buf, tolerance)
  <2>2. Spanned(buf)
    BY <1>1, SMT DEF IInv, TypeOK, BackPresent, Spanned
  <2>3. x \in Seq(Ranges) /\ Names(x) = MissingAged(buf, tolerance)
    BY <2>2, MissingAgedRangesNames
  <2> HIDE DEF x
  <2>4. DecodeLoss(EncodeLoss(x)).ranges = x /\ ~ DecodeLoss(EncodeLoss(x)).truncated
    BY <2>3, LossListReadBack
  <2>5. MissingAged(buf, tolerance) = TrulyAged(tolerance)
    BY <1>1, AgedTruly
  <2> QED
    BY <2>3, <2>4, <2>5 DEF x
<1> QED
  BY <1>1, InvariantHolds, PTL
-----------------------------------------------------------------------------
(* The true indices of the packets in the buffer.                          *)
Held == {index + (i - 1) : i \in Present(buf)}

(* The refinement mapping's held set, read off the true positions.         *)
LEMMA HeldPayloads == IInv => {buf.slots[i].payload : i \in Present(buf)} = Held
<1> SUFFICES ASSUME IInv
             PROVE  {buf.slots[i].payload : i \in Present(buf)} = Held
  OBVIOUS
<1>1. ASSUME NEW i \in Present(buf)
      PROVE  buf.slots[i].payload = index + (i - 1)
  <2>1. buf.slots[i] = [seq |-> Mask(buf.base + (i - 1)), payload |-> index + (i - 1)]
    BY DEF IInv, SlotsMatch, PacketAt
  <2> QED
    BY <2>1, SMT
<1> QED
  BY <1>1 DEF Held

(* Moving the base by n forgets exactly the packets it passes.             *)
LEMMA AdvanceHeld ==
    ASSUME IInv, NEW n \in 1 .. HALF, buf' = Advance(buf, n), index' = index + n
    PROVE  Held' = {m \in Held : m >= index'}
<1>1. /\ buf.slots \in Seq(Packet \cup {NoPacket})
      /\ index \in Nat
      /\ Len(buf.slots) \in Nat
      /\ n \in Nat
      /\ Present(buf) \subseteq 1 .. Len(buf.slots)
  BY HalfAssumption, SMT DEF IInv, TypeOK, Present
<1>2. Present(buf') = {i \in 1 .. Len(buf.slots) - n : n + i \in Present(buf)}
  BY <1>1, AdvancePresent
<1>3. ASSUME NEW m \in Held' PROVE m \in Held /\ m >= index'
  <2>1. PICK i \in Present(buf') : m = index' + (i - 1)
    BY DEF Held
  <2>2. i \in 1 .. Len(buf.slots) - n /\ n + i \in Present(buf)
    BY <1>2
  <2>3. m = index + ((n + i) - 1) /\ m >= index'
    BY <1>1, <2>1, <2>2, SMT
  <2> QED
    BY <2>2, <2>3 DEF Held
<1>4. ASSUME NEW m \in Held, m >= index' PROVE m \in Held'
  <2>1. PICK i \in Present(buf) : m = index + (i - 1)
    BY DEF Held
  <2>2. i \in 1 .. Len(buf.slots)
    BY <1>1
  <2>3. /\ i - n \in 1 .. Len(buf.slots) - n
        /\ n + (i - n) = i
        /\ m = index' + ((i - n) - 1)
    BY <1>1, <1>4, <2>1, <2>2, SMT
  <2>4. i - n \in Present(buf')
    BY <1>2, <2>3
  <2> QED
    BY <2>3, <2>4 DEF Held
<1> QED
  BY <1>3, <1>4

(* Every step of the buffer is a step of the buffer on true indices.       *)
LEMMA StepRefines == IInv /\ IInv' /\ [Next]_vars => [Ordered!Next]_(Ordered!vars)
<1>0. (IInv => {buf.slots[i].payload : i \in Present(buf)} = Held)'
  BY HeldPayloads, PTL
<1> SUFFICES ASSUME IInv, IInv', [Next]_vars
             PROVE  [Ordered!Next]_(Ordered!vars)
  OBVIOUS
<1> DEFINE held == {buf.slots[i].payload : i \in Present(buf)}
<1>1. held = Held /\ held' = Held'
  BY <1>0, HeldPayloads
<1> HIDE DEF held
<1>2. /\ index \in Nat
      /\ Len(buf.slots) \in Nat
      /\ Present(buf) \subseteq 1 .. Len(buf.slots)
  BY SMT DEF IInv, TypeOK, Present
<1>3. CASE InsertPacket
  <2>1. PICK d \in Displacement : /\ Accepts(buf, PacketAt(d))
                                  /\ buf' = Insert(buf, PacketAt(d))
                                  /\ UNCHANGED <<index, out>>
    BY <1>3 DEF InsertPacket
  <2>2. /\ d \in 0 .. THRESHOLD
        /\ d + 1 \notin Present(buf)
        /\ Present(buf') = Present(buf) \cup {d + 1}
    BY <2>1, InsertFills
  <2>3. d \in Nat
    BY <2>2, HalfAssumption, SMT DEF THRESHOLD
  <2>4. index + d \notin Held
    BY <1>2, <2>2, <2>3, SMT DEF Held
  <2>5. Held' = Held \cup {index + d}
    <3>1. Held' = {index + (i - 1) : i \in Present(buf) \cup {d + 1}}
      BY <2>1, <2>2 DEF Held
    <3>2. index + ((d + 1) - 1) = index + d
      BY <1>2, <2>3, SMT
    <3> QED
      BY <3>1, <3>2 DEF Held
  <2>6. index + d \in Nat /\ index + d >= index
    BY <1>2, <2>3, SMT
  <2>7. Ordered!Receive
    BY <1>1, <2>1, <2>4, <2>5, <2>6 DEF Ordered!Receive, held
  <2> QED
    BY <2>7 DEF Ordered!Next
<1>4. ASSUME ~ IsEmpty(buf), buf' = Pop(buf), out' = Popped(buf).payload,
             index' = index + FirstPresent(buf)
      PROVE  Ordered!Deliver
  <2> DEFINE n == FirstPresent(buf)
             m == index + (n - 1)
  <2>1. n \in Present(buf) /\ \A j \in Present(buf) : n <= j
    BY <1>2, <1>4, FirstPresentExists
  <2>2. n \in 1 .. HALF /\ buf' = Advance(buf, n) /\ out' = index + n - 1
    BY <1>4, PopAdvances
  <2>3. HALF \in Nat /\ n \in Int
    BY <2>2, HalfAssumption, SMT
  <2>4. Held' = {k \in Held : k >= index'}
    BY <1>4, <2>2, AdvanceHeld
  <2> HIDE DEF n
  <2>5. out' = m /\ index' = m + 1
    BY <1>2, <1>4, <2>2, <2>3, SMT DEF n
  <2>6. m \in Held
    BY <2>1 DEF Held
  <2>7. \A k \in Held : k \in Int /\ m <= k
    BY <1>2, <2>1, <2>3, SMT DEF Held
  <2>8. Held' = Held \ {m}
    BY <1>2, <2>3, <2>4, <2>5, <2>7, SMT
  <2> HIDE DEF m
  <2> QED
    BY <1>1, <2>5, <2>6, <2>7, <2>8 DEF Ordered!Deliver, held
<1>5. CASE PopPacket
  BY <1>4, <1>5 DEF PopPacket, Ordered!Next
<1>6. CASE PopInOrder
  <2>1. 1 \in Present(buf) /\ ~ IsEmpty(buf)
    BY <1>6 DEF PopInOrder, CanPopInOrder, IsEmpty
  <2>2. FirstPresent(buf) \in Present(buf) /\ FirstPresent(buf) <= 1
    BY <1>2, <2>1, FirstPresentExists
  <2>3. FirstPresent(buf) = 1
    BY <1>2, <2>2, SMT
  <2> QED
    BY <1>4, <1>6, <2>1, <2>3 DEF PopInOrder, Ordered!Next
<1>7. CASE DropPackets
  <2>1. PICK f \in Displacement, l \in Displacement :
           /\ buf' = DropRange(buf, Mask(buf.base + f), Mask(buf.base + l))
           /\ index' = IF f <= 0 /\ 0 <= l THEN index + l + 1 ELSE index
           /\ out' = out
    BY <1>7 DEF DropPackets
  <2>2. buf' = IF f <= 0 /\ 0 <= l THEN Advance(buf, l + 1) ELSE buf
    BY <2>1, DropAdvances
  <2>3. CASE f <= 0 /\ 0 <= l
    <3>1. l + 1 \in 1 .. HALF /\ index' = index + (l + 1)
      BY <1>2, <2>1, <2>3, HalfAssumption, SMT DEF Displacement, THRESHOLD
    <3>2. Held' = {m \in Held : m >= index'}
      BY <2>2, <2>3, <3>1, AdvanceHeld
    <3>3. index' \in Nat /\ index' > index
      BY <1>2, <3>1, SMT
    <3>4. Ordered!GiveUp
      BY <1>1, <2>1, <3>2, <3>3 DEF Ordered!GiveUp, held
    <3> QED
      BY <3>4 DEF Ordered!Next
  <2>4. CASE ~ (f <= 0 /\ 0 <= l)
    <3>1. buf' = buf /\ index' = index /\ out' = out
      BY <2>1, <2>2, <2>4
    <3> QED
      BY <3>1 DEF Ordered!vars
  <2> QED
    BY <2>3, <2>4
<1>8. CASE UNCHANGED vars
  BY <1>8 DEF vars, Ordered!vars
<1> QED
  BY <1>3, <1>5, <1>6, <1>7, <1>8 DEF Next

(* The reassembly buffer, which sees only circular numbers, implements the *)
(* buffer on true indices: packets leave it in order, each at most once.   *)
THEOREM RefinesOrderedBuffer == Spec => ImplementsOrderedBuffer
<1>1. Init => Ordered!Init
  BY SMT DEF Init, Ordered!Init, NewRecvBuffer, Present
<1>2. IInv /\ IInv' /\ [Next]_vars => [Ordered!Next]_(Ordered!vars)
  BY StepRefines
<1>3. Spec => Ordered!Spec
  BY <1>1, <1>2, InvariantHolds, PTL DEF Spec, Ordered!Spec
<1> QED
  BY <1>3 DEF ImplementsOrderedBuffer
=============================================================================
