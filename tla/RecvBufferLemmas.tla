-------------------------- MODULE RecvBufferLemmas --------------------------
(***************************************************************************)
(* Facts about the circular numbers and the reassembly buffer's operators, *)
(* for every buffer and not only the ones a specification reaches.         *)
(***************************************************************************)
EXTENDS LossList, FiniteSetTheorems, TLAPS

USE Zenon

(* Reduction brings a number within one turn of the space into it.         *)
LEMMA MaskType ==
    ASSUME NEW n \in Int, -COUNT <= n, n < 2 * COUNT
    PROVE  Mask(n) \in SeqNumber
BY HalfAssumption, SMT DEF Mask, SeqNumber, COUNT

(* offset_from recovers a displacement of less than half the space,        *)
(* forwards or backwards, whether or not the number wrapped.               *)
LEMMA OffsetOfDisplaced ==
    ASSUME NEW base \in SeqNumber, NEW d \in (-HALF) .. THRESHOLD
    PROVE  /\ Mask(base + d) \in SeqNumber
           /\ OffsetFrom(Mask(base + d), base) = d
BY HalfAssumption, SMT DEF OffsetFrom, Mask, SeqNumber, COUNT, THRESHOLD

(* Two forward displacements add up, wherever the number wraps.            *)
LEMMA MaskAdds ==
    ASSUME NEW base \in SeqNumber, NEW m \in Nat, NEW n \in Int,
           m <= HALF, -1 <= n, n <= HALF
    PROVE  Mask(Mask(base + m) + n) = Mask(base + (m + n))
BY HalfAssumption, SMT DEF Mask, SeqNumber, COUNT

(* A slot that is left after n are dropped from at most h is less than h   *)
(* after the new base.                                                     *)
LEMMA DisplacementOf ==
    ASSUME NEW h \in Nat, NEW l \in Nat, l <= h, NEW n \in Nat, NEW i \in 1 .. l - n
    PROVE  i - 1 \in Int /\ -1 <= i - 1 /\ i - 1 <= h /\ n + i - 1 = n + (i - 1)
BY SMT
-----------------------------------------------------------------------------
(* A nonempty set of naturals has a least element.                         *)
LEMMA LeastNat ==
    ASSUME NEW T, T \subseteq Nat, T # {}
    PROVE  \E x \in T : \A y \in T : x <= y
<1> DEFINE R == {ss \in Nat \X Nat : ss[1] < ss[2]}
<1>1. IsWellFoundedOn(R, Nat)
  BY NatLessThanWellFounded DEF OpToRel
<1>2. PICK x \in T : \A y \in T : ~ (<<y, x>> \in R)
  <2> HIDE DEF R
  <2> QED
    BY <1>1, WFMin
<1>3. ASSUME NEW y \in T PROVE x <= y
  <2>1. <<y, x>> \in Nat \X Nat
    OBVIOUS
  <2>2. ~ (<<y, x>>[1] < <<y, x>>[2])
    BY <1>2, <2>1
  <2> QED
    BY <2>2, SMT
<1> QED
  BY <1>3

(* The filled slots are a finite set of positive positions.                *)
LEMMA PresentFinite ==
    ASSUME NEW b, Len(b.slots) \in Nat
    PROVE  /\ Present(b) \subseteq 1 .. Len(b.slots)
           /\ IsFiniteSet(Present(b))
           /\ Cardinality(Present(b)) \in Nat
<1>1. Present(b) \subseteq 1 .. Len(b.slots)
  BY DEF Present
<1>2. IsFiniteSet(1 .. Len(b.slots))
  BY FS_Interval, SMT
<1>3. IsFiniteSet(Present(b))
  BY <1>1, <1>2, FS_Subset
<1> QED
  BY <1>1, <1>3, FS_CardinalityType

(* A nonempty buffer has a first packet.                                   *)
LEMMA FirstPresentExists ==
    ASSUME NEW b, Len(b.slots) \in Nat, ~ IsEmpty(b)
    PROVE  /\ FirstPresent(b) \in Present(b)
           /\ \A j \in Present(b) : FirstPresent(b) <= j
<1>1. PICK i \in Present(b) : \A j \in Present(b) : i <= j
  <2>1. Present(b) \subseteq Nat /\ Present(b) # {}
    BY SMT DEF Present, IsEmpty
  <2> QED
    BY <2>1, LeastNat
<1> QED
  BY <1>1 DEF FirstPresent
-----------------------------------------------------------------------------
(* What is left of a sequence without its first n elements.                *)
LEMMA SuffixProperties ==
    ASSUME NEW S, NEW s \in Seq(S), NEW n \in Nat
    PROVE  /\ SubSeq(s, n + 1, Len(s)) \in Seq(S)
           /\ Len(SubSeq(s, n + 1, Len(s))) = IF n <= Len(s) THEN Len(s) - n ELSE 0
           /\ \A i \in 1 .. Len(s) - n : SubSeq(s, n + 1, Len(s))[i] = s[n + i]
<1>1. Len(s) \in Nat /\ \A i \in n + 1 .. Len(s) : s[i] \in S
  BY SMT
<1>2. /\ SubSeq(s, n + 1, Len(s)) \in Seq(S)
      /\ Len(SubSeq(s, n + 1, Len(s)))
            = IF n + 1 <= Len(s) THEN Len(s) - (n + 1) + 1 ELSE 0
      /\ \A i \in 1 .. Len(s) - (n + 1) + 1 :
            SubSeq(s, n + 1, Len(s))[i] = s[(n + 1) + i - 1]
  BY <1>1, SMT
<1> QED
  BY <1>1, <1>2, SMT

(* The positions up to m are m in number.                                  *)
LEMMA InitialSegment ==
    ASSUME NEW m \in Nat
    PROVE  IsFiniteSet(1 .. m) /\ Cardinality(1 .. m) = m
<1>1. 1 \in Int /\ m \in Int
  BY SMT
<1>2. IsFiniteSet(1 .. m) /\ Cardinality(1 .. m) = IF 1 > m THEN 0 ELSE m - 1 + 1
  BY <1>1, FS_Interval
<1> QED
  BY <1>2, SMT

(* Of a set of positions, those beyond n, shifted down by n, and those up  *)
(* to n make up the count.                                                 *)
LEMMA ShiftedCardinality ==
    ASSUME NEW m \in Nat, NEW n \in Nat, NEW P, P \subseteq 1 .. m
    PROVE  Cardinality(P) = Cardinality({i \in 1 .. m - n : n + i \in P})
                              + Cardinality({i \in P : i <= n})
<1> DEFINE dropped == {i \in P : i <= n}
           kept == {i \in P : i > n}
           moved == {i \in 1 .. m - n : n + i \in P}
           shift == [i \in moved |-> n + i]
<1>1. IsFiniteSet(1 .. m) /\ IsFiniteSet(1 .. m - n)
  BY FS_Interval, SMT
<1>2. IsFiniteSet(kept) /\ IsFiniteSet(dropped) /\ IsFiniteSet(moved)
  <2>1. kept \in SUBSET (1 .. m) /\ dropped \in SUBSET (1 .. m)
    OBVIOUS
  <2>2. moved \in SUBSET (1 .. m - n)
    OBVIOUS
  <2> HIDE DEF kept, dropped, moved
  <2> QED
    BY <1>1, <2>1, <2>2, FS_Subset
<1>3. P = kept \cup dropped /\ kept \cap dropped = {}
  <2>1. \A i \in P : i \in kept <=> i \notin dropped
    BY SMT
  <2>2. kept \subseteq P /\ dropped \subseteq P
    OBVIOUS
  <2> HIDE DEF kept, dropped
  <2> QED
    BY <2>1, <2>2
<1>4. shift \in Bijection(moved, kept)
  <2>1. shift \in [moved -> kept]
    BY SMT
  <2>2. \A i, j \in moved : shift[i] = shift[j] => i = j
    BY SMT
  <2>3. ASSUME NEW k \in kept PROVE \E i \in moved : shift[i] = k
    <3>1. k - n \in moved /\ shift[k - n] = k
      BY SMT
    <3> QED
      BY <3>1
  <2> HIDE DEF shift, moved, kept
  <2> QED
    BY <2>1, <2>2, <2>3 DEF Bijection, Injection, Surjection, IsInjective
<1> HIDE DEF shift, moved, kept, dropped
<1>5. Cardinality(moved) = Cardinality(kept)
  BY <1>2, <1>4, FS_Bijection DEF ExistsBijection
<1>6. Cardinality(kept \cup dropped)
        = Cardinality(kept) + Cardinality(dropped) - Cardinality(kept \cap dropped)
  BY <1>2, FS_Union
<1>7. Cardinality(kept) \in Nat /\ Cardinality(dropped) \in Nat
  BY <1>2, FS_CardinalityType
<1>8. Cardinality(kept \cap dropped) = 0
  BY <1>3, FS_EmptySet
<1>9. Cardinality(P) = Cardinality(kept \cup dropped)
  BY <1>3
<1>10. Cardinality(P) = Cardinality(moved) + Cardinality(dropped)
  BY <1>5, <1>6, <1>7, <1>8, <1>9, SMT
<1> QED
  BY <1>10 DEF moved, dropped

(* Advancing by n shifts the filled slots down by n, and uncounts exactly  *)
(* the ones it drops.                                                      *)
LEMMA AdvancePresent ==
    ASSUME NEW S, NEW b, b.slots \in Seq(S), NEW n \in Nat
    PROVE  /\ Present(Advance(b, n))
                = {i \in 1 .. Len(b.slots) - n : n + i \in Present(b)}
           /\ Cardinality(Present(b)) = Cardinality(Present(Advance(b, n)))
                                          + Cardinality({i \in Present(b) : i <= n})
<1> DEFINE a == Advance(b, n)
<1>1. Len(b.slots) \in Nat
  BY SMT
<1>2. a.slots = SubSeq(b.slots, n + 1, Len(b.slots))
  BY DEF Advance
<1>3. /\ Len(a.slots) = IF n <= Len(b.slots) THEN Len(b.slots) - n ELSE 0
      /\ \A i \in 1 .. Len(b.slots) - n : a.slots[i] = b.slots[n + i]
  <2>1. /\ Len(SubSeq(b.slots, n + 1, Len(b.slots)))
              = IF n <= Len(b.slots) THEN Len(b.slots) - n ELSE 0
        /\ \A i \in 1 .. Len(b.slots) - n :
              SubSeq(b.slots, n + 1, Len(b.slots))[i] = b.slots[n + i]
    BY SuffixProperties
  <2> QED
    BY <1>2, <2>1
<1>4. Present(a) = {i \in 1 .. Len(b.slots) - n : n + i \in Present(b)}
  <2> HIDE DEF a
  <2>1. 1 .. Len(a.slots) = 1 .. Len(b.slots) - n
    BY <1>1, <1>3, SMT
  <2>2. \A i \in 1 .. Len(b.slots) - n : n + i \in 1 .. Len(b.slots)
    BY <1>1, SMT
  <2>3. Present(a) = {i \in 1 .. Len(b.slots) - n : a.slots[i] # NoPacket}
    BY <2>1 DEF Present
  <2>4. \A i \in 1 .. Len(b.slots) - n : a.slots[i] # NoPacket <=> n + i \in Present(b)
    BY <1>3, <2>2 DEF Present
  <2> QED
    BY <2>3, <2>4
<1>5. Present(b) \subseteq 1 .. Len(b.slots)
  BY DEF Present
<1>6. Cardinality(Present(b))
        = Cardinality({i \in 1 .. Len(b.slots) - n : n + i \in Present(b)})
            + Cardinality({i \in Present(b) : i <= n})
  BY <1>1, <1>5, ShiftedCardinality
<1> QED
  BY <1>4, <1>6
-----------------------------------------------------------------------------
(* Induction over the numbers up to n, for a set of them.                  *)
LEMMA UpTo ==
    ASSUME NEW n \in Nat, NEW T, 0 \in T,
           \A k \in 0 .. n : k + 1 \in 0 .. n /\ k \in T => k + 1 \in T
    PROVE  \A k \in 0 .. n : k \in T
<1> DEFINE bad == {k \in 0 .. n : k \notin T}
<1>1. SUFFICES ASSUME bad # {} PROVE FALSE
  BY <1>1
<1>2. bad \subseteq Nat
  BY SMT
<1>3. PICK x \in bad : \A y \in bad : x <= y
  <2> HIDE DEF bad
  <2> QED
    BY <1>1, <1>2, LeastNat
<1>4. x # 0 /\ x \in Nat /\ x <= n
  BY <1>3, SMT
<1>5. x - 1 \in 0 .. n /\ (x - 1) + 1 = x /\ ~ (x <= x - 1)
  BY <1>4, SMT
<1>6. x - 1 \in T
  BY <1>3, <1>5
<1> QED
  BY <1>3, <1>5, <1>6

Loops(f, n, init, step) == f[0] = init /\ \A i \in 1 .. n : f[i] = step[i][f[i - 1]]
LoopOver(n, V, init, step) == n \in Nat /\ init \in V /\ step \in [1 .. n -> [V -> V]]

(* A loop of n turns over values of V: turn i makes step[i][v] of v.       *)
LEMMA Loop ==
    ASSUME NEW n, NEW V, NEW init, NEW step, LoopOver(n, V, init, step)
    PROVE  \E f \in [0 .. n -> V] : Loops(f, n, init, step)
<1> USE DEF LoopOver
<1> DEFINE runs(f, m) == f[0] = init /\ \A i \in 1 .. m : f[i] = step[i][f[i - 1]]
           T == {m \in 0 .. n : \E f \in [0 .. m -> V] : runs(f, m)}
<1>1. 0 \in T
  <2> DEFINE f == [k \in 0 .. 0 |-> init]
  <2>1. f \in [0 .. 0 -> V] /\ 0 \in 0 .. n
    BY SMT
  <2>2. f[0] = init /\ 1 .. 0 = {}
    BY SMT
  <2> HIDE DEF f
  <2> QED
    BY <2>1, <2>2
<1>2. ASSUME NEW k \in 0 .. n, k + 1 \in 0 .. n, k \in T PROVE k + 1 \in T
  <2> DEFINE m == k + 1
  <2>1. PICK g \in [0 .. k -> V] : runs(g, k)
    BY <1>2
  <2> DEFINE f == [i \in 0 .. m |-> IF i = m THEN step[m][g[k]] ELSE g[i]]
  <2>2. /\ m \in 0 .. n /\ m \in 1 .. n /\ m - 1 = k /\ k \in 0 .. m /\ k \in 0 .. k
        /\ k # m /\ 0 \in 0 .. m /\ 0 # m /\ m \in 0 .. m
    BY <1>2, SMT
  <2>3. \A i \in 0 .. m : i # m => i \in 0 .. k
    BY SMT
  <2>4. \A i \in 1 .. m : i \in 0 .. m /\ (i # m => i \in 1 .. k /\ i - 1 \in 0 .. m /\ i - 1 # m)
    BY SMT
  <2> HIDE DEF m
  <2>5. step[m][g[k]] \in V
    BY <2>2
  <2>6. f \in [0 .. m -> V]
    BY <2>3, <2>5
  <2>7. f[0] = init
    BY <2>1, <2>2
  <2>8. ASSUME NEW i \in 1 .. m PROVE f[i] = step[i][f[i - 1]]
    <3>1. CASE i = m
      BY <2>2, <3>1
    <3>2. CASE i # m
      BY <2>1, <2>4, <3>2
    <3> QED
      BY <3>1, <3>2
  <2>9. runs(f, m)
    BY <2>7, <2>8
  <2> HIDE DEF f
  <2>10. m \in T
    BY <2>2, <2>6, <2>9
  <2> QED
    BY <2>10 DEF m
<1> HIDE DEF T
<1>3. n \in 0 .. n
  BY SMT
<1>4. n \in T
  BY <1>1, <1>2, <1>3, UpTo
<1> QED
  BY <1>4 DEF T, Loops

(* The entries of two sequences joined.                                    *)
LEMMA JoinedSequences ==
    ASSUME NEW S, NEW s \in Seq(S), NEW t \in Seq(S)
    PROVE  /\ s \o t \in Seq(S)
           /\ Len(s \o t) = Len(s) + Len(t)
           /\ \A j \in 1 .. Len(s) + Len(t) :
                 (s \o t)[j] = IF j <= Len(s) THEN s[j] ELSE t[j - Len(s)]
<1>1. s \o t \in Seq(S)
  BY SMT
<1>2. Len(s \o t) = Len(s) + Len(t)
  BY SMT
<1>3. ASSUME NEW j \in 1 .. Len(s) + Len(t)
      PROVE  (s \o t)[j] = IF j <= Len(s) THEN s[j] ELSE t[j - Len(s)]
  BY SMT
<1> QED
  BY <1>1, <1>2, <1>3
-----------------------------------------------------------------------------
(* Loss lists.                                                             *)
Ranges == [start : SeqNumber, end : SeqNumber]
Words == [flag : {0, 1}, value : SeqNumber]

Size(range) == IF range.start = range.end THEN 1 ELSE 2

\* The loops of encode() and decode(): f[n] is what they have after n turns.
IsEncoding(f, x) ==
    f = [i \in 0 .. Len(x) |-> IF i = 0 THEN <<>> ELSE f[i - 1] \o EncodeRange(x[i])]
NothingDecoded == [at |-> 1, ranges |-> <<>>, truncated |-> FALSE]
IsDecoding(f, words) ==
    f = [n \in 0 .. Len(words) |->
           IF n = 0 THEN NothingDecoded ELSE DecodeRange(words, f[n - 1])]

(* The words of one range.                                                 *)
LEMMA EncodedRange ==
    ASSUME NEW r \in Ranges
    PROVE  /\ EncodeRange(r) \in Seq(Words)
           /\ Len(EncodeRange(r)) = Size(r) /\ Size(r) \in {1, 2}
           /\ Size(r) = 1 => EncodeRange(r)[1] = Word(0, r.start)
           /\ Size(r) = 2 => /\ EncodeRange(r)[1] = Word(1, r.start)
                             /\ EncodeRange(r)[2] = Word(0, r.end)
<1> DEFINE a == Word(0, r.start)  b == Word(1, r.start)  c == Word(0, r.end)
<1>1. a \in Words /\ b \in Words /\ c \in Words
  BY SMT DEF Words, Word, Ranges
<1>2. EncodeRange(r) = IF r.start = r.end THEN <<a>> ELSE <<b, c>>
  BY DEF EncodeRange
<1> HIDE DEF a, b, c
<1>3. /\ <<a>> \in Seq(Words) /\ Len(<<a>>) = 1 /\ <<a>>[1] = a
      /\ <<b, c>> \in Seq(Words) /\ Len(<<b, c>>) = 2 /\ <<b, c>>[1] = b /\ <<b, c>>[2] = c
  BY <1>1, SMT
<1>4. 1 # 2
  BY SMT
<1>5. CASE r.start = r.end
  BY <1>2, <1>3, <1>4, <1>5 DEF Size, a
<1>6. CASE r.start # r.end
  BY <1>2, <1>3, <1>4, <1>6 DEF Size, b, c
<1> QED
  BY <1>5, <1>6

(* The function by which encode() is defined exists.                       *)
LEMMA EncodingExists ==
    ASSUME NEW x \in Seq(Ranges)
    PROVE  \E f : IsEncoding(f, x)
<1> DEFINE V == Seq(Words)
           n == Len(x)
           step == [i \in 1 .. n |-> [v \in V |-> v \o EncodeRange(x[i])]]
<1>1. n \in Nat /\ \A i \in 1 .. n : x[i] \in Ranges
  BY SMT
<1>2. <<>> \in V
  BY SMT
<1>3. \A i \in 1 .. n : \A v \in V : v \o EncodeRange(x[i]) \in V
  BY <1>1, EncodedRange, JoinedSequences
<1>4. step \in [1 .. n -> [V -> V]]
  BY <1>3
<1> HIDE DEF V, n
<1>5. \A i \in 1 .. n : \A v \in V : step[i][v] = v \o EncodeRange(x[i])
  OBVIOUS
<1> HIDE DEF step
<1>6. PICK f \in [0 .. n -> V] : Loops(f, n, <<>>, step)
  <2>1. LoopOver(n, V, <<>>, step)
    BY <1>1, <1>2, <1>4 DEF LoopOver
  <2> QED
    BY <2>1, Loop
<1>7. \A i \in 0 .. n : i # 0 => i \in 1 .. n /\ i - 1 \in 0 .. n
  BY <1>1, SMT
<1>8. \A i \in 0 .. n : f[i] = IF i = 0 THEN <<>> ELSE f[i - 1] \o EncodeRange(x[i])
  BY <1>5, <1>6, <1>7 DEF Loops
<1>9. IsEncoding(f, x)
  BY <1>8 DEF IsEncoding, n
<1> QED
  BY <1>9

(* A turn of decode() leaves a position and ranges.                        *)
LEMMA DecodeRangeType ==
    ASSUME NEW words \in Seq(Words),
           NEW r \in [at : Nat \ {0}, ranges : Seq(Ranges), truncated : BOOLEAN]
    PROVE  DecodeRange(words, r)
             \in [at : Nat \ {0}, ranges : Seq(Ranges), truncated : BOOLEAN]
<1> DEFINE V == [at : Nat \ {0}, ranges : Seq(Ranges), truncated : BOOLEAN]
           one == Append(r.ranges, LossRange(words[r.at].value, words[r.at].value))
           two == Append(r.ranges, LossRange(words[r.at].value, words[r.at + 1].value))
<1>1. Len(words) \in Nat /\ \A i \in 1 .. Len(words) : words[i] \in Words
  BY SMT
<1>2. r.at \in Nat \ {0} /\ r.ranges \in Seq(Ranges) /\ r.truncated \in BOOLEAN
      /\ r = [at |-> r.at, ranges |-> r.ranges, truncated |-> r.truncated]
  BY SMT
<1>3. r.at + 1 \in Nat \ {0} /\ r.at + 2 \in Nat \ {0}
  BY <1>2, SMT
<1>4. CASE r.at > Len(words) \/ r.truncated
  BY <1>4 DEF DecodeRange
<1>5. CASE ~ (r.at > Len(words) \/ r.truncated)
  <2>1. r.at \in 1 .. Len(words) /\ (r.at # Len(words) => r.at + 1 \in 1 .. Len(words))
    BY <1>1, <1>2, <1>5, SMT
  <2>2. words[r.at].value \in SeqNumber
        /\ (r.at # Len(words) => words[r.at + 1].value \in SeqNumber)
    BY <1>1, <2>1 DEF Words
  <2>3. one \in Seq(Ranges) /\ (r.at # Len(words) => two \in Seq(Ranges))
    <3>1. \A p, q \in SeqNumber : LossRange(p, q) \in Ranges
      BY DEF LossRange, Ranges
    <3>2. \A e \in Ranges : Append(r.ranges, e) \in Seq(Ranges)
      BY <1>2, SMT
    <3> QED
      BY <2>2, <3>1, <3>2
  <2> HIDE DEF one, two
  <2>4. DecodeRange(words, r) =
          IF words[r.at].flag = 0
          THEN [at |-> r.at + 1, ranges |-> one, truncated |-> FALSE]
          ELSE IF r.at = Len(words)
          THEN [at |-> r.at, ranges |-> r.ranges, truncated |-> TRUE]
          ELSE [at |-> r.at + 2, ranges |-> two, truncated |-> FALSE]
    BY <1>5 DEF DecodeRange, one, two
  <2>5. /\ [at |-> r.at + 1, ranges |-> one, truncated |-> FALSE] \in V
        /\ [at |-> r.at, ranges |-> r.ranges, truncated |-> TRUE] \in V
        /\ r.at # Len(words) => [at |-> r.at + 2, ranges |-> two, truncated |-> FALSE] \in V
    BY <1>2, <1>3, <2>3, SMT
  <2> HIDE DEF V
  <2>6. DecodeRange(words, r) \in V
    BY <2>4, <2>5
  <2> QED
    BY <2>6 DEF V
<1> QED
  BY <1>4, <1>5

(* The function by which decode() is defined exists.                       *)
LEMMA DecodingExists ==
    ASSUME NEW words \in Seq(Words)
    PROVE  \E f : IsDecoding(f, words)
<1> DEFINE V == [at : Nat \ {0}, ranges : Seq(Ranges), truncated : BOOLEAN]
           n == Len(words)
           step == [i \in 1 .. n |-> [v \in V |-> DecodeRange(words, v)]]
<1>1. n \in Nat
  BY SMT
<1>2. NothingDecoded \in V
  BY SMT DEF NothingDecoded
<1>3. \A v \in V : DecodeRange(words, v) \in V
  BY DecodeRangeType
<1> HIDE DEF V
<1>4. step \in [1 .. n -> [V -> V]]
  BY <1>3
<1> HIDE DEF n
<1>5. \A i \in 1 .. n : \A v \in V : step[i][v] = DecodeRange(words, v)
  OBVIOUS
<1> HIDE DEF step
<1>6. PICK f \in [0 .. n -> V] : Loops(f, n, NothingDecoded, step)
  <2>1. LoopOver(n, V, NothingDecoded, step)
    BY <1>1, <1>2, <1>4 DEF LoopOver
  <2> QED
    BY <2>1, Loop
<1>7. \A i \in 0 .. n : i # 0 => i \in 1 .. n /\ i - 1 \in 0 .. n
  BY <1>1, SMT
<1>8. \A i \in 0 .. n :
         f[i] = IF i = 0 THEN NothingDecoded ELSE DecodeRange(words, f[i - 1])
  BY <1>5, <1>6, <1>7 DEF Loops
<1>9. IsDecoding(f, words)
  BY <1>8 DEF IsDecoding, n
<1> QED
  BY <1>9
\* The k-th turn of encode() adds the k-th range.
AddsRange(f, x, k) ==
    /\ Len(f[k]) = Len(f[k - 1]) + Size(x[k])
    /\ \A j \in 1 .. Len(f[k]) :
          f[k][j] = IF j <= Len(f[k - 1]) THEN f[k - 1][j]
                    ELSE EncodeRange(x[k])[j - Len(f[k - 1])]

(* Every turn of encode() adds words, the ones of the range it takes.      *)
LEMMA EncodingGrows ==
    ASSUME NEW x \in Seq(Ranges), NEW f, IsEncoding(f, x)
    PROVE  /\ f[0] = <<>>
           /\ \A k \in 0 .. Len(x) :
                 f[k] \in Seq(Words) /\ Len(f[k]) \in Nat /\ k <= Len(f[k])
           /\ \A k \in 1 .. Len(x) : AddsRange(f, x, k)
<1>1. Len(x) \in Nat /\ \A k \in 1 .. Len(x) : x[k] \in Ranges
  BY SMT
<1>2. 0 \in 0 .. Len(x) /\ \A k \in 1 .. Len(x) : k \in 0 .. Len(x) /\ k # 0
  BY <1>1, SMT
<1>3. /\ f[0] = <<>>
      /\ \A k \in 1 .. Len(x) : f[k] = f[k - 1] \o EncodeRange(x[k])
  BY <1>2 DEF IsEncoding
<1> DEFINE typed(k) == f[k] \in Seq(Words) /\ Len(f[k]) \in Nat /\ k <= Len(f[k])
           T == {k \in Nat : typed(k)}
<1>4. ASSUME NEW k \in 1 .. Len(x), typed(k - 1)
      PROVE  typed(k) /\ AddsRange(f, x, k)
  <2> DEFINE e == EncodeRange(x[k])
             g == f[k - 1]
  <2>1. e \in Seq(Words) /\ Size(x[k]) \in {1, 2} /\ Len(e) = Size(x[k])
    BY <1>1, EncodedRange
  <2>2. g \in Seq(Words) /\ Len(g) \in Nat /\ k - 1 <= Len(g) /\ f[k] = g \o e
    BY <1>3, <1>4
  <2> HIDE DEF e, g
  <2>3. /\ g \o e \in Seq(Words)
        /\ Len(g \o e) = Len(g) + Len(e)
        /\ \A j \in 1 .. Len(g) + Len(e) :
              (g \o e)[j] = IF j <= Len(g) THEN g[j] ELSE e[j - Len(g)]
    BY <2>1, <2>2, JoinedSequences
  <2>4. typed(k)
    BY <1>1, <2>1, <2>2, <2>3, SMT
  <2> QED
    BY <2>1, <2>2, <2>3, <2>4 DEF AddsRange, e, g
<1>5. typed(0)
  BY <1>3, SMT
<1>6. ASSUME NEW k \in 0 .. Len(x), k + 1 \in 0 .. Len(x), k \in T PROVE k + 1 \in T
  <2>1. k + 1 \in 1 .. Len(x) /\ (k + 1) - 1 = k /\ k + 1 \in Nat
    BY <1>1, <1>6, SMT
  <2>2. typed((k + 1) - 1)
    BY <1>6, <2>1
  <2>3. typed(k + 1)
    BY <1>4, <2>1, <2>2
  <2> QED
    BY <2>1, <2>3
<1>7. 0 \in T
  BY <1>5, SMT
<1>8. \A k \in 0 .. Len(x) : k \in T
  <2> HIDE DEF T
  <2> QED
    BY <1>1, <1>6, <1>7, UpTo
<1>9. \A k \in 1 .. Len(x) : k - 1 \in 0 .. Len(x)
  BY <1>1, SMT
<1>10. \A k \in 0 .. Len(x) : typed(k)
  BY <1>8
<1> HIDE DEF T
<1> QED
  BY <1>3, <1>4, <1>9, <1>10

StartsWith(s, t) == Len(t) <= Len(s) /\ \A j \in 1 .. Len(t) : s[j] = t[j]

(* What encode() has written it leaves alone.                              *)
LEMMA EncodingPrefix ==
    ASSUME NEW x \in Seq(Ranges), NEW f, IsEncoding(f, x), NEW i \in 0 .. Len(x)
    PROVE  StartsWith(f[Len(x)], f[i])
<1> DEFINE starts(m) == StartsWith(f[m], f[i])
           T == {m \in Nat : i <= m => starts(m)}
<1>1. Len(x) \in Nat /\ i \in Nat /\ i <= Len(x) /\ Len(x) \in 0 .. Len(x)
      /\ \A k \in 1 .. Len(x) : x[k] \in Ranges
  BY SMT
<1>2. \A k \in 0 .. Len(x) : Len(f[k]) \in Nat
  BY EncodingGrows
<1>3. starts(i)
  BY <1>2, SMT DEF StartsWith
<1>4. ASSUME NEW k \in 0 .. Len(x), k + 1 \in 0 .. Len(x), k \in T PROVE k + 1 \in T
  <2> SUFFICES ASSUME i <= k + 1 PROVE starts(k + 1)
    BY SMT
  <2>1. CASE i = k + 1
    BY <1>3, <2>1
  <2>2. CASE i # k + 1
    <3>1. k + 1 \in 1 .. Len(x) /\ (k + 1) - 1 = k /\ i <= k
      BY <1>1, <1>4, <2>2, SMT
    <3>2. starts(k)
      BY <1>4, <3>1
    <3>3. /\ Len(f[k + 1]) = Len(f[k]) + Size(x[k + 1])
          /\ \A j \in 1 .. Len(f[k + 1]) :
                f[k + 1][j] = IF j <= Len(f[k]) THEN f[k][j]
                              ELSE EncodeRange(x[k + 1])[j - Len(f[k])]
      <4>1. AddsRange(f, x, k + 1)
        BY <3>1, EncodingGrows
      <4> QED
        BY <3>1, <4>1 DEF AddsRange
    <3>4. Size(x[k + 1]) \in {1, 2}
      BY <1>1, <3>1, EncodedRange
    <3>5. Len(f[k]) \in Nat /\ Len(f[i]) \in Nat /\ Len(f[i]) <= Len(f[k])
      BY <1>2, <3>2 DEF StartsWith
    <3>6. Len(f[k + 1]) = Len(f[k]) + Size(x[k + 1])
      BY <3>3
    <3>7. Len(f[k + 1]) \in Nat
      BY <1>2, <1>4
    <3>8. Len(f[i]) <= Len(f[k + 1])
      BY <3>4, <3>5, <3>6, SMTT(30)
    <3>9. \A j \in 1 .. Len(f[i]) :
             j \in 1 .. Len(f[k + 1]) /\ j <= Len(f[k]) /\ j \in 1 .. Len(f[k])
      BY <3>5, <3>7, <3>8, SMTT(30)
    <3> QED
      BY <3>2, <3>3, <3>8, <3>9 DEF StartsWith
  <2> QED
    BY <2>1, <2>2
<1>5. 0 \in T
  <2>1. i <= 0 => i = 0
    BY <1>1, SMT
  <2> QED
    BY <1>3, <2>1, SMT
<1>6. Len(x) \in T
  <2> HIDE DEF T
  <2> QED
    BY <1>1, <1>4, <1>5, UpTo
<1> QED
  BY <1>1, <1>6

\* The range e is encoded in the words after the first p.
EncodedAt(words, p, e) ==
    /\ p + Size(e) <= Len(words)
    /\ Size(e) = 1 => words[p + 1] = Word(0, e.start)
    /\ Size(e) = 2 => words[p + 1] = Word(1, e.start) /\ words[(p + 1) + 1] = Word(0, e.end)

(* A turn of decode() at the words of a range reads that range.            *)
LEMMA OneTurn ==
    ASSUME NEW words \in Seq(Words), NEW e \in Ranges,
           NEW y, NEW p \in Nat, EncodedAt(words, p, e)
    PROVE  DecodeRange(words, [at |-> p + 1, ranges |-> y, truncated |-> FALSE])
             = [at |-> (p + Size(e)) + 1, ranges |-> Append(y, e), truncated |-> FALSE]
<1> DEFINE r == [at |-> p + 1, ranges |-> y, truncated |-> FALSE]
<1>1. e = LossRange(e.start, e.end) /\ Len(words) \in Nat /\ Size(e) \in {1, 2}
  BY EncodedRange, SMT DEF Ranges, LossRange
<1>2. p + Size(e) <= Len(words)
  BY DEF EncodedAt
<1>3. ~ (p + 1 > Len(words)) /\ (Size(e) = 2 => p + 1 # Len(words))
  BY <1>1, <1>2, SMT
<1>4. r.at = p + 1 /\ r.ranges = y /\ ~ r.truncated
  OBVIOUS
<1> HIDE DEF r
<1>5. CASE Size(e) = 1
  <2>1. words[p + 1].flag = 0 /\ words[p + 1].value = e.start
    <3>1. words[p + 1] = Word(0, e.start)
      BY <1>5 DEF EncodedAt
    <3> QED
      BY <3>1, SMT DEF Word
  <2>2. e.start = e.end
    BY <1>5, SMT DEF Size
  <2>3. DecodeRange(words, r)
          = [at |-> (p + 1) + 1, ranges |-> Append(y, LossRange(e.start, e.start)),
             truncated |-> FALSE]
    BY <1>3, <1>4, <2>1 DEF DecodeRange
  <2>4. LossRange(e.start, e.start) = e
    BY <1>1, <2>2
  <2> QED
    BY <1>5, <2>3, <2>4 DEF r
<1>6. CASE Size(e) = 2
  <2>1. words[p + 1].flag = 1 /\ words[p + 1].value = e.start /\ words[(p + 1) + 1].value = e.end
    <3>1. words[p + 1] = Word(1, e.start) /\ words[(p + 1) + 1] = Word(0, e.end)
      BY <1>6 DEF EncodedAt
    <3> QED
      BY <3>1, SMT DEF Word
  <2>2. 1 # 0
    BY SMT
  <2>3. DecodeRange(words, r)
          = [at |-> (p + 1) + 2, ranges |-> Append(y, LossRange(e.start, e.end)),
             truncated |-> FALSE]
    BY <1>3, <1>4, <1>6, <2>1, <2>2 DEF DecodeRange
  <2>4. (p + 1) + 2 = (p + 2) + 1
    BY SMT
  <2> QED
    BY <1>1, <1>6, <2>3, <2>4 DEF r
<1> QED
  BY <1>1, <1>5, <1>6

(* In the words encode() ends with, each range is where decode() will look *)
(* for it.                                                                 *)
LEMMA EncodedInPlace ==
    ASSUME NEW x \in Seq(Ranges), NEW f, IsEncoding(f, x), NEW k \in 1 .. Len(x)
    PROVE  /\ EncodedAt(f[Len(x)], Len(f[k - 1]), x[k])
           /\ Len(f[k]) = Len(f[k - 1]) + Size(x[k])
<1> DEFINE e == x[k]
           words == f[Len(x)]
           p == Len(f[k - 1])
<1>1. Len(x) \in Nat /\ k \in 0 .. Len(x) /\ k - 1 \in 0 .. Len(x) /\ Len(x) \in 0 .. Len(x)
      /\ e \in Ranges
  BY SMT
<1>2. \A i \in 0 .. Len(x) : Len(f[i]) \in Nat
  BY EncodingGrows
<1>3. /\ Len(f[k]) = p + Size(e)
      /\ \A j \in 1 .. Len(f[k]) :
            f[k][j] = IF j <= p THEN f[k - 1][j] ELSE EncodeRange(e)[j - p]
  <2>1. AddsRange(f, x, k)
    BY EncodingGrows
  <2> QED
    BY <2>1 DEF AddsRange
<1>4. Len(f[k]) <= Len(words) /\ \A j \in 1 .. Len(f[k]) : words[j] = f[k][j]
  <2>1. StartsWith(words, f[k])
    BY <1>1, EncodingPrefix
  <2> QED
    BY <2>1 DEF StartsWith
<1>5. /\ Size(e) \in {1, 2}
      /\ Size(e) = 1 => EncodeRange(e)[1] = Word(0, e.start)
      /\ Size(e) = 2 => /\ EncodeRange(e)[1] = Word(1, e.start)
                        /\ EncodeRange(e)[2] = Word(0, e.end)
  BY <1>1, EncodedRange
<1>6. p \in Nat /\ Len(f[k]) \in Nat
  BY <1>1, <1>2
<1> DEFINE last == Len(f[k])
<1>7. last = p + Size(e) /\ last \in Nat
  BY <1>3, <1>6
<1>8. \A j \in 1 .. last : words[j] = IF j <= p THEN f[k - 1][j] ELSE EncodeRange(e)[j - p]
  BY <1>3, <1>4
<1> HIDE DEF e, words, p, last
<1>9. /\ p + 1 \in 1 .. last /\ ~ (p + 1 <= p) /\ (p + 1) - p = 1
      /\ Size(e) = 2 => /\ (p + 1) + 1 \in 1 .. last /\ ~ ((p + 1) + 1 <= p)
                        /\ ((p + 1) + 1) - p = 2
  BY <1>5, <1>6, <1>7, SMT DEF last
<1>10. words[p + 1] = EncodeRange(e)[1]
  BY <1>8, <1>9
<1>11. Size(e) = 2 => words[(p + 1) + 1] = EncodeRange(e)[2]
  BY <1>8, <1>9
<1>12. p + Size(e) <= Len(words)
  BY <1>3, <1>4 DEF p, e, words
<1>13. EncodedAt(words, p, e)
  BY <1>5, <1>10, <1>11, <1>12 DEF EncodedAt
<1> QED
  BY <1>3, <1>13 DEF e, words, p

(* decode() takes a turn for each range, after which it is at the end of   *)
(* the words, and the turns left change nothing.                           *)
LEMMA DecodingRetraces ==
    ASSUME NEW x \in Seq(Ranges), NEW f, IsEncoding(f, x),
           NEW g, IsDecoding(g, f[Len(x)])
    PROVE  LET r == g[Len(f[Len(x)])] IN r.ranges = x /\ ~ r.truncated
<1> DEFINE words == f[Len(x)]
           after(k) == [at |-> Len(f[k]) + 1, ranges |-> SubSeq(x, 1, k), truncated |-> FALSE]
           T == {k \in Nat : k <= Len(x) => g[k] = after(k)}
           L == {k \in Nat : Len(x) <= k => g[k] = after(Len(x))}
<1>1. Len(x) \in Nat /\ Len(x) \in 0 .. Len(x) /\ \A k \in 1 .. Len(x) : x[k] \in Ranges
  BY SMT
<1>2. words \in Seq(Words) /\ Len(words) \in Nat /\ Len(x) <= Len(words) /\ f[0] = <<>>
      /\ \A k \in 0 .. Len(x) : Len(f[k]) \in Nat
  BY <1>1, EncodingGrows
<1>3. 0 \in 0 .. Len(words) /\ Len(words) \in 0 .. Len(words)
      /\ \A k \in 0 .. Len(words) :
            k + 1 \in 0 .. Len(words) => k + 1 # 0 /\ (k + 1) - 1 = k
  BY <1>2, SMT
<1>4. g[0] = [at |-> 1, ranges |-> <<>>, truncated |-> FALSE]
  BY <1>3 DEF IsDecoding, NothingDecoded
<1>5. ASSUME NEW k \in 0 .. Len(words), k + 1 \in 0 .. Len(words)
      PROVE  g[k + 1] = DecodeRange(words, g[k])
  <2>1. g[k + 1] = DecodeRange(words, g[(k + 1) - 1])
    BY <1>3, <1>5 DEF IsDecoding
  <2> QED
    BY <1>3, <1>5, <2>1
<1>6. SubSeq(x, 1, 0) = <<>> /\ SubSeq(x, 1, Len(x)) = x
  BY SMT
<1>7. after(0) = g[0]
  <2>1. Len(f[0]) + 1 = 1
    BY <1>2, SMT
  <2> QED
    BY <1>4, <1>6, <2>1
<1>8. ASSUME NEW k \in 0 .. Len(x), k + 1 \in 0 .. Len(x)
      PROVE  DecodeRange(words, after(k)) = after(k + 1)
  <2> DEFINE e == x[k + 1]
  <2>1. k + 1 \in 1 .. Len(x) /\ (k + 1) - 1 = k /\ e \in Ranges /\ Len(f[k]) \in Nat
    <3>1. k + 1 \in 1 .. Len(x) /\ (k + 1) - 1 = k
      BY <1>1, <1>8, SMT
    <3> QED
      BY <1>1, <1>2, <3>1
  <2>2. /\ EncodedAt(words, Len(f[(k + 1) - 1]), e)
        /\ Len(f[k + 1]) = Len(f[(k + 1) - 1]) + Size(e)
    BY <2>1, EncodedInPlace
  <2>3. EncodedAt(words, Len(f[k]), e) /\ Len(f[k + 1]) = Len(f[k]) + Size(e)
    BY <2>1, <2>2
  <2>4. Append(SubSeq(x, 1, k), e) = SubSeq(x, 1, k + 1)
    BY <1>1, <2>1, SMT
  <2> HIDE DEF e, words
  <2>5. DecodeRange(words,
          [at |-> Len(f[k]) + 1, ranges |-> SubSeq(x, 1, k), truncated |-> FALSE])
          = [at |-> (Len(f[k]) + Size(e)) + 1, ranges |-> Append(SubSeq(x, 1, k), e),
             truncated |-> FALSE]
    BY <1>2, <2>1, <2>3, OneTurn
  <2> QED
    BY <2>3, <2>4, <2>5
<1>9. DecodeRange(words, after(Len(x))) = after(Len(x))
  <2> DEFINE r == after(Len(x))
  <2>1. r.at = Len(words) + 1
    OBVIOUS
  <2>2. Len(words) + 1 > Len(words)
    BY <1>2, SMT
  <2> HIDE DEF r, words
  <2>3. DecodeRange(words, r) = r
    BY <2>1, <2>2 DEF DecodeRange
  <2> QED
    BY <2>3 DEF r
<1> HIDE DEF after
<1>10. ASSUME NEW k \in 0 .. Len(x), k + 1 \in 0 .. Len(x), k \in T PROVE k + 1 \in T
  <2>1. k <= Len(x) /\ k \in 0 .. Len(words) /\ k + 1 \in 0 .. Len(words) /\ k + 1 \in Nat
    BY <1>1, <1>2, <1>10, SMT
  <2>2. g[k] = after(k) /\ g[k + 1] = DecodeRange(words, g[k])
    BY <1>5, <1>10, <2>1
  <2> QED
    BY <1>8, <1>10, <2>1, <2>2
<1>11. 0 \in T
  BY <1>7, SMT
<1>12. Len(x) \in T
  <2> HIDE DEF T
  <2> QED
    BY <1>1, <1>10, <1>11, UpTo
<1>13. g[Len(x)] = after(Len(x))
  <2>1. Len(x) <= Len(x)
    BY <1>1, SMT
  <2> QED
    BY <1>12, <2>1
<1>14. ASSUME NEW k \in 0 .. Len(words), k + 1 \in 0 .. Len(words), k \in L PROVE k + 1 \in L
  <2> SUFFICES ASSUME Len(x) <= k + 1 PROVE g[k + 1] = after(Len(x))
    BY SMT
  <2>1. CASE Len(x) = k + 1
    BY <1>13, <2>1
  <2>2. CASE Len(x) # k + 1
    <3>1. Len(x) <= k
      BY <1>1, <2>2, SMT
    <3>2. g[k] = after(Len(x))
      BY <1>14, <3>1
    <3> QED
      BY <1>5, <1>9, <1>14, <3>2
  <2> QED
    BY <2>1, <2>2
<1>15. 0 \in L
  <2>1. Len(x) <= 0 => Len(x) = 0
    BY <1>1, SMT
  <2> QED
    BY <1>7, <2>1, SMT
<1>16. Len(words) \in L
  <2> HIDE DEF L
  <2> QED
    BY <1>2, <1>3, <1>14, <1>15, UpTo
<1>17. g[Len(words)] = after(Len(x))
  BY <1>2, <1>16
<1>18. after(Len(x)).ranges = x /\ ~ after(Len(x)).truncated
  BY <1>6 DEF after
<1> QED
  BY <1>17, <1>18

(* decode() yields the ranges that encode() was given, also those whose    *)
(* ends are equal or whose numbers wrap.                                   *)
LEMMA LossListReadBack ==
    ASSUME NEW x \in Seq(Ranges)
    PROVE  LET r == DecodeLoss(EncodeLoss(x)) IN r.ranges = x /\ ~ r.truncated
<1> DEFINE f == CHOOSE f : IsEncoding(f, x)
           words == f[Len(x)]
           g == CHOOSE g : IsDecoding(g, words)
<1>1. Len(x) \in Nat /\ Len(x) \in 0 .. Len(x)
  BY SMT
<1>2. IsEncoding(f, x)
  BY EncodingExists
<1>3. EncodeLoss(x) = words
  BY DEF EncodeLoss, IsEncoding
<1> HIDE DEF f
<1>4. words \in Seq(Words) /\ Len(words) \in Nat
  BY <1>1, <1>2, EncodingGrows
<1>5. DecodeLoss(words) = g[Len(words)]
  BY DEF DecodeLoss, IsDecoding, NothingDecoded
<1>6. IsDecoding(g, words)
  <2> HIDE DEF words
  <2> QED
    BY <1>4, DecodingExists
<1> HIDE DEF g
<1>7. g[Len(words)].ranges = x /\ ~ g[Len(words)].truncated
  BY <1>2, <1>6, DecodingRetraces
<1> QED
  BY <1>3, <1>5, <1>7

\* Slots that lie within half of the number space.
Spanned(b) == b.base \in SeqNumber /\ Len(b.slots) \in Nat /\ Len(b.slots) <= HALF

\* The numbers of the slots a to e, and the range of them.
SlotSeqs(b, a, e) == {SeqAdd(b.base, j - 1) : j \in a .. e}
Run(b, a, e) == LossRange(SeqAdd(b.base, a - 1), SeqAdd(b.base, e - 1))
IsRun(b, r) ==
    \E a, e \in 1 .. Len(b.slots) : a <= e /\ r = Run(b, a, e)

(* The number of a slot, the one before it and the ones after it.          *)
LEMMA SlotNumber ==
    ASSUME NEW b, Spanned(b), NEW j \in 1 .. Len(b.slots)
    PROVE  /\ SeqAdd(b.base, j - 1) \in SeqNumber
           /\ Mask(SeqAdd(b.base, j - 1) - 1) = SeqAdd(b.base, (j - 1) - 1)
           /\ \A e \in 0 .. Len(b.slots) - j :
                 /\ SeqAdd(SeqAdd(b.base, j - 1), e) = SeqAdd(b.base, (j + e) - 1)
                 /\ OffsetFrom(SeqAdd(b.base, (j + e) - 1), SeqAdd(b.base, j - 1)) = e
<1> DEFINE base == b.base
           n == Len(b.slots)
<1>1. base \in SeqNumber /\ n \in Nat /\ n <= HALF /\ HALF \in Nat
  BY HalfAssumption DEF Spanned
<1> HIDE DEF base, n
<1>2. /\ j - 1 \in (-HALF) .. THRESHOLD /\ j - 1 \in Nat /\ j - 1 <= HALF /\ -1 \in Int
      /\ -1 <= -1 /\ -1 <= HALF
  BY <1>1, SMT DEF THRESHOLD, n
<1>3. Mask(base + (j - 1)) \in SeqNumber
  BY <1>1, <1>2, OffsetOfDisplaced
<1>4. Mask(Mask(base + (j - 1)) - 1) = Mask(base + ((j - 1) - 1))
  <2>1. Mask(Mask(base + (j - 1)) + (-1)) = Mask(base + ((j - 1) + (-1)))
    BY <1>1, <1>2, MaskAdds
  <2>2. (j - 1) + (-1) = (j - 1) - 1 /\ Mask(base + (j - 1)) + (-1) = Mask(base + (j - 1)) - 1
    BY <1>2, <1>3, SMT DEF SeqNumber
  <2> QED
    BY <2>1, <2>2
<1>5. ASSUME NEW e \in 0 .. n - j
      PROVE  /\ Mask(Mask(base + (j - 1)) + e) = Mask(base + ((j + e) - 1))
             /\ OffsetFrom(Mask(base + ((j + e) - 1)), Mask(base + (j - 1))) = e
  <2>1. e \in Int /\ -1 <= e /\ e <= HALF /\ e \in (-HALF) .. THRESHOLD
        /\ (j - 1) + e = (j + e) - 1
    BY <1>1, SMT DEF THRESHOLD, n
  <2>2. Mask(Mask(base + (j - 1)) + e) = Mask(base + ((j - 1) + e))
    BY <1>1, <1>2, <2>1, MaskAdds
  <2>3. OffsetFrom(Mask(Mask(base + (j - 1)) + e), Mask(base + (j - 1))) = e
    BY <1>3, <2>1, OffsetOfDisplaced
  <2> QED
    BY <2>1, <2>2, <2>3
<1> QED
  BY <1>3, <1>4, <1>5 DEF SeqAdd, base, n

(* A range that begins and ends at slots covers the slots between them,    *)
(* also when it wraps.                                                     *)
LEMMA CoveredRun ==
    ASSUME NEW b, Spanned(b), NEW a \in 1 .. Len(b.slots), NEW e \in 1 .. Len(b.slots), a <= e
    PROVE  Run(b, a, e) \in Ranges /\ Covered(Run(b, a, e)) = SlotSeqs(b, a, e)
<1> DEFINE s == SeqAdd(b.base, a - 1)
           t == SeqAdd(b.base, e - 1)
           n == Len(b.slots)
<1>1. n \in Nat
  BY DEF Spanned
<1>2. s \in SeqNumber /\ t \in SeqNumber
  BY SlotNumber
<1>3. \A i \in 0 .. n - a : SeqAdd(s, i) = SeqAdd(b.base, (a + i) - 1)
                            /\ OffsetFrom(SeqAdd(b.base, (a + i) - 1), s) = i
  BY SlotNumber
<1> HIDE DEF n
<1>4. e - a \in 0 .. n - a /\ a + (e - a) = e /\ e - a \in Nat
      /\ (\A i \in 0 .. e - a : i \in 0 .. n - a /\ a + i \in a .. e)
      /\ (\A j \in a .. e : j - a \in 0 .. e - a /\ a + (j - a) = j)
  BY <1>1, SMT DEF n
<1>5. OffsetFrom(t, s) = e - a
  BY <1>3, <1>4
<1>6. Run(b, a, e).start = s /\ Run(b, a, e).end = t /\ Run(b, a, e) = [start |-> s, end |-> t]
  BY DEF Run, LossRange
<1> HIDE DEF s, t
<1>7. Covered(Run(b, a, e)) = {SeqAdd(s, i) : i \in 0 .. e - a}
  BY <1>5, <1>6 DEF Covered
<1>8. \A i \in 0 .. e - a : SeqAdd(s, i) \in SlotSeqs(b, a, e)
  BY <1>3, <1>4 DEF SlotSeqs
<1>9. \A j \in a .. e : SeqAdd(b.base, j - 1) = SeqAdd(s, j - a)
  BY <1>3, <1>4
<1>10. \A j \in a .. e : SeqAdd(b.base, j - 1) \in Covered(Run(b, a, e))
  BY <1>4, <1>7, <1>9
<1>11. Covered(Run(b, a, e)) = SlotSeqs(b, a, e)
  BY <1>7, <1>8, <1>10 DEF SlotSeqs
<1>12. Run(b, a, e) \in Ranges
  BY <1>2, <1>6 DEF Ranges
<1> QED
  BY <1>11, <1>12

(* One more range names what it covers.                                    *)
LEMMA NamesAppend ==
    ASSUME NEW x \in Seq(Ranges), NEW r \in Ranges
    PROVE  /\ Append(x, r) \in Seq(Ranges) /\ Len(Append(x, r)) = Len(x) + 1
           /\ \A i \in 1 .. Len(x) : Append(x, r)[i] = x[i]
           /\ Append(x, r)[Len(x) + 1] = r
           /\ Names(Append(x, r)) = Names(x) \cup Covered(r)
<1> DEFINE y == Append(x, r)
           n == Len(x)
<1>1. y \in Seq(Ranges) /\ Len(y) = n + 1 /\ n \in Nat
  BY SMT
<1>2. \A i \in 1 .. n : y[i] = x[i]
  BY SMT
<1>3. y[n + 1] = r
  BY SMT
<1> HIDE DEF y, n
<1>4. /\ \A i \in 1 .. n + 1 : i \in 1 .. n \/ i = n + 1
      /\ \A i \in 1 .. n : i \in 1 .. n + 1
      /\ n + 1 \in 1 .. n + 1
  BY <1>1, SMT
<1>5. Names(y) = UNION {Covered(y[i]) : i \in 1 .. n + 1}
  BY <1>1 DEF Names
<1>6. Names(x) = UNION {Covered(x[i]) : i \in 1 .. n}
  BY DEF Names, n
<1>7. Names(y) \subseteq Names(x) \cup Covered(r)
  BY <1>2, <1>3, <1>4, <1>5, <1>6
<1>8. Names(x) \subseteq Names(y)
  BY <1>2, <1>4, <1>5, <1>6
<1>9. Covered(r) \subseteq Names(y)
  BY <1>3, <1>4, <1>5
<1>10. Names(y) = Names(x) \cup Covered(r)
  BY <1>7, <1>8, <1>9
<1> QED
  BY <1>1, <1>2, <1>3, <1>10 DEF y, n
-----------------------------------------------------------------------------
(* missing().                                                              *)
NothingFound == [ranges |-> <<>>, run_start |-> <<>>]
IsWalk(f, b) ==
    f = [i \in 0 .. Len(b.slots) |->
           IF i = 0 THEN NothingFound ELSE MissingTurn(b, f[i - 1], i)]

\* The empty slots below a filled one up to i, and their numbers.
GapsBelow(b, i) ==
    {j \in 1 .. Len(b.slots) : /\ j \notin Present(b)
                               /\ \E k \in Present(b) : j < k /\ k <= i}
GapSeqs(b, i) == {SeqAdd(b.base, j - 1) : j \in GapsBelow(b, i)}

\* Between turns: no run is open after a filled slot, or one is open since slot a.
NoRun(b, i, r) == r.run_start = <<>> /\ (i = 0 \/ i \in Present(b))
OpenRun(b, i, r, a) ==
    /\ r.run_start = <<SeqAdd(b.base, a - 1)>>
    /\ \A j \in a .. i : j \notin Present(b)
    /\ a = 1 \/ a - 1 \in Present(b)
Runs(b, x) == x \in Seq(Ranges) /\ \A n \in 1 .. Len(x) : IsRun(b, x[n])
WalkInv(b, i, r) ==
    /\ Runs(b, r.ranges)
    /\ Names(r.ranges) = GapSeqs(b, i)
    /\ NoRun(b, i, r) \/ \E a \in 1 .. i : OpenRun(b, i, r, a)

(* A turn of missing()'s loop leaves ranges and at most one number.        *)
LEMMA MissingTurnType ==
    ASSUME NEW b, Spanned(b), NEW i \in 1 .. Len(b.slots),
           NEW r \in [ranges : Seq(Ranges), run_start : Seq(SeqNumber)]
    PROVE  MissingTurn(b, r, i) \in [ranges : Seq(Ranges), run_start : Seq(SeqNumber)]
<1> DEFINE seq == SeqAdd(b.base, i - 1)
           V == [ranges : Seq(Ranges), run_start : Seq(SeqNumber)]
           run == LossRange(r.run_start[1], SeqPrev(seq))
<1>1. seq \in SeqNumber
  BY SlotNumber
<1>2. SeqPrev(seq) \in SeqNumber
  <2> HIDE DEF seq
  <2> QED
    BY <1>1, HalfAssumption, SMT DEF SeqPrev, Mask, SeqNumber, COUNT
<1>3. r.ranges \in Seq(Ranges) /\ r.run_start \in Seq(SeqNumber)
  OBVIOUS
<1> HIDE DEF seq
<1>4. CASE b.slots[i] = NoPacket
  <2> DEFINE start == IF r.run_start = <<>> THEN <<seq>> ELSE r.run_start
  <2>1. <<seq>> \in Seq(SeqNumber)
    BY <1>1, SMT
  <2>2. start \in Seq(SeqNumber)
    BY <1>3, <2>1
  <2>3. MissingTurn(b, r, i) = [ranges |-> r.ranges, run_start |-> start]
    BY <1>4 DEF MissingTurn, seq
  <2> HIDE DEF start
  <2> QED
    BY <1>3, <2>2, <2>3, SMT
<1>5. CASE b.slots[i] # NoPacket /\ r.run_start = <<>>
  BY <1>5 DEF MissingTurn
<1>6. CASE b.slots[i] # NoPacket /\ r.run_start # <<>>
  <2>1. r.run_start[1] \in SeqNumber
    BY <1>3, <1>6, SMT
  <2>2. run \in Ranges
    BY <1>2, <2>1 DEF LossRange, Ranges
  <2>3. MissingTurn(b, r, i) = [ranges |-> Append(r.ranges, run), run_start |-> <<>>]
    BY <1>6 DEF MissingTurn, seq
  <2> HIDE DEF run
  <2>4. Append(r.ranges, run) \in Seq(Ranges) /\ <<>> \in Seq(SeqNumber)
    BY <1>3, <2>2, SMT
  <2> QED
    BY <2>3, <2>4, SMT
<1> QED
  BY <1>4, <1>5, <1>6

(* The function by which missing() is defined exists.                      *)
LEMMA WalkExists ==
    ASSUME NEW b, Spanned(b)
    PROVE  \E f : IsWalk(f, b)
<1> DEFINE V == [ranges : Seq(Ranges), run_start : Seq(SeqNumber)]
           n == Len(b.slots)
           step == [i \in 1 .. n |-> [v \in V |-> MissingTurn(b, v, i)]]
<1>1. n \in Nat
  BY DEF Spanned
<1>2. NothingFound \in V
  BY SMT DEF NothingFound
<1>3. \A i \in 1 .. n : \A v \in V : MissingTurn(b, v, i) \in V
  BY MissingTurnType
<1> HIDE DEF V
<1>4. step \in [1 .. n -> [V -> V]]
  BY <1>3
<1> HIDE DEF n
<1>5. \A i \in 1 .. n : \A v \in V : step[i][v] = MissingTurn(b, v, i)
  OBVIOUS
<1> HIDE DEF step
<1>6. PICK f \in [0 .. n -> V] : Loops(f, n, NothingFound, step)
  <2>1. LoopOver(n, V, NothingFound, step)
    BY <1>1, <1>2, <1>4 DEF LoopOver
  <2> QED
    BY <2>1, Loop
<1>7. \A i \in 0 .. n : i # 0 => i \in 1 .. n /\ i - 1 \in 0 .. n
  BY <1>1, SMT
<1>8. \A i \in 0 .. n :
         f[i] = IF i = 0 THEN NothingFound ELSE MissingTurn(b, f[i - 1], i)
  BY <1>5, <1>6, <1>7 DEF Loops
<1>9. IsWalk(f, b)
  BY <1>8 DEF IsWalk, n
<1> QED
  BY <1>9

(* A turn of missing()'s loop over the slots keeps the walk's invariant:   *)
(* the ranges so far name the gaps below the filled slots so far.          *)
LEMMA WalkTurn ==
    ASSUME NEW b, Spanned(b), NEW i \in 1 .. Len(b.slots), NEW r, WalkInv(b, i - 1, r)
    PROVE  WalkInv(b, i, MissingTurn(b, r, i))
<1> DEFINE seq == SeqAdd(b.base, i - 1)
           n == Len(b.slots)
           q == MissingTurn(b, r, i)
<1>1. /\ Runs(b, r.ranges)
      /\ Names(r.ranges) = GapSeqs(b, i - 1)
      /\ NoRun(b, i - 1, r) \/ \E a \in 1 .. i - 1 : OpenRun(b, i - 1, r, a)
  BY DEF WalkInv
<1>2. n \in Nat /\ Present(b) \subseteq 1 .. n /\ (i \in Present(b) <=> b.slots[i] # NoPacket)
  BY DEF Spanned, Present
<1>3. \A x : <<x>> # <<>>
  BY SMT
<1>4. CASE b.slots[i] = NoPacket
  <2>1. q.ranges = r.ranges
        /\ q.run_start = IF r.run_start = <<>> THEN <<seq>> ELSE r.run_start
    BY <1>4 DEF MissingTurn
  <2> HIDE DEF q
  <2>2. i \notin Present(b)
    BY <1>2, <1>4
  <2>3. GapsBelow(b, i) = GapsBelow(b, i - 1)
    <3>1. \A k \in Present(b) : k <= i <=> k <= i - 1
      BY <1>2, <2>2, SMT DEF n
    <3> QED
      BY <3>1 DEF GapsBelow
  <2>4. Names(q.ranges) = GapSeqs(b, i)
    BY <1>1, <2>1, <2>3 DEF GapSeqs
  <2>5. CASE NoRun(b, i - 1, r)
    <3>1. q.run_start = <<SeqAdd(b.base, i - 1)>>
      BY <2>1, <2>5 DEF NoRun
    <3>2. i = 1 \/ i - 1 \in Present(b)
      <4>1. i - 1 = 0 => i = 1
        BY SMT
      <4> QED
        BY <2>5, <4>1 DEF NoRun
    <3>3. \A j \in i .. i : j = i
      BY SMT
    <3>4. i \in 1 .. i
      BY SMT
    <3>5. OpenRun(b, i, q, i)
      BY <2>2, <3>1, <3>2, <3>3 DEF OpenRun
    <3> QED
      BY <1>1, <2>1, <2>4, <3>4, <3>5 DEF WalkInv, q
  <2>6. ASSUME NEW a \in 1 .. i - 1, OpenRun(b, i - 1, r, a) PROVE WalkInv(b, i, q)
    <3>1. q.run_start = r.run_start
      BY <1>3, <2>1, <2>6 DEF OpenRun
    <3>2. a \in 1 .. i /\ \A j \in a .. i : j \in a .. i - 1 \/ j = i
      BY SMT
    <3>3. OpenRun(b, i, q, a)
      BY <2>2, <2>6, <3>1, <3>2 DEF OpenRun
    <3> QED
      BY <1>1, <2>1, <2>4, <3>2, <3>3 DEF WalkInv
  <2> QED
    BY <1>1, <2>5, <2>6 DEF q
<1>5. CASE b.slots[i] # NoPacket /\ r.run_start = <<>>
  <2>1. q = r
    BY <1>5 DEF MissingTurn
  <2> HIDE DEF q
  <2>2. NoRun(b, i - 1, r)
    BY <1>1, <1>3, <1>5 DEF OpenRun
  <2>3. i \in Present(b)
    BY <1>2, <1>5
  <2>4. ASSUME NEW j \in GapsBelow(b, i) PROVE j \in GapsBelow(b, i - 1)
    <3>1. PICK k \in Present(b) : j < k /\ k <= i
      BY <2>4 DEF GapsBelow
    <3>2. j \in 1 .. n /\ j \notin Present(b)
      BY <2>4 DEF GapsBelow
    <3>3. i - 1 # 0
      BY <1>2, <3>1, <3>2, SMT DEF n
    <3>4. i - 1 \in Present(b)
      BY <2>2, <3>3 DEF NoRun
    <3>5. j # i - 1
      BY <3>2, <3>4
    <3>6. j < i - 1 /\ i - 1 <= i - 1
      BY <1>2, <3>1, <3>2, <3>5, SMT DEF n
    <3> QED
      BY <3>2, <3>4, <3>6 DEF GapsBelow
  <2>5. ASSUME NEW j \in GapsBelow(b, i - 1) PROVE j \in GapsBelow(b, i)
    <3>1. \A k \in Present(b) : k <= i - 1 => k <= i
      BY <1>2, SMT DEF n
    <3> QED
      BY <2>5, <3>1 DEF GapsBelow
  <2>6. GapsBelow(b, i) = GapsBelow(b, i - 1)
    BY <2>4, <2>5
  <2>7. NoRun(b, i, q)
    BY <1>5, <2>1, <2>3 DEF NoRun
  <2> QED
    BY <1>1, <2>1, <2>6, <2>7 DEF WalkInv, GapSeqs, q
<1>6. CASE b.slots[i] # NoPacket /\ r.run_start # <<>>
  <2>1. PICK a \in 1 .. i - 1 : OpenRun(b, i - 1, r, a)
    BY <1>1, <1>6 DEF NoRun
  <2>2. i \in Present(b)
    BY <1>2, <1>6
  <2>3. a \in 1 .. n /\ i - 1 \in 1 .. n /\ a <= i - 1 /\ a \in Int
        /\ \A j \in a .. i - 1 : j \in 1 .. n /\ j < i /\ i <= i
    BY <1>2, SMT DEF n
  <2> DEFINE run == Run(b, a, i - 1)
  <2>4. LossRange(r.run_start[1], SeqPrev(seq)) = run
    <3>1. SeqPrev(seq) = SeqAdd(b.base, (i - 1) - 1)
      BY SlotNumber DEF SeqPrev
    <3>2. r.run_start[1] = SeqAdd(b.base, a - 1)
      <4>1. r.run_start = <<SeqAdd(b.base, a - 1)>>
        BY <2>1 DEF OpenRun
      <4> QED
        BY <4>1, SMT
    <3> QED
      BY <3>1, <3>2 DEF Run
  <2>5. q.ranges = Append(r.ranges, run) /\ q.run_start = <<>>
    BY <1>6, <2>4 DEF MissingTurn
  <2>6. run \in Ranges /\ Covered(run) = SlotSeqs(b, a, i - 1)
    BY <2>3, CoveredRun
  <2>7. IsRun(b, run)
    BY <2>3 DEF IsRun
  <2> HIDE DEF q, run
  <2>8. /\ q.ranges \in Seq(Ranges) /\ Len(q.ranges) = Len(r.ranges) + 1
        /\ \A j \in 1 .. Len(r.ranges) : q.ranges[j] = r.ranges[j]
        /\ q.ranges[Len(r.ranges) + 1] = run
        /\ Names(q.ranges) = Names(r.ranges) \cup Covered(run)
    <3> DEFINE x == r.ranges
    <3>1. x \in Seq(Ranges) /\ q.ranges = Append(x, run)
      BY <1>1, <2>5 DEF Runs
    <3> HIDE DEF x
    <3>2. /\ Append(x, run) \in Seq(Ranges) /\ Len(Append(x, run)) = Len(x) + 1
          /\ \A j \in 1 .. Len(x) : Append(x, run)[j] = x[j]
          /\ Append(x, run)[Len(x) + 1] = run
          /\ Names(Append(x, run)) = Names(x) \cup Covered(run)
      BY <2>6, <3>1, NamesAppend
    <3> QED
      BY <3>1, <3>2 DEF x
  <2>9. Runs(b, q.ranges)
    <3>1. Len(r.ranges) \in Nat
      BY <1>1, SMT DEF Runs
    <3>2. \A j \in 1 .. Len(q.ranges) : j \in 1 .. Len(r.ranges) \/ j = Len(r.ranges) + 1
      BY <2>8, <3>1, SMT
    <3> QED
      BY <1>1, <2>7, <2>8, <3>2 DEF Runs
  <2>10. ASSUME NEW j \in GapsBelow(b, i) PROVE j \in GapsBelow(b, i - 1) \/ j \in a .. i - 1
    <3>1. PICK k \in Present(b) : j < k /\ k <= i
      BY <2>10 DEF GapsBelow
    <3>2. j \in 1 .. n /\ j \notin Present(b)
      BY <2>10 DEF GapsBelow
    <3>3. CASE j >= a
      BY <1>2, <2>3, <3>1, <3>2, <3>3, SMT DEF n
    <3>4. CASE ~ (j >= a)
      <4>1. a # 1
        BY <3>2, <3>4, SMT
      <4>2. a - 1 \in Present(b)
        BY <2>1, <4>1 DEF OpenRun
      <4>3. j # a - 1
        BY <3>2, <4>2
      <4>4. j < a - 1 /\ a - 1 <= i - 1
        BY <2>3, <3>2, <3>4, <4>3, SMT
      <4> QED
        BY <3>2, <4>2, <4>4 DEF GapsBelow
    <3> QED
      BY <3>3, <3>4
  <2>11. ASSUME NEW j \in GapsBelow(b, i - 1) PROVE j \in GapsBelow(b, i)
    <3>1. \A k \in Present(b) : k <= i - 1 => k <= i
      BY <1>2, SMT DEF n
    <3> QED
      BY <2>11, <3>1 DEF GapsBelow
  <2>12. ASSUME NEW j \in a .. i - 1 PROVE j \in GapsBelow(b, i)
    <3>1. j \notin Present(b)
      BY <2>1 DEF OpenRun
    <3> QED
      BY <2>2, <2>3, <3>1 DEF GapsBelow
  <2>13. GapSeqs(b, i) = GapSeqs(b, i - 1) \cup SlotSeqs(b, a, i - 1)
    BY <2>10, <2>11, <2>12 DEF GapSeqs, SlotSeqs
  <2>14. NoRun(b, i, q)
    BY <2>2, <2>5 DEF NoRun
  <2> QED
    BY <1>1, <2>6, <2>8, <2>9, <2>13, <2>14 DEF WalkInv, q
<1> QED
  BY <1>4, <1>5, <1>6

(* The greatest filled slot.                                               *)
LEMMA HighestExists ==
    ASSUME NEW b, Len(b.slots) \in Nat, ~ IsEmpty(b)
    PROVE  Highest(b) \in Present(b) /\ \A j \in Present(b) : j <= Highest(b)
<1> DEFINE n == Len(b.slots)
           T == {n - i : i \in Present(b)}
<1>1. Present(b) \subseteq 1 .. n /\ Present(b) # {}
  BY DEF Present, IsEmpty
<1>2. T \subseteq Nat /\ T # {}
  BY <1>1, SMT
<1>3. PICK x \in T : \A y \in T : x <= y
  <2> HIDE DEF T
  <2> QED
    BY <1>2, LeastNat
<1>4. PICK i \in Present(b) : x = n - i
  BY <1>3
<1>5. ASSUME NEW j \in Present(b) PROVE j <= i
  <2>1. x <= n - j
    BY <1>3
  <2> QED
    BY <1>1, <1>4, <2>1, SMT
<1> QED
  BY <1>5 DEF Highest

(* The ranges of missing() name the gaps.                                  *)
LEMMA MissingRangesNames ==
    ASSUME NEW b, Spanned(b)
    PROVE  Runs(b, MissingRanges(b)) /\ Names(MissingRanges(b)) = Missing(b)
<1> DEFINE f == CHOOSE f : IsWalk(f, b)
           n == Len(b.slots)
           T == {k \in Nat : WalkInv(b, k, f[k])}
<1>1. IsWalk(f, b)
  BY WalkExists
<1>2. MissingRanges(b) = IF IsEmpty(b) THEN <<>> ELSE f[Highest(b)].ranges
  BY DEF MissingRanges, IsWalk, NothingFound
<1>3. n \in Nat /\ 0 \in 0 .. n
  BY SMT DEF Spanned
<1>4. <<>> \in Seq(Ranges) /\ Len(<<>>) = 0 /\ 1 .. 0 = {}
  BY SMT
<1>5. Runs(b, <<>>) /\ Names(<<>>) = {}
  BY <1>4 DEF Runs, Names
<1>6. CASE IsEmpty(b)
  <2>1. Missing(b) = {}
    BY <1>6 DEF Missing, IsEmpty
  <2> QED
    BY <1>2, <1>5, <1>6, <2>1
<1>7. CASE ~ IsEmpty(b)
  <2> HIDE DEF f
  <2>1. 0 \in T
    <3>1. f[0] = NothingFound
      BY <1>1, <1>3 DEF IsWalk
    <3>2. f[0].ranges = <<>> /\ f[0].run_start = <<>>
      BY <3>1, SMT DEF NothingFound
    <3>3. GapSeqs(b, 0) = {}
      <4>1. \A k \in Present(b) : ~ (k <= 0)
        BY <1>3, SMT DEF Present
      <4> QED
        BY <4>1 DEF GapSeqs, GapsBelow
    <3>4. WalkInv(b, 0, f[0])
      BY <1>5, <3>2, <3>3 DEF WalkInv, NoRun
    <3> QED
      BY <3>4, SMT
  <2>2. ASSUME NEW k \in 0 .. n, k + 1 \in 0 .. n, k \in T PROVE k + 1 \in T
    <3>1. k + 1 \in 1 .. n /\ (k + 1) - 1 = k /\ k + 1 # 0 /\ k + 1 \in Nat
      BY <1>3, <2>2, SMT
    <3>2. f[k + 1] = MissingTurn(b, f[k], k + 1)
      BY <1>1, <2>2, <3>1 DEF IsWalk
    <3>3. WalkInv(b, (k + 1) - 1, f[k])
      BY <2>2, <3>1
    <3>4. WalkInv(b, k + 1, MissingTurn(b, f[k], k + 1))
      BY <3>1, <3>3, WalkTurn
    <3> QED
      BY <3>1, <3>2, <3>4
  <2>3. \A k \in 0 .. n : k \in T
    <3> HIDE DEF T
    <3> QED
      BY <1>3, <2>1, <2>2, UpTo
  <2>4. Highest(b) \in Present(b) /\ \A j \in Present(b) : j <= Highest(b)
    BY <1>3, <1>7, HighestExists
  <2>5. Highest(b) \in 0 .. n
    BY <1>3, <2>4, SMT DEF Present
  <2>6. WalkInv(b, Highest(b), f[Highest(b)])
    BY <2>3, <2>5
  <2>7. GapSeqs(b, Highest(b)) = Missing(b)
    <3>1. GapsBelow(b, Highest(b)) = {j \in 1 .. Len(b.slots) :
                                        /\ j \notin Present(b)
                                        /\ \E k \in Present(b) : j < k}
      BY <2>4 DEF GapsBelow
    <3> QED
      BY <3>1 DEF GapSeqs, Missing
  <2> QED
    BY <1>2, <1>7, <2>6, <2>7 DEF WalkInv
<1> QED
  BY <1>6, <1>7
-----------------------------------------------------------------------------
(* missing_aged().                                                         *)
Threshold(b, h, tolerance) == Mask(SeqAdd(b.base, h - 1) - tolerance)

(* The threshold of missing_aged() lies `tolerance` slots below the        *)
(* highest one, wherever the numbers wrap, also when that is below the     *)
(* base.                                                                   *)
LEMMA ThresholdCompares ==
    ASSUME NEW b, Spanned(b), NEW h \in 1 .. Len(b.slots), NEW tolerance \in 0 .. THRESHOLD
    PROVE  LET t == Threshold(b, h, tolerance)
           IN  /\ t \in SeqNumber
               /\ tolerance < h => t = SeqAdd(b.base, (h - tolerance) - 1)
               /\ \A j \in 1 .. h : After(SeqAdd(b.base, j - 1), t) <=> j + tolerance > h
<1> DEFINE base == b.base
           n == Len(b.slots)
           t == Mask(Mask(base + (h - 1)) - tolerance)
<1>1. base \in SeqNumber /\ n \in Nat /\ n <= HALF /\ HALF \in Nat /\ h <= n /\ h \in Nat /\ 1 <= h
  BY HalfAssumption, SMT DEF Spanned
<1> HIDE DEF base, n
<1>2. t \in SeqNumber
  BY <1>1, SMT DEF Mask, SeqNumber, COUNT, THRESHOLD
<1>3. tolerance < h => t = Mask(base + ((h - tolerance) - 1))
  BY <1>1, SMT DEF Mask, SeqNumber, COUNT, THRESHOLD
<1>4. ASSUME NEW j \in 1 .. h
      PROVE  OffsetFrom(Mask(base + (j - 1)), t) = (j + tolerance) - h
  <2> DEFINE u == Mask(base + (j - 1))
  <2>1. /\ u \in SeqNumber
        /\ u = base + (j - 1) \/ u = (base + (j - 1)) - COUNT
    BY <1>1, SMT DEF Mask, SeqNumber, COUNT
  <2>2. \/ t = (base + (h - 1)) - tolerance
        \/ t = ((base + (h - 1)) - tolerance) - COUNT
        \/ t = ((base + (h - 1)) - tolerance) + COUNT
    BY <1>1, SMT DEF Mask, SeqNumber, COUNT, THRESHOLD
  <2> HIDE DEF t, u
  <2>3. Mask(u - t) = IF (j + tolerance) - h >= 0 THEN (j + tolerance) - h
                                                ELSE ((j + tolerance) - h) + COUNT
    BY <1>1, <1>2, <2>1, <2>2, SMT DEF Mask, SeqNumber, COUNT, THRESHOLD
  <2> QED
    BY <1>1, <2>3, SMT DEF OffsetFrom, COUNT, THRESHOLD, u
<1>5. \A j \in 1 .. h : (j + tolerance) - h > 0 <=> j + tolerance > h
  BY <1>1, SMT
<1> QED
  BY <1>2, <1>3, <1>4, <1>5 DEF Threshold, SeqAdd, After, base, t

\* What the closure of missing_aged() makes of a range.
Trimmed(range, t) ==
    LossRange(range.start, IF After(range.end, t) THEN t ELSE range.end)

\* The range r begins and ends at slots up to h.
IsRunTo(b, h, r) == \E a, e \in 1 .. h : a <= e /\ r = Run(b, a, e)

(* A range is dropped when all of it is fresh; else what is left of it are *)
(* its numbers that are not.                                               *)
LEMMA TrimmedRun ==
    ASSUME NEW b, Spanned(b), NEW h \in 1 .. Len(b.slots), NEW tolerance \in 0 .. THRESHOLD,
           NEW r, IsRunTo(b, h, r)
    PROVE  LET t == Threshold(b, h, tolerance)
           IN  /\ After(r.start, t) => \A s \in Covered(r) : After(s, t)
               /\ ~ After(r.start, t) =>
                     /\ IsRunTo(b, h, Trimmed(r, t))
                     /\ Covered(Trimmed(r, t)) = {s \in Covered(r) : ~ After(s, t)}
<1> DEFINE t == Threshold(b, h, tolerance)
           n == Len(b.slots)
           seq(j) == SeqAdd(b.base, j - 1)
<1>1. PICK a \in 1 .. h, e \in 1 .. h : a <= e /\ r = Run(b, a, e)
  BY DEF IsRunTo
<1>2. n \in Nat /\ tolerance \in Nat
  BY HalfAssumption, SMT DEF Spanned, THRESHOLD
<1>3. a \in 1 .. n /\ e \in 1 .. n /\ \A j \in a .. e : j \in 1 .. h
  BY <1>2, SMT
<1>4. /\ tolerance < h => t = seq(h - tolerance)
      /\ \A j \in 1 .. h : After(seq(j), t) <=> j + tolerance > h
  BY ThresholdCompares
<1>5. Covered(r) = SlotSeqs(b, a, e) /\ r.start = seq(a) /\ r.end = seq(e)
  <2>1. Run(b, a, e).start = seq(a) /\ Run(b, a, e).end = seq(e)
    BY SMT DEF Run, LossRange
  <2> QED
    BY <1>1, <1>3, <2>1, CoveredRun
<1> HIDE DEF t, n
<1>6. ASSUME After(r.start, t), NEW s \in Covered(r) PROVE After(s, t)
  <2>1. PICK j \in a .. e : s = seq(j)
    BY <1>5, <1>6 DEF SlotSeqs
  <2>2. a + tolerance > h
    BY <1>4, <1>5, <1>6
  <2>3. j + tolerance > h
    BY <1>2, <2>2, SMT
  <2> QED
    BY <1>3, <1>4, <2>1, <2>3
<1>7. ASSUME ~ After(r.start, t)
      PROVE  /\ IsRunTo(b, h, Trimmed(r, t))
             /\ Covered(Trimmed(r, t)) = {s \in Covered(r) : ~ After(s, t)}
  <2>1. ~ (a + tolerance > h)
    BY <1>4, <1>5, <1>7
  <2>2. CASE After(r.end, t)
    <3> DEFINE m == h - tolerance
    <3>1. e + tolerance > h
      BY <1>4, <1>5, <2>2
    <3>2. m \in 1 .. h /\ m \in 1 .. n /\ a <= m /\ tolerance < h
          /\ (\A j \in a .. m : j \in a .. e /\ ~ (j + tolerance > h))
          /\ (\A j \in a .. e : ~ (j + tolerance > h) => j \in a .. m)
      BY <1>2, <1>3, <2>1, <3>1, SMT DEF n
    <3>3. t = seq(m)
      BY <1>4, <3>2
    <3> HIDE DEF m
    <3>4. Trimmed(r, t) = Run(b, a, m)
      BY <1>5, <2>2, <3>3 DEF Trimmed, Run
    <3>5. Covered(Run(b, a, m)) = SlotSeqs(b, a, m)
      BY <1>3, <3>2, CoveredRun DEF n
    <3>6. ASSUME NEW s \in SlotSeqs(b, a, m) PROVE s \in SlotSeqs(b, a, e) /\ ~ After(s, t)
      <4>1. PICK j \in a .. m : s = seq(j)
        BY <3>6 DEF SlotSeqs
      <4>2. j \in a .. e /\ ~ (j + tolerance > h)
        BY <3>2
      <4> QED
        BY <1>3, <1>4, <4>1, <4>2 DEF SlotSeqs
    <3>7. ASSUME NEW s \in SlotSeqs(b, a, e), ~ After(s, t) PROVE s \in SlotSeqs(b, a, m)
      <4>1. PICK j \in a .. e : s = seq(j)
        BY <3>7 DEF SlotSeqs
      <4>2. ~ (j + tolerance > h)
        BY <1>3, <1>4, <3>7, <4>1
      <4> QED
        BY <3>2, <4>1, <4>2 DEF SlotSeqs
    <3>8. SlotSeqs(b, a, m) = {s \in SlotSeqs(b, a, e) : ~ After(s, t)}
      BY <3>6, <3>7
    <3>9. IsRunTo(b, h, Trimmed(r, t))
      BY <3>2, <3>4 DEF IsRunTo
    <3> QED
      BY <1>5, <3>4, <3>5, <3>8, <3>9
  <2>3. CASE ~ After(r.end, t)
    <3>1. ~ (e + tolerance > h)
      BY <1>4, <1>5, <2>3
    <3>2. Trimmed(r, t) = r
      BY <1>1, <1>5, <2>3 DEF Trimmed, Run
    <3>3. ASSUME NEW s \in Covered(r) PROVE ~ After(s, t)
      <4>1. PICK j \in a .. e : s = seq(j)
        BY <1>5 DEF SlotSeqs
      <4>2. ~ (j + tolerance > h)
        BY <1>2, <3>1, SMT
      <4> QED
        BY <1>3, <1>4, <4>1, <4>2
    <3> QED
      BY <3>2, <3>3
  <2> QED
    BY <2>2, <2>3
<1> QED
  BY <1>6, <1>7 DEF t

\* The loop of missing_aged() over the ranges.
IsAging(f, x, t) ==
    f = [i \in 0 .. Len(x) |-> IF i = 0 THEN <<>> ELSE AgedTurn(f[i - 1], x[i], t)]

(* The function by which missing_aged() is defined exists.                 *)
LEMMA AgingExists ==
    ASSUME NEW x \in Seq(Ranges), NEW t \in SeqNumber
    PROVE  \E f : IsAging(f, x, t)
<1> DEFINE V == Seq(Ranges)
           n == Len(x)
           step == [i \in 1 .. n |-> [v \in V |-> AgedTurn(v, x[i], t)]]
<1>1. n \in Nat /\ \A i \in 1 .. n : x[i] \in Ranges
  BY SMT
<1>2. <<>> \in V
  BY SMT
<1>3. ASSUME NEW i \in 1 .. n, NEW v \in V PROVE AgedTurn(v, x[i], t) \in V
  <2> DEFINE r == LossRange(x[i].start, IF After(x[i].end, t) THEN t ELSE x[i].end)
  <2>1. x[i].start \in SeqNumber /\ x[i].end \in SeqNumber
    BY <1>1 DEF Ranges
  <2>2. r \in Ranges
    BY <2>1 DEF LossRange, Ranges
  <2>3. Append(v, r) \in V
    <3> HIDE DEF r
    <3> QED
      BY <2>2, SMT
  <2> QED
    BY <2>3 DEF AgedTurn
<1>4. step \in [1 .. n -> [V -> V]]
  BY <1>3
<1> HIDE DEF V, n
<1>5. \A i \in 1 .. n : \A v \in V : step[i][v] = AgedTurn(v, x[i], t)
  OBVIOUS
<1> HIDE DEF step
<1>6. PICK f \in [0 .. n -> V] : Loops(f, n, <<>>, step)
  <2>1. LoopOver(n, V, <<>>, step)
    BY <1>1, <1>2, <1>4 DEF LoopOver
  <2> QED
    BY <2>1, Loop
<1>7. \A i \in 0 .. n : i # 0 => i \in 1 .. n /\ i - 1 \in 0 .. n
  BY <1>1, SMT
<1>8. \A i \in 0 .. n : f[i] = IF i = 0 THEN <<>> ELSE AgedTurn(f[i - 1], x[i], t)
  BY <1>5, <1>6, <1>7 DEF Loops
<1>9. IsAging(f, x, t)
  BY <1>8 DEF IsAging, n
<1> QED
  BY <1>9

\* The numbers of the first i ranges that are not after t, and what the loop has then.
AgedNames(x, t, i) == {s \in UNION {Covered(x[j]) : j \in 1 .. i} : ~ After(s, t)}
AgedInv(x, t, i, kept) == kept \in Seq(Ranges) /\ Names(kept) = AgedNames(x, t, i)

(* A turn of the loop of missing_aged() keeps what is not fresh.           *)
LEMMA AgedTurnNames ==
    ASSUME NEW b, Spanned(b), NEW h \in 1 .. Len(b.slots), NEW tolerance \in 0 .. THRESHOLD,
           NEW x, NEW i \in Nat \ {0}, IsRunTo(b, h, x[i]),
           NEW kept, AgedInv(x, Threshold(b, h, tolerance), i - 1, kept)
    PROVE  AgedInv(x, Threshold(b, h, tolerance), i,
                   AgedTurn(kept, x[i], Threshold(b, h, tolerance)))
<1> DEFINE t == Threshold(b, h, tolerance)
           r == x[i]
<1>1. /\ After(r.start, t) => \A s \in Covered(r) : After(s, t)
      /\ ~ After(r.start, t) =>
            /\ IsRunTo(b, h, Trimmed(r, t))
            /\ Covered(Trimmed(r, t)) = {s \in Covered(r) : ~ After(s, t)}
  BY TrimmedRun
<1> HIDE DEF t
<1>2. /\ i \in 1 .. i
      /\ \A j \in 1 .. i : j \in 1 .. i - 1 \/ j = i
      /\ \A j \in 1 .. i - 1 : j \in 1 .. i
  BY SMT
<1>3. AgedNames(x, t, i) = AgedNames(x, t, i - 1) \cup {s \in Covered(r) : ~ After(s, t)}
  BY <1>2 DEF AgedNames
<1>4. kept \in Seq(Ranges) /\ Names(kept) = AgedNames(x, t, i - 1)
  BY DEF AgedInv, t
<1>5. CASE After(r.start, t)
  <2>1. AgedNames(x, t, i) = AgedNames(x, t, i - 1)
    BY <1>1, <1>3, <1>5
  <2>2. AgedTurn(kept, r, t) = kept
    BY <1>5 DEF AgedTurn
  <2> QED
    BY <1>4, <2>1, <2>2 DEF AgedInv, t
<1>6. CASE ~ After(r.start, t)
  <2> DEFINE q == Trimmed(r, t)
  <2>1. AgedTurn(kept, r, t) = Append(kept, q)
    BY <1>6 DEF AgedTurn, Trimmed
  <2>2. IsRunTo(b, h, q) /\ Covered(q) = {s \in Covered(r) : ~ After(s, t)}
    BY <1>1, <1>6
  <2> HIDE DEF q
  <2>3. q \in Ranges
    <3>1. PICK a \in 1 .. h, e \in 1 .. h : a <= e /\ q = Run(b, a, e)
      BY <2>2 DEF IsRunTo
    <3>2. a \in 1 .. Len(b.slots) /\ e \in 1 .. Len(b.slots)
      BY SMT DEF Spanned
    <3> QED
      BY <3>1, <3>2, CoveredRun
  <2>4. Append(kept, q) \in Seq(Ranges) /\ Names(Append(kept, q)) = Names(kept) \cup Covered(q)
    BY <1>4, <2>3, NamesAppend
  <2>5. AgedInv(x, t, i, Append(kept, q))
    BY <1>3, <1>4, <2>2, <2>4 DEF AgedInv
  <2> QED
    BY <2>1, <2>5 DEF t
<1> QED
  BY <1>5, <1>6

(* The slots of a buffer have different numbers.                           *)
LEMMA SlotsApart ==
    ASSUME NEW b, Spanned(b), NEW i \in 1 .. Len(b.slots), NEW j \in 1 .. Len(b.slots),
           SeqAdd(b.base, i - 1) = SeqAdd(b.base, j - 1)
    PROVE  i = j
<1> DEFINE base == b.base
           n == Len(b.slots)
<1>1. base \in SeqNumber /\ n \in Nat /\ n <= HALF /\ HALF \in Nat
  BY HalfAssumption DEF Spanned
<1>2. Mask(base + (i - 1)) = Mask(base + (j - 1))
  BY DEF SeqAdd
<1> HIDE DEF base, n
<1> QED
  BY <1>1, <1>2, SMT DEF Mask, SeqNumber, COUNT, n

(* The ranges of missing_aged() name the gaps that are old enough.         *)
LEMMA MissingAgedRangesNames ==
    ASSUME NEW b, Spanned(b), NEW tolerance \in 0 .. THRESHOLD
    PROVE  /\ MissingAgedRanges(b, tolerance) \in Seq(Ranges)
           /\ Names(MissingAgedRanges(b, tolerance)) = MissingAged(b, tolerance)
<1> DEFINE x == MissingRanges(b)
           h == Highest(b)
           t == Threshold(b, h, tolerance)
<1>1. Runs(b, x) /\ Names(x) = Missing(b)
  BY MissingRangesNames
<1>2. x \in Seq(Ranges) /\ Len(b.slots) \in Nat
  BY <1>1 DEF Runs, Spanned
<1>3. CASE tolerance = 0 \/ IsEmpty(b)
  BY <1>1, <1>2, <1>3 DEF MissingAgedRanges, MissingAged
<1>4. CASE ~ (tolerance = 0 \/ IsEmpty(b))
  <2> DEFINE f == CHOOSE f : IsAging(f, x, t)
             T == {k \in Nat : AgedInv(x, t, k, f[k])}
  <2>1. h \in Present(b) /\ \A j \in Present(b) : j <= h
    BY <1>2, <1>4, HighestExists
  <2>2. h \in 1 .. Len(b.slots)
    BY <2>1 DEF Present
  <2>3. t \in SeqNumber
    BY <2>2, ThresholdCompares
  <2>4. MissingAgedRanges(b, tolerance) = f[Len(x)]
    BY <1>4 DEF MissingAgedRanges, AgedOnly, IsAging, Threshold
  <2>5. MissingAged(b, tolerance) = {s \in Names(x) : ~ After(s, t)}
    BY <1>1, <1>4 DEF MissingAged, Highest, Threshold
  <2> HIDE DEF t, h, x
  <2>6. IsAging(f, x, t)
    BY <1>2, <2>3, AgingExists
  <2> HIDE DEF f
  <2>7. Len(x) \in Nat /\ 0 \in 0 .. Len(x) /\ Len(x) \in 0 .. Len(x)
    BY <1>2, SMT
  <2>8. ASSUME NEW i \in 1 .. Len(x) PROVE IsRunTo(b, h, x[i])
    <3>1. PICK a \in 1 .. Len(b.slots), e \in 1 .. Len(b.slots) : a <= e /\ x[i] = Run(b, a, e)
      BY <1>1 DEF Runs, IsRun
    <3>2. SeqAdd(b.base, e - 1) \in Names(x)
      <4>1. Covered(x[i]) = SlotSeqs(b, a, e)
        BY <3>1, CoveredRun
      <4>2. e \in a .. e
        BY <3>1, SMT
      <4> QED
        BY <4>1, <4>2 DEF SlotSeqs, Names
    <3>3. e <= h
      <4>1. PICK j \in 1 .. Len(b.slots) :
               /\ SeqAdd(b.base, e - 1) = SeqAdd(b.base, j - 1)
               /\ j \notin Present(b) /\ \E k \in Present(b) : j < k
        BY <1>1, <3>2 DEF Missing
      <4>2. e = j
        BY <4>1, SlotsApart
      <4> QED
        BY <1>2, <2>1, <2>2, <4>1, <4>2, SMT DEF Present
    <3>4. a \in 1 .. h /\ e \in 1 .. h
      BY <2>2, <3>1, <3>3, SMT
    <3> QED
      BY <3>1, <3>4 DEF IsRunTo
  <2>9. 0 \in T
    <3>1. f[0] = <<>>
      BY <2>6, <2>7 DEF IsAging
    <3>2. <<>> \in Seq(Ranges) /\ Len(<<>>) = 0 /\ 1 .. 0 = {} /\ 0 \in Nat
      BY SMT
    <3>3. Names(<<>>) = AgedNames(x, t, 0)
      BY <3>2 DEF Names, AgedNames
    <3> QED
      BY <3>1, <3>2, <3>3 DEF AgedInv
  <2>10. ASSUME NEW k \in 0 .. Len(x), k + 1 \in 0 .. Len(x), k \in T PROVE k + 1 \in T
    <3>1. k + 1 \in 1 .. Len(x) /\ (k + 1) - 1 = k /\ k + 1 # 0 /\ k + 1 \in Nat
          /\ k + 1 \in Nat \ {0}
      BY <2>7, <2>10, SMT
    <3>2. f[k + 1] = AgedTurn(f[k], x[k + 1], t)
      BY <2>6, <2>10, <3>1 DEF IsAging
    <3>3. AgedInv(x, t, (k + 1) - 1, f[k])
      BY <2>10, <3>1
    <3>4. AgedInv(x, t, k + 1, AgedTurn(f[k], x[k + 1], t))
      BY <2>2, <2>8, <3>1, <3>3, AgedTurnNames DEF t
    <3> QED
      BY <3>1, <3>2, <3>4
  <2>11. Len(x) \in T
    <3> HIDE DEF T
    <3> QED
      BY <2>7, <2>9, <2>10, UpTo
  <2>12. AgedInv(x, t, Len(x), f[Len(x)])
    BY <2>11
  <2>13. AgedNames(x, t, Len(x)) = {s \in Names(x) : ~ After(s, t)}
    BY DEF AgedNames, Names
  <2> QED
    BY <2>4, <2>5, <2>12, <2>13 DEF AgedInv
<1> QED
  BY <1>3, <1>4
=============================================================================
