-------------------------- MODULE FileBlocksProofs --------------------------
(***************************************************************************)
(* What the proofs about both ends of a transfer need to know of packets   *)
(* (FileBlocks.tla) and of the queues they are in.                         *)
(***************************************************************************)
EXTENDS FileBlocks, SequencesExt, SequenceTheorems, TLAPS

(* The first m blocks of a file. *)
FirstBlocks(r, m) == [i \in 1..m |-> [req |-> r, num |-> i]]

LEMMA NumBlockType ==
  ASSUME NEW size \in Nat
  PROVE  NumBlock(size) \in Nat
<1>1. size \div FullLen \in Nat
  BY DEF FullLen
<1>2. 1 + ((size \div FullLen) % Uint16Size) \in Nat
  BY <1>1 DEF Uint16Size
<1>3. \A n \in Nat : n % Uint16Size \in Nat /\ (n + 1) % Uint16Size \in Nat
                     /\ (n + 0) % Uint16Size \in Nat
  BY DEF Uint16Size
<1> QED
  BY <1>2, <1>3 DEF NumBlock

(* Only the last packet of a file is shorter than FullLen. *)
LEMMA BlockLenFacts ==
  ASSUME NEW size \in Nat, NEW i \in Nat
  PROVE  /\ BlockLen(size, i) \in 0..FullLen
         /\ BlockLen(size, i) < FullLen <=> i = NumBlock(size)
         /\ size % FullLen \in 0..FullLen
BY DEF BlockLen, FullLen

(* The packets of a file add up to it, and what is sent beyond it. *)
LEMMA SizesAddUp ==
  ASSUME NEW size \in FileSizes
  PROVE  /\ size \in Nat
         /\ FullLen * (NumBlock(size) - 1) + (size % FullLen) = size + Beyond(size)
<1>1. size \in Nat /\ size <= 16
  BY DEF FileSizes, FullLen, MaxBlocks
<1>2. /\ size \div 2 \in Nat /\ size \div 2 <= 8 /\ size % 2 \in 0..1
      /\ size = 2 * (size \div 2) + (size % 2)
  BY <1>1
<1>3. NumBlock(size) = 1 + (size \div 2) + (IF size % 2 = 0 /\ size # 0 THEN 1 ELSE 0)
  BY <1>1, <1>2 DEF NumBlock, FullLen, Uint16Size
<1> QED
  BY <1>1, <1>2, <1>3 DEF Beyond, FullLen

LEMMA PacketsFacts ==
  ASSUME NEW S, NEW r, NEW size \in Nat,
         \A i \in 1..NumBlock(size) :
           [block |-> [req |-> r, num |-> i], len |-> BlockLen(size, i),
            copied |-> FALSE] \in S
  PROVE  /\ Packets(r, size) \in Seq(S)
         /\ Len(Packets(r, size)) = NumBlock(size)
         /\ DOMAIN Packets(r, size) = 1..NumBlock(size)
         /\ \A i \in 1..NumBlock(size) :
              Packets(r, size)[i] =
                [block |-> [req |-> r, num |-> i], len |-> BlockLen(size, i),
                 copied |-> FALSE]
<1> DEFINE n == NumBlock(size)
           P(i) == [block |-> [req |-> r, num |-> i],
                    len |-> BlockLen(size, i), copied |-> FALSE]
<1>1. n \in Nat
  BY NumBlockType
<1>2. Packets(r, size) = [i \in 1..n |-> P(i)]
  BY DEF Packets, Content
<1>3. \A i \in 1..n : P(i) \in S
  OBVIOUS
<1> HIDE DEF n, P
<1>4. Packets(r, size) \in Seq(S)
  BY <1>1, <1>2, <1>3, IsASeq
<1>5. DOMAIN Packets(r, size) = 1..n /\ Len(Packets(r, size)) = n
  BY <1>1, <1>2, <1>4, LenProperties
<1> QED
  BY <1>2, <1>4, <1>5 DEF n, P

LEMMA SetBlockType ==
  ASSUME NEW S, NEW blocks \in Seq(S), NEW i \in Nat, NEW b \in S, Hole \in S
  PROVE  /\ SetBlock(blocks, i, b) \in Seq(S)
         /\ Len(SetBlock(blocks, i, b)) = IF i > Len(blocks) THEN i ELSE Len(blocks)
<1> DEFINE n == IF i > Len(blocks) THEN i ELSE Len(blocks)
           E(j) == IF j = i THEN b ELSE IF j <= Len(blocks) THEN blocks[j] ELSE Hole
<1>1. n \in Nat /\ Len(blocks) \in Nat /\ DOMAIN blocks = 1..Len(blocks)
  BY LenProperties
<1>2. \A j \in 1..n : E(j) \in S
  BY <1>1, ElementOfSeq
<1>3. SetBlock(blocks, i, b) = [j \in 1..n |-> E(j)]
  BY DEF SetBlock
<1> HIDE DEF n, E
<1>4. SetBlock(blocks, i, b) \in Seq(S)
  BY <1>1, <1>2, <1>3, IsASeq
<1>5. Len(SetBlock(blocks, i, b)) = n
  BY <1>1, <1>3, <1>4, LenProperties
<1> QED
  BY <1>4, <1>5 DEF n

LEMMA SetBlockElement ==
  ASSUME NEW S, NEW blocks \in Seq(S), NEW i \in Nat, NEW b \in S, Hole \in S
  PROVE  \A j \in 1..Len(SetBlock(blocks, i, b)) :
           \/ j = i /\ SetBlock(blocks, i, b)[j] = b
           \/ j \in 1..Len(blocks) /\ SetBlock(blocks, i, b)[j] = blocks[j]
           \/ SetBlock(blocks, i, b)[j] = Hole
<1>1. Len(blocks) \in Nat
  BY LenProperties
<1>2. Len(SetBlock(blocks, i, b)) = IF i > Len(blocks) THEN i ELSE Len(blocks)
  BY SetBlockType
<1> QED
  BY <1>1, <1>2 DEF SetBlock

LEMMA FirstBlocksLen ==
  ASSUME NEW r, NEW m \in Nat
  PROVE  Len(FirstBlocks(r, m)) = m /\ (m = 0 => FirstBlocks(r, m) = <<>>)
<1> DEFINE S == {[req |-> r, num |-> i] : i \in Nat}
           e(i) == [req |-> r, num |-> i]
<1>1. \A i \in 1..m : e(i) \in S
  OBVIOUS
<1>2. FirstBlocks(r, m) = [i \in 1..m |-> e(i)]
  BY DEF FirstBlocks
<1> HIDE DEF S, e
<1>3. FirstBlocks(r, m) \in Seq(S)
  BY <1>1, <1>2, IsASeq
<1>4. Len(FirstBlocks(r, m)) = m
  BY <1>2, <1>3, LenProperties
<1>5. m = 0 => FirstBlocks(r, m) = <<>>
  BY <1>3, <1>4, EmptySeq
<1> QED
  BY <1>4, <1>5

(* Blocks that come in order leave no hole. *)
LEMMA SetNextBlock ==
  ASSUME NEW r, NEW m \in Nat
  PROVE  SetBlock(FirstBlocks(r, m), m + 1, [req |-> r, num |-> m + 1])
           = FirstBlocks(r, m + 1)
<1> DEFINE S == {[req |-> r, num |-> i] : i \in Nat}
           e(i) == [req |-> r, num |-> i]
<1>1. FirstBlocks(r, m) = [i \in 1..m |-> e(i)] /\ \A i \in 1..m : e(i) \in S
  BY DEF FirstBlocks
<1> HIDE DEF S
<1>2. [i \in 1..m |-> e(i)] \in Seq(S)
  BY <1>1, IsASeq
<1>3. FirstBlocks(r, m) \in Seq(S) /\ Len(FirstBlocks(r, m)) = m
  BY <1>1, <1>2, LenProperties
<1>4. SetBlock(FirstBlocks(r, m), m + 1, e(m + 1))
        = [j \in 1..(m + 1) |-> IF j = m + 1 THEN e(m + 1)
                                ELSE IF j <= m THEN FirstBlocks(r, m)[j] ELSE Hole]
  BY <1>3 DEF SetBlock
<1>5. \A j \in 1..(m + 1) :
        (IF j = m + 1 THEN e(m + 1)
         ELSE IF j <= m THEN FirstBlocks(r, m)[j] ELSE Hole) = e(j)
  BY DEF FirstBlocks
<1>6. FirstBlocks(r, m + 1) = [j \in 1..(m + 1) |-> e(j)]
  BY DEF FirstBlocks
<1> QED
  BY <1>4, <1>5, <1>6

LEMMA RemoveAtFacts ==
  ASSUME NEW S, NEW q \in Seq(S), NEW k \in DOMAIN q
  PROVE  /\ RemoveAt(q, k) \in Seq(S)
         /\ Len(RemoveAt(q, k)) = Len(q) - 1
         /\ DOMAIN RemoveAt(q, k) = 1..(Len(q) - 1)
         /\ \A j \in 1..(Len(q) - 1) :
              RemoveAt(q, k)[j] = IF j < k THEN q[j] ELSE q[j + 1]
<1> DEFINE n == Len(q)
           a == SubSeq(q, 1, k - 1)
           b == SubSeq(q, k + 1, n)
<1>1. n \in Nat /\ k \in 1..n /\ \A i \in 1..n : q[i] \in S
  BY LenProperties, ElementOfSeq
<1>2. a \in Seq(S) /\ Len(a) = k - 1 /\ \A i \in 1..(k - 1) : a[i] = q[i]
  <2>1. \A i \in 1..(k - 1) : q[i] \in S
    BY <1>1
  <2>2. /\ SubSeq(q, 1, k - 1) \in Seq(S)
        /\ Len(SubSeq(q, 1, k - 1)) = IF 1 <= k - 1 THEN (k - 1) - 1 + 1 ELSE 0
        /\ \A i \in 1..((k - 1) - 1 + 1) : SubSeq(q, 1, k - 1)[i] = q[1 + i - 1]
    BY <1>1, <2>1, SubSeqProperties
  <2>3. (k - 1) - 1 + 1 = k - 1 /\ \A i \in 1..(k - 1) : 1 + i - 1 = i
    BY <1>1
  <2> QED
    BY <1>1, <2>2, <2>3
<1>3. b \in Seq(S) /\ Len(b) = n - k /\ \A i \in 1..(n - k) : b[i] = q[k + i]
  <2>1. \A i \in (k + 1)..n : q[i] \in S
    BY <1>1
  <2>2. /\ SubSeq(q, k + 1, n) \in Seq(S)
        /\ Len(SubSeq(q, k + 1, n)) = IF k + 1 <= n THEN n - (k + 1) + 1 ELSE 0
        /\ \A i \in 1..(n - (k + 1) + 1) : SubSeq(q, k + 1, n)[i] = q[(k + 1) + i - 1]
    BY <1>1, <2>1, SubSeqProperties
  <2>3. n - (k + 1) + 1 = n - k /\ \A i \in 1..(n - k) : (k + 1) + i - 1 = k + i
    BY <1>1
  <2> QED
    BY <1>1, <2>2, <2>3
<1>4. RemoveAt(q, k) = a \o b
  BY DEF RemoveAt
<1> HIDE DEF a, b, n
<1>5. /\ RemoveAt(q, k) \in Seq(S) /\ Len(RemoveAt(q, k)) = n - 1
      /\ \A j \in 1..(n - 1) : RemoveAt(q, k)[j] = IF j <= k - 1 THEN a[j]
                                                   ELSE b[j - (k - 1)]
  <2>1. Len(a) + Len(b) = n - 1
    BY <1>1, <1>2, <1>3
  <2>2. /\ a \o b \in Seq(S) /\ Len(a \o b) = Len(a) + Len(b)
        /\ \A j \in 1..(Len(a) + Len(b)) :
             (a \o b)[j] = IF j <= Len(a) THEN a[j] ELSE b[j - Len(a)]
    BY <1>2, <1>3, ConcatProperties
  <2> QED
    BY <1>2, <1>4, <2>1, <2>2
<1>6. ASSUME NEW j \in 1..(n - 1)
      PROVE  RemoveAt(q, k)[j] = IF j < k THEN q[j] ELSE q[j + 1]
  <2>1. CASE j < k
    <3>1. j \in 1..(k - 1) /\ j <= k - 1
      BY <1>1, <2>1
    <3> QED
      BY <1>2, <1>5, <2>1, <3>1
  <2>2. CASE ~ (j < k)
    <3>1. j - (k - 1) \in 1..(n - k) /\ k + (j - (k - 1)) = j + 1 /\ ~ (j <= k - 1)
      BY <1>1, <2>2
    <3>2. b[j - (k - 1)] = q[j + 1]
      BY <1>3, <3>1
    <3> QED
      BY <1>5, <2>2, <3>1, <3>2
  <2> QED
    BY <2>1, <2>2
<1>7. DOMAIN RemoveAt(q, k) = 1..(n - 1)
  BY <1>5, LenProperties
<1> QED
  BY <1>5, <1>6, <1>7 DEF n
=============================================================================
