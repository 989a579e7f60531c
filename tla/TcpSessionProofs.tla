-------------------------- MODULE TcpSessionProofs --------------------------
(***************************************************************************)
(* Reassembly of TCP streams, for streams of any length and any number of  *)
(* segments, retransmissions and connections: the buffer's length is right *)
(* in any order, and until one of the troubles happens the messages come   *)
(* out as they were sent.                                                  *)
(*                                                                         *)
(* What Cuts does to a stream, and to its beginnings, is proved first, from *)
(* its defining equation and least counterexamples.  The invariant, Well,  *)
(* then says where the buffer and each number lie in the stream.           *)
(***************************************************************************)
EXTENDS TcpSession, SequenceTheorems, WellFoundedInduction, TLAPS

\* The natural numbers are well-founded.
LEMMA LeastNumber ==
  ASSUME NEW S \in SUBSET Nat, S # {}
  PROVE  \E m \in S : \A k \in S : m <= k
<1>1. PICK x \in S : \A y \in S : ~ (<<y, x>> \in OpToRel(<, Nat))
  BY NatLessThanWellFounded, WFMin
<1>2. \A y \in S : ~ (y < x)
  BY <1>1 DEF OpToRel
<1> QED
  BY <1>2

-----------------------------------------------------------------------------
(* Where messages are cut                                                  *)

\* The message that starts at i is complete.
Complete(c, i) == i <= Len(c) /\ i + c[i] <= Len(c)

\* k leads from i to the first message of c that is not complete.
Chain(c, i, k) ==
  /\ k \in Seq(1..Len(c) + 1) /\ k # <<>> /\ k[1] = i
  /\ \A m \in 1..Len(k) - 1 : Complete(c, k[m]) /\ k[m + 1] = k[m] + c[k[m]] + 1
  /\ ~Complete(c, k[Len(k)])

\* A chain of one, and one that begins with a message.
LEMMA ChainBegins ==
  ASSUME NEW c \in Seq(Nat), NEW i \in 1..Len(c) + 1
  PROVE  /\ ~Complete(c, i) => Chain(c, i, <<i>>)
         /\ Complete(c, i) =>
              /\ i + c[i] + 1 \in 1..Len(c) + 1
              /\ \A k : Chain(c, i + c[i] + 1, k) => Chain(c, i, <<i>> \o k)
<1>1. Len(c) \in Nat /\ (i <= Len(c) => c[i] \in Nat)
  OBVIOUS
<1>2. ASSUME ~Complete(c, i) PROVE Chain(c, i, <<i>>)
  BY <1>1, <1>2 DEF Chain
<1>3. ASSUME Complete(c, i) PROVE i + c[i] + 1 \in 1..Len(c) + 1
  BY <1>1, <1>3 DEF Complete
<1>4. ASSUME Complete(c, i), NEW k, Chain(c, i + c[i] + 1, k) PROVE Chain(c, i, <<i>> \o k)
  <2> DEFINE l == <<i>> \o k
  <2>1. k \in Seq(1..Len(c) + 1) /\ Len(k) \in Nat \ {0} /\ <<i>> \in Seq(1..Len(c) + 1) /\ Len(<<i>>) = 1
    BY <1>4 DEF Chain
  <2>2. /\ l \in Seq(1..Len(c) + 1) /\ Len(l) = Len(k) + 1
        /\ \A m \in 1..Len(k) + 1 : l[m] = IF m = 1 THEN i ELSE k[m - 1]
    BY <2>1, ConcatProperties
  <2> HIDE DEF l
  <2>3. ASSUME NEW m \in 1..Len(l) - 1
        PROVE  Complete(c, l[m]) /\ l[m + 1] = l[m] + c[l[m]] + 1
    <3>1. CASE m = 1
      <4>1. l[1] = i /\ l[2] = k[1] /\ k[1] = i + c[i] + 1
        <5>1. 1 \in 1..Len(k) + 1 /\ 2 \in 1..Len(k) + 1 /\ 2 # 1 /\ 2 - 1 = 1
          BY <2>1
        <5>2. l[1] = i /\ l[2] = k[1]
          BY <2>2, <5>1
        <5> QED
          BY <1>4, <5>2 DEF Chain
      <4> QED
        BY <1>4, <3>1, <4>1
    <3>2. CASE m # 1
      <4>1. m - 1 \in 1..Len(k) - 1 /\ m \in 1..Len(k) /\ m + 1 \in 1..Len(k) + 1
        BY <2>1, <2>2, <3>2
      <4>2. l[m] = k[m - 1] /\ l[m + 1] = k[m]
        <5>1. m \in 1..Len(k) + 1 /\ m + 1 \in 1..Len(k) + 1 /\ m + 1 # 1 /\ (m + 1) - 1 = m
          BY <3>2, <4>1
        <5> QED
          BY <2>2, <3>2, <5>1
      <4>3. Complete(c, k[m - 1]) /\ k[(m - 1) + 1] = k[m - 1] + c[k[m - 1]] + 1
        BY <1>4, <4>1 DEF Chain
      <4> QED
        BY <4>1, <4>2, <4>3
    <3> QED
      BY <3>1, <3>2
  <2>4. ~Complete(c, l[Len(l)])
    <3>1. Len(k) + 1 \in 1..Len(k) + 1 /\ Len(k) + 1 # 1 /\ (Len(k) + 1) - 1 = Len(k)
      BY <2>1
    <3>2. l[Len(k) + 1] = k[Len(k)]
      BY <2>2, <3>1
    <3> QED
      BY <1>4, <2>2, <3>2 DEF Chain
  <2>5. Chain(c, i, l)
    BY <2>1, <2>2, <2>3, <2>4 DEF Chain
  <2> QED
    BY <2>5 DEF l
<1> QED
  BY <1>2, <1>3, <1>4

\* What a chain goes through is in order, and within the bytes.
LEMMA ChainUnique ==
  ASSUME NEW c \in Seq(Nat), NEW i \in 1..Len(c) + 1, NEW k, NEW l, Chain(c, i, k), Chain(c, i, l)
  PROVE  k = l
<1>1. /\ k \in Seq(1..Len(c) + 1) /\ l \in Seq(1..Len(c) + 1)
      /\ Len(k) \in Nat \ {0} /\ Len(l) \in Nat \ {0}
  BY DEF Chain
<1>2. ASSUME NEW n \in Nat, n # 0, n <= Len(k), n <= Len(l), k[n] # l[n] PROVE FALSE
  <2> DEFINE S == {x \in Nat \ {0} : x <= Len(k) /\ x <= Len(l) /\ k[x] # l[x]}
  <2>0. n \in S /\ S \in SUBSET Nat
    BY <1>2
  <2>1. PICK x \in S : \A y \in S : x <= y
    BY <2>0, LeastNumber
  <2>2. x # 1
    BY <2>1 DEF Chain
  <2>3. x - 1 \in Nat \ {0} /\ x - 1 <= Len(k) /\ x - 1 <= Len(l)
    BY <1>1, <2>1, <2>2
  <2>4. x - 1 \notin S
    <3>1. x \in Nat /\ ~(x <= x - 1)
      BY <2>1
    <3> HIDE DEF S
    <3> QED
      BY <2>1, <3>1
  <2>5. k[x - 1] = l[x - 1]
    BY <2>3, <2>4
  <2>6. x - 1 \in 1..Len(k) - 1 /\ x - 1 \in 1..Len(l) - 1 /\ (x - 1) + 1 = x
    BY <1>1, <2>1, <2>3
  <2>7. k[x] = k[x - 1] + c[k[x - 1]] + 1 /\ l[x] = l[x - 1] + c[l[x - 1]] + 1
    BY <2>6 DEF Chain
  <2> QED
    BY <2>1, <2>5, <2>7
<1>3. ASSUME Len(k) < Len(l) PROVE FALSE
  <2>1. Len(k) \in 1..Len(l) - 1
    BY <1>1, <1>3
  <2>2. Complete(c, l[Len(k)]) /\ ~Complete(c, k[Len(k)])
    BY <2>1 DEF Chain
  <2>3. k[Len(k)] # l[Len(k)]
    BY <2>2
  <2>4. Len(k) \in Nat /\ Len(k) # 0 /\ Len(k) <= Len(k) /\ Len(k) <= Len(l)
    BY <1>1, <1>3
  <2> QED
    BY <1>2, <2>3, <2>4
<1>4. ASSUME Len(l) < Len(k) PROVE FALSE
  <2>1. Len(l) \in 1..Len(k) - 1
    BY <1>1, <1>4
  <2>2. Complete(c, k[Len(l)]) /\ ~Complete(c, l[Len(l)])
    BY <2>1 DEF Chain
  <2>3. k[Len(l)] # l[Len(l)]
    BY <2>2
  <2>4. Len(l) \in Nat /\ Len(l) # 0 /\ Len(l) <= Len(l) /\ Len(l) <= Len(k)
    BY <1>1, <1>4
  <2> QED
    BY <1>2, <2>3, <2>4
<1>5. Len(k) = Len(l)
  BY <1>1, <1>3, <1>4
<1>6. \A n \in 1..Len(k) : k[n] = l[n]
  BY <1>1, <1>2, <1>5
<1> QED
  BY <1>1, <1>5, <1>6, SeqEqual

\* What is left of a bytes after j, and after the next d + 1.
LEMMA LessLeft ==
  ASSUME NEW a \in Nat, NEW j \in 1..a + 1, NEW d \in Nat, j + d + 1 \in 1..a + 1
  PROVE  /\ a + 1 - j \in Nat /\ a + 1 - (j + d + 1) \in Nat
         /\ ~(a + 1 - j <= a + 1 - (j + d + 1))
  OBVIOUS

\* The message boundaries exist.
LEMMA ChainExists ==
  ASSUME NEW c \in Seq(Nat), NEW i \in 1..Len(c) + 1
  PROVE  \E k : Chain(c, i, k)
<1> DEFINE S == {n \in Nat : \E j \in 1..Len(c) + 1 : n = Len(c) + 1 - j /\ \A k : ~Chain(c, j, k)}
<1>1. SUFFICES ASSUME \A k : ~Chain(c, i, k) PROVE FALSE
  OBVIOUS
<1>2. Len(c) + 1 - i \in S
  BY <1>1
<1>3. PICK n \in S : \A m \in S : n <= m
  BY <1>2, LeastNumber
<1>4. PICK j \in 1..Len(c) + 1 : n = Len(c) + 1 - j /\ \A k : ~Chain(c, j, k)
  BY <1>3
<1>5. Complete(c, j) /\ j + c[j] + 1 \in 1..Len(c) + 1
  BY <1>4, ChainBegins
<1>6. c[j] \in Nat
  BY SMTT(30), <1>5 DEF Complete
<1>7. ASSUME NEW k PROVE ~Chain(c, j + c[j] + 1, k)
  BY <1>4, <1>5, ChainBegins
<1>8. Len(c) + 1 - (j + c[j] + 1) \in S
  <2> DEFINE next == j + c[j] + 1
  <2>1. next \in 1..Len(c) + 1 /\ \A k : ~Chain(c, next, k)
    BY <1>5, <1>7
  <2> HIDE DEF next
  <2>2. Len(c) + 1 - next \in Nat
    BY <2>1
  <2>3. Len(c) + 1 - next \in S
    BY <2>1, <2>2
  <2> QED
    BY <2>3 DEF next
<1>9. n <= Len(c) + 1 - (j + c[j] + 1)
  BY <1>3, <1>8
<1> HIDE DEF S
<1> QED
  BY SMTT(30), <1>4, <1>5, <1>6, <1>9, LessLeft

\* What Cuts computes.
LEMMA CutsChain ==
  ASSUME NEW c \in Seq(Nat)
  PROVE  Chain(c, 1, Cuts(c))
<1> DEFINE Goes(f) == f = [i \in 1..Len(c) + 1 |->
                             IF i > Len(c) \/ i + c[i] > Len(c) THEN <<i>>
                             ELSE <<i>> \o f[i + c[i] + 1]]
           g == [i \in 1..Len(c) + 1 |-> CHOOSE k : Chain(c, i, k)]
<1>1. ASSUME NEW i \in 1..Len(c) + 1
      PROVE  /\ (i > Len(c) \/ i + c[i] > Len(c)) <=> ~Complete(c, i)
             /\ Complete(c, i) => c[i] \in Nat
  BY DEF Complete
<1>2. \A i \in 1..Len(c) + 1 : Chain(c, i, g[i])
  BY ChainExists
<1>3. ASSUME NEW i \in 1..Len(c) + 1
      PROVE  g[i] = IF i > Len(c) \/ i + c[i] > Len(c) THEN <<i>> ELSE <<i>> \o g[i + c[i] + 1]
  <2> HIDE DEF g
  <2>1. CASE ~Complete(c, i)
    <3>1. Chain(c, i, <<i>>)
      BY <2>1, ChainBegins
    <3>2. g[i] = <<i>>
      BY <1>2, <3>1, ChainUnique
    <3> QED
      BY <1>1, <2>1, <3>2
  <2>2. CASE Complete(c, i)
    <3>1. i + c[i] + 1 \in 1..Len(c) + 1
      BY <2>2, ChainBegins
    <3>2. Chain(c, i, <<i>> \o g[i + c[i] + 1])
      BY <1>2, <2>2, <3>1, ChainBegins
    <3>3. g[i] = <<i>> \o g[i + c[i] + 1]
      BY <1>2, <3>2, ChainUnique
    <3> QED
      BY <1>1, <2>2, <3>3
  <2> QED
    BY <2>1, <2>2
<1>4. Goes(g)
  <2> DEFINE G(i) == IF i > Len(c) \/ i + c[i] > Len(c) THEN <<i>> ELSE <<i>> \o g[i + c[i] + 1]
  <2>1. g = [i \in 1..Len(c) + 1 |-> g[i]]
    OBVIOUS
  <2>2. \A i \in 1..Len(c) + 1 : g[i] = G(i)
    BY <1>3
  <2> HIDE DEF g, G
  <2>3. g = [i \in 1..Len(c) + 1 |-> G(i)]
    BY <2>1, <2>2
  <2> QED
    BY <2>3 DEF G
<1> DEFINE h == CHOOSE f : Goes(f)
<1>5. Goes(h)
  BY <1>4
<1>6. Cuts(c) = h[1]
  BY DEF Cuts
<1> HIDE DEF g, h
<1>7. ASSUME NEW i \in 1..Len(c) + 1
      PROVE  h[i] = IF Complete(c, i) THEN <<i>> \o h[i + c[i] + 1] ELSE <<i>>
  BY <1>1, <1>5
<1> DEFINE S == {n \in Nat : \E j \in 1..Len(c) + 1 : n = Len(c) + 1 - j /\ ~Chain(c, j, h[j])}
<1>8. S = {}
  <2>1. SUFFICES ASSUME S # {} PROVE FALSE
    OBVIOUS
  <2>2. PICK n \in S : \A m \in S : n <= m
    BY <2>1, LeastNumber
  <2>3. PICK j \in 1..Len(c) + 1 : n = Len(c) + 1 - j /\ ~Chain(c, j, h[j])
    BY <2>2
  <2>4. Complete(c, j)
    BY <1>7, <2>3, ChainBegins
  <2>5. j + c[j] + 1 \in 1..Len(c) + 1 /\ c[j] \in Nat
    BY <2>4, <1>1, ChainBegins
  <2>6. Chain(c, j + c[j] + 1, h[j + c[j] + 1])
    <3>1. SUFFICES ASSUME ~Chain(c, j + c[j] + 1, h[j + c[j] + 1]) PROVE FALSE
      OBVIOUS
    <3>2. Len(c) + 1 - (j + c[j] + 1) \in S
      <4> DEFINE next == j + c[j] + 1
      <4>1. next \in 1..Len(c) + 1 /\ ~Chain(c, next, h[next])
        BY <2>5, <3>1
      <4> HIDE DEF next
      <4>2. Len(c) + 1 - next \in Nat
        BY <4>1
      <4>3. Len(c) + 1 - next \in S
        BY <4>1, <4>2
      <4> QED
        BY <4>3 DEF next
    <3>3. n <= Len(c) + 1 - (j + c[j] + 1)
      BY <2>2, <3>2
    <3> HIDE DEF S
    <3> QED
      BY SMTT(30), <2>3, <2>5, <3>3, LessLeft
  <2>7. Chain(c, j, <<j>> \o h[j + c[j] + 1])
    BY <2>4, <2>6, ChainBegins
  <2> QED
    BY <1>7, <2>3, <2>4, <2>7
<1>9. 1 \in 1..Len(c) + 1 /\ Len(c) + 1 - 1 \in Nat
  OBVIOUS
<1> QED
  BY <1>6, <1>8, <1>9

\* The boundaries are in order, the first is the first byte, the last is where
\* what is left starts.
LEMMA CutsTyped ==
  ASSUME NEW c \in Seq(Nat), NEW k, k = Cuts(c)
  PROVE  /\ Len(c) \in Nat /\ k \in Seq(1..Len(c) + 1) /\ Len(k) \in Nat \ {0} /\ k[1] = 1
         /\ \A m \in 1..Len(k) : k[m] \in 1..Len(c) + 1
         /\ \A m \in 1..Len(k) - 1 : k[m] < k[m + 1]
<1>1. Chain(c, 1, k)
  BY CutsChain
<1>2. Len(c) \in Nat /\ k \in Seq(1..Len(c) + 1) /\ Len(k) \in Nat \ {0} /\ k[1] = 1
  BY <1>1 DEF Chain
<1>3. \A m \in 1..Len(k) : k[m] \in 1..Len(c) + 1
  BY <1>2
<1>4. ASSUME NEW m \in 1..Len(k) - 1 PROVE k[m] < k[m + 1]
  <2>1. Complete(c, k[m]) /\ k[m + 1] = k[m] + c[k[m]] + 1
    BY <1>1 DEF Chain
  <2>2. k[m] \in 1..Len(c) + 1
    BY <1>2, <1>3
  <2>3. c[k[m]] \in Nat
    BY <2>1, <2>2 DEF Complete
  <2> QED
    BY SMTT(30), <2>1, <2>2, <2>3
<1> QED
  BY <1>2, <1>3, <1>4

\* Part of a sequence of bytes.
LEMMA PartTyped ==
  ASSUME NEW S, NEW c \in Seq(S), NEW i \in Nat \ {0}, NEW j \in Int, j <= Len(c)
  PROVE  /\ SubSeq(c, i, j) \in Seq(S)
         /\ Len(SubSeq(c, i, j)) = IF i <= j THEN j - i + 1 ELSE 0
<1>1. \A n \in i..j : c[n] \in S
  OBVIOUS
<1> QED
  BY <1>1, SubSeqProperties

LEMMA MessagesTyped ==
  ASSUME NEW c \in Seq(Nat)
  PROVE  /\ Messages(c) \in Seq(Seq(Nat)) /\ Len(Messages(c)) = Len(Cuts(c)) - 1
         /\ Rest(c) \in Seq(Nat) /\ Len(Rest(c)) = Len(c) + 1 - Cuts(c)[Len(Cuts(c))]
<1> DEFINE k == Cuts(c)
<1>1. /\ Len(c) \in Nat /\ Len(k) \in Nat \ {0}
      /\ \A m \in 1..Len(k) : k[m] \in 1..Len(c) + 1
  BY CutsTyped
<1> HIDE DEF k
<1>2. ASSUME NEW m \in 1..Len(k) - 1 PROVE SubSeq(c, k[m], k[m + 1] - 1) \in Seq(Nat)
  <2>1. k[m] \in Nat \ {0} /\ k[m + 1] - 1 \in Int /\ k[m + 1] - 1 <= Len(c)
    BY <1>1
  <2> QED
    BY <2>1, PartTyped
<1>3. Messages(c) = [m \in 1..Len(k) - 1 |-> SubSeq(c, k[m], k[m + 1] - 1)]
  BY DEF Messages, k
<1>4. Rest(c) = SubSeq(c, k[Len(k)], Len(c))
  BY DEF Rest, k
<1>5. Messages(c) \in Seq(Seq(Nat)) /\ Len(Messages(c)) = Len(k) - 1
  BY <1>1, <1>2, <1>3
<1>6. Rest(c) \in Seq(Nat) /\ Len(Rest(c)) = Len(c) + 1 - k[Len(k)]
  <2>1. k[Len(k)] \in 1..Len(c) + 1
    BY <1>1
  <2>2. k[Len(k)] \in Nat \ {0} /\ Len(c) \in Int /\ Len(c) <= Len(c)
    BY <1>1, <2>1
  <2>3. /\ Rest(c) \in Seq(Nat)
        /\ Len(Rest(c)) = IF k[Len(k)] <= Len(c) THEN Len(c) - k[Len(k)] + 1 ELSE 0
    BY <1>4, <2>2, PartTyped
  <2> QED
    BY <1>1, <2>1, <2>3
<1> QED
  BY <1>5, <1>6 DEF k

-----------------------------------------------------------------------------
(* StringBuffer                                                            *)

\* A buffer whose content_len is right.
Buffers == {b \in [content : Seq(Nat), len : Nat, noff : Int] :
              b.noff <= 0 /\ b.len = Len(b.content)}

LEMMA ZerosTyped ==
  ASSUME NEW n \in Nat PROVE Zeros(n) \in Seq(Nat) /\ Len(Zeros(n)) = n
  BY DEF Zeros

\* Data put anywhere leaves such a buffer, that holds the data.
LEMMA PutTyped ==
  ASSUME NEW b \in Buffers, NEW data \in Seq(Nat), NEW pos \in Int
  PROVE  Put(b, data, pos) \in Buffers
<1> DEFINE lead == IF pos < 0 THEN -pos ELSE 0
           at == pos + lead
           old == Zeros(lead) \o b.content
           size == IF at + Len(data) > b.len + lead THEN at + Len(data) ELSE b.len + lead
           whole == old \o Zeros(size - b.len - lead)
           content == [i \in 1..Len(whole) |-> IF i - at \in 1..Len(data) THEN data[i - at] ELSE whole[i]]
<1>1. b.content \in Seq(Nat) /\ b.len \in Nat /\ b.noff \in Int /\ b.noff <= 0 /\ b.len = Len(b.content)
  BY DEF Buffers
<1>2. lead \in Nat /\ at \in Nat /\ Len(data) \in Nat
  OBVIOUS
<1> HIDE DEF lead
<1>3. size \in Nat /\ size - b.len - lead \in Nat
  BY <1>1, <1>2
<1>4. old \in Seq(Nat) /\ Len(old) = lead + b.len
  BY <1>1, <1>2, ZerosTyped, ConcatProperties
<1> HIDE DEF at, old, size
<1> DEFINE more == size - b.len - lead
           tail == Zeros(more)
<1>5. tail \in Seq(Nat) /\ Len(tail) = more
  BY <1>3, ZerosTyped
<1>6. more \in Nat /\ lead + b.len + more = size
  <2>1. \A x \in Nat, y \in Nat, z \in Nat : x + y + (z - y - x) = z
    OBVIOUS
  <2>2. lead \in Nat /\ b.len \in Nat /\ size \in Nat
    BY <1>1, <1>2, <1>3
  <2> QED
    BY <1>3, <2>1, <2>2
<1> HIDE DEF more, tail
<1>7. (old \o tail) \in Seq(Nat) /\ Len(old \o tail) = size
  BY ZenonT(30), <1>4, <1>5, <1>6, ConcatProperties
<1>11. whole = old \o tail
  BY DEF tail, more
<1> HIDE DEF whole
<1>12. ASSUME NEW i \in 1..Len(whole)
       PROVE  (IF i - at \in 1..Len(data) THEN data[i - at] ELSE whole[i]) \in Nat
  <2>1. whole[i] \in Nat
    BY <1>7, <1>11
  <2>2. i - at \in 1..Len(data) => data[i - at] \in Nat
    OBVIOUS
  <2> QED
    BY <2>1, <2>2
<1>8. content \in Seq(Nat) /\ Len(content) = size
  BY <1>3, <1>7, <1>11, <1>12
<1> HIDE DEF content
<1>9. [content |-> content, len |-> size, noff |-> b.noff - lead] \in Buffers
  BY <1>1, <1>2, <1>3, <1>8 DEF Buffers
<1> QED
  BY <1>9 DEF Put, content, whole, size, old, at, lead

LEMMA ShiftTyped ==
  ASSUME NEW b \in Buffers, NEW i \in 0..b.len
  PROVE  ShiftLeft(b, i) \in Buffers
<1>1. b.content \in Seq(Nat) /\ b.len \in Nat /\ b.noff \in Int /\ b.noff <= 0 /\ b.len = Len(b.content)
  BY DEF Buffers
<1>2. i + 1 \in Nat \ {0} /\ Len(b.content) \in Int /\ Len(b.content) <= Len(b.content)
  BY <1>1
<1>3. /\ SubSeq(b.content, i + 1, Len(b.content)) \in Seq(Nat)
      /\ Len(SubSeq(b.content, i + 1, Len(b.content)))
           = IF i + 1 <= Len(b.content) THEN Len(b.content) - (i + 1) + 1 ELSE 0
  BY <1>1, <1>2, PartTyped
<1>4. Len(SubSeq(b.content, i + 1, Len(b.content))) = b.len - i /\ b.len - i \in Nat
  BY <1>1, <1>3
<1> QED
  BY <1>1, <1>3, <1>4 DEF ShiftLeft, Buffers

-----------------------------------------------------------------------------
(* Every value keeps its type                                              *)

TypeInv == TypeOK /\ BufferLengthAgrees

Numbers == Nat \cup {Absent}
Metas == [seq : Numbers, relative : Numbers \cup {-1}, next : Numbers]

\* What the type invariant is made of.
Parts ==
  /\ stream \in Streams /\ isn \in Isns
  /\ sent \in 0..Len(stream) /\ closed \in BOOLEAN
  /\ flying \subseteq (1..sent) \X (1..sent) /\ seen \subseteq (1..sent) \X (1..sent)
  /\ retrans \in 0..MaxRetrans /\ conns \in 1..MaxConns
  /\ buffer \in Buffers /\ meta \in Metas
  /\ returned \in Seq(Seq(Nat)) /\ trouble \subseteq Troubles

LEMMA TypeParts == TypeInv <=> Parts
  BY DEF TypeInv, TypeOK, BufferLengthAgrees, Buffers, Numbers, Metas, Parts

LEMMA TypePartsNext == Parts' => TypeInv'
  BY DEF TypeInv, TypeOK, BufferLengthAgrees, Buffers, Numbers, Metas, Parts

LEMMA StreamTyped ==
  ASSUME TypeInv
  PROVE  stream \in Seq(Nat) /\ Len(stream) \in Nat /\ isn \in Nat /\ sent \in Nat
<1>1. stream \in Streams /\ isn \in Isns /\ sent \in 0..Len(stream)
  BY TypeParts DEF Parts
<1> QED
  BY <1>1, ConstantsAssumption DEF ConstantsAssumption

\* Sequence numbers.
LEMMA SeqOfTyped ==
  ASSUME TypeInv, NEW o \in Nat
  PROVE  SeqOf(o) \in Nat /\ SeqOf(o) < SeqMod
<1>1. SeqMod \in Nat \ {0} /\ isn + o \in Nat
  BY StreamTyped, ConstantsAssumption DEF ConstantsAssumption
<1> QED
  BY <1>1 DEF SeqOf

LEMMA NotedTyped ==
  ASSUME meta \in Metas, NEW seq \in Nat
  PROVE  /\ Noted(seq) \in Metas /\ Noted(seq).seq \in Nat
         /\ Noted(seq).relative = meta.relative /\ Noted(seq).next = meta.next
<1>1. CASE meta.seq = Absent
  BY <1>1 DEF Noted, Metas, Numbers
<1>2. CASE meta.seq # Absent
  BY <1>2 DEF Noted, Metas, Numbers
<1> QED
  BY <1>1, <1>2

\* What a segment with data is cut to.
LEMMA NewTyped ==
  ASSUME meta \in Metas, NEW seq \in Nat, NEW data \in Seq(Nat)
  PROVE  /\ AlreadyReturned(seq) \in Nat
         /\ SubSeq(data, AlreadyReturned(seq) + 1, Len(data)) \in Seq(Nat)
<1>1. AlreadyReturned(seq) \in Nat
  BY DEF AlreadyReturned, Metas, Numbers, Absent
<1>2. AlreadyReturned(seq) + 1 \in Nat \ {0} /\ Len(data) \in Int /\ Len(data) <= Len(data)
  BY <1>1
<1> QED
  BY <1>1, <1>2, PartTyped

LEMMA ProcessDataTyped ==
  ASSUME buffer \in Buffers, meta \in Metas, returned \in Seq(Seq(Nat)),
         NEW seq \in Nat, NEW data \in Seq(Nat), ProcessData(data, seq)
  PROVE  buffer' \in Buffers /\ meta' \in Metas /\ returned' \in Seq(Seq(Nat))
<1> DEFINE old == AlreadyReturned(seq)
           new == SubSeq(data, old + 1, Len(data))
           noted == Noted(seq)
           relative == IF meta.relative = Absent THEN seq + old - 1 ELSE meta.relative
           b == AppendAt(buffer, new, seq + old - relative)
           k == Cuts(b.content)
           rest == Rest(b.content)
<1>1. old \in Nat /\ new \in Seq(Nat)
  BY NewTyped
<1>2. noted \in Metas /\ noted.seq \in Nat
  BY NotedTyped
<1>3. relative \in Nat \cup {-1}
  BY <1>1 DEF Metas, Numbers
<1> HIDE DEF old, new, noted, relative
<1>4. b \in Buffers
  <2>1. buffer.noff \in Int
    BY DEF Buffers
  <2> DEFINE pos == seq + old - relative - 1 - buffer.noff
  <2>2. pos \in Int
    BY <1>1, <1>3, <2>1
  <2>3. b = Put(buffer, new, pos)
    BY <1>1, <1>3, <2>1 DEF AppendAt
  <2> HIDE DEF pos, b
  <2> QED
    BY <1>1, <2>2, <2>3, PutTyped
<1> HIDE DEF b
<1>5. b.content \in Seq(Nat) /\ b.len = Len(b.content)
  BY <1>4 DEF Buffers
<1>6. /\ Len(b.content) \in Nat /\ Len(k) \in Nat \ {0}
      /\ \A m \in 1..Len(k) : k[m] \in 1..Len(b.content) + 1
      /\ \A m \in 1..Len(k) - 1 : k[m] < k[m + 1]
  BY <1>5, CutsTyped
<1>7. /\ Messages(b.content) \in Seq(Seq(Nat))
      /\ rest \in Seq(Nat) /\ Len(rest) = Len(b.content) + 1 - k[Len(k)]
  BY <1>5, MessagesTyped
<1> HIDE DEF k, rest
<1>8. CASE new = <<>>
  <2>1. meta' = noted /\ UNCHANGED <<buffer, returned>>
    BY <1>8 DEF ProcessData, new, old, noted
  <2> QED
    BY <1>2, <2>1
<1>9. CASE new # <<>> /\ Len(k) = 1
  <2>1. buffer' = b /\ meta' = [noted EXCEPT !.relative = relative] /\ UNCHANGED returned
    BY <1>9 DEF ProcessData, new, old, noted, relative, b, k
  <2>2. meta' \in Metas
    BY <1>2, <1>3, <2>1 DEF Metas, Numbers
  <2> QED
    BY <1>4, <2>1, <2>2
<1>10. CASE new # <<>> /\ Len(k) # 1 /\ rest = <<>>
  <2>1. buffer' = EmptyBuffer /\ meta' = EmptyMeta /\ returned' = returned \o Messages(b.content)
    BY <1>10 DEF ProcessData, new, old, noted, relative, b, k, rest
  <2>2. EmptyBuffer \in Buffers /\ EmptyMeta \in Metas
    BY DEF EmptyBuffer, EmptyMeta, Buffers, Metas, Numbers
  <2> QED
    BY <1>7, <2>1, <2>2, ConcatProperties
<1>11. CASE new # <<>> /\ Len(k) # 1 /\ rest # <<>>
  <2>1. /\ returned' = returned \o Messages(b.content)
        /\ buffer' = ShiftLeft(b, Len(b.content) - Len(rest))
        /\ meta' = [seq |-> Absent, relative |-> RelativeAfter(relative, k),
                    next |-> noted.seq + Len(new)]
    BY <1>11 DEF ProcessData, new, old, noted, relative, b, k, rest
  <2>2. Len(b.content) - Len(rest) \in 0..b.len
    <3>1. k[Len(k)] \in 1..Len(b.content) + 1
      BY <1>6
    <3> QED
      BY SMTT(30), <1>5, <1>6, <1>7, <3>1
  <2>3. buffer' \in Buffers
    BY <1>4, <2>1, <2>2, ShiftTyped
  <2>4. k[Len(k)] - k[Len(k) - 1] \in Nat
    <3> DEFINE n == Len(k)
    <3>0. n \in Nat \ {0} /\ n # 1
      BY <1>6, <1>11
    <3> HIDE DEF n
    <3>1. n - 1 \in 1..n - 1 /\ n - 1 \in 1..n /\ n \in 1..n /\ (n - 1) + 1 = n
      BY <3>0
    <3> USE DEF n
    <3>2. k[Len(k) - 1] < k[Len(k)]
      BY <1>6, <3>1
    <3>3. k[Len(k) - 1] \in Nat /\ k[Len(k)] \in Nat
      BY <1>6, <3>1
    <3> QED
      BY <3>2, <3>3
  <2>5. RelativeAfter(relative, k) \in Nat \cup {-1}
    BY <1>3, <2>4 DEF RelativeAfter
  <2>6. noted.seq + Len(new) \in Nat
    BY <1>1, <1>2
  <2>7. meta' \in Metas
    BY <2>1, <2>5, <2>6 DEF Metas, Numbers
  <2> QED
    BY <1>7, <2>1, <2>3, <2>7, ConcatProperties
<1> QED
  BY <1>8, <1>9, <1>10, <1>11

\* A segment in flight, or seen.
LEMMA SegmentTyped ==
  ASSUME TypeInv, NEW seg \in (1..sent) \X (1..sent)
  PROVE  /\ seg[1] \in 1..sent /\ seg[2] \in 1..sent /\ seg = <<seg[1], seg[2]>>
         /\ SubSeq(stream, seg[1], seg[2]) \in Seq(Nat) /\ SeqOf(seg[1]) \in Nat
<1>1. seg[1] \in 1..sent /\ seg[2] \in 1..sent /\ seg = <<seg[1], seg[2]>>
  OBVIOUS
<1>2. stream \in Seq(Nat) /\ Len(stream) \in Nat /\ sent \in Nat /\ sent <= Len(stream)
  BY StreamTyped, TypeParts DEF Parts
<1>3. seg[1] \in Nat \ {0} /\ seg[2] \in Int /\ seg[2] <= Len(stream)
  BY <1>1, <1>2
<1> QED
  BY <1>1, <1>2, <1>3, PartTyped, SeqOfTyped

LEMMA InitTyped == Init => TypeInv
<1> SUFFICES ASSUME Init PROVE TypeInv
  OBVIOUS
<1>1. MaxRetrans \in Nat /\ MaxConns \in Nat \ {0} /\ isn \in Nat /\ stream \in Seq(Nat)
  BY ConstantsAssumption DEF ConstantsAssumption, Init
<1>2. 0 \in 0..MaxRetrans /\ 1 \in 1..MaxConns /\ 0 \in 0..Len(stream)
  BY <1>1
<1>3. EmptyBuffer \in Buffers
  BY DEF EmptyBuffer, Buffers
<1>4. meta \in Metas
  BY <1>1 DEF Init, EmptyMeta, Metas, Numbers
<1>5. trouble \subseteq Troubles
  BY DEF Init, Wraps, Troubles
<1> QED
  <2>1. /\ stream \in Streams /\ isn \in Isns /\ sent = 0 /\ closed = FALSE /\ flying = {} /\ seen = {}
        /\ retrans = 0 /\ conns = 1 /\ buffer = EmptyBuffer /\ returned = <<>>
    BY DEF Init
  <2>2. returned \in Seq(Seq(Nat))
    BY <2>1
  <2> QED
    BY <1>2, <1>3, <1>4, <1>5, <2>1, <2>2, TypeParts DEF Parts

LEMMA CaptureTyped == ASSUME TypeInv, NEW seg \in flying, Capture(seg) PROVE TypeInv'
<1>1. /\ seg \in (1..sent) \X (1..sent) /\ seen \subseteq (1..sent) \X (1..sent)
      /\ buffer \in Buffers /\ meta \in Metas /\ returned \in Seq(Seq(Nat)) /\ trouble \subseteq Troubles
  BY TypeParts DEF Parts
<1>2. SubSeq(stream, seg[1], seg[2]) \in Seq(Nat) /\ SeqOf(seg[1]) \in Nat
  BY <1>1, SegmentTyped
<1>3. buffer' \in Buffers /\ meta' \in Metas /\ returned' \in Seq(Seq(Nat))
  BY <1>1, <1>2, ProcessDataTyped DEF Capture
<1>4. trouble' \subseteq Troubles
  BY <1>1 DEF Capture, NewTrouble
<1>5. /\ UNCHANGED <<stream, isn, sent, closed, retrans, conns>>
      /\ flying' = flying \ {seg} /\ seen' = seen \cup {seg}
  BY DEF Capture
<1>6. flying' \subseteq (1..sent) \X (1..sent) /\ seen' \subseteq (1..sent) \X (1..sent)
  BY <1>1, <1>5, TypeParts DEF Parts
<1> QED
  BY <1>3, <1>4, <1>5, <1>6, TypeParts, TypePartsNext DEF Parts, Buffers, Metas, Numbers, Troubles

LEMMA CaptureEmptyTyped == ASSUME TypeInv, CaptureEmpty PROVE TypeInv'
<1>1. meta \in Metas /\ sent + 1 \in Nat
  BY TypeParts, StreamTyped DEF Parts
<1>2. Noted(SeqOf(sent + 1)) \in Metas
  BY <1>1, SeqOfTyped, NotedTyped
<1>3. trouble' \subseteq Troubles
  BY TypeParts DEF CaptureEmpty, Troubles, Parts
<1> QED
  BY <1>2, <1>3, TypeParts, TypePartsNext DEF CaptureEmpty, ProcessEmpty, Parts

LEMMA TransmitTyped == ASSUME TypeInv, NEW n \in 1..Len(stream), Transmit(n) PROVE TypeInv'
<1>1. /\ Len(stream) \in Nat /\ sent \in 0..Len(stream)
      /\ flying \subseteq (1..sent) \X (1..sent) /\ seen \subseteq (1..sent) \X (1..sent)
  BY TypeParts, StreamTyped DEF Parts
<1>2. sent' = sent + n /\ sent + n <= Len(stream) /\ flying' = flying \cup {<<sent + 1, sent + n>>}
  BY DEF Transmit
<1>3. sent' \in 0..Len(stream) /\ 1..sent \subseteq 1..sent' /\ sent + 1 \in 1..sent' /\ sent + n \in 1..sent'
  BY <1>1, <1>2
<1>4. flying' \subseteq (1..sent') \X (1..sent') /\ seen \subseteq (1..sent') \X (1..sent')
  BY <1>1, <1>2, <1>3
<1>5. UNCHANGED <<stream, isn, closed, seen, retrans, conns, buffer, meta, returned, trouble>>
  BY DEF Transmit
<1> QED
  BY <1>3, <1>4, <1>5, TypeParts, TypePartsNext DEF Parts

LEMMA RetransmitTyped == ASSUME TypeInv, NEW seg \in seen, Retransmit(seg) PROVE TypeInv'
<1>1. retrans \in 0..MaxRetrans /\ MaxRetrans \in Nat
  BY TypeParts, ConstantsAssumption DEF ConstantsAssumption, Parts
<1>2. retrans' \in 0..MaxRetrans
  BY <1>1 DEF Retransmit
<1>3. flying' \subseteq (1..sent) \X (1..sent)
  BY TypeParts DEF Retransmit, Parts
<1> QED
  BY <1>2, <1>3, TypeParts, TypePartsNext DEF Retransmit, Parts

LEMMA ReconnectTyped ==
  ASSUME TypeInv, NEW s \in Streams, NEW i \in Isns, Reconnect(s, i) PROVE TypeInv'
<1>1. /\ conns \in 1..MaxConns /\ MaxConns \in Nat /\ meta \in Metas /\ i \in Nat /\ s \in Seq(Nat)
      /\ trouble \subseteq Troubles
  BY TypeParts, ConstantsAssumption DEF ConstantsAssumption, Parts
<1>2. conns' \in 1..MaxConns /\ 0 \in 0..Len(s)
  BY <1>1 DEF Reconnect
<1>3. meta' \in Metas
  BY <1>1, NotedTyped DEF Reconnect
<1>4. trouble' \subseteq Troubles
  BY <1>1 DEF Reconnect, Wraps, Inherited, Troubles
<1>5. /\ stream' = s /\ isn' = i /\ sent' = 0 /\ closed' = FALSE /\ flying' = {} /\ seen' = {}
      /\ returned' = <<>> /\ UNCHANGED <<retrans, buffer>>
  BY DEF Reconnect
<1>6. returned' \in Seq(Seq(Nat))
  BY <1>5
<1> QED
  BY <1>2, <1>3, <1>4, <1>5, <1>6, TypeParts, TypePartsNext DEF Parts

LEMMA TypeStep == TypeInv /\ [Next]_vars => TypeInv'
<1> SUFFICES ASSUME TypeInv, [Next]_vars PROVE TypeInv'
  OBVIOUS
<1>1. CASE UNCHANGED vars
  BY <1>1, TypeParts, TypePartsNext DEF vars, Parts
<1> QED
  BY <1>1, CaptureTyped, CaptureEmptyTyped, TransmitTyped, RetransmitTyped, ReconnectTyped DEF Next

\* Every variable of the session keeps its type: no sequence of segments makes
\* the buffer hold anything but bytes, or an origin less than -1.
THEOREM TypeCorrect == Spec => []TypeOK
<1>1. TypeInv => TypeOK
  BY DEF TypeInv
<1> QED
  BY <1>1, InitTyped, TypeStep, PTL DEF Spec

\* The assertion in StringBuffer.append never fails: content_len is the length of
\* the content.
THEOREM LengthRight == Spec => []BufferLengthAgrees
<1>1. TypeInv => BufferLengthAgrees
  BY DEF TypeInv
<1> QED
  BY <1>1, InitTyped, TypeStep, PTL DEF Spec

-----------------------------------------------------------------------------
(* Cutting a stream that grows                                             *)

\* Where what is left of c starts.
Last(c) == Cuts(c)[Len(Cuts(c))]

\* Part of a sequence, byte by byte.
LEMMA PartBytes ==
  ASSUME NEW c \in Seq(Nat), NEW i \in Nat \ {0}, NEW j \in Nat, j <= Len(c), i <= j + 1
  PROVE  /\ SubSeq(c, i, j) \in Seq(Nat) /\ Len(SubSeq(c, i, j)) = j + 1 - i
         /\ \A n \in 1..j + 1 - i : SubSeq(c, i, j)[n] = c[i + n - 1]
<1>1. \A n \in i..j : c[n] \in Nat
  OBVIOUS
<1>2. /\ SubSeq(c, i, j) \in Seq(Nat)
      /\ Len(SubSeq(c, i, j)) = IF i <= j THEN j - i + 1 ELSE 0
      /\ \A n \in 1..j - i + 1 : SubSeq(c, i, j)[n] = c[i + n - 1]
  BY <1>1, SubSeqProperties
<1>3. j - i + 1 = j + 1 - i /\ (~(i <= j) => j + 1 - i = 0)
  OBVIOUS
<1> QED
  BY <1>2, <1>3

LEMMA LastTyped ==
  ASSUME NEW c \in Seq(Nat)
  PROVE  /\ Last(c) \in 1..Len(c) + 1 /\ ~Complete(c, Last(c))
         /\ Rest(c) = SubSeq(c, Last(c), Len(c)) /\ Len(Rest(c)) = Len(c) + 1 - Last(c)
<1>1. Last(c) \in 1..Len(c) + 1
  <2> DEFINE n == Len(Cuts(c))
  <2>1. n \in Nat \ {0} /\ \A m \in 1..n : Cuts(c)[m] \in 1..Len(c) + 1
    BY CutsTyped
  <2>2. n \in 1..n
    BY <2>1
  <2> QED
    BY <2>1, <2>2 DEF Last
<1> QED
  BY <1>1, CutsChain, MessagesTyped DEF Last, Chain, Rest

\* What is left of a stream is cut nowhere.
LEMMA RestIncomplete ==
  ASSUME NEW c \in Seq(Nat)
  PROVE  Cuts(Rest(c)) = <<1>>
<1>1. /\ Last(c) \in 1..Len(c) + 1 /\ ~Complete(c, Last(c)) /\ Len(c) \in Nat
      /\ Rest(c) = SubSeq(c, Last(c), Len(c)) /\ Len(Rest(c)) = Len(c) + 1 - Last(c)
  BY LastTyped
<1>2. /\ Rest(c) \in Seq(Nat)
      /\ \A n \in 1..Len(c) + 1 - Last(c) : Rest(c)[n] = c[Last(c) + n - 1]
  BY SMTT(30), <1>1, PartBytes
<1>3. ~Complete(Rest(c), 1)
  <2>1. SUFFICES ASSUME 1 <= Len(Rest(c)), 1 + Rest(c)[1] <= Len(Rest(c)) PROVE FALSE
    BY DEF Complete
  <2>2. Rest(c)[1] = c[Last(c)] /\ Last(c) <= Len(c)
    BY <1>1, <1>2, <2>1
  <2>3. c[Last(c)] \in Nat
    BY <1>1, <2>2
  <2>4. Last(c) + c[Last(c)] <= Len(c)
    <3>1. \A x \in Nat, y \in Nat, z \in Nat : 1 + x <= y + 1 - z => z + x <= y
      OBVIOUS
    <3>2. Last(c) \in Nat /\ 1 + c[Last(c)] <= Len(c) + 1 - Last(c)
      BY <1>1, <2>1, <2>2
    <3> QED
      BY <1>1, <2>3, <3>1, <3>2
  <2> QED
    BY <1>1, <2>2, <2>4 DEF Complete
<1>4. 1 \in 1..Len(Rest(c)) + 1
  BY <1>2
<1>5. Chain(Rest(c), 1, <<1>>)
  BY <1>2, <1>3, <1>4, ChainBegins
<1> QED
  BY <1>2, <1>4, <1>5, CutsChain, ChainUnique

\* f is what is left of c, with what e has more.
Continues(c, e, f) ==
  /\ c \in Seq(Nat) /\ e \in Seq(Nat) /\ f \in Seq(Nat)
  /\ Len(c) <= Len(e) /\ \A i \in 1..Len(c) : e[i] = c[i]
  /\ Len(f) = Len(e) + 1 - Last(c) /\ \A i \in 1..Len(f) : f[i] = e[Last(c) + i - 1]

\* The boundaries in e are those in c, and then those in f.
LEMMA CutsContinue ==
  ASSUME NEW c, NEW e, NEW f, Continues(c, e, f)
  PROVE  /\ Len(Cuts(e)) = Len(Cuts(c)) - 1 + Len(Cuts(f))
         /\ \A m \in 1..Len(Cuts(c)) - 1 : Cuts(e)[m] = Cuts(c)[m]
         /\ \A m \in 1..Len(Cuts(f)) :
              Cuts(e)[Len(Cuts(c)) - 1 + m] = Last(c) - 1 + Cuts(f)[m]
<1> DEFINE k == Cuts(c)
           l == Cuts(f)
           a == Len(k) - 1
           r == Last(c) - 1
           j == [m \in 1..a + Len(l) |-> IF m <= a THEN k[m] ELSE r + l[m - a]]
<1>1. c \in Seq(Nat) /\ e \in Seq(Nat) /\ f \in Seq(Nat)
  BY DEF Continues
<1>2. Chain(c, 1, k) /\ Chain(f, 1, l)
  BY <1>1, CutsChain
<1>3. /\ Len(k) \in Nat \ {0} /\ Len(l) \in Nat \ {0} /\ a \in Nat /\ k[Len(k)] = Last(c)
      /\ \A m \in 1..Len(k) : k[m] \in 1..Len(c) + 1
      /\ \A m \in 1..Len(l) : l[m] \in 1..Len(f) + 1
      /\ k[1] = 1 /\ l[1] = 1
  BY SMTT(30), <1>1, CutsTyped DEF Last
<1>4. Last(c) \in 1..Len(c) + 1 /\ r \in Nat /\ Len(c) \in Nat /\ Len(e) \in Nat /\ Len(f) \in Nat
      /\ Len(e) = r + Len(f) /\ Len(c) <= Len(e)
  <2>1. Last(c) \in 1..Len(c) + 1 /\ Len(c) \in Nat /\ Len(e) \in Nat /\ Len(f) \in Nat
    BY SMTT(30), <1>1, LastTyped
  <2>2. Len(f) = Len(e) + 1 - Last(c) /\ Len(c) <= Len(e)
    BY DEF Continues
  <2> QED
    BY <2>1, <2>2
<1>5. ASSUME NEW i \in 1..Len(c) + 1, Complete(c, i)
      PROVE  Complete(e, i) /\ e[i] = c[i]
  <2>1. i \in 1..Len(c) /\ c[i] \in Nat /\ i + c[i] <= Len(c)
    BY <1>1, <1>5 DEF Complete
  <2>2. e[i] = c[i]
    BY <2>1 DEF Continues
  <2> QED
    BY <1>4, <2>1, <2>2 DEF Complete
<1>6. ASSUME NEW i \in 1..Len(f) + 1
      PROVE  Complete(f, i) <=> Complete(e, r + i)
  <2>1. i <= Len(f) <=> r + i <= Len(e)
    BY <1>4
  <2>2. ASSUME i <= Len(f) PROVE f[i] = e[r + i] /\ f[i] \in Nat
    <3>1. i \in 1..Len(f) /\ Last(c) + i - 1 = r + i
      BY <1>4, <2>2
    <3>2. f[i] = e[Last(c) + i - 1]
      BY <3>1 DEF Continues
    <3> QED
      BY <1>1, <3>1, <3>2
  <2>3. ASSUME i <= Len(f) PROVE i + f[i] <= Len(f) <=> (r + i) + e[r + i] <= Len(e)
    <3>1. \A x \in Nat : i + x <= Len(f) <=> (r + i) + x <= r + Len(f)
      BY SMTT(30), <1>4
    <3>2. f[i] \in Nat /\ e[r + i] = f[i]
      BY <2>2, <2>3
    <3> HIDE DEF r
    <3> QED
      BY <1>4, <3>1, <3>2
  <2> QED
    BY <2>1, <2>3 DEF Complete
<1>7. ASSUME NEW i \in 1..Len(f) PROVE f[i] = e[r + i]
  <2>1. Last(c) + i - 1 = r + i
    BY <1>4
  <2>2. f[i] = e[Last(c) + i - 1]
    BY DEF Continues
  <2> QED
    BY <2>1, <2>2
<1> HIDE DEF k, l, r
<1>8. a + Len(l) \in Nat \ {0} /\ Len(k) = a + 1
  BY <1>3
<1> HIDE DEF a
<1>9. ASSUME NEW m \in 1..a + Len(l)
      PROVE  (IF m <= a THEN k[m] ELSE r + l[m - a]) \in 1..Len(e) + 1
  <2>1. CASE m <= a
    BY <1>3, <1>4, <1>8, <2>1
  <2>2. CASE ~(m <= a)
    <3>1. m - a \in 1..Len(l)
      BY <1>3, <2>2
    <3>2. l[m - a] \in 1..Len(f) + 1
      BY <1>3, <3>1
    <3> QED
      BY <1>4, <2>2, <3>2
  <2> QED
    BY <2>1, <2>2
<1>10. j \in Seq(1..Len(e) + 1) /\ Len(j) = a + Len(l)
  BY <1>8, <1>9
<1>11. /\ \A m \in 1..a : j[m] = k[m]
       /\ \A m \in 1..Len(l) : j[a + m] = r + l[m]
  <2>1. ASSUME NEW m \in 1..Len(l) PROVE j[a + m] = r + l[m]
    <3>1. a + m \in 1..a + Len(l) /\ ~(a + m <= a) /\ (a + m) - a = m
      BY <1>3
    <3> QED
      BY <3>1
  <2>2. ASSUME NEW m \in 1..a PROVE j[m] = k[m]
    <3>1. m \in 1..a + Len(l) /\ m <= a
      BY <1>3
    <3> QED
      BY <3>1
  <2> QED
    BY <2>1, <2>2
<1>12. j[a + 1] = k[a + 1]
  <2>1. 1 \in 1..Len(l) /\ r + 1 = Last(c)
    BY <1>3, <1>4 DEF r
  <2> QED
    BY <1>3, <1>8, <1>11, <2>1
<1> HIDE DEF j
<1>13. j[1] = 1
  <2>1. CASE a = 0
    BY <1>3, <1>8, <1>12, <2>1
  <2>2. CASE a # 0
    <3>1. 1 \in 1..a
      BY <1>3, <2>2
    <3> QED
      BY <1>3, <1>11, <3>1
  <2> QED
    BY <2>1, <2>2
<1>14. ASSUME NEW m \in 1..Len(j) - 1
       PROVE  Complete(e, j[m]) /\ j[m + 1] = j[m] + e[j[m]] + 1
  <2>1. CASE m <= a
    <3>1. m \in 1..a /\ m \in 1..Len(k) - 1 /\ m \in 1..Len(k) /\ (m + 1 \in 1..a \/ m = a)
      BY <1>3, <1>8, <2>1
    <3>2. j[m] = k[m] /\ j[m + 1] = k[m + 1]
      BY <1>11, <1>12, <3>1
    <3>3. Complete(c, k[m]) /\ k[m + 1] = k[m] + c[k[m]] + 1
      BY <1>2, <3>1 DEF Chain
    <3>4. k[m] \in 1..Len(c) + 1
      BY <1>3, <3>1
    <3> QED
      BY <1>5, <3>2, <3>3, <3>4
  <2>2. CASE ~(m <= a)
    <3> DEFINE n == m - a
    <3>1. n \in 1..Len(l) - 1 /\ n \in 1..Len(l) /\ n + 1 \in 1..Len(l) /\ m = a + n /\ m + 1 = a + (n + 1)
      BY <1>3, <1>10, <2>2
    <3> HIDE DEF n
    <3>2. j[m] = r + l[n] /\ j[m + 1] = r + l[n + 1]
      BY <1>11, <3>1
    <3>3. Complete(f, l[n]) /\ l[n + 1] = l[n] + f[l[n]] + 1
      BY <1>2, <3>1 DEF Chain
    <3>4. l[n] \in 1..Len(f) + 1 /\ l[n] <= Len(f)
      BY <1>3, <3>1, <3>3 DEF Complete
    <3>5. l[n] \in 1..Len(f)
      BY <1>4, <3>4
    <3>6. f[l[n]] = e[r + l[n]] /\ f[l[n]] \in Nat
      BY <1>1, <1>7, <3>5
    <3>7. Complete(e, r + l[n])
      BY <1>6, <3>3, <3>4
    <3>8. r + (l[n] + f[l[n]] + 1) = (r + l[n]) + f[l[n]] + 1
      BY <1>4, <3>5, <3>6
    <3> QED
      BY <3>2, <3>3, <3>6, <3>7, <3>8
  <2> QED
    BY <2>1, <2>2
<1>15. ~Complete(e, j[Len(j)])
  <2>1. Len(l) \in 1..Len(l) /\ ~Complete(f, l[Len(l)])
    BY <1>2, <1>3 DEF Chain
  <2>2. j[Len(j)] = r + l[Len(l)] /\ l[Len(l)] \in 1..Len(f) + 1
    BY <1>3, <1>10, <1>11, <2>1
  <2> QED
    BY <1>6, <2>1, <2>2
<1>16. Chain(e, 1, j)
  <2>1. j # <<>>
    BY <1>8, <1>10
  <2> QED
    BY <1>10, <1>13, <1>14, <1>15, <2>1 DEF Chain
<1>17. Cuts(e) = j
  <2>1. 1 \in 1..Len(e) + 1 /\ Chain(e, 1, Cuts(e))
    BY <1>1, <1>4, CutsChain
  <2> QED
    BY <1>1, <1>16, <2>1, ChainUnique
<1> QED
  BY <1>10, <1>11, <1>17 DEF a, k, l, r

\* The same bytes, r places further.
LEMMA SamePart ==
  ASSUME NEW c \in Seq(Nat), NEW d \in Seq(Nat), NEW i \in Nat \ {0}, NEW j \in Nat, NEW r \in Nat,
         j <= Len(c), i <= j + 1, r + j <= Len(d), \A n \in i..j : c[n] = d[r + n]
  PROVE  SubSeq(c, i, j) = SubSeq(d, r + i, r + j)
<1> DEFINE x == r + i
           y == r + j
           p == SubSeq(c, i, j)
           q == SubSeq(d, x, y)
<1>1. x \in Nat \ {0} /\ y \in Nat /\ x <= y + 1 /\ y + 1 - x = j + 1 - i /\ y <= Len(d)
  OBVIOUS
<1>2. /\ p \in Seq(Nat) /\ Len(p) = j + 1 - i
      /\ \A n \in 1..j + 1 - i : p[n] = c[i + n - 1]
  BY SMTT(30), PartBytes
<1> HIDE DEF x, y, p
<1>3. /\ q \in Seq(Nat) /\ Len(q) = j + 1 - i
      /\ \A n \in 1..j + 1 - i : q[n] = d[x + n - 1]
  BY SMTT(30), <1>1, PartBytes
<1>4. ASSUME NEW n \in 1..j + 1 - i PROVE p[n] = q[n]
  <2>1. i + n - 1 \in i..j /\ r + (i + n - 1) = x + n - 1
    BY DEF x
  <2>2. c[i + n - 1] = d[r + (i + n - 1)]
    BY <2>1
  <2> QED
    BY <1>2, <1>3, <2>1, <2>2
<1> HIDE DEF q
<1>5. p = q
  BY <1>2, <1>3, <1>4, SeqEqual
<1> QED
  BY <1>5 DEF p, q, x, y

\* The messages of e are those of c and those of f, and what is left of it is left
\* of f.
LEMMA MessagesContinue ==
  ASSUME NEW c, NEW e, NEW f, Continues(c, e, f)
  PROVE  /\ Messages(e) = Messages(c) \o Messages(f)
         /\ Last(e) = Last(c) - 1 + Last(f) /\ Rest(e) = Rest(f)
<1> DEFINE k == Cuts(c)
           l == Cuts(f)
           K == Cuts(e)
           a == Len(k) - 1
           b == Len(l) - 1
           r == Last(c) - 1
<1>1. c \in Seq(Nat) /\ e \in Seq(Nat) /\ f \in Seq(Nat)
  BY DEF Continues
<1>2. /\ a \in Nat /\ b \in Nat /\ Len(k) = a + 1 /\ Len(l) = b + 1
      /\ \A m \in 1..a + 1 : k[m] \in 1..Len(c) + 1
      /\ \A m \in 1..b + 1 : l[m] \in 1..Len(f) + 1
      /\ \A m \in 1..a : k[m] < k[m + 1]
      /\ \A m \in 1..b : l[m] < l[m + 1]
      /\ l[1] = 1 /\ k[a + 1] = Last(c) /\ l[b + 1] = Last(f)
  BY SMTT(30), <1>1, CutsTyped DEF Last
<1>3. Len(K) = a + b + 1
  <2>1. Len(K) = Len(k) - 1 + Len(l)
    BY CutsContinue
  <2> HIDE DEF k, l, K, a, b
  <2> QED
    BY <1>2, <2>1
<1>4. /\ \A m \in 1..a : K[m] = k[m]
      /\ \A m \in 1..b + 1 : K[a + m] = r + l[m]
  <2>1. /\ \A m \in 1..a : K[m] = k[m]
        /\ \A m \in 1..Len(l) : K[a + m] = r + l[m]
    BY CutsContinue
  <2> HIDE DEF k, l, K, a, b, r
  <2> QED
    BY <1>2, <2>1
<1>5. /\ Last(c) \in 1..Len(c) + 1 /\ r \in Nat /\ r + 1 = Last(c)
      /\ Len(c) \in Nat /\ Len(e) \in Nat /\ Len(f) \in Nat
      /\ Len(e) = r + Len(f) /\ Len(c) <= Len(e)
  <2>1. Last(c) \in 1..Len(c) + 1 /\ Len(c) \in Nat /\ Len(e) \in Nat /\ Len(f) \in Nat
    BY SMTT(30), <1>1, LastTyped
  <2>2. Len(f) = Len(e) + 1 - Last(c) /\ Len(c) <= Len(e)
    BY DEF Continues
  <2>3. \A x \in Nat \ {0}, y \in Nat, z \in Nat : z = y + 1 - x => y = x - 1 + z /\ x - 1 \in Nat /\ (x - 1) + 1 = x
    OBVIOUS
  <2>4. Last(c) \in Nat \ {0}
    BY <2>1
  <2>5. Len(e) = Last(c) - 1 + Len(f) /\ Last(c) - 1 \in Nat /\ (Last(c) - 1) + 1 = Last(c)
    BY <2>1, <2>2, <2>3, <2>4
  <2>6. Len(e) = r + Len(f) /\ r \in Nat /\ r + 1 = Last(c)
    BY <2>5
  <2> HIDE DEF r
  <2> QED
    BY <2>1, <2>2, <2>6
<1>6. \A i \in 1..Len(f) : f[i] = e[r + i]
  <2> TAKE i \in 1..Len(f)
  <2>1. f[i] = e[Last(c) + i - 1]
    BY DEF Continues
  <2>2. Last(c) + i - 1 = r + i
    BY <1>5
  <2> HIDE DEF r
  <2> QED
    BY <2>1, <2>2
<1>7. K[a + 1] = k[a + 1]
  <2>1. 1 \in 1..b + 1
    BY <1>2
  <2> QED
    BY <1>2, <1>4, <1>5, <2>1
<1>8. /\ Messages(c) = [m \in 1..a |-> SubSeq(c, k[m], k[m + 1] - 1)]
      /\ Messages(f) = [m \in 1..b |-> SubSeq(f, l[m], l[m + 1] - 1)]
      /\ Messages(e) = [m \in 1..a + b |-> SubSeq(e, K[m], K[m + 1] - 1)]
  <2>1. Len(K) - 1 = a + b
    BY <1>2, <1>3
  <2> QED
    BY <2>1 DEF Messages
<1> HIDE DEF k, l, K, a, b, r
<1>9. ASSUME NEW m \in 1..a PROVE Messages(e)[m] = Messages(c)[m]
  <2>1. m \in 1..a + b /\ m \in 1..a + 1 /\ m + 1 \in 1..a + 1 /\ (m + 1 \in 1..a \/ m = a)
    BY <1>2
  <2>2. K[m] = k[m] /\ K[m + 1] = k[m + 1]
    BY <1>4, <1>7, <2>1
  <2> DEFINE i == k[m]
             j == k[m + 1] - 1
  <2>3. i \in 1..Len(c) + 1 /\ k[m + 1] \in 1..Len(c) + 1 /\ i < k[m + 1]
    BY <1>2, <2>1
  <2>4. i \in Nat \ {0} /\ j \in Nat /\ j <= Len(c) /\ i <= j + 1 /\ 0 + j <= Len(e) /\ 0 + i = i /\ 0 + j = j
    BY SMTT(30), <1>5, <2>3
  <2> HIDE DEF i, j
  <2>5. \A n \in i..j : c[n] = e[0 + n]
    <3> TAKE n \in i..j
    <3>1. n \in 1..Len(c) /\ 0 + n = n
      BY <1>5, <2>4
    <3> QED
      BY <3>1 DEF Continues
  <2>6. SubSeq(c, i, j) = SubSeq(e, 0 + i, 0 + j)
    BY <1>1, <2>4, <2>5, SamePart
  <2>7. SubSeq(c, i, j) = SubSeq(e, i, j)
    BY <2>4, <2>6
  <2> QED
    BY ZenonT(30), <1>8, <2>1, <2>2, <2>7 DEF i, j
<1>10. ASSUME NEW m \in 1..b PROVE Messages(e)[a + m] = Messages(f)[m]
  <2>1. a + m \in 1..a + b /\ m \in 1..b + 1 /\ m + 1 \in 1..b + 1 /\ (a + m) + 1 = a + (m + 1)
    BY <1>2
  <2>2. K[a + m] = r + l[m] /\ K[(a + m) + 1] = r + l[m + 1]
    BY <1>4, <2>1
  <2> DEFINE i == l[m]
             j == l[m + 1] - 1
  <2>3. i \in 1..Len(f) + 1 /\ l[m + 1] \in 1..Len(f) + 1 /\ i < l[m + 1]
    BY <1>2, <2>1
  <2>4. /\ i \in Nat \ {0} /\ j \in Nat /\ j <= Len(f) /\ i <= j + 1 /\ r + j <= Len(e)
        /\ (r + l[m + 1]) - 1 = r + j
    <3> DEFINE x == l[m + 1]
    <3>1. x \in Nat /\ x <= Len(f) + 1 /\ i \in Nat \ {0} /\ i < x
      BY <1>5, <2>3
    <3> HIDE DEF x
    <3>2. x - 1 \in Nat /\ x - 1 <= Len(f) /\ i <= (x - 1) + 1 /\ r + (x - 1) <= Len(e) /\ (r + x) - 1 = r + (x - 1)
      BY <1>5, <3>1
    <3> QED
      BY <3>1, <3>2 DEF x
  <2>5. K[a + m] = r + i /\ K[(a + m) + 1] - 1 = r + j
    BY <2>2, <2>4
  <2> HIDE DEF i, j
  <2>6. \A n \in i..j : f[n] = e[r + n]
    <3> TAKE n \in i..j
    <3>1. n \in 1..Len(f)
      BY <1>5, <2>4
    <3> QED
      BY <1>6, <3>1
  <2>7. SubSeq(f, i, j) = SubSeq(e, r + i, r + j)
    <3>1. r \in Nat
      BY <1>5
    <3> QED
      BY <1>1, <2>4, <2>6, <3>1, SamePart
  <2> QED
    BY ZenonT(30), <1>8, <2>1, <2>5, <2>7 DEF i, j
<1>11. /\ Messages(c) \in Seq(Seq(Nat)) /\ Messages(f) \in Seq(Seq(Nat)) /\ Messages(e) \in Seq(Seq(Nat))
       /\ Len(Messages(c)) = a /\ Len(Messages(f)) = b /\ Len(Messages(e)) = a + b
  <2>1. Len(K) - 1 = a + b
    BY <1>2, <1>3
  <2> QED
    BY <1>1, <2>1, MessagesTyped DEF a, b, k, l, K
<1>12. Messages(e) = Messages(c) \o Messages(f)
  <2> DEFINE M == Messages(c) \o Messages(f)
  <2>1. /\ M \in Seq(Seq(Nat)) /\ Len(M) = a + b
        /\ \A m \in 1..a + b : M[m] = IF m <= a THEN Messages(c)[m] ELSE Messages(f)[m - a]
    BY <1>11, ConcatProperties
  <2> HIDE DEF M
  <2>2. ASSUME NEW m \in 1..a + b PROVE Messages(e)[m] = M[m]
    <3>1. CASE m <= a
      <4>1. m \in 1..a
        BY <1>2, <3>1
      <4> QED
        BY <1>9, <2>1, <3>1, <4>1
    <3>2. CASE ~(m <= a)
      <4>1. m - a \in 1..b /\ a + (m - a) = m
        BY <1>2, <3>2
      <4> QED
        BY <1>10, <2>1, <3>2, <4>1
    <3> QED
      BY <3>1, <3>2
  <2>3. Messages(e) = M
    BY <1>11, <2>1, <2>2, SeqEqual
  <2> QED
    BY <2>3 DEF M
<1>13. Last(e) = r + Last(f)
  <2>1. b + 1 \in 1..b + 1 /\ a + b + 1 = a + (b + 1)
    BY <1>2
  <2>2. K[a + (b + 1)] = r + l[b + 1]
    BY <1>4, <2>1
  <2> QED
    BY <1>2, <1>3, <2>1, <2>2 DEF Last, K
<1>14. Rest(e) = Rest(f)
  <2>1. Last(f) \in 1..Len(f) + 1 /\ Rest(f) = SubSeq(f, Last(f), Len(f))
    BY <1>1, LastTyped
  <2>2. Rest(e) = SubSeq(e, Last(e), Len(e))
    BY <1>1, LastTyped
  <2>3. /\ Last(f) \in Nat \ {0} /\ Len(f) \in Nat /\ Len(f) <= Len(f) /\ Last(f) <= Len(f) + 1
        /\ r + Len(f) <= Len(e) /\ r \in Nat
    BY <1>5, <2>1
  <2>4. \A n \in Last(f)..Len(f) : f[n] = e[r + n]
    <3> TAKE n \in Last(f)..Len(f)
    <3>1. n \in 1..Len(f)
      BY <2>3
    <3> QED
      BY <1>6, <3>1
  <2>5. SubSeq(f, Last(f), Len(f)) = SubSeq(e, r + Last(f), r + Len(f))
    <3> DEFINE i == Last(f)
               j == Len(f)
    <3>1. /\ i \in Nat \ {0} /\ j \in Nat /\ j <= Len(f) /\ i <= j + 1
          /\ r + j <= Len(e) /\ r \in Nat /\ \A n \in i..j : f[n] = e[r + n]
      BY <2>3, <2>4
    <3> HIDE DEF i, j
    <3>2. SubSeq(f, i, j) = SubSeq(e, r + i, r + j)
      BY <1>1, <3>1, SamePart
    <3> QED
      BY <3>2 DEF i, j
  <2> QED
    BY <1>5, <1>13, <2>1, <2>2, <2>5
<1> QED
  BY <1>12, <1>13, <1>14 DEF r

-----------------------------------------------------------------------------
(* A segment in its place                                                  *)

\* b holds the bytes r + 1 to c of s.
Holds(b, s, r, c) ==
  /\ s \in Seq(Nat) /\ r \in Nat /\ c \in Nat /\ r <= c /\ c <= Len(s)
  /\ b \in Buffers /\ b.noff = 0 /\ b.content = SubSeq(s, r + 1, c)

\* Bytes x to y, at the index p of such a buffer, overlap or follow those it holds.
Fits(s, r, c, x, y, p) ==
  /\ x \in Nat \ {0} /\ y \in Nat /\ r + 1 <= x /\ x <= c + 1 /\ x <= y /\ y <= Len(s)
  /\ p \in Int /\ p = x - r - 1

\* The buffer then holds the bytes up to the larger of c and y.
Larger(c, y) == IF y > c THEN y ELSE c
Held(s, r, z) == [content |-> SubSeq(s, r + 1, z), len |-> z - r, noff |-> 0]

\* The bytes after r.
LEMMA BytesAfter ==
  ASSUME NEW s \in Seq(Nat), NEW r \in Nat, NEW c \in Nat, r <= c, c <= Len(s)
  PROVE  /\ SubSeq(s, r + 1, c) \in Seq(Nat) /\ Len(SubSeq(s, r + 1, c)) = c - r
         /\ \A n \in 1..c - r : SubSeq(s, r + 1, c)[n] = s[r + n]
<1> DEFINE i == r + 1
<1>1. i \in Nat \ {0} /\ i <= c + 1 /\ c + 1 - i = c - r /\ \A n \in 1..c - r : i + n - 1 = r + n
  OBVIOUS
<1> HIDE DEF i
<1>2. /\ SubSeq(s, i, c) \in Seq(Nat) /\ Len(SubSeq(s, i, c)) = c - r
      /\ \A n \in 1..c - r : SubSeq(s, i, c)[n] = s[i + n - 1]
  BY <1>1, PartBytes
<1> QED
  BY <1>1, <1>2 DEF i

LEMMA PutPart ==
  ASSUME NEW b, NEW s, NEW r, NEW c, NEW x, NEW y, NEW p,
         Holds(b, s, r, c), Fits(s, r, c, x, y, p)
  PROVE  Put(b, SubSeq(s, x, y), p) = Held(s, r, Larger(c, y))
<1> DEFINE z == Larger(c, y)
<1>a. /\ s \in Seq(Nat) /\ r \in Nat /\ c \in Nat /\ r <= c /\ c <= Len(s) /\ Len(s) \in Nat
      /\ b \in Buffers /\ b.noff = 0 /\ b.content = SubSeq(s, r + 1, c)
      /\ x \in Nat \ {0} /\ y \in Nat /\ r + 1 <= x /\ x <= c + 1 /\ x <= y /\ y <= Len(s)
      /\ z \in Nat /\ (z = IF y > c THEN y ELSE c) /\ p \in Int /\ p = x - r - 1
  BY DEF Holds, Fits, Larger
<1> HIDE DEF z
<1> USE <1>a
<1> DEFINE data == SubSeq(s, x, y)
           lead == IF p < 0 THEN -p ELSE 0
           at == p + lead
           old == Zeros(lead) \o b.content
           size == IF at + Len(data) > b.len + lead THEN at + Len(data) ELSE b.len + lead
           more == size - b.len - lead
           whole == old \o Zeros(more)
           all == SubSeq(s, r + 1, z)
           content == [i \in 1..Len(whole) |-> IF i - at \in 1..Len(data) THEN data[i - at] ELSE whole[i]]
<1>1. p \in Nat /\ lead = 0 /\ at = p
  OBVIOUS
<1>2. /\ data \in Seq(Nat) /\ Len(data) = y + 1 - x
      /\ \A n \in 1..y + 1 - x : data[n] = s[x + n - 1]
  <2>1. x <= y + 1
    OBVIOUS
  <2> QED
    BY SMTT(30), <2>1, PartBytes
<1>3. /\ b.content \in Seq(Nat) /\ Len(b.content) = c - r /\ b.len = c - r
      /\ \A n \in 1..c - r : b.content[n] = s[r + n]
  <2> DEFINE held == SubSeq(s, r + 1, c)
  <2>1. /\ held \in Seq(Nat) /\ Len(held) = c - r
        /\ \A n \in 1..c - r : held[n] = s[r + n]
    BY ZenonT(30), BytesAfter
  <2>2. b.content = held /\ b.len = Len(b.content)
    BY DEF Buffers
  <2> HIDE DEF held
  <2> QED
    BY <2>1, <2>2
<1>4. /\ all \in Seq(Nat) /\ Len(all) = z - r
      /\ \A n \in 1..z - r : all[n] = s[r + n]
  <2>1. r <= z /\ z <= Len(s)
    OBVIOUS
  <2> QED
    BY SMTT(30), <2>1, BytesAfter
<1> HIDE DEF data, all, lead
<1>5. old = b.content
  <2>1. Zeros(0) = <<>>
    BY DEF Zeros
  <2> QED
    BY <1>1, <1>3, <2>1, ConcatEmptySeq
<1> HIDE DEF old, at
<1>6. size = z - r /\ size \in Nat
  <2>1. p + (y + 1 - x) = y - r
    OBVIOUS
  <2>2. size = IF y - r > c - r THEN y - r ELSE c - r
    BY <1>1, <1>2, <1>3, <2>1
  <2> QED
    BY SMTT(30), <2>2
<1> HIDE DEF size
<1>7. more \in Nat /\ (c - r) + more = z - r
  <2>1. more = z - r - (c - r) - 0
    BY <1>1, <1>3, <1>6
  <2> HIDE DEF more
  <2>2. z - r - (c - r) - 0 \in Nat /\ (c - r) + (z - r - (c - r) - 0) = z - r
    OBVIOUS
  <2> QED
    BY <2>1, <2>2
<1> DEFINE tail == Zeros(more)
<1>12. tail \in Seq(Nat) /\ Len(tail) = more
  BY <1>7, ZerosTyped
<1> HIDE DEF more, tail
<1>8. /\ whole \in Seq(Nat) /\ Len(whole) = z - r
      /\ \A i \in 1..c - r : whole[i] = s[r + i]
  <2> DEFINE held == b.content
  <2>1. whole = held \o tail
    BY <1>5 DEF tail
  <2>5. held \in Seq(Nat)
    BY <1>3
  <2> HIDE DEF whole, held
  <2>6. /\ held \o tail \in Seq(Nat) /\ Len(held \o tail) = Len(held) + Len(tail)
        /\ \A i \in 1..Len(held) + Len(tail) :
             (held \o tail)[i] = IF i <= Len(held) THEN held[i] ELSE tail[i - Len(held)]
    BY ZenonT(30), <1>12, <2>5, ConcatProperties
  <2>4. /\ whole \in Seq(Nat) /\ Len(whole) = Len(held) + Len(tail)
        /\ \A i \in 1..Len(held) + Len(tail) :
             whole[i] = IF i <= Len(held) THEN held[i] ELSE tail[i - Len(held)]
    BY <2>1, <2>6
  <2>2. /\ whole \in Seq(Nat) /\ Len(whole) = (c - r) + more
        /\ \A i \in 1..(c - r) + more : i <= c - r => whole[i] = b.content[i]
    BY <1>3, <1>12, <2>4 DEF held
  <2>3. ASSUME NEW i \in 1..c - r PROVE whole[i] = s[r + i]
    <3>1. i \in 1..(c - r) + more /\ i <= c - r
      BY <1>7
    <3> QED
      BY <1>3, <1>5, <2>2, <3>1
  <2> QED
    BY <1>7, <2>2, <2>3
<1> HIDE DEF whole
<1>9. ASSUME NEW i \in 1..z - r
      PROVE  (IF i - at \in 1..Len(data) THEN data[i - at] ELSE whole[i]) = all[i]
  <2>1. CASE i - p \in 1..y + 1 - x
    <3>1. x + (i - p) - 1 = r + i
      BY <2>1
    <3>2. data[i - p] = s[x + (i - p) - 1]
      BY <1>2, <2>1
    <3> QED
      BY <1>1, <1>2, <1>4, <2>1, <3>1, <3>2
  <2>2. CASE i - p \notin 1..y + 1 - x
    <3>1. i \in 1..c - r
      BY <2>2
    <3>2. whole[i] = s[r + i]
      BY <1>8, <3>1
    <3> QED
      BY <1>1, <1>2, <1>4, <2>2, <3>2
  <2> QED
    BY <2>1, <2>2
<1>10. content = all
  <2>1. content = [i \in 1..z - r |-> IF i - at \in 1..Len(data) THEN data[i - at] ELSE whole[i]]
    BY <1>8
  <2>2. content = [i \in 1..z - r |-> all[i]]
    BY <1>9, <2>1
  <2>3. all = [i \in 1..z - r |-> all[i]]
    BY SMTT(30), <1>4, LenProperties
  <2> QED
    BY <2>2, <2>3
<1> HIDE DEF content
<1>11. Put(b, data, p) = [content |-> content, len |-> size, noff |-> b.noff - lead]
  BY DEF Put, content, whole, more, size, old, at, lead
<1> QED
  BY <1>1, <1>6, <1>10, <1>11 DEF data, all, z, Held

\* ... and when it holds them already, nothing changes.
LEMMA PutAgain ==
  ASSUME NEW b, NEW s, NEW r, NEW c, NEW x, NEW y, NEW p,
         Holds(b, s, r, c), Fits(s, r, c, x, y, p), y <= c
  PROVE  Put(b, SubSeq(s, x, y), p) = b
<1>1. Larger(c, y) = c
  BY DEF Holds, Fits, Larger
<1>3. Put(b, SubSeq(s, x, y), p) = Held(s, r, Larger(c, y))
  BY PutPart
<1>2. Put(b, SubSeq(s, x, y), p) = [content |-> SubSeq(s, r + 1, c), len |-> c - r, noff |-> 0]
  BY <1>1, <1>3 DEF Held
<1>4. b.len = c - r
  <2>1. /\ s \in Seq(Nat) /\ r \in Nat /\ c \in Nat /\ r <= c /\ c <= Len(s)
        /\ b.content = SubSeq(s, r + 1, c) /\ b.len = Len(b.content)
    BY DEF Holds, Buffers
  <2>2. Len(SubSeq(s, r + 1, c)) = c - r
    BY <2>1, BytesAfter
  <2> QED
    BY <2>1, <2>2
<1>5. b = [content |-> b.content, len |-> b.len, noff |-> b.noff]
  BY DEF Buffers, Holds
<1> QED
  BY <1>2, <1>4, <1>5 DEF Holds

-----------------------------------------------------------------------------
(* What holds while nothing has happened that reassembly cannot cope with  *)

Upto(s, n) == SubSeq(s, 1, n)

\* The bytes of s, of the first n, that are in messages complete by then.
Whole(s, n) == Last(Upto(s, n)) - 1

\* c bytes of s have been captured: the messages in them have been returned, the
\* rest is in the buffer, whose origin is right, and the numbers noted are not
\* above those that come.
Fine(s, i, c, b, m, out) ==
  /\ i + Len(s) < SeqMod
  /\ out = Messages(Upto(s, c)) /\ b.content = Rest(Upto(s, c))
  /\ m.seq # Absent => m.seq <= i + c + 1
  /\ m.next # Absent => m.next <= i + c + 1
  /\ IF Whole(s, c) < c
       THEN m.relative = i + Whole(s, c) /\ b.noff = 0
       ELSE b = EmptyBuffer /\ m.relative = Absent /\ m.next = Absent

\* The last segment of those in S, if it began a message and left a rest, is
\* known to lie before next_seq, but for its last byte.
NextKnown(s, i, c, m, S, first) ==
  \A seg \in S :
    /\ seg[2] = c /\ seg[1] <= Whole(s, c) /\ Whole(s, c) < c
    /\ Whole(s, seg[1] - 1) = seg[1] - 1 /\ (first \/ seg[1] > 1)
    => m.next # Absent /\ m.next >= i + c

\* Between two messages, a number noted is that of the byte that comes, or of the
\* one before, unless it comes from an earlier connection.
OwnNumber(s, i, c, m, first) ==
  m.seq # Absent /\ Whole(s, c) = c /\ c < Len(s) /\ (first \/ c > 0) => m.seq >= i + c

LEMMA WholeTyped ==
  ASSUME NEW s \in Seq(Nat), NEW c \in 0..Len(s)
  PROVE  /\ Upto(s, c) \in Seq(Nat) /\ Len(Upto(s, c)) = c /\ \A n \in 1..c : Upto(s, c)[n] = s[n]
         /\ Whole(s, c) \in 0..c /\ Last(Upto(s, c)) = Whole(s, c) + 1
         /\ Rest(Upto(s, c)) = SubSeq(s, Whole(s, c) + 1, c)
<1> DEFINE u == Upto(s, c)
<1>1. u \in Seq(Nat) /\ Len(u) = c /\ \A n \in 1..c : u[n] = s[n]
  <2>1. 1 \in Nat \ {0} /\ c \in Nat /\ c <= Len(s) /\ 1 <= c + 1 /\ c + 1 - 1 = c
        /\ \A n \in 1..c : 1 + n - 1 = n
    OBVIOUS
  <2>2. /\ u \in Seq(Nat) /\ Len(u) = c /\ \A n \in 1..c : u[n] = s[1 + n - 1]
    BY <2>1, PartBytes DEF Upto
  <2> HIDE DEF u
  <2> QED
    BY <2>1, <2>2
<1> HIDE DEF u
<1>2. Last(u) \in 1..c + 1 /\ Rest(u) = SubSeq(u, Last(u), c)
  BY <1>1, LastTyped
<1>3. Whole(s, c) = Last(u) - 1
  BY DEF Whole, u
<1>4. Whole(s, c) \in 0..c /\ Last(u) = Whole(s, c) + 1
  BY <1>2, <1>3
<1>5. SubSeq(u, Last(u), c) = SubSeq(s, Last(u), c)
  <2> DEFINE i == Last(u)
  <2>1. /\ i \in Nat \ {0} /\ c \in Nat /\ c <= Len(u) /\ i <= c + 1 /\ 0 + c <= Len(s) /\ 0 \in Nat
        /\ 0 + i = i /\ 0 + c = c
    BY <1>1, <1>2
  <2>2. \A n \in i..c : u[n] = s[0 + n]
    BY SMTT(30), <1>1, <1>2
  <2> HIDE DEF i
  <2>3. SubSeq(u, i, c) = SubSeq(s, 0 + i, 0 + c)
    BY <1>1, <2>1, <2>2, SamePart
  <2> QED
    BY <2>1, <2>3 DEF i
<1> QED
  BY <1>1, <1>2, <1>4, <1>5 DEF u

\* Nothing is whole of nothing.
LEMMA WholeOfNothing ==
  ASSUME NEW s \in Seq(Nat)
  PROVE  Whole(s, 0) = 0 /\ Messages(Upto(s, 0)) = <<>> /\ Rest(Upto(s, 0)) = <<>>
<1> DEFINE u == Upto(s, 0)
<1>1. 0 \in 0..Len(s)
  OBVIOUS
<1>2. u \in Seq(Nat) /\ Len(u) = 0 /\ Whole(s, 0) \in 0..0
  BY <1>1, WholeTyped
<1> HIDE DEF u
<1>3. Rest(u) \in Seq(Nat) /\ Len(Rest(u)) = 0 + 1 - Last(u) /\ Last(u) \in 1..0 + 1
  BY <1>2, MessagesTyped, LastTyped
<1>4. Len(Rest(u)) = 0 /\ u = <<>> /\ Rest(u) = <<>>
  BY <1>2, <1>3
<1>5. Cuts(u) = <<1>>
  BY <1>2, <1>4, RestIncomplete
<1>6. Messages(u) \in Seq(Seq(Nat)) /\ Len(Messages(u)) = Len(Cuts(u)) - 1
  BY <1>2, MessagesTyped
<1>7. Len(Cuts(u)) = 1
  BY <1>5
<1>8. Messages(u) = <<>>
  BY <1>6, <1>7
<1> QED
  BY <1>2, <1>4, <1>8 DEF u

\* The bytes up to d, after the messages that are whole at c.
Pending(s, c, d) == SubSeq(s, Whole(s, c) + 1, d)

\* They continue the stream up to c.
LEMMA StreamContinues ==
  ASSUME NEW s \in Seq(Nat), NEW c \in 0..Len(s), NEW d \in c..Len(s), NEW f, f = Pending(s, c, d)
  PROVE  /\ f \in Seq(Nat) /\ Len(f) = d - Whole(s, c)
         /\ Continues(Upto(s, c), Upto(s, d), f)
         /\ Messages(Upto(s, d)) = Messages(Upto(s, c)) \o Messages(f)
         /\ Whole(s, d) = Whole(s, c) + Last(f) - 1 /\ Rest(Upto(s, d)) = Rest(f)
<1> DEFINE r == Whole(s, c)
<1>1. d \in 0..Len(s) /\ c \in Nat /\ d \in Nat /\ c <= d /\ d <= Len(s)
  OBVIOUS
<1>2. /\ Upto(s, c) \in Seq(Nat) /\ Len(Upto(s, c)) = c /\ \A n \in 1..c : Upto(s, c)[n] = s[n]
      /\ r \in 0..c /\ Last(Upto(s, c)) = r + 1
  BY WholeTyped
<1>3. /\ Upto(s, d) \in Seq(Nat) /\ Len(Upto(s, d)) = d /\ \A n \in 1..d : Upto(s, d)[n] = s[n]
      /\ Last(Upto(s, d)) = Whole(s, d) + 1 /\ Whole(s, d) \in Nat
  BY <1>1, WholeTyped
<1> HIDE DEF r
<1>4. r \in Nat /\ r <= d
  BY <1>1, <1>2
<1>5. f \in Seq(Nat) /\ Len(f) = d - r /\ \A n \in 1..d - r : f[n] = s[r + n]
  <2>1. f = SubSeq(s, r + 1, d)
    BY DEF Pending, r
  <2>2. r <= d /\ d <= Len(s)
    BY <1>1, <1>4
  <2> QED
    BY <1>1, <1>4, <2>1, <2>2, BytesAfter
<1> DEFINE u == Upto(s, c)
           v == Upto(s, d)
           k == Last(u)
<1>6. Continues(u, v, f)
  <2>1. u \in Seq(Nat) /\ Len(u) = c /\ k = r + 1 /\ v \in Seq(Nat) /\ Len(v) = d
    BY <1>2, <1>3
  <2>2. /\ \A n \in 1..c : u[n] = s[n]
        /\ \A n \in 1..d : v[n] = s[n]
    BY <1>2, <1>3
  <2>3. k \in Nat /\ Len(f) = d + 1 - k
    BY <1>1, <1>4, <1>5, <2>1
  <2> HIDE DEF u, v, k
  <2>4. ASSUME NEW n \in 1..d - r PROVE f[n] = v[k + n - 1]
    <3>1. r + n \in 1..d /\ k + n - 1 = r + n
      BY <1>1, <1>4, <2>1
    <3> QED
      BY <1>5, <2>2, <3>1
  <2>5. ASSUME NEW n \in 1..c PROVE v[n] = u[n]
    <3>1. n \in 1..d
      BY <1>1
    <3> QED
      BY <2>2, <3>1
  <2>6. \A n \in 1..Len(f) : f[n] = v[k + n - 1]
    BY <1>5, <2>4
  <2>7. \A n \in 1..Len(u) : v[n] = u[n]
    BY <2>1, <2>5
  <2> QED
    BY <1>1, <1>5, <2>1, <2>3, <2>6, <2>7 DEF Continues, k
<1>7. /\ Messages(v) = Messages(u) \o Messages(f)
      /\ Last(v) = Last(u) - 1 + Last(f) /\ Rest(v) = Rest(f)
  BY <1>6, MessagesContinue
<1>8. Whole(s, d) = r + Last(f) - 1
  <2>1. Last(f) \in 1..Len(f) + 1
    BY <1>5, LastTyped
  <2>2. Last(f) \in Nat
    BY <1>1, <1>4, <1>5, <2>1
  <2>3. Last(v) = Whole(s, d) + 1 /\ k = r + 1 /\ Last(v) = k - 1 + Last(f) /\ Whole(s, d) \in Nat
    BY <1>2, <1>3, <1>7
  <2>4. \A x \in Nat, y \in Nat, z \in Nat : x + 1 = (y + 1) - 1 + z => x = y + z - 1
    OBVIOUS
  <2> DEFINE w == Whole(s, d)
             l == Last(f)
  <2>5. w \in Nat /\ l \in Nat /\ w + 1 = (r + 1) - 1 + l
    BY <2>2, <2>3
  <2> HIDE DEF v, k, w, l
  <2>6. w = r + l - 1
    BY <1>4, <2>4, <2>5
  <2> QED
    BY <2>6 DEF w, l
<1> QED
  BY <1>5, <1>6, <1>7, <1>8 DEF r

\* What is in the buffer.
LEMMA FineHolds ==
  ASSUME NEW s \in Seq(Nat), NEW c \in 0..Len(s), NEW i, NEW b \in Buffers, NEW m, NEW out,
         Fine(s, i, c, b, m, out)
  PROVE  Holds(b, s, Whole(s, c), c)
<1>1. Whole(s, c) \in 0..c /\ Rest(Upto(s, c)) = SubSeq(s, Whole(s, c) + 1, c)
  BY WholeTyped
<1>2. b.noff = 0 /\ b.content = Rest(Upto(s, c))
  BY DEF Fine, EmptyBuffer
<1> QED
  BY <1>1, <1>2 DEF Holds

-----------------------------------------------------------------------------
(* The last byte captured                                                  *)

TopOf(S, n) ==
  IF S = {} THEN 0 ELSE CHOOSE m \in 1..n : \E seg \in S : seg[2] = m /\ \A other \in S : other[2] <= m

LEMMA CapturedTop == Captured = TopOf(seen, sent) /\ Captured' = TopOf(seen', sent')
  BY DEF Captured, TopOf

LEMMA TopIs ==
  ASSUME NEW n \in Nat, NEW S \in SUBSET ((1..n) \X (1..n)), NEW seg \in S,
         \A other \in S : other[2] <= seg[2]
  PROVE  TopOf(S, n) = seg[2]
<1> DEFINE Best(m) == \E x \in S : x[2] = m /\ \A other \in S : other[2] <= m
<1>1. seg[2] \in 1..n /\ Best(seg[2])
  OBVIOUS
<1>2. ASSUME NEW m \in 1..n, Best(m) PROVE m = seg[2]
  <2>1. PICK x \in S : x[2] = m /\ \A other \in S : other[2] <= m
    BY <1>2
  <2>2. seg[2] <= m /\ m <= seg[2]
    BY <2>1
  <2> QED
    BY <1>1, <2>2
<1>3. TopOf(S, n) = CHOOSE m \in 1..n : Best(m)
  BY DEF TopOf
<1> HIDE DEF Best
<1> QED
  BY <1>1, <1>2, <1>3

LEMMA TopTyped ==
  ASSUME NEW n \in Nat, NEW S \in SUBSET ((1..n) \X (1..n))
  PROVE  /\ TopOf(S, n) \in 0..n /\ \A other \in S : other[2] <= TopOf(S, n)
         /\ S # {} => \E seg \in S : seg[2] = TopOf(S, n)
<1>1. CASE S = {}
  BY <1>1 DEF TopOf
<1>2. CASE S # {}
  <2> DEFINE Above == {k \in 0..n : \E seg \in S : seg[2] = n - k}
  <2>1. PICK any \in S : TRUE
    BY <1>2
  <2>2. n - any[2] \in Above
    <3>1. any[2] \in 1..n
      OBVIOUS
    <3>2. n - any[2] \in 0..n /\ any[2] = n - (n - any[2])
      BY <3>1
    <3> QED
      BY <3>2
  <2>3. Above \in SUBSET Nat /\ Above # {}
    BY <2>2
  <2>4. PICK k \in Above : \A l \in Above : k <= l
    BY <2>3, LeastNumber
  <2>5. PICK seg \in S : seg[2] = n - k
    OBVIOUS
  <2>6. ASSUME NEW other \in S PROVE other[2] <= seg[2]
    <3>1. other[2] \in 1..n
      OBVIOUS
    <3>2. n - other[2] \in 0..n /\ other[2] = n - (n - other[2])
      BY <3>1
    <3>3. n - other[2] \in Above
      BY <3>2
    <3>4. k <= n - other[2] /\ k \in 0..n
      BY <2>4, <3>3
    <3> QED
      BY <2>5, <3>1, <3>4
  <2>7. TopOf(S, n) = seg[2] /\ seg[2] \in 1..n
    BY <2>6, TopIs
  <2> QED
    BY <2>6, <2>7
<1> QED
  BY <1>1, <1>2

-----------------------------------------------------------------------------
(* One segment                                                             *)

LEMMA Returning == ASSUME NEW n PROVE ReturnedBytes(n) = Whole(stream, n)
  BY DEF ReturnedBytes, Whole, Last, Upto

\* A number not above those that come may be noted.
LEMMA NotedFine ==
  ASSUME NEW s, NEW i, NEW c, NEW b, NEW out, NEW seq, seq <= i + c + 1, meta \in Metas,
         Fine(s, i, c, b, meta, out)
  PROVE  Fine(s, i, c, b, Noted(seq), out)
<1>1. CASE meta.seq = Absent
  <2> DEFINE m == Noted(seq)
  <2>1. m.seq = seq /\ m.relative = meta.relative /\ m.next = meta.next
    BY <1>1 DEF Noted, Metas
  <2> HIDE DEF m
  <2>2. Fine(s, i, c, b, m, out)
    BY <2>1 DEF Fine
  <2> QED
    BY <2>2 DEF m
<1>2. CASE meta.seq # Absent
  BY <1>2 DEF Noted
<1> QED
  BY <1>1, <1>2

\* A segment that does not follow those captured, whose bytes are pending or known to be
\* returned.
LEMMA AgainData ==
  ASSUME NEW s \in Seq(Nat), NEW i \in Nat, NEW c \in 0..Len(s), NEW x \in 1..c, NEW y \in x..c,
         NEW r, r = Whole(s, c), r < c,
         buffer \in Buffers, meta \in Metas, Fine(s, i, c, buffer, meta, returned),
         x + AlreadyReturned(i + x) >= r + 1,
         ProcessData(SubSeq(s, x, y), i + x)
  PROVE  buffer' = buffer /\ returned' = returned /\ meta' = Noted(i + x)
<1> DEFINE seq == i + x
           data == SubSeq(s, x, y)
           old == AlreadyReturned(seq)
           new == SubSeq(data, old + 1, Len(data))
           noted == Noted(seq)
           relative == IF meta.relative = Absent THEN seq + old - 1 ELSE meta.relative
           at == seq + old - relative
           b == AppendAt(buffer, new, at)
           k == Cuts(b.content)
           first == x + old
<1>1. /\ x \in Nat \ {0} /\ y \in Nat /\ x <= y /\ y <= c /\ c \in Nat /\ c <= Len(s) /\ Len(s) \in Nat
      /\ r \in Nat /\ r < c /\ seq \in Nat
  <2>1. r \in 0..c
    BY WholeTyped
  <2> QED
    BY <2>1
<1>2. data \in Seq(Nat) /\ Len(data) = y + 1 - x /\ \A n \in 1..y + 1 - x : data[n] = s[x + n - 1]
  <2>1. x <= y + 1 /\ y <= Len(s)
    BY <1>1
  <2> QED
    BY SMTT(30), <1>1, <2>1, PartBytes
<1>3. old \in Nat /\ new \in Seq(Nat) /\ first \in Nat /\ first >= r + 1
  <2>1. old \in Nat /\ new \in Seq(Nat)
    BY <1>1, <1>2, NewTyped
  <2> QED
    BY SMTT(30), <1>1, <2>1
<1>4. meta.relative = i + r /\ relative = i + r
  <2>1. meta.relative = i + r
    BY DEF Fine
  <2>2. i + r \in Nat
    BY <1>1
  <2> QED
    BY <2>1, <2>2 DEF Absent
<1>5. noted \in Metas /\ noted.relative = i + r
  BY <1>1, <1>4, NotedTyped
<1> HIDE DEF seq, data, old, new, noted, relative, b, k, first
<1>6. CASE new = <<>>
  BY <1>6 DEF ProcessData, new, data, old, seq
<1>7. CASE new # <<>>
  <2>1. first <= y
    <3>1. CASE old + 1 <= Len(data)
      <4>1. old + 1 <= y + 1 - x
        BY <1>2, <3>1
      <4>2. \A n \in Nat : n + 1 <= y + 1 - x => x + n <= y
        BY <1>1
      <4> QED
        BY <1>3, <4>1, <4>2 DEF first
    <3>2. CASE ~(old + 1 <= Len(data))
      <4>1. old + 1 \in Nat \ {0} /\ Len(data) \in Int /\ Len(data) <= Len(data)
        BY <1>2, <1>3
      <4>2. Len(new) = 0
        BY <1>2, <3>2, <4>1, PartTyped DEF new
      <4> QED
        BY <1>3, <1>7, <4>2
    <3> QED
      BY <3>1, <3>2
  <2>2. new = SubSeq(s, first, y)
    <3> DEFINE f == old + 1
               g == y + 1 - x
               h == x - 1
    <3>1. /\ f \in Nat \ {0} /\ g \in Nat /\ g <= Len(data) /\ f <= g + 1 /\ h \in Nat
          /\ h + g = y /\ h + f = first /\ h + g <= Len(s)
      <4>1. \A n \in Nat : x + n <= y => n + 1 <= y + 1 - x + 1 /\ (x - 1) + (n + 1) = x + n
        BY <1>1
      <4>2. f <= g + 1 /\ h + f = first
        BY <1>3, <2>1, <4>1 DEF first
      <4>5. g \in Nat /\ h \in Nat /\ h + g = y /\ y <= Len(s)
        BY <1>1
      <4>3. f \in Nat \ {0} /\ g \in Nat /\ g = Len(data) /\ h \in Nat /\ h + g = y /\ y <= Len(s)
        BY <1>2, <1>3, <4>5
      <4> HIDE DEF f, g, h
      <4>4. g <= Len(data) /\ h + g <= Len(s)
        BY <4>3
      <4> QED
        BY <4>2, <4>3, <4>4
    <3>2. \A n \in f..g : data[n] = s[h + n]
      <4> TAKE n \in f..g
      <4>1. n \in 1..y + 1 - x /\ x + n - 1 = h + n
        BY <1>1, <1>3
      <4> QED
        BY <1>2, <4>1
    <3>3. new = SubSeq(data, f, g)
      BY <1>2 DEF new
    <3> HIDE DEF f, g, h
    <3>4. SubSeq(data, f, g) = SubSeq(s, h + f, h + g)
      BY <1>2, <3>1, <3>2, SamePart
    <3> QED
      BY <3>1, <3>3, <3>4
  <2>3. Holds(buffer, s, r, c)
    BY FineHolds
  <2>4. b = buffer
    <3> DEFINE p == at - 1 - buffer.noff
    <3>1. buffer.noff = 0
      BY <2>3 DEF Holds
    <3>2. p = first - r - 1 /\ p \in Int
      <4>2. p = ((i + x) + old - (i + r)) - 1 - 0 /\ first = x + old
        BY <1>4, <3>1 DEF first, seq
      <4>3. i \in Nat /\ x \in Nat /\ r \in Nat /\ old \in Nat
        BY <1>1, <1>3
      <4> HIDE DEF p, at
      <4>4. ((i + x) + old - (i + r)) - 1 - 0 = (x + old) - r - 1 /\ (x + old) - r - 1 \in Int
        BY SMTT(30), <4>3
      <4> QED
        BY <4>2, <4>4
    <3>3. b = Put(buffer, new, p)
      BY DEF b, AppendAt
    <3> HIDE DEF p
    <3>4. Fits(s, r, c, first, y, p)
      <4>1. r + 1 <= first /\ first \in Nat \ {0} /\ first <= c + 1 /\ y <= Len(s)
        BY SMTT(30), <1>1, <1>3, <2>1
      <4> QED
        BY <1>1, <2>1, <3>2, <4>1 DEF Fits
    <3>5. y <= c
      BY <1>1
    <3>6. Put(buffer, SubSeq(s, first, y), p) = buffer
      BY <2>3, <3>4, <3>5, PutAgain
    <3> QED
      BY <2>2, <3>3, <3>6
  <2>5. Len(k) = 1
    <3>1. Upto(s, c) \in Seq(Nat)
      BY WholeTyped
    <3>2. buffer.content = Rest(Upto(s, c))
      BY DEF Fine
    <3>3. k = <<1>>
      BY <2>4, <3>1, <3>2, RestIncomplete DEF k
    <3> QED
      BY <3>3
  <2>6. buffer' = b /\ meta' = [noted EXCEPT !.relative = relative] /\ UNCHANGED returned
    BY <1>7, <2>5 DEF ProcessData, new, data, old, seq, noted, relative, b, k
  <2>7. [noted EXCEPT !.relative = relative] = noted
    BY <1>4, <1>5 DEF Metas
  <2> QED
    BY <2>4, <2>6, <2>7 DEF noted, seq
<1> QED
  BY <1>6, <1>7

\* What c and d make of the messages and of the numbers.
Completes(s, i, c, d, m, next) ==
  /\ d > Whole(s, d) /\ Whole(s, d) > Whole(s, c) => m.next = next + (d - c)
  /\ d = Whole(s, d) => m.seq = Absent

\* The next segment, that does not complete several messages and leave a rest.
LEMMA FreshData ==
  ASSUME NEW s \in Seq(Nat), NEW i \in Nat, NEW c \in 0..Len(s), NEW d \in c + 1..Len(s),
         NEW f, f = Pending(s, c, d),
         buffer \in Buffers, meta \in Metas, Fine(s, i, c, buffer, meta, returned),
         ~(Len(Cuts(f)) > 2 /\ Whole(s, d) < d),
         ProcessData(SubSeq(s, c + 1, d), i + c + 1)
  PROVE  /\ Fine(s, i, d, buffer', meta', returned')
         /\ Completes(s, i, c, d, meta', Noted(i + c + 1).seq)
<1> DEFINE r == Whole(s, c)
           q == Whole(s, d)
           seq == i + c + 1
           data == SubSeq(s, c + 1, d)
           old == AlreadyReturned(seq)
           new == SubSeq(data, old + 1, Len(data))
           noted == Noted(seq)
           relative == IF meta.relative = Absent THEN seq + old - 1 ELSE meta.relative
           at == seq + old - relative
           b == AppendAt(buffer, new, at)
           k == Cuts(b.content)
           rest == Rest(b.content)
<1>1. /\ c \in Nat /\ d \in Nat /\ Len(s) \in Nat /\ c < d /\ d <= Len(s)
      /\ r \in Nat /\ r <= c /\ seq \in Nat /\ d \in c..Len(s) /\ d \in 0..Len(s)
  <2>1. r \in 0..c
    BY WholeTyped
  <2> QED
    BY <2>1
<1>2. /\ f \in Seq(Nat) /\ Len(f) = d - r
      /\ Messages(Upto(s, d)) = Messages(Upto(s, c)) \o Messages(f)
      /\ q = r + Last(f) - 1 /\ Rest(Upto(s, d)) = Rest(f) /\ q \in 0..d
  <2>1. q \in 0..d
    BY <1>1, WholeTyped
  <2>2. d \in c..Len(s)
    BY <1>1
  <2>3. /\ f \in Seq(Nat) /\ Len(f) = d - Whole(s, c)
        /\ Messages(Upto(s, d)) = Messages(Upto(s, c)) \o Messages(f)
        /\ Whole(s, d) = Whole(s, c) + Last(f) - 1 /\ Rest(Upto(s, d)) = Rest(f)
    BY <2>2, StreamContinues
  <2> QED
    BY <2>1, <2>3
<1>3. /\ i + Len(s) < SeqMod
      /\ returned = Messages(Upto(s, c))
      /\ meta.seq # Absent => meta.seq <= seq
      /\ meta.next # Absent => meta.next <= seq
      /\ r < c => meta.relative = i + r
      /\ r >= c => buffer = EmptyBuffer /\ meta.relative = Absent /\ meta.next = Absent
  <2>1. (r >= c) = ~(r < c)
    BY <1>1
  <2> QED
    BY <2>1 DEF Fine
<1>4. data \in Seq(Nat) /\ Len(data) = d - c
  BY SMTT(30), <1>1, BytesAfter
<1>5. old = 0
  <2>1. meta.next # Absent => meta.next \in Nat
    BY DEF Metas, Numbers
  <2> HIDE DEF seq
  <2> QED
    BY <1>1, <1>3, <2>1 DEF AlreadyReturned
<1>6. new = data /\ new # <<>>
  <2> HIDE DEF data, old
  <2>1. old + 1 = 1
    BY <1>5
  <2>2. new = SubSeq(data, 1, Len(data))
    BY <2>1
  <2> HIDE DEF new
  <2>3. new = data
    BY <1>4, <2>2, SubSeqFull
  <2>4. Len(new) # 0
    BY <1>1, <1>4, <2>3
  <2> QED
    BY <2>3, <2>4
<1>7. relative = i + r
  <2>1. CASE r < c
    <3>1. meta.relative = i + r /\ i + r \in Nat
      BY <1>1, <1>3, <2>1
    <3> QED
      BY <3>1 DEF Absent
  <2>2. CASE ~(r < c)
    <3>1. meta.relative = Absent /\ r = c
      BY <1>1, <1>3, <2>2
    <3>2. seq + 0 - 1 = i + c
      BY <1>1
    <3> HIDE DEF seq
    <3> QED
      BY <1>5, <3>1, <3>2
  <2> QED
    BY <2>1, <2>2
<1>8. noted \in Metas /\ noted.seq \in Nat /\ noted.next = meta.next /\ noted.seq <= seq
  <2>1. noted \in Metas /\ noted.seq \in Nat /\ noted.next = meta.next
    BY <1>1, NotedTyped
  <2>2. CASE meta.seq = Absent
    <3>1. noted.seq = seq
      BY <2>2 DEF Noted, Metas
    <3> QED
      BY <1>1, <2>1, <3>1
  <2>3. CASE meta.seq # Absent
    BY <1>3, <2>1, <2>3 DEF Noted
  <2> QED
    BY <2>1, <2>2, <2>3
<1>9. b = [content |-> f, len |-> d - r, noff |-> 0]
  <2> DEFINE p == at - 1 - buffer.noff
  <2>1. Holds(buffer, s, r, c) /\ buffer.noff = 0
    <3>1. Holds(buffer, s, r, c)
      BY FineHolds
    <3> QED
      BY <3>1 DEF Holds
  <2>2. p = c - r /\ p \in Int
    <3>1. p = ((i + c + 1) + 0 - (i + r)) - 1 - 0
      BY <1>5, <1>7, <2>1
    <3>2. ((i + c + 1) + 0 - (i + r)) - 1 - 0 = c - r /\ c - r \in Int
      BY SMTT(30), <1>1
    <3> HIDE DEF p
    <3> QED
      BY <3>1, <3>2
  <2>3. b = Put(buffer, new, p)
    BY DEF AppendAt
  <2> HIDE DEF p, new, data, r
  <2> DEFINE x == c + 1
  <2>4. /\ x \in Nat \ {0} /\ r + 1 <= x /\ x <= c + 1 /\ x <= d /\ p = x - r - 1
    BY <1>1, <2>2
  <2>5. Fits(s, r, c, x, d, p) /\ Larger(c, d) = d
    BY <1>1, <2>2, <2>4 DEF Fits, Larger
  <2> HIDE DEF x
  <2>8. Put(buffer, SubSeq(s, x, d), p) = Held(s, r, Larger(c, d))
    BY <2>1, <2>5, PutPart
  <2>6. Put(buffer, SubSeq(s, x, d), p) = [content |-> SubSeq(s, r + 1, d), len |-> d - r, noff |-> 0]
    BY <2>5, <2>8 DEF Held
  <2>7. data = SubSeq(s, x, d) /\ f = SubSeq(s, r + 1, d)
    BY DEF data, x, r, Pending
  <2> QED
    BY <1>6, <2>3, <2>6, <2>7
<1> HIDE DEF b
<1>10. b.content = f /\ b.noff = 0 /\ b.len = d - r
  BY <1>9
<1>11. /\ k = Cuts(f) /\ rest = Rest(f) /\ rest \in Seq(Nat) /\ Len(rest) = d - q
       /\ Len(k) \in Nat \ {0} /\ k[1] = 1 /\ Last(f) = k[Len(k)] /\ Last(f) \in Nat \ {0}
       /\ Last(f) <= Len(f) + 1
       /\ Rest(f) = SubSeq(f, Last(f), Len(f)) /\ Len(f) \in Nat
       /\ Messages(f) \in Seq(Seq(Nat)) /\ Len(Messages(f)) = Len(k) - 1
       /\ Messages(Upto(s, c)) \in Seq(Seq(Nat))
  <2>1. k = Cuts(f) /\ rest = Rest(f)
    BY <1>10
  <2>2. /\ Last(f) \in 1..Len(f) + 1 /\ Rest(f) = SubSeq(f, Last(f), Len(f))
        /\ Len(Rest(f)) = Len(f) + 1 - Last(f) /\ Len(f) \in Nat
    <3>1. f \in Seq(Nat)
      BY <1>2
    <3>2. Len(f) \in Nat
      BY <3>1, LenProperties
    <3> QED
      BY <3>1, <3>2, LastTyped
  <2>3. Len(Cuts(f)) \in Nat \ {0} /\ Cuts(f)[1] = 1 /\ Last(f) = Cuts(f)[Len(Cuts(f))]
    BY <1>2, CutsTyped DEF Last
  <2>4. Messages(f) \in Seq(Seq(Nat)) /\ Len(Messages(f)) = Len(Cuts(f)) - 1 /\ Rest(f) \in Seq(Nat)
    BY <1>2, MessagesTyped
  <2>5. Messages(Upto(s, c)) \in Seq(Seq(Nat))
    BY <1>1, MessagesTyped, WholeTyped
  <2>6. Len(Rest(f)) = d - q
    <3> DEFINE l == Last(f)
    <3>1. l \in Nat /\ Len(Rest(f)) = (d - r) + 1 - l /\ q = r + l - 1
      BY <1>2, <2>2
    <3> HIDE DEF l, q, r
    <3> QED
      BY <1>1, <3>1
  <2>7. Last(f) \in Nat \ {0} /\ Last(f) <= Len(f) + 1
    <3> DEFINE l == Last(f)
               n == Len(f)
    <3>1. l \in 1..n + 1 /\ n \in Nat
      BY <2>2
    <3> HIDE DEF l, n
    <3>2. l \in Nat \ {0} /\ l <= n + 1
      BY <3>1
    <3> QED
      BY <3>2 DEF l, n
  <2> HIDE DEF k, rest, q
  <2> QED
    BY <2>1, <2>2, <2>3, <2>4, <2>5, <2>6, <2>7
<1> HIDE DEF q, r, seq, data, old, new, noted, relative, at, k, rest
<1>15. k[1] = 1 /\ Last(f) = k[Len(k)]
  BY <1>11
<1>16. Len(k) = 1 \/ Len(k) = 2 \/ Len(k) > 2
  <2> DEFINE n == Len(k)
  <2>1. n \in Nat \ {0}
    BY <1>11
  <2> HIDE DEF n
  <2>2. n = 1 \/ n = 2 \/ n > 2
    BY <2>1
  <2> QED
    BY <2>2 DEF n
<1>12. q \in Nat /\ q <= d
  BY <1>1, <1>2
<1>13. CASE Len(k) = 1
  <2>1. buffer' = b /\ meta' = [noted EXCEPT !.relative = relative] /\ returned' = returned
    BY <1>6, <1>13 DEF ProcessData, new, data, old, seq, noted, relative, at, b, k, rest
  <2>2. Last(f) = 1 /\ q = r
    <3>1. Last(f) = 1
      BY <1>13, <1>15
    <3>2. q = r + 1 - 1
      BY <1>2, <3>1
    <3> QED
      BY <1>1, <3>1, <3>2
  <2>3. Messages(f) = <<>>
    <3> DEFINE out == Messages(f)
    <3>1. out \in Seq(Seq(Nat)) /\ Len(out) = 0
      <4>1. Len(out) = Len(k) - 1 /\ out \in Seq(Seq(Nat))
        BY <1>11
      <4> QED
        BY <1>13, <4>1
    <3> HIDE DEF out
    <3>2. out = <<>>
      BY <3>1
    <3> QED
      BY <3>2 DEF out
  <2>4. returned' = Messages(Upto(s, d))
    BY <1>2, <1>3, <1>11, <2>1, <2>3, ConcatEmptySeq
  <2>5. buffer'.content = Rest(Upto(s, d)) /\ buffer'.noff = 0
    <3>1. SubSeq(f, 1, Len(f)) = f
      BY <1>2, SubSeqFull
    <3> QED
      BY <1>2, <1>10, <1>11, <2>1, <2>2, <3>1
  <2>6. /\ meta'.relative = i + q /\ meta'.seq <= i + d + 1
        /\ meta'.next # Absent => meta'.next <= i + d + 1
    <3>1. meta'.relative = i + r /\ meta'.seq = noted.seq /\ meta'.next = meta.next
      BY <1>7, <1>8, <2>1 DEF Metas
    <3>2. seq <= i + d + 1
      BY <1>1 DEF seq
    <3>3. meta.next # Absent => meta.next \in Nat
      BY DEF Metas, Numbers
    <3>4. i + d + 1 \in Nat /\ seq \in Nat
      BY <1>1
    <3> DEFINE top == i + d + 1
    <3> HIDE DEF top
    <3>5. \A n \in Nat : n <= seq => n <= top
      BY <3>2, <3>4 DEF top
    <3>6. noted.seq <= top /\ (meta.next # Absent => meta.next <= top)
      BY <1>3, <1>8, <3>3, <3>5
    <3> QED
      BY <2>2, <3>1, <3>6 DEF top
  <2>7. q < d /\ ~(q > r) /\ ~(d = q)
    BY <1>1, <2>2
  <2>8. Fine(s, i, d, buffer', meta', returned')
    BY <1>3, <2>4, <2>5, <2>6, <2>7 DEF Fine, q
  <2> QED
    BY <2>7, <2>8 DEF Completes, q, r
<1>14. CASE Len(k) # 1
  <2>1. returned' = returned \o Messages(f)
    BY <1>6, <1>10, <1>14 DEF ProcessData, new, data, old, seq, noted, relative, at, b, k, rest
  <2>2. returned' = Messages(Upto(s, d))
    BY <1>2, <1>3, <2>1
  <2>3. CASE rest = <<>>
    <3>1. buffer' = EmptyBuffer /\ meta' = EmptyMeta
      BY <1>6, <1>14, <2>3 DEF ProcessData, new, data, old, seq, noted, relative, at, b, k, rest
    <3>2. q = d
      <4>1. Len(rest) = 0 /\ Len(rest) = d - q
        BY <1>11, <2>3
      <4>2. d - q = 0
        BY <4>1
      <4> QED
        BY <1>1, <1>12, <4>2
    <3>3. buffer'.content = Rest(Upto(s, d))
      BY <1>2, <1>11, <2>3, <3>1 DEF EmptyBuffer
    <3>4. meta'.seq = Absent /\ meta'.relative = Absent /\ meta'.next = Absent
      BY <3>1 DEF EmptyMeta
    <3>5. ~(q < d) /\ ~(d > q)
      BY <1>1, <3>2
    <3> QED
      BY <1>3, <2>2, <3>1, <3>3, <3>4, <3>5 DEF Fine, Completes, q
  <2>4. CASE rest # <<>>
    <3>1. /\ buffer' = ShiftLeft(b, Len(b.content) - Len(rest))
          /\ meta' = [seq |-> Absent, relative |-> RelativeAfter(relative, k), next |-> noted.seq + Len(new)]
      BY <1>6, <1>14, <2>4 DEF ProcessData, new, data, old, seq, noted, relative, at, b, k, rest
    <3>2. q < d
      <4>1. Len(rest) # 0
        <5>1. rest \in Seq(Nat)
          BY <1>11
        <5> QED
          BY <2>4, <5>1
      <4> QED
        BY <1>1, <1>11, <1>12, <4>1
    <3>3. Len(k) = 2
      <4>1. ~(Len(k) > 2)
        BY <1>11, <3>2 DEF q
      <4> QED
        BY <1>14, <1>16, <4>1
    <3>4. meta'.relative = i + q
      <4> DEFINE l == Last(f)
      <4>1. meta'.relative = (i + r) + (l - 1) /\ q = r + l - 1 /\ l \in Nat
        <5>1. RelativeAfter(relative, k) = relative + (k[2] - k[1]) /\ k[2] = l /\ k[1] = 1
          <6>1. Len(k) - 1 = 1
            BY <3>3
          <6> QED
            BY <1>15, <3>3, <6>1 DEF RelativeAfter
        <5>2. l \in Nat
          BY <1>11
        <5> QED
          BY <1>2, <1>7, <3>1, <5>1, <5>2
      <4> HIDE DEF l
      <4> QED
        BY <1>1, <4>1
    <3>5. buffer'.content = Rest(Upto(s, d)) /\ buffer'.noff = 0
      <4> DEFINE n == Len(b.content) - Len(rest)
      <4>1. n + 1 = Last(f)
        <5> DEFINE l == Last(f)
        <5>1. n = (d - r) - (d - q) /\ q = r + l - 1 /\ l \in Nat
          BY <1>2, <1>10, <1>11
        <5>2. d \in Nat /\ r \in Nat /\ q \in Nat
          BY <1>1, <1>12
        <5> HIDE DEF l, n
        <5>3. (d - r) - (d - (r + l - 1)) + 1 = l
          BY <5>1, <5>2
        <5>4. n + 1 = l
          BY <5>1, <5>3
        <5> QED
          BY <5>4 DEF l
      <4>2. buffer'.content = SubSeq(f, n + 1, Len(f)) /\ buffer'.noff = 0
        <5>1. buffer' = [b EXCEPT !.content = SubSeq(@, n + 1, Len(@)), !.len = @ - n]
          BY <3>1 DEF ShiftLeft
        <5> HIDE DEF n
        <5> QED
          BY <1>9, <5>1
      <4> QED
        BY <1>2, <1>11, <4>1, <4>2
    <3>6. meta'.seq = Absent /\ meta'.next = noted.seq + (d - c)
      BY <1>4, <1>6, <3>1
    <3>7. noted.seq + (d - c) <= i + d + 1
      BY <1>1, <1>8 DEF seq
    <3>8. Fine(s, i, d, buffer', meta', returned')
      BY <1>3, <2>2, <3>2, <3>4, <3>5, <3>6, <3>7 DEF Fine, q
    <3>9. ~(d = q)
      BY <1>1, <1>12, <3>2
    <3> QED
      BY <3>6, <3>8, <3>9 DEF Completes, q, noted, seq
  <2> QED
    BY <2>3, <2>4
<1> QED
  BY <1>13, <1>14

-----------------------------------------------------------------------------
(* Every step keeps the reassembly in order                                *)

Forward(S) == \A seg \in S : seg[1] <= seg[2]

\* All is well after c bytes.
Well(s, i, c, b, m, out, S, first) ==
  Fine(s, i, c, b, m, out) /\ NextKnown(s, i, c, m, S, first) /\ OwnNumber(s, i, c, m, first)

CalmInv ==
  trouble = {} => Well(stream, isn, Captured, buffer, meta, returned, seen, conns = 1)

Inv == TypeInv /\ Forward(flying) /\ Forward(seen) /\ CalmInv

\* The types that the steps below need, in one place.
LEMMA InvParts ==
  ASSUME TypeInv
  PROVE  /\ stream \in Seq(Nat) /\ Len(stream) \in Nat /\ isn \in Nat
         /\ sent \in 0..Len(stream) /\ sent \in Nat /\ conns \in Nat \ {0}
         /\ flying \in SUBSET ((1..sent) \X (1..sent)) /\ seen \in SUBSET ((1..sent) \X (1..sent))
         /\ buffer \in Buffers /\ meta \in Metas
         /\ Captured \in 0..sent /\ Captured \in 0..Len(stream)
         /\ \A other \in seen : other[2] <= Captured
<1>1. Parts /\ stream \in Seq(Nat) /\ Len(stream) \in Nat /\ isn \in Nat
  BY TypeParts, StreamTyped
<1>2. /\ sent \in 0..Len(stream) /\ sent \in Nat /\ conns \in Nat \ {0}
      /\ flying \in SUBSET ((1..sent) \X (1..sent)) /\ seen \in SUBSET ((1..sent) \X (1..sent))
      /\ buffer \in Buffers /\ meta \in Metas
  BY <1>1 DEF Parts
<1>3. Captured \in 0..sent /\ \A other \in seen : other[2] <= Captured
  BY <1>2, CapturedTop, TopTyped
<1>4. Captured \in 0..Len(stream)
  BY <1>1, <1>2, <1>3
<1> QED
  BY <1>1, <1>2, <1>3, <1>4

\* The number of an offset while nothing wraps.
LEMMA NumberOf ==
  ASSUME TypeInv, isn + Len(stream) < SeqMod, NEW o \in 1..Len(stream)
  PROVE  SeqOf(o) = isn + o
<1>1. Len(stream) \in Nat /\ isn \in Nat /\ SeqMod \in Nat \ {0}
  BY InvParts, ConstantsAssumption DEF ConstantsAssumption
<1>2. isn + o \in Nat /\ isn + o < SeqMod
  BY <1>1
<1>3. \A n \in Nat, m \in Nat \ {0} : n < m => n % m = n
  OBVIOUS
<1> QED
  BY <1>1, <1>2, <1>3 DEF SeqOf

LEMMA InitFine == Init => Inv
<1> SUFFICES ASSUME Init PROVE Inv
  OBVIOUS
<1>1. TypeInv
  BY InitTyped
<1>2. Captured = 0 /\ seen = {} /\ flying = {} /\ sent = 0
  BY DEF Init, Captured
<1>3. ASSUME trouble = {}
      PROVE  Well(stream, isn, 0, buffer, meta, returned, seen, conns = 1)
  <2>1. isn \in Nat /\ stream \in Seq(Nat) /\ Len(stream) \in Nat
    BY <1>1, InvParts
  <2>2. isn + Len(stream) < SeqMod
    BY <1>3 DEF Init, Wraps
  <2>3. buffer = EmptyBuffer /\ returned = <<>> /\ (meta = EmptyMeta \/ meta = [EmptyMeta EXCEPT !.seq = isn])
    BY DEF Init
  <2>4. /\ meta.relative = Absent /\ meta.next = Absent /\ (meta.seq = Absent \/ meta.seq = isn)
    BY <2>3 DEF EmptyMeta
  <2>5. Whole(stream, 0) = 0 /\ Messages(Upto(stream, 0)) = <<>> /\ Rest(Upto(stream, 0)) = <<>>
    BY <2>1, WholeOfNothing
  <2>6. Fine(stream, isn, 0, buffer, meta, returned)
    BY <2>1, <2>2, <2>3, <2>4, <2>5 DEF Fine, EmptyBuffer
  <2>7. OwnNumber(stream, isn, 0, meta, conns = 1)
    BY <2>1, <2>4 DEF OwnNumber
  <2>8. NextKnown(stream, isn, 0, meta, seen, conns = 1)
    BY <1>2 DEF NextKnown
  <2> QED
    BY <2>6, <2>7, <2>8 DEF Well
<1> QED
  BY <1>1, <1>2, <1>3 DEF Inv, CalmInv, Forward

LEMMA TransmitFine == ASSUME Inv, NEW n \in 1..Len(stream), Transmit(n) PROVE Inv'
<1>1. TypeInv /\ TypeInv'
  BY TransmitTyped DEF Inv
<1>2. /\ sent' = sent + n /\ flying' = flying \cup {<<sent + 1, sent + n>>}
      /\ UNCHANGED <<stream, isn, seen, conns, buffer, meta, returned, trouble>>
  BY DEF Transmit
<1>3. sent \in Nat /\ Len(stream) \in Nat /\ seen \in SUBSET ((1..sent) \X (1..sent))
  BY <1>1, InvParts
<1>4. Captured' = Captured
  <2>1. CASE seen = {}
    BY <1>2, <2>1 DEF Captured
  <2>2. CASE seen # {}
    <3>1. PICK seg \in seen : \A other \in seen : other[2] <= seg[2]
      <4>1. PICK seg \in seen : seg[2] = TopOf(seen, sent)
        BY <1>3, <2>2, TopTyped
      <4>2. \A other \in seen : other[2] <= TopOf(seen, sent)
        BY <1>3, TopTyped
      <4> QED
        BY <4>1, <4>2
    <3>2. TopOf(seen, sent) = seg[2]
      BY <1>3, <3>1, TopIs
    <3>3. sent + n \in Nat /\ seen \in SUBSET ((1..sent + n) \X (1..sent + n))
      BY <1>3
    <3>4. TopOf(seen, sent + n) = seg[2]
      BY <3>1, <3>3, TopIs
    <3> QED
      BY <1>2, <3>2, <3>4, CapturedTop
  <2> QED
    BY <2>1, <2>2
<1>5. Forward(flying') /\ Forward(seen')
  BY <1>2, <1>3 DEF Inv, Forward
<1>6. CalmInv'
  BY <1>2, <1>4 DEF Inv, CalmInv
<1> QED
  BY <1>1, <1>5, <1>6 DEF Inv, Forward

LEMMA RetransmitFine == ASSUME Inv, NEW seg \in seen, Retransmit(seg) PROVE Inv'
<1>1. TypeInv'
  BY RetransmitTyped DEF Inv
<1>2. flying' = flying \cup {seg} /\ UNCHANGED <<stream, isn, sent, seen, conns, buffer, meta, returned, trouble>>
  BY DEF Retransmit
<1>3. Forward(flying)' /\ Forward(seen)'
  BY <1>2 DEF Inv, Forward
<1>4. CalmInv'
  BY <1>2 DEF Inv, CalmInv, Captured
<1> QED
  BY <1>1, <1>3, <1>4 DEF Inv

LEMMA CaptureEmptyFine == ASSUME Inv, CaptureEmpty PROVE Inv'
<1>1. TypeInv /\ TypeInv'
  BY CaptureEmptyTyped DEF Inv
<1>2. /\ meta' = Noted(SeqOf(sent + 1)) /\ UNCHANGED <<stream, isn, sent, flying, seen, conns, buffer, returned>>
      /\ trouble' = trouble \cup (IF Captured = sent THEN {} ELSE {"reordered"})
  BY DEF CaptureEmpty, ProcessEmpty
<1>3. Forward(flying)' /\ Forward(seen)'
  BY <1>2 DEF Inv, Forward
<1>4. Captured' = Captured
  BY <1>2 DEF Captured
<1>5. ASSUME trouble' = {}
      PROVE  Well(stream, isn, Captured, buffer, meta', returned, seen, conns = 1)
  <2> DEFINE seq == SeqOf(sent + 1)
             c == Captured
  <2>1. trouble = {} /\ Captured = sent
    BY <1>2, <1>5
  <2>2. Well(stream, isn, c, buffer, meta, returned, seen, conns = 1)
    BY <2>1 DEF Inv, CalmInv
  <2>3. /\ isn \in Nat /\ Len(stream) \in Nat /\ sent \in Nat /\ sent <= Len(stream)
        /\ SeqMod \in Nat \ {0} /\ isn + Len(stream) < SeqMod /\ meta \in Metas
    BY <1>1, <2>2, InvParts, ConstantsAssumption DEF ConstantsAssumption, Well, Fine
  <2>4. seq \in Nat /\ seq <= isn + sent + 1 /\ (sent < Len(stream) => seq = isn + sent + 1)
    <3>1. CASE sent < Len(stream)
      <4>1. sent + 1 \in 1..Len(stream)
        BY <2>3, <3>1
      <4>2. seq = isn + (sent + 1)
        BY <1>1, <2>3, <4>1, NumberOf
      <4> HIDE DEF seq
      <4> QED
        BY <2>3, <4>2
    <3>2. CASE ~(sent < Len(stream))
      <4>1. seq = (isn + (sent + 1)) % SeqMod
        BY DEF SeqOf
      <4>2. isn + (sent + 1) \in Nat /\ isn + (sent + 1) <= SeqMod
        BY <2>3
      <4>3. \A n \in Nat, m \in Nat \ {0} : n <= m => n % m \in Nat /\ n % m <= n
        OBVIOUS
      <4>4. (isn + (sent + 1)) % SeqMod \in Nat /\ (isn + (sent + 1)) % SeqMod <= isn + (sent + 1)
        BY <2>3, <4>2, <4>3
      <4> HIDE DEF seq
      <4> QED
        BY <2>3, <3>2, <4>1, <4>4
    <3> QED
      BY <3>1, <3>2
  <2> HIDE DEF seq, c
  <2>5. seq <= isn + c + 1
    BY <2>1, <2>4 DEF c
  <2>6. Fine(stream, isn, c, buffer, Noted(seq), returned)
    BY <2>2, <2>3, <2>5, NotedFine DEF Well
  <2>7. Noted(seq).next = meta.next /\ Noted(seq).seq = IF meta.seq = Absent THEN seq ELSE meta.seq
    BY <2>3, <2>4 DEF Noted, Metas
  <2>8. NextKnown(stream, isn, c, Noted(seq), seen, conns = 1)
    BY <2>2, <2>7 DEF Well, NextKnown
  <2>9. OwnNumber(stream, isn, c, Noted(seq), conns = 1)
    <3>1. CASE meta.seq = Absent
      <4>1. c < Len(stream) => seq >= isn + c
        BY <2>1, <2>3, <2>4 DEF c
      <4> QED
        BY <2>7, <3>1, <4>1 DEF OwnNumber
    <3>2. CASE meta.seq # Absent
      BY <2>2, <2>7, <3>2 DEF Well, OwnNumber
    <3> QED
      BY <3>1, <3>2
  <2> QED
    BY <1>2, <2>6, <2>8, <2>9 DEF Well, seq, c
<1>6. CalmInv'
  BY <1>2, <1>4, <1>5 DEF CalmInv
<1> QED
  BY <1>1, <1>3, <1>6 DEF Inv

LEMMA ReconnectFine ==
  ASSUME Inv, NEW s \in Streams, NEW i \in Isns, Reconnect(s, i) PROVE Inv'
<1>1. TypeInv /\ TypeInv'
  BY ReconnectTyped DEF Inv
<1>2. /\ conns' = conns + 1 /\ stream' = s /\ isn' = i /\ sent' = 0 /\ seen' = {} /\ returned' = <<>>
      /\ flying = {} /\ UNCHANGED <<flying, buffer>> /\ (meta' = meta \/ meta' = Noted(i))
      /\ trouble' = trouble \cup Wraps(s, i) \cup Inherited(i)
  BY DEF Reconnect
<1>3. Forward(flying)' /\ Forward(seen)' /\ Captured' = 0
  BY <1>2 DEF Forward, Captured
<1>4. ASSUME trouble' = {}
      PROVE  Well(s, i, 0, buffer, meta', <<>>, {}, conns' = 1)
  <2>1. trouble = {} /\ Wraps(s, i) = {} /\ Inherited(i) = {}
    BY <1>2, <1>4
  <2>2. /\ i \in Nat /\ s \in Seq(Nat) /\ Len(s) \in Nat /\ meta \in Metas /\ conns \in Nat \ {0}
    BY <1>1, InvParts, ConstantsAssumption DEF ConstantsAssumption
  <2>3. i + Len(s) < SeqMod
    BY <2>1 DEF Wraps
  <2>4. buffer = EmptyBuffer /\ meta.relative = Absent /\ meta.next = Absent
    BY <2>1 DEF Inherited
  <2>5. meta.seq # Absent => meta.seq <= i
    <3>1. meta.seq # Absent => ~(meta.seq > i) /\ meta.seq \in Nat
      BY <2>1, <2>2 DEF Inherited, Metas, Numbers
    <3> QED
      BY <2>2, <3>1
  <2>6. /\ meta'.relative = Absent /\ meta'.next = Absent
        /\ meta'.seq # Absent => meta'.seq <= i + 0 + 1
    <3>1. CASE meta' = meta
      <4>1. meta.seq # Absent => meta.seq \in Nat
        BY <2>2 DEF Metas, Numbers
      <4> QED
        BY <2>2, <2>4, <2>5, <3>1, <4>1
    <3>2. CASE meta' = Noted(i)
      <4>1. meta.seq # Absent => meta.seq \in Nat
        BY <2>2 DEF Metas, Numbers
      <4>2. /\ Noted(i).relative = Absent /\ Noted(i).next = Absent
            /\ Noted(i).seq = IF meta.seq = Absent THEN i ELSE meta.seq
        BY <2>2, <2>4 DEF Noted, Metas
      <4> QED
        BY <2>2, <2>4, <2>5, <3>2, <4>1, <4>2
    <3> QED
      BY <1>2, <3>1, <3>2
  <2>7. Whole(s, 0) = 0 /\ Messages(Upto(s, 0)) = <<>> /\ Rest(Upto(s, 0)) = <<>>
    BY <2>2, WholeOfNothing
  <2>8. Fine(s, i, 0, buffer, meta', <<>>)
    BY <2>3, <2>4, <2>6, <2>7 DEF Fine, EmptyBuffer
  <2>9. NextKnown(s, i, 0, meta', {}, conns' = 1)
    BY DEF NextKnown
  <2>10. OwnNumber(s, i, 0, meta', conns' = 1)
    <3>1. conns' # 1
      BY <1>2, <2>2
    <3> QED
      BY <3>1 DEF OwnNumber
  <2> QED
    BY <2>8, <2>9, <2>10 DEF Well
<1>5. CalmInv'
  BY <1>2, <1>3, <1>4 DEF CalmInv
<1> QED
  BY <1>1, <1>3, <1>5 DEF Inv

\* A segment seen for the first time.
LEMMA CaptureFresh ==
  ASSUME TypeInv, Forward(flying), NEW seg \in flying, seg \notin seen, Capture(seg), trouble' = {},
         Well(stream, isn, Captured, buffer, meta, returned, seen, conns = 1)
  PROVE  Well(stream, isn, Captured', buffer', meta', returned', seen', conns = 1)
<1> DEFINE c == Captured
           d == seg[2]
           f == Pending(stream, c, d)
           next == Noted(isn + c + 1).seq
<1>1. /\ stream \in Seq(Nat) /\ Len(stream) \in Nat /\ isn \in Nat
      /\ sent \in 0..Len(stream) /\ sent \in Nat
      /\ seg \in (1..sent) \X (1..sent) /\ seen \in SUBSET ((1..sent) \X (1..sent))
      /\ buffer \in Buffers /\ meta \in Metas
      /\ c \in 0..sent /\ c \in 0..Len(stream) /\ \A other \in seen : other[2] <= c
  BY InvParts
<1>2. /\ NewTrouble(seg) = {} /\ seen' = seen \cup {seg} /\ sent' = sent
      /\ ProcessData(SubSeq(stream, seg[1], d), SeqOf(seg[1]))
  BY DEF Capture
<1>3. seg[1] = c + 1 /\ ~(Len(Cuts(f)) > 2 /\ Whole(stream, d) < d)
  <2>1. /\ ~(seg[1] # c + 1)
        /\ ~(Len(Cuts(SubSeq(stream, ReturnedBytes(c) + 1, d))) > 2 /\ ReturnedBytes(d) < d)
    BY <1>2 DEF NewTrouble, Troubles
  <2> QED
    BY <2>1, Returning DEF Pending
<1>4. /\ seg[1] \in 1..sent /\ d \in 1..sent /\ seg[1] <= d /\ d \in Nat /\ c \in Nat /\ c < d
      /\ d \in c + 1..Len(stream) /\ seg[1] \in 1..Len(stream) /\ d \in 0..Len(stream)
  <2>1. seg[1] \in 1..sent /\ d \in 1..sent /\ seg[1] <= d
    BY <1>1 DEF Forward
  <2> HIDE DEF c, d
  <2> QED
    BY <1>1, <1>3, <2>1
<1>5. SeqOf(seg[1]) = isn + c + 1
  <2>1. SeqOf(seg[1]) = isn + seg[1]
    BY <1>4, NumberOf DEF Well, Fine
  <2> HIDE DEF c
  <2> QED
    BY <1>1, <1>3, <1>4, <2>1
<1>6. Captured' = d
  <2>1. \A other \in seen' : other[2] <= d
    <3>1. ASSUME NEW other \in seen PROVE other[2] <= d
      <4>1. other[2] <= c /\ other[2] \in Nat
        BY <1>1
      <4> HIDE DEF c, d
      <4> QED
        BY <1>4, <4>1
    <3> HIDE DEF c
    <3> QED
      BY <1>2, <1>4, <3>1
  <2>2. seen' \in SUBSET ((1..sent') \X (1..sent')) /\ seg \in seen' /\ sent' \in Nat
    BY <1>1, <1>2
  <2>3. TopOf(seen', sent') = seg[2]
    BY <2>1, <2>2, TopIs
  <2> QED
    BY <2>3, CapturedTop
<1>7. Fine(stream, isn, c, buffer, meta, returned)
  BY DEF Well
<1> HIDE DEF c, d, f
<1>8. /\ Fine(stream, isn, d, buffer', meta', returned')
      /\ Completes(stream, isn, c, d, meta', next)
  <2>1. ProcessData(SubSeq(stream, c + 1, d), isn + c + 1)
    BY <1>2, <1>3, <1>5
  <2>2. f = Pending(stream, c, d)
    BY DEF f
  <2> QED
    BY <1>1, <1>3, <1>4, <1>7, <2>1, <2>2, FreshData
<1>9. next \in Nat /\ (Whole(stream, c) = c /\ (conns = 1 \/ c > 0) => next >= isn + c)
  <2>1. isn + c + 1 \in Nat
    BY <1>1, <1>4
  <2>2. next \in Nat
    BY <1>1, <2>1, NotedTyped
  <2>3. next = IF meta.seq = Absent THEN isn + c + 1 ELSE meta.seq
    BY <1>1 DEF Noted, Metas
  <2>4. c < Len(stream)
    BY <1>1, <1>4
  <2>5. meta.seq # Absent /\ Whole(stream, c) = c /\ (conns = 1 \/ c > 0) => meta.seq >= isn + c
    BY <2>4 DEF Well, OwnNumber, c
  <2>6. isn + c + 1 >= isn + c
    BY <1>1, <1>4
  <2> HIDE DEF next
  <2> QED
    BY <2>2, <2>3, <2>5, <2>6
<1> HIDE DEF next
<1>10. NextKnown(stream, isn, d, meta', seen', conns = 1)
  <2> SUFFICES ASSUME NEW other \in seen', other[2] = d, other[1] <= Whole(stream, d), Whole(stream, d) < d,
                      Whole(stream, other[1] - 1) = other[1] - 1, conns = 1 \/ other[1] > 1
               PROVE  meta'.next # Absent /\ meta'.next >= isn + d
    BY DEF NextKnown
  <2>1. other = seg
    <3>1. ASSUME other \in seen PROVE FALSE
      <4>1. other[2] <= c
        BY <1>1, <3>1
      <4> QED
        BY <1>4, <4>1
    <3> QED
      BY <1>2, <3>1
  <2>2. other[1] - 1 = c
    BY <1>3, <1>4, <2>1
  <2>3. Whole(stream, c) = c /\ (conns = 1 \/ c > 0)
    BY <1>3, <1>4, <2>1, <2>2
  <2>4. d > Whole(stream, d) /\ Whole(stream, d) > Whole(stream, c)
    <3>1. Whole(stream, d) \in 0..d
      BY <1>1, <1>4, WholeTyped
    <3>2. c + 1 <= Whole(stream, d)
      BY <1>3, <2>1
    <3> QED
      BY <1>4, <2>3, <3>1, <3>2
  <2>5. meta'.next = next + (d - c) /\ next >= isn + c
    BY <1>8, <1>9, <2>3, <2>4 DEF Completes
  <2>6. next + (d - c) \in Nat /\ next + (d - c) >= isn + d
    BY <1>1, <1>4, <1>9, <2>5
  <2> QED
    BY <2>5, <2>6 DEF Absent
<1>11. OwnNumber(stream, isn, d, meta', conns = 1)
  BY <1>8 DEF OwnNumber, Completes
<1> QED
  BY <1>6, <1>8, <1>10, <1>11 DEF Well

\* A segment seen again.
LEMMA CaptureAgain ==
  ASSUME TypeInv, Forward(flying), NEW seg \in flying, seg \in seen, Capture(seg), trouble' = {},
         Well(stream, isn, Captured, buffer, meta, returned, seen, conns = 1)
  PROVE  Well(stream, isn, Captured', buffer', meta', returned', seen', conns = 1)
<1> DEFINE c == Captured
           x == seg[1]
           y == seg[2]
           r == Whole(stream, c)
<1>1. /\ stream \in Seq(Nat) /\ Len(stream) \in Nat /\ isn \in Nat
      /\ sent \in 0..Len(stream) /\ sent \in Nat
      /\ seg \in (1..sent) \X (1..sent)
      /\ buffer \in Buffers /\ meta \in Metas
      /\ c \in 0..sent /\ c \in 0..Len(stream) /\ y <= c
  BY InvParts
<1>2. /\ NewTrouble(seg) = {} /\ seen' = seen /\ sent' = sent
      /\ ProcessData(SubSeq(stream, x, y), SeqOf(x))
  BY DEF Capture
<1>3. x > r \/ (y = c /\ r < c /\ Whole(stream, x - 1) = x - 1 /\ (conns = 1 \/ x > 1))
  <2>1. ~(/\ x <= ReturnedBytes(c)
          /\ ~(/\ y = c /\ ReturnedBytes(c) < c /\ ReturnedBytes(x - 1) = x - 1 /\ (conns = 1 \/ x > 1)))
    BY <1>2 DEF NewTrouble, Troubles
  <2>2. ReturnedBytes(c) = r /\ ReturnedBytes(x - 1) = Whole(stream, x - 1)
    BY Returning
  <2>3. r \in Nat /\ x \in Nat
    <3>1. r \in 0..c
      BY <1>1, WholeTyped
    <3> QED
      BY <1>1, <3>1
  <2> HIDE DEF r, c, x, y
  <2> QED
    BY <2>1, <2>2, <2>3
<1>4. /\ x \in 1..sent /\ y \in 1..sent /\ x <= y /\ x \in Nat /\ y \in Nat /\ c \in Nat
      /\ x \in 1..c /\ y \in x..c /\ x \in 1..Len(stream) /\ r \in Nat
  <2>1. x \in 1..sent /\ y \in 1..sent /\ x <= y
    BY <1>1 DEF Forward
  <2>2. r \in 0..c
    BY <1>1, WholeTyped
  <2> HIDE DEF c, x, y, r
  <2> QED
    BY <1>1, <2>1, <2>2
<1>5. SeqOf(x) = isn + x
  BY <1>4, NumberOf DEF Well, Fine
<1>6. Captured' = c
  BY <1>2 DEF Captured
<1>7. /\ Fine(stream, isn, c, buffer, meta, returned) /\ NextKnown(stream, isn, c, meta, seen, conns = 1)
      /\ OwnNumber(stream, isn, c, meta, conns = 1)
  BY DEF Well
<1>8. x <= r => meta.next # Absent /\ meta.next >= isn + c
  BY <1>3, <1>4, <1>7 DEF NextKnown
<1> HIDE DEF c, x, y, r
<1>9. r < c
  BY <1>1, <1>3, <1>4
<1>10. x + AlreadyReturned(isn + x) >= r + 1
  <2>1. meta.next # Absent => meta.next \in Nat
    BY <1>1 DEF Metas, Numbers
  <2>2. CASE x > r
    <3>1. AlreadyReturned(isn + x) \in Nat
      BY <1>1, <1>4, <2>1 DEF AlreadyReturned
    <3> QED
      BY <1>4, <2>2, <3>1
  <2>3. CASE ~(x > r)
    <3>1. meta.next # Absent /\ meta.next >= isn + c /\ meta.next \in Nat
      BY <1>4, <1>8, <2>1, <2>3
    <3> DEFINE n == meta.next
    <3>2. isn + x < n /\ n >= isn + c /\ n \in Nat
      BY SMTT(30), <1>1, <1>4, <1>9, <2>3, <3>1
    <3>3. AlreadyReturned(isn + x) = n - (isn + x)
      BY <3>1, <3>2 DEF AlreadyReturned
    <3> HIDE DEF n
    <3>4. x + (n - (isn + x)) >= r + 1
      BY <1>1, <1>4, <1>9, <3>2
    <3> QED
      BY <3>3, <3>4
  <2> QED
    BY <2>2, <2>3
<1>11. buffer' = buffer /\ returned' = returned /\ meta' = Noted(isn + x)
  <2>1. ProcessData(SubSeq(stream, x, y), isn + x)
    BY <1>2, <1>5
  <2>2. r = Whole(stream, c)
    BY DEF r
  <2> QED
    BY <1>1, <1>4, <1>7, <1>9, <1>10, <2>1, <2>2, AgainData
<1>12. Fine(stream, isn, c, buffer, meta', returned)
  <2>1. isn + x <= isn + c + 1
    BY <1>1, <1>4
  <2> QED
    BY <1>1, <1>7, <1>11, <2>1, NotedFine
<1>13. NextKnown(stream, isn, c, meta', seen, conns = 1)
  <2>1. isn + x \in Nat
    BY <1>1, <1>4
  <2>2. meta'.next = meta.next
    BY <1>1, <1>11, <2>1, NotedTyped
  <2> QED
    BY <1>7, <2>2 DEF NextKnown
<1>14. OwnNumber(stream, isn, c, meta', conns = 1)
  <2>1. ~(Whole(stream, c) = c)
    BY <1>4, <1>9 DEF r
  <2> QED
    BY <2>1 DEF OwnNumber
<1> QED
  BY <1>2, <1>6, <1>11, <1>12, <1>13, <1>14 DEF Well

LEMMA CaptureFine == ASSUME Inv, NEW seg \in flying, Capture(seg) PROVE Inv'
<1>1. TypeInv /\ TypeInv'
  BY CaptureTyped DEF Inv
<1>2. /\ flying' = flying \ {seg} /\ seen' = seen \cup {seg} /\ trouble' = trouble \cup NewTrouble(seg)
      /\ UNCHANGED <<stream, isn, conns>>
  BY DEF Capture
<1>3. Forward(flying)' /\ Forward(seen)'
  BY <1>2 DEF Inv, Forward
<1>4. ASSUME trouble' = {}
      PROVE  Well(stream, isn, Captured', buffer', meta', returned', seen', conns = 1)
  <2>1. Well(stream, isn, Captured, buffer, meta, returned, seen, conns = 1)
    BY <1>2, <1>4 DEF Inv, CalmInv
  <2>2. Forward(flying)
    BY DEF Inv
  <2> QED
    BY <1>1, <1>4, <2>1, <2>2, CaptureFresh, CaptureAgain
<1>5. CalmInv'
  BY <1>2, <1>4 DEF CalmInv
<1> QED
  BY <1>1, <1>3, <1>5 DEF Inv

LEMMA ReassemblyStep == Inv /\ [Next]_vars => Inv'
<1> SUFFICES ASSUME Inv, [Next]_vars PROVE Inv'
  OBVIOUS
<1>1. CASE UNCHANGED vars
  BY SMTT(30), <1>1 DEF vars, Inv, TypeInv, TypeOK, BufferLengthAgrees, Forward, CalmInv, Captured
<1>2. ASSUME NEW n \in 1..Len(stream), Transmit(n) PROVE Inv'
  BY <1>2, TransmitFine
<1>3. ASSUME NEW seg \in seen, Retransmit(seg) PROVE Inv'
  BY <1>3, RetransmitFine
<1>4. ASSUME NEW seg \in flying, Capture(seg) PROVE Inv'
  BY <1>4, CaptureFine
<1>5. CASE CaptureEmpty
  BY <1>5, CaptureEmptyFine
<1>6. ASSUME NEW s \in Streams, NEW i \in Isns, Reconnect(s, i) PROVE Inv'
  BY <1>6, ReconnectFine
<1> QED
  BY <1>1, <1>2, <1>3, <1>4, <1>5, <1>6 DEF Next

\* process() and StringBuffer: until one of the troubles has happened, the segments
\* of every connection, cut anywhere and transmitted again any number of times, give
\* the messages of its stream, in order and each once, and the buffer holds the
\* bytes of the message to come.
THEOREM ReassemblyRight == Spec => []Reassembled
<1>1. Init => Inv
  BY InitFine
<1>2. Inv /\ [Next]_vars => Inv'
  BY ReassemblyStep
<1>3. Inv => Reassembled
  BY DEF Inv, CalmInv, Well, Fine, Reassembled, GoodSoFar, Upto
<1> QED
  BY <1>1, <1>2, <1>3, PTL DEF Spec

=============================================================================
