---------------------------- MODULE PacketProofs ----------------------------
(***************************************************************************)
(* Proofs about a packet with a configuration: that it reaches the         *)
(* interpreter as it was pushed (Framing), and what Nagios then runs       *)
(* (Interpreter), for every number of tools, files and descriptors, every  *)
(* size and every capacity of the connection.                              *)
(***************************************************************************)
EXTENDS Framing, Interpreter, FiniteSetTheorems, WellFoundedInduction,
        SequenceTheorems, TLAPS

-----------------------------------------------------------------------------
(* Induction over sets of numbers.                                         *)
LEMMA Least ==
  ASSUME NEW S \in SUBSET Nat, S # {}
  PROVE  \E m \in S : \A k \in S : m <= k
<1> DEFINE T == {0..n : n \in S}
<1>0. \A n \in Nat : IsFiniteSet(0..n)
  BY FS_Interval
<1>1. T \subseteq FiniteSubsetsOf(Nat) /\ T # {}
  <2>1. ASSUME NEW n \in S PROVE 0..n \in FiniteSubsetsOf(Nat)
    BY <1>0 DEF FiniteSubsetsOf
  <2> QED
    BY <2>1
<1>2. PICK x \in T : \A y \in T : ~(<<y, x>> \in StrictSubsetOrdering(Nat))
  <2> HIDE DEF T
  <2> QED
    BY <1>1, FS_StrictSubsetOrderingWellFounded, WFMin
<1>3. PICK m \in S : x = 0..m
  BY <1>2
<1>4. ASSUME NEW k \in S PROVE m <= k
  <2>1. SUFFICES ASSUME k < m PROVE FALSE
    OBVIOUS
  <2>2. <<0..k, 0..m>> \in StrictSubsetOrdering(Nat)
    BY <2>1 DEF StrictSubsetOrdering
  <2> QED
    BY <1>2, <1>3, <2>2
<1> QED
  BY <1>4

LEMMA NatSetInduction ==
  ASSUME NEW S, 0 \in S, \A n \in Nat : n \in S => n + 1 \in S
  PROVE  Nat \subseteq S
<1> DEFINE T == Nat \ S
<1>1. SUFFICES ASSUME T # {} PROVE FALSE
  OBVIOUS
<1>2. PICK m \in T : \A k \in T : m <= k
  BY <1>1, Least
<1>3. m \in Nat /\ m # 0 /\ m - 1 \in Nat
  OBVIOUS
<1>4. m - 1 \in S
  BY <1>2, <1>3
<1> QED
  BY <1>3, <1>4

-----------------------------------------------------------------------------
(* What FlattenSeq does.  It is defined by a recursion over the places of  *)
(* a sequence of sequences; IsFold says that g is such a recursion up to n.*)
IsFold(g, ps, n) ==
  \A i \in 1..n : g[i] = IF i = 1 THEN ps[i] ELSE g[i - 1] \o ps[i]

LEMMA FoldExists ==
  ASSUME NEW S, NEW ps \in Seq(Seq(S))
  PROVE  \A n \in Nat : n <= Len(ps) => \E g \in [1..n -> Seq(S)] : IsFold(g, ps, n)
<1> DEFINE P(n) == n <= Len(ps) => \E g \in [1..n -> Seq(S)] : IsFold(g, ps, n)
           N == {n \in Nat : P(n)}
<1>1. 0 \in N
  <2>1. [i \in 1..0 |-> << >>] \in [1..0 -> Seq(S)]
    OBVIOUS
  <2>2. IsFold([i \in 1..0 |-> << >>], ps, 0)
    BY DEF IsFold
  <2> QED
    BY <2>1, <2>2
<1>2. ASSUME NEW n \in Nat, P(n) PROVE P(n + 1)
  <2> SUFFICES ASSUME n + 1 <= Len(ps)
               PROVE  \E g \in [1..(n + 1) -> Seq(S)] : IsFold(g, ps, n + 1)
    OBVIOUS
  <2>0. Len(ps) \in Nat /\ n + 1 \in 1..Len(ps)
    BY LenProperties
  <2>1. ps[n + 1] \in Seq(S)
    BY <2>0, ElementOfSeq
  <2>2. PICK g \in [1..n -> Seq(S)] : IsFold(g, ps, n)
    BY <1>2, <2>0
  <2> DEFINE x == IF n = 0 THEN ps[1] ELSE g[n] \o ps[n + 1]
             h == [i \in 1..(n + 1) |-> IF i <= n THEN g[i] ELSE x]
  <2>3. x \in Seq(S)
    <3>1. CASE n = 0
      BY <2>1, <3>1
    <3>2. CASE n # 0
      <4>1. g[n] \in Seq(S)
        BY <2>2, <3>2
      <4>2. g[n] \o ps[n + 1] \in Seq(S)
        BY <2>1, <4>1, ConcatProperties
      <4> QED
        BY <3>2, <4>2
    <3> QED
      BY <3>1, <3>2
  <2>4. h \in [1..(n + 1) -> Seq(S)]
    <3> HIDE DEF x
    <3> QED
      BY <2>2, <2>3
  <2>5. ASSUME NEW i \in 1..(n + 1)
        PROVE  h[i] = IF i = 1 THEN ps[i] ELSE h[i - 1] \o ps[i]
    <3>1. CASE i <= n
      <4>1. i \in 1..n /\ h[i] = g[i]
        BY <3>1
      <4>2. i # 1 => h[i - 1] = g[i - 1]
        BY <3>1
      <4> HIDE DEF h
      <4> QED
        BY <2>2, <4>1, <4>2 DEF IsFold
    <3>2. CASE ~(i <= n)
      <4>1. i = n + 1 /\ h[i] = x
        BY <3>2
      <4>2. i # 1 => n # 0 /\ h[i - 1] = g[n]
        BY <4>1
      <4>3. i = 1 => n = 0
        BY <4>1
      <4> HIDE DEF h
      <4> QED
        BY <4>1, <4>2, <4>3
    <3> QED
      BY <3>1, <3>2
  <2> QED
    BY <2>4, <2>5 DEF IsFold
<1>3. Nat \subseteq N
  <2>1. \A n \in Nat : n \in N => n + 1 \in N
    BY <1>2
  <2> HIDE DEF N
  <2> QED
    BY <1>1, <2>1, NatSetInduction
<1> QED
  BY <1>3

LEMMA FlattenIsFold ==
  ASSUME NEW S, NEW ps \in Seq(Seq(S)), Len(ps) # 0,
         NEW g \in [1..Len(ps) -> Seq(S)], IsFold(g, ps, Len(ps))
  PROVE  FlattenSeq(ps) = g[Len(ps)]
<1> DEFINE E(w) == [i \in 1..Len(ps) |->
                      IF i = 1 THEN ps[i] ELSE w[i - 1] \o ps[i]]
<1>0. Len(ps) \in Nat
  BY LenProperties
<1>1. g = E(g)
  BY DEF IsFold
<1> DEFINE w == CHOOSE f : f = E(f)
<1>2. w = E(w)
  <2> HIDE DEF E
  <2> QED
    BY <1>1
<1>3. FlattenSeq(ps) = w[Len(ps)]
  BY <1>0 DEF FlattenSeq
<1> HIDE DEF w
<1>4. \A i \in 1..Len(ps) : w[i] = IF i = 1 THEN ps[i] ELSE w[i - 1] \o ps[i]
  BY <1>2
<1> DEFINE N == {n \in Nat : n \in 1..Len(ps) => w[n] = g[n]}
<1>5. 0 \in N
  OBVIOUS
<1>6. ASSUME NEW n \in Nat, n \in N PROVE n + 1 \in N
  <2> SUFFICES ASSUME n + 1 \in 1..Len(ps) PROVE w[n + 1] = g[n + 1]
    OBVIOUS
  <2>1. g[n + 1] = IF n + 1 = 1 THEN ps[n + 1] ELSE g[(n + 1) - 1] \o ps[n + 1]
    BY DEF IsFold
  <2>2. w[n + 1] = IF n + 1 = 1 THEN ps[n + 1] ELSE w[(n + 1) - 1] \o ps[n + 1]
    BY <1>4
  <2>3. (n + 1) - 1 = n /\ (n + 1 # 1 => n \in 1..Len(ps))
    BY <1>0
  <2>4. n + 1 # 1 => w[n] = g[n]
    BY <1>6, <2>3
  <2> QED
    BY <2>1, <2>2, <2>3, <2>4
<1>7. Nat \subseteq N
  <2> HIDE DEF N
  <2> QED
    BY <1>5, <1>6, NatSetInduction
<1> QED
  BY <1>0, <1>3, <1>7

LEMMA FlattenEmpty == FlattenSeq(<< >>) = << >>
BY DEF FlattenSeq

LEMMA FlattenAppend ==
  ASSUME NEW S, NEW ps \in Seq(Seq(S)), NEW x \in Seq(S)
  PROVE  /\ FlattenSeq(ps) \in Seq(S)
         /\ FlattenSeq(Append(ps, x)) = FlattenSeq(ps) \o x
<1> DEFINE qs == Append(ps, x)
           n == Len(ps)
<1>1. /\ qs \in Seq(Seq(S)) /\ Len(qs) = n + 1 /\ n \in Nat
      /\ \A i \in 1..n : qs[i] = ps[i]
      /\ qs[n + 1] = x
  BY AppendProperties, LenProperties
<1> HIDE DEF qs
<1>2. PICK g \in [1..(n + 1) -> Seq(S)] : IsFold(g, qs, n + 1)
  <2> HIDE DEF n
  <2>1. \A m \in Nat : m <= Len(qs) => \E g \in [1..m -> Seq(S)] : IsFold(g, qs, m)
    BY <1>1, FoldExists
  <2>2. n + 1 \in Nat /\ n + 1 <= Len(qs)
    BY <1>1
  <2> QED
    BY <2>1, <2>2
<1>3. FlattenSeq(qs) = g[n + 1]
  BY <1>1, <1>2, FlattenIsFold
<1>4. CASE n = 0
  <2>1. ps = << >>
    BY <1>4, EmptySeq
  <2>2. FlattenSeq(ps) = << >>
    BY <2>1, FlattenEmpty
  <2>3. g[n + 1] = x
    BY <1>1, <1>2, <1>4 DEF IsFold
  <2>4. << >> \in Seq(S) /\ << >> \o x = x
    BY EmptySeq, ConcatEmptySeq
  <2> QED
    BY <1>3, <2>2, <2>3, <2>4 DEF qs
<1>5. CASE n # 0
  <2> DEFINE h == [i \in 1..n |-> g[i]]
  <2>1. h \in [1..n -> Seq(S)] /\ h[n] = g[n] /\ g[n] \in Seq(S)
    BY <1>1, <1>2, <1>5
  <2>2. IsFold(h, ps, n)
    <3> SUFFICES ASSUME NEW i \in 1..n
                 PROVE  h[i] = IF i = 1 THEN ps[i] ELSE h[i - 1] \o ps[i]
      BY DEF IsFold
    <3>1. i \in 1..(n + 1) /\ h[i] = g[i] /\ qs[i] = ps[i]
      BY <1>1
    <3>2. i # 1 => h[i - 1] = g[i - 1]
      BY <1>1
    <3>3. g[i] = IF i = 1 THEN qs[i] ELSE g[i - 1] \o qs[i]
      BY <1>2, <3>1 DEF IsFold
    <3> HIDE DEF h
    <3> QED
      BY <3>1, <3>2, <3>3
  <2>3. FlattenSeq(ps) = g[n]
    <3> HIDE DEF h
    <3> QED
      BY <1>5, <2>1, <2>2, FlattenIsFold
  <2>4. g[n + 1] = g[n] \o x
    <3>1. n + 1 \in 1..(n + 1) /\ n + 1 # 1 /\ (n + 1) - 1 = n
      BY <1>1, <1>5
    <3>2. g[n + 1] = g[(n + 1) - 1] \o qs[n + 1]
      BY <1>2, <3>1 DEF IsFold
    <3> QED
      BY <1>1, <3>1, <3>2
  <2> QED
    BY <1>3, <2>1, <2>3, <2>4 DEF qs
<1> QED
  BY <1>4, <1>5

LEMMA ThreeParts ==
  ASSUME NEW S, NEW a \in Seq(S), NEW b \in Seq(S), NEW c \in Seq(S),
         NEW d, d = a \o b, NEW e, e = b \o c
  PROVE  d \o c = a \o e
BY ConcatAssociative

LEMMA AppendToConcat ==
  ASSUME NEW S, NEW p \in Seq(S), NEW u \in Seq(S), NEW x \in S
  PROVE  p \o Append(u, x) = Append(p \o u, x)
<1>1. << x >> \in Seq(S)
  OBVIOUS
<1>2. Append(u, x) = u \o << x >> /\ Append(p \o u, x) = (p \o u) \o << x >>
  BY AppendIsConcat, ConcatProperties
<1>3. (p \o u) \o << x >> = p \o (u \o << x >>)
  BY <1>1, ConcatAssociative
<1> QED
  BY <1>2, <1>3

LEMMA FlattenConcatStep ==
  ASSUME NEW S, NEW ps \in Seq(Seq(S)), NEW us \in Seq(Seq(S)), NEW x \in Seq(S),
         FlattenSeq(ps \o us) = FlattenSeq(ps) \o FlattenSeq(us)
  PROVE  FlattenSeq(ps \o Append(us, x)) =
           FlattenSeq(ps) \o FlattenSeq(Append(us, x))
<1>1. ps \o Append(us, x) = Append(ps \o us, x) /\ ps \o us \in Seq(Seq(S))
  BY AppendToConcat, ConcatProperties
<1>2. PICK a \in Seq(S) : a = FlattenSeq(ps)
  BY EmptySeq, FlattenAppend
<1>3. PICK b \in Seq(S) : b = FlattenSeq(us)
  BY EmptySeq, FlattenAppend
<1>4. PICK c : c = FlattenSeq(ps \o us) /\ c = a \o b
  BY <1>2, <1>3
<1>5. PICK d : d = FlattenSeq(Append(us, x)) /\ d = b \o x
  BY <1>3, FlattenAppend
<1>6. c \o x = a \o d
  BY <1>2, <1>3, <1>4, <1>5, ThreeParts, SMTT(40)
<1>7. FlattenSeq(ps \o Append(us, x)) = c \o x
  BY <1>1, <1>4, FlattenAppend
<1> QED
  BY <1>2, <1>5, <1>6, <1>7

LEMMA FlattenConcat ==
  ASSUME NEW S, NEW ps \in Seq(Seq(S)), NEW qs \in Seq(Seq(S))
  PROVE  FlattenSeq(ps \o qs) = FlattenSeq(ps) \o FlattenSeq(qs)
<1> DEFINE P(rs) == FlattenSeq(ps \o rs) = FlattenSeq(ps) \o FlattenSeq(rs)
           N == {n \in Nat : \A rs \in Seq(Seq(S)) : Len(rs) = n => P(rs)}
<1>1. FlattenSeq(ps) \in Seq(S)
  BY EmptySeq, FlattenAppend
<1>2. 0 \in N
  <2> SUFFICES ASSUME NEW rs \in Seq(Seq(S)), Len(rs) = 0 PROVE P(rs)
    OBVIOUS
  <2>1. rs = << >>
    BY EmptySeq
  <2>2. ps \o rs = ps /\ FlattenSeq(rs) = << >>
    BY <2>1, ConcatEmptySeq, FlattenEmpty
  <2> QED
    BY <1>1, <2>2, ConcatEmptySeq
<1>3. ASSUME NEW n \in Nat, n \in N PROVE n + 1 \in N
  <2> SUFFICES ASSUME NEW rs \in Seq(Seq(S)), Len(rs) = n + 1 PROVE P(rs)
    OBVIOUS
  <2>1. rs # << >>
    BY EmptySeq
  <2>2. PICK us \in Seq(Seq(S)), x \in Seq(S) : rs = Append(us, x)
    BY <2>1, SequenceEmptyOrAppend
  <2>3. Len(us) = n
    <3>1. Len(rs) = Len(us) + 1 /\ Len(us) \in Nat
      BY <2>2, AppendProperties, LenProperties
    <3> QED
      BY <3>1
  <2>4. P(us)
    BY <1>3, <2>3
  <2> QED
    BY <2>2, <2>4, FlattenConcatStep
<1>4. Nat \subseteq N
  <2>1. \A n \in Nat : n \in N => n + 1 \in N
    BY <1>3
  <2> HIDE DEF N
  <2> QED
    BY <1>2, <2>1, NatSetInduction
<1>5. Len(qs) \in N
  BY <1>4, LenProperties
<1> QED
  BY <1>5

LEMMA FlattenFirst ==
  ASSUME NEW S, NEW ps \in Seq(Seq(S)), ps # << >>
  PROVE  /\ ps[1] \in Seq(S) /\ FlattenSeq(Tail(ps)) \in Seq(S)
         /\ FlattenSeq(ps) = ps[1] \o FlattenSeq(Tail(ps))
<1>1. Len(ps) \in Nat \ {0} /\ ps[1] \in Seq(S) /\ Tail(ps) \in Seq(Seq(S))
  BY EmptySeq, ElementOfSeq, HeadTailProperties
<1> DEFINE e == <<ps[1]>>
<1>2. e \in Seq(Seq(S)) /\ e = Append(<< >>, ps[1])
  BY <1>1
<1>3. ps = e \o Tail(ps)
  <2>1. SubSeq(ps, 1, Len(ps)) = e \o SubSeq(ps, 2, Len(ps))
    BY <1>1, SubSeqRecursiveFirst
  <2> QED
    BY <1>1, <2>1, SubSeqFull, TailIsSubSeq
<1>4. FlattenSeq(e) = ps[1]
  <2> HIDE DEF e
  <2>1. << >> \in Seq(Seq(S)) /\ << >> \in Seq(S)
    BY EmptySeq
  <2>2. FlattenSeq(e) = FlattenSeq(<< >>) \o ps[1]
    BY <1>1, <1>2, <2>1, FlattenAppend
  <2> QED
    BY <1>1, <2>1, <2>2, FlattenEmpty, ConcatEmptySeq
<1> HIDE DEF e
<1>5. FlattenSeq(e \o Tail(ps)) = FlattenSeq(e) \o FlattenSeq(Tail(ps))
  BY <1>1, <1>2, FlattenConcat
<1>6. FlattenSeq(Tail(ps)) \in Seq(S)
  BY <1>1, FlattenAppend
<1> QED
  BY <1>1, <1>3, <1>4, <1>5, <1>6

-----------------------------------------------------------------------------
(* The packets of some tools as they were pushed, and the tools a part of  *)
(* whose packet has been written to the monitor.                           *)
Packets(o) == [i \in DOMAIN o |-> Pushed(o[i])]
Began(t) == relay[t] = "done" \/ Midway(t)

(* A tool that has yet to push has written nothing.                        *)
NothingPushed == \A t \in Tools : tool[t] = "push" => stream[t] = << >>

(* A packet on its way through the handler of its tool.                    *)
ToolInv(t) ==
  /\ tool[t] = "push" => relay[t] = "header"
  /\ tool[t] = "closed" /\ relay[t] = "header" => stream[t] = Pushed(t)
  /\ relay[t] # "header" => len[t] = PacketLen(t) /\ H <= len[t]
  /\ relay[t] = "payload" =>
       /\ buffer[t] = SubSeq(Pushed(t), 1, H)
       /\ stream[t] = AfterOf(Pushed(t), H)
  /\ relay[t] = "write" =>
       /\ buffer[t] # << >> /\ Len(buffer[t]) <= len[t]
       /\ Len(buffer[t]) = len[t] => buffer[t] = Pushed(t)

Join(s, r) == s \o r

(* What listenPackets has read of a packet that it has not handed over,    *)
(* and what the write() in progress has not yet put on the stream.         *)
HeadRead == IF monitor = "payload" THEN header.bytes ELSE << >>
Unwritten ==
  IF \E t \in Tools : Midway(t) THEN buffer[CHOOSE t \in Tools : Midway(t)]
  ELSE << >>

(* The tools in the order in which their handlers began to write: p those  *)
(* whose packets have been handed over, q those whose have not.            *)
InOrder(p, q) ==
  /\ handed = Packets(p)
  /\ IsInjective(p \o q)
  /\ \A t \in Tools : Began(t) <=> t \in Range(p \o q)
  /\ Join(HeadRead, Join(stream[Monitor], Unwritten)) = FlattenSeq(Packets(q))
  /\ monitor = "payload" =>
       /\ q # << >>
       /\ header = [bytes |-> SubSeq(Pushed(q[1]), 1, H), len |-> PacketLen(q[1])]

OneMidway == \A t, u \in Tools : Midway(t) /\ Midway(u) => t = u

WireOK ==
  /\ controller = "up" /\ monitor # "dead"
  /\ \A t \in Tools : ToolInv(t)
  /\ OneMidway
  /\ \E p, q \in Seq(Tools) : InOrder(p, q)

WireInv == ~short /\ ~split => WireOK

Header == [bytes : Seq(Bytes), len : Nat]
WireType ==
  /\ stream \in [Streams -> Seq(Bytes)]
  /\ here \in [Streams -> Nat]
  /\ \A s \in Streams : here[s] <= Len(stream[s])
  /\ tool \in [Tools -> {"push", "closed"}]
  /\ relay \in [Tools -> {"header", "payload", "write", "done"}]
  /\ len \in [Tools -> 0..(Width - 1)]
  /\ buffer \in [Tools -> Seq(Bytes)]
  /\ controller \in {"up", "dead"}
  /\ monitor \in {"header", "payload", "dead"}
  /\ monitor = "payload" => header \in Header /\ header.len >= H
  /\ handed \in Seq(Seq(Bytes))
  /\ short \in BOOLEAN /\ split \in BOOLEAN

-----------------------------------------------------------------------------
(* Packets and parts of them.                                              *)
LEMMA PushedIs ==
  ASSUME NEW t \in Tools
  PROVE  /\ PacketLen(t) \in 0..(Width - 1)
         /\ Pushed(t) \in Seq(Bytes) /\ Len(Pushed(t)) = PacketLen(t)
         /\ \A i \in 1..PacketLen(t) : Pushed(t)[i] = <<t, i>>
         /\ Fits(t) => Pushed(t) = PacketOf(t)
<1> DEFINE n == Size[t] + H
<1>1. n \in Nat /\ Width \in Nat /\ Width > 0
  BY FramingAssumption
<1>2. n % Width \in 0..(Width - 1) /\ n % Width <= n /\ (n < Width => n % Width = n)
  BY <1>1
<1>3. PacketLen(t) = n % Width
  BY DEF PacketLen
<1>4. PacketOf(t) = [i \in 1..n |-> <<t, i>>]
  BY DEF PacketOf
<1>5. Fits(t) <=> n < Width
  BY DEF Fits
<1> HIDE DEF n
<1>6. \A i \in 1..n : PacketOf(t)[i] = <<t, i>> /\ PacketOf(t)[i] \in Bytes
  BY <1>1, <1>4 DEF Bytes
<1>7. PacketOf(t) \in Seq(Bytes) /\ Len(PacketOf(t)) = n
  BY <1>1, <1>4, <1>6
<1>8. \A i \in 1..PacketLen(t) : i \in 1..n
  BY <1>1, <1>2, <1>3
<1>9. /\ Pushed(t) \in Seq(Bytes) /\ Len(Pushed(t)) = PacketLen(t)
      /\ \A i \in 1..PacketLen(t) : Pushed(t)[i] = PacketOf(t)[i]
  <2>1. /\ 1 \in Int /\ PacketLen(t) \in Nat /\ PacketLen(t) - 1 + 1 = PacketLen(t)
        /\ \A i \in 1..PacketLen(t) : 1 + i - 1 = i /\ PacketOf(t)[i] \in Bytes
        /\ 1 <= PacketLen(t) \/ PacketLen(t) = 0
    BY <1>2, <1>3, <1>6, <1>8
  <2> DEFINE s == SubSeq(PacketOf(t), 1, PacketLen(t))
  <2>2. /\ s \in Seq(Bytes)
        /\ Len(s) = IF 1 <= PacketLen(t) THEN PacketLen(t) - 1 + 1 ELSE 0
        /\ \A i \in 1..PacketLen(t) - 1 + 1 : s[i] = PacketOf(t)[1 + i - 1]
    BY <2>1, SubSeqProperties
  <2>3. Pushed(t) = s
    BY DEF Pushed
  <2> HIDE DEF s
  <2> QED
    BY <2>1, <2>2, <2>3
<1>10. Fits(t) => Pushed(t) = PacketOf(t)
  BY <1>2, <1>3, <1>5, <1>7, SubSeqFull DEF Pushed
<1> QED
  BY <1>2, <1>3, <1>6, <1>8, <1>9, <1>10

(* The header of a packet says how long the packet is.                     *)
LEMMA HeadIs ==
  ASSUME NEW t \in Tools, H <= PacketLen(t)
  PROVE  LET h == SubSeq(Pushed(t), 1, H) IN
         /\ h \in Seq(Bytes) /\ Len(h) = H /\ IsHeader(h)
         /\ LenField(h) = {PacketLen(t)}
<1> DEFINE h == SubSeq(Pushed(t), 1, H)
<1>1. H \in Nat /\ H >= 2 /\ PacketLen(t) \in Nat
  BY FramingAssumption, PushedIs
<1>2. \A i \in 1..H : Pushed(t)[i] = <<t, i>> /\ Pushed(t)[i] \in Bytes
  BY <1>1, PushedIs DEF Bytes
<1>3. h \in Seq(Bytes) /\ Len(h) = H /\ \A i \in 1..H : h[i] = <<t, i>>
  <2>1. /\ 1 \in Int /\ H \in Int /\ H - 1 + 1 = H /\ 1 <= H
        /\ \A i \in 1..H : 1 + i - 1 = i
    BY <1>1
  <2>2. /\ h \in Seq(Bytes)
        /\ Len(h) = IF 1 <= H THEN H - 1 + 1 ELSE 0
        /\ \A i \in 1..H - 1 + 1 : h[i] = Pushed(t)[1 + i - 1]
    BY <1>2, <2>1, SubSeqProperties
  <2> HIDE DEF h
  <2> QED
    BY <1>2, <2>1, <2>2
<1> HIDE DEF h
<1>4. h[1] = <<t, 1>> /\ h[2] = <<t, 2>>
  BY <1>1, <1>3
<1>5. IsHeader(h)
  BY <1>3, <1>4 DEF IsHeader
<1>6. LenField(h) = {PacketLen(t)}
  BY <1>4 DEF LenField
<1> QED
  BY <1>3, <1>5, <1>6 DEF h

(* A length field is a number below Width, whatever the header is.         *)
LEMMA LenFieldType ==
  ASSUME NEW h \in Seq(Bytes), Len(h) = H
  PROVE  LenField(h) \subseteq 0..(Width - 1)
<1>1. h[2] \in Bytes
  <2>1. 2 \in 1..Len(h)
    BY FramingAssumption
  <2> QED
    BY <2>1, ElementOfSeq
<1>2. CASE h[2] \in Tools \X Nat
  <2>1. h[2][1] \in Tools
    BY <1>2
  <2> QED
    BY <2>1, PushedIs DEF LenField
<1>3. CASE h[2] = Junk
  <2>1. h[2][2] # 2
    BY <1>3 DEF Junk
  <2> QED
    BY <2>1 DEF LenField
<1> QED
  BY <1>1, <1>2, <1>3 DEF Bytes

(* Sequences cut in two.                                                   *)
LEMMA CutSeq ==
  ASSUME NEW S, NEW s \in Seq(S), NEW m \in 0..Len(s)
  PROVE  /\ SubSeq(s, 1, m) \in Seq(S) /\ Len(SubSeq(s, 1, m)) = m
         /\ AfterOf(s, m) \in Seq(S) /\ Len(AfterOf(s, m)) = Len(s) - m
         /\ SubSeq(s, 1, m) \o AfterOf(s, m) = s
<1>1. Len(s) \in Nat /\ \A i \in 1..Len(s) : s[i] \in S
  BY LenProperties, ElementOfSeq
<1>2. SubSeq(s, 1, m) \in Seq(S) /\ Len(SubSeq(s, 1, m)) = m
  BY <1>1, SubSeqProperties
<1>3. AfterOf(s, m) \in Seq(S) /\ Len(AfterOf(s, m)) = Len(s) - m
  BY <1>1, SubSeqProperties DEF AfterOf
<1>4. SubSeq(s, 1, m) \o SubSeq(s, m + 1, Len(s)) = SubSeq(s, 1, Len(s))
  <2>1. 1 \in 1..Len(s) + 1 /\ m \in (1 - 1)..Len(s) /\ Len(s) \in m..Len(s)
    BY <1>1
  <2> QED
    BY <2>1, ConcatAdjacentSubSeq
<1> QED
  BY <1>2, <1>3, <1>4, SubSeqFull DEF AfterOf

LEMMA SameParts ==
  ASSUME NEW S, NEW a \in Seq(S), NEW b \in Seq(S), NEW c \in Seq(S), NEW d \in Seq(S),
         a \o b = c \o d, Len(a) = Len(c)
  PROVE  a = c /\ b = d
<1>1. \A i \in 1..Len(a) : a[i] = (a \o b)[i] /\ c[i] = (c \o d)[i]
  BY ConcatProperties, LenProperties
<1>2. a = c
  BY <1>1, SeqEqual
<1> QED
  BY <1>2, ConcatSimplifications

LEMMA PaddedType ==
  ASSUME NEW s \in Seq(Bytes), NEW n \in Nat
  PROVE  /\ Padded(s, n) \in Seq(Bytes) /\ Len(Padded(s, n)) = n
         /\ Len(s) = n => Padded(s, n) = s
<1>1. \A i \in 1..n : (IF i <= Len(s) THEN s[i] ELSE Junk) \in Bytes
  BY LenProperties, ElementOfSeq DEF Bytes
<1>2. Padded(s, n) \in Seq(Bytes) /\ Len(Padded(s, n)) = n
  BY <1>1 DEF Padded
<1>3. Len(s) = n => \A i \in 1..n : Padded(s, n)[i] = s[i]
  BY DEF Padded
<1> QED
  BY <1>2, <1>3, SeqEqual

-----------------------------------------------------------------------------
(* Types.                                                                  *)
LEMMA ReadType ==
  ASSUME WireType, NEW s \in Streams, NEW n \in Nat
  PROVE  /\ Read(s, n) \in Seq(Bytes) /\ Len(Read(s, n)) = LeastOf(n, here[s])
         /\ Len(Read(s, n)) \in 0..here[s] /\ Len(Read(s, n)) <= n
         /\ AfterOf(stream[s], Len(Read(s, n))) \in Seq(Bytes)
         /\ Len(AfterOf(stream[s], Len(Read(s, n)))) = Len(stream[s]) - Len(Read(s, n))
         /\ Read(s, n) \o AfterOf(stream[s], Len(Read(s, n))) = stream[s]
<1> DEFINE m == LeastOf(n, here[s])
<1>1. stream[s] \in Seq(Bytes) /\ here[s] \in Nat /\ here[s] <= Len(stream[s])
  BY DEF WireType
<1>2. m \in 0..Len(stream[s]) /\ m \in 0..here[s] /\ m <= n
  BY <1>1, LenProperties DEF LeastOf
<1>3. Read(s, n) = SubSeq(stream[s], 1, m)
  BY DEF Read
<1> HIDE DEF m
<1>4. Len(Read(s, n)) = m /\ Read(s, n) \in Seq(Bytes)
  BY <1>1, <1>2, <1>3, CutSeq
<1>5. /\ AfterOf(stream[s], m) \in Seq(Bytes)
      /\ Len(AfterOf(stream[s], m)) = Len(stream[s]) - m
      /\ SubSeq(stream[s], 1, m) \o AfterOf(stream[s], m) = stream[s]
  BY <1>1, <1>2, CutSeq
<1> QED
  BY <1>2, <1>3, <1>4, <1>5 DEF m

LEMMA ConsumeType ==
  ASSUME WireType, NEW s \in Streams, NEW n \in Nat, Consume(s, n)
  PROVE  /\ stream' \in [Streams -> Seq(Bytes)]
         /\ here' \in [Streams -> Nat]
         /\ \A r \in Streams : here'[r] <= Len(stream'[r])
         /\ stream'[s] = AfterOf(stream[s], Len(Read(s, n)))
         /\ \A r \in Streams \ {s} : stream'[r] = stream[r]
<1> DEFINE m == Len(Read(s, n))
           rest == AfterOf(stream[s], m)
<1>1. /\ m \in 0..here[s] /\ rest \in Seq(Bytes)
      /\ Len(rest) = Len(stream[s]) - m
  BY ReadType
<1>2. stream' = [stream EXCEPT ![s] = rest] /\ here' = [here EXCEPT ![s] = @ - m]
  BY DEF Consume
<1> HIDE DEF m, rest
<1>3. /\ stream \in [Streams -> Seq(Bytes)] /\ here \in [Streams -> Nat]
      /\ \A r \in Streams : here[r] <= Len(stream[r])
  BY DEF WireType
<1>4. here[s] - m \in Nat /\ here[s] - m <= Len(rest)
  <2>1. Len(stream[s]) \in Nat
    BY <1>3, LenProperties
  <2> QED
    BY <1>1, <1>3, <2>1
<1>5. \A r \in Streams : here'[r] <= Len(stream'[r])
  BY <1>2, <1>3, <1>4
<1> QED
  BY <1>1, <1>2, <1>3, <1>4, <1>5 DEF m, rest

LEMMA StreamNames == Tools \subseteq Streams /\ Monitor \in Streams \ Tools
BY FramingAssumption DEF Streams

LEMMA WireTypeInit == Init => WireType
<1> SUFFICES ASSUME Init PROVE WireType
  OBVIOUS
<1>1. << >> \in Seq(Bytes) /\ Len(<< >>) = 0 /\ << >> \in Seq(Seq(Bytes))
  BY EmptySeq
<1>2. 0 \in 0..(Width - 1) /\ 0 \in Nat
  BY FramingAssumption
<1>3. stream \in [Streams -> Seq(Bytes)] /\ here \in [Streams -> Nat]
  BY <1>1, <1>2 DEF Init
<1>4. \A s \in Streams : here[s] <= Len(stream[s])
  BY <1>1 DEF Init
<1>5. len \in [Tools -> 0..(Width - 1)] /\ buffer \in [Tools -> Seq(Bytes)]
  BY <1>1, <1>2 DEF Init
<1>6. handed \in Seq(Seq(Bytes))
  BY <1>1 DEF Init
<1> QED
  BY <1>3, <1>4, <1>5, <1>6 DEF Init, WireType

LEMMA ReadShortType ==
  ASSUME WireType, NEW s, NEW n, ReadShort(s, n)
  PROVE  short' \in BOOLEAN /\ (~short' => ~short /\ ~(Len(Read(s, n)) < n))
BY DEF ReadShort, WireType

LEMMA WireTypeRelay ==
  ASSUME WireType, NEW t \in Tools, WrpNorth(t)
  PROVE  WireType'
<1>0. t \in Streams /\ Monitor \in Streams /\ H \in Nat /\ Width \in Nat
  BY StreamNames, FramingAssumption
<1>1. CASE RelayHeader(t)
  <2> DEFINE h == Padded(Read(t, H), H)
  <2>1. h \in Seq(Bytes) /\ Len(h) = H
    BY <1>0, ReadType, PaddedType
  <2>2. /\ Consume(t, H) /\ ReadShort(t, H)
        /\ buffer' = [buffer EXCEPT ![t] = h]
        /\ \E n \in LenField(h) : len' = [len EXCEPT ![t] = n]
        /\ relay' = [relay EXCEPT ![t] = "payload"]
        /\ UNCHANGED <<tool, controller, monitorVars, split>>
    BY <1>1 DEF RelayHeader
  <2> HIDE DEF h
  <2>3. len' \in [Tools -> 0..(Width - 1)]
    <3>1. LenField(h) \subseteq 0..(Width - 1)
      BY <2>1, LenFieldType
    <3> QED
      BY <2>2, <3>1 DEF WireType
  <2>4. /\ stream' \in [Streams -> Seq(Bytes)]
        /\ here' \in [Streams -> Nat]
        /\ \A r \in Streams : here'[r] <= Len(stream'[r])
    BY <1>0, <2>2, ConsumeType
  <2>5. short' \in BOOLEAN
    BY <2>2, ReadShortType
  <2> QED
    BY <2>1, <2>2, <2>3, <2>4, <2>5 DEF WireType, Header, monitorVars
<1>2. CASE RelayPayload(t)
  <2> DEFINE n == len[t] - H
             b == Padded(buffer[t] \o Read(t, n), len[t])
  <2>1. /\ n \in Nat /\ len[t] \in Nat /\ buffer[t] \in Seq(Bytes)
        /\ Consume(t, n) /\ ReadShort(t, n)
        /\ buffer' = [buffer EXCEPT ![t] = b]
        /\ relay' = [relay EXCEPT ![t] = "write"]
        /\ UNCHANGED <<tool, len, controller, monitorVars, split>>
    BY <1>0, <1>2 DEF RelayPayload, WireType
  <2>2. b \in Seq(Bytes)
    <3> HIDE DEF n
    <3>1. Read(t, n) \in Seq(Bytes)
      BY <1>0, <2>1, ReadType
    <3>2. buffer[t] \o Read(t, n) \in Seq(Bytes)
      BY <2>1, <3>1, ConcatProperties
    <3> QED
      BY <2>1, <3>2, PaddedType
  <2> HIDE DEF n, b
  <2>3. /\ stream' \in [Streams -> Seq(Bytes)]
        /\ here' \in [Streams -> Nat]
        /\ \A r \in Streams : here'[r] <= Len(stream'[r])
    BY <1>0, <2>1, ConsumeType
  <2>4. short' \in BOOLEAN
    BY <2>1, ReadShortType
  <2> QED
    BY <2>1, <2>2, <2>3, <2>4 DEF WireType, Header, monitorVars
<1>3. CASE RelayOverrun(t)
  <2>0. /\ short' = TRUE /\ UNCHANGED <<tool, len, monitorVars, split>>
        /\ len[t] \in Nat /\ buffer[t] \in Seq(Bytes) /\ here[t] \in Nat
    BY <1>0, <1>3 DEF RelayOverrun, WireType
  <2>1. CASE controller' = "dead" /\ UNCHANGED <<relay, buffer, wireVars>>
    BY <2>0, <2>1 DEF WireType, Header, monitorVars, wireVars
  <2>2. CASE /\ Ready(t, H)
             /\ Consume(t, here[t])
             /\ buffer' = [buffer EXCEPT ![t] = FirstOf(@, len[t])]
             /\ relay' = [relay EXCEPT ![t] = "write"]
             /\ UNCHANGED controller
    <3>1. FirstOf(buffer[t], len[t]) \in Seq(Bytes)
      <4>1. LeastOf(len[t], Len(buffer[t])) \in 0..Len(buffer[t])
        BY <2>0, LenProperties DEF LeastOf
      <4> QED
        BY <2>0, <4>1, CutSeq DEF FirstOf
    <3>2. /\ stream' \in [Streams -> Seq(Bytes)]
          /\ here' \in [Streams -> Nat]
          /\ \A r \in Streams : here'[r] <= Len(stream'[r])
      BY <1>0, <2>0, <2>2, ConsumeType
    <3> QED
      BY <2>0, <2>2, <3>1, <3>2 DEF WireType, Header, monitorVars
  <2> QED
    BY <1>3, <2>1, <2>2 DEF RelayOverrun
<1>4. CASE RelayWrite(t)
  <2> DEFINE room == SndBuf - Len(stream[Monitor])
             rest == AfterOf(buffer[t], room)
             out == FirstOf(buffer[t], room)
  <2>1. /\ room > 0 /\ room \in Int
        /\ stream' = [stream EXCEPT ![Monitor] = @ \o out]
        /\ buffer' = [buffer EXCEPT ![t] = rest]
        /\ relay' = [relay EXCEPT ![t] = IF rest = << >> THEN "done" ELSE @]
        /\ split' = (split \/ \E u \in Tools \ {t} : Midway(u))
        /\ UNCHANGED <<here, tool, len, controller, monitorVars, short>>
        /\ buffer[t] \in Seq(Bytes) /\ stream[Monitor] \in Seq(Bytes)
    <3>1. buffer[t] \in Seq(Bytes) /\ stream[Monitor] \in Seq(Bytes)
      BY <1>0 DEF WireType
    <3>2. room \in Int
      BY <3>1, LenProperties, FramingAssumption
    <3> QED
      BY <1>4, <3>1, <3>2 DEF RelayWrite
  <2>2. out \in Seq(Bytes) /\ rest \in Seq(Bytes)
    <3> HIDE DEF room
    <3>1. LeastOf(room, Len(buffer[t])) \in 0..Len(buffer[t])
      BY <2>1, LenProperties DEF LeastOf
    <3>2. out \in Seq(Bytes)
      BY <2>1, <3>1, CutSeq DEF FirstOf
    <3>3. rest \in Seq(Bytes)
      <4>1. \A i \in (room + 1)..Len(buffer[t]) : buffer[t][i] \in Bytes
        BY <2>1, LenProperties, ElementOfSeq
      <4>2. room + 1 \in Int /\ Len(buffer[t]) \in Int
        BY <2>1, LenProperties
      <4> QED
        BY <4>1, <4>2, SubSeqProperties DEF AfterOf
    <3> QED
      BY <3>2, <3>3
  <2> HIDE DEF room, rest, out
  <2>3. /\ stream[Monitor] \o out \in Seq(Bytes)
        /\ Len(stream[Monitor]) <= Len(stream[Monitor] \o out)
    <3>1. Len(out) \in Nat /\ Len(stream[Monitor]) \in Nat
      BY <2>1, <2>2, LenProperties
    <3> QED
      BY <2>1, <2>2, <3>1, ConcatProperties
  <2>4. /\ stream' \in [Streams -> Seq(Bytes)]
        /\ here' \in [Streams -> Nat]
    BY <1>0, <2>1, <2>3 DEF WireType
  <2>5. \A r \in Streams : here'[r] <= Len(stream'[r])
    <3> SUFFICES ASSUME NEW r \in Streams PROVE here[r] <= Len(stream'[r])
      BY <2>1
    <3>1. CASE r = Monitor
      <4>1. stream'[r] = stream[Monitor] \o out
        BY <1>0, <2>1, <3>1 DEF WireType
      <4>2. here[r] \in Nat /\ here[r] <= Len(stream[r]) /\ Len(stream[r]) \in Nat
        BY <2>1, <3>1, LenProperties DEF WireType
      <4>3. Len(stream[Monitor] \o out) \in Nat
        BY <2>3, LenProperties
      <4> QED
        BY <2>3, <3>1, <4>1, <4>2, <4>3
    <3>2. CASE r # Monitor
      BY <2>1, <3>2 DEF WireType
    <3> QED
      BY <3>1, <3>2
  <2>6. relay' \in [Tools -> {"header", "payload", "write", "done"}]
    BY <2>1 DEF WireType
  <2>7. split' \in BOOLEAN
    BY <2>1
  <2>8. buffer' \in [Tools -> Seq(Bytes)]
    BY <2>1, <2>2 DEF WireType
  <2> QED
    BY <2>1, <2>4, <2>5, <2>6, <2>7, <2>8 DEF WireType, Header, monitorVars
<1> QED
  BY <1>1, <1>2, <1>3, <1>4 DEF WrpNorth

LEMMA WireTypeListen ==
  ASSUME WireType, ListenPackets
  PROVE  WireType'
<1>0. Monitor \in Streams /\ H \in Nat /\ Width \in Nat
  BY StreamNames, FramingAssumption
<1>1. CASE ListenCorrupted
  <2>1. Consume(Monitor, H) /\ ReadShort(Monitor, H)
    BY <1>1 DEF ListenCorrupted
  <2>2. /\ stream' \in [Streams -> Seq(Bytes)]
        /\ here' \in [Streams -> Nat]
        /\ \A r \in Streams : here'[r] <= Len(stream'[r])
    BY <1>0, <2>1, ConsumeType
  <2>3. short' \in BOOLEAN
    BY <2>1, ReadShortType
  <2> QED
    BY <1>1, <2>2, <2>3 DEF ListenCorrupted, WireType, Header, relayVars, monitorVars
<1>2. CASE ListenHeader
  <2> DEFINE h == Read(Monitor, H)
  <2>1. /\ Consume(Monitor, H) /\ IsHeader(h)
        /\ \E n \in LenField(h) : /\ monitor' = IF n < H THEN "dead" ELSE "payload"
                                  /\ header' = [bytes |-> h, len |-> n]
        /\ UNCHANGED <<tool, relayVars, handed, short, split>>
    BY <1>2 DEF ListenHeader
  <2>2. h \in Seq(Bytes) /\ Len(h) = H
    BY <1>0, <2>1, ReadType DEF IsHeader
  <2> HIDE DEF h
  <2>3. LenField(h) \subseteq Nat
    <3>1. LenField(h) \subseteq 0..(Width - 1)
      BY <2>2, LenFieldType
    <3> QED
      BY <1>0, <3>1
  <2>4. /\ stream' \in [Streams -> Seq(Bytes)]
        /\ here' \in [Streams -> Nat]
        /\ \A r \in Streams : here'[r] <= Len(stream'[r])
    BY <1>0, <2>1, ConsumeType
  <2>5. PICK n \in LenField(h) : /\ monitor' = IF n < H THEN "dead" ELSE "payload"
                                 /\ header' = [bytes |-> h, len |-> n]
    BY <2>1
  <2>6. /\ monitor' \in {"header", "payload", "dead"}
        /\ monitor' = "payload" => header' \in Header /\ header'.len >= H
    BY <1>0, <2>2, <2>3, <2>5 DEF Header
  <2> QED
    BY <2>1, <2>4, <2>6 DEF WireType, Header, relayVars
<1>3. CASE ListenPayload
  <2> DEFINE n == header.len - H
             b == Padded(header.bytes \o Read(Monitor, n), header.len)
  <2>1. /\ n \in Nat /\ header.len \in Nat /\ header.bytes \in Seq(Bytes)
        /\ Consume(Monitor, n) /\ ReadShort(Monitor, n)
        /\ handed' = Append(handed, b) /\ monitor' = "header"
        /\ UNCHANGED <<tool, relayVars, header, split>>
    BY <1>0, <1>3 DEF ListenPayload, WireType, Header
  <2>2. b \in Seq(Bytes)
    <3> HIDE DEF n
    <3>1. Read(Monitor, n) \in Seq(Bytes)
      BY <1>0, <2>1, ReadType
    <3>2. header.bytes \o Read(Monitor, n) \in Seq(Bytes)
      BY <2>1, <3>1, ConcatProperties
    <3> QED
      BY <2>1, <3>2, PaddedType
  <2> HIDE DEF n, b
  <2>3. /\ stream' \in [Streams -> Seq(Bytes)]
        /\ here' \in [Streams -> Nat]
        /\ \A r \in Streams : here'[r] <= Len(stream'[r])
    BY <1>0, <2>1, ConsumeType
  <2>4. short' \in BOOLEAN
    BY <2>1, ReadShortType
  <2>5. handed' \in Seq(Seq(Bytes))
    BY <2>1, <2>2, AppendProperties DEF WireType
  <2> QED
    BY <2>1, <2>3, <2>4, <2>5 DEF WireType, Header, relayVars
<1> QED
  BY <1>1, <1>2, <1>3 DEF ListenPackets

LEMMA WireTypeStep ==
  ASSUME WireType, NothingPushed, [Next]_vars
  PROVE  WireType'
<1>1. ASSUME NEW s \in Streams, Arrive(s) PROVE WireType'
  <2>1. PICK n \in (here[s] + 1)..Len(stream[s]) : here' = [here EXCEPT ![s] = n]
    BY <1>1 DEF Arrive
  <2>2. n \in Nat /\ n <= Len(stream[s])
    BY LenProperties DEF WireType
  <2> QED
    BY <1>1, <2>1, <2>2 DEF Arrive, WireType, Header, relayVars, monitorVars
<1>2. ASSUME NEW t \in Tools, Push(t) PROVE WireType'
  <2>1. Pushed(t) \in Seq(Bytes) /\ t \in Streams
    BY PushedIs, StreamNames
  <2>2. \A r \in Streams : here[r] <= Len(stream'[r])
    <3> SUFFICES ASSUME NEW r \in Streams PROVE here[r] <= Len(stream'[r])
      OBVIOUS
    <3>1. here[r] \in Nat /\ here[r] <= Len(stream[r])
      BY DEF WireType
    <3>2. CASE r = t
      <4>1. here[r] = 0
        BY <1>2, <3>1, <3>2, EmptySeq DEF Push, NothingPushed
      <4>2. Len(Pushed(t)) \in Nat
        BY <2>1, LenProperties
      <4>3. stream'[r] = Pushed(t)
        BY <1>2, <2>1, <3>2 DEF Push, WireType
      <4> QED
        BY <4>1, <4>2, <4>3
    <3>3. CASE r # t
      BY <1>2, <3>1, <3>3 DEF Push, WireType
    <3> QED
      BY <3>2, <3>3
  <2> QED
    BY <1>2, <2>1, <2>2 DEF Push, WireType, Header, relayVars, monitorVars
<1>3. CASE UNCHANGED vars
  BY <1>3 DEF vars, wireVars, relayVars, monitorVars, WireType, Header
<1> QED
  BY <1>1, <1>2, <1>3, WireTypeRelay, WireTypeListen DEF Next

LEMMA NothingPushedStep ==
  ASSUME WireType, NothingPushed, [Next]_vars
  PROVE  NothingPushed'
<1> SUFFICES ASSUME NEW t \in Tools, tool'[t] = "push" PROVE stream'[t] = << >>
  BY DEF NothingPushed
<1>0. t \in Streams /\ t # Monitor
  BY StreamNames
<1>1. ASSUME tool[t] = "push", stream'[t] = stream[t] PROVE stream'[t] = << >>
  BY <1>1 DEF NothingPushed
<1>2. ASSUME NEW s \in Streams, NEW n \in Nat, Consume(s, n), UNCHANGED tool
      PROVE  stream'[t] = << >>
  <2>1. stream[t] = << >> /\ here[t] \in Nat /\ here[t] <= Len(stream[t])
    BY <1>0, <1>2 DEF NothingPushed, WireType
  <2>2. CASE s = t
    <3>1. Len(Read(t, n)) \in 0..here[t]
      BY <1>0, <1>2, ReadType
    <3>2. here[t] = 0
      BY <2>1, EmptySeq
    <3>3. stream'[t] = AfterOf(stream[t], Len(Read(t, n)))
      BY <1>2, <2>2, ConsumeType
    <3>4. Len(stream'[t]) = 0 /\ stream'[t] \in Seq(Bytes)
      BY <1>0, <1>2, <2>1, <3>1, <3>2, <3>3, ReadType, EmptySeq
    <3> QED
      BY <3>4, EmptySeq
  <2>3. CASE s # t
    BY <1>0, <1>2, <2>1, <2>3, ConsumeType
  <2> QED
    BY <2>2, <2>3
<1>3. ASSUME NEW u \in Tools, WrpNorth(u) PROVE stream'[t] = << >>
  <2>0. u \in Streams /\ H \in Nat /\ len[u] \in Nat /\ here[u] \in Nat
    BY StreamNames, FramingAssumption DEF WireType
  <2>1. CASE RelayHeader(u)
    BY <1>2, <2>0, <2>1 DEF RelayHeader
  <2>2. CASE RelayPayload(u)
    <3>1. len[u] - H \in Nat
      BY <2>0, <2>2 DEF RelayPayload
    <3> QED
      BY <1>2, <2>0, <2>2, <3>1 DEF RelayPayload
  <2>3. CASE RelayOverrun(u)
    BY <1>1, <1>2, <2>0, <2>3 DEF RelayOverrun, wireVars
  <2>4. CASE RelayWrite(u)
    BY <1>0, <1>1, <2>4 DEF RelayWrite, WireType
  <2> QED
    BY <1>3, <2>1, <2>2, <2>3, <2>4 DEF WrpNorth
<1>4. CASE ListenPackets
  <2>0. Monitor \in Streams /\ H \in Nat
    BY StreamNames, FramingAssumption
  <2>1. CASE ListenCorrupted
    BY <1>2, <2>0, <2>1 DEF ListenCorrupted
  <2>2. CASE ListenHeader
    BY <1>2, <2>0, <2>2 DEF ListenHeader
  <2>3. CASE ListenPayload
    <3>1. header.len - H \in Nat
      BY <2>0, <2>3 DEF ListenPayload, WireType, Header
    <3> QED
      BY <1>2, <2>0, <2>3, <3>1 DEF ListenPayload
  <2> QED
    BY <1>4, <2>1, <2>2, <2>3 DEF ListenPackets
<1>5. ASSUME NEW s \in Streams, Arrive(s) PROVE stream'[t] = << >>
  BY <1>1, <1>5 DEF Arrive
<1>6. ASSUME NEW u \in Tools, Push(u) PROVE stream'[t] = << >>
  BY <1>0, <1>1, <1>6 DEF Push, WireType
<1>7. CASE UNCHANGED vars
  BY <1>1, <1>7 DEF vars, wireVars
<1> QED
  BY <1>3, <1>4, <1>5, <1>6, <1>7 DEF Next

-----------------------------------------------------------------------------
(* The packets of a list of tools.                                         *)
LEMMA PacketsType ==
  ASSUME NEW o \in Seq(Tools)
  PROVE  /\ Packets(o) \in Seq(Seq(Bytes)) /\ Len(Packets(o)) = Len(o)
         /\ \A i \in 1..Len(o) : Packets(o)[i] = Pushed(o[i])
<1>1. Len(o) \in Nat /\ DOMAIN o = 1..Len(o) /\ \A i \in 1..Len(o) : o[i] \in Tools
  BY LenProperties, ElementOfSeq
<1>2. \A i \in 1..Len(o) : Pushed(o[i]) \in Seq(Bytes)
  BY <1>1, PushedIs
<1>3. Packets(o) = [i \in 1..Len(o) |-> Pushed(o[i])]
  BY <1>1 DEF Packets
<1> QED
  BY <1>1, <1>2, <1>3

LEMMA PacketsAppend ==
  ASSUME NEW o \in Seq(Tools), NEW t \in Tools
  PROVE  Packets(Append(o, t)) = Append(Packets(o), Pushed(t))
<1>1. /\ Append(o, t) \in Seq(Tools) /\ Len(Append(o, t)) = Len(o) + 1
      /\ \A i \in 1..Len(o) : Append(o, t)[i] = o[i]
      /\ Append(o, t)[Len(o) + 1] = t /\ Len(o) \in Nat
  BY AppendProperties, LenProperties
<1>2. Pushed(t) \in Seq(Bytes)
  BY PushedIs
<1> DEFINE a == Packets(Append(o, t))
           b == Append(Packets(o), Pushed(t))
<1>3. /\ a \in Seq(Seq(Bytes)) /\ Len(a) = Len(o) + 1
      /\ \A i \in 1..(Len(o) + 1) : a[i] = Pushed(Append(o, t)[i])
  BY <1>1, PacketsType
<1>4. /\ b \in Seq(Seq(Bytes)) /\ Len(b) = Len(o) + 1
      /\ \A i \in 1..Len(o) : b[i] = Packets(o)[i]
      /\ b[Len(o) + 1] = Pushed(t)
  BY <1>2, PacketsType, AppendProperties
<1>5. \A i \in 1..(Len(o) + 1) : a[i] = b[i]
  <2> SUFFICES ASSUME NEW i \in 1..(Len(o) + 1) PROVE a[i] = b[i]
    OBVIOUS
  <2>1. a[i] = Pushed(Append(o, t)[i])
    BY <1>3
  <2> HIDE DEF a, b
  <2>2. CASE i = Len(o) + 1
    BY <1>1, <1>4, <2>1, <2>2
  <2>3. CASE i # Len(o) + 1
    <3>1. i \in 1..Len(o)
      BY <1>1, <2>3
    <3> QED
      BY <1>1, <1>4, <2>1, <3>1, PacketsType
  <2> QED
    BY <2>2, <2>3
<1> HIDE DEF a, b
<1>6. a = b
  BY <1>1, <1>3, <1>4, <1>5, SeqEqual
<1> QED
  BY <1>6 DEF a, b

LEMMA PacketsTail ==
  ASSUME NEW o \in Seq(Tools), o # << >>
  PROVE  /\ o[1] \in Tools /\ Tail(o) \in Seq(Tools) /\ Packets(o) # << >>
         /\ Packets(o)[1] = Pushed(o[1]) /\ Packets(Tail(o)) = Tail(Packets(o))
<1>1. /\ Len(o) \in Nat \ {0} /\ o[1] \in Tools
      /\ Tail(o) \in Seq(Tools) /\ Len(Tail(o)) = Len(o) - 1
      /\ \A i \in 1..(Len(o) - 1) : Tail(o)[i] = o[i + 1]
  BY EmptySeq, ElementOfSeq, HeadTailProperties
<1>2. /\ Packets(o) \in Seq(Seq(Bytes)) /\ Len(Packets(o)) = Len(o)
      /\ \A i \in 1..Len(o) : Packets(o)[i] = Pushed(o[i])
  BY PacketsType
<1>3. Packets(o) # << >> /\ Packets(o)[1] = Pushed(o[1])
  BY <1>1, <1>2, EmptySeq
<1>4. /\ Tail(Packets(o)) \in Seq(Seq(Bytes)) /\ Len(Tail(Packets(o))) = Len(o) - 1
      /\ \A i \in 1..(Len(o) - 1) : Tail(Packets(o))[i] = Packets(o)[i + 1]
  BY <1>2, <1>3, HeadTailProperties
<1>5. /\ Packets(Tail(o)) \in Seq(Seq(Bytes)) /\ Len(Packets(Tail(o))) = Len(o) - 1
      /\ \A i \in 1..(Len(o) - 1) : Packets(Tail(o))[i] = Pushed(Tail(o)[i])
  BY <1>1, PacketsType
<1>6. \A i \in 1..(Len(o) - 1) : Packets(Tail(o))[i] = Tail(Packets(o))[i]
  <2> SUFFICES ASSUME NEW i \in 1..(Len(o) - 1)
               PROVE  Packets(Tail(o))[i] = Tail(Packets(o))[i]
    OBVIOUS
  <2>1. i + 1 \in 1..Len(o)
    BY <1>1
  <2>2. Packets(o)[i + 1] = Pushed(o[i + 1])
    BY <1>2, <2>1
  <2> QED
    BY <1>1, <1>4, <1>5, <2>2
<1>7. Packets(Tail(o)) = Tail(Packets(o))
  BY <1>4, <1>5, <1>6, SeqEqual
<1> QED
  BY <1>1, <1>3, <1>7

LEMMA PacketsConcat ==
  ASSUME NEW p \in Seq(Tools), NEW q \in Seq(Tools)
  PROVE  Packets(p \o q) = Packets(p) \o Packets(q)
<1> DEFINE a == Packets(p \o q)
           b == Packets(p) \o Packets(q)
<1>1. /\ p \o q \in Seq(Tools) /\ Len(p \o q) = Len(p) + Len(q)
      /\ \A i \in 1..Len(p) + Len(q) :
            (p \o q)[i] = IF i <= Len(p) THEN p[i] ELSE q[i - Len(p)]
      /\ Len(p) \in Nat /\ Len(q) \in Nat
  BY ConcatProperties, LenProperties
<1>2. /\ a \in Seq(Seq(Bytes)) /\ Len(a) = Len(p) + Len(q)
      /\ \A i \in 1..Len(p) + Len(q) : a[i] = Pushed((p \o q)[i])
  BY <1>1, PacketsType
<1>3. /\ Packets(p) \in Seq(Seq(Bytes)) /\ Len(Packets(p)) = Len(p)
      /\ \A i \in 1..Len(p) : Packets(p)[i] = Pushed(p[i])
      /\ Packets(q) \in Seq(Seq(Bytes)) /\ Len(Packets(q)) = Len(q)
      /\ \A i \in 1..Len(q) : Packets(q)[i] = Pushed(q[i])
  BY PacketsType
<1>4. /\ b \in Seq(Seq(Bytes)) /\ Len(b) = Len(p) + Len(q)
      /\ \A i \in 1..Len(p) + Len(q) :
            b[i] = IF i <= Len(p) THEN Packets(p)[i] ELSE Packets(q)[i - Len(p)]
  <2> DEFINE T == Seq(Bytes)
             c == Packets(p)
             d == Packets(q)
  <2>1. c \in Seq(T) /\ d \in Seq(T) /\ Len(c) = Len(p) /\ Len(d) = Len(q)
    BY <1>3
  <2> HIDE DEF T, c, d
  <2>2. /\ c \o d \in Seq(T) /\ Len(c \o d) = Len(c) + Len(d)
        /\ \A i \in 1..Len(c) + Len(d) :
              (c \o d)[i] = IF i <= Len(c) THEN c[i] ELSE d[i - Len(c)]
    BY <2>1, ConcatProperties
  <2> QED
    BY <2>1, <2>2 DEF T, c, d
<1>5. \A i \in 1..Len(p) + Len(q) : a[i] = b[i]
  <2> SUFFICES ASSUME NEW i \in 1..Len(p) + Len(q) PROVE a[i] = b[i]
    OBVIOUS
  <2> HIDE DEF a, b
  <2>1. CASE i <= Len(p)
    <3>1. i \in 1..Len(p)
      BY <1>1, <2>1
    <3> QED
      BY <1>1, <1>2, <1>3, <1>4, <2>1, <3>1
  <2>2. CASE ~(i <= Len(p))
    <3>1. i - Len(p) \in 1..Len(q)
      BY <1>1, <2>2
    <3> QED
      BY <1>1, <1>2, <1>3, <1>4, <2>2, <3>1
  <2> QED
    BY <2>1, <2>2
<1> HIDE DEF a, b
<1>6. a = b
  BY <1>2, <1>4, <1>5, SeqEqual
<1> QED
  BY <1>6 DEF a, b

LEMMA Pending ==
  ASSUME NEW q \in Seq(Tools)
  PROVE  /\ FlattenSeq(Packets(q)) \in Seq(Bytes)
         /\ q = << >> => FlattenSeq(Packets(q)) = << >>
         /\ q # << >> => FlattenSeq(Packets(q)) =
                           Join(Pushed(q[1]), FlattenSeq(Packets(Tail(q))))
         /\ \A t \in Tools : FlattenSeq(Packets(Append(q, t))) =
                               Join(FlattenSeq(Packets(q)), Pushed(t))
<1>1. Packets(q) \in Seq(Seq(Bytes)) /\ << >> \in Seq(Bytes)
  BY PacketsType, EmptySeq
<1>2. FlattenSeq(Packets(q)) \in Seq(Bytes)
  BY <1>1, FlattenAppend
<1>3. ASSUME q = << >> PROVE FlattenSeq(Packets(q)) = << >>
  <2>1. Len(Packets(q)) = 0
    BY <1>3, PacketsType, EmptySeq
  <2>2. Packets(q) = << >>
    BY <1>1, <2>1, EmptySeq
  <2> QED
    BY <2>2, FlattenEmpty
<1>4. ASSUME q # << >>
      PROVE  FlattenSeq(Packets(q)) = Join(Pushed(q[1]), FlattenSeq(Packets(Tail(q))))
  BY <1>1, <1>4, PacketsTail, FlattenFirst DEF Join
<1>5. ASSUME NEW t \in Tools
      PROVE  FlattenSeq(Packets(Append(q, t))) = Join(FlattenSeq(Packets(q)), Pushed(t))
  BY <1>1, PacketsAppend, PushedIs, FlattenAppend DEF Join
<1> QED
  BY <1>2, <1>3, <1>4, <1>5

(* The first of q moves to the end of p, or a tool is added behind both.   *)
LEMMA MoveFirst ==
  ASSUME NEW S, NEW p \in Seq(S), NEW q \in Seq(S), q # << >>
  PROVE  Append(p, q[1]) \o Tail(q) = p \o q
<1>1. Len(q) \in Nat \ {0} /\ q[1] \in S /\ Tail(q) \in Seq(S)
  BY EmptySeq, ElementOfSeq, HeadTailProperties
<1>2. q = << q[1] >> \o Tail(q)
  <2>1. SubSeq(q, 1, Len(q)) = << q[1] >> \o SubSeq(q, 2, Len(q))
    BY <1>1, SubSeqRecursiveFirst
  <2> QED
    BY <2>1, SubSeqFull, TailIsSubSeq
<1>3. << q[1] >> \in Seq(S) /\ Append(p, q[1]) = p \o << q[1] >>
  BY <1>1, AppendIsConcat
<1>4. (p \o << q[1] >>) \o Tail(q) = p \o (<< q[1] >> \o Tail(q))
  BY <1>1, <1>3, ConcatAssociative
<1> QED
  BY <1>2, <1>3, <1>4

LEMMA AddedBehind ==
  ASSUME NEW p \in Seq(Tools), NEW q \in Seq(Tools), NEW t \in Tools,
         IsInjective(p \o q), t \notin Range(p \o q)
  PROVE  /\ IsInjective(p \o Append(q, t))
         /\ Range(p \o Append(q, t)) = Range(p \o q) \cup {t}
<1> DEFINE o == p \o q
           n == Len(o)
<1>1. o \in Seq(Tools)
  BY ConcatProperties
<1>2. p \o Append(q, t) = Append(o, t)
  BY AppendToConcat
<1> HIDE DEF o
<1>3. /\ Append(o, t) \in Seq(Tools) /\ Len(Append(o, t)) = n + 1 /\ n \in Nat
      /\ \A i \in 1..n : Append(o, t)[i] = o[i]
      /\ Append(o, t)[n + 1] = t
  BY <1>1, AppendProperties, LenProperties
<1>4. DOMAIN Append(o, t) = 1..(n + 1) /\ DOMAIN o = 1..n
  BY <1>1, <1>3, LenProperties
<1>5. \A i \in 1..(n + 1) : i \in 1..n \/ i = n + 1
  BY <1>3
<1>6. \A i \in 1..n : o[i] # t
  BY <1>4 DEF Range, o
<1>7. \A i, j \in 1..n : o[i] = o[j] => i = j
  BY <1>4 DEF IsInjective, o
<1>8. ASSUME NEW i \in 1..(n + 1), NEW j \in 1..(n + 1),
             Append(o, t)[i] = Append(o, t)[j]
      PROVE  i = j
  BY <1>3, <1>5, <1>6, <1>7, <1>8
<1>9. IsInjective(Append(o, t))
  BY <1>4, <1>8 DEF IsInjective
<1>10. Range(Append(o, t)) = Range(o) \cup {t}
  <2> HIDE DEF n
  <2>1. ASSUME NEW x \in Range(Append(o, t)) PROVE x \in Range(o) \cup {t}
    BY <1>3, <1>4, <1>5, <2>1 DEF Range
  <2>2. ASSUME NEW x \in Range(o) PROVE x \in Range(Append(o, t))
    <3>1. PICK i \in 1..n : x = o[i]
      BY <1>4 DEF Range
    <3>2. i \in 1..(n + 1)
      BY <1>3
    <3> QED
      BY <1>3, <1>4, <3>1, <3>2 DEF Range
  <2>3. t \in Range(Append(o, t))
    <3>1. n + 1 \in 1..(n + 1)
      BY <1>3
    <3> QED
      BY <1>3, <1>4, <3>1 DEF Range
  <2> QED
    BY <2>1, <2>2, <2>3
<1> QED
  BY <1>2, <1>9, <1>10 DEF o

(* The bytes of the packet at the end of a stream, cut in different ways.  *)
LEMMA JoinIs ==
  /\ \A x, y \in Seq(Bytes) : Join(x, y) \in Seq(Bytes) /\ Len(Join(x, y)) = Len(x) + Len(y)
  /\ \A x, y, z \in Seq(Bytes) : Join(Join(x, y), z) = Join(x, Join(y, z))
  /\ \A x \in Seq(Bytes) : Join(x, << >>) = x /\ Join(<< >>, x) = x
  /\ \A x \in Seq(Bytes) : Len(x) \in Nat
  /\ << >> \in Seq(Bytes)
<1>1. \A x, y \in Seq(Bytes) : Join(x, y) \in Seq(Bytes) /\ Len(Join(x, y)) = Len(x) + Len(y)
  BY ConcatProperties DEF Join
<1>2. \A x, y, z \in Seq(Bytes) : Join(Join(x, y), z) = Join(x, Join(y, z))
  BY ConcatAssociative DEF Join
<1>3. \A x \in Seq(Bytes) : Join(x, << >>) = x /\ Join(<< >>, x) = x
  BY ConcatEmptySeq DEF Join
<1>4. \A x \in Seq(Bytes) : Len(x) \in Nat
  BY LenProperties
<1>5. << >> \in Seq(Bytes)
  BY EmptySeq
<1> QED
  BY <1>1, <1>2, <1>3, <1>4, <1>5

LEMMA JoinCut ==
  \A x \in Seq(Bytes) : \A m \in 0..Len(x) :
    /\ SubSeq(x, 1, m) \in Seq(Bytes) /\ Len(SubSeq(x, 1, m)) = m
    /\ AfterOf(x, m) \in Seq(Bytes) /\ Len(AfterOf(x, m)) = Len(x) - m
    /\ Join(SubSeq(x, 1, m), AfterOf(x, m)) = x
BY CutSeq DEF Join

LEMMA JoinSame ==
  \A a, b, c, d \in Seq(Bytes) :
    Join(a, b) = Join(c, d) /\ Len(a) = Len(c) => a = c /\ b = d
BY SameParts DEF Join

(* A stream s out of which r has been read behind the bytes b, leaving a,  *)
(* when all of it begins with x.                                           *)
LEMMA CutFirst ==
  ASSUME NEW b \in Seq(Bytes), NEW r \in Seq(Bytes), NEW a \in Seq(Bytes),
         NEW u \in Seq(Bytes), NEW x \in Seq(Bytes), NEW f \in Seq(Bytes),
         Join(b, Join(Join(r, a), u)) = Join(x, f), Len(b) + Len(r) <= Len(x)
  PROVE  /\ Join(b, r) = SubSeq(x, 1, Len(b) + Len(r))
         /\ Join(a, u) = Join(AfterOf(x, Len(b) + Len(r)), f)
<1> DEFINE m == Len(b) + Len(r)
           y == SubSeq(x, 1, m)
           z == AfterOf(x, m)
<1>1. m \in 0..Len(x)
  BY JoinIs
<1>2. y \in Seq(Bytes) /\ Len(y) = m /\ z \in Seq(Bytes) /\ Join(y, z) = x
  BY <1>1, JoinCut
<1> HIDE DEF y, z
<1>3. /\ Join(b, r) \in Seq(Bytes) /\ Len(Join(b, r)) = Len(y)
      /\ Join(a, u) \in Seq(Bytes) /\ Join(z, f) \in Seq(Bytes)
  BY <1>2, JoinIs
<1>4. Join(Join(b, r), Join(a, u)) = Join(x, f)
  <2>1. Join(Join(b, r), Join(a, u)) = Join(b, Join(r, Join(a, u)))
    BY <1>3, JoinIs
  <2>2. Join(r, Join(a, u)) = Join(Join(r, a), u)
    BY JoinIs
  <2> QED
    BY <2>1, <2>2
<1>5. Join(x, f) = Join(y, Join(z, f))
  BY <1>2, JoinIs
<1>6. Join(b, r) = y /\ Join(a, u) = Join(z, f)
  BY <1>2, <1>3, <1>4, <1>5, JoinSame
<1> QED
  BY <1>6 DEF y, z

-----------------------------------------------------------------------------
(* What a write() in progress has yet to write.                            *)
LEMMA UnwrittenIs ==
  ASSUME OneMidway, NEW t \in Tools, Midway(t)
  PROVE  Unwritten = buffer[t]
BY DEF OneMidway, Unwritten

LEMMA UnwrittenNone ==
  ASSUME \A t \in Tools : ~Midway(t)
  PROVE  Unwritten = << >>
BY DEF Unwritten

LEMMA UnwrittenType ==
  ASSUME WireType
  PROVE  Unwritten \in Seq(Bytes)
<1>1. CASE \E t \in Tools : Midway(t)
  BY <1>1 DEF Unwritten, WireType
<1>2. CASE ~\E t \in Tools : Midway(t)
  BY <1>2, EmptySeq DEF Unwritten
<1> QED
  BY <1>1, <1>2

LEMMA UnwrittenNext ==
  ASSUME OneMidway', NEW t \in Tools, Midway(t)'
  PROVE  Unwritten' = buffer'[t]
BY DEF OneMidway, Unwritten

LEMMA UnwrittenNoneNext ==
  ASSUME \A t \in Tools : ~Midway(t)'
  PROVE  Unwritten' = << >>
BY DEF Unwritten

(* A handler that has begun to write has the packet of its tool.           *)
LEMMA BegunLength ==
  ASSUME WireType, NEW t \in Tools, ToolInv(t), Began(t)
  PROVE  H <= PacketLen(t)
BY DEF Began, Midway, ToolInv

-----------------------------------------------------------------------------
(* Steps that write nothing to the monitor and read nothing from there.    *)
LEMMA OrderKept ==
  ASSUME OneMidway,
         UNCHANGED monitorVars, stream'[Monitor] = stream[Monitor],
         \A u \in Tools : Midway(u)' <=> Midway(u),
         \A u \in Tools : Midway(u) => buffer'[u] = buffer[u],
         \A u \in Tools : Began(u)' <=> Began(u),
         \E p, q \in Seq(Tools) : InOrder(p, q)
  PROVE  OneMidway' /\ \E p, q \in Seq(Tools) : InOrder(p, q)'
<1>1. OneMidway'
  BY DEF OneMidway
<1>2. Unwritten' = Unwritten
  <2>1. CASE \E t \in Tools : Midway(t)
    <3>1. PICK t \in Tools : Midway(t)
      BY <2>1
    <3>2. Unwritten = buffer[t] /\ Unwritten' = buffer'[t]
      BY <1>1, <3>1, UnwrittenIs, UnwrittenNext
    <3> QED
      BY <3>1, <3>2
  <2>2. CASE ~\E t \in Tools : Midway(t)
    BY <2>2, UnwrittenNone, UnwrittenNoneNext
  <2> QED
    BY <2>1, <2>2
<1>3. HeadRead' = HeadRead
  BY DEF HeadRead, monitorVars
<1>4. PICK p \in Seq(Tools), q \in Seq(Tools) : InOrder(p, q)
  OBVIOUS
<1>5. Packets(p)' = Packets(p) /\ Packets(q)' = Packets(q)
  BY DEF Packets, Pushed, PacketOf, PacketLen
<1>6. InOrder(p, q)'
  BY <1>2, <1>3, <1>4, <1>5 DEF InOrder, monitorVars, Pushed, PacketOf, PacketLen
<1> QED
  BY <1>1, <1>6

LEMMA ToolKept ==
  ASSUME NEW u \in Tools, ToolInv(u), tool'[u] = tool[u], relay'[u] = relay[u],
         stream'[u] = stream[u], len'[u] = len[u], buffer'[u] = buffer[u]
  PROVE  ToolInv(u)'
BY DEF ToolInv, Pushed, PacketOf, PacketLen, AfterOf

LEMMA MidwayKept ==
  ASSUME NEW u \in Tools, relay'[u] = relay[u], len'[u] = len[u],
         buffer'[u] = buffer[u]
  PROVE  (Midway(u)' <=> Midway(u)) /\ (Began(u)' <=> Began(u))
BY DEF Midway, Began

LEMMA WirePush ==
  ASSUME WireType, NothingPushed, WireOK, NEW t \in Tools, Push(t)
  PROVE  WireOK'
<1>0. t \in Streams /\ t # Monitor /\ Monitor \in Streams
  BY StreamNames
<1>1. /\ tool[t] = "push" /\ tool' = [tool EXCEPT ![t] = "closed"]
      /\ stream' = [stream EXCEPT ![t] = Pushed(t)]
      /\ UNCHANGED <<here, relayVars, monitorVars, short, split>>
  BY DEF Push
<1>2. \A u \in Tools : relay'[u] = relay[u] /\ len'[u] = len[u] /\ buffer'[u] = buffer[u]
  BY <1>1 DEF relayVars
<1>3. OneMidway' /\ \E p, q \in Seq(Tools) : InOrder(p, q)'
  <2>1. stream'[Monitor] = stream[Monitor]
    BY <1>0, <1>1 DEF WireType
  <2> QED
    BY <1>1, <1>2, <2>1, MidwayKept, OrderKept DEF WireOK
<1>4. ASSUME NEW u \in Tools PROVE ToolInv(u)'
  <2>1. CASE u = t
    <3>1. relay'[u] = "header" /\ tool'[u] = "closed"
      BY <1>1, <1>2, <2>1 DEF WireOK, ToolInv, WireType
    <3>2. stream'[u] = Pushed(u)
      BY <1>0, <1>1, <2>1 DEF WireType
    <3> QED
      BY <3>1, <3>2 DEF ToolInv, Pushed, PacketOf, PacketLen
  <2>2. CASE u # t
    <3>1. tool'[u] = tool[u] /\ stream'[u] = stream[u]
      BY <1>0, <1>1, <2>2, StreamNames DEF WireType
    <3> QED
      BY <1>2, <3>1, ToolKept DEF WireOK
  <2> QED
    BY <2>1, <2>2
<1> QED
  BY <1>1, <1>3, <1>4 DEF WireOK, relayVars, monitorVars

LEMMA WireRelayHeader ==
  ASSUME WireType, NothingPushed, WireOK, NEW t \in Tools, RelayHeader(t), ~short'
  PROVE  WireOK'
<1>0. t \in Streams /\ t # Monitor /\ Monitor \in Streams /\ H \in Nat /\ H >= 2
  BY StreamNames, FramingAssumption
<1> DEFINE r == Read(t, H)
           h == Padded(r, H)
<1>1. /\ relay[t] = "header" /\ Ready(t, H) /\ Consume(t, H) /\ ReadShort(t, H)
      /\ buffer' = [buffer EXCEPT ![t] = h]
      /\ \E n \in LenField(h) : len' = [len EXCEPT ![t] = n]
      /\ relay' = [relay EXCEPT ![t] = "payload"]
      /\ UNCHANGED <<tool, controller, monitorVars, split>>
  BY DEF RelayHeader
<1>2. tool[t] = "closed" /\ stream[t] = Pushed(t)
  <2>1. tool[t] # "push"
    <3>1. SUFFICES ASSUME tool[t] = "push" PROVE FALSE
      OBVIOUS
    <3>2. here[t] = 0
      <4>1. here[t] \in Nat /\ here[t] <= Len(stream[t]) /\ stream[t] = << >>
        BY <1>0, <3>1 DEF WireType, NothingPushed
      <4> QED
        BY <4>1, EmptySeq
    <3> QED
      BY <1>0, <1>1, <3>1, <3>2 DEF Ready
  <2> QED
    BY <1>1, <2>1 DEF WireOK, ToolInv, WireType
<1>3. /\ r \in Seq(Bytes) /\ Len(r) = H /\ h = r
      /\ H <= PacketLen(t) /\ LeastOf(H, here[t]) = H
  <2>1. /\ r \in Seq(Bytes) /\ Len(r) \in 0..here[t] /\ Len(r) <= H
        /\ Len(r) = LeastOf(H, here[t])
    BY <1>0, ReadType
  <2>2. ~(Len(r) < H)
    BY <1>1, ReadShortType
  <2>3. here[t] \in Nat /\ here[t] <= PacketLen(t) /\ PacketLen(t) \in Nat
    BY <1>0, <1>2, PushedIs, FramingAssumption DEF WireType
  <2>4. Len(r) = H /\ H <= PacketLen(t)
    BY <1>0, <2>1, <2>2, <2>3
  <2> QED
    BY <1>0, <2>1, <2>4, PaddedType
<1>4. r = SubSeq(Pushed(t), 1, H) /\ stream'[t] = AfterOf(Pushed(t), H)
  <2>1. stream'[t] = AfterOf(stream[t], Len(r))
    BY <1>0, <1>1, ConsumeType
  <2> QED
    BY <1>2, <1>3, <2>1 DEF Read
<1>5. len' = [len EXCEPT ![t] = PacketLen(t)]
  <2>1. LenField(h) = {PacketLen(t)}
    BY <1>3, <1>4, HeadIs
  <2> QED
    BY <1>1, <2>1
<1> HIDE DEF r, h
<1>6. \A u \in Tools \ {t} :
        /\ relay'[u] = relay[u] /\ len'[u] = len[u] /\ buffer'[u] = buffer[u]
        /\ tool'[u] = tool[u] /\ stream'[u] = stream[u]
  <2>1. \A s \in Streams \ {t} : stream'[s] = stream[s]
    BY <1>0, <1>1, ConsumeType
  <2> QED
    BY <1>1, <1>5, <2>1, StreamNames DEF WireType
<1>7. relay'[t] = "payload" /\ len'[t] = PacketLen(t) /\ buffer'[t] = h
  BY <1>1, <1>5 DEF WireType
<1>8. ASSUME NEW u \in Tools PROVE ToolInv(u)'
  <2>1. CASE u = t
    BY <1>1, <1>2, <1>3, <1>4, <1>7, <2>1
       DEF ToolInv, Pushed, PacketOf, PacketLen, AfterOf
  <2>2. CASE u # t
    BY <1>6, <2>2, ToolKept DEF WireOK
  <2> QED
    BY <2>1, <2>2
<1>9. OneMidway' /\ \E p, q \in Seq(Tools) : InOrder(p, q)'
  <2>1. stream'[Monitor] = stream[Monitor]
    BY <1>0, <1>1, ConsumeType
  <2>2. ~Midway(t) /\ ~Midway(t)' /\ ~Began(t) /\ ~Began(t)'
    BY <1>1, <1>7 DEF Midway, Began
  <2>3. /\ \A u \in Tools : Midway(u)' <=> Midway(u)
        /\ \A u \in Tools : Midway(u) => buffer'[u] = buffer[u]
        /\ \A u \in Tools : Began(u)' <=> Began(u)
    BY <1>6, <2>2, MidwayKept
  <2>4. UNCHANGED monitorVars
    BY <1>1
  <2> QED
    BY <2>1, <2>3, <2>4, OrderKept DEF WireOK
<1> QED
  BY <1>1, <1>8, <1>9 DEF WireOK, monitorVars

LEMMA WireRelayPayload ==
  ASSUME WireType, NothingPushed, WireOK, NEW t \in Tools, RelayPayload(t), ~short'
  PROVE  WireOK'
<1>0. t \in Streams /\ t # Monitor /\ Monitor \in Streams /\ H \in Nat /\ H >= 2
  BY StreamNames, FramingAssumption
<1> DEFINE n == len[t] - H
           r == Read(t, n)
           b == Padded(buffer[t] \o r, len[t])
<1>1. /\ relay[t] = "payload" /\ n \in Nat /\ len[t] \in Nat
      /\ Consume(t, n) /\ ReadShort(t, n)
      /\ buffer' = [buffer EXCEPT ![t] = b]
      /\ relay' = [relay EXCEPT ![t] = "write"]
      /\ UNCHANGED <<tool, len, controller, monitorVars, split>>
  BY <1>0 DEF RelayPayload, WireType
<1>2. /\ len[t] = PacketLen(t) /\ H <= len[t]
      /\ buffer[t] = SubSeq(Pushed(t), 1, H) /\ stream[t] = AfterOf(Pushed(t), H)
  BY <1>1 DEF WireOK, ToolInv
<1>3. /\ Pushed(t) \in Seq(Bytes) /\ Len(Pushed(t)) = len[t]
      /\ H \in 0..Len(Pushed(t))
  BY <1>0, <1>1, <1>2, PushedIs
<1>4. /\ stream[t] \in Seq(Bytes) /\ Len(stream[t]) = n
      /\ buffer[t] \o stream[t] = Pushed(t)
  BY <1>2, <1>3, CutSeq
<1>5. r = stream[t]
  <2> HIDE DEF n
  <2>1. Len(r) \in 0..here[t] /\ Len(r) <= n /\ Len(r) = LeastOf(n, here[t])
    BY <1>0, <1>1, ReadType
  <2>2. ~(Len(r) < n)
    BY <1>1, ReadShortType
  <2>3. Len(r) = n
    BY <1>1, <2>1, <2>2
  <2>4. r = SubSeq(stream[t], 1, Len(stream[t]))
    BY <1>4, <2>1, <2>3 DEF Read
  <2> QED
    BY <1>4, <2>4, SubSeqFull
<1>6. b = Pushed(t)
  BY <1>1, <1>3, <1>4, <1>5, PaddedType
<1>7. \A s \in Streams \ {t} : stream'[s] = stream[s]
  <2> HIDE DEF n
  <2> QED
    BY <1>0, <1>1, ConsumeType
<1> HIDE DEF n, r, b
<1>8. \A u \in Tools \ {t} :
        /\ relay'[u] = relay[u] /\ len'[u] = len[u] /\ buffer'[u] = buffer[u]
        /\ tool'[u] = tool[u] /\ stream'[u] = stream[u]
  BY <1>1, <1>7, StreamNames DEF WireType
<1>9. /\ relay'[t] = "write" /\ len'[t] = PacketLen(t) /\ H <= len'[t]
      /\ buffer'[t] = Pushed(t)
      /\ tool'[t] = tool[t] /\ tool[t] # "push"
  BY <1>1, <1>2, <1>6 DEF WireType, WireOK, ToolInv
<1>10. ASSUME NEW u \in Tools PROVE ToolInv(u)'
  <2>1. CASE u = t
    <3>1. Len(Pushed(t)) = len'[t] /\ len'[t] \in Nat /\ Pushed(t) # << >>
      BY <1>0, <1>1, <1>2, <1>3, EmptySeq
    <3> QED
      BY <1>9, <2>1, <3>1 DEF ToolInv, Pushed, PacketOf, PacketLen
  <2>2. CASE u # t
    BY <1>8, <2>2, ToolKept DEF WireOK
  <2> QED
    BY <2>1, <2>2
<1>11. OneMidway' /\ \E p, q \in Seq(Tools) : InOrder(p, q)'
  <2>1. stream'[Monitor] = stream[Monitor]
    BY <1>0, <1>7
  <2>2. ~Midway(t) /\ ~Midway(t)' /\ ~Began(t) /\ ~Began(t)'
    <3>1. ~(Len(buffer'[t]) < len'[t])
      BY <1>1, <1>3, <1>9
    <3> QED
      BY <1>1, <1>9, <3>1 DEF Midway, Began
  <2>3. /\ \A u \in Tools : Midway(u)' <=> Midway(u)
        /\ \A u \in Tools : Midway(u) => buffer'[u] = buffer[u]
        /\ \A u \in Tools : Began(u)' <=> Began(u)
    BY <1>8, <2>2, MidwayKept
  <2>4. UNCHANGED monitorVars
    BY <1>1
  <2> QED
    BY <2>1, <2>3, <2>4, OrderKept DEF WireOK
<1> QED
  BY <1>1, <1>10, <1>11 DEF WireOK, monitorVars

-----------------------------------------------------------------------------
(* A write() to the monitor: of a handler that goes on, or of one that     *)
(* begins when no other has begun without having ended.                    *)
LEMMA WireRelayWrite ==
  ASSUME WireType, WireOK, NEW t \in Tools, RelayWrite(t), ~split'
  PROVE  WireOK'
<1>0. t \in Streams /\ t # Monitor /\ Monitor \in Streams
  BY StreamNames
<1> DEFINE room == SndBuf - Len(stream[Monitor])
           out == FirstOf(buffer[t], room)
           rest == AfterOf(buffer[t], room)
           w == buffer[t]
           s == stream[Monitor]
<1>1. /\ relay[t] = "write" /\ room > 0 /\ room \in Int
      /\ stream' = [stream EXCEPT ![Monitor] = Join(s, out)]
      /\ buffer' = [buffer EXCEPT ![t] = rest]
      /\ relay' = [relay EXCEPT ![t] = IF rest = << >> THEN "done" ELSE @]
      /\ \A u \in Tools \ {t} : ~Midway(u)
      /\ UNCHANGED <<here, tool, len, controller, monitorVars, short>>
  <2>1. room \in Int
    <3>1. stream[Monitor] \in Seq(Bytes)
      BY <1>0 DEF WireType
    <3>2. Len(stream[Monitor]) \in Nat
      BY <3>1, LenProperties
    <3> QED
      BY <3>2, FramingAssumption
  <2> QED
    BY <2>1 DEF RelayWrite, Join
<1>2. /\ w \in Seq(Bytes) /\ s \in Seq(Bytes) /\ w # << >> /\ Len(w) \in Nat \ {0}
      /\ len[t] \in Nat /\ len[t] = PacketLen(t) /\ H <= len[t] /\ Len(w) <= len[t]
      /\ Len(w) = len[t] => w = Pushed(t)
      /\ tool[t] # "push"
  <2>1. w \in Seq(Bytes) /\ s \in Seq(Bytes) /\ len[t] \in Nat
    BY <1>0, FramingAssumption DEF WireType
  <2>2. ToolInv(t)
    BY DEF WireOK
  <2>3. w # << >>
    BY <1>1, <2>2 DEF ToolInv
  <2> QED
    BY <1>1, <2>1, <2>2, <2>3, EmptySeq DEF ToolInv
<1>3. /\ out \in Seq(Bytes) /\ rest \in Seq(Bytes) /\ Join(out, rest) = w
      /\ Len(rest) < Len(w)
  <2> HIDE DEF room
  <2> DEFINE m == LeastOf(room, Len(w))
  <2>1. m \in 0..Len(w) /\ m >= 1
    BY <1>1, <1>2 DEF LeastOf
  <2>2. out = SubSeq(w, 1, m)
    BY DEF FirstOf
  <2>3. rest = AfterOf(w, m)
    <3>1. CASE room <= Len(w)
      BY <3>1 DEF LeastOf
    <3>2. CASE ~(room <= Len(w))
      <4>1. m = Len(w)
        BY <3>2 DEF LeastOf
      <4>2. Len(w) < room + 1 /\ Len(w) < Len(w) + 1 /\ room + 1 \in Int
            /\ Len(w) + 1 \in Int /\ Len(w) \in Int
        BY <1>1, <1>2, <3>2
      <4>3. SubSeq(w, room + 1, Len(w)) = << >> /\ SubSeq(w, Len(w) + 1, Len(w)) = << >>
        BY <4>2, SubSeqEmpty
      <4> QED
        BY <4>1, <4>3 DEF AfterOf
    <3> QED
      BY <3>1, <3>2
  <2> HIDE DEF m
  <2>4. /\ SubSeq(w, 1, m) \in Seq(Bytes) /\ AfterOf(w, m) \in Seq(Bytes)
        /\ Len(AfterOf(w, m)) = Len(w) - m /\ Join(SubSeq(w, 1, m), AfterOf(w, m)) = w
    BY <1>2, <2>1, JoinCut
  <2> QED
    BY <1>2, <2>1, <2>2, <2>3, <2>4
<1> HIDE DEF room, out, rest, w, s
<1>4. \A u \in Tools \ {t} :
        /\ relay'[u] = relay[u] /\ len'[u] = len[u] /\ buffer'[u] = buffer[u]
        /\ tool'[u] = tool[u] /\ stream'[u] = stream[u]
  BY <1>1, StreamNames DEF WireType
<1>5. /\ relay'[t] = IF rest = << >> THEN "done" ELSE "write"
      /\ len'[t] = len[t] /\ buffer'[t] = rest /\ tool'[t] = tool[t]
      /\ stream'[t] = stream[t] /\ stream'[Monitor] = Join(s, out)
  BY <1>0, <1>1 DEF WireType
<1>6. ASSUME NEW u \in Tools PROVE ToolInv(u)'
  <2>1. CASE u = t
    <3>1. Len(rest) \in Nat /\ Len(rest) < len[t]
      <4>1. Len(rest) \in Nat
        BY <1>3, LenProperties
      <4> QED
        BY <1>2, <1>3, <4>1
    <3>2. relay'[t] # "header" /\ relay'[t] # "payload"
          /\ (relay'[t] = "write" => rest # << >>)
      BY <1>5
    <3> QED
      BY <1>2, <1>5, <2>1, <3>1, <3>2 DEF ToolInv, Pushed, PacketOf, PacketLen
  <2>2. CASE u # t
    BY <1>4, <2>2, ToolKept DEF WireOK
  <2> QED
    BY <2>1, <2>2
<1>7. /\ \A u \in Tools \ {t} : ~Midway(u)' /\ (Began(u)' <=> Began(u))
      /\ Began(t)' /\ (Midway(t)' <=> rest # << >>)
  <2>1. \A u \in Tools \ {t} : ~Midway(u)' /\ (Began(u)' <=> Began(u))
    BY <1>1, <1>4, MidwayKept
  <2>2. Len(rest) < len[t]
    BY <1>2, <1>3, LenProperties
  <2>3. Midway(t)' <=> rest # << >>
    BY <1>5, <2>2 DEF Midway
  <2>4. Began(t)'
    BY <1>5, <2>3 DEF Began
  <2> QED
    BY <2>1, <2>3, <2>4
<1>8. OneMidway'
  BY <1>7 DEF OneMidway
<1>9. Unwritten' = rest
  <2>1. CASE rest = << >>
    BY <1>7, <2>1, UnwrittenNoneNext
  <2>2. CASE rest # << >>
    BY <1>5, <1>7, <1>8, <2>2, UnwrittenNext
  <2> QED
    BY <2>1, <2>2
<1>10. PICK p \in Seq(Tools), q \in Seq(Tools) : InOrder(p, q)
  BY DEF WireOK
<1>11. /\ HeadRead' = HeadRead /\ UNCHANGED monitorVars
       /\ \A o : Packets(o)' = Packets(o) /\ Pushed(o)' = Pushed(o)
       /\ \A o : PacketLen(o)' = PacketLen(o)
  BY <1>1 DEF HeadRead, monitorVars, Packets, Pushed, PacketOf, PacketLen
<1>12. HeadRead \in Seq(Bytes)
  BY EmptySeq DEF HeadRead, WireType, Header
<1>13. /\ Join(HeadRead, Join(Join(s, out), rest)) = Join(HeadRead, Join(s, w))
       /\ Join(HeadRead, Join(s, w)) = Join(Join(HeadRead, Join(s, << >>)), w)
  <2>1. Join(Join(s, out), rest) = Join(s, w)
    BY <1>2, <1>3, JoinIs
  <2>2. Join(HeadRead, Join(s, w)) = Join(Join(HeadRead, s), w) /\ Join(s, << >>) = s
    BY <1>2, <1>12, JoinIs
  <2> QED
    BY <2>1, <2>2
<1>14. CASE Midway(t)
  <2>1. Unwritten = w
    BY <1>14, UnwrittenIs DEF WireOK, w
  <2>2. Join(HeadRead', Join(stream'[Monitor], Unwritten')) = FlattenSeq(Packets(q))
    BY <1>5, <1>9, <1>10, <1>11, <1>13, <2>1 DEF InOrder, s
  <2>3. \A u \in Tools : Began(u)' <=> u \in Range(p \o q)
    BY <1>7, <1>10, <1>14 DEF InOrder, Began
  <2>4. InOrder(p, q)'
    BY <1>10, <1>11, <2>2, <2>3 DEF InOrder, monitorVars
  <2> QED
    BY <1>1, <1>6, <1>8, <2>4 DEF WireOK, monitorVars
<1>15. CASE ~Midway(t)
  <2>1. w = Pushed(t) /\ ~Began(t)
    BY <1>1, <1>2, <1>15 DEF Midway, Began, w
  <2>2. Unwritten = << >>
    BY <1>1, <1>15, UnwrittenNone
  <2> DEFINE z == Append(q, t)
  <2>3. z \in Seq(Tools) /\ FlattenSeq(Packets(z)) = Join(FlattenSeq(Packets(q)), w)
    BY <2>1, Pending, AppendProperties
  <2>4. t \notin Range(p \o q) /\ IsInjective(p \o q)
    BY <1>10, <2>1 DEF InOrder
  <2>5. IsInjective(p \o z) /\ Range(p \o z) = Range(p \o q) \cup {t}
    BY <2>4, AddedBehind
  <2>6. q # << >> => z # << >> /\ z[1] = q[1]
    BY AppendProperties, EmptySeq
  <2> HIDE DEF z
  <2>7. Join(HeadRead', Join(stream'[Monitor], Unwritten')) = FlattenSeq(Packets(z))
    <3>1. Join(HeadRead, Join(s, << >>)) = FlattenSeq(Packets(q))
      BY <1>10, <2>2 DEF InOrder, s
    <3> QED
      BY <1>5, <1>9, <1>11, <1>13, <2>3, <3>1
  <2>8. \A u \in Tools : Began(u)' <=> u \in Range(p \o z)
    BY <1>7, <1>10, <2>5 DEF InOrder
  <2>9. InOrder(p, z)'
    BY <1>10, <1>11, <2>5, <2>6, <2>7, <2>8 DEF InOrder, monitorVars
  <2> QED
    BY <1>1, <1>6, <1>8, <2>3, <2>9 DEF WireOK, monitorVars
<1> QED
  BY <1>14, <1>15

-----------------------------------------------------------------------------
(* The monitor reads: its reader is always at the beginning of a packet,   *)
(* or right behind the header of one.                                      *)
LEMMA ReadHead ==
  ASSUME WireType, WireOK, NEW p \in Seq(Tools), NEW q \in Seq(Tools), InOrder(p, q),
         monitor = "header", here[Monitor] > 0, Len(Read(Monitor, H)) = H
  PROVE  /\ q # << >> /\ q[1] \in Tools /\ H <= PacketLen(q[1])
         /\ Read(Monitor, H) = SubSeq(Pushed(q[1]), 1, H)
<1>0. Monitor \in Streams /\ H \in Nat
  BY StreamNames, FramingAssumption
<1> DEFINE r == Read(Monitor, H)
           s == stream[Monitor]
           a == AfterOf(s, H)
           f == FlattenSeq(Packets(q))
           e == << >>
<1>1. /\ s \in Seq(Bytes) /\ here[Monitor] \in Nat /\ here[Monitor] <= Len(s)
      /\ Unwritten \in Seq(Bytes) /\ e \in Seq(Bytes) /\ Len(e) = 0
  BY <1>0, UnwrittenType, EmptySeq DEF WireType
<1>2. r \in Seq(Bytes) /\ a \in Seq(Bytes) /\ Join(r, a) = s
  BY <1>0, ReadType DEF Join
<1>3. Join(e, Join(s, Unwritten)) = f
  BY DEF InOrder, HeadRead
<1>4. q # << >>
  <2>1. SUFFICES ASSUME q = << >> PROVE FALSE
    OBVIOUS
  <2>2. f = << >>
    BY <2>1, Pending
  <2>3. Len(Join(s, Unwritten)) = Len(s) + Len(Unwritten) /\ Join(s, Unwritten) \in Seq(Bytes)
    BY <1>1, JoinIs
  <2>4. Len(Join(e, Join(s, Unwritten))) = Len(e) + Len(Join(s, Unwritten))
    BY <1>1, <2>3, JoinIs
  <2>5. Len(Unwritten) \in Nat /\ Len(s) \in Nat
    BY <1>1, LenProperties
  <2> HIDE DEF r, s, a, f, e
  <2>6. Len(f) = 0
    BY <2>2, EmptySeq
  <2>7. Len(e) + (Len(s) + Len(Unwritten)) = 0
    BY <1>3, <2>3, <2>4, <2>6
  <2>8. Len(e) = 0 /\ here[Monitor] \in Nat /\ here[Monitor] <= Len(s)
    BY <1>1
  <2> QED
    BY <2>5, <2>7, <2>8
<1>5. q[1] \in Tools
  BY <1>4, PacketsTail
<1>6. H <= PacketLen(q[1])
  <2>1. Began(q[1])
    <3>1. p \o q \in Seq(Tools) /\ Len(p \o q) = Len(p) + Len(q)
          /\ (p \o q)[Len(p) + 1] = q[1] /\ Len(p) + 1 \in 1..Len(p \o q)
      <4>1. Len(p) \in Nat /\ Len(q) \in Nat \ {0}
        BY <1>4, LenProperties, EmptySeq
      <4>2. p \o q \in Seq(Tools) /\ Len(p \o q) = Len(p) + Len(q)
        BY ConcatProperties
      <4>3. Len(p) + 1 \in 1..Len(p) + Len(q) /\ ~(Len(p) + 1 <= Len(p))
            /\ Len(p) + 1 - Len(p) = 1
        BY <4>1
      <4>4. (p \o q)[Len(p) + 1] = q[Len(p) + 1 - Len(p)]
        BY <4>3, ConcatProperties
      <4> QED
        BY <4>2, <4>3, <4>4
    <3>2. q[1] \in Range(p \o q)
      BY <3>1, LenProperties DEF Range
    <3> QED
      BY <1>5, <3>2 DEF InOrder
  <2> QED
    BY <1>5, <2>1, BegunLength DEF WireOK
<1> DEFINE x == Pushed(q[1])
           g == FlattenSeq(Packets(Tail(q)))
<1>7. f = Join(x, g) /\ x \in Seq(Bytes) /\ g \in Seq(Bytes) /\ Len(x) = PacketLen(q[1])
  <2>1. f = Join(x, g)
    BY <1>4, Pending
  <2>2. Tail(q) \in Seq(Tools)
    BY <1>4, PacketsTail
  <2>3. g \in Seq(Bytes)
    BY <2>2, Pending
  <2> QED
    BY <1>5, <2>1, <2>3, PushedIs
<1>8. PacketLen(q[1]) \in Nat
  BY <1>5, PushedIs, FramingAssumption
<1> HIDE DEF r, s, a, f, x, g, e
<1>9. Join(e, Join(Join(r, a), Unwritten)) = Join(x, g) /\ Len(e) + Len(r) <= Len(x)
      /\ Len(e) + Len(r) = H
  BY <1>0, <1>1, <1>2, <1>3, <1>6, <1>7, <1>8 DEF r
<1>10. Join(e, r) = SubSeq(x, 1, H)
  <2>1. /\ e \in Seq(Bytes) /\ r \in Seq(Bytes) /\ a \in Seq(Bytes)
        /\ Unwritten \in Seq(Bytes) /\ x \in Seq(Bytes) /\ g \in Seq(Bytes)
    BY <1>1, <1>2, <1>7
  <2>2. Join(e, r) = SubSeq(x, 1, Len(e) + Len(r))
    BY <1>9, <2>1, CutFirst
  <2> QED
    BY <1>9, <2>2
<1>11. Join(e, r) = r
  BY <1>2, JoinIs DEF e
<1> QED
  BY <1>4, <1>5, <1>6, <1>10, <1>11 DEF r, x

(* A step of the monitor leaves the handlers alone.                        *)
LEMMA MonitorKept ==
  ASSUME WireType, WireOK, NEW n \in Nat, Consume(Monitor, n),
         UNCHANGED <<tool, relayVars>>
  PROVE  /\ controller' = "up" /\ OneMidway' /\ Unwritten' = Unwritten
         /\ \A u \in Tools : ToolInv(u)' /\ (Began(u)' <=> Began(u))
<1>1. \A u \in Tools : stream'[u] = stream[u]
  BY StreamNames, ConsumeType
<1>2. \A u \in Tools : /\ tool'[u] = tool[u] /\ relay'[u] = relay[u]
                       /\ len'[u] = len[u] /\ buffer'[u] = buffer[u]
  BY DEF relayVars
<1>3. \A u \in Tools : ToolInv(u)'
  BY <1>1, <1>2, ToolKept DEF WireOK
<1>4. \A u \in Tools : (Midway(u)' <=> Midway(u)) /\ (Began(u)' <=> Began(u))
  BY <1>2, MidwayKept
<1>5. OneMidway'
  BY <1>4 DEF WireOK, OneMidway
<1>6. Unwritten' = Unwritten
  <2>1. CASE \E u \in Tools : Midway(u)
    <3>1. PICK u \in Tools : Midway(u)
      BY <2>1
    <3>2. Unwritten = buffer[u] /\ Unwritten' = buffer'[u]
      BY <1>4, <1>5, <3>1, UnwrittenIs, UnwrittenNext DEF WireOK
    <3> QED
      BY <1>2, <3>2
  <2>2. CASE ~\E u \in Tools : Midway(u)
    BY <1>4, <2>2, UnwrittenNone, UnwrittenNoneNext
  <2> QED
    BY <2>1, <2>2
<1> QED
  BY <1>3, <1>4, <1>5, <1>6 DEF WireOK, relayVars

(* No header is refused: a whole one is that of a packet.                  *)
LEMMA WireListenCorrupted ==
  ASSUME WireType, WireOK, ListenCorrupted, ~short'
  PROVE  FALSE
<1>0. Monitor \in Streams /\ H \in Nat
  BY StreamNames, FramingAssumption
<1>1. Len(Read(Monitor, H)) = H
  <2>1. Len(Read(Monitor, H)) \in 0..here[Monitor] /\ Len(Read(Monitor, H)) <= H
    BY <1>0, ReadType
  <2>2. ~(Len(Read(Monitor, H)) < H)
    BY ReadShortType DEF ListenCorrupted
  <2>3. here[Monitor] \in Nat
    BY <1>0 DEF WireType
  <2> QED
    BY <1>0, <2>1, <2>2, <2>3
<1>2. PICK p \in Seq(Tools), q \in Seq(Tools) : InOrder(p, q)
  BY DEF WireOK
<1>3. /\ q[1] \in Tools /\ H <= PacketLen(q[1])
      /\ Read(Monitor, H) = SubSeq(Pushed(q[1]), 1, H)
  BY <1>1, <1>2, ReadHead DEF ListenCorrupted
<1>4. IsHeader(Read(Monitor, H))
  BY <1>3, HeadIs
<1> QED
  BY <1>4 DEF ListenCorrupted

LEMMA WireListenHeader ==
  ASSUME WireType, WireOK, ListenHeader
  PROVE  WireOK'
<1>0. Monitor \in Streams /\ H \in Nat
  BY StreamNames, FramingAssumption
<1> DEFINE h == Read(Monitor, H)
           s == stream[Monitor]
           a == AfterOf(s, Len(h))
<1>1. /\ monitor = "header" /\ here[Monitor] > 0 /\ Len(h) = H /\ Consume(Monitor, H)
      /\ UNCHANGED <<tool, relayVars, handed, short, split>>
  BY DEF ListenHeader, IsHeader
<1>2. PICK p \in Seq(Tools), q \in Seq(Tools) : InOrder(p, q)
  BY DEF WireOK
<1>3. /\ q # << >> /\ q[1] \in Tools /\ H <= PacketLen(q[1])
      /\ h = SubSeq(Pushed(q[1]), 1, H)
  BY <1>1, <1>2, ReadHead
<1>4. monitor' = "payload" /\ header' = [bytes |-> h, len |-> PacketLen(q[1])]
  <2>1. LenField(h) = {PacketLen(q[1])}
    BY <1>3, HeadIs
  <2>2. PacketLen(q[1]) \in Nat
    BY <1>3, PushedIs, FramingAssumption
  <2>3. ~(PacketLen(q[1]) < H)
    BY <1>0, <1>3, <2>2
  <2> QED
    BY <2>1, <2>3 DEF ListenHeader
<1>5. /\ s \in Seq(Bytes) /\ Unwritten \in Seq(Bytes)
      /\ h \in Seq(Bytes) /\ a \in Seq(Bytes) /\ Join(h, a) = s
      /\ stream'[Monitor] = a
  BY <1>0, <1>1, ReadType, ConsumeType, UnwrittenType DEF WireType, Join
<1>6. /\ controller' = "up" /\ OneMidway' /\ Unwritten' = Unwritten
      /\ \A u \in Tools : ToolInv(u)' /\ (Began(u)' <=> Began(u))
  BY <1>0, <1>1, MonitorKept
<1>7. HeadRead = << >> /\ HeadRead' = h
  BY <1>1, <1>4 DEF HeadRead
<1> HIDE DEF h, s, a
<1>8. Join(h, Join(a, Unwritten)) = FlattenSeq(Packets(q))
  <2>1. Join(s, Unwritten) \in Seq(Bytes)
    BY <1>5, JoinIs
  <2>2. Join(<< >>, Join(s, Unwritten)) = Join(s, Unwritten)
    BY <2>1, JoinIs
  <2>3. Join(Join(h, a), Unwritten) = Join(h, Join(a, Unwritten))
    BY <1>5, JoinIs
  <2> QED
    BY <1>2, <1>5, <1>7, <2>2, <2>3 DEF InOrder, s
<1>9. /\ \A o : Packets(o)' = Packets(o) /\ Pushed(o)' = Pushed(o)
      /\ \A o : PacketLen(o)' = PacketLen(o)
  BY DEF Packets, Pushed, PacketOf, PacketLen
<1>10. Join(HeadRead', Join(stream'[Monitor], Unwritten')) = FlattenSeq(Packets(q))
  BY <1>5, <1>6, <1>7, <1>8
<1>11. InOrder(p, q)'
  BY <1>1, <1>2, <1>3, <1>4, <1>6, <1>9, <1>10 DEF InOrder
<1> QED
  BY <1>4, <1>6, <1>11 DEF WireOK

LEMMA WireListenPayload ==
  ASSUME WireType, WireOK, ListenPayload, ~short'
  PROVE  WireOK'
<1>0. Monitor \in Streams /\ H \in Nat
  BY StreamNames, FramingAssumption
<1> DEFINE n == header.len - H
           b == header.bytes
           r == Read(Monitor, n)
           s == stream[Monitor]
           a == AfterOf(s, Len(r))
<1>1. /\ monitor = "payload" /\ Consume(Monitor, n) /\ ReadShort(Monitor, n)
      /\ handed' = Append(handed, Padded(b \o r, header.len))
      /\ monitor' = "header"
      /\ UNCHANGED <<tool, relayVars, header, split>>
  BY DEF ListenPayload
<1>2. PICK p \in Seq(Tools), q \in Seq(Tools) : InOrder(p, q)
  BY DEF WireOK
<1> DEFINE x == Pushed(q[1])
           g == FlattenSeq(Packets(Tail(q)))
<1>3. /\ header.len \in Nat /\ header.len >= H /\ q # << >>
      /\ q[1] \in Tools /\ Tail(q) \in Seq(Tools)
      /\ b = SubSeq(x, 1, H) /\ header.len = PacketLen(q[1])
  <2>1. header \in Header /\ header.len >= H
    BY <1>1 DEF WireType
  <2>2. q # << >> /\ header = [bytes |-> SubSeq(x, 1, H), len |-> PacketLen(q[1])]
    BY <1>1, <1>2 DEF InOrder
  <2> QED
    BY <2>1, <2>2, PacketsTail DEF Header
<1>4. n \in Nat /\ H + n = header.len
  BY <1>0, <1>3
<1>5. /\ x \in Seq(Bytes) /\ Len(x) = header.len
      /\ g \in Seq(Bytes) /\ FlattenSeq(Packets(q)) = Join(x, g)
  BY <1>3, PushedIs, Pending
<1>6. b \in Seq(Bytes) /\ Len(b) = H
  BY <1>3, HeadIs, <1>0
<1>7. r \in Seq(Bytes) /\ Len(r) = n /\ a \in Seq(Bytes) /\ Join(r, a) = s
      /\ stream'[Monitor] = a /\ Unwritten \in Seq(Bytes)
  <2> HIDE DEF n
  <2>1. /\ r \in Seq(Bytes) /\ a \in Seq(Bytes) /\ Join(r, a) = s
        /\ Len(r) \in 0..here[Monitor] /\ Len(r) <= n
    BY <1>0, <1>4, ReadType DEF Join
  <2>2. ~(Len(r) < n)
    BY <1>1, ReadShortType
  <2>3. here[Monitor] \in Nat
    BY <1>0 DEF WireType
  <2>4. Len(r) = n
    BY <1>4, <2>1, <2>2, <2>3
  <2> QED
    BY <1>0, <1>1, <1>4, <2>1, <2>4, ConsumeType, UnwrittenType
<1>8. /\ controller' = "up" /\ OneMidway' /\ Unwritten' = Unwritten
      /\ \A u \in Tools : ToolInv(u)' /\ (Began(u)' <=> Began(u))
  <2> HIDE DEF n
  <2> QED
    BY <1>0, <1>1, <1>4, MonitorKept
<1>9. HeadRead = b /\ HeadRead' = << >>
  BY <1>1 DEF HeadRead
<1>10. Join(b, Join(Join(r, a), Unwritten)) = Join(x, g)
  <2> HIDE DEF x, g
  <2> QED
    BY <1>2, <1>5, <1>7, <1>9 DEF InOrder
<1> HIDE DEF n, b, r, s, a, x, g
<1>11. Join(b, r) = x /\ Join(a, Unwritten) = g
  <2>1. Len(b) + Len(r) = Len(x) /\ Len(b) + Len(r) <= Len(x)
    BY <1>3, <1>4, <1>5, <1>6, <1>7
  <2>2. /\ Join(b, r) = SubSeq(x, 1, Len(x))
        /\ Join(a, Unwritten) = Join(AfterOf(x, Len(x)), g)
    <3>1. /\ b \in Seq(Bytes) /\ r \in Seq(Bytes) /\ a \in Seq(Bytes)
          /\ Unwritten \in Seq(Bytes) /\ x \in Seq(Bytes) /\ g \in Seq(Bytes)
      BY <1>5, <1>6, <1>7
    <3>2. /\ Join(b, r) = SubSeq(x, 1, Len(b) + Len(r))
          /\ Join(a, Unwritten) = Join(AfterOf(x, Len(b) + Len(r)), g)
      BY <1>10, <2>1, <3>1, CutFirst
    <3> QED
      BY <2>1, <3>2
  <2>3. SubSeq(x, 1, Len(x)) = x
    BY <1>5, SubSeqFull
  <2>4. AfterOf(x, Len(x)) = << >>
    <3>1. Len(x) \in 0..Len(x)
      BY <1>3, <1>5
    <3>2. AfterOf(x, Len(x)) \in Seq(Bytes) /\ Len(AfterOf(x, Len(x))) = 0
      BY <1>3, <1>5, <3>1, JoinCut
    <3> QED
      BY <3>2, EmptySeq
  <2> QED
    BY <1>5, <2>2, <2>3, <2>4, JoinIs
<1>12. handed' = Append(handed, x)
  <2>1. Padded(x, header.len) = x
    BY <1>3, <1>5, PaddedType
  <2> QED
    BY <1>1, <1>11, <2>1 DEF Join
<1> DEFINE v == Append(p, q[1])
           z == Tail(q)
<1>13. v \in Seq(Tools) /\ z \in Seq(Tools) /\ v \o z = p \o q
  BY <1>3, MoveFirst, AppendProperties
<1>14. handed' = Packets(v)
  BY <1>2, <1>3, <1>12, PacketsAppend DEF InOrder, x
<1> HIDE DEF v
<1>15. \A o : Packets(o)' = Packets(o)
  BY DEF Packets, Pushed, PacketOf, PacketLen
<1>16. Join(HeadRead', Join(stream'[Monitor], Unwritten')) = FlattenSeq(Packets(z))
  <2>1. Join(<< >>, g) = g
    BY <1>5, JoinIs
  <2> QED
    BY <1>7, <1>8, <1>9, <1>11, <2>1 DEF g
<1> HIDE DEF z
<1>17. InOrder(v, z)'
  BY <1>1, <1>2, <1>8, <1>13, <1>14, <1>15, <1>16 DEF InOrder
<1> QED
  BY <1>1, <1>8, <1>13, <1>17 DEF WireOK

-----------------------------------------------------------------------------
(* The inductive invariant.                                                *)
LEMMA WireInit == WireType /\ Init => WireInv
<1> SUFFICES ASSUME WireType, Init PROVE WireOK
  BY DEF WireInv
<1>1. /\ stream[Monitor] = << >> /\ monitor = "header" /\ controller = "up"
      /\ handed = << >>
      /\ \A t \in Tools : tool[t] = "push" /\ relay[t] = "header"
  BY StreamNames DEF Init
<1>2. \A t \in Tools : ToolInv(t) /\ ~Midway(t) /\ ~Began(t)
  BY <1>1 DEF ToolInv, Midway, Began
<1>3. HeadRead = << >> /\ Unwritten = << >>
  BY <1>1, <1>2, UnwrittenNone DEF HeadRead
<1> DEFINE e == << >>
<1>4. e \in Seq(Tools) /\ e \o e = e /\ Packets(e) = e /\ FlattenSeq(Packets(e)) = e
  <2>1. e \in Seq(Tools) /\ Len(e) = 0
    BY EmptySeq
  <2>2. e \o e = e
    BY <2>1, ConcatEmptySeq
  <2>3. Packets(e) \in Seq(Seq(Bytes)) /\ Len(Packets(e)) = 0
    BY <2>1, PacketsType
  <2>4. Packets(e) = e
    BY <2>3, EmptySeq
  <2> QED
    BY <2>1, <2>2, <2>4, FlattenEmpty
<1>5. Join(HeadRead, Join(stream[Monitor], Unwritten)) = e
  BY <1>1, <1>3, JoinIs
<1>6. IsInjective(e \o e) /\ Range(e \o e) = {}
  BY <1>4 DEF IsInjective, Range
<1>7. InOrder(e, e)
  BY <1>1, <1>2, <1>4, <1>5, <1>6 DEF InOrder
<1> QED
  BY <1>1, <1>2, <1>4, <1>7 DEF WireOK, OneMidway

LEMMA WireArrive ==
  ASSUME WireOK, NEW s \in Streams, Arrive(s)
  PROVE  WireOK'
<1>1. UNCHANGED <<stream, tool, relay, len, buffer, controller, monitorVars>>
  BY DEF Arrive, relayVars
<1>2. \A u \in Tools : /\ tool'[u] = tool[u] /\ relay'[u] = relay[u]
                       /\ stream'[u] = stream[u]
                       /\ len'[u] = len[u] /\ buffer'[u] = buffer[u]
  BY <1>1
<1>3. \A u \in Tools : ToolInv(u)'
  BY <1>2, ToolKept DEF WireOK
<1>4. OneMidway' /\ \E p, q \in Seq(Tools) : InOrder(p, q)'
  BY <1>1, <1>2, MidwayKept, OrderKept DEF WireOK
<1> QED
  BY <1>1, <1>3, <1>4 DEF WireOK, monitorVars

LEMMA WireStep ==
  ASSUME WireType, NothingPushed, WireInv, [Next]_vars
  PROVE  WireInv'
<1> SUFFICES ASSUME ~short', ~split' PROVE WireOK'
  BY DEF WireInv
<1>1. ASSUME UNCHANGED vars PROVE WireOK'
  <2>1. WireOK
    BY <1>1 DEF vars, WireInv
  <2>2. /\ UNCHANGED <<stream, tool, relay, len, buffer, controller>>
        /\ UNCHANGED monitorVars
    BY <1>1 DEF vars, wireVars, relayVars
  <2>3. \A u \in Tools : ToolInv(u)'
    BY <2>1, <2>2, ToolKept DEF WireOK
  <2>4. OneMidway' /\ \E p, q \in Seq(Tools) : InOrder(p, q)'
    BY <2>1, <2>2, MidwayKept, OrderKept DEF WireOK
  <2> QED
    BY <2>1, <2>2, <2>3, <2>4 DEF WireOK, monitorVars
<1>2. ASSUME NEW s \in Streams, Arrive(s) PROVE WireOK'
  BY <1>2, WireArrive DEF Arrive, WireInv
<1>3. ASSUME NEW t \in Tools, Push(t) PROVE WireOK'
  BY <1>3, WirePush DEF Push, WireInv
<1>4. ASSUME NEW t \in Tools, RelayHeader(t) PROVE WireOK'
  BY <1>4, ReadShortType, WireRelayHeader DEF RelayHeader, WireInv
<1>5. ASSUME NEW t \in Tools, RelayPayload(t) PROVE WireOK'
  BY <1>5, ReadShortType, WireRelayPayload DEF RelayPayload, WireInv
<1>6. ASSUME NEW t \in Tools, RelayOverrun(t) PROVE FALSE
  BY <1>6 DEF RelayOverrun
<1>7. ASSUME NEW t \in Tools, RelayWrite(t) PROVE WireOK'
  <2>1. ~short /\ ~split
    BY <1>7 DEF RelayWrite, WireType
  <2> QED
    BY <1>7, <2>1, WireRelayWrite DEF WireInv
<1>8. ASSUME ListenCorrupted PROVE FALSE
  <2>1. ~short /\ ~split
    BY <1>8, ReadShortType DEF ListenCorrupted
  <2> QED
    BY <1>8, <2>1, WireListenCorrupted DEF WireInv
<1>9. ASSUME ListenHeader PROVE WireOK'
  <2>1. ~short /\ ~split
    BY <1>9 DEF ListenHeader
  <2> QED
    BY <1>9, <2>1, WireListenHeader DEF WireInv
<1>10. ASSUME ListenPayload PROVE WireOK'
  <2>1. ~short /\ ~split
    BY <1>10, ReadShortType DEF ListenPayload
  <2> QED
    BY <1>10, <2>1, WireListenPayload DEF WireInv
<1> QED
  BY <1>1, <1>2, <1>3, <1>4, <1>5, <1>6, <1>7, <1>8, <1>9, <1>10
     DEF Next, WrpNorth, ListenPackets

(* Types, a tool that has not pushed, and the packets in their order.      *)
WireInductive == WireType /\ NothingPushed /\ WireInv

(* WireInductive is an invariant: as long as no read() was short and no    *)
(* write() was split, the packets are on their way in the order in which   *)
(* their handlers began to write (cconnection.c, wrpNorth).                *)
THEOREM WireInvariance == Spec => []WireInductive
<1>1. Init => WireInductive
  <2>1. Init => WireType
    BY WireTypeInit
  <2>2. Init => NothingPushed
    BY StreamNames DEF Init, NothingPushed
  <2> QED
    BY <2>1, <2>2, WireInit DEF WireInductive
<1>2. WireInductive /\ [Next]_vars => WireInductive'
  <2> SUFFICES ASSUME WireInductive, [Next]_vars PROVE WireInductive'
    OBVIOUS
  <2>1. WireType /\ NothingPushed /\ WireInv
    BY DEF WireInductive
  <2>2. WireType'
    BY <2>1, WireTypeStep
  <2>3. NothingPushed'
    BY <2>1, NothingPushedStep
  <2>4. WireInv'
    BY <2>1, WireStep
  <2> QED
    BY <2>2, <2>3, <2>4 DEF WireInductive
<1> QED
  BY <1>1, <1>2, PTL DEF Spec

-----------------------------------------------------------------------------
(* An order of tools in which none occurs twice is one of Orders.          *)
LEMMA AnOrder ==
  ASSUME NEW o \in Seq(Tools), IsInjective(o)
  PROVE  o \in Orders
<1> DEFINE n == Len(o)
<1>1. n \in Nat /\ o \in [1..n -> Tools] /\ DOMAIN o = 1..n
  BY LenProperties, ElementOfSeq
<1>2. IsFiniteSet(1..n) /\ Cardinality(1..n) = n
  <2>1. 1 \in Int /\ n \in Int
    BY <1>1
  <2>2. IsFiniteSet(1..n) /\ Cardinality(1..n) = IF 1 > n THEN 0 ELSE n - 1 + 1
    BY <2>1, FS_Interval
  <2> QED
    BY <1>1, <2>2
<1>3. o \in Injection(1..n, Tools)
  BY <1>1 DEF IsInjective, Injection
<1>4. n <= Cardinality(Tools) /\ Cardinality(Tools) \in Nat
  <2>1. IsFiniteSet(Tools)
    BY FramingAssumption
  <2>2. Cardinality(1..n) <= Cardinality(Tools)
    BY <1>2, <1>3, <2>1, FS_Injection DEF ExistsInjection
  <2> QED
    BY <1>2, <2>1, <2>2, FS_CardinalityType
<1>5. n \in 0..Cardinality(Tools)
  BY <1>1, <1>4
<1> QED
  BY <1>1, <1>5 DEF Orders

(* What WholePackets says of the bytes follows: the packets handed over    *)
(* and those that are pending are the packets of the two parts of an order.*)
LEMMA WireWhole == WireInductive => WholePackets
<1> SUFFICES ASSUME WireInductive, ~short, ~split
             PROVE  /\ controller = "up" /\ monitor # "dead"
                    /\ Intact
                    /\ \E o \in Orders :
                         /\ IsInjective(o)
                         /\ Passage = FlattenSeq([i \in DOMAIN o |-> Pushed(o[i])])
  BY DEF WholePackets
<1>1. WireOK /\ WireType
  BY DEF WireInductive, WireInv
<1>2. PICK p \in Seq(Tools), q \in Seq(Tools) : InOrder(p, q)
  BY <1>1 DEF WireOK
<1>3. Intact
  <2> SUFFICES ASSUME NEW i \in DOMAIN handed
               PROVE  \E t \in Tools :
                        handed[i] = IF Fits(t) THEN PacketOf(t) ELSE Pushed(t)
    BY DEF Intact
  <2>1. i \in 1..Len(p) /\ handed[i] = Pushed(p[i])
    BY <1>2, PacketsType, LenProperties DEF InOrder
  <2>2. p[i] \in Tools
    BY <2>1, ElementOfSeq
  <2>3. Fits(p[i]) => Pushed(p[i]) = PacketOf(p[i])
    BY <2>2, PushedIs
  <2> QED
    BY <2>1, <2>2, <2>3
<1> DEFINE o == p \o q
<1>4. o \in Seq(Tools) /\ IsInjective(o)
  BY <1>2, ConcatProperties DEF InOrder
<1>5. Passage = FlattenSeq(Packets(o))
  <2> DEFINE b == FlattenSeq(Packets(p))
             s == stream[Monitor]
  <2>1. /\ Passage = Join(Join(Join(b, HeadRead), s), Unwritten)
        /\ Join(HeadRead, Join(s, Unwritten)) = FlattenSeq(Packets(q))
    BY <1>2 DEF Passage, HeadRead, Unwritten, InOrder, Join
  <2>2. /\ b \in Seq(Bytes) /\ s \in Seq(Bytes) /\ Unwritten \in Seq(Bytes)
        /\ HeadRead \in Seq(Bytes)
    <3>1. HeadRead \in Seq(Bytes)
      BY <1>1, EmptySeq DEF HeadRead, WireType, Header
    <3> QED
      BY <1>1, <3>1, Pending, StreamNames, UnwrittenType DEF WireType
  <2>3. FlattenSeq(Packets(o)) = Join(b, FlattenSeq(Packets(q)))
    BY PacketsConcat, PacketsType, FlattenConcat DEF Join
  <2> HIDE DEF b, s, o
  <2>4. Join(Join(Join(b, HeadRead), s), Unwritten)
          = Join(b, Join(HeadRead, Join(s, Unwritten)))
    <3>1. Join(HeadRead, s) \in Seq(Bytes)
      BY <2>2, JoinIs
    <3>2. Join(Join(b, HeadRead), s) = Join(b, Join(HeadRead, s))
      BY <2>2, JoinIs
    <3>3. Join(Join(b, Join(HeadRead, s)), Unwritten)
            = Join(b, Join(Join(HeadRead, s), Unwritten))
      BY <2>2, <3>1, JoinIs
    <3>4. Join(Join(HeadRead, s), Unwritten) = Join(HeadRead, Join(s, Unwritten))
      BY <2>2, JoinIs
    <3> QED
      BY <3>2, <3>3, <3>4
  <2> QED
    BY <2>1, <2>3, <2>4
<1>6. Passage = FlattenSeq([i \in DOMAIN o |-> Pushed(o[i])])
  BY <1>5 DEF Packets
<1> HIDE DEF o
<1>7. o \in Orders
  BY <1>4, AnOrder
<1> QED
  BY <1>1, <1>3, <1>4, <1>6, <1>7 DEF WireOK

(* In that case the interpreter gets packets as they were pushed, each     *)
(* once, and nothing is dropped or fails on the way (lib.c, listenPackets).*)
THEOREM AlwaysWholePackets == Spec => []WholePackets
BY WireInvariance, WireWhole, PTL

-----------------------------------------------------------------------------
(* What the history says of the files: one that got its last configuration *)
(* whole has it, and none was ever shortened.                              *)
FileCurrent ==
  \A t \in Type : sent[t] # NONE /\ ~spoiled[t] => file[t] = Whole(sent[t])
FileLength ==
  \A t \in Type : file[t] # NONE => Len(file[t]) = longest[t]

(* Nagios has read the files, or the monitor knows that it has not.        *)
HasRead == ~unread => running = file

FilesInv == TypeOK /\ FileCurrent /\ FileLength /\ HasRead

(* A configuration as a sequence of its pieces.                            *)
LEMMA WholeType ==
  ASSUME NEW c \in Config, Pieces[c] >= 0
  PROVE  Whole(c) \in Seq(Config) /\ Len(Whole(c)) = Pieces[c]
BY PiecesAssumption DEF Whole

(* Writing n pieces over a file leaves the longer of the two lengths, and  *)
(* exactly the configuration if it is whole and not the shorter.           *)
LEMMA OverFile ==
  ASSUME NEW old \in Seq(Config), NEW c \in Config, NEW n \in 0..Pieces[c]
  PROVE  /\ Over(old, c, n) \in Seq(Config)
         /\ Len(Over(old, c, n)) = IF n > Len(old) THEN n ELSE Len(old)
         /\ n = Pieces[c] /\ Len(old) <= n => Over(old, c, n) = Whole(c)
<1> DEFINE front == SubSeq(Whole(c), 1, n)
           back == SubSeq(old, n + 1, Len(old))
<1>1. Pieces[c] \in Nat /\ n \in Nat /\ n <= Pieces[c]
  BY PiecesAssumption
<1>2. Whole(c) \in Seq(Config) /\ Len(Whole(c)) = Pieces[c]
  BY <1>1, WholeType
<1>3. front \in Seq(Config) /\ Len(front) = n
  BY <1>1, <1>2
<1>4. /\ back \in Seq(Config)
      /\ Len(back) = IF n > Len(old) THEN 0 ELSE Len(old) - n
  BY <1>1
<1>5. /\ front \o back \in Seq(Config)
      /\ Len(front \o back) = Len(front) + Len(back)
  BY <1>3, <1>4
<1>6. ASSUME n = Pieces[c], Len(old) <= n PROVE front \o back = Whole(c)
  <2>1. back = << >>
    BY <1>1, <1>6, SubSeqEmpty
  <2>2. front = Whole(c)
    BY <1>2, <1>6, SubSeqFull
  <2>3. front \o << >> = front
    BY <1>3, ConcatEmptySeq
  <2> HIDE DEF front, back
  <2> QED
    BY <2>1, <2>2, <2>3
<1>7. Over(old, c, n) = front \o back
  BY DEF Over
<1> HIDE DEF front, back
<1> QED
  BY <1>1, <1>3, <1>4, <1>5, <1>6, <1>7

(* A packet that changes its file.                                         *)
LEMMA WriteStep ==
  ASSUME FilesInv, NEW t \in Type, NEW c \in Config, NEW n \in ERR..Pieces[c],
         parsePacket(t, c, n), Opens(t, c), n # ERR
  PROVE  FilesInv'
<1>1. n \in 0..Pieces[c] /\ Pieces[c] \in Nat /\ n >= 0
  BY PiecesAssumption DEF ERR
<1>2. file[t] \in Seq(Config) /\ file[t] # NONE
  BY DEF FilesInv, TypeOK, Opens
<1>3. /\ file' = [file EXCEPT ![t] = Over(file[t], c, n)]
      /\ open' = open + 1
      /\ spoiled' = [spoiled EXCEPT ![t] =
                       n < Pieces[c] \/ Pieces[c] < Len(file[t])]
      /\ longest' = [longest EXCEPT ![t] =
                       IF n > longest[t] THEN n ELSE longest[t]]
      /\ sent' = [sent EXCEPT ![t] = c]
      /\ restartNagios
  BY <1>1 DEF parsePacket, writeFile
<1>4. /\ Over(file[t], c, n) \in Seq(Config)
      /\ Len(Over(file[t], c, n)) =
           IF n > Len(file[t]) THEN n ELSE Len(file[t])
      /\ n = Pieces[c] /\ Len(file[t]) <= n =>
           Over(file[t], c, n) = Whole(c)
  BY <1>1, <1>2, OverFile
<1>5. file' \in [Type -> Seq(Config) \cup {NONE}]
  BY <1>3, <1>4 DEF FilesInv, TypeOK
<1>6. /\ running' \in [Type -> Seq(Config) \cup {NONE}]
      /\ unread' \in BOOLEAN
      /\ HasRead'
  BY <1>3, <1>5 DEF restartNagios, FilesInv, TypeOK, HasRead
<1>7. /\ open' \in 0..MaxFd
      /\ sent' \in [Type -> Config \cup {NONE}]
      /\ spoiled' \in [Type -> BOOLEAN]
      /\ longest' \in [Type -> Nat]
  BY <1>1, <1>2, <1>3, PiecesAssumption DEF FilesInv, TypeOK, Opens
<1>8. FileCurrent'
  <2> SUFFICES ASSUME NEW u \in Type, sent'[u] # NONE, ~spoiled'[u]
               PROVE  file'[u] = Whole(sent'[u])
    BY DEF FileCurrent, Whole
  <2>1. CASE u = t
    <3>1. spoiled'[t] = (n < Pieces[c] \/ Pieces[c] < Len(file[t]))
      BY <1>3 DEF FilesInv, TypeOK
    <3>2. ~(n < Pieces[c] \/ Pieces[c] < Len(file[t]))
      <4>1. ~spoiled'[t]
        BY <2>1
      <4> QED
        BY <3>1, <4>1, Zenon
    <3>3. n = Pieces[c] /\ Len(file[t]) <= n
      BY <1>1, <1>2, <3>2
    <3> QED
      BY <1>3, <1>4, <2>1, <3>3 DEF FilesInv, TypeOK
  <2>2. CASE u # t
    BY <1>3, <2>2 DEF FilesInv, TypeOK, FileCurrent
  <2> QED
    BY <2>1, <2>2
<1>9. FileLength'
  <2> SUFFICES ASSUME NEW u \in Type, file'[u] # NONE
               PROVE  Len(file'[u]) = longest'[u]
    BY DEF FileLength
  <2>1. CASE u = t
    BY <1>1, <1>2, <1>3, <1>4, <2>1 DEF FilesInv, TypeOK, FileLength
  <2>2. CASE u # t
    BY <1>3, <2>2 DEF FilesInv, TypeOK, FileLength
  <2> QED
    BY <2>1, <2>2
<1> QED
  BY <1>5, <1>6, <1>7, <1>8, <1>9 DEF FilesInv, TypeOK

(* A packet that is refused.                                               *)
LEMMA RefuseStep ==
  ASSUME FilesInv, NEW t \in Type, NEW c \in Config, NEW n \in ERR..Pieces[c],
         parsePacket(t, c, n), ~(Opens(t, c) /\ n # ERR)
  PROVE  FilesInv'
<1>1. /\ spoiled' = [spoiled EXCEPT ![t] = TRUE]
      /\ sent' = [sent EXCEPT ![t] = c]
      /\ UNCHANGED <<file, open, longest, running, unread>>
  BY DEF parsePacket, writeFile, ERR
<1>2. TypeOK'
  BY <1>1 DEF FilesInv, TypeOK
<1>3. FileCurrent'
  BY <1>1 DEF FilesInv, TypeOK, FileCurrent, Whole
<1>4. FileLength' /\ HasRead'
  BY <1>1 DEF FilesInv, FileLength, HasRead
<1> QED
  BY <1>2, <1>3, <1>4 DEF FilesInv

(* The parts of FilesInv hold at the start and after every step.               *)
LEMMA FilesInitInv == FilesInit => FilesInv
<1> SUFFICES ASSUME FilesInit PROVE FilesInv
  OBVIOUS
<1>1. << >> \in Seq(Config) /\ Len(<< >>) = 0
  BY EmptySeq
<1>2. file \in [Type -> Seq(Config) \cup {NONE}]
  BY <1>1 DEF FilesInit
<1>3. TypeOK
  <2>1. sent \in [Type -> Config \cup {NONE}]
    BY DEF FilesInit
  <2>2. spoiled \in [Type -> BOOLEAN] /\ longest \in [Type -> Nat]
    BY DEF FilesInit
  <2>3. open \in 0..MaxFd
    BY PiecesAssumption DEF FilesInit
  <2>4. unread \in BOOLEAN
    BY DEF FilesInit
  <2>5. running \in [Type -> Seq(Config) \cup {NONE}]
    BY <1>2 DEF FilesInit
  <2> QED
    BY <1>2, <2>1, <2>2, <2>3, <2>4, <2>5 DEF TypeOK
<1>4. FileCurrent /\ HasRead
  BY DEF FilesInit, FileCurrent, HasRead
<1>5. FileLength
  BY <1>1 DEF FilesInit, FileLength
<1> QED
  BY <1>3, <1>4, <1>5 DEF FilesInv

LEMMA FilesInvStep ==
  ASSUME FilesInv, [FilesNext]_fileVars
  PROVE  FilesInv'
<1>1. ASSUME NEW t \in Type, NEW c \in Config, NEW n \in ERR..Pieces[c],
             parsePacket(t, c, n)
      PROVE  FilesInv'
  BY <1>1, WriteStep, RefuseStep
<1>2. CASE Restart
  BY <1>2, PiecesAssumption
     DEF Restart, FilesInv, TypeOK, FileCurrent, FileLength, HasRead, Whole
<1>3. CASE UNCHANGED fileVars
  BY <1>3 DEF fileVars, FilesInv, TypeOK, FileCurrent, FileLength, HasRead, Whole
<1> QED
  BY <1>1, <1>2, <1>3 DEF FilesNext

(* FilesInv is an invariant.                                               *)
THEOREM FilesInvariance == FilesSpec => []FilesInv
BY FilesInitInv, FilesInvStep, PTL DEF FilesSpec

(* The variables of the interpreter keep their types.                      *)
THEOREM TypeCorrect == FilesSpec => []TypeOK
<1>1. FilesInv => TypeOK
  BY DEF FilesInv
<1> QED
  BY <1>1, FilesInvariance, PTL

(* After a restart Nagios runs what was received last, unless that was     *)
(* refused, cut short or shorter than the file (interpreter.c:128-143).    *)
THEOREM RunsTheLatest == FilesSpec => []NagiosCurrent
<1>1. FilesInv => NagiosCurrent
  BY DEF FilesInv, FileCurrent, HasRead, NagiosCurrent
<1> QED
  BY <1>1, FilesInvariance, PTL

(* A file never becomes shorter (interpreter.c:211, open() without         *)
(* O_TRUNC), so Nagios runs the tails of older configurations.             *)
THEOREM KeepsTails == FilesSpec => []TailStays
<1>1. FilesInv => TailStays
  BY DEF FilesInv, TypeOK, FileLength, HasRead, TailStays
<1> QED
  BY <1>1, FilesInvariance, PTL

=============================================================================
