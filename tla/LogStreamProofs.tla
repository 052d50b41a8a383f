--------------------------- MODULE LogStreamProofs ---------------------------
(***************************************************************************)
(* Theorems about LogStream, for any width of the integers: what the loops *)
(* of the number formats write is the usual notation of the number, it has *)
(* the length that kMaxNumericSize allows, and so nothing is written       *)
(* outside the FixedBuffer, for any size of it and any texts.              *)
(*                                                                         *)
(* The formats are recursive functions.  Induction is used as a fact about *)
(* sets of numbers, and functions stand for the step of a loop.            *)
(***************************************************************************)
EXTENDS LogStream, SequenceTheorems, NaturalsInduction, WellFoundedInduction, TLAPS

-----------------------------------------------------------------------------
(* Induction, and loops as recursive functions.                            *)

\* A set of numbers that is not empty has a least one.
LEMMA LeastExists ==
    ASSUME NEW S \in SUBSET Nat, S # {}
    PROVE  \E x \in S : \A y \in S : x <= y
<1>1. IsWellFoundedOn(OpToRel(<, Nat), Nat)
  BY NatLessThanWellFounded
<1>2. \E x \in S : \A y \in S : ~(<<y, x>> \in OpToRel(<, Nat))
  BY <1>1, WFMin
<1>3. PICK x \in S : \A y \in S : ~(<<y, x>> \in OpToRel(<, Nat))
  BY <1>2
<1>4. \A y \in S : ~(y < x)
  BY <1>3 DEF OpToRel
<1> QED BY <1>4

\* Induction, as a fact about sets of numbers.
LEMMA Induction ==
    ASSUME NEW S \in SUBSET Nat, \A n \in Nat : (\A m \in 0..(n - 1) : m \in S) => n \in S
    PROVE  S = Nat
<1> SUFFICES ASSUME Nat \ S # {} PROVE FALSE
  OBVIOUS
<1>1. PICK x \in Nat \ S : \A y \in Nat \ S : x <= y
  BY LeastExists
<1>2. \A m \in 0..(x - 1) : m \in S
  BY <1>1
<1> QED BY <1>1, <1>2

\* A loop that puts out head[v] and goes on with rest[v], smaller, while it is
\* positive, as a recursive function.
Descends(lo, hi, rest) == \A v \in lo..hi : rest[v] > 0 => rest[v] \in lo..hi /\ rest[v] < v
Loops(f, lo, hi, head, rest) ==
    f = [v \in lo..hi |-> <<head[v]>> \o (IF rest[v] > 0 THEN f[rest[v]] ELSE <<>>)]

\* There is such a function.
LEMMA LoopExists ==
    ASSUME NEW lo \in Int, NEW hi \in Nat, NEW head \in [lo..hi -> Int],
           NEW rest \in [lo..hi -> Int], Descends(lo, hi, rest)
    PROVE  \E f \in [lo..hi -> Seq(Int)] : Loops(f, lo, hi, head, rest)
<1> USE DEF Descends
<1> DEFINE D == lo..hi
           Out(f, v) == <<head[v]>> \o (IF rest[v] > 0 THEN f[rest[v]] ELSE <<>>)
           Upto(n) == \E f \in [D -> Seq(Int)] : \A v \in D : v <= n => f[v] = Out(f, v)
           S == {n \in Nat : Upto(n)}
<1>1. \A f \in [D -> Seq(Int)] : \A v \in D : Out(f, v) \in Seq(Int)
  <2> SUFFICES ASSUME NEW f \in [D -> Seq(Int)], NEW v \in D PROVE Out(f, v) \in Seq(Int)
    OBVIOUS
  <2>1. <<head[v]>> \in Seq(Int)
    OBVIOUS
  <2>2. (IF rest[v] > 0 THEN f[rest[v]] ELSE <<>>) \in Seq(Int)
    OBVIOUS
  <2> QED BY <2>1, <2>2, ConcatProperties
<1>2. \A f, g \in [D -> Seq(Int)] : \A v \in D :
        (rest[v] > 0 => f[rest[v]] = g[rest[v]]) => Out(f, v) = Out(g, v)
  OBVIOUS
<1>3. \A f \in [D -> Seq(Int)] : \A v \in D : v <= 0 => Out(f, v) = <<head[v]>>
  <2> SUFFICES ASSUME NEW f \in [D -> Seq(Int)], NEW v \in D, v <= 0
               PROVE  Out(f, v) = <<head[v]>>
    OBVIOUS
  <2>1. ~(rest[v] > 0)
    OBVIOUS
  <2>2. <<head[v]>> \o <<>> = <<head[v]>>
    OBVIOUS
  <2> QED BY <2>1, <2>2
<1> HIDE DEF Out
<1>4. \A n \in Nat : (\A m \in 0..(n - 1) : m \in S) => n \in S
  <2> SUFFICES ASSUME NEW n \in Nat, \A m \in 0..(n - 1) : m \in S PROVE Upto(n)
    OBVIOUS
  <2>1. CASE n = 0
    <3> DEFINE f == [v \in D |-> <<head[v]>>]
    <3>1. f \in [D -> Seq(Int)]
      OBVIOUS
    <3>2. \A v \in D : v <= n => f[v] = Out(f, v)
      BY <1>3, <2>1, <3>1
    <3> HIDE DEF f
    <3> QED BY <3>1, <3>2
  <2>2. CASE n > 0
    <3>1. n - 1 \in 0..(n - 1)
      BY <2>2
    <3>2. PICK g \in [D -> Seq(Int)] : \A v \in D : v <= n - 1 => g[v] = Out(g, v)
      BY <3>1
    <3> DEFINE f == [v \in D |-> IF v = n THEN Out(g, n) ELSE g[v]]
    <3>3. f \in [D -> Seq(Int)]
      BY <1>1
    <3>4. ASSUME NEW v \in D, v <= n PROVE f[v] = Out(f, v)
      <4>1. rest[v] > 0 => rest[v] \in D /\ rest[v] # n
        BY <3>4
      <4>2. rest[v] > 0 => f[rest[v]] = g[rest[v]]
        BY <4>1
      <4>3. Out(f, v) = Out(g, v)
        BY <1>2, <3>3, <4>2
      <4>4. f[v] = Out(g, v)
        BY <3>2, <3>4
      <4> QED BY <4>3, <4>4
    <3> HIDE DEF f
    <3> QED BY <3>3, <3>4
  <2> QED BY <2>1, <2>2
<1> HIDE DEF S
<1>5. S = Nat
  <2>1. S \in SUBSET Nat
    BY DEF S
  <2> QED BY <1>4, <2>1, Induction
<1>6. Upto(hi)
  BY <1>5 DEF S
<1>7. PICK f \in [D -> Seq(Int)] : \A v \in D : v <= hi => f[v] = Out(f, v)
  BY <1>6
<1>8. \A v \in D : f[v] = Out(f, v)
  BY <1>7
<1>9. f = [v \in D |-> Out(f, v)]
  BY <1>8
<1> QED BY <1>9 DEF Out, Loops

\* And there is no other such function but of sequences.
LEMMA LoopTyped ==
    ASSUME NEW lo \in Int, NEW hi \in Nat, NEW head \in [lo..hi -> Int],
           NEW rest \in [lo..hi -> Int], Descends(lo, hi, rest),
           NEW f, Loops(f, lo, hi, head, rest)
    PROVE  f \in [lo..hi -> Seq(Int)]
<1> DEFINE S == {n \in Nat : \A v \in lo..hi : v <= n => f[v] \in Seq(Int)}
<1>1. ASSUME NEW n \in Nat, \A m \in 0..(n - 1) : m \in S PROVE n \in S
  <2> SUFFICES ASSUME NEW v \in lo..hi, v <= n PROVE f[v] \in Seq(Int)
    OBVIOUS
  <2>1. f[v] = <<head[v]>> \o (IF rest[v] > 0 THEN f[rest[v]] ELSE <<>>)
    BY DEF Loops
  <2>2. rest[v] > 0 => f[rest[v]] \in Seq(Int)
    <3> SUFFICES ASSUME rest[v] > 0 PROVE f[rest[v]] \in Seq(Int)
      OBVIOUS
    <3>1. rest[v] \in lo..hi /\ rest[v] <= n - 1 /\ n - 1 \in 0..(n - 1)
      BY DEF Descends
    <3> QED BY <1>1, <3>1
  <2>3. <<head[v]>> \in Seq(Int)
    OBVIOUS
  <2>4. (IF rest[v] > 0 THEN f[rest[v]] ELSE <<>>) \in Seq(Int)
    BY <2>2
  <2> DEFINE a == <<head[v]>>
             b == IF rest[v] > 0 THEN f[rest[v]] ELSE <<>>
  <2>5. a \in Seq(Int) /\ b \in Seq(Int) /\ f[v] = a \o b
    BY <2>1, <2>3, <2>4
  <2> HIDE DEF a, b
  <2> QED BY <2>5, ConcatProperties
<1> HIDE DEF S
<1>2. S = Nat
  <2>1. S \in SUBSET Nat
    BY DEF S
  <2> QED BY <1>1, <2>1, Induction
<1>3. hi \in S
  BY <1>2
<1>4. \A v \in lo..hi : f[v] \in Seq(Int)
  BY <1>3 DEF S
<1> QED BY <1>4 DEF Loops

\* The two loops: of formatInteger, with the division of C, and of the pointers.
Greatest == 2^W - 1
DecHead == [v \in MinInt..Greatest |-> v - 10 * Rest(v) + 48]
DecRest == [v \in MinInt..Greatest |-> Rest(v)]
HexHead == [v \in 0..Greatest |-> (v % 16) + (IF v % 16 < 10 THEN 48 ELSE 55)]
HexRest == [v \in 0..Greatest |-> v \div 16]

LEMMA RangeFacts == MinInt \in Int /\ Greatest \in Nat /\ MinInt <= 0 /\ Unsigned = 0..Greatest
BY LogAssumption DEF MinInt, Greatest, Unsigned

LEMMA RestFacts ==
    ASSUME NEW v \in Int
    PROVE  /\ Rest(v) \in Int /\ (Rest(v) > 0 => Rest(v) < v)
           /\ v >= 0 => v - 10 * Rest(v) \in 0..9 /\ Rest(v) >= 0
BY DEF Rest

LEMMA DecFacts ==
    /\ DecHead \in [MinInt..Greatest -> Int] /\ DecRest \in [MinInt..Greatest -> Int]
    /\ Descends(MinInt, Greatest, DecRest)
    /\ \A v \in 0..Greatest : /\ Digit(DecHead[v]) \in 0..9 /\ DecRest[v] >= 0
                          /\ v = 10 * DecRest[v] + Digit(DecHead[v])
<1> DEFINE lo == MinInt
           hi == Greatest
<1>1. lo \in Int /\ hi \in Nat /\ lo <= 0
  BY RangeFacts
<1> HIDE DEF lo, hi
<1>2. DecHead = [v \in lo..hi |-> v - 10 * Rest(v) + 48] /\ DecRest = [v \in lo..hi |-> Rest(v)]
  BY DEF DecHead, DecRest, lo, hi
<1>3. DecHead \in [lo..hi -> Int] /\ DecRest \in [lo..hi -> Int]
  <2>1. \A v \in lo..hi : v \in Int /\ Rest(v) \in Int
    BY <1>1, RestFacts
  <2> QED BY <1>2, <2>1
<1>4. Descends(lo, hi, DecRest)
  <2> SUFFICES ASSUME NEW v \in lo..hi, Rest(v) > 0 PROVE Rest(v) \in lo..hi /\ Rest(v) < v
    BY <1>2 DEF Descends
  <2> QED BY <1>1, RestFacts
<1>5. ASSUME NEW v \in 0..hi
      PROVE  /\ Digit(DecHead[v]) \in 0..9 /\ DecRest[v] >= 0
             /\ v = 10 * DecRest[v] + Digit(DecHead[v])
  <2>1. v \in lo..hi /\ v >= 0 /\ v \in Int
    BY <1>1
  <2>2. Rest(v) \in Int /\ v - 10 * Rest(v) \in 0..9 /\ Rest(v) >= 0
    BY <2>1, RestFacts
  <2>3. DecHead[v] = v - 10 * Rest(v) + 48 /\ DecRest[v] = Rest(v)
    BY <1>2, <2>1
  <2> QED BY <2>1, <2>2, <2>3 DEF Digit
<1> QED BY <1>3, <1>4, <1>5 DEF lo, hi

LEMMA HexFacts ==
    /\ HexHead \in [0..Greatest -> Int] /\ HexRest \in [0..Greatest -> Int]
    /\ Descends(0, Greatest, HexRest)
    /\ \A v \in 0..Greatest : /\ Digit(HexHead[v]) \in 0..15 /\ HexRest[v] >= 0
                          /\ v = 16 * HexRest[v] + Digit(HexHead[v])
BY RangeFacts DEF HexHead, HexRest, Descends, Digit

\* The recursive functions of the model are these loops.
LEMMA GeneratedLoops ==
    Loops(Generated, MinInt, Greatest, DecHead, DecRest) /\ Generated \in [MinInt..Greatest -> Seq(Int)]
<1>1. \E f \in [MinInt..Greatest -> Seq(Int)] : Loops(f, MinInt, Greatest, DecHead, DecRest)
  BY RangeFacts, DecFacts, LoopExists
<1>2. PICK f \in [MinInt..Greatest -> Seq(Int)] :
        f = [v \in MinInt..Greatest |-> <<v - 10 * Rest(v) + 48>>
                                      \o (IF Rest(v) > 0 THEN f[Rest(v)] ELSE <<>>)]
  BY <1>1 DEF Loops, DecHead, DecRest
<1>3. Generated = [v \in MinInt..Greatest |-> <<v - 10 * Rest(v) + 48>>
                     \o (IF Rest(v) > 0 THEN Generated[Rest(v)] ELSE <<>>)]
  BY <1>2 DEF Generated, Greatest
<1>4. Loops(Generated, MinInt, Greatest, DecHead, DecRest)
  BY <1>3 DEF Loops, DecHead, DecRest
<1> QED BY <1>4, RangeFacts, DecFacts, LoopTyped

LEMMA HexGeneratedLoops ==
    Loops(HexGenerated, 0, Greatest, HexHead, HexRest) /\ HexGenerated \in [0..Greatest -> Seq(Int)]
<1> DEFINE zero == 0
<1>0. /\ zero \in Int /\ Greatest \in Nat /\ Descends(zero, Greatest, HexRest)
      /\ HexHead \in [zero..Greatest -> Int] /\ HexRest \in [zero..Greatest -> Int]
  BY RangeFacts, HexFacts
<1>1. \E f \in [zero..Greatest -> Seq(Int)] : Loops(f, zero, Greatest, HexHead, HexRest)
  <2> HIDE DEF zero
  <2> QED BY <1>0, LoopExists
<1>2. PICK f \in [0..Greatest -> Seq(Int)] :
        f = [v \in 0..Greatest |-> <<(v % 16) + (IF v % 16 < 10 THEN 48 ELSE 55)>>
                                 \o (IF v \div 16 > 0 THEN f[v \div 16] ELSE <<>>)]
  BY <1>1 DEF Loops, HexHead, HexRest
<1>3. HexGenerated = [v \in 0..Greatest |-> <<(v % 16) + (IF v % 16 < 10 THEN 48 ELSE 55)>>
                        \o (IF v \div 16 > 0 THEN HexGenerated[v \div 16] ELSE <<>>)]
  BY <1>2 DEF HexGenerated, Unsigned, Greatest
<1>4. Loops(HexGenerated, 0, Greatest, HexHead, HexRest)
  BY <1>3 DEF Loops, HexHead, HexRest
<1>5. HexGenerated \in [zero..Greatest -> Seq(Int)]
  <2>1. Loops(HexGenerated, zero, Greatest, HexHead, HexRest)
    BY <1>4
  <2> HIDE DEF zero
  <2> QED BY <1>0, <2>1, LoopTyped
<1> QED BY <1>4, <1>5

\* The reference definition, as the equations that define it.
LEMMA ValuesFacts ==
    ASSUME NEW b \in Nat, NEW s \in Seq(Int)
    PROVE  /\ Values(b, s) \in [0..Len(s) -> Int] /\ Values(b, s)[0] = 0
           /\ \A i \in 1..Len(s) : Values(b, s)[i] = b * Values(b, s)[i - 1] + Digit(s[i])
<1> DEFINE N == Len(s)
           Out(g, i) == IF i = 0 THEN 0 ELSE b * g[i - 1] + Digit(s[i])
           Upto(n) == \E g \in [0..N -> Int] : \A i \in 0..N : i <= n => g[i] = Out(g, i)
           S == {n \in Nat : Upto(n)}
<1>1. N \in Nat /\ \A i \in 1..N : Digit(s[i]) \in Int
  BY DEF Digit
<1> HIDE DEF N
<1>2. \A g \in [0..N -> Int] : \A i \in 0..N : Out(g, i) \in Int
  BY <1>1
<1>3. \A g, h \in [0..N -> Int] : \A i \in 0..N :
        (i > 0 => g[i - 1] = h[i - 1]) => Out(g, i) = Out(h, i)
  BY <1>1
<1>4. \A g : Out(g, 0) = 0
  OBVIOUS
<1> HIDE DEF Out
<1>5. ASSUME NEW n \in Nat, \A m \in 0..(n - 1) : m \in S PROVE n \in S
  <2>1. CASE n = 0
    <3> DEFINE g == [i \in 0..N |-> 0]
    <3>1. g \in [0..N -> Int] /\ \A i \in 0..N : i <= n => g[i] = Out(g, i)
      BY <1>1, <1>4, <2>1
    <3> HIDE DEF g
    <3> QED BY <3>1
  <2>2. CASE n > 0
    <3>1. n - 1 \in S
      <4>1. n - 1 \in 0..(n - 1)
        BY <2>2
      <4> HIDE DEF S
      <4> QED BY <1>5, <4>1
    <3>2. PICK g \in [0..N -> Int] : \A i \in 0..N : i <= n - 1 => g[i] = Out(g, i)
      BY <3>1
    <3> DEFINE h == [i \in 0..N |-> IF i = n THEN Out(g, n) ELSE g[i]]
    <3>3. h \in [0..N -> Int]
      BY <1>2
    <3>4. ASSUME NEW i \in 0..N, i <= n PROVE h[i] = Out(h, i)
      <4>1. i > 0 => i - 1 \in 0..N /\ h[i - 1] = g[i - 1]
        BY <1>1, <3>4
      <4>2. Out(h, i) = Out(g, i)
        BY <1>3, <3>3, <4>1
      <4>3. h[i] = Out(g, i)
        BY <1>1, <3>2, <3>4
      <4> QED BY <4>2, <4>3
    <3> HIDE DEF h
    <3> QED BY <3>3, <3>4
  <2> QED BY <2>1, <2>2
<1> HIDE DEF S
<1>6. S = Nat
  <2>1. S \in SUBSET Nat
    BY DEF S
  <2> QED BY <1>5, <2>1, Induction
<1>7. Upto(N)
  BY <1>1, <1>6 DEF S
<1>8. PICK g \in [0..N -> Int] : \A i \in 0..N : i <= N => g[i] = Out(g, i)
  BY <1>7
<1>9. \A i \in 0..N : g[i] = Out(g, i)
  BY <1>1, <1>8
<1>10. g = [i \in 0..N |-> Out(g, i)]
  BY <1>9
<1>11. Values(b, s) = [i \in 0..N |-> Out(Values(b, s), i)]
  BY <1>10 DEF Values, Out, N
<1> DEFINE V == Values(b, s)
<1> HIDE DEF V
<1>12. V = [i \in 0..N |-> Out(V, i)]
  BY <1>11 DEF V
<1>13. V[0] = 0 /\ \A i \in 1..N : V[i] = b * V[i - 1] + Digit(s[i])
  BY <1>1, <1>12 DEF Out
<1> DEFINE Z == {n \in Nat : n <= N => V[n] \in Int}
<1>14. ASSUME NEW n \in Nat, \A m \in 0..(n - 1) : m \in Z PROVE n \in Z
  <2>1. CASE n = 0
    BY <1>13, <2>1
  <2>2. CASE n > 0
    <3> SUFFICES ASSUME n <= N PROVE V[n] \in Int
      OBVIOUS
    <3>1. n \in 1..N /\ n - 1 \in Z /\ n - 1 <= N
      BY <1>1, <1>14, <2>2
    <3>2. V[n - 1] \in Int /\ Digit(s[n]) \in Int
      BY <1>1, <3>1
    <3> QED BY <1>13, <3>1, <3>2
  <2> QED BY <2>1, <2>2
<1> HIDE DEF Z
<1>15. Z = Nat
  <2>1. Z \in SUBSET Nat
    BY DEF Z
  <2> QED BY <1>14, <2>1, Induction
<1>16. \A i \in 0..N : V[i] \in Int
  <2> SUFFICES ASSUME NEW i \in 0..N PROVE V[i] \in Int
    OBVIOUS
  <2>1. i \in Z /\ i <= N
    BY <1>1, <1>15
  <2> QED BY <2>1 DEF Z
<1>17. V \in [0..N -> Int]
  BY <1>12, <1>16
<1> QED BY <1>13, <1>17 DEF V, N

\* One more digit: the beginnings before it denote what they did.
LEMMA ValuesAppend ==
    ASSUME NEW b \in Nat, NEW s \in Seq(Int), NEW c \in Int
    PROVE  Values(b, Append(s, c))[Len(s) + 1] = b * Values(b, s)[Len(s)] + Digit(c)
<1> DEFINE t == Append(s, c)
           V == Values(b, s)
           U == Values(b, t)
           N == Len(s)
           Z == {n \in Nat : n <= N => U[n] = V[n]}
<1>1. /\ N \in Nat /\ t \in Seq(Int) /\ Len(t) = N + 1
      /\ t[N + 1] = c /\ \A i \in 1..N : t[i] = s[i]
  BY AppendProperties
<1>2. V[0] = 0 /\ \A i \in 1..N : V[i] = b * V[i - 1] + Digit(s[i])
  BY ValuesFacts
<1> HIDE DEF t
<1>3. U[0] = 0 /\ \A i \in 1..(N + 1) : U[i] = b * U[i - 1] + Digit(t[i])
  BY <1>1, ValuesFacts
<1> HIDE DEF V, U, N
<1>4. ASSUME NEW n \in Nat, \A m \in 0..(n - 1) : m \in Z PROVE n \in Z
  <2>1. CASE n = 0
    BY <1>2, <1>3, <2>1
  <2>2. CASE n > 0
    <3> SUFFICES ASSUME n <= N PROVE U[n] = V[n]
      OBVIOUS
    <3>1. n \in 1..N /\ n \in 1..(N + 1) /\ n - 1 \in Z /\ n - 1 <= N
      BY <1>1, <1>4, <2>2
    <3>2. U[n - 1] = V[n - 1] /\ t[n] = s[n]
      BY <1>1, <3>1
    <3> QED BY <1>2, <1>3, <3>1, <3>2
  <2> QED BY <2>1, <2>2
<1> HIDE DEF Z
<1>5. Z = Nat
  <2>1. Z \in SUBSET Nat
    BY DEF Z
  <2> QED BY <1>4, <2>1, Induction
<1>6. U[N] = V[N]
  BY <1>1, <1>5 DEF Z
<1>7. N + 1 \in 1..(N + 1) /\ (N + 1) - 1 = N
  BY <1>1
<1>8. U[N + 1] = b * U[N] + Digit(c)
  BY <1>1, <1>3, <1>7
<1> QED BY <1>6, <1>8 DEF U, V, N, t

\* Reverse is the one of std::reverse: the last becomes the first.
LEMMA ReverseFacts ==
    ASSUME NEW s \in Seq(Int), NEW c \in Int
    PROVE  /\ Reverse(s) \in Seq(Int) /\ Len(Reverse(s)) = Len(s)
           /\ Reverse(<<c>>) = <<c>>
           /\ Reverse(<<c>> \o s) = Append(Reverse(s), c)
           /\ Reverse(s \o <<c>>) = <<c>> \o Reverse(s)
<1>1. Reverse(s) \in Seq(Int) /\ Len(Reverse(s)) = Len(s)
  BY DEF Reverse
<1>2. Reverse(<<c>>) = <<c>>
  BY DEF Reverse
<1> DEFINE R == Reverse(s)
           N == Len(s)
<1>3. N \in Nat /\ R \in Seq(Int) /\ Len(R) = N /\ \A i \in 1..N : R[i] = s[(N - i) + 1]
  BY <1>1 DEF Reverse
<1>4. Reverse(<<c>> \o s) = Append(R, c)
  <2> DEFINE t == <<c>> \o s
  <2>1. /\ t \in Seq(Int) /\ Len(t) = N + 1 /\ t[1] = c
        /\ \A i \in 2..(N + 1) : t[i] = s[i - 1]
    BY ConcatProperties
  <2> HIDE DEF t
  <2>2. /\ Reverse(t) \in Seq(Int) /\ Len(Reverse(t)) = N + 1
        /\ \A i \in 1..(N + 1) : Reverse(t)[i] = t[(N + 1 - i) + 1]
    BY <1>3, <2>1 DEF Reverse
  <2> HIDE DEF R, N
  <2>3. /\ Append(R, c) \in Seq(Int) /\ Len(Append(R, c)) = N + 1
        /\ \A i \in 1..N : Append(R, c)[i] = R[i]
        /\ Append(R, c)[N + 1] = c
    BY <1>3, AppendProperties
  <2>4. ASSUME NEW i \in 1..(N + 1) PROVE Reverse(t)[i] = Append(R, c)[i]
    <3>1. CASE i = N + 1
      BY <1>3, <2>1, <2>2, <2>3, <3>1
    <3>2. CASE i \in 1..N
      <4>1. (N + 1 - i) + 1 \in 2..(N + 1) /\ ((N + 1 - i) + 1) - 1 = (N - i) + 1
        BY <1>3, <3>2
      <4>2. Reverse(t)[i] = s[(N - i) + 1]
        BY <2>1, <2>2, <4>1
      <4> QED BY <1>3, <2>3, <3>2, <4>2
    <3> QED BY <1>3, <3>1, <3>2
  <2>5. Reverse(t) = Append(R, c)
    BY <1>3, <2>2, <2>3, <2>4, SeqEqual
  <2> QED BY <2>5 DEF t
<1>5. Reverse(s \o <<c>>) = <<c>> \o R
  <2> DEFINE t == s \o <<c>>
             u == <<c>> \o R
  <2>1. /\ t \in Seq(Int) /\ Len(t) = N + 1 /\ t[N + 1] = c
        /\ \A i \in 1..N : t[i] = s[i]
    BY ConcatProperties
  <2>2. /\ u \in Seq(Int) /\ Len(u) = N + 1 /\ u[1] = c
        /\ \A i \in 2..(N + 1) : u[i] = R[i - 1]
    <3> HIDE DEF R, N
    <3> QED BY <1>3, ConcatProperties
  <2> HIDE DEF t, u
  <2>3. /\ Reverse(t) \in Seq(Int) /\ Len(Reverse(t)) = N + 1
        /\ \A i \in 1..(N + 1) : Reverse(t)[i] = t[(N + 1 - i) + 1]
    BY <1>3, <2>1 DEF Reverse
  <2> HIDE DEF R, N
  <2>4. ASSUME NEW i \in 1..(N + 1) PROVE Reverse(t)[i] = u[i]
    <3>1. CASE i = 1
      <4>1. (N + 1 - i) + 1 = N + 1 /\ i \in 1..(N + 1)
        BY <1>3, <3>1
      <4> QED BY <2>1, <2>2, <2>3, <3>1, <4>1
    <3>2. CASE i \in 2..(N + 1)
      <4>1. /\ (N + 1 - i) + 1 \in 1..N /\ i - 1 \in 1..N
            /\ (N - (i - 1)) + 1 = (N + 1 - i) + 1
        BY <1>3, <3>2
      <4>2. R[i - 1] = s[(N + 1 - i) + 1]
        BY <1>3, <4>1
      <4> QED BY <2>1, <2>2, <2>3, <3>2, <4>1, <4>2
    <3> QED BY <1>3, <3>1, <3>2
  <2>5. Reverse(t) = u
    BY <1>3, <2>2, <2>3, <2>4, SeqEqual
  <2> QED BY <2>5 DEF t, u
<1> QED BY <1>1, <1>2, <1>4, <1>5

\* A digit alone, and a digit behind digits that denote a positive number.
LEMMA DenotesDigit ==
    ASSUME NEW b \in Nat, NEW c \in Int, Digit(c) \in 0..(b - 1)
    PROVE  Denotes(b, <<c>>, Digit(c))
<1>1. <<>> \in Seq(Int) /\ Len(<<>>) = 0 /\ Append(<<>>, c) = <<c>>
  OBVIOUS
<1>2. Values(b, <<c>>)[0 + 1] = b * Values(b, <<>>)[0] + Digit(c)
  BY <1>1, ValuesAppend
<1>3. Values(b, <<>>)[0] = 0
  BY <1>1, ValuesFacts
<1>4. Values(b, <<c>>)[1] = Digit(c)
  BY <1>2, <1>3
<1> QED BY <1>4 DEF Denotes

LEMMA DenotesAppend ==
    ASSUME NEW b \in Nat, NEW s \in Seq(Int), NEW v \in Nat, v > 0, Denotes(b, s, v),
           NEW c \in Int, Digit(c) \in 0..(b - 1)
    PROVE  Denotes(b, Append(s, c), b * v + Digit(c))
<1> DEFINE t == Append(s, c)
           N == Len(s)
<1>1. /\ N \in Nat /\ N > 0 /\ t \in Seq(Int) /\ Len(t) = N + 1
      /\ t[N + 1] = c /\ \A i \in 1..N : t[i] = s[i]
  BY AppendProperties DEF Denotes
<1>2. \A i \in 1..N : Digit(s[i]) \in 0..(b - 1)
  BY DEF Denotes
<1>3. Values(b, s)[N] = v
  BY DEF Denotes
<1>4. Values(b, t)[N + 1] = b * v + Digit(c)
  BY <1>3, ValuesAppend
<1>5. s[1] # 48
  <2>1. CASE N > 1
    BY <2>1 DEF Denotes
  <2>2. CASE N = 1
    <3>1. 1 \in 1..Len(s) /\ 1 - 1 = 0
      BY <2>2
    <3>2. Values(b, s)[1] = b * Values(b, s)[0] + Digit(s[1]) /\ Values(b, s)[0] = 0
      BY <3>1, ValuesFacts
    <3>3. b * 0 = 0
      OBVIOUS
    <3>4. Digit(s[1]) = v
      <4>1. Digit(s[1]) \in Int
        BY <1>2, <2>2
      <4> QED BY <1>3, <2>2, <3>2, <3>3, <4>1
    <3> QED BY <3>4 DEF Digit
  <2>3. N = 1 \/ N > 1
    <3>1. N \in Nat /\ N > 0
      BY <1>1
    <3> HIDE DEF N
    <3> QED BY <3>1
  <2> QED BY <2>1, <2>2, <2>3
<1> HIDE DEF t, N
<1>6. t # <<>> /\ t[1] # 48 /\ DOMAIN t = 1..(N + 1)
  BY <1>1, <1>5
<1>7. ASSUME NEW i \in 1..(N + 1) PROVE Digit(t[i]) \in 0..(b - 1)
  <2>1. CASE i = N + 1
    BY <1>1, <2>1
  <2>2. CASE i \in 1..N
    BY <1>1, <1>2, <2>2
  <2> QED BY <1>1, <2>1, <2>2
<1> QED BY <1>1, <1>4, <1>6, <1>7 DEF Denotes, t

\* Such a loop, reversed, writes the number down.
LEMMA LoopDenotes ==
    ASSUME NEW b \in Nat, NEW lo \in Int, lo <= 0, NEW hi \in Nat,
           NEW head \in [lo..hi -> Int], NEW rest \in [lo..hi -> Int],
           NEW f \in [lo..hi -> Seq(Int)],
           Descends(lo, hi, rest), Loops(f, lo, hi, head, rest),
           \A v \in 0..hi : /\ Digit(head[v]) \in 0..(b - 1) /\ rest[v] >= 0
                            /\ v = b * rest[v] + Digit(head[v])
    PROVE  \A v \in 0..hi : Denotes(b, Reverse(f[v]), v)
<1> DEFINE S == {n \in Nat : n <= hi => Denotes(b, Reverse(f[n]), n)}
<1>1. ASSUME NEW n \in Nat, \A m \in 0..(n - 1) : m \in S PROVE n \in S
  <2> SUFFICES ASSUME n <= hi PROVE Denotes(b, Reverse(f[n]), n)
    OBVIOUS
  <2> DEFINE h == head[n]
             r == rest[n]
  <2> HIDE DEF S
  <2>1. /\ n \in lo..hi /\ h \in Int /\ r \in Nat /\ Digit(h) \in 0..(b - 1)
        /\ n = b * r + Digit(h)
    <3>1. n \in 0..hi /\ n \in lo..hi
      OBVIOUS
    <3>2. head[n] \in Int /\ rest[n] \in Int
      BY <3>1
    <3>3. Digit(head[n]) \in 0..(b - 1) /\ rest[n] >= 0 /\ n = b * rest[n] + Digit(head[n])
      BY <3>1
    <3> QED BY <3>1, <3>2, <3>3
  <2>2. f[n] = <<h>> \o (IF r > 0 THEN f[r] ELSE <<>>)
    BY <2>1 DEF Loops
  <2>3. r > 0 => r \in 0..(n - 1) /\ r \in lo..hi
    BY <2>1 DEF Descends
  <2> HIDE DEF h, r
  <2>4. CASE r > 0
    <3>1. f[r] \in Seq(Int) /\ r \in S /\ r <= hi
      BY <1>1, <2>1, <2>3, <2>4
    <3>2. Denotes(b, Reverse(f[r]), r)
      BY <3>1 DEF S
    <3>3. Reverse(f[n]) = Append(Reverse(f[r]), h) /\ Reverse(f[r]) \in Seq(Int)
      BY <2>1, <2>2, <2>4, <3>1, ReverseFacts
    <3>4. Denotes(b, Append(Reverse(f[r]), h), b * r + Digit(h))
      BY <2>1, <2>4, <3>2, <3>3, DenotesAppend
    <3> QED BY <2>1, <3>3, <3>4
  <2>5. CASE r = 0
    <3>1. f[n] = <<h>>
      <4>1. <<h>> \o <<>> = <<h>>
        BY <2>1
      <4> QED BY <2>2, <2>5, <4>1
    <3>2. Reverse(<<h>>) = <<h>>
      BY <2>1 DEF Reverse
    <3>3. n = Digit(h)
      <4>1. b * 0 = 0
        OBVIOUS
      <4> QED BY <2>1, <2>5, <4>1
    <3>4. Denotes(b, <<h>>, Digit(h))
      BY <2>1, DenotesDigit
    <3> QED BY <3>1, <3>2, <3>3, <3>4
  <2> QED BY <2>1, <2>4, <2>5
<1> HIDE DEF S
<1>2. S = Nat
  <2>1. S \in SUBSET Nat
    BY DEF S
  <2> QED BY <1>1, <2>1, Induction
<1> SUFFICES ASSUME NEW v \in 0..hi PROVE Denotes(b, Reverse(f[v]), v)
  OBVIOUS
<1>3. v \in S /\ v <= hi
  BY <1>2
<1> QED BY <1>3 DEF S

\* k times round the loop are enough for a number below b^k.
LEMMA LoopLength ==
    ASSUME NEW b \in {10, 16}, NEW lo \in Int, lo <= 0, NEW hi \in Nat,
           NEW head \in [lo..hi -> Int], NEW rest \in [lo..hi -> Int],
           NEW f \in [lo..hi -> Seq(Int)],
           Descends(lo, hi, rest), Loops(f, lo, hi, head, rest),
           \A v \in 0..hi : /\ Digit(head[v]) \in 0..(b - 1) /\ rest[v] >= 0
                            /\ v = b * rest[v] + Digit(head[v])
    PROVE  \A k \in 1..kMaxNumericSize : \A v \in 0..hi : v < b^k => Len(f[v]) \in 1..k
<1> DEFINE S == {k \in Nat : k \in 1..kMaxNumericSize =>
                                \A v \in 0..hi : v < b^k => Len(f[v]) \in 1..k}
<1>0. kMaxNumericSize \in Nat
  BY LogAssumption
<1>1. ASSUME NEW k \in Nat, \A m \in 0..(k - 1) : m \in S PROVE k \in S
  <2> SUFFICES ASSUME k \in 1..kMaxNumericSize, NEW v \in 0..hi, v < b^k
               PROVE  Len(f[v]) \in 1..k
    OBVIOUS
  <2> HIDE DEF S
  <2> DEFINE r == rest[v]
             p == b^(k - 1)
  <2>1. k - 1 \in 0..kMaxNumericSize /\ (k - 1) + 1 = k
    BY <1>0
  <2>2. p \in Nat /\ b^k = b * p /\ (k - 1 = 0 => p = 1)
    BY <2>1, NumbersAssumption
  <2>3. /\ v \in lo..hi /\ r \in Int /\ r >= 0 /\ Digit(head[v]) \in 0..(b - 1)
        /\ v = b * r + Digit(head[v])
    <3>1. v \in lo..hi
      OBVIOUS
    <3>2. Digit(head[v]) \in 0..(b - 1) /\ r >= 0 /\ v = b * r + Digit(head[v])
      OBVIOUS
    <3> QED BY <3>1, <3>2
  <2>4. f[v] = <<head[v]>> \o (IF r > 0 THEN f[r] ELSE <<>>)
    BY <2>3 DEF Loops
  <2>5. r > 0 => r \in lo..hi /\ r \in 0..hi
    BY <2>3 DEF Descends
  <2> HIDE DEF r, p
  <2>6. r < p
    <3> DEFINE d == Digit(head[v])
               q == b^k
    <3>1. d \in Nat /\ v = b * r + d /\ q = b * p /\ v < q /\ p \in Nat /\ r \in Int /\ v \in Int
      BY <2>2, <2>3
    <3> HIDE DEF d, q
    <3>2. CASE b = 10
      BY <3>1, <3>2
    <3>3. CASE b = 16
      BY <3>1, <3>3
    <3> QED BY <3>2, <3>3
  <2>7. CASE r > 0
    <3>1. k - 1 \in 1..kMaxNumericSize /\ k - 1 \in 0..(k - 1)
      BY <1>0, <2>2, <2>3, <2>6, <2>7
    <3>2. k - 1 \in S
      BY <1>1, <3>1
    <3>3. Len(f[r]) \in 1..(k - 1)
      BY <2>5, <2>6, <2>7, <3>1, <3>2 DEF S, p
    <3>4. f[r] \in Seq(Int) /\ f[v] = <<head[v]>> \o f[r] /\ head[v] \in Int
      BY <2>3, <2>4, <2>5, <2>7
    <3> DEFINE n == Len(f[r])
    <3>5. Len(f[v]) = 1 + n
      BY <3>4
    <3>6. n \in 1..(k - 1)
      BY <3>3
    <3> HIDE DEF n
    <3>7. 1 + n \in 1..k
      BY <3>6
    <3> QED BY <3>5, <3>7
  <2>8. CASE r = 0
    <3>1. f[v] = <<head[v]>> \o <<>> /\ head[v] \in Int
      BY <2>3, <2>4, <2>8
    <3>2. Len(f[v]) = 1
      BY <3>1
    <3> QED BY <3>2
  <2> QED BY <2>3, <2>7, <2>8
<1> HIDE DEF S
<1>2. S = Nat
  <2>1. S \in SUBSET Nat
    BY DEF S
  <2> QED BY <1>1, <2>1, Induction
<1> SUFFICES ASSUME NEW k \in 1..kMaxNumericSize PROVE \A v \in 0..hi : v < b^k => Len(f[v]) \in 1..k
  OBVIOUS
<1>3. k \in S
  BY <1>0, <1>2
<1> QED BY <1>3 DEF S

\* No number is longer than kMaxNumericSize allows.
LEMMA FormatFacts ==
    /\ \A v \in MinInt..(2^W - 1) :
          Len(FormatInteger(v)) \in Nat /\ Len(FormatInteger(v)) < kMaxNumericSize
    /\ \A v \in 0..MaxInt :
          Len(FormatInteger(v)) \in Nat /\ Len(FormatInteger(v)) < kMaxNumericSize
    /\ \A v \in Unsigned :
          Len(FormatPointer(v)) \in Nat /\ Len(FormatPointer(v)) < kMaxNumericSize
<1> DEFINE K == kMaxNumericSize
<1>0. K \in Nat /\ K > 3 /\ K - 2 \in 1..K /\ K - 3 \in 1..K
  BY LogAssumption, NumbersAssumption
<1>1. ASSUME NEW v \in 0..Greatest
      PROVE  Generated[v] \in Seq(Int) /\ Len(Generated[v]) \in 1..(K - 2)
  <2> DEFINE b == 10
  <2>1. /\ b \in {10, 16}
        /\ \A w \in 0..Greatest : /\ Digit(DecHead[w]) \in 0..(b - 1) /\ DecRest[w] >= 0
                                  /\ w = b * DecRest[w] + Digit(DecHead[w])
    BY DecFacts
  <2>2. v < 10^(K - 2)
    <3>1. 2^W \in Nat /\ v \in Int /\ v < 2^W
      BY RangeFacts, LogAssumption DEF Greatest
    <3>2. 10^(K - 2) \in Nat
      BY <1>0, NumbersAssumption
    <3> QED BY <3>1, <3>2, NumbersAssumption
  <2>3. v < b^(K - 2)
    BY <2>2
  <2> HIDE DEF b
  <2>4. \A k \in 1..K : \A w \in 0..Greatest : w < b^k => Len(Generated[w]) \in 1..k
    BY <2>1, RangeFacts, DecFacts, GeneratedLoops, LoopLength
  <2>5. v \in MinInt..Greatest
    BY RangeFacts
  <2> QED BY <1>0, <2>3, <2>4, <2>5, GeneratedLoops
<1>2. ASSUME NEW v \in 0..Greatest
      PROVE  HexGenerated[v] \in Seq(Int) /\ Len(HexGenerated[v]) \in 1..(K - 3)
  <2> DEFINE b == 16
             lo == 0
  <2>1. /\ b \in {10, 16} /\ lo \in Int /\ lo <= 0 /\ Greatest \in Nat
        /\ \A w \in 0..Greatest : /\ Digit(HexHead[w]) \in 0..(b - 1) /\ HexRest[w] >= 0
                                  /\ w = b * HexRest[w] + Digit(HexHead[w])
        /\ HexHead \in [lo..Greatest -> Int] /\ HexRest \in [lo..Greatest -> Int]
        /\ HexGenerated \in [lo..Greatest -> Seq(Int)]
        /\ Descends(lo, Greatest, HexRest) /\ Loops(HexGenerated, lo, Greatest, HexHead, HexRest)
    BY RangeFacts, HexFacts, HexGeneratedLoops
  <2>2. v < 16^(K - 3)
    <3>1. 2^W \in Nat /\ v \in Int /\ v < 2^W
      BY RangeFacts, LogAssumption DEF Greatest
    <3>2. 16^(K - 3) \in Nat
      BY <1>0, NumbersAssumption
    <3> QED BY <3>1, <3>2, NumbersAssumption
  <2>3. v < b^(K - 3)
    BY <2>2
  <2> HIDE DEF b, lo
  <2>4. \A k \in 1..K : \A w \in 0..Greatest : w < b^k => Len(HexGenerated[w]) \in 1..k
    BY <2>1, LoopLength
  <2> QED BY <1>0, <2>3, <2>4, HexGeneratedLoops
<1>3. ASSUME NEW s \in Seq(Int), Len(s) \in 1..(K - 2)
      PROVE  /\ Len(Reverse(s)) \in Nat /\ Len(Reverse(s)) < K
             /\ Len(Reverse(s \o <<45>>)) \in Nat /\ Len(Reverse(s \o <<45>>)) < K
  <2>1. s \o <<45>> \in Seq(Int) /\ Len(s \o <<45>>) = Len(s) + 1
    OBVIOUS
  <2>2. Len(Reverse(s)) = Len(s)
    BY DEF Reverse
  <2> DEFINE t == s \o <<45>>
  <2>3. Len(Reverse(t)) = Len(t)
    <3> HIDE DEF t
    <3>1. t \in Seq(Int)
      BY <2>1 DEF t
    <3> QED BY <3>1 DEF Reverse
  <2> QED BY <1>0, <1>3, <2>1, <2>2, <2>3
<1>4. ASSUME NEW v \in 0..Greatest
      PROVE  Len(FormatInteger(v)) \in Nat /\ Len(FormatInteger(v)) < K
  <2>1. ~(v < 0)
    BY RangeFacts
  <2> QED BY <1>1, <1>3, <2>1 DEF FormatInteger
<1>5. ASSUME NEW v \in MinInt..Greatest, v < 0
      PROVE  Len(FormatInteger(v)) \in Nat /\ Len(FormatInteger(v)) < K
  <2>1. FormatInteger(v) = Reverse(Generated[Negated(v)] \o <<45>>)
    BY <1>5 DEF FormatInteger
  <2>2. CASE v = MinInt
    <3>1. Negated(v) = v
      BY <2>2 DEF Negated
    <3>2. ~(DecRest[v] > 0)
      BY <1>5, RangeFacts, DecFacts DEF Descends
    <3>3. Generated[v] = <<DecHead[v]>> \o <<>> /\ DecHead[v] \in Int
      BY <3>2, GeneratedLoops, DecFacts DEF Loops
    <3>4. Generated[v] \in Seq(Int) /\ Len(Generated[v]) = 1
      BY <3>3
    <3>5. Len(Generated[v]) \in 1..(K - 2)
      BY <1>0, <3>4
    <3> QED BY <1>3, <2>1, <3>1, <3>4, <3>5
  <2>3. CASE v # MinInt
    <3> DEFINE h == 2^(W - 1)
    <3>0. h \in Nat /\ MinInt = 0 - h /\ MaxInt = h - 1 /\ v \in Int /\ v >= MinInt
      BY RangeFacts, LogAssumption DEF MinInt, MaxInt
    <3> HIDE DEF h
    <3>1. 0 - v \in 0..MaxInt
      BY <1>5, <2>3, <3>0
    <3>2. 0 - v \in MinInt..Greatest
      BY <3>1, LogAssumption DEF Greatest
    <3>3. Negated(v) \in 0..Greatest
      BY <2>3, <3>1, <3>2, RangeFacts DEF Negated
    <3> QED BY <1>1, <1>3, <2>1, <3>3
  <2> QED BY <2>2, <2>3
<1>6. \A v \in MinInt..Greatest :
        Len(FormatInteger(v)) \in Nat /\ Len(FormatInteger(v)) < K
  BY <1>4, <1>5, RangeFacts
<1>7. 0..MaxInt \subseteq MinInt..Greatest
  BY LogAssumption DEF Greatest
<1>8. ASSUME NEW v \in Unsigned
      PROVE  Len(FormatPointer(v)) \in Nat /\ Len(FormatPointer(v)) < K
  <2>1. v \in 0..Greatest
    BY RangeFacts
  <2> DEFINE s == Reverse(HexGenerated[v])
  <2>2. s \in Seq(Int) /\ Len(s) \in 1..(K - 3)
    BY <1>2, <2>1 DEF Reverse
  <2>3. FormatPointer(v) = <<48, 120>> \o s
    BY DEF FormatPointer
  <2> HIDE DEF s
  <2>4. Len(<<48, 120>> \o s) = 2 + Len(s)
    BY <2>2
  <2> QED BY <1>0, <2>2, <2>3, <2>4
<1> QED BY <1>6, <1>7, <1>8 DEF Greatest

\* What the formats write.
LEMMA FormatsDenote ==
    /\ \A v \in 0..Greatest : FormatInteger(v) \in Seq(Int) /\ Denotes(10, FormatInteger(v), v)
    /\ \A v \in MinInt..(0 - 1) : v # MinInt =>
          \E s \in Seq(Int) : FormatInteger(v) = <<45>> \o s /\ Denotes(10, s, 0 - v)
    /\ \A v \in 0..Greatest :
          \E s \in Seq(Int) : FormatPointer(v) = <<48, 120>> \o s /\ Denotes(16, s, v)
<1>1. ASSUME NEW v \in 0..Greatest
      PROVE  /\ Generated[v] \in Seq(Int) /\ Reverse(Generated[v]) \in Seq(Int)
             /\ Denotes(10, Reverse(Generated[v]), v)
  <2>1. v \in MinInt..Greatest
    BY RangeFacts
  <2>2. Generated[v] \in Seq(Int)
    BY <2>1, GeneratedLoops
  <2>3. Reverse(Generated[v]) \in Seq(Int)
    BY <2>2 DEF Reverse
  <2>4. \A w \in 0..Greatest : Denotes(10, Reverse(Generated[w]), w)
    <3> DEFINE b == 10
    <3>1. /\ b \in Nat
          /\ \A w \in 0..Greatest : /\ Digit(DecHead[w]) \in 0..(b - 1) /\ DecRest[w] >= 0
                                    /\ w = b * DecRest[w] + Digit(DecHead[w])
      BY DecFacts
    <3> HIDE DEF b
    <3>2. \A w \in 0..Greatest : Denotes(b, Reverse(Generated[w]), w)
      BY <3>1, RangeFacts, DecFacts, GeneratedLoops, LoopDenotes
    <3> QED BY <3>2 DEF b
  <2> QED BY <2>2, <2>3, <2>4
<1>2. ASSUME NEW v \in 0..Greatest
      PROVE  FormatInteger(v) \in Seq(Int) /\ Denotes(10, FormatInteger(v), v)
  <2>1. ~(v < 0)
    BY RangeFacts
  <2> QED BY <1>1, <2>1 DEF FormatInteger
<1>3. ASSUME NEW v \in MinInt..(0 - 1), v # MinInt
      PROVE  \E s \in Seq(Int) : FormatInteger(v) = <<45>> \o s /\ Denotes(10, s, 0 - v)
  <2>1. v < 0 /\ 0 - v \in 0..Greatest /\ Negated(v) = 0 - v
    <3>1. 0 - v \in 0..MaxInt
      BY <1>3, LogAssumption DEF MinInt, MaxInt
    <3>2. 0 - v \in MinInt..Greatest
      BY <3>1, LogAssumption DEF Greatest
    <3> QED BY <1>3, <3>1, <3>2, RangeFacts DEF Negated
  <2>2. FormatInteger(v) = Reverse(Generated[0 - v] \o <<45>>)
    BY <2>1 DEF FormatInteger
  <2>3. Reverse(Generated[0 - v] \o <<45>>) = <<45>> \o Reverse(Generated[0 - v])
    <3> DEFINE g == Generated[0 - v]
               c == 45
    <3>1. g \in Seq(Int) /\ c \in Int
      BY <1>1, <2>1
    <3> HIDE DEF g, c
    <3>2. Reverse(g \o <<c>>) = <<c>> \o Reverse(g)
      BY <3>1, ReverseFacts
    <3> QED BY <3>2 DEF g, c
  <2> QED BY <1>1, <2>1, <2>2, <2>3
<1>4. ASSUME NEW v \in 0..Greatest
      PROVE  \E s \in Seq(Int) : FormatPointer(v) = <<48, 120>> \o s /\ Denotes(16, s, v)
  <2>1. HexGenerated[v] \in Seq(Int)
    BY HexGeneratedLoops
  <2>2. Reverse(HexGenerated[v]) \in Seq(Int)
    BY <2>1 DEF Reverse
  <2>3. \A w \in 0..Greatest : Denotes(16, Reverse(HexGenerated[w]), w)
    <3> DEFINE b == 16
               lo == 0
    <3>1. /\ b \in Nat /\ lo \in Int /\ lo <= 0 /\ Greatest \in Nat
          /\ \A w \in 0..Greatest : /\ Digit(HexHead[w]) \in 0..(b - 1) /\ HexRest[w] >= 0
                                    /\ w = b * HexRest[w] + Digit(HexHead[w])
          /\ HexHead \in [lo..Greatest -> Int] /\ HexRest \in [lo..Greatest -> Int]
          /\ HexGenerated \in [lo..Greatest -> Seq(Int)]
          /\ Descends(lo, Greatest, HexRest) /\ Loops(HexGenerated, lo, Greatest, HexHead, HexRest)
      BY RangeFacts, HexFacts, HexGeneratedLoops
    <3> HIDE DEF b, lo
    <3>2. \A w \in 0..Greatest : Denotes(b, Reverse(HexGenerated[w]), w)
      BY <3>1, LoopDenotes
    <3> QED BY <3>2 DEF b
  <2>4. FormatPointer(v) = <<48, 120>> \o Reverse(HexGenerated[v])
    BY DEF FormatPointer
  <2> QED BY <2>2, <2>3, <2>4
<1> QED BY <1>2, <1>3, <1>4

-----------------------------------------------------------------------------
(* Numbers are written as they should be.                                  *)

\* For any width of the integers a number that is not dropped stands in the
\* line as its usual notation, but for the most negative value.
THEOREM NumbersExact == Spec => []FormatsExactly
<1>1. Init => FormatsExactly
  BY DEF Init, FormatsExactly
<1>2. ASSUME NEW v \in MinInt..Greatest, StreamInteger(v) PROVE FormatsExactly'
  <2> DEFINE text == FormatInteger(v)
  <2>1. /\ number'.kind = "integer" /\ number'.v = v
        /\ number'.text = text \/ number'.text = <<>>
    BY <1>2 DEF StreamInteger, StreamNumber
  <2>2. CASE v >= 0
    <3>1. v \in 0..Greatest
      BY <2>2, RangeFacts
    <3>2. Denotes(10, text, v)
      BY <3>1, FormatsDenote
    <3> QED BY <2>1, <2>2, <3>2 DEF FormatsExactly
  <2>3. CASE v < 0 /\ v # MinInt
    <3>1. v \in MinInt..(0 - 1)
      BY <2>3, RangeFacts
    <3>2. PICK s \in Seq(Int) : text = <<45>> \o s /\ Denotes(10, s, 0 - v)
      BY <2>3, <3>1, FormatsDenote
    <3>3. Head(text) = 45 /\ SubSeq(text, 2, Len(text)) = s
      <4> DEFINE t == <<45>> \o s
      <4>1. t[1] = 45 /\ t \in Seq(Int) /\ Len(t) = Len(s) + 1 /\ Len(s) \in Nat
        OBVIOUS
      <4>2. SubSeq(t, 2, Len(t)) = s
        OBVIOUS
      <4> HIDE DEF t
      <4>3. Head(t) = 45
        BY <4>1
      <4> QED BY <3>2, <4>2, <4>3 DEF t
    <3> QED BY <2>1, <2>3, <3>2, <3>3 DEF FormatsExactly
  <2>4. CASE v = MinInt
    BY <2>1, <2>4 DEF FormatsExactly
  <2> QED BY <2>2, <2>3, <2>4, RangeFacts
<1>3. ASSUME NEW v \in Unsigned, StreamPointer(v) PROVE FormatsExactly'
  <2> DEFINE text == FormatPointer(v)
  <2>1. /\ number'.kind = "pointer" /\ number'.v = v
        /\ number'.text = text \/ number'.text = <<>>
    BY <1>3 DEF StreamPointer, StreamNumber
  <2>2. v \in 0..Greatest
    BY RangeFacts
  <2>3. PICK s \in Seq(Int) : text = <<48, 120>> \o s /\ Denotes(16, s, v)
    BY <2>2, FormatsDenote
  <2> DEFINE t == <<48, 120>> \o s
  <2>4. t \in Seq(Int) /\ SubSeq(t, 1, Len(t)) = t /\ SubSeq(t, 3, Len(t)) = s
    OBVIOUS
  <2> HIDE DEF t
  <2>5. SubSeq(text, 3, Len(text)) = s /\ SubSeq(text, 1, Len(text)) = <<48, 120>> \o s
    BY <2>3, <2>4 DEF t
  <2> QED BY <2>1, <2>3, <2>5 DEF FormatsExactly
<1>4. FormatsExactly /\ number' = number => FormatsExactly'
  BY DEF FormatsExactly
<1>5. FormatsExactly /\ [Next]_vars => FormatsExactly'
  <2> SUFFICES ASSUME FormatsExactly, [Next]_vars PROVE FormatsExactly'
    OBVIOUS
  <2>1. \/ number' = number
        \/ \E v \in MinInt..Greatest : StreamInteger(v)
        \/ \E v \in Unsigned : StreamPointer(v)
    BY DEF Next, vars, Construct, StreamText, StreamDouble, Destruct, Greatest
  <2> QED BY <1>2, <1>3, <1>4, <2>1
<1> QED BY <1>1, <1>5, PTL DEF Spec
-----------------------------------------------------------------------------
(* Nothing is written outside the buffer.                                  *)

\* StaysInside with the types that it needs.
Inv == length \in Nat /\ written \in Nat /\ StaysInside

\* append() leaves room for one byte.
LEMMA AppendedInside ==
    ASSUME NEW len \in Nat, len < SIZE, NEW n \in Nat
    PROVE  Appended(len, n) \in Nat /\ Appended(len, n) < SIZE /\ len <= Appended(len, n)
BY LogAssumption DEF Appended

\* So does a number that kMaxNumericSize leaves room for, with its final '\0'.
LEMMA NumberInside ==
    ASSUME Inv, NEW len \in Nat, len < SIZE, NEW n \in Nat, n < kMaxNumericSize
    PROVE  /\ WithNumber(len, n) \in Nat /\ WithNumber(len, n) < SIZE
           /\ WithNumber(len, n) > len => WithNumber(len, n) + 1 <= SIZE
           /\ Touched(len, n) \in Nat /\ Touched(len, n) <= SIZE
BY LogAssumption DEF Inv, StaysInside, WithNumber, Touched, Fits

\* The constructors of Logger.
LEMMA ConstructInv ==
    ASSUME Inv, NEW l \in Levels, NEW n \in 0..MaxText, NEW errno \in 0..MaxInt,
           Construct(l, n, errno)
    PROVE  Inv'
<1> DEFINE named == Appended(Appended(Appended(0, TimeLen), NameLen), n)
           opened == Appended(named, 2)
           digits == Len(FormatInteger(errno))
           numbered == WithNumber(opened, digits)
<1>1. /\ length' = IF errno = 0 THEN named ELSE Appended(numbered, 2)
      /\ written' = IF errno # 0 /\ numbered > opened THEN numbered + 1 ELSE 0
  BY DEF Construct
<1>2. {SIZE, TimeLen, NameLen, n} \subseteq Nat /\ 0 < SIZE
  BY LogAssumption
<1>3. named \in Nat /\ named < SIZE
  <2> DEFINE time == Appended(0, TimeLen)
             name == Appended(time, NameLen)
  <2>1. time \in Nat /\ time < SIZE
    BY <1>2, AppendedInside
  <2> HIDE DEF time
  <2>2. name \in Nat /\ name < SIZE
    BY <1>2, <2>1, AppendedInside
  <2> HIDE DEF name
  <2>3. Appended(name, n) \in Nat /\ Appended(name, n) < SIZE
    BY <1>2, <2>2, AppendedInside
  <2> QED BY <2>3 DEF time, name
<1> HIDE DEF named
<1>4. opened \in Nat /\ opened < SIZE
  BY <1>3, AppendedInside
<1> HIDE DEF opened
<1>5. digits \in Nat /\ digits < kMaxNumericSize
  BY FormatFacts
<1> HIDE DEF digits
<1>6. numbered \in Nat /\ numbered < SIZE
  BY <1>4, <1>5, NumberInside
<1> HIDE DEF numbered
<1>7. Appended(numbered, 2) \in Nat /\ Appended(numbered, 2) < SIZE
  BY <1>6, AppendedInside
<1> QED BY <1>1, <1>2, <1>3, <1>6, <1>7 DEF Inv, StaysInside

\* operator<< of a text and of a number with a text of n characters.
LEMMA StreamInv ==
    ASSUME Inv, NEW n \in Nat,
           \/ length' = Appended(length, n) /\ written' = written
           \/ /\ n < kMaxNumericSize
              /\ length' = WithNumber(length, n) /\ written' = Touched(length, n)
    PROVE  Inv'
<1>1. length \in Nat /\ length < SIZE /\ written \in Nat /\ written <= SIZE
  BY DEF Inv, StaysInside
<1>2. Appended(length, n) \in Nat /\ Appended(length, n) < SIZE
  BY <1>1, AppendedInside
<1>3. n < kMaxNumericSize =>
        /\ WithNumber(length, n) \in Nat /\ WithNumber(length, n) < SIZE
        /\ Touched(length, n) \in Nat /\ Touched(length, n) <= SIZE
  BY <1>1, NumberInside
<1> QED BY <1>1, <1>2, <1>3 DEF Inv, StaysInside

\* ~Logger.
LEMMA DestructInv ==
    ASSUME Inv, NEW line \in 1..MaxInt, Destruct(line)
    PROVE  Inv'
<1> DEFINE file == Appended(Appended(Appended(length, 3), FileNameLen), 1)
           digits == Len(FormatInteger(line))
           numbered == WithNumber(file, digits)
<1>1. length' = Appended(numbered, 1) /\ written' = Touched(file, digits)
  BY DEF Destruct
<1>2. length \in Nat /\ length < SIZE /\ FileNameLen \in Nat
  BY LogAssumption DEF Inv, StaysInside
<1>3. file \in Nat /\ file < SIZE
  <2> DEFINE dash == Appended(length, 3)
             name == Appended(dash, FileNameLen)
  <2>1. dash \in Nat /\ dash < SIZE
    BY <1>2, AppendedInside
  <2> HIDE DEF dash
  <2>2. name \in Nat /\ name < SIZE
    BY <1>2, <2>1, AppendedInside
  <2> HIDE DEF name
  <2>3. Appended(name, 1) \in Nat /\ Appended(name, 1) < SIZE
    BY <2>2, AppendedInside
  <2> QED BY <2>3 DEF dash, name
<1> HIDE DEF file
<1>4. digits \in Nat /\ digits < kMaxNumericSize
  <2>1. line \in 0..MaxInt
    OBVIOUS
  <2> QED BY <2>1, FormatFacts
<1> HIDE DEF digits
<1>5. /\ numbered \in Nat /\ numbered < SIZE
      /\ Touched(file, digits) \in Nat /\ Touched(file, digits) <= SIZE
  BY <1>3, <1>4, NumberInside
<1> HIDE DEF numbered
<1>6. Appended(numbered, 1) \in Nat /\ Appended(numbered, 1) < SIZE
  BY <1>5, AppendedInside
<1> QED BY <1>1, <1>5, <1>6 DEF Inv, StaysInside

\* Every step keeps the invariant.
LEMMA NextInv == Inv /\ [Next]_vars => Inv'
<1> SUFFICES ASSUME Inv, [Next]_vars PROVE Inv'
  OBVIOUS
<1>1. CASE UNCHANGED vars
  BY <1>1 DEF Inv, StaysInside, vars
<1>2. CASE \E l \in Levels, n \in 0..MaxText, errno \in 0..MaxInt : Construct(l, n, errno)
  BY <1>2, ConstructInv
<1>3. ASSUME NEW n \in 0..MaxText, StreamText(n) PROVE Inv'
  <2>1. n \in Nat /\ length' = Appended(length, n) /\ written' = written
    BY <1>3 DEF StreamText
  <2> QED BY <2>1, StreamInv
<1>4. ASSUME NEW v \in MinInt..(2^W - 1), StreamInteger(v) PROVE Inv'
  <2> DEFINE n == Len(FormatInteger(v))
  <2>1. n \in Nat /\ n < kMaxNumericSize
    BY FormatFacts
  <2>2. length' = WithNumber(length, n) /\ written' = Touched(length, n)
    BY <1>4 DEF StreamInteger, StreamNumber
  <2> HIDE DEF n
  <2> QED BY <2>1, <2>2, StreamInv
<1>5. ASSUME NEW v \in Unsigned, StreamPointer(v) PROVE Inv'
  <2> DEFINE n == Len(FormatPointer(v))
  <2>1. n \in Nat /\ n < kMaxNumericSize
    BY FormatFacts
  <2>2. length' = WithNumber(length, n) /\ written' = Touched(length, n)
    BY <1>5 DEF StreamPointer, StreamNumber
  <2> HIDE DEF n
  <2> QED BY <2>1, <2>2, StreamInv
<1>6. ASSUME NEW n \in 1..MaxDouble, StreamDouble(n) PROVE Inv'
  <2>1. n \in Nat /\ n < kMaxNumericSize
    BY LogAssumption
  <2>2. length' = WithNumber(length, n) /\ written' = Touched(length, n)
    BY <1>6 DEF StreamDouble
  <2> QED BY <2>1, <2>2, StreamInv
<1>7. CASE \E line \in 1..MaxInt : Destruct(line)
  BY <1>7, DestructInv
<1> QED BY <1>1, <1>2, <1>3, <1>4, <1>5, <1>6, <1>7 DEF Next

\* However lines are put together, cur_ stays inside the FixedBuffer and so
\* does every byte that the number formats write past it.
THEOREM NothingOutside == Spec => []StaysInside
<1>1. Init => Inv
  BY LogAssumption DEF Init, Inv, StaysInside
<1>2. Inv /\ [Next]_vars => Inv'
  BY NextInv
<1>3. Inv => StaysInside
  BY DEF Inv
<1> QED BY <1>1, <1>2, <1>3, PTL DEF Spec
=============================================================================
