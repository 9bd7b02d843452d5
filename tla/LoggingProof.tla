---------------------------- MODULE LoggingProof ----------------------------
(***************************************************************************)
(* Proofs about Logging, for any statements and any number of threads, and *)
(* for buffers of any size: the numbers in a line read back, a stream is   *)
(* never written past its end, short lines are whole, the asynchronous     *)
(* logger accepts every line, and its own invariants hold for the lines as *)
(* they do for records of the lengths in Lens.                             *)
(*                                                                         *)
(* How the numbers are converted, how long a line is and which pieces are  *)
(* in it are recursive definitions and folds: what they compute is shown   *)
(* by induction, with the lemmas about folds of AsynLogProof.              *)
(***************************************************************************)
EXTENDS Logging, AsynLogProof

-----------------------------------------------------------------------------
(***************************************************************************)
(* Conversion: the loop of convert, one digit at a time.                   *)
(***************************************************************************)
\* std::abs of a number
Abs(v) == IF v < 0 THEN -v ELSE v

\* What one turn of the conversion loop does to a number.
LEMMA OneDigit ==
    ASSUME NEW v \in Int, NEW base \in {10, 16}
    PROVE  /\ Quotient(v, base) \in Int
           /\ Digit(Remainder(v, base)) \in 0 .. base - 1
           /\ Abs(v) = base * Abs(Quotient(v, base)) + Digit(Remainder(v, base))
           /\ Abs(v) \in Nat /\ Abs(Quotient(v, base)) \in Nat
           /\ v # 0 => Abs(Quotient(v, base)) < Abs(v)
           /\ v = 0 => Quotient(v, base) = 0
<1> DEFINE q(n) == n \div base
<1>1. ASSUME NEW n \in Nat
      PROVE  /\ q(n) \in Nat /\ n - base * q(n) \in 0 .. base - 1
             /\ n # 0 => q(n) < n
             /\ n = 0 => q(n) = 0
  <2>1. CASE base = 10
    BY <2>1
  <2>2. CASE base = 16
    BY <2>2
  <2>. QED
    BY <2>1, <2>2
<1>2. CASE v < 0
  <2>1. -v \in Nat /\ Quotient(v, base) = -q(-v)
    BY <1>2 DEF Quotient
  <2>2. q(-v) \in Nat /\ (-v) - base * q(-v) \in 0 .. base - 1 /\ q(-v) < -v
    BY <1>1, <1>2, <2>1
  <2> HIDE DEF q
  <2> DEFINE d == q(-v)
  <2>3. d \in Nat /\ Quotient(v, base) = -d /\ (-v) - base * d \in 0 .. base - 1 /\ d < -v
    BY <2>1, <2>2
  <2> HIDE DEF d
  <2>4. Remainder(v, base) = v + base * d
    <3>1. CASE base = 10
      BY <2>3, <3>1 DEF Remainder
    <3>2. CASE base = 16
      BY <2>3, <3>2 DEF Remainder
    <3>. QED
      BY <3>1, <3>2
  <2>5. Digit(Remainder(v, base)) = (-v) - base * d
    <3>1. CASE base = 10
      BY <2>3, <2>4, <3>1 DEF Digit
    <3>2. CASE base = 16
      BY <2>3, <2>4, <3>2 DEF Digit
    <3>. QED
      BY <3>1, <3>2
  <2>6. Abs(v) = -v /\ Abs(Quotient(v, base)) = d
    BY <1>2, <2>3 DEF Abs
  <2>. QED
    <3>1. CASE base = 10
      BY <1>2, <2>3, <2>5, <2>6, <3>1
    <3>2. CASE base = 16
      BY <1>2, <2>3, <2>5, <2>6, <3>2
    <3>. QED
      BY <3>1, <3>2
<1>3. CASE ~(v < 0)
  <2>1. v \in Nat /\ Quotient(v, base) = q(v)
    BY <1>3 DEF Quotient
  <2>2. /\ q(v) \in Nat /\ v - base * q(v) \in 0 .. base - 1
        /\ v # 0 => q(v) < v
        /\ v = 0 => q(v) = 0
    BY <1>1, <2>1
  <2> HIDE DEF q
  <2> DEFINE d == q(v)
  <2>3. d \in Nat /\ Quotient(v, base) = d /\ v - base * d \in 0 .. base - 1 /\ (v # 0 => d < v)
        /\ (v = 0 => d = 0)
    BY <2>1, <2>2
  <2> HIDE DEF d
  <2>4. Digit(Remainder(v, base)) = v - base * d
    BY <2>3 DEF Digit, Remainder
  <2>5. Abs(v) = v /\ Abs(Quotient(v, base)) = d
    BY <1>3, <2>3 DEF Abs
  <2>. QED
    <3>1. CASE base = 10
      BY <1>3, <2>1, <2>3, <2>4, <2>5, <3>1
    <3>2. CASE base = 16
      BY <1>3, <2>1, <2>3, <2>4, <2>5, <3>2
    <3>. QED
      BY <3>1, <3>2
<1>. QED
  BY <1>2, <1>3

(***************************************************************************)
(* The loop as a function of the number: it exists, since the number gets  *)
(* smaller, and is the one that DigitsUpward chooses.                      *)
(***************************************************************************)
\* g satisfies the equation of the loop at v
Loops(g, base, v) ==
    g[v] = <<Digit(Remainder(v, base))>>
               \o (IF Quotient(v, base) = 0 THEN <<>> ELSE g[Quotient(v, base)])

\* the numbers of absolute value up to k
UpTo(k) == {v \in Int : Abs(v) <= k}

\* the functions on these numbers that do at each of them
LoopsUpTo(base, k) ==
    {g \in [UpTo(k) -> Seq(0 .. base - 1)] : \A v \in UpTo(k) : Loops(g, base, v)}

\* From numbers up to k to numbers up to k + 1.
LEMMA LoopExists ==
    ASSUME NEW base \in {10, 16}
    PROVE  \A k \in Nat : LoopsUpTo(base, k) # {}
<1> DEFINE Up == {k \in Nat : LoopsUpTo(base, k) # {}}
           D == 0 .. base - 1
<1>1. 0 \in Up
  <2> DEFINE g == [v \in UpTo(0) |-> <<Digit(Remainder(v, base))>>]
  <2>1. ASSUME NEW v \in UpTo(0)
        PROVE  v = 0 /\ v \in Int
    BY DEF UpTo, Abs
  <2>2. 0 \in Int
    OBVIOUS
  <2>3. Quotient(0, base) = 0 /\ Digit(Remainder(0, base)) \in D
    BY <2>2, OneDigit
  <2>4. \A v \in UpTo(0) : g[v] \in Seq(D)
    BY <2>1, <2>3
  <2>5. \A v \in UpTo(0) : Loops(g, base, v)
    BY <2>1, <2>3 DEF Loops
  <2>6. g \in [UpTo(0) -> Seq(D)]
    <3>1. g = [v \in UpTo(0) |-> g[v]]
      OBVIOUS
    <3> HIDE DEF g
    <3>. QED
      BY <2>4, <3>1
  <2> HIDE DEF g
  <2>. QED
    BY <2>5, <2>6 DEF LoopsUpTo
<1>2. ASSUME NEW k \in Nat, k \in Up
      PROVE  k + 1 \in Up
  <2>1. PICK g \in [UpTo(k) -> Seq(D)] : \A v \in UpTo(k) : Loops(g, base, v)
    BY <1>2 DEF LoopsUpTo
  <2> DEFINE h == [v \in UpTo(k + 1) |->
                     IF v \in UpTo(k) THEN g[v]
                     ELSE <<Digit(Remainder(v, base))>>
                            \o (IF Quotient(v, base) = 0 THEN <<>> ELSE g[Quotient(v, base)])]
  <2>2. ASSUME NEW v \in UpTo(k + 1)
        PROVE  /\ v \in Int /\ Quotient(v, base) \in UpTo(k) /\ Quotient(v, base) \in UpTo(k + 1)
               /\ Digit(Remainder(v, base)) \in D
    <3>1. v \in Int /\ Abs(v) <= k + 1
      BY DEF UpTo
    <3>2. /\ Quotient(v, base) \in Int /\ Abs(Quotient(v, base)) \in Nat /\ Abs(v) \in Nat
          /\ v # 0 => Abs(Quotient(v, base)) < Abs(v)
          /\ v = 0 => Quotient(v, base) = 0
          /\ Digit(Remainder(v, base)) \in D
      BY <3>1, OneDigit
    <3>3. Abs(Quotient(v, base)) <= k
      <4>1. CASE v = 0
        BY <3>2, <4>1 DEF Abs
      <4>2. CASE v # 0
        BY <3>1, <3>2, <4>2
      <4>. QED
        BY <4>1, <4>2
    <3>. QED
      BY <3>1, <3>2, <3>3 DEF UpTo
  <2>3. ASSUME NEW v \in UpTo(k)
        PROVE  v \in UpTo(k + 1)
    BY OneDigit DEF UpTo, Abs
  <2>4. ASSUME NEW v \in UpTo(k + 1)
        PROVE  /\ h[v] \in Seq(D)
               /\ h[Quotient(v, base)] = g[Quotient(v, base)]
               /\ h[v] = <<Digit(Remainder(v, base))>>
                            \o (IF Quotient(v, base) = 0 THEN <<>> ELSE g[Quotient(v, base)])
    <3>1. h[Quotient(v, base)] = g[Quotient(v, base)] /\ g[Quotient(v, base)] \in Seq(D)
      BY <2>1, <2>2
    <3>2. h[v] = <<Digit(Remainder(v, base))>>
                    \o (IF Quotient(v, base) = 0 THEN <<>> ELSE g[Quotient(v, base)])
      BY <2>1 DEF Loops
    <3>3. <<Digit(Remainder(v, base))>> \in Seq(D) /\ <<>> \in Seq(D)
      BY <2>2
    <3> HIDE DEF h, D
    <3>. QED
      BY <3>1, <3>2, <3>3, ConcatProperties
  <2>5. \A v \in UpTo(k + 1) : Loops(h, base, v)
    <3> HIDE DEF h
    <3>. QED
      BY <2>4 DEF Loops
  <2>6. h \in [UpTo(k + 1) -> Seq(D)]
    <3>1. h = [v \in UpTo(k + 1) |-> h[v]]
      OBVIOUS
    <3> HIDE DEF h
    <3>. QED
      BY <2>4, <3>1
  <2> HIDE DEF h
  <2>. QED
    BY <2>5, <2>6 DEF LoopsUpTo
<1>. QED
  <2> HIDE DEF Up
  <2>1. \A k \in Nat : k \in Up
    BY <1>1, <1>2, SetInduction
  <2>. QED
    BY <2>1 DEF Up

\* Two such functions agree where both are defined.
LEMMA LoopsAgree ==
    ASSUME NEW base \in {10, 16}, NEW i \in Nat, NEW j \in Nat,
           NEW g \in LoopsUpTo(base, i), NEW h \in LoopsUpTo(base, j),
           NEW v \in UpTo(i), v \in UpTo(j)
    PROVE  g[v] = h[v]
<1> DEFINE Up == {k \in Nat : \A w \in UpTo(i) \cap UpTo(j) : Abs(w) <= k => g[w] = h[w]}
<1>1. ASSUME NEW w \in UpTo(i) \cap UpTo(j)
      PROVE  /\ w \in Int /\ Abs(w) \in Nat
             /\ Quotient(w, base) \in Int /\ Abs(Quotient(w, base)) \in Nat
             /\ w # 0 => Abs(Quotient(w, base)) < Abs(w)
             /\ w = 0 => Quotient(w, base) = 0
             /\ Quotient(w, base) \in UpTo(i) \cap UpTo(j)
  <2>1. w \in Int /\ Abs(w) <= i /\ Abs(w) <= j
    BY DEF UpTo
  <2>2. /\ Quotient(w, base) \in Int /\ Abs(Quotient(w, base)) \in Nat /\ Abs(w) \in Nat
        /\ w # 0 => Abs(Quotient(w, base)) < Abs(w)
        /\ w = 0 => Quotient(w, base) = 0
    BY <2>1, OneDigit
  <2>3. Abs(Quotient(w, base)) <= i /\ Abs(Quotient(w, base)) <= j
    <3>1. CASE w = 0
      BY <2>2, <3>1 DEF Abs
    <3>2. CASE w # 0
      BY <2>1, <2>2, <3>2
    <3>. QED
      BY <3>1, <3>2
  <2>. QED
    BY <2>1, <2>2, <2>3 DEF UpTo
<1>2. ASSUME NEW w \in UpTo(i) \cap UpTo(j),
             Quotient(w, base) # 0 => g[Quotient(w, base)] = h[Quotient(w, base)]
      PROVE  g[w] = h[w]
  <2>1. Loops(g, base, w) /\ Loops(h, base, w)
    BY DEF LoopsUpTo
  <2>. QED
    BY <1>2, <2>1 DEF Loops
<1>3. 0 \in Up
  <2>1. ASSUME NEW w \in UpTo(i) \cap UpTo(j), Abs(w) <= 0
        PROVE  g[w] = h[w]
    <3>1. w = 0
      BY <1>1, <2>1 DEF Abs
    <3>. QED
      BY <1>1, <1>2, <3>1
  <2>. QED
    BY <2>1
<1>4. ASSUME NEW k \in Nat, k \in Up
      PROVE  k + 1 \in Up
  <2>1. ASSUME NEW w \in UpTo(i) \cap UpTo(j), Abs(w) <= k + 1
        PROVE  g[w] = h[w]
    <3>1. Quotient(w, base) # 0 => g[Quotient(w, base)] = h[Quotient(w, base)]
      <4>1. SUFFICES ASSUME Quotient(w, base) # 0
                     PROVE  g[Quotient(w, base)] = h[Quotient(w, base)]
        OBVIOUS
      <4>2. Abs(Quotient(w, base)) <= k
        BY <1>1, <2>1, <4>1
      <4>. QED
        BY <1>1, <1>4, <4>2
    <3>. QED
      BY <1>2, <3>1
  <2>. QED
    BY <2>1
<1>5. Abs(v) \in Up
  <2>1. Abs(v) \in Nat
    BY <1>1
  <2> HIDE DEF Up
  <2>. QED
    BY <1>3, <1>4, <2>1, SetInduction
<1>. QED
  BY <1>1, <1>5

\* DigitsUpward is such a function of the number: it satisfies its equation.
LEMMA DigitsUpwardLoops ==
    ASSUME NEW base \in {10, 16}, NEW v \in Int
    PROVE  /\ DigitsUpward(v, base) \in Seq(0 .. base - 1)
           /\ DigitsUpward(v, base) =
                 <<Digit(Remainder(v, base))>>
                    \o (IF Quotient(v, base) = 0 THEN <<>>
                        ELSE DigitsUpward(Quotient(v, base), base))
<1> DEFINE D == 0 .. base - 1
           Body(g) == [w \in Int |->
                         <<Digit(Remainder(w, base))>>
                            \o (IF Quotient(w, base) = 0 THEN <<>> ELSE g[Quotient(w, base)])]
           from == CHOOSE g : g = Body(g)
           G == [w \in Int |-> (CHOOSE g : g \in LoopsUpTo(base, Abs(w)))[w]]
<1>1. ASSUME NEW w \in Int
      PROVE  DigitsUpward(w, base) = from[w]
  BY DEF DigitsUpward
<1>2. ASSUME NEW w \in Int
      PROVE  G[w] = Body(G)[w]
  <2> DEFINE q == Quotient(w, base)
             g == CHOOSE g : g \in LoopsUpTo(base, Abs(w))
             h == CHOOSE h : h \in LoopsUpTo(base, Abs(q))
  <2>1. /\ q \in Int /\ Abs(q) \in Nat /\ Abs(w) \in Nat
        /\ w # 0 => Abs(q) < Abs(w)
        /\ w = 0 => q = 0
    BY OneDigit
  <2>2. g \in LoopsUpTo(base, Abs(w)) /\ h \in LoopsUpTo(base, Abs(q))
    BY <2>1, LoopExists
  <2>3. G[w] = g[w] /\ G[q] = h[q]
    BY <2>1
  <2>4. w \in UpTo(Abs(w)) /\ q \in UpTo(Abs(w)) /\ q \in UpTo(Abs(q))
    BY <2>1 DEF UpTo, Abs
  <2> HIDE DEF q, g, h, G
  <2>5. g[q] = h[q]
    BY <2>1, <2>2, <2>4, LoopsAgree
  <2>6. Loops(g, base, w)
    BY <2>2, <2>4 DEF LoopsUpTo
  <2>7. g[w] = <<Digit(Remainder(w, base))>> \o (IF q = 0 THEN <<>> ELSE g[q])
    BY <2>6 DEF Loops, q
  <2>. QED
    BY <2>3, <2>5, <2>7 DEF q
<1>3. G = Body(G)
  <2>1. G = [w \in Int |-> G[w]]
    OBVIOUS
  <2>2. Body(G) = [w \in Int |-> Body(G)[w]]
    OBVIOUS
  <2> HIDE DEF G, Body
  <2>. QED
    BY <1>2, <2>1, <2>2, Zenon
<1>4. from = Body(from)
  <2> HIDE DEF G, Body
  <2>. QED
    BY <1>3, Zenon
<1>5. ASSUME NEW w \in Int
      PROVE  from[w] = <<Digit(Remainder(w, base))>>
                          \o (IF Quotient(w, base) = 0 THEN <<>> ELSE from[Quotient(w, base)])
  <2>1. from[w] = Body(from)[w]
    BY <1>4
  <2> HIDE DEF from
  <2>. QED
    BY <2>1
<1> HIDE DEF G, Body, from
<1> DEFINE Up == {k \in Nat : \A w \in Int : Abs(w) <= k => from[w] \in Seq(D)}
<1>6. ASSUME NEW w \in Int, Quotient(w, base) # 0 => from[Quotient(w, base)] \in Seq(D)
      PROVE  from[w] \in Seq(D)
  <2>1. <<Digit(Remainder(w, base))>> \in Seq(D) /\ <<>> \in Seq(D)
    <3>1. Digit(Remainder(w, base)) \in D
      BY OneDigit
    <3> HIDE DEF D
    <3>. QED
      BY <3>1
  <2> HIDE DEF D
  <2>. QED
    BY <1>5, <1>6, <2>1, ConcatProperties
<1>7. 0 \in Up
  <2>1. ASSUME NEW w \in Int, Abs(w) <= 0
        PROVE  from[w] \in Seq(D)
    <3>1. w = 0
      BY <2>1 DEF Abs
    <3>. QED
      BY <1>6, <3>1, OneDigit
  <2> HIDE DEF D
  <2>. QED
    BY <2>1
<1>8. ASSUME NEW k \in Nat, k \in Up
      PROVE  k + 1 \in Up
  <2>1. ASSUME NEW w \in Int, Abs(w) <= k + 1
        PROVE  from[w] \in Seq(D)
    <3>1. /\ Quotient(w, base) \in Int /\ Abs(Quotient(w, base)) \in Nat /\ Abs(w) \in Nat
          /\ w # 0 => Abs(Quotient(w, base)) < Abs(w)
          /\ w = 0 => Quotient(w, base) = 0
      BY OneDigit
    <3>2. Quotient(w, base) # 0 => from[Quotient(w, base)] \in Seq(D)
      BY <1>8, <2>1, <3>1
    <3>. QED
      BY <1>6, <3>2
  <2> HIDE DEF D
  <2>. QED
    BY <2>1
<1>9. \A k \in Nat : k \in Up
  <2> HIDE DEF Up
  <2>. QED
    BY <1>7, <1>8, SetInduction
<1>10. from[v] \in Seq(D)
  <2>1. Abs(v) \in Nat
    BY OneDigit
  <2> HIDE DEF D
  <2>. QED
    BY <1>9, <2>1
<1>11. Quotient(v, base) \in Int
  BY OneDigit
<1>. QED
  BY <1>1, <1>5, <1>10, <1>11

\* The first digit computed is the last one written.
LEMMA ConvertLoops ==
    ASSUME NEW base \in {10, 16}, NEW v \in Int
    PROVE  /\ Convert(v, base) \in Seq(0 .. base - 1)
           /\ Quotient(v, base) = 0 => Convert(v, base) = <<Digit(Remainder(v, base))>>
           /\ Quotient(v, base) # 0 =>
                 Convert(v, base) =
                    Append(Convert(Quotient(v, base), base), Digit(Remainder(v, base)))
<1> DEFINE D == 0 .. base - 1
           q == Quotient(v, base)
           d == Digit(Remainder(v, base))
           u == DigitsUpward(v, base)
           w == DigitsUpward(q, base)
<1>1. q \in Int /\ d \in D
  BY OneDigit
<1>2. u \in Seq(D) /\ w \in Seq(D) /\ u = <<d>> \o (IF q = 0 THEN <<>> ELSE w)
  BY <1>1, DigitsUpwardLoops
<1>3. Convert(v, base) = Reverse(u) /\ Convert(q, base) = Reverse(w)
  BY DEF Convert
<1> HIDE DEF D, q, d, u, w
<1>4. Reverse(u) \in Seq(D)
  BY <1>2 DEF Reverse
<1>5. CASE q = 0
  <2>1. u = <<d>>
    BY <1>1, <1>2, <1>5
  <2>2. Reverse(u) = <<d>>
    BY <2>1 DEF Reverse
  <2>. QED
    BY <1>3, <1>4, <1>5, <2>2 DEF q, d, D
<1>6. CASE q # 0
  <2>1. u = <<d>> \o w
    BY <1>2, <1>6
  <2>2. <<d>> \in Seq(D)
    BY <1>1
  <2>3. /\ Len(u) = Len(w) + 1 /\ Len(w) \in Nat /\ u[1] = d
        /\ \A i \in 1 .. Len(w) : u[i + 1] = w[i]
    <3>1. /\ Len(u) = 1 + Len(w)
          /\ \A i \in 1 .. 1 + Len(w) : u[i] = IF i <= 1 THEN <<d>>[i] ELSE w[i - 1]
      BY <1>2, <2>1, <2>2, ConcatProperties
    <3>2. Len(w) \in Nat
      BY <1>2
    <3>3. \A i \in 1 .. Len(w) : i + 1 \in 1 .. 1 + Len(w) /\ ~(i + 1 <= 1) /\ (i + 1) - 1 = i
      BY <3>2
    <3>. QED
      BY <3>1, <3>2, <3>3
  <2>4. Reverse(w) \in Seq(D) /\ Len(Reverse(w)) = Len(w)
        /\ \A i \in 1 .. Len(w) : Reverse(w)[i] = w[Len(w) - i + 1]
    BY <1>2, <2>3 DEF Reverse
  <2>5. Len(Reverse(u)) = Len(w) + 1
        /\ \A i \in 1 .. Len(w) + 1 : Reverse(u)[i] = u[(Len(w) + 1) - i + 1]
    BY <1>2, <2>3 DEF Reverse
  <2>6. Append(Reverse(w), d) \in Seq(D) /\ Len(Append(Reverse(w), d)) = Len(w) + 1
    BY <1>1, <2>4
  <2>7. ASSUME NEW i \in 1 .. Len(w) + 1
        PROVE  Reverse(u)[i] = Append(Reverse(w), d)[i]
    <3>1. CASE i = Len(w) + 1
      <4>1. Append(Reverse(w), d)[i] = d
        BY <1>1, <2>4, <3>1
      <4>2. Reverse(u)[i] = u[1]
        BY <2>3, <2>5, <3>1
      <4>. QED
        BY <2>3, <4>1, <4>2
    <3>2. CASE i # Len(w) + 1
      <4>1. i \in 1 .. Len(w) /\ Len(w) - i + 1 \in 1 .. Len(w)
            /\ (Len(w) + 1) - i + 1 = (Len(w) - i + 1) + 1
        BY <2>3, <3>2
      <4>2. Append(Reverse(w), d)[i] = w[Len(w) - i + 1]
        BY <1>1, <2>4, <4>1
      <4>3. Reverse(u)[i] = u[(Len(w) - i + 1) + 1]
        BY <2>5, <4>1
      <4>. QED
        BY <2>3, <4>1, <4>2, <4>3
    <3>. QED
      BY <3>1, <3>2
  <2>8. Reverse(u) = Append(Reverse(w), d)
    BY <1>4, <2>5, <2>6, <2>7, SeqEqual
  <2>. QED
    BY <1>3, <1>4, <1>6, <2>8 DEF q, d, D
<1>. QED
  BY <1>5, <1>6

-----------------------------------------------------------------------------
(***************************************************************************)
(* Folds: the size of a line, the pieces in it, and the value of digits.   *)
(***************************************************************************)
\* The characters of a piece are a natural number of them.
LEMMA LengthIsNat ==
    ASSUME NEW piece \in Pieces
    PROVE  Length(piece) \in Nat
<1>1. piece.kind \in Kinds /\ piece.n \in Int /\ (piece.kind # "dec" => piece.n \in Nat)
  BY DEF Pieces, Kinds
<1>2. CASE piece.kind = "text"
  BY <1>1, <1>2 DEF Length, Stored, NullLength
<1>3. CASE piece.kind = "real"
  BY <1>1, <1>3 DEF Length
<1>4. CASE piece.kind = "dec"
  <2>1. Convert(piece.n, 10) \in Seq(0 .. 10 - 1)
    <3>1. 10 \in {10, 16}
      OBVIOUS
    <3>. QED
      BY <1>1, <3>1, ConvertLoops, Zenon
  <2>. QED
    BY <1>4, <2>1 DEF Length
<1>5. CASE piece.kind = "hex"
  <2>1. Convert(piece.n, 16) \in Seq(0 .. 16 - 1)
    <3>1. 16 \in {10, 16}
      OBVIOUS
    <3>. QED
      BY <1>1, <3>1, ConvertLoops, Zenon
  <2>. QED
    BY <1>5, <2>1 DEF Length
<1>. QED
  BY <1>1, <1>2, <1>3, <1>4, <1>5 DEF Kinds

\* the operation Size folds with
AddLength == [x \in Nat \X Pieces |-> x[1] + Length(x[2])]

\* Size goes through a chain of sums.
LEMMA SizeIsChain ==
    ASSUME NEW line \in Seq(Pieces)
    PROVE  \E f \in Chains(Nat, AddLength, 0, line) : f[Len(line)] = Size(line)
<1> DEFINE Body(g) == [s \in SUBSET DOMAIN line |->
                          IF s = {} THEN 0 ELSE g[s \ {Max(s)}] + Length(line[Max(s)])]
           it == CHOOSE g : g = Body(g)
<1>1. Size(line) = it[DOMAIN line]
  BY DEF Size, FoldLeft, MapThenFoldSet
<1>2. /\ FoldData(Nat, Pieces, AddLength, 0, line)
      /\ \A a \in Nat, p \in Pieces : AddLength[<<a, p>>] = a + Length(p)
  <2>1. \A a \in Nat, p \in Pieces : a + Length(p) \in Nat
    BY LengthIsNat
  <2>. QED
    BY <2>1 DEF FoldData, AddLength
<1>3. \A s \in SUBSET DOMAIN line :
        s # {} => line[Max(s)] \in Pieces /\ s \ {Max(s)} \in SUBSET DOMAIN line
  BY IndexOfMax
<1>4. PICK g \in FoldFunctions(Nat, AddLength, 0, line) : TRUE
  <2> HIDE DEF it
  <2>. QED
    BY <1>2, FoldExists
<1>5. g = Body(g)
  <2>1. \A s \in SUBSET DOMAIN line :
          g[s] = IF s = {} THEN 0 ELSE g[s \ {Max(s)}] + Length(line[Max(s)])
    BY <1>2, <1>3, <1>4 DEF FoldFunctions, FoldStep
  <2>2. g = [s \in SUBSET DOMAIN line |-> g[s]]
    BY <1>4 DEF FoldFunctions
  <2>. QED
    BY <2>1, <2>2
<1>6. it = Body(it)
  <2> HIDE DEF Body
  <2>. QED
    BY <1>5, Zenon
<1> HIDE DEF it
<1>7. ASSUME NEW s \in SUBSET DOMAIN line
      PROVE  it[s] = IF s = {} THEN 0 ELSE it[s \ {Max(s)}] + Length(line[Max(s)])
  <2>1. it[s] = Body(it)[s]
    <3> HIDE DEF Body
    <3>. QED
      BY <1>6
  <2>. QED
    BY <2>1
<1> HIDE DEF Body
<1>8. Follows(it, Nat, AddLength, 0, line)
  BY <1>2, <1>3, <1>7 DEF Follows, FoldStep
<1>. QED
  BY <1>1, <1>2, <1>8, FoldIsChain

\* The size of a line is that of its pieces.
LEMMA SizeLaws ==
    /\ Size(<<>>) = 0
    /\ \A line \in Seq(Pieces) : Size(line) \in Nat
    /\ \A line \in Seq(Pieces), p \in Pieces : Size(Append(line, p)) = Size(line) + Length(p)
<1>1. Size(<<>>) = 0
  <2>1. <<>> \in Seq(Pieces) /\ Len(<<>>) = 0
    OBVIOUS
  <2>2. PICK f \in Chains(Nat, AddLength, 0, <<>>) : f[Len(<<>>)] = Size(<<>>)
    BY <2>1, SizeIsChain
  <2>. QED
    BY <2>1, <2>2 DEF Chains
<1>2. ASSUME NEW line \in Seq(Pieces)
      PROVE  Size(line) \in Nat
  <2>1. PICK f \in Chains(Nat, AddLength, 0, line) : f[Len(line)] = Size(line)
    BY SizeIsChain
  <2>. QED
    BY <2>1 DEF Chains
<1>3. ASSUME NEW line \in Seq(Pieces), NEW p \in Pieces
      PROVE  Size(Append(line, p)) = Size(line) + Length(p)
  <2>1. PICK f \in Chains(Nat, AddLength, 0, line) : f[Len(line)] = Size(line)
    BY SizeIsChain
  <2>2. PICK g \in Chains(Nat, AddLength, 0, Append(line, p)) :
           g[Len(Append(line, p))] = Size(Append(line, p))
    <3>1. Append(line, p) \in Seq(Pieces)
      OBVIOUS
    <3>. QED
      BY <3>1, SizeIsChain
  <2>3. Size(Append(line, p)) = AddLength[<<Size(line), p>>]
    BY <2>1, <2>2, ChainOfAppend
  <2>. QED
    BY <1>2, <2>3 DEF AddLength
<1>. QED
  BY <1>1, <1>2, <1>3

\* sequences of pieces
Lines == Seq(Pieces)

\* the operation Build folds with
InsertPiece == [x \in Lines \X Pieces |-> Insert(x[1], x[2])]

\* Build goes through the lines that the insertions leave.
LEMMA BuildIsChain ==
    ASSUME NEW pieces \in Lines
    PROVE  \E f \in Chains(Lines, InsertPiece, <<>>, pieces) : f[Len(pieces)] = Build(pieces)
<1> DEFINE Body(g) == [s \in SUBSET DOMAIN pieces |->
                          IF s = {} THEN <<>> ELSE Insert(g[s \ {Max(s)}], pieces[Max(s)])]
           it == CHOOSE g : g = Body(g)
<1>1. Build(pieces) = it[DOMAIN pieces]
  BY DEF Build, FoldLeft, MapThenFoldSet
<1>2. /\ FoldData(Lines, Pieces, InsertPiece, <<>>, pieces)
      /\ \A a \in Lines, p \in Pieces : InsertPiece[<<a, p>>] = Insert(a, p)
  <2>1. \A a \in Lines, p \in Pieces : Insert(a, p) \in Lines
    BY DEF Lines, Insert
  <2>2. <<>> \in Lines
    BY DEF Lines
  <2>. QED
    BY <2>1, <2>2 DEF FoldData, InsertPiece, Lines
<1>3. \A s \in SUBSET DOMAIN pieces :
        s # {} => pieces[Max(s)] \in Pieces /\ s \ {Max(s)} \in SUBSET DOMAIN pieces
  BY IndexOfMax DEF Lines
<1>4. PICK g \in FoldFunctions(Lines, InsertPiece, <<>>, pieces) : TRUE
  <2> HIDE DEF it
  <2>. QED
    BY <1>2, FoldExists
<1>5. g = Body(g)
  <2>1. \A s \in SUBSET DOMAIN pieces :
          g[s] = IF s = {} THEN <<>> ELSE Insert(g[s \ {Max(s)}], pieces[Max(s)])
    BY <1>2, <1>3, <1>4 DEF FoldFunctions, FoldStep
  <2>2. g = [s \in SUBSET DOMAIN pieces |-> g[s]]
    BY <1>4 DEF FoldFunctions
  <2>. QED
    BY <2>1, <2>2
<1>6. it = Body(it)
  <2> HIDE DEF Body
  <2>. QED
    BY <1>5, Zenon
<1> HIDE DEF it
<1>7. ASSUME NEW s \in SUBSET DOMAIN pieces
      PROVE  it[s] = IF s = {} THEN <<>> ELSE Insert(it[s \ {Max(s)}], pieces[Max(s)])
  <2>1. it[s] = Body(it)[s]
    <3> HIDE DEF Body
    <3>. QED
      BY <1>6
  <2>. QED
    BY <2>1
<1> HIDE DEF Body
<1>8. Follows(it, Lines, InsertPiece, <<>>, pieces)
  BY <1>2, <1>3, <1>7 DEF Follows, FoldStep
<1>. QED
  BY <1>1, <1>2, <1>8, FoldIsChain

\* A line is built by inserting one piece after the other.
LEMMA BuildLaws ==
    /\ Build(<<>>) = <<>>
    /\ \A pieces \in Lines : Build(pieces) \in Lines
    /\ \A pieces \in Lines, p \in Pieces :
          Build(Append(pieces, p)) = Insert(Build(pieces), p)
<1>1. Build(<<>>) = <<>>
  <2>1. <<>> \in Lines /\ Len(<<>>) = 0
    BY DEF Lines
  <2>2. PICK f \in Chains(Lines, InsertPiece, <<>>, <<>>) : f[Len(<<>>)] = Build(<<>>)
    BY <2>1, BuildIsChain
  <2>. QED
    BY <2>1, <2>2 DEF Chains
<1>2. ASSUME NEW pieces \in Lines
      PROVE  Build(pieces) \in Lines
  <2>1. PICK f \in Chains(Lines, InsertPiece, <<>>, pieces) : f[Len(pieces)] = Build(pieces)
    BY BuildIsChain
  <2>2. Len(pieces) \in 0 .. Len(pieces)
    BY DEF Lines
  <2>. QED
    BY <2>1, <2>2 DEF Chains
<1>3. ASSUME NEW pieces \in Lines, NEW p \in Pieces
      PROVE  Build(Append(pieces, p)) = Insert(Build(pieces), p)
  <2>1. PICK f \in Chains(Lines, InsertPiece, <<>>, pieces) : f[Len(pieces)] = Build(pieces)
    BY BuildIsChain
  <2>2. PICK g \in Chains(Lines, InsertPiece, <<>>, Append(pieces, p)) :
           g[Len(Append(pieces, p))] = Build(Append(pieces, p))
    <3>1. Append(pieces, p) \in Lines
      BY DEF Lines
    <3>. QED
      BY <3>1, BuildIsChain
  <2>3. Build(Append(pieces, p)) = InsertPiece[<<Build(pieces), p>>]
    BY <2>1, <2>2, ChainOfAppend DEF Lines
  <2>. QED
    BY <1>2, <2>3 DEF InsertPiece
<1>. QED
  BY <1>1, <1>2, <1>3

\* the operation Value folds with
NextDigit(base) == [x \in Nat \X Nat |-> base * x[1] + x[2]]

\* Value goes through the values of the leading digits.
LEMMA ValueIsChain ==
    ASSUME NEW base \in {10, 16}, NEW digits \in Seq(Nat)
    PROVE  \E f \in Chains(Nat, NextDigit(base), 0, digits) : f[Len(digits)] = Value(digits, base)
<1> DEFINE Body(g) == [s \in SUBSET DOMAIN digits |->
                          IF s = {} THEN 0 ELSE base * g[s \ {Max(s)}] + digits[Max(s)]]
           it == CHOOSE g : g = Body(g)
<1>1. Value(digits, base) = it[DOMAIN digits]
  BY DEF Value, FoldLeft, MapThenFoldSet
<1>2. /\ FoldData(Nat, Nat, NextDigit(base), 0, digits)
      /\ \A a \in Nat, d \in Nat : NextDigit(base)[<<a, d>>] = base * a + d
  <2>1. \A a \in Nat, d \in Nat : base * a + d \in Nat
    <3>1. CASE base = 10
      BY <3>1
    <3>2. CASE base = 16
      BY <3>2
    <3>. QED
      BY <3>1, <3>2
  <2>. QED
    BY <2>1 DEF FoldData, NextDigit
<1>3. \A s \in SUBSET DOMAIN digits :
        s # {} => digits[Max(s)] \in Nat /\ s \ {Max(s)} \in SUBSET DOMAIN digits
  BY IndexOfMax
<1>4. PICK g \in FoldFunctions(Nat, NextDigit(base), 0, digits) : TRUE
  <2> HIDE DEF it
  <2>. QED
    BY <1>2, FoldExists
<1>5. g = Body(g)
  <2>1. \A s \in SUBSET DOMAIN digits :
          g[s] = IF s = {} THEN 0 ELSE base * g[s \ {Max(s)}] + digits[Max(s)]
    BY <1>2, <1>3, <1>4 DEF FoldFunctions, FoldStep
  <2>2. g = [s \in SUBSET DOMAIN digits |-> g[s]]
    BY <1>4 DEF FoldFunctions
  <2>. QED
    BY <2>1, <2>2
<1>6. it = Body(it)
  <2> HIDE DEF Body
  <2>. QED
    BY <1>5, Zenon
<1> HIDE DEF it
<1>7. ASSUME NEW s \in SUBSET DOMAIN digits
      PROVE  it[s] = IF s = {} THEN 0 ELSE base * it[s \ {Max(s)}] + digits[Max(s)]
  <2>1. it[s] = Body(it)[s]
    <3> HIDE DEF Body
    <3>. QED
      BY <1>6
  <2>. QED
    BY <2>1
<1> HIDE DEF Body
<1>8. Follows(it, Nat, NextDigit(base), 0, digits)
  BY <1>2, <1>3, <1>7 DEF Follows, FoldStep
<1>. QED
  BY <1>1, <1>2, <1>8, FoldIsChain

\* One more digit: the value so far is multiplied by the base.
LEMMA ValueLaws ==
    ASSUME NEW base \in {10, 16}
    PROVE  /\ Value(<<>>, base) = 0
           /\ \A digits \in Seq(Nat) : Value(digits, base) \in Nat
           /\ \A digits \in Seq(Nat), d \in Nat :
                 Value(Append(digits, d), base) = base * Value(digits, base) + d
<1>1. Value(<<>>, base) = 0
  <2>1. <<>> \in Seq(Nat) /\ Len(<<>>) = 0
    OBVIOUS
  <2>2. PICK f \in Chains(Nat, NextDigit(base), 0, <<>>) : f[Len(<<>>)] = Value(<<>>, base)
    BY <2>1, ValueIsChain
  <2>. QED
    BY <2>1, <2>2 DEF Chains
<1>2. ASSUME NEW digits \in Seq(Nat)
      PROVE  Value(digits, base) \in Nat
  <2>1. PICK f \in Chains(Nat, NextDigit(base), 0, digits) : f[Len(digits)] = Value(digits, base)
    BY ValueIsChain
  <2>. QED
    BY <2>1 DEF Chains
<1>3. ASSUME NEW digits \in Seq(Nat), NEW d \in Nat
      PROVE  Value(Append(digits, d), base) = base * Value(digits, base) + d
  <2>1. PICK f \in Chains(Nat, NextDigit(base), 0, digits) : f[Len(digits)] = Value(digits, base)
    BY ValueIsChain
  <2>2. PICK g \in Chains(Nat, NextDigit(base), 0, Append(digits, d)) :
           g[Len(Append(digits, d))] = Value(Append(digits, d), base)
    <3>1. Append(digits, d) \in Seq(Nat)
      OBVIOUS
    <3>. QED
      BY <3>1, ValueIsChain
  <2>3. Value(Append(digits, d), base) = NextDigit(base)[<<Value(digits, base), d>>]
    BY <2>1, <2>2, ChainOfAppend
  <2>. QED
    BY <1>2, <2>3 DEF NextDigit
<1>. QED
  BY <1>1, <1>2, <1>3

-----------------------------------------------------------------------------
(***************************************************************************)
(* Numbers read back.                                                      *)
(***************************************************************************)
\* What ReadsBack says, and what its induction needs: no leading zero.
Readable(v, base) ==
    LET digits == Convert(v, base)
    IN /\ digits \in Seq(0 .. base - 1) /\ Len(digits) >= 1
       /\ Value(digits, base) = Abs(v)
       /\ digits[1] = 0 => digits = <<0>>
       /\ v # 0 => digits[1] # 0

\* One more turn of the loop keeps what was written readable.
LEMMA OneMoreDigit ==
    ASSUME NEW base \in {10, 16}, NEW v \in Int,
           Quotient(v, base) # 0 => Readable(Quotient(v, base), base)
    PROVE  Readable(v, base)
<1> DEFINE D == 0 .. base - 1
           q == Quotient(v, base)
           d == Digit(Remainder(v, base))
           u == Convert(v, base)
           w == Convert(q, base)
<1>1. /\ q \in Int /\ d \in D /\ Abs(v) = base * Abs(q) + d /\ Abs(v) \in Nat /\ Abs(q) \in Nat
      /\ v # 0 => Abs(q) < Abs(v)
      /\ v = 0 => q = 0
  BY OneDigit
<1>2. D \subseteq Nat /\ d \in Nat
  BY <1>1
<1>3. /\ u \in Seq(D)
      /\ q = 0 => u = <<d>>
      /\ q # 0 => u = Append(w, d)
  BY ConvertLoops
<1>4. u \in Seq(Nat)
  <2> HIDE DEF D, u
  <2>. QED
    BY <1>2, <1>3, SeqMonotonic
<1>5. q # 0 => /\ w \in Seq(D) /\ w \in Seq(Nat) /\ Len(w) >= 1 /\ Value(w, base) = Abs(q)
               /\ w[1] # 0
  <2> SUFFICES ASSUME q # 0
               PROVE  /\ w \in Seq(D) /\ w \in Seq(Nat) /\ Len(w) >= 1 /\ Value(w, base) = Abs(q)
                      /\ w[1] # 0
    OBVIOUS
  <2>1. w \in Seq(D) /\ Len(w) >= 1 /\ Value(w, base) = Abs(q) /\ w[1] # 0
    BY DEF Readable
  <2> HIDE DEF D, w
  <2>2. w \in Seq(Nat)
    BY <1>2, <2>1, SeqMonotonic
  <2>. QED
    BY <2>1, <2>2
<1> HIDE DEF D, q, d, u, w
<1>6. CASE q = 0
  <2>1. u = <<d>> /\ Len(u) = 1 /\ u[1] = d /\ Abs(v) = d
    <3>1. Abs(v) = d
      <4>1. base * Abs(q) = 0
        BY <1>6 DEF Abs
      <4>. QED
        BY <1>1, <1>2, <4>1
    <3>. QED
      BY <1>3, <1>6, <3>1
  <2>2. u = Append(<<>>, d) /\ <<>> \in Seq(Nat)
    BY <2>1
  <2>3. Value(u, base) = d
    <3>1. Value(u, base) = base * Value(<<>>, base) + d /\ Value(<<>>, base) = 0
      BY <1>2, <2>2, ValueLaws
    <3>2. base * 0 = 0
      OBVIOUS
    <3>. QED
      BY <1>2, <3>1, <3>2
  <2>4. v # 0 => d # 0
    BY <2>1 DEF Abs
  <2>. QED
    BY <1>3, <2>1, <2>3, <2>4 DEF Readable, u, D
<1>7. CASE q # 0
  <2>1. /\ u = Append(w, d) /\ w \in Seq(Nat) /\ Len(w) >= 1 /\ Value(w, base) = Abs(q)
        /\ w[1] # 0
    BY <1>3, <1>5, <1>7
  <2>2. Len(u) >= 1 /\ u[1] = w[1]
    BY <1>2, <2>1
  <2>3. Value(u, base) = base * Value(w, base) + d
    BY <1>2, <2>1, ValueLaws
  <2>. QED
    BY <1>1, <1>3, <2>1, <2>2, <2>3 DEF Readable, u, D
<1>. QED
  BY <1>6, <1>7

\* Every number is, by induction over its absolute value.
LEMMA EveryNumberIsReadable ==
    ASSUME NEW base \in {10, 16}, NEW v \in Int
    PROVE  Readable(v, base)
<1> DEFINE Up == {k \in Nat : \A w \in Int : Abs(w) <= k => Readable(w, base)}
<1>1. 0 \in Up
  <2>1. ASSUME NEW w \in Int, Abs(w) <= 0
        PROVE  Readable(w, base)
    <3>1. w = 0
      BY <2>1 DEF Abs
    <3>2. Quotient(w, base) = 0
      BY <3>1, OneDigit
    <3>. QED
      BY <3>2, OneMoreDigit
  <2>. QED
    BY <2>1
<1>2. ASSUME NEW k \in Nat, k \in Up
      PROVE  k + 1 \in Up
  <2>1. ASSUME NEW w \in Int, Abs(w) <= k + 1
        PROVE  Readable(w, base)
    <3>1. /\ Quotient(w, base) \in Int /\ Abs(Quotient(w, base)) \in Nat /\ Abs(w) \in Nat
          /\ w # 0 => Abs(Quotient(w, base)) < Abs(w)
          /\ w = 0 => Quotient(w, base) = 0
      BY OneDigit
    <3>2. Quotient(w, base) # 0 => Readable(Quotient(w, base), base)
      BY <1>2, <2>1, <3>1
    <3>. QED
      BY <3>2, OneMoreDigit
  <2>. QED
    BY <2>1
<1>3. Abs(v) \in Nat
  BY OneDigit
<1>4. Abs(v) \in Up
  <2> HIDE DEF Up
  <2>. QED
    BY <1>1, <1>2, <1>3, SetInduction
<1>. QED
  BY <1>4

\* So every number reads back, negative or not, in both bases.
LEMMA NumbersRead ==
    ASSUME NEW base \in {10, 16}, NEW v \in Int
    PROVE  ReadsBack(v, base)
<1>1. Readable(v, base)
  BY EveryNumberIsReadable
<1>2. Convert(v, base) \in Seq(0 .. base - 1)
  BY <1>1 DEF Readable
<1>3. \A i \in DOMAIN Convert(v, base) : Convert(v, base)[i] \in 0 .. base - 1
  BY <1>2
<1>. QED
  BY <1>1, <1>3 DEF Readable, ReadsBack, Abs

\* Below the base times m, one digit more than below m.
LEMMA OneDigitLess ==
    ASSUME NEW base \in {10, 16}, NEW n \in Nat, NEW m \in Nat \ {0},
           \A w \in Int : Abs(w) < m => Len(Convert(w, base)) <= n \/ w = 0,
           NEW v \in Int, Abs(v) < base * m
    PROVE  Len(Convert(v, base)) <= n + 1
<1> DEFINE q == Quotient(v, base)
           d == Digit(Remainder(v, base))
           w == Convert(q, base)
<1>1. /\ q \in Int /\ d \in 0 .. base - 1 /\ Abs(v) = base * Abs(q) + d
      /\ Abs(q) \in Nat /\ Abs(v) \in Nat
  BY OneDigit
<1>2. /\ q = 0 => Convert(v, base) = <<d>>
      /\ q # 0 => Convert(v, base) = Append(w, d)
  BY ConvertLoops
<1>3. w \in Seq(0 .. base - 1)
  BY <1>1, ConvertLoops
<1> HIDE DEF w, q, d
<1>4. CASE q = 0
  <2>1. Convert(v, base) = <<d>>
    BY <1>2, <1>4
  <2>2. Len(Convert(v, base)) = 1
    BY <2>1
  <2> HIDE DEF q
  <2>. QED
    BY <2>2
<1>5. CASE q # 0
  <2>1. Abs(q) < m
    <3>1. CASE base = 10
      BY <1>1, <3>1
    <3>2. CASE base = 16
      BY <1>1, <3>2
    <3>. QED
      BY <3>1, <3>2
  <2>2. Len(w) <= n
    BY <1>1, <1>5, <2>1 DEF w
  <2>3. Len(Append(w, d)) = Len(w) + 1 /\ Len(w) \in Nat
    <3>1. w \in Seq(Nat)
      <4>1. 0 .. base - 1 \subseteq Nat
        OBVIOUS
      <4>. QED
        BY <1>3, <4>1, SeqMonotonic
    <3>. QED
      BY <3>1
  <2>. QED
    BY <1>2, <1>5, <2>2, <2>3
<1>. QED
  BY <1>4, <1>5

(***************************************************************************)
(* A number whose absolute value is below the n-th power of the base takes *)
(* at most n digits, so that the 64 bits of the widest integer take at     *)
(* most 20 in decimal (2^64 < 10^20) and 16 in hexadecimal: the room of 32 *)
(* that formatInteger asks for is enough for every number, as              *)
(* StatementAssumption says.                                               *)
(***************************************************************************)
THEOREM DigitsAreFew ==
    ASSUME NEW base \in {10, 16}, NEW power \in [Nat -> Nat],
           power[0] = 1, \A n \in Nat : power[n + 1] = base * power[n],
           NEW n \in Nat \ {0}, NEW v \in Int, Abs(v) < power[n]
    PROVE  Len(Convert(v, base)) <= n
<1> DEFINE Up == {k \in Nat : /\ power[k] \in Nat \ {0}
                              /\ \A w \in Int : Abs(w) < power[k] =>
                                    Len(Convert(w, base)) <= k \/ w = 0}
<1>1. 0 \in Up
  <2>1. ASSUME NEW w \in Int, Abs(w) < power[0]
        PROVE  w = 0
    BY <2>1 DEF Abs
  <2>2. power[0] \in Nat \ {0} /\ 0 \in Nat
    OBVIOUS
  <2>. QED
    BY <2>1, <2>2
<1>2. ASSUME NEW k \in Nat, k \in Up
      PROVE  k + 1 \in Up
  <2>1. power[k] \in Nat \ {0} /\ power[k + 1] = base * power[k]
    BY <1>2
  <2>2. power[k + 1] \in Nat \ {0}
    <3>1. CASE base = 10
      BY <2>1, <3>1
    <3>2. CASE base = 16
      BY <2>1, <3>2
    <3>. QED
      BY <3>1, <3>2
  <2>3. ASSUME NEW w \in Int, Abs(w) < power[k + 1]
        PROVE  Len(Convert(w, base)) <= k + 1
    BY <1>2, <2>1, <2>3, OneDigitLess
  <2>. QED
    BY <2>2, <2>3
<1>3. \A k \in Nat : k \in Up
  <2> HIDE DEF Up
  <2>. QED
    BY <1>1, <1>2, SetInduction
<1>4. CASE v # 0
  BY <1>3, <1>4
<1>5. CASE v = 0
  <2>1. Quotient(v, base) = 0
    BY <1>5, OneDigit
  <2>2. Convert(v, base) = <<Digit(Remainder(v, base))>>
    BY <2>1, ConvertLoops
  <2>3. Len(Convert(v, base)) = 1
    BY <2>2
  <2>. QED
    BY <2>3
<1>. QED
  BY <1>4, <1>5

-----------------------------------------------------------------------------
(***************************************************************************)
(* Lines: what is inserted fits, and when nothing is left out.             *)
(***************************************************************************)
\* The beginnings of a sequence, each one element longer than the one before.
LEMMA Beginnings ==
    ASSUME NEW X, NEW seq \in Seq(X)
    PROVE  /\ SubSeq(seq, 1, 0) = <<>> /\ SubSeq(seq, 1, Len(seq)) = seq
           /\ \A k \in 0 .. Len(seq) : SubSeq(seq, 1, k) \in Seq(X)
           /\ \A k \in 0 .. Len(seq) - 1 :
                 SubSeq(seq, 1, k + 1) = Append(SubSeq(seq, 1, k), seq[k + 1])
<1>1. Len(seq) \in Nat
  OBVIOUS
<1>2. SubSeq(seq, 1, 0) = <<>>
  OBVIOUS
<1>3. SubSeq(seq, 1, Len(seq)) = seq
  OBVIOUS
<1>4. ASSUME NEW k \in 0 .. Len(seq)
      PROVE  SubSeq(seq, 1, k) \in Seq(X)
  OBVIOUS
<1>5. ASSUME NEW k \in 0 .. Len(seq) - 1
      PROVE  SubSeq(seq, 1, k + 1) = Append(SubSeq(seq, 1, k), seq[k + 1])
  OBVIOUS
<1>. QED
  BY <1>2, <1>3, <1>4, <1>5

\* within the buffer, a byte for the end left
Fits(line) == Size(line) < SmallSize

\* A number that takes no more than the room it asks for.
Modest(piece) == piece.kind # "text" => Length(piece) <= MaxDecLength

\* An insertion stays within the buffer and takes nothing away.
LEMMA InsertFits ==
    ASSUME NEW line \in Lines, Fits(line), NEW p \in Pieces, Modest(p)
    PROVE  Fits(Insert(line, p)) /\ Size(Insert(line, p)) >= Size(line)
<1>1. /\ Size(line) \in Nat /\ Length(p) \in Nat
      /\ Size(Append(line, p)) = Size(line) + Length(p)
  BY SizeLaws, LengthIsNat DEF Lines
<1>2. CASE ~HasRoom(line, p)
  BY <1>1, <1>2 DEF Insert
<1>3. CASE HasRoom(line, p)
  <2>1. SmallSize - Size(line) > Length(p)
    <3>1. CASE p.kind = "text"
      BY <1>3, <3>1 DEF HasRoom, Takes, Available, Length
    <3>2. CASE p.kind # "text"
      <4>1. SmallSize - Size(line) > MaxDecLength /\ Length(p) <= MaxDecLength
        BY <1>3, <3>2 DEF HasRoom, NumberFits, Available, Modest
      <4>. QED
        BY <1>1, <4>1, StreamAssumption
    <3>. QED
      BY <3>1, <3>2
  <2>. QED
    BY <1>1, <1>3, <2>1, StreamAssumption DEF Insert, Fits
<1>. QED
  BY <1>2, <1>3

\* So does building a line, and its first piece is never lost.
LEMMA BuildFits ==
    ASSUME NEW pieces \in Lines, \A i \in DOMAIN pieces : Modest(pieces[i])
    PROVE  /\ Fits(Build(pieces))
           /\ pieces # <<>> => Size(Build(pieces)) >= Size(Build(SubSeq(pieces, 1, 1)))
<1> DEFINE B(k) == Build(SubSeq(pieces, 1, k))
           First == Size(B(1))
           Up == {k \in Nat : k <= Len(pieces) =>
                     Fits(B(k)) /\ B(k) \in Lines /\ (k >= 1 => Size(B(k)) >= First)}
<1>1. Len(pieces) \in Nat /\ \A i \in 1 .. Len(pieces) : pieces[i] \in Pieces /\ Modest(pieces[i])
  BY DEF Lines
<1>2. ASSUME NEW k \in 0 .. Len(pieces)
      PROVE  B(k) \in Lines
  <2>1. SubSeq(pieces, 1, k) \in Lines
    BY Beginnings DEF Lines
  <2>. QED
    BY <2>1, BuildLaws
<1>3. 0 \in Up
  <2>1. B(0) = <<>> /\ <<>> \in Lines
    <3>1. SubSeq(pieces, 1, 0) = <<>> /\ <<>> \in Lines
      BY DEF Lines
    <3>. QED
      BY <3>1, BuildLaws
  <2>2. Fits(<<>>)
    BY SizeLaws, StreamAssumption DEF Fits
  <2> HIDE DEF First, B
  <2>. QED
    BY <2>1, <2>2
<1>4. ASSUME NEW k \in Nat, k \in Up
      PROVE  k + 1 \in Up
  <2>1. CASE k + 1 <= Len(pieces)
    <3>1. /\ k \in 0 .. Len(pieces) - 1 /\ k <= Len(pieces) /\ k + 1 \in 1 .. Len(pieces)
      BY <1>1, <2>1
    <3>2. /\ SubSeq(pieces, 1, k) \in Lines
          /\ SubSeq(pieces, 1, k + 1) = Append(SubSeq(pieces, 1, k), pieces[k + 1])
      BY <1>1, <3>1, Beginnings DEF Lines
    <3>3. B(k + 1) = Insert(B(k), pieces[k + 1]) /\ B(k) \in Lines
      BY <1>1, <3>1, <3>2, BuildLaws
    <3>4. Fits(B(k)) /\ (k >= 1 => Size(B(k)) >= First)
      BY <1>4, <3>1
    <3> HIDE DEF B
    <3>5. Fits(B(k + 1)) /\ Size(B(k + 1)) >= Size(B(k))
      BY <1>1, <3>1, <3>3, <3>4, InsertFits
    <3>6. B(k + 1) \in Lines
      <4>1. k + 1 \in 0 .. Len(pieces)
        BY <1>1, <3>1
      <4>. QED
        BY <1>2, <4>1
    <3>7. Size(B(k)) \in Nat /\ Size(B(k + 1)) \in Nat /\ Size(B(1)) \in Nat
      <4>1. B(1) \in Lines
        <5>1. 1 \in 0 .. Len(pieces)
          BY <1>1, <2>1
        <5>. QED
          BY <1>2, <5>1
      <4>. QED
        BY <3>3, <3>6, <4>1, SizeLaws DEF Lines
    <3>8. Size(B(k + 1)) >= First
      BY <3>4, <3>5, <3>7
    <3>. QED
      BY <3>5, <3>6, <3>8
  <2>2. CASE ~(k + 1 <= Len(pieces))
    BY <2>2
  <2>. QED
    BY <2>1, <2>2
<1>5. Len(pieces) \in Up
  <2> HIDE DEF Up
  <2>. QED
    BY <1>1, <1>3, <1>4, SetInduction
<1>6. SubSeq(pieces, 1, Len(pieces)) = pieces
  BY Beginnings DEF Lines
<1>7. pieces # <<>> => Len(pieces) >= 1
  BY DEF Lines
<1>8. Fits(B(Len(pieces))) /\ (Len(pieces) >= 1 => Size(B(Len(pieces))) >= First)
  <2> HIDE DEF B, First
  <2>. QED
    BY <1>1, <1>5
<1>9. B(Len(pieces)) = Build(pieces)
  BY <1>6
<1>. QED
  <2> HIDE DEF B
  <2>1. B(1) = Build(SubSeq(pieces, 1, 1))
    BY DEF B
  <2>. QED
    BY <1>7, <1>8, <1>9, <2>1

\* A line that stays well within the buffer is built without a piece left out.
LEMMA ShortIsWhole ==
    ASSUME NEW pieces \in Lines, Size(pieces) < SmallSize - MaxDecLength
    PROVE  Build(pieces) = pieces
<1> DEFINE P(k) == SubSeq(pieces, 1, k)
           n == Len(pieces)
           Up == {k \in Nat : k <= n => Size(P(n - k)) <= Size(pieces)}
           Vp == {k \in Nat : k <= n => Build(P(k)) = P(k)}
<1>1. n \in Nat /\ (\A i \in 1 .. n : pieces[i] \in Pieces) /\ P(0) = <<>> /\ P(n) = pieces
  BY Beginnings DEF Lines
<1>2. ASSUME NEW k \in 0 .. n
      PROVE  P(k) \in Lines /\ Size(P(k)) \in Nat
  BY Beginnings, SizeLaws DEF Lines
<1>3. ASSUME NEW k \in 0 .. n - 1
      PROVE  /\ k \in 0 .. n /\ k + 1 \in 0 .. n /\ k + 1 \in 1 .. n
             /\ P(k + 1) = Append(P(k), pieces[k + 1])
             /\ Size(P(k + 1)) = Size(P(k)) + Length(pieces[k + 1])
             /\ Length(pieces[k + 1]) \in Nat
  <2>1. k \in 0 .. n /\ k + 1 \in 0 .. n /\ k + 1 \in 1 .. n
    BY <1>1
  <2>2. P(k + 1) = Append(P(k), pieces[k + 1])
    BY <1>1, Beginnings DEF Lines
  <2> HIDE DEF P, n
  <2>. QED
    BY <1>1, <1>2, <2>1, <2>2, SizeLaws, LengthIsNat DEF Lines
<1> HIDE DEF P, n
<1>4. ASSUME NEW j \in 0 .. n
      PROVE  Size(P(j)) <= Size(pieces)
  <2>1. 0 \in Up
    <3>1. n - 0 = n /\ n \in 0 .. n
      BY <1>1
    <3>2. Size(P(n)) \in Nat
      BY <1>2, <3>1
    <3>. QED
      BY <1>1, <3>1, <3>2
  <2>2. ASSUME NEW k \in Nat, k \in Up
        PROVE  k + 1 \in Up
    <3>1. CASE k + 1 <= n
      <4>1. n - (k + 1) \in 0 .. n - 1 /\ (n - (k + 1)) + 1 = n - k /\ k <= n /\ n \in 0 .. n
            /\ n - k \in 0 .. n /\ n - (k + 1) \in 0 .. n
        BY <1>1, <3>1
      <4>2. Size(P(n - k)) = Size(P(n - (k + 1))) + Length(pieces[(n - (k + 1)) + 1])
            /\ Length(pieces[(n - (k + 1)) + 1]) \in Nat
        BY <1>3, <4>1
      <4>3. Size(P(n - k)) \in Nat /\ Size(P(n - (k + 1))) \in Nat /\ Size(pieces) \in Nat
        BY <1>1, <1>2, <4>1
      <4>. QED
        BY <2>2, <4>1, <4>2, <4>3
    <3>2. CASE ~(k + 1 <= n)
      BY <3>2
    <3>. QED
      BY <3>1, <3>2
  <2>3. n - j \in Nat /\ n - j <= n /\ n - (n - j) = j
    BY <1>1
  <2>4. n - j \in Up
    <3> HIDE DEF Up
    <3>. QED
      BY <2>1, <2>2, <2>3, SetInduction
  <2>. QED
    BY <2>3, <2>4
<1>5. 0 \in Vp
  BY <1>1, BuildLaws
<1>6. ASSUME NEW k \in Nat, k \in Vp
      PROVE  k + 1 \in Vp
  <2>1. CASE k + 1 <= n
    <3>1. k \in 0 .. n - 1 /\ k <= n
      BY <1>1, <2>1
    <3> DEFINE p == pieces[k + 1]
    <3>2. /\ k \in 0 .. n /\ k + 1 \in 0 .. n /\ p \in Pieces
          /\ P(k + 1) = Append(P(k), p)
          /\ Size(P(k + 1)) = Size(P(k)) + Length(p) /\ Length(p) \in Nat
      BY <1>1, <1>3, <3>1
    <3> HIDE DEF p
    <3>3. P(k) \in Lines /\ Size(P(k)) \in Nat /\ Size(P(k + 1)) <= Size(pieces)
          /\ Size(pieces) \in Nat
      BY <1>2, <1>4, <3>2, SizeLaws DEF Lines
    <3>4. Build(P(k + 1)) = Insert(P(k), p)
      BY <1>6, <3>1, <3>2, <3>3, BuildLaws
    <3>5. HasRoom(P(k), p)
      <4>1. Size(P(k)) + Length(p) < SmallSize - MaxDecLength
        BY <3>2, <3>3, StreamAssumption
      <4>2. SmallSize - Size(P(k)) > MaxDecLength /\ SmallSize - Size(P(k)) > Length(p)
        BY <3>2, <3>3, <4>1, StreamAssumption
      <4>3. CASE p.kind = "text"
        BY <4>2, <4>3 DEF HasRoom, Takes, Available, Length
      <4>4. CASE p.kind # "text"
        BY <4>2, <4>4 DEF HasRoom, NumberFits, Available
      <4>. QED
        BY <4>3, <4>4
    <3>. QED
      BY <3>2, <3>4, <3>5 DEF Insert
  <2>2. CASE ~(k + 1 <= n)
    BY <2>2
  <2>. QED
    BY <2>1, <2>2
<1>7. n \in Vp
  <2> HIDE DEF Vp
  <2>. QED
    BY <1>1, <1>5, <1>6, SetInduction
<1>. QED
  BY <1>1, <1>7

\* What a concatenation begins with.
LEMMA HeadStays ==
    ASSUME NEW X, NEW p \in Seq(X), NEW q \in Seq(X), Len(p) >= 1
    PROVE  p \o q \in Seq(X) /\ Len(p \o q) >= 1 /\ (p \o q)[1] = p[1]
  OBVIOUS

\* The line of a statement: its pieces, and that the level's name is in it.
LEMMA LineOfStatement ==
    ASSUME NEW s \in Statements
    PROVE  /\ Inserted(s) \in Lines /\ Inserted(s) # <<>>
           /\ Size(Build(Inserted(s))) \in 1 .. SmallSize - 1
<1> DEFINE name == Text(IF s.level \in {INFO, WARN} THEN 10 ELSE 11)
           first == SubSeq(Inserted(s), 1, 1)
<1>1. /\ s.pieces \in Lines
      /\ \A n \in Nat : Text(n) \in Pieces /\ Dec(n) \in Pieces
  BY LoggingAssumption DEF Lines, Pieces, Kinds, Text, Dec
<1>2. /\ name \in Pieces /\ name.kind = "text" /\ name.n \in {10, 11}
  BY <1>1 DEF Text
<1> HIDE DEF name
<1>3. PICK rest \in Lines : Prefix(s.level) = <<name>> \o rest
  <2>1. <<Text(17), Text(4), Text(2)>> \in Lines /\ <<>> \in Lines
    BY <1>1 DEF Lines
  <2>. QED
    BY <2>1 DEF Prefix, name
<1>4. Closing \in Lines
  BY <1>1 DEF Closing, FileName, Lines
<1>5. Inserted(s) = <<name>> \o rest \o s.pieces \o Closing
  BY <1>3 DEF Inserted
<1>6. Inserted(s) \in Lines /\ Len(Inserted(s)) >= 1 /\ Inserted(s)[1] = name
  <2>1. <<name>> \in Lines /\ Len(<<name>>) = 1 /\ <<name>>[1] = name
    BY <1>2 DEF Lines
  <2> DEFINE a == <<name>> \o rest
             b == a \o s.pieces
             c == b \o Closing
  <2>2. a \in Lines /\ Len(a) >= 1 /\ a[1] = name
    BY <2>1, HeadStays DEF Lines
  <2>3. b \in Lines /\ Len(b) >= 1 /\ b[1] = name
    <3> HIDE DEF a
    <3>. QED
      BY <1>1, <2>2, HeadStays DEF Lines
  <2>4. c \in Lines /\ Len(c) >= 1 /\ c[1] = name
    <3> HIDE DEF b
    <3>. QED
      BY <1>4, <2>3, HeadStays DEF Lines
  <2>. QED
    BY <1>5, <2>4
<1>7. /\ Fits(Build(Inserted(s))) /\ Size(Build(Inserted(s))) >= Size(Build(first))
  <2>1. \A i \in DOMAIN Inserted(s) : Modest(Inserted(s)[i])
    BY StatementAssumption DEF Modest
  <2>2. Inserted(s) # <<>>
    BY <1>6
  <2>. QED
    BY <1>6, <2>1, <2>2, BuildFits
<1>8. first = Append(<<>>, name)
  <2>1. 1 \in 1 .. Len(Inserted(s)) /\ Inserted(s) \in Seq(Pieces)
    BY <1>6 DEF Lines
  <2> HIDE DEF first
  <2> DEFINE line == Inserted(s)
  <2>2. 0 \in 0 .. Len(line) - 1 /\ line \in Seq(Pieces) /\ line[1] = name
    BY <1>6, <2>1
  <2> HIDE DEF line
  <2>3. /\ SubSeq(line, 1, 0 + 1) = Append(SubSeq(line, 1, 0), line[0 + 1])
        /\ SubSeq(line, 1, 0) = <<>>
    BY <2>2, Beginnings, Zenon
  <2>4. SubSeq(line, 1, 1) = Append(<<>>, name)
    <3>1. 0 + 1 = 1
      OBVIOUS
    <3>. QED
      BY <2>2, <2>3, <3>1, Zenon
  <2>. QED
    BY <2>4 DEF first, line
<1>9. Build(first) = Append(<<>>, name) /\ Length(name) >= 10 /\ Length(name) \in Nat
  <2>1. <<>> \in Lines
    BY DEF Lines
  <2>2. Build(Append(<<>>, name)) = Insert(<<>>, name)
    BY <1>2, <2>1, BuildLaws
  <2>3. HasRoom(<<>>, name)
    BY <1>2, SizeLaws, StatementAssumption, StreamAssumption
       DEF HasRoom, Takes, Available, Stored
  <2>4. Build(first) = Append(<<>>, name)
    BY <1>8, <2>2, <2>3 DEF Insert
  <2>5. Length(name) = name.n
    BY <1>2 DEF Length, Stored
  <2>. QED
    BY <1>2, <2>4, <2>5
<1>10. Size(Build(first)) >= 10
  <2>1. <<>> \in Seq(Pieces)
    OBVIOUS
  <2>2. Size(Append(<<>>, name)) = 0 + Length(name)
    BY <1>2, <2>1, SizeLaws
  <2>. QED
    BY <1>9, <2>2
<1>11. Size(Build(Inserted(s))) \in Nat
  BY <1>6, BuildLaws, SizeLaws DEF Lines
<1>12. Size(Build(first)) \in Nat
  <2>1. Append(<<>>, name) \in Seq(Pieces)
    BY <1>2
  <2>. QED
    BY <1>9, <2>1, SizeLaws
<1>. QED
  BY <1>6, <1>7, <1>10, <1>11, <1>12, StreamAssumption DEF Fits

-----------------------------------------------------------------------------
(***************************************************************************)
(* The invariant of the threads that log, next to those of the logger.     *)
(***************************************************************************)
ControlInv ==
    /\ logLevel \in Levels
    /\ outFunc \in {"stdout", "append"}
    /\ fatal \subseteq Threads

\* the latest record was appended by a statement or by user code, and was stored
SaidInv ==
    /\ said \in [len : Nat, pieces : Seq(Pieces)]
    /\ \/ said.pieces = <<>>
       \/ \E s \in Statements :
             said.pieces = Inserted(s) /\ said.len = Size(Build(Inserted(s)))
    /\ said.len \in 1 .. Cap - 1 => Last(sizes) = said.len

\* The inductive invariant: the logger's three and the threads' two.
LoggingInv == IndInv /\ OrderInv /\ RoomInv /\ ControlInv /\ SaidInv

\* To the logger, a log statement is the appending of a record, or nothing.
LEMMA LoggingStep == [LoggingNext]_loggingVars => [Next]_vars \/ AnyAppend
<1> SUFFICES ASSUME [LoggingNext]_loggingVars
             PROVE  [Next]_vars \/ AnyAppend
  OBVIOUS
<1>1. ASSUME NEW len \in Nat, NEW pieces, AppendSaid(len, pieces)
      PROVE  AnyAppend
  BY <1>1 DEF AppendSaid, AnyAppend
<1>2. ASSUME NEW t \in Threads, AbortFatal(t)
      PROVE  Next
  BY <1>2 DEF AbortFatal, Next
<1>3. ASSUME NEW t \in Threads, NEW s \in Statements, Log(t, s)
      PROVE  AnyAppend \/ UNCHANGED vars
  <2>1. Size(Build(Inserted(s))) \in Nat
    BY LineOfStatement
  <2>2. CASE AppendSaid(Size(Build(Inserted(s))), Inserted(s))
    BY <1>1, <2>1, <2>2
  <2>3. CASE UNCHANGED <<vars, said>>
    BY <2>3
  <2>. QED
    BY <1>3, <2>2, <2>3 DEF Log
<1>4. ASSUME NEW len \in Lens, AppendSaid(len, <<>>)
      PROVE  AnyAppend
  BY <1>1, <1>4, LogAssumption
<1>5. CASE SetLogLevel \/ SetOutFunc
  BY <1>5 DEF SetLogLevel, SetOutFunc
<1>6. CASE Start \/ Stop \/ ThreadStep \/ Disk
  BY <1>6 DEF Next
<1>7. CASE UNCHANGED loggingVars
  BY <1>7 DEF loggingVars
<1>. QED
  BY <1>2, <1>3, <1>4, <1>5, <1>6, <1>7 DEF LoggingNext

\* A record with a length and smaller than a buffer is stored, whatever is in
\* the buffer.
LEMMA AppendAccepts ==
    ASSUME Shape, RoomInv, NEW len \in 1 .. Cap - 1, AppendRecord(len)
    PROVE  Last(sizes') = len
<1> DEFINE buffer == IF NoRoom(len) THEN <<>> ELSE curBuffer
<1>1. sizes \in Seq(Nat) /\ curBuffer \in Seq(1 .. Len(sizes)) /\ len \in Nat /\ Stored(len) = len
  BY DEF Shape, Buffers, Records, Stored
<1>2. Used(<<>>) = 0 /\ Used(curBuffer) \in Nat
  BY <1>1, UsedLaws, UsedIs
<1>3. Takes(Cap, Used(buffer), len)
  <2>1. CASE NoRoom(len)
    BY <1>1, <1>2, <2>1, LogAssumption DEF Takes, Available
  <2>2. CASE ~NoRoom(len)
    BY <1>1, <1>2, <2>2, LogAssumption DEF Takes, Available, NoRoom
  <2>. QED
    BY <2>1, <2>2
<1>4. sizes' = Append(sizes, len)
  BY <1>1, <1>3 DEF AppendRecord
<1>. QED
  BY <1>1, <1>4 DEF Last

\* Every step of the threads keeps their invariant.
LEMMA SaidNext ==
    ASSUME Shape, RoomInv, SaidInv, ControlInv, [LoggingNext]_loggingVars
    PROVE  SaidInv' /\ ControlInv'
<1>1. ASSUME UNCHANGED <<sizes, said>>
      PROVE  SaidInv'
  BY <1>1 DEF SaidInv
<1>2. ASSUME NEW len \in Nat, NEW pieces \in Seq(Pieces), AppendSaid(len, pieces),
             \/ pieces = <<>>
             \/ \E s \in Statements : pieces = Inserted(s) /\ len = Size(Build(Inserted(s)))
      PROVE  SaidInv'
  <2>1. said' = [len |-> len, pieces |-> pieces] /\ AppendRecord(len)
    BY <1>2 DEF AppendSaid
  <2>2. len \in 1 .. Cap - 1 => Last(sizes') = len
    BY <2>1, AppendAccepts
  <2>3. said' \in [len : Nat, pieces : Seq(Pieces)] /\ said'.len = len /\ said'.pieces = pieces
    BY <2>1
  <2>. QED
    BY <1>2, <2>2, <2>3 DEF SaidInv
<1>3. ASSUME NEW t \in Threads, AbortFatal(t)
      PROVE  SaidInv' /\ ControlInv'
  BY <1>1, <1>3 DEF AbortFatal, Abort, shared, ControlInv
<1>4. ASSUME NEW t \in Threads, NEW s \in Statements, Log(t, s)
      PROVE  SaidInv' /\ ControlInv'
  <2>1. ControlInv'
    BY <1>4 DEF Log, ControlInv
  <2>2. CASE AppendSaid(Size(Build(Inserted(s))), Inserted(s))
    <3>1. Size(Build(Inserted(s))) \in Nat /\ Inserted(s) \in Seq(Pieces)
      BY LineOfStatement DEF Lines
    <3>. QED
      BY <1>2, <2>1, <2>2, <3>1
  <2>3. CASE UNCHANGED <<vars, said>>
    BY <1>1, <2>1, <2>3 DEF vars, shared
  <2>. QED
    BY <1>4, <2>2, <2>3 DEF Log
<1>5. ASSUME NEW len \in Lens, AppendSaid(len, <<>>), UNCHANGED <<logLevel, outFunc, fatal>>
      PROVE  SaidInv' /\ ControlInv'
  <2>1. len \in Nat /\ <<>> \in Seq(Pieces)
    BY LogAssumption
  <2>. QED
    BY <1>2, <1>5, <2>1 DEF ControlInv
<1>6. CASE SetLogLevel
  BY <1>1, <1>6 DEF SetLogLevel, vars, shared, ControlInv
<1>7. CASE SetOutFunc
  BY <1>1, <1>7 DEF SetOutFunc, vars, shared, ControlInv
<1>8. CASE (Start \/ Stop \/ ThreadStep \/ Disk) /\ UNCHANGED <<logLevel, outFunc, fatal, said>>
  <2>1. sizes' = sizes
    BY <1>8 DEF Start, Stop, Disk, DiskFills, DiskFreed, ThreadStep,
               ThreadBegins, Top, TakeRecords, TakeNothing, SwapOut,
                WriteBuffers, Recycle, shared
  <2>. QED
    BY <1>1, <1>8, <2>1 DEF ControlInv
<1>9. CASE UNCHANGED loggingVars
  BY <1>1, <1>9 DEF loggingVars, vars, shared, ControlInv
<1>. QED
  BY <1>3, <1>4, <1>5, <1>6, <1>7, <1>8, <1>9 DEF LoggingNext

\* At the start the destination is stdout and nothing was said.
LEMMA LoggingInitInv == LoggingInit => LoggingInv
<1> SUFFICES ASSUME LoggingInit
             PROVE  LoggingInv
  OBVIOUS
<1>1. Init
  BY DEF LoggingInit
<1>2. IndInv /\ OrderInv /\ RoomInv
  BY <1>1, InitInv, OrderInit, RoomInit
<1>3. ControlInv
  BY DEF LoggingInit, ControlInv
<1>4. SaidInv
  <2>1. said = [len |-> 0, pieces |-> <<>>]
    BY DEF LoggingInit
  <2>2. <<>> \in Seq(Pieces) /\ 0 \in Nat
    OBVIOUS
  <2>. QED
    BY <2>1, <2>2 DEF SaidInv
<1>. QED
  BY <1>2, <1>3, <1>4 DEF LoggingInv

\* Every step keeps the whole invariant.
LEMMA LoggingNextInv == LoggingInv /\ [LoggingNext]_loggingVars => LoggingInv'
<1> SUFFICES ASSUME LoggingInv, [LoggingNext]_loggingVars
             PROVE  LoggingInv'
  OBVIOUS
<1>1. IndInv /\ OrderInv /\ RoomInv /\ ControlInv /\ SaidInv /\ Shape
  BY DEF LoggingInv, IndInv
<1>2. [Next]_vars \/ AnyAppend
  BY LoggingStep
<1>3. IndInv' /\ OrderInv' /\ RoomInv'
  BY <1>1, <1>2, NextInv, OrderNext, RoomNext
<1>4. SaidInv' /\ ControlInv'
  BY <1>1, SaidNext
<1>. QED
  BY <1>3, <1>4 DEF LoggingInv

\* The invariant always holds.
LEMMA AlwaysLoggingInv == LoggingSpec => []LoggingInv
  BY LoggingInitInv, LoggingNextInv, PTL DEF LoggingSpec

(***************************************************************************)
(* Every variable keeps its type, the current buffer of the asynchronous   *)
(* logger a free byte, and no more buffers are flushed than were written,  *)
(* for any statements, threads and sizes.                                  *)
(***************************************************************************)
THEOREM LoggingTypesHold == LoggingSpec => []LoggingTypeOK
<1>1. LoggingInv => LoggingTypeOK
  BY TypeInv DEF LoggingInv, ControlInv, SaidInv, LoggingTypeOK
<1>. QED
  BY AlwaysLoggingInv, <1>1, PTL

(***************************************************************************)
(* No assertion of threadFUNC about its buffers fails when the records are *)
(* the lines of log statements, whatever their lengths.                    *)
(***************************************************************************)
THEOREM SparesSufficeForLines == LoggingSpec => []SparesSuffice
<1>1. LoggingInv => SparesSuffice
  BY InvGivesSpares DEF LoggingInv
<1>. QED
  BY AlwaysLoggingInv, <1>1, PTL

(***************************************************************************)
(* The lines of all threads are given to the LogFile once and in the order *)
(* in which their statements ended in outFunc, until a FATAL statement or  *)
(* user code aborts.                                                       *)
(***************************************************************************)
THEOREM LinesKeepOrder == LoggingSpec => []KeptInOrder
<1>1. LoggingInv => KeptInOrder
  BY DEF LoggingInv, OrderInv
<1>. QED
  BY AlwaysLoggingInv, <1>1, PTL

(***************************************************************************)
(* The line of a log statement is never empty and always smaller than a    *)
(* buffer of the asynchronous logger, and append() stores it, and every    *)
(* other record of such a length, whole.                                   *)
(***************************************************************************)
THEOREM LinesAlwaysAccepted == LoggingSpec => []LinesAreAccepted
<1>1. LoggingInv => LinesAreAccepted
  <2> SUFFICES ASSUME LoggingInv
               PROVE  LinesAreAccepted
    OBVIOUS
  <2>1. SaidInv
    BY DEF LoggingInv
  <2>2. said.pieces # <<>> => said.len \in 1 .. Cap - 1
    <3>1. SUFFICES ASSUME NEW s \in Statements, said.len = Size(Build(Inserted(s)))
                   PROVE  said.len \in 1 .. Cap - 1
      BY <2>1 DEF SaidInv
    <3>2. said.len \in 1 .. SmallSize - 1
      BY <3>1, LineOfStatement
    <3>. QED
      BY <3>2, LoggingAssumption, StreamAssumption, LogAssumption
  <2>. QED
    BY <2>1, <2>2 DEF SaidInv, LinesAreAccepted
<1>. QED
  BY AlwaysLoggingInv, <1>1, PTL

(***************************************************************************)
(* No insertion of a statement writes a stream past its end: a number asks *)
(* for MaxDecLength bytes before it is converted, and takes no more.       *)
(***************************************************************************)
THEOREM LinesAlwaysFit == LoggingSpec => []LinesFit
<1>1. LoggingInv => LinesFit
  <2> SUFFICES ASSUME LoggingInv
               PROVE  LinesFit
    OBVIOUS
  <2>1. SaidInv
    BY DEF LoggingInv
  <2>2. CASE said.pieces = <<>>
    BY <2>2, BuildLaws, SizeLaws, StreamAssumption DEF LinesFit
  <2>3. ASSUME NEW s \in Statements, said.pieces = Inserted(s)
        PROVE  LinesFit
    <3>1. Size(Build(Inserted(s))) \in 1 .. SmallSize - 1
      BY LineOfStatement
    <3>. QED
      BY <2>3, <3>1, StreamAssumption DEF LinesFit
  <2>. QED
    BY <2>1, <2>2, <2>3 DEF SaidInv
<1>. QED
  BY AlwaysLoggingInv, <1>1, PTL

(***************************************************************************)
(* A statement whose pieces stay the room of a number below the size of    *)
(* the stream's buffer loses none of them, the end of its line in          *)
(* particular.                                                             *)
(***************************************************************************)
THEOREM ShortLinesAlwaysWhole == LoggingSpec => []ShortLinesAreWhole
<1>1. LoggingInv => ShortLinesAreWhole
  BY ShortIsWhole DEF LoggingInv, SaidInv, ShortLinesAreWhole, Lines
<1>. QED
  BY AlwaysLoggingInv, <1>1, PTL

(***************************************************************************)
(* Every number in a line reads back, digit by digit and without a leading *)
(* zero, as its absolute value: for all integers, the least of each width  *)
(* among them, and not only for those of a bounded instance.               *)
(***************************************************************************)
THEOREM NumbersAlwaysReadBack == LoggingSpec => []NumbersReadBack
<1>1. LoggingInv => NumbersReadBack
  <2> SUFFICES ASSUME LoggingInv, NEW i \in DOMAIN said.pieces
               PROVE  /\ said.pieces[i].kind = "dec" => ReadsBack(said.pieces[i].n, 10)
                      /\ said.pieces[i].kind = "hex" => ReadsBack(said.pieces[i].n, 16)
    BY DEF NumbersReadBack
  <2>1. said.pieces \in Seq(Pieces)
    BY DEF LoggingInv, SaidInv
  <2>2. said.pieces[i] \in Pieces
    BY <2>1
  <2>3. said.pieces[i].n \in Int
    BY <2>2 DEF Pieces
  <2>4. 10 \in {10, 16} /\ 16 \in {10, 16}
    OBVIOUS
  <2>. QED
    BY <2>3, <2>4, NumbersRead, Zenon
<1>. QED
  BY AlwaysLoggingInv, <1>1, PTL
=============================================================================
