---------------------------- MODULE FacadeProofs ----------------------------
(***************************************************************************)
(* Proofs about SimulatorOps and the modules it is made of: what one       *)
(* operation of the facade does to a simulator, whatever client calls it.  *)
(* Nothing here has a state: Simulator and Trading use these lemmas for    *)
(* their steps, Trading under the contracts of the day.                    *)
(*                                                                         *)
(* A sum over lots, a choice of lots and a walk over lots are recursive    *)
(* functions over a sequence.  Each is shown to be a run of its steps from *)
(* its base; what its steps keep then holds of the whole by UpTo, which    *)
(* is the only induction.                                                  *)
(*                                                                         *)
(* The drift of a lot is what its basis has moved since it was opened, for *)
(* its volume; it is the difference of its two profits at any price.       *)
(*                                                                         *)
(* What the account is told is a sum over sides or orders of numbers that  *)
(* one operation changes at one place.  After the lots come such sums,     *)
(* then what each operation does to the account, to the lots that live     *)
(* orders have frozen, to the amounts the account is told and what it can  *)
(* pay, and to what an archive of the simulator says.  Together they are   *)
(* Ready.                                                                  *)
(***************************************************************************)
EXTENDS SimulatorOps, FiniteSetTheorems, WellFoundedInduction, SequenceTheorems, TLAPS

-----------------------------------------------------------------------------
(* Lots. *)

\* What holds of 0 and of each number with its predecessor holds up to n.
LEMMA UpTo ==
  ASSUME NEW n \in Nat, NEW T, 0 \in T, \A i \in 1 .. n : i - 1 \in T => i \in T
  PROVE  \A i \in 0 .. n : i \in T
<1> SUFFICES ASSUME NEW j \in 0 .. n, j \notin T PROVE FALSE
  OBVIOUS
<1> DEFINE missing == {i \in 0 .. n : i \notin T}
           less == OpToRel(<, Nat)
<1>1. missing # {} /\ missing \subseteq Nat
  OBVIOUS
<1>2. PICK m \in missing : \A d \in missing : ~(<<d, m>> \in less)
  <2>1. IsWellFoundedOn(less, Nat)
    BY NatLessThanWellFounded
  <2>. QED
    BY <1>1, <2>1, WFMin
<1>3. \A d \in missing : d \in Nat /\ ~(d < m)
  <2> HIDE DEF missing
  <2>1. m \in Nat /\ \A d \in missing : d \in Nat
    BY <1>1
  <2>. QED
    BY <1>2, <2>1 DEF OpToRel
<1>4. m \in 1 .. n /\ m - 1 \in 0 .. n
  OBVIOUS
<1>5. m - 1 \in T
  BY <1>3, <1>4
<1>. QED
  BY <1>4, <1>5

\* A run of n steps from a base: the values before, between and after the steps.
IsRun(n, X, base, step, f) ==
  f \in [0 .. n -> X] /\ f[0] = base /\ \A i \in 1 .. n : f[i] = step[<<i, f[i - 1]>>]

\* Such a run exists, whatever the step.
LEMMA Recursion ==
  ASSUME NEW n \in Nat, NEW X, NEW base \in X, NEW step \in [(1 .. n) \X X -> X]
  PROVE  \E f : IsRun(n, X, base, step, f)
<1> DEFINE T == {m \in 0 .. n : \E f : IsRun(m, X, base, step, f)}
<1>1. 0 \in T
  <2> DEFINE f == [i \in 0 .. 0 |-> base]
  <2>1. f \in [0 .. 0 -> X] /\ f[0] = base
    OBVIOUS
  <2>2. IsRun(0, X, base, step, f)
    <3> HIDE DEF f
    <3>. QED
      BY <2>1 DEF IsRun
  <2> HIDE DEF f
  <2>. QED
    BY <2>2
<1>2. ASSUME NEW m \in 1 .. n, m - 1 \in T PROVE m \in T
  <2>1. PICK f : IsRun(m - 1, X, base, step, f)
    BY <1>2
  <2> DEFINE g == [i \in 0 .. m |-> IF i = m THEN step[<<m, f[m - 1]>>] ELSE f[i]]
  <2>0. f \in [0 .. m - 1 -> X] /\ f[0] = base /\ \A i \in 1 .. m - 1 : f[i] = step[<<i, f[i - 1]>>]
    BY <2>1 DEF IsRun
  <2>2. m - 1 \in 0 .. m - 1 /\ f[m - 1] \in X
    BY <2>0
  <2>3. step[<<m, f[m - 1]>>] \in X
    BY <2>2
  <2>4. g \in [0 .. m -> X]
    BY <2>0, <2>3
  <2>5. g[0] = base
    BY <2>0
  <2>8. g[m] = step[<<m, f[m - 1]>>]
    OBVIOUS
  <2>9. \A i \in 0 .. m - 1 : g[i] = f[i]
    OBVIOUS
  <2> HIDE DEF g
  <2>6. ASSUME NEW i \in 1 .. m PROVE g[i] = step[<<i, g[i - 1]>>]
    <3>1. i - 1 \in 0 .. m - 1
      OBVIOUS
    <3>2. g[i - 1] = f[i - 1]
      BY <2>9, <3>1
    <3>3. CASE i = m
      BY <2>8, <3>2, <3>3, Zenon
    <3>4. CASE i # m
      <4>1. i \in 1 .. m - 1 /\ i \in 0 .. m - 1
        BY <3>4
      <4>2. g[i] = f[i]
        BY <2>9, <4>1
      <4>. QED
        BY <2>0, <3>2, <4>1, <4>2, Zenon
    <3>. QED
      BY <3>3, <3>4
  <2>7. IsRun(m, X, base, step, g)
    BY <2>4, <2>5, <2>6 DEF IsRun
  <2>. QED
    BY <2>7
<1>3. n \in T
  <2> HIDE DEF T
  <2>1. \A i \in 0 .. n : i \in T
    BY <1>1, <1>2, UpTo
  <2>. QED
    BY <2>1
<1>. QED
  BY <1>3

-----------------------------------------------------------------------------
\* The partial sums of a sequence of numbers.
Sums(s, f) == f \in [0 .. Len(s) -> Int] /\ f[0] = 0 /\ \A i \in 1 .. Len(s) : f[i] = f[i - 1] + s[i]

\* A sequence of numbers has partial sums.
LEMMA SumsExist ==
  ASSUME NEW s \in Seq(Int)
  PROVE  \E f : Sums(s, f)
<1> DEFINE n == Len(s)
           step == [x \in (1 .. n) \X Int |-> x[2] + s[x[1]]]
<1>1. n \in Nat /\ \A i \in 1 .. n : s[i] \in Int
  OBVIOUS
<1>2. step \in [(1 .. n) \X Int -> Int]
  BY <1>1
<1>3. PICK f : IsRun(n, Int, 0, step, f)
  <2> HIDE DEF step, n
  <2>1. 0 \in Int
    OBVIOUS
  <2>. QED
    BY <1>1, <1>2, <2>1, Recursion
<1>5. f \in [0 .. n -> Int] /\ f[0] = 0 /\ \A i \in 1 .. n : f[i] = step[<<i, f[i - 1]>>]
  BY <1>3 DEF IsRun
<1>4. ASSUME NEW i \in 1 .. n PROVE f[i] = f[i - 1] + s[i]
  <2>1. f[i - 1] \in Int /\ <<i, f[i - 1]>> \in (1 .. n) \X Int
    <3>1. i - 1 \in 0 .. n
      BY <1>1
    <3>. QED
      BY <1>5, <3>1
  <2> DEFINE x == <<i, f[i - 1]>>
  <2>2. step[x] = x[2] + s[x[1]]
    BY <2>1
  <2>. QED
    BY <1>5, <2>2
<1>. QED
  BY <1>4, <1>5 DEF Sums

\* Total is the last of the partial sums (lot.go, the loops over lots).
LEMMA TotalIs ==
  ASSUME NEW s \in Seq(Int), NEW f, Sums(s, f)
  PROVE  Total(s) = f[Len(s)]
<1> DEFINE n == Len(s)
           Step(g) == g = [i \in 0 .. n |-> IF i = 0 THEN 0 ELSE g[i - 1] + s[i]]
           sum == CHOOSE g : Step(g)
<1>1. n \in Nat
  OBVIOUS
<1>2. Step(f)
  <2> SUFFICES f = [i \in 0 .. n |-> IF i = 0 THEN 0 ELSE f[i - 1] + s[i]]
    OBVIOUS
  <2>. QED
    BY <1>1 DEF Sums
<1>3. Step(sum)
  BY <1>2
<1>4. Total(s) = sum[n]
  BY DEF Total
<1>5. \A i \in 0 .. n : sum[i] = IF i = 0 THEN 0 ELSE sum[i - 1] + s[i]
  <2> HIDE DEF sum
  <2>. QED
    BY <1>3
<1> HIDE DEF sum
<1> DEFINE T == {i \in 0 .. n : sum[i] = f[i]}
<1>6. 0 \in T
  BY <1>1, <1>5 DEF Sums
<1>7. ASSUME NEW i \in 1 .. n, i - 1 \in T PROVE i \in T
  BY <1>1, <1>5, <1>7 DEF Sums
<1>8. n \in T
  <2> HIDE DEF T
  <2>1. \A i \in 0 .. n : i \in T
    BY <1>1, <1>6, <1>7, UpTo
  <2>. QED
    BY <1>1, <2>1
<1>. QED
  BY <1>4, <1>8

\* A total of integers is an integer.
LEMMA TotalInt ==
  ASSUME NEW s \in Seq(Int)
  PROVE  Total(s) \in Int
<1>1. PICK f : Sums(s, f)
  BY SumsExist
<1>2. Len(s) \in 0 .. Len(s)
  OBVIOUS
<1>3. f[Len(s)] \in Int
  BY <1>1, <1>2 DEF Sums
<1>. QED
  BY <1>1, <1>3, TotalIs

\* Nothing adds up to nothing.
LEMMA TotalOfNothing == Total(<<>>) = 0
<1>1. <<>> \in Seq(Int) /\ Len(<<>>) = 0
  OBVIOUS
<1>2. PICK f : Sums(<<>>, f)
  BY <1>1, SumsExist
<1>. QED
  BY <1>1, <1>2, TotalIs DEF Sums

\* One more number is added at the end.
LEMMA TotalAppend ==
  ASSUME NEW s \in Seq(Int), NEW x \in Int
  PROVE  Total(Append(s, x)) = Total(s) + x
<1> DEFINE t == Append(s, x)
           n == Len(s)
<1>1. PICK f : Sums(s, f)
  BY SumsExist
<1>2. n \in Nat /\ t \in Seq(Int) /\ Len(t) = n + 1 /\ t[n + 1] = x /\ \A i \in 1 .. n : t[i] = s[i]
  OBVIOUS
<1> DEFINE g == [i \in 0 .. n + 1 |-> IF i = n + 1 THEN f[n] + x ELSE f[i]]
<1>3. f \in [0 .. n -> Int] /\ f[n] \in Int
  BY <1>1, <1>2 DEF Sums
<1> HIDE DEF t
<1>4. Sums(t, g)
  BY <1>1, <1>2, <1>3 DEF Sums
<1>5. g[n + 1] = f[n] + x
  BY <1>2
<1> HIDE DEF g
<1>. QED
  BY <1>1, <1>2, <1>4, <1>5, TotalIs DEF t

\* Numbers added place by place, each with its weight.
LEMMA TotalCombined ==
  ASSUME NEW s \in Seq(Int), NEW t \in Seq(Int), Len(t) = Len(s), NEW a \in Int, NEW b \in Int,
         NEW u \in Seq(Int), Len(u) = Len(s), \A i \in 1 .. Len(s) : u[i] = a * s[i] + b * t[i]
  PROVE  Total(u) = a * Total(s) + b * Total(t)
<1> DEFINE n == Len(s)
<1>1. PICK f : Sums(s, f)
  BY SumsExist
<1>2. PICK g : Sums(t, g)
  BY SumsExist
<1> DEFINE h == [i \in 0 .. n |-> a * f[i] + b * g[i]]
<1>3. n \in Nat /\ f \in [0 .. n -> Int] /\ g \in [0 .. n -> Int]
  BY <1>1, <1>2 DEF Sums
<1>9. \A i \in 1 .. n : s[i] \in Int /\ t[i] \in Int
  BY ElementOfSeq
<1>4. ASSUME NEW i \in 0 .. n PROVE a * f[i] + b * g[i] \in Int
  <2>1. f[i] \in Int /\ g[i] \in Int
    BY <1>3
  <2>. QED
    BY <2>1
<1>5. ASSUME NEW i \in 1 .. n PROVE h[i] = h[i - 1] + u[i]
  <2>1. f[i] = f[i - 1] + s[i] /\ g[i] = g[i - 1] + t[i]
    BY <1>1, <1>2 DEF Sums
  <2>2. i - 1 \in 0 .. n /\ i \in 0 .. n
    BY <1>3
  <2>3. f[i - 1] \in Int /\ g[i - 1] \in Int /\ s[i] \in Int /\ t[i] \in Int
    BY <1>3, <2>2, <1>9
  <2>5. a * (f[i - 1] + s[i]) + b * (g[i - 1] + t[i]) = (a * f[i - 1] + b * g[i - 1]) + (a * s[i] + b * t[i])
    <3> DEFINE x == f[i - 1]
               y == g[i - 1]
               v == s[i]
               w == t[i]
    <3>1. x \in Int /\ y \in Int /\ v \in Int /\ w \in Int
      BY <2>3
    <3> HIDE DEF x, y, v, w
    <3>2. a * (x + v) + b * (y + w) = a * x + b * y + (a * v + b * w)
      BY <3>1
    <3>. QED
      BY <3>2 DEF x, y, v, w
  <2>. QED
    BY <2>1, <2>2, <2>5
<1>6. h[0] = 0
  BY <1>1, <1>2, <1>3 DEF Sums
<1>7. Sums(u, h)
  BY <1>3, <1>4, <1>5, <1>6 DEF Sums
<1>8. h[n] = a * f[n] + b * g[n]
  BY <1>3
<1> HIDE DEF h
<1>. QED
  BY <1>1, <1>2, <1>7, <1>8, TotalIs

\* The first n numbers of a row and their running sums.
Row(n, s, f) ==
  /\ \A i \in 1 .. n : s[i] \in Int
  /\ f \in [0 .. n -> Int] /\ f[0] = 0
  /\ \A i \in 1 .. n : f[i] = f[i - 1] + s[i]

Follows(n, s, m, t, u) ==
  \A i \in 1 .. n + m : (i <= n => u[i] = s[i]) /\ (i > n => u[i] = t[i - n])

\* The running sums of two rows of numbers, one put after the other.
LEMMA RowsJoined ==
  ASSUME NEW n \in Nat, NEW m \in Nat, NEW s, NEW t, NEW u, NEW f, NEW g,
         Row(n, s, f), Row(m, t, g), Follows(n, s, m, t, u)
  PROVE  \E h : Row(n + m, u, h) /\ h[n + m] = f[n] + g[m]
<1> DEFINE h == [i \in 0 .. n + m |-> IF i <= n THEN f[i] ELSE f[n] + g[i - n]]
<1>11. f \in [0 .. n -> Int] /\ f[0] = 0 /\ \A i \in 1 .. n : s[i] \in Int /\ f[i] = f[i - 1] + s[i]
  BY DEF Row
<1>12. g \in [0 .. m -> Int] /\ g[0] = 0 /\ \A i \in 1 .. m : t[i] \in Int /\ g[i] = g[i - 1] + t[i]
  BY DEF Row
<1>13. \A i \in 1 .. n + m : (i <= n => u[i] = s[i]) /\ (i > n => u[i] = t[i - n])
  BY DEF Follows
<1>1. f[n] \in Int
  BY <1>11
<1>2. ASSUME NEW i \in 0 .. n + m, i <= n PROVE h[i] = f[i] /\ f[i] \in Int
  BY <1>2, <1>11
<1>3. ASSUME NEW i \in 0 .. n + m, i > n PROVE h[i] = f[n] + g[i - n] /\ g[i - n] \in Int
  <2>1. i - n \in 0 .. m
    BY <1>3
  <2>. QED
    BY <1>3, <1>12, <2>1
<1>4. h = [i \in 0 .. n + m |-> h[i]]
  OBVIOUS
<1> HIDE DEF h
<1>5. ASSUME NEW i \in 0 .. n + m PROVE h[i] \in Int
  <2>1. CASE i <= n
    BY <1>2, <2>1
  <2>2. CASE i > n
    BY <1>1, <1>3, <2>2
  <2>. QED
    BY <2>1, <2>2
<1>6. ASSUME NEW i \in 1 .. n + m PROVE h[i] = h[i - 1] + u[i]
  <2>1. i \in 0 .. n + m /\ i - 1 \in 0 .. n + m
    OBVIOUS
  <2>2. CASE i <= n
    <3>1. i \in 1 .. n /\ i - 1 <= n
      BY <2>2
    <3>2. f[i] = f[i - 1] + s[i] /\ u[i] = s[i]
      BY <1>11, <1>13, <2>2, <3>1
    <3>3. h[i] = f[i] /\ h[i - 1] = f[i - 1]
      BY <1>2, <2>1, <2>2, <3>1
    <3>. QED
      BY <3>2, <3>3
  <2>3. CASE i > n
    <3>1. i - n \in 1 .. m /\ (i - n) - 1 = (i - 1) - n /\ i - n - 1 \in 0 .. m
      BY <2>3
    <3>2. g[i - n] = g[(i - 1) - n] + t[i - n]
      BY <1>12, <3>1
    <3>3. u[i] = t[i - n] /\ t[i - n] \in Int /\ g[(i - 1) - n] \in Int
      BY <1>12, <1>13, <2>3, <3>1
    <3>4. h[i] = f[n] + g[i - n]
      BY <1>3, <2>1, <2>3
    <3>5. h[i - 1] = f[n] + g[(i - 1) - n]
      <4>1. CASE i - 1 > n
        BY <1>3, <2>1, <4>1
      <4>2. CASE i - 1 = n
        <5>1. (i - 1) - n = 0
          BY <4>2
        <5>2. h[i - 1] = f[n]
          BY <1>2, <2>1, <4>2
        <5>. QED
          BY <1>1, <1>12, <5>1, <5>2
      <4>. QED
        BY <2>3, <4>1, <4>2
    <3>. QED
      BY <1>1, <3>2, <3>3, <3>4, <3>5
  <2>. QED
    BY <2>2, <2>3
<1>7. h[0] = 0
  BY <1>2, <1>11
<1>8. h[n + m] = f[n] + g[m]
  <2>1. CASE m = 0
    BY <1>1, <1>2, <1>12, <2>1
  <2>2. CASE m > 0
    <3>1. n + m \in 0 .. n + m /\ n + m > n /\ (n + m) - n = m
      BY <2>2
    <3>. QED
      BY <1>3, <3>1
  <2>. QED
    BY <2>1, <2>2
<1>9. h \in [0 .. n + m -> Int]
  BY <1>4, <1>5
<1>10. \A i \in 1 .. n + m : u[i] \in Int
  <2>1. SUFFICES ASSUME NEW i \in 1 .. n + m PROVE u[i] \in Int
    OBVIOUS
  <2>2. CASE i <= n
    <3>1. i \in 1 .. n
      BY <2>2
    <3>2. u[i] = s[i]
      BY <1>13, <2>2
    <3>. QED
      BY <1>11, <3>1, <3>2
  <2>3. CASE i > n
    <3>1. i - n \in 1 .. m
      BY <2>3
    <3>. QED
      BY <1>12, <1>13, <2>3, <3>1
  <2>. QED
    BY <2>2, <2>3
<1>. QED
  BY <1>6, <1>7, <1>8, <1>9, <1>10 DEF Row

\* Numbers that come after others are added to them.
LEMMA TotalJoined ==
  ASSUME NEW s \in Seq(Int), NEW t \in Seq(Int)
  PROVE  Total(s \o t) = Total(s) + Total(t)
<1> DEFINE u == s \o t
           n == Len(s)
           m == Len(t)
<1>1. /\ u \in Seq(Int) /\ n \in Nat /\ m \in Nat /\ Len(u) = n + m
      /\ \A i \in 1 .. n + m : u[i] = IF i <= n THEN s[i] ELSE t[i - n]
  BY ConcatProperties
<1> HIDE DEF u
<1>2. PICK f : Sums(s, f)
  BY SumsExist
<1>3. PICK g : Sums(t, g)
  BY SumsExist
<1>4. f \in [0 .. n -> Int] /\ f[0] = 0 /\ \A i \in 1 .. n : f[i] = f[i - 1] + s[i]
  BY <1>2 DEF Sums
<1>5. g \in [0 .. m -> Int] /\ g[0] = 0 /\ \A i \in 1 .. m : g[i] = g[i - 1] + t[i]
  BY <1>3 DEF Sums
<1>6. Total(s) = f[n] /\ Total(t) = g[m]
  BY <1>2, <1>3, TotalIs
<1>7. (\A i \in 1 .. n : s[i] \in Int) /\ (\A i \in 1 .. m : t[i] \in Int)
  BY ElementOfSeq
<1> HIDE DEF n, m
<1>12. n \in Nat /\ m \in Nat /\ \A i \in 1 .. n + m : u[i] = IF i <= n THEN s[i] ELSE t[i - n]
  BY <1>1
<1>8. Follows(n, s, m, t, u)
  <2>1. ASSUME NEW i \in 1 .. n + m, i <= n PROVE u[i] = s[i]
    BY <1>12, <2>1, Zenon
  <2>2. ASSUME NEW i \in 1 .. n + m, i > n PROVE u[i] = t[i - n]
    <3>1. ~(i <= n)
      BY <1>12, <2>2
    <3>. QED
      BY <1>12, <3>1, Zenon
  <2>. QED
    BY <2>1, <2>2, Zenon DEF Follows
<1>9. Row(n, s, f) /\ Row(m, t, g)
  BY <1>4, <1>5, <1>7 DEF Row
<1>10. PICK h : Row(n + m, u, h) /\ h[n + m] = f[n] + g[m]
  <2>1. n \in Nat /\ m \in Nat
    BY <1>12, Zenon
  <2>. QED
    BY <1>8, <1>9, <2>1, RowsJoined, SMT
<1>11. /\ h \in [0 .. n + m -> Int] /\ h[0] = 0
       /\ \A i \in 1 .. n + m : h[i] = h[i - 1] + u[i]
  BY <1>10, Zenon DEF Row
<1>13. Len(u) = n + m /\ u \in Seq(Int)
  BY <1>1, Zenon
<1>14. Sums(u, h)
  BY <1>11, <1>13, Zenon DEF Sums
<1>. QED
  BY <1>6, <1>10, <1>13, <1>14, TotalIs DEF u

\* One member is another.
LEMMA TotalChanged ==
  ASSUME NEW s \in Seq(Int), NEW t \in Seq(Int), Len(t) = Len(s), NEW k \in 1 .. Len(s),
         \A i \in 1 .. Len(s) : i # k => t[i] = s[i]
  PROVE  Total(t) = Total(s) - s[k] + t[k]
<1> DEFINE n == Len(s)
<1>1. PICK f : Sums(s, f)
  BY SumsExist
<1> DEFINE g == [i \in 0 .. n |-> IF i < k THEN f[i] ELSE f[i] - s[k] + t[k]]
<1>2. n \in Nat /\ f \in [0 .. n -> Int] /\ s[k] \in Int /\ t[k] \in Int
  BY <1>1 DEF Sums
<1>9. \A i \in 1 .. n : s[i] \in Int /\ t[i] \in Int
  BY ElementOfSeq
<1>3. ASSUME NEW i \in 1 .. n PROVE g[i] = g[i - 1] + t[i]
  <2>1. i - 1 \in 0 .. n /\ i \in 0 .. n
    BY <1>2
  <2>2. f[i] = f[i - 1] + s[i] /\ f[i - 1] \in Int /\ s[i] \in Int /\ t[i] \in Int
    BY <1>1, <1>2, <1>9, <2>1 DEF Sums
  <2>3. CASE i < k
    BY <1>2, <2>1, <2>2, <2>3
  <2>4. CASE i = k
    <3>1. g[i - 1] = f[i - 1]
      BY <1>2, <2>1, <2>4
    <3>2. g[i] = f[i] - s[k] + t[k]
      BY <2>1, <2>4
    <3>3. s[k] = s[i] /\ t[k] = t[i]
      BY <2>4
    <3> HIDE DEF g
    <3>. QED
      BY <2>2, <3>1, <3>2, <3>3
  <2>5. CASE i > k
    <3>1. t[i] = s[i]
      BY <2>5
    <3>2. g[i] = f[i] - s[k] + t[k]
      BY <2>1, <2>5
    <3>3. ~(i - 1 < k)
      BY <2>5
    <3>4. g[i - 1] = f[i - 1] - s[k] + t[k]
      BY <2>1, <3>3
    <3> HIDE DEF g
    <3>. QED
      BY <1>2, <2>2, <3>1, <3>2, <3>4
  <2>. QED
    BY <1>2, <2>3, <2>4, <2>5
<1>4. Sums(t, g)
  <2>1. g \in [0 .. n -> Int]
    BY <1>2
  <2>2. g[0] = 0
    BY <1>1, <1>2 DEF Sums
  <2> HIDE DEF g
  <2>. QED
    BY <1>3, <2>1, <2>2 DEF Sums
<1>5. g[n] = f[n] - s[k] + t[k]
  BY <1>2
<1> HIDE DEF g
<1>. QED
  BY <1>1, <1>4, <1>5, TotalIs

\* A sum of numbers that are not negative is not; a sum of nothings is nothing.
LEMMA TotalNat ==
  ASSUME NEW s \in Seq(Int), \A i \in 1 .. Len(s) : s[i] >= 0
  PROVE  Total(s) \in Nat /\ ((\A i \in 1 .. Len(s) : s[i] = 0) => Total(s) = 0)
<1> DEFINE n == Len(s)
<1>1. PICK f : Sums(s, f)
  BY SumsExist
<1>2. n \in Nat /\ f \in [0 .. n -> Int] /\ f[0] = 0 /\ \A i \in 1 .. n : f[i] = f[i - 1] + s[i]
  BY <1>1 DEF Sums
<1>3. Total(s) = f[n]
  BY <1>1, TotalIs
<1>4. \A i \in 1 .. n : s[i] \in Int /\ s[i] >= 0
  BY ElementOfSeq
<1> HIDE DEF n
<1> DEFINE T == {i \in 0 .. n : f[i] >= 0}
           U == {i \in 0 .. n : f[i] = 0}
<1>5. 0 \in T /\ 0 \in U
  BY <1>2
<1>6. ASSUME NEW i \in 1 .. n, i - 1 \in T PROVE i \in T
  <2>1. i - 1 \in 0 .. n /\ i \in 0 .. n
    BY <1>2
  <2>2. f[i] = f[i - 1] + s[i] /\ f[i - 1] \in Int /\ f[i - 1] >= 0 /\ s[i] \in Int /\ s[i] >= 0
    BY <1>2, <1>4, <1>6, <2>1
  <2>. QED
    BY <2>1, <2>2
<1>7. n \in T
  <2> HIDE DEF T
  <2>1. \A i \in 0 .. n : i \in T
    BY <1>2, <1>5, <1>6, UpTo
  <2>. QED
    BY <1>2, <2>1
<1>8. ASSUME \A i \in 1 .. n : s[i] = 0 PROVE n \in U
  <2>1. ASSUME NEW i \in 1 .. n, i - 1 \in U PROVE i \in U
    <3>1. i - 1 \in 0 .. n /\ i \in 0 .. n
      BY <1>2
    <3>2. f[i] = f[i - 1] + s[i] /\ f[i - 1] = 0 /\ s[i] = 0
      BY <1>2, <1>8, <2>1
    <3>. QED
      BY <3>1, <3>2
  <2> HIDE DEF U
  <2>2. \A i \in 0 .. n : i \in U
    BY <1>2, <1>5, <2>1, UpTo
  <2>. QED
    BY <1>2, <2>2
<1>9. f[n] \in Int /\ f[n] >= 0
  BY <1>2, <1>7
<1>10. ASSUME \A i \in 1 .. Len(s) : s[i] = 0 PROVE Total(s) = 0
  <2>1. n \in U
    BY <1>8, <1>10 DEF n
  <2>. QED
    BY <1>3, <2>1
<1>. QED
  BY <1>3, <1>9, <1>10

-----------------------------------------------------------------------------
\* What has been picked after each place of a sequence.
Picks(s, K, X, p) ==
  /\ p \in [0 .. Len(s) -> Seq(X)]
  /\ p[0] = <<>>
  /\ \A i \in 1 .. Len(s) : (i \in K => p[i] = Append(p[i - 1], s[i])) /\ (i \notin K => p[i] = p[i - 1])

\* Picked is the last of what has been picked.
LEMMA PickedIs ==
  ASSUME NEW X, NEW s \in Seq(X), NEW K
  PROVE  \E p : Picks(s, K, X, p) /\ Picked(s, K) = p[Len(s)]
<1> DEFINE n == Len(s)
           step == [x \in (1 .. n) \X Seq(X) |-> IF x[1] \in K THEN Append(x[2], s[x[1]]) ELSE x[2]]
<1>1. n \in Nat /\ \A i \in 1 .. n : s[i] \in X
  BY ElementOfSeq
<1>2. step \in [(1 .. n) \X Seq(X) -> Seq(X)]
  <2>1. ASSUME NEW x \in (1 .. n) \X Seq(X) PROVE (IF x[1] \in K THEN Append(x[2], s[x[1]]) ELSE x[2]) \in Seq(X)
    <3>1. s[x[1]] \in X /\ x[2] \in Seq(X)
      BY <1>1
    <3>. QED
      BY <3>1
  <2>. QED
    BY <2>1
<1>3. PICK p : IsRun(n, Seq(X), <<>>, step, p)
  <2> HIDE DEF step, n
  <2>1. <<>> \in Seq(X)
    OBVIOUS
  <2>. QED
    BY <1>1, <1>2, <2>1, Recursion
<1>4. p \in [0 .. n -> Seq(X)] /\ p[0] = <<>> /\ \A i \in 1 .. n : p[i] = step[<<i, p[i - 1]>>]
  BY <1>3 DEF IsRun
<1>5. ASSUME NEW i \in 1 .. n
      PROVE  (i \in K => p[i] = Append(p[i - 1], s[i])) /\ (i \notin K => p[i] = p[i - 1])
  <2>1. p[i - 1] \in Seq(X)
    <3>1. i - 1 \in 0 .. n
      BY <1>1
    <3>. QED
      BY <1>4, <3>1
  <2> DEFINE x == <<i, p[i - 1]>>
  <2>2. x \in (1 .. n) \X Seq(X) /\ x[1] = i /\ x[2] = p[i - 1]
    BY <2>1
  <2>3. p[i] = step[x]
    BY <1>4
  <2>4. p[i] = IF x[1] \in K THEN Append(x[2], s[x[1]]) ELSE x[2]
    <3> HIDE DEF x
    <3>. QED
      BY <2>2, <2>3
  <2> HIDE DEF x
  <2>. QED
    BY <2>2, <2>4, Zenon
<1>6. Picks(s, K, X, p)
  BY <1>4, <1>5 DEF Picks
<1> DEFINE Step(g) == g = [i \in 0 .. n |-> IF i = 0 THEN <<>> ELSE IF i \in K THEN Append(g[i - 1], s[i]) ELSE g[i - 1]]
           picked == CHOOSE g : Step(g)
<1>7. Step(p)
  <2>1. ASSUME NEW i \in 0 .. n
        PROVE  p[i] = IF i = 0 THEN <<>> ELSE IF i \in K THEN Append(p[i - 1], s[i]) ELSE p[i - 1]
    <3>1. i = 0 \/ i \in 1 .. n
      BY <1>1
    <3>. QED
      BY <1>4, <1>5, <3>1, Zenon
  <2>. QED
    BY <1>4, <2>1
<1>8. Step(picked)
  BY <1>7, Zenon
<1>9. Picked(s, K) = picked[n]
  BY Zenon DEF Picked
<1>10. \A i \in 0 .. n : picked[i] = IF i = 0 THEN <<>> ELSE IF i \in K THEN Append(picked[i - 1], s[i]) ELSE picked[i - 1]
  <2> HIDE DEF picked
  <2>. QED
    BY <1>8, Zenon
<1> HIDE DEF picked
<1> DEFINE T == {i \in 0 .. n : picked[i] = p[i]}
<1>11. 0 \in T
  BY <1>1, <1>4, <1>10
<1>12. ASSUME NEW i \in 1 .. n, i - 1 \in T PROVE i \in T
  <2>1. i \in 0 .. n /\ i # 0 /\ picked[i - 1] = p[i - 1]
    BY <1>1, <1>12
  <2>2. picked[i] = IF i \in K THEN Append(p[i - 1], s[i]) ELSE p[i - 1]
    BY <1>10, <2>1, Zenon
  <2>3. picked[i] = p[i]
    BY <1>5, <2>2, Zenon
  <2>. QED
    BY <2>1, <2>3
<1>13. n \in T
  <2> HIDE DEF T
  <2>1. \A i \in 0 .. n : i \in T
    BY <1>1, <1>11, <1>12, UpTo
  <2>. QED
    BY <1>1, <2>1
<1>. QED
  BY <1>6, <1>9, <1>13

\* What is picked is a sequence of the same kind of members.
LEMMA PickedSeq ==
  ASSUME NEW X, NEW s \in Seq(X), NEW K
  PROVE  Picked(s, K) \in Seq(X)
<1>1. PICK p : Picks(s, K, X, p) /\ Picked(s, K) = p[Len(s)]
  BY PickedIs
<1>2. Len(s) \in 0 .. Len(s)
  OBVIOUS
<1>. QED
  BY <1>1, <1>2 DEF Picks

\* Where the members of a picked sequence come from: places in K, in order.
Places(s, K, q, h) ==
  /\ h \in [1 .. Len(q) -> 1 .. Len(s)]
  /\ \A j \in 1 .. Len(q) : h[j] \in K /\ q[j] = s[h[j]]
  /\ \A i, j \in 1 .. Len(q) : i < j => h[i] < h[j]

\* The members picked are those of the places in K, in the order they had.
LEMMA PickedPlaces ==
  ASSUME NEW X, NEW s \in Seq(X), NEW K
  PROVE  \E h : Places(s, K, Picked(s, K), h)
<1>1. PICK p : Picks(s, K, X, p) /\ Picked(s, K) = p[Len(s)]
  BY PickedIs
<1> DEFINE n == Len(s)
           From(q, h, m) == Places(s, K, q, h) /\ \A j \in 1 .. Len(q) : h[j] <= m
           T == {m \in 0 .. n : \E h : From(p[m], h, m)}
<1>2. n \in Nat /\ p \in [0 .. n -> Seq(X)] /\ p[0] = <<>>
  BY <1>1 DEF Picks
<1>3. 0 \in T
  <2> DEFINE h == [j \in 1 .. 0 |-> 1]
  <2>0. 1 .. 0 = {}
    OBVIOUS
  <2>1. h \in [1 .. 0 -> 1 .. n]
    BY <2>0
  <2>2. From(p[0], h, 0)
    <3> HIDE DEF h
    <3>. QED
      BY <1>2, <2>0, <2>1 DEF Places
  <2> HIDE DEF h, From
  <2>. QED
    BY <1>2, <2>2
<1>4. ASSUME NEW m \in 1 .. n, m - 1 \in T PROVE m \in T
  <2>1. PICK h : From(p[m - 1], h, m - 1)
    BY <1>4
  <2>2. m - 1 \in 0 .. n /\ m \in 0 .. n
    BY <1>2
  <2> DEFINE q == p[m - 1]
             l == Len(q)
  <2>3. q \in Seq(X) /\ l \in Nat
    BY <1>2, <2>2
  <2>4. CASE m \notin K
    <3>1. p[m] = q
      BY <1>1, <2>4 DEF Picks
    <3>2. From(p[m], h, m)
      <4>1. From(q, h, m - 1)
        BY <2>1
      <4>2. \A j \in 1 .. l : h[j] <= m
        BY <2>3, <4>1 DEF Places
      <4> HIDE DEF q
      <4>. QED
        BY <3>1, <4>1, <4>2
    <3> HIDE DEF From
    <3>. QED
      BY <2>2, <3>2
  <2>5. CASE m \in K
    <3>1. p[m] = Append(q, s[m])
      BY <1>1, <2>5 DEF Picks
    <3> DEFINE r == Append(q, s[m])
               g == [j \in 1 .. l + 1 |-> IF j = l + 1 THEN m ELSE h[j]]
    <3>2. s[m] \in X
      BY ElementOfSeq
    <3> HIDE DEF q
    <3>3. r \in Seq(X) /\ Len(r) = l + 1 /\ r[l + 1] = s[m] /\ \A j \in 1 .. l : r[j] = q[j]
      BY <2>3, <3>2
    <3>4. h \in [1 .. l -> 1 .. n] /\ \A j \in 1 .. l : h[j] \in K /\ q[j] = s[h[j]] /\ h[j] <= m - 1
      BY <2>1 DEF Places, q
    <3>5. \A i, j \in 1 .. l : i < j => h[i] < h[j]
      BY <2>1 DEF Places, q
    <3> HIDE DEF r, l
    <3>6. g \in [1 .. l + 1 -> 1 .. n]
      BY <2>3, <3>4
    <3>7. g[l + 1] = m /\ \A j \in 1 .. l : g[j] = h[j]
      BY <2>3
    <3> HIDE DEF g
    <3>8. ASSUME NEW j \in 1 .. l + 1 PROVE g[j] \in K /\ r[j] = s[g[j]] /\ g[j] <= m
      <4>1. CASE j = l + 1
        BY <2>5, <3>3, <3>7, <4>1
      <4>2. CASE j \in 1 .. l
        <5>1. g[j] = h[j] /\ r[j] = q[j] /\ h[j] \in K /\ q[j] = s[h[j]] /\ h[j] <= m - 1 /\ h[j] \in 1 .. n
          BY <3>3, <3>4, <3>7, <4>2
        <5>2. h[j] <= m
          BY <5>1
        <5>. QED
          BY <5>1, <5>2
      <4>. QED
        BY <2>3, <4>1, <4>2
    <3>9. ASSUME NEW i \in 1 .. l + 1, NEW j \in 1 .. l + 1, i < j PROVE g[i] < g[j]
      <4>1. i \in 1 .. l /\ g[i] = h[i] /\ h[i] <= m - 1 /\ h[i] \in 1 .. n
        BY <2>3, <3>4, <3>7, <3>9
      <4>2. CASE j = l + 1
        BY <3>7, <4>1, <4>2
      <4>3. CASE j \in 1 .. l
        BY <3>5, <3>7, <3>9, <4>1, <4>3
      <4>. QED
        BY <2>3, <4>2, <4>3
    <3>10. From(r, g, m)
      BY <3>3, <3>6, <3>8, <3>9 DEF Places
    <3>11. p[m] = r
      BY <3>1 DEF r
    <3> HIDE DEF From
    <3>. QED
      BY <2>2, <3>10, <3>11
  <2>. QED
    BY <2>4, <2>5
<1>5. n \in T
  <2> HIDE DEF T
  <2>1. \A i \in 0 .. n : i \in T
    BY <1>2, <1>3, <1>4, UpTo
  <2>. QED
    BY <1>2, <2>1
<1>. QED
  BY <1>1, <1>5

\* The numbers F gives the members of a sequence, with nothing for those outside K.
Numbers(s, K, F, t) ==
  /\ t \in Seq(Int) /\ Len(t) = Len(s)
  /\ \A i \in 1 .. Len(s) : (i \in K => t[i] = F[s[i]]) /\ (i \notin K => t[i] = 0)

\* The sum over the picked members is that over all of them with nothing for the others.
LEMMA PickedTotal ==
  ASSUME NEW X, NEW s \in Seq(X), NEW K, NEW F \in [X -> Int], NEW t, Numbers(s, K, F, t),
         NEW u, Numbers(Picked(s, K), Nat, F, u)
  PROVE  Total(u) = Total(t)
<1>0. /\ t \in Seq(Int) /\ Len(t) = Len(s)
      /\ \A i \in 1 .. Len(s) : (i \in K => t[i] = F[s[i]]) /\ (i \notin K => t[i] = 0)
  BY DEF Numbers
<1>9. u \in Seq(Int) /\ Len(u) = Len(Picked(s, K)) /\ \A i \in 1 .. Len(u) : u[i] = F[Picked(s, K)[i]]
  BY DEF Numbers
<1>1. PICK p : Picks(s, K, X, p) /\ Picked(s, K) = p[Len(s)]
  BY PickedIs
<1>2. PICK f : Sums(t, f)
  BY <1>0, SumsExist
<1> DEFINE n == Len(s)
           Of(q) == [i \in 1 .. Len(q) |-> F[q[i]]]
           T == {m \in 0 .. n : Total(Of(p[m])) = f[m]}
<1>3. n \in Nat /\ p \in [0 .. n -> Seq(X)] /\ p[0] = <<>> /\ f \in [0 .. n -> Int] /\ f[0] = 0
  BY <1>0, <1>1, <1>2 DEF Picks, Sums
<1>4. ASSUME NEW q \in Seq(X) PROVE Of(q) \in Seq(Int) /\ Len(Of(q)) = Len(q)
  <2>1. \A i \in 1 .. Len(q) : F[q[i]] \in Int
    BY ElementOfSeq
  <2>. QED
    BY <2>1
<1>5. 0 \in T
  <2>1. Len(Of(<<>>)) = 0 /\ Of(<<>>) \in Seq(Int)
    BY <1>4
  <2>2. Of(<<>>) = <<>>
    BY <2>1, EmptySeq
  <2> HIDE DEF Of
  <2>. QED
    BY <1>3, <2>2, TotalOfNothing
<1>6. ASSUME NEW m \in 1 .. n, m - 1 \in T PROVE m \in T
  <2>1. m - 1 \in 0 .. n /\ m \in 0 .. n
    BY <1>3
  <2> DEFINE q == p[m - 1]
  <2>2. q \in Seq(X) /\ Total(Of(q)) = f[m - 1] /\ f[m - 1] \in Int
    BY <1>3, <1>6, <2>1
  <2>3. f[m] = f[m - 1] + t[m]
    BY <1>0, <1>2 DEF Sums
  <2>4. CASE m \notin K
    <3>1. p[m] = q /\ t[m] = 0
      BY <1>0, <1>1, <2>4 DEF Picks
    <3> HIDE DEF q, Of
    <3>2. Total(Of(p[m])) = f[m]
      BY <2>2, <2>3, <3>1
    <3>. QED
      BY <2>1, <3>2
  <2>5. CASE m \in K
    <3>1. p[m] = Append(q, s[m]) /\ t[m] = F[s[m]]
      BY <1>0, <1>1, <2>5 DEF Picks
    <3>2. s[m] \in X
      BY ElementOfSeq
    <3> HIDE DEF q
    <3>3. F[s[m]] \in Int
      BY <3>2
    <3>4. Of(Append(q, s[m])) = Append(Of(q), F[s[m]])
      <4> DEFINE r == Append(q, s[m])
      <4>1. r \in Seq(X) /\ Len(r) = Len(q) + 1 /\ r[Len(q) + 1] = s[m] /\ \A j \in 1 .. Len(q) : r[j] = q[j]
        BY <2>2, <3>2
      <4> HIDE DEF r
      <4>2. Of(q) \in Seq(Int) /\ Len(Of(q)) = Len(q) /\ Of(r) \in Seq(Int) /\ Len(Of(r)) = Len(r)
        BY <1>4, <2>2, <4>1
      <4>3. \A j \in 1 .. Len(r) : Of(r)[j] = F[r[j]]
        OBVIOUS
      <4>4. \A j \in 1 .. Len(q) : Of(q)[j] = F[q[j]]
        OBVIOUS
      <4> HIDE DEF Of
      <4> DEFINE v == Append(Of(q), F[s[m]])
      <4>5. v \in Seq(Int) /\ Len(v) = Len(q) + 1 /\ v[Len(q) + 1] = F[s[m]] /\ \A j \in 1 .. Len(q) : v[j] = Of(q)[j]
        BY <3>3, <4>2
      <4> HIDE DEF v
      <4>6. ASSUME NEW j \in 1 .. Len(r) PROVE Of(r)[j] = v[j]
        <5>1. Len(q) \in Nat /\ (j = Len(q) + 1 \/ j \in 1 .. Len(q))
          BY <2>2, <4>1
        <5>2. Of(r)[j] = F[r[j]]
          BY <4>3
        <5>3. CASE j = Len(q) + 1
          BY <4>1, <4>5, <5>2, <5>3
        <5>4. CASE j \in 1 .. Len(q)
          BY <4>1, <4>4, <4>5, <5>2, <5>4
        <5>. QED
          BY <5>1, <5>3, <5>4
      <4>7. Of(r) = v
        BY <4>1, <4>2, <4>5, <4>6, SeqEqual
      <4>. QED
        BY <4>7 DEF r, v
    <3> HIDE DEF Of
    <3>5. Total(Append(Of(q), F[s[m]])) = Total(Of(q)) + F[s[m]]
      BY <1>4, <2>2, <3>3, TotalAppend
    <3>6. Total(Of(p[m])) = f[m]
      BY <2>2, <2>3, <3>1, <3>4, <3>5
    <3>. QED
      BY <2>1, <3>6
  <2>. QED
    BY <2>4, <2>5
<1>7. n \in T
  <2> HIDE DEF T
  <2>1. \A i \in 0 .. n : i \in T
    BY <1>3, <1>5, <1>6, UpTo
  <2>. QED
    BY <1>3, <2>1
<1>8. u = Of(Picked(s, K))
  <2> DEFINE q == Picked(s, K)
  <2>1. q \in Seq(X)
    BY PickedSeq
  <2> HIDE DEF q
  <2>2. Of(q) \in Seq(Int) /\ Len(Of(q)) = Len(u) /\ \A i \in 1 .. Len(u) : u[i] = Of(q)[i]
    BY <1>4, <1>9, <2>1 DEF q
  <2> HIDE DEF Of
  <2>3. u = Of(q)
    BY <1>9, <2>2, SeqEqual
  <2>. QED
    BY <2>3 DEF q
<1> HIDE DEF Of
<1>. QED
  BY <1>0, <1>1, <1>2, <1>7, <1>8, TotalIs

\* Nothing in K is left out.
LEMMA PickedAll ==
  ASSUME NEW X, NEW s \in Seq(X), NEW K, NEW i \in 1 .. Len(s), i \in K
  PROVE  \E j \in 1 .. Len(Picked(s, K)) : Picked(s, K)[j] = s[i]
<1>1. PICK p : Picks(s, K, X, p) /\ Picked(s, K) = p[Len(s)]
  BY PickedIs
<1> DEFINE n == Len(s)
           Has(q) == \E j \in 1 .. Len(q) : q[j] = s[i]
           T == {m \in 0 .. n : i <= m => Has(p[m])}
<1>2. n \in Nat /\ i \in 1 .. n /\ p \in [0 .. n -> Seq(X)]
  BY <1>1 DEF Picks
<1>3. \A m \in 1 .. n : s[m] \in X /\ (m \in K => p[m] = Append(p[m - 1], s[m])) /\ (m \notin K => p[m] = p[m - 1])
  BY <1>1, ElementOfSeq DEF Picks
<1> HIDE DEF n
<1>4. 0 \in T
  BY <1>2
<1>5. ASSUME NEW m \in 1 .. n, m - 1 \in T PROVE m \in T
  <2> DEFINE q == p[m - 1]
  <2>1. m \in 0 .. n /\ m - 1 \in 0 .. n /\ (i <= m - 1 => Has(q))
    BY <1>2, <1>5
  <2>2. q \in Seq(X) /\ s[m] \in X
    BY <1>2, <1>3, <2>1
  <2> HIDE DEF q
  <2>3. Append(q, s[m]) \in Seq(X) /\ Len(Append(q, s[m])) = Len(q) + 1 /\ Len(q) \in Nat
        /\ Append(q, s[m])[Len(q) + 1] = s[m] /\ \A j \in 1 .. Len(q) : Append(q, s[m])[j] = q[j]
    BY <2>2
  <2>4. ASSUME i <= m PROVE Has(p[m])
    <3>1. CASE m \notin K
      <4>1. i # m
        BY <3>1
      <4>2. i <= m - 1
        BY <1>2, <2>4, <4>1
      <4>3. p[m] = q
        BY <1>3, <3>1 DEF q
      <4>. QED
        BY <2>1, <4>2, <4>3, Zenon
    <3>2. CASE m \in K
      <4> DEFINE r == Append(q, s[m])
      <4>1. p[m] = r
        BY <1>3, <3>2 DEF q
      <4>2. Len(r) = Len(q) + 1 /\ Len(q) \in Nat /\ r[Len(q) + 1] = s[m] /\ \A j \in 1 .. Len(q) : r[j] = q[j]
        BY <2>3
      <4> HIDE DEF r
      <4>3. CASE i = m
        <5>1. Len(q) + 1 \in 1 .. Len(r)
          BY <4>2
        <5>2. r[Len(q) + 1] = s[i]
          BY <4>2, <4>3
        <5>3. Has(r)
          BY <5>1, <5>2, Zenon
        <5>. QED
          BY <4>1, <5>3, Zenon
      <4>4. CASE i # m
        <5>1. i <= m - 1
          BY <1>2, <2>4, <4>4
        <5>2. PICK j \in 1 .. Len(q) : q[j] = s[i]
          BY <2>1, <5>1
        <5>3. j \in 1 .. Len(r)
          BY <4>2
        <5>4. r[j] = s[i]
          BY <4>2, <5>2
        <5>5. Has(r)
          BY <5>3, <5>4, Zenon
        <5>. QED
          BY <4>1, <5>5, Zenon
      <4>. QED
        BY <4>3, <4>4
    <3>. QED
      BY <3>1, <3>2
  <2> HIDE DEF Has
  <2>. QED
    BY <2>1, <2>4
<1>6. n \in T
  <2> HIDE DEF T
  <2>1. \A m \in 0 .. n : m \in T
    BY <1>2, <1>4, <1>5, UpTo
  <2>. QED
    BY <1>2, <2>1
<1>7. Has(p[n])
  BY <1>2, <1>6
<1>. QED
  BY <1>1, <1>7 DEF n

-----------------------------------------------------------------------------
Index(n) == [i \in 1 .. n |-> i]

\* The index names every place.
LEMMA IndexSeq ==
  ASSUME NEW n \in Nat
  PROVE  Index(n) \in Seq(1 .. n) /\ Len(Index(n)) = n /\ \A i \in 1 .. n : Index(n)[i] = i
BY DEF Index

\* Picking the first places of the index.
LEMMA PickedPrefix ==
  ASSUME NEW n \in Nat, NEW h \in 0 .. n
  PROVE  Picked(Index(n), 1 .. h) = Index(h)
<1> DEFINE s == Index(n)
           X == 1 .. n
<1>1. s \in Seq(X) /\ Len(s) = n /\ \A i \in 1 .. n : s[i] = i
  BY IndexSeq
<1> HIDE DEF s
<1>2. PICK p : Picks(s, 1 .. h, X, p) /\ Picked(s, 1 .. h) = p[n]
  BY <1>1, PickedIs
<1>3. /\ p \in [0 .. n -> Seq(X)] /\ p[0] = <<>>
      /\ \A i \in 1 .. n : (i \in 1 .. h => p[i] = Append(p[i - 1], i)) /\ (i \notin 1 .. h => p[i] = p[i - 1])
  BY <1>1, <1>2 DEF Picks
<1> DEFINE m(i) == IF i <= h THEN i ELSE h
           T == {i \in 0 .. n : p[i] = Index(m(i))}
<1>4. 0 \in T
  BY <1>3 DEF Index
<1>5. ASSUME NEW i \in 1 .. n, i - 1 \in T PROVE i \in T
  <2>1. p[i - 1] = Index(m(i - 1)) /\ i \in 0 .. n
    BY <1>5
  <2>2. CASE i <= h
    <3>0. m(i - 1) = i - 1 /\ i \in 1 .. h
      BY <2>2
    <3>1. p[i] = Append(Index(i - 1), i)
      BY <1>3, <2>1, <3>0
    <3>2. Append(Index(i - 1), i) = Index(i)
      BY DEF Index
    <3>. QED
      BY <2>1, <2>2, <3>1, <3>2
  <2>3. CASE i > h
    <3>1. p[i] = p[i - 1]
      BY <1>3, <2>3
    <3>2. m(i - 1) = h /\ m(i) = h
      BY <2>3
    <3>. QED
      BY <2>1, <3>1, <3>2
  <2>. QED
    BY <2>2, <2>3
<1>6. n \in T
  <2> HIDE DEF T
  <2>1. \A i \in 0 .. n : i \in T
    BY <1>4, <1>5, UpTo
  <2>. QED
    BY <2>1
<1>7. m(n) = h
  OBVIOUS
<1>. QED
  BY <1>2, <1>6, <1>7 DEF s

\* Picking the places after the first ones.
LEMMA PickedRest ==
  ASSUME NEW n \in Nat, NEW h \in 0 .. n
  PROVE  Picked(Index(n), h + 1 .. n) = [i \in 1 .. n - h |-> h + i]
<1> DEFINE s == Index(n)
           X == 1 .. n
           Rest(k) == [i \in 1 .. k |-> h + i]
<1>1. s \in Seq(X) /\ Len(s) = n /\ \A i \in 1 .. n : s[i] = i
  BY IndexSeq
<1> HIDE DEF s
<1>2. PICK p : Picks(s, h + 1 .. n, X, p) /\ Picked(s, h + 1 .. n) = p[n]
  BY <1>1, PickedIs
<1>3. /\ p \in [0 .. n -> Seq(X)] /\ p[0] = <<>>
      /\ \A i \in 1 .. n : (i \in h + 1 .. n => p[i] = Append(p[i - 1], i)) /\ (i \notin h + 1 .. n => p[i] = p[i - 1])
  BY <1>1, <1>2 DEF Picks
<1> DEFINE m(i) == IF i <= h THEN 0 ELSE i - h
           T == {i \in 0 .. n : p[i] = Rest(m(i))}
<1>4. 0 \in T
  BY <1>3
<1>5. ASSUME NEW i \in 1 .. n, i - 1 \in T PROVE i \in T
  <2>1. p[i - 1] = Rest(m(i - 1)) /\ i \in 0 .. n
    BY <1>5
  <2>2. CASE i > h
    <3>0. m(i - 1) = i - h - 1 /\ m(i) = i - h
      BY <2>2
    <3>3. i \in h + 1 .. n
      BY <2>2
    <3>4. p[i - 1] = Rest(i - h - 1)
      BY <2>1, <3>0
    <3>1. p[i] = Append(Rest(i - h - 1), i)
      <4> HIDE DEF Rest
      <4>. QED
        BY <1>3, <3>3, <3>4
    <3>2. Append(Rest(i - h - 1), i) = Rest(i - h)
      BY <2>2
    <3>. QED
      BY <2>1, <3>0, <3>1, <3>2
  <2>3. CASE i <= h
    <3>1. p[i] = p[i - 1]
      BY <1>3, <2>3
    <3>2. m(i - 1) = 0 /\ m(i) = 0
      BY <2>3
    <3>. QED
      BY <2>1, <3>1, <3>2
  <2>. QED
    BY <2>2, <2>3
<1>6. n \in T
  <2> HIDE DEF T
  <2>1. \A i \in 0 .. n : i \in T
    BY <1>4, <1>5, UpTo
  <2>. QED
    BY <2>1
<1>7. Rest(m(n)) = Rest(n - h)
  <2>1. m(n) = n - h
    OBVIOUS
  <2>. QED
    BY <2>1
<1>8. p[n] = Rest(m(n))
  BY <1>6
<1>. QED
  BY <1>2, <1>7, <1>8 DEF s

\* On a side with its history lots first the two walks are one.
HistoryFirst(lots) == \A i, j \in DOMAIN lots : i < j /\ lots[j].settled => lots[i].settled

\* Where history comes first there is a place up to which all is history.
LEMMA HistoryIsPrefix ==
  ASSUME NEW X, NEW lots \in Seq(X), HistoryFirst(lots)
  PROVE  \E h \in 0 .. Len(lots) : HistoryLots(lots) = 1 .. h /\ TodaysLots(lots) = h + 1 .. Len(lots)
<1> DEFINE n == Len(lots)
           IsOld(i) == lots[i].settled
<1>1. n \in Nat /\ DOMAIN lots = 1 .. n
  OBVIOUS
<1> DEFINE T == {m \in 0 .. n : \E h \in 0 .. m : (\A i \in 1 .. h : IsOld(i)) /\ (\A i \in h + 1 .. m : ~IsOld(i))}
<1>2. \A i, j \in 1 .. n : i < j /\ IsOld(j) => IsOld(i)
  BY <1>1 DEF HistoryFirst
<1>3. HistoryLots(lots) = {i \in 1 .. n : IsOld(i)} /\ TodaysLots(lots) = {i \in 1 .. n : ~IsOld(i)}
  BY <1>1 DEF HistoryLots, TodaysLots
<1> HIDE DEF Settled
<1>4. 0 \in T
  BY <1>1
<1>5. ASSUME NEW m \in 1 .. n, m - 1 \in T PROVE m \in T
  <2>1. PICK h \in 0 .. m - 1 : (\A i \in 1 .. h : IsOld(i)) /\ (\A i \in h + 1 .. m - 1 : ~IsOld(i))
    BY <1>5
  <2>2. CASE IsOld(m)
    <3>1. \A i \in 1 .. m : IsOld(i)
      BY <1>2, <2>2
    <3>2. \A i \in m + 1 .. m : ~IsOld(i)
      OBVIOUS
    <3>3. m \in 0 .. m /\ m \in 0 .. n
      OBVIOUS
    <3>. QED
      BY <3>1, <3>2, <3>3
  <2>3. CASE ~IsOld(m)
    <3>1. \A i \in h + 1 .. m : i = m \/ i \in h + 1 .. m - 1
      OBVIOUS
    <3>2. \A i \in h + 1 .. m : ~IsOld(i)
      BY <2>1, <2>3, <3>1
    <3>3. h \in 0 .. m /\ m \in 0 .. n
      OBVIOUS
    <3>. QED
      BY <2>1, <3>2, <3>3
  <2>. QED
    BY <2>2, <2>3
<1>6. n \in T
  <2> HIDE DEF T
  <2>1. \A i \in 0 .. n : i \in T
    BY <1>1, <1>4, <1>5, UpTo
  <2>. QED
    BY <1>1, <2>1
<1>7. PICK h \in 0 .. n : (\A i \in 1 .. h : IsOld(i)) /\ (\A i \in h + 1 .. n : ~IsOld(i))
  BY <1>6
<1>8. {i \in 1 .. n : IsOld(i)} = 1 .. h /\ {i \in 1 .. n : ~IsOld(i)} = h + 1 .. n
  <2>1. \A i \in 1 .. n : i \in 1 .. h \/ i \in h + 1 .. n
    BY <1>1
  <2>. QED
    BY <1>1, <1>7, <2>1
<1>. QED
  BY <1>3, <1>7, <1>8

\* On such a side the walk that takes history first is the walk from the first to the last.
LEMMA SameWalk ==
  ASSUME NEW X, NEW lots \in Seq(X), HistoryFirst(lots)
  PROVE  Walk(lots, "Close", "YesterdayFirst") = Walk(lots, "Close", "FIFO")
<1> DEFINE n == Len(lots)
           index == [i \in DOMAIN lots |-> i]
           history == Picked(index, HistoryLots(lots))
           today == Picked(index, TodaysLots(lots))
<1>1. n \in Nat /\ DOMAIN lots = 1 .. n
  OBVIOUS
<1>2. PICK h \in 0 .. n : HistoryLots(lots) = 1 .. h /\ TodaysLots(lots) = h + 1 .. n
  BY HistoryIsPrefix
<1>3. index = Index(n)
  BY <1>1 DEF Index
<1>4. history = Index(h)
  BY <1>1, <1>2, <1>3, PickedPrefix
<1>5. today = [i \in 1 .. n - h |-> h + i]
  <2>1. Picked(Index(n), h + 1 .. n) = [i \in 1 .. n - h |-> h + i]
    BY <1>1, PickedRest
  <2>. QED
    BY <1>2, <1>3, <2>1, Zenon
<1>6. history \o today = index
  <2> HIDE DEF history, today, index
  <2>1. history \in Seq(1 .. n) /\ Len(history) = h /\ \A i \in 1 .. h : history[i] = i
    BY <1>1, <1>4 DEF Index
  <2>2. today \in Seq(1 .. n) /\ Len(today) = n - h /\ \A i \in 1 .. n - h : today[i] = h + i
    BY <1>1, <1>5
  <2>3. index \in Seq(1 .. n) /\ Len(index) = n /\ \A i \in 1 .. n : index[i] = i
    BY <1>1, <1>3, IndexSeq
  <2> DEFINE both == history \o today
  <2>4. /\ both \in Seq(1 .. n) /\ Len(both) = h + (n - h)
        /\ \A i \in 1 .. h + (n - h) : both[i] = IF i <= h THEN history[i] ELSE today[i - h]
    BY <2>1, <2>2, ConcatProperties
  <2> HIDE DEF both
  <2>5. ASSUME NEW i \in 1 .. n PROVE both[i] = i
    <3>0. i \in 1 .. h + (n - h)
      BY <1>1
    <3>1. CASE i <= h
      BY <2>1, <2>4, <3>0, <3>1
    <3>2. CASE i > h
      <4>1. i - h \in 1 .. n - h /\ both[i] = today[i - h]
        BY <1>1, <2>4, <3>0, <3>2
      <4>2. today[i - h] = h + (i - h)
        BY <2>2, <4>1
      <4>. QED
        BY <4>1, <4>2
    <3>. QED
      BY <3>1, <3>2
  <2>6. Len(both) = Len(index) /\ \A i \in 1 .. Len(both) : both[i] = index[i]
    <3>1. Len(both) = n
      BY <1>1, <2>4
    <3>. QED
      BY <2>3, <2>5, <3>1
  <2>7. both = index
    BY <2>3, <2>4, <2>6, SeqEqual
  <2>. QED
    BY <2>7 DEF both
<1>7. Walk(lots, "Close", "YesterdayFirst") = history \o today
  <2> HIDE DEF history, today
  <2>. QED
    BY DEF Walk, history, today
<1>8. Walk(lots, "Close", "FIFO") = index
  BY DEF Walk
<1>. QED
  BY <1>6, <1>7, <1>8

\* All of a lot but its volume.
SameLot(a, b) ==
  a.openDay = b.openDay /\ a.openPrice = b.openPrice /\ a.basis = b.basis /\ a.settled = b.settled

\* The sign of a side is a number (pnl.go).
LEMMA SignInt ==
  ASSUME NEW dir
  PROVE  Sign(dir) \in Int
BY DEF Sign

\* The drift of a lot is a number.
LEMMA LotDriftInt ==
  ASSUME NEW dir
  PROVE  LotDrift(dir) \in [LotSet -> Int]
<1>1. ASSUME NEW lot \in LotSet PROVE (lot.basis - lot.openPrice) * lot.volume * Sign(dir) \in Int
  <2>1. lot.basis \in Int /\ lot.openPrice \in Int /\ lot.volume \in Int
    BY DEF LotSet
  <2>. QED
    BY <2>1, SignInt
<1>. QED
  BY <1>1 DEF LotDrift

\* The drifts of the lots of a side are numbers, and so is their sum.
LEMMA DriftsSeq ==
  ASSUME NEW dir, NEW lots \in Seq(LotSet)
  PROVE  /\ Drifts(lots, dir) \in Seq(Int) /\ Len(Drifts(lots, dir)) = Len(lots)
         /\ \A i \in 1 .. Len(lots) : Drifts(lots, dir)[i] = LotDrift(dir)[lots[i]]
         /\ Drift(lots, dir) \in Int
<1>1. \A i \in 1 .. Len(lots) : LotDrift(dir)[lots[i]] \in Int
  BY ElementOfSeq, LotDriftInt
<1>2. Drifts(lots, dir) \in Seq(Int) /\ Len(Drifts(lots, dir)) = Len(lots)
  BY <1>1 DEF Drifts
<1>. QED
  BY <1>2, TotalInt DEF Drifts, Drift

\* Lots taken one after the other have moved as far as both together (trade.go, history before today).
LEMMA DriftJoined ==
  ASSUME NEW dir, NEW first \in Seq(LotSet), NEW second \in Seq(LotSet)
  PROVE  first \o second \in Seq(LotSet) /\ Drift(first \o second, dir) = Drift(first, dir) + Drift(second, dir)
<1> DEFINE both == first \o second
           s == Drifts(first, dir)
           t == Drifts(second, dir)
           n == Len(first)
           m == Len(second)
<1>1. /\ both \in Seq(LotSet) /\ Len(both) = n + m /\ n \in Nat /\ m \in Nat
      /\ \A i \in 1 .. n + m : both[i] = IF i <= n THEN first[i] ELSE second[i - n]
  BY ConcatProperties
<1>2. /\ s \in Seq(Int) /\ Len(s) = n /\ \A i \in 1 .. n : s[i] = LotDrift(dir)[first[i]]
      /\ t \in Seq(Int) /\ Len(t) = m /\ \A i \in 1 .. m : t[i] = LotDrift(dir)[second[i]]
  BY DriftsSeq
<1> HIDE DEF both, s, t, n, m
<1>3. /\ s \o t \in Seq(Int) /\ Len(s \o t) = n + m
      /\ \A i \in 1 .. n + m : (s \o t)[i] = IF i <= n THEN s[i] ELSE t[i - n]
  BY <1>2, ConcatProperties
<1>4. /\ Drifts(both, dir) \in Seq(Int) /\ Len(Drifts(both, dir)) = n + m
      /\ \A i \in 1 .. n + m : Drifts(both, dir)[i] = LotDrift(dir)[both[i]]
  BY <1>1, DriftsSeq
<1>5. ASSUME NEW i \in 1 .. n + m PROVE Drifts(both, dir)[i] = (s \o t)[i]
  <2>0. Drifts(both, dir)[i] = LotDrift(dir)[both[i]]
    BY <1>4
  <2>1. CASE i <= n
    <3>1. i \in 1 .. n
      BY <1>1, <2>1
    <3>2. both[i] = first[i] /\ (s \o t)[i] = s[i]
      BY <1>1, <1>3, <2>1
    <3>3. s[i] = LotDrift(dir)[first[i]]
      BY <1>2, <3>1
    <3>. QED
      BY <2>0, <3>2, <3>3, Zenon
  <2>2. CASE i > n
    <3>1. i - n \in 1 .. m /\ ~(i <= n)
      BY <1>1, <2>2
    <3>2. both[i] = second[i - n] /\ (s \o t)[i] = t[i - n]
      BY <1>1, <1>3, <3>1
    <3>3. t[i - n] = LotDrift(dir)[second[i - n]]
      BY <1>2, <3>1
    <3>. QED
      BY <2>0, <3>2, <3>3, Zenon
  <2>3. i <= n \/ i > n
    BY <1>1
  <2>. QED
    BY <2>1, <2>2, <2>3, Zenon
<1>6. Drifts(both, dir) = s \o t
  BY <1>3, <1>4, <1>5, SeqEqual
<1>. QED
  BY <1>1, <1>2, <1>6, TotalJoined DEF Drift, s, t, both

\* A piece cut from a lot, or what the piece leaves of it (lot.go takeFrom).
LEMMA CutLot ==
  ASSUME NEW lot \in LotSet, NEW volume \in Nat
  PROVE  LET cut == [lot EXCEPT !.volume = volume] IN
           /\ cut \in LotSet /\ cut.volume = volume /\ SameLot(cut, lot)
           /\ \A dir : LotDrift(dir)[cut] = (lot.basis - lot.openPrice) * volume * Sign(dir)
<1> DEFINE cut == [lot EXCEPT !.volume = volume]
<1>1. cut \in LotSet
  BY DEF LotSet
<1>2. cut.volume = volume /\ cut.basis = lot.basis /\ cut.openPrice = lot.openPrice /\ cut.openDay = lot.openDay
  BY DEF LotSet
<1>3. cut.settled = lot.settled
  BY Zenon DEF LotSet
<1>4. \A dir : LotDrift(dir)[cut] = (cut.basis - cut.openPrice) * cut.volume * Sign(dir)
  <2> HIDE DEF cut
  <2>. QED
    BY <1>1 DEF LotDrift
<1>. QED
  BY <1>1, <1>2, <1>3, <1>4, Zenon DEF SameLot

\* What is taken from a lot is neither more than it has nor more than is wanted.
LEMMA LeastOfTwo ==
  ASSUME NEW a \in Nat, NEW b \in Nat
  PROVE  Min({a, b}) \in Nat /\ Min({a, b}) <= a /\ Min({a, b}) <= b
BY DEF Min

\* The states of the walk over lots: every piece cut from a lot keeps all but its volume,
\* and the pieces and what is left have moved as far as the lots.
States(lots) ==
  [wanted : Nat, pieces : Seq(LotSet), left : {left \in Seq(LotSet) : Len(left) = Len(lots)}]

Faithful(lots, walked) ==
  /\ \A i \in 1 .. Len(lots) : SameLot(walked.left[i], lots[i])
  /\ \A dir : Drift(walked.pieces, dir) + Drift(walked.left, dir) = Drift(lots, dir)

\* A step of the walk divides one lot and loses nothing.
LEMMA TakeFromState ==
  ASSUME NEW lots \in Seq(LotSet), NEW walked \in States(lots), NEW i \in 1 .. Len(lots)
  PROVE  /\ TakeFrom(walked, i) \in States(lots)
         /\ Faithful(lots, walked) => Faithful(lots, TakeFrom(walked, i))
<1> DEFINE left == walked.left
           pieces == walked.pieces
           lot == left[i]
           taken == Min({lot.volume, walked.wanted})
           piece == [lot EXCEPT !.volume = taken]
           rest == [lot EXCEPT !.volume = lot.volume - taken]
           after == [left EXCEPT ![i] = rest]
           n == Len(lots)
<1>1. n \in Nat /\ walked.wanted \in Nat /\ pieces \in Seq(LotSet) /\ left \in Seq(LotSet) /\ Len(left) = n
  BY DEF States
<1>2. lot \in LotSet /\ lot.volume \in Nat
  <2>1. lot \in LotSet
    BY <1>1, ElementOfSeq
  <2>. QED
    BY <2>1 DEF LotSet
<1>3. taken \in Nat /\ lot.volume - taken \in Nat /\ walked.wanted - taken \in Nat
  <2> HIDE DEF lot
  <2>1. taken \in Nat /\ taken <= lot.volume /\ taken <= walked.wanted
    BY <1>1, <1>2, LeastOfTwo
  <2> HIDE DEF taken
  <2>. QED
    BY <1>1, <1>2, <2>1
<1>4. TakeFrom(walked, i) = [wanted |-> walked.wanted - taken, pieces |-> Append(pieces, piece), left |-> after]
  BY DEF TakeFrom
<1>5. /\ piece \in LotSet /\ SameLot(piece, lot)
      /\ \A dir : LotDrift(dir)[piece] = (lot.basis - lot.openPrice) * taken * Sign(dir)
  <2> HIDE DEF lot, taken
  <2>. QED
    BY <1>2, <1>3, CutLot
<1>6. /\ rest \in LotSet /\ SameLot(rest, lot)
      /\ \A dir : LotDrift(dir)[rest] = (lot.basis - lot.openPrice) * (lot.volume - taken) * Sign(dir)
  <2> HIDE DEF lot, taken
  <2>. QED
    BY <1>2, <1>3, CutLot
<1>7. after \in Seq(LotSet) /\ Len(after) = n /\ \A j \in 1 .. n : after[j] = IF j = i THEN rest ELSE left[j]
  <2> HIDE DEF rest, left
  <2>. QED
    BY <1>1, <1>6, ExceptSeq
<1>8. Append(pieces, piece) \in Seq(LotSet)
  BY <1>1, <1>5
<1> HIDE DEF taken, piece, rest, after
<1>9. TakeFrom(walked, i) \in States(lots)
  BY <1>3, <1>4, <1>7, <1>8 DEF States
<1>10. ASSUME Faithful(lots, walked) PROVE Faithful(lots, TakeFrom(walked, i))
  <2>1. ASSUME NEW j \in 1 .. n PROVE SameLot(after[j], lots[j])
    <3>1. SameLot(left[j], lots[j])
      BY <1>10 DEF Faithful
    <3>2. CASE j = i
      BY <1>6, <1>7, <3>1, <3>2, Zenon DEF SameLot
    <3>3. CASE j # i
      BY <1>7, <3>1, <3>3, Zenon
    <3>. QED
      BY <3>2, <3>3
  <2>2. ASSUME NEW dir PROVE Drift(Append(pieces, piece), dir) + Drift(after, dir) = Drift(lots, dir)
    <3> DEFINE d == LotDrift(dir)
    <3>1. Drift(Append(pieces, piece), dir) = Drift(pieces, dir) + d[piece]
      <4> DEFINE q == Append(pieces, piece)
                 s == Drifts(pieces, dir)
      <4> HIDE DEF pieces
      <4>1. /\ q \in Seq(LotSet) /\ Len(q) = Len(pieces) + 1
            /\ q[Len(pieces) + 1] = piece /\ \A j \in 1 .. Len(pieces) : q[j] = pieces[j]
        BY <1>1, <1>5
      <4>2. s \in Seq(Int) /\ Len(s) = Len(pieces) /\ \A j \in 1 .. Len(pieces) : s[j] = d[pieces[j]]
        BY <1>1, DriftsSeq
      <4>3. d[piece] \in Int
        BY <1>5, LotDriftInt
      <4> DEFINE t == Append(s, d[piece])
                 x == d[piece]
      <4> HIDE DEF q, s, d
      <4>4. t \in Seq(Int) /\ Len(t) = Len(pieces) + 1 /\ t[Len(pieces) + 1] = x /\ \A j \in 1 .. Len(pieces) : t[j] = s[j]
        BY <4>2, <4>3
      <4>5. /\ Drifts(q, dir) \in Seq(Int) /\ Len(Drifts(q, dir)) = Len(q)
            /\ \A j \in 1 .. Len(q) : Drifts(q, dir)[j] = d[q[j]]
        BY <4>1, DriftsSeq DEF d
      <4> HIDE DEF t
      <4>6. ASSUME NEW j \in 1 .. Len(q) PROVE Drifts(q, dir)[j] = t[j]
        <5>1. Len(pieces) \in Nat /\ (j = Len(pieces) + 1 \/ j \in 1 .. Len(pieces))
          BY <1>1, <4>1
        <5>2. CASE j = Len(pieces) + 1
          BY <4>1, <4>4, <4>5, <5>2
        <5>3. CASE j \in 1 .. Len(pieces)
          <6>1. Drifts(q, dir)[j] = d[q[j]]
            BY <4>5
          <6>2. q[j] = pieces[j] /\ t[j] = s[j] /\ s[j] = d[pieces[j]]
            BY <4>1, <4>2, <4>4, <5>3
          <6>. QED
            BY <6>1, <6>2, Zenon
        <5>. QED
          BY <5>1, <5>2, <5>3
      <4>7. Drifts(q, dir) = t
        BY <4>1, <4>4, <4>5, <4>6, SeqEqual
      <4>8. Total(t) = Total(s) + x
        BY <4>2, <4>3, TotalAppend DEF t
      <4>. QED
        BY <4>7, <4>8 DEF Drift, q, s
    <3>2. Drift(after, dir) = Drift(left, dir) - d[lot] + d[rest]
      <4> DEFINE s == Drifts(left, dir)
                 t == Drifts(after, dir)
      <4> HIDE DEF left
      <4>1. s \in Seq(Int) /\ Len(s) = n /\ \A j \in 1 .. n : s[j] = d[left[j]]
        BY <1>1, DriftsSeq
      <4>2. t \in Seq(Int) /\ Len(t) = n /\ \A j \in 1 .. n : t[j] = d[after[j]]
        BY <1>7, DriftsSeq
      <4> HIDE DEF s, t, d
      <4>3. \A j \in 1 .. n : j # i => t[j] = s[j]
        BY <1>7, <4>1, <4>2
      <4>4. Total(t) = Total(s) - s[i] + t[i]
        BY <4>1, <4>2, <4>3, TotalChanged
      <4>5. s[i] = d[lot] /\ t[i] = d[rest]
        BY <1>7, <4>1, <4>2
      <4>. QED
        BY <4>4, <4>5 DEF Drift, s, t
    <3>3. d[lot] = (lot.basis - lot.openPrice) * lot.volume * Sign(dir)
      BY <1>2 DEF LotDrift
    <3>4. d[piece] = (lot.basis - lot.openPrice) * taken * Sign(dir)
      BY <1>5
    <3>5. d[rest] = (lot.basis - lot.openPrice) * (lot.volume - taken) * Sign(dir)
      BY <1>6
    <3>6. d[piece] + d[rest] = d[lot]
      <4>1. lot.basis - lot.openPrice \in Int /\ lot.volume \in Int /\ taken \in Int /\ Sign(dir) \in Int
        <5> HIDE DEF lot
        <5>1. lot.basis \in Int /\ lot.openPrice \in Int /\ lot.volume \in Int
          BY <1>2 DEF LotSet
        <5>. QED
          BY <1>3, <5>1, SignInt
      <4> DEFINE a == lot.basis - lot.openPrice
                 v == lot.volume
                 x == Sign(dir)
      <4> HIDE DEF a, v, x
      <4>2. a * taken * x + a * (v - taken) * x = a * v * x
        BY <4>1 DEF a, v, x
      <4>. QED
        BY <3>3, <3>4, <3>5, <4>2 DEF a, v, x
    <3>7. Drift(pieces, dir) \in Int /\ Drift(left, dir) \in Int /\ d[lot] \in Int /\ d[piece] \in Int /\ d[rest] \in Int
      BY <1>1, <1>2, <1>5, <1>6, DriftsSeq, LotDriftInt
    <3>8. Drift(pieces, dir) + Drift(left, dir) = Drift(lots, dir)
      BY <1>10 DEF Faithful
    <3> HIDE DEF d, lot, left, pieces
    <3>. QED
      BY <3>1, <3>2, <3>6, <3>7, <3>8
  <2>3. TakeFrom(walked, i).left = after /\ TakeFrom(walked, i).pieces = Append(pieces, piece)
    BY <1>4
  <2> HIDE DEF pieces
  <2>. QED
    BY <2>1, <2>2, <2>3 DEF Faithful
<1>. QED
  BY <1>9, <1>10

-----------------------------------------------------------------------------
\* What the base of a walk has and every step hands on, the whole walk has (position.go consume).
LEMMA ConsumeReaches ==
  ASSUME NEW lots \in Seq(LotSet), NEW walk \in Seq(1 .. Len(lots)), NEW volume \in Nat, NEW T,
         <<0, [wanted |-> volume, pieces |-> <<>>, left |-> lots]>> \in T,
         \A k \in 1 .. Len(walk), w \in States(lots) :
           <<k - 1, w>> \in T => <<k, TakeFrom(w, walk[k])>> \in T
  PROVE  <<Len(walk), Consume(lots, walk, volume)>> \in T
<1> DEFINE n == Len(walk)
           X == States(lots)
           base == [wanted |-> volume, pieces |-> <<>>, left |-> lots]
           step == [x \in (1 .. n) \X X |-> TakeFrom(x[2], walk[x[1]])]
<1>1. n \in Nat /\ \A k \in 1 .. n : walk[k] \in 1 .. Len(lots)
  BY ElementOfSeq
<1>2. base \in X
  BY DEF States
<1>3. step \in [(1 .. n) \X X -> X]
  <2>1. ASSUME NEW x \in (1 .. n) \X X PROVE TakeFrom(x[2], walk[x[1]]) \in X
    <3>1. walk[x[1]] \in 1 .. Len(lots) /\ x[2] \in X
      BY <1>1
    <3>. QED
      BY <3>1, TakeFromState
  <2>. QED
    BY <2>1
<1>4. PICK f : IsRun(n, X, base, step, f)
  <2> HIDE DEF step, n, X, base
  <2>. QED
    BY <1>1, <1>2, <1>3, Recursion
<1>5. f \in [0 .. n -> X] /\ f[0] = base
  BY <1>4 DEF IsRun
<1>6. ASSUME NEW k \in 1 .. n PROVE f[k - 1] \in X /\ f[k] = TakeFrom(f[k - 1], walk[k])
  <2>1. f[k - 1] \in X
    <3>1. k - 1 \in 0 .. n
      BY <1>1
    <3>. QED
      BY <1>5, <3>1
  <2> DEFINE x == <<k, f[k - 1]>>
  <2>2. x \in (1 .. n) \X X /\ x[1] = k /\ x[2] = f[k - 1]
    BY <2>1
  <2>3. f[k] = step[x]
    BY <1>4 DEF IsRun
  <2>4. f[k] = TakeFrom(x[2], walk[x[1]])
    <3> HIDE DEF x, X
    <3>. QED
      BY <2>2, <2>3
  <2> HIDE DEF x, X
  <2>. QED
    BY <2>1, <2>2, <2>4, Zenon
<1> DEFINE Step(g) == g = [k \in 0 .. n |-> IF k = 0 THEN [wanted |-> volume, pieces |-> <<>>, left |-> lots]
                                                     ELSE TakeFrom(g[k - 1], walk[k])]
           walked == CHOOSE g : Step(g)
<1>7. Step(f)
  <2>1. ASSUME NEW k \in 0 .. n PROVE f[k] = IF k = 0 THEN base ELSE TakeFrom(f[k - 1], walk[k])
    <3>1. k = 0 \/ k \in 1 .. n
      BY <1>1
    <3>. QED
      BY <1>5, <1>6, <3>1, Zenon
  <2> HIDE DEF X
  <2>2. f = [k \in 0 .. n |-> IF k = 0 THEN base ELSE TakeFrom(f[k - 1], walk[k])]
    <3> HIDE DEF base
    <3>. QED
      BY <1>5, <2>1
  <2>. QED
    BY <2>2, Zenon
<1>8. Step(walked)
  BY <1>7, Zenon
<1>9. Consume(lots, walk, volume) = walked[n]
  BY Zenon DEF Consume
<1>10. \A k \in 0 .. n : walked[k] = IF k = 0 THEN base ELSE TakeFrom(walked[k - 1], walk[k])
  <2> HIDE DEF walked
  <2>. QED
    BY <1>8, Zenon
<1> HIDE DEF walked, X, base, Step
<1> DEFINE U == {k \in 0 .. n : walked[k] = f[k] /\ <<k, f[k]>> \in T}
<1>11. 0 \in U
  <2>1. 0 \in 0 .. n
    BY <1>1
  <2>2. walked[0] = base
    BY <1>10, <2>1, Zenon
  <2>3. f[0] = base
    BY <1>5, Zenon
  <2>4. <<0, base>> \in T
    BY Zenon DEF base
  <2>. QED
    BY <2>1, <2>2, <2>3, <2>4, Zenon
<1>12. ASSUME NEW k \in 1 .. n, k - 1 \in U PROVE k \in U
  <2>1. k \in 0 .. n /\ k # 0 /\ walked[k - 1] = f[k - 1] /\ <<k - 1, f[k - 1]>> \in T
    BY <1>1, <1>12
  <2>2. walked[k] = TakeFrom(f[k - 1], walk[k])
    BY <1>10, <2>1, Zenon
  <2>3. f[k - 1] \in States(lots) /\ f[k] = TakeFrom(f[k - 1], walk[k])
    BY <1>6 DEF X
  <2>4. <<k, TakeFrom(f[k - 1], walk[k])>> \in T
    BY <2>1, <2>3
  <2>. QED
    BY <2>1, <2>2, <2>3, <2>4, Zenon
<1>13. n \in U
  <2> HIDE DEF U
  <2>1. \A i \in 0 .. n : i \in U
    BY <1>1, <1>11, <1>12, UpTo
  <2>. QED
    BY <1>1, <2>1
<1>14. <<n, walked[n]>> \in T
  BY <1>13 DEF U
<1>. QED
  BY <1>9, <1>14

\* A whole walk over places of the side divides lots and loses nothing (position.go consume).
LEMMA ConsumeFaithful ==
  ASSUME NEW lots \in Seq(LotSet), NEW walk \in Seq(1 .. Len(lots)), NEW volume \in Nat
  PROVE  Consume(lots, walk, volume) \in States(lots) /\ Faithful(lots, Consume(lots, walk, volume))
<1> DEFINE n == Len(walk)
           base == [wanted |-> volume, pieces |-> <<>>, left |-> lots]
           T == {x \in (0 .. n) \X States(lots) : Faithful(lots, x[2])}
<1>1. n \in Nat /\ \A k \in 1 .. n : walk[k] \in 1 .. Len(lots)
  BY ElementOfSeq
<1>2. <<0, base>> \in T
  <2>1. base \in States(lots)
    BY DEF States
  <2>2. base.left = lots /\ base.pieces = <<>>
    OBVIOUS
  <2> HIDE DEF base
  <2>3. ASSUME NEW dir PROVE Drift(<<>>, dir) + Drift(lots, dir) = Drift(lots, dir)
    <3>1. <<>> \in Seq(LotSet) /\ Len(<<>>) = 0
      OBVIOUS
    <3>2. Drifts(<<>>, dir) \in Seq(Int) /\ Len(Drifts(<<>>, dir)) = 0
      BY <3>1, DriftsSeq
    <3>3. Drifts(<<>>, dir) = <<>>
      BY <3>2, EmptySeq
    <3>4. Drift(<<>>, dir) = 0
      BY <3>3, TotalOfNothing DEF Drift
    <3>5. Drift(lots, dir) \in Int
      BY DriftsSeq
    <3>. QED
      BY <3>4, <3>5
  <2>4. Faithful(lots, base)
    BY <2>2, <2>3, Zenon DEF Faithful, SameLot
  <2>. QED
    BY <1>1, <2>1, <2>4
<1>3. ASSUME NEW k \in 1 .. n, NEW w \in States(lots), <<k - 1, w>> \in T
      PROVE  <<k, TakeFrom(w, walk[k])>> \in T
  <2>1. Faithful(lots, w) /\ walk[k] \in 1 .. Len(lots) /\ k \in 0 .. n
    BY <1>1, <1>3
  <2>2. TakeFrom(w, walk[k]) \in States(lots) /\ Faithful(lots, TakeFrom(w, walk[k]))
    BY <2>1, TakeFromState
  <2>. QED
    BY <2>1, <2>2
<1>4. <<n, Consume(lots, walk, volume)>> \in T
  <2> HIDE DEF T
  <2>. QED
    BY <1>2, <1>3, ConsumeReaches
<1>. QED
  BY <1>4

\* A walk goes over places of the side, whatever the offset and the order.
LEMMA WalkPlaces ==
  ASSUME NEW lots \in Seq(LotSet), NEW offset, NEW order,
         offset \in {"CloseToday", "CloseYesterday"} \/ order \in CloseOrders
  PROVE  Walk(lots, offset, order) \in Seq(1 .. Len(lots))
<1> DEFINE X == 1 .. Len(lots)
           index == [i \in DOMAIN lots |-> i]
           history == Picked(index, HistoryLots(lots))
           today == Picked(index, TodaysLots(lots))
<1>1. index \in Seq(X)
  OBVIOUS
<1>2. history \in Seq(X) /\ today \in Seq(X)
  <2> HIDE DEF index, X
  <2>. QED
    BY <1>1, PickedSeq
<1>3. Walk(lots, offset, order)
        = CASE offset = "CloseToday"     -> today
            [] offset = "CloseYesterday" -> history
            [] OTHER -> CASE order = "YesterdayFirst" -> history \o today
                          [] order = "TodayFirst"     -> today \o history
                          [] order = "FIFO"           -> index
  BY Zenon DEF Walk
<1> HIDE DEF history, today, index, X
<1>4. history \o today \in Seq(X) /\ today \o history \in Seq(X)
  BY <1>2, ConcatProperties
<1>5. Walk(lots, offset, order) \in Seq(X)
  BY <1>1, <1>2, <1>3, <1>4 DEF CloseOrders
<1>. QED
  BY <1>5 DEF X

\* Lots without volume do not count for the profit (lot.go compact).
LEMMA DropEmptyKeeps ==
  ASSUME NEW lots \in Seq(LotSet)
  PROVE  /\ DropEmpty(lots) \in Seq(LotSet)
         /\ \A dir : Drift(DropEmpty(lots), dir) = Drift(lots, dir)
<1> DEFINE K == {i \in DOMAIN lots : lots[i].volume > 0}
           q == Picked(lots, K)
<1>1. q \in Seq(LotSet)
  BY PickedSeq
<1>2. DropEmpty(lots) = q
  BY DEF DropEmpty
<1>3. ASSUME NEW dir PROVE Drift(q, dir) = Drift(lots, dir)
  <2> DEFINE t == Drifts(lots, dir)
             u == Drifts(q, dir)
             F == LotDrift(dir)
  <2>1. F \in [LotSet -> Int]
    BY LotDriftInt
  <2>2. t \in Seq(Int) /\ Len(t) = Len(lots) /\ \A i \in 1 .. Len(lots) : t[i] = F[lots[i]]
    BY DriftsSeq
  <2>3. u \in Seq(Int) /\ Len(u) = Len(q) /\ \A i \in 1 .. Len(u) : u[i] = F[q[i]]
    <3> HIDE DEF q
    <3>. QED
      BY <1>1, DriftsSeq
  <2>4. ASSUME NEW i \in 1 .. Len(lots), i \notin K PROVE F[lots[i]] = 0
    <3> DEFINE lot == lots[i]
    <3>1. lot \in LotSet /\ ~(lot.volume > 0)
      BY <2>4, ElementOfSeq
    <3> HIDE DEF lot
    <3>2. lot.volume = 0 /\ lot.basis \in Int /\ lot.openPrice \in Int
      BY <3>1 DEF LotSet
    <3>3. F[lot] = (lot.basis - lot.openPrice) * lot.volume * Sign(dir)
      BY <3>1 DEF LotDrift
    <3>4. (lot.basis - lot.openPrice) * 0 * Sign(dir) = 0
      BY <3>2, SignInt
    <3>5. F[lot] = 0
      BY <3>2, <3>3, <3>4, Zenon
    <3>. QED
      BY <3>5 DEF lot
  <2> HIDE DEF F, t, u, K
  <2>5. \A i \in 1 .. Len(lots) : (i \in K => t[i] = F[lots[i]]) /\ (i \notin K => t[i] = 0)
    BY <2>2, <2>4
  <2>6. Numbers(lots, K, F, t)
    BY <2>2, <2>5 DEF Numbers
  <2>7. Numbers(q, Nat, F, u)
    <3> HIDE DEF q
    <3>. QED
      BY <2>3 DEF Numbers
  <2>8. Total(u) = Total(t)
    BY <2>1, <2>6, <2>7, PickedTotal
  <2>. QED
    BY <2>8 DEF Drift, t, u
<1>. QED
  BY <1>1, <1>2, <1>3

\* What is left of a restorable side is restorable, its empty lots dropped.
LEMMA DropEmptyRestorable ==
  ASSUME NEW lots \in Seq(LotSet), NEW left \in Seq(LotSet), Len(left) = Len(lots),
         \A i \in 1 .. Len(lots) : SameLot(left[i], lots[i]),
         NEW d \in Int, RestorableSide(d, lots)
  PROVE  RestorableSide(d, DropEmpty(left))
<1> DEFINE K == {i \in DOMAIN left : left[i].volume > 0}
           q == Picked(left, K)
           n == Len(lots)
           m == Len(q)
<1>1. q \in Seq(LotSet) /\ m \in Nat
  <2>1. q \in Seq(LotSet)
    BY PickedSeq
  <2> HIDE DEF q
  <2>. QED
    BY <2>1
<1>2. DropEmpty(left) = q
  BY DEF DropEmpty
<1>3. PICK h : Places(left, K, q, h)
  BY PickedPlaces
<1>4. DOMAIN lots = 1 .. n /\ DOMAIN left = 1 .. n
  OBVIOUS
<1> HIDE DEF q
<1>5. DOMAIN q = 1 .. m
  BY <1>1
<1>6. ASSUME NEW j \in 1 .. m PROVE h[j] \in 1 .. n /\ q[j].volume > 0 /\ SameLot(q[j], lots[h[j]])
  <2>1. h[j] \in 1 .. n /\ h[j] \in K /\ q[j] = left[h[j]]
    BY <1>3 DEF Places
  <2>2. SameLot(left[h[j]], lots[h[j]])
    BY <2>1
  <2>. QED
    BY <2>1, <2>2
<1>7. ASSUME NEW j \in 1 .. m
      PROVE  /\ q[j].volume > 0
             /\ q[j].openPrice > 0
             /\ q[j].basis > 0
             /\ IF q[j].settled THEN q[j].openDay < d ELSE q[j].openDay = d
  <2> DEFINE lot == lots[h[j]]
  <2>1. lot.openPrice > 0 /\ lot.basis > 0 /\ IF lot.settled THEN lot.openDay < d ELSE lot.openDay = d
    BY <1>4, <1>6 DEF RestorableSide
  <2>2. q[j].volume > 0 /\ SameLot(q[j], lot)
    BY <1>6
  <2> HIDE DEF lot
  <2>. QED
    BY <2>1, <2>2, Zenon DEF SameLot
<1>8. ASSUME NEW i \in 1 .. m, NEW j \in 1 .. m, i < j, q[j].settled PROVE q[i].settled
  <2>1. h[i] < h[j] /\ h[i] \in 1 .. n /\ h[j] \in 1 .. n
    BY <1>3, <1>8 DEF Places
  <2>2. lots[h[j]].settled
    <3>1. q[j].settled = lots[h[j]].settled
      BY <1>6 DEF SameLot
    <3>. QED
      BY <1>8, <3>1, Zenon
  <2>3. lots[h[i]].settled
    BY <1>4, <2>1, <2>2 DEF RestorableSide
  <2>4. q[i].settled = lots[h[i]].settled
    BY <1>6 DEF SameLot
  <2>. QED
    BY <2>3, <2>4, Zenon
<1>. QED
  BY <1>2, <1>5, <1>7, <1>8, Zenon DEF RestorableSide

-----------------------------------------------------------------------------
(* Volumes of today's lots and of history. *)

\* What a lot counts among the settled ones, or among the others.
Counted(settled) == [lot \in LotSet |-> IF lot.settled = settled THEN lot.volume ELSE 0]
Counts(lots, settled) == [i \in 1 .. Len(lots) |-> Counted(settled)[lots[i]]]
VolumeOf(lots, settled) == Total(Counts(lots, settled))

LEMMA CountedNat ==
  ASSUME NEW settled
  PROVE  /\ Counted(settled) \in [LotSet -> Int]
         /\ \A lot \in LotSet : /\ Counted(settled)[lot] \in Nat
                                /\ lot.settled = settled => Counted(settled)[lot] = lot.volume
                                /\ lot.settled # settled => Counted(settled)[lot] = 0
<1>1. ASSUME NEW lot \in LotSet PROVE lot.volume \in Nat
  BY DEF LotSet
<1>2. ASSUME NEW lot \in LotSet PROVE (IF lot.settled = settled THEN lot.volume ELSE 0) \in Int
  <2>1. lot.volume \in Int /\ 0 \in Int
    BY <1>1
  <2>. QED
    BY <2>1, Zenon
<1>3. Counted(settled) \in [LotSet -> Int]
  BY <1>2, Zenon DEF Counted
<1>4. ASSUME NEW lot \in LotSet
      PROVE /\ lot.settled = settled => Counted(settled)[lot] = lot.volume
            /\ lot.settled # settled => Counted(settled)[lot] = 0
  BY Zenon DEF Counted
<1>5. 0 \in Nat
  OBVIOUS
<1>6. ASSUME NEW lot \in LotSet PROVE Counted(settled)[lot] \in Nat
  BY <1>1, <1>4, <1>5, Zenon
<1>. QED
  BY <1>3, <1>4, <1>6, Zenon

LEMMA CountsSeq ==
  ASSUME NEW settled, NEW lots \in Seq(LotSet)
  PROVE  /\ Counts(lots, settled) \in Seq(Int) /\ Len(Counts(lots, settled)) = Len(lots)
         /\ \A i \in 1 .. Len(lots) : Counts(lots, settled)[i] = Counted(settled)[lots[i]]
                                       /\ Counts(lots, settled)[i] \in Nat
         /\ VolumeOf(lots, settled) \in Nat
<1> DEFINE c == Counts(lots, settled)
           n == Len(lots)
<1>1. \A i \in 1 .. n : Counted(settled)[lots[i]] \in Nat
  BY ElementOfSeq, CountedNat
<1>2. n \in Nat /\ \A i \in 1 .. n : Counted(settled)[lots[i]] \in Int
  BY <1>1
<1>3. c = [i \in 1 .. n |-> Counted(settled)[lots[i]]]
  BY DEF Counts
<1> HIDE DEF c, n
<1>4. c \in Seq(Int) /\ Len(c) = n /\ \A i \in 1 .. n : c[i] = Counted(settled)[lots[i]]
  BY <1>2, <1>3
<1>5. \A i \in 1 .. n : c[i] \in Nat
  BY <1>1, <1>4
<1>6. \A i \in 1 .. Len(c) : c[i] >= 0
  BY <1>4, <1>5
<1>7. Total(c) \in Nat
  BY <1>4, <1>6, TotalNat
<1>. QED
  BY <1>4, <1>5, <1>7 DEF c, n, VolumeOf

\* The volumes that an offset may close (position.go Close).
LEMMA VolumesOf ==
  ASSUME NEW lots \in Seq(LotSet)
  PROVE  VolumeToday(lots) = VolumeOf(lots, FALSE) /\ VolumeHistory(lots) = VolumeOf(lots, TRUE)
<1>1. ASSUME NEW settled \in BOOLEAN,
             NEW K, \A i \in 1 .. Len(lots) : i \in K <=> lots[i].settled = settled
      PROVE  VolumeWhere(lots, K) = VolumeOf(lots, settled)
  <2> DEFINE s == [i \in DOMAIN lots |-> IF i \in K THEN lots[i].volume ELSE 0]
             c == Counts(lots, settled)
             n == Len(lots)
  <2>1. DOMAIN lots = 1 .. n /\ n \in Nat /\ \A i \in 1 .. n : lots[i] \in LotSet
    BY ElementOfSeq
  <2>2. c = [i \in 1 .. n |-> Counted(settled)[lots[i]]]
    BY DEF Counts
  <2> HIDE DEF c, n
  <2>3. ASSUME NEW i \in 1 .. n PROVE (IF i \in K THEN lots[i].volume ELSE 0) = Counted(settled)[lots[i]]
    <3>1. lots[i] \in LotSet
      BY <2>1
    <3>2. i \in K <=> lots[i].settled = settled
      BY <1>1 DEF n
    <3>. QED
      BY <3>1, <3>2, CountedNat, Zenon
  <2>4. s = c
    BY <2>1, <2>2, <2>3, Zenon
  <2>. QED
    BY <2>4, Zenon DEF VolumeWhere, VolumeOf, c
<1>2. ASSUME NEW i \in 1 .. Len(lots) PROVE i \in DOMAIN lots /\ lots[i].settled \in BOOLEAN
  <2>1. lots[i] \in LotSet
    BY ElementOfSeq
  <2>. QED
    BY <2>1 DEF LotSet
<1>3. \A i \in 1 .. Len(lots) : i \in TodaysLots(lots) <=> lots[i].settled = FALSE
  BY <1>2, Zenon DEF TodaysLots
<1>4. \A i \in 1 .. Len(lots) : i \in HistoryLots(lots) <=> lots[i].settled = TRUE
  BY <1>2, Zenon DEF HistoryLots
<1>. QED
  BY <1>1, <1>3, <1>4, Zenon DEF VolumeToday, VolumeHistory

\* A new lot counts with today's (position.go Open).
LEMMA OpenedVolumes ==
  ASSUME NEW lots \in Seq(LotSet), NEW lot \in LotSet
  PROVE  /\ Append(lots, lot) \in Seq(LotSet)
         /\ \A settled : VolumeOf(Append(lots, lot), settled) = VolumeOf(lots, settled) + Counted(settled)[lot]
<1> DEFINE n == Len(lots)
           after == Append(lots, lot)
<1>1. /\ n \in Nat /\ after \in Seq(LotSet) /\ Len(after) = n + 1
      /\ after[n + 1] = lot /\ \A i \in 1 .. n : after[i] = lots[i]
  OBVIOUS
<1> HIDE DEF after
<1>2. ASSUME NEW settled PROVE VolumeOf(after, settled) = VolumeOf(lots, settled) + Counted(settled)[lot]
  <2> DEFINE s == Counts(lots, settled)
             x == Counted(settled)[lot]
             t == Append(s, x)
             u == Counts(after, settled)
  <2>1. s \in Seq(Int) /\ Len(s) = n /\ \A i \in 1 .. n : s[i] = Counted(settled)[lots[i]]
    BY CountsSeq
  <2>2. u \in Seq(Int) /\ Len(u) = n + 1 /\ \A i \in 1 .. n + 1 : u[i] = Counted(settled)[after[i]]
    BY <1>1, CountsSeq
  <2>3. x \in Int
    BY CountedNat
  <2> HIDE DEF s, x, u
  <2>4. t \in Seq(Int) /\ Len(t) = n + 1 /\ t[n + 1] = x /\ \A i \in 1 .. n : t[i] = s[i]
    BY <2>1, <2>3
  <2>5. Total(t) = Total(s) + x
    BY <2>1, <2>3, TotalAppend
  <2> HIDE DEF t, n
  <2>6. ASSUME NEW i \in 1 .. n + 1 PROVE u[i] = t[i]
    <3>1. CASE i = n + 1
      BY <1>1, <2>2, <2>4, <3>1 DEF x
    <3>2. CASE i \in 1 .. n
      <4>1. u[i] = Counted(settled)[after[i]]
        BY <2>2
      <4>2. after[i] = lots[i] /\ t[i] = s[i] /\ s[i] = Counted(settled)[lots[i]]
        BY <1>1, <2>1, <2>4, <3>2
      <4>. QED
        BY <4>1, <4>2, Zenon
    <3>. QED
      BY <1>1, <3>1, <3>2
  <2>7. u = t
    BY <2>2, <2>4, <2>6, SeqEqual
  <2>. QED
    BY <2>5, <2>7 DEF VolumeOf, s, x, u
<1>. QED
  BY <1>1, <1>2 DEF after

\* Dropping empty lots changes no volume (lot.go compact).
LEMMA DropEmptyCounts ==
  ASSUME NEW lots \in Seq(LotSet), NEW settled
  PROVE  VolumeOf(DropEmpty(lots), settled) = VolumeOf(lots, settled)
<1> DEFINE K == {i \in DOMAIN lots : lots[i].volume > 0}
           q == Picked(lots, K)
           t == Counts(lots, settled)
           u == Counts(q, settled)
           F == Counted(settled)
<1>1. q \in Seq(LotSet)
  BY PickedSeq
<1>2. DropEmpty(lots) = q
  BY DEF DropEmpty
<1>3. F \in [LotSet -> Int]
  BY CountedNat
<1>4. t \in Seq(Int) /\ Len(t) = Len(lots) /\ \A i \in 1 .. Len(lots) : t[i] = F[lots[i]]
  BY CountsSeq
<1>5. u \in Seq(Int) /\ Len(u) = Len(q) /\ \A i \in 1 .. Len(u) : u[i] = F[q[i]]
  <2> HIDE DEF q
  <2>. QED
    BY <1>1, CountsSeq
<1>6. ASSUME NEW i \in 1 .. Len(lots), i \notin K PROVE F[lots[i]] = 0
  <2> DEFINE lot == lots[i]
  <2>1. lot \in LotSet /\ ~(lot.volume > 0)
    BY <1>6, ElementOfSeq
  <2> HIDE DEF lot
  <2>2. lot.volume = 0
    BY <2>1 DEF LotSet
  <2>3. F[lot] = 0
    BY <2>1, <2>2, CountedNat, Zenon
  <2>. QED
    BY <2>3 DEF lot
<1> HIDE DEF F, t, u, K
<1>7. \A i \in 1 .. Len(lots) : (i \in K => t[i] = F[lots[i]]) /\ (i \notin K => t[i] = 0)
  BY <1>4, <1>6
<1>8. Numbers(lots, K, F, t)
  BY <1>4, <1>7 DEF Numbers
<1>9. Numbers(q, Nat, F, u)
  <2> HIDE DEF q
  <2>. QED
    BY <1>5 DEF Numbers
<1>10. Total(u) = Total(t)
  BY <1>3, <1>8, <1>9, PickedTotal
<1>. QED
  BY <1>2, <1>10 DEF VolumeOf, t, u

\* What a step of the walk does to what is left (lot.go takeFrom).
LEMMA TakeFromLeft ==
  ASSUME NEW lots \in Seq(LotSet), NEW walked \in States(lots), NEW i \in 1 .. Len(lots)
  PROVE  \E taken \in Nat :
           /\ taken <= walked.wanted /\ taken <= walked.left[i].volume
           /\ taken = walked.wanted \/ taken = walked.left[i].volume
           /\ TakeFrom(walked, i).wanted = walked.wanted - taken
           /\ \A j \in 1 .. Len(lots) : j # i => TakeFrom(walked, i).left[j] = walked.left[j]
           /\ SameLot(TakeFrom(walked, i).left[i], walked.left[i])
           /\ TakeFrom(walked, i).left[i].volume = walked.left[i].volume - taken
<1> DEFINE left == walked.left
           lot == left[i]
           taken == Min({lot.volume, walked.wanted})
           rest == [lot EXCEPT !.volume = lot.volume - taken]
           after == [left EXCEPT ![i] = rest]
           n == Len(lots)
<1>1. n \in Nat /\ walked.wanted \in Nat /\ left \in Seq(LotSet) /\ Len(left) = n
  BY DEF States
<1>2. lot \in LotSet /\ lot.volume \in Nat
  <2>1. lot \in LotSet
    BY <1>1, ElementOfSeq
  <2>. QED
    BY <2>1 DEF LotSet
<1>3. /\ taken \in Nat /\ taken <= lot.volume /\ taken <= walked.wanted
      /\ taken = walked.wanted \/ taken = lot.volume
  <2> HIDE DEF lot
  <2> DEFINE a == lot.volume
             b == walked.wanted
  <2>1. a \in Nat /\ b \in Nat
    BY <1>1, <1>2
  <2> HIDE DEF a, b
  <2>2. Min({a, b}) \in Nat /\ Min({a, b}) <= a /\ Min({a, b}) <= b /\ (Min({a, b}) = b \/ Min({a, b}) = a)
    <3>1. Min({a, b}) \in Nat /\ Min({a, b}) <= a /\ Min({a, b}) <= b
      BY <2>1, LeastOfTwo
    <3>2. Min({a, b}) \in {a, b}
      <4>1. \E m \in {a, b} : \A x \in {a, b} : m <= x
        BY <2>1
      <4>. QED
        BY <4>1, Zenon DEF Min
    <3>. QED
      BY <3>1, <3>2
  <2>. QED
    BY <2>2 DEF a, b
<1>4. TakeFrom(walked, i).wanted = walked.wanted - taken /\ TakeFrom(walked, i).left = after
  BY DEF TakeFrom
<1>5. rest \in LotSet /\ SameLot(rest, lot) /\ rest.volume = lot.volume - taken
  <2>1. lot.volume - taken \in Nat
    <3> HIDE DEF lot, taken
    <3>. QED
      BY <1>2, <1>3
  <2> HIDE DEF lot, taken
  <2> DEFINE v == lot.volume - taken
  <2>2. v \in Nat
    BY <2>1
  <2> HIDE DEF v
  <2>3. LET cut == [lot EXCEPT !.volume = v] IN cut \in LotSet /\ cut.volume = v /\ SameLot(cut, lot)
    BY <1>2, <2>2, CutLot
  <2>. QED
    BY <2>3 DEF v
<1>6. \A j \in 1 .. n : after[j] = IF j = i THEN rest ELSE left[j]
  <2> HIDE DEF rest, left
  <2>. QED
    BY <1>1, <1>5, ExceptSeq
<1> HIDE DEF taken, rest, after
<1>7. after[i] = rest /\ \A j \in 1 .. n : j # i => after[j] = left[j]
  BY <1>6
<1>. QED
  BY <1>3, <1>4, <1>5, <1>7

\* A walk over lots that are settled, or over lots that are not, has taken what it no longer
\* wants from them, and has emptied every lot it went over if it still wants some.
Taking(lots, walk, volume, settled, k, walked) ==
  /\ \A i \in 1 .. Len(lots) : walked.left[i].settled = lots[i].settled
  /\ VolumeOf(walked.left, settled) = VolumeOf(lots, settled) - volume + walked.wanted
  /\ \A other : other # settled => VolumeOf(walked.left, other) = VolumeOf(lots, other)
  /\ walked.wanted > 0 => \A j \in 1 .. k : walked.left[walk[j]].volume = 0

LEMMA TakeFromTaking ==
  ASSUME NEW lots \in Seq(LotSet), NEW walk \in Seq(1 .. Len(lots)), NEW volume \in Nat, NEW settled,
         NEW k \in 1 .. Len(walk), lots[walk[k]].settled = settled,
         NEW w \in States(lots), Taking(lots, walk, volume, settled, k - 1, w)
  PROVE  Taking(lots, walk, volume, settled, k, TakeFrom(w, walk[k]))
<1> DEFINE i == walk[k]
           n == Len(lots)
           t == TakeFrom(w, i)
           a == w.left
           b == t.left
<1>1. i \in 1 .. n /\ n \in Nat /\ k \in Nat /\ Len(walk) \in Nat /\ k \in 1 .. Len(walk)
      /\ \A j \in 1 .. Len(walk) : walk[j] \in 1 .. n
  BY ElementOfSeq
<1> HIDE DEF i
<1>2. t \in States(lots)
  BY <1>1, TakeFromState
<1>3. PICK taken \in Nat :
           /\ taken <= w.wanted /\ taken <= w.left[i].volume
           /\ taken = w.wanted \/ taken = w.left[i].volume
           /\ t.wanted = w.wanted - taken
           /\ \A j \in 1 .. Len(lots) : j # i => t.left[j] = w.left[j]
           /\ SameLot(t.left[i], w.left[i])
           /\ t.left[i].volume = w.left[i].volume - taken
  BY <1>1, TakeFromLeft
<1>4. a \in Seq(LotSet) /\ Len(a) = n /\ w.wanted \in Nat /\ b \in Seq(LotSet) /\ Len(b) = n /\ t.wanted \in Nat
  BY <1>2 DEF States
<1>5. /\ \A j \in 1 .. n : a[j].settled = lots[j].settled
      /\ VolumeOf(a, settled) = VolumeOf(lots, settled) - volume + w.wanted
      /\ \A other : other # settled => VolumeOf(a, other) = VolumeOf(lots, other)
      /\ w.wanted > 0 => \A j \in 1 .. k - 1 : a[walk[j]].volume = 0
  BY DEF Taking
<1>6. /\ taken <= w.wanted /\ taken <= a[i].volume /\ (taken = w.wanted \/ taken = a[i].volume)
      /\ t.wanted = w.wanted - taken /\ SameLot(b[i], a[i]) /\ b[i].volume = a[i].volume - taken
  BY <1>3
<1>7. \A j \in 1 .. n : j # i => b[j] = a[j]
  BY <1>3
<1> HIDE DEF t, a, b, n
<1>8. ASSUME NEW j \in 1 .. n PROVE b[j].settled = lots[j].settled
  <2>1. CASE j = i
    BY <1>5, <1>6, <2>1, Zenon DEF SameLot
  <2>2. CASE j # i
    BY <1>5, <1>7, <2>2, Zenon
  <2>. QED
    BY <2>1, <2>2
<1>9. a[i] \in LotSet /\ b[i] \in LotSet /\ a[i].settled = settled /\ b[i].settled = settled /\ a[i].volume \in Nat
  <2>1. a[i] \in LotSet /\ b[i] \in LotSet
    BY <1>1, <1>4, ElementOfSeq
  <2>2. a[i].volume \in Nat
    BY <2>1 DEF LotSet
  <2>3. lots[i].settled = settled
    BY DEF i
  <2>. QED
    BY <1>1, <1>5, <1>8, <2>1, <2>2, <2>3, Zenon
<1>10. ASSUME NEW g
       PROVE VolumeOf(b, g) = VolumeOf(a, g) - Counted(g)[a[i]] + Counted(g)[b[i]]
  <2> DEFINE p == Counts(a, g)
             q == Counts(b, g)
  <2>0. a \in Seq(LotSet) /\ Len(a) = n /\ b \in Seq(LotSet) /\ Len(b) = n
    BY <1>4, Zenon
  <2>1. p \in Seq(Int) /\ Len(p) = n /\ \A j \in 1 .. n : p[j] = Counted(g)[a[j]]
    <3>1. a \in Seq(LotSet) /\ Len(a) = n
      BY <2>0
    <3>. QED
      BY <3>1, CountsSeq
  <2>2. q \in Seq(Int) /\ Len(q) = n /\ \A j \in 1 .. n : q[j] = Counted(g)[b[j]]
    <3>1. b \in Seq(LotSet) /\ Len(b) = n
      BY <2>0
    <3>. QED
      BY <3>1, CountsSeq
  <2> HIDE DEF p, q
  <2>3. ASSUME NEW j \in 1 .. n, j # i PROVE q[j] = p[j]
    <3>1. b[j] = a[j]
      BY <1>7, <2>3, Zenon
    <3>. QED
      BY <2>1, <2>2, <3>1, Zenon
  <2>4. Total(q) = Total(p) - p[i] + q[i]
    <3>1. p \in Seq(Int) /\ q \in Seq(Int) /\ Len(q) = Len(p) /\ i \in 1 .. Len(p)
          /\ \A j \in 1 .. Len(p) : j # i => q[j] = p[j]
      BY <1>1, <2>1, <2>2, <2>3, Zenon
    <3>. QED
      BY <3>1, TotalChanged
  <2>5. p[i] = Counted(g)[a[i]] /\ q[i] = Counted(g)[b[i]]
    BY <1>1, <2>1, <2>2
  <2>. QED
    BY <2>4, <2>5 DEF VolumeOf, p, q
<1>11. VolumeOf(b, settled) = VolumeOf(lots, settled) - volume + t.wanted
  <2>1. Counted(settled)[a[i]] = a[i].volume /\ Counted(settled)[b[i]] = b[i].volume
    BY <1>9, CountedNat
  <2>2. VolumeOf(a, settled) \in Nat /\ VolumeOf(lots, settled) \in Nat
    BY <1>4, CountsSeq
  <2>3. VolumeOf(b, settled) = VolumeOf(a, settled) - a[i].volume + b[i].volume
    BY <1>10, <2>1
  <2> DEFINE x == a[i].volume
             y == b[i].volume
             V == VolumeOf(a, settled)
             L == VolumeOf(lots, settled)
             W == w.wanted
  <2>4. x \in Nat /\ y = x - taken /\ V \in Nat /\ L \in Nat /\ V = L - volume + W /\ t.wanted = W - taken /\ W \in Nat
    BY <1>4, <1>5, <1>6, <1>9, <2>2
  <2>5. VolumeOf(b, settled) = V - x + y
    BY <2>3
  <2> HIDE DEF x, y, V, L, W
  <2>6. VolumeOf(b, settled) = L - volume + (W - taken)
    BY <2>4, <2>5
  <2>. QED
    BY <2>4, <2>6 DEF L
<1>12. ASSUME NEW g, g # settled PROVE VolumeOf(b, g) = VolumeOf(lots, g)
  <2>1. Counted(g)[a[i]] = 0 /\ Counted(g)[b[i]] = 0
    BY <1>9, <1>12, CountedNat
  <2>2. VolumeOf(a, g) \in Nat /\ VolumeOf(a, g) = VolumeOf(lots, g)
    BY <1>4, <1>5, <1>12, CountsSeq
  <2>3. VolumeOf(b, g) = VolumeOf(a, g) - 0 + 0
    BY <1>10, <2>1
  <2>. QED
    BY <2>2, <2>3
<1>13. ASSUME t.wanted > 0, NEW j \in 1 .. k PROVE b[walk[j]].volume = 0
  <2>1. taken # w.wanted /\ w.wanted > 0
    BY <1>4, <1>6, <1>13
  <2>2. b[i].volume = 0
    <3>1. taken = a[i].volume
      BY <1>6, <2>1
    <3>. QED
      BY <1>6, <1>9, <3>1
  <2>3. CASE walk[j] = i
    BY <2>2, <2>3
  <2>4. CASE walk[j] # i
    <3>1. j \in 1 .. Len(walk) /\ j # k
      BY <1>1, <2>4 DEF i
    <3>2. j \in 1 .. k - 1
      BY <1>1, <3>1
    <3>3. a[walk[j]].volume = 0
      BY <1>5, <2>1, <3>2
    <3>4. b[walk[j]] = a[walk[j]]
      BY <1>1, <1>7, <2>4, <3>1
    <3>. QED
      BY <3>3, <3>4
  <2>. QED
    BY <2>3, <2>4
<1>14. Taking(lots, walk, volume, settled, k, t)
  BY <1>8, <1>11, <1>12, <1>13, Zenon DEF Taking, b, n
<1>. QED
  BY <1>14 DEF t, i

\* There is as much of one kind of lots; and that much of it is gone, and nothing of the others.
Enough(lots, settled, volume) == volume <= VolumeOf(lots, settled)
Less(lots, left, settled, volume) ==
  /\ left \in Seq(LotSet)
  /\ VolumeOf(left, settled) = VolumeOf(lots, settled) - volume
  /\ \A other : other # settled => VolumeOf(left, other) = VolumeOf(lots, other)

\* A close of one kind of lots takes what it says from them and nothing from the others,
\* if they have as much (position.go Close).
LEMMA ClosedVolumes ==
  ASSUME NEW lots \in Seq(LotSet), NEW settled, NEW offset, NEW order, NEW volume \in Nat,
         \/ settled = TRUE /\ offset = "CloseYesterday"
         \/ settled = FALSE /\ offset = "CloseToday",
         Enough(lots, settled, volume)
  PROVE  Less(lots, CloseLots(lots, offset, volume, order).left, settled, volume)
<1> DEFINE n == Len(lots)
           K == {i \in DOMAIN lots : lots[i].settled = settled}
           index == [i \in DOMAIN lots |-> i]
           walk == Picked(index, K)
           left == CloseLots(lots, offset, volume, order).left
<1>1. n \in Nat /\ DOMAIN lots = 1 .. n /\ \A i \in 1 .. n : lots[i] \in LotSet /\ lots[i].settled \in BOOLEAN
  <2>1. \A i \in 1 .. n : lots[i] \in LotSet
    BY ElementOfSeq
  <2>2. \A i \in 1 .. n : lots[i].settled \in BOOLEAN
    BY <2>1 DEF LotSet
  <2>. QED
    BY <2>1, <2>2
<1>2. index \in Seq(1 .. n) /\ Len(index) = n /\ \A i \in 1 .. n : index[i] = i
  BY <1>1
<1>3. Walk(lots, offset, order) = walk
  <2> DEFINE history == Picked(index, HistoryLots(lots))
             today == Picked(index, TodaysLots(lots))
  <2>0. Walk(lots, offset, order)
          = CASE offset = "CloseToday"     -> today
              [] offset = "CloseYesterday" -> history
              [] OTHER -> CASE order = "YesterdayFirst" -> history \o today
                            [] order = "TodayFirst"     -> today \o history
                            [] order = "FIFO"           -> index
    BY Zenon DEF Walk
  <2>1. CASE settled = TRUE
    <3>1. K = HistoryLots(lots)
      BY <1>1, <2>1, Zenon DEF HistoryLots
    <3>2. offset = "CloseYesterday" /\ offset # "CloseToday"
      BY <2>1
    <3>3. history = walk
      BY <3>1
    <3>. QED
      BY <2>0, <3>2, <3>3, Zenon
  <2>2. CASE settled = FALSE
    <3>1. K = TodaysLots(lots)
      BY <1>1, <2>2, Zenon DEF TodaysLots
    <3>2. offset = "CloseToday"
      BY <2>2
    <3>3. today = walk
      BY <3>1
    <3>. QED
      BY <2>0, <3>2, <3>3, Zenon
  <2>. QED
    BY <2>1, <2>2
<1> HIDE DEF n, index
<1>4. walk \in Seq(1 .. n)
  <2> HIDE DEF K
  <2>. QED
    BY <1>2, PickedSeq
<1>5. PICK h : Places(index, K, walk, h)
  <2> HIDE DEF K
  <2>. QED
    BY <1>2, PickedPlaces
<1>6. ASSUME NEW j \in 1 .. Len(walk) PROVE lots[walk[j]].settled = settled
  <2>1. h[j] \in K /\ walk[j] = index[h[j]]
    <3> HIDE DEF walk, K
    <3>. QED
      BY <1>5 DEF Places
  <2>2. h[j] \in 1 .. n
    BY <1>1, <2>1
  <2>3. walk[j] = h[j]
    <3> HIDE DEF walk
    <3>. QED
      BY <1>2, <2>1, <2>2
  <2>. QED
    BY <2>1, <2>3
<1>7. ASSUME NEW i \in 1 .. n, lots[i].settled = settled PROVE \E j \in 1 .. Len(walk) : walk[j] = i
  <2>1. i \in K /\ i \in 1 .. Len(index) /\ index[i] = i
    BY <1>1, <1>2, <1>7
  <2> DEFINE X == 1 .. n
  <2>2. index \in Seq(X)
    BY <1>2
  <2> HIDE DEF K, X
  <2>3. \E j \in 1 .. Len(walk) : walk[j] = index[i]
    BY <2>1, <2>2, PickedAll
  <2> HIDE DEF walk
  <2>. QED
    BY <2>1, <2>3
<1> HIDE DEF walk, K
<1> DEFINE walked == Consume(lots, walk, volume)
           base == [wanted |-> volume, pieces |-> <<>>, left |-> lots]
           T == {x \in (0 .. Len(walk)) \X States(lots) : Taking(lots, walk, volume, settled, x[1], x[2])}
<1>8. Len(walk) \in Nat /\ \A j \in 1 .. Len(walk) : walk[j] \in 1 .. n
  <2> DEFINE X == 1 .. n
  <2>1. walk \in Seq(X)
    BY <1>4
  <2> HIDE DEF X
  <2>2. Len(walk) \in Nat /\ \A j \in 1 .. Len(walk) : walk[j] \in X
    BY <2>1, ElementOfSeq
  <2>. QED
    BY <2>2 DEF X
<1>9. <<0, base>> \in T
  <2>1. base \in States(lots)
    BY DEF States
  <2>2. base.left = lots /\ base.wanted = volume
    OBVIOUS
  <2> HIDE DEF base
  <2>3. VolumeOf(lots, settled) = VolumeOf(lots, settled) - volume + volume
    <3>1. VolumeOf(lots, settled) \in Nat
      BY CountsSeq
    <3>. QED
      BY <3>1
  <2>4. \A j \in 1 .. 0 : base.left[walk[j]].volume = 0
    <3>1. 1 .. 0 = {}
      OBVIOUS
    <3>. QED
      BY <3>1, Zenon
  <2>5. Taking(lots, walk, volume, settled, 0, base)
    BY <2>2, <2>3, <2>4, Zenon DEF Taking
  <2>6. 0 \in 0 .. Len(walk)
    BY <1>8
  <2>. QED
    BY <2>1, <2>5, <2>6
<1>10. ASSUME NEW k \in 1 .. Len(walk), NEW w \in States(lots), <<k - 1, w>> \in T
       PROVE  <<k, TakeFrom(w, walk[k])>> \in T
  <2>1. Taking(lots, walk, volume, settled, k - 1, w) /\ walk[k] \in 1 .. n /\ k \in 0 .. Len(walk)
    BY <1>8, <1>10
  <2>2. lots[walk[k]].settled = settled
    BY <1>6
  <2>3. Taking(lots, walk, volume, settled, k, TakeFrom(w, walk[k]))
    BY <1>4, <2>1, <2>2, TakeFromTaking DEF n
  <2>4. TakeFrom(w, walk[k]) \in States(lots)
    BY <2>1, TakeFromState DEF n
  <2>. QED
    BY <2>1, <2>3, <2>4
<1>11. <<Len(walk), walked>> \in T
  <2> HIDE DEF T
  <2>. QED
    BY <1>4, <1>9, <1>10, ConsumeReaches DEF n
<1>12. walked \in States(lots) /\ Taking(lots, walk, volume, settled, Len(walk), walked)
  BY <1>11
<1>13. left = DropEmpty(walked.left)
  BY <1>3 DEF CloseLots, Kept
<1> HIDE DEF walked, left, T, base
<1> DEFINE rest == walked.left
<1>14. rest \in Seq(LotSet) /\ Len(rest) = n /\ walked.wanted \in Nat
  BY <1>12 DEF States, n
<1>15. /\ \A i \in 1 .. n : rest[i].settled = lots[i].settled
       /\ VolumeOf(rest, settled) = VolumeOf(lots, settled) - volume + walked.wanted
       /\ \A other : other # settled => VolumeOf(rest, other) = VolumeOf(lots, other)
       /\ walked.wanted > 0 => \A j \in 1 .. Len(walk) : rest[walk[j]].volume = 0
  BY <1>12 DEF Taking, n
<1> HIDE DEF rest
<1>16. VolumeOf(lots, settled) \in Nat
  BY CountsSeq
<1>17. walked.wanted = 0
  <2>1. SUFFICES ASSUME walked.wanted > 0 PROVE FALSE
    BY <1>14
  <2> DEFINE c == Counts(rest, settled)
  <2>2. /\ c \in Seq(Int) /\ Len(c) = n /\ Total(c) = VolumeOf(rest, settled)
        /\ \A i \in 1 .. n : c[i] = Counted(settled)[rest[i]]
    BY <1>14, CountsSeq DEF VolumeOf
  <2> HIDE DEF c
  <2>3. ASSUME NEW i \in 1 .. n PROVE c[i] = 0
    <3>1. c[i] = Counted(settled)[rest[i]] /\ rest[i] \in LotSet
      BY <1>14, <2>2, ElementOfSeq
    <3>2. CASE rest[i].settled = settled
      <4>1. PICK j \in 1 .. Len(walk) : walk[j] = i
        BY <1>7, <1>15, <3>2
      <4>2. rest[i].volume = 0
        BY <1>15, <2>1, <4>1
      <4>. QED
        BY <3>1, <3>2, <4>2, CountedNat, Zenon
    <3>3. CASE rest[i].settled # settled
      BY <3>1, <3>3, CountedNat, Zenon
    <3>. QED
      BY <3>2, <3>3
  <2>4. Total(c) = 0
    <3>1. \A i \in 1 .. Len(c) : c[i] = 0
      BY <2>2, <2>3
    <3>2. \A i \in 1 .. Len(c) : c[i] >= 0
      BY <3>1
    <3>. QED
      BY <2>2, <3>1, <3>2, TotalNat
  <2> DEFINE L == VolumeOf(lots, settled)
             W == walked.wanted
  <2>5. L \in Nat /\ W \in Nat /\ W > 0 /\ volume <= L /\ 0 = L - volume + W
    BY <1>14, <1>15, <1>16, <2>1, <2>2, <2>4 DEF Enough
  <2> HIDE DEF L, W
  <2>. QED
    BY <2>5
<1>18. VolumeOf(rest, settled) = VolumeOf(lots, settled) - volume
  BY <1>15, <1>16, <1>17
<1>19. left \in Seq(LotSet) /\ \A g : VolumeOf(left, g) = VolumeOf(rest, g)
  BY <1>13, <1>14, DropEmptyKeeps, DropEmptyCounts DEF rest
<1>20. \A other : other # settled => VolumeOf(left, other) = VolumeOf(lots, other)
  BY <1>15, <1>19, Zenon
<1>21. VolumeOf(left, settled) = VolumeOf(lots, settled) - volume
  BY <1>18, <1>19, Zenon
<1>. QED
  BY <1>19, <1>20, <1>21, Zenon DEF left, Less

\* How many of a side's lots are today's and how many are history.
LEMMA VolumesNat ==
  ASSUME NEW lots \in Seq(LotSet)
  PROVE  VolumeToday(lots) \in Nat /\ VolumeHistory(lots) \in Nat
<1>1. VolumeOf(lots, FALSE) \in Nat
  BY CountsSeq, Zenon
<1>2. VolumeOf(lots, TRUE) \in Nat
  BY CountsSeq, Zenon
<1>. QED
  BY <1>1, <1>2, VolumesOf, Zenon

\* A trade that opens adds to today's lots (position.go Open).
LEMMA OpenedToday ==
  ASSUME NEW lots \in Seq(LotSet), NEW lot \in LotSet, ~lot.settled
  PROVE  LET after == Append(lots, lot) IN
           /\ after \in Seq(LotSet)
           /\ VolumeToday(after) = VolumeToday(lots) + lot.volume
           /\ VolumeHistory(after) = VolumeHistory(lots)
<1> DEFINE after == Append(lots, lot)
<1>1. /\ after \in Seq(LotSet)
      /\ \A settled : VolumeOf(after, settled) = VolumeOf(lots, settled) + Counted(settled)[lot]
  BY OpenedVolumes, Zenon
<1>2. Counted(FALSE)[lot] = lot.volume /\ Counted(TRUE)[lot] = 0
  <2>1. lot.settled = FALSE
    <3>1. lot.settled \in BOOLEAN
      BY DEF LotSet
    <3>. QED
      BY <3>1, Zenon
  <2>2. lot.settled # TRUE
    BY <2>1, Zenon
  <2>. QED
    BY <2>1, <2>2, CountedNat, Zenon
<1> HIDE DEF after
<1>3. VolumeToday(after) = VolumeOf(after, FALSE) /\ VolumeHistory(after) = VolumeOf(after, TRUE)
  BY <1>1, VolumesOf, Zenon
<1>4. VolumeToday(lots) = VolumeOf(lots, FALSE) /\ VolumeHistory(lots) = VolumeOf(lots, TRUE)
  BY VolumesOf, Zenon
<1>5. VolumeToday(after) = VolumeToday(lots) + lot.volume
  BY <1>1, <1>2, <1>3, <1>4, Zenon
<1>6. VolumeHistory(after) = VolumeHistory(lots) + 0
  BY <1>1, <1>2, <1>3, <1>4, Zenon
<1>7. VolumeHistory(after) = VolumeHistory(lots)
  BY <1>6, VolumesNat
<1>. QED
  BY <1>1, <1>5, <1>7, Zenon DEF after

\* A close takes from the lots its offset names and from no others (position.go Close).
LEMMA ClosedByOffset ==
  ASSUME NEW lots \in Seq(LotSet), NEW volume \in Nat, NEW order
  PROVE  /\ volume <= VolumeToday(lots) =>
              LET left == CloseLots(lots, "CloseToday", volume, order).left IN
                /\ left \in Seq(LotSet)
                /\ VolumeToday(left) = VolumeToday(lots) - volume
                /\ VolumeHistory(left) = VolumeHistory(lots)
         /\ volume <= VolumeHistory(lots) =>
              LET left == CloseLots(lots, "CloseYesterday", volume, order).left IN
                /\ left \in Seq(LotSet)
                /\ VolumeToday(left) = VolumeToday(lots)
                /\ VolumeHistory(left) = VolumeHistory(lots) - volume
<1>1. VolumeToday(lots) = VolumeOf(lots, FALSE) /\ VolumeHistory(lots) = VolumeOf(lots, TRUE)
  BY VolumesOf, Zenon
<1>2. ASSUME volume <= VolumeToday(lots)
      PROVE  LET left == CloseLots(lots, "CloseToday", volume, order).left IN
               /\ left \in Seq(LotSet)
               /\ VolumeToday(left) = VolumeToday(lots) - volume
               /\ VolumeHistory(left) = VolumeHistory(lots)
  <2> DEFINE left == CloseLots(lots, "CloseToday", volume, order).left
  <2>1. Enough(lots, FALSE, volume)
    BY <1>1, <1>2, Zenon DEF Enough
  <2>2. Less(lots, left, FALSE, volume)
    BY <2>1, ClosedVolumes, Zenon
  <2>3. TRUE # FALSE
    OBVIOUS
  <2> HIDE DEF left
  <2>4. /\ left \in Seq(LotSet)
        /\ VolumeOf(left, FALSE) = VolumeOf(lots, FALSE) - volume
        /\ VolumeOf(left, TRUE) = VolumeOf(lots, TRUE)
    BY <2>2, <2>3, Zenon DEF Less
  <2>5. VolumeToday(left) = VolumeOf(left, FALSE) /\ VolumeHistory(left) = VolumeOf(left, TRUE)
    BY <2>4, VolumesOf, Zenon
  <2>6. /\ left \in Seq(LotSet) /\ VolumeToday(left) = VolumeToday(lots) - volume
        /\ VolumeHistory(left) = VolumeHistory(lots)
    BY <1>1, <2>4, <2>5, Zenon
  <2>. QED
    BY <2>6, Zenon DEF left
<1>3. ASSUME volume <= VolumeHistory(lots)
      PROVE  LET left == CloseLots(lots, "CloseYesterday", volume, order).left IN
               /\ left \in Seq(LotSet)
               /\ VolumeToday(left) = VolumeToday(lots)
               /\ VolumeHistory(left) = VolumeHistory(lots) - volume
  <2> DEFINE left == CloseLots(lots, "CloseYesterday", volume, order).left
  <2>1. Enough(lots, TRUE, volume)
    BY <1>1, <1>3, Zenon DEF Enough
  <2>2. Less(lots, left, TRUE, volume)
    BY <2>1, ClosedVolumes, Zenon
  <2>3. FALSE # TRUE
    OBVIOUS
  <2> HIDE DEF left
  <2>4. /\ left \in Seq(LotSet)
        /\ VolumeOf(left, TRUE) = VolumeOf(lots, TRUE) - volume
        /\ VolumeOf(left, FALSE) = VolumeOf(lots, FALSE)
    BY <2>2, <2>3, Zenon DEF Less
  <2>5. VolumeToday(left) = VolumeOf(left, FALSE) /\ VolumeHistory(left) = VolumeOf(left, TRUE)
    BY <2>4, VolumesOf, Zenon
  <2>6. /\ left \in Seq(LotSet) /\ VolumeToday(left) = VolumeToday(lots)
        /\ VolumeHistory(left) = VolumeHistory(lots) - volume
    BY <1>1, <2>4, <2>5, Zenon
  <2>. QED
    BY <2>6, Zenon DEF left
<1>. QED
  BY <1>2, <1>3, Zenon

\* Whatever the price: profit by trade is profit by day and what the bases have moved.
LEMMA ProfitsDiffer ==
  ASSUME NEW lots \in Seq(LotSet), NEW dir, NEW price \in Int
  PROVE  /\ ByTrade(lots, dir, price) \in Int /\ ByDate(lots, dir, price) \in Int
         /\ ByTrade(lots, dir, price) - ByDate(lots, dir, price) = Drift(lots, dir)
<1> DEFINE n == Len(lots)
           x == Sign(dir)
           s == [i \in DOMAIN lots |-> (price - lots[i].openPrice) * lots[i].volume * x]
           t == [i \in DOMAIN lots |-> (price - lots[i].basis) * lots[i].volume * x]
           u == Drifts(lots, dir)
<1>1. n \in Nat /\ DOMAIN lots = 1 .. n
  OBVIOUS
<1>2. ASSUME NEW i \in 1 .. n
      PROVE  /\ (price - lots[i].openPrice) * lots[i].volume * x \in Int
             /\ (price - lots[i].basis) * lots[i].volume * x \in Int
             /\ LotDrift(dir)[lots[i]]
                  = 1 * ((price - lots[i].openPrice) * lots[i].volume * x)
                      + (-1) * ((price - lots[i].basis) * lots[i].volume * x)
  <2> DEFINE lot == lots[i]
  <2>1. lot \in LotSet
    BY ElementOfSeq
  <2> HIDE DEF lot
  <2>2. lot.openPrice \in Int /\ lot.basis \in Int /\ lot.volume \in Int /\ x \in Int
    BY <2>1, SignInt DEF LotSet
  <2>3. LotDrift(dir)[lot] = (lot.basis - lot.openPrice) * lot.volume * x
    BY <2>1 DEF LotDrift
  <2> DEFINE a == lot.openPrice
             b == lot.basis
             v == lot.volume
  <2> HIDE DEF a, b, v, x
  <2>4. /\ (price - a) * v * x \in Int /\ (price - b) * v * x \in Int
        /\ (b - a) * v * x = 1 * ((price - a) * v * x) + (-1) * ((price - b) * v * x)
    <3>1. a \in Int /\ b \in Int /\ v \in Int
      BY <2>2 DEF a, b, v
    <3> DEFINE c == price - a
               d == price - b
    <3>2. c \in Int /\ d \in Int /\ b - a = c - d
      BY <3>1
    <3> HIDE DEF c, d
    <3>3. c * v * x \in Int /\ d * v * x \in Int
      BY <2>2, <3>1, <3>2
    <3>4. (c - d) * v * x = 1 * (c * v * x) + (-1) * (d * v * x)
      BY <2>2, <3>1, <3>2
    <3>. QED
      BY <3>2, <3>3, <3>4 DEF c, d
  <2>. QED
    BY <2>3, <2>4 DEF a, b, v, lot
<1>3. s \in Seq(Int) /\ Len(s) = n
  BY <1>1, <1>2
<1>4. t \in Seq(Int) /\ Len(t) = n
  BY <1>1, <1>2
<1>5. u \in Seq(Int) /\ Len(u) = n /\ \A i \in 1 .. n : u[i] = LotDrift(dir)[lots[i]]
  BY DriftsSeq
<1>6. \A i \in 1 .. n : u[i] = 1 * s[i] + (-1) * t[i]
  BY <1>1, <1>2, <1>5
<1>7. ByTrade(lots, dir, price) = Total(s) /\ ByDate(lots, dir, price) = Total(t)
  BY DEF ByTrade, ByDate
<1> HIDE DEF s, t, u
<1>8. Total(u) = 1 * Total(s) + (-1) * Total(t)
  BY <1>3, <1>4, <1>5, <1>6, TotalCombined
<1>9. Total(s) \in Int /\ Total(t) \in Int
  BY <1>3, <1>4, TotalInt
<1>10. Drift(lots, dir) = Total(u)
  BY DEF Drift, u
<1>. QED
  BY <1>7, <1>8, <1>9, <1>10

\* A lot opened today comes last and has not moved (position.go Open).
LEMMA OpenedLot ==
  ASSUME NEW lots \in Seq(LotSet), NEW today \in Int, RestorableSide(today, lots),
         NEW price \in Nat \ {0}, NEW volume \in Nat \ {0}
  PROVE  LET after == Append(lots, Lot(today, price, volume, price, FALSE)) IN
           /\ after \in Seq(LotSet) /\ RestorableSide(today, after)
           /\ \A dir : Drift(after, dir) = Drift(lots, dir)
<1> DEFINE lot == Lot(today, price, volume, price, FALSE)
           after == Append(lots, lot)
           n == Len(lots)
<1>1. lot \in LotSet
  BY DEF Lot, LotSet
<1>2. lot.openDay = today /\ lot.openPrice = price /\ lot.volume = volume /\ lot.basis = price
  BY DEF Lot
<1>3. lot.settled = FALSE
  BY Zenon DEF Lot
<1> HIDE DEF lot
<1>4. /\ n \in Nat /\ after \in Seq(LotSet) /\ Len(after) = n + 1
      /\ after[n + 1] = lot /\ \A i \in 1 .. n : after[i] = lots[i]
  BY <1>1
<1> HIDE DEF after
<1>5. DOMAIN after = 1 .. n + 1 /\ DOMAIN lots = 1 .. n
  BY <1>4
<1>6. ASSUME NEW i \in 1 .. n + 1
      PROVE  /\ after[i].volume > 0
             /\ after[i].openPrice > 0
             /\ after[i].basis > 0
             /\ IF after[i].settled THEN after[i].openDay < today ELSE after[i].openDay = today
  <2>1. CASE i = n + 1
    <3>1. lot.volume > 0 /\ lot.openPrice > 0 /\ lot.basis > 0
      BY <1>2
    <3>. QED
      BY <1>2, <1>3, <1>4, <2>1, <3>1, Zenon
  <2>2. CASE i \in 1 .. n
    <3>1. after[i] = lots[i]
      BY <1>4, <2>2
    <3>2. /\ lots[i].volume > 0 /\ lots[i].openPrice > 0 /\ lots[i].basis > 0
          /\ IF lots[i].settled THEN lots[i].openDay < today ELSE lots[i].openDay = today
      BY <1>5, <2>2 DEF RestorableSide
    <3>. QED
      BY <3>1, <3>2, Zenon
  <2>. QED
    BY <1>4, <2>1, <2>2
<1>7. ASSUME NEW i \in 1 .. n + 1, NEW j \in 1 .. n + 1, i < j, after[j].settled PROVE after[i].settled
  <2>1. i \in 1 .. n /\ (j = n + 1 \/ j \in 1 .. n)
    BY <1>4, <1>7
  <2>2. j # n + 1
    BY <1>3, <1>4, <1>7, Zenon
  <2>3. after[j] = lots[j] /\ after[i] = lots[i]
    BY <1>4, <2>1, <2>2
  <2>4. lots[j].settled
    BY <1>7, <2>3, Zenon
  <2>5. lots[i].settled
    BY <1>5, <1>7, <2>1, <2>2, <2>4 DEF RestorableSide
  <2>. QED
    BY <2>3, <2>5, Zenon
<1>8. RestorableSide(today, after)
  BY <1>5, <1>6, <1>7, Zenon DEF RestorableSide
<1>9. ASSUME NEW dir PROVE Drift(after, dir) = Drift(lots, dir)
  <2> DEFINE s == Drifts(lots, dir)
             t == Append(s, 0)
             d == LotDrift(dir)
  <2>1. d[lot] = 0
    <3>1. d[lot] = (lot.basis - lot.openPrice) * lot.volume * Sign(dir)
      BY <1>1 DEF LotDrift
    <3>2. (price - price) * volume * Sign(dir) = 0
      BY SignInt
    <3>. QED
      BY <1>2, <3>1, <3>2, Zenon
  <2> HIDE DEF d
  <2>2. s \in Seq(Int) /\ Len(s) = n /\ (\A i \in 1 .. n : s[i] = d[lots[i]]) /\ Total(s) \in Int
    BY DriftsSeq DEF d, Drift
  <2>3. /\ Drifts(after, dir) \in Seq(Int) /\ Len(Drifts(after, dir)) = n + 1
        /\ \A i \in 1 .. n + 1 : Drifts(after, dir)[i] = d[after[i]]
    BY <1>4, DriftsSeq DEF d
  <2> HIDE DEF s
  <2>4. t \in Seq(Int) /\ Len(t) = n + 1 /\ t[n + 1] = 0 /\ \A i \in 1 .. n : t[i] = s[i]
    BY <1>4, <2>2
  <2> HIDE DEF t
  <2>5. ASSUME NEW i \in 1 .. n + 1 PROVE Drifts(after, dir)[i] = t[i]
    <3>1. CASE i = n + 1
      BY <1>4, <2>1, <2>3, <2>4, <3>1
    <3>2. CASE i \in 1 .. n
      <4>1. Drifts(after, dir)[i] = d[after[i]]
        BY <2>3
      <4>2. after[i] = lots[i] /\ t[i] = s[i] /\ s[i] = d[lots[i]]
        BY <1>4, <2>2, <2>4, <3>2
      <4>. QED
        BY <4>1, <4>2, Zenon
    <3>. QED
      BY <1>4, <3>1, <3>2
  <2>6. Drifts(after, dir) = t
    <3> DEFINE r == Drifts(after, dir)
    <3>1. r \in Seq(Int) /\ Len(r) = Len(t) /\ \A i \in 1 .. Len(r) : r[i] = t[i]
      BY <2>3, <2>4, <2>5
    <3> HIDE DEF r
    <3>2. r = t
      BY <2>4, <3>1, SeqEqual
    <3>. QED
      BY <3>2 DEF r
  <2>7. Total(t) = Total(s) + 0
    BY <2>2, TotalAppend DEF t
  <2>. QED
    BY <2>2, <2>6, <2>7 DEF Drift, s
<1>. QED
  BY <1>4, <1>8, <1>9 DEF after, lot

\* A close leaves a restorable side, and its pieces take their part of the drift along.
LEMMA ClosedLots ==
  ASSUME NEW lots \in Seq(LotSet), NEW today \in Int, RestorableSide(today, lots),
         NEW offset, NEW order, offset \in {"CloseToday", "CloseYesterday"} \/ order \in CloseOrders,
         NEW volume \in Nat
  PROVE  LET closed == CloseLots(lots, offset, volume, order) IN
           /\ closed.pieces \in Seq(LotSet) /\ closed.left \in Seq(LotSet)
           /\ RestorableSide(today, closed.left)
           /\ \A dir : Drift(closed.pieces, dir) + Drift(closed.left, dir) = Drift(lots, dir)
<1> DEFINE walked == Consume(lots, Walk(lots, offset, order), volume)
           closed == CloseLots(lots, offset, volume, order)
<1>1. Walk(lots, offset, order) \in Seq(1 .. Len(lots))
  BY WalkPlaces
<1>2. walked \in States(lots) /\ Faithful(lots, walked)
  BY <1>1, ConsumeFaithful
<1>3. closed.pieces = DropEmpty(walked.pieces) /\ closed.left = DropEmpty(walked.left)
  BY DEF CloseLots, Kept
<1> HIDE DEF walked, closed
<1>4. walked.pieces \in Seq(LotSet) /\ walked.left \in Seq(LotSet) /\ Len(walked.left) = Len(lots)
  BY <1>2 DEF States
<1>5. \A i \in 1 .. Len(lots) : SameLot(walked.left[i], lots[i])
  BY <1>2 DEF Faithful
<1>6. RestorableSide(today, closed.left)
  BY <1>3, <1>4, <1>5, DropEmptyRestorable
<1>7. ASSUME NEW dir PROVE Drift(closed.pieces, dir) + Drift(closed.left, dir) = Drift(lots, dir)
  <2>1. Drift(closed.pieces, dir) = Drift(walked.pieces, dir) /\ Drift(closed.left, dir) = Drift(walked.left, dir)
    BY <1>3, <1>4, DropEmptyKeeps
  <2>2. Drift(walked.pieces, dir) + Drift(walked.left, dir) = Drift(lots, dir)
    BY <1>2 DEF Faithful
  <2>. QED
    BY <2>1, <2>2
<1>8. closed.pieces \in Seq(LotSet) /\ closed.left \in Seq(LotSet)
  BY <1>3, <1>4, DropEmptyKeeps
<1>. QED
  BY <1>6, <1>7, <1>8 DEF closed

\* A lot rolled in the evening (lot.go settle).
LEMMA RolledLot ==
  ASSUME NEW lot \in LotSet, NEW price \in Int
  PROVE  LET rolled == [lot EXCEPT !.basis = price, !.settled = TRUE] IN
           /\ rolled \in LotSet /\ rolled.openDay = lot.openDay /\ rolled.openPrice = lot.openPrice
           /\ rolled.volume = lot.volume /\ rolled.basis = price /\ rolled.settled = TRUE
<1> DEFINE based == [lot EXCEPT !.basis = price]
           rolled == [based EXCEPT !.settled = TRUE]
<1>1. based \in LotSet
  BY DEF LotSet
<1>2. based.openDay = lot.openDay /\ based.openPrice = lot.openPrice /\ based.volume = lot.volume /\ based.basis = price
  BY DEF LotSet
<1>3. rolled = [lot EXCEPT !.basis = price, !.settled = TRUE]
  BY Zenon
<1> HIDE DEF based
<1>4. rolled \in LotSet
  BY <1>1 DEF LotSet
<1>5. /\ rolled.openDay = based.openDay /\ rolled.openPrice = based.openPrice
      /\ rolled.volume = based.volume /\ rolled.basis = based.basis
  BY <1>1 DEF LotSet
<1>6. rolled.settled = TRUE
  BY <1>1, Zenon DEF LotSet
<1> HIDE DEF rolled
<1>. QED
  BY <1>2, <1>3, <1>4, <1>5, <1>6, Zenon

\* The evening makes all lots history and adds its profit to the drift (lot.go settle).
LEMMA SettledLots ==
  ASSUME NEW lots \in Seq(LotSet), NEW today \in Int, RestorableSide(today, lots), NEW price \in Nat \ {0}
  PROVE  LET after == SettleAll(lots, price) IN
           /\ after \in Seq(LotSet) /\ RestorableSide(today + 1, after)
           /\ \A dir : Drift(after, dir) = Drift(lots, dir) + ByDate(lots, dir, price)
<1> DEFINE n == Len(lots)
           roll(i) == [lots[i] EXCEPT !.basis = price, !.settled = TRUE]
           after == SettleAll(lots, price)
<1>1. n \in Nat /\ DOMAIN lots = 1 .. n
  OBVIOUS
<1>2. ASSUME NEW i \in 1 .. n
      PROVE  /\ roll(i) \in LotSet /\ lots[i] \in LotSet
             /\ roll(i).openDay = lots[i].openDay /\ roll(i).openPrice = lots[i].openPrice
             /\ roll(i).volume = lots[i].volume /\ roll(i).basis = price
             /\ roll(i).settled = TRUE
  <2> DEFINE lot == lots[i]
             rolled == [lot EXCEPT !.basis = price, !.settled = TRUE]
  <2>1. lot \in LotSet
    BY ElementOfSeq
  <2> HIDE DEF lot
  <2>2. /\ rolled \in LotSet /\ rolled.openDay = lot.openDay /\ rolled.openPrice = lot.openPrice
        /\ rolled.volume = lot.volume /\ rolled.basis = price /\ rolled.settled = TRUE
    <3>1. price \in Int
      OBVIOUS
    <3>. QED
      BY <2>1, <3>1, RolledLot, Zenon
  <2>. QED
    BY <2>1, <2>2, Zenon DEF lot
<1>3. after = [i \in 1 .. n |-> roll(i)]
  BY <1>1, Zenon DEF SettleAll
<1> HIDE DEF roll, after
<1>9. \A i \in 1 .. n : roll(i) \in LotSet
  BY <1>2
<1>4. after \in Seq(LotSet) /\ Len(after) = n /\ DOMAIN after = 1 .. n /\ \A i \in 1 .. n : after[i] = roll(i)
  BY <1>1, <1>3, <1>9
<1>5. ASSUME NEW i \in 1 .. n
      PROVE  /\ after[i].volume > 0
             /\ after[i].openPrice > 0
             /\ after[i].basis > 0
             /\ IF after[i].settled THEN after[i].openDay < today + 1 ELSE after[i].openDay = today + 1
  <2>1. /\ lots[i].volume > 0 /\ lots[i].openPrice > 0
        /\ IF lots[i].settled THEN lots[i].openDay < today ELSE lots[i].openDay = today
    BY <1>1 DEF RestorableSide
  <2>2. lots[i].openDay \in Int
    BY <1>2 DEF LotSet
  <2>3. lots[i].openDay < today + 1
    BY <2>1, <2>2
  <2>4. after[i] = roll(i) /\ price > 0
    BY <1>4
  <2>. QED
    BY <1>2, <2>1, <2>3, <2>4, Zenon
<1>6. \A i \in 1 .. n : after[i].settled
  BY <1>2, <1>4, Zenon
<1>7. RestorableSide(today + 1, after)
  BY <1>4, <1>5, <1>6, Zenon DEF RestorableSide
<1>8. ASSUME NEW dir PROVE Drift(after, dir) = Drift(lots, dir) + ByDate(lots, dir, price)
  <2> DEFINE s == [i \in DOMAIN lots |-> (price - lots[i].openPrice) * lots[i].volume * Sign(dir)]
             t == Drifts(after, dir)
  <2>1. t \in Seq(Int) /\ Len(t) = n /\ \A i \in 1 .. n : t[i] = LotDrift(dir)[after[i]]
    BY <1>4, DriftsSeq
  <2>2. ASSUME NEW i \in 1 .. n PROVE t[i] = (price - lots[i].openPrice) * lots[i].volume * Sign(dir)
    <3>1. LotDrift(dir)[roll(i)] = (roll(i).basis - roll(i).openPrice) * roll(i).volume * Sign(dir)
      BY <1>2 DEF LotDrift
    <3>2. t[i] = LotDrift(dir)[roll(i)]
      BY <1>4, <2>1
    <3> HIDE DEF t
    <3>. QED
      BY <1>2, <3>1, <3>2
  <2>3. DOMAIN t = 1 .. n
    BY <1>1, <2>1
  <2> HIDE DEF t
  <2>4. t = [i \in 1 .. n |-> t[i]]
    BY <2>1, <2>3
  <2>5. s = t
    <3> HIDE DEF s
    <3>1. s = [i \in 1 .. n |-> (price - lots[i].openPrice) * lots[i].volume * Sign(dir)]
      BY <1>1 DEF s
    <3>. QED
      BY <2>2, <2>4, <3>1
  <2>6. ByTrade(lots, dir, price) = Total(s)
    BY Zenon DEF ByTrade
  <2>7. ByTrade(lots, dir, price) = Drift(after, dir)
    BY <2>5, <2>6 DEF Drift, t
  <2>8. /\ ByTrade(lots, dir, price) \in Int /\ ByDate(lots, dir, price) \in Int
        /\ ByTrade(lots, dir, price) - ByDate(lots, dir, price) = Drift(lots, dir)
    BY ProfitsDiffer
  <2>9. Drift(lots, dir) \in Int
    BY DriftsSeq
  <2>. QED
    BY <2>7, <2>8, <2>9
<1>. QED
  BY <1>4, <1>7, <1>8 DEF after

-----------------------------------------------------------------------------
(* Sums over a finite set. *)

\* What holds of the empty set, and of each set with the sets that lack one of its members,
\* holds of all subsets of a finite set.
LEMMA FiniteUpTo ==
  ASSUME NEW S, IsFiniteSet(S), NEW T, {} \in T,
         \A s \in SUBSET S : s # {} /\ (\A x \in s : s \ {x} \in T) => s \in T
  PROVE  \A s \in SUBSET S : s \in T
<1> DEFINE n == Cardinality(S)
           U == {k \in 0 .. n : \A s \in SUBSET S : Cardinality(s) = k => s \in T}
<1>1. n \in Nat /\ \A s \in SUBSET S : IsFiniteSet(s) /\ Cardinality(s) \in 0 .. n
  BY FS_CardinalityType, FS_Subset
<1>2. 0 \in U
  <2>1. \A s \in SUBSET S : Cardinality(s) = 0 => s = {}
    BY <1>1, FS_EmptySet
  <2>. QED
    BY <1>1, <2>1
<1>3. ASSUME NEW k \in 1 .. n, k - 1 \in U PROVE k \in U
  <2>1. ASSUME NEW s \in SUBSET S, Cardinality(s) = k PROVE s \in T
    <3>1. s # {}
      BY <1>1, <2>1, FS_EmptySet
    <3>2. ASSUME NEW x \in s PROVE s \ {x} \in T
      <4>1. Cardinality(s \ {x}) = k - 1 /\ s \ {x} \in SUBSET S
        BY <1>1, <2>1, FS_RemoveElement
      <4>. QED
        BY <1>3, <4>1
    <3>. QED
      BY <3>1, <3>2
  <2>. QED
    BY <2>1
<1> HIDE DEF U
<1>4. \A k \in 0 .. n : k \in U
  BY <1>1, <1>2, <1>3, UpTo
<1>. QED
  BY <1>1, <1>4 DEF U

\* The member a sum takes next.
First(s) == CHOOSE x \in s : TRUE

\* g sums the values of F over each subset of S.
SumsOver(S, F, g) ==
  /\ g \in [SUBSET S -> Int]
  /\ \A s \in SUBSET S : g[s] = IF s = {} THEN 0 ELSE F[First(s)] + g[s \ {First(s)}]

LEMMA FirstIn ==
  ASSUME NEW s, s # {}
  PROVE  First(s) \in s
BY DEF First

\* Such sums exist.
LEMMA SumsOverExist ==
  ASSUME NEW S, IsFiniteSet(S), NEW F \in [S -> Int]
  PROVE  \E g : SumsOver(S, F, g)
<1> DEFINE n == Cardinality(S)
           Step(g, s) == IF s = {} THEN 0 ELSE F[First(s)] + g[s \ {First(s)}]
           UpToSize(g, k) == /\ g \in [SUBSET S -> Int]
                             /\ \A s \in SUBSET S : Cardinality(s) <= k => g[s] = Step(g, s)
           U == {k \in 0 .. n : \E g : UpToSize(g, k)}
<1>1. n \in Nat /\ \A s \in SUBSET S : IsFiniteSet(s) /\ Cardinality(s) \in 0 .. n
  BY FS_CardinalityType, FS_Subset
<1>2. ASSUME NEW s \in SUBSET S, s # {}
      PROVE  /\ F[First(s)] \in Int /\ s \ {First(s)} \in SUBSET S
             /\ Cardinality(s \ {First(s)}) = Cardinality(s) - 1
  <2>1. First(s) \in s
    BY <1>2, FirstIn
  <2>. QED
    BY <1>1, <2>1, FS_RemoveElement
<1>3. 0 \in U
  <2> DEFINE g == [s \in SUBSET S |-> 0]
  <2>1. g \in [SUBSET S -> Int]
    OBVIOUS
  <2>2. ASSUME NEW s \in SUBSET S, Cardinality(s) <= 0 PROVE g[s] = Step(g, s)
    <3>1. s = {}
      BY <1>1, <2>2, FS_EmptySet
    <3>. QED
      BY <3>1
  <2> HIDE DEF g
  <2>3. UpToSize(g, 0)
    BY <2>1, <2>2
  <2> HIDE DEF UpToSize
  <2>. QED
    BY <1>1, <2>3
<1>4. ASSUME NEW k \in 1 .. n, k - 1 \in U PROVE k \in U
  <2>1. PICK g : UpToSize(g, k - 1)
    BY <1>4
  <2> DEFINE h == [s \in SUBSET S |-> Step(g, s)]
  <2>2. ASSUME NEW s \in SUBSET S PROVE Step(g, s) \in Int
    <3>1. CASE s = {}
      BY <3>1
    <3>2. CASE s # {}
      <4>1. F[First(s)] \in Int /\ g[s \ {First(s)}] \in Int
        BY <1>2, <2>1, <3>2
      <4>. QED
        BY <3>2, <4>1
    <3>. QED
      BY <3>1, <3>2
  <2>3. h \in [SUBSET S -> Int]
    BY <2>2
  <2>4. ASSUME NEW s \in SUBSET S, Cardinality(s) <= k PROVE h[s] = Step(h, s)
    <3>1. CASE s = {}
      BY <3>1
    <3>2. CASE s # {}
      <4> DEFINE t == s \ {First(s)}
      <4>1. t \in SUBSET S /\ Cardinality(t) = Cardinality(s) - 1
        BY <1>2, <3>2
      <4>2. Cardinality(t) <= k - 1
        <5>1. Cardinality(s) \in Int
          BY <1>1
        <5>. QED
          BY <2>4, <4>1, <5>1
      <4>3. g[t] = Step(g, t)
        BY <2>1, <4>1, <4>2
      <4>4. h[t] = Step(g, t)
        BY <4>1
      <4>5. h[s] = F[First(s)] + g[t]
        BY <3>2
      <4> HIDE DEF h, t
      <4>. QED
        BY <3>2, <4>3, <4>4, <4>5 DEF t
    <3>. QED
      BY <3>1, <3>2
  <2> HIDE DEF h
  <2>5. UpToSize(h, k)
    BY <2>3, <2>4
  <2> HIDE DEF UpToSize
  <2>. QED
    BY <2>5
<1> HIDE DEF U
<1>5. \A k \in 0 .. n : k \in U
  BY <1>1, <1>3, <1>4, UpTo
<1>6. PICK g : UpToSize(g, n)
  BY <1>1, <1>5 DEF U
<1>7. ASSUME NEW s \in SUBSET S PROVE g[s] = Step(g, s)
  <2>1. Cardinality(s) <= n
    BY <1>1
  <2>. QED
    BY <1>6, <2>1
<1>8. SumsOver(S, F, g)
  BY <1>6, <1>7 DEF SumsOver
<1>. QED
  BY <1>8

\* SumFunction is such a sum.
LEMMA SumIs ==
  ASSUME NEW S, IsFiniteSet(S), NEW F \in [S -> Int]
  PROVE  \E g : SumsOver(S, F, g) /\ SumFunction(F) = g[S]
<1> DEFINE Step(g) == g = [s \in SUBSET S |-> IF s = {} THEN 0
                                              ELSE LET x == First(s) IN F[x] + g[s \ {x}]]
           sum == CHOOSE g : Step(g)
<1>1. PICK h : SumsOver(S, F, h)
  BY SumsOverExist
<1>2. Step(h)
  BY <1>1 DEF SumsOver
<1>3. Step(sum)
  BY <1>2
<1>4. SumFunction(F) = sum[S]
  BY DEF SumFunction, SumFunctionOnSet, FoldFunctionOnSet, MapThenFoldSet, First
<1> HIDE DEF sum
<1>5. \A s \in SUBSET S : sum[s] = IF s = {} THEN 0 ELSE F[First(s)] + sum[s \ {First(s)}]
  BY <1>3
<1>6. sum \in [SUBSET S -> Int]
  <2> DEFINE T == {s \in SUBSET S : sum[s] \in Int}
  <2>0. {} \in SUBSET S
    OBVIOUS
  <2>1. {} \in T
    <3>1. sum[{}] = 0
      BY <1>5, <2>0
    <3>. QED
      BY <2>0, <3>1
  <2>2. ASSUME NEW s \in SUBSET S, s # {}, \A x \in s : s \ {x} \in T PROVE s \in T
    <3>1. First(s) \in s
      BY <2>2, FirstIn
    <3>2. sum[s \ {First(s)}] \in Int /\ F[First(s)] \in Int
      BY <2>2, <3>1
    <3>3. sum[s] = F[First(s)] + sum[s \ {First(s)}]
      BY <1>5, <2>2
    <3>. QED
      BY <3>2, <3>3
  <2> HIDE DEF T
  <2>3. \A s \in SUBSET S : s \in T
    BY <2>1, <2>2, FiniteUpTo
  <2>4. \A s \in SUBSET S : sum[s] \in Int
    BY <2>3 DEF T
  <2>. QED
    BY <1>3, <2>4
<1>7. SumsOver(S, F, sum)
  BY <1>5, <1>6 DEF SumsOver
<1>. QED
  BY <1>4, <1>7

LEMMA SumInt ==
  ASSUME NEW S, IsFiniteSet(S), NEW F \in [S -> Int]
  PROVE  SumFunction(F) \in Int
<1>1. PICK g : SumsOver(S, F, g) /\ SumFunction(F) = g[S]
  BY SumIs
<1>. QED
  BY <1>1 DEF SumsOver

\* A sum of natural numbers is one.
LEMMA SumNat ==
  ASSUME NEW S, IsFiniteSet(S), NEW F \in [S -> Nat]
  PROVE  SumFunction(F) \in Nat
<1>0. F \in [S -> Int]
  OBVIOUS
<1>1. PICK f : SumsOver(S, F, f) /\ SumFunction(F) = f[S]
  BY <1>0, SumIs
<1> DEFINE T == {s \in SUBSET S : f[s] \in Nat}
<1>2. {} \in T
  <2>1. {} \in SUBSET S
    OBVIOUS
  <2>2. f[{}] = 0
    BY <1>1, <2>1 DEF SumsOver
  <2>. QED
    BY <2>1, <2>2
<1>3. ASSUME NEW s \in SUBSET S, s # {}, \A x \in s : s \ {x} \in T PROVE s \in T
  <2> DEFINE x == First(s)
             t == s \ {First(s)}
  <2>1. x \in s /\ x \in S
    BY <1>3, FirstIn
  <2>2. f[t] \in Nat /\ F[x] \in Nat
    BY <1>3, <2>1
  <2>3. f[s] = F[x] + f[t]
    BY <1>1, <1>3 DEF SumsOver
  <2> HIDE DEF x, t
  <2>4. f[s] \in Nat
    BY <2>2, <2>3
  <2>. QED
    BY <2>4
<1> HIDE DEF T
<1>4. \A s \in SUBSET S : s \in T
  BY <1>2, <1>3, FiniteUpTo
<1>5. f[S] \in Nat
  BY <1>4 DEF T
<1>. QED
  BY <1>1, <1>5

\* A sum over two sides is the sum of their sums.
LEMMA SumOfSums ==
  ASSUME NEW S, IsFiniteSet(S), NEW F \in [S -> Int], NEW G \in [S -> Int], NEW H \in [S -> Int],
         \A x \in S : H[x] = F[x] + G[x]
  PROVE  SumFunction(H) = SumFunction(F) + SumFunction(G)
<1>1. PICK f : SumsOver(S, F, f) /\ SumFunction(F) = f[S]
  BY SumIs
<1>2. PICK g : SumsOver(S, G, g) /\ SumFunction(G) = g[S]
  BY SumIs
<1>3. PICK h : SumsOver(S, H, h) /\ SumFunction(H) = h[S]
  BY SumIs
<1> DEFINE T == {s \in SUBSET S : h[s] = f[s] + g[s]}
<1>4. {} \in T
  <2>1. {} \in SUBSET S
    OBVIOUS
  <2>2. f[{}] = 0 /\ g[{}] = 0 /\ h[{}] = 0
    BY <1>1, <1>2, <1>3, <2>1 DEF SumsOver
  <2>. QED
    BY <2>1, <2>2
<1>5. ASSUME NEW s \in SUBSET S, s # {}, \A x \in s : s \ {x} \in T PROVE s \in T
  <2> DEFINE x == First(s)
             t == s \ {First(s)}
  <2>1. x \in s /\ x \in S
    BY <1>5, FirstIn
  <2>2. t \in SUBSET S /\ h[t] = f[t] + g[t]
    BY <1>5, <2>1
  <2>3. f[s] = F[x] + f[t] /\ g[s] = G[x] + g[t] /\ h[s] = H[x] + h[t]
    BY <1>1, <1>2, <1>3, <1>5 DEF SumsOver
  <2>4. f[t] \in Int /\ g[t] \in Int /\ F[x] \in Int /\ G[x] \in Int
    BY <1>1, <1>2, <2>1, <2>2 DEF SumsOver
  <2>5. H[x] = F[x] + G[x]
    BY <2>1
  <2> HIDE DEF x, t
  <2>. QED
    BY <2>2, <2>3, <2>4, <2>5
<1> HIDE DEF T
<1>6. \A s \in SUBSET S : s \in T
  BY <1>4, <1>5, FiniteUpTo
<1>7. h[S] = f[S] + g[S]
  BY <1>6 DEF T
<1>. QED
  BY <1>1, <1>2, <1>3, <1>7

\* Any member may be taken first.
LEMMA SumRest ==
  ASSUME NEW S, IsFiniteSet(S), NEW F \in [S -> Int], NEW a \in S
  PROVE  SumFunction(F) = F[a] + SumFunction([x \in S \ {a} |-> F[x]])
<1> DEFINE R == S \ {a}
           G == [x \in R |-> F[x]]
<1>1. PICK f : SumsOver(S, F, f) /\ SumFunction(F) = f[S]
  BY SumIs
<1>2. IsFiniteSet(R) /\ R \subseteq S /\ G \in [R -> Int]
  BY FS_RemoveElement
<1>3. PICK g : SumsOver(R, G, g) /\ SumFunction(G) = g[R]
  BY <1>2, SumIs
\* The sums without a agree.
<1>4. \A s \in SUBSET R : g[s] = f[s]
  <2> DEFINE T == {s \in SUBSET R : g[s] = f[s]}
  <2>1. {} \in T
    BY <1>1, <1>3 DEF SumsOver
  <2>2. ASSUME NEW s \in SUBSET R, s # {}, \A x \in s : s \ {x} \in T PROVE s \in T
    <3> DEFINE x == First(s)
               t == s \ {First(s)}
    <3>1. x \in s /\ x \in R /\ s \in SUBSET S
      BY <1>2, <2>2, FirstIn
    <3>2. g[t] = f[t]
      BY <2>2, <3>1
    <3>3. f[s] = F[x] + f[t] /\ g[s] = G[x] + g[t]
      BY <1>1, <1>3, <2>2, <3>1 DEF SumsOver
    <3>4. G[x] = F[x]
      BY <3>1
    <3> HIDE DEF x, t, G
    <3>. QED
      BY <3>2, <3>3, <3>4
  <2> HIDE DEF T
  <2>3. \A s \in SUBSET R : s \in T
    BY <1>2, <2>1, <2>2, FiniteUpTo
  <2>. QED
    BY <2>3 DEF T
\* Taking any member out of a set takes its value off the sum.
<1>5. \A s \in SUBSET S : \A b \in s : f[s] = F[b] + f[s \ {b}]
  <2> DEFINE T == {s \in SUBSET S : \A b \in s : f[s] = F[b] + f[s \ {b}]}
  <2>1. {} \in T
    OBVIOUS
  <2>2. ASSUME NEW s \in SUBSET S, s # {}, \A y \in s : s \ {y} \in T PROVE s \in T
    <3> SUFFICES ASSUME NEW b \in s PROVE f[s] = F[b] + f[s \ {b}]
      OBVIOUS
    <3> DEFINE x == First(s)
               t == s \ {First(s)}
               u == s \ {b}
    <3>1. x \in s /\ x \in S /\ t \in SUBSET S /\ u \in SUBSET S
      BY <2>2, FirstIn
    <3>2. f[s] = F[x] + f[t]
      BY <1>1, <2>2 DEF SumsOver
    <3>3. CASE x = b
      BY <3>2, <3>3
    <3>4. CASE x # b
      <4>1. t \in T /\ b \in t
        BY <2>2, <3>1, <3>4
      <4>2. f[t] = F[b] + f[t \ {b}]
        BY <4>1
      <4>3. u \in T /\ x \in u
        BY <2>2, <3>1, <3>4
      <4>4. f[u] = F[x] + f[u \ {x}]
        BY <4>3
      <4>5. t \ {b} = u \ {x}
        OBVIOUS
      <4>6. u \ {x} \in SUBSET S /\ b \in S
        OBVIOUS
      <4>7. f[u \ {x}] \in Int /\ F[x] \in Int /\ F[b] \in Int
        BY <1>1, <3>1, <4>6 DEF SumsOver
      <4> HIDE DEF x, t, u, T
      <4>8. f[s] = F[b] + f[u]
        <5> DEFINE z == f[u \ {x}]
        <5>1. f[t] = F[b] + z /\ f[u] = F[x] + z
          BY <4>2, <4>4, <4>5
        <5>2. z \in Int
          BY <4>7
        <5> HIDE DEF z
        <5>. QED
          BY <3>2, <4>7, <5>1, <5>2
      <4>. QED
        BY <4>8 DEF u
    <3>. QED
      BY <3>3, <3>4
  <2> HIDE DEF T
  <2>3. \A s \in SUBSET S : s \in T
    BY <2>1, <2>2, FiniteUpTo
  <2>. QED
    BY <2>3 DEF T
<1>6. f[S] = F[a] + f[R]
  BY <1>5
<1>7. g[R] = f[R]
  BY <1>4
<1>. QED
  BY <1>1, <1>3, <1>6, <1>7

\* What a adds to the sum of G is what F has for it.
SumsDiffer(F, G, S, a) ==
  /\ a \in S => SumFunction(F) = SumFunction(G) + F[a]
  /\ a \notin S => SumFunction(F) = SumFunction(G)

\* A sum with one more member, or without one.
LEMMA SumWithout ==
  ASSUME NEW S, IsFiniteSet(S), NEW F \in [S -> Int], NEW a, NEW R, R = S \ {a},
         NEW G \in [R -> Int], \A x \in R : G[x] = F[x]
  PROVE  SumsDiffer(F, G, S, a)
<1> SUFFICES /\ a \in S => SumFunction(F) = SumFunction(G) + F[a]
             /\ a \notin S => SumFunction(F) = SumFunction(G)
  BY DEF SumsDiffer
<1>1. CASE a \in S
  <2>1. G = [x \in S \ {a} |-> F[x]]
    OBVIOUS
  <2>2. SumFunction(F) = F[a] + SumFunction([x \in S \ {a} |-> F[x]])
    BY <1>1, SumRest
  <2>3. F[a] \in Int /\ SumFunction(G) \in Int
    BY <1>1, FS_RemoveElement, SumInt
  <2>. QED
    BY <1>1, <2>1, <2>2, <2>3
<1>2. CASE a \notin S
  <2>1. G = F
    BY <1>2
  <2>2. SumFunction(F) \in Int
    BY SumInt
  <2>. QED
    BY <1>2, <2>1, <2>2
<1>. QED
  BY <1>1, <1>2

\* A sum in which one member's value has changed.
LEMMA SumChanged ==
  ASSUME NEW S, IsFiniteSet(S), NEW F \in [S -> Int], NEW G \in [S -> Int], NEW a \in S,
         \A x \in S : x # a => G[x] = F[x]
  PROVE  SumFunction(G) = SumFunction(F) - F[a] + G[a]
<1> DEFINE H == [x \in S \ {a} |-> F[x]]
<1>1. H = [x \in S \ {a} |-> G[x]]
  OBVIOUS
<1>2. SumFunction(F) = F[a] + SumFunction(H) /\ SumFunction(G) = G[a] + SumFunction(H)
  BY <1>1, SumRest
<1>3. H \in [S \ {a} -> Int] /\ IsFiniteSet(S \ {a})
  BY FS_RemoveElement
<1>4. SumFunction(H) \in Int /\ F[a] \in Int /\ G[a] \in Int
  BY <1>3, SumInt
<1> HIDE DEF H
<1>. QED
  BY <1>2, <1>4

-----------------------------------------------------------------------------
(* The lots of a side, from PositionProofs. *)

LEMMA SidesFinite == IsFiniteSet(Sides)
<1>1. IsFiniteSet(Directions)
  <2>1. Directions = ({} \cup {"Buy"}) \cup {"Sell"}
    BY DEF Directions
  <2>2. IsFiniteSet({} \cup {"Buy"})
    BY FS_EmptySet, FS_AddElement
  <2>. QED
    BY <2>1, <2>2, FS_AddElement
<1>. QED
  BY <1>1, InstrumentsFinite, FS_Product DEF Sides

\* The two profits of lots are numbers, and their difference is the drift (pnl/pnl.go).
LEMMA ProfitsPart ==
  ASSUME NEW lots \in Seq(LotSet), NEW dir, NEW price \in Int
  PROVE  /\ ByTrade(lots, dir, price) \in Int /\ ByDate(lots, dir, price) \in Int
         /\ Drift(lots, dir) \in Int
         /\ ByTrade(lots, dir, price) = ByDate(lots, dir, price) + Drift(lots, dir)
<1>1. /\ ByTrade(lots, dir, price) \in Int /\ ByDate(lots, dir, price) \in Int
      /\ ByTrade(lots, dir, price) - ByDate(lots, dir, price) = Drift(lots, dir)
  BY ProfitsDiffer
<1>2. Drift(lots, dir) \in Int
  BY DriftsSeq
<1>. QED
  BY <1>1, <1>2

\* What a closing trade takes, its history lots before today's (trade.go ApplyTrade).
LEMMA TakenLots ==
  ASSUME NEW s, NEW tr, NEW today \in Int,
         s.positions[tr.inst][Opposite(tr.dir)] \in Seq(LotSet),
         RestorableSide(today, s.positions[tr.inst][Opposite(tr.dir)]),
         tr.volume \in Nat, HistoryPart(s, tr) \in 0 .. tr.volume
  PROVE  LET lots  == s.positions[tr.inst][Opposite(tr.dir)]
             taken == TakenBy(s, tr)
         IN  /\ taken.pieces \in Seq(LotSet) /\ taken.left \in Seq(LotSet)
             /\ RestorableSide(today, taken.left)
             /\ \A dir : Drift(taken.pieces, dir) + Drift(taken.left, dir) = Drift(lots, dir)
<1> DEFINE lots == s.positions[tr.inst][Opposite(tr.dir)]
           h == HistoryPart(s, tr)
           first == CloseLots(lots, "CloseYesterday", h, "Unmeasured")
           second == CloseLots(first.left, "CloseToday", tr.volume - h, "Unmeasured")
           taken == [pieces |-> first.pieces \o second.pieces, left |-> second.left]
<1>1. h \in Nat /\ tr.volume - h \in Nat
  OBVIOUS
<1>2. TakenBy(s, tr) = taken
  BY DEF TakenBy, ThenToday
<1> HIDE DEF h
<1>3. /\ first.pieces \in Seq(LotSet) /\ first.left \in Seq(LotSet)
      /\ RestorableSide(today, first.left)
      /\ \A dir : Drift(first.pieces, dir) + Drift(first.left, dir) = Drift(lots, dir)
  <2> HIDE DEF lots
  <2>1. lots \in Seq(LotSet) /\ RestorableSide(today, lots)
    BY DEF lots
  <2>. QED
    BY <1>1, <2>1, ClosedLots
<1> HIDE DEF first
<1>4. /\ second.pieces \in Seq(LotSet) /\ second.left \in Seq(LotSet)
      /\ RestorableSide(today, second.left)
      /\ \A dir : Drift(second.pieces, dir) + Drift(second.left, dir) = Drift(first.left, dir)
  BY <1>1, <1>3, ClosedLots
<1> HIDE DEF second, lots
<1>5. taken.pieces = first.pieces \o second.pieces /\ taken.left = second.left
  OBVIOUS
<1> HIDE DEF taken
<1>6. taken.pieces \in Seq(LotSet)
  BY <1>3, <1>4, <1>5, DriftJoined
<1>7. ASSUME NEW dir PROVE Drift(taken.pieces, dir) + Drift(taken.left, dir) = Drift(lots, dir)
  <2>1. Drift(taken.pieces, dir) = Drift(first.pieces, dir) + Drift(second.pieces, dir)
    BY <1>3, <1>4, <1>5, DriftJoined
  <2>2. /\ Drift(first.pieces, dir) \in Int /\ Drift(second.pieces, dir) \in Int
        /\ Drift(second.left, dir) \in Int
    BY <1>3, <1>4, ProfitsPart
  <2>. QED
    BY <1>3, <1>4, <1>5, <2>1, <2>2
<1>. QED
  BY <1>2, <1>4, <1>5, <1>6, <1>7 DEF lots

\* A trade that opens adds to today's lots (position.go Open).
LEMMA OpenedByTrade ==
  ASSUME NEW lots \in Seq(LotSet), NEW today \in Int, NEW price \in Nat \ {0}, NEW volume \in Nat \ {0}
  PROVE  LET after == Append(lots, Lot(today, price, volume, price, FALSE)) IN
           /\ VolumeToday(after) = VolumeToday(lots) + volume
           /\ VolumeHistory(after) = VolumeHistory(lots)
<1> DEFINE lot == Lot(today, price, volume, price, FALSE)
<1>1. lot \in LotSet /\ lot.volume = volume /\ ~lot.settled
  BY DEF Lot, LotSet
<1> HIDE DEF lot
<1>2. LET after == Append(lots, lot) IN
        /\ VolumeToday(after) = VolumeToday(lots) + lot.volume
        /\ VolumeHistory(after) = VolumeHistory(lots)
  BY <1>1, OpenedToday
<1>. QED
  BY <1>1, <1>2 DEF lot

\* What a closing trade leaves of each kind (trade.go ApplyTrade).
LEMMA TakenVolumes ==
  ASSUME NEW s, NEW tr,
         s.positions[tr.inst][Opposite(tr.dir)] \in Seq(LotSet),
         tr.volume \in Nat, HistoryPart(s, tr) \in 0 .. tr.volume,
         HistoryPart(s, tr) <= VolumeHistory(s.positions[tr.inst][Opposite(tr.dir)]),
         tr.volume - HistoryPart(s, tr) <= VolumeToday(s.positions[tr.inst][Opposite(tr.dir)])
  PROVE  LET lots == s.positions[tr.inst][Opposite(tr.dir)]
             left == TakenBy(s, tr).left
         IN  /\ VolumeToday(left) = VolumeToday(lots) - (tr.volume - HistoryPart(s, tr))
             /\ VolumeHistory(left) = VolumeHistory(lots) - HistoryPart(s, tr)
<1> DEFINE lots == s.positions[tr.inst][Opposite(tr.dir)]
           h == HistoryPart(s, tr)
           t == tr.volume - h
           first == CloseLots(lots, "CloseYesterday", h, "Unmeasured").left
           second == CloseLots(first, "CloseToday", t, "Unmeasured").left
<1>1. h \in Nat /\ t \in Nat /\ lots \in Seq(LotSet) /\ h <= VolumeHistory(lots) /\ t <= VolumeToday(lots)
  OBVIOUS
<1>2. TakenBy(s, tr).left = second
  BY DEF TakenBy, ThenToday
<1> HIDE DEF h, t, lots
<1>3. first \in Seq(LotSet) /\ VolumeToday(first) = VolumeToday(lots)
      /\ VolumeHistory(first) = VolumeHistory(lots) - h
  BY <1>1, ClosedByOffset
<1> HIDE DEF first
<1>4. VolumeToday(second) = VolumeToday(first) - t /\ VolumeHistory(second) = VolumeHistory(first)
  BY <1>1, <1>3, ClosedByOffset
<1>. QED
  BY <1>2, <1>3, <1>4 DEF h, t, lots

-----------------------------------------------------------------------------
(* The account. *)

LEMMA BalanceIs ==
  ASSUME NEW a, AccountTyped(a)
  PROVE  /\ BookedMoney(a) \in Int
         /\ A!Balance(a) = BookedMoney(a) + a.positionProfit
BY DEF AccountTyped, BookedMoney, A!Balance, A!StaticBalance

\* An account of an archive, or a new one.
LEMMA ArchiveTyped ==
  ASSUME NEW a \in A!ArchiveType
  PROVE  AccountTyped(a)
BY DEF A!ArchiveType, A!AccountOf, AccountTyped, AccountFields

\* Money in and out (account.go Deposit, Withdraw).
LEMMA MoneyFlows ==
  ASSUME NEW a, AccountTyped(a), NEW amount \in Int
  PROVE  /\ AccountTyped(A!Deposited(a, amount)) /\ AccountTyped(A!Withdrawn(a, amount))
         /\ BookedMoney(A!Deposited(a, amount)) = BookedMoney(a) + amount
         /\ BookedMoney(A!Withdrawn(a, amount)) = BookedMoney(a) - amount
         /\ A!Deposited(a, amount).positionProfit = a.positionProfit
         /\ A!Withdrawn(a, amount).positionProfit = a.positionProfit
<1>1. AccountTyped(A!Deposited(a, amount)) /\ AccountTyped(A!Withdrawn(a, amount))
  BY DEF AccountTyped, AccountFields, A!Deposited, A!Withdrawn
<1>. QED
  BY <1>1 DEF AccountTyped, AccountFields, A!Deposited, A!Withdrawn, BookedMoney, A!StaticBalance

\* Freezing and releasing do not touch the balance (account.go Freeze, Unfreeze).
LEMMA FreezesAside ==
  ASSUME NEW a, AccountTyped(a), NEW margin, NEW commission
  PROVE  /\ AccountTyped(A!WithFrozen(a, margin, commission))
         /\ AccountTyped(A!WithoutFrozen(a, margin, commission))
         /\ BookedMoney(A!WithFrozen(a, margin, commission)) = BookedMoney(a)
         /\ BookedMoney(A!WithoutFrozen(a, margin, commission)) = BookedMoney(a)
         /\ A!WithFrozen(a, margin, commission).positionProfit = a.positionProfit
         /\ A!WithoutFrozen(a, margin, commission).positionProfit = a.positionProfit
BY DEF AccountTyped, AccountFields, A!WithFrozen, A!WithoutFrozen, BookedMoney, A!StaticBalance

\* A trade's fee and profit (account.go ChargeCommission, AddCloseProfit).
LEMMA TradeBooked ==
  ASSUME NEW a, AccountTyped(a), NEW fee \in Int, NEW atSettle \in Int, NEW profit \in Int
  PROVE  LET after == A!WithCloseProfit(A!Charged(a, fee, atSettle), profit) IN
           /\ AccountTyped(after)
           /\ BookedMoney(after) = BookedMoney(a) - fee + profit
<1> DEFINE charged == A!Charged(a, fee, atSettle)
           after == A!WithCloseProfit(charged, profit)
<1>1. /\ DOMAIN charged = AccountFields
      /\ charged.preBalance = a.preBalance /\ charged.deposit = a.deposit
      /\ charged.withdraw = a.withdraw /\ charged.closeProfit = a.closeProfit
      /\ charged.commission = a.commission + fee
      /\ charged.settleCommission = a.settleCommission + atSettle
      /\ charged.positionProfit = a.positionProfit
  BY DEF AccountTyped, AccountFields, A!Charged
<1> HIDE DEF charged
<1>2. AccountTyped(charged)
  BY <1>1 DEF AccountTyped
<1>3. AccountTyped(after) /\ BookedMoney(after) = BookedMoney(charged) + profit
  BY <1>2 DEF AccountTyped, AccountFields, A!WithCloseProfit, BookedMoney, A!StaticBalance
<1>4. BookedMoney(charged) = BookedMoney(a) - fee
  BY <1>1 DEF BookedMoney, A!StaticBalance, AccountTyped
<1>5. BookedMoney(a) \in Int
  BY BalanceIs
<1>. QED
  BY <1>3, <1>4, <1>5 DEF charged

\* What a valuation tells (account.go SetMargin, SetPositionProfit).
LEMMA ValuationTold ==
  ASSUME NEW a, AccountTyped(a), NEW margin, NEW profit \in Int
  PROVE  LET after == WithValuation(a, margin, profit) IN
           /\ AccountTyped(after) /\ after.positionProfit = profit
           /\ BookedMoney(after) = BookedMoney(a)
           /\ after.commission = a.commission /\ after.settleCommission = a.settleCommission
BY DEF AccountTyped, AccountFields, WithValuation, A!WithPositionProfit, A!WithMargin, BookedMoney,
       A!StaticBalance

\* The balance of the evening, at the settlement's fees, begins the next day (account.go Settle).
LEMMA EveningBooked ==
  ASSUME NEW a, AccountTyped(a)
  PROVE  /\ AccountTyped(A!SettledAccount(a))
         /\ BookedMoney(A!SettledAccount(a)) = A!Balance(a) + a.commission - a.settleCommission
<1> DEFINE fresh == A!NewAccount(A!Balance(a) + a.commission - a.settleCommission, a.algorithm)
           after == A!SettledAccount(a)
<1>1. A!Balance(a) + a.commission - a.settleCommission \in Int
  BY BalanceIs DEF AccountTyped
<1>2. AccountTyped(fresh) /\ BookedMoney(fresh) = A!Balance(a) + a.commission - a.settleCommission
  BY <1>1 DEF AccountTyped, AccountFields, A!NewAccount, BookedMoney, A!StaticBalance
<1>3. after = [fresh EXCEPT !.currMargin = a.currMargin, !.exchangeMargin = a.exchangeMargin]
  BY DEF A!SettledAccount
<1> HIDE DEF fresh, after
<1>. QED
  BY <1>2, <1>3 DEF AccountTyped, AccountFields, BookedMoney, A!StaticBalance, after

-----------------------------------------------------------------------------
(* Trades, their fees and how a close is divided. *)

\* Dating an offset and rewriting a request change the offset only (submit.go, request_rewrite.go).
LEMMA DatedTyped ==
  ASSUME NEW tr \in TradeType
  PROVE  /\ DatedTrade(tr) \in TradeType /\ Rewritten(tr) \in TradeType
         /\ DatedTrade(tr).inst = tr.inst /\ DatedTrade(tr).dir = tr.dir
         /\ DatedTrade(tr).price = tr.price /\ DatedTrade(tr).volume = tr.volume
<1>1. Dated(tr.inst, tr.offset) \in Offsets
  BY DEF Dated, TradeType, Offsets
<1>2. DatedTrade(tr) \in TradeType
  BY <1>1 DEF DatedTrade, TradeType
<1>3. Rewritten(tr) \in TradeType
  BY DEF Rewritten, TradeType, Offsets
<1>. QED
  BY <1>2, <1>3 DEF DatedTrade, TradeType

\* A close takes from a side (types/enums.go Opposite).
LEMMA OppositeIn ==
  ASSUME NEW dir \in Directions
  PROVE  Opposite(dir) \in Directions
BY DEF Opposite, Directions

\* The lesser of two numbers.
LEMMA MinOfTwo ==
  ASSUME NEW x \in Int, NEW y \in Int
  PROVE  Min({x, y}) = IF x <= y THEN x ELSE y
<1>1. \E z \in {x, y} : \A w \in {x, y} : z <= w
  OBVIOUS
<1>2. Min({x, y}) \in {x, y} /\ \A w \in {x, y} : Min({x, y}) <= w
  BY <1>1 DEF Min
<1>. QED
  BY <1>2

\* The larger of two numbers.
LEMMA MaxOfTwo ==
  ASSUME NEW x \in Int, NEW y \in Int
  PROVE  Max({x, y}) = IF x >= y THEN x ELSE y
<1>1. \E z \in {x, y} : \A w \in {x, y} : z >= w
  OBVIOUS
<1>2. Max({x, y}) \in {x, y} /\ \A w \in {x, y} : Max({x, y}) >= w
  BY <1>1 DEF Max
<1>. QED
  BY <1>2

\* As many of the lots wanted as there are.
LEMMA LeastWanted ==
  ASSUME NEW volume \in Nat, NEW there \in Int
  PROVE  Min({volume, Max({there, 0})}) =
           IF there <= 0 THEN 0 ELSE IF volume <= there THEN volume ELSE there
<1>1. Max({there, 0}) = IF there >= 0 THEN there ELSE 0
  BY MaxOfTwo
<1>2. Max({there, 0}) \in Int
  BY <1>1
<1>3. Min({volume, Max({there, 0})}) = IF volume <= Max({there, 0}) THEN volume ELSE Max({there, 0})
  BY <1>2, MinOfTwo
<1>. QED
  BY <1>1, <1>3

\* Rounding an amount gives an amount (decimalx.go).
LEMMA RoundedInt ==
  ASSUME NEW x \in Int
  PROVE  Rounded(x) \in Int /\ HalfUpToCent(x) \in Int
<1>1. Cent \in Int /\ Cent > 0 /\ 2 * Cent > 0
  BY CentPositive
<1>2. x \div Cent \in Int /\ (2 * x + Cent) \div (2 * Cent) \in Int
  BY <1>1
<1>3. HalfUpToCent(x) \in Int /\ TruncateToCent(x) \in Int
  BY <1>1, <1>2 DEF HalfUpToCent, TruncateToCent
<1>. QED
  BY <1>3, FeeChoices DEF Rounded

\* A segment's two fees are numbers (fee.go Parts).
LEMMA SegmentInt ==
  ASSUME NEW rate \in [byMoney : Nat, byVolume : Nat], NEW price \in Int, NEW volume \in Int
  PROVE  Segment(rate, price, volume).fee \in Int /\ Segment(rate, price, volume).atSettle \in Int
<1>1. rate.byMoney \in Int /\ rate.byVolume \in Int
  OBVIOUS
<1> DEFINE money == Money(rate, price, volume)
           lots == PerLot(rate, volume)
<1>2. money \in Int /\ lots \in Int
  BY <1>1 DEF Money, PerLot
<1> HIDE DEF money, lots
<1>3. money + lots \in Int
  BY <1>2
<1>4. Rounded(money + lots) \in Int /\ HalfUpToCent(money) \in Int
  BY <1>2, <1>3, RoundedInt
<1>. QED
  BY <1>2, <1>4 DEF Segment, money, lots

\* A trade's fees are numbers, and no more of its lots than it has are today's (trade.go commission).
LEMMA ChargeTyped ==
  ASSUME NEW s, NEW tr \in TradeType,
         s.quotas[tr.inst][Opposite(tr.dir)] \in QuotaType,
         s.prices[tr.inst] \in [last : Nat, pre : Nat]
  PROVE  /\ Charge(s, tr).fee \in Int /\ Charge(s, tr).atSettle \in Int
         /\ Charge(s, tr).todayLots \in 0 .. tr.volume
<1> DEFINE fee == Contract[tr.inst].fee
           price == FeePrice(s, tr)
           today == TodayLots(s, tr)
<1>1. tr.volume \in Nat /\ tr.inst \in Instruments /\ tr.price \in Int /\ tr.offset \in Offsets
  BY DEF TradeType
<1>2. \A o \in {"Open", "Close", "CloseToday"} : fee[o] \in [byMoney : Nat, byVolume : Nat]
  BY <1>1, ContractTyped
<1>3. price \in Int
  BY <1>1 DEF FeePrice, BasisPrice
<1>4. today \in 0 .. tr.volume
  <2> DEFINE there == QuotaOf(s, tr).opened - QuotaOf(s, tr).charged
             volume == tr.volume
  <2>1. there \in Int /\ volume \in Nat
    BY <1>1 DEF QuotaOf, QuotaType
  <2>2. today = Min({volume, Max({there, 0})})
    BY DEF TodayLots, TodayTierLots, LotsAtToday
  <2> HIDE DEF there, volume, today
  <2>3. today = IF there <= 0 THEN 0 ELSE IF volume <= there THEN volume ELSE there
    BY <2>1, <2>2, LeastWanted
  <2>4. today \in 0 .. volume
    BY <2>1, <2>3
  <2>. QED
    BY <2>4 DEF volume
<1> HIDE DEF fee, price, today
<1>5. CASE tr.offset = "Close"
  <2> DEFINE lots == IF fee["Close"] = fee["CloseToday"] THEN 0 ELSE today
             a == Segment(fee["CloseToday"], price, lots)
             b == Segment(fee["Close"], price, tr.volume - lots)
  <2>1. lots \in 0 .. tr.volume
    BY <1>1, <1>4
  <2>2. Charge(s, tr) = [fee |-> a.fee + b.fee, atSettle |-> a.atSettle + b.atSettle, todayLots |-> lots]
    BY <1>5 DEF Charge, FeeOf, UndatedCharge, Split, BothSegments, fee, price, today
  <2> HIDE DEF lots
  <2>3. lots \in Int /\ tr.volume - lots \in Int
    BY <1>1, <2>1
  <2>4. a.fee \in Int /\ a.atSettle \in Int /\ b.fee \in Int /\ b.atSettle \in Int
    BY <1>2, <1>3, <2>3, SegmentInt
  <2> HIDE DEF a, b
  <2>. QED
    BY <2>1, <2>2, <2>4
<1>6. CASE tr.offset # "Close"
  <2> DEFINE o == CASE tr.offset = "CloseYesterday" -> "Close" [] OTHER -> tr.offset
             lots == IF tr.offset = "CloseToday" THEN tr.volume ELSE 0
             a == Segment(fee[o], price, tr.volume)
  <2>1. o \in {"Open", "Close", "CloseToday"} /\ lots \in 0 .. tr.volume
    BY <1>1, <1>6 DEF Offsets
  <2>2. Charge(s, tr) = [fee |-> a.fee, atSettle |-> a.atSettle, todayLots |-> lots]
    BY <1>6 DEF Charge, FeeOf, fee, price, today
  <2> HIDE DEF o, lots
  <2>3. a.fee \in Int /\ a.atSettle \in Int
    BY <1>1, <1>2, <1>3, <2>1, SegmentInt
  <2> HIDE DEF a
  <2>. QED
    BY <2>1, <2>2, <2>3
<1>. QED
  BY <1>5, <1>6

-----------------------------------------------------------------------------
(* The simulator. *)

LEMMA DriftInt ==
  ASSUME NEW lots \in Seq(LotSet), NEW dir
  PROVE  Drift(lots, dir) \in Int
<1>1. 0 \in Int
  OBVIOUS
<1>. QED
  BY <1>1, ProfitsPart

LEMMA CarriedInt ==
  ASSUME NEW today, NEW positions, PositionsTyped(today, positions)
  PROVE  Carried(positions) \in Int
<1> DEFINE F == [x \in Sides |-> Drift(positions[x[1]][x[2]], x[2])]
<1>1. ASSUME NEW x \in Sides PROVE Drift(positions[x[1]][x[2]], x[2]) \in Int
  <2>1. positions[x[1]][x[2]] \in Seq(LotSet)
    BY DEF PositionsTyped, Sides
  <2>. QED
    BY <2>1, DriftInt
<1>2. F \in [Sides -> Int]
  BY <1>1
<1>3. SumFunction(F) \in Int
  BY <1>2, SidesFinite, SumInt
<1>. QED
  BY <1>3 DEF Carried

\* The price held lots are marked at is a number.
LEMMA MarkPriceInt ==
  ASSUME NEW prices \in PricesType, NEW i \in Instruments
  PROVE  MarkPrice(prices[i]) \in Int
BY DEF PricesType, MarkPrice

LEMMA ProfitInt ==
  ASSUME NEW today, NEW positions, PositionsTyped(today, positions), NEW prices \in PricesType
  PROVE  Profit(positions, prices) \in Int
<1> DEFINE F == [x \in Sides |-> ByDate(positions[x[1]][x[2]], x[2], MarkPrice(prices[x[1]]))]
<1>1. ASSUME NEW x \in Sides PROVE ByDate(positions[x[1]][x[2]], x[2], MarkPrice(prices[x[1]])) \in Int
  <2>1. positions[x[1]][x[2]] \in Seq(LotSet) /\ x[1] \in Instruments
    BY DEF PositionsTyped, Sides
  <2>2. MarkPrice(prices[x[1]]) \in Int
    BY <2>1, MarkPriceInt
  <2>. QED
    BY <2>1, <2>2, ProfitsPart
<1>2. F \in [Sides -> Int]
  BY <1>1
<1>3. SumFunction(F) \in Int
  BY <1>2, SidesFinite, SumInt
<1>. QED
  BY <1>3 DEF Profit

\* One side changes and the others stay.
LEMMA OneSideChanged ==
  ASSUME NEW today, NEW positions, PositionsTyped(today, positions),
         NEW i \in Instruments, NEW dir \in Directions,
         NEW lots \in Seq(LotSet), RestorableSide(today, lots)
  PROVE  LET after == [positions EXCEPT ![i][dir] = lots] IN
           /\ PositionsTyped(today, after)
           /\ Carried(after) = Carried(positions) - Drift(positions[i][dir], dir) + Drift(lots, dir)
<1> DEFINE after == [positions EXCEPT ![i][dir] = lots]
           F == [x \in Sides |-> Drift(positions[x[1]][x[2]], x[2])]
           G == [x \in Sides |-> Drift(after[x[1]][x[2]], x[2])]
           a == <<i, dir>>
<1>1. PositionsTyped(today, after)
  BY DEF PositionsTyped
<1>2. \A x \in Sides : /\ positions[x[1]][x[2]] \in Seq(LotSet) /\ after[x[1]][x[2]] \in Seq(LotSet)
  BY <1>1 DEF PositionsTyped, Sides
<1>3. F \in [Sides -> Int] /\ G \in [Sides -> Int]
  <2>1. ASSUME NEW x \in Sides
        PROVE  /\ Drift(positions[x[1]][x[2]], x[2]) \in Int
               /\ Drift(after[x[1]][x[2]], x[2]) \in Int
    <3> HIDE DEF after
    <3>. QED
      BY <1>2, DriftInt
  <2> HIDE DEF after
  <2>. QED
    BY <2>1
<1>4. a \in Sides /\ F[a] = Drift(positions[i][dir], dir) /\ G[a] = Drift(lots, dir)
  <2>1. a \in Sides /\ a[1] = i /\ a[2] = dir
    BY DEF Sides
  <2>2. after[i][dir] = lots
    BY DEF PositionsTyped
  <2> HIDE DEF after, a
  <2>. QED
    BY <2>1, <2>2
<1>5. \A x \in Sides : x # a => G[x] = F[x]
  <2> SUFFICES ASSUME NEW x \in Sides, x # a PROVE G[x] = F[x]
    OBVIOUS
  <2>1. x[1] \in Instruments /\ x[2] \in Directions /\ (x[1] # i \/ x[2] # dir)
    BY DEF Sides
  <2>2. after[x[1]][x[2]] = positions[x[1]][x[2]]
    BY <2>1 DEF PositionsTyped
  <2> HIDE DEF after
  <2>. QED
    BY <2>2
<1> HIDE DEF F, G, a
<1>6. SumFunction(G) = SumFunction(F) - F[a] + G[a]
  BY <1>3, <1>4, <1>5, SidesFinite, SumChanged
<1>7. Carried(positions) = SumFunction(F) /\ Carried(after) = SumFunction(G)
  BY DEF Carried, F, G
<1> HIDE DEF after
<1>. QED
  BY <1>1, <1>4, <1>6, <1>7 DEF after

\* An order that closes lots of this side.
Closes(order, i, held) == order.inst = i /\ order.offset # "Open" /\ Opposite(order.dir) = held

Closing(book, i, held) == {id \in B!IDs(book) : Closes(book.live[id].order, i, held)}

TodayOf(book, i, held) == [id \in Closing(book, i, held) |-> book.live[id].order.today]
HistoryOf(book, i, held) == [id \in Closing(book, i, held) |-> book.live[id].order.history]

LEMMA FrozenIs ==
  ASSUME NEW book, NEW i, NEW held
  PROVE  /\ FrozenOf(book, i, held).today = SumFunction(TodayOf(book, i, held))
         /\ FrozenOf(book, i, held).history = SumFunction(HistoryOf(book, i, held))
BY DEF FrozenOf, Closing, Closes, TodayOf, HistoryOf

LEMMA ClosingTyped ==
  ASSUME NEW book, BookTyped(book), NEW i, NEW held
  PROVE  /\ IsFiniteSet(Closing(book, i, held))
         /\ TodayOf(book, i, held) \in [Closing(book, i, held) -> Int]
         /\ HistoryOf(book, i, held) \in [Closing(book, i, held) -> Int]
<1>1. Closing(book, i, held) \subseteq B!IDs(book)
  BY DEF Closing
<1>2. IsFiniteSet(Closing(book, i, held))
  BY <1>1, FS_Subset DEF BookTyped
<1>3. \A id \in Closing(book, i, held) :
        book.live[id].order.today \in Int /\ book.live[id].order.history \in Int
  BY <1>1 DEF BookTyped, OrderTyped
<1>. QED
  BY <1>2, <1>3 DEF TodayOf, HistoryOf

\* What live orders have frozen of a side's lots is a number.
LEMMA FrozenInt ==
  ASSUME NEW book, BookTyped(book), NEW i, NEW held
  PROVE  FrozenOf(book, i, held).today \in Int /\ FrozenOf(book, i, held).history \in Int
BY FrozenIs, ClosingTyped, SumInt

\* A close is divided into history lots and today's (trade.go undatedSplit).
LEMMA DividedClose ==
  ASSUME NEW today, NEW s, SimTyped(today, s), NEW tr \in TradeType
  PROVE  HistoryPart(s, tr) \in 0 .. tr.volume
<1> DEFINE there == VolumeHistory(s.positions[tr.inst][Opposite(tr.dir)])
                      - FrozenOf(s.book, tr.inst, Opposite(tr.dir)).history
<1>1. tr.volume \in Nat /\ tr.inst \in Instruments /\ Opposite(tr.dir) \in Directions
  BY OppositeIn DEF TradeType
<1>2. there \in Int
  <2>1. s.positions[tr.inst][Opposite(tr.dir)] \in Seq(LotSet)
    BY <1>1 DEF SimTyped, PositionsTyped
  <2>2. VolumeHistory(s.positions[tr.inst][Opposite(tr.dir)]) \in Int
    BY <2>1, VolumesNat
  <2>3. FrozenOf(s.book, tr.inst, Opposite(tr.dir)).history \in Int
    BY FrozenInt DEF SimTyped
  <2>. QED
    BY <2>2, <2>3
<1>3. ToHistory(s, tr.inst, Opposite(tr.dir), tr.volume) = Min({tr.volume, Max({there, 0})})
  BY DEF ToHistory
<1> HIDE DEF there
<1>4. ToHistory(s, tr.inst, Opposite(tr.dir), tr.volume) \in 0 .. tr.volume
  BY <1>1, <1>2, <1>3, LeastWanted
<1>5. CASE tr.offset = "CloseYesterday"
  BY <1>1, <1>5 DEF HistoryPart
<1>6. CASE tr.offset = "Close"
  BY <1>4, <1>6 DEF HistoryPart
<1>7. CASE tr.offset \notin {"Close", "CloseYesterday"}
  BY <1>1, <1>7 DEF HistoryPart
<1>. QED
  BY <1>5, <1>6, <1>7

\* The quotas a trade books stay counters (quota.go bookQuota).
LEMMA QuotasBooked ==
  ASSUME NEW s, s.quotas \in QuotasType, NEW tr \in TradeType, NEW todayLots \in Nat
  PROVE  Booked(s, tr, todayLots) \in QuotasType
<1>1. tr.inst \in Instruments /\ tr.dir \in Directions /\ Opposite(tr.dir) \in Directions /\ tr.volume \in Nat
  BY OppositeIn DEF TradeType
<1>2. ASSUME NEW q \in QuotaType, NEW more \in Nat
      PROVE  /\ [q EXCEPT !.opened = @ + tr.volume] \in QuotaType
             /\ [opened |-> q.opened, charged |-> q.charged + todayLots, explicit |-> q.explicit + more] \in QuotaType
  BY <1>1 DEF QuotaType
<1>3. ASSUME NEW i \in Instruments, NEW dir \in Directions, NEW q \in QuotaType
      PROVE  [s.quotas EXCEPT ![i][dir] = q] \in QuotasType
  BY <1>3 DEF QuotasType
<1>4. CASE tr.offset = "Open"
  <2> DEFINE q == [s.quotas[tr.inst][tr.dir] EXCEPT !.opened = @ + tr.volume]
  <2>1. s.quotas[tr.inst][tr.dir] \in QuotaType
    BY <1>1 DEF QuotasType
  <2>2. q \in QuotaType
    BY <1>2, <2>1, 0 \in Nat
  <2>3. Booked(s, tr, todayLots) = [s.quotas EXCEPT ![tr.inst][tr.dir] = q]
    BY <1>4 DEF Booked
  <2> HIDE DEF q
  <2>. QED
    BY <1>1, <1>3, <2>2, <2>3
<1>5. CASE tr.offset # "Open"
  <2> DEFINE old == s.quotas[tr.inst][Opposite(tr.dir)]
             more == IF tr.offset = "CloseToday" THEN todayLots ELSE 0
             q == [opened |-> old.opened, charged |-> old.charged + todayLots, explicit |-> old.explicit + more]
  <2>1. old \in QuotaType
    BY <1>1 DEF QuotasType
  <2>2. q \in QuotaType
    <3>1. more \in Nat
      OBVIOUS
    <3> HIDE DEF old, more
    <3>. QED
      BY <1>2, <2>1, <3>1
  <2>3. Booked(s, tr, todayLots) = [s.quotas EXCEPT ![tr.inst][Opposite(tr.dir)] = q]
    BY <1>5 DEF Booked
  <2> HIDE DEF q
  <2>. QED
    BY <1>1, <1>3, <2>2, <2>3
<1>. QED
  BY <1>4, <1>5

-----------------------------------------------------------------------------
(* The operations. *)

\* A commit that goes through writes the account only (trade.go commit).
LEMMA CommitWrites ==
  ASSUME NEW today, NEW s, SimTyped(today, s),
         NEW fee \in Int, NEW atSettle \in Int, NEW profit \in Int,
         ~Commit(s, fee, atSettle, profit).broken
  PROVE  LET after == Commit(s, fee, atSettle, profit) IN
           /\ SimTyped(today, after)
           /\ after.positions = s.positions /\ after.prices = s.prices /\ after.book = s.book
           /\ after.acc.positionProfit = Profit(s.positions, s.prices)
           /\ BookedMoney(after.acc) = BookedMoney(s.acc) - fee + profit
<1> DEFINE booked == A!WithCloseProfit(A!Charged(s.acc, fee, atSettle), profit)
           told == Revalued(booked, s.positions, s.prices)
           after == Commit(s, fee, atSettle, profit)
<1>1. AccountTyped(booked) /\ BookedMoney(booked) = BookedMoney(s.acc) - fee + profit
  BY TradeBooked DEF SimTyped
<1> HIDE DEF booked
<1>2. /\ AccountTyped(told) /\ told.positionProfit = Profit(s.positions, s.prices)
      /\ BookedMoney(told) = BookedMoney(booked)
  <2>1. Profit(s.positions, s.prices) \in Int
    BY ProfitInt DEF SimTyped
  <2>. QED
    BY <1>1, <2>1, ValuationTold DEF Revalued
<1> HIDE DEF told
<1>3. DOMAIN s = SimFields
  BY DEF SimTyped
<1>4. after = [s EXCEPT !.acc = told]
  <2>1. after = Committed(s, A!CanCharge(fee, atSettle), told)
    BY DEF Commit, told, booked
  <2>2. after = [s EXCEPT !.acc = told] \/ after = [s EXCEPT !.broken = TRUE]
    BY <2>1 DEF Committed
  <2>3. [s EXCEPT !.broken = TRUE].broken = TRUE
    BY <1>3 DEF SimFields
  <2>4. ~after.broken
    OBVIOUS
  <2> HIDE DEF after
  <2>. QED
    BY <2>2, <2>3, <2>4
<1>5. /\ DOMAIN after = SimFields /\ after.acc = told /\ after.positions = s.positions
      /\ after.prices = s.prices /\ after.book = s.book /\ after.quotas = s.quotas
  <2> HIDE DEF after
  <2>. QED
    BY <1>3, <1>4 DEF SimFields
<1> HIDE DEF after
<1>6. SimTyped(today, after)
  BY <1>2, <1>5 DEF SimTyped
<1>. QED
  BY <1>1, <1>2, <1>5, <1>6 DEF after

\* A simulator whose account alone has changed.
LEMMA AccountWritten ==
  ASSUME NEW today, NEW s, SimTyped(today, s), NEW a, AccountTyped(a)
  PROVE  LET after == [s EXCEPT !.acc = a] IN
           /\ SimTyped(today, after) /\ after.acc = a
           /\ after.positions = s.positions /\ after.prices = s.prices
BY DEF SimTyped, SimFields

\* Money paid in or out is the client's (simulator.go Deposit, Withdraw).
LEMMA DepositKeeps ==
  ASSUME NEW today, NEW s, NEW c, Good(today, s, c), NEW amount \in Int
  PROVE  Good(today, [s EXCEPT !.acc = A!Deposited(@, amount)], c + amount)
<1> DEFINE a == A!Deposited(s.acc, amount)
           after == [s EXCEPT !.acc = a]
<1>1. /\ AccountTyped(a) /\ BookedMoney(a) = BookedMoney(s.acc) + amount
      /\ a.positionProfit = s.acc.positionProfit
  BY MoneyFlows DEF Good, SimTyped
<1> HIDE DEF a
<1>2. SimTyped(today, after) /\ after.acc = a /\ after.positions = s.positions /\ after.prices = s.prices
  BY <1>1, AccountWritten DEF Good
<1>3. c \in Int /\ Carried(s.positions) \in Int
  BY CarriedInt DEF Good, Balanced, SimTyped
<1> HIDE DEF after
<1>4. Good(today, after, c + amount)
  BY <1>1, <1>2, <1>3 DEF Good, Balanced
<1>. QED
  BY <1>4 DEF after, a

LEMMA WithdrawKeeps ==
  ASSUME NEW today, NEW s, NEW c, Good(today, s, c), NEW amount \in Int
  PROVE  Good(today, [s EXCEPT !.acc = A!Withdrawn(@, amount)], c + (-amount))
<1> DEFINE a == A!Withdrawn(s.acc, amount)
           after == [s EXCEPT !.acc = a]
<1>1. /\ AccountTyped(a) /\ BookedMoney(a) = BookedMoney(s.acc) - amount
      /\ a.positionProfit = s.acc.positionProfit
  BY MoneyFlows DEF Good, SimTyped
<1> HIDE DEF a
<1>2. SimTyped(today, after) /\ after.acc = a /\ after.positions = s.positions /\ after.prices = s.prices
  BY <1>1, AccountWritten DEF Good
<1>3. c \in Int /\ Carried(s.positions) \in Int
  BY CarriedInt DEF Good, Balanced, SimTyped
<1> HIDE DEF after
<1>4. Good(today, after, c + (-amount))
  BY <1>1, <1>2, <1>3 DEF Good, Balanced
<1>. QED
  BY <1>4 DEF after, a

\* A quote moves the floating profit and nothing else (simulator.go Mark).
LEMMA MarkKeeps ==
  ASSUME NEW today, NEW s, NEW c, Good(today, s, c),
         NEW inst \in Instruments, NEW quote \in [last : Nat, pre : Nat],
         ~Marked(s, inst, quote).broken
  PROVE  LET after == Marked(s, inst, quote) IN
           /\ Good(today, after, c)
           /\ after.positions = s.positions /\ after.book = s.book
<1> DEFINE prices == MarkedPrices(s, inst, quote)
           priced == [s EXCEPT !.prices = prices]
           after == Commit(priced, 0, 0, 0)
<1>1. prices \in PricesType
  <2>1. s.prices \in PricesType
    BY DEF Good, SimTyped
  <2>2. s.prices[inst] \in [last : Nat, pre : Nat]
    BY <2>1 DEF PricesType
  <2>3. [last |-> IF quote.last = 0 THEN s.prices[inst].last ELSE quote.last,
         pre  |-> IF quote.pre = 0 THEN s.prices[inst].pre ELSE quote.pre] \in [last : Nat, pre : Nat]
    BY <2>2
  <2>. QED
    BY <2>1, <2>3 DEF MarkedPrices, PricesType
<1> HIDE DEF prices
<1>2. /\ SimTyped(today, priced) /\ priced.acc = s.acc
      /\ priced.positions = s.positions /\ priced.prices = prices /\ priced.book = s.book
  BY <1>1 DEF Good, SimTyped, SimFields
<1> HIDE DEF priced
<1>3. ~after.broken /\ after = Marked(s, inst, quote)
  BY DEF Marked, priced, prices
<1>4. /\ SimTyped(today, after)
      /\ after.positions = priced.positions /\ after.prices = priced.prices /\ after.book = priced.book
      /\ after.acc.positionProfit = Profit(priced.positions, priced.prices)
      /\ BookedMoney(after.acc) = BookedMoney(priced.acc) - 0 + 0
  <2>1. 0 \in Int
    OBVIOUS
  <2>. QED
    BY <1>2, <1>3, <2>1, CommitWrites
<1>5. BookedMoney(s.acc) \in Int
  BY BalanceIs DEF Good, SimTyped
<1> HIDE DEF after
<1>6. Good(today, after, c)
  BY <1>2, <1>4, <1>5 DEF Good, Balanced
<1>. QED
  BY <1>2, <1>3, <1>4, <1>6

-----------------------------------------------------------------------------
\* A book without one of its orders, or with one more, holds typed orders (order/freeze.go).
LEMMA BookRemoved ==
  ASSUME NEW book, BookTyped(book), NEW id
  PROVE  BookTyped(B!Remove(book, id))
<1>1. B!IDs(B!Remove(book, id)) = B!IDs(book) \ {id}
  BY DEF B!IDs, B!Remove, B!Restrict, Restrict
<1>2. \A x \in B!IDs(book) \ {id} : B!Remove(book, id).live[x] = book.live[x]
  BY DEF B!IDs, B!Remove, B!Restrict, Restrict
<1>3. IsFiniteSet(B!IDs(book) \ {id})
  BY FS_RemoveElement DEF BookTyped
<1>. QED
  BY <1>1, <1>2, <1>3 DEF BookTyped

LEMMA BookInserted ==
  ASSUME NEW book, BookTyped(book), NEW id, NEW entry, OrderTyped(entry.order), NEW last
  PROVE  BookTyped([live |-> B!InsertAt(book, id, entry), last |-> last])
<1> DEFINE after == [live |-> B!InsertAt(book, id, entry), last |-> last]
<1>1. B!IDs(after) = B!IDs(book) \cup {id}
  BY DEF B!IDs, B!InsertAt
<1>2. \A x \in B!IDs(book) \cup {id} : after.live[x] = IF x = id THEN entry ELSE book.live[x]
  BY DEF B!InsertAt
<1>3. IsFiniteSet(B!IDs(book) \cup {id})
  BY FS_AddElement DEF BookTyped
<1> HIDE DEF after
<1>4. BookTyped(after)
  BY <1>1, <1>2, <1>3 DEF BookTyped
<1>. QED
  BY <1>4 DEF after

\* A simulator whose book has changed, and what is frozen with it.
LEMMA BookWritten ==
  ASSUME NEW today, NEW s, NEW c, Good(today, s, c), NEW a, AccountTyped(a),
         BookedMoney(a) = BookedMoney(s.acc), a.positionProfit = s.acc.positionProfit,
         NEW book, BookTyped(book)
  PROVE  Good(today, [s EXCEPT !.acc = a, !.book = book], c)
<1> DEFINE after == [s EXCEPT !.acc = a, !.book = book]
<1>1. /\ DOMAIN after = SimFields /\ after.acc = a /\ after.book = book
      /\ after.positions = s.positions /\ after.prices = s.prices /\ after.quotas = s.quotas
  BY DEF Good, SimTyped, SimFields
<1> HIDE DEF after
<1>2. Good(today, after, c)
  BY <1>1 DEF Good, SimTyped, Balanced
<1>. QED
  BY <1>2 DEF after

\* An order that is taken off the book changes nothing the client owns (place.go Cancel, release).
LEMMA ReleaseKeeps ==
  ASSUME NEW today, NEW s, NEW c, Good(today, s, c), NEW id
  PROVE  Good(today, Released(s, id), c)
<1> DEFINE order == s.book.live[id].order
           a == A!WithoutFrozen(s.acc, order.margin, order.commission)
           book == B!Remove(s.book, id)
<1>1. AccountTyped(s.acc) /\ BookTyped(s.book)
  BY DEF Good, SimTyped
<1> HIDE DEF order
<1>2. /\ AccountTyped(a) /\ BookedMoney(a) = BookedMoney(s.acc)
      /\ a.positionProfit = s.acc.positionProfit
  BY <1>1, FreezesAside
<1>3. BookTyped(book)
  BY <1>1, BookRemoved
<1>4. Released(s, id) = [s EXCEPT !.acc = a, !.book = book]
  BY DEF Released, order
<1> HIDE DEF a, book
<1>5. Good(today, [s EXCEPT !.acc = a, !.book = book], c)
  BY <1>2, <1>3, BookWritten
<1>. QED
  BY <1>4, <1>5

\* Nor does one that is accepted (place.go PlaceAccepted).
LEMMA PlaceKeeps ==
  ASSUME NEW today, NEW s, NEW c, Good(today, s, c), NEW id, NEW request \in TradeType
  PROVE  Good(today, Placed(s, id, request), c)
<1> DEFINE req == Rewritten(request)
           order == FrozenOrder(s, req)
           a == A!WithFrozen(s.acc, order.margin, order.commission)
           entry == B!Entry(order, s.book.last + 1)
           book == [live |-> B!InsertAt(s.book, id, entry), last |-> s.book.last + 1]
<1>1. SimTyped(today, s) /\ AccountTyped(s.acc) /\ BookTyped(s.book)
  BY DEF Good, SimTyped
<1>2. req \in TradeType
  BY DatedTyped
<1> HIDE DEF req
<1>3. OrderTyped(order)
  <2> DEFINE h == HistoryPart(s, DatedTrade(req))
  <2>1. DatedTrade(req) \in TradeType /\ DatedTrade(req).volume = req.volume
    BY <1>2, DatedTyped
  <2>2. h \in 0 .. req.volume /\ req.volume \in Nat
    <3>1. h \in 0 .. DatedTrade(req).volume
      BY <1>1, <2>1, DividedClose
    <3>. QED
      BY <1>2, <2>1, <3>1 DEF TradeType
  <2>3. order.history = h /\ order.today = IF DatedTrade(req).offset = "Open" THEN 0 ELSE DatedTrade(req).volume - h
    BY DEF FrozenOrder, OrderFreezing
  <2>4. TradeOf(order) = req
    <3>1. TradeOf(order) = [inst |-> req.inst, dir |-> req.dir, offset |-> req.offset,
                            price |-> req.price, volume |-> req.volume]
      BY DEF TradeOf, FrozenOrder, OrderFreezing
    <3>. QED
      BY <1>2, <3>1 DEF TradeType
  <2> HIDE DEF h, order
  <2>5. order.history \in Int /\ order.today \in Int
    BY <2>1, <2>2, <2>3
  <2>. QED
    BY <1>2, <2>4, <2>5 DEF OrderTyped
<1> HIDE DEF order
<1>4. /\ AccountTyped(a) /\ BookedMoney(a) = BookedMoney(s.acc)
      /\ a.positionProfit = s.acc.positionProfit
  BY <1>1, FreezesAside
<1>5. BookTyped(book)
  <2>1. entry.order = order
    BY DEF B!Entry
  <2> HIDE DEF entry
  <2>. QED
    BY <1>1, <1>3, <2>1, BookInserted
<1>6. Placed(s, id, request) = [s EXCEPT !.acc = a, !.book = book]
  BY DEF Placed, WithOrder, B!Insert, order, req
<1> HIDE DEF a, book
<1>7. Good(today, [s EXCEPT !.acc = a, !.book = book], c)
  BY <1>4, <1>5, BookWritten
<1>. QED
  BY <1>6, <1>7

\* Nor one that is put back after a refused fill (place.go Fill).
LEMMA PutBackKeeps ==
  ASSUME NEW today, NEW s, NEW c, Good(today, s, c), NEW id, NEW entry, OrderTyped(entry.order),
         ~PutBack(s, id, entry).broken
  PROVE  Good(today, PutBack(s, id, entry), c)
<1> DEFINE after == PutBack(s, id, entry)
           a == A!WithFrozen(s.acc, entry.order.margin, entry.order.commission)
           frozen == [s EXCEPT !.acc = a]
           book == [live |-> B!InsertAt(s.book, id, entry), last |-> s.book.last]
<1>1. DOMAIN s = SimFields /\ AccountTyped(s.acc) /\ BookTyped(s.book)
  BY DEF Good, SimTyped
<1>2. /\ AccountTyped(a) /\ BookedMoney(a) = BookedMoney(s.acc)
      /\ a.positionProfit = s.acc.positionProfit
  BY <1>1, FreezesAside
<1>3. BookTyped(book)
  BY <1>1, BookInserted
<1> HIDE DEF a
<1>4. after = [s EXCEPT !.acc = a, !.book = book]
  <2>1. \/ after = [s EXCEPT !.broken = TRUE]
        \/ after = [frozen EXCEPT !.broken = TRUE]
        \/ after = [frozen EXCEPT !.book = B!Reinsert(@, id, entry)]
    BY DEF PutBack, a
  <2>2. [s EXCEPT !.broken = TRUE].broken = TRUE /\ [frozen EXCEPT !.broken = TRUE].broken = TRUE
    BY <1>1 DEF SimFields
  <2>3. frozen.book = s.book
    BY <1>1 DEF SimFields
  <2>4. after = [frozen EXCEPT !.book = B!Reinsert(s.book, id, entry)]
    <3> HIDE DEF after, frozen
    <3>. QED
      BY <2>1, <2>2, <2>3 DEF after
  <2>5. B!Reinsert(s.book, id, entry) = book
    BY DEF B!Reinsert
  <2> HIDE DEF after, book
  <2>. QED
    BY <1>1, <2>4, <2>5 DEF SimFields
<1> HIDE DEF book, after
<1>5. Good(today, after, c)
  BY <1>2, <1>3, <1>4, BookWritten
<1>. QED
  BY <1>5 DEF after

-----------------------------------------------------------------------------
\* What a trade does to the positions, before the account hears of it (trade.go ApplyTrade).
LEMMA TradePositions ==
  ASSUME NEW today \in Int, NEW s, SimTyped(today, s), NEW tr \in TradeType
  PROVE  LET after == PositionsAfter(s, today, tr) IN
           /\ PositionsTyped(today, after)
           /\ CloseProfit(s, tr) \in Int /\ CloseProfitByTrade(s, tr) \in Int
           /\ Carried(after) = Carried(s.positions) - (CloseProfitByTrade(s, tr) - CloseProfit(s, tr))
<1> DEFINE after == PositionsAfter(s, today, tr)
<1>1. /\ tr.inst \in Instruments /\ tr.dir \in Directions /\ Opposite(tr.dir) \in Directions
      /\ tr.volume \in Nat \ {0} /\ tr.price \in Nat \ {0}
  BY OppositeIn DEF TradeType
<1>2. PositionsTyped(today, s.positions) /\ Carried(s.positions) \in Int
  BY CarriedInt DEF SimTyped
<1>3. CASE tr.offset = "Open"
  <2> DEFINE lots == s.positions[tr.inst][tr.dir]
             more == Append(lots, Lot(today, tr.price, tr.volume, tr.price, FALSE))
  <2>1. lots \in Seq(LotSet) /\ RestorableSide(today, lots)
    BY <1>1, <1>2 DEF PositionsTyped
  <2>2. after = [s.positions EXCEPT ![tr.inst][tr.dir] = more]
    BY <1>3 DEF PositionsAfter
  <2>3. CloseProfit(s, tr) = 0 /\ CloseProfitByTrade(s, tr) = 0
    BY <1>3 DEF CloseProfit, CloseProfitByTrade
  <2> HIDE DEF lots
  <2>4. more \in Seq(LotSet) /\ RestorableSide(today, more) /\ Drift(more, tr.dir) = Drift(lots, tr.dir)
    <3> DEFINE price == tr.price
               volume == tr.volume
    <3>1. price \in Nat \ {0} /\ volume \in Nat \ {0}
      BY <1>1
    <3>2. more = Append(lots, Lot(today, price, volume, price, FALSE))
      OBVIOUS
    <3> HIDE DEF price, volume, more
    <3>3. LET opened == Append(lots, Lot(today, price, volume, price, FALSE)) IN
            /\ opened \in Seq(LotSet) /\ RestorableSide(today, opened)
            /\ \A dir : Drift(opened, dir) = Drift(lots, dir)
      BY <2>1, <3>1, OpenedLot
    <3>. QED
      BY <3>2, <3>3
  <2> HIDE DEF more
  <2>5. /\ PositionsTyped(today, [s.positions EXCEPT ![tr.inst][tr.dir] = more])
        /\ Carried([s.positions EXCEPT ![tr.inst][tr.dir] = more])
             = Carried(s.positions) - Drift(s.positions[tr.inst][tr.dir], tr.dir) + Drift(more, tr.dir)
    BY <1>1, <1>2, <2>4, OneSideChanged
  <2>6. Drift(more, tr.dir) = Drift(s.positions[tr.inst][tr.dir], tr.dir) /\ Drift(more, tr.dir) \in Int
    BY <2>4, DriftInt DEF lots
  <2> HIDE DEF after
  <2>. QED
    BY <1>2, <2>2, <2>3, <2>5, <2>6 DEF after
<1>4. CASE tr.offset # "Open"
  <2> DEFINE held == Opposite(tr.dir)
             lots == s.positions[tr.inst][held]
             pieces == TakenBy(s, tr).pieces
             left == TakenBy(s, tr).left
  <2>0. s.positions[tr.inst][Opposite(tr.dir)] \in Seq(LotSet)
        /\ RestorableSide(today, s.positions[tr.inst][Opposite(tr.dir)])
    BY <1>1, <1>2 DEF PositionsTyped
  <2>1. HistoryPart(s, tr) \in 0 .. tr.volume /\ tr.volume \in Nat
    BY <1>1, DividedClose
  <2>2. /\ pieces \in Seq(LotSet) /\ left \in Seq(LotSet) /\ RestorableSide(today, left)
        /\ Drift(pieces, held) + Drift(left, held) = Drift(lots, held)
    BY <2>0, <2>1, TakenLots
  <2>3. after = [s.positions EXCEPT ![tr.inst][held] = left]
    BY <1>4 DEF PositionsAfter
  <2>4. CloseProfit(s, tr) = ByDate(pieces, held, tr.price)
        /\ CloseProfitByTrade(s, tr) = ByTrade(pieces, held, tr.price)
    BY <1>4 DEF CloseProfit, CloseProfitByTrade
  <2>5. held \in Directions
    BY <1>1
  <2> HIDE DEF pieces, left, held
  <2>6. /\ PositionsTyped(today, [s.positions EXCEPT ![tr.inst][held] = left])
        /\ Carried([s.positions EXCEPT ![tr.inst][held] = left])
             = Carried(s.positions) - Drift(s.positions[tr.inst][held], held) + Drift(left, held)
    <3>1. PositionsTyped(today, s.positions) /\ tr.inst \in Instruments
      BY <1>1, <1>2
    <3>2. left \in Seq(LotSet) /\ RestorableSide(today, left)
      BY <2>2
    <3>. QED
      BY <2>5, <3>1, <3>2, OneSideChanged
  <2>7. /\ ByTrade(pieces, held, tr.price) \in Int /\ ByDate(pieces, held, tr.price) \in Int
        /\ Drift(pieces, held) \in Int
        /\ ByTrade(pieces, held, tr.price) = ByDate(pieces, held, tr.price) + Drift(pieces, held)
    <3>1. tr.price \in Int
      BY <1>1
    <3>. QED
      BY <2>2, <3>1, ProfitsPart
  <2>8. Drift(left, held) \in Int /\ Drift(lots, held) = Drift(s.positions[tr.inst][held], held)
    BY <2>2, DriftInt
  <2> HIDE DEF after, lots
  <2>. QED
    BY <1>2, <2>2, <2>3, <2>4, <2>6, <2>7, <2>8 DEF after
<1>. QED
  BY <1>3, <1>4

\* A trade books its profit against the bases; against the opening prices the rest was carried already.
LEMMA TradeKeeps ==
  ASSUME NEW today \in Int, NEW s, NEW c, Good(today, s, c), NEW request \in TradeType,
         ~Traded(s, today, request).broken
  PROVE  LET after == Traded(s, today, request) IN
           /\ Good(today, after, c + TradeCash(s, request))
           /\ after.positions = PositionsAfter(s, today, DatedTrade(request)) /\ after.book = s.book
<1> DEFINE tr == DatedTrade(request)
           charge == Charge(s, tr)
           positions == PositionsAfter(s, today, tr)
           quotas == Booked(s, tr, charge.todayLots)
           before == [s EXCEPT !.positions = positions, !.quotas = quotas]
           after == Commit(before, charge.fee, charge.atSettle, CloseProfit(s, tr))
<1>1. tr \in TradeType
  BY DatedTyped
<1> HIDE DEF tr
<1>2. SimTyped(today, s)
  BY DEF Good
<1>3. charge.fee \in Int /\ charge.atSettle \in Int /\ charge.todayLots \in Nat
  <2>1. tr.inst \in Instruments /\ Opposite(tr.dir) \in Directions /\ tr.volume \in Nat
    BY <1>1, OppositeIn DEF TradeType
  <2>2. s.quotas[tr.inst][Opposite(tr.dir)] \in QuotaType
    BY <1>2, <2>1 DEF SimTyped, QuotasType
  <2>3. s.prices[tr.inst] \in [last : Nat, pre : Nat]
    BY <1>2, <2>1 DEF SimTyped, PricesType
  <2>4. charge.fee \in Int /\ charge.atSettle \in Int /\ charge.todayLots \in 0 .. tr.volume
    BY <1>1, <2>2, <2>3, ChargeTyped
  <2> HIDE DEF charge
  <2>. QED
    BY <2>1, <2>4
<1> HIDE DEF charge
<1>4. /\ PositionsTyped(today, positions)
      /\ CloseProfit(s, tr) \in Int /\ CloseProfitByTrade(s, tr) \in Int
      /\ Carried(positions) = Carried(s.positions) - (CloseProfitByTrade(s, tr) - CloseProfit(s, tr))
  BY <1>1, <1>2, TradePositions
<1>5. quotas \in QuotasType
  BY <1>1, <1>2, <1>3, QuotasBooked DEF SimTyped
<1> HIDE DEF positions, quotas
<1>6. /\ SimTyped(today, before) /\ before.acc = s.acc
      /\ before.positions = positions /\ before.prices = s.prices /\ before.book = s.book
  BY <1>2, <1>4, <1>5 DEF SimTyped, SimFields
<1>7. after = Traded(s, today, request)
  BY DEF Traded, Recorded, before, positions, quotas, charge, tr
<1>8. /\ SimTyped(today, after)
      /\ after.positions = before.positions /\ after.prices = before.prices /\ after.book = before.book
      /\ after.acc.positionProfit = Profit(before.positions, before.prices)
      /\ BookedMoney(after.acc) = BookedMoney(before.acc) - charge.fee + CloseProfit(s, tr)
  <2> HIDE DEF before
  <2>1. ~after.broken
    BY <1>7
  <2>. QED
    BY <1>3, <1>4, <1>6, <2>1, CommitWrites
<1>9. TradeCash(s, request) = CloseProfitByTrade(s, tr) - charge.fee
  BY DEF TradeCash, tr, charge
<1>10. /\ Carried(s.positions) \in Int /\ c \in Int /\ BookedMoney(s.acc) \in Int
       /\ MarkBasis = "Last" => BookedMoney(s.acc) = c + Carried(s.positions)
  BY <1>2, CarriedInt, BalanceIs DEF Good, Balanced, SimTyped
<1> HIDE DEF after, before
<1>11. MarkBasis = "Last" =>
         BookedMoney(after.acc) = (c + TradeCash(s, request)) + Carried(after.positions)
  BY <1>3, <1>4, <1>6, <1>8, <1>9, <1>10
<1>12. c + TradeCash(s, request) \in Int
  BY <1>3, <1>4, <1>9, <1>10
<1>13. Good(today, after, c + TradeCash(s, request))
  BY <1>6, <1>8, <1>11, <1>12 DEF Good, Balanced
<1>14. after.positions = PositionsAfter(s, today, DatedTrade(request)) /\ after.book = s.book
  BY <1>6, <1>8 DEF positions, tr
<1>. QED
  BY <1>7, <1>13, <1>14

-----------------------------------------------------------------------------
(* The evening. *)

\* A side without lots earns nothing.
LEMMA NothingEarned ==
  ASSUME NEW dir, NEW price
  PROVE  ByDate(<<>>, dir, price) = 0
<1>1. [i \in DOMAIN <<>> |-> (price - <<>>[i].basis) * <<>>[i].volume * Sign(dir)] = <<>>
  OBVIOUS
<1>2. ByDate(<<>>, dir, price) = Total(<<>>)
  BY <1>1 DEF ByDate
<1>. QED
  BY <1>2, TotalOfNothing

SettlementType == [Instruments -> Nat \ {0}]

\* The prices of the evening are prices (settle.go).
LEMMA EveningPrices ==
  ASSUME NEW s, s.prices \in PricesType, NEW price \in SettlementType
  PROVE  SettlementPrices(s, price) \in PricesType /\ NextPrices(s, price) \in PricesType
<1>1. ASSUME NEW i \in Instruments
      PROVE  /\ price[i] \in Nat /\ s.prices[i].pre \in Nat /\ NoPrices \in [last : Nat, pre : Nat]
  BY <1>1 DEF PricesType, SettlementType, NoPrices
<1>2. ASSUME NEW i \in Instruments
      PROVE  /\ [last |-> price[i], pre |-> s.prices[i].pre] \in [last : Nat, pre : Nat]
             /\ [last |-> price[i], pre |-> price[i]] \in [last : Nat, pre : Nat]
             /\ NoPrices \in [last : Nat, pre : Nat]
  BY <1>1, <1>2
<1>. QED
  BY <1>2 DEF SettlementPrices, NextPrices, PricesType

\* Rolling the lots moves the floating profit into what is carried (settle.go Settle).
LEMMA RolledCarries ==
  ASSUME NEW today \in Int, NEW s, SimTyped(today, s), NEW price \in SettlementType
  PROVE  /\ PositionsTyped(today + 1, Rolled(s, price))
         /\ MarkBasis = "Last" =>
              Carried(Rolled(s, price))
                = Carried(s.positions) + Profit(s.positions, SettlementPrices(s, price))
<1> DEFINE after == Rolled(s, price)
           D == [x \in Sides |-> Drift(s.positions[x[1]][x[2]], x[2])]
           F == [x \in Sides |-> ByDate(s.positions[x[1]][x[2]], x[2],
                                        MarkPrice(SettlementPrices(s, price)[x[1]]))]
           H == [x \in Sides |-> Drift(after[x[1]][x[2]], x[2])]
<1>1. ASSUME NEW i \in Instruments, NEW dir \in Directions
      PROVE  /\ after[i][dir] \in Seq(LotSet) /\ RestorableSide(today + 1, after[i][dir])
             /\ Drift(s.positions[i][dir], dir) \in Int
             /\ ByDate(s.positions[i][dir], dir, MarkPrice(SettlementPrices(s, price)[i])) \in Int
             /\ Drift(after[i][dir], dir) \in Int
             /\ MarkBasis = "Last" =>
                  Drift(after[i][dir], dir)
                    = Drift(s.positions[i][dir], dir)
                        + ByDate(s.positions[i][dir], dir, MarkPrice(SettlementPrices(s, price)[i]))
  <2> DEFINE lots == s.positions[i][dir]
             mark == MarkPrice(SettlementPrices(s, price)[i])
  <2>1. lots \in Seq(LotSet) /\ RestorableSide(today, lots) /\ price[i] \in Nat \ {0}
    BY <1>1 DEF SimTyped, PositionsTyped, SettlementType
  <2>2. after[i][dir] = SettleAll(lots, price[i])
    BY <1>1 DEF Rolled
  <2>3. MarkBasis = "Last" => ByDate(lots, dir, mark) = ByDate(lots, dir, price[i])
    <3> SUFFICES ASSUME MarkBasis = "Last" PROVE ByDate(lots, dir, mark) = ByDate(lots, dir, price[i])
      OBVIOUS
    <3>1. CASE i \in Held(s.positions)
      <4>1. mark = price[i]
        BY <3>1 DEF MarkPrice, SettlementPrices
      <4>. QED
        BY <4>1
    <3>2. CASE i \notin Held(s.positions)
      <4>1. lots = <<>>
        BY <1>1, <3>2 DEF Held, FlatSides
      <4> HIDE DEF mark, lots
      <4>. QED
        BY <4>1, NothingEarned
    <3>. QED
      BY <3>1, <3>2
  <2>4. price[i] \in Int /\ mark \in Int
    <3>1. SettlementPrices(s, price) \in PricesType
      BY EveningPrices DEF SimTyped
    <3>. QED
      BY <1>1, <2>1, <3>1, MarkPriceInt
  <2> HIDE DEF lots, mark, after
  <2>5. Drift(lots, dir) \in Int /\ ByDate(lots, dir, price[i]) \in Int /\ ByDate(lots, dir, mark) \in Int
    BY <2>1, <2>4, ProfitsPart
  <2>6. /\ SettleAll(lots, price[i]) \in Seq(LotSet)
        /\ RestorableSide(today + 1, SettleAll(lots, price[i]))
        /\ Drift(SettleAll(lots, price[i]), dir) = Drift(lots, dir) + ByDate(lots, dir, price[i])
    BY <2>1, SettledLots
  <2>7. /\ after[i][dir] \in Seq(LotSet) /\ RestorableSide(today + 1, after[i][dir])
        /\ Drift(lots, dir) \in Int
        /\ ByDate(lots, dir, mark) \in Int /\ Drift(after[i][dir], dir) \in Int
        /\ MarkBasis = "Last" => Drift(after[i][dir], dir) = Drift(lots, dir) + ByDate(lots, dir, mark)
    BY <2>2, <2>3, <2>5, <2>6
  <2>. QED
    BY <2>7 DEF lots, mark
<1>2. PositionsTyped(today + 1, after)
  <2>1. after = [i \in Instruments |-> [dir \in Directions |-> after[i][dir]]]
    BY DEF Rolled
  <2> HIDE DEF after
  <2>. QED
    BY <1>1, <2>1 DEF PositionsTyped
<1>3. ASSUME NEW x \in Sides
      PROVE  D[x] \in Int /\ F[x] \in Int /\ H[x] \in Int /\ (MarkBasis = "Last" => H[x] = D[x] + F[x])
  <2>1. x[1] \in Instruments /\ x[2] \in Directions
    BY DEF Sides
  <2>2. /\ D[x] = Drift(s.positions[x[1]][x[2]], x[2])
        /\ F[x] = ByDate(s.positions[x[1]][x[2]], x[2], MarkPrice(SettlementPrices(s, price)[x[1]]))
        /\ H[x] = Drift(after[x[1]][x[2]], x[2])
    OBVIOUS
  <2> HIDE DEF after, D, F, H
  <2>. QED
    BY <1>1, <2>1, <2>2
<1>4. D \in [Sides -> Int] /\ F \in [Sides -> Int] /\ H \in [Sides -> Int]
  <2>1. D = [x \in Sides |-> D[x]] /\ F = [x \in Sides |-> F[x]] /\ H = [x \in Sides |-> H[x]]
    OBVIOUS
  <2>2. \A x \in Sides : D[x] \in Int /\ F[x] \in Int /\ H[x] \in Int
    <3> HIDE DEF after, D, F, H
    <3>. QED
      BY <1>3
  <2> HIDE DEF after, D, F, H
  <2>. QED
    BY <2>1, <2>2
<1>5. MarkBasis = "Last" => SumFunction(H) = SumFunction(D) + SumFunction(F)
  <2> HIDE DEF after, D, F, H
  <2>. QED
    BY <1>3, <1>4, SidesFinite, SumOfSums
<1>6. /\ Carried(after) = SumFunction(H) /\ Carried(s.positions) = SumFunction(D)
      /\ Profit(s.positions, SettlementPrices(s, price)) = SumFunction(F)
  <2> HIDE DEF after
  <2>. QED
    BY DEF Carried, Profit
<1> HIDE DEF D, F, H, after
<1>. QED
  BY <1>2, <1>5, <1>6 DEF after

\* The settlement's fees take the place of the intraday ones (account.go Settle).
LEMMA SettleKeeps ==
  ASSUME NEW today \in Int, NEW s, NEW c, Good(today, s, c), NEW price \in SettlementType
  PROVE  Good(today + 1, NextMorning(s, price), c + s.acc.commission - s.acc.settleCommission)
<1> DEFINE tonight == SettlementPrices(s, price)
           next == NextPrices(s, price)
           rolled == Rolled(s, price)
           evening == Revalued(s.acc, s.positions, tonight)
           settled == A!SettledAccount(evening)
           morning == Revalued(settled, rolled, next)
           after == NextMorning(s, price)
           paid == c + s.acc.commission - s.acc.settleCommission
<1>1. SimTyped(today, s) /\ AccountTyped(s.acc) /\ PositionsTyped(today, s.positions)
  BY DEF Good, SimTyped
<1>2. tonight \in PricesType /\ next \in PricesType
  BY <1>1, EveningPrices DEF SimTyped
<1>3. /\ PositionsTyped(today + 1, rolled)
      /\ MarkBasis = "Last" => Carried(rolled) = Carried(s.positions) + Profit(s.positions, tonight)
  BY <1>1, RolledCarries
<1> HIDE DEF tonight, next, rolled
<1>4. /\ AccountTyped(evening) /\ evening.positionProfit = Profit(s.positions, tonight)
      /\ BookedMoney(evening) = BookedMoney(s.acc)
      /\ evening.commission = s.acc.commission /\ evening.settleCommission = s.acc.settleCommission
  <2>1. Profit(s.positions, tonight) \in Int
    BY <1>1, <1>2, ProfitInt
  <2>. QED
    BY <1>1, <2>1, ValuationTold DEF Revalued
<1> HIDE DEF evening
<1>5. /\ AccountTyped(settled)
      /\ BookedMoney(settled) = A!Balance(evening) + evening.commission - evening.settleCommission
  BY <1>4, EveningBooked
<1> HIDE DEF settled
<1>6. /\ AccountTyped(morning) /\ morning.positionProfit = Profit(rolled, next)
      /\ BookedMoney(morning) = BookedMoney(settled)
  <2>1. Profit(rolled, next) \in Int
    BY <1>2, <1>3, ProfitInt
  <2>. QED
    BY <1>5, <2>1, ValuationTold DEF Revalued
<1> HIDE DEF morning
<1>7. /\ DOMAIN after = SimFields /\ after.acc = morning /\ after.positions = rolled
      /\ after.prices = next /\ after.book = s.book
      /\ after.quotas = [i \in Instruments |-> [dir \in Directions |-> NoQuota]]
  BY DEF NextMorning, EveningAccount, NewSimulator, SimFields, morning, settled, evening, rolled, next, tonight
<1>8. after.quotas \in QuotasType
  BY <1>7 DEF QuotasType, QuotaType, NoQuota
<1> HIDE DEF after
<1>9. SimTyped(today + 1, after)
  BY <1>1, <1>2, <1>3, <1>6, <1>7, <1>8 DEF SimTyped
<1>10. /\ c \in Int /\ (MarkBasis = "Last" => BookedMoney(s.acc) = c + Carried(s.positions))
       /\ Carried(s.positions) \in Int /\ BookedMoney(s.acc) \in Int
       /\ Profit(s.positions, tonight) \in Int
       /\ s.acc.commission \in Int /\ s.acc.settleCommission \in Int
  BY <1>1, <1>2, CarriedInt, ProfitInt, BalanceIs DEF Good, Balanced, AccountTyped
<1>11. A!Balance(evening) = BookedMoney(s.acc) + Profit(s.positions, tonight)
  BY <1>4, BalanceIs
<1>12. paid \in Int /\ (MarkBasis = "Last" => BookedMoney(after.acc) = paid + Carried(after.positions))
  BY <1>3, <1>4, <1>5, <1>6, <1>7, <1>10, <1>11
<1> HIDE DEF paid
<1>13. Good(today + 1, after, paid)
  BY <1>6, <1>7, <1>9, <1>12 DEF Good, Balanced
<1>. QED
  BY <1>13 DEF after, paid

-----------------------------------------------------------------------------
(* The specification. *)

\* An order of an archive becomes a trade.
LEMMA ArchivedOrders ==
  ASSUME NEW order \in OrderType, order.price > 0
  PROVE  OrderTyped(order)
BY DEF OrderType, OrderTyped, TradeOf, TradeType, Offsets

\* A restored simulator has the shape the operations keep (state.go Restore).
LEMMA RestoredTyped ==
  ASSUME NEW today \in Int, NEW s, Readable(s), Restorable(s, today)
  PROVE  SimTyped(today, s)
<1>1. /\ DOMAIN s = SimFields /\ s.acc \in A!ArchiveType
      /\ s.positions \in [Instruments -> [Directions -> Seq(LotType)]]
      /\ s.prices \in PricesType /\ s.quotas \in QuotasType
      /\ IsFiniteSet(B!IDs(s.book))
      /\ \A id \in B!IDs(s.book) : s.book.live[id] \in [order : OrderType, sequence : Int]
  BY DEF Readable
<1>2. AccountTyped(s.acc)
  BY <1>1, ArchiveTyped
<1>3. RestorableRest(s, today)
  BY DEF Restorable
<1>4. ASSUME NEW i \in Instruments, NEW dir \in Directions
      PROVE  s.positions[i][dir] \in Seq(LotSet) /\ RestorableSide(today, s.positions[i][dir])
  <2> DEFINE lots == s.positions[i][dir]
  <2>1. lots \in Seq(LotType) /\ RestorableSide(today, lots)
    BY <1>1, <1>3, <1>4 DEF RestorableRest
  <2> HIDE DEF lots
  <2>2. ASSUME NEW k \in 1 .. Len(lots) PROVE lots[k] \in LotSet
    <3>1. lots[k] \in LotType /\ lots[k].volume > 0
      BY <2>1 DEF RestorableSide
    <3>. QED
      BY <3>1 DEF LotType, LotSet
  <2>3. lots \in Seq(LotSet)
    BY <2>1, <2>2
  <2>. QED
    BY <2>1, <2>3 DEF lots
<1>5. PositionsTyped(today, s.positions)
  <2>1. s.positions = [i \in Instruments |-> [dir \in Directions |-> s.positions[i][dir]]]
    BY <1>1
  <2>. QED
    BY <1>4, <2>1 DEF PositionsTyped
<1>6. ASSUME NEW id \in B!IDs(s.book) PROVE OrderTyped(s.book.live[id].order)
  <2>1. s.book.live[id].order \in OrderType
    BY <1>1, <1>6
  <2>2. s.book.live[id].order.price > 0
    BY <1>3, <1>6 DEF RestorableRest, RestorableOrder
  <2>. QED
    BY <2>1, <2>2, ArchivedOrders
<1>7. BookTyped(s.book)
  BY <1>1, <1>6 DEF BookTyped
<1>. QED
  BY <1>1, <1>2, <1>5, <1>7 DEF SimTyped

-----------------------------------------------------------------------------
(* The lots of live orders stay. *)

\* Books whose orders are the same have the same lots frozen.
LEMMA SameFrozen ==
  ASSUME NEW a, NEW b, B!IDs(a) = B!IDs(b), \A id \in B!IDs(a) : a.live[id].order = b.live[id].order,
         NEW i, NEW held
  PROVE  FrozenOf(a, i, held) = FrozenOf(b, i, held)
<1>1. Closing(a, i, held) = Closing(b, i, held)
  BY DEF Closing
<1>2. \A id \in Closing(a, i, held) : a.live[id].order = b.live[id].order
  BY DEF Closing
<1>3. TodayOf(a, i, held) = TodayOf(b, i, held) /\ HistoryOf(a, i, held) = HistoryOf(b, i, held)
  BY <1>1, <1>2 DEF TodayOf, HistoryOf
<1>4. \A book : FrozenOf(book, i, held) = [today   |-> SumFunction(TodayOf(book, i, held)),
                                           history |-> SumFunction(HistoryOf(book, i, held))]
  BY DEF FrozenOf, Closing, Closes, TodayOf, HistoryOf
<1>. QED
  BY <1>3, <1>4

\* What an order freezes is free again once it is off the book (order/freeze.go Remove).
LEMMA FrozenWithout ==
  ASSUME NEW book, BookTyped(book), NEW id \in B!IDs(book), NEW i, NEW held
  PROVE  LET order  == book.live[id].order
             before == FrozenOf(book, i, held)
             after  == FrozenOf(B!Remove(book, id), i, held)
         IN  /\ before.today = after.today + IF Closes(order, i, held) THEN order.today ELSE 0
             /\ before.history = after.history + IF Closes(order, i, held) THEN order.history ELSE 0
<1> DEFINE rest == B!Remove(book, id)
           order == book.live[id].order
           S == Closing(book, i, held)
           R == Closing(rest, i, held)
<1>1. BookTyped(rest)
  BY BookRemoved
<1>2. B!IDs(rest) = B!IDs(book) \ {id} /\ \A x \in B!IDs(book) \ {id} : rest.live[x] = book.live[x]
  BY DEF B!IDs, B!Remove, B!Restrict, Restrict
<1> HIDE DEF rest
<1>3. R = S \ {id} /\ (id \in S <=> Closes(order, i, held))
  BY <1>2 DEF Closing
<1>4. /\ IsFiniteSet(S) /\ TodayOf(book, i, held) \in [S -> Int] /\ HistoryOf(book, i, held) \in [S -> Int]
      /\ TodayOf(rest, i, held) \in [R -> Int] /\ HistoryOf(rest, i, held) \in [R -> Int]
  BY <1>1, <1>3, ClosingTyped
<1>5. \A x \in R : /\ TodayOf(rest, i, held)[x] = TodayOf(book, i, held)[x]
                   /\ HistoryOf(rest, i, held)[x] = HistoryOf(book, i, held)[x]
  <2>1. \A x \in S \ {id} : rest.live[x] = book.live[x]
    BY <1>2 DEF Closing
  <2>. QED
    BY <1>3, <2>1 DEF TodayOf, HistoryOf
<1>6. id \in S => TodayOf(book, i, held)[id] = order.today /\ HistoryOf(book, i, held)[id] = order.history
  BY DEF TodayOf, HistoryOf
<1> HIDE DEF S, R, order
<1>7. /\ id \in S => SumFunction(TodayOf(book, i, held))
                       = SumFunction(TodayOf(rest, i, held)) + TodayOf(book, i, held)[id]
      /\ id \notin S => SumFunction(TodayOf(book, i, held)) = SumFunction(TodayOf(rest, i, held))
  <2> DEFINE F == TodayOf(book, i, held)
             G == TodayOf(rest, i, held)
  <2>1. IsFiniteSet(S) /\ F \in [S -> Int] /\ G \in [R -> Int] /\ \A x \in R : G[x] = F[x]
    BY <1>4, <1>5
  <2> HIDE DEF F, G
  <2>2. SumsDiffer(F, G, S, id)
    BY <1>3, <2>1, SumWithout
  <2>. QED
    BY <2>2 DEF SumsDiffer, F, G
<1>8. /\ id \in S => SumFunction(HistoryOf(book, i, held))
                       = SumFunction(HistoryOf(rest, i, held)) + HistoryOf(book, i, held)[id]
      /\ id \notin S => SumFunction(HistoryOf(book, i, held)) = SumFunction(HistoryOf(rest, i, held))
  <2> DEFINE F == HistoryOf(book, i, held)
             G == HistoryOf(rest, i, held)
  <2>1. IsFiniteSet(S) /\ F \in [S -> Int] /\ G \in [R -> Int] /\ \A x \in R : G[x] = F[x]
    BY <1>4, <1>5
  <2> HIDE DEF F, G
  <2>2. SumsDiffer(F, G, S, id)
    BY <1>3, <2>1, SumWithout
  <2>. QED
    BY <2>2 DEF SumsDiffer, F, G
<1>10. SumFunction(TodayOf(rest, i, held)) \in Int /\ SumFunction(HistoryOf(rest, i, held)) \in Int
  BY <1>1, FrozenInt, FrozenIs
<1>9. /\ FrozenOf(book, i, held).today
           = FrozenOf(rest, i, held).today + IF Closes(order, i, held) THEN order.today ELSE 0
      /\ FrozenOf(book, i, held).history
           = FrozenOf(rest, i, held).history + IF Closes(order, i, held) THEN order.history ELSE 0
  BY <1>3, <1>6, <1>7, <1>8, <1>10, FrozenIs
<1>. QED
  BY <1>9 DEF order, rest

\* An order more has its own lots frozen as well (order/freeze.go Insert).
LEMMA FrozenWith ==
  ASSUME NEW book, BookTyped(book), NEW id, id \notin B!IDs(book), NEW entry, OrderTyped(entry.order), NEW last,
         NEW i, NEW held
  PROVE  LET order  == entry.order
             before == FrozenOf(book, i, held)
             after  == FrozenOf([live |-> B!InsertAt(book, id, entry), last |-> last], i, held)
         IN  /\ after.today = before.today + IF Closes(order, i, held) THEN order.today ELSE 0
             /\ after.history = before.history + IF Closes(order, i, held) THEN order.history ELSE 0
<1> DEFINE more == [live |-> B!InsertAt(book, id, entry), last |-> last]
           rest == B!Remove(more, id)
<1>1. BookTyped(more)
  BY BookInserted
<1>2. B!IDs(more) = B!IDs(book) \cup {id}
      /\ \A x \in B!IDs(book) \cup {id} : more.live[x] = IF x = id THEN entry ELSE book.live[x]
  BY DEF B!IDs, B!InsertAt
<1> HIDE DEF more
<1>3. B!IDs(rest) = B!IDs(more) \ {id} /\ \A x \in B!IDs(more) \ {id} : rest.live[x] = more.live[x]
  BY DEF B!IDs, B!Remove, B!Restrict, Restrict
<1>4. LET order  == more.live[id].order
          before == FrozenOf(more, i, held)
          after  == FrozenOf(B!Remove(more, id), i, held)
      IN  /\ before.today = after.today + IF Closes(order, i, held) THEN order.today ELSE 0
          /\ before.history = after.history + IF Closes(order, i, held) THEN order.history ELSE 0
  <2>1. id \in B!IDs(more)
    BY <1>2
  <2>. QED
    BY <1>1, <2>1, FrozenWithout
<1>5. FrozenOf(rest, i, held) = FrozenOf(book, i, held)
  <2>1. B!IDs(rest) = B!IDs(book) /\ \A x \in B!IDs(rest) : rest.live[x].order = book.live[x].order
    BY <1>2, <1>3
  <2> HIDE DEF rest
  <2>. QED
    BY <2>1, SameFrozen
<1>6. more.live[id] = entry
  BY <1>2
<1>. QED
  BY <1>4, <1>5, <1>6 DEF more

\* Dating an offset neither makes nor unmakes a close.
LEMMA DatedOpen ==
  ASSUME NEW tr \in TradeType
  PROVE  DatedTrade(tr).offset = "Open" <=> tr.offset = "Open"
<1>1. DatedTrade(tr).offset = Dated(tr.inst, tr.offset)
  BY DEF DatedTrade, TradeType
<1>. QED
  BY <1>1 DEF Dated

\* What is left of an order as a trade, with its offset dated.
LEMMA OrderAsTrade ==
  ASSUME NEW order, OrderTyped(order)
  PROVE  LET tr == DatedTrade(TradeOf(order)) IN
           /\ tr \in TradeType
           /\ tr.inst = order.inst /\ tr.dir = order.dir /\ tr.volume = order.volume
           /\ tr.offset = "Open" <=> order.offset = "Open"
<1>1. TradeOf(order) \in TradeType
  BY DEF OrderTyped
<1>2. /\ TradeOf(order).inst = order.inst /\ TradeOf(order).dir = order.dir
      /\ TradeOf(order).volume = order.volume /\ TradeOf(order).offset = order.offset
  BY DEF TradeOf
<1>. QED
  BY <1>1, <1>2, DatedTyped, DatedOpen

\* The lots all these orders have frozen are counted in natural numbers.
LEMMA FrozenNat ==
  ASSUME NEW book, BookTyped(book), \A id \in B!IDs(book) : OrderLots(book.live[id].order), NEW i, NEW held
  PROVE  FrozenOf(book, i, held).today \in Nat /\ FrozenOf(book, i, held).history \in Nat
<1>1. \A id \in Closing(book, i, held) :
        book.live[id].order.today \in Nat /\ book.live[id].order.history \in Nat
  BY DEF Closing, OrderLots
<1>2. /\ TodayOf(book, i, held) \in [Closing(book, i, held) -> Nat]
      /\ HistoryOf(book, i, held) \in [Closing(book, i, held) -> Nat]
  BY <1>1 DEF TodayOf, HistoryOf
<1>3. IsFiniteSet(Closing(book, i, held))
  BY ClosingTyped
<1>. QED
  BY <1>2, <1>3, FrozenIs, SumNat

\* A side's lots, and what is frozen of them.
LEMMA SideCovered ==
  ASSUME NEW today, NEW s, SimTyped(today, s), Covered(s), NEW i \in Instruments, NEW held \in Directions
  PROVE  LET lots   == s.positions[i][held]
             frozen == FrozenOf(s.book, i, held)
         IN  /\ lots \in Seq(LotSet)
             /\ VolumeToday(lots) \in Nat /\ VolumeHistory(lots) \in Nat
             /\ frozen.today \in Nat /\ frozen.history \in Nat
             /\ frozen.today <= VolumeToday(lots) /\ frozen.history <= VolumeHistory(lots)
<1> DEFINE lots == s.positions[i][held]
           frozen == FrozenOf(s.book, i, held)
<1>1. lots \in Seq(LotSet)
  BY DEF SimTyped, PositionsTyped
<1>2. VolumeToday(lots) >= frozen.today /\ VolumeHistory(lots) >= frozen.history
  BY DEF Covered, FrozenFits, LeavesFrozen
<1>3. frozen.today \in Nat /\ frozen.history \in Nat
  BY FrozenNat DEF SimTyped, Covered
<1> HIDE DEF lots, frozen
<1>4. VolumeToday(lots) \in Nat /\ VolumeHistory(lots) \in Nat
  BY <1>1, VolumesNat
<1>5. frozen.today <= VolumeToday(lots) /\ frozen.history <= VolumeHistory(lots)
  BY <1>2, <1>3, <1>4
<1>. QED
  BY <1>1, <1>3, <1>4, <1>5 DEF lots, frozen

(***************************************************************************)
(* A covered order finds its lots: once its own are free, the split takes  *)
(* at least as much history as it had frozen and at most as much of        *)
(* today's, and leaves what all other orders have frozen.                  *)
(***************************************************************************)
LEMMA OrderFinds ==
  ASSUME NEW today, NEW s, SimTyped(today, s), Covered(s), NEW id \in B!IDs(s.book)
  PROVE  LET freed == [s EXCEPT !.book = B!Remove(@, id)] IN
           TakesFreeLots(freed, DatedTrade(TradeOf(s.book.live[id].order)))
<1> DEFINE freed == [s EXCEPT !.book = B!Remove(@, id)]
           order == s.book.live[id].order
           tr == DatedTrade(TradeOf(order))
           i == tr.inst
           held == Opposite(tr.dir)
           lots == s.positions[i][held]
           T == VolumeToday(lots)
           H == VolumeHistory(lots)
           F == FrozenOf(s.book, i, held)
           G == FrozenOf(freed.book, i, held)
           v == tr.volume
           h == HistoryPart(freed, tr)
<1>1. freed.positions = s.positions /\ freed.book = B!Remove(s.book, id)
  BY DEF SimTyped, SimFields
<1>2. OrderTyped(order) /\ BookTyped(s.book) /\ OrderLots(order)
  BY DEF SimTyped, BookTyped, Covered
<1>3. tr \in TradeType /\ i = order.inst /\ tr.dir = order.dir /\ v = order.volume
      /\ (tr.offset = "Open" <=> order.offset = "Open")
  BY <1>2, OrderAsTrade
<1>4. i \in Instruments /\ held \in Directions /\ v \in Nat /\ tr.offset \in Offsets
  <2> HIDE DEF tr
  <2>. QED
    BY <1>3, OppositeIn DEF TradeType
<1>5. SUFFICES ASSUME tr.offset # "Open" PROVE TakesFreeLots(freed, tr)
  BY DEF TakesFreeLots
<1>6. /\ order.today \in Nat /\ order.history \in Nat
      /\ tr.offset = "CloseToday" => order.today = v /\ order.history = 0
      /\ tr.offset = "CloseYesterday" => order.today = 0 /\ order.history = v
      /\ tr.offset = "Close" => order.today + order.history = v /\ Contract[i].dateType = "NoUseHistory"
  BY <1>2, <1>3 DEF OrderLots
<1> HIDE DEF freed
<1>7. BookTyped(freed.book) /\ \A x \in B!IDs(freed.book) : OrderLots(freed.book.live[x].order)
  <2>1. B!IDs(freed.book) \subseteq B!IDs(s.book)
        /\ \A x \in B!IDs(freed.book) : freed.book.live[x] = s.book.live[x]
    BY <1>1 DEF B!IDs, B!Remove, B!Restrict, Restrict
  <2>. QED
    BY <1>1, <1>2, <2>1, BookRemoved DEF Covered
<1>8. Closes(order, i, held)
  BY <1>3, <1>5 DEF Closes
<1> HIDE DEF order, tr, held, i
<1>9. lots \in Seq(LotSet) /\ T \in Nat /\ H \in Nat /\ F.today <= T /\ F.history <= H
  BY <1>4, SideCovered
<1>10. G.today \in Nat /\ G.history \in Nat
  BY <1>7, FrozenNat
<1>11. F.today = G.today + order.today /\ F.history = G.history + order.history
  BY <1>1, <1>2, <1>8, FrozenWithout DEF order
<1>12. /\ ToHistory(freed, i, held, v) = Min({v, Max({H - G.history, 0})})
       /\ CanSplit(freed, i, held, v) <=> v - ToHistory(freed, i, held, v) <= Max({T - G.today, 0})
  BY <1>1 DEF ToHistory, CanSplit
<1> HIDE DEF lots, T, H, F, G, v
\* What each offset takes of history fits, and so does the rest.
<1>13. h \in 0 .. v /\ h <= H - G.history /\ v - h <= T - G.today
  <2>1. CASE tr.offset = "CloseToday"
    <3>1. h = 0
      BY <2>1 DEF HistoryPart
    <3>. QED
      BY <1>4, <1>6, <1>9, <1>10, <1>11, <2>1, <3>1
  <2>2. CASE tr.offset = "CloseYesterday"
    <3>1. h = v
      BY <2>2 DEF HistoryPart, v
    <3>. QED
      BY <1>4, <1>6, <1>9, <1>10, <1>11, <2>2, <3>1
  <2>3. CASE tr.offset = "Close"
    <3>1. h = ToHistory(freed, i, held, v)
      BY <2>3 DEF HistoryPart, i, held, v
    <3>2. h = IF H - G.history <= 0 THEN 0 ELSE IF v <= H - G.history THEN v ELSE H - G.history
      <4>1. H - G.history \in Int
        BY <1>9, <1>10
      <4>. QED
        BY <1>4, <1>12, <3>1, <4>1, LeastWanted
    <3> HIDE DEF h
    <3> DEFINE x == H - G.history
               y == T - G.today
    <3>3. v \in Nat /\ x \in Int /\ y \in Int
      BY <1>4, <1>9, <1>10
    <3>4. order.history <= x /\ order.today <= y
      BY <1>6, <1>9, <1>10, <1>11
    <3>5. order.history \in Nat /\ order.today \in Nat /\ order.today + order.history = v
      BY <1>6, <2>3
    <3>6. h = IF x <= 0 THEN 0 ELSE IF v <= x THEN v ELSE x
      BY <3>2
    <3>7. h \in 0 .. v /\ h <= x /\ v - h <= y
      <4> HIDE DEF x, y
      <4>. QED
        BY <3>3, <3>4, <3>5, <3>6
    <3>. QED
      BY <3>7
  <2>. QED
    BY <1>4, <1>5, <2>1, <2>2, <2>3 DEF Offsets
<1>14. CloseFits(freed, tr)
  <2>1. CASE tr.offset = "Close"
    <3>1. h = ToHistory(freed, i, held, v)
      BY <2>1 DEF HistoryPart, i, held, v
    <3> HIDE DEF h
    <3>2. v - h <= Max({T - G.today, 0})
      <4>1. T - G.today \in Int /\ 0 \in Int
        BY <1>9, <1>10
      <4>2. Max({T - G.today, 0}) = IF T - G.today >= 0 THEN T - G.today ELSE 0
        BY <4>1, MaxOfTwo
      <4>. QED
        BY <1>4, <1>13, <4>1, <4>2
    <3>3. CanSplit(freed, i, held, v)
      BY <1>12, <3>1, <3>2
    <3>. QED
      BY <1>6, <2>1, <3>3 DEF CloseFits, i, held, v
  <2>2. CASE tr.offset = "CloseToday"
    <3>1. v <= T
      BY <1>4, <1>6, <1>9, <1>10, <1>11, <2>2
    <3>2. Closable(lots, tr.offset, v)
      BY <2>2, <3>1 DEF Closable, T
    <3>. QED
      BY <1>1, <2>2, <3>2 DEF CloseFits, lots, i, held, v
  <2>3. CASE tr.offset = "CloseYesterday"
    <3>1. v <= H
      BY <1>4, <1>6, <1>9, <1>10, <1>11, <2>3
    <3>2. Closable(lots, tr.offset, v)
      BY <2>3, <3>1 DEF Closable, H
    <3>. QED
      BY <1>1, <2>3, <3>2 DEF CloseFits, lots, i, held, v
  <2>. QED
    BY <1>4, <1>5, <2>1, <2>2, <2>3 DEF Offsets
<1>15. LeavesFrozen(freed, i, held, TakenBy(freed, tr).left)
  <2> DEFINE left == TakenBy(freed, tr).left
  <2>1. h <= H /\ v - h <= T
    <3> HIDE DEF h
    <3>. QED
      BY <1>4, <1>9, <1>10, <1>13
  <2>2. VolumeToday(left) = T - (v - h) /\ VolumeHistory(left) = H - h
    <3>1. freed.positions[tr.inst][Opposite(tr.dir)] = lots
      BY <1>1 DEF lots, i, held
    <3>. QED
      BY <1>4, <1>9, <1>13, <2>1, <3>1, TakenVolumes DEF T, H, v
  <2> HIDE DEF left, h
  <2>3. VolumeToday(left) >= G.today /\ VolumeHistory(left) >= G.history
    BY <1>4, <1>9, <1>10, <1>13, <2>2
  <2>. QED
    BY <2>3 DEF LeavesFrozen, G, left
<1>. QED
  BY <1>14, <1>15 DEF TakesFreeLots, i, held

\* What looks at positions and book only is covered as before.
LEMMA SameCovered ==
  ASSUME NEW s, Covered(s), NEW after, after.positions = s.positions, after.book = s.book
  PROVE  Covered(after)
BY DEF Covered, FrozenFits, LeavesFrozen

\* One order less (place.go Cancel).
LEMMA ReleaseCovered ==
  ASSUME NEW today, NEW s, SimTyped(today, s), Covered(s), NEW id \in B!IDs(s.book)
  PROVE  Covered(Released(s, id))
<1> DEFINE after == Released(s, id)
           order == s.book.live[id].order
<1>1. after.positions = s.positions /\ after.book = B!Remove(s.book, id)
  BY DEF Released, SimTyped, SimFields
<1> HIDE DEF after
<1>2. BookTyped(s.book) /\ BookTyped(after.book) /\ OrderLots(order)
  BY <1>1, BookRemoved DEF SimTyped, Covered
<1>3. \A x \in B!IDs(after.book) : OrderLots(after.book.live[x].order)
  <2>1. B!IDs(after.book) \subseteq B!IDs(s.book)
        /\ \A x \in B!IDs(after.book) : after.book.live[x] = s.book.live[x]
    BY <1>1 DEF B!IDs, B!Remove, B!Restrict, Restrict
  <2>. QED
    BY <2>1 DEF Covered
<1>4. order.today \in Nat /\ order.history \in Nat
  BY <1>2 DEF OrderLots
<1> HIDE DEF order
<1>5. ASSUME NEW i \in Instruments, NEW held \in Directions
      PROVE  LeavesFrozen(after, i, held, after.positions[i][held])
  <2> DEFINE F == FrozenOf(s.book, i, held)
             G == FrozenOf(after.book, i, held)
             lots == s.positions[i][held]
  <2>1. /\ F.today = G.today + IF Closes(order, i, held) THEN order.today ELSE 0
        /\ F.history = G.history + IF Closes(order, i, held) THEN order.history ELSE 0
    BY <1>1, <1>2, FrozenWithout DEF order
  <2>2. /\ VolumeToday(lots) \in Nat /\ VolumeHistory(lots) \in Nat
        /\ F.today <= VolumeToday(lots) /\ F.history <= VolumeHistory(lots)
    BY <1>5, SideCovered
  <2>3. G.today \in Nat /\ G.history \in Nat
    BY <1>2, <1>3, FrozenNat
  <2> HIDE DEF F, G, lots
  <2>4. VolumeToday(lots) >= G.today /\ VolumeHistory(lots) >= G.history
    BY <1>4, <2>1, <2>2, <2>3
  <2>. QED
    BY <1>1, <2>4 DEF LeavesFrozen, G, lots
<1>. QED
  BY <1>3, <1>5 DEF Covered, FrozenFits, after

\* What FreezeOf works out is the lots the offset names.
LEMMA FrozenOrderLots ==
  ASSUME NEW today, NEW s, SimTyped(today, s), NEW request \in TradeType, CanFreezeOrder(s, request)
  PROVE  OrderTyped(FrozenOrder(s, request)) /\ OrderLots(FrozenOrder(s, request))
<1> DEFINE order == FrozenOrder(s, request)
           tr == DatedTrade(request)
           h == HistoryPart(s, tr)
<1>1. tr \in TradeType /\ tr.inst = request.inst /\ tr.volume = request.volume
  BY DatedTyped
<1>2. h \in 0 .. tr.volume /\ tr.volume \in Nat
  <2> HIDE DEF tr
  <2>. QED
    BY <1>1, DividedClose DEF TradeType
<1>3. /\ order.history = h /\ order.today = (IF tr.offset = "Open" THEN 0 ELSE tr.volume - h)
      /\ order.volume = request.volume /\ order.inst = request.inst
  BY DEF FrozenOrder, OrderFreezing
<1>4. TradeOf(order) = request
  <2>1. TradeOf(order) = [inst |-> request.inst, dir |-> request.dir, offset |-> request.offset,
                          price |-> request.price, volume |-> request.volume]
    BY DEF TradeOf, FrozenOrder, OrderFreezing
  <2>. QED
    BY <2>1 DEF TradeType
<1>5. tr.offset = "Close" => Contract[tr.inst].dateType = "NoUseHistory"
  BY DEF CanFreezeOrder
<1>6. /\ tr.offset = "CloseToday" => h = 0
      /\ tr.offset = "CloseYesterday" => h = tr.volume
  BY DEF HistoryPart
<1> HIDE DEF order, tr, h
<1>7. OrderTyped(order)
  BY <1>2, <1>3, <1>4 DEF OrderTyped
<1>8. order.today \in Nat /\ order.history \in Nat
  BY <1>2, <1>3
<1>9. /\ tr.offset = "CloseToday" => order.today = order.volume /\ order.history = 0
      /\ tr.offset = "CloseYesterday" => order.today = 0 /\ order.history = order.volume
      /\ tr.offset = "Close" => order.today + order.history = order.volume
  BY <1>1, <1>2, <1>3, <1>6
<1>10. OrderLots(order)
  BY <1>1, <1>3, <1>4, <1>5, <1>8, <1>9 DEF OrderLots, tr
<1>. QED
  BY <1>7, <1>10 DEF order

\* One order more, which the lots still free can bear (place.go PlaceAccepted).
LEMMA PlaceCovered ==
  ASSUME NEW today, NEW s, SimTyped(today, s), Covered(s), NEW id, NEW request \in TradeType,
         CanPlace(s, id, request)
  PROVE  Covered(Placed(s, id, request))
<1> DEFINE after == Placed(s, id, request)
           order == FrozenOrder(s, Rewritten(request))
           entry == B!Entry(order, s.book.last + 1)
<1>1. /\ after.positions = s.positions
      /\ after.book = [live |-> B!InsertAt(s.book, id, entry), last |-> s.book.last + 1]
  BY DEF Placed, WithOrder, B!Insert, SimTyped, SimFields
<1>2. OrderTyped(order) /\ OrderLots(order)
  BY DatedTyped, FrozenOrderLots DEF CanPlace
<1>3. Coverable(s, order) /\ id \notin B!IDs(s.book)
  BY DEF CanPlace, CanHold, B!CanInsert, B!IDFree
<1> HIDE DEF after, order
<1>4. entry.order = order
  BY DEF B!Entry
<1> HIDE DEF entry
<1>5. BookTyped(s.book)
  BY DEF SimTyped
<1>6. \A x \in B!IDs(after.book) : OrderLots(after.book.live[x].order)
  <2>1. B!IDs(after.book) = B!IDs(s.book) \cup {id}
        /\ \A x \in B!IDs(s.book) \cup {id} : after.book.live[x] = IF x = id THEN entry ELSE s.book.live[x]
    BY <1>1 DEF B!IDs, B!InsertAt
  <2>. QED
    BY <1>2, <1>4, <2>1 DEF Covered
<1>7. ASSUME NEW i \in Instruments, NEW held \in Directions
      PROVE  LeavesFrozen(after, i, held, after.positions[i][held])
  <2> DEFINE F == FrozenOf(s.book, i, held)
             G == FrozenOf(after.book, i, held)
             lots == s.positions[i][held]
  <2>1. /\ G.today = F.today + IF Closes(order, i, held) THEN order.today ELSE 0
        /\ G.history = F.history + IF Closes(order, i, held) THEN order.history ELSE 0
    BY <1>1, <1>2, <1>3, <1>4, <1>5, FrozenWith
  <2>2. /\ VolumeToday(lots) \in Nat /\ VolumeHistory(lots) \in Nat
        /\ F.today \in Nat /\ F.history \in Nat
        /\ F.today <= VolumeToday(lots) /\ F.history <= VolumeHistory(lots)
    BY <1>7, SideCovered
  <2>3. order.today \in Nat /\ order.history \in Nat
    BY <1>2 DEF OrderLots
  <2>4. Closes(order, i, held) =>
          /\ F.today + order.today <= VolumeToday(lots)
          /\ F.history + order.history <= VolumeHistory(lots)
    BY <1>3 DEF Coverable, Closes
  <2> HIDE DEF F, G, lots
  <2>5. VolumeToday(lots) >= G.today /\ VolumeHistory(lots) >= G.history
    BY <2>1, <2>2, <2>3, <2>4
  <2>. QED
    BY <1>1, <2>5 DEF LeavesFrozen, G, lots
<1>. QED
  BY <1>6, <1>7 DEF Covered, FrozenFits, after

\* An order put back finds everything as it was (place.go Fill).
LEMMA PutBackCovered ==
  ASSUME NEW today, NEW s, SimTyped(today, s), Covered(s), NEW id \in B!IDs(s.book),
         ~PutBack(Released(s, id), id, s.book.live[id]).broken
  PROVE  Covered(PutBack(Released(s, id), id, s.book.live[id]))
<1> DEFINE freed == Released(s, id)
           entry == s.book.live[id]
           after == PutBack(freed, id, entry)
           frozen == [freed EXCEPT !.acc = A!WithFrozen(@, entry.order.margin, entry.order.commission)]
<1>1. DOMAIN freed = SimFields /\ freed.positions = s.positions /\ freed.book = B!Remove(s.book, id)
  BY DEF Released, SimTyped, SimFields
<1> HIDE DEF freed
<1>2. after.positions = s.positions /\ after.book = B!Reinsert(freed.book, id, entry)
  <2>1. \/ after = [freed EXCEPT !.broken = TRUE]
        \/ after = [frozen EXCEPT !.broken = TRUE]
        \/ after = [frozen EXCEPT !.book = B!Reinsert(@, id, entry)]
    BY DEF PutBack
  <2>2. [freed EXCEPT !.broken = TRUE].broken = TRUE /\ [frozen EXCEPT !.broken = TRUE].broken = TRUE
    BY <1>1 DEF SimFields
  <2>3. frozen.book = freed.book /\ frozen.positions = freed.positions /\ DOMAIN frozen = SimFields
    BY <1>1 DEF SimFields
  <2>4. after = [frozen EXCEPT !.book = B!Reinsert(freed.book, id, entry)]
    <3>1. ~after.broken
      BY DEF freed
    <3> HIDE DEF after, frozen
    <3>. QED
      BY <2>1, <2>2, <2>3, <3>1
  <2> HIDE DEF after, frozen
  <2>. QED
    BY <1>1, <2>3, <2>4 DEF SimFields
<1> HIDE DEF after, entry
<1>3. B!IDs(after.book) = B!IDs(s.book) /\ \A x \in B!IDs(s.book) : after.book.live[x] = s.book.live[x]
  <2>1. B!IDs(freed.book) = B!IDs(s.book) \ {id}
        /\ \A x \in B!IDs(s.book) \ {id} : freed.book.live[x] = s.book.live[x]
    BY <1>1 DEF B!IDs, B!Remove, B!Restrict, Restrict
  <2>2. B!IDs(after.book) = B!IDs(freed.book) \cup {id}
        /\ \A x \in B!IDs(freed.book) \cup {id} : after.book.live[x] = IF x = id THEN entry ELSE freed.book.live[x]
    BY <1>2 DEF B!Reinsert, B!IDs, B!InsertAt
  <2>. QED
    BY <2>1, <2>2 DEF entry
<1>4. \A i, held : FrozenOf(after.book, i, held) = FrozenOf(s.book, i, held)
  BY <1>3, SameFrozen
<1>5. Covered(after)
  BY <1>2, <1>3, <1>4 DEF Covered, FrozenFits, LeavesFrozen
<1>. QED
  BY <1>5 DEF after, freed, entry

\* A side a trade has changed, and the sides it has not.
LEMMA OneSideCovered ==
  ASSUME NEW today, NEW s, SimTyped(today, s), Covered(s), NEW i \in Instruments, NEW dir \in Directions,
         NEW lots, LeavesFrozen(s, i, dir, lots),
         NEW after, after.positions = [s.positions EXCEPT ![i][dir] = lots], after.book = s.book
  PROVE  Covered(after)
<1>1. ASSUME NEW j \in Instruments, NEW held \in Directions
      PROVE  LeavesFrozen(after, j, held, after.positions[j][held])
  <2>1. LeavesFrozen(s, j, held, after.positions[j][held])
    <3>1. CASE j = i /\ held = dir
      <4>1. after.positions[j][held] = lots
        BY <3>1 DEF SimTyped, PositionsTyped
      <4>. QED
        BY <3>1, <4>1
    <3>2. CASE j # i \/ held # dir
      <4>1. after.positions[j][held] = s.positions[j][held]
        BY <1>1, <3>2 DEF SimTyped, PositionsTyped
      <4>. QED
        BY <1>1, <4>1 DEF Covered, FrozenFits
    <3>. QED
      BY <3>1, <3>2
  <2>. QED
    BY <2>1 DEF LeavesFrozen
<1>. QED
  BY <1>1 DEF Covered, FrozenFits

\* A trade opens lots or takes free ones (trade.go ApplyTrade).
LEMMA TradeCovered ==
  ASSUME NEW today \in Int, NEW s, SimTyped(today, s), Covered(s), NEW tr \in TradeType, TakesFreeLots(s, tr),
         NEW after, after.positions = PositionsAfter(s, today, tr), after.book = s.book
  PROVE  Covered(after)
<1>1. /\ tr.inst \in Instruments /\ tr.dir \in Directions /\ Opposite(tr.dir) \in Directions
      /\ tr.volume \in Nat \ {0} /\ tr.price \in Nat \ {0}
  BY OppositeIn DEF TradeType
<1>2. CASE tr.offset = "Open"
  <2> DEFINE lots == s.positions[tr.inst][tr.dir]
             frozen == FrozenOf(s.book, tr.inst, tr.dir)
             price == tr.price
             volume == tr.volume
             more == Append(lots, Lot(today, price, volume, price, FALSE))
  <2>1. /\ lots \in Seq(LotSet) /\ VolumeToday(lots) \in Nat /\ VolumeHistory(lots) \in Nat
        /\ frozen.today \in Nat /\ frozen.history \in Nat
        /\ frozen.today <= VolumeToday(lots) /\ frozen.history <= VolumeHistory(lots)
    BY <1>1, SideCovered
  <2>2. after.positions = [s.positions EXCEPT ![tr.inst][tr.dir] = more]
    BY <1>2 DEF PositionsAfter
  <2>3. price \in Nat \ {0} /\ volume \in Nat \ {0}
    BY <1>1
  <2> HIDE DEF lots, frozen, price, volume
  <2>4. VolumeToday(more) = VolumeToday(lots) + volume /\ VolumeHistory(more) = VolumeHistory(lots)
    BY <2>1, <2>3, OpenedByTrade
  <2> HIDE DEF more
  <2>5. VolumeToday(more) >= frozen.today /\ VolumeHistory(more) >= frozen.history
    BY <2>1, <2>3, <2>4
  <2>6. LeavesFrozen(s, tr.inst, tr.dir, more)
    BY <2>5 DEF LeavesFrozen, frozen
  <2>. QED
    BY <1>1, <2>2, <2>6, OneSideCovered
<1>3. CASE tr.offset # "Open"
  <2> DEFINE held == Opposite(tr.dir)
             left == TakenBy(s, tr).left
  <2>1. LeavesFrozen(s, tr.inst, held, left)
    BY <1>3 DEF TakesFreeLots
  <2>2. after.positions = [s.positions EXCEPT ![tr.inst][held] = left]
    BY <1>3 DEF PositionsAfter
  <2> HIDE DEF left
  <2>. QED
    BY <1>1, <2>1, <2>2, OneSideCovered
<1>. QED
  BY <1>2, <1>3

\* Lots that no order closes are free.
LEMMA NoneFrozen ==
  ASSUME NEW s, NEW i, NEW held, NEW lots \in Seq(LotSet), Closing(s.book, i, held) = {}
  PROVE  LeavesFrozen(s, i, held, lots)
<1> DEFINE frozen == FrozenOf(s.book, i, held)
<1>1. VolumeToday(lots) \in Nat /\ VolumeHistory(lots) \in Nat
  BY VolumesNat
<1>2. ASSUME NEW F \in [{} -> Int] PROVE SumFunction(F) = 0
  <2>0. IsFiniteSet({})
    BY FS_EmptySet
  <2>1. PICK f : SumsOver({}, F, f) /\ SumFunction(F) = f[{}]
    BY <2>0, SumIs
  <2>2. {} \in SUBSET {}
    OBVIOUS
  <2>. QED
    BY <2>1, <2>2 DEF SumsOver
<1>3. TodayOf(s.book, i, held) \in [{} -> Int] /\ HistoryOf(s.book, i, held) \in [{} -> Int]
  BY DEF TodayOf, HistoryOf
<1>4. frozen.today = 0 /\ frozen.history = 0
  BY <1>2, <1>3, FrozenIs
<1> HIDE DEF frozen
<1>5. VolumeToday(lots) >= frozen.today /\ VolumeHistory(lots) >= frozen.history
  BY <1>1, <1>4
<1>. QED
  BY <1>5 DEF LeavesFrozen, frozen

\* Nothing is frozen in the evening (settle.go Settle).
LEMMA SettleCovered ==
  ASSUME NEW today \in Int, NEW s, SimTyped(today, s), NEW price \in SettlementType, CanSettle(s, price)
  PROVE  Covered(NextMorning(s, price))
<1> DEFINE after == NextMorning(s, price)
<1>1. B!IDs(s.book) = {}
  BY DEF CanSettle
<1>2. after.positions = Rolled(s, price) /\ after.book = s.book
  BY DEF NextMorning, NewSimulator
<1> HIDE DEF after
<1>3. ASSUME NEW i \in Instruments, NEW held \in Directions
      PROVE  LeavesFrozen(after, i, held, after.positions[i][held])
  <2>1. after.positions[i][held] \in Seq(LotSet)
    BY <1>2, <1>3, RolledCarries DEF PositionsTyped
  <2>2. Closing(after.book, i, held) = {}
    BY <1>1, <1>2 DEF Closing
  <2>. QED
    BY <2>1, <2>2, NoneFrozen
<1>. QED
  BY <1>1, <1>2, <1>3 DEF Covered, FrozenFits, after

\* Restore looks at the lots of orders again (state.go Restore).
LEMMA RestoredCovered ==
  ASSUME NEW today \in Int, NEW s, Readable(s), OrdersMean(s), Restorable(s, today)
  PROVE  Covered(s)
<1>1. SimTyped(today, s) /\ RestorableRest(s, today)
  BY RestoredTyped DEF Restorable
<1>2. \A id \in B!IDs(s.book) : s.book.live[id] \in [order : OrderType, sequence : Int]
  BY DEF Readable
<1>3. ASSUME NEW id \in B!IDs(s.book) PROVE OrderLots(s.book.live[id].order)
  <2> DEFINE order == s.book.live[id].order
             request == TradeOf(order)
             tr == DatedTrade(request)
  <2>1. order \in OrderType /\ RestorableOrder(s, order) /\ OrderTyped(order)
    BY <1>1, <1>2, <1>3 DEF RestorableRest, SimTyped, BookTyped
  <2>2. request \in TradeType /\ tr.inst = order.inst /\ order.today \in Nat /\ order.history \in Nat
    <3> HIDE DEF order
    <3>. QED
      BY <2>1, OrderAsTrade DEF OrderTyped, OrderType
  <2> SUFFICES OrderLots(order)
    OBVIOUS
  <2>3. CASE tr.offset = "Close"
    <3>1. Contract[order.inst].dateType = "NoUseHistory"
      BY <1>3, <2>2, <2>3 DEF OrdersMean
    <3>2. order.today + order.history = order.volume
      <4> HIDE DEF order
      <4>. QED
        BY <2>1, <2>3 DEF RestorableOrder
    <3> HIDE DEF order
    <3>. QED
      BY <2>2, <2>3, <3>1, <3>2 DEF OrderLots
  <2>4. CASE tr.offset # "Close"
    <3> HIDE DEF order
    <3>1. CanFreezeOrder(s, request) /\ FrozenOrder(s, request) = order
      BY <2>1, <2>4 DEF RestorableOrder
    <3>2. OrderLots(FrozenOrder(s, request))
      BY <1>1, <2>2, <3>1, FrozenOrderLots
    <3>. QED
      BY <3>1, <3>2
  <2>. QED
    BY <2>3, <2>4
<1>4. ASSUME NEW i \in Instruments, i \notin Held(s.positions), NEW held \in Directions
      PROVE  LeavesFrozen(s, i, held, s.positions[i][held])
  <2>1. s.positions[i][held] \in Seq(LotSet)
    BY <1>1 DEF SimTyped, PositionsTyped
  <2>2. ASSUME NEW id \in B!IDs(s.book), s.book.live[id].order.inst = i,
               s.book.live[id].order.offset # "Open"
        PROVE  FALSE
    <3> DEFINE order == s.book.live[id].order
               tr == DatedTrade(TradeOf(order))
    <3>1. tr.offset # "Open" => tr.inst \in Held(s.positions)
      BY <2>2 DEF OrdersMean
    <3>2. tr.inst = i /\ tr.offset # "Open"
      <4>1. OrderTyped(order)
        BY <1>1, <2>2 DEF SimTyped, BookTyped
      <4> HIDE DEF order
      <4>. QED
        BY <2>2, <4>1, OrderAsTrade DEF order
    <3>. QED
      BY <1>4, <3>1, <3>2
  <2>3. Closing(s.book, i, held) = {}
    BY <2>2 DEF Closing, Closes
  <2>. QED
    BY <2>1, <2>3, NoneFrozen
<1>5. FrozenFits(s)
  BY <1>1, <1>4 DEF FrozenFits, HeldFits, RestorableRest
<1>. QED
  BY <1>3, <1>5 DEF Covered

-----------------------------------------------------------------------------
(* Margins. *)

\* Two margins of which the company's is not the smaller.
Fair(margin) ==
  margin.exchange \in Nat /\ margin.company \in Nat /\ margin.exchange <= margin.company

\* Products of natural numbers are such.
LEMMA ProductNat ==
  ASSUME NEW x \in Nat, NEW y \in Nat
  PROVE  x * y \in Nat
OBVIOUS

\* Of two sums the one with the larger terms is the larger.
LEMMA SumMonotone ==
  ASSUME NEW S, IsFiniteSet(S), NEW F \in [S -> Nat], NEW G \in [S -> Nat], \A x \in S : F[x] <= G[x]
  PROVE  SumFunction(F) \in Nat /\ SumFunction(G) \in Nat /\ SumFunction(F) <= SumFunction(G)
<1> DEFINE D == [x \in S |-> G[x] - F[x]]
<1>1. D \in [S -> Nat] /\ D \in [S -> Int] /\ F \in [S -> Int] /\ G \in [S -> Int]
  OBVIOUS
<1>2. \A x \in S : G[x] = F[x] + D[x]
  OBVIOUS
<1> HIDE DEF D
<1>3. SumFunction(G) = SumFunction(F) + SumFunction(D)
  BY <1>1, <1>2, SumOfSums
<1>4. SumFunction(F) \in Nat /\ SumFunction(G) \in Nat /\ SumFunction(D) \in Nat
  BY <1>1, SumNat
<1>. QED
  BY <1>3, <1>4

LEMMA SumsFair ==
  ASSUME NEW S, IsFiniteSet(S), NEW F, DOMAIN F = S, \A x \in S : Fair(F[x])
  PROVE  Fair(SumMargins(F))
<1> DEFINE e == [x \in S |-> F[x].exchange]
           c == [x \in S |-> F[x].company]
<1>1. e \in [S -> Nat] /\ c \in [S -> Nat] /\ \A x \in S : e[x] <= c[x]
  BY DEF Fair
<1>2. SumMargins(F) = [exchange |-> SumFunction(e), company |-> SumFunction(c)]
  BY DEF SumMargins
<1> HIDE DEF e, c
<1>3. SumFunction(e) \in Nat /\ SumFunction(c) \in Nat /\ SumFunction(e) <= SumFunction(c)
  BY <1>1, SumMonotone
<1>. QED
  BY <1>2, <1>3 DEF Fair

\* The larger side, or both (margin/margin.go Compute).
LEMMA GroupFair ==
  ASSUME NEW long, Fair(long), NEW short, Fair(short), NEW larger
  PROVE  Fair(GroupMargin(long, short, larger))
<1>1. Fair(BothSides(long, short))
  BY DEF Fair, BothSides
<1>2. Fair(LargerSide(long, short))
  <2>1. /\ Max({long.exchange, short.exchange})
             = IF long.exchange >= short.exchange THEN long.exchange ELSE short.exchange
        /\ Max({long.company, short.company})
             = IF long.company >= short.company THEN long.company ELSE short.company
    BY MaxOfTwo DEF Fair
  <2>. QED
    BY <2>1 DEF Fair, LargerSide
<1>. QED
  BY <1>1, <1>2 DEF GroupMargin

\* The lots of one side.
LEMMA SideFair ==
  ASSUME NEW today, NEW lots \in Seq(LotSet), RestorableSide(today, lots),
         NEW rate \in [byMoney : Nat, byVolume : Nat], NEW addOn \in Nat, NEW last \in Nat, NEW pre \in Nat
  PROVE  Fair(SideMargin(rate, addOn, lots, last, pre))
<1> DEFINE n == Len(lots)
           price == [i \in 1 .. n |-> LotPrice(lots[i], last, pre)]
           e == [i \in 1 .. n |-> Exchange(rate, price[i], lots[i].volume)]
           more == [i \in 1 .. n |-> lots[i].volume * price[i] * addOn]
           c == [i \in 1 .. n |-> Company(rate, addOn, price[i], lots[i].volume)]
<1>1. n \in Nat /\ DOMAIN lots = 1 .. n
  OBVIOUS
<1>2. ASSUME NEW i \in 1 .. n PROVE lots[i].volume \in Nat /\ price[i] \in Nat
  <2>1. lots[i] \in LotSet /\ lots[i].openPrice > 0
    BY <1>1 DEF RestorableSide
  <2>2. lots[i].openPrice \in Nat /\ lots[i].volume \in Nat
    BY <2>1 DEF LotSet
  <2>. QED
    BY <2>2, MarginChoices DEF LotPrice
<1> HIDE DEF price
<1>3. rate.byMoney \in Nat /\ rate.byVolume \in Nat
  OBVIOUS
<1>4. ASSUME NEW i \in 1 .. n
      PROVE  e[i] \in Nat /\ more[i] \in Nat /\ c[i] = 1 * e[i] + 1 * more[i]
  <2> DEFINE money == lots[i].volume * price[i]
             a == money * rate.byMoney
             b == lots[i].volume * rate.byVolume
             d == money * addOn
  <2>1. money \in Nat
    BY <1>2, ProductNat
  <2> HIDE DEF money
  <2>2. a \in Nat /\ b \in Nat /\ d \in Nat
    BY <1>2, <1>3, <2>1, ProductNat
  <2>3. e[i] = a + b /\ more[i] = d /\ c[i] = a + b + d
    BY DEF Exchange, Company, money
  <2> HIDE DEF a, b, d, e, more, c
  <2>. QED
    BY <2>2, <2>3
<1> HIDE DEF more
<1>5. /\ e \in Seq(Int) /\ c \in Seq(Int) /\ more \in Seq(Int) /\ Len(e) = n /\ Len(c) = n /\ Len(more) = n
  <2>1. DOMAIN more = 1 .. n
    BY DEF more
  <2>2. \A i \in 1 .. n : e[i] \in Int /\ c[i] \in Int /\ more[i] \in Int
    <3> HIDE DEF e, c
    <3>. QED
      BY <1>4
  <2>3. /\ e \in [1 .. n -> Int] /\ c \in [1 .. n -> Int]
    <3>1. DOMAIN e = 1 .. n /\ DOMAIN c = 1 .. n /\ e = [i \in 1 .. n |-> e[i]] /\ c = [i \in 1 .. n |-> c[i]]
      OBVIOUS
    <3> HIDE DEF e, c
    <3>. QED
      BY <2>2, <3>1
  <2>4. more \in [1 .. n -> Int]
    <3>1. more = [i \in 1 .. n |-> more[i]]
      BY DEF more
    <3>. QED
      BY <2>2, <3>1
  <2> HIDE DEF e, c
  <2>5. \A s \in [1 .. n -> Int] : s \in Seq(Int) /\ Len(s) = n
    BY <1>1
  <2>. QED
    BY <2>3, <2>4, <2>5
<1>6. SideMargin(rate, addOn, lots, last, pre) = [exchange |-> Total(e), company |-> Total(c)]
  <2>1. e = [i \in DOMAIN lots |-> Exchange(rate, LotPrice(lots[i], last, pre), lots[i].volume)]
    BY <1>1 DEF price
  <2>2. c = [i \in DOMAIN lots |-> Company(rate, addOn, LotPrice(lots[i], last, pre), lots[i].volume)]
    BY <1>1 DEF price
  <2> HIDE DEF e, c
  <2>. QED
    BY <2>1, <2>2 DEF SideMargin, Total
<1> HIDE DEF e, c
<1>7. Total(c) = 1 * Total(e) + 1 * Total(more)
  BY <1>4, <1>5, TotalCombined
<1>8. Total(e) \in Nat /\ Total(more) \in Nat
  <2>1. (\A i \in 1 .. Len(e) : e[i] >= 0) /\ (\A i \in 1 .. Len(more) : more[i] >= 0)
    BY <1>4, <1>5
  <2>2. Total(e) \in Nat
    BY <1>5, <2>1, TotalNat
  <2>3. Total(more) \in Nat
    BY <1>5, <2>1, TotalNat
  <2>. QED
    BY <2>2, <2>3
<1> DEFINE x == Total(e)
           y == Total(c)
           z == Total(more)
<1>9. x \in Nat /\ z \in Nat /\ y = 1 * x + 1 * z
  BY <1>7, <1>8
<1> HIDE DEF x, y, z
<1>10. x \in Nat /\ y \in Nat /\ x <= y
  BY <1>9
<1>. QED
  BY <1>6, <1>10 DEF Fair, x, y

\* Those of a direction of some instruments.
MembersSide(members, dir, positions, prices) ==
  [i \in members |-> SideMargin(Contract[i].margin[dir], Contract[i].addOn,
                                positions[i][dir], prices[i].last, prices[i].pre)]

LEMMA SideOfFair ==
  ASSUME NEW today, NEW positions, PositionsTyped(today, positions), NEW prices \in PricesType,
         NEW members \in SUBSET Instruments, NEW dir \in Directions
  PROVE  /\ IsFiniteSet(members)
         /\ SideOf(members, dir, positions, prices) = SumMargins(MembersSide(members, dir, positions, prices))
         /\ \A i \in members : Fair(MembersSide(members, dir, positions, prices)[i])
         /\ Fair(SideOf(members, dir, positions, prices))
<1> DEFINE G == MembersSide(members, dir, positions, prices)
<1>1. IsFiniteSet(members)
  BY InstrumentsFinite, FS_Subset
<1>2. ASSUME NEW i \in members PROVE Fair(G[i])
  <2>1. i \in Instruments
    OBVIOUS
  <2>2. positions[i][dir] \in Seq(LotSet) /\ RestorableSide(today, positions[i][dir])
    BY <2>1 DEF PositionsTyped
  <2>3. prices[i].last \in Nat /\ prices[i].pre \in Nat
    BY <2>1 DEF PricesType
  <2>4. Contract[i].margin[dir] \in [byMoney : Nat, byVolume : Nat] /\ Contract[i].addOn \in Nat
    BY <2>1, ContractTyped DEF Directions
  <2>. QED
    BY <2>2, <2>3, <2>4, SideFair DEF MembersSide
<1>3. DOMAIN G = members /\ SideOf(members, dir, positions, prices) = SumMargins(G)
  BY Zenon DEF SideOf, MembersSide
<1>4. Fair(SumMargins(G))
  <2> HIDE DEF G
  <2>. QED
    BY <1>1, <1>2, <1>3, SumsFair
<1>. QED
  BY <1>1, <1>2, <1>3, <1>4

\* Those of a group.
LEMMA GroupOfFair ==
  ASSUME NEW today, NEW positions, PositionsTyped(today, positions), NEW prices \in PricesType, NEW key
  PROVE  Fair(GroupOf(key, positions, prices))
<1> DEFINE members == {i \in Held(positions) : KeyOf(i) = key}
           larger == \E i \in members : Contract[i].maxMarginSide
<1>1. members \in SUBSET Instruments /\ "Buy" \in Directions /\ "Sell" \in Directions
  BY DEF Directions, Held
<1>2. GroupOf(key, positions, prices)
        = GroupMargin(SideOf(members, "Buy", positions, prices), SideOf(members, "Sell", positions, prices), larger)
  BY DEF GroupOf
<1> HIDE DEF members, larger
<1>3. Fair(SideOf(members, "Buy", positions, prices)) /\ Fair(SideOf(members, "Sell", positions, prices))
  BY <1>1, SideOfFair
<1>. QED
  BY <1>2, <1>3, GroupFair

\* What all held lots occupy (trade.go value).
LEMMA HeldMarginFair ==
  ASSUME NEW today, NEW positions, PositionsTyped(today, positions), NEW prices \in PricesType
  PROVE  /\ IsFiniteSet({KeyOf(i) : i \in Held(positions)})
         /\ Fair(HeldMargin(positions, prices))
<1> DEFINE keys == {KeyOf(i) : i \in Held(positions)}
           F == [key \in keys |-> GroupOf(key, positions, prices)]
<1>1. IsFiniteSet(Held(positions))
  BY InstrumentsFinite, FS_Subset DEF Held
<1>2. IsFiniteSet(keys)
  <2> DEFINE f == [i \in Held(positions) |-> KeyOf(i)]
  <2>1. f \in [Held(positions) -> keys] /\ \A key \in keys : \E i \in Held(positions) : f[i] = key
    OBVIOUS
  <2> HIDE DEF f, keys
  <2>2. f \in Surjection(Held(positions), keys)
    BY <2>1 DEF Surjection
  <2>. QED
    BY <1>1, <2>2, FS_Surjection
<1>3. \A key \in keys : Fair(F[key])
  BY GroupOfFair
<1>4. DOMAIN F = keys /\ HeldMargin(positions, prices) = SumMargins(F)
  BY DEF HeldMargin
<1>5. Fair(HeldMargin(positions, prices))
  <2> HIDE DEF F, keys
  <2>. QED
    BY <1>2, <1>3, <1>4, SumsFair
<1>. QED
  BY <1>2, <1>5

\* What the account is told of a valuation, and what else it holds (trade.go, settle.go).
LEMMA ToldAccount ==
  ASSUME NEW a, DOMAIN a = AccountFields, NEW margin, NEW profit
  PROVE  LET told == WithValuation(a, margin, profit) IN
           /\ told.currMargin = margin.company /\ told.exchangeMargin = margin.exchange
           /\ \A field \in AccountFields \ {"currMargin", "exchangeMargin", "positionProfit"} :
                told[field] = a[field]
<1> DEFINE held == A!WithMargin(a, margin.company, margin.exchange)
<1>1. /\ DOMAIN held = AccountFields
      /\ held.currMargin = margin.company /\ held.exchangeMargin = margin.exchange
      /\ \A field \in AccountFields \ {"currMargin", "exchangeMargin"} : held[field] = a[field]
  BY DEF A!WithMargin, AccountFields
<1> HIDE DEF held
<1>. QED
  BY <1>1 DEF held, WithValuation, A!WithPositionProfit, AccountFields

\* A settled account passes its check: nothing of the day before is counted (account.go Settle).
LEMMA SettledPasses ==
  ASSUME NEW a, DOMAIN a = AccountFields, NEW margin, NEW profit
  PROVE  A!Check(WithValuation(A!SettledAccount(a), margin, profit))
<1> DEFINE fresh == A!NewAccount(A!Balance(a) + a.commission - a.settleCommission, a.algorithm)
           settled == A!SettledAccount(a)
           told == WithValuation(settled, margin, profit)
           zeros == {"frozenMargin", "frozenCommission", "frozenCash",
                     "commission", "commissionTrades", "settleCommission"}
<1>1. DOMAIN fresh = AccountFields /\ \A field \in zeros : fresh[field] = 0
  BY DEF A!NewAccount, AccountFields
<1>2. settled = [fresh EXCEPT !.currMargin = a.currMargin, !.exchangeMargin = a.exchangeMargin]
  BY DEF A!SettledAccount
<1> HIDE DEF fresh, settled
<1>3. DOMAIN settled = AccountFields /\ \A field \in zeros : settled[field] = 0
  BY <1>1, <1>2 DEF AccountFields
<1>4. \A field \in zeros : told[field] = 0
  BY <1>3, ToldAccount DEF AccountFields
<1> HIDE DEF told
<1>5. Cent * 0 = 0
  BY CentPositive
<1>. QED
  BY <1>4, <1>5 DEF A!Check, A!Distance, told, settled

\* The account refuses nothing of an evening: not the margins, not its check (settle.go Settle).
LEMMA EveningSettles ==
  ASSUME NEW today \in Int, NEW s, SimTyped(today, s), NEW price \in SettlementType, CanSettle(s, price)
  PROVE  AccountSettles(s, price) /\ Settled(s, price) = NextMorning(s, price)
<1> DEFINE tonight == SettlementPrices(s, price)
           next == NextPrices(s, price)
           rolled == Rolled(s, price)
           dusk == HeldMargin(s.positions, tonight)
           dawn == HeldMargin(rolled, next)
           earned == Profit(s.positions, tonight)
           open == Profit(rolled, next)
           evening == WithValuation(s.acc, dusk, earned)
           settled == A!SettledAccount(evening)
           morning == WithValuation(settled, dawn, open)
<1>1. tonight \in PricesType /\ next \in PricesType /\ PositionsTyped(today, s.positions)
  BY EveningPrices DEF SimTyped
<1>2. PositionsTyped(today + 1, rolled)
  BY RolledCarries
<1>3. EveningAccount(s, price) = evening /\ NextMorning(s, price).acc = morning
  BY DEF EveningAccount, NextMorning, NewSimulator, Revalued
<1>4. DOMAIN s.acc = AccountFields /\ A!CanSettleAccount(s.acc)
  BY DEF SimTyped, AccountTyped, CanSettle
<1> HIDE DEF tonight, next, rolled
<1>5. Fair(dusk) /\ Fair(dawn)
  BY <1>1, <1>2, HeldMarginFair
<1> HIDE DEF dusk, dawn, earned, open
<1>6. /\ evening.currMargin = dusk.company /\ evening.exchangeMargin = dusk.exchange
      /\ \A field \in AccountFields \ {"currMargin", "exchangeMargin", "positionProfit"} :
           evening[field] = s.acc[field]
  BY <1>4, ToldAccount
<1>7. DOMAIN evening = AccountFields
  BY <1>4 DEF WithValuation, A!WithPositionProfit, A!WithMargin
<1> HIDE DEF evening
<1>8. A!CanSetMargin(evening.currMargin, evening.exchangeMargin)
  BY <1>5, <1>6 DEF Fair, A!CanSetMargin
<1>9. A!CanSettleAccount(evening)
  BY <1>4, <1>6 DEF A!CanSettleAccount, AccountFields
<1>10. DOMAIN settled = AccountFields
  BY DEF A!SettledAccount, A!NewAccount, AccountFields
<1>11. A!Check(morning)
  BY <1>7, SettledPasses
<1> HIDE DEF settled
<1>12. morning.currMargin = dawn.company /\ morning.exchangeMargin = dawn.exchange
  BY <1>10, ToldAccount
<1> HIDE DEF morning
<1>13. A!CanSetMargin(morning.currMargin, morning.exchangeMargin)
  BY <1>5, <1>12 DEF Fair, A!CanSetMargin
<1>14. AccountSettles(s, price)
  BY <1>3, <1>8, <1>9, <1>11, <1>13 DEF AccountSettles, AccountPasses
<1>. QED
  BY <1>14 DEF Settled

-----------------------------------------------------------------------------
(* Charges and the account's own check. *)

\* Money in and out (account.go Deposit, Withdraw).
LEMMA HealthyMoney ==
  ASSUME NEW a, Healthy(a), NEW amount \in Int
  PROVE  /\ A!CanDeposit(amount) => Healthy(A!Deposited(a, amount))
         /\ A!CanWithdraw(a, amount) => Healthy(A!Withdrawn(a, amount))
<1>1. A!CanDeposit(amount) => Healthy(A!Deposited(a, amount))
  BY DEF Healthy, A!AccountType, A!AccountOf, A!Check, A!CanDeposit, A!Deposited
<1>2. A!CanWithdraw(a, amount) => Healthy(A!Withdrawn(a, amount))
  BY DEF Healthy, A!AccountType, A!AccountOf, A!Check, A!CanWithdraw, A!Withdrawn
<1>. QED
  BY <1>1, <1>2

\* Freezing and releasing (account.go Freeze, Unfreeze).
LEMMA HealthyFreeze ==
  ASSUME NEW a, Healthy(a), NEW margin \in Int, NEW commission \in Int
  PROVE  /\ A!CanFreeze(a, margin, commission) => Healthy(A!WithFrozen(a, margin, commission))
         /\ A!CanUnfreeze(a, margin, commission) => Healthy(A!WithoutFrozen(a, margin, commission))
<1>1. ASSUME A!CanFreeze(a, margin, commission) PROVE Healthy(A!WithFrozen(a, margin, commission))
  <2> DEFINE b == A!WithFrozen(a, margin, commission)
  <2>1. a.frozenMargin + margin \in Nat /\ a.frozenCommission + commission \in Nat
    BY <1>1 DEF A!CanFreeze, Healthy, A!AccountType, A!AccountOf
  <2>2. b \in A!AccountType
    BY <2>1 DEF Healthy, A!AccountType, A!AccountOf, A!WithFrozen
  <2>3. A!Check(b) /\ b.currMargin >= b.exchangeMargin
    BY <2>1 DEF Healthy, A!AccountType, A!AccountOf, A!Check, A!WithFrozen
  <2>. QED
    BY <2>2, <2>3 DEF Healthy
<1>2. ASSUME A!CanUnfreeze(a, margin, commission) PROVE Healthy(A!WithoutFrozen(a, margin, commission))
  <2> DEFINE b == A!WithoutFrozen(a, margin, commission)
  <2>1. a.frozenMargin - margin \in Nat /\ a.frozenCommission - commission \in Nat
    BY <1>2 DEF A!CanUnfreeze, Healthy, A!AccountType, A!AccountOf
  <2>2. b \in A!AccountType
    BY <2>1 DEF Healthy, A!AccountType, A!AccountOf, A!WithoutFrozen
  <2>3. A!Check(b) /\ b.currMargin >= b.exchangeMargin
    BY <2>1 DEF Healthy, A!AccountType, A!AccountOf, A!Check, A!WithoutFrozen
  <2>. QED
    BY <2>2, <2>3 DEF Healthy
<1>. QED
  BY <1>1, <1>2

\* A charge with a profit, or neither (account.go AddCommission, AddCloseProfit).
LEMMA HealthyCharge ==
  ASSUME NEW a, Healthy(a), NEW fee \in Int, NEW atSettle \in Int, NEW profit \in Int,
         A!CanCharge(fee, atSettle)
  PROVE  Healthy(A!WithCloseProfit(A!Charged(a, fee, atSettle), profit))
<1> DEFINE c == A!Charged(a, fee, atSettle)
           trades == IF fee = 0 /\ atSettle = 0 THEN a.commissionTrades ELSE a.commissionTrades + 1
<1>1. a.commissionTrades \in Nat /\ Cent * a.commissionTrades \in Nat
      /\ Cent * (a.commissionTrades + 1) = Cent * a.commissionTrades + Cent
  BY CentPositive DEF Healthy, A!AccountType, A!AccountOf
<1>2. c \in A!AccountType /\ c.currMargin >= c.exchangeMargin
  <2>1. fee \in Nat /\ atSettle \in Nat
    BY DEF A!CanCharge
  <2>2. trades \in Nat /\ a.commission + fee \in Nat /\ a.settleCommission + atSettle \in Nat
    BY <2>1 DEF Healthy, A!AccountType, A!AccountOf
  <2>3. c = [a EXCEPT !.commission = a.commission + fee,
                      !.settleCommission = a.settleCommission + atSettle,
                      !.commissionTrades = trades]
    BY DEF A!Charged, Healthy, A!AccountType, A!AccountOf
  <2> HIDE DEF c, trades
  <2>. QED
    BY <2>2, <2>3 DEF Healthy, A!AccountType, A!AccountOf
<1>3. A!Check(c)
  <2>1. CASE fee = 0 /\ atSettle = 0
    BY <2>1, <1>1, CentPositive DEF Healthy, A!AccountType, A!AccountOf, A!Check, A!Charged, A!Distance
  <2>2. CASE ~(fee = 0 /\ atSettle = 0)
    <3>1. c.commissionTrades = a.commissionTrades + 1
      BY <2>2 DEF Healthy, A!AccountType, A!AccountOf, A!Charged
    <3>2. Cent * c.commissionTrades = Cent * a.commissionTrades + Cent
      BY <3>1, <1>1
    <3>. QED
      BY <3>1, <3>2, <1>1, CentPositive
      DEF Healthy, A!AccountType, A!AccountOf, A!Check, A!Charged, A!CanCharge, A!Distance
  <2>. QED
    BY <2>1, <2>2
<1> HIDE DEF c
<1>4. Healthy(A!WithCloseProfit(c, profit))
  BY <1>2, <1>3 DEF Healthy, A!AccountType, A!AccountOf, A!Check, A!WithCloseProfit
<1>. QED
  BY <1>4 DEF c

\* What it is told after a valuation (account.go SetMargin, SetPositionProfit).
LEMMA HealthyTold ==
  ASSUME NEW a, Healthy(a), NEW margin, Fair(margin), NEW profit \in Int
  PROVE  Healthy(WithValuation(a, margin, profit))
<1> DEFINE b == A!WithMargin(a, margin.company, margin.exchange)
<1>1. b \in A!AccountType
  BY DEF Fair, Healthy, A!AccountType, A!AccountOf, A!WithMargin
<1>2. A!Check(b) /\ b.currMargin >= b.exchangeMargin
  BY DEF Fair, Healthy, A!AccountType, A!AccountOf, A!Check, A!WithMargin
<1> HIDE DEF b
<1>3. Healthy(A!WithPositionProfit(b, profit))
  BY <1>1, <1>2 DEF Healthy, A!AccountType, A!AccountOf, A!Check, A!WithPositionProfit
<1>. QED
  BY <1>3 DEF b, WithValuation

\* The evening (account.go Settle).
LEMMA HealthyEvening ==
  ASSUME NEW a, Healthy(a)
  PROVE  Healthy(A!SettledAccount(a))
<1> DEFINE base == A!Balance(a) + a.commission - a.settleCommission
           b == A!SettledAccount(a)
<1>1. base \in Int
  BY DEF Healthy, A!AccountType, A!AccountOf, A!Balance, A!StaticBalance
<1>2. A!NewAccount(base, a.algorithm) \in A!AccountType
  BY <1>1 DEF Healthy, A!AccountType, A!AccountOf, A!NewAccount
<1>3. b \in A!AccountType
  BY <1>2 DEF Healthy, A!AccountType, A!AccountOf, A!SettledAccount
<1>4. A!Check(b) /\ b.currMargin >= b.exchangeMargin
  <2>1. Cent * 0 = 0
    BY CentPositive
  <2>. QED
    BY <2>1 DEF Healthy, A!AccountType, A!AccountOf, A!Check, A!Distance, A!SettledAccount, A!NewAccount
<1>. QED
  BY <1>3, <1>4 DEF Healthy

LEMMA Division ==
  ASSUME NEW x \in Int, NEW d \in Nat \ {0}
  PROVE  /\ x \div d \in Int
         /\ d * (x \div d) <= x
         /\ x < d * (x \div d) + d
OBVIOUS

LEMMA OnlyMultiple ==
  ASSUME NEW d \in Nat \ {0}, NEW n \in Int, -d < d * n, d * n < 2 * d
  PROVE  n \in {0, 1}
OBVIOUS

\* Rounding to the nearest cent moves an amount by half a cent at most.
LEMMA HalfUpIsNear ==
  ASSUME NEW x \in Int
  PROVE  /\ HalfUpToCent(x) \in Int
         /\ 2 * HalfUpToCent(x) <= 2 * x + Cent
         /\ 2 * x - Cent < 2 * HalfUpToCent(x)
         /\ \E n \in Int : HalfUpToCent(x) = Cent * n
<1> DEFINE n == (2 * x + Cent) \div (2 * Cent)
<1>1. Cent \in Nat \ {0} /\ 2 * Cent \in Nat \ {0} /\ 2 * x + Cent \in Int
  BY CentPositive
<1>2. /\ n \in Int
      /\ (2 * Cent) * n <= 2 * x + Cent
      /\ 2 * x + Cent < (2 * Cent) * n + 2 * Cent
  BY <1>1, Division
<1>3. HalfUpToCent(x) = Cent * n
  BY DEF HalfUpToCent
<1> HIDE DEF n
<1>4. (2 * Cent) * n = 2 * (Cent * n) /\ Cent * n \in Int
  BY <1>1, <1>2
<1> QED
  BY <1>1, <1>2, <1>3, <1>4

LEMMA TruncationIsNear ==
  ASSUME NEW x \in Int
  PROVE  /\ TruncateToCent(x) \in Int
         /\ TruncateToCent(x) <= x
         /\ x < TruncateToCent(x) + Cent
         /\ \E n \in Int : TruncateToCent(x) = Cent * n
<1> DEFINE n == x \div Cent
<1>1. Cent \in Nat \ {0}
  BY CentPositive
<1>2. n \in Int /\ Cent * n <= x /\ x < Cent * n + Cent
  BY <1>1, Division
<1>3. TruncateToCent(x) = Cent * n
  BY DEF TruncateToCent
<1> HIDE DEF n
<1> QED
  BY <1>1, <1>2, <1>3

\* What AddCommission demands of the two fees of a trade.
Near(charge) ==
  /\ charge.fee \in Int /\ charge.atSettle \in Int
  /\ charge.atSettle - charge.fee \in -Cent .. Cent

(***************************************************************************)
(* Rounding a whole fee, or only its proportional part and adding whole    *)
(* cents to that, come to within a cent of each other: both results are    *)
(* whole cents less than two cents apart when the fee is truncated.        *)
(***************************************************************************)
LEMMA RoundingsAreNear ==
  ASSUME NEW m \in Int, NEW k \in Int
  PROVE  Near([fee |-> Rounded(m + Cent * k), atSettle |-> HalfUpToCent(m) + Cent * k])
<1> DEFINE settle == HalfUpToCent(m) + Cent * k
           fee    == Rounded(m + Cent * k)
<1>1. Cent \in Nat \ {0} /\ Cent * k \in Int /\ m + Cent * k \in Int
  BY CentPositive
<1>2. /\ settle \in Int
      /\ 2 * settle <= 2 * (m + Cent * k) + Cent
      /\ 2 * (m + Cent * k) - Cent < 2 * settle
  <2> DEFINE whole == Cent * k
             near  == HalfUpToCent(m)
  <2>1. near \in Int /\ 2 * near <= 2 * m + Cent /\ 2 * m - Cent < 2 * near
    BY HalfUpIsNear
  <2>2. whole \in Int /\ Cent \in Int
    BY <1>1
  <2> HIDE DEF whole, near
  <2>3. /\ near + whole \in Int
        /\ 2 * (near + whole) <= 2 * (m + whole) + Cent
        /\ 2 * (m + whole) - Cent < 2 * (near + whole)
    BY <2>1, <2>2
  <2> QED
    BY <2>3 DEF whole, near
<1>3. ASSUME FeeRounding = "NoRounding"
      PROVE  fee \in Int /\ settle - fee \in -Cent .. Cent
  <2>1. fee = m + Cent * k
    BY <1>3 DEF Rounded
  <2> HIDE DEF settle, fee
  <2>2. fee \in Int /\ settle - fee \in -Cent .. Cent
    BY <1>1, <1>2, <2>1
  <2> QED
    BY <2>2
<1>4. ASSUME FeeRounding = "HalfUpToCent"
      PROVE  fee \in Int /\ settle - fee \in -Cent .. Cent
  <2>1. fee = HalfUpToCent(m + Cent * k)
    BY <1>4 DEF Rounded
  <2>2. /\ fee \in Int
        /\ 2 * fee <= 2 * (m + Cent * k) + Cent
        /\ 2 * (m + Cent * k) - Cent < 2 * fee
    BY <1>1, <2>1, HalfUpIsNear
  <2> HIDE DEF settle, fee
  <2>3. settle - fee \in -Cent .. Cent
    BY <1>1, <1>2, <2>2
  <2> QED
    BY <2>2, <2>3
<1>5. ASSUME FeeRounding = "TruncateToCent"
      PROVE  fee \in Int /\ settle - fee \in -Cent .. Cent
  <2>1. fee = TruncateToCent(m + Cent * k)
    BY <1>5 DEF Rounded
  <2>2. /\ fee \in Int
        /\ fee <= m + Cent * k
        /\ m + Cent * k < fee + Cent
        /\ \E n \in Int : fee = Cent * n
    BY <1>1, <2>1, TruncationIsNear
  <2>3. PICK n \in Int : fee = Cent * n
    BY <2>2
  <2>4. PICK h \in Int : HalfUpToCent(m) = Cent * h
    BY HalfUpIsNear
  <2>5. settle - fee = Cent * (h + k - n)
    BY <1>1, <2>3, <2>4
  <2> HIDE DEF settle, fee
  <2>6. -Cent < Cent * (h + k - n) /\ Cent * (h + k - n) < 2 * Cent
    BY <1>1, <1>2, <2>2, <2>5
  <2>7. h + k - n \in {0, 1}
    BY <1>1, <2>3, <2>4, <2>6, OnlyMultiple
  <2>8. settle - fee \in {0, Cent}
    BY <1>1, <2>5, <2>7
  <2> QED
    BY <1>1, <2>2, <2>8
<1> QED
  BY <1>2, <1>3, <1>4, <1>5, FeeChoices DEF Near

\* A rate whose part per lot is a whole number of cents.
Whole(rate) == rate \in [byMoney : Nat, byVolume : Nat] /\ \E k \in Nat : rate.byVolume = Cent * k

LEMMA SegmentIsNear ==
  ASSUME NEW rate, Whole(rate), NEW price \in Nat, NEW volume \in Nat
  PROVE  Near(Segment(rate, price, volume))
<1>1. PICK k \in Nat : rate.byVolume = Cent * k
  BY DEF Whole
<1>2. Cent \in Nat /\ volume * k \in Int /\ rate.byMoney \in Nat
  BY CentPositive, <1>1 DEF Whole
<1>3. PerLot(rate, volume) = Cent * (volume * k)
  BY <1>1, <1>2 DEF PerLot
<1>4. Money(rate, price, volume) \in Int
  BY <1>2 DEF Money
<1> QED
  BY <1>2, <1>3, <1>4, RoundingsAreNear DEF Segment, Near

\* A segment of no lots costs nothing.
LEMMA NoLotsNoFee ==
  ASSUME NEW rate, Whole(rate), NEW price \in Nat
  PROVE  Segment(rate, price, 0).fee = 0 /\ Segment(rate, price, 0).atSettle = 0
<1>1. Cent \in Nat \ {0} /\ rate.byMoney \in Nat /\ rate.byVolume \in Nat
  BY CentPositive DEF Whole
<1>2. HalfUpToCent(0) = 0
  <2>1. PICK n \in Int : HalfUpToCent(0) = Cent * n
    BY HalfUpIsNear
  <2>2. 2 * (Cent * n) <= Cent /\ -Cent < 2 * (Cent * n)
    BY <1>1, <2>1, HalfUpIsNear
  <2>3. Cent * (2 * n) = 2 * (Cent * n) /\ 2 * n \in Int
    BY <1>1
  <2>4. 2 * n \in {0, 1}
    BY <1>1, <2>2, <2>3, OnlyMultiple
  <2>5. n = 0
    BY <2>4
  <2> QED
    BY <1>1, <2>1, <2>5
<1>3. TruncateToCent(0) = 0
  <2>1. PICK n \in Int : TruncateToCent(0) = Cent * n
    BY TruncationIsNear
  <2>2. /\ TruncateToCent(0) \in Int
        /\ TruncateToCent(0) <= 0
        /\ 0 < TruncateToCent(0) + Cent
    BY TruncationIsNear
  <2>3. -Cent < Cent * n /\ Cent * n < 2 * Cent
    BY <1>1, <2>1, <2>2
  <2>4. n \in {0, 1}
    BY <1>1, <2>3, OnlyMultiple
  <2> QED
    BY <1>1, <2>1, <2>2, <2>4
<1>4. Rounded(0) = 0
  BY <1>2, <1>3, FeeChoices DEF Rounded
<1>5. Money(rate, price, 0) = 0 /\ PerLot(rate, 0) = 0
  BY <1>1 DEF Money, PerLot
<1> QED
  BY <1>2, <1>4, <1>5 DEF Segment

(***************************************************************************)
(* A close that was accepted, split over two rates or not.  Split over two *)
(* it rounds to what the whole trade rounds to; otherwise one segment is   *)
(* of no lots and costs nothing.                                           *)
(***************************************************************************)
LEMMA AcceptedSplitIsNear ==
  ASSUME NEW close, Whole(close), NEW closeToday, Whole(closeToday), NEW price \in Nat,
         NEW today \in Nat, NEW rest \in Nat,
         SameAsWhole(close, closeToday, price, today, rest)
  PROVE  Near(Split(close, closeToday, price, today, rest))
<1> DEFINE a == Segment(closeToday, price, today)
           b == Segment(close, price, rest)
           split == Split(close, closeToday, price, today, rest)
<1>1. Near(a) /\ Near(b)
  BY SegmentIsNear
<1>2. split.fee = a.fee + b.fee /\ split.atSettle = a.atSettle + b.atSettle
  BY DEF Split, BothSegments
<1>3. ASSUME today > 0, rest > 0
      PROVE  Near(split)
  <2>1. PICK i \in Nat : close.byVolume = Cent * i
    BY DEF Whole
  <2>2. PICK j \in Nat : closeToday.byVolume = Cent * j
    BY DEF Whole
  <2> DEFINE money == Money(closeToday, price, today) + Money(close, price, rest)
             lots  == PerLot(closeToday, today) + PerLot(close, rest)
             k     == today * j + rest * i
  <2>3. Cent \in Nat /\ close.byMoney \in Nat /\ closeToday.byMoney \in Nat /\ k \in Int
    BY CentPositive DEF Whole
  <2>4. money \in Int
    BY <2>3 DEF Money
  <2>5. lots = Cent * k
    BY <2>1, <2>2, <2>3 DEF PerLot
  <2>6. split.fee = Rounded(money + lots) /\ split.atSettle = HalfUpToCent(money) + lots
    BY <1>3 DEF SameAsWhole
  <2> HIDE DEF money, lots, k, split
  <2>7. Near([fee |-> Rounded(money + Cent * k), atSettle |-> HalfUpToCent(money) + Cent * k])
    BY <2>3, <2>4, RoundingsAreNear
  <2> QED
    BY <2>5, <2>6, <2>7 DEF Near
<1>4. ASSUME today = 0
      PROVE  Near(split)
  <2>1. a = Segment(closeToday, price, 0)
    BY <1>4
  <2>2. a.fee = 0 /\ a.atSettle = 0
    BY <2>1, NoLotsNoFee
  <2> HIDE DEF a, b, split
  <2>3. split.fee = b.fee /\ split.atSettle = b.atSettle
    BY <1>1, <1>2, <2>2 DEF Near
  <2> QED
    BY <1>1, <2>3 DEF Near
<1>5. ASSUME rest = 0
      PROVE  Near(split)
  <2>1. b = Segment(close, price, 0)
    BY <1>5
  <2>2. b.fee = 0 /\ b.atSettle = 0
    BY <2>1, NoLotsNoFee
  <2> HIDE DEF a, b, split
  <2>3. split.fee = a.fee /\ split.atSettle = a.atSettle
    BY <1>1, <1>2, <2>2 DEF Near
  <2> QED
    BY <1>1, <2>3 DEF Near
<1>6. Near(split)
  <2> HIDE DEF split
  <2> QED
    BY <1>3, <1>4, <1>5
<1> QED
  BY <1>6

\* The fee of a trade is not negative, and within a cent of what the settlement will take.
ChargeFits(charge) == A!CanCharge(charge.fee, charge.atSettle)

\* No part of a fee is negative.
LEMMA RoundedNat ==
  ASSUME NEW x \in Nat
  PROVE  Rounded(x) \in Nat /\ HalfUpToCent(x) \in Nat
<1> DEFINE h == (2 * x + Cent) \div (2 * Cent)
           t == x \div Cent
<1>1. Cent \in Nat \ {0} /\ 2 * x + Cent \in Nat /\ 2 * Cent \in Nat \ {0}
  BY CentPositive
<1>2. h \in Nat /\ t \in Nat
  BY <1>1
<1>3. HalfUpToCent(x) = Cent * h /\ TruncateToCent(x) = Cent * t
  BY DEF HalfUpToCent, TruncateToCent
<1> HIDE DEF h, t
<1>4. HalfUpToCent(x) \in Nat /\ TruncateToCent(x) \in Nat
  BY <1>1, <1>2, <1>3, ProductNat
<1>. QED
  BY <1>4, FeeChoices DEF Rounded

LEMMA SegmentNat ==
  ASSUME NEW rate \in [byMoney : Nat, byVolume : Nat], NEW price \in Nat, NEW volume \in Nat
  PROVE  Segment(rate, price, volume).fee \in Nat /\ Segment(rate, price, volume).atSettle \in Nat
<1> DEFINE money == Money(rate, price, volume)
           lots == PerLot(rate, volume)
<1>1. money \in Nat /\ lots \in Nat
  <2>1. rate.byMoney \in Nat /\ rate.byVolume \in Nat
    OBVIOUS
  <2>2. volume * price \in Nat
    BY ProductNat
  <2>3. (volume * price) * rate.byMoney \in Nat /\ volume * rate.byVolume \in Nat
    BY <2>1, <2>2, ProductNat
  <2>. QED
    BY <2>3 DEF Money, PerLot
<1> HIDE DEF money, lots
<1>2. money + lots \in Nat
  BY <1>1
<1>3. Rounded(money + lots) \in Nat /\ HalfUpToCent(money) \in Nat
  BY <1>1, <1>2, RoundedNat
<1>. QED
  BY <1>1, <1>3 DEF Segment, money, lots

\* What is near is a fee the account takes.
LEMMA NearFits ==
  ASSUME NEW charge, charge.fee \in Nat, charge.atSettle \in Nat, Near(charge)
  PROVE  ChargeFits(charge)
<1>1. charge.atSettle - charge.fee <= Cent /\ charge.fee - charge.atSettle <= Cent
  BY CentPositive DEF Near
<1>. QED
  BY <1>1 DEF ChargeFits, A!CanCharge, A!Distance

LEMMA SegmentFits ==
  ASSUME NEW rate, Whole(rate), NEW price \in Nat, NEW volume \in Nat
  PROVE  ChargeFits(Segment(rate, price, volume))
<1>1. Near(Segment(rate, price, volume))
  BY SegmentIsNear
<1>2. Segment(rate, price, volume).fee \in Nat /\ Segment(rate, price, volume).atSettle \in Nat
  BY SegmentNat DEF Whole
<1>. QED
  BY <1>1, <1>2, NearFits

\* A close charged over both rates (trade.go chargeUndated).
LEMMA SplitFits ==
  ASSUME NEW close, Whole(close), NEW closeToday, Whole(closeToday), NEW price \in Nat,
         NEW today \in Nat, NEW rest \in Nat, SameAsWhole(close, closeToday, price, today, rest)
  PROVE  ChargeFits(Split(close, closeToday, price, today, rest))
<1> DEFINE a == Segment(closeToday, price, today)
           b == Segment(close, price, rest)
           split == Split(close, closeToday, price, today, rest)
<1>1. split.fee = a.fee + b.fee /\ split.atSettle = a.atSettle + b.atSettle
  BY DEF Split, BothSegments
<1>2. a.fee \in Nat /\ a.atSettle \in Nat /\ b.fee \in Nat /\ b.atSettle \in Nat
  BY SegmentNat DEF Whole
<1>3. Near(split)
  BY AcceptedSplitIsNear
<1> HIDE DEF split, a, b
<1>4. split.fee \in Nat /\ split.atSettle \in Nat
  BY <1>1, <1>2
<1>5. ChargeFits(split)
  BY <1>3, <1>4, NearFits
<1>. QED
  BY <1>5 DEF split

\* What trades and orders are charged (trade.go commission).
LEMMA ChargesFit ==
  ASSUME FeesInCents, NEW s, NEW tr \in TradeType,
         s.quotas[tr.inst][Opposite(tr.dir)] \in QuotaType,
         s.prices[tr.inst] \in [last : Nat, pre : Nat],
         ChargeKnown(s, tr)
  PROVE  ChargeFits(Charge(s, tr))
<1> DEFINE fee == Contract[tr.inst].fee
           price == FeePrice(s, tr)
           today == TodayLots(s, tr)
<1>1. tr.volume \in Nat /\ tr.inst \in Instruments /\ tr.price \in Nat /\ tr.offset \in Offsets
  BY DEF TradeType
<1>2. \A o \in {"Open", "Close", "CloseToday"} : Whole(fee[o])
  <2>1. ASSUME NEW o \in {"Open", "Close", "CloseToday"} PROVE Whole(fee[o])
    <3>1. fee[o] \in [byMoney : Nat, byVolume : Nat]
      BY <1>1, ContractTyped
    <3>2. \E k \in Nat : fee[o].byVolume = Cent * k
      BY <1>1 DEF FeesInCents
    <3>. QED
      BY <3>1, <3>2 DEF Whole
  <2>. QED
    BY <2>1
<1>3. price \in Nat
  BY <1>1 DEF FeePrice, BasisPrice
<1>4. today \in 0 .. tr.volume
  <2> DEFINE there == QuotaOf(s, tr).opened - QuotaOf(s, tr).charged
             volume == tr.volume
  <2>1. there \in Int /\ volume \in Nat
    BY <1>1 DEF QuotaOf, QuotaType
  <2>2. today = Min({volume, Max({there, 0})})
    BY DEF TodayLots, TodayTierLots, LotsAtToday
  <2> HIDE DEF there, volume, today
  <2>3. today = IF there <= 0 THEN 0 ELSE IF volume <= there THEN volume ELSE there
    BY <2>1, <2>2, LeastWanted
  <2>4. today \in 0 .. volume
    BY <2>1, <2>3
  <2>. QED
    BY <2>4 DEF volume
<1>5. CASE tr.offset = "Close"
  <2> DEFINE lots == IF fee["Close"] = fee["CloseToday"] THEN 0 ELSE today
             split == Split(fee["Close"], fee["CloseToday"], price, lots, tr.volume - lots)
  <2>1. Charge(s, tr) = split
    BY <1>5 DEF Charge, FeeOf, UndatedCharge
  <2>2. SameAsWhole(fee["Close"], fee["CloseToday"], price, lots, tr.volume - lots)
    <3>1. CASE fee["Close"] = fee["CloseToday"]
      BY <3>1 DEF SameAsWhole
    <3>2. CASE fee["Close"] # fee["CloseToday"]
      BY <1>5, <3>2 DEF ChargeKnown, FeeKnown, UndatedKnown
    <3>. QED
      BY <3>1, <3>2
  <2> HIDE DEF fee, price, today
  <2>3. lots \in Nat /\ tr.volume - lots \in Nat
    BY <1>1, <1>4
  <2> HIDE DEF lots
  <2>4. ChargeFits(split)
    BY <1>2, <1>3, <2>2, <2>3, SplitFits
  <2>. QED
    BY <2>1, <2>4
<1>6. CASE tr.offset # "Close"
  <2> DEFINE o == CASE tr.offset = "CloseYesterday" -> "Close" [] OTHER -> tr.offset
             a == Segment(fee[o], price, tr.volume)
  <2>1. o \in {"Open", "Close", "CloseToday"}
    BY <1>1, <1>6 DEF Offsets
  <2>2. Charge(s, tr).fee = a.fee /\ Charge(s, tr).atSettle = a.atSettle
    BY <1>6 DEF Charge, FeeOf
  <2> HIDE DEF o, fee, price
  <2>3. ChargeFits(a)
    BY <1>1, <1>2, <1>3, <2>1, SegmentFits
  <2> HIDE DEF a
  <2>. QED
    BY <2>2, <2>3 DEF ChargeFits
<1>. QED
  BY <1>5, <1>6

-----------------------------------------------------------------------------
(* What a usable simulator can pay, and what breaks it. *)

\* A valuation the account is told of is one it takes; then it is as healthy as it was.
LEMMA CommitTells ==
  ASSUME NEW today, NEW s, SimTyped(today, s), ~s.broken, Healthy(s.acc),
         NEW fee \in Int, NEW atSettle \in Int, NEW profit \in Int
  PROVE  LET after == Commit(s, fee, atSettle, profit) IN
           /\ A!CanCharge(fee, atSettle) => ~after.broken
           /\ ~after.broken => Healthy(after.acc)
<1> DEFINE booked == A!WithCloseProfit(A!Charged(s.acc, fee, atSettle), profit)
           told == Revalued(booked, s.positions, s.prices)
           after == Commit(s, fee, atSettle, profit)
<1>1. DOMAIN s = SimFields /\ PositionsTyped(today, s.positions) /\ s.prices \in PricesType
  BY DEF SimTyped
<1>2. A!CanCharge(fee, atSettle) => Healthy(booked)
  BY HealthyCharge
<1> HIDE DEF booked
<1>3. Fair(HeldMargin(s.positions, s.prices)) /\ Profit(s.positions, s.prices) \in Int
  BY <1>1, HeldMarginFair, ProfitInt
<1>4. A!CanCharge(fee, atSettle) => Healthy(told)
  BY <1>2, <1>3, HealthyTold DEF Revalued
<1>5. A!CanCharge(fee, atSettle) =>
        /\ told.currMargin = HeldMargin(s.positions, s.prices).company
        /\ told.exchangeMargin = HeldMargin(s.positions, s.prices).exchange
  <2>1. A!CanCharge(fee, atSettle) => DOMAIN booked = DOMAIN s.acc
    BY DEF booked, A!WithCloseProfit, A!Charged
  <2>2. DOMAIN s.acc = AccountFields
    BY DEF SimTyped, AccountTyped
  <2>. QED
    BY <2>1, <2>2 DEF Revalued, WithValuation, A!WithPositionProfit, A!WithMargin, AccountFields
<1>6. A!CanCharge(fee, atSettle) => A!CanSetMargin(told.currMargin, told.exchangeMargin) /\ A!Check(told)
  BY <1>3, <1>4, <1>5 DEF A!CanSetMargin, Fair, Healthy
<1>7. after = Committed(s, A!CanCharge(fee, atSettle), told)
  BY DEF Commit, told, booked
<1> HIDE DEF told, after
<1>8. CASE A!CanCharge(fee, atSettle)
  <2>1. after = [s EXCEPT !.acc = told]
    BY <1>6, <1>7, <1>8 DEF Committed
  <2>2. after.acc = told /\ after.broken = s.broken
    BY <1>1, <2>1 DEF SimFields
  <2>. QED
    BY <1>4, <1>8, <2>2 DEF after
<1>9. CASE ~A!CanCharge(fee, atSettle)
  <2>1. after = [s EXCEPT !.broken = TRUE]
    BY <1>7, <1>9 DEF Committed
  <2>2. after.broken = TRUE
    BY <1>1, <2>1 DEF SimFields
  <2>. QED
    BY <1>9, <2>2 DEF after
<1>. QED
  BY <1>8, <1>9

\* An order taken off the book takes its number along, and one put on has a number of its own.
LEMMA NumberedWithout ==
  ASSUME NEW book, Numbered(book), NEW id
  PROVE  Numbered(B!Remove(book, id))
<1> DEFINE rest == B!Remove(book, id)
<1>1. B!IDs(rest) = B!IDs(book) \ {id} /\ rest.last = book.last
      /\ \A x \in B!IDs(book) \ {id} : rest.live[x] = book.live[x]
  BY DEF B!IDs, B!Remove, B!Restrict, Restrict
<1> HIDE DEF rest
<1>2. Numbered(rest)
  BY <1>1 DEF Numbered, B!Sequence
<1>. QED
  BY <1>2 DEF rest

LEMMA NumberedWith ==
  ASSUME NEW book, Numbered(book), NEW id, id \notin B!IDs(book), id # NoID, NEW entry, NEW last \in Nat,
         last >= book.last, entry.sequence \in 1 .. last,
         \A x \in B!IDs(book) : B!Sequence(book, x) # entry.sequence
  PROVE  Numbered([live |-> B!InsertAt(book, id, entry), last |-> last])
<1> DEFINE after == [live |-> B!InsertAt(book, id, entry), last |-> last]
<1>1. B!IDs(after) = B!IDs(book) \cup {id} /\ after.last = last
  BY DEF B!IDs, B!InsertAt
<1>2. \A x \in B!IDs(book) \cup {id} : after.live[x] = IF x = id THEN entry ELSE book.live[x]
  BY DEF B!InsertAt
<1> HIDE DEF after
<1>3. \A x \in B!IDs(book) \cup {id} :
        B!Sequence(after, x) = IF x = id THEN entry.sequence ELSE B!Sequence(book, x)
  BY <1>2 DEF B!Sequence
<1>4. Numbered(after)
  <2>1. \A x \in B!IDs(after) : x # NoID /\ B!Sequence(after, x) \in 1 .. after.last
    BY <1>1, <1>3 DEF Numbered
  <2>2. \A a, b \in B!IDs(after) : a # b => B!Sequence(after, a) # B!Sequence(after, b)
    BY <1>1, <1>3 DEF Numbered
  <2>. QED
    BY <1>1, <2>1, <2>2 DEF Numbered
<1>. QED
  BY <1>4 DEF after

\* Orders of a book that has been changed at one place.
LEMMA FundedWritten ==
  ASSUME NEW s, DOMAIN s = SimFields, NEW a, Healthy(a), NEW book, Numbered(book),
         \A id \in B!IDs(book) : AmountsTyped(book.live[id].order)
  PROVE  Funded([s EXCEPT !.acc = a, !.book = book])
<1> DEFINE after == [s EXCEPT !.acc = a, !.book = book]
<1>1. after.acc = a /\ after.book = book
  BY DEF SimFields
<1> HIDE DEF after
<1>2. Funded(after)
  BY <1>1 DEF Funded
<1>. QED
  BY <1>2 DEF after

LEMMA ReleaseFunded ==
  ASSUME NEW s, DOMAIN s = SimFields, Funded(s), NEW id, CanRelease(s, id)
  PROVE  Funded(Released(s, id))
<1> DEFINE order == s.book.live[id].order
           a == A!WithoutFrozen(s.acc, order.margin, order.commission)
           book == B!Remove(s.book, id)
<1>1. order.margin \in Int /\ order.commission \in Int
      /\ A!CanUnfreeze(s.acc, order.margin, order.commission)
  BY DEF CanRelease, Funded, AmountsTyped
<1>2. Released(s, id) = [s EXCEPT !.acc = a, !.book = book]
  BY DEF Released
<1> HIDE DEF order
<1>3. Healthy(a)
  BY <1>1, HealthyFreeze DEF Funded
<1>4. Numbered(book)
  BY NumberedWithout DEF Funded
<1>5. B!IDs(book) \subseteq B!IDs(s.book) /\ \A x \in B!IDs(book) : book.live[x] = s.book.live[x]
  BY DEF B!IDs, B!Remove, B!Restrict, Restrict
<1>6. \A x \in B!IDs(book) : AmountsTyped(book.live[x].order)
  BY <1>5 DEF Funded
<1> HIDE DEF a, book
<1>7. Funded([s EXCEPT !.acc = a, !.book = book])
  BY <1>3, <1>4, <1>6, FundedWritten
<1>. QED
  BY <1>2, <1>7

\* An order on the book with the amounts it has frozen.
LEMMA HeldFunded ==
  ASSUME NEW s, DOMAIN s = SimFields, Funded(s), NEW id, id \notin B!IDs(s.book), id # NoID, NEW entry,
         AmountsTyped(entry.order), A!CanFreeze(s.acc, entry.order.margin, entry.order.commission),
         NEW last \in Nat, last >= s.book.last, entry.sequence \in 1 .. last,
         \A x \in B!IDs(s.book) : B!Sequence(s.book, x) # entry.sequence
  PROVE  Funded([s EXCEPT !.acc = A!WithFrozen(s.acc, entry.order.margin, entry.order.commission),
                          !.book = [live |-> B!InsertAt(s.book, id, entry), last |-> last]])
<1> DEFINE a == A!WithFrozen(s.acc, entry.order.margin, entry.order.commission)
           book == [live |-> B!InsertAt(s.book, id, entry), last |-> last]
<1>1. Healthy(a)
  BY HealthyFreeze DEF Funded, AmountsTyped
<1>2. Numbered(book)
  BY NumberedWith DEF Funded
<1>3. B!IDs(book) = B!IDs(s.book) \cup {id}
      /\ \A x \in B!IDs(s.book) \cup {id} : book.live[x] = IF x = id THEN entry ELSE s.book.live[x]
  BY DEF B!IDs, B!InsertAt
<1>4. \A x \in B!IDs(book) : AmountsTyped(book.live[x].order)
  BY <1>3 DEF Funded
<1> HIDE DEF a, book
<1>5. Funded([s EXCEPT !.acc = a, !.book = book])
  BY <1>1, <1>2, <1>4, FundedWritten
<1>. QED
  BY <1>5 DEF a, book

\* What an order freezes are amounts (submit.go FreezeOf).
LEMMA FreezeInt ==
  ASSUME NEW today, NEW s, SimTyped(today, s), NEW request \in TradeType
  PROVE  FrozenOrder(s, request).margin \in Int /\ FrozenOrder(s, request).commission \in Int
<1> DEFINE order == FrozenOrder(s, request)
           req == DatedTrade(request)
<1>1. req \in TradeType
  BY DatedTyped
<1> HIDE DEF req
<1>2. /\ req.inst \in Instruments /\ req.dir \in Directions /\ Opposite(req.dir) \in Directions
      /\ req.volume \in Nat /\ req.price \in Nat
  BY <1>1, OppositeIn DEF TradeType
<1>3. s.quotas[req.inst][Opposite(req.dir)] \in QuotaType /\ s.prices[req.inst] \in [last : Nat, pre : Nat]
  BY <1>2 DEF SimTyped, QuotasType, PricesType
<1>4. Charge(s, req).fee \in Int
  BY <1>1, <1>3, ChargeTyped
<1>5. OrderMargin(s, req) \in Int
  <2>1. Contract[req.inst].margin[req.dir] \in [byMoney : Nat, byVolume : Nat] /\ Contract[req.inst].addOn \in Nat
    BY <1>2, ContractTyped DEF Directions
  <2>2. FreezePrice(s, req) \in Nat
    BY <1>2, <1>3 DEF FreezePrice
  <2> DEFINE rate == Contract[req.inst].margin[req.dir]
             more == Contract[req.inst].addOn
             price == FreezePrice(s, req)
             money == req.volume * price
  <2>3. rate.byMoney \in Nat /\ rate.byVolume \in Nat /\ more \in Nat /\ price \in Nat
    BY <2>1, <2>2
  <2>4. OrderMargin(s, req) = 0 \/ OrderMargin(s, req) = money * rate.byMoney + req.volume * rate.byVolume + money * more
    BY DEF OrderMargin, Company, Exchange
  <2>5. money \in Nat
    BY <1>2, <2>3, ProductNat
  <2> HIDE DEF money, rate, more
  <2>6. money * rate.byMoney \in Nat /\ req.volume * rate.byVolume \in Nat /\ money * more \in Nat
    BY <1>2, <2>3, <2>5, ProductNat
  <2>. QED
    BY <2>4, <2>6
<1>6. order.margin = OrderMargin(s, req) /\ order.commission = Charge(s, req).fee
  BY DEF FrozenOrder, OrderFreezing, req
<1>. QED
  BY <1>4, <1>5, <1>6

\* An order that can be frozen freezes amounts that are not negative (account/account.go Freeze).
LEMMA FreezeTyped ==
  ASSUME NEW today, NEW s, SimTyped(today, s), NEW request \in TradeType,
         LET order == FrozenOrder(s, request) IN A!CanFreeze(s.acc, order.margin, order.commission)
  PROVE  AmountsTyped(FrozenOrder(s, request))
<1> DEFINE order == FrozenOrder(s, request)
<1>1. order.margin \in Int /\ order.commission \in Int
  BY FreezeInt
<1> HIDE DEF order
<1>2. order.margin >= 0 /\ order.commission >= 0
  BY DEF A!CanFreeze, order
<1>3. AmountsTyped(order)
  BY <1>1, <1>2 DEF AmountsTyped
<1>. QED
  BY <1>3 DEF order

LEMMA PlaceFunded ==
  ASSUME NEW today, NEW s, SimTyped(today, s), Funded(s), NEW id, NEW request \in TradeType,
         CanPlace(s, id, request)
  PROVE  Funded(Placed(s, id, request))
<1> DEFINE req == Rewritten(request)
           order == FrozenOrder(s, req)
           last == s.book.last + 1
           entry == B!Entry(order, last)
<1>1. req \in TradeType /\ DOMAIN s = SimFields
  BY DatedTyped DEF SimTyped
<1>2. A!CanFreeze(s.acc, order.margin, order.commission) /\ id \notin B!IDs(s.book) /\ id # NoID
  BY DEF CanPlace, CanHold, B!CanInsert, B!IDFree
<1> HIDE DEF req
<1>3. AmountsTyped(order)
  BY <1>1, <1>2, FreezeTyped DEF SimTyped
<1> HIDE DEF order
<1>4. /\ last \in Nat /\ last >= s.book.last /\ entry.sequence \in 1 .. last /\ entry.order = order
      /\ \A x \in B!IDs(s.book) : B!Sequence(s.book, x) # entry.sequence
  BY DEF Funded, Numbered, B!Entry
<1>5. Placed(s, id, request)
        = [s EXCEPT !.acc = A!WithFrozen(s.acc, entry.order.margin, entry.order.commission),
                    !.book = [live |-> B!InsertAt(s.book, id, entry), last |-> last]]
  BY <1>4 DEF Placed, WithOrder, B!Insert, order, req
<1> HIDE DEF entry, last
<1>6. Funded([s EXCEPT !.acc = A!WithFrozen(s.acc, entry.order.margin, entry.order.commission),
                       !.book = [live |-> B!InsertAt(s.book, id, entry), last |-> last]])
  BY <1>1, <1>2, <1>3, <1>4, HeldFunded
<1>. QED
  BY <1>5, <1>6

(***************************************************************************)
(* An order that a refused fill has taken off the book goes back, unless   *)
(* the client can no longer pay for it (place.go Fill).                    *)
(***************************************************************************)
ShortFor(s, order) == order.margin + order.commission > A!Available(s.acc)

LEMMA PutBackFunded ==
  ASSUME NEW s, DOMAIN s = SimFields, ~s.broken, Funded(s), NEW id \in B!IDs(s.book), CanRelease(s, id)
  PROVE  LET freed == Released(s, id)
             entry == s.book.live[id]
             after == PutBack(freed, id, entry)
         IN  /\ after.broken => ShortFor(freed, entry.order)
             /\ ~after.broken => Funded(after)
<1> DEFINE freed == Released(s, id)
           entry == s.book.live[id]
           a == A!WithFrozen(freed.acc, entry.order.margin, entry.order.commission)
           book == [live |-> B!InsertAt(freed.book, id, entry), last |-> freed.book.last]
           after == PutBack(freed, id, entry)
           short == ShortFor(freed, entry.order)
           right == (after.broken => short) /\ (~after.broken => Funded(after))
<1>. SUFFICES right
  OBVIOUS
<1>1. Funded(freed) /\ AmountsTyped(entry.order)
  BY ReleaseFunded DEF Funded
<1>2. DOMAIN freed = SimFields /\ freed.broken = s.broken /\ freed.book = B!Remove(s.book, id)
  BY DEF Released, SimFields
<1>3. B!IDs(freed.book) = B!IDs(s.book) \ {id} /\ freed.book.last = s.book.last
      /\ \A x \in B!IDs(s.book) \ {id} : freed.book.live[x] = s.book.live[x]
  BY <1>2 DEF B!IDs, B!Remove, B!Restrict, Restrict
<1> HIDE DEF freed
<1>4. /\ id \notin B!IDs(freed.book) /\ id # NoID /\ entry.sequence \in 1 .. freed.book.last
      /\ \A x \in B!IDs(freed.book) : B!Sequence(freed.book, x) # entry.sequence
      /\ freed.book.last \in Nat
  BY <1>3 DEF Funded, Numbered, B!Sequence
<1>5. B!CanReinsert(freed.book, id, entry.sequence)
  BY <1>4 DEF B!CanReinsert, B!IDFree
<1> HIDE DEF entry
<1>6. CASE A!CanFreeze(freed.acc, entry.order.margin, entry.order.commission)
  <2>1. after = [[freed EXCEPT !.acc = a] EXCEPT !.book = B!Reinsert(@, id, entry)]
    BY <1>5, <1>6 DEF PutBack
  <2>2. after = [freed EXCEPT !.acc = a, !.book = book]
    BY <1>2, <2>1 DEF B!Reinsert, SimFields
  <2> HIDE DEF after, short
  <2>3. ~after.broken
    BY <1>2, <2>2 DEF SimFields
  <2>4. freed.book.last >= freed.book.last
    BY <1>4
  <2>5. Funded([freed EXCEPT !.acc = a, !.book = book])
    BY <1>1, <1>2, <1>4, <1>6, <2>4, HeldFunded
  <2>6. Funded(after)
    BY <2>2, <2>5
  <2>. QED
    BY <2>3, <2>6
<1>7. CASE ~A!CanFreeze(freed.acc, entry.order.margin, entry.order.commission)
  <2>1. after = [freed EXCEPT !.broken = TRUE]
    BY <1>7 DEF PutBack
  <2>2. after.broken = TRUE
    BY <1>2, <2>1 DEF SimFields
  <2>3. entry.order.margin \in Nat /\ entry.order.commission \in Nat
    BY <1>1 DEF AmountsTyped
  <2>4. A!Available(freed.acc) \in Int
    BY <1>1 DEF Funded, Healthy, A!AccountType, A!AccountOf, A!Available, A!Balance, A!StaticBalance, A!Excluded
  <2>5. ~(entry.order.margin + entry.order.commission <= A!Available(freed.acc))
    BY <1>7, <2>3 DEF A!CanFreeze
  <2>6. short
    BY <2>3, <2>4, <2>5 DEF ShortFor
  <2> HIDE DEF after, short
  <2>. QED
    BY <2>2, <2>6
<1>. QED
  BY <1>6, <1>7

\* An account that has changed alone.
LEMMA AccountFunded ==
  ASSUME NEW s, DOMAIN s = SimFields, Funded(s), NEW a, Healthy(a)
  PROVE  Funded([s EXCEPT !.acc = a]) /\ [s EXCEPT !.acc = a].broken = s.broken
<1> DEFINE after == [s EXCEPT !.acc = a]
<1>1. after.acc = a /\ after.book = s.book /\ after.broken = s.broken
  BY DEF SimFields
<1> HIDE DEF after
<1>2. Funded(after)
  BY <1>1 DEF Funded
<1>. QED
  BY <1>1, <1>2 DEF after

\* A quote charges nothing (simulator.go Mark).
LEMMA MarkFunded ==
  ASSUME NEW today, NEW s, NEW c, Good(today, s, c), ~s.broken, Funded(s),
         NEW inst \in Instruments, NEW quote \in [last : Nat, pre : Nat]
  PROVE  ~Marked(s, inst, quote).broken /\ Funded(Marked(s, inst, quote))
<1> DEFINE prices == MarkedPrices(s, inst, quote)
           priced == [s EXCEPT !.prices = prices]
           after == Marked(s, inst, quote)
<1>1. prices \in PricesType
  <2>1. s.prices \in PricesType
    BY DEF Good, SimTyped
  <2>2. s.prices[inst] \in [last : Nat, pre : Nat]
    BY <2>1 DEF PricesType
  <2>3. [last |-> IF quote.last = 0 THEN s.prices[inst].last ELSE quote.last,
         pre  |-> IF quote.pre = 0 THEN s.prices[inst].pre ELSE quote.pre] \in [last : Nat, pre : Nat]
    BY <2>2
  <2>. QED
    BY <2>1, <2>3 DEF MarkedPrices, PricesType
<1> HIDE DEF prices
<1>2. SimTyped(today, priced) /\ priced.acc = s.acc /\ priced.broken = s.broken
  BY <1>1 DEF Good, SimTyped, SimFields
<1>3. after = Commit(priced, 0, 0, 0)
  BY DEF Marked, prices
<1> HIDE DEF priced, after
<1>4. A!CanCharge(0, 0)
  BY CentPositive DEF A!CanCharge, A!Distance
<1>5. ~after.broken /\ Healthy(after.acc)
  <2>1. 0 \in Int /\ Healthy(priced.acc)
    BY <1>2 DEF Funded
  <2> DEFINE told == Commit(priced, 0, 0, 0)
  <2>2. (A!CanCharge(0, 0) => ~told.broken) /\ (~told.broken => Healthy(told.acc))
    BY <1>2, <2>1, CommitTells
  <2>. QED
    BY <1>3, <1>4, <2>2
<1>6. after.book = s.book
  <2>1. ~Marked(s, inst, quote).broken
    BY <1>5 DEF after
  <2>. QED
    BY <2>1, MarkKeeps DEF after
<1>7. Funded(after)
  BY <1>5, <1>6 DEF Funded
<1>. QED
  BY <1>5, <1>7 DEF after

\* A trade is charged what the account takes (trade.go commit).
LEMMA TradeFunded ==
  ASSUME NEW today \in Int, NEW s, NEW c, Good(today, s, c), ~s.broken, Funded(s),
         NEW request \in TradeType, CanTrade(s, today, request)
  PROVE  /\ FeesInCents => ~Traded(s, today, request).broken
         /\ ~Traded(s, today, request).broken => Funded(Traded(s, today, request))
<1> DEFINE tr == DatedTrade(request)
           charge == Charge(s, tr)
           positions == PositionsAfter(s, today, tr)
           quotas == Booked(s, tr, charge.todayLots)
           profit == CloseProfit(s, tr)
           before == [s EXCEPT !.positions = positions, !.quotas = quotas]
           after == Traded(s, today, request)
<1>1. tr \in TradeType /\ ChargeKnown(s, tr)
  BY DatedTyped DEF CanTrade, DatedTradeFits
<1>2. after = Commit(before, charge.fee, charge.atSettle, profit)
  BY DEF Traded, Recorded
<1> HIDE DEF tr, after
<1>3. SimTyped(today, s)
  BY DEF Good
<1>4. s.quotas[tr.inst][Opposite(tr.dir)] \in QuotaType /\ s.prices[tr.inst] \in [last : Nat, pre : Nat]
  BY <1>1, <1>3, OppositeIn DEF TradeType, SimTyped, QuotasType, PricesType
<1>5. charge.fee \in Int /\ charge.atSettle \in Int /\ charge.todayLots \in Nat
  <2>1. tr.volume \in Nat
    BY <1>1 DEF TradeType
  <2>2. charge.fee \in Int /\ charge.atSettle \in Int /\ charge.todayLots \in 0 .. tr.volume
    BY <1>1, <1>4, ChargeTyped
  <2> HIDE DEF charge
  <2>. QED
    BY <2>1, <2>2
<1>6. FeesInCents => A!CanCharge(charge.fee, charge.atSettle)
  BY <1>1, <1>4, ChargesFit DEF ChargeFits
<1> HIDE DEF charge
<1>7. PositionsTyped(today, positions) /\ profit \in Int
  BY <1>1, <1>3, TradePositions
<1>8. quotas \in QuotasType
  BY <1>1, <1>3, <1>5, QuotasBooked DEF SimTyped
<1> HIDE DEF positions, quotas, profit
<1>9. SimTyped(today, before) /\ before.acc = s.acc /\ before.broken = s.broken
  BY <1>3, <1>7, <1>8 DEF SimTyped, SimFields
<1> HIDE DEF before
<1>10. (FeesInCents => ~after.broken) /\ (~after.broken => Healthy(after.acc))
  <2> DEFINE told == Commit(before, charge.fee, charge.atSettle, profit)
  <2>1. Healthy(before.acc)
    BY <1>9 DEF Funded
  <2>2. (A!CanCharge(charge.fee, charge.atSettle) => ~told.broken) /\ (~told.broken => Healthy(told.acc))
    BY <1>5, <1>7, <1>9, <2>1, CommitTells
  <2>. QED
    BY <1>2, <1>6, <2>2
<1>11. ~after.broken => after.book = s.book
  BY TradeKeeps DEF after
<1>12. ~after.broken => Funded(after)
  BY <1>10, <1>11 DEF Funded
<1>. QED
  BY <1>10, <1>12 DEF after

\* The account is told two valuations in the evening (settle.go Settle).
LEMMA SettleFunded ==
  ASSUME NEW today \in Int, NEW s, SimTyped(today, s), Funded(s), NEW price \in SettlementType
  PROVE  ~NextMorning(s, price).broken /\ Funded(NextMorning(s, price))
<1> DEFINE tonight == SettlementPrices(s, price)
           next == NextPrices(s, price)
           rolled == Rolled(s, price)
           evening == Revalued(s.acc, s.positions, tonight)
           settled == A!SettledAccount(evening)
           morning == Revalued(settled, rolled, next)
           after == NextMorning(s, price)
<1>1. tonight \in PricesType /\ next \in PricesType /\ PositionsTyped(today, s.positions)
  BY EveningPrices DEF SimTyped
<1>2. PositionsTyped(today + 1, rolled)
  BY RolledCarries
<1>3. after.acc = morning /\ after.book = s.book /\ after.broken = FALSE
  BY DEF NextMorning, EveningAccount, NewSimulator
<1> HIDE DEF tonight, next, rolled, after
<1>4. /\ Fair(HeldMargin(s.positions, tonight)) /\ Profit(s.positions, tonight) \in Int
      /\ Fair(HeldMargin(rolled, next)) /\ Profit(rolled, next) \in Int
  BY <1>1, <1>2, HeldMarginFair, ProfitInt
<1>5. Healthy(evening)
  BY <1>4, HealthyTold DEF Revalued, Funded
<1> HIDE DEF evening
<1>6. Healthy(settled)
  BY <1>5, HealthyEvening
<1> HIDE DEF settled
<1>7. Healthy(morning)
  BY <1>4, <1>6, HealthyTold DEF Revalued
<1> HIDE DEF morning
<1>8. Funded(after)
  BY <1>3, <1>7 DEF Funded
<1>. QED
  BY <1>3, <1>8 DEF after

\* Restore checks accounts and books (state.go, account/state.go, order/state.go).
LEMMA RestoredFunded ==
  ASSUME NEW today \in Int, NEW s, Readable(s), Restorable(s, today)
  PROVE  Funded(s)
<1>1. /\ s.acc \in A!ArchiveType /\ A!RestorableAccount(s.acc)
      /\ s.book.last \in Nat /\ B!RestorableBook(B!ArchivedBook(s.book))
      /\ \A id \in B!IDs(s.book) : s.book.live[id] \in [order : OrderType, sequence : Int]
  BY DEF Readable, Restorable, RestorableRest
<1>2. Healthy(s.acc)
  BY <1>1 DEF A!ArchiveType, A!AccountOf, A!RestorableAccount, A!RestorableParts, A!Check, A!AccountType, Healthy
<1>3. Numbered(s.book)
  <2> DEFINE archive == B!ArchivedBook(s.book)
             Archived(id) == [id |-> id, entry |-> s.book.live[id]]
  <2>1. archive.last = s.book.last /\ \A id \in B!IDs(s.book) : Archived(id) \in archive.entries
    BY DEF B!ArchivedBook
  <2>2. \A id \in B!IDs(s.book) :
          Archived(id).id = id /\ Archived(id).entry.sequence = B!Sequence(s.book, id)
    BY DEF B!Sequence
  <2> HIDE DEF archive, Archived
  <2>3. /\ \A e \in archive.entries : e.id # NoID /\ e.entry.sequence \in 1 .. archive.last
        /\ \A e, f \in archive.entries : e # f => e.entry.sequence # f.entry.sequence
    BY <1>1 DEF B!RestorableBook, archive
  <2>4. ASSUME NEW a \in B!IDs(s.book), NEW b \in B!IDs(s.book), a # b
        PROVE  B!Sequence(s.book, a) # B!Sequence(s.book, b)
    BY <2>1, <2>2, <2>3, <2>4
  <2>. QED
    BY <1>1, <2>1, <2>2, <2>3, <2>4 DEF Numbered
<1>4. \A id \in B!IDs(s.book) : AmountsTyped(s.book.live[id].order)
  BY <1>1 DEF OrderType, AmountsTyped
<1>. QED
  BY <1>2, <1>3, <1>4 DEF Funded

-----------------------------------------------------------------------------
(* What an archive must agree on: the amounts frozen. *)

BookAmounts(book) == IsFiniteSet(B!IDs(book)) /\ \A id \in B!IDs(book) : AmountsTyped(book.live[id].order)

MarginsOf(book) == [id \in B!IDs(book) |-> book.live[id].order.margin]
CommissionsOf(book) == [id \in B!IDs(book) |-> book.live[id].order.commission]

LEMMA FrozenTotalIs ==
  ASSUME NEW book
  PROVE  /\ FrozenTotal(book).margin = SumFunction(MarginsOf(book))
         /\ FrozenTotal(book).commission = SumFunction(CommissionsOf(book))
BY DEF FrozenTotal, MarginsOf, CommissionsOf

LEMMA AmountsOf ==
  ASSUME NEW book, BookAmounts(book)
  PROVE  /\ MarginsOf(book) \in [B!IDs(book) -> Nat] /\ CommissionsOf(book) \in [B!IDs(book) -> Nat]
         /\ MarginsOf(book) \in [B!IDs(book) -> Int] /\ CommissionsOf(book) \in [B!IDs(book) -> Int]
BY DEF BookAmounts, AmountsTyped, MarginsOf, CommissionsOf

LEMMA FrozenTotalNat ==
  ASSUME NEW book, BookAmounts(book)
  PROVE  FrozenTotal(book).margin \in Nat /\ FrozenTotal(book).commission \in Nat
<1>1. SumFunction(MarginsOf(book)) \in Nat /\ SumFunction(CommissionsOf(book)) \in Nat
  BY AmountsOf, SumNat DEF BookAmounts
<1>. QED
  BY <1>1, FrozenTotalIs

\* Books whose orders are the same have the same amounts frozen.
LEMMA SameTotal ==
  ASSUME NEW a, NEW b, B!IDs(a) = B!IDs(b), \A id \in B!IDs(a) : a.live[id].order = b.live[id].order
  PROVE  FrozenTotal(a) = FrozenTotal(b)
<1>1. MarginsOf(a) = MarginsOf(b) /\ CommissionsOf(a) = CommissionsOf(b)
  BY DEF MarginsOf, CommissionsOf
<1>2. \A book : FrozenTotal(book) = [margin     |-> SumFunction(MarginsOf(book)),
                                     commission |-> SumFunction(CommissionsOf(book))]
  BY DEF FrozenTotal, MarginsOf, CommissionsOf
<1>. QED
  BY <1>1, <1>2

\* An order off the book takes its amounts along (order/freeze.go Remove).
LEMMA TotalWithout ==
  ASSUME NEW book, BookAmounts(book), NEW id \in B!IDs(book)
  PROVE  LET rest  == B!Remove(book, id)
             order == book.live[id].order
         IN  /\ BookAmounts(rest)
             /\ FrozenTotal(book).margin = FrozenTotal(rest).margin + order.margin
             /\ FrozenTotal(book).commission = FrozenTotal(rest).commission + order.commission
<1> DEFINE rest == B!Remove(book, id)
           S == B!IDs(book)
           R == B!IDs(rest)
<1>1. R = S \ {id} /\ \A x \in S \ {id} : rest.live[x] = book.live[x]
  BY DEF B!IDs, B!Remove, B!Restrict, Restrict
<1> HIDE DEF rest
<1>2. BookAmounts(rest) /\ IsFiniteSet(S)
  BY <1>1, FS_RemoveElement DEF BookAmounts
<1>3. ASSUME NEW F \in [S -> Int], NEW G \in [R -> Int], \A x \in R : G[x] = F[x]
      PROVE  SumFunction(F) = SumFunction(G) + F[id]
  <2> HIDE DEF S, R
  <2>1. SumsDiffer(F, G, S, id)
    BY <1>1, <1>2, <1>3, SumWithout
  <2>. QED
    BY <2>1 DEF SumsDiffer, S
<1>4. SumFunction(MarginsOf(book)) = SumFunction(MarginsOf(rest)) + MarginsOf(book)[id]
  <2>1. \A x \in R : MarginsOf(rest)[x] = MarginsOf(book)[x]
    BY <1>1 DEF MarginsOf
  <2>. QED
    BY <1>2, <1>3, <2>1, AmountsOf
<1>5. SumFunction(CommissionsOf(book)) = SumFunction(CommissionsOf(rest)) + CommissionsOf(book)[id]
  <2>1. \A x \in R : CommissionsOf(rest)[x] = CommissionsOf(book)[x]
    BY <1>1 DEF CommissionsOf
  <2>. QED
    BY <1>2, <1>3, <2>1, AmountsOf
<1>6. /\ MarginsOf(book)[id] = book.live[id].order.margin
      /\ CommissionsOf(book)[id] = book.live[id].order.commission
  BY DEF MarginsOf, CommissionsOf
<1>. QED
  BY <1>2, <1>4, <1>5, <1>6, FrozenTotalIs DEF rest

LEMMA TotalWith ==
  ASSUME NEW book, BookAmounts(book), NEW id, id \notin B!IDs(book), NEW entry, AmountsTyped(entry.order), NEW last
  PROVE  LET more  == [live |-> B!InsertAt(book, id, entry), last |-> last]
             order == entry.order
         IN  /\ BookAmounts(more)
             /\ FrozenTotal(more).margin = FrozenTotal(book).margin + order.margin
             /\ FrozenTotal(more).commission = FrozenTotal(book).commission + order.commission
<1> DEFINE more == [live |-> B!InsertAt(book, id, entry), last |-> last]
           rest == B!Remove(more, id)
<1>1. B!IDs(more) = B!IDs(book) \cup {id}
      /\ \A x \in B!IDs(book) \cup {id} : more.live[x] = IF x = id THEN entry ELSE book.live[x]
  BY DEF B!IDs, B!InsertAt
<1> HIDE DEF more
<1>2. BookAmounts(more)
  BY <1>1, FS_AddElement DEF BookAmounts
<1>3. FrozenTotal(rest) = FrozenTotal(book)
  <2>1. B!IDs(rest) = B!IDs(more) \ {id} /\ \A x \in B!IDs(more) \ {id} : rest.live[x] = more.live[x]
    BY DEF B!IDs, B!Remove, B!Restrict, Restrict
  <2>2. B!IDs(rest) = B!IDs(book) /\ \A x \in B!IDs(rest) : rest.live[x].order = book.live[x].order
    BY <1>1, <2>1
  <2> HIDE DEF rest
  <2>. QED
    BY <2>2, SameTotal
<1>4. /\ FrozenTotal(more).margin = FrozenTotal(rest).margin + more.live[id].order.margin
      /\ FrozenTotal(more).commission = FrozenTotal(rest).commission + more.live[id].order.commission
  <2>1. id \in B!IDs(more)
    BY <1>1
  <2>. QED
    BY <1>2, <2>1, TotalWithout
<1>5. more.live[id] = entry
  BY <1>1
<1>. QED
  BY <1>2, <1>3, <1>4, <1>5 DEF more

\* Nothing is frozen on an empty book.
LEMMA TotalOfNone ==
  ASSUME NEW book, B!IDs(book) = {}
  PROVE  FrozenTotal(book).margin = 0 /\ FrozenTotal(book).commission = 0
<1>1. ASSUME NEW F \in [{} -> Int] PROVE SumFunction(F) = 0
  <2>0. IsFiniteSet({})
    BY FS_EmptySet
  <2>1. PICK f : SumsOver({}, F, f) /\ SumFunction(F) = f[{}]
    BY <2>0, SumIs
  <2>2. {} \in SUBSET {}
    OBVIOUS
  <2>. QED
    BY <2>1, <2>2 DEF SumsOver
<1>2. MarginsOf(book) \in [{} -> Int] /\ CommissionsOf(book) \in [{} -> Int]
  BY DEF MarginsOf, CommissionsOf
<1>. QED
  BY <1>1, <1>2, FrozenTotalIs

-----------------------------------------------------------------------------
(* Orders that Restore takes back. *)

(***************************************************************************)
(* Of a simulator an order's check reads only the previous settlement      *)
(* price, which once given stays for the day (state.go checkOrderFreeze).  *)
(***************************************************************************)
LEMMA SameRestorable ==
  ASSUME NEW order, OrderTyped(order), NEW s, NEW t, s.prices \in PricesType, t.prices \in PricesType,
         s.prices[order.inst].pre # 0 => t.prices[order.inst].pre = s.prices[order.inst].pre,
         RestorableOrder(s, order)
  PROVE  RestorableOrder(t, order)
<1> DEFINE request == TradeOf(order)
           req == DatedTrade(request)
<1>1. req \in TradeType /\ req.inst = order.inst /\ req.inst \in Instruments
  <2>1. req \in TradeType /\ req.inst = order.inst
    BY OrderAsTrade
  <2>. QED
    BY <2>1 DEF TradeType
<1>2. /\ order.price > 0 /\ Rewritten(request) = request
      /\ IF req.offset = "Close"
         THEN /\ order.margin = 0
              /\ order.today + order.history = order.volume
              /\ \E k \in 0 .. order.volume : FeeKnown(s, req, k) /\ FeeOf(s, req, k).fee = order.commission
         ELSE CanFreezeOrder(s, request) /\ FrozenOrder(s, request) = order
  BY DEF RestorableOrder
<1> HIDE DEF req
<1>3. s.prices[req.inst].pre > 0 => t.prices[req.inst].pre = s.prices[req.inst].pre
  BY <1>1
<1>4. FeePrice(s, req) > 0 => FeePrice(t, req) = FeePrice(s, req)
  BY <1>3 DEF FeePrice, BasisPrice
<1>5. FreezePrice(s, req) > 0 => FreezePrice(t, req) = FreezePrice(s, req)
  BY <1>3 DEF FreezePrice
<1>6. CASE req.offset = "Close"
  <2>1. ASSUME NEW k, FeeKnown(s, req, k) PROVE FeeKnown(t, req, k) /\ FeeOf(t, req, k) = FeeOf(s, req, k)
    <3>1. FeePrice(t, req) = FeePrice(s, req)
      BY <1>4, <2>1 DEF FeeKnown
    <3>. QED
      BY <2>1, <3>1 DEF FeeKnown, FeeOf
  <2>2. \E k \in 0 .. order.volume : FeeKnown(t, req, k) /\ FeeOf(t, req, k).fee = order.commission
    BY <1>2, <1>6, <2>1
  <2>. QED
    BY <1>2, <1>6, <2>2 DEF RestorableOrder, req
<1>7. CASE req.offset # "Close"
  <2>1. CanFreezeOrder(s, request) /\ FrozenOrder(s, request) = order
    BY <1>2, <1>7
  <2>2. ChargeKnown(s, req) /\ (req.offset = "Open" => FreezePrice(s, req) > 0 /\ OrderMargin(s, req) > 0)
    BY <2>1 DEF CanFreezeOrder, req
  <2>3. FeePrice(s, req) > 0 /\ FeePrice(t, req) = FeePrice(s, req)
    BY <1>4, <2>2 DEF ChargeKnown, FeeKnown
  <2>4. ChargeKnown(t, req) /\ Charge(t, req) = Charge(s, req)
    BY <1>7, <2>3 DEF ChargeKnown, FeeKnown, Charge, FeeOf
  <2>5. OrderMargin(t, req) = OrderMargin(s, req) /\ (req.offset = "Open" => FreezePrice(t, req) > 0)
    BY <1>5, <2>2 DEF OrderMargin
  <2>6. HistoryPart(t, req) = HistoryPart(s, req)
    BY <1>7 DEF HistoryPart
  <2>7. CanFreezeOrder(t, request)
    BY <1>7, <2>2, <2>4, <2>5 DEF CanFreezeOrder, req
  <2>8. FrozenOrder(t, request) = FrozenOrder(s, request)
    BY <2>4, <2>5, <2>6 DEF FrozenOrder, req
  <2>. QED
    BY <1>2, <1>7, <2>1, <2>7, <2>8 DEF RestorableOrder, req
<1>. QED
  BY <1>6, <1>7

\* What FreezeOf works out is what Restore works out again (submit.go, state.go).
LEMMA PlacedRestorable ==
  ASSUME NEW today, NEW s, SimTyped(today, s), NEW request \in TradeType,
         CanFreezeOrder(s, Rewritten(request))
  PROVE  RestorableOrder(s, FrozenOrder(s, Rewritten(request)))
<1> DEFINE r == Rewritten(request)
           order == FrozenOrder(s, r)
           req == DatedTrade(r)
           h == HistoryPart(s, req)
<1>1. r \in TradeType /\ Rewritten(r) = r
  <2>1. r \in TradeType
    BY DatedTyped
  <2>2. r = request \/ r.offset = "Close"
    BY DEF Rewritten, TradeType
  <2>3. ASSUME NEW a, a.offset = "Close" PROVE Rewritten(a) = a
    BY <2>3 DEF Rewritten
  <2>. QED
    BY <2>1, <2>2, <2>3
<1> HIDE DEF r
<1>2. req \in TradeType /\ req.inst = r.inst /\ req.volume = r.volume /\ req.dir = r.dir
  BY <1>1, DatedTyped
<1>3. TradeOf(order) = r
  <2>1. TradeOf(order) = [inst |-> r.inst, dir |-> r.dir, offset |-> r.offset,
                          price |-> r.price, volume |-> r.volume]
    BY DEF TradeOf, FrozenOrder, OrderFreezing
  <2>. QED
    BY <1>1, <2>1 DEF TradeType
<1>4. /\ order.price = r.price /\ order.volume = r.volume /\ order.margin = OrderMargin(s, req)
      /\ order.commission = Charge(s, req).fee /\ order.history = h
      /\ order.today = IF req.offset = "Open" THEN 0 ELSE req.volume - h
  BY DEF FrozenOrder, OrderFreezing
<1>5. r.price > 0 /\ r.volume \in Nat /\ req.inst \in Instruments /\ Opposite(req.dir) \in Directions
  BY <1>1, <1>2, OppositeIn DEF TradeType
<1> HIDE DEF req
<1>6. CASE req.offset = "Close"
  <2>1. order.margin = 0
    BY <1>4, <1>6 DEF OrderMargin
  <2>2. order.today + order.history = order.volume
    <3>1. h \in 0 .. req.volume
      BY <1>2, DividedClose
    <3> HIDE DEF h
    <3>. QED
      BY <1>2, <1>4, <1>5, <1>6, <3>1
  <2>3. FeeKnown(s, req, TodayLots(s, req)) /\ FeeOf(s, req, TodayLots(s, req)).fee = order.commission
    BY <1>4 DEF CanFreezeOrder, ChargeKnown, Charge, r, req
  <2>4. TodayLots(s, req) \in 0 .. order.volume
    <3> DEFINE there == QuotaOf(s, req).opened - QuotaOf(s, req).charged
               volume == req.volume
               k == TodayLots(s, req)
    <3>1. there \in Int /\ volume \in Nat /\ order.volume = volume
      BY <1>2, <1>4, <1>5 DEF SimTyped, QuotasType, QuotaOf, QuotaType
    <3>2. k = Min({volume, Max({there, 0})})
      BY DEF TodayLots, TodayTierLots, LotsAtToday
    <3> HIDE DEF there, volume, k
    <3>3. k = IF there <= 0 THEN 0 ELSE IF volume <= there THEN volume ELSE there
      BY <3>1, <3>2, LeastWanted
    <3>4. k \in 0 .. volume
      BY <3>1, <3>3
    <3>. QED
      BY <3>1, <3>4 DEF k
  <2> HIDE DEF order
  <2>5. RestorableOrder(s, order)
    BY <1>1, <1>3, <1>4, <1>5, <1>6, <2>1, <2>2, <2>3, <2>4 DEF RestorableOrder, req
  <2>. QED
    BY <2>5 DEF order, r
<1>7. CASE req.offset # "Close"
  <2>1. CanFreezeOrder(s, r) /\ FrozenOrder(s, r) = order
    BY DEF r
  <2> HIDE DEF order
  <2>2. RestorableOrder(s, order)
    BY <1>1, <1>3, <1>4, <1>5, <1>7, <2>1 DEF RestorableOrder, req
  <2>. QED
    BY <2>2 DEF order, r
<1>. QED
  BY <1>6, <1>7

-----------------------------------------------------------------------------
(* Quotas that cover what was opened today. *)

\* Lots charged at the today rate without being called today's are within the quota (quota.go).
LEMMA ChargedLots ==
  ASSUME NEW s, NEW tr \in TradeType,
         s.quotas[tr.inst][Opposite(tr.dir)] \in QuotaType,
         s.prices[tr.inst] \in [last : Nat, pre : Nat]
  PROVE  LET q == s.quotas[tr.inst][Opposite(tr.dir)]
             lots == Charge(s, tr).todayLots
         IN  /\ lots \in Nat
             /\ tr.offset \in {"Open", "CloseYesterday"} => lots = 0
             /\ tr.offset = "Close" => lots = 0 \/ q.charged + lots <= q.opened
<1> DEFINE q == s.quotas[tr.inst][Opposite(tr.dir)]
           lots == Charge(s, tr).todayLots
           today == TodayLots(s, tr)
<1>1. tr.volume \in Nat
  BY DEF TradeType
<1>2. lots \in Nat
  <2>1. lots \in 0 .. tr.volume
    BY ChargeTyped
  <2> HIDE DEF lots
  <2>. QED
    BY <1>1, <2>1
<1>3. q.opened \in Nat /\ q.charged \in Nat
  BY DEF QuotaType
<1>4. today = 0 \/ q.charged + today <= q.opened
  <2> DEFINE there == q.opened - q.charged
             volume == tr.volume
  <2>1. there \in Int
    BY <1>3
  <2>2. today = Min({volume, Max({there, 0})})
    BY DEF TodayLots, TodayTierLots, LotsAtToday, QuotaOf
  <2>3. volume \in Nat
    BY <1>1
  <2> HIDE DEF volume, today, q
  <2>4. today = IF there <= 0 THEN 0 ELSE IF volume <= there THEN volume ELSE there
    <3> HIDE DEF there
    <3>. QED
      BY <2>1, <2>2, <2>3, LeastWanted
  <2>. QED
    BY <1>3, <2>3, <2>4
<1>5. tr.offset = "Close" => lots = 0 \/ lots = today
  BY DEF Charge, FeeOf, UndatedCharge, Split, BothSegments
<1>6. tr.offset \in {"Open", "CloseYesterday"} => lots = 0
  BY DEF Charge, FeeOf
<1> HIDE DEF q, lots, today
<1>7. tr.offset = "Close" => lots = 0 \/ q.charged + lots <= q.opened
  BY <1>4, <1>5
<1>. QED
  BY <1>2, <1>6, <1>7 DEF q, lots

\* A close that fits takes history lots and today's that there are (trade.go ApplyTrade).
LEMMA CloseTakes ==
  ASSUME NEW today, NEW s, SimTyped(today, s), Covered(s), NEW tr \in TradeType, tr.offset # "Open",
         CloseFits(s, tr)
  PROVE  LET lots == s.positions[tr.inst][Opposite(tr.dir)]
             h == HistoryPart(s, tr)
         IN  h <= VolumeHistory(lots) /\ tr.volume - h <= VolumeToday(lots)
<1> DEFINE held == Opposite(tr.dir)
           lots == s.positions[tr.inst][held]
           frozen == FrozenOf(s.book, tr.inst, held)
           h == HistoryPart(s, tr)
           there == VolumeHistory(lots) - frozen.history
           free == VolumeToday(lots) - frozen.today
           volume == tr.volume
<1>1. tr.inst \in Instruments /\ held \in Directions /\ volume \in Nat
  BY OppositeIn DEF TradeType
<1>2. /\ VolumeToday(lots) \in Nat /\ VolumeHistory(lots) \in Nat
      /\ frozen.today \in Nat /\ frozen.history \in Nat
  BY <1>1, SideCovered
<1>3. CASE tr.offset = "Close"
  <2>1. h = Min({volume, Max({there, 0})}) /\ volume - h <= Max({free, 0})
    BY <1>3 DEF CloseFits, CanSplit, HistoryPart, ToHistory
  <2>2. there \in Int /\ free \in Int /\ there <= VolumeHistory(lots) /\ free <= VolumeToday(lots)
    BY <1>2
  <2> HIDE DEF there, free, h, lots, frozen, volume
  <2>3. h = IF there <= 0 THEN 0 ELSE IF volume <= there THEN volume ELSE there
    BY <1>1, <2>1, <2>2, LeastWanted
  <2>4. Max({free, 0}) = IF free >= 0 THEN free ELSE 0
    BY <2>2, MaxOfTwo
  <2>5. h <= VolumeHistory(lots) /\ volume - h <= VolumeToday(lots)
    BY <1>1, <1>2, <2>1, <2>2, <2>3, <2>4
  <2>. QED
    BY <2>5 DEF h, lots, volume
<1>4. CASE tr.offset = "CloseToday"
  <2>1. h = 0 /\ volume <= VolumeToday(lots)
    BY <1>4 DEF CloseFits, Closable, HistoryPart
  <2> HIDE DEF h, lots, frozen, volume
  <2>2. h <= VolumeHistory(lots) /\ volume - h <= VolumeToday(lots)
    BY <1>1, <1>2, <2>1
  <2>. QED
    BY <2>2 DEF h, lots, volume
<1>5. CASE tr.offset = "CloseYesterday"
  <2>1. h = volume /\ volume <= VolumeHistory(lots)
    BY <1>5 DEF CloseFits, Closable, HistoryPart
  <2> HIDE DEF h, lots, frozen, volume
  <2>2. h <= VolumeHistory(lots) /\ volume - h <= VolumeToday(lots)
    BY <1>1, <1>2, <2>1
  <2>. QED
    BY <2>2 DEF h, lots, volume
<1>. QED
  BY <1>3, <1>4, <1>5 DEF TradeType, Offsets

\* A trade keeps the quotas (trade.go ApplyTrade, quota.go).
LEMMA TradeQuotas ==
  ASSUME NEW today \in Int, NEW s, SimTyped(today, s), Covered(s), QuotasHold(s),
         NEW tr \in TradeType, TakesFreeLots(s, tr),
         NEW after, after.positions = PositionsAfter(s, today, tr),
         after.quotas = Booked(s, tr, Charge(s, tr).todayLots)
  PROVE  QuotasHold(after)
<1>1. /\ tr.inst \in Instruments /\ tr.dir \in Directions /\ Opposite(tr.dir) \in Directions
      /\ tr.volume \in Nat \ {0} /\ tr.price \in Nat \ {0}
  BY OppositeIn DEF TradeType
<1>2. s.positions \in [Instruments -> [Directions -> Seq(LotSet)]]
      /\ s.quotas \in [Instruments -> [Directions -> QuotaType]]
  BY DEF SimTyped, PositionsTyped, QuotasType
\* One side changes and the others stay.
<1>3. ASSUME NEW dir \in Directions, NEW lots, NEW q,
             after.positions = [s.positions EXCEPT ![tr.inst][dir] = lots],
             after.quotas = [s.quotas EXCEPT ![tr.inst][dir] = q],
             SideQuota(q, lots)
      PROVE  QuotasHold(after)
  <2>1. ASSUME NEW i \in Instruments, NEW held \in Directions
        PROVE  SideQuota(after.quotas[i][held], after.positions[i][held])
    <3>1. CASE i = tr.inst /\ held = dir
      <4>1. after.quotas[i][held] = q /\ after.positions[i][held] = lots
        BY <1>2, <1>3, <3>1
      <4>. QED
        BY <1>3, <4>1
    <3>2. CASE i # tr.inst \/ held # dir
      <4>1. after.quotas[i][held] = s.quotas[i][held] /\ after.positions[i][held] = s.positions[i][held]
        BY <1>2, <1>3, <2>1, <3>2
      <4>. QED
        BY <2>1, <4>1 DEF QuotasHold
    <3>. QED
      BY <3>1, <3>2
  <2>. QED
    BY <2>1 DEF QuotasHold
<1>4. CASE tr.offset = "Open"
  <2> DEFINE lots == s.positions[tr.inst][tr.dir]
             q == s.quotas[tr.inst][tr.dir]
             price == tr.price
             volume == tr.volume
             more == Append(lots, Lot(today, price, volume, price, FALSE))
             booked == [q EXCEPT !.opened = q.opened + volume]
  <2>1. lots \in Seq(LotSet) /\ q \in QuotaType /\ SideQuota(q, lots)
    BY <1>1, <1>2 DEF QuotasHold
  <2>2. after.positions = [s.positions EXCEPT ![tr.inst][tr.dir] = more]
        /\ after.quotas = [s.quotas EXCEPT ![tr.inst][tr.dir] = booked]
    BY <1>4 DEF PositionsAfter, Booked
  <2>3. price \in Nat \ {0} /\ volume \in Nat \ {0}
    BY <1>1
  <2> HIDE DEF lots, q, price, volume
  <2>4. VolumeToday(more) = VolumeToday(lots) + volume /\ VolumeToday(lots) \in Nat
    BY <2>1, <2>3, OpenedByTrade, VolumesNat
  <2>5. booked.opened = q.opened + volume /\ booked.charged = q.charged /\ booked.explicit = q.explicit
        /\ q.opened \in Nat /\ q.charged \in Nat /\ q.explicit \in Nat
    BY <2>1 DEF QuotaType
  <2> HIDE DEF more, booked
  <2>6. SideQuota(booked, more)
    BY <2>1, <2>3, <2>4, <2>5 DEF SideQuota
  <2>. QED
    BY <1>1, <1>3, <2>2, <2>6
<1>5. CASE tr.offset # "Open"
  <2> DEFINE held == Opposite(tr.dir)
             lots == s.positions[tr.inst][held]
             left == TakenBy(s, tr).left
             q == s.quotas[tr.inst][held]
             charged == Charge(s, tr).todayLots
             more == IF tr.offset = "CloseToday" THEN charged ELSE 0
             booked == [opened |-> q.opened, charged |-> q.charged + charged, explicit |-> q.explicit + more]
             h == HistoryPart(s, tr)
             t == tr.volume - h
  <2>1. lots \in Seq(LotSet) /\ q \in QuotaType /\ SideQuota(q, lots) /\ held \in Directions
    BY <1>1, <1>2 DEF QuotasHold
  <2>2. after.positions = [s.positions EXCEPT ![tr.inst][held] = left]
        /\ after.quotas = [s.quotas EXCEPT ![tr.inst][held] = booked]
    BY <1>5 DEF PositionsAfter, Booked
  <2>3. /\ charged \in Nat
        /\ tr.offset = "CloseYesterday" => charged = 0
        /\ tr.offset = "Close" => charged = 0 \/ q.charged + charged <= q.opened
    <3>1. s.prices[tr.inst] \in [last : Nat, pre : Nat]
      BY <1>1 DEF SimTyped, PricesType
    <3>. QED
      BY <2>1, <3>1, ChargedLots
  <2>4. h \in 0 .. tr.volume
    BY DividedClose
  <2>5. h <= VolumeHistory(lots) /\ t <= VolumeToday(lots)
    BY <1>5, CloseTakes DEF TakesFreeLots
  <2>6. VolumeToday(left) = VolumeToday(lots) - t
    <3>1. tr.volume \in Nat
      BY <1>1
    <3>. QED
      BY <2>1, <2>4, <2>5, <3>1, TakenVolumes
  <2>7. t \in Nat
    <3> HIDE DEF h
    <3>. QED
      BY <1>1, <2>4
  <2>8. VolumeToday(lots) \in Nat
    <3> HIDE DEF lots
    <3>. QED
      BY <2>1, VolumesNat
  <2>9. q.opened \in Nat /\ q.charged \in Nat /\ q.explicit \in Nat
        /\ booked.opened = q.opened /\ booked.charged = q.charged + charged /\ booked.explicit = q.explicit + more
    BY <2>1 DEF QuotaType
  <2>10. tr.offset \in {"Close", "CloseToday", "CloseYesterday"}
    BY <1>5 DEF TradeType, Offsets
  <2>11. \/ more = charged
         \/ more = 0 /\ (charged = 0 \/ q.charged + charged <= q.opened)
    BY <2>3, <2>10
  <2> HIDE DEF lots, left, q, charged, more, booked, h, t, held
  <2>12. SideQuota(booked, left)
    <3>1. q.explicit <= q.charged /\ q.charged - q.explicit <= q.opened /\ VolumeToday(lots) <= q.opened
      BY <2>1 DEF SideQuota
    <3>2. VolumeToday(left) <= booked.opened
      BY <2>6, <2>7, <2>8, <2>9, <3>1
    <3>3. booked.explicit <= booked.charged /\ booked.charged - booked.explicit <= booked.opened
      <4>1. CASE more = charged
        BY <2>3, <2>9, <3>1, <4>1
      <4>2. CASE more = 0 /\ (charged = 0 \/ q.charged + charged <= q.opened)
        BY <2>3, <2>9, <3>1, <4>2
      <4>. QED
        BY <2>11, <4>1, <4>2
    <3>. QED
      BY <3>2, <3>3 DEF SideQuota
  <2>. QED
    BY <1>3, <2>1, <2>2, <2>12
<1>. QED
  BY <1>4, <1>5

\* In the morning nothing was opened and every lot is history (settle.go).
LEMMA MorningQuotas ==
  ASSUME NEW s, NEW today, SimTyped(today, s), NEW price
  PROVE  QuotasHold(NextMorning(s, price))
<1> DEFINE after == NextMorning(s, price)
<1>1. after.positions = Rolled(s, price)
      /\ after.quotas = [i \in Instruments |-> [dir \in Directions |-> NoQuota]]
  BY DEF NextMorning, NewSimulator
<1> HIDE DEF after
<1>2. ASSUME NEW i \in Instruments, NEW dir \in Directions PROVE VolumeToday(after.positions[i][dir]) = 0
  <2> DEFINE lots == s.positions[i][dir]
             more == after.positions[i][dir]
             n == Len(lots)
             z == [k \in DOMAIN more |-> IF k \in TodaysLots(more) THEN more[k].volume ELSE 0]
  <2>1. lots \in Seq(LotSet) /\ more = SettleAll(lots, price[i])
    BY <1>1 DEF Rolled, SimTyped, PositionsTyped
  <2>2. n \in Nat /\ DOMAIN more = 1 .. n /\ \A k \in 1 .. n : more[k].settled
    <3>1. more = [k \in DOMAIN lots |-> [lots[k] EXCEPT !.basis = price[i], !.settled = TRUE]]
      BY <2>1 DEF SettleAll
    <3>2. DOMAIN lots = 1 .. n /\ n \in Nat /\ \A k \in 1 .. n : lots[k] \in LotSet
      <4> HIDE DEF lots
      <4>. QED
        BY <2>1
    <3> HIDE DEF lots, more, n
    <3>3. \A k \in 1 .. n : [lots[k] EXCEPT !.basis = price[i], !.settled = TRUE].settled = TRUE
      BY <3>2 DEF LotSet
    <3>. QED
      BY <3>1, <3>2, <3>3
  <2> HIDE DEF lots, more, n
  <2>3. z = [k \in 1 .. n |-> 0]
    BY <2>2 DEF TodaysLots
  <2>4. z \in Seq(Int) /\ Len(z) = n /\ \A k \in 1 .. n : z[k] = 0
    <3> HIDE DEF z
    <3>1. z \in [1 .. n -> Int] /\ \A k \in 1 .. n : z[k] = 0
      BY <2>3
    <3>2. \A x \in [1 .. n -> Int] : x \in Seq(Int) /\ Len(x) = n
      BY <2>2
    <3>. QED
      BY <3>1, <3>2
  <2>5. VolumeToday(more) = Total(z)
    BY DEF VolumeToday, VolumeWhere, Total
  <2> HIDE DEF z
  <2>6. Total(z) = 0
    <3>1. \A k \in 1 .. Len(z) : z[k] >= 0 /\ z[k] = 0
      BY <2>4
    <3>. QED
      BY <2>4, <3>1, TotalNat
  <2>. QED
    BY <2>5, <2>6 DEF more
<1>3. ASSUME NEW i \in Instruments, NEW dir \in Directions
      PROVE  SideQuota(after.quotas[i][dir], after.positions[i][dir])
  <2>1. after.quotas[i][dir] = NoQuota
    BY <1>1
  <2>. QED
    BY <1>2, <2>1 DEF SideQuota, NoQuota
<1>. QED
  BY <1>3 DEF QuotasHold, after

-----------------------------------------------------------------------------
(* A simulator that an archive of it is true to. *)

\* A commit that goes through tells the margins and leaves what is frozen (trade.go commit).
LEMMA CommitTold ==
  ASSUME NEW today, NEW s, SimTyped(today, s), NEW fee \in Int, NEW atSettle \in Int, NEW profit \in Int,
         ~Commit(s, fee, atSettle, profit).broken
  PROVE  LET after == Commit(s, fee, atSettle, profit) IN
           /\ Told(after)
           /\ after.acc.frozenMargin = s.acc.frozenMargin
           /\ after.acc.frozenCommission = s.acc.frozenCommission
           /\ after.quotas = s.quotas
<1> DEFINE charged == A!Charged(s.acc, fee, atSettle)
           booked == A!WithCloseProfit(charged, profit)
           margin == HeldMargin(s.positions, s.prices)
           held == A!WithMargin(booked, margin.company, margin.exchange)
           told == Revalued(booked, s.positions, s.prices)
           after == Commit(s, fee, atSettle, profit)
<1>1. DOMAIN s = SimFields /\ DOMAIN s.acc = AccountFields
  BY DEF SimTyped, AccountTyped
<1>2. /\ DOMAIN charged = AccountFields
      /\ charged.frozenMargin = s.acc.frozenMargin /\ charged.frozenCommission = s.acc.frozenCommission
  BY <1>1 DEF A!Charged, AccountFields
<1> HIDE DEF charged
<1>3. /\ DOMAIN booked = AccountFields
      /\ booked.frozenMargin = s.acc.frozenMargin /\ booked.frozenCommission = s.acc.frozenCommission
  BY <1>2 DEF A!WithCloseProfit, AccountFields
<1> HIDE DEF booked
<1>4. told = A!WithPositionProfit(held, Profit(s.positions, s.prices))
  BY DEF Revalued, WithValuation
<1> HIDE DEF margin
<1>5. /\ DOMAIN held = AccountFields /\ held.currMargin = margin.company
      /\ held.exchangeMargin = margin.exchange
      /\ held.frozenMargin = s.acc.frozenMargin /\ held.frozenCommission = s.acc.frozenCommission
  BY <1>3 DEF A!WithMargin, AccountFields
<1> HIDE DEF held, told
<1>6. /\ told.currMargin = margin.company /\ told.exchangeMargin = margin.exchange
      /\ told.frozenMargin = s.acc.frozenMargin /\ told.frozenCommission = s.acc.frozenCommission
  BY <1>4, <1>5 DEF A!WithPositionProfit, AccountFields
<1>7. after = [s EXCEPT !.acc = told]
  <2>1. after = Committed(s, A!CanCharge(fee, atSettle), told)
    BY DEF Commit, told, booked, charged
  <2>2. after = [s EXCEPT !.acc = told] \/ after = [s EXCEPT !.broken = TRUE]
    BY <2>1 DEF Committed
  <2>3. [s EXCEPT !.broken = TRUE].broken = TRUE
    BY <1>1 DEF SimFields
  <2>4. ~after.broken
    OBVIOUS
  <2> HIDE DEF after
  <2>. QED
    BY <2>2, <2>3, <2>4
<1> HIDE DEF after
<1>8. after.acc = told /\ after.positions = s.positions /\ after.prices = s.prices /\ after.quotas = s.quotas
  BY <1>1, <1>7 DEF SimFields
<1>9. Told(after)
  BY <1>6, <1>8 DEF Told, margin
<1>. QED
  BY <1>6, <1>8, <1>9 DEF after

\* Orders that stay on the book can still be taken back, whatever quotes came.
LEMMA OrdersStay ==
  ASSUME NEW s, BookTyped(s.book), OrdersRestorable(s), s.prices \in PricesType,
         NEW t, t.prices \in PricesType,
         \A i \in Instruments : s.prices[i].pre # 0 => t.prices[i].pre = s.prices[i].pre,
         \A id \in B!IDs(t.book) : id \in B!IDs(s.book) /\ t.book.live[id].order = s.book.live[id].order
  PROVE  OrdersRestorable(t)
<1>1. ASSUME NEW id \in B!IDs(t.book) PROVE RestorableOrder(t, t.book.live[id].order)
  <2> DEFINE order == s.book.live[id].order
  <2>1. OrderTyped(order) /\ RestorableOrder(s, order) /\ t.book.live[id].order = order
    BY <1>1 DEF BookTyped, OrdersRestorable
  <2> HIDE DEF order
  <2>2. order.inst \in Instruments
    <3>1. DatedTrade(TradeOf(order)) \in TradeType /\ DatedTrade(TradeOf(order)).inst = order.inst
      BY <2>1, OrderAsTrade
    <3>. QED
      BY <3>1 DEF TradeType
  <2>3. RestorableOrder(t, order)
    BY <2>1, <2>2, SameRestorable
  <2>. QED
    BY <2>1, <2>3
<1>. QED
  BY <1>1 DEF OrdersRestorable

\* Money in and out leaves margins and freezes.
LEMMA AccountArchivable ==
  ASSUME NEW today, NEW s, SimTyped(today, s), Archivable(s), NEW a,
         a.currMargin = s.acc.currMargin, a.exchangeMargin = s.acc.exchangeMargin,
         a.frozenMargin = s.acc.frozenMargin, a.frozenCommission = s.acc.frozenCommission
  PROVE  Archivable([s EXCEPT !.acc = a])
<1> DEFINE after == [s EXCEPT !.acc = a]
<1>1. /\ after.acc = a /\ after.positions = s.positions /\ after.prices = s.prices
      /\ after.book = s.book /\ after.quotas = s.quotas
  BY DEF SimTyped, SimFields
<1> HIDE DEF after
<1>2. Told(after) /\ FrozenAgrees(after) /\ Valued(after.positions, after.prices) /\ QuotasHold(after)
  BY <1>1 DEF Archivable, Told, FrozenAgrees, QuotasHold
<1>3. OrdersRestorable(after)
  BY <1>1, OrdersStay DEF SimTyped, Archivable
<1>. QED
  BY <1>2, <1>3 DEF Archivable, after

\* A quote (simulator.go Mark).
LEMMA MarkArchivable ==
  ASSUME NEW today, NEW s, NEW c, Good(today, s, c), Archivable(s),
         NEW inst \in Instruments, NEW quote \in [last : Nat, pre : Nat],
         CanMark(s, inst, quote), ~Marked(s, inst, quote).broken
  PROVE  Archivable(Marked(s, inst, quote))
<1> DEFINE prices == MarkedPrices(s, inst, quote)
           priced == [s EXCEPT !.prices = prices]
           after == Marked(s, inst, quote)
<1>1. SimTyped(today, s) /\ s.prices \in PricesType
  BY DEF Good, SimTyped
<1>2. prices \in PricesType /\ \A i \in Instruments : s.prices[i].pre # 0 => prices[i].pre = s.prices[i].pre
  <2> DEFINE price == [last |-> IF quote.last = 0 THEN s.prices[inst].last ELSE quote.last,
                       pre  |-> IF quote.pre = 0 THEN s.prices[inst].pre ELSE quote.pre]
  <2>1. s.prices[inst] \in [last : Nat, pre : Nat]
    BY <1>1 DEF PricesType
  <2>2. price \in [last : Nat, pre : Nat] /\ (s.prices[inst].pre # 0 => price.pre = s.prices[inst].pre)
    BY <2>1 DEF CanMark
  <2>3. prices = [s.prices EXCEPT ![inst] = price]
    BY DEF MarkedPrices
  <2> HIDE DEF price, prices
  <2>. QED
    BY <1>1, <2>2, <2>3 DEF PricesType
<1>3. Valued(s.positions, prices)
  BY DEF CanMark
<1>4. after = Commit(priced, 0, 0, 0)
  BY DEF Marked, prices
<1> HIDE DEF prices
<1>5. /\ SimTyped(today, priced) /\ priced.acc = s.acc /\ priced.positions = s.positions
      /\ priced.prices = prices /\ priced.book = s.book /\ priced.quotas = s.quotas
  BY <1>1, <1>2 DEF SimTyped, SimFields
<1> HIDE DEF priced, after
<1>6. /\ after.positions = s.positions /\ after.prices = prices /\ after.book = s.book
      /\ after.quotas = s.quotas /\ Told(after)
      /\ after.acc.frozenMargin = s.acc.frozenMargin /\ after.acc.frozenCommission = s.acc.frozenCommission
  <2>1. 0 \in Int /\ ~Commit(priced, 0, 0, 0).broken
    BY <1>4 DEF after
  <2>2. /\ Commit(priced, 0, 0, 0).positions = priced.positions
        /\ Commit(priced, 0, 0, 0).prices = priced.prices
        /\ Commit(priced, 0, 0, 0).book = priced.book
    BY <1>5, <2>1, CommitWrites
  <2>3. /\ Told(Commit(priced, 0, 0, 0)) /\ Commit(priced, 0, 0, 0).quotas = priced.quotas
        /\ Commit(priced, 0, 0, 0).acc.frozenMargin = priced.acc.frozenMargin
        /\ Commit(priced, 0, 0, 0).acc.frozenCommission = priced.acc.frozenCommission
    BY <1>5, <2>1, CommitTold
  <2>. QED
    BY <1>4, <1>5, <2>2, <2>3
<1>7. FrozenAgrees(after) /\ Valued(after.positions, after.prices) /\ QuotasHold(after)
  BY <1>3, <1>6 DEF Archivable, FrozenAgrees, QuotasHold
<1>8. OrdersRestorable(after)
  BY <1>1, <1>2, <1>6, OrdersStay DEF SimTyped, Archivable
<1>. QED
  BY <1>6, <1>7, <1>8 DEF Archivable, after

\* A trade (trade.go ApplyTrade).
LEMMA TradeArchivable ==
  ASSUME NEW today \in Int, NEW s, NEW c, Good(today, s, c), Covered(s), Archivable(s),
         NEW request \in TradeType, CanTrade(s, today, request), ~Traded(s, today, request).broken
  PROVE  Archivable(Traded(s, today, request))
<1> DEFINE tr == DatedTrade(request)
           charge == Charge(s, tr)
           positions == PositionsAfter(s, today, tr)
           quotas == Booked(s, tr, charge.todayLots)
           profit == CloseProfit(s, tr)
           before == [s EXCEPT !.positions = positions, !.quotas = quotas]
           after == Traded(s, today, request)
<1>1. tr \in TradeType /\ TakesFreeLots(s, tr) /\ Valued(positions, s.prices)
  BY DatedTyped DEF CanTrade, DatedTradeFits
<1>2. after = Commit(before, charge.fee, charge.atSettle, profit)
  BY DEF Traded, Recorded
<1> HIDE DEF tr, after
<1>3. SimTyped(today, s)
  BY DEF Good
<1>4. s.quotas[tr.inst][Opposite(tr.dir)] \in QuotaType /\ s.prices[tr.inst] \in [last : Nat, pre : Nat]
  BY <1>1, <1>3, OppositeIn DEF TradeType, SimTyped, QuotasType, PricesType
<1>5. charge.fee \in Int /\ charge.atSettle \in Int /\ charge.todayLots \in Nat
  <2>1. tr.volume \in Nat
    BY <1>1 DEF TradeType
  <2>2. charge.fee \in Int /\ charge.atSettle \in Int /\ charge.todayLots \in 0 .. tr.volume
    BY <1>1, <1>4, ChargeTyped
  <2> HIDE DEF charge
  <2>. QED
    BY <2>1, <2>2
<1>6. PositionsTyped(today, positions) /\ profit \in Int
  BY <1>1, <1>3, TradePositions
<1>7. quotas \in QuotasType
  <2> HIDE DEF charge
  <2>. QED
    BY <1>1, <1>3, <1>5, QuotasBooked DEF SimTyped
<1>8. /\ SimTyped(today, before) /\ before.acc = s.acc /\ before.positions = positions
      /\ before.prices = s.prices /\ before.book = s.book /\ before.quotas = quotas
  <2> HIDE DEF positions, quotas
  <2>. QED
    BY <1>3, <1>6, <1>7 DEF SimTyped, SimFields
<1> HIDE DEF before, profit, charge, positions, quotas
<1>9. /\ after.positions = positions /\ after.prices = s.prices /\ after.book = s.book
      /\ after.quotas = quotas /\ Told(after)
      /\ after.acc.frozenMargin = s.acc.frozenMargin /\ after.acc.frozenCommission = s.acc.frozenCommission
  <2> DEFINE done == Commit(before, charge.fee, charge.atSettle, profit)
  <2>1. ~done.broken
    BY <1>2 DEF after
  <2>2. done.positions = before.positions /\ done.prices = before.prices /\ done.book = before.book
    BY <1>5, <1>6, <1>8, <2>1, CommitWrites
  <2>3. /\ Told(done) /\ done.quotas = before.quotas
        /\ done.acc.frozenMargin = before.acc.frozenMargin
        /\ done.acc.frozenCommission = before.acc.frozenCommission
    BY <1>5, <1>6, <1>8, <2>1, CommitTold
  <2> HIDE DEF done
  <2>. QED
    BY <1>2, <1>8, <2>2, <2>3 DEF done
<1>10. FrozenAgrees(after) /\ Valued(after.positions, after.prices)
  BY <1>1, <1>9 DEF Archivable, FrozenAgrees
<1>11. QuotasHold(after)
  BY <1>1, <1>3, <1>9, TradeQuotas DEF Archivable, positions, quotas, charge
<1>12. OrdersRestorable(after)
  BY <1>3, <1>9, OrdersStay DEF SimTyped, Archivable
<1>. QED
  BY <1>9, <1>10, <1>11, <1>12 DEF Archivable, after

\* One order less (place.go Cancel, release).
LEMMA ReleaseArchivable ==
  ASSUME NEW today, NEW s, SimTyped(today, s), Funded(s), Archivable(s),
         NEW id \in B!IDs(s.book), CanRelease(s, id)
  PROVE  Archivable(Released(s, id))
<1> DEFINE order == s.book.live[id].order
           rest == B!Remove(s.book, id)
           a == A!WithoutFrozen(s.acc, order.margin, order.commission)
           after == Released(s, id)
<1>1. DOMAIN s = SimFields /\ DOMAIN s.acc = AccountFields /\ BookTyped(s.book) /\ s.prices \in PricesType
  BY DEF SimTyped, AccountTyped
<1>2. after = [s EXCEPT !.acc = a, !.book = rest]
  BY DEF Released
<1>3. BookAmounts(s.book)
  BY <1>1 DEF BookAmounts, BookTyped, Funded
<1>4. /\ BookAmounts(rest)
      /\ FrozenTotal(s.book).margin = FrozenTotal(rest).margin + order.margin
      /\ FrozenTotal(s.book).commission = FrozenTotal(rest).commission + order.commission
  BY <1>3, TotalWithout
<1>5. order.margin \in Nat /\ order.commission \in Nat
  BY DEF Funded, AmountsTyped
<1>6. FrozenTotal(rest).margin \in Nat /\ FrozenTotal(rest).commission \in Nat
  BY <1>4, FrozenTotalNat
<1>7. \A x \in B!IDs(rest) : x \in B!IDs(s.book) /\ rest.live[x].order = s.book.live[x].order
  BY DEF B!IDs, B!Remove, B!Restrict, Restrict
<1> HIDE DEF order, rest
<1>8. /\ a.frozenMargin = s.acc.frozenMargin - order.margin
      /\ a.frozenCommission = s.acc.frozenCommission - order.commission
      /\ a.currMargin = s.acc.currMargin /\ a.exchangeMargin = s.acc.exchangeMargin
  BY <1>1 DEF A!WithoutFrozen, AccountFields
<1> HIDE DEF a, after
<1>9. /\ after.acc = a /\ after.positions = s.positions /\ after.prices = s.prices
      /\ after.book = rest /\ after.quotas = s.quotas
  BY <1>1, <1>2 DEF SimFields
<1>10. FrozenTotal(rest).margin = a.frozenMargin /\ FrozenTotal(rest).commission = a.frozenCommission
  <2>1. FrozenTotal(s.book).margin = s.acc.frozenMargin /\ FrozenTotal(s.book).commission = s.acc.frozenCommission
    BY DEF Archivable, FrozenAgrees
  <2>. QED
    BY <1>4, <1>5, <1>6, <1>8, <2>1
<1>11. Told(after) /\ FrozenAgrees(after) /\ Valued(after.positions, after.prices) /\ QuotasHold(after)
  BY <1>8, <1>9, <1>10 DEF Archivable, Told, FrozenAgrees, QuotasHold
<1>12. OrdersRestorable(after)
  BY <1>1, <1>7, <1>9, OrdersStay DEF Archivable
<1>. QED
  BY <1>11, <1>12 DEF Archivable, after

\* One order more.
LEMMA HeldArchivable ==
  ASSUME NEW today, NEW s, SimTyped(today, s), Funded(s), Archivable(s), NEW id, id \notin B!IDs(s.book),
         NEW entry, AmountsTyped(entry.order), RestorableOrder(s, entry.order), OrderTyped(entry.order), NEW last
  PROVE  Archivable([s EXCEPT !.acc = A!WithFrozen(s.acc, entry.order.margin, entry.order.commission),
                              !.book = [live |-> B!InsertAt(s.book, id, entry), last |-> last]])
<1> DEFINE order == entry.order
           more == [live |-> B!InsertAt(s.book, id, entry), last |-> last]
           a == A!WithFrozen(s.acc, order.margin, order.commission)
           after == [s EXCEPT !.acc = a, !.book = more]
<1>1. DOMAIN s = SimFields /\ DOMAIN s.acc = AccountFields /\ BookTyped(s.book) /\ s.prices \in PricesType
  BY DEF SimTyped, AccountTyped
<1>2. BookAmounts(s.book)
  BY <1>1 DEF BookAmounts, BookTyped, Funded
<1>3. /\ BookAmounts(more)
      /\ FrozenTotal(more).margin = FrozenTotal(s.book).margin + order.margin
      /\ FrozenTotal(more).commission = FrozenTotal(s.book).commission + order.commission
  BY <1>2, TotalWith
<1>4. B!IDs(more) = B!IDs(s.book) \cup {id}
      /\ \A x \in B!IDs(s.book) \cup {id} : more.live[x] = IF x = id THEN entry ELSE s.book.live[x]
  BY DEF B!IDs, B!InsertAt
<1> HIDE DEF more
<1>5. /\ a.frozenMargin = s.acc.frozenMargin + order.margin
      /\ a.frozenCommission = s.acc.frozenCommission + order.commission
      /\ a.currMargin = s.acc.currMargin /\ a.exchangeMargin = s.acc.exchangeMargin
  BY <1>1 DEF A!WithFrozen, AccountFields
<1> HIDE DEF a
<1>6. /\ after.acc = a /\ after.positions = s.positions /\ after.prices = s.prices
      /\ after.book = more /\ after.quotas = s.quotas
  BY <1>1 DEF SimFields
<1> HIDE DEF after
<1>7. Told(after) /\ FrozenAgrees(after) /\ Valued(after.positions, after.prices) /\ QuotasHold(after)
  BY <1>3, <1>5, <1>6 DEF Archivable, Told, FrozenAgrees, QuotasHold
<1>8. ASSUME NEW x \in B!IDs(more) PROVE RestorableOrder(after, more.live[x].order)
  <2>1. OrderTyped(more.live[x].order) /\ RestorableOrder(s, more.live[x].order)
    BY <1>1, <1>4, <1>8 DEF Archivable, OrdersRestorable, BookTyped
  <2>. QED
    BY <1>1, <1>6, <2>1, SameRestorable
<1>9. OrdersRestorable(after)
  BY <1>6, <1>8 DEF OrdersRestorable
<1>. QED
  BY <1>7, <1>9 DEF Archivable, after, more, a

\* An order that is accepted (place.go PlaceAccepted).
LEMMA PlaceArchivable ==
  ASSUME NEW today, NEW s, SimTyped(today, s), Funded(s), Archivable(s), NEW id, NEW request \in TradeType,
         CanPlace(s, id, request)
  PROVE  Archivable(Placed(s, id, request))
<1> DEFINE req == Rewritten(request)
           order == FrozenOrder(s, req)
           last == s.book.last + 1
           entry == B!Entry(order, last)
<1>1. /\ A!CanFreeze(s.acc, order.margin, order.commission) /\ id \notin B!IDs(s.book)
      /\ CanFreezeOrder(s, req)
  BY DEF CanPlace, CanHold, B!CanInsert, B!IDFree
<1>2. RestorableOrder(s, order)
  BY <1>1, PlacedRestorable
<1>3. req \in TradeType
  BY DatedTyped
<1> HIDE DEF req
<1>4. AmountsTyped(order) /\ OrderTyped(order)
  BY <1>1, <1>3, FreezeTyped, FrozenOrderLots
<1>5. Placed(s, id, request)
        = [s EXCEPT !.acc = A!WithFrozen(s.acc, order.margin, order.commission),
                    !.book = [live |-> B!InsertAt(s.book, id, entry), last |-> last]]
  BY DEF Placed, WithOrder, B!Insert, req
<1> HIDE DEF order, last
<1>6. entry.order = order
  BY DEF B!Entry
<1> HIDE DEF entry
<1>7. Archivable([s EXCEPT !.acc = A!WithFrozen(s.acc, entry.order.margin, entry.order.commission),
                           !.book = [live |-> B!InsertAt(s.book, id, entry), last |-> last]])
  BY <1>1, <1>2, <1>4, <1>6, HeldArchivable
<1>. QED
  BY <1>5, <1>6, <1>7

\* An order that goes back after a refused fill (place.go Fill).
LEMMA PutBackArchivable ==
  ASSUME NEW today, NEW s, NEW c, Good(today, s, c), Funded(s), Archivable(s),
         NEW id \in B!IDs(s.book), CanRelease(s, id),
         ~PutBack(Released(s, id), id, s.book.live[id]).broken
  PROVE  Archivable(PutBack(Released(s, id), id, s.book.live[id]))
<1> DEFINE freed == Released(s, id)
           entry == s.book.live[id]
           a == A!WithFrozen(freed.acc, entry.order.margin, entry.order.commission)
           frozen == [freed EXCEPT !.acc = a]
           book == [live |-> B!InsertAt(freed.book, id, entry), last |-> freed.book.last]
           after == PutBack(freed, id, entry)
<1>1. SimTyped(today, s) /\ SimTyped(today, freed) /\ Funded(freed)
  BY ReleaseKeeps, ReleaseFunded DEF Good, SimTyped
<1>2. Archivable(freed)
  BY <1>1, ReleaseArchivable
<1>3. DOMAIN freed = SimFields /\ freed.prices = s.prices /\ freed.book = B!Remove(s.book, id)
  BY <1>1 DEF Released, SimTyped, SimFields
<1>4. id \notin B!IDs(freed.book)
  BY <1>3 DEF B!IDs, B!Remove, B!Restrict, Restrict
<1>5. AmountsTyped(entry.order) /\ OrderTyped(entry.order) /\ RestorableOrder(s, entry.order)
  BY <1>1 DEF Funded, SimTyped, BookTyped, Archivable, OrdersRestorable
<1> HIDE DEF freed, entry
<1>6. RestorableOrder(freed, entry.order)
  BY <1>1, <1>3, <1>5, SameRestorable DEF SimTyped
<1>7. after = [freed EXCEPT !.acc = a, !.book = book]
  <2>1. \/ after = [freed EXCEPT !.broken = TRUE]
        \/ after = [frozen EXCEPT !.broken = TRUE]
        \/ after = [frozen EXCEPT !.book = B!Reinsert(@, id, entry)]
    BY DEF PutBack
  <2> HIDE DEF a
  <2>2. [freed EXCEPT !.broken = TRUE].broken = TRUE /\ [frozen EXCEPT !.broken = TRUE].broken = TRUE
    BY <1>3 DEF SimFields
  <2>3. frozen.book = freed.book
    BY <1>3 DEF SimFields
  <2>4. ~after.broken
    BY DEF freed, entry
  <2>5. after = [frozen EXCEPT !.book = B!Reinsert(freed.book, id, entry)]
    <3> HIDE DEF after, frozen
    <3>. QED
      BY <2>1, <2>2, <2>3, <2>4
  <2>6. B!Reinsert(freed.book, id, entry) = book
    BY DEF B!Reinsert
  <2> HIDE DEF after, book
  <2>. QED
    BY <1>3, <2>5, <2>6 DEF SimFields
<1>8. Archivable([freed EXCEPT !.acc = a, !.book = book])
  BY <1>1, <1>2, <1>4, <1>5, <1>6, HeldArchivable
<1>. QED
  BY <1>7, <1>8 DEF freed, entry

\* The evening leaves no order, and quotas that are fresh (settle.go Settle).
LEMMA SettleArchivable ==
  ASSUME NEW today \in Int, NEW s, SimTyped(today, s), NEW price \in SettlementType, CanSettle(s, price)
  PROVE  Archivable(NextMorning(s, price))
<1> DEFINE next == NextPrices(s, price)
           rolled == Rolled(s, price)
           evening == Revalued(s.acc, s.positions, SettlementPrices(s, price))
           fresh == A!NewAccount(A!Balance(evening) + evening.commission - evening.settleCommission,
                                 evening.algorithm)
           settled == A!SettledAccount(evening)
           margin == HeldMargin(rolled, next)
           held == A!WithMargin(settled, margin.company, margin.exchange)
           morning == Revalued(settled, rolled, next)
           after == NextMorning(s, price)
<1>1. /\ after.acc = morning /\ after.positions = rolled /\ after.prices = next /\ after.book = s.book
  BY DEF NextMorning, EveningAccount, NewSimulator
<1>2. B!IDs(s.book) = {} /\ Valued(rolled, next)
  BY DEF CanSettle
<1> HIDE DEF evening, rolled, next, after
<1>3. DOMAIN fresh = AccountFields /\ fresh.frozenMargin = 0 /\ fresh.frozenCommission = 0
  BY DEF A!NewAccount, AccountFields
<1>4. settled = [fresh EXCEPT !.currMargin = evening.currMargin, !.exchangeMargin = evening.exchangeMargin]
  BY DEF A!SettledAccount
<1> HIDE DEF fresh, settled
<1>5. DOMAIN settled = AccountFields /\ settled.frozenMargin = 0 /\ settled.frozenCommission = 0
  BY <1>3, <1>4 DEF AccountFields
<1>6. morning = A!WithPositionProfit(held, Profit(rolled, next))
  BY DEF Revalued, WithValuation
<1> HIDE DEF margin
<1>7. /\ DOMAIN held = AccountFields /\ held.currMargin = margin.company
      /\ held.exchangeMargin = margin.exchange /\ held.frozenMargin = 0 /\ held.frozenCommission = 0
  BY <1>5 DEF A!WithMargin, AccountFields
<1> HIDE DEF held, morning
<1>8. /\ morning.currMargin = margin.company /\ morning.exchangeMargin = margin.exchange
      /\ morning.frozenMargin = 0 /\ morning.frozenCommission = 0
  BY <1>6, <1>7 DEF A!WithPositionProfit, AccountFields
<1>9. Told(after)
  BY <1>1, <1>8 DEF Told, margin
<1>10. FrozenAgrees(after)
  BY <1>1, <1>2, <1>8, TotalOfNone DEF FrozenAgrees
<1>11. Valued(after.positions, after.prices) /\ OrdersRestorable(after)
  BY <1>1, <1>2 DEF OrdersRestorable
<1>12. QuotasHold(after)
  BY MorningQuotas DEF after
<1>. QED
  BY <1>9, <1>10, <1>11, <1>12 DEF Archivable, after

\* A simulator that was restored (state.go Restore).
LEMMA RestoredArchivable ==
  ASSUME NEW today \in Int, NEW s, Readable(s), Restorable(s, today)
  PROVE  Archivable(s)
<1>1. RestorableRest(s, today) /\ RestorableQuotas(s) /\ SimTyped(today, s)
  BY RestoredTyped DEF Restorable
<1>2. Told(s)
  <2> DEFINE margin == HeldMargin(s.positions, s.prices)
             held == A!WithMargin(s.acc, margin.company, margin.exchange)
             told == Revalued(s.acc, s.positions, s.prices)
  <2>1. s.acc = told /\ DOMAIN s.acc = AccountFields
    BY <1>1 DEF RestorableRest, SimTyped, AccountTyped
  <2>2. told = A!WithPositionProfit(held, Profit(s.positions, s.prices))
    BY DEF Revalued, WithValuation
  <2> HIDE DEF margin, told
  <2>3. DOMAIN held = AccountFields /\ held.currMargin = margin.company /\ held.exchangeMargin = margin.exchange
    BY <2>1 DEF A!WithMargin, AccountFields
  <2> HIDE DEF held
  <2>4. told.currMargin = margin.company /\ told.exchangeMargin = margin.exchange
    BY <2>2, <2>3 DEF A!WithPositionProfit, AccountFields
  <2>. QED
    BY <2>1, <2>4 DEF Told, margin
<1>3. QuotasHold(s)
  <2>1. ASSUME NEW i \in Instruments, NEW dir \in Directions PROVE SideQuota(s.quotas[i][dir], s.positions[i][dir])
    <3> DEFINE q == s.quotas[i][dir]
               lots == s.positions[i][dir]
    <3>1. q \in QuotaType
      BY <1>1, <2>1 DEF SimTyped, QuotasType
    <3>2. q.explicit <= q.charged /\ q.charged <= q.opened /\ VolumeToday(lots) <= q.opened
      BY <1>1, <2>1 DEF RestorableQuotas
    <3> HIDE DEF q, lots
    <3>3. q.charged - q.explicit <= q.opened
      BY <3>1, <3>2 DEF QuotaType
    <3>4. SideQuota(q, lots)
      BY <3>2, <3>3 DEF SideQuota
    <3>. QED
      BY <3>4 DEF q, lots
  <2>. QED
    BY <2>1 DEF QuotasHold
<1>. QED
  BY <1>1, <1>2, <1>3 DEF Archivable, RestorableRest, OrdersRestorable

-----------------------------------------------------------------------------
(* Whatever Restore accepts is Ready (state.go Restore). *)

LEMMA RestoredBalance ==
  ASSUME NEW today \in Int, NEW s, Readable(s), Restorable(s, today)
  PROVE  Good(today, s, BookedMoney(s.acc) - Carried(s.positions))
<1>1. SimTyped(today, s) /\ s.acc = Revalued(s.acc, s.positions, s.prices)
  BY RestoredTyped DEF Restorable, RestorableRest
<1>2. AccountTyped(s.acc) /\ Profit(s.positions, s.prices) \in Int /\ Carried(s.positions) \in Int
  BY <1>1, ProfitInt, CarriedInt DEF SimTyped
<1>3. s.acc.positionProfit = Profit(s.positions, s.prices)
  <2> DEFINE told == Revalued(s.acc, s.positions, s.prices)
  <2>1. told.positionProfit = Profit(s.positions, s.prices)
    BY <1>2, ValuationTold DEF Revalued
  <2> HIDE DEF told
  <2>2. s.acc = told
    BY <1>1 DEF told
  <2>. QED
    BY <2>1, <2>2
<1>4. BookedMoney(s.acc) \in Int
  BY <1>2, BalanceIs
<1>. QED
  BY <1>1, <1>2, <1>3, <1>4 DEF Good, Balanced

LEMMA RestoredReady ==
  ASSUME NEW today \in Int, NEW s, Readable(s), OrdersMean(s), Restorable(s, today)
  PROVE  Ready(today, s, BookedMoney(s.acc) - Carried(s.positions))
BY RestoredBalance, RestoredCovered, RestoredFunded, RestoredArchivable DEF Ready

-----------------------------------------------------------------------------
(* What an operation makes of a sound simulator. *)

LEMMA SoundParts ==
  ASSUME NEW today, NEW s, NEW c, Ready(today, s, c)
  PROVE  /\ Good(today, s, c) /\ Covered(s) /\ Funded(s) /\ Archivable(s)
         /\ SimTyped(today, s) /\ DOMAIN s = SimFields /\ DOMAIN s.acc = AccountFields
         /\ Healthy(s.acc)
BY DEF Ready, Good, SimTyped, AccountTyped, Funded

\* A payment (account/account.go Deposit, Withdraw).
LEMMA PaymentSound ==
  ASSUME NEW today, NEW s, Sound(today, s), NEW amount \in Int
  PROVE  /\ A!CanDeposit(amount) => Sound(today, [s EXCEPT !.acc = A!Deposited(@, amount)])
         /\ A!CanWithdraw(s.acc, amount) => Sound(today, [s EXCEPT !.acc = A!Withdrawn(@, amount)])
<1>1. PICK c : Ready(today, s, c)
  BY DEF Sound
<1>2. /\ Good(today, s, c) /\ Covered(s) /\ Funded(s) /\ Archivable(s)
      /\ SimTyped(today, s) /\ DOMAIN s = SimFields /\ DOMAIN s.acc = AccountFields
      /\ Healthy(s.acc) /\ ~s.broken
  BY <1>1, SoundParts DEF Sound
<1>3. ASSUME NEW a, Healthy(a), NEW more, Good(today, [s EXCEPT !.acc = a], more),
             a.currMargin = s.acc.currMargin, a.exchangeMargin = s.acc.exchangeMargin,
             a.frozenMargin = s.acc.frozenMargin, a.frozenCommission = s.acc.frozenCommission
      PROVE  Sound(today, [s EXCEPT !.acc = a])
  <2> DEFINE after == [s EXCEPT !.acc = a]
  <2>1. Funded(after) /\ ~after.broken /\ Archivable(after)
    BY <1>2, <1>3, AccountFunded, AccountArchivable
  <2>2. after.positions = s.positions /\ after.book = s.book
    BY <1>2 DEF SimFields
  <2>3. Good(today, after, more)
    BY <1>3
  <2> HIDE DEF after
  <2>4. Covered(after)
    BY <1>2, <2>2, SameCovered
  <2>5. Sound(today, after)
    BY <2>1, <2>3, <2>4 DEF Sound, Ready
  <2>. QED
    BY <2>5 DEF after
<1>4. ASSUME A!CanDeposit(amount) PROVE Sound(today, [s EXCEPT !.acc = A!Deposited(@, amount)])
  <2> DEFINE a == A!Deposited(s.acc, amount)
  <2>1. Healthy(a)
    BY <1>2, <1>4, HealthyMoney
  <2>2. Good(today, [s EXCEPT !.acc = a], c + amount)
    BY <1>2, DepositKeeps
  <2>3. /\ a.currMargin = s.acc.currMargin /\ a.exchangeMargin = s.acc.exchangeMargin
        /\ a.frozenMargin = s.acc.frozenMargin /\ a.frozenCommission = s.acc.frozenCommission
    BY <1>2 DEF A!Deposited, AccountFields
  <2> HIDE DEF a
  <2>4. Sound(today, [s EXCEPT !.acc = a])
    BY <1>3, <2>1, <2>2, <2>3
  <2>. QED
    BY <2>4 DEF a
<1>5. ASSUME A!CanWithdraw(s.acc, amount) PROVE Sound(today, [s EXCEPT !.acc = A!Withdrawn(@, amount)])
  <2> DEFINE a == A!Withdrawn(s.acc, amount)
  <2>1. Healthy(a)
    BY <1>2, <1>5, HealthyMoney
  <2>2. Good(today, [s EXCEPT !.acc = a], c + (-amount))
    BY <1>2, WithdrawKeeps
  <2>3. /\ a.currMargin = s.acc.currMargin /\ a.exchangeMargin = s.acc.exchangeMargin
        /\ a.frozenMargin = s.acc.frozenMargin /\ a.frozenCommission = s.acc.frozenCommission
    BY <1>2 DEF A!Withdrawn, AccountFields
  <2> HIDE DEF a
  <2>4. Sound(today, [s EXCEPT !.acc = a])
    BY <1>3, <2>1, <2>2, <2>3
  <2>. QED
    BY <2>4 DEF a
<1>. QED
  BY <1>4, <1>5

\* A quote never breaks it (trade.go Mark).
LEMMA MarkSound ==
  ASSUME NEW today, NEW s, Sound(today, s), NEW inst \in Instruments, NEW quote \in [last : Nat, pre : Nat],
         CanMark(s, inst, quote)
  PROVE  Sound(today, Marked(s, inst, quote))
<1> DEFINE after == Marked(s, inst, quote)
<1>1. PICK c : Ready(today, s, c)
  BY DEF Sound
<1>2. Good(today, s, c) /\ Covered(s) /\ Funded(s) /\ Archivable(s) /\ ~s.broken
  BY <1>1, SoundParts DEF Sound
<1>3. ~after.broken /\ Funded(after)
  BY <1>2, MarkFunded
<1>4. Good(today, after, c) /\ after.positions = s.positions /\ after.book = s.book
  BY <1>2, <1>3, MarkKeeps
<1>5. Archivable(after)
  BY <1>2, <1>3, MarkArchivable
<1> HIDE DEF after
<1>6. Covered(after)
  BY <1>2, <1>4, SameCovered
<1>7. Sound(today, after)
  BY <1>3, <1>4, <1>5, <1>6 DEF Sound, Ready
<1>. QED
  BY <1>7 DEF after

\* A trade (trade.go ApplyTrade).
LEMMA TradeSound ==
  ASSUME NEW today \in Int, NEW s, Sound(today, s), NEW request \in TradeType, CanTrade(s, today, request),
         ~Traded(s, today, request).broken
  PROVE  Sound(today, Traded(s, today, request))
<1> DEFINE after == Traded(s, today, request)
           tr == DatedTrade(request)
<1>1. PICK c : Ready(today, s, c)
  BY DEF Sound
<1>2. Good(today, s, c) /\ Covered(s) /\ Funded(s) /\ Archivable(s) /\ ~s.broken /\ SimTyped(today, s)
  BY <1>1, SoundParts DEF Sound
<1>3. Funded(after) /\ Archivable(after)
  BY <1>2, TradeFunded, TradeArchivable
<1>4. /\ Good(today, after, c + TradeCash(s, request))
      /\ after.positions = PositionsAfter(s, today, tr) /\ after.book = s.book
  BY <1>2, TradeKeeps
<1>5. TakesFreeLots(s, tr) /\ tr \in TradeType /\ ~after.broken
  BY DatedTyped DEF CanTrade, DatedTradeFits
<1> HIDE DEF after, tr
<1>6. Covered(after)
  BY <1>2, <1>4, <1>5, TradeCovered
<1>7. Sound(today, after)
  BY <1>3, <1>4, <1>5, <1>6 DEF Sound, Ready
<1>. QED
  BY <1>7 DEF after

\* A placed order (place.go PlaceAccepted).
LEMMA PlaceSound ==
  ASSUME NEW today, NEW s, Sound(today, s), NEW id, NEW request \in TradeType, CanPlace(s, id, request)
  PROVE  Sound(today, Placed(s, id, request))
<1> DEFINE after == Placed(s, id, request)
<1>1. PICK c : Ready(today, s, c)
  BY DEF Sound
<1>2. /\ Good(today, s, c) /\ Covered(s) /\ Funded(s) /\ Archivable(s) /\ ~s.broken
      /\ SimTyped(today, s) /\ DOMAIN s = SimFields
  BY <1>1, SoundParts DEF Sound
<1>3. Good(today, after, c) /\ Covered(after) /\ Funded(after) /\ Archivable(after)
  BY <1>2, PlaceKeeps, PlaceCovered, PlaceFunded, PlaceArchivable
<1>4. ~after.broken
  BY <1>2 DEF Placed, WithOrder, SimFields
<1> HIDE DEF after
<1>5. Sound(today, after)
  BY <1>3, <1>4 DEF Sound, Ready
<1>. QED
  BY <1>5 DEF after

\* An order off the book, and back on it after a refused fill (place.go Cancel, Fill).
LEMMA ReleaseSound ==
  ASSUME NEW today, NEW s, Sound(today, s), NEW id, CanRelease(s, id)
  PROVE  /\ Sound(today, Released(s, id))
         /\ LET after == PutBack(Released(s, id), id, s.book.live[id]) IN
              ~after.broken => Sound(today, after)
<1> DEFINE freed == Released(s, id)
           after == PutBack(freed, id, s.book.live[id])
<1>1. PICK c : Ready(today, s, c)
  BY DEF Sound
<1>2. /\ Good(today, s, c) /\ Covered(s) /\ Funded(s) /\ Archivable(s) /\ ~s.broken
      /\ SimTyped(today, s) /\ DOMAIN s = SimFields /\ id \in B!IDs(s.book)
  BY <1>1, SoundParts DEF Sound, CanRelease
<1>3. Good(today, freed, c) /\ Covered(freed) /\ Funded(freed) /\ Archivable(freed)
  BY <1>2, ReleaseKeeps, ReleaseCovered, ReleaseFunded, ReleaseArchivable
<1>4. ~freed.broken
  BY <1>2 DEF Released, SimFields
<1>5. OrderTyped(s.book.live[id].order)
  BY <1>2 DEF SimTyped, BookTyped
<1>6. ~after.broken => Covered(after) /\ Funded(after) /\ Archivable(after)
  BY <1>2, PutBackCovered, PutBackFunded, PutBackArchivable
<1> HIDE DEF freed
<1>7. ~after.broken => Good(today, after, c)
  BY <1>3, <1>5, PutBackKeeps
<1> HIDE DEF after
<1>8. Sound(today, freed) /\ (~after.broken => Sound(today, after))
  BY <1>3, <1>4, <1>6, <1>7 DEF Sound, Ready
<1>. QED
  BY <1>8 DEF freed, after

\* What is sound in the evening, all its lots history, is so on any later day.
LEMMA LaterSound ==
  ASSUME NEW today \in Int, NEW later \in Int, later >= today, NEW s, Sound(today, s),
         \A i \in Instruments, dir \in Directions :
           \A k \in DOMAIN s.positions[i][dir] : s.positions[i][dir][k].settled
  PROVE  Sound(later, s)
<1>1. PICK c : Ready(today, s, c)
  BY DEF Sound
<1>2. Good(today, s, c) /\ Covered(s) /\ Funded(s) /\ Archivable(s) /\ ~s.broken /\ SimTyped(today, s)
  BY <1>1, SoundParts DEF Sound
<1>3. ASSUME NEW i \in Instruments, NEW dir \in Directions PROVE RestorableSide(later, s.positions[i][dir])
  <2> DEFINE lots == s.positions[i][dir]
  <2>1. lots \in Seq(LotSet) /\ RestorableSide(today, lots) /\ \A k \in DOMAIN lots : lots[k].settled
    BY <1>2, <1>3 DEF SimTyped, PositionsTyped
  <2> HIDE DEF lots
  <2>2. ASSUME NEW k \in DOMAIN lots PROVE lots[k].settled /\ lots[k].openDay < later
    <3>1. lots[k] \in LotSet
      BY <2>1, <2>2
    <3>2. lots[k].settled /\ lots[k].openDay < today
      BY <2>1, <2>2 DEF RestorableSide
    <3>3. lots[k].openDay \in Int
      BY <3>1 DEF LotSet
    <3>4. lots[k].openDay < later
      <4> DEFINE opened == lots[k].openDay
      <4> HIDE DEF opened
      <4>1. opened < today /\ opened \in Int => opened < later
        OBVIOUS
      <4>. QED
        BY <3>2, <3>3, <4>1 DEF opened
    <3>. QED
      BY <3>2, <3>4
  <2>3. RestorableSide(later, lots)
    BY <2>1, <2>2 DEF RestorableSide
  <2>. QED
    BY <2>3 DEF lots
<1>4. SimTyped(later, s)
  BY <1>2, <1>3 DEF SimTyped, PositionsTyped
<1>. QED
  BY <1>2, <1>4 DEF Sound, Ready, Good

\* The account refuses no evening of a sound simulator (settle.go Settle).
LEMMA SoundSettles ==
  ASSUME NEW today \in Int, NEW s, Sound(today, s), NEW price \in SettlementType, CanSettle(s, price)
  PROVE  AccountSettles(s, price)
<1>1. SimTyped(today, s)
  BY SoundParts DEF Sound, Ready, Good
<1>. QED
  BY <1>1, EveningSettles

\* An evening, to whatever day comes next (settle.go Settle).
LEMMA SettleSound ==
  ASSUME NEW today \in Int, NEW later \in Int, later > today, NEW s, Sound(today, s),
         NEW price \in SettlementType, CanSettle(s, price)
  PROVE  Sound(later, Settled(s, price))
<1> DEFINE after == Settled(s, price)
<1>1. PICK c : Ready(today, s, c)
  BY DEF Sound
<1>2. Good(today, s, c) /\ Funded(s) /\ ~s.broken /\ SimTyped(today, s)
  BY <1>1, SoundParts DEF Sound
<1>3. after = NextMorning(s, price)
  BY <1>2, EveningSettles
<1>4. after.positions = Rolled(s, price)
  BY <1>3 DEF NextMorning, NewSimulator
<1>5. /\ Good(today + 1, after, c + s.acc.commission - s.acc.settleCommission)
      /\ ~after.broken /\ Funded(after) /\ Covered(after) /\ Archivable(after)
  <2> HIDE DEF after
  <2>. QED
    BY <1>2, <1>3, SettleKeeps, SettleFunded, SettleCovered, SettleArchivable
<1>6. ASSUME NEW i \in Instruments, NEW dir \in Directions, NEW k \in DOMAIN after.positions[i][dir]
      PROVE  after.positions[i][dir][k].settled
  <2> DEFINE lots == s.positions[i][dir]
  <2>1. after.positions[i][dir] = SettleAll(lots, price[i]) /\ lots \in Seq(LotSet)
    BY <1>2, <1>4 DEF Rolled, SimTyped, PositionsTyped
  <2>2. k \in DOMAIN SettleAll(lots, price[i])
    BY <1>6, <2>1
  <2> HIDE DEF lots, after
  <2>3. k \in DOMAIN lots /\ SettleAll(lots, price[i])[k] = [lots[k] EXCEPT !.basis = price[i], !.settled = TRUE]
    BY <2>2 DEF SettleAll
  <2>4. lots[k] \in LotSet
    BY <2>1, <2>3
  <2>5. [lots[k] EXCEPT !.basis = price[i], !.settled = TRUE].settled
    BY <2>4 DEF LotSet
  <2>. QED
    BY <2>1, <2>3, <2>5
<1> HIDE DEF after
<1>7. Sound(today + 1, after)
  BY <1>5 DEF Sound, Ready
<1>8. Sound(later, after)
  BY <1>6, <1>7, LaterSound
<1>. QED
  BY <1>8 DEF after

\* A sound simulator without orders is one that an archive can be read into.
LEMMA SoundReadable ==
  ASSUME NEW today, NEW s, Sound(today, s), s.broken = FALSE, B!IDs(s.book) = {}
  PROVE  Readable(s) /\ OrdersMean(s) /\ PositionsTyped(today, s.positions)
<1>1. PICK c : Ready(today, s, c)
  BY DEF Sound
<1>2. SimTyped(today, s) /\ Funded(s) /\ Healthy(s.acc) /\ ~s.broken
  BY <1>1, SoundParts DEF Sound
<1>3. s.acc \in A!ArchiveType
  BY <1>2 DEF Healthy, A!AccountType, A!ArchiveType, A!AccountOf
<1>4. ASSUME NEW i \in Instruments, NEW dir \in Directions PROVE s.positions[i][dir] \in Seq(LotType)
  <2> DEFINE lots == s.positions[i][dir]
  <2>1. lots \in Seq(LotSet)
    BY <1>2, <1>4 DEF SimTyped, PositionsTyped
  <2> HIDE DEF lots
  <2>2. ASSUME NEW k \in 1 .. Len(lots) PROVE lots[k] \in LotType
    <3>1. lots[k] \in LotSet
      BY <2>1, <2>2
    <3>. QED
      BY <3>1 DEF LotSet, LotType
  <2>3. lots \in Seq(LotType)
    BY <2>1, <2>2
  <2>. QED
    BY <2>3 DEF lots
<1>5. s.positions \in [Instruments -> [Directions -> Seq(LotType)]]
  <2>1. s.positions = [i \in Instruments |-> [dir \in Directions |-> s.positions[i][dir]]]
    BY <1>2 DEF SimTyped, PositionsTyped
  <2>. QED
    BY <1>4, <2>1
<1>6. /\ DOMAIN s = SimFields /\ s.prices \in PricesType /\ s.quotas \in QuotasType
      /\ IsFiniteSet(B!IDs(s.book)) /\ s.book.last \in Nat /\ PositionsTyped(today, s.positions)
  BY <1>2 DEF SimTyped, BookTyped, Funded, Numbered
<1>7. Readable(s)
  BY <1>3, <1>5, <1>6 DEF Readable
<1>8. OrdersMean(s)
  BY DEF OrdersMean
<1>. QED
  BY <1>6, <1>7, <1>8

\* An evening valued under other rules, when it can be restored (lifecycle.go SettleWithRules).
LEMMA MorningSound ==
  ASSUME NEW today \in Int, NEW s, Readable(s), PositionsTyped(today, s.positions), OrdersMean(s), ~s.broken,
         Restorable([s EXCEPT !.acc = Revalued(@, s.positions, s.prices)], today)
  PROVE  Sound(today, [s EXCEPT !.acc = Revalued(@, s.positions, s.prices)])
<1> DEFINE margin == HeldMargin(s.positions, s.prices)
           profit == Profit(s.positions, s.prices)
           acc == Revalued(s.acc, s.positions, s.prices)
           after == [s EXCEPT !.acc = acc]
<1>1. margin.exchange \in Int /\ margin.company \in Int /\ profit \in Int
  <2>1. s.prices \in PricesType
    BY DEF Readable
  <2>2. Fair(margin) /\ profit \in Int
    BY <2>1, HeldMarginFair, ProfitInt
  <2> HIDE DEF margin, profit
  <2>. QED
    BY <2>2 DEF Fair
<1>2. acc = [s.acc EXCEPT !.currMargin = margin.company, !.exchangeMargin = margin.exchange,
                          !.positionProfit = profit]
  BY DEF Readable, Revalued, WithValuation, A!WithPositionProfit, A!WithMargin, A!ArchiveType, A!AccountOf
<1> HIDE DEF margin, profit, acc
<1>3. acc \in A!ArchiveType
  BY <1>1, <1>2 DEF Readable, A!ArchiveType, A!AccountOf
<1>4. /\ DOMAIN after = SimFields /\ after.broken = s.broken /\ after.acc = acc
      /\ after.positions = s.positions /\ after.prices = s.prices
      /\ after.book = s.book /\ after.quotas = s.quotas
  BY DEF Readable, SimFields
<1>5. Restorable(after, today)
  BY DEF acc
<1> HIDE DEF after
<1>6. Readable(after) /\ OrdersMean(after)
  BY <1>3, <1>4 DEF Readable, OrdersMean
<1>7. Sound(today, after)
  BY <1>4, <1>5, <1>6, RestoredReady DEF Sound
<1>. QED
  BY <1>7 DEF after, acc
\* An order whose lots are there besides the frozen ones can be held (submit.go FreezeOf).
LEMMA FreeLotsCover ==
  ASSUME NEW today, NEW s, SimTyped(today, s), Covered(s), NEW request \in TradeType, CanFreezeOrder(s, request),
         LET tr     == DatedTrade(request)
             lots   == s.positions[tr.inst][Opposite(tr.dir)]
             frozen == FrozenOf(s.book, tr.inst, Opposite(tr.dir))
         IN  /\ tr.offset = "CloseToday" => tr.volume <= VolumeToday(lots) - frozen.today
             /\ tr.offset = "CloseYesterday" => tr.volume <= VolumeHistory(lots) - frozen.history
  PROVE  Coverable(s, FrozenOrder(s, request))
<1> DEFINE tr == DatedTrade(request)
           order == FrozenOrder(s, request)
           held == Opposite(tr.dir)
           lots == s.positions[tr.inst][held]
           frozen == FrozenOf(s.book, tr.inst, held)
           h == HistoryPart(s, tr)
           vt == VolumeToday(lots)
           vh == VolumeHistory(lots)
           ft == frozen.today
           fh == frozen.history
<1>1. tr \in TradeType /\ tr.inst = request.inst /\ tr.dir = request.dir /\ tr.volume = request.volume
  BY DatedTyped
<1>2. held \in Directions /\ tr.inst \in Instruments /\ tr.volume \in Nat /\ tr.offset \in Offsets
  BY <1>1, OppositeIn DEF TradeType, Offsets
<1>3. vt \in Nat /\ vh \in Nat /\ ft \in Nat /\ fh \in Nat /\ ft <= vt /\ fh <= vh
  BY <1>2, SideCovered
<1>4. /\ order.history = h /\ order.today = (IF tr.offset = "Open" THEN 0 ELSE tr.volume - h)
      /\ order.inst = tr.inst /\ order.dir = tr.dir /\ order.offset = request.offset
  BY <1>1 DEF FrozenOrder, OrderFreezing
<1>5. h \in 0 .. tr.volume
  BY <1>1, DividedClose
<1>6. /\ tr.offset = "CloseToday" => tr.volume <= vt - ft
      /\ tr.offset = "CloseYesterday" => tr.volume <= vh - fh
  OBVIOUS
<1>7. /\ tr.offset = "CloseToday" => h = 0
      /\ tr.offset = "CloseYesterday" => h = tr.volume
  BY DEF HistoryPart
<1>8. ASSUME tr.offset = "Close" PROVE h <= vh - fh /\ tr.volume - h <= vt - ft
  <2>1. CanSplit(s, tr.inst, held, tr.volume) /\ h = ToHistory(s, tr.inst, held, tr.volume)
    BY <1>8 DEF CanFreezeOrder, HistoryPart
  <2>2. /\ h = Min({tr.volume, Max({vh - fh, 0})})
        /\ tr.volume - h <= Max({vt - ft, 0})
    BY <2>1 DEF ToHistory, CanSplit
  <2> DEFINE volume == tr.volume
             there == vh - fh
             rest == vt - ft
  <2> HIDE DEF tr, h, vt, vh, ft, fh
  <2>3. there \in Nat /\ rest \in Nat /\ volume \in Nat
    BY <1>2, <1>3
  <2>4. h = Min({volume, Max({there, 0})}) /\ volume - h <= Max({rest, 0})
    BY <2>2
  <2> HIDE DEF volume, there, rest
  <2>5. Max({rest, 0}) = rest
    BY <2>3, MaxOfTwo
  <2>6. h = IF there <= 0 THEN 0 ELSE IF volume <= there THEN volume ELSE there
    BY <2>3, <2>4, LeastWanted
  <2>7. h <= there /\ volume - h <= rest
    BY <2>3, <2>4, <2>5, <2>6
  <2>. QED
    BY <2>7 DEF volume, there, rest
<1>9. request.offset = "Open" <=> tr.offset = "Open"
  BY <1>1 DEF DatedTrade, Dated, TradeType
<1> HIDE DEF tr, h, vt, vh, ft, fh
<1>10. tr.offset # "Open" => ft + (tr.volume - h) <= vt /\ fh + h <= vh
  BY <1>2, <1>3, <1>5, <1>6, <1>7, <1>8 DEF Offsets
<1>. QED
  BY <1>4, <1>9, <1>10 DEF Coverable, vt, vh, ft, fh

\* Lots that validation found free are lots a trade finds (order/order.go checkClosable, trade.go ApplyTrade).
LEMMA FreeLotsTaken ==
  ASSUME NEW today, NEW s, SimTyped(today, s), Covered(s), NEW request \in TradeType, CanFreezeOrder(s, request),
         LET tr     == DatedTrade(request)
             lots   == s.positions[tr.inst][Opposite(tr.dir)]
             frozen == FrozenOf(s.book, tr.inst, Opposite(tr.dir))
         IN  /\ tr.offset = "CloseToday" => tr.volume <= VolumeToday(lots) - frozen.today
             /\ tr.offset = "CloseYesterday" => tr.volume <= VolumeHistory(lots) - frozen.history
  PROVE  TakesFreeLots(s, DatedTrade(request))
<1>. DEFINE tr == DatedTrade(request)
            order == FrozenOrder(s, request)
            held == Opposite(tr.dir)
            lots == s.positions[tr.inst][held]
            frozen == FrozenOf(s.book, tr.inst, held)
            h == HistoryPart(s, tr)
            left == TakenBy(s, tr).left
            vt == VolumeToday(lots)
            vh == VolumeHistory(lots)
            ft == frozen.today
            fh == frozen.history
            volume == tr.volume
<1>1. tr \in TradeType /\ tr.inst = request.inst /\ tr.dir = request.dir /\ tr.volume = request.volume
  BY DatedTyped
<1>2. held \in Directions /\ tr.inst \in Instruments /\ volume \in Nat /\ tr.offset \in Offsets
  BY <1>1, OppositeIn DEF TradeType, Offsets
<1>3. vt \in Nat /\ vh \in Nat /\ ft \in Nat /\ fh \in Nat /\ ft <= vt /\ fh <= vh /\ lots \in Seq(LotSet)
  BY <1>2, SideCovered
<1>4. h \in 0 .. volume
  BY <1>1, DividedClose
<1>5. request.offset = "Open" <=> tr.offset = "Open"
  BY <1>1 DEF DatedTrade, Dated, TradeType
<1>6. /\ order.history = h /\ order.today = (IF tr.offset = "Open" THEN 0 ELSE volume - h)
      /\ order.inst = tr.inst /\ order.dir = tr.dir /\ order.offset = request.offset
  BY <1>1 DEF FrozenOrder, OrderFreezing
<1>7. Coverable(s, order)
  BY FreeLotsCover
<1>8. ASSUME tr.offset # "Open" PROVE ft + (volume - h) <= vt /\ fh + h <= vh
  <2>. HIDE DEF order, tr
  <2>. QED
    BY <1>5, <1>6, <1>7, <1>8 DEF Coverable
<1>9. ASSUME tr.offset # "Open" PROVE CloseFits(s, tr)
  <2>1. CASE tr.offset = "Close"
    BY <2>1 DEF CloseFits, CanFreezeOrder
  <2>2. CASE tr.offset = "CloseToday"
    <3>1. volume <= vt - ft
      BY <2>2
    <3>. HIDE DEF volume, vt, ft
    <3>2. volume <= vt
      BY <1>2, <1>3, <3>1
    <3>. QED
      BY <2>2, <3>2 DEF CloseFits, Closable, volume, vt
  <2>3. CASE tr.offset = "CloseYesterday"
    <3>1. volume <= vh - fh
      BY <2>3
    <3>. HIDE DEF volume, vh, fh
    <3>2. volume <= vh
      BY <1>2, <1>3, <3>1
    <3>. QED
      BY <2>3, <3>2 DEF CloseFits, Closable, volume, vh
  <2>. QED
    BY <1>2, <1>9, <2>1, <2>2, <2>3 DEF Offsets
<1>10. ASSUME tr.offset # "Open" PROVE LeavesFrozen(s, tr.inst, held, left)
  <2>. HIDE DEF tr, h, vt, vh, ft, fh, volume, left
  <2>1. h <= vh /\ volume - h <= vt
    BY <1>2, <1>3, <1>4, <1>8, <1>10
  <2>2. VolumeToday(left) = vt - (volume - h) /\ VolumeHistory(left) = vh - h
    BY <1>2, <1>3, <1>4, <2>1, TakenVolumes DEF h, vt, vh, volume, left
  <2>3. VolumeToday(left) >= ft /\ VolumeHistory(left) >= fh
    BY <1>2, <1>3, <1>4, <1>8, <1>10, <2>2
  <2>. QED
    BY <2>3 DEF LeavesFrozen, ft, fh
<1>. HIDE DEF tr
<1>11. TakesFreeLots(s, tr)
  BY <1>9, <1>10 DEF TakesFreeLots
<1>. QED
  BY <1>11 DEF tr

\* Both prices of every instrument are known (simulator.go Mark).
AllPriced(s) == \A i \in Instruments : s.prices[i].last > 0 /\ s.prices[i].pre > 0

\* The contracts of one merge group are under one margin rule (refdata/refdata.go).
GroupsAgree ==
  \A i, j \in Instruments : KeyOf(i) = KeyOf(j) => Contract[i].maxMarginSide = Contract[j].maxMarginSide

\* A request that freezes its fee and finds its lots is a trade once prices are known (trade.go ApplyTrade).
LEMMA FreezableTrades ==
  ASSUME NEW today, NEW s, SimTyped(today, s), Covered(s), NEW request \in TradeType, CanFreezeOrder(s, request),
         LET tr     == DatedTrade(request)
             lots   == s.positions[tr.inst][Opposite(tr.dir)]
             frozen == FrozenOf(s.book, tr.inst, Opposite(tr.dir))
         IN  /\ tr.offset = "CloseToday" => tr.volume <= VolumeToday(lots) - frozen.today
             /\ tr.offset = "CloseYesterday" => tr.volume <= VolumeHistory(lots) - frozen.history,
         AllPriced(s), GroupsAgree
  PROVE  CanTrade(s, today, request)
<1>1. TakesFreeLots(s, DatedTrade(request))
  BY FreeLotsTaken
<1>2. ChargeKnown(s, DatedTrade(request))
  BY DEF CanFreezeOrder
<1>3. ASSUME NEW positions PROVE Valued(positions, s.prices)
  BY DEF Valued, Held, AllPriced, GroupsAgree
<1>. QED
  BY <1>1, <1>2, <1>3 DEF CanTrade, DatedTradeFits

-----------------------------------------------------------------------------
(* Submitting, and placing and filling (submit.go Submit, place.go). *)

\* What is committed does not look at the book (simulator.go commit).
LEMMA CommittedAside ==
  ASSUME NEW s, s = [x \in SimFields |-> s[x]], NEW book, NEW fee, NEW atSettle, NEW profit
  PROVE  [Commit([s EXCEPT !.book = book], fee, atSettle, profit) EXCEPT !.book = s.book]
           = Commit(s, fee, atSettle, profit)
<1>. DEFINE r == [s EXCEPT !.book = book]
            written == Revalued(A!WithCloseProfit(A!Charged(s.acc, fee, atSettle), profit), s.positions, s.prices)
            fits == A!CanCharge(fee, atSettle) /\ A!CanSetMargin(written.currMargin, written.exchangeMargin)
                      /\ A!Check(written)
<1>1. DOMAIN s = SimFields
  OBVIOUS
<1>2. r.acc = s.acc /\ r.positions = s.positions /\ r.prices = s.prices
  BY <1>1 DEF SimFields
<1>3. Commit(s, fee, atSettle, profit) = IF fits THEN [s EXCEPT !.acc = written] ELSE [s EXCEPT !.broken = TRUE]
  BY Zenon DEF Commit, Committed
<1>4. Commit(r, fee, atSettle, profit) = IF fits THEN [r EXCEPT !.acc = written] ELSE [r EXCEPT !.broken = TRUE]
  <2>. HIDE DEF r
  <2>. QED
    BY <1>2, Zenon DEF Commit, Committed
<1>. HIDE DEF written, fits
<1>5. [[r EXCEPT !.acc = written] EXCEPT !.book = s.book] = [s EXCEPT !.acc = written]
  BY <1>1 DEF SimFields
<1>6. [[r EXCEPT !.broken = TRUE] EXCEPT !.book = s.book] = [s EXCEPT !.broken = TRUE]
  BY <1>1 DEF SimFields
<1>. QED
  BY <1>3, <1>4, <1>5, <1>6

\* Only what live orders have frozen is looked at by a trade (trade.go ApplyTrade).
LEMMA TradeAside ==
  ASSUME NEW s, DOMAIN s = SimFields, NEW book,
         \A i, held : FrozenOf(book, i, held) = FrozenOf(s.book, i, held),
         NEW today, NEW request
  PROVE  [Traded([s EXCEPT !.book = book], today, request) EXCEPT !.book = s.book] = Traded(s, today, request)
<1>. DEFINE r  == [s EXCEPT !.book = book]
            tr == DatedTrade(request)
<1>1. /\ r.acc = s.acc /\ r.positions = s.positions /\ r.prices = s.prices /\ r.quotas = s.quotas /\ r.book = book
  BY DEF SimFields
<1>. HIDE DEF r, tr
<1>2. HistoryPart(r, tr) = HistoryPart(s, tr)
  BY <1>1 DEF HistoryPart, ToHistory
<1>3. TakenBy(r, tr) = TakenBy(s, tr)
  BY <1>1, <1>2 DEF TakenBy
<1>4. PositionsAfter(r, today, tr) = PositionsAfter(s, today, tr) /\ CloseProfit(r, tr) = CloseProfit(s, tr)
  BY <1>1, <1>3 DEF PositionsAfter, CloseProfit
<1>5. Charge(r, tr) = Charge(s, tr)
  BY <1>1 DEF Charge, FeeOf, FeePrice, TodayLots, QuotaOf
<1>6. Booked(r, tr, Charge(s, tr).todayLots) = Booked(s, tr, Charge(s, tr).todayLots)
  BY <1>1 DEF Booked
<1>. DEFINE a == [s EXCEPT !.positions = PositionsAfter(s, today, tr),
                           !.quotas = Booked(s, tr, Charge(s, tr).todayLots)]
            charge == Charge(s, tr)
            profit == CloseProfit(s, tr)
<1>7. a = [x \in SimFields |-> a[x]] /\ a.book = s.book
  BY DEF SimFields
<1>8. [r EXCEPT !.positions = PositionsAfter(s, today, tr), !.quotas = Booked(s, tr, Charge(s, tr).todayLots)]
        = [a EXCEPT !.book = book]
  BY DEF SimFields, r
<1>9. Traded(s, today, request) = Commit(a, charge.fee, charge.atSettle, profit)
  BY DEF Traded, Recorded, tr
<1>10. Traded(r, today, request) = Commit([a EXCEPT !.book = book], charge.fee, charge.atSettle, profit)
  BY <1>4, <1>5, <1>6, <1>8 DEF Traded, Recorded, tr
<1>. HIDE DEF a, charge, profit
<1>11. [Traded(r, today, request) EXCEPT !.book = s.book] = Traded(s, today, request)
  BY <1>7, <1>9, <1>10, CommittedAside
<1>. QED
  BY <1>11 DEF r

\* What is frozen and freed again was never frozen (account/account.go Freeze, Unfreeze).
LEMMA FreezeUndone ==
  ASSUME NEW a \in A!AccountType, NEW margin \in Int, NEW commission \in Int
  PROVE  A!WithoutFrozen(A!WithFrozen(a, margin, commission), margin, commission) = a
<1>. DEFINE b == A!WithFrozen(a, margin, commission)
            c == A!WithoutFrozen(b, margin, commission)
<1>1. a = [f \in AccountFields |-> a[f]] /\ a.frozenMargin \in Nat /\ a.frozenCommission \in Nat
  BY DEF A!AccountType, A!AccountOf, AccountFields
<1>2. /\ b = [a EXCEPT !.frozenMargin = @ + margin, !.frozenCommission = @ + commission]
      /\ c = [b EXCEPT !.frozenMargin = @ - margin, !.frozenCommission = @ - commission]
  BY DEF A!WithFrozen, A!WithoutFrozen
<1>. HIDE DEF b, c
<1>3. DOMAIN a = AccountFields
  BY <1>1
<1>4. /\ DOMAIN b = AccountFields
      /\ b.frozenMargin = a.frozenMargin + margin /\ b.frozenCommission = a.frozenCommission + commission
      /\ \A f \in AccountFields \ {"frozenMargin", "frozenCommission"} : b[f] = a[f]
  BY <1>2, <1>3 DEF AccountFields
<1>5. c = [f \in AccountFields |-> c[f]]
  BY <1>2, <1>4
<1>6. c.frozenMargin = a.frozenMargin /\ c.frozenCommission = a.frozenCommission
  <2>1. c.frozenMargin = b.frozenMargin - margin /\ c.frozenCommission = b.frozenCommission - commission
    BY <1>2, <1>4 DEF AccountFields
  <2>. QED
    BY <1>1, <1>4, <2>1
<1>7. \A f \in AccountFields \ {"frozenMargin", "frozenCommission"} : c[f] = a[f]
  BY <1>2, <1>4
<1>8. \A f \in AccountFields : c[f] = a[f]
  BY <1>6, <1>7
<1>9. c = a
  BY <1>1, <1>5, <1>8
<1>. QED
  BY <1>9 DEF b, c

\* An order that is placed and taken off again leaves nothing but its number (place.go Place, Cancel).
LEMMA PlaceThenRelease ==
  ASSUME NEW today, NEW s, SimTyped(today, s), s.acc \in A!AccountType, NEW id, id \notin B!IDs(s.book),
         NEW request \in TradeType
  PROVE  LET placed == Placed(s, id, request)
             freed  == Released(placed, id)
         IN  /\ freed = [s EXCEPT !.book = freed.book]
             /\ \A i, held : FrozenOf(freed.book, i, held) = FrozenOf(s.book, i, held)
             /\ TradeOf(placed.book.live[id].order) = Rewritten(request)
<1>. DEFINE o      == Rewritten(request)
            order  == FrozenOrder(s, o)
            placed == Placed(s, id, request)
            freed  == Released(placed, id)
<1>1. o \in TradeType
  BY DatedTyped
<1>2. order.margin \in Int /\ order.commission \in Int
  BY <1>1, FreezeInt
<1>3. TradeOf(order) = o
  <2>. HIDE DEF o
  <2>1. /\ order.inst = o.inst /\ order.dir = o.dir /\ order.offset = o.offset
        /\ order.price = o.price /\ order.volume = o.volume
    BY DEF FrozenOrder, OrderFreezing
  <2>. HIDE DEF order
  <2>. QED
    BY <1>1, <2>1 DEF TradeOf, TradeType
<1>. HIDE DEF order
<1>4. DOMAIN s = SimFields
  BY DEF SimTyped
<1>5. /\ placed = [s EXCEPT !.acc = A!WithFrozen(s.acc, order.margin, order.commission),
                            !.book = B!Insert(s.book, id, order)]
      /\ placed.acc = A!WithFrozen(s.acc, order.margin, order.commission)
      /\ placed.book = B!Insert(s.book, id, order)
  BY <1>4 DEF Placed, WithOrder, SimFields, order
<1>6. placed.book.live[id].order = order
  BY <1>5 DEF B!Insert, B!InsertAt, B!Entry
<1>. HIDE DEF placed
<1>7. freed = [placed EXCEPT !.acc = A!WithoutFrozen(placed.acc, order.margin, order.commission),
                             !.book = B!Remove(placed.book, id)]
  BY <1>6 DEF Released
<1>8. A!WithoutFrozen(placed.acc, order.margin, order.commission) = s.acc
  BY <1>2, <1>5, FreezeUndone
<1>. DEFINE rest == B!Remove(placed.book, id)
<1>9. B!IDs(rest) = B!IDs(s.book) /\ \A x \in B!IDs(rest) : rest.live[x] = s.book.live[x]
  <2>. DEFINE more == B!Insert(s.book, id, order)
  <2>1. more.live = [x \in B!IDs(s.book) \cup {id} |->
                       IF x = id THEN B!Entry(order, s.book.last + 1) ELSE s.book.live[x]]
    BY DEF B!Insert, B!InsertAt
  <2>. HIDE DEF more
  <2>2. rest.live = [x \in DOMAIN more.live \ {id} |-> more.live[x]]
    BY <1>5 DEF B!Remove, B!Restrict, B!IDs, more
  <2>3. DOMAIN more.live \ {id} = B!IDs(s.book)
    BY <2>1
  <2>. HIDE DEF rest
  <2>. QED
    BY <2>1, <2>2, <2>3 DEF B!IDs
<1>. HIDE DEF rest
<1>10. freed.book = rest
  BY <1>4, <1>5, <1>7 DEF SimFields, rest
<1>11. freed = [s EXCEPT !.book = rest]
  BY <1>4, <1>5, <1>7, <1>8 DEF SimFields, rest
<1>12. \A i, held : FrozenOf(rest, i, held) = FrozenOf(s.book, i, held)
  BY <1>9, SameFrozen
<1>. HIDE DEF freed
<1>. QED
  BY <1>3, <1>6, <1>10, <1>11, <1>12 DEF freed, placed

\* Submitting is placing and filling at once, but for the number (submit.go Submit, place.go Fill).
LEMMA PlaceThenFill ==
  ASSUME NEW today, NEW s, SimTyped(today, s), s.acc \in A!AccountType, NEW id, id \notin B!IDs(s.book),
         NEW request \in TradeType
  PROVE  LET placed == Placed(s, id, request)
             freed  == Released(placed, id)
             filled == Traded(freed, today, TradeOf(placed.book.live[id].order))
         IN  [filled EXCEPT !.book = s.book] = Traded(s, today, Rewritten(request))
<1>. DEFINE placed == Placed(s, id, request)
            freed  == Released(placed, id)
            o      == Rewritten(request)
<1>1. /\ freed = [s EXCEPT !.book = freed.book]
      /\ \A i, held : FrozenOf(freed.book, i, held) = FrozenOf(s.book, i, held)
      /\ TradeOf(placed.book.live[id].order) = o
  BY PlaceThenRelease
<1>2. DOMAIN s = SimFields
  BY DEF SimTyped
<1>. HIDE DEF freed, o, placed
<1>3. PICK book : book = freed.book
  OBVIOUS
<1>4. [Traded([s EXCEPT !.book = book], today, o) EXCEPT !.book = s.book] = Traded(s, today, o)
  BY <1>1, <1>2, <1>3, TradeAside
<1>5. [Traded(freed, today, TradeOf(placed.book.live[id].order)) EXCEPT !.book = s.book] = Traded(s, today, o)
  BY <1>1, <1>3, <1>4
<1>. QED
  BY <1>5 DEF freed, o, placed

-----------------------------------------------------------------------------
(* Margin of fewer lots (margin/margin.go Compute). *)

\* Whatever a lot of its kind weighs, more the more there is of it, the sides weigh no more.
Weights ==
  {w \in [LotSet -> Nat] :
     \A a, b \in LotSet : (SameLot(a, b) /\ a.volume <= b.volume => w[a] <= w[b]) /\ (a.volume = 0 => w[a] = 0)}

Weighed(lots, w) == [i \in DOMAIN lots |-> w[lots[i]]]

Lighter(left, lots) == \A w \in Weights : Total(Weighed(left, w)) <= Total(Weighed(lots, w))

LEMMA WeighedSeq ==
  ASSUME NEW lots \in Seq(LotSet), NEW w \in Weights
  PROVE  /\ Weighed(lots, w) \in Seq(Int) /\ Len(Weighed(lots, w)) = Len(lots)
         /\ \A i \in 1 .. Len(lots) : Weighed(lots, w)[i] = w[lots[i]] /\ w[lots[i]] \in Nat
         /\ Total(Weighed(lots, w)) \in Nat
<1>. DEFINE t == Weighed(lots, w)
            n == Len(lots)
<1>1. n \in Nat /\ DOMAIN lots = 1 .. n /\ \A i \in 1 .. n : lots[i] \in LotSet
  BY ElementOfSeq
<1>2. w \in [LotSet -> Nat]
  BY DEF Weights
<1>3. t = [i \in 1 .. n |-> w[lots[i]]] /\ \A i \in 1 .. n : w[lots[i]] \in Nat
  BY <1>1, <1>2 DEF Weighed
<1>. HIDE DEF t, n
<1>4. t \in Seq(Int) /\ Len(t) = n /\ \A i \in 1 .. n : t[i] = w[lots[i]] /\ t[i] >= 0
  BY <1>1, <1>3
<1>5. Total(t) \in Nat
  BY <1>4, TotalNat
<1>. QED
  BY <1>3, <1>4, <1>5 DEF t, n

\* Of two sums the one with the larger terms is the larger.
LEMMA TotalMonotone ==
  ASSUME NEW s \in Seq(Int), NEW t \in Seq(Int), Len(t) = Len(s), \A i \in 1 .. Len(s) : s[i] <= t[i]
  PROVE  Total(s) <= Total(t)
<1>. DEFINE n == Len(s)
            d == [i \in 1 .. n |-> t[i] - s[i]]
<1>1. n \in Nat /\ \A i \in 1 .. n : s[i] \in Int /\ t[i] \in Int
  BY ElementOfSeq
<1>2. d \in Seq(Int) /\ Len(d) = n /\ \A i \in 1 .. n : t[i] = 1 * s[i] + 1 * d[i] /\ d[i] >= 0
  BY <1>1
<1>. HIDE DEF d
<1>3. Total(t) = 1 * Total(s) + 1 * Total(d)
  BY <1>2, TotalCombined
<1>4. Total(d) \in Nat
  BY <1>2, TotalNat
<1>5. Total(s) \in Int /\ Total(t) \in Int
  BY TotalInt
<1>. QED
  BY <1>3, <1>4, <1>5

\* A walk leaves of every lot no more than there was (position.go consume).
Reduced(lots, left) == \A i \in 1 .. Len(lots) : SameLot(left[i], lots[i]) /\ left[i].volume <= lots[i].volume

LEMMA ConsumeReduces ==
  ASSUME NEW lots \in Seq(LotSet), NEW walk \in Seq(1 .. Len(lots)), NEW volume \in Nat
  PROVE  Consume(lots, walk, volume) \in States(lots) /\ Reduced(lots, Consume(lots, walk, volume).left)
<1>. DEFINE n == Len(walk)
            base == [wanted |-> volume, pieces |-> <<>>, left |-> lots]
            T == {x \in (0 .. n) \X States(lots) : Reduced(lots, x[2].left)}
<1>0. \A i \in 1 .. Len(lots) : lots[i] \in LotSet /\ lots[i].volume \in Nat
  <2>1. \A i \in 1 .. Len(lots) : lots[i] \in LotSet
    BY ElementOfSeq
  <2>. QED
    BY <2>1 DEF LotSet
<1>1. n \in Nat /\ \A k \in 1 .. n : walk[k] \in 1 .. Len(lots)
  BY ElementOfSeq
<1>2. <<0, base>> \in T
  <2>1. base \in States(lots) /\ base.left = lots
    BY DEF States
  <2>2. Reduced(lots, lots)
    BY <1>0 DEF Reduced, SameLot
  <2>. HIDE DEF base
  <2>. QED
    BY <1>1, <2>1, <2>2
<1>3. ASSUME NEW k \in 1 .. n, NEW w \in States(lots), <<k - 1, w>> \in T
      PROVE  <<k, TakeFrom(w, walk[k])>> \in T
  <2>. DEFINE i == walk[k]
              new == TakeFrom(w, i)
  <2>1. Reduced(lots, w.left) /\ i \in 1 .. Len(lots) /\ k \in 0 .. n
    BY <1>1, <1>3
  <2>2. new \in States(lots)
    BY <2>1, TakeFromState
  <2>3. PICK taken \in Nat :
          /\ \A j \in 1 .. Len(lots) : j # i => new.left[j] = w.left[j]
          /\ SameLot(new.left[i], w.left[i])
          /\ new.left[i].volume = w.left[i].volume - taken
    BY <2>1, TakeFromLeft
  <2>. HIDE DEF new, i
  <2>4. w.left[i].volume \in Int
    <3>. DEFINE lot == w.left[i]
    <3>1. w.left \in Seq(LotSet) /\ Len(w.left) = Len(lots)
      BY DEF States
    <3>2. lot \in LotSet
      BY <2>1, <3>1, ElementOfSeq
    <3>. HIDE DEF lot
    <3>3. lot.volume \in Int
      BY <3>2 DEF LotSet
    <3>. QED
      BY <3>3 DEF lot
  <2>5. ASSUME NEW j \in 1 .. Len(lots) PROVE SameLot(new.left[j], lots[j]) /\ new.left[j].volume <= lots[j].volume
    <3>1. CASE j # i
      BY <2>1, <2>3, <3>1 DEF Reduced
    <3>2. CASE j = i
      <4>1. SameLot(w.left[i], lots[i]) /\ w.left[i].volume <= lots[i].volume
        BY <2>1 DEF Reduced
      <4>2. SameLot(new.left[i], lots[i])
        BY <2>3, <4>1, Zenon DEF SameLot
      <4>3. new.left[i].volume <= lots[i].volume
        <5>. DEFINE a == w.left[i].volume
                    b == lots[i].volume
                    c == new.left[i].volume
        <5>1. a \in Int /\ b \in Int /\ a <= b /\ c = a - taken
          BY <1>0, <2>1, <2>3, <2>4, <4>1
        <5>. HIDE DEF a, b, c
        <5>2. c <= b
          BY <5>1
        <5>. QED
          BY <5>2 DEF b, c
      <4>. QED
        BY <3>2, <4>2, <4>3
    <3>. QED
      BY <3>1, <3>2
  <2>6. Reduced(lots, new.left)
    BY <2>5 DEF Reduced
  <2>. QED
    BY <2>1, <2>2, <2>6 DEF new, i
<1>4. <<n, Consume(lots, walk, volume)>> \in T
  <2>. HIDE DEF T
  <2>. QED
    BY <1>2, <1>3, ConsumeReaches
<1>. QED
  BY <1>4

\* What a close leaves weighs no more than the side did (position.go Close).
LEMMA LeftIsLighter ==
  ASSUME NEW lots \in Seq(LotSet), NEW offset, NEW order,
         offset \in {"CloseToday", "CloseYesterday"} \/ order \in CloseOrders, NEW volume \in Nat
  PROVE  LET left == CloseLots(lots, offset, volume, order).left IN left \in Seq(LotSet) /\ Lighter(left, lots)
<1>. DEFINE r == Consume(lots, Walk(lots, offset, order), volume).left
            K == {i \in DOMAIN r : r[i].volume > 0}
            q == Picked(r, K)
<1>1. r \in Seq(LotSet) /\ Len(r) = Len(lots) /\ Reduced(lots, r)
  <2>1. Walk(lots, offset, order) \in Seq(1 .. Len(lots))
    BY WalkPlaces
  <2>. QED
    BY <2>1, ConsumeReduces DEF States
<1>2. CloseLots(lots, offset, volume, order).left = q
  BY DEF CloseLots, Kept, DropEmpty
<1>. HIDE DEF r
<1>3. q \in Seq(LotSet)
  BY <1>1, PickedSeq
<1>4. ASSUME NEW w \in Weights PROVE Total(Weighed(q, w)) <= Total(Weighed(lots, w))
  <2>. DEFINE t == Weighed(r, w)
              u == Weighed(q, w)
              v == Weighed(lots, w)
              n == Len(lots)
  <2>1. w \in [LotSet -> Int]
    BY DEF Weights
  <2>2. /\ t \in Seq(Int) /\ Len(t) = n /\ \A i \in 1 .. n : t[i] = w[r[i]]
        /\ v \in Seq(Int) /\ Len(v) = n /\ \A i \in 1 .. n : v[i] = w[lots[i]]
    BY <1>1, WeighedSeq
  <2>3. u \in Seq(Int) /\ Len(u) = Len(q) /\ \A i \in 1 .. Len(q) : u[i] = w[q[i]]
    <3>. HIDE DEF q
    <3>. QED
      BY <1>3, WeighedSeq
  <2>4. \A i \in 1 .. n : r[i] \in LotSet /\ lots[i] \in LotSet
    BY <1>1, ElementOfSeq
  <2>5. \A i \in 1 .. n : t[i] <= v[i]
    BY <1>1, <2>2, <2>4 DEF Reduced, Weights
  <2>6. ASSUME NEW i \in 1 .. Len(r), i \notin K PROVE t[i] = 0
    <3>1. DOMAIN r = 1 .. Len(r) /\ r[i] \in LotSet
      BY <1>1, <2>4
    <3>2. r[i].volume \in Nat /\ ~(r[i].volume > 0)
      BY <2>6, <3>1 DEF LotSet
    <3>3. r[i].volume = 0
      BY <3>2
    <3>. QED
      BY <1>1, <2>2, <3>1, <3>3 DEF Weights
  <2>. HIDE DEF t, u, v, K
  <2>7. Numbers(r, K, w, t)
    BY <1>1, <2>2, <2>6 DEF Numbers
  <2>8. Numbers(q, Nat, w, u)
    <3>. HIDE DEF q
    <3>. QED
      BY <2>3 DEF Numbers
  <2>9. Total(u) = Total(t)
    BY <1>1, <2>1, <2>7, <2>8, PickedTotal
  <2>10. Total(t) <= Total(v)
    BY <2>2, <2>5, TotalMonotone
  <2>. QED
    BY <2>9, <2>10 DEF u, v
<1>5. Lighter(q, lots)
  <2>. HIDE DEF q
  <2>. QED
    BY <1>4 DEF Lighter
<1>. QED
  BY <1>2, <1>3, <1>5

\* What a lot occupies grows with its volume (margin/margin.go).
Occupied(rate, addOn, last, pre) ==
  [lot \in LotSet |-> IF LotPrice(lot, last, pre) >= 0
                      THEN Company(rate, addOn, LotPrice(lot, last, pre), lot.volume) ELSE 0]

LEMMA ProductMonotone ==
  ASSUME NEW a \in Nat, NEW b \in Nat, a <= b, NEW x \in Nat
  PROVE  a * x <= b * x
<1>. DEFINE d == b - a
<1>1. d \in Nat /\ b = a + d
  OBVIOUS
<1>. HIDE DEF d
<1>2. b * x = a * x + d * x
  BY <1>1
<1>3. a * x \in Nat /\ d * x \in Nat
  BY <1>1, ProductNat
<1>. QED
  BY <1>2, <1>3

LEMMA CompanyGrows ==
  ASSUME NEW rate \in [byMoney : Nat, byVolume : Nat], NEW addOn \in Nat, NEW price \in Nat,
         NEW a \in Nat, NEW b \in Nat, a <= b
  PROVE  /\ Company(rate, addOn, price, a) \in Nat /\ Company(rate, addOn, price, a) <= Company(rate, addOn, price, b)
         /\ a = 0 => Company(rate, addOn, price, a) = 0
<1>. DEFINE x == rate.byMoney
            y == rate.byVolume
<1>0. x \in Nat /\ y \in Nat
  OBVIOUS
<1>. HIDE DEF x, y
<1>. DEFINE pa == a * price
            pb == b * price
<1>1. pa \in Nat /\ pb \in Nat /\ pa <= pb /\ (a = 0 => pa = 0)
  BY ProductNat, ProductMonotone
<1>. HIDE DEF pa, pb
<1>. DEFINE xa == pa * x
            xb == pb * x
            ya == a * y
            yb == b * y
            za == pa * addOn
            zb == pb * addOn
<1>2. xa \in Nat /\ xb \in Nat /\ xa <= xb /\ (a = 0 => xa = 0)
  BY <1>0, <1>1, ProductNat, ProductMonotone
<1>3. ya \in Nat /\ yb \in Nat /\ ya <= yb /\ (a = 0 => ya = 0)
  BY <1>0, ProductNat, ProductMonotone
<1>4. za \in Nat /\ zb \in Nat /\ za <= zb /\ (a = 0 => za = 0)
  BY <1>1, ProductNat, ProductMonotone
<1>5. Company(rate, addOn, price, a) = xa + ya + za /\ Company(rate, addOn, price, b) = xb + yb + zb
  BY DEF Company, Exchange, x, y, pa, pb
<1>. HIDE DEF xa, xb, ya, yb, za, zb
<1>. QED
  BY <1>2, <1>3, <1>4, <1>5

LEMMA OccupiedWeighs ==
  ASSUME NEW rate \in [byMoney : Nat, byVolume : Nat], NEW addOn \in Nat, NEW last \in Nat, NEW pre \in Nat
  PROVE  Occupied(rate, addOn, last, pre) \in Weights
<1>. DEFINE w == Occupied(rate, addOn, last, pre)
<1>1. ASSUME NEW a \in LotSet
      PROVE  /\ a.volume \in Nat /\ LotPrice(a, last, pre) \in Int
             /\ w[a] = IF LotPrice(a, last, pre) >= 0
                       THEN Company(rate, addOn, LotPrice(a, last, pre), a.volume) ELSE 0
  <2>1. a.volume \in Nat /\ a.openPrice \in Int
    BY DEF LotSet
  <2>2. LotPrice(a, last, pre) \in Int
    BY <2>1, MarginChoices DEF LotPrice
  <2>. QED
    BY <2>1, <2>2 DEF Occupied
<1>2. DOMAIN w = LotSet /\ w = [lot \in LotSet |-> w[lot]]
  BY DEF Occupied
<1>. HIDE DEF w
<1>3. ASSUME NEW a \in LotSet PROVE w[a] \in Nat /\ (a.volume = 0 => w[a] = 0)
  <2>. DEFINE price == LotPrice(a, last, pre)
              v == a.volume
              c == Company(rate, addOn, price, v)
  <2>1. price \in Int /\ v \in Nat /\ v <= v /\ w[a] = (IF price >= 0 THEN c ELSE 0)
    BY <1>1
  <2>2. ASSUME price \in Nat PROVE c \in Nat /\ (v = 0 => c = 0)
    <3>. HIDE DEF price, v
    <3>. QED
      BY <2>1, <2>2, CompanyGrows
  <2>. HIDE DEF price, c
  <2>. QED
    BY <2>1, <2>2
<1>4. ASSUME NEW a \in LotSet, NEW b \in LotSet, SameLot(a, b), a.volume <= b.volume PROVE w[a] <= w[b]
  <2>1. LotPrice(a, last, pre) = LotPrice(b, last, pre)
    BY <1>4 DEF SameLot, LotPrice
  <2>. DEFINE price == LotPrice(a, last, pre)
  <2>. DEFINE va == a.volume
              vb == b.volume
              ca == Company(rate, addOn, price, va)
              cb == Company(rate, addOn, price, vb)
  <2>2. price \in Int /\ va \in Nat /\ vb \in Nat /\ va <= vb
    BY <1>1, <1>4
  <2>3. w[a] = (IF price >= 0 THEN ca ELSE 0) /\ w[b] = (IF price >= 0 THEN cb ELSE 0)
    BY <1>1, <2>1
  <2>4. ASSUME price \in Nat PROVE ca <= cb
    <3>. HIDE DEF price, va, vb
    <3>. QED
      BY <2>2, <2>4, CompanyGrows
  <2>. HIDE DEF price, va, vb, ca, cb
  <2>. QED
    BY <2>2, <2>3, <2>4
<1>5. w \in [LotSet -> Nat]
  BY <1>2, <1>3
<1>. QED
  BY <1>3, <1>4, <1>5 DEF Weights, w

\* Less of a side occupies less.
LEMMA SideLess ==
  ASSUME NEW today, NEW lots \in Seq(LotSet), RestorableSide(today, lots),
         NEW left \in Seq(LotSet), RestorableSide(today, left), Lighter(left, lots),
         NEW rate \in [byMoney : Nat, byVolume : Nat], NEW addOn \in Nat, NEW last \in Nat, NEW pre \in Nat
  PROVE  SideMargin(rate, addOn, left, last, pre).company <= SideMargin(rate, addOn, lots, last, pre).company
<1>. DEFINE w == Occupied(rate, addOn, last, pre)
<1>1. w \in Weights
  BY OccupiedWeighs
<1>2. ASSUME NEW side \in Seq(LotSet), RestorableSide(today, side)
      PROVE  SideMargin(rate, addOn, side, last, pre).company = Total(Weighed(side, w))
  <2>. DEFINE cost(i) == Company(rate, addOn, LotPrice(side[i], last, pre), side[i].volume)
  <2>1. ASSUME NEW i \in DOMAIN side PROVE w[side[i]] = cost(i)
    <3>1. side[i] \in LotSet /\ side[i].openPrice > 0
      BY <1>2, ElementOfSeq DEF RestorableSide
    <3>2. side[i].openPrice \in Int
      BY <3>1 DEF LotSet
    <3>3. LotPrice(side[i], last, pre) >= 0
      BY <3>1, <3>2, MarginChoices DEF LotPrice
    <3>. QED
      BY <3>1, <3>3 DEF Occupied
  <2>2. Weighed(side, w) = [i \in DOMAIN side |-> cost(i)]
    <3>. HIDE DEF w, cost
    <3>. QED
      BY <2>1, Zenon DEF Weighed
  <2>3. SideMargin(rate, addOn, side, last, pre).company = Total([i \in DOMAIN side |-> cost(i)])
    BY DEF SideMargin
  <2>. HIDE DEF w, cost
  <2>. QED
    BY <2>2, <2>3
<1>. HIDE DEF w
<1>. QED
  BY <1>1, <1>2 DEF Lighter

\* Less of a group's sides is less of the group, whichever of them is the larger.
LEMMA GroupLess ==
  ASSUME NEW long, Fair(long), NEW short, Fair(short), NEW long2, Fair(long2), NEW short2, Fair(short2),
         long2.company <= long.company, short2.company <= short.company, NEW larger
  PROVE  GroupMargin(long2, short2, larger).company <= GroupMargin(long, short, larger).company
<1>1. BothSides(long2, short2).company <= BothSides(long, short).company
  BY DEF Fair, BothSides
<1>2. LargerSide(long2, short2).company <= LargerSide(long, short).company
  <2>. DEFINE a == long.company
              b == short.company
              c == long2.company
              d == short2.company
  <2>1. a \in Nat /\ b \in Nat /\ c \in Nat /\ d \in Nat /\ c <= a /\ d <= b
    BY DEF Fair
  <2>2. LargerSide(long2, short2).company = Max({c, d}) /\ LargerSide(long, short).company = Max({a, b})
    BY DEF LargerSide
  <2>. HIDE DEF a, b, c, d
  <2>3. Max({c, d}) = (IF c >= d THEN c ELSE d) /\ Max({a, b}) = (IF a >= b THEN a ELSE b)
    BY <2>1, MaxOfTwo
  <2>. QED
    BY <2>1, <2>2, <2>3
<1>. QED
  BY <1>1, <1>2 DEF GroupMargin

\* With a member gone and none larger, a sum is no larger.
LEMMA SumOfFewer ==
  ASSUME NEW S, IsFiniteSet(S), NEW a \in S, NEW R, R = S \/ R = S \ {a},
         NEW F \in [R -> Nat], NEW G \in [S -> Nat], \A x \in R : F[x] <= G[x]
  PROVE  SumFunction(F) <= SumFunction(G)
<1>1. CASE R = S
  BY <1>1, SumMonotone
<1>2. CASE R = S \ {a}
  <2>. DEFINE H == [x \in R |-> G[x]]
  <2>1. G \in [S -> Int] /\ IsFiniteSet(R) /\ H \in [R -> Nat] /\ G[a] \in Nat /\ \A x \in R : F[x] <= H[x]
    BY <1>2, FS_RemoveElement
  <2>2. SumFunction(G) = G[a] + SumFunction(H)
    BY <1>2, <2>1, SumRest
  <2>. HIDE DEF H
  <2>3. SumFunction(F) \in Nat /\ SumFunction(H) \in Nat /\ SumFunction(F) <= SumFunction(H)
    BY <2>1, SumMonotone
  <2>. QED
    BY <2>1, <2>2, <2>3
<1>. QED
  BY <1>1, <1>2

\* The margins of fewer members, none of them larger.
LEMMA MarginsOfFewer ==
  ASSUME NEW S, IsFiniteSet(S), NEW a \in S, NEW R, R = S \/ R = S \ {a},
         NEW F, DOMAIN F = R, NEW G, DOMAIN G = S,
         \A x \in S : Fair(G[x]), \A x \in R : Fair(F[x]) /\ F[x].company <= G[x].company
  PROVE  SumMargins(F).company <= SumMargins(G).company
<1>. DEFINE f == [x \in R |-> F[x].company]
            g == [x \in S |-> G[x].company]
<1>1. f \in [R -> Nat] /\ g \in [S -> Nat] /\ \A x \in R : f[x] <= g[x]
  BY DEF Fair
<1>2. SumMargins(F).company = SumFunction(f) /\ SumMargins(G).company = SumFunction(g)
  BY DEF SumMargins
<1>. HIDE DEF f, g
<1>3. SumFunction(f) <= SumFunction(g)
  BY <1>1, SumOfFewer
<1>. QED
  BY <1>2, <1>3

\* What is held occupies no more once lots of one instrument are gone (margin/margin.go Compute).
LEMMA HeldMarginLess ==
  ASSUME NEW today, NEW positions, PositionsTyped(today, positions), NEW after, PositionsTyped(today, after),
         NEW prices \in PricesType, Valued(positions, prices), NEW inst \in Held(positions),
         \A i \in Instruments : i # inst => after[i] = positions[i],
         \A dir \in Directions : Lighter(after[inst][dir], positions[inst][dir])
  PROVE  HeldMargin(after, prices).company <= HeldMargin(positions, prices).company
<1>. DEFINE H  == Held(positions)
            H2 == Held(after)
            Of(held, key) == {i \in held : KeyOf(i) = key}
            K  == {KeyOf(i) : i \in H}
            K2 == {KeyOf(i) : i \in H2}
<1>1. H \subseteq Instruments /\ H2 \subseteq Instruments /\ inst \in H /\ (H2 = H \/ H2 = H \ {inst})
  BY DEF Held
<1>2. ASSUME NEW i \in Instruments, NEW dir \in Directions
      PROVE  LET side(p) == SideMargin(Contract[i].margin[dir], Contract[i].addOn,
                                       p[i][dir], prices[i].last, prices[i].pre)
             IN  side(after).company <= side(positions).company
  <2>1. /\ positions[i][dir] \in Seq(LotSet) /\ RestorableSide(today, positions[i][dir])
        /\ after[i][dir] \in Seq(LotSet) /\ RestorableSide(today, after[i][dir])
    BY DEF PositionsTyped
  <2>2. Lighter(after[i][dir], positions[i][dir])
    <3>1. CASE i = inst
      BY <3>1
    <3>2. CASE i # inst
      <4>1. after[i][dir] = positions[i][dir]
        BY <3>2
      <4>2. ASSUME NEW w \in Weights
            PROVE  Total(Weighed(positions[i][dir], w)) <= Total(Weighed(positions[i][dir], w))
        <5>1. Total(Weighed(positions[i][dir], w)) \in Nat
          BY <2>1, WeighedSeq
        <5>. QED
          BY <5>1
      <4>. QED
        BY <4>1, <4>2 DEF Lighter
    <3>. QED
      BY <3>1, <3>2
  <2>3. prices[i].last \in Nat /\ prices[i].pre \in Nat
    BY DEF PricesType
  <2>4. Contract[i].margin[dir] \in [byMoney : Nat, byVolume : Nat] /\ Contract[i].addOn \in Nat
    BY ContractTyped DEF Directions
  <2>. QED
    BY <2>1, <2>2, <2>3, <2>4, SideLess
<1>3. ASSUME NEW members \in SUBSET Instruments, NEW members2,
             (inst \in members /\ (members2 = members \/ members2 = members \ {inst})) \/ members2 = members,
             NEW dir \in Directions
      PROVE  SideOf(members2, dir, after, prices).company <= SideOf(members, dir, positions, prices).company
  <2>. DEFINE G == MembersSide(members, dir, positions, prices)
              F == MembersSide(members2, dir, after, prices)
  <2>1. members2 \in SUBSET Instruments
    BY <1>3
  <2>2. /\ IsFiniteSet(members) /\ SideOf(members, dir, positions, prices) = SumMargins(G)
        /\ \A i \in members : Fair(G[i])
    BY SideOfFair
  <2>3. SideOf(members2, dir, after, prices) = SumMargins(F) /\ \A i \in members2 : Fair(F[i])
    BY <2>1, SideOfFair
  <2>4. \A i \in members2 : F[i].company <= G[i].company
    BY <1>2, <1>3 DEF MembersSide
  <2>5. DOMAIN F = members2 /\ DOMAIN G = members
    BY DEF MembersSide
  <2>. HIDE DEF F, G
  <2>6. CASE members = {}
    <3>1. members2 = {}
      BY <1>3, <2>6
    <3>2. F = G
      BY <2>6, <3>1 DEF F, G, MembersSide
    <3>3. Fair(SumMargins(G))
      BY <2>2, <2>5, SumsFair
    <3>. QED
      BY <2>2, <2>3, <3>2, <3>3 DEF Fair
  <2>7. CASE members # {}
    <3>1. PICK a \in members : members2 = members \/ members2 = members \ {a}
      BY <1>3, <2>7
    <3>2. SumMargins(F).company <= SumMargins(G).company
      BY <2>2, <2>3, <2>4, <2>5, <3>1, MarginsOfFewer
    <3>. QED
      BY <2>2, <2>3, <3>2
  <2>. QED
    BY <2>6, <2>7
<1>4. ASSUME NEW key \in K2
      PROVE  GroupOf(key, after, prices).company <= GroupOf(key, positions, prices).company
  <2>. DEFINE M  == Of(H, key)
              M2 == Of(H2, key)
              larger  == \E i \in M : Contract[i].maxMarginSide
              larger2 == \E i \in M2 : Contract[i].maxMarginSide
  <2>1. /\ M \in SUBSET Instruments /\ M2 \in SUBSET Instruments /\ M2 # {}
        /\ (inst \in M /\ (M2 = M \/ M2 = M \ {inst})) \/ M2 = M
    BY <1>1, <1>4
  <2>2. larger2 = larger
    <3>1. \A i, j \in M : Contract[i].maxMarginSide = Contract[j].maxMarginSide
      BY <1>1 DEF Valued
    <3>2. M2 \subseteq M
      BY <2>1
    <3>. HIDE DEF M, M2
    <3>. QED
      BY <2>1, <3>1, <3>2
  <2>3. GroupOf(key, after, prices)
          = GroupMargin(SideOf(M2, "Buy", after, prices), SideOf(M2, "Sell", after, prices), larger2)
    BY DEF GroupOf
  <2>4. GroupOf(key, positions, prices)
          = GroupMargin(SideOf(M, "Buy", positions, prices), SideOf(M, "Sell", positions, prices), larger)
    BY DEF GroupOf
  <2>. HIDE DEF M, M2, larger, larger2
  <2>5. "Buy" \in Directions /\ "Sell" \in Directions
    BY DEF Directions
  <2>6. /\ SideOf(M2, "Buy", after, prices).company <= SideOf(M, "Buy", positions, prices).company
        /\ SideOf(M2, "Sell", after, prices).company <= SideOf(M, "Sell", positions, prices).company
    BY <1>3, <2>1, <2>5
  <2>7. /\ Fair(SideOf(M2, "Buy", after, prices)) /\ Fair(SideOf(M, "Buy", positions, prices))
        /\ Fair(SideOf(M2, "Sell", after, prices)) /\ Fair(SideOf(M, "Sell", positions, prices))
    BY <2>1, <2>5, SideOfFair
  <2>8. GroupMargin(SideOf(M2, "Buy", after, prices), SideOf(M2, "Sell", after, prices), larger).company
          <= GroupMargin(SideOf(M, "Buy", positions, prices), SideOf(M, "Sell", positions, prices), larger).company
    BY <2>6, <2>7, GroupLess
  <2>. QED
    BY <2>2, <2>3, <2>4, <2>8
<1>. DEFINE F == [key \in K2 |-> GroupOf(key, after, prices)]
            G == [key \in K |-> GroupOf(key, positions, prices)]
<1>5. HeldMargin(after, prices) = SumMargins(F) /\ HeldMargin(positions, prices) = SumMargins(G)
  BY DEF HeldMargin
<1>6. IsFiniteSet(K)
  BY HeldMarginFair
<1>7. KeyOf(inst) \in K /\ (K2 = K \/ K2 = K \ {KeyOf(inst)})
  <2>1. KeyOf(inst) \in K
    BY <1>1
  <2>2. CASE \E j \in H2 : KeyOf(j) = KeyOf(inst)
    BY <1>1, <2>2
  <2>3. CASE ~\E j \in H2 : KeyOf(j) = KeyOf(inst)
    BY <1>1, <2>3
  <2>. QED
    BY <2>1, <2>2, <2>3
<1>8. (\A key \in K : Fair(G[key])) /\ (\A key \in K2 : Fair(F[key]))
  BY GroupOfFair
<1>9. \A key \in K2 : F[key].company <= G[key].company
  <2>1. K2 \subseteq K
    BY <1>7
  <2>. HIDE DEF K, K2
  <2>. QED
    BY <1>4, <2>1
<1>10. DOMAIN F = K2 /\ DOMAIN G = K
  OBVIOUS
<1>. HIDE DEF F, G, K, K2
<1>11. SumMargins(F).company <= SumMargins(G).company
  BY <1>6, <1>7, <1>8, <1>9, <1>10, MarginsOfFewer
<1>. QED
  BY <1>5, <1>11

\* What a trade does to the lots, the prices and the account, broken or not (trade.go ApplyTrade).
LEMMA TradeMoves ==
  ASSUME NEW s, DOMAIN s = SimFields, NEW today, NEW request
  PROVE  LET after == Traded(s, today, request) IN
         /\ after.positions = PositionsAfter(s, today, DatedTrade(request)) /\ after.prices = s.prices
         /\ (after.acc = s.acc \/ after.broken = s.broken)
<1>. DEFINE tr == DatedTrade(request)
            moved == [s EXCEPT !.positions = PositionsAfter(s, today, tr),
                               !.quotas = Booked(s, tr, Charge(s, tr).todayLots)]
            profit == CloseProfit(s, tr)
            after == Traded(s, today, request)
<1>1. after = Commit(moved, Charge(s, tr).fee, Charge(s, tr).atSettle, profit)
  BY DEF Traded, Recorded
<1>2. /\ DOMAIN moved = SimFields /\ moved.positions = PositionsAfter(s, today, tr)
      /\ moved.prices = s.prices /\ moved.acc = s.acc /\ moved.broken = s.broken
  BY DEF SimFields
<1>. HIDE DEF moved, tr, profit, after
<1>3. PICK a : after = [moved EXCEPT !.acc = a] \/ after = [moved EXCEPT !.broken = TRUE]
  BY <1>1 DEF Commit, Committed
<1>4. CASE after = [moved EXCEPT !.acc = a]
  BY <1>2, <1>4 DEF SimFields, tr, after
<1>5. CASE after = [moved EXCEPT !.broken = TRUE]
  BY <1>2, <1>5 DEF SimFields, tr, after
<1>. QED
  BY <1>3, <1>4, <1>5

\* A trade that closes leaves less of its side (trade.go ApplyTrade).
LEMMA TakenIsLighter ==
  ASSUME NEW s, NEW tr, s.positions[tr.inst][Opposite(tr.dir)] \in Seq(LotSet),
         tr.volume \in Nat, HistoryPart(s, tr) \in 0 .. tr.volume
  PROVE  Lighter(TakenBy(s, tr).left, s.positions[tr.inst][Opposite(tr.dir)])
<1>. DEFINE lots == s.positions[tr.inst][Opposite(tr.dir)]
            h == HistoryPart(s, tr)
            t == tr.volume - h
            first == CloseLots(lots, "CloseYesterday", h, "Unmeasured").left
            second == CloseLots(first, "CloseToday", t, "Unmeasured").left
<1>1. h \in Nat /\ t \in Nat /\ lots \in Seq(LotSet)
  OBVIOUS
<1>2. TakenBy(s, tr).left = second
  BY DEF TakenBy, ThenToday
<1>. HIDE DEF h, t, lots
<1>3. first \in Seq(LotSet) /\ Lighter(first, lots)
  BY <1>1, LeftIsLighter
<1>. HIDE DEF first
<1>4. second \in Seq(LotSet) /\ Lighter(second, first)
  BY <1>1, <1>3, LeftIsLighter
<1>. HIDE DEF second
<1>5. ASSUME NEW w \in Weights PROVE Total(Weighed(second, w)) <= Total(Weighed(lots, w))
  <2>1. /\ Total(Weighed(second, w)) \in Nat /\ Total(Weighed(first, w)) \in Nat
        /\ Total(Weighed(lots, w)) \in Nat
    BY <1>1, <1>3, <1>4, WeighedSeq
  <2>2. /\ Total(Weighed(second, w)) <= Total(Weighed(first, w))
        /\ Total(Weighed(first, w)) <= Total(Weighed(lots, w))
    BY <1>3, <1>4 DEF Lighter
  <2>. QED
    BY <2>1, <2>2
<1>6. Lighter(second, lots)
  BY <1>5 DEF Lighter
<1>. QED
  BY <1>2, <1>6 DEF lots

\* A trade that closes frees margin, or breaks the simulator and leaves the account (margin/margin.go).
LEMMA ClosingFrees ==
  ASSUME NEW today \in Int, NEW s, Sound(today, s), NEW request \in TradeType,
         DatedTrade(request).offset # "Open", CanTrade(s, today, request)
  PROVE  Traded(s, today, request).acc.currMargin <= s.acc.currMargin
<1>. DEFINE tr == DatedTrade(request)
            after == Traded(s, today, request)
            held == Opposite(tr.dir)
            lots == s.positions[tr.inst][held]
            left == TakenBy(s, tr).left
            h == HistoryPart(s, tr)
<1>1. PICK c : Ready(today, s, c)
  BY DEF Sound
<1>2. /\ SimTyped(today, s) /\ Covered(s) /\ Told(s) /\ Valued(s.positions, s.prices) /\ ~s.broken
      /\ PositionsTyped(today, s.positions) /\ s.prices \in PricesType /\ DOMAIN s = SimFields
  BY <1>1 DEF Ready, Good, Archivable, Sound, SimTyped
<1>3. tr \in TradeType
  BY DatedTyped
<1>4. /\ tr.inst \in Instruments /\ held \in Directions /\ tr.volume \in Nat \ {0} /\ tr.offset # "Open"
  BY <1>3, OppositeIn DEF TradeType
<1>5. CloseFits(s, tr)
  BY DEF CanTrade, DatedTradeFits, TakesFreeLots
<1>6. h \in 0 .. tr.volume
  BY <1>2, <1>3, DividedClose
<1>7. h <= VolumeHistory(lots) /\ tr.volume - h <= VolumeToday(lots)
  BY <1>2, <1>3, <1>4, <1>5, CloseTakes
<1>8. lots \in Seq(LotSet)
  BY <1>2, <1>4 DEF PositionsTyped
<1>9. Lighter(left, lots)
  <2>. HIDE DEF tr
  <2>. QED
    BY <1>4, <1>6, <1>8, TakenIsLighter
<1>10. tr.inst \in Held(s.positions)
  <2>. DEFINE v == tr.volume
              vh == VolumeHistory(lots)
              vt == VolumeToday(lots)
  <2>1. vh \in Nat /\ vt \in Nat
    BY <1>8, VolumesNat
  <2>2. ASSUME lots = <<>> PROVE vh = 0 /\ vt = 0
    <3>1. \A K : VolumeWhere(<<>>, K) = 0
      <4>1. ASSUME NEW K PROVE [i \in DOMAIN <<>> |-> IF i \in K THEN <<>>[i].volume ELSE 0] = <<>>
        OBVIOUS
      <4>. QED
        BY <4>1, TotalOfNothing DEF VolumeWhere
    <3>. QED
      BY <2>2, <3>1 DEF VolumeHistory, VolumeToday
  <2>. HIDE DEF h, vh, vt
  <2>3. lots # <<>>
    BY <1>4, <1>6, <1>7, <2>1, <2>2 DEF vh, vt
  <2>4. s.positions[tr.inst] # FlatSides
    <3>. HIDE DEF tr
    <3>. QED
      BY <1>4, <2>3 DEF FlatSides
  <2>. QED
    BY <1>4, <2>4 DEF Held
<1>11. after.positions = PositionsAfter(s, today, tr) /\ after.prices = s.prices /\ (after.acc = s.acc \/ ~after.broken)
  BY <1>2, TradeMoves
<1>12. PositionsTyped(today, after.positions)
  <2>. HIDE DEF tr, after
  <2>. QED
    BY <1>2, <1>3, <1>11, TradePositions
<1>13. /\ \A i \in Instruments : i # tr.inst => after.positions[i] = s.positions[i]
       /\ \A dir \in Directions : Lighter(after.positions[tr.inst][dir], s.positions[tr.inst][dir])
  <2>1. after.positions = [s.positions EXCEPT ![tr.inst][held] = left]
    BY <1>4, <1>11 DEF PositionsAfter
  <2>2. s.positions \in [Instruments -> [Directions -> Seq(LotSet)]]
    BY <1>2 DEF PositionsTyped
  <2>3. ASSUME NEW dir \in Directions PROVE Lighter(s.positions[tr.inst][dir], s.positions[tr.inst][dir])
    <3>. DEFINE side == s.positions[tr.inst][dir]
    <3>1. side \in Seq(LotSet)
      BY <1>4, <2>2
    <3>. HIDE DEF side
    <3>2. ASSUME NEW w \in Weights PROVE Total(Weighed(side, w)) <= Total(Weighed(side, w))
      <4>1. Total(Weighed(side, w)) \in Nat
        BY <3>1, WeighedSeq
      <4>. QED
        BY <4>1
    <3>. QED
      BY <3>2 DEF Lighter, side
  <2>. HIDE DEF tr, after, left, held
  <2>4. ASSUME NEW dir \in Directions PROVE Lighter(after.positions[tr.inst][dir], s.positions[tr.inst][dir])
    <3>1. CASE dir = held
      BY <1>4, <1>9, <2>1, <2>2, <3>1
    <3>2. CASE dir # held
      <4>1. after.positions[tr.inst][dir] = s.positions[tr.inst][dir]
        BY <1>4, <2>1, <2>2, <3>2
      <4>. QED
        BY <2>3, <4>1
    <3>. QED
      BY <3>1, <3>2
  <2>. QED
    BY <1>4, <2>1, <2>2, <2>4
<1>14. HeldMargin(after.positions, s.prices).company <= HeldMargin(s.positions, s.prices).company
  <2>. HIDE DEF tr, after
  <2>. QED
    BY <1>2, <1>10, <1>12, <1>13, HeldMarginLess
<1>15. s.acc.currMargin = HeldMargin(s.positions, s.prices).company /\ s.acc.currMargin \in Nat
  <2>1. Fair(HeldMargin(s.positions, s.prices))
    BY <1>2, HeldMarginFair
  <2>. QED
    BY <1>2, <2>1 DEF Told, Fair
<1>16. ASSUME after.acc = s.acc PROVE after.acc.currMargin <= s.acc.currMargin
  <2>. HIDE DEF after
  <2>1. s.acc.currMargin <= s.acc.currMargin
    BY <1>15
  <2>. QED
    BY <1>16, <2>1
<1>17. ASSUME ~after.broken PROVE after.acc.currMargin <= s.acc.currMargin
  <2>1. Sound(today, after)
    BY <1>17, TradeSound
  <2>2. after.acc.currMargin = HeldMargin(after.positions, after.prices).company
    BY <2>1 DEF Sound, Ready, Archivable, Told
  <2>. HIDE DEF after
  <2>. QED
    BY <1>11, <1>14, <1>15, <2>2
<1>. HIDE DEF after
<1>18. after.acc.currMargin <= s.acc.currMargin
  BY <1>11, <1>16, <1>17
<1>. QED
  BY <1>18 DEF after

\* Another lot is more volume (position.go Open).
LEMMA OneMoreLot ==
  ASSUME NEW lots \in Seq(LotSet), NEW lot \in LotSet, lot.volume > 0
  PROVE  ~(Volume(Append(lots, lot)) <= Volume(lots))
<1>. DEFINE more == Append(lots, lot)
            n == Len(lots)
            t == [i \in 1 .. n |-> lots[i].volume]
            u == [i \in 1 .. n + 1 |-> more[i].volume]
<1>0. \A x \in LotSet : x.volume \in Nat
  BY DEF LotSet
<1>1. n \in Nat /\ DOMAIN lots = 1 .. n /\ \A i \in 1 .. n : lots[i] \in LotSet /\ lots[i].volume \in Nat
  BY <1>0, ElementOfSeq
<1>2. /\ DOMAIN more = 1 .. n + 1 /\ \A i \in 1 .. n : more[i] = lots[i]
      /\ more[n + 1] = lot /\ lot.volume \in Nat
  BY <1>0
<1>3. [i \in DOMAIN lots |-> IF i \in DOMAIN lots THEN lots[i].volume ELSE 0] = t
  BY <1>1
<1>4. [i \in DOMAIN more |-> IF i \in DOMAIN more THEN more[i].volume ELSE 0] = u
  BY <1>2
<1>5. Volume(lots) = Total(t)
  BY <1>3 DEF Volume, VolumeWhere
<1>6. Volume(more) = Total(u)
  <2>. HIDE DEF u, n
  <2>. QED
    BY <1>4 DEF Volume, VolumeWhere
<1>. HIDE DEF more
<1>7. t \in Seq(Int) /\ Len(t) = n
  BY <1>1
<1>8. u = Append(t, lot.volume)
  <2>1. /\ DOMAIN u = 1 .. n + 1 /\ u[n + 1] = lot.volume /\ \A i \in 1 .. n : u[i] = t[i]
    BY <1>1, <1>2
  <2>2. u \in Seq(Int) /\ Len(u) = n + 1
    <3>1. \A i \in 1 .. n + 1 : more[i].volume \in Int
      <4>1. ASSUME NEW i \in 1 .. n + 1 PROVE more[i].volume \in Int
        <5>1. CASE i \in 1 .. n
          BY <1>1, <1>2, <5>1
        <5>2. CASE i = n + 1
          BY <1>2, <5>2
        <5>. QED
          BY <1>1, <5>1, <5>2
      <4>. QED
        BY <4>1
    <3>. QED
      BY <1>1, <3>1
  <2>. HIDE DEF t, u
  <2>3. Append(t, lot.volume) \in Seq(Int) /\ Len(Append(t, lot.volume)) = n + 1
    BY <1>2, <1>7
  <2>4. \A i \in 1 .. n : Append(t, lot.volume)[i] = t[i]
    BY <1>1, <1>2, <1>7
  <2>5. Append(t, lot.volume)[n + 1] = lot.volume
    BY <1>1, <1>2, <1>7
  <2>. DEFINE v == Append(t, lot.volume)
  <2>. HIDE DEF v
  <2>6. \A i \in 1 .. n + 1 : i \in 1 .. n \/ i = n + 1
    BY <1>1
  <2>7. \A i \in 1 .. n + 1 : u[i] = v[i]
    BY <2>1, <2>4, <2>5, <2>6, Zenon DEF v
  <2>8. v \in Seq(Int) /\ Len(v) = n + 1
    BY <2>3, Zenon DEF v
  <2>9. Len(u) = Len(v)
    BY <2>2, <2>8, Zenon
  <2>10. \A i \in 1 .. Len(u) : u[i] = v[i]
    BY <2>2, <2>7, Zenon
  <2>11. u = v
    BY <2>2, <2>8, <2>9, <2>10, SeqEqual, Zenon
  <2>. QED
    BY <2>11, Zenon DEF v
<1>. HIDE DEF t, u
<1>9. Total(u) = Total(t) + lot.volume
  BY <1>2, <1>7, <1>8, TotalAppend
<1>10. Total(t) \in Int
  BY <1>7, TotalInt
<1>11. ~(Total(u) <= Total(t))
  BY <1>2, <1>9, <1>10
<1>. QED
  BY <1>5, <1>6, <1>11 DEF more

\* No side grew, so the trade was no opening, and it frees margin (trade.go ApplyTrade).
LEMMA NoSideGrew ==
  ASSUME NEW today \in Int, NEW s, Sound(today, s), NEW request \in TradeType, CanTrade(s, today, request),
         \A i \in Instruments, dir \in Directions :
           Volume(Traded(s, today, request).positions[i][dir]) <= Volume(s.positions[i][dir])
  PROVE  Traded(s, today, request).acc.currMargin <= s.acc.currMargin
<1>. DEFINE tr == DatedTrade(request)
            after == Traded(s, today, request)
            lot == Lot(today, tr.price, tr.volume, tr.price, FALSE)
            lots == s.positions[tr.inst][tr.dir]
<1>1. CASE tr.offset # "Open"
  BY <1>1, ClosingFrees
<1>2. CASE tr.offset = "Open"
  <2>1. PICK c : Ready(today, s, c)
    BY DEF Sound
  <2>2. PositionsTyped(today, s.positions) /\ DOMAIN s = SimFields
    BY <2>1 DEF Ready, Good, SimTyped
  <2>3. tr \in TradeType
    BY DatedTyped
  <2>4. tr.inst \in Instruments /\ tr.dir \in Directions /\ tr.volume \in Nat \ {0} /\ tr.price \in Int
    BY <2>3 DEF TradeType
  <2>5. s.positions \in [Instruments -> [Directions -> Seq(LotSet)]]
    BY <2>2 DEF PositionsTyped
  <2>6. after.positions = PositionsAfter(s, today, tr)
    BY <2>2, TradeMoves
  <2>7. PositionsAfter(s, today, tr) = [s.positions EXCEPT ![tr.inst][tr.dir] = Append(@, lot)]
    BY <1>2 DEF PositionsAfter
  <2>8. lot \in LotSet /\ lot.volume > 0
    BY <2>3, <2>4 DEF LotSet, Lot, TradeType
  <2>. HIDE DEF tr, lot, after
  <2>9. after.positions[tr.inst][tr.dir] = Append(lots, lot)
    BY <2>4, <2>5, <2>6, <2>7
  <2>10. lots \in Seq(LotSet)
    BY <2>4, <2>5
  <2>11. Volume(after.positions[tr.inst][tr.dir]) <= Volume(lots)
    BY <2>4 DEF after
  <2>. HIDE DEF lots
  <2>. QED
    BY <2>8, <2>9, <2>10, <2>11, OneMoreLot
<1>. QED
  BY <1>1, <1>2

\* Only a trade moves lots within a day, and to release an order leaves the margin (simulator.go, place.go).
LEMMA OthersMoveNothing ==
  ASSUME NEW s, DOMAIN s = SimFields, NEW id
  PROVE  /\ \A inst, quote : Marked(s, inst, quote).positions = s.positions
         /\ \A request : Placed(s, id, request).positions = s.positions
         /\ Released(s, id).positions = s.positions /\ DOMAIN Released(s, id) = SimFields
         /\ s.acc \in A!AccountType => Released(s, id).acc.currMargin = s.acc.currMargin
         /\ \A entry : PutBack(s, id, entry).positions = s.positions
<1>1. ASSUME NEW inst, NEW quote PROVE Marked(s, inst, quote).positions = s.positions
  <2>. DEFINE moved == [s EXCEPT !.prices = MarkedPrices(s, inst, quote)]
  <2>1. DOMAIN moved = SimFields /\ moved.positions = s.positions
    BY DEF SimFields
  <2>. HIDE DEF moved
  <2>2. PICK a : \/ Marked(s, inst, quote) = [moved EXCEPT !.acc = a]
                 \/ Marked(s, inst, quote) = [moved EXCEPT !.broken = TRUE]
    BY DEF Marked, Commit, Committed, moved
  <2>. QED
    BY <2>1, <2>2 DEF SimFields
<1>2. ASSUME NEW request PROVE Placed(s, id, request).positions = s.positions
  BY DEF Placed, WithOrder, SimFields
<1>3. Released(s, id).positions = s.positions /\ DOMAIN Released(s, id) = SimFields
  BY DEF Released, SimFields
<1>4. ASSUME s.acc \in A!AccountType PROVE Released(s, id).acc.currMargin = s.acc.currMargin
  <2>. DEFINE order == s.book.live[id].order
  <2>1. Released(s, id).acc = A!WithoutFrozen(s.acc, order.margin, order.commission)
    BY DEF Released, SimFields
  <2>. HIDE DEF order
  <2>2. A!WithoutFrozen(s.acc, order.margin, order.commission).currMargin = s.acc.currMargin
    BY <1>4 DEF A!WithoutFrozen, A!AccountType, A!AccountOf
  <2>. QED
    BY <2>1, <2>2
<1>5. ASSUME NEW entry PROVE PutBack(s, id, entry).positions = s.positions
  BY DEF PutBack, SimFields
<1>. QED
  BY <1>1, <1>2, <1>3, <1>4, <1>5

-----------------------------------------------------------------------------
(* Orders that rest in the book (order/order.go checkClosable, place.go). *)

\* Without an order there are lots enough for it, of the kind it names (order/order.go checkClosable).
LEMMA ReleasedClosable ==
  ASSUME NEW today, NEW s, SimTyped(today, s), Covered(s), NEW id \in B!IDs(s.book)
  PROVE  LET order   == s.book.live[id].order
             tr      == DatedTrade(TradeOf(order))
             lots    == s.positions[tr.inst][Opposite(tr.dir)]
             frozen  == FrozenOf(B!Remove(s.book, id), tr.inst, Opposite(tr.dir))
         IN  /\ tr \in TradeType /\ tr.inst = order.inst /\ tr.price = order.price /\ tr.volume = order.volume
             /\ tr.offset # "Open" =>
                  /\ VolumeToday(lots) - frozen.today >= 0 /\ VolumeHistory(lots) - frozen.history >= 0
                  /\ CASE tr.offset = "CloseToday" -> tr.volume <= VolumeToday(lots) - frozen.today
                       [] tr.offset = "CloseYesterday" -> tr.volume <= VolumeHistory(lots) - frozen.history
                       [] OTHER -> /\ Contract[tr.inst].dateType = "NoUseHistory"
                                   /\ tr.volume <= (VolumeToday(lots) - frozen.today)
                                                     + (VolumeHistory(lots) - frozen.history)
<1>. DEFINE order  == s.book.live[id].order
            tr     == DatedTrade(TradeOf(order))
            held   == Opposite(tr.dir)
            lots   == s.positions[tr.inst][held]
            before == FrozenOf(s.book, tr.inst, held)
            frozen == FrozenOf(B!Remove(s.book, id), tr.inst, held)
            vt == VolumeToday(lots)
            vh == VolumeHistory(lots)
<1>1. BookTyped(s.book) /\ OrderTyped(order) /\ OrderLots(order)
  BY DEF SimTyped, BookTyped, Covered
<1>2. /\ tr \in TradeType /\ tr.inst = order.inst /\ tr.dir = order.dir
      /\ tr.price = order.price /\ tr.volume = order.volume
  <2>1. TradeOf(order) \in TradeType
    BY <1>1 DEF OrderTyped
  <2>2. /\ TradeOf(order).inst = order.inst /\ TradeOf(order).dir = order.dir
        /\ TradeOf(order).price = order.price /\ TradeOf(order).volume = order.volume
    BY DEF TradeOf
  <2>. HIDE DEF order
  <2>. QED
    BY <2>1, <2>2, DatedTyped
<1>3. order.offset = "Open" <=> tr.offset = "Open"
  <2>1. tr.offset = Dated(order.inst, order.offset)
    BY DEF DatedTrade, TradeOf
  <2>. HIDE DEF tr, order
  <2>. QED
    BY <2>1 DEF Dated
<1>4. /\ tr.inst \in Instruments /\ held \in Directions /\ tr.volume \in Nat \ {0}
      /\ tr.offset \in Offsets
  <2>. HIDE DEF tr
  <2>. QED
    BY <1>2, OppositeIn DEF TradeType
<1>5. /\ order.today \in Nat /\ order.history \in Nat
      /\ tr.offset = "CloseToday" => order.today = tr.volume /\ order.history = 0
      /\ tr.offset = "CloseYesterday" => order.today = 0 /\ order.history = tr.volume
      /\ tr.offset = "Close" => order.today + order.history = tr.volume /\ Contract[tr.inst].dateType = "NoUseHistory"
  <2>1. OrderLots(order)
    BY <1>1
  <2>. HIDE DEF order
  <2>. QED
    BY <1>2, <2>1 DEF OrderLots
<1>6. vt \in Nat /\ vh \in Nat /\ before.today <= vt /\ before.history <= vh
  <2>. HIDE DEF tr, held
  <2>. QED
    BY <1>4, SideCovered
<1>7. ASSUME tr.offset # "Open"
      PROVE  before.today = frozen.today + order.today /\ before.history = frozen.history + order.history
  <2>1. Closes(order, tr.inst, held)
    BY <1>2, <1>3, <1>7 DEF Closes
  <2>. HIDE DEF tr, held
  <2>. QED
    BY <1>1, <2>1, FrozenWithout
<1>8. frozen.today \in Int /\ frozen.history \in Int /\ before.today \in Int /\ before.history \in Int
  <2>1. BookTyped(B!Remove(s.book, id))
    BY <1>1, BookRemoved
  <2>. HIDE DEF tr, held
  <2>. QED
    BY <1>1, <2>1, FrozenInt
<1>9. tr.offset \in {"Open", "Close", "CloseToday", "CloseYesterday"}
  BY <1>4 DEF Offsets
<1>. HIDE DEF tr, order, held, lots, before, frozen, vt, vh
<1>10. ASSUME tr.offset # "Open"
       PROVE  /\ vt - frozen.today >= 0 /\ vh - frozen.history >= 0
              /\ tr.offset = "CloseToday" => tr.volume <= vt - frozen.today
              /\ tr.offset = "CloseYesterday" => tr.volume <= vh - frozen.history
              /\ tr.offset = "Close" => /\ Contract[tr.inst].dateType = "NoUseHistory"
                                        /\ tr.volume <= (vt - frozen.today) + (vh - frozen.history)
  BY <1>4, <1>5, <1>6, <1>7, <1>8, <1>10
<1>11. tr.offset # "Open" =>
         /\ vt - frozen.today >= 0 /\ vh - frozen.history >= 0
         /\ CASE tr.offset = "CloseToday" -> tr.volume <= vt - frozen.today
              [] tr.offset = "CloseYesterday" -> tr.volume <= vh - frozen.history
              [] OTHER -> /\ Contract[tr.inst].dateType = "NoUseHistory"
                          /\ tr.volume <= (vt - frozen.today) + (vh - frozen.history)
  BY <1>9, <1>10
<1>. QED
  BY <1>2, <1>11 DEF tr, order, held, lots, frozen, vt, vh

\* Of the orders of a book none has changed, and no previous settlement price either (place.go, simulator.go Mark).
KeepsOrders(s, after) ==
  /\ \A id \in B!IDs(after.book) : id \in B!IDs(s.book) /\ after.book.live[id].order = s.book.live[id].order
  /\ \A i \in Instruments : s.prices[i].pre # 0 => after.prices[i].pre = s.prices[i].pre

\* What is committed changes the account or the mark of breakage alone (simulator.go commit).
LEMMA CommitKeeps ==
  ASSUME NEW s, DOMAIN s = SimFields, NEW fee, NEW atSettle, NEW profit
  PROVE  LET after == Commit(s, fee, atSettle, profit) IN
         after.book = s.book /\ after.prices = s.prices /\ after.positions = s.positions
<1>. DEFINE after == Commit(s, fee, atSettle, profit)
<1>1. PICK a : after = [s EXCEPT !.acc = a] \/ after = [s EXCEPT !.broken = TRUE]
  BY DEF Commit, Committed
<1>. HIDE DEF after
<1>2. after.book = s.book /\ after.prices = s.prices /\ after.positions = s.positions
  BY <1>1 DEF SimFields
<1>. QED
  BY <1>2 DEF after

LEMMA TradeKeepsOrders ==
  ASSUME NEW s, DOMAIN s = SimFields, NEW today, NEW request
  PROVE  KeepsOrders(s, Traded(s, today, request))
<1>. DEFINE tr == DatedTrade(request)
            moved == [s EXCEPT !.positions = PositionsAfter(s, today, tr),
                               !.quotas = Booked(s, tr, Charge(s, tr).todayLots)]
            profit == CloseProfit(s, tr)
            after == Traded(s, today, request)
<1>1. after = Commit(moved, Charge(s, tr).fee, Charge(s, tr).atSettle, profit)
  BY DEF Traded, Recorded
<1>2. DOMAIN moved = SimFields /\ moved.book = s.book /\ moved.prices = s.prices
  BY DEF SimFields
<1>. HIDE DEF moved, tr, profit, after
<1>3. after.book = s.book /\ after.prices = s.prices
  BY <1>1, <1>2, CommitKeeps
<1>4. KeepsOrders(s, after)
  BY <1>3 DEF KeepsOrders
<1>. QED
  BY <1>4 DEF after

LEMMA MarkKeepsOrders ==
  ASSUME NEW s, DOMAIN s = SimFields, s.prices \in PricesType, NEW inst, NEW quote, CanMark(s, inst, quote)
  PROVE  KeepsOrders(s, Marked(s, inst, quote))
<1>. DEFINE prices == MarkedPrices(s, inst, quote)
            moved == [s EXCEPT !.prices = prices]
            after == Marked(s, inst, quote)
<1>1. ASSUME NEW i \in Instruments, s.prices[i].pre # 0 PROVE prices[i].pre = s.prices[i].pre
  <2>1. CASE i = inst
    BY <1>1, <2>1 DEF MarkedPrices, CanMark, PricesType
  <2>2. CASE i # inst
    BY <1>1, <2>2 DEF MarkedPrices, PricesType
  <2>. QED
    BY <2>1, <2>2
<1>. HIDE DEF prices
<1>2. DOMAIN moved = SimFields /\ moved.book = s.book /\ moved.prices = prices
  BY DEF SimFields
<1>3. after = Commit(moved, 0, 0, 0)
  BY DEF Marked, prices
<1>. HIDE DEF moved, after
<1>4. after.book = s.book /\ after.prices = prices
  BY <1>2, <1>3, CommitKeeps
<1>5. KeepsOrders(s, after)
  BY <1>1, <1>4 DEF KeepsOrders
<1>. QED
  BY <1>5 DEF after

LEMMA ReleaseKeepsOrders ==
  ASSUME NEW s, DOMAIN s = SimFields, NEW id
  PROVE  /\ KeepsOrders(s, Released(s, id)) /\ DOMAIN Released(s, id) = SimFields
         /\ Released(s, id).book = B!Remove(s.book, id)
         /\ Released(s, id).prices = s.prices /\ Released(s, id).positions = s.positions
<1>1. /\ Released(s, id).book = B!Remove(s.book, id) /\ Released(s, id).prices = s.prices
      /\ DOMAIN Released(s, id) = SimFields /\ Released(s, id).positions = s.positions
  BY DEF Released, SimFields
<1>2. /\ B!IDs(B!Remove(s.book, id)) = B!IDs(s.book) \ {id}
      /\ \A x \in B!IDs(s.book) \ {id} : B!Remove(s.book, id).live[x] = s.book.live[x]
  BY DEF B!IDs, B!Remove, B!Restrict, Restrict
<1>. QED
  BY <1>1, <1>2 DEF KeepsOrders

\* An order that is put back is the one that was taken out (place.go Fill).
LEMMA PutBackKeepsOrders ==
  ASSUME NEW s, DOMAIN s = SimFields, NEW id \in B!IDs(s.book),
         ~PutBack(Released(s, id), id, s.book.live[id]).broken
  PROVE  KeepsOrders(s, PutBack(Released(s, id), id, s.book.live[id]))
<1>. DEFINE freed == Released(s, id)
            entry == s.book.live[id]
            after == PutBack(freed, id, entry)
<1>1. DOMAIN freed = SimFields /\ freed.book = B!Remove(s.book, id) /\ freed.prices = s.prices
  BY ReleaseKeepsOrders
<1>. HIDE DEF freed
<1>2. after.book = B!Reinsert(freed.book, id, entry) /\ after.prices = freed.prices
  BY <1>1 DEF PutBack, SimFields, freed
<1>. HIDE DEF after
<1>3. \A x \in B!IDs(after.book) : x \in B!IDs(s.book) /\ after.book.live[x].order = s.book.live[x].order
  BY <1>1, <1>2 DEF B!IDs, B!Remove, B!Restrict, Restrict, B!Reinsert, B!InsertAt
<1>4. KeepsOrders(s, after)
  BY <1>1, <1>2, <1>3 DEF KeepsOrders
<1>. QED
  BY <1>4 DEF after, freed

\* A placed order is one more (place.go Place).
LEMMA PlaceKeepsOrders ==
  ASSUME NEW s, DOMAIN s = SimFields, NEW id, NEW request
  PROVE  LET after == Placed(s, id, request)
             order == FrozenOrder(s, Rewritten(request)) IN
         /\ after.prices = s.prices
         /\ \A x \in B!IDs(after.book) :
              \/ x = id /\ after.book.live[x].order = order
              \/ x \in B!IDs(s.book) /\ after.book.live[x].order = s.book.live[x].order
<1>. DEFINE after == Placed(s, id, request)
            order == FrozenOrder(s, Rewritten(request))
<1>1. after.prices = s.prices /\ after.book = B!Insert(s.book, id, order)
  BY DEF Placed, WithOrder, SimFields
<1>. HIDE DEF after, order
<1>2. \A x \in B!IDs(after.book) : \/ x = id /\ after.book.live[x].order = order
                                   \/ x \in B!IDs(s.book) /\ after.book.live[x].order = s.book.live[x].order
  BY <1>1 DEF B!IDs, B!Insert, B!InsertAt, B!Entry
<1>. QED
  BY <1>1, <1>2 DEF after, order

\* No operation takes a number back from the book (order/sequence.go, place.go, settle.go).
LEMMA NumbersGoOn ==
  ASSUME NEW s, DOMAIN s = SimFields, NEW id
  PROVE  /\ \A inst, quote : Marked(s, inst, quote).book = s.book
         /\ \A today, request : Traded(s, today, request).book = s.book
         /\ \A request : Placed(s, id, request).book.last = s.book.last + 1
         /\ Released(s, id).book.last = s.book.last /\ DOMAIN Released(s, id) = SimFields
         /\ \A price : Settled(s, price).book = s.book
<1>1. ASSUME NEW inst, NEW quote PROVE Marked(s, inst, quote).book = s.book
  <2>. DEFINE moved == [s EXCEPT !.prices = MarkedPrices(s, inst, quote)]
  <2>1. DOMAIN moved = SimFields /\ moved.book = s.book
    BY DEF SimFields
  <2>2. Marked(s, inst, quote) = Commit(moved, 0, 0, 0)
    BY DEF Marked
  <2>. HIDE DEF moved
  <2>. QED
    BY <2>1, <2>2, CommitKeeps
<1>2. ASSUME NEW today, NEW request PROVE Traded(s, today, request).book = s.book
  <2>. DEFINE tr == DatedTrade(request)
              charge == Charge(s, tr)
              moved == [s EXCEPT !.positions = PositionsAfter(s, today, tr),
                                 !.quotas = Booked(s, tr, charge.todayLots)]
              profit == CloseProfit(s, tr)
  <2>1. DOMAIN moved = SimFields /\ moved.book = s.book
    BY DEF SimFields
  <2>2. Traded(s, today, request) = Commit(moved, charge.fee, charge.atSettle, profit)
    BY DEF Traded, Recorded
  <2>. HIDE DEF moved, tr, charge, profit
  <2>. QED
    BY <2>1, <2>2, CommitKeeps
<1>3. ASSUME NEW request PROVE Placed(s, id, request).book.last = s.book.last + 1
  <2>. DEFINE order == FrozenOrder(s, Rewritten(request))
  <2>1. Placed(s, id, request).book = B!Insert(s.book, id, order)
    BY DEF Placed, WithOrder, SimFields
  <2>. HIDE DEF order
  <2>. QED
    BY <2>1 DEF B!Insert
<1>4. Released(s, id).book.last = s.book.last /\ DOMAIN Released(s, id) = SimFields
  <2>1. Released(s, id).book = B!Remove(s.book, id) /\ DOMAIN Released(s, id) = SimFields
    BY ReleaseKeepsOrders
  <2>. QED
    BY <2>1 DEF B!Remove
<1>5. ASSUME NEW price PROVE Settled(s, price).book = s.book
  <2>1. NextMorning(s, price).book = s.book
    BY DEF NextMorning, NewSimulator
  <2>2. [s EXCEPT !.broken = TRUE].book = s.book
    BY DEF SimFields
  <2>. QED
    BY <2>1, <2>2 DEF Settled
<1>. QED
  BY <1>1, <1>2, <1>3, <1>4, <1>5
=============================================================================
