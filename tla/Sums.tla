---------------------------------- MODULE Sums ----------------------------------
(***************************************************************************)
(* Sums of sequences of numbers, and the facts about them that the proofs  *)
(* need: what appending a number, changing one and leaving off the last    *)
(* ones does to a sum.  The inductions are on the least counterexample.    *)
(***************************************************************************)
EXTENDS Integers, Sequences, NaturalsInduction, WellFoundedInduction, TLAPS

\* Totals(s)[n] is the sum of the first n numbers of s
Totals(s) ==
    LET t[n \in 0..Len(s)] == IF n = 0 THEN 0 ELSE t[n - 1] + s[n]
    IN  t

\* The sum of all of them
SumOf(s) == Totals(s)[Len(s)]

-----------------------------------------------------------------------------
\* Every set of natural numbers that is not empty has a least element.
LEMMA LeastNat ==
    ASSUME NEW T, T \subseteq Nat, T # {}
    PROVE  \E x \in T : \A y \in T : x <= y
  <1> DEFINE R == {p \in Nat \X Nat : p[1] < p[2]}
  <1>1. IsWellFoundedOn(R, Nat) BY NatLessThanWellFounded, Zenon DEF OpToRel
  <1>2. PICK x \in T : \A y \in T : ~(<<y, x>> \in R)
    <2> HIDE DEF R
    <2> QED BY <1>1, WFMin
  <1>3. \A y \in T : ~(y < x)
    <2> TAKE y \in T
    <2>1. ~(<<y, x>> \in R) BY <1>2
    <2> QED BY <2>1 DEF R
  <1> QED BY <1>2, <1>3

\* What Totals chooses: t holds the running sums of s up to n
AreSums(t, s, n) == t = [i \in 0..n |-> IF i = 0 THEN 0 ELSE t[i - 1] + s[i]]

\* One more running sum
Longer(t, s, n) == [i \in 0..n |-> IF i = n THEN t[n - 1] + s[n] ELSE t[i]]

\* Sums of the first n - 1 give the sums of the first n
LEMMA SumsLonger ==
    ASSUME NEW s \in Seq(Nat), NEW n \in 1..Len(s), NEW t \in [0..(n - 1) -> Nat],
           AreSums(t, s, n - 1)
    PROVE  /\ Longer(t, s, n) \in [0..n -> Nat]
           /\ AreSums(Longer(t, s, n), s, n)
  <1> DEFINE u == Longer(t, s, n)
  <1>1. n \in Nat /\ n - 1 \in 0..(n - 1) /\ n # 0 /\ s[n] \in Nat OBVIOUS
  <1>2. \A i \in 0..(n - 1) : t[i] = IF i = 0 THEN 0 ELSE t[i - 1] + s[i]
    BY DEF AreSums
  <1>3. /\ u \in [0..n -> Nat]
        /\ u[n] = t[n - 1] + s[n]
        /\ \A i \in 0..(n - 1) : u[i] = t[i]
    BY <1>1 DEF Longer
  <1>4. \A i \in 0..n : u[i] = IF i = 0 THEN 0 ELSE u[i - 1] + s[i]
    <2> HIDE DEF u
    <2> TAKE i \in 0..n
    <2>1. CASE i = n BY <1>1, <1>3, <2>1
    <2>2. CASE i # n
      <3>1. i \in 0..(n - 1) /\ (i # 0 => i - 1 \in 0..(n - 1)) BY <1>1, <2>2
      <3> QED BY <1>2, <1>3, <3>1
    <2> QED BY <2>1, <2>2
  <1> HIDE DEF u
  <1>5. AreSums(u, s, n) BY <1>3, <1>4 DEF AreSums
  <1> QED BY <1>3, <1>5 DEF u

\* Every sequence of numbers has its running sums
LEMMA SumsExist ==
    ASSUME NEW s \in Seq(Nat), NEW n \in 0..Len(s)
    PROVE  \E t \in [0..n -> Nat] : AreSums(t, s, n)
  <1> DEFINE T == {k \in 0..Len(s) : ~\E t \in [0..k -> Nat] : AreSums(t, s, k)}
  <1> SUFFICES ASSUME T # {} PROVE FALSE OBVIOUS
  <1>1. T \subseteq Nat OBVIOUS
  <1>2. PICK k \in T : \A y \in T : k <= y
    <2> HIDE DEF T
    <2> QED BY <1>1, LeastNat
  <1>3. k \in 0..Len(s) /\ ~\E t \in [0..k -> Nat] : AreSums(t, s, k) OBVIOUS
  <1>4. CASE k = 0
    <2> DEFINE t == [i \in 0..0 |-> 0]
    <2>1. t \in [0..0 -> Nat] OBVIOUS
    <2>2. AreSums(t, s, 0)
      <3>1. \A i \in 0..0 : t[i] = IF i = 0 THEN 0 ELSE t[i - 1] + s[i] OBVIOUS
      <3> HIDE DEF t
      <3> QED BY <2>1, <3>1 DEF AreSums
    <2> HIDE DEF t
    <2> QED BY <1>3, <1>4, <2>1, <2>2
  <1>5. CASE k # 0
    <2>1. k \in 1..Len(s) /\ k - 1 \in 0..Len(s) /\ ~(k <= k - 1) BY <1>3, <1>5
    <2>2. k - 1 \notin T
      <3> HIDE DEF T
      <3> QED BY <1>2, <2>1
    <2>3. PICK t \in [0..(k - 1) -> Nat] : AreSums(t, s, k - 1) BY <2>1, <2>2
    <2> QED BY <1>3, <2>1, <2>3, SumsLonger
  <1> QED BY <1>4, <1>5

\* ... and only one of them
LEMMA SumsAgree ==
    ASSUME NEW s \in Seq(Nat), NEW n \in 0..Len(s), NEW m \in 0..n, NEW t, NEW u,
           AreSums(t, s, n), AreSums(u, s, m)
    PROVE  \A i \in 0..m : t[i] = u[i]
  <1> DEFINE T == {k \in 0..m : t[k] # u[k]}
  <1> SUFFICES ASSUME T # {} PROVE FALSE OBVIOUS
  <1>1. T \subseteq Nat OBVIOUS
  <1>2. PICK k \in T : \A y \in T : k <= y
    <2> HIDE DEF T
    <2> QED BY <1>1, LeastNat
  <1>3. k \in 0..m /\ k \in 0..n /\ t[k] # u[k] OBVIOUS
  <1>4. /\ t[k] = IF k = 0 THEN 0 ELSE t[k - 1] + s[k]
        /\ u[k] = IF k = 0 THEN 0 ELSE u[k - 1] + s[k]
    BY <1>3 DEF AreSums
  <1>5. k # 0 BY <1>3, <1>4
  <1>6. k - 1 \in 0..m /\ ~(k <= k - 1) BY <1>3, <1>5
  <1>7. k - 1 \notin T
    <2> HIDE DEF T
    <2> QED BY <1>2, <1>6
  <1>8. t[k - 1] = u[k - 1] BY <1>6, <1>7
  <1> QED BY <1>3, <1>4, <1>5, <1>8

\* Totals is the running sums
LEMMA TotalsSum ==
    ASSUME NEW s \in Seq(Nat)
    PROVE  AreSums(Totals(s), s, Len(s)) /\ Totals(s) \in [0..Len(s) -> Nat]
  <1>1. Len(s) \in 0..Len(s) OBVIOUS
  <1>2. PICK t \in [0..Len(s) -> Nat] : AreSums(t, s, Len(s)) BY <1>1, SumsExist
  <1>3. AreSums(Totals(s), s, Len(s))
    <2>1. Totals(s) = CHOOSE u : AreSums(u, s, Len(s)) BY DEF Totals, AreSums
    <2> QED BY <1>2, <2>1
  <1>4. \A i \in 0..Len(s) : Totals(s)[i] = t[i] BY <1>1, <1>2, <1>3, SumsAgree
  <1>5. Totals(s) = [i \in 0..Len(s) |-> Totals(s)[i]] BY <1>3 DEF AreSums
  <1> QED BY <1>2, <1>3, <1>4, <1>5

\* Each total is the one before it and one more length
LEMMA TotalsNext ==
    ASSUME NEW s \in Seq(Nat), NEW n \in 1..Len(s)
    PROVE  /\ Totals(s)[n] = Totals(s)[n - 1] + s[n]
           /\ Totals(s)[n] \in Nat /\ Totals(s)[n - 1] \in Nat
  <1>1. n \in 0..Len(s) /\ n - 1 \in 0..Len(s) /\ n # 0 OBVIOUS
  <1>2. AreSums(Totals(s), s, Len(s)) /\ Totals(s) \in [0..Len(s) -> Nat] BY TotalsSum
  <1>3. Totals(s)[n] = IF n = 0 THEN 0 ELSE Totals(s)[n - 1] + s[n] BY <1>1, <1>2 DEF AreSums
  <1> QED BY <1>1, <1>2, <1>3

\* One more number leaves the totals before it as they were
LEMMA TotalsAppend ==
    ASSUME NEW s \in Seq(Nat), NEW x \in Nat, NEW i \in 0..Len(s)
    PROVE  /\ Totals(Append(s, x))[i] = Totals(s)[i]
           /\ Totals(Append(s, x))[Len(s) + 1] = Totals(s)[Len(s)] + x
           /\ Totals(s)[i] \in Nat /\ Totals(s)[Len(s)] \in Nat
  <1> DEFINE z == Append(s, x)
             n == Len(s)
  <1>1. /\ n \in Nat /\ z \in Seq(Nat) /\ Len(z) = n + 1 /\ z[n + 1] = x
        /\ \A k \in 1..n : z[k] = s[k]
        /\ n \in 0..Len(z) /\ Len(z) \in 0..Len(z) /\ n \in 0..Len(s)
        /\ n + 1 \in 1..Len(z) /\ (n + 1) - 1 = n
    OBVIOUS
  <1> HIDE DEF z, n
  <1>2. AreSums(Totals(s), s, n) /\ Totals(s) \in [0..n -> Nat] BY TotalsSum DEF n
  <1>3. AreSums(Totals(s), z, n)
    <2>1. \A k \in 0..n : (IF k = 0 THEN 0 ELSE Totals(s)[k - 1] + z[k])
                            = (IF k = 0 THEN 0 ELSE Totals(s)[k - 1] + s[k])
      BY <1>1
    <2> QED BY <1>2, <2>1 DEF AreSums
  <1>4. AreSums(Totals(z), z, Len(z)) BY <1>1, TotalsSum
  <1>5. \A k \in 0..n : Totals(z)[k] = Totals(s)[k]
    <2>1. z \in Seq(Nat) /\ Len(z) \in 0..Len(z) /\ n \in 0..Len(z) BY <1>1
    <2> DEFINE t == Totals(z)
               u == Totals(s)
               l == Len(z)
    <2>2. AreSums(t, z, l) /\ AreSums(u, z, n) BY <1>3, <1>4
    <2>3. z \in Seq(Nat) /\ l \in 0..Len(z) /\ n \in 0..l BY <2>1
    <2> HIDE DEF t, u, l
    <2>4. \A k \in 0..n : t[k] = u[k] BY ONLY <2>2, <2>3, SumsAgree
    <2> QED BY <2>4 DEF t, u
  <1>6. Totals(z)[n + 1] = Totals(z)[n] + z[n + 1] BY ONLY <1>1, TotalsNext
  <1>7. i \in 0..n /\ n \in 0..n BY <1>1 DEF n
  <1>8. Totals(z)[n + 1] = Totals(s)[n] + x BY <1>1, <1>5, <1>6, <1>7
  <1> QED BY <1>2, <1>5, <1>7, <1>8 DEF z, n

\* Sequences that begin alike have the same totals there
LEMMA TotalsPrefix ==
    ASSUME NEW s \in Seq(Nat), NEW u \in Seq(Nat), NEW m \in Nat,
           m <= Len(s), m <= Len(u), \A i \in 1..m : s[i] = u[i]
    PROVE  Totals(s)[m] = Totals(u)[m] /\ Totals(s)[m] \in Nat
  <1>1. m \in 0..Len(s) /\ m \in 0..m /\ Len(s) \in 0..Len(s) /\ Len(u) \in 0..Len(u)
        /\ m \in 0..Len(u)
    OBVIOUS
  <1>2. /\ AreSums(Totals(s), s, Len(s)) /\ Totals(s) \in [0..Len(s) -> Nat]
        /\ AreSums(Totals(u), u, Len(u)) /\ Totals(u) \in [0..Len(u) -> Nat]
    BY TotalsSum
  <1> DEFINE t == [i \in 0..m |-> Totals(u)[i]]
  <1>3. AreSums(t, s, m)
    <2>1. \A i \in 0..m : Totals(u)[i] = IF i = 0 THEN 0 ELSE Totals(u)[i - 1] + u[i]
      <3>1. \A i \in 0..m : i \in 0..Len(u) BY <1>1
      <3> QED BY ONLY <1>2, <3>1 DEF AreSums
    <2>2. \A i \in 0..m : t[i] = IF i = 0 THEN 0 ELSE t[i - 1] + s[i]
      <3> TAKE i \in 0..m
      <3>1. i # 0 => i \in 1..m /\ i - 1 \in 0..m OBVIOUS
      <3> QED BY <2>1, <3>1
    <2>3. t = [i \in 0..m |-> t[i]] OBVIOUS
    <2> HIDE DEF t
    <2> QED BY <2>2, <2>3 DEF AreSums
  <1>4. t[m] = Totals(u)[m] BY <1>1
  <1> HIDE DEF t
  <1>5. \A i \in 0..m : Totals(s)[i] = t[i]
    <2> DEFINE l == Len(s)
               w == Totals(s)
    <2>1. AreSums(w, s, l) /\ l \in 0..Len(s) /\ m \in 0..l BY <1>1, <1>2
    <2> HIDE DEF l, w
    <2>2. \A i \in 0..m : w[i] = t[i] BY ONLY <1>3, <2>1, s \in Seq(Nat), SumsAgree
    <2> QED BY <2>2 DEF w
  <1> QED BY <1>1, <1>2, <1>4, <1>5

\* The sum is a number, and nothing is the sum of nothing
LEMMA SumIsNumber ==
    ASSUME NEW s \in Seq(Nat)
    PROVE  /\ SumOf(s) \in Nat
           /\ Totals(s)[0] = 0
           /\ \A m \in 0..Len(s) : Totals(s)[m] \in Nat
  <1>1. AreSums(Totals(s), s, Len(s)) /\ Totals(s) \in [0..Len(s) -> Nat] BY TotalsSum
  <1>2. Len(s) \in 0..Len(s) /\ 0 \in 0..Len(s) OBVIOUS
  <1>3. Totals(s)[0] = 0 BY <1>1, <1>2 DEF AreSums
  <1> QED BY <1>1, <1>2, <1>3 DEF SumOf

LEMMA SumOfNothing == SumOf(<< >>) = 0
  <1>1. << >> \in Seq(Nat) /\ Len(<< >>) = 0 OBVIOUS
  <1>2. Totals(<< >>)[0] = 0 BY <1>1, SumIsNumber
  <1> QED BY <1>1, <1>2 DEF SumOf

\* One more number
LEMMA SumAppend ==
    ASSUME NEW s \in Seq(Nat), NEW x \in Nat
    PROVE  SumOf(Append(s, x)) = SumOf(s) + x
  <1>1. Len(s) \in 0..Len(s) /\ Len(Append(s, x)) = Len(s) + 1 OBVIOUS
  <1>2. Totals(Append(s, x))[Len(s) + 1] = Totals(s)[Len(s)] + x BY <1>1, TotalsAppend
  <1> QED BY <1>1, <1>2 DEF SumOf

\* One number that changes, from s to u at k, changes the totals from there on by as much
LEMMA TotalsChange ==
    ASSUME NEW s \in Seq(Nat), NEW u \in Seq(Nat), NEW k \in 1..Len(s), Len(u) = Len(s),
           \A i \in 1..Len(s) : i # k => u[i] = s[i]
    PROVE  \A m \in k..Len(s) : Totals(u)[m] = Totals(s)[m] + u[k] - s[k]
  <1> DEFINE n == Len(s)
             a == Totals(s)
             b == Totals(u)
             T == {m \in k..n : b[m] # a[m] + u[k] - s[k]}
  <1>0. n \in Nat /\ k \in 1..n /\ u[k] \in Nat /\ s[k] \in Nat OBVIOUS
  <1>1. ASSUME NEW m \in 1..n
        PROVE  /\ a[m] = a[m - 1] + s[m] /\ a[m] \in Nat /\ a[m - 1] \in Nat
               /\ b[m] = b[m - 1] + u[m] /\ b[m] \in Nat /\ b[m - 1] \in Nat
               /\ s[m] \in Nat /\ u[m] \in Nat /\ (m # k => u[m] = s[m])
    <2>1. m \in 1..Len(s) /\ m \in 1..Len(u) OBVIOUS
    <2>2. u[m] \in Nat /\ s[m] \in Nat /\ (m # k => u[m] = s[m]) BY <2>1
    <2>3. a[m] = a[m - 1] + s[m] /\ a[m] \in Nat /\ a[m - 1] \in Nat
      BY ONLY <2>1, s \in Seq(Nat), TotalsNext
    <2>4. b[m] = b[m - 1] + u[m] /\ b[m] \in Nat /\ b[m - 1] \in Nat
      BY ONLY <2>1, u \in Seq(Nat), TotalsNext
    <2> HIDE DEF a, b
    <2> QED BY <2>2, <2>3, <2>4
  <1>2. a[k - 1] = b[k - 1]
    <2>1. /\ k - 1 \in Nat /\ k - 1 <= Len(s) /\ k - 1 <= Len(u)
          /\ \A i \in 1..(k - 1) : s[i] = u[i]
      BY <1>0
    <2> QED BY <2>1, TotalsPrefix
  <1> HIDE DEF a, b, T
  <1>3. T = {}
    <2> SUFFICES ASSUME T # {} PROVE FALSE OBVIOUS
    <2>1. T \subseteq Nat BY DEF T
    <2>2. PICK m \in T : \A y \in T : m <= y BY <2>1, LeastNat
    <2>3. m \in k..n /\ b[m] # a[m] + u[k] - s[k] BY DEF T
    <2>4. m \in 1..n BY <1>0, <2>3
    <2>5. /\ a[m] = a[m - 1] + s[m] /\ a[m] \in Nat /\ a[m - 1] \in Nat
          /\ b[m] = b[m - 1] + u[m] /\ b[m] \in Nat /\ b[m - 1] \in Nat
          /\ s[m] \in Nat /\ u[m] \in Nat /\ (m # k => u[m] = s[m])
      BY <1>1, <2>4
    <2>6. ASSUME m = k PROVE FALSE BY ONLY <1>0, <1>2, <2>3, <2>5, <2>6
    <2>7. ASSUME m # k PROVE FALSE
      <3>1. m - 1 \in k..n /\ ~(m <= m - 1) BY <1>0, <2>3, <2>7
      <3>2. m - 1 \notin T BY <2>2, <3>1
      <3>3. b[m - 1] = a[m - 1] + u[k] - s[k] BY <3>1, <3>2 DEF T
      <3>4. a[m] = a[m - 1] + s[m] /\ b[m] = b[m - 1] + s[m] BY <2>5, <2>7
      <3>5. /\ a[m] \in Nat /\ a[m - 1] \in Nat /\ b[m] \in Nat /\ b[m - 1] \in Nat
            /\ s[m] \in Nat /\ u[k] \in Nat /\ s[k] \in Nat
        BY <1>0, <2>5
      <3>6. b[m] = a[m] + u[k] - s[k]
        <4> DEFINE am == a[m]
                   bm == b[m]
                   ap == a[m - 1]
                   bp == b[m - 1]
                   x == s[m]
                   y == u[k]
                   z == s[k]
        <4>1. /\ am \in Nat /\ bm \in Nat /\ ap \in Nat /\ bp \in Nat /\ x \in Nat
              /\ y \in Nat /\ z \in Nat
              /\ bp = ap + y - z /\ am = ap + x /\ bm = bp + x
          BY <3>3, <3>4, <3>5
        <4> HIDE DEF am, bm, ap, bp, x, y, z
        <4>2. bm = am + y - z BY ONLY <4>1
        <4> QED BY <4>2 DEF am, bm, y, z
      <3> QED BY <2>3, <3>6
    <2> QED BY <2>6, <2>7
  <1> QED BY <1>3 DEF T, a, b

\* ... and the sum
LEMMA SumChange ==
    ASSUME NEW s \in Seq(Nat), NEW u \in Seq(Nat), NEW k \in 1..Len(s), Len(u) = Len(s),
           \A i \in 1..Len(s) : i # k => u[i] = s[i]
    PROVE  SumOf(u) = SumOf(s) + u[k] - s[k]
  <1>1. Len(s) \in k..Len(s) OBVIOUS
  <1>2. Totals(u)[Len(s)] = Totals(s)[Len(s)] + u[k] - s[k] BY <1>1, TotalsChange
  <1> QED BY <1>2 DEF SumOf

\* No number of a sequence is greater than its sum
LEMMA SumAtLeast ==
    ASSUME NEW s \in Seq(Nat), NEW k \in 1..Len(s)
    PROVE  s[k] <= SumOf(s)
  <1> DEFINE u == [i \in 1..Len(s) |-> IF i = k THEN 0 ELSE s[i]]
  <1>1. /\ u \in Seq(Nat) /\ Len(u) = Len(s) /\ u[k] = 0
        /\ \A i \in 1..Len(s) : i # k => u[i] = s[i]
    OBVIOUS
  <1> HIDE DEF u
  <1>2. SumOf(u) = SumOf(s) + u[k] - s[k] BY <1>1, SumChange
  <1>3. SumOf(u) \in Nat /\ SumOf(s) \in Nat /\ s[k] \in Nat BY <1>1, SumIsNumber
  <1> QED BY <1>1, <1>2, <1>3

\* The sum of the first numbers is at most the sum of all
LEMMA TotalsGrow ==
    ASSUME NEW s \in Seq(Nat), NEW m \in 0..Len(s)
    PROVE  Totals(s)[m] \in Nat /\ SumOf(s) \in Nat /\ Totals(s)[m] <= SumOf(s)
  <1> DEFINE n == Len(s)
             a == Totals(s)
             T == {k \in m..n : ~(a[m] <= a[k])}
  <1>1. n \in Nat /\ m \in 0..n /\ SumOf(s) = a[n] BY DEF SumOf
  <1>2. \A k \in 0..n : a[k] \in Nat BY SumIsNumber
  <1>3. ASSUME NEW k \in 1..n PROVE a[k] >= a[k - 1]
    <2>1. a[k] = a[k - 1] + s[k] /\ a[k - 1] \in Nat /\ s[k] \in Nat BY TotalsNext
    <2> HIDE DEF a
    <2> QED BY <2>1
  <1>4. T = {}
    <2> SUFFICES ASSUME T # {} PROVE FALSE OBVIOUS
    <2>1. T \subseteq Nat BY <1>1
    <2>2. PICK k \in T : \A y \in T : k <= y
      <3> HIDE DEF T
      <3> QED BY <2>1, LeastNat
    <2>3. k \in m..n /\ ~(a[m] <= a[k]) OBVIOUS
    <2> HIDE DEF n, a
    <2>4. a[m] \in Nat /\ a[k] \in Nat BY <1>1, <1>2, <2>3
    <2>5. k # m BY <2>3, <2>4
    <2>6. k \in 1..n /\ k - 1 \in m..n /\ k - 1 \in 0..n /\ ~(k <= k - 1) BY <1>1, <2>3, <2>5
    <2>7. a[m] <= a[k - 1] BY <2>2, <2>6
    <2>8. a[k] >= a[k - 1] /\ a[k - 1] \in Nat BY <1>2, <1>3, <2>6
    <2> QED BY <2>3, <2>4, <2>7, <2>8
  <1>5. n \in m..n BY <1>1
  <1> QED BY <1>1, <1>2, <1>4, <1>5

\* A sum of zeros is zero
LEMMA SumOfZeros ==
    ASSUME NEW s \in Seq(Nat), \A k \in 1..Len(s) : s[k] = 0
    PROVE  SumOf(s) = 0
  <1> DEFINE n == Len(s)
             a == Totals(s)
             T == {k \in 0..n : a[k] # 0}
  <1>1. n \in Nat /\ SumOf(s) = a[n] BY DEF SumOf
  <1>2. a[0] = 0 BY SumIsNumber
  <1>3. ASSUME NEW k \in 1..n PROVE a[k] = a[k - 1]
    <2>1. a[k] = a[k - 1] + s[k] /\ a[k - 1] \in Nat /\ s[k] = 0 BY TotalsNext
    <2> HIDE DEF a
    <2> QED BY <2>1
  <1>4. T = {}
    <2> SUFFICES ASSUME T # {} PROVE FALSE OBVIOUS
    <2>1. T \subseteq Nat OBVIOUS
    <2>2. PICK k \in T : \A y \in T : k <= y
      <3> HIDE DEF T
      <3> QED BY <2>1, LeastNat
    <2> HIDE DEF a, n
    <2>3. k \in 0..n /\ a[k] # 0 OBVIOUS
    <2>4. k \in 1..n /\ k - 1 \in 0..n /\ ~(k <= k - 1) BY <1>1, <1>2, <2>3
    <2>5. a[k - 1] = 0 BY <2>2, <2>4
    <2> QED BY <1>3, <2>3, <2>4, <2>5
  <1> HIDE DEF a, n
  <1> QED BY <1>1, <1>4
================================================================================
