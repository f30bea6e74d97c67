-------------------------- MODULE TokenIdsProofs --------------------------
(***************************************************************************)
(* That a token id can be read back, for every prefix, year and number:    *)
(* the digits of a number, which the code finds from the right, are read   *)
(* from the left.  Induction here is over sets of numbers: the provers do  *)
(* not take it over formulas.  The first section also shows that what is   *)
(* defined by recursion or by a loop has a value.                          *)
(*                                                                         *)
(* That year_from_timestamp is the civil year, for every day since 1970:   *)
(* the calendar of MCTokenIds is given a day number of its own, counted    *)
(* from its leap years, which a step of the calendar advances by one, and  *)
(* the code's arithmetic is shown to find the year of that number again.   *)
(*                                                                         *)
(* The arithmetic is about whole quotients with large divisors, which the  *)
(* prover takes only as named integers between bounds: the lemmas on       *)
(* arithmetic name them, the others give the names to the quotients.       *)
(***************************************************************************)
EXTENDS MCTokenIds, TLAPS, WellFoundedInduction

----------------------------------------------------------------------------
(* Induction and recursion *)

\* A non-empty set of numbers has a least one.
LEMMA LeastExists ==
  ASSUME NEW I \in SUBSET Nat, I # {}
  PROVE  \E x \in I : \A y \in I : x <= y
<1>1. \E x \in I : \A y \in I : <<y, x>> \notin OpToRel(<, Nat)
  BY NatLessThanWellFounded, WFMin, Zenon
<1>2. \A x, y \in Nat : x < y => <<x, y>> \in OpToRel(<, Nat)
  BY Zenon DEF OpToRel
<1>3. \A x, y \in Nat : ~(x < y) => y <= x
  OBVIOUS
<1> QED
  BY <1>1, <1>2, <1>3

\* Induction, said of sets: what contains every number whose predecessors it
\* contains, contains all numbers.
LEMMA Induction ==
  ASSUME NEW S \in SUBSET Nat,
         \A n \in Nat : (\A m \in Nat : m < n => m \in S) => n \in S
  PROVE  \A n \in Nat : n \in S
<1> SUFFICES ASSUME Nat \ S # {} PROVE FALSE
  OBVIOUS
<1>1. PICK n \in Nat \ S : \A y \in Nat \ S : n <= y
  BY LeastExists, Zenon
<1>2. \A m \in Nat : m < n => m \in S
  BY <1>1
<1> QED
  BY <1>1, <1>2

\* The function f is given by its value at an earlier argument, or outright: at i;
\* up to n; at all arguments.
RecursAt(f, i, first, step, prev) ==
  f[i] = IF prev[i] < i THEN step[<<i, f[prev[i]]>>] ELSE first[i]

Recurs(f, n, first, step, prev) ==
  \A i \in Nat : i <= n => RecursAt(f, i, first, step, prev)

Recursive(f, first, step, prev) ==
  \A i \in Nat : RecursAt(f, i, first, step, prev)

\* Up to any argument there is such a function: one that recurs up to the argument
\* before is changed at one place.
LEMMA RecursionStops ==
  ASSUME NEW V, NEW first \in [Nat -> V], NEW step \in [Nat \X V -> V], NEW prev \in [Nat -> Nat],
         NEW n \in Nat
  PROVE  \E f \in [Nat -> V] : Recurs(f, n, first, step, prev)
<1> DEFINE Solved(m, f) == Recurs(f, m, first, step, prev)
           S == {m \in Nat : \E f \in [Nat -> V] : Solved(m, f)}
<1>1. ASSUME NEW m \in Nat, \A k \in Nat : k < m => k \in S
      PROVE  m \in S
  <2>1. PICK f \in [Nat -> V] : m > 0 => Solved(m - 1, f)
    <3>1. CASE m > 0
      BY <1>1, <3>1
    <3>2. CASE ~(m > 0)
      BY <3>2
    <3> QED
      BY <3>1, <3>2
  <2> DEFINE v == IF prev[m] < m THEN step[<<m, f[prev[m]]>>] ELSE first[m]
             g == [f EXCEPT ![m] = v]
  <2>2. v \in V
    OBVIOUS
  <2>3. g \in [Nat -> V] /\ g[m] = v /\ \A i \in Nat : i # m => g[i] = f[i]
    BY <2>2
  <2> HIDE DEF g
  <2>4. ASSUME NEW i \in Nat, i <= m
        PROVE  g[i] = IF prev[i] < i THEN step[<<i, g[prev[i]]>>] ELSE first[i]
    <3>1. CASE i = m
      BY <2>3, <3>1
    <3>2. CASE i # m
      <4> HIDE DEF v
      <4>1. i <= m - 1 /\ m > 0
        BY <2>4, <3>2
      <4>2. f[i] = IF prev[i] < i THEN step[<<i, f[prev[i]]>>] ELSE first[i]
        BY <2>1, <4>1 DEF Recurs, RecursAt
      <4>3. prev[i] \in Nat /\ (prev[i] < i => prev[i] # m)
        BY <2>4
      <4> QED
        BY <2>3, <3>2, <4>2, <4>3
    <3> QED
      BY <3>1, <3>2
  <2>5. Solved(m, g)
    BY <2>4 DEF Recurs, RecursAt
  <2> QED
    BY <2>3, <2>5
<1>2. \A m \in Nat : m \in S
  <2> HIDE DEF S
  <2> QED
    BY <1>1, Induction DEF S
<1> QED
  BY <1>2

\* What recurs is defined: the functions that recur up to some argument agree where
\* they do, and each gives the value at its last.
LEMMA Recursion ==
  ASSUME NEW V, NEW first \in [Nat -> V], NEW step \in [Nat \X V -> V], NEW prev \in [Nat -> Nat]
  PROVE  \E f \in [Nat -> V] : Recursive(f, first, step, prev)
<1>1. ASSUME NEW m \in Nat, NEW a, NEW b,
             Recurs(a, m, first, step, prev), Recurs(b, m, first, step, prev)
      PROVE  a[m] = b[m]
  <2> DEFINE S == {i \in Nat : i <= m => a[i] = b[i]}
  <2>1. ASSUME NEW n \in Nat, \A k \in Nat : k < n => k \in S
        PROVE  n \in S
    <3> SUFFICES ASSUME n <= m PROVE a[n] = b[n]
      OBVIOUS
    <3>1. prev[n] \in Nat /\ (prev[n] < n => a[prev[n]] = b[prev[n]])
      BY <2>1
    <3> QED
      BY <1>1, <3>1 DEF Recurs, RecursAt
  <2>2. \A n \in Nat : n \in S
    <3> HIDE DEF S
    <3> QED
      BY <2>1, Induction DEF S
  <2> QED
    BY <2>2
<1> DEFINE part(n) == CHOOSE f \in [Nat -> V] : Recurs(f, n, first, step, prev)
           f == [n \in Nat |-> part(n)[n]]
<1>2. \A n \in Nat : part(n) \in [Nat -> V] /\ Recurs(part(n), n, first, step, prev)
  BY RecursionStops, Zenon
<1> HIDE DEF part
<1>3. f \in [Nat -> V]
  BY <1>2
<1>4. ASSUME NEW i \in Nat
      PROVE  f[i] = IF prev[i] < i THEN step[<<i, f[prev[i]]>>] ELSE first[i]
  <2>1. part(i)[i] = IF prev[i] < i THEN step[<<i, part(i)[prev[i]]>>] ELSE first[i]
    BY <1>2 DEF Recurs, RecursAt
  <2>2. ASSUME prev[i] < i
        PROVE  part(i)[prev[i]] = part(prev[i])[prev[i]]
    <3>1. prev[i] \in Nat /\ prev[i] <= i
      BY <2>2
    <3>2. /\ Recurs(part(i), prev[i], first, step, prev)
          /\ Recurs(part(prev[i]), prev[i], first, step, prev)
      <4> DEFINE a == part(i)
      <4>1. Recurs(a, i, first, step, prev)
        BY <1>2
      <4> HIDE DEF a
      <4>2. Recurs(a, prev[i], first, step, prev)
        BY <3>1, <4>1 DEF Recurs, RecursAt
      <4> QED
        BY <1>2, <3>1, <4>2, Zenon DEF a
    <3> QED
      BY <1>1, <3>1, <3>2, Zenon
  <2>3. prev[i] \in Nat
    OBVIOUS
  <2>4. f[i] = part(i)[i] /\ f[prev[i]] = part(prev[i])[prev[i]]
    BY <2>3
  <2> HIDE DEF f
  <2> QED
    BY <2>1, <2>2, <2>4
<1> HIDE DEF f
<1> QED
  BY <1>3, <1>4 DEF Recursive, RecursAt

\* f is what a loop of n turns has after each of them.
Loops(f, n, base, turn) ==
  f[0] = base /\ \A k \in 1..n : f[k] = turn[<<k, f[k - 1]>>]

\* Every loop has something after each of its turns.
LEMMA Loop ==
  ASSUME NEW n \in Nat, NEW V, NEW base \in V, NEW turn \in [(1..n) \X V -> V]
  PROVE  \E f \in [0..n -> V] : Loops(f, n, base, turn)
<1> DEFINE first == [k \in Nat |-> base]
           step == [x \in Nat \X V |-> IF x[1] \in 1..n THEN turn[x] ELSE base]
           prev == [k \in Nat |-> IF k = 0 THEN 0 ELSE k - 1]
<1>1. first \in [Nat -> V] /\ prev \in [Nat -> Nat]
  OBVIOUS
<1>2. step \in [Nat \X V -> V]
  OBVIOUS
<1>3. /\ \A k \in Nat : first[k] = base /\ prev[k] = IF k = 0 THEN 0 ELSE k - 1
      /\ \A k \in 1..n, v \in V : step[<<k, v>>] = turn[<<k, v>>]
  <2>1. ASSUME NEW k \in 1..n, NEW v \in V
        PROVE  step[<<k, v>>] = turn[<<k, v>>]
    <3>1. k \in Nat
      OBVIOUS
    <3> QED
      BY <3>1
  <2> QED
    BY <2>1
<1> HIDE DEF first, step, prev
<1>4. PICK f \in [Nat -> V] : Recursive(f, first, step, prev)
  BY <1>1, <1>2, Recursion, Zenon
<1> DEFINE g == [k \in 0..n |-> f[k]]
<1>5. g \in [0..n -> V] /\ g[0] = base
  <2>1. 0 \in Nat /\ prev[0] = 0 /\ first[0] = base
    BY <1>3
  <2>2. f[0] = base
    <3>1. f[0] = IF prev[0] < 0 THEN step[<<0, f[prev[0]]>>] ELSE first[0]
      BY <1>4 DEF Recursive, RecursAt
    <3>2. ~(prev[0] < 0)
      BY <2>1
    <3> QED
      BY <2>1, <3>1, <3>2, Zenon
  <2>3. 0 \in 0..n /\ \A k \in 0..n : f[k] \in V
    OBVIOUS
  <2> QED
    BY <2>2, <2>3, Zenon
<1>6. ASSUME NEW k \in 1..n
      PROVE  g[k] = turn[<<k, g[k - 1]>>]
  <2>1. k \in Nat /\ prev[k] = k - 1 /\ k - 1 < k /\ k - 1 \in 0..n
    BY <1>3
  <2>2. f[k] = step[<<k, f[k - 1]>>]
    BY <1>4, <2>1 DEF Recursive, RecursAt
  <2>3. g[k - 1] = f[k - 1] /\ g[k] = f[k] /\ f[k - 1] \in V
    BY <2>1
  <2> QED
    BY <1>3, <2>2, <2>3
<1> HIDE DEF g
<1> QED
  BY <1>5, <1>6 DEF Loops

\* Induction over the turns of a loop.
LEMMA Turns ==
  ASSUME NEW n \in Nat, NEW S, 0 \in S, \A k \in 1..n : k - 1 \in S => k \in S
  PROVE  \A k \in 0..n : k \in S
<1> DEFINE T == {k \in Nat : k <= n => k \in S}
<1>1. ASSUME NEW k \in Nat, \A m \in Nat : m < k => m \in T
      PROVE  k \in T
  <2>1. CASE k = 0
    BY <2>1
  <2>2. CASE k # 0
    <3> SUFFICES ASSUME k <= n PROVE k \in S
      OBVIOUS
    <3>1. k - 1 \in Nat /\ k - 1 < k /\ k - 1 <= n /\ k \in 1..n
      BY <2>2
    <3>2. k - 1 \in S
      BY <1>1, <3>1
    <3> QED
      BY <3>1, <3>2
  <2> QED
    BY <2>1, <2>2
<1>2. \A k \in Nat : k \in T
  <2>1. T \in SUBSET Nat
    OBVIOUS
  <2> HIDE DEF T
  <2> QED
    BY <1>1, <2>1, Induction
<1> QED
  BY <1>2

----------------------------------------------------------------------------
(* The rendering of ids *)

Figure == {"0", "1", "2", "3", "4", "5", "6", "7", "8", "9"}

\* The ten figures are different, and none is a dash.
LEMMA FiguresDiffer ==
  /\ Figures \in Seq(Figure) /\ Len(Figures) = 10
  /\ \A m, n \in 0..9 : Figures[m + 1] = Figures[n + 1] => m = n
  /\ "-" \notin Figure
<1>1. /\ Figures[1] = "0" /\ Figures[2] = "1" /\ Figures[3] = "2" /\ Figures[4] = "3"
      /\ Figures[5] = "4" /\ Figures[6] = "5" /\ Figures[7] = "6" /\ Figures[8] = "7"
      /\ Figures[9] = "8" /\ Figures[10] = "9"
  BY SMT DEF Figures
<1>2. Figures \in Seq(Figure) /\ Len(Figures) = 10
  BY SMT DEF Figures, Figure
<1>3. ASSUME NEW m \in 0..9, NEW n \in 0..9, Figures[m + 1] = Figures[n + 1]
      PROVE  m = n
  BY <1>1, <1>3, SMT
<1> QED
  BY <1>2, <1>3, SMT DEF Figure

\* Each is worth its place.
LEMMA Worths ==
  /\ \A n \in 0..9 : Figures[n + 1] \in Figure /\ Worth(Figures[n + 1]) = n
  /\ \A d \in Figure : Worth(d) \in 0..9
  /\ Worth("0") = 0
<1>1. ASSUME NEW n \in 0..9
      PROVE  Figures[n + 1] \in Figure /\ Worth(Figures[n + 1]) = n
  <2>1. \E m \in 0..9 : Figures[m + 1] = Figures[n + 1]
    OBVIOUS
  <2>2. Figures[n + 1] \in Figure
    BY FiguresDiffer, SMT
  <2>3. /\ Worth(Figures[n + 1]) \in 0..9
        /\ Figures[Worth(Figures[n + 1]) + 1] = Figures[n + 1]
    BY <2>1, Zenon DEF Worth
  <2> QED
    BY <2>2, <2>3, FiguresDiffer, Zenon
<1>2. ASSUME NEW d \in Figure
      PROVE  \E n \in 0..9 : Figures[n + 1] = d
  <2>1. /\ Figures[0 + 1] = "0" /\ Figures[1 + 1] = "1" /\ Figures[2 + 1] = "2"
        /\ Figures[3 + 1] = "3" /\ Figures[4 + 1] = "4" /\ Figures[5 + 1] = "5"
        /\ Figures[6 + 1] = "6" /\ Figures[7 + 1] = "7" /\ Figures[8 + 1] = "8"
        /\ Figures[9 + 1] = "9"
    BY SMT DEF Figures
  <2>2. 0 \in 0..9 /\ 1 \in 0..9 /\ 2 \in 0..9 /\ 3 \in 0..9 /\ 4 \in 0..9
        /\ 5 \in 0..9 /\ 6 \in 0..9 /\ 7 \in 0..9 /\ 8 \in 0..9 /\ 9 \in 0..9
    BY SMT
  <2> QED
    BY <2>1, <2>2, Zenon DEF Figure
<1>3. \A d \in Figure : Worth(d) \in 0..9
  BY <1>2, Zenon DEF Worth
<1>4. Figures[0 + 1] = "0" /\ 0 \in 0..9
  BY SMT DEF Figures
<1>5. Worth("0") = 0
  BY <1>1, <1>4, Zenon
<1> QED
  BY <1>1, <1>3, <1>5

\* The digits of a number are those of its tenth and one more.
LEMMA Digits ==
  /\ digits \in [Nat -> Seq(Figure)]
  /\ \A v \in Nat : digits[v] = IF v < 10 THEN <<Figures[v + 1]>>
                                ELSE Append(digits[v \div 10], Figures[(v % 10) + 1])
<1> DEFINE first == [v \in Nat |-> IF v < 10 THEN <<Figures[v + 1]>> ELSE <<>>]
           step == [x \in Nat \X Seq(Figure) |-> Append(x[2], Figures[(x[1] % 10) + 1])]
           prev == [v \in Nat |-> IF v < 10 THEN v ELSE v \div 10]
           V == Seq(Figure)
           Holds(g) == g = [v \in Nat |-> IF v < 10 THEN <<Figures[v + 1]>>
                                ELSE Append(g[v \div 10], Figures[(v % 10) + 1])]
<1>1. ASSUME NEW v \in Nat
      PROVE  /\ v < 10 => v \in 0..9 /\ Figures[v + 1] \in Figure
             /\ v % 10 \in 0..9 /\ Figures[(v % 10) + 1] \in Figure
             /\ v \div 10 \in Nat /\ (v >= 10 => v \div 10 < v)
  <2>1. v < 10 => v \in 0..9
    BY SMT
  <2>2. v % 10 \in 0..9 /\ v \div 10 \in Nat /\ (v >= 10 => v \div 10 < v)
    BY SMT
  <2> QED
    BY <2>1, <2>2, Worths, Zenon
<1>2. first \in [Nat -> V]
  BY <1>1
<1>3. step \in [Nat \X V -> V]
  BY <1>1
<1>4. prev \in [Nat -> Nat]
  BY <1>1
<1>5. \A v \in Nat : /\ prev[v] = IF v < 10 THEN v ELSE v \div 10
                     /\ v < 10 => first[v] = <<Figures[v + 1]>>
                     /\ \A s \in V : step[<<v, s>>] = Append(s, Figures[(v % 10) + 1])
  OBVIOUS
<1> HIDE DEF first, step, prev, V
<1>6. PICK f \in [Nat -> V] : Recursive(f, first, step, prev)
  BY <1>2, <1>3, <1>4, Recursion, Zenon
<1>7. \A v \in Nat : f[v] = IF v < 10 THEN <<Figures[v + 1]>>
                            ELSE Append(f[v \div 10], Figures[(v % 10) + 1])
  <2> TAKE v \in Nat
  <2>1. f[v] = IF prev[v] < v THEN step[<<v, f[prev[v]]>>] ELSE first[v]
    BY <1>6, Zenon DEF Recursive, RecursAt
  <2>2. CASE v < 10
    <3>1. ~(prev[v] < v)
      BY <1>5, <2>2
    <3> QED
      BY <1>5, <2>1, <2>2, <3>1, Zenon
  <2>3. CASE ~(v < 10)
    <3>1. prev[v] = v \div 10 /\ prev[v] < v /\ prev[v] \in Nat /\ f[prev[v]] \in V
      BY <1>1, <1>5, <2>3
    <3> QED
      BY <1>5, <2>1, <2>3, <3>1, Zenon
  <2> QED
    BY <2>2, <2>3, Zenon
<1>8. Holds(f)
  BY <1>7
<1>9. Holds(digits)
  <2>1. digits = CHOOSE g : Holds(g)
    BY DEF digits
  <2> HIDE DEF Holds
  <2> QED
    BY <1>8, <2>1, Zenon
<1>10. \A v \in Nat : digits[v] = IF v < 10 THEN <<Figures[v + 1]>>
                                  ELSE Append(digits[v \div 10], Figures[(v % 10) + 1])
  BY <1>9, Zenon
<1>11. digits = [v \in Nat |-> digits[v]]
  BY <1>9
<1> HIDE DEF Holds
<1> DEFINE S == {v \in Nat : digits[v] \in V}
<1>12. ASSUME NEW v \in Nat, \A m \in Nat : m < v => m \in S
       PROVE  v \in S
  <2>1. CASE v < 10
    <3>1. digits[v] = <<Figures[v + 1]>> /\ f[v] = <<Figures[v + 1]>>
      BY <1>7, <1>10, <2>1, Zenon
    <3> QED
      BY <3>1
  <2>2. CASE ~(v < 10)
    <3>1. v \div 10 \in Nat /\ v \div 10 < v
      BY <1>1, <2>2
    <3>2. digits[v \div 10] \in V
      BY <1>12, <3>1
    <3>3. digits[v] = Append(digits[v \div 10], Figures[(v % 10) + 1])
      BY <1>10, <2>2, Zenon
    <3>4. digits[v] \in V
      BY <1>1, <3>2, <3>3 DEF V
    <3> QED
      BY <3>4
  <2> QED
    BY <2>1, <2>2
<1>13. \A v \in Nat : v \in S
  <2>1. S \in SUBSET Nat
    OBVIOUS
  <2> HIDE DEF S
  <2> QED
    BY <1>12, <2>1, Induction
<1>14. digits \in [Nat -> V]
  BY <1>11, <1>13
<1> QED
  BY <1>10, <1>14, Zenon DEF V

\* Reading a list of figures goes on as it is written.
LEMMA Readings ==
  ASSUME NEW ds \in Seq(Figure)
  PROVE  /\ Reading(ds) \in [0..Len(ds) -> Nat]
         /\ Reading(ds)[0] = 0
         /\ \A k \in 1..Len(ds) : Reading(ds)[k] = 10 * Reading(ds)[k - 1] + Worth(ds[k])
<1> DEFINE n == Len(ds)
           turn == [x \in (1..n) \X Nat |-> 10 * x[2] + Worth(ds[x[1]])]
           Holds(g) == g = [k \in 0..n |-> IF k = 0 THEN 0
                                           ELSE 10 * g[k - 1] + Worth(ds[k])]
<1>1. n \in Nat /\ \A k \in 1..n : ds[k] \in Figure
  OBVIOUS
<1> HIDE DEF n
<1>2. \A k \in 1..n : Worth(ds[k]) \in Nat
  <2>1. \A d \in Figure : Worth(d) \in Nat
    BY Worths
  <2> QED
    BY <1>1, <2>1, Zenon
<1>3. turn \in [(1..n) \X Nat -> Nat]
  BY <1>2
<1>4. \A k \in 1..n, v \in Nat : turn[<<k, v>>] = 10 * v + Worth(ds[k])
  OBVIOUS
<1> HIDE DEF turn
<1>5. PICK f \in [0..n -> Nat] : Loops(f, n, 0, turn)
  <2>1. 0 \in Nat
    OBVIOUS
  <2> QED
    BY <1>1, <1>3, <2>1, Loop, Zenon
<1>6. /\ f[0] = 0
      /\ \A k \in 1..n : f[k] = 10 * f[k - 1] + Worth(ds[k])
  <2>1. \A k \in 1..n : k - 1 \in 0..n
    BY <1>1
  <2> QED
    BY <1>4, <1>5, <2>1 DEF Loops
<1>7. Holds(f)
  <2>1. \A k \in 0..n : k = 0 \/ k \in 1..n
    BY <1>1
  <2>2. \A k \in 0..n : f[k] = IF k = 0 THEN 0 ELSE 10 * f[k - 1] + Worth(ds[k])
    BY <1>6, <2>1, Zenon
  <2> QED
    BY <2>2
<1>8. Reading(ds) = CHOOSE g : Holds(g)
  BY DEF Reading, n
<1>9. Holds(Reading(ds))
  BY <1>7, <1>8, Zenon
<1>10. ASSUME NEW g, Holds(g)
       PROVE  g = f
  <2> DEFINE S == {k \in 0..n : g[k] = f[k]}
  <2>1. \A k \in 0..n : g[k] = IF k = 0 THEN 0 ELSE 10 * g[k - 1] + Worth(ds[k])
    BY <1>10
  <2>2. g = [k \in 0..n |-> g[k]] /\ f = [k \in 0..n |-> f[k]]
    BY <1>10
  <2> HIDE DEF Holds
  <2>3. 0 \in S
    <3>1. 0 \in 0..n
      BY <1>1
    <3> QED
      BY <1>6, <2>1, <3>1
  <2>4. ASSUME NEW k \in 1..n, k - 1 \in S
        PROVE  k \in S
    <3>1. k \in 0..n /\ k # 0
      BY <1>1
    <3>2. g[k] = 10 * g[k - 1] + Worth(ds[k])
      BY <2>1, <3>1, Zenon
    <3>3. g[k - 1] = f[k - 1]
      BY <2>4
    <3> QED
      BY <1>6, <3>1, <3>2, <3>3
  <2>5. \A k \in 0..n : k \in S
    <3> HIDE DEF S
    <3> QED
      BY <1>1, <2>3, <2>4, Turns, Zenon
  <2> QED
    BY <2>2, <2>5, Zenon
<1>11. Reading(ds) = f
  BY <1>9, <1>10, Zenon
<1> QED
  BY <1>6, <1>11, Zenon DEF n

\* Zeros on the left do not count, and what is read of them is nought.
LEMMA ZerosLeft ==
  ASSUME NEW zeros \in Seq({"0"}), NEW ds \in Seq(Figure)
  PROVE  zeros \o ds \in Seq(Figure) /\ Value(zeros \o ds) = Value(ds)
<1> DEFINE m == Len(zeros)
           n == Len(ds)
           all == zeros \o ds
           a == Reading(all)
           b == Reading(ds)
           Rest(k) == a[k] = IF k <= m THEN 0 ELSE b[k - m]
           S == {k \in 0..(m + n) : Rest(k)}
<1>1. /\ m \in Nat /\ n \in Nat
      /\ all \in Seq(Figure) /\ Len(all) = m + n
      /\ \A k \in 1..m : all[k] = "0"
      /\ \A k \in 1..(m + n) : k > m => all[k] = ds[k - m]
  <2>1. zeros \in Seq(Figure)
    BY DEF Figure
  <2>2. \A k \in 1..m : zeros[k] = "0"
    OBVIOUS
  <2> QED
    BY <2>1, <2>2
<1> HIDE DEF m, n, all
<1>2. /\ a \in [0..(m + n) -> Nat] /\ a[0] = 0
      /\ \A k \in 1..(m + n) : a[k] = 10 * a[k - 1] + Worth(all[k])
  BY <1>1, Readings
<1>3. /\ b \in [0..n -> Nat] /\ b[0] = 0
      /\ \A k \in 1..n : b[k] = 10 * b[k - 1] + Worth(ds[k])
  BY Readings DEF n
<1> HIDE DEF a, b
<1>4. 0 \in S
  BY <1>1, <1>2
<1>5. ASSUME NEW k \in 1..(m + n), k - 1 \in S
      PROVE  k \in S
  <2>1. k \in 0..(m + n) /\ Rest(k - 1)
    BY <1>1, <1>5
  <2>2. a[k] = 10 * a[k - 1] + Worth(all[k])
    BY <1>2
  <2>3. CASE k <= m
    <3>1. all[k] = "0" /\ a[k - 1] = 0
      BY <1>1, <2>1, <2>3
    <3> QED
      BY <2>1, <2>2, <2>3, <3>1, Worths
  <2>4. CASE ~(k <= m)
    <3>1. k - m \in 1..n /\ all[k] = ds[k - m] /\ (k - 1) - m = (k - m) - 1
      BY <1>1, <2>4
    <3>2. b[k - m] = 10 * b[(k - m) - 1] + Worth(ds[k - m])
      BY <1>3, <3>1
    <3>3. a[k - 1] = b[(k - m) - 1]
      <4>1. CASE k - 1 <= m
        <5>1. (k - m) - 1 = 0
          BY <1>1, <2>4, <4>1
        <5> QED
          BY <1>3, <2>1, <4>1, <5>1
      <4>2. CASE ~(k - 1 <= m)
        BY <2>1, <3>1, <4>2
      <4> QED
        BY <4>1, <4>2
    <3>4. a[k] = b[k - m]
      BY <2>2, <3>1, <3>2, <3>3, Zenon
    <3> QED
      BY <2>1, <2>4, <3>4
  <2> QED
    BY <2>3, <2>4
<1>6. \A k \in 0..(m + n) : k \in S
  <2>1. m + n \in Nat
    BY <1>1
  <2> HIDE DEF S
  <2> QED
    BY <1>4, <1>5, <2>1, Turns
<1>7. Rest(m + n)
  BY <1>1, <1>6
<1>8. a[m + n] = b[n]
  BY <1>1, <1>3, <1>7
<1> QED
  BY <1>1, <1>8 DEF Value, a, b, all, n

\* One more figure on the right.
LEMMA FigureRight ==
  ASSUME NEW s \in Seq(Figure), NEW d \in Figure
  PROVE  Append(s, d) \in Seq(Figure) /\ Value(Append(s, d)) = 10 * Value(s) + Worth(d)
<1> DEFINE n == Len(s)
           all == Append(s, d)
           a == Reading(all)
           b == Reading(s)
           S == {k \in 0..n : a[k] = b[k]}
<1>1. /\ n \in Nat /\ all \in Seq(Figure) /\ Len(all) = n + 1 /\ all[n + 1] = d
      /\ \A k \in 1..n : all[k] = s[k]
  OBVIOUS
<1> HIDE DEF n, all
<1>2. /\ a \in [0..(n + 1) -> Nat] /\ a[0] = 0
      /\ \A k \in 1..(n + 1) : a[k] = 10 * a[k - 1] + Worth(all[k])
  BY <1>1, Readings
<1>3. /\ b \in [0..n -> Nat] /\ b[0] = 0
      /\ \A k \in 1..n : b[k] = 10 * b[k - 1] + Worth(s[k])
  BY Readings DEF n
<1> HIDE DEF a, b
<1>4. 0 \in S
  BY <1>1, <1>2, <1>3
<1>5. ASSUME NEW k \in 1..n, k - 1 \in S
      PROVE  k \in S
  <2>1. k \in 0..n /\ k \in 1..(n + 1) /\ a[k - 1] = b[k - 1]
    BY <1>1, <1>5
  <2> QED
    BY <1>1, <1>2, <1>3, <2>1
<1>6. \A k \in 0..n : k \in S
  <2> HIDE DEF S
  <2> QED
    BY <1>1, <1>4, <1>5, Turns
<1>7. a[n] = b[n]
  BY <1>1, <1>6
<1>8. a[n + 1] = 10 * a[n] + Worth(d)
  BY <1>1, <1>2
<1> QED
  BY <1>1, <1>7, <1>8 DEF Value, a, b, all, n

\* A number's digits stand for it.
LEMMA DigitsRead == \A v \in Nat : digits[v] \in Seq(Figure) /\ Value(digits[v]) = v
<1> DEFINE S == {v \in Nat : Value(digits[v]) = v}
<1>1. Value(<<>>) = 0 /\ <<>> \in Seq(Figure)
  <2>1. <<>> \in Seq(Figure) /\ Len(<<>>) = 0
    OBVIOUS
  <2> QED
    BY <2>1, Readings DEF Value
<1>2. ASSUME NEW v \in Nat, \A m \in Nat : m < v => m \in S
      PROVE  v \in S
  <2>1. CASE v < 10
    <3> DEFINE d == Figures[v + 1]
    <3>1. d \in Figure /\ Worth(d) = v
      BY <2>1, Worths
    <3>2. digits[v] = <<d>>
      BY <2>1, Digits, Zenon
    <3> HIDE DEF d
    <3>3. <<d>> = Append(<<>>, d)
      OBVIOUS
    <3>4. Value(<<d>>) = 10 * Value(<<>>) + Worth(d)
      BY <1>1, <3>1, <3>3, FigureRight
    <3> QED
      BY <1>1, <3>1, <3>2, <3>4
  <2>2. CASE ~(v < 10)
    <3> DEFINE t == v \div 10
               r == v % 10
    <3>1. t \in Nat /\ t < v /\ r \in 0..9 /\ v = 10 * t + r
      BY <2>2
    <3>2. digits[v] = Append(digits[t], Figures[r + 1])
      BY <2>2, Digits, Zenon
    <3> HIDE DEF t, r
    <3>3. Figures[r + 1] \in Figure /\ Worth(Figures[r + 1]) = r
      BY <3>1, Worths
    <3>4. digits[t] \in Seq(Figure) /\ Value(digits[t]) = t
      BY <1>2, <3>1, Digits
    <3>5. Value(digits[v]) = 10 * t + r
      BY <3>2, <3>3, <3>4, FigureRight
    <3> QED
      BY <3>1, <3>5
  <2> QED
    BY <2>1, <2>2
<1>3. \A v \in Nat : v \in S
  <2>1. S \in SUBSET Nat
    OBVIOUS
  <2> HIDE DEF S
  <2> QED
    BY <1>2, <2>1, Induction
<1> QED
  BY <1>3, Digits

\* So do its digits padded to a width.
LEMMA PaddedRead ==
  ASSUME NEW v \in Nat, NEW w \in Nat
  PROVE  /\ write_padded_number(v, w) \in Seq(Figure)
         /\ Value(write_padded_number(v, w)) = v
<1> DEFINE ds == digits[v]
           n == Len(ds)
           room == {k \in 1..w : k + n <= w}
           zeros == [i \in room |-> "0"]
           m == IF n <= w THEN w - n ELSE 0
<1>1. ds \in Seq(Figure) /\ Value(ds) = v /\ n \in Nat
  BY DigitsRead
<1>2. write_padded_number(v, w) = zeros \o ds
  BY DEF write_padded_number
<1> HIDE DEF ds, n
<1>3. m \in Nat /\ room = 1..m
  BY <1>1
<1>4. zeros \in Seq({"0"})
  <2> HIDE DEF m, room
  <2>1. zeros \in [1..m -> {"0"}]
    BY <1>3
  <2> QED
    BY <1>3, <2>1
<1> HIDE DEF zeros
<1> QED
  BY <1>1, <1>2, <1>4, ZerosLeft

\* Two lists, one after the other.
LEMMA Joined ==
  ASSUME NEW V, NEW s \in Seq(V), NEW t \in Seq(V)
  PROVE  /\ s \o t \in Seq(V) /\ Len(s \o t) = Len(s) + Len(t)
         /\ \A k \in 1..Len(s) : (s \o t)[k] = s[k]
         /\ \A k \in 1..Len(t) : (s \o t)[k + Len(s)] = t[k]
<1>1. s \o t \in Seq(V) /\ Len(s \o t) = Len(s) + Len(t)
  OBVIOUS
<1>2. \A k \in 1..Len(s) : (s \o t)[k] = s[k]
  OBVIOUS
<1>3. ASSUME NEW k \in 1..Len(t)
      PROVE  (s \o t)[k + Len(s)] = t[k]
  <2>1. k + Len(s) \in 1..(Len(s) + Len(t)) /\ k + Len(s) > Len(s) /\ k + Len(s) - Len(s) = k
    OBVIOUS
  <2> QED
    BY <2>1
<1> QED
  BY <1>1, <1>2, <1>3

\* What was put into an id is read back from it.
LEMMA RoundTrip ==
  ASSUME NEW p, NEW y \in Nat, NEW c \in Nat
  PROVE  ReadBack(generate_token_id(p, y, c)) = [prefix |-> p, year |-> y, n |-> c]
<1> DEFINE Y == write_padded_number(y, 4)
           C == write_padded_number(c, 6)
           a == Len(Y)
           b == Len(C)
           id == generate_token_id(p, y, c)
           dashes == {i \in 1..Len(id) : id[i] = "-"}
           Sign == {p, "-"} \cup Figure
<1>1. /\ Y \in Seq(Figure) /\ Value(Y) = y /\ a \in Nat
      /\ C \in Seq(Figure) /\ Value(C) = c /\ b \in Nat
  <2>1. 4 \in Nat /\ 6 \in Nat
    OBVIOUS
  <2>2. Y \in Seq(Figure) /\ Value(Y) = y /\ C \in Seq(Figure) /\ Value(C) = c
    BY <2>1, PaddedRead
  <2> HIDE DEF Y, C
  <2> QED
    BY <2>2
<1>2. id = <<p, "-">> \o Y \o <<"-">> \o C
  BY DEF generate_token_id
<1> HIDE DEF Y, C, id
<1>3. /\ id \in Seq(Sign) /\ Len(id) = a + b + 3
      /\ id[1] = p /\ id[2] = "-" /\ id[a + 3] = "-"
      /\ \A k \in 1..a : id[k + 2] = Y[k]
      /\ \A k \in 1..b : id[k + (a + 3)] = C[k]
  <2> DEFINE front == <<p, "-">>
             left == front \o Y
             middle == left \o <<"-">>
  <2>1. Y \in Seq(Sign) /\ C \in Seq(Sign) /\ front \in Seq(Sign) /\ <<"-">> \in Seq(Sign)
    BY <1>1
  <2>2. /\ left \in Seq(Sign) /\ Len(left) = a + 2 /\ left[1] = p /\ left[2] = "-"
        /\ \A k \in 1..a : left[k + 2] = Y[k]
    <3> HIDE DEF Sign
    <3>1. Len(front) = 2 /\ front[1] = p /\ front[2] = "-"
      OBVIOUS
    <3> HIDE DEF front
    <3>2. /\ left \in Seq(Sign) /\ Len(left) = Len(front) + Len(Y)
          /\ \A k \in 1..Len(front) : left[k] = front[k]
          /\ \A k \in 1..Len(Y) : left[k + Len(front)] = Y[k]
      BY <2>1, Joined, SMT
    <3> HIDE DEF left
    <3>3. 1 \in 1..2 /\ 2 \in 1..2
      OBVIOUS
    <3> QED
      BY <1>1, <3>1, <3>2, <3>3
  <2> HIDE DEF left, Sign
  <2>3. /\ middle \in Seq(Sign) /\ Len(middle) = a + 3 /\ middle[a + 3] = "-"
        /\ \A k \in 1..(a + 2) : middle[k] = left[k]
    <3>1. Len(<<"-">>) = 1 /\ <<"-">>[1] = "-"
      OBVIOUS
    <3>2. middle[1 + (a + 2)] = <<"-">>[1]
      BY <1>1, <2>1, <2>2, <3>1, Joined
    <3>3. 1 + (a + 2) = a + 3 /\ (a + 2) + 1 = a + 3
      BY <1>1
    <3>4. /\ middle \in Seq(Sign) /\ Len(middle) = (a + 2) + 1
          /\ \A k \in 1..(a + 2) : middle[k] = left[k]
      BY <2>1, <2>2, <3>1, Joined
    <3> QED
      BY <3>1, <3>2, <3>3, <3>4
  <2>4. id = middle \o C
    BY <1>2 DEF left
  <2> HIDE DEF middle
  <2>5. /\ id \in Seq(Sign) /\ Len(id) = a + b + 3
        /\ \A k \in 1..(a + 3) : id[k] = middle[k]
        /\ \A k \in 1..b : id[k + (a + 3)] = C[k]
    <3>1. middle \in Seq(Sign) /\ C \in Seq(Sign)
      BY <2>1, <2>3
    <3>2. /\ id \in Seq(Sign) /\ Len(id) = Len(middle) + Len(C)
          /\ \A k \in 1..Len(middle) : id[k] = middle[k]
          /\ \A k \in 1..Len(C) : id[k + Len(middle)] = C[k]
      BY <2>4, <3>1, Joined, SMT
    <3> QED
      BY <1>1, <2>3, <3>2
  <2>6. 1 \in 1..(a + 2) /\ 2 \in 1..(a + 2) /\ a + 3 \in 1..(a + 3)
        /\ 1 \in 1..(a + 3) /\ 2 \in 1..(a + 3)
    BY <1>1
  <2>7. \A k \in 1..a : id[k + 2] = Y[k]
    BY <1>1, <2>2, <2>3, <2>5
  <2> QED
    BY <2>2, <2>3, <2>5, <2>6, <2>7
<1>4. LastDash(id) = a + 3
  <2>1. a + 3 \in dashes
    BY <1>1, <1>3
  <2>2. ASSUME NEW i \in dashes
        PROVE  i <= a + 3
    <3> SUFFICES ASSUME i > a + 3 PROVE FALSE
      BY <1>1
    <3>1. i - (a + 3) \in 1..b /\ i = (i - (a + 3)) + (a + 3)
      BY <1>1, <1>3
    <3>2. id[i] = C[i - (a + 3)]
      BY <1>3, <3>1
    <3>3. C[i - (a + 3)] \in Figure
      BY <1>1, <3>1
    <3> QED
      BY <3>2, <3>3, FiguresDiffer
  <2>3. LastDash(id) = IF dashes # {} THEN Max(dashes) ELSE 0
    BY DEF LastDash, SelectLastInSeq
  <2>4. Max(dashes) = CHOOSE x \in dashes : \A z \in dashes : x >= z
    BY DEF Max
  <2>5. dashes \subseteq Nat
    OBVIOUS
  <2> HIDE DEF dashes
  <2>6. Max(dashes) \in dashes /\ \A z \in dashes : Max(dashes) >= z
    BY <1>1, <2>1, <2>2, <2>4, <2>5
  <2>7. LastDash(id) = Max(dashes)
    BY <2>1, <2>3
  <2>8. Max(dashes) \in Nat /\ Max(dashes) <= a + 3 /\ Max(dashes) >= a + 3
    BY <2>1, <2>2, <2>5, <2>6
  <2> QED
    BY <1>1, <2>7, <2>8
<1> HIDE DEF a, b, Sign
<1>5. SubSeq(id, 3, a + 2) = Y
  <2> DEFINE part == SubSeq(id, 3, a + 2)
  <2>1. Len(Y) = a /\ Len(part) = a /\ part \in Seq(Sign) /\ Y \in Seq(Figure)
    BY <1>1, <1>3 DEF a
  <2>2. \A k \in 1..a : part[k] = id[k + 2]
    BY <1>1, <1>3
  <2>3. \A k \in 1..a : part[k] = Y[k]
    BY <1>3, <2>2
  <2> HIDE DEF part
  <2>4. part = Y
    BY <2>1, <2>3
  <2> QED
    BY <2>4 DEF part
<1>6. SubSeq(id, a + 4, Len(id)) = C
  <2> DEFINE part == SubSeq(id, a + 4, Len(id))
  <2>1. Len(C) = b /\ Len(part) = b /\ part \in Seq(Sign) /\ C \in Seq(Figure)
    BY <1>1, <1>3 DEF b
  <2>2. \A k \in 1..b : part[k] = id[k + (a + 3)]
    BY <1>1, <1>3
  <2>3. \A k \in 1..b : part[k] = C[k]
    BY <1>3, <2>2
  <2> HIDE DEF part
  <2>4. part = C
    BY <2>1, <2>3
  <2> QED
    BY <2>4 DEF part
<1>7. LastDash(id) - 1 = a + 2 /\ LastDash(id) + 1 = a + 4
  BY <1>1, <1>4 DEF a
<1>8. ReadBack(id) = [prefix |-> id[1], year |-> Value(SubSeq(id, 3, a + 2)),
                      n |-> Value(SubSeq(id, a + 4, Len(id)))]
  BY <1>7, Zenon DEF ReadBack
<1>9. id[1] = p /\ Value(Y) = y /\ Value(C) = c
  BY <1>1, <1>3
<1> QED
  BY <1>5, <1>6, <1>8, <1>9 DEF id

(***************************************************************************)
(* Two ids are the same only when their prefix, year and number are,       *)
(* whatever these are: so the contracts never write two receipts under one *)
(* key, and the receipt modules may keep an id as the record of the two.   *)
(* (generate_token_id and write_padded_number.)                            *)
(***************************************************************************)
THEOREM IdsDiffer ==
  ASSUME NEW p, NEW q, NEW y \in Nat, NEW z \in Nat, NEW c \in Nat, NEW d \in Nat,
         generate_token_id(p, y, c) = generate_token_id(q, z, d)
  PROVE  p = q /\ y = z /\ c = d
<1>1. [prefix |-> p, year |-> y, n |-> c] = [prefix |-> q, year |-> z, n |-> d]
  <2>1. /\ ReadBack(generate_token_id(p, y, c)) = [prefix |-> p, year |-> y, n |-> c]
        /\ ReadBack(generate_token_id(q, z, d)) = [prefix |-> q, year |-> z, n |-> d]
    BY RoundTrip
  <2> QED
    BY <2>1, Zenon
<1> QED
  BY <1>1

----------------------------------------------------------------------------
(* The calendar *)

\* Whole quotients.
LEMMA Quotients ==
  ASSUME NEW x \in Int
  PROVE  /\ x \div 4 \in Int /\ 4 * (x \div 4) <= x /\ x < 4 * (x \div 4) + 4
         /\ x \div 100 \in Int /\ 100 * (x \div 100) <= x /\ x < 100 * (x \div 100) + 100
         /\ x \div 153 \in Int /\ 153 * (x \div 153) <= x /\ x < 153 * (x \div 153) + 153
         /\ x \div 400 \in Int /\ 400 * (x \div 400) <= x /\ x < 400 * (x \div 400) + 400
         /\ x \div 365 \in Int /\ 365 * (x \div 365) <= x /\ x < 365 * (x \div 365) + 365
         /\ x \div 1460 \in Int /\ 1460 * (x \div 1460) <= x
         /\ x < 1460 * (x \div 1460) + 1460
         /\ x \div 36524 \in Int /\ 36524 * (x \div 36524) <= x
         /\ x < 36524 * (x \div 36524) + 36524
         /\ x \div 146096 \in Int /\ 146096 * (x \div 146096) <= x
         /\ x < 146096 * (x \div 146096) + 146096
         /\ x \div 146097 \in Int /\ 146097 * (x \div 146097) <= x
         /\ x < 146097 * (x \div 146097) + 146097
         /\ x \div 86400 \in Int /\ 86400 * (x \div 86400) <= x
         /\ x < 86400 * (x \div 86400) + 86400
BY SMT

\* The arithmetic of one era, its quotients named.
LEMMA EraArithmetic ==
  ASSUME NEW d \in Int, 0 <= d, d <= 146096,
         NEW p \in Int, 1460 * p <= d, d < 1460 * p + 1460,
         NEW c \in Int, 36524 * c <= d, d < 36524 * c + 36524,
         NEW l \in Int, 146096 * l <= d, d < 146096 * l + 146096,
         NEW y \in Int, 365 * y <= d - p + c - l, d - p + c - l < 365 * y + 365,
         NEW q \in Int, 4 * q <= y, y < 4 * q + 4,
         NEW h \in Int, 100 * h <= y, y < 100 * h + 100
  PROVE  /\ 0 <= y /\ y <= 399
         /\ 0 <= d - (365 * y + q - h) /\ d - (365 * y + q - h) <= 365
  BY SMTT(60)

\* A later day of an era is in a year that is not earlier; its quotients named.
LEMMA EraOrdered ==
  ASSUME NEW d \in Int, 0 <= d, d <= 146096,
         NEW p \in Int, 1460 * p <= d, d < 1460 * p + 1460,
         NEW c \in Int, 36524 * c <= d, d < 36524 * c + 36524,
         NEW l \in Int, 146096 * l <= d, d < 146096 * l + 146096,
         NEW y \in Int, 365 * y <= d - p + c - l, d - p + c - l < 365 * y + 365,
         NEW e \in Int, d <= e, e <= 146096,
         NEW p2 \in Int, 1460 * p2 <= e, e < 1460 * p2 + 1460,
         NEW c2 \in Int, 36524 * c2 <= e, e < 36524 * c2 + 36524,
         NEW l2 \in Int, 146096 * l2 <= e, e < 146096 * l2 + 146096,
         NEW y2 \in Int, 365 * y2 <= e - p2 + c2 - l2, e - p2 + c2 - l2 < 365 * y2 + 365
  PROVE  y <= y2
  BY SMTT(60)

\* The parts of year_of_day: of a day the 400-year era and the day of the era,
\* of that the year of the era, the day of the year and the month.
DayOfEra == {d \in Int : 0 <= d /\ d <= 146096}

EraOf(days) == (days + 719468) \div 146097

DayOf(days) == (days + 719468) - EraOf(days) * 146097

YearOfEra(doe) == (doe - doe \div 1460 + doe \div 36524 - doe \div 146096) \div 365

DayOfYear(doe) ==
  doe - (365 * YearOfEra(doe) + YearOfEra(doe) \div 4 - YearOfEra(doe) \div 100)

Month(doe) == LET mp == (5 * DayOfYear(doe) + 2) \div 153
              IN  IF mp < 10 THEN mp + 3 ELSE mp - 9

YearOf(era, doe) ==
  IF Month(doe) <= 2 THEN YearOfEra(doe) + era * 400 + 1 ELSE YearOfEra(doe) + era * 400

\* The days of an era are the numbers up to 146096.
LEMMA DayIsNumber ==
  ASSUME NEW d \in Int
  PROVE  d \in DayOfEra <=> 0 <= d /\ d <= 146096
  BY SMT DEF DayOfEra

\* The code's year of a day is put together from these parts.
LEMMA Parts ==
  ASSUME NEW days \in Nat
  PROVE  /\ EraOf(days) \in Nat /\ DayOf(days) \in DayOfEra
         /\ year_of_day(days) = YearOf(EraOf(days), DayOf(days))
<1> DEFINE z == days + 719468
           era == z \div 146097
<1>1. z \in Int /\ z >= 0
  BY SMT
<1>2. era \in Int /\ 146097 * era <= z /\ z < 146097 * era + 146097
  BY <1>1, Quotients, SMT
<1>3. (IF z >= 0 THEN z ELSE z - 146096) = z
  BY <1>1, SMT
<1>4. EraOf(days) = era /\ DayOf(days) = z - era * 146097
  BY DEF EraOf, DayOf
<1> HIDE DEF era
<1>5. era \in Nat /\ z - era * 146097 \in DayOfEra
  <2> DEFINE d == z - era * 146097
  <2>1. era \in Nat /\ d \in Int /\ 0 <= d /\ d <= 146096
    BY <1>1, <1>2, SMT
  <2> HIDE DEF d
  <2>2. d \in DayOfEra
    BY <2>1, DayIsNumber, SMT
  <2> QED
    BY <2>1, <2>2 DEF d
<1>6. year_of_day(days) = YearOf(EraOf(days), DayOf(days))
  <2> HIDE DEF z
  <2> DEFINE zz == IF z >= 0 THEN z ELSE z - 146096
  <2>1. year_of_day(days) = YearOf(zz \div 146097, z - (zz \div 146097) * 146097)
    BY SMT DEF year_of_day, YearOf, Month, DayOfYear, YearOfEra, z
  <2> QED
    BY <1>3, <1>4, <2>1, SMT DEF era
<1> QED
  BY <1>4, <1>5, <1>6, SMT

\* An era has years 0 to 399, and a year days 0 to 365.
LEMMA EraBounds ==
  ASSUME NEW d \in DayOfEra
  PROVE  /\ YearOfEra(d) \in Int /\ 0 <= YearOfEra(d) /\ YearOfEra(d) <= 399
         /\ DayOfYear(d) \in Int /\ 0 <= DayOfYear(d) /\ DayOfYear(d) <= 365
<1> DEFINE p == d \div 1460
           c == d \div 36524
           l == d \div 146096
           n == d - p + c - l
           y == n \div 365
           q == y \div 4
           h == y \div 100
<1>1. d \in Int /\ 0 <= d /\ d <= 146096
  BY SMT DEF DayOfEra
<1>2. /\ p \in Int /\ 1460 * p <= d /\ d < 1460 * p + 1460
      /\ c \in Int /\ 36524 * c <= d /\ d < 36524 * c + 36524
      /\ l \in Int /\ 146096 * l <= d /\ d < 146096 * l + 146096
  BY <1>1, Quotients, SMT
<1>3. YearOfEra(d) = y /\ DayOfYear(d) = d - (365 * y + q - h)
  BY DEF YearOfEra, DayOfYear
<1> HIDE DEF p, c, l
<1>4. n \in Int
  BY <1>1, <1>2, SMT
<1> HIDE DEF n
<1>5. y \in Int /\ 365 * y <= n /\ n < 365 * y + 365
  BY <1>4, Quotients, SMT
<1> HIDE DEF y
<1>6. /\ q \in Int /\ 4 * q <= y /\ y < 4 * q + 4
      /\ h \in Int /\ 100 * h <= y /\ y < 100 * h + 100
  BY <1>5, Quotients, SMT
<1> HIDE DEF q, h
<1>7. /\ 0 <= y /\ y <= 399
      /\ 0 <= d - (365 * y + q - h) /\ d - (365 * y + q - h) <= 365
  BY <1>1, <1>2, <1>5, <1>6, EraArithmetic, SMT DEF n
<1> QED
  BY <1>1, <1>3, <1>5, <1>6, <1>7, SMT

\* Within an era the year does not fall from a day to a later one.
LEMMA YearOfEraGrows ==
  ASSUME NEW d \in DayOfEra, NEW e \in DayOfEra, d <= e
  PROVE  YearOfEra(d) <= YearOfEra(e)
<1> DEFINE p == d \div 1460
           c == d \div 36524
           l == d \div 146096
           n == d - p + c - l
           y == n \div 365
           p2 == e \div 1460
           c2 == e \div 36524
           l2 == e \div 146096
           n2 == e - p2 + c2 - l2
           y2 == n2 \div 365
<1>1. d \in Int /\ 0 <= d /\ d <= 146096 /\ e \in Int /\ e <= 146096
  <2>1. d \in Int /\ e \in Int
    BY SMT DEF DayOfEra
  <2> QED
    BY <2>1, DayIsNumber, SMT
<1>2. /\ p \in Int /\ 1460 * p <= d /\ d < 1460 * p + 1460
      /\ c \in Int /\ 36524 * c <= d /\ d < 36524 * c + 36524
      /\ l \in Int /\ 146096 * l <= d /\ d < 146096 * l + 146096
  BY <1>1, Quotients, SMT
<1>3. /\ p2 \in Int /\ 1460 * p2 <= e /\ e < 1460 * p2 + 1460
      /\ c2 \in Int /\ 36524 * c2 <= e /\ e < 36524 * c2 + 36524
      /\ l2 \in Int /\ 146096 * l2 <= e /\ e < 146096 * l2 + 146096
  BY <1>1, Quotients, SMT
<1>4. YearOfEra(d) = y /\ YearOfEra(e) = y2
  BY DEF YearOfEra
<1> HIDE DEF p, c, l, p2, c2, l2
<1>5. n \in Int /\ n2 \in Int
  BY <1>1, <1>2, <1>3, SMT
<1> HIDE DEF n, n2
<1>6. /\ y \in Int /\ 365 * y <= n /\ n < 365 * y + 365
      /\ y2 \in Int /\ 365 * y2 <= n2 /\ n2 < 365 * y2 + 365
  BY <1>5, Quotients, SMT
<1> HIDE DEF y, y2
<1>7. y <= y2
  BY <1>1, <1>2, <1>3, <1>6, EraOrdered, SMT DEF n, n2
<1> QED
  BY <1>4, <1>7

\* January and February are the days from 306 on of a year that begins in March.
LEMMA MonthIs ==
  ASSUME NEW d \in DayOfEra
  PROVE  Month(d) <= 2 <=> DayOfYear(d) >= 306
<1> DEFINE doy == DayOfYear(d)
           k == 5 * doy + 2
           mp == k \div 153
<1>1. doy \in Int /\ 0 <= doy /\ doy <= 365
  BY EraBounds, ZenonT(60)
<1>2. Month(d) = IF mp < 10 THEN mp + 3 ELSE mp - 9
  BY DEF Month
<1> HIDE DEF doy
<1>3. k \in Int
  BY <1>1, SMT
<1> HIDE DEF k
<1>4. mp \in Int /\ 153 * mp <= k /\ k < 153 * mp + 153
  BY <1>3, Quotients, SMT
<1> HIDE DEF mp
<1> QED
  BY <1>1, <1>2, <1>4, SMT DEF doy, k

\* Nor does the civil year, which January and February count one more.
LEMMA YearOfGrows ==
  ASSUME NEW era \in Nat, NEW d \in DayOfEra, NEW e \in DayOfEra, d <= e
  PROVE  YearOf(era, d) <= YearOf(era, e)
<1> DEFINE y == YearOfEra(d)
           y2 == YearOfEra(e)
           k == 365 * y + y \div 4 - y \div 100
           doy == DayOfYear(d)
           doy2 == DayOfYear(e)
           late == Month(d) <= 2
           late2 == Month(e) <= 2
<1>1. /\ y \in Int /\ y2 \in Int /\ y <= y2
      /\ doy \in Int /\ doy2 \in Int /\ (late <=> doy >= 306) /\ (late2 <=> doy2 >= 306)
  BY EraBounds, YearOfEraGrows, MonthIs, ZenonT(60)
<1>2. /\ YearOf(era, d) = IF late THEN y + era * 400 + 1 ELSE y + era * 400
      /\ YearOf(era, e) = IF late2 THEN y2 + era * 400 + 1 ELSE y2 + era * 400
  BY DEF YearOf
<1>3. doy = d - k /\ (y = y2 => doy2 = e - k)
  BY Zenon DEF DayOfYear
<1>4. d \in Int /\ e \in Int
  BY SMT DEF DayOfEra
<1> HIDE DEF y, y2, doy, doy2, late, late2
<1>5. k \in Int
  BY <1>1, Quotients, SMT
<1> HIDE DEF k
<1>6. y = y2 => doy <= doy2
  BY <1>1, <1>3, <1>4, <1>5, SMT
<1> QED
  BY <1>1, <1>2, <1>6, SMT

\* The civil years of an era lie in its 400 years or are the next one.
LEMMA YearOfBounds ==
  ASSUME NEW era \in Nat, NEW d \in DayOfEra
  PROVE  /\ YearOf(era, d) \in Nat
         /\ 400 * era <= YearOf(era, d) /\ YearOf(era, d) <= 400 * era + 400
<1> DEFINE y == YearOfEra(d)
<1>1. y \in Int /\ 0 <= y /\ y <= 399
  BY EraBounds, Zenon
<1>2. YearOf(era, d) = y + era * 400 + 1 \/ YearOf(era, d) = y + era * 400
  BY DEF YearOf
<1> HIDE DEF y
<1> QED
  BY <1>1, <1>2, SMT

\* Years do not run backwards: a receipt minted later never has an id of an
\* earlier year.  (year_from_timestamp)
LEMMA YearMonotone ==
  ASSUME NEW s \in Nat, NEW t \in Nat, s <= t
  PROVE  /\ year_from_timestamp(s) \in Nat
         /\ year_from_timestamp(s) <= year_from_timestamp(t)
<1> DEFINE a == s \div SecondsPerDay
           b == t \div SecondsPerDay
           era == EraOf(a)
           era2 == EraOf(b)
           d == DayOf(a)
           e == DayOf(b)
           q == (a + 719468) \div 146097
           q2 == (b + 719468) \div 146097
<1>1. a \in Nat /\ b \in Nat /\ a <= b
  <2>1. a = s \div 86400 /\ b = t \div 86400
    BY DEF SecondsPerDay
  <2>2. /\ a \in Int /\ 86400 * a <= s /\ s < 86400 * a + 86400
        /\ b \in Int /\ 86400 * b <= t /\ t < 86400 * b + 86400
    BY <2>1, Quotients, SMT
  <2> HIDE DEF a, b
  <2> QED
    BY <2>2, SMT
<1>2. /\ era \in Nat /\ d \in DayOfEra /\ year_from_timestamp(s) = YearOf(era, d)
      /\ era2 \in Nat /\ e \in DayOfEra /\ year_from_timestamp(t) = YearOf(era2, e)
  BY <1>1, Parts, Zenon DEF year_from_timestamp
<1> HIDE DEF a, b
<1>3. d = a + 719468 - era * 146097 /\ e = b + 719468 - era2 * 146097
  BY <1>1, <1>2, SMT DEF DayOf
<1> HIDE DEF d, e, era, era2
<1>4. d \in Int /\ e \in Int /\ 0 <= d /\ 0 <= e /\ d <= 146096 /\ e <= 146096
  BY <1>2, SMT DEF DayOfEra
<1>5. era < era2 \/ (era = era2 /\ d <= e)
  BY <1>1, <1>2, <1>3, <1>4, SMT
<1>6. CASE era < era2
  <2> DEFINE y == YearOf(era, d)
             y2 == YearOf(era2, e)
  <2>1. y \in Nat /\ y <= 400 * era + 400
    BY <1>2, YearOfBounds
  <2>2. y2 \in Nat /\ 400 * era2 <= y2
    BY <1>2, YearOfBounds
  <2> HIDE DEF y, y2
  <2>3. y \in Nat /\ y <= y2
    BY <1>2, <1>6, <2>1, <2>2, SMT
  <2> QED
    BY <1>2, <2>3 DEF y, y2
<1>7. CASE era = era2 /\ d <= e
  <2>1. YearOf(era, d) \in Nat /\ YearOf(era, d) <= YearOf(era, e)
    BY <1>2, <1>7, YearOfGrows, YearOfBounds, ZenonT(60)
  <2>2. YearOf(era2, e) = YearOf(era, e)
    BY <1>7
  <2> QED
    BY <1>2, <2>1, <2>2, Zenon
<1> QED
  BY <1>5, <1>6, <1>7

----------------------------------------------------------------------------
(* The Gregorian calendar *)

\* The days of a March-based year before each month, January first.
MonthFirst == <<306, 337, 0, 31, 61, 92, 122, 153, 184, 214, 245, 275>>

\* The days from the 1st of March of year 0 to the 1st of March of year y.
MarchFirst(y) == 365 * y + y \div 4 - y \div 100 + y \div 400

\* The March-based year that a date falls in, and its day there.
MarchYear(x) == IF x.m <= 2 THEN x.y - 1 ELSE x.y

DayOfMarchYear(x) == MonthFirst[x.m] + x.d - 1

\* The day since 1970-01-01 that day doy of March-based year y is.
SinceEpoch(y, doy) == MarchFirst(y) + doy - 719468

DayNumber(x) == SinceEpoch(MarchYear(x), DayOfMarchYear(x))

Dates == {x \in [y : Nat, m : 1..12, d : Nat] :
            x.y >= 1970 /\ x.d >= 1 /\ x.d <= DaysIn(x.y, x.m)}

\* The inductive invariant: the wall shows a date there is, the one whose number
\* the day is, and receipts are counted.  The year alone would not be inductive:
\* whether tomorrow is in the next year depends on the month, the day and every
\* leap year before.
IInv == date \in Dates /\ day = DayNumber(date) /\ counter \in Nat

\* A leap year, said with whole quotients.
LEMMA Leap ==
  ASSUME NEW y \in Int
  PROVE  IsLeap(y) <=> /\ 4 * (y \div 4) = y
                       /\ 100 * (y \div 100) # y \/ 400 * (y \div 400) = y
  BY SMT DEF IsLeap

\* How long a March-based year is; its quotients named.
LEMMA LeapArithmetic ==
  ASSUME NEW y \in Int,
         NEW q \in Int, 4 * q <= y, y < 4 * q + 4,
         NEW h \in Int, 100 * h <= y, y < 100 * h + 100,
         NEW k \in Int, 400 * k <= y, y < 400 * k + 400,
         NEW q2 \in Int, 4 * q2 <= y - 1, y - 1 < 4 * q2 + 4,
         NEW h2 \in Int, 100 * h2 <= y - 1, y - 1 < 100 * h2 + 100,
         NEW k2 \in Int, 400 * k2 <= y - 1, y - 1 < 400 * k2 + 400
  PROVE  IF 4 * q = y /\ (100 * h # y \/ 400 * k = y)
         THEN 365 * y + q - h + k = 365 * (y - 1) + q2 - h2 + k2 + 366
         ELSE 365 * y + q - h + k = 365 * (y - 1) + q2 - h2 + k2 + 365
  BY SMTT(60)

\* The day of an era that begins year u finds u again; its quotients named.
LEMMA CivilArithmetic ==
  ASSUME NEW u \in Int, 0 <= u, u <= 399,
         NEW q \in Int, 4 * q <= u, u < 4 * q + 4,
         NEW h \in Int, 100 * h <= u, u < 100 * h + 100,
         NEW q2 \in Int, 4 * q2 <= u + 1, u + 1 < 4 * q2 + 4,
         NEW h2 \in Int, 100 * h2 <= u + 1, u + 1 < 100 * h2 + 100,
         NEW doy \in Int, 0 <= doy, doy <= 365,
         doy = 365 => 4 * q2 = u + 1 /\ (100 * h2 # u + 1 \/ u = 399),
         NEW d \in Int, d = 365 * u + q - h + doy,
         NEW p \in Int, 1460 * p <= d, d < 1460 * p + 1460,
         NEW c \in Int, 36524 * c <= d, d < 36524 * c + 36524,
         NEW l \in Int, 146096 * l <= d, d < 146096 * l + 146096
  PROVE  /\ 0 <= d /\ d <= 146096
         /\ 365 * u <= d - p + c - l /\ d - p + c - l < 365 * u + 365
  BY SMTT(60)

\* A day of a March-based year is decomposed into that year and that day.
LEMMA OfMarchYear ==
  ASSUME NEW y \in Nat, NEW doy \in Int, 0 <= doy, doy <= 365,
         doy = 365 => IsLeap(y + 1),
         NEW days \in Nat, days = SinceEpoch(y, doy)
  PROVE  year_of_day(days) = IF doy >= 306 THEN y + 1 ELSE y
<1> DEFINE era == y \div 400
           u == y - 400 * era
           yq == y \div 4
           yh == y \div 100
           q == yq - 100 * era
           h == yh - 4 * era
           q2 == (u + 1) \div 4
           h2 == (u + 1) \div 100
           yq2 == (y + 1) \div 4
           yh2 == (y + 1) \div 100
           yk2 == (y + 1) \div 400
           d == 365 * u + q - h + doy
           p == d \div 1460
           c == d \div 36524
           l == d \div 146096
           n == d - p + c - l
<1>1. /\ era \in Int /\ 400 * era <= y /\ y < 400 * era + 400
      /\ yq \in Int /\ 4 * yq <= y /\ y < 4 * yq + 4
      /\ yh \in Int /\ 100 * yh <= y /\ y < 100 * yh + 100
  BY Quotients, SMT
<1>2. /\ yq2 \in Int /\ 4 * yq2 <= y + 1 /\ y + 1 < 4 * yq2 + 4
      /\ yh2 \in Int /\ 100 * yh2 <= y + 1 /\ y + 1 < 100 * yh2 + 100
      /\ yk2 \in Int /\ 400 * yk2 <= y + 1 /\ y + 1 < 400 * yk2 + 400
  BY Quotients, SMT
<1>3. doy = 365 => 4 * yq2 = y + 1 /\ (100 * yh2 # y + 1 \/ 400 * yk2 = y + 1)
  BY Leap, SMT
<1>4. MarchFirst(y) = 365 * y + yq - yh + era
  BY DEF MarchFirst
<1> HIDE DEF era, yq, yh, yq2, yh2, yk2
<1>5. u \in Int /\ q \in Int /\ h \in Int /\ u + 1 \in Int
  BY <1>1, SMT
<1>6. /\ q2 \in Int /\ 4 * q2 <= u + 1 /\ u + 1 < 4 * q2 + 4
      /\ h2 \in Int /\ 100 * h2 <= u + 1 /\ u + 1 < 100 * h2 + 100
  <2> HIDE DEF u
  <2> QED
    BY <1>5, Quotients, SMT
<1> HIDE DEF q2, h2
<1>7. /\ 0 <= u /\ u <= 399 /\ 4 * q <= u /\ u < 4 * q + 4
      /\ 100 * h <= u /\ u < 100 * h + 100
  BY <1>1, SMT
<1>8. doy = 365 => 4 * q2 = u + 1 /\ (100 * h2 # u + 1 \/ u = 399)
  BY <1>1, <1>2, <1>3, <1>6, <1>7, SMT
<1>9. era \in Nat /\ days + 719468 = 146097 * era + d
  BY <1>1, <1>4, SMT DEF SinceEpoch
<1> HIDE DEF u, q, h
<1>10. d \in Int
  BY <1>5, SMT
<1>11. /\ p \in Int /\ 1460 * p <= d /\ d < 1460 * p + 1460
       /\ c \in Int /\ 36524 * c <= d /\ d < 36524 * c + 36524
       /\ l \in Int /\ 146096 * l <= d /\ d < 146096 * l + 146096
  <2> HIDE DEF d
  <2> QED
    BY <1>10, Quotients, SMT
<1>12. YearOfEra(d) = n \div 365
  BY DEF YearOfEra
<1> HIDE DEF p, c, l
<1>13. 0 <= d /\ d <= 146096 /\ 365 * u <= n /\ n < 365 * u + 365
  <2>1. d = 365 * u + q - h + doy
    BY Zenon
  <2> HIDE DEF d
  <2> QED
    BY <1>5, <1>6, <1>7, <1>8, <1>10, <1>11, <2>1, CivilArithmetic, SMTT(60)
<1>14. d \in DayOfEra
  BY <1>10, <1>13, SMT DEF DayOfEra
<1>15. EraOf(days) = era /\ DayOf(days) = d
  <2> HIDE DEF d
  <2> DEFINE z == days + 719468
             e == z \div 146097
  <2>1. z \in Int /\ z = 146097 * era + d
    BY <1>9, SMT
  <2>2. EraOf(days) = e /\ DayOf(days) = z - e * 146097
    BY DEF EraOf, DayOf
  <2> HIDE DEF z
  <2>3. e \in Int /\ 146097 * e <= z /\ z < 146097 * e + 146097
    BY <2>1, Quotients, SMT
  <2> HIDE DEF e
  <2>4. e = era
    BY <1>9, <1>10, <1>13, <2>1, <2>3, SMT
  <2> QED
    BY <1>9, <1>10, <2>1, <2>2, <2>4, SMT
<1>16. YearOfEra(d) = u
  <2> DEFINE v == n \div 365
  <2>1. n \in Int
    BY <1>10, <1>11, SMT
  <2> HIDE DEF n
  <2>2. v \in Int /\ 365 * v <= n /\ n < 365 * v + 365
    BY <2>1, Quotients, SMT
  <2> HIDE DEF v
  <2>3. v = u
    BY <1>5, <1>13, <2>1, <2>2, SMT
  <2> QED
    BY <1>12, <2>3 DEF v
<1>17. DayOfYear(d) = doy
  <2> DEFINE a == u \div 4
             b == u \div 100
  <2>1. /\ a \in Int /\ 4 * a <= u /\ u < 4 * a + 4
        /\ b \in Int /\ 100 * b <= u /\ u < 100 * b + 100
    BY <1>5, Quotients, SMT
  <2>2. DayOfYear(d) = d - (365 * u + a - b)
    BY <1>16, ZenonT(60) DEF DayOfYear
  <2> HIDE DEF a, b
  <2>3. a = q /\ b = h
    BY <1>5, <1>7, <2>1, SMT
  <2> QED
    BY <1>5, <2>2, <2>3, SMT
<1>18. y = 400 * era + u
  BY <1>1, SMT DEF u
<1>19. year_of_day(days) = YearOf(era, d)
  BY <1>15, Parts, Zenon
<1>20. YearOf(era, d) = IF doy >= 306 THEN u + era * 400 + 1 ELSE u + era * 400
  BY <1>14, <1>16, <1>17, MonthIs, ZenonT(60) DEF YearOf
<1> QED
  BY <1>5, <1>9, <1>18, <1>19, <1>20, SMT

\* The table of the days of a March-based year before a month.
LEMMA DaysBefore ==
  /\ MonthFirst[1] = 306 /\ MonthFirst[2] = 337 /\ MonthFirst[3] = 0 /\ MonthFirst[12] = 275
  /\ \A m \in 1..12 : /\ MonthFirst[m] \in Int
                      /\ m <= 2 => MonthFirst[m] >= 306
                      /\ m >= 3 => MonthFirst[m] >= 0 /\ MonthFirst[m] + 31 <= 306
<1>1. \A m \in 1..12 : m = 1 \/ m = 2 \/ m = 3 \/ m = 4 \/ m = 5 \/ m = 6 \/ m = 7
                         \/ m = 8 \/ m = 9 \/ m = 10 \/ m = 11 \/ m = 12
  BY SMT
<1>2. /\ MonthFirst[1] = 306 /\ MonthFirst[2] = 337 /\ MonthFirst[3] = 0
      /\ MonthFirst[4] = 31 /\ MonthFirst[5] = 61 /\ MonthFirst[6] = 92
      /\ MonthFirst[7] = 122 /\ MonthFirst[8] = 153 /\ MonthFirst[9] = 184
      /\ MonthFirst[10] = 214 /\ MonthFirst[11] = 245 /\ MonthFirst[12] = 275
  BY SMT DEF MonthFirst
<1> QED
  BY <1>1, <1>2, SMT

\* The months but February have the days the table gives them, whatever the year.
LEMMA DaysWithin ==
  ASSUME NEW y, NEW m \in 1..12
  PROVE  /\ DaysIn(y, m) \in Nat /\ DaysIn(y, m) >= 28 /\ DaysIn(y, m) <= 31
         /\ m = 2 => DaysIn(y, m) <= 29
         /\ m = 1 \/ m = 12 => DaysIn(y, m) = 31
         /\ m < 12 /\ m # 2 => MonthFirst[m + 1] = MonthFirst[m] + DaysIn(y, m)
<1> DEFINE leap == IsLeap(y)
           n == DaysIn(y, m)
<1>1. n = IF m = 2 THEN IF leap THEN 29 ELSE 28
          ELSE IF m \in {4, 6, 9, 11} THEN 30 ELSE 31
  BY DEF DaysIn
<1>2. m = 1 \/ m = 2 \/ m = 3 \/ m = 4 \/ m = 5 \/ m = 6 \/ m = 7
      \/ m = 8 \/ m = 9 \/ m = 10 \/ m = 11 \/ m = 12
  BY SMT
<1>3. /\ MonthFirst[1] = 306 /\ MonthFirst[2] = 337 /\ MonthFirst[3] = 0
      /\ MonthFirst[4] = 31 /\ MonthFirst[5] = 61 /\ MonthFirst[6] = 92
      /\ MonthFirst[7] = 122 /\ MonthFirst[8] = 153 /\ MonthFirst[9] = 184
      /\ MonthFirst[10] = 214 /\ MonthFirst[11] = 245 /\ MonthFirst[12] = 275
  BY SMT DEF MonthFirst
<1> HIDE DEF leap, n
<1>4. /\ n \in Nat /\ n >= 28 /\ n <= 31
      /\ m = 2 => n <= 29
      /\ m = 1 \/ m = 12 => n = 31
  BY <1>1, SMT
<1>5. m < 12 /\ m # 2 => MonthFirst[m + 1] = MonthFirst[m] + n
  BY <1>1, <1>2, <1>3, SMT
<1> QED
  BY <1>4, <1>5 DEF n

\* The 1st of January 1970 is day 0, and no later March begins before day -306.
LEMMA Epoch ==
  /\ MarchFirst(1969) + 306 = 719468
  /\ \A y \in Nat : /\ MarchFirst(y) \in Int
                    /\ y >= 1969 => MarchFirst(y) >= 719162
                    /\ y >= 1970 => MarchFirst(y) >= 719468
<1>1. MarchFirst(1969) + 306 = 719468
  BY SMT DEF MarchFirst
<1>2. ASSUME NEW y \in Nat
      PROVE  /\ MarchFirst(y) \in Int
             /\ y >= 1969 => MarchFirst(y) >= 719162
             /\ y >= 1970 => MarchFirst(y) >= 719468
  <2> DEFINE q == y \div 4
             h == y \div 100
             k == y \div 400
  <2>1. /\ q \in Int /\ 4 * q <= y /\ y < 4 * q + 4
        /\ h \in Int /\ 100 * h <= y /\ y < 100 * h + 100
        /\ k \in Int /\ 400 * k <= y /\ y < 400 * k + 400
    BY Quotients, SMT
  <2>2. MarchFirst(y) = 365 * y + q - h + k
    BY DEF MarchFirst
  <2> HIDE DEF q, h, k
  <2> QED
    BY <2>1, <2>2, SMTT(60)
<1> QED
  BY <1>1, <1>2, SMT

\* A March-based year is a day longer when its February is in a leap year.
LEMMA MarchYears ==
  ASSUME NEW y \in Nat, y >= 1
  PROVE  MarchFirst(y) = IF IsLeap(y) THEN MarchFirst(y - 1) + 366
                         ELSE MarchFirst(y - 1) + 365
<1> DEFINE x == y - 1
           q == y \div 4
           h == y \div 100
           k == y \div 400
           q2 == x \div 4
           h2 == x \div 100
           k2 == x \div 400
<1>1. /\ q \in Int /\ 4 * q <= y /\ y < 4 * q + 4
      /\ h \in Int /\ 100 * h <= y /\ y < 100 * h + 100
      /\ k \in Int /\ 400 * k <= y /\ y < 400 * k + 400
  BY Quotients, SMT
<1>2. /\ q2 \in Int /\ 4 * q2 <= x /\ x < 4 * q2 + 4
      /\ h2 \in Int /\ 100 * h2 <= x /\ x < 100 * h2 + 100
      /\ k2 \in Int /\ 400 * k2 <= x /\ x < 400 * k2 + 400
  <2>1. x \in Int
    BY SMT
  <2> HIDE DEF x
  <2> QED
    BY <2>1, Quotients, SMT
<1>3. IsLeap(y) <=> (4 * q = y /\ (100 * h # y \/ 400 * k = y))
  BY Leap, SMT
<1>4. MarchFirst(y) = 365 * y + q - h + k /\ MarchFirst(x) = 365 * x + q2 - h2 + k2
  BY DEF MarchFirst
<1> HIDE DEF q, h, k, q2, h2, k2
<1>5. IF 4 * q = y /\ (100 * h # y \/ 400 * k = y)
      THEN 365 * y + q - h + k = 365 * x + q2 - h2 + k2 + 366
      ELSE 365 * y + q - h + k = 365 * x + q2 - h2 + k2 + 365
  BY <1>1, <1>2, LeapArithmetic, SMTT(60)
<1>6. x = y - 1 /\ x \in Int
  BY SMT
<1> HIDE DEF x
<1>7. /\ IsLeap(y) => MarchFirst(y) = MarchFirst(x) + 366
      /\ ~IsLeap(y) => MarchFirst(y) = MarchFirst(x) + 365
  BY <1>1, <1>2, <1>3, <1>4, <1>5, <1>6, SMT
<1> QED
  BY <1>6, <1>7, Zenon

\* What a date is, in the March-based year it falls in.
LEMMA Placed ==
  ASSUME NEW x \in Dates
  PROVE  /\ x.y \in Nat /\ x.y >= 1970 /\ x.m \in 1..12 /\ x.d \in Nat /\ x.d >= 1
         /\ x.d <= DaysIn(x.y, x.m)
         /\ MarchYear(x) \in Nat /\ DayOfMarchYear(x) \in Int
         /\ DayOfMarchYear(x) = MonthFirst[x.m] + x.d - 1
         /\ x.m <= 2 => /\ MarchYear(x) = x.y - 1
                        /\ 306 <= DayOfMarchYear(x) /\ DayOfMarchYear(x) <= 365
                        /\ DayOfMarchYear(x) = 365 => IsLeap(x.y)
         /\ x.m > 2 => /\ MarchYear(x) = x.y
                       /\ 0 <= DayOfMarchYear(x) /\ DayOfMarchYear(x) < 306
<1> DEFINE y == x.y
           m == x.m
           d == x.d
           f == MonthFirst[m]
           n == DaysIn(y, m)
           leap == IsLeap(y)
<1>1. y \in Nat /\ y >= 1970 /\ m \in 1..12 /\ d \in Nat /\ d >= 1 /\ d <= n
  BY SMT DEF Dates
<1>2. /\ f \in Int /\ n \in Nat /\ n <= 31
      /\ m <= 2 => f >= 306
      /\ m >= 3 => f >= 0 /\ f + 31 <= 306
      /\ m = 1 => f = 306
      /\ m = 2 => f = 337 /\ n = IF leap THEN 29 ELSE 28
  <2>1. m = 2 => n = IF leap THEN 29 ELSE 28
    BY Zenon DEF DaysIn
  <2>2. n \in Nat /\ n <= 31
    BY <1>1, DaysWithin, SMT
  <2> HIDE DEF n, leap
  <2> QED
    BY <1>1, <2>1, <2>2, DaysBefore, SMT
<1>3. /\ MarchYear(x) = IF m <= 2 THEN y - 1 ELSE y
      /\ DayOfMarchYear(x) = f + d - 1
  BY DEF MarchYear, DayOfMarchYear
<1> HIDE DEF y, m, d, f, n, leap
<1>4. /\ MarchYear(x) \in Nat /\ DayOfMarchYear(x) \in Int
      /\ m <= 2 => /\ MarchYear(x) = y - 1
                   /\ 306 <= DayOfMarchYear(x) /\ DayOfMarchYear(x) <= 365
                   /\ DayOfMarchYear(x) = 365 => leap
      /\ m > 2 => /\ MarchYear(x) = y
                  /\ 0 <= DayOfMarchYear(x) /\ DayOfMarchYear(x) < 306
  BY <1>1, <1>2, <1>3, SMT
<1> QED
  BY <1>1, <1>3, <1>4 DEF y, m, d, f, n, leap

\* The code's year of a date's day number is the date's own.
LEMMA CivilYear ==
  ASSUME NEW x \in Dates
  PROVE  DayNumber(x) \in Nat /\ year_of_day(DayNumber(x)) = x.y
<1> DEFINE y == MarchYear(x)
           doy == DayOfMarchYear(x)
           days == DayNumber(x)
           leap == IsLeap(y + 1)
<1>1. /\ x.y \in Nat /\ x.y >= 1970 /\ x.m \in Int /\ y \in Nat /\ doy \in Int
      /\ x.m <= 2 => /\ y = x.y - 1 /\ 306 <= doy /\ doy <= 365
                     /\ doy = 365 => IsLeap(x.y)
      /\ x.m > 2 => /\ y = x.y /\ 0 <= doy /\ doy < 306
  BY Placed, SMT
<1>2. days = SinceEpoch(y, doy)
  BY DEF DayNumber
<1> HIDE DEF y, doy, days
<1>3. doy = 365 => leap
  <2>1. doy = 365 => x.y = y + 1 /\ IsLeap(x.y)
    BY <1>1, SMT
  <2> QED
    BY <2>1, Zenon
<1> HIDE DEF leap
<1>4. days \in Nat
  <2>1. /\ MarchFirst(y) \in Int
        /\ y >= 1969 => MarchFirst(y) >= 719162
        /\ y >= 1970 => MarchFirst(y) >= 719468
    BY <1>1, Epoch, SMT
  <2> QED
    BY <1>1, <1>2, <2>1, SMT DEF SinceEpoch
<1>5. y \in Nat /\ doy \in Int /\ 0 <= doy /\ doy <= 365
  BY <1>1, SMT
<1>6. year_of_day(days) = IF doy >= 306 THEN y + 1 ELSE y
  BY <1>2, <1>3, <1>4, <1>5, OfMarchYear, SMT DEF leap
<1>7. year_of_day(days) = x.y
  BY <1>1, <1>6, SMT
<1> QED
  BY <1>4, <1>7 DEF days

\* The calendar's first day of a run is the day number it begins with.
LEMMA FirstOfJanuary ==
  ASSUME NEW era \in Nat
  PROVE  LET x == [y |-> 1970 + 400 * era, m |-> 1, d |-> 1]
         IN  x \in Dates /\ DayNumber(x) = era * 146097
<1> DEFINE y == 1970 + 400 * era
           x == [y |-> y, m |-> 1, d |-> 1]
           z == y - 1
           q == z \div 4
           h == z \div 100
           k == z \div 400
<1>1. y \in Nat /\ y >= 1970 /\ z \in Int /\ z = 1969 + 400 * era
  BY SMT
<1> HIDE DEF y
<1>2. x \in Dates
  <2>1. DaysIn(y, 1) = 31
    BY DEF DaysIn
  <2> QED
    BY <1>1, <2>1, SMT DEF Dates
<1>3. MarchYear(x) = z /\ DayOfMarchYear(x) = 306
  <2>1. MonthFirst[1] = 306
    BY DaysBefore, SMT
  <2> QED
    BY <2>1, SMT DEF MarchYear, DayOfMarchYear
<1>4. DayNumber(x) = MarchFirst(z) + 306 - 719468
  BY <1>3, SMT DEF DayNumber, SinceEpoch
<1> HIDE DEF z
<1>5. /\ q \in Int /\ 4 * q <= z /\ z < 4 * q + 4
      /\ h \in Int /\ 100 * h <= z /\ z < 100 * h + 100
      /\ k \in Int /\ 400 * k <= z /\ z < 400 * k + 400
  BY <1>1, Quotients, SMT
<1>6. MarchFirst(z) = 365 * z + q - h + k
  BY DEF MarchFirst
<1> HIDE DEF q, h, k
<1>7. q = 492 + 100 * era /\ h = 19 + 4 * era /\ k = 4 + era
  BY <1>1, <1>5, SMT
<1>8. DayNumber(x) = era * 146097
  BY <1>1, <1>4, <1>6, <1>7, SMT
<1> QED
  BY <1>2, <1>8, SMT DEF y

\* The day after a date has the next day number.
LEMMA Tomorrow ==
  ASSUME date \in Dates, SameMonth \/ NextMonth \/ NewYear
  PROVE  date' \in Dates /\ DayNumber(date') = DayNumber(date) + 1
<1> DEFINE y == date.y
           m == date.m
           d == date.d
           n == DaysIn(y, m)
<1>1. y \in Nat /\ y >= 1970 /\ m \in 1..12 /\ d \in Nat /\ d >= 1 /\ d <= n
  BY Placed, SMT
<1>2. date = [y |-> y, m |-> m, d |-> d]
  BY SMT DEF Dates
<1>3. /\ n \in Nat /\ n <= 31
      /\ m = 1 \/ m = 12 => n = 31
      /\ m = 2 => n = IF IsLeap(y) THEN 29 ELSE 28
      /\ MonthFirst[m] \in Int
      /\ m < 12 /\ m # 2 => MonthFirst[m + 1] = MonthFirst[m] + n
      /\ m < 12 => DaysIn(y, m + 1) \in Nat /\ DaysIn(y, m + 1) >= 28
  <2>1. m < 12 => m + 1 \in 1..12
    BY <1>1, SMT
  <2>2. m = 2 => n = IF IsLeap(y) THEN 29 ELSE 28
    BY Zenon DEF DaysIn
  <2>3. m < 12 => DaysIn(y, m + 1) \in Nat /\ DaysIn(y, m + 1) >= 28
    BY <2>1, DaysWithin, Zenon
  <2>4. /\ n \in Nat /\ n <= 31
        /\ m = 1 \/ m = 12 => n = 31
        /\ m < 12 /\ m # 2 => MonthFirst[m + 1] = MonthFirst[m] + n
    BY <1>1, DaysWithin, SMT
  <2>5. MonthFirst[m] \in Int
    BY <1>1, DaysBefore, SMT
  <2> QED
    BY <2>2, <2>3, <2>4, <2>5, Zenon
<1>4. \A x \in Dates :
        DayNumber(x) = SinceEpoch(IF x.m <= 2 THEN x.y - 1 ELSE x.y,
                                  MonthFirst[x.m] + x.d - 1)
  BY Zenon DEF DayNumber, MarchYear, DayOfMarchYear
<1>5. /\ MarchFirst(y) \in Int /\ MarchFirst(y - 1) \in Int
      /\ MarchFirst(y) = IF IsLeap(y) THEN MarchFirst(y - 1) + 366
                         ELSE MarchFirst(y - 1) + 365
  <2>1. y - 1 \in Nat /\ y >= 1
    BY <1>1, SMT
  <2> QED
    BY <1>1, <2>1, Epoch, MarchYears, SMT
<1>6. DayNumber(date) = SinceEpoch(IF m <= 2 THEN y - 1 ELSE y, MonthFirst[m] + d - 1)
  BY <1>4, Zenon
<1>7. MonthFirst[1] = 306 /\ MonthFirst[2] = 337 /\ MonthFirst[3] = 0 /\ MonthFirst[12] = 275
  BY DaysBefore, SMT
<1> HIDE DEF n
<1>8. CASE SameMonth
  <2>1. d < n /\ date' = [y |-> y, m |-> m, d |-> d + 1]
    BY <1>1, <1>2, <1>8, SMT DEF SameMonth, n
  <2> HIDE DEF y, m, d
  <2>2. date' \in Dates
    BY <1>1, <1>3, <2>1, SMT DEF Dates, n
  <2>3. date'.y = y /\ date'.m = m /\ date'.d = d + 1
    BY <2>1, SMT
  <2>4. DayNumber(date') = SinceEpoch(IF m <= 2 THEN y - 1 ELSE y,
                                      MonthFirst[m] + (d + 1) - 1)
    BY <1>4, <2>2, <2>3, Zenon
  <2> QED
    BY <1>1, <1>3, <1>5, <1>6, <2>2, <2>4, SMT DEF SinceEpoch
<1>9. CASE NextMonth
  <2>1. d = n /\ m < 12 /\ date' = [y |-> y, m |-> m + 1, d |-> 1]
    <3> DEFINE later == [date EXCEPT !.m = m + 1]
    <3>1. d = n /\ m < 12 /\ date' = [later EXCEPT !.d = 1]
      BY <1>9 DEF NextMonth, n
    <3>2. later = [y |-> y, m |-> m + 1, d |-> d]
      <4> HIDE DEF y, m, d
      <4> QED
        BY <1>2, SMT
    <3> HIDE DEF y, m, d, later
    <3> QED
      BY <3>1, <3>2, SMT
  <2> HIDE DEF y, m, d
  <2>2. date' \in Dates
    BY <1>1, <1>3, <2>1, SMT DEF Dates
  <2>3. date'.y = y /\ date'.m = m + 1 /\ date'.d = 1
    BY <2>1, SMT
  <2>4. DayNumber(date') = SinceEpoch(IF m + 1 <= 2 THEN y - 1 ELSE y,
                                      MonthFirst[m + 1] + 1 - 1)
    BY <1>4, <2>2, <2>3, Zenon
  <2>5. CASE m = 2
    BY <1>3, <1>5, <1>6, <1>7, <2>1, <2>2, <2>4, <2>5, SMT DEF SinceEpoch
  <2>6. CASE m # 2
    <3>1. MonthFirst[m + 1] = MonthFirst[m] + n
      BY <1>3, <2>1, <2>6
    <3> QED
      BY <1>1, <1>3, <1>5, <1>6, <2>1, <2>2, <2>4, <2>6, <3>1, SMT DEF SinceEpoch
  <2> QED
    BY <2>5, <2>6
<1>10. CASE NewYear
  <2>1. d = n /\ m = 12 /\ date' = [y |-> y + 1, m |-> 1, d |-> 1]
    BY <1>1, <1>2, <1>10, SMT DEF NewYear, n
  <2> HIDE DEF y, m, d
  <2>2. date' \in Dates
    <3>1. DaysIn(y + 1, 1) = 31
      BY DEF DaysIn
    <3> QED
      BY <1>1, <2>1, <3>1, SMT DEF Dates
  <2>3. date'.y = y + 1 /\ date'.m = 1 /\ date'.d = 1
    BY <2>1, SMT
  <2>4. DayNumber(date') = SinceEpoch(IF 1 <= 2 THEN (y + 1) - 1 ELSE (y + 1),
                                      MonthFirst[1] + 1 - 1)
    BY <1>4, <2>2, <2>3, Zenon
  <2>5. y + 1 - 1 = y
    BY <1>1, SMT
  <2> QED
    BY <1>1, <1>3, <1>5, <1>6, <1>7, <2>1, <2>2, <2>4, <2>5, SMT DEF SinceEpoch
<1> QED
  BY <1>8, <1>9, <1>10

----------------------------------------------------------------------------
\* A run begins with the calendar and the day number agreeing.
LEMMA InitIInv == Init => IInv
<1> SUFFICES ASSUME Init PROVE IInv
  OBVIOUS
<1> DEFINE era == start.era
<1>1. era \in Nat /\ counter \in Nat
  BY RunAssumption, SMT DEF Init
<1>2. date = [y |-> 1970 + 400 * era, m |-> 1, d |-> 1] /\ day = era * 146097
  BY DEF Init
<1> HIDE DEF era
<1> QED
  BY <1>1, <1>2, FirstOfJanuary, SMT DEF IInv

\* A step advances both by one day.
LEMMA StepIInv == IInv /\ [Next]_vars => IInv'
<1> SUFFICES ASSUME IInv, [Next]_vars PROVE IInv'
  OBVIOUS
<1>1. CASE Next
  <2>1. day' = day + 1 /\ (SameMonth \/ NextMonth \/ NewYear)
    BY <1>1 DEF Next
  <2>2. date' \in Dates /\ DayNumber(date') = DayNumber(date) + 1
    BY <2>1, Tomorrow DEF IInv
  <2>3. counter' \in Nat
    BY <1>1, SMT DEF IInv, Next
  <2> QED
    BY <2>1, <2>2, <2>3 DEF IInv
<1>2. CASE UNCHANGED vars
  BY <1>2 DEF IInv, vars, Dates, DayNumber, DaysIn
<1> QED
  BY <1>1, <1>2

(***************************************************************************)
(* The calendar of the run and the day number agree on every day, in every *)
(* year from 1970 on, not only in the 400 years that a run walks through.  *)
(***************************************************************************)
THEOREM Invariance == Spec => []IInv
BY InitIInv, StepIInv, PTL DEF Spec

\* In every second of the day the code finds the calendar's year: what
\* YearIsCivilYear says of four seconds, as many as TLC's integers go to.
EverySecond == \A second \in Nat : second < SecondsPerDay =>
                 year_from_timestamp(day * SecondsPerDay + second) = date.y

\* When calendar and day number agree, so do the calendar's year and the code's.
LEMMA CivilYearRead == IInv => YearIsCivilYear /\ EverySecond
<1> SUFFICES ASSUME IInv PROVE YearIsCivilYear /\ EverySecond
  OBVIOUS
<1>1. day \in Nat /\ year_of_day(day) = date.y
  BY CivilYear DEF IInv
<1>2. SecondsPerDay = 86400
  BY DEF SecondsPerDay
<1>3. ASSUME NEW second \in Nat, second < SecondsPerDay
      PROVE  year_from_timestamp(day * SecondsPerDay + second) = date.y
  <2>1. second \in Int /\ 0 <= second /\ second < 86400
    BY <1>2, <1>3, SMT
  <2> DEFINE t == day * SecondsPerDay + second
             a == t \div 86400
  <2>2. t \in Int /\ t = 86400 * day + second
    BY <1>1, <1>2, <2>1, SMT
  <2>3. year_from_timestamp(t) = year_of_day(a)
    BY <1>2, SMT DEF year_from_timestamp
  <2> HIDE DEF t
  <2>4. a \in Int /\ 86400 * a <= t /\ t < 86400 * a + 86400
    BY <2>2, Quotients, SMT
  <2> HIDE DEF a
  <2>5. a = day
    BY <1>1, <2>1, <2>2, <2>4, SMT
  <2>6. year_from_timestamp(t) = date.y
    BY <1>1, <2>3, <2>5
  <2> QED
    BY <2>6 DEF t
<1>4. \A second \in {0, 1, SecondsPerDay \div 2, SecondsPerDay - 1} :
        second \in Nat /\ second < SecondsPerDay
  BY <1>2, SMT
<1> QED
  BY <1>1, <1>3, <1>4 DEF YearIsCivilYear, EverySecond

(***************************************************************************)
(* The year of a token id is the civil year of the ledger timestamp, for   *)
(* every start, any number of days and every second of each.               *)
(* (year_from_timestamp, which mint and split take the YYYY of an id from.)*)
(***************************************************************************)
THEOREM StampedWithCivilYear == Spec => [](YearIsCivilYear /\ EverySecond)
BY Invariance, CivilYearRead, PTL

\* In a well-formed state the date's year and the counter are numbers.
LEMMA IdRead == IInv => IdReadsBack
<1> SUFFICES ASSUME IInv, NEW p \in Contracts
             PROVE  ReadBack(generate_token_id(p, date.y, counter))
                      = [prefix |-> p, year |-> date.y, n |-> counter]
  BY DEF IdReadsBack
<1>1. date.y \in Nat /\ counter \in Nat
  BY Placed DEF IInv
<1> QED
  BY <1>1, RoundTrip, Zenon

(***************************************************************************)
(* The id of every mint is read back, whatever the prefixes, from every    *)
(* year on and for any number of mints, past the YYYY-NNNNNN shape too.    *)
(* (generate_token_id and write_padded_number.)                            *)
(***************************************************************************)
THEOREM EveryIdReadsBack == Spec => []IdReadsBack
BY Invariance, IdRead, PTL
=============================================================================
