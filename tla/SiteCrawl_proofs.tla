-------------------------- MODULE SiteCrawl_proofs ---------------------------
(***************************************************************************)
(* What holds of SiteCrawl for any store, any budgets and any number of    *)
(* crawls: the types, the two page budgets, that a page is fetched once,   *)
(* and that no page a crawl knew of is lost.                               *)
(*                                                                         *)
(* The queue of a crawl is filled by recursive functions.  The first part  *)
(* says what these compute, as far as the theorems need it.                *)
(***************************************************************************)
EXTENDS SiteCrawl, FiniteSetTheorems, TLAPS

-----------------------------------------------------------------------------
(* Natural numbers                                                         *)

\* Among some natural numbers one is the least.
LEMMA LeastNatural ==
  ASSUME NEW T \in SUBSET Nat, T # {}
  PROVE  \E x \in T : \A y \in T : x <= y
  <1> DEFINE I == {0..n : n \in T}
  <1>1. \A n \in T : 0..n \in FiniteSubsetsOf(Nat)
    <2> TAKE n \in T
    <2>1. IsFiniteSet(0..n)
      BY FS_Interval
    <2> QED
      BY <2>1 DEF FiniteSubsetsOf
  <1>2. I \subseteq FiniteSubsetsOf(Nat) /\ I # {}
    BY <1>1
  <1>3. \E s \in I : \A t \in I : <<t, s>> \notin StrictSubsetOrdering(Nat)
    <2>1. IsWellFoundedOn(StrictSubsetOrdering(Nat), FiniteSubsetsOf(Nat))
      BY FS_StrictSubsetOrderingWellFounded
    <2> HIDE DEF I
    <2> QED
      BY <1>2, <2>1, WFMin
  <1>4. PICK x \in T : \A t \in I : <<t, 0..x>> \notin StrictSubsetOrdering(Nat)
    BY <1>3
  <1>5. ASSUME NEW y \in T, y < x
        PROVE  FALSE
    <2>1. 0..y \subseteq 0..x /\ 0..y # 0..x
      <3>1. x \in 0..x /\ x \notin 0..y
        BY <1>5
      <3> QED
        BY <1>5, <3>1
    <2>2. <<0..y, 0..x>> \in StrictSubsetOrdering(Nat)
      BY <2>1 DEF StrictSubsetOrdering
    <2> QED
      BY <1>4, <2>2
  <1> QED
    BY <1>5

\* A set with 0 and the successors of its numbers up to n reaches n.
LEMMA UpTo ==
  ASSUME NEW T, NEW n \in Nat, 0 \in T,
         \A i \in 1..n : i - 1 \in T => i \in T
  PROVE  \A i \in 0..n : i \in T
  <1> SUFFICES ASSUME NEW k \in 0..n, k \notin T
               PROVE  FALSE
    OBVIOUS
  <1> DEFINE M == {i \in 0..n : i \notin T}
  <1>1. M \in SUBSET Nat /\ M # {}
    OBVIOUS
  <1>2. PICK x \in M : \A y \in M : x <= y
    <2> HIDE DEF M
    <2> QED
      BY <1>1, LeastNatural
  <1>3. x \in 1..n /\ x - 1 \in 0..n /\ x - 1 \notin M
    BY <1>2
  <1> QED
    BY <1>2, <1>3

\* Of natural numbers with a bound, Max is the greatest.
LEMMA MaxIs ==
  ASSUME NEW T \in SUBSET Nat, T # {},
         NEW b \in Nat, \A x \in T : x <= b
  PROVE  Max(T) \in T /\ \A x \in T : x <= Max(T)
  <1> DEFINE U == {u \in Nat : \A x \in T : x <= u}
  <1>1. U \in SUBSET Nat /\ U # {}
    OBVIOUS
  <1>2. PICK u \in U : \A y \in U : u <= y
    <2> HIDE DEF U
    <2> QED
      BY <1>1, LeastNatural
  <1>3. u \in T
    <2> SUFFICES ASSUME u \notin T
                 PROVE  FALSE
      OBVIOUS
    <2>1. \A x \in T : x < u
      BY <1>2
    <2>2. u - 1 \in Nat /\ \A x \in T : x <= u - 1
      <3>1. u \in Nat /\ \E x \in T : x < u
        BY <2>1, <1>2
      <3> QED
        BY <2>1, <3>1
    <2> QED
      BY <2>2, <1>2
  <1>4. \E x \in T : \A y \in T : x >= y
    BY <1>2, <1>3
  <1> QED
    BY <1>4 DEF Max

LEMMA MaxOfTwo ==
  ASSUME NEW a \in Int, NEW b \in Int
  PROVE  Max({a, b}) = IF a >= b THEN a ELSE b
  BY DEF Max

LEMMA MinOfTwo ==
  ASSUME NEW a \in Int, NEW b \in Int
  PROVE  Min({a, b}) = IF a <= b THEN a ELSE b
  BY DEF Min

-----------------------------------------------------------------------------
(* Recursive functions                                                     *)

\* What comes of a first value by n steps.
Iterations(S, base, n, step) ==
  {g \in [0..n -> S] : g[0] = base /\ \A i \in 1..n : g[i] = step[i][g[i - 1]]}

\* A first value and steps from one value to the next determine a function.
LEMMA Recursion ==
  ASSUME NEW S, NEW base \in S, NEW n \in Nat, NEW step \in [1..n -> [S -> S]]
  PROVE  \E g : g \in Iterations(S, base, n, step)
  <1> DEFINE Is(g, m) == g[0] = base /\ \A i \in 1..m : g[i] = step[i][g[i - 1]]
             Reached(m) == \E g \in [0..m -> S] : Is(g, m)
             T == {m \in 0..n : Reached(m)}
  <1>1. 0 \in T
    <2>1. [i \in 0..0 |-> base] \in [0..0 -> S] /\ Is([i \in 0..0 |-> base], 0)
      OBVIOUS
    <2>2. Reached(0)
      BY <2>1
    <2> HIDE DEF Reached
    <2> QED
      BY <2>2
  <1>2. ASSUME NEW m \in 1..n, m - 1 \in T
        PROVE  m \in T
    <2>1. PICK g \in [0..(m - 1) -> S] : Is(g, m - 1)
      BY <1>2
    <2> DEFINE h == [i \in 0..m |-> IF i = m THEN step[m][g[m - 1]] ELSE g[i]]
    <2>2. h \in [0..m -> S]
      OBVIOUS
    <2>3. h[0] = base
      BY <2>1
    <2>4. ASSUME NEW i \in 1..m
          PROVE  h[i] = step[i][h[i - 1]]
      <3>1. CASE i = m
        BY <3>1
      <3>2. CASE i # m
        <4>1. i \in 1..(m - 1) /\ h[i] = g[i] /\ h[i - 1] = g[i - 1]
          BY <3>2
        <4> QED
          BY <2>1, <4>1
      <3> QED
        BY <3>1, <3>2
    <2>5. Reached(m)
      <3> HIDE DEF h
      <3> QED
        BY <2>2, <2>3, <2>4
    <2> HIDE DEF Reached
    <2> QED
      BY <2>5
  <1>3. n \in T
    <2> HIDE DEF T
    <2>1. \A i \in 0..n : i \in T
      BY <1>1, <1>2, UpTo
    <2> QED
      BY <2>1
  <1> QED
    BY <1>3 DEF Iterations

-----------------------------------------------------------------------------
(* Sequences                                                               *)

\* The elements of a sequence that are in a set: all of them, and no others.
LEMMA AmongIs ==
  ASSUME NEW S, NEW s \in Seq(S), NEW T
  PROVE  /\ Among(s, T) \in Seq(S \cap T)
         /\ \A i \in DOMAIN s : s[i] \in T => s[i] \in Range(Among(s, T))
  <1> DEFINE n == Len(s)
             Step(i, x) == IF s[i] \in T THEN Append(x, s[i]) ELSE x
             Is(g) == g = [i \in 0..n |-> IF i = 0 THEN <<>> ELSE Step(i, g[i - 1])]
             Good(g) == g \in [0..n -> Seq(S \cap T)]
             Has(x, m) == \A i \in 1..m : s[i] \in T => \E k \in DOMAIN x : x[k] = s[i]
  <1>0. n \in Nat /\ DOMAIN s = 1..n /\ \A i \in 1..n : s[i] \in S
    OBVIOUS
  <1> HIDE DEF n
  <1>1. \A i \in 1..n : \A x \in Seq(S \cap T) : Step(i, x) \in Seq(S \cap T)
    BY <1>0
  <1>2. \E g : Is(g)
    <2> DEFINE R == Seq(S \cap T)
               base == <<>>
               step == [i \in 1..n |-> [x \in R |-> Step(i, x)]]
    <2>0. base \in R
      OBVIOUS
    <2>1. step \in [1..n -> [R -> R]]
      BY <1>1
    <2>2. \A i \in 1..n : \A x \in R : step[i][x] = Step(i, x)
      OBVIOUS
    <2> HIDE DEF R, base, step, Step
    <2>3. n \in Nat
      BY <1>0
    <2>4. PICK g : g \in Iterations(R, base, n, step)
      BY <2>0, <2>1, <2>3, Recursion
    <2>5. \A i \in 0..n : g[i] = IF i = 0 THEN <<>> ELSE Step(i, g[i - 1])
      <3> TAKE i \in 0..n
      <3>1. i # 0 => i \in 1..n /\ i - 1 \in 0..n
        BY <1>0
      <3> QED
        BY <2>2, <2>4, <3>1 DEF base, Iterations
    <2> QED
      BY <2>4, <2>5 DEF Iterations
  <1> DEFINE G == CHOOSE g : Is(g)
  <1>3. Is(G)
    BY <1>2
  <1>4. Among(s, T) = G[n]
    BY DEF Among, n
  <1> HIDE DEF G
  <1>5. G[0] = <<>> /\ \A i \in 1..n : G[i] = Step(i, G[i - 1])
    <2> HIDE DEF Step
    <2>1. 0 \in 0..n /\ \A i \in 1..n : i \in 0..n /\ i # 0
      BY <1>0
    <2> QED
      BY <1>3, <2>1
  <1> DEFINE U == {i \in 0..n : G[i] \in Seq(S \cap T) /\ Has(G[i], i)}
  <1>6. 0 \in U
    <2>1. 0 \in 0..n /\ 1..0 = {}
      BY <1>0
    <2>2. G[0] \in Seq(S \cap T)
      BY <1>5
    <2> QED
      BY <2>1, <2>2
  <1>7. ASSUME NEW i \in 1..n, i - 1 \in U
        PROVE  i \in U
    <2>1. G[i - 1] \in Seq(S \cap T) /\ Has(G[i - 1], i - 1)
      BY <1>7
    <2>2. G[i] = Step(i, G[i - 1]) /\ i \in 0..n
      BY <1>0, <1>5
    <2>3. G[i] \in Seq(S \cap T)
      BY <1>1, <2>1, <2>2
    <2>4. Has(G[i], i)
      <3> SUFFICES ASSUME NEW j \in 1..i, s[j] \in T
                   PROVE  \E k \in DOMAIN G[i] : G[i][k] = s[j]
        OBVIOUS
      <3>1. CASE j = i
        <4>1. G[i] = Append(G[i - 1], s[i])
          BY <2>2, <3>1
        <4>2. s[i] \in S \cap T
          BY <1>0, <3>1
        <4>3. Len(G[i]) \in DOMAIN G[i] /\ G[i][Len(G[i])] = s[i]
          BY <2>1, <4>1, <4>2
        <4> QED
          BY <3>1, <4>3
      <3>2. CASE j # i
        <4>1. j \in 1..(i - 1)
          BY <1>0, <3>2
        <4>2. PICK k \in DOMAIN G[i - 1] : G[i - 1][k] = s[j]
          BY <2>1, <4>1
        <4>3. k \in DOMAIN G[i] /\ G[i][k] = G[i - 1][k]
          <5>1. CASE s[i] \in T
            <6>1. s[i] \in S \cap T /\ G[i] = Append(G[i - 1], s[i])
              BY <1>0, <2>2, <5>1
            <6> QED
              BY <2>1, <4>2, <6>1
          <5>2. CASE s[i] \notin T
            BY <2>2, <4>2, <5>2
          <5> QED
            BY <5>1, <5>2
        <4> QED
          BY <4>2, <4>3
      <3> QED
        BY <3>1, <3>2
    <2> QED
      BY <2>2, <2>3, <2>4
  <1>8. n \in U
    <2> HIDE DEF U
    <2>1. \A i \in 0..n : i \in U
      BY <1>0, <1>6, <1>7, UpTo
    <2> QED
      BY <1>0, <2>1
  <1> QED
    BY <1>0, <1>4, <1>8 DEF Range

\* A round takes one child of every page that has enough.
LEMMA RoundIs ==
  ASSUME NEW T, NEW lists \in Seq(Seq(T)), NEW n \in Nat \ {0}
  PROVE  /\ Round(lists, n) \in Seq(T)
         /\ \A i \in DOMAIN lists : n <= Len(lists[i]) => lists[i][n] \in Range(Round(lists, n))
  <1> DEFINE all == [i \in DOMAIN lists |-> i]
             K == {i \in DOMAIN lists : n <= Len(lists[i])}
             having == Among(all, K)
  <1>1. all \in Seq(Nat) /\ DOMAIN all = DOMAIN lists /\ \A i \in DOMAIN lists : all[i] = i
    OBVIOUS
  <1>2. /\ having \in Seq(Nat \cap K)
        /\ \A i \in K : i \in Range(having)
    <2> HIDE DEF all, K
    <2>1. /\ having \in Seq(Nat \cap K)
          /\ \A i \in DOMAIN all : all[i] \in K => all[i] \in Range(having)
      BY <1>1, AmongIs
    <2>2. \A i \in K : i \in DOMAIN lists
      BY DEF K
    <2> QED
      BY <1>1, <2>1, <2>2
  <1>3. Round(lists, n) = [k \in DOMAIN having |-> lists[having[k]][n]]
    BY DEF Round
  <1>4. \A i \in K : lists[i] \in Seq(T) /\ n \in 1..Len(lists[i]) /\ lists[i][n] \in T
    OBVIOUS
  <1>5. DOMAIN having = 1..Len(having) /\ Len(having) \in Nat /\ \A k \in DOMAIN having : having[k] \in K
    <2> HIDE DEF having, K
    <2> QED
      BY <1>2
  <1>6. Round(lists, n) \in Seq(T)
    <2> HIDE DEF having, K
    <2> QED
      BY <1>3, <1>4, <1>5
  <1>7. ASSUME NEW i \in DOMAIN lists, n <= Len(lists[i])
        PROVE  lists[i][n] \in Range(Round(lists, n))
    <2>1. i \in Range(having)
      BY <1>2, <1>7
    <2> HIDE DEF having
    <2>2. PICK k \in DOMAIN having : having[k] = i
      BY <2>1 DEF Range
    <2> QED
      BY <1>3, <2>2 DEF Range
  <1> QED
    BY <1>6, <1>7

\* Some rounds, one after the other, take every child up to their number.
LEMMA RoundsAre ==
  ASSUME NEW T, NEW lists \in Seq(Seq(T)), NEW n \in Nat
  PROVE  /\ Rounds(lists, n) \in Seq(T)
         /\ \A i \in DOMAIN lists, m \in 1..n :
              m <= Len(lists[i]) => lists[i][m] \in Range(Rounds(lists, n))
  <1> DEFINE Step(i, x) == x \o Round(lists, i)
             Is(g) == g = [i \in 0..n |-> IF i = 0 THEN <<>> ELSE Step(i, g[i - 1])]
             Has(x, k) == \A i \in DOMAIN lists, m \in 1..k :
                            m <= Len(lists[i]) => \E j \in DOMAIN x : x[j] = lists[i][m]
  <1>1. \A i \in 1..n : Round(lists, i) \in Seq(T)
    BY RoundIs
  <1>2. \A i \in 1..n : \A x \in Seq(T) : Step(i, x) \in Seq(T)
    BY <1>1
  <1>3. \E g : Is(g)
    <2> DEFINE R == Seq(T)
               base == <<>>
               step == [i \in 1..n |-> [x \in R |-> Step(i, x)]]
    <2>1. base \in R
      OBVIOUS
    <2>2. step \in [1..n -> [R -> R]]
      BY <1>2
    <2>3. \A i \in 1..n : \A x \in R : step[i][x] = Step(i, x)
      OBVIOUS
    <2> HIDE DEF R, base, step, Step
    <2>4. PICK g : g \in Iterations(R, base, n, step)
      BY <2>1, <2>2, Recursion
    <2>5. \A i \in 0..n : g[i] = IF i = 0 THEN <<>> ELSE Step(i, g[i - 1])
      <3> TAKE i \in 0..n
      <3>1. i # 0 => i \in 1..n /\ i - 1 \in 0..n
        OBVIOUS
      <3> QED
        BY <2>3, <2>4, <3>1 DEF base, Iterations
    <2> QED
      BY <2>4, <2>5 DEF Iterations
  <1> DEFINE G == CHOOSE g : Is(g)
  <1>4. Is(G)
    BY <1>3
  <1>5. Rounds(lists, n) = G[n]
    BY DEF Rounds
  <1> HIDE DEF G
  <1>6. G[0] = <<>> /\ \A i \in 1..n : G[i] = Step(i, G[i - 1])
    <2> HIDE DEF Step
    <2>1. 0 \in 0..n /\ \A i \in 1..n : i \in 0..n /\ i # 0
      OBVIOUS
    <2> QED
      BY <1>4, <2>1
  <1> DEFINE U == {i \in 0..n : G[i] \in Seq(T) /\ Has(G[i], i)}
  <1>7. 0 \in U
    <2>1. 0 \in 0..n /\ 1..0 = {}
      OBVIOUS
    <2>2. G[0] \in Seq(T)
      BY <1>6
    <2> QED
      BY <2>1, <2>2
  <1>8. ASSUME NEW k \in 1..n, k - 1 \in U
        PROVE  k \in U
    <2> DEFINE more == Round(lists, k)
    <2>1. G[k - 1] \in Seq(T) /\ Has(G[k - 1], k - 1)
      BY <1>8
    <2>2. more \in Seq(T) /\ \A i \in DOMAIN lists : k <= Len(lists[i]) => lists[i][k] \in Range(more)
      BY RoundIs
    <2>3. G[k] = G[k - 1] \o more
      BY <1>6
    <2> HIDE DEF more
    <2>4. G[k] \in Seq(T)
      BY <2>1, <2>2, <2>3
    <2>5. /\ \A j \in DOMAIN G[k - 1] : j \in DOMAIN G[k] /\ G[k][j] = G[k - 1][j]
          /\ \A j \in DOMAIN more : /\ Len(G[k - 1]) + j \in DOMAIN G[k]
                                     /\ G[k][Len(G[k - 1]) + j] = more[j]
      BY <2>1, <2>2, <2>3
    <2>6. ASSUME NEW i \in DOMAIN lists, NEW m \in 1..k, m <= Len(lists[i])
          PROVE  \E j \in DOMAIN G[k] : G[k][j] = lists[i][m]
      <3>1. CASE m = k
        <4>1. PICK j \in DOMAIN more : more[j] = lists[i][k]
          BY <2>2, <2>6, <3>1 DEF Range
        <4> QED
          BY <2>5, <3>1, <4>1
      <3>2. CASE m # k
        <4>1. m \in 1..(k - 1)
          BY <3>2
        <4>2. PICK j \in DOMAIN G[k - 1] : G[k - 1][j] = lists[i][m]
          BY <2>1, <2>6, <4>1
        <4> QED
          BY <2>5, <4>2
      <3> QED
        BY <3>1, <3>2
    <2> QED
      BY <2>4, <2>6
  <1>9. n \in U
    <2> HIDE DEF U
    <2>1. \A i \in 0..n : i \in U
      BY <1>7, <1>8, UpTo
    <2> QED
      BY <2>1
  <1> QED
    BY <1>5, <1>9 DEF Range

\* Round robin takes every child of every page, and nothing else.
LEMMA RoundRobinIs ==
  ASSUME NEW T, NEW lists \in Seq(Seq(T))
  PROVE  /\ RoundRobin(lists) \in Seq(T)
         /\ \A i \in DOMAIN lists : \A m \in DOMAIN lists[i] : lists[i][m] \in Range(RoundRobin(lists))
  <1> DEFINE n == Len(lists)
             Lengths == {Len(lists[i]) : i \in DOMAIN lists}
             Bounded(k) == \E b \in Nat : \A i \in 1..k : Len(lists[i]) <= b
             U == {k \in 0..n : Bounded(k)}
             max == Max({0} \cup Lengths)
  <1>1. n \in Nat /\ DOMAIN lists = 1..n /\ \A i \in 1..n : lists[i] \in Seq(T) /\ Len(lists[i]) \in Nat
    OBVIOUS
  <1> HIDE DEF n
  <1>2. 0 \in U
    BY <1>1
  <1>3. ASSUME NEW k \in 1..n, k - 1 \in U
        PROVE  k \in U
    <2>1. PICK b \in Nat : \A i \in 1..(k - 1) : Len(lists[i]) <= b
      BY <1>3
    <2>2. PICK a \in Nat : a = b + Len(lists[k])
      BY <1>1
    <2>3. ASSUME NEW i \in 1..k
          PROVE  Len(lists[i]) <= a
      <3>1. i = k \/ i \in 1..(k - 1)
        OBVIOUS
      <3>2. Len(lists[i]) \in Nat /\ Len(lists[k]) \in Nat
        BY <1>1
      <3> QED
        BY <2>1, <2>2, <3>1, <3>2
    <2>4. Bounded(k)
      BY <2>3
    <2> HIDE DEF Bounded
    <2> QED
      BY <1>1, <2>4
  <1>4. n \in U
    <2> HIDE DEF U
    <2>1. \A i \in 0..n : i \in U
      BY <1>1, <1>2, <1>3, UpTo
    <2> QED
      BY <1>1, <2>1
  <1>5. PICK b \in Nat : \A i \in 1..n : Len(lists[i]) <= b
    BY <1>4
  <1>6. max \in Nat /\ \A i \in 1..n : Len(lists[i]) <= max
    <2> DEFINE M == {0} \cup Lengths
    <2>1. M \in SUBSET Nat /\ M # {} /\ \A x \in M : x <= b
      BY <1>1, <1>5
    <2>2. \A i \in 1..n : Len(lists[i]) \in M
      BY <1>1
    <2> HIDE DEF M
    <2>3. Max(M) \in M /\ \A x \in M : x <= Max(M)
      BY <2>1, MaxIs
    <2>4. max = Max(M)
      BY DEF M
    <2> HIDE DEF max
    <2> QED
      BY <2>1, <2>2, <2>3, <2>4
  <1>7. RoundRobin(lists) = Rounds(lists, max)
    BY DEF RoundRobin
  <1> HIDE DEF max
  <1>8. /\ Rounds(lists, max) \in Seq(T)
        /\ \A i \in DOMAIN lists, m \in 1..max :
             m <= Len(lists[i]) => lists[i][m] \in Range(Rounds(lists, max))
    BY <1>6, RoundsAre
  <1>9. \A i \in DOMAIN lists : \A m \in DOMAIN lists[i] : m \in 1..max /\ m <= Len(lists[i])
    BY <1>1, <1>6
  <1> QED
    BY <1>7, <1>8, <1>9

-----------------------------------------------------------------------------
(* The queue                                                               *)

Queues == [barred : SUBSET Urls, seen : SUBSET Urls, count : [Keys -> Nat], wave : Seq(Entries)]

\* A URL of the wave was neither fetched before nor is it there twice.
Waiting(q, done) ==
  /\ done \cup UrlsOf(q.wave) \subseteq q.seen
  /\ done \cap UrlsOf(q.wave) = {}
  /\ \A i, j \in DOMAIN q.wave : q.wave[i].url = q.wave[j].url => i = j
  /\ \A i \in DOMAIN q.wave : q.wave[i].key \in (Listings \cap done) \cup {NoKey}

\* A category that products may have been counted for is full.
FullFor(q, done, u) == \E k \in (Listings \cap done) \cup {PathKey[u]} : q.count[k] = CategoryCap

\* A URL that was seen is there, or it is known why it is not.
Excused(q, done, dropped) ==
  /\ \A k \in Keys : q.count[k] <= CategoryCap
  /\ \A u \in q.seen \ (done \cup UrlsOf(q.wave) \cup q.barred \cup dropped) :
       u \in ProductLike /\ FullFor(q, done, u)

\* The four things that can become of an entry.
LEMMA EnqueueCases ==
  ASSUME NEW q \in Queues, NEW e \in Entries
  PROVE  LET r == Enqueue(q, e)
             k == KeyOf(e)
         IN /\ k \in Keys
            /\ r \in Queues
            /\ r.barred = q.barred
            /\ \/ e.url \in q.seen /\ r = q
               \/ /\ e.url \notin q.seen
                  /\ e.url \in q.barred \/ (e.url \in ProductLike /\ q.count[k] >= CategoryCap)
                  /\ r.seen = q.seen \cup {e.url} /\ r.count = q.count /\ r.wave = q.wave
               \/ /\ e.url \notin q.seen
                  /\ r.seen = q.seen \cup {e.url} /\ r.count = q.count /\ r.wave = Append(q.wave, e)
               \/ /\ e.url \notin q.seen /\ ~(q.count[k] >= CategoryCap)
                  /\ r.seen = q.seen \cup {e.url} /\ r.wave = Append(q.wave, e)
                  /\ r.count = [q.count EXCEPT ![k] = @ + 1]
  <1> DEFINE r == Enqueue(q, e)
             k == KeyOf(e)
             seen1 == q.seen \cup {e.url}
             wave1 == Append(q.wave, e)
             count1 == [q.count EXCEPT ![k] = @ + 1]
  <1>1. e.url \in Urls /\ k \in Keys
    BY DEF Entries, Keys, KeyOf
  <1>2. q.barred \in SUBSET Urls /\ q.seen \in SUBSET Urls /\ q.count \in [Keys -> Nat] /\ q.wave \in Seq(Entries)
    BY DEF Queues
  <1>3. seen1 \in SUBSET Urls /\ wave1 \in Seq(Entries) /\ count1 \in [Keys -> Nat]
    BY <1>1, <1>2
  <1>4. CASE e.url \in q.seen
    BY <1>1, <1>4 DEF Enqueue
  <1>5. CASE e.url \notin q.seen /\ (e.url \in q.barred \/ (e.url \in ProductLike /\ q.count[k] >= CategoryCap))
    <2>1. r = [q EXCEPT !.seen = seen1]
      BY <1>5 DEF Enqueue, Remember
    <2>2. r \in Queues /\ r.barred = q.barred /\ r.seen = seen1 /\ r.count = q.count /\ r.wave = q.wave
      BY <1>3, <2>1 DEF Queues
    <2> QED
      BY <1>1, <1>5, <2>2
  <1>6. CASE e.url \notin q.seen /\ e.url \notin q.barred /\ e.url \notin ProductLike
    <2>1. r = [[q EXCEPT !.seen = seen1] EXCEPT !.wave = Append(@, e)]
      BY <1>6 DEF Enqueue, Remember
    <2>2. r \in Queues /\ r.barred = q.barred /\ r.seen = seen1 /\ r.count = q.count /\ r.wave = wave1
      BY <1>3, <2>1 DEF Queues
    <2> QED
      BY <1>1, <1>6, <2>2
  <1>7. CASE /\ e.url \notin q.seen /\ e.url \notin q.barred
             /\ e.url \in ProductLike /\ ~(q.count[k] >= CategoryCap)
    <2>1. r = [[[q EXCEPT !.seen = seen1] EXCEPT !.wave = Append(@, e)] EXCEPT !.count[k] = @ + 1]
      BY <1>7 DEF Enqueue, Remember
    <2>2. r \in Queues /\ r.barred = q.barred /\ r.seen = seen1 /\ r.count = count1 /\ r.wave = wave1
      BY <1>3, <2>1 DEF Queues
    <2> QED
      BY <1>1, <1>7, <2>2
  <1> QED
    BY <1>4, <1>5, <1>6, <1>7

\* A wave longer by one.
LEMMA UrlsOfAppend ==
  ASSUME NEW w \in Seq(Entries), NEW e \in Entries
  PROVE  /\ DOMAIN Append(w, e) = 1..(Len(w) + 1)
         /\ \A i \in DOMAIN w : i \in 1..Len(w) /\ Append(w, e)[i] = w[i]
         /\ Append(w, e)[Len(w) + 1] = e
         /\ UrlsOf(Append(w, e)) = UrlsOf(w) \cup {e.url}
  <1>1. /\ DOMAIN w = 1..Len(w) /\ Len(w) \in Nat
        /\ DOMAIN Append(w, e) = 1..(Len(w) + 1)
        /\ \A i \in 1..Len(w) : Append(w, e)[i] = w[i]
        /\ Append(w, e)[Len(w) + 1] = e
    OBVIOUS
  <1> DEFINE v == Append(w, e)
  <1> HIDE DEF v
  <1>2. ASSUME DOMAIN v = 1..(Len(w) + 1), v[Len(w) + 1] = e, \A i \in 1..Len(w) : v[i] = w[i]
        PROVE  UrlsOf(v) = UrlsOf(w) \cup {e.url}
    <2>1. \A i \in DOMAIN v : i \in DOMAIN w \/ i = Len(w) + 1
      BY <1>1, <1>2
    <2>2. Len(w) + 1 \in DOMAIN v /\ DOMAIN w \subseteq DOMAIN v
      BY <1>1, <1>2
    <2> QED
      BY <1>1, <1>2, <2>1, <2>2 DEF UrlsOf
  <1> QED
    BY <1>1, <1>2 DEF v

\* Whatever becomes of an entry: its URL was seen, nothing is twice in the
\* wave, and what is not there is excused.
LEMMA EnqueueKeeps ==
  ASSUME NEW q \in Queues, NEW e \in Entries, NEW done, NEW dropped,
         Waiting(q, done), Excused(q, done, dropped),
         e.key \in (Listings \cap done) \cup {NoKey}
  PROVE  LET r == Enqueue(q, e)
         IN /\ r \in Queues /\ r.barred = q.barred
            /\ q.seen \cup {e.url} \subseteq r.seen
            /\ Waiting(r, done) /\ Excused(r, done, dropped)
  <1> DEFINE r == Enqueue(q, e)
             k == KeyOf(e)
             cats == (Listings \cap done) \cup {PathKey[e.url]}
  <1>1. /\ k \in Keys /\ r \in Queues /\ r.barred = q.barred
        /\ \/ e.url \in q.seen /\ r = q
           \/ /\ e.url \notin q.seen
              /\ e.url \in q.barred \/ (e.url \in ProductLike /\ q.count[k] >= CategoryCap)
              /\ r.seen = q.seen \cup {e.url} /\ r.count = q.count /\ r.wave = q.wave
           \/ /\ e.url \notin q.seen
              /\ r.seen = q.seen \cup {e.url} /\ r.count = q.count /\ r.wave = Append(q.wave, e)
           \/ /\ e.url \notin q.seen /\ ~(q.count[k] >= CategoryCap)
              /\ r.seen = q.seen \cup {e.url} /\ r.wave = Append(q.wave, e)
              /\ r.count = [q.count EXCEPT ![k] = @ + 1]
    BY EnqueueCases
  <1> HIDE DEF r
  <1>2. k \in cats
    BY DEF KeyOf
  <1>3. /\ CategoryCap \in Nat /\ q.wave \in Seq(Entries) /\ q.count \in [Keys -> Nat]
        /\ q.count[k] \in Nat /\ q.count[k] <= CategoryCap
    BY <1>1, BudgetAssumption DEF Queues, Excused
  <1> HIDE DEF k
  <1>4. CASE e.url \in q.seen /\ r = q
    BY <1>1, <1>4 DEF r
  <1>5. CASE /\ e.url \notin q.seen
             /\ e.url \in q.barred \/ (e.url \in ProductLike /\ q.count[k] >= CategoryCap)
             /\ r.seen = q.seen \cup {e.url} /\ r.count = q.count /\ r.wave = q.wave
    <2>1. Waiting(r, done)
      BY <1>5 DEF Waiting
    <2>2. e.url \in q.barred \/ (e.url \in ProductLike /\ q.count[k] = CategoryCap)
      BY <1>3, <1>5
    <2>3. e.url \in r.barred \/ (e.url \in ProductLike /\ FullFor(r, done, e.url))
      BY <1>1, <1>2, <1>5, <2>2 DEF FullFor
    <2>4. Excused(r, done, dropped)
      BY <1>1, <1>5, <2>3 DEF Excused, FullFor
    <2> QED
      BY <1>1, <1>5, <2>1, <2>4 DEF r
  <1>6. ASSUME e.url \notin q.seen, r.seen = q.seen \cup {e.url}, r.wave = Append(q.wave, e)
        PROVE  Waiting(r, done) /\ UrlsOf(r.wave) = UrlsOf(q.wave) \cup {e.url}
    <2>1. /\ DOMAIN q.wave = 1..Len(q.wave) /\ Len(q.wave) \in Nat
          /\ DOMAIN r.wave = 1..(Len(q.wave) + 1)
          /\ \A i \in DOMAIN q.wave : r.wave[i] = q.wave[i]
          /\ r.wave[Len(q.wave) + 1] = e
          /\ UrlsOf(r.wave) = UrlsOf(q.wave) \cup {e.url}
      BY <1>3, <1>6, UrlsOfAppend
    <2>2. \A i \in DOMAIN r.wave : i \in DOMAIN q.wave \/ i = Len(q.wave) + 1
      BY <2>1
    <2>3. \A i \in DOMAIN q.wave : q.wave[i].url \in q.seen
      BY DEF Waiting, UrlsOf
    <2>4. \A i, j \in DOMAIN r.wave : r.wave[i].url = r.wave[j].url => i = j
      BY <1>6, <2>1, <2>2, <2>3 DEF Waiting
    <2>5. \A i \in DOMAIN r.wave : r.wave[i].key \in (Listings \cap done) \cup {NoKey}
      BY <2>1, <2>2 DEF Waiting
    <2>6. done \cup UrlsOf(r.wave) \subseteq r.seen /\ done \cap UrlsOf(r.wave) = {}
      BY <1>6, <2>1 DEF Waiting
    <2> QED
      BY <2>1, <2>4, <2>5, <2>6 DEF Waiting
  <1>7. CASE /\ e.url \notin q.seen
             /\ r.seen = q.seen \cup {e.url} /\ r.count = q.count /\ r.wave = Append(q.wave, e)
    <2>1. Excused(r, done, dropped)
      BY <1>1, <1>6, <1>7 DEF Excused, FullFor
    <2> QED
      BY <1>1, <1>6, <1>7, <2>1 DEF r
  <1>8. CASE /\ e.url \notin q.seen /\ ~(q.count[k] >= CategoryCap)
             /\ r.seen = q.seen \cup {e.url} /\ r.wave = Append(q.wave, e)
             /\ r.count = [q.count EXCEPT ![k] = @ + 1]
    <2>1. q.count[k] < CategoryCap
      BY <1>3, <1>8
    <2>2. \A x \in Keys : r.count[x] <= CategoryCap
      BY <1>3, <1>8, <2>1 DEF Excused
    <2>3. ASSUME NEW u, FullFor(q, done, u)
          PROVE  FullFor(r, done, u)
      <3>1. PICK x \in (Listings \cap done) \cup {PathKey[u]} : q.count[x] = CategoryCap
        BY <2>3 DEF FullFor
      <3>2. x # k
        BY <2>1, <3>1, <1>3
      <3>3. r.count[x] = q.count[x]
        BY <1>3, <1>8, <3>2
      <3> QED
        BY <3>1, <3>3 DEF FullFor
    <2>4. Excused(r, done, dropped)
      BY <1>1, <1>6, <1>8, <2>2, <2>3 DEF Excused
    <2> QED
      BY <1>1, <1>6, <1>8, <2>4 DEF r
  <1>9. QED
    BY <1>1, <1>4, <1>5, <1>7, <1>8

\* The same of any number of entries.
LEMMA EnqueueAllKeeps ==
  ASSUME NEW q \in Queues, NEW es \in Seq(Entries), NEW done, NEW dropped,
         Waiting(q, done), Excused(q, done, dropped),
         \A i \in DOMAIN es : es[i].key \in (Listings \cap done) \cup {NoKey}
  PROVE  LET r == EnqueueAll(q, es)
         IN /\ r \in Queues /\ r.barred = q.barred
            /\ q.seen \cup UrlsOf(es) \subseteq r.seen
            /\ Waiting(r, done) /\ Excused(r, done, dropped)
  <1> DEFINE n == Len(es)
             Step(i, x) == Enqueue(x, es[i])
             Is(g) == g = [i \in 0..n |-> IF i = 0 THEN q ELSE Step(i, g[i - 1])]
             Good(x) == x.barred = q.barred /\ Waiting(x, done) /\ Excused(x, done, dropped)
             Has(x, m) == q.seen \subseteq x.seen /\ \A i \in 1..m : es[i].url \in x.seen
  <1>1. n \in Nat /\ DOMAIN es = 1..n /\ \A i \in 1..n : es[i] \in Entries
    OBVIOUS
  <1> HIDE DEF n
  <1>2. \A i \in 1..n : \A x \in Queues : Step(i, x) \in Queues
    BY <1>1, EnqueueCases
  <1>3. \E g : Is(g)
    <2> DEFINE step == [i \in 1..n |-> [x \in Queues |-> Step(i, x)]]
    <2>1. step \in [1..n -> [Queues -> Queues]]
      BY <1>2
    <2>2. \A i \in 1..n : \A x \in Queues : step[i][x] = Step(i, x)
      OBVIOUS
    <2> HIDE DEF step, Step
    <2>3. n \in Nat
      BY <1>1
    <2>4. PICK g : g \in Iterations(Queues, q, n, step)
      BY <2>1, <2>3, Recursion
    <2>5. \A i \in 0..n : g[i] = IF i = 0 THEN q ELSE Step(i, g[i - 1])
      <3> TAKE i \in 0..n
      <3>1. i # 0 => i \in 1..n /\ i - 1 \in 0..n
        BY <1>1
      <3> QED
        BY <2>2, <2>4, <3>1 DEF Iterations
    <2> QED
      BY <2>4, <2>5 DEF Iterations
  <1> DEFINE G == CHOOSE g : Is(g)
  <1>4. Is(G)
    BY <1>3
  <1>5. EnqueueAll(q, es) = G[n]
    BY DEF EnqueueAll, n
  <1> HIDE DEF G
  <1>6. G[0] = q /\ \A i \in 1..n : G[i] = Step(i, G[i - 1])
    <2> HIDE DEF Step
    <2>1. 0 \in 0..n /\ \A i \in 1..n : i \in 0..n /\ i # 0
      BY <1>1
    <2> QED
      BY <1>4, <2>1
  <1> DEFINE U == {i \in 0..n : G[i] \in Queues /\ Good(G[i]) /\ Has(G[i], i)}
  <1>7. 0 \in U
    <2>1. 0 \in 0..n /\ 1..0 = {}
      BY <1>1
    <2>2. G[0] \in Queues /\ Good(G[0]) /\ Has(G[0], 0)
      BY <1>6, <2>1
    <2> QED
      BY <2>1, <2>2
  <1>8. ASSUME NEW i \in 1..n, i - 1 \in U
        PROVE  i \in U
    <2> DEFINE x == G[i - 1]
               y == G[i]
               e == es[i]
    <2>1. x \in Queues /\ Good(x) /\ Has(x, i - 1)
      BY <1>8
    <2>2. y = Enqueue(x, e) /\ e \in Entries /\ e.key \in (Listings \cap done) \cup {NoKey}
      BY <1>1, <1>6
    <2> HIDE DEF x, y, e
    <2>3. /\ y \in Queues /\ y.barred = x.barred
          /\ x.seen \cup {e.url} \subseteq y.seen
          /\ Waiting(y, done) /\ Excused(y, done, dropped)
      BY <2>1, <2>2, EnqueueKeeps
    <2>4. Good(y)
      BY <2>1, <2>3
    <2>5. \A j \in 1..i : j = i \/ j \in 1..(i - 1)
      BY <1>1
    <2>6. Has(y, i)
      BY <2>1, <2>3, <2>5 DEF e
    <2>7. i \in 0..n
      BY <1>1
    <2> HIDE DEF Good, Has
    <2> QED
      BY <2>3, <2>4, <2>6, <2>7 DEF y
  <1>9. n \in U
    <2> HIDE DEF U
    <2>1. \A i \in 0..n : i \in U
      BY <1>1, <1>7, <1>8, UpTo
    <2> QED
      BY <1>1, <2>1
  <1> QED
    BY <1>1, <1>5, <1>9 DEF UrlsOf

\* What is taken from the front of a sequence and what is left over.
LEMMA PrefixIs ==
  ASSUME NEW S, NEW s \in Seq(S), NEW n \in Nat
  PROVE  LET p == Prefix(s, n)
         IN /\ p \in Seq(S)
            /\ Len(p) = IF n <= Len(s) THEN n ELSE Len(s)
            /\ DOMAIN p \subseteq DOMAIN s
            /\ \A i \in DOMAIN p : p[i] = s[i]
  <1> DEFINE m == IF n <= Len(s) THEN n ELSE Len(s)
  <1>1. Len(s) \in Nat /\ m \in 0..Len(s)
    OBVIOUS
  <1>2. Prefix(s, n) = SubSeq(s, 1, m)
    BY <1>1, MinOfTwo DEF Prefix
  <1> HIDE DEF m
  <1>3. /\ SubSeq(s, 1, m) \in Seq(S) /\ Len(SubSeq(s, 1, m)) = m
        /\ \A i \in 1..m : SubSeq(s, 1, m)[i] = s[i]
    BY <1>1
  <1> QED
    BY <1>1, <1>2, <1>3 DEF m

LEMMA RestIs ==
  ASSUME NEW S, NEW s \in Seq(S), NEW n \in Nat
  PROVE  LET t == Rest(s, n)
         IN /\ t \in Seq(S)
            /\ n <= Len(s) => Len(t) = Len(s) - n
            /\ n >= Len(s) => t = <<>>
            /\ \A i \in DOMAIN t : i + n \in DOMAIN s /\ t[i] = s[i + n]
            /\ \A i \in DOMAIN s : i > n => i - n \in DOMAIN t
  BY DEF Rest

\* Nothing gets lost between the two.
LEMMA PrefixAndRest ==
  ASSUME NEW S, NEW s \in Seq(S), NEW n \in Nat
  PROVE  Range(s) = Range(Prefix(s, n)) \cup Range(Rest(s, n))
  <1>1. ASSUME NEW i \in DOMAIN s
        PROVE  s[i] \in Range(Prefix(s, n)) \cup Range(Rest(s, n))
    <2>1. Len(s) \in Nat /\ i \in 1..Len(s)
      OBVIOUS
    <2>2. CASE i <= n
      <3>1. i \in DOMAIN Prefix(s, n) /\ Prefix(s, n)[i] = s[i]
        BY <2>1, <2>2, PrefixIs
      <3> QED
        BY <3>1 DEF Range
    <2>3. CASE i > n
      <3>1. i - n \in DOMAIN Rest(s, n) /\ Rest(s, n)[i - n] = s[(i - n) + n]
        BY <2>1, <2>3, RestIs
      <3>2. (i - n) + n = i
        BY <2>1
      <3> QED
        BY <3>1, <3>2 DEF Range
    <2> QED
      BY <2>1, <2>2, <2>3
  <1>2. Range(Prefix(s, n)) \subseteq Range(s)
    BY PrefixIs DEF Range
  <1>3. Range(Rest(s, n)) \subseteq Range(s)
    BY RestIs DEF Range
  <1> QED
    BY <1>1, <1>2, <1>3 DEF Range

\* URLs become entries of no category.
LEMMA AtDepthIs ==
  ASSUME NEW us \in Seq(Urls), NEW d \in Nat
  PROVE  /\ AtDepth(us, d) \in Seq(Entries)
         /\ \A i \in DOMAIN AtDepth(us, d) : AtDepth(us, d)[i].key = NoKey
         /\ UrlsOf(AtDepth(us, d)) = Range(us)
  <1>1. /\ DOMAIN us = 1..Len(us) /\ Len(us) \in Nat
        /\ \A i \in DOMAIN us : us[i] \in Urls
    OBVIOUS
  <1>2. \A i \in DOMAIN us : [url |-> us[i], depth |-> d, key |-> NoKey] \in Entries
    BY <1>1 DEF Entries
  <1>3. AtDepth(us, d) \in Seq(Entries)
    BY <1>1, <1>2 DEF AtDepth
  <1>4. UrlsOf(AtDepth(us, d)) = Range(us)
    BY DEF UrlsOf, AtDepth, Range
  <1> QED
    BY <1>3, <1>4 DEF AtDepth

\* The children of a page are entries; their category is one the page may
\* pass on, and all it links to is among them unless it is too deep.
LEMMA ChildrenAre ==
  ASSUME NEW e \in Entries, NEW links \in Seq(Names)
  PROVE  /\ Children(e, links) \in Seq(Entries)
         /\ \A i \in DOMAIN Children(e, links) :
              Children(e, links)[i].key \in ({e.url} \cap Listings) \cup {e.key}
         /\ e.depth < MaxDepth =>
              \A i \in DOMAIN links : /\ i \in DOMAIN Children(e, links)
                                      /\ Children(e, links)[i].url = Norm[links[i]]
  <1>1. /\ e.url \in Urls /\ e.depth \in Nat /\ e.key \in Keys \cup {NoKey}
        /\ MaxDepth \in Nat
    BY BudgetAssumption DEF Entries
  <1>2. CASE e.depth >= MaxDepth
    BY <1>1, <1>2 DEF Children
  <1>3. CASE ~(e.depth >= MaxDepth)
    <2> DEFINE key == IF e.url \in Listings THEN e.url ELSE e.key
               child(i) == [url |-> Norm[links[i]], depth |-> e.depth + 1, key |-> key]
    <2>1. Children(e, links) = [i \in DOMAIN links |-> child(i)]
      BY <1>3 DEF Children
    <2>2. key \in Keys \cup {NoKey} /\ key \in ({e.url} \cap Listings) \cup {e.key}
      BY <1>1 DEF Keys
    <2> HIDE DEF key
    <2>3. /\ DOMAIN links = 1..Len(links) /\ Len(links) \in Nat
          /\ \A i \in DOMAIN links : links[i] \in Names
      OBVIOUS
    <2>4. \A i \in DOMAIN links : Norm[links[i]] \in Urls
      BY <2>3, StoreAssumption
    <2>5. \A i \in DOMAIN links : child(i) \in Entries
      BY <1>1, <2>2, <2>4 DEF Entries
    <2>6. Children(e, links) \in Seq(Entries)
      <3> HIDE DEF child
      <3> QED
        BY <2>1, <2>3, <2>5
    <2> QED
      BY <2>1, <2>2, <2>6
  <1> QED
    BY <1>2, <1>3

\* A wave that was fetched makes room for the next.
LEMMA FetchKeeps ==
  ASSUME NEW q, NEW r, NEW done, NEW dropped,
         Waiting(q, done), Excused(q, done, dropped),
         r.barred = q.barred, r.seen = q.seen, r.count = q.count, r.wave = <<>>
  PROVE  LET all == done \cup UrlsOf(q.wave)
         IN Waiting(r, all) /\ Excused(r, all, dropped)
  <1> DEFINE all == done \cup UrlsOf(q.wave)
  <1>1. UrlsOf(r.wave) = {} /\ DOMAIN r.wave = {}
    BY DEF UrlsOf
  <1>2. Waiting(r, all)
    BY <1>1 DEF Waiting
  <1>3. \A u : FullFor(q, done, u) => FullFor(r, all, u)
    BY DEF FullFor
  <1>4. Excused(r, all, dropped)
    BY <1>1, <1>3 DEF Excused
  <1> QED
    BY <1>2, <1>4

\* What is cut from a wave is known to have been cut.
LEMMA CutKeeps ==
  ASSUME NEW q \in Queues, NEW r, NEW done, NEW dropped, NEW n \in Nat,
         Waiting(q, done), Excused(q, done, dropped),
         r.barred = q.barred, r.seen = q.seen, r.count = q.count, r.wave = Prefix(q.wave, n)
  PROVE  LET rest == Rest(q.wave, Len(r.wave))
         IN /\ Waiting(r, done)
            /\ Excused(r, done, dropped \cup UrlsOf(rest))
            /\ Len(r.wave) \in Nat /\ Len(r.wave) <= n
            /\ UrlsOf(rest) # {} => Len(r.wave) = n
  <1> DEFINE w == q.wave
             rest == Rest(w, Len(r.wave))
  <1>1. w \in Seq(Entries) /\ Len(w) \in Nat
    BY DEF Queues
  <1>2. /\ r.wave \in Seq(Entries)
        /\ Len(r.wave) = IF n <= Len(w) THEN n ELSE Len(w)
        /\ DOMAIN r.wave \subseteq DOMAIN w
        /\ \A i \in DOMAIN r.wave : r.wave[i] = w[i]
    BY <1>1, PrefixIs
  <1>3. UrlsOf(r.wave) \subseteq UrlsOf(w)
    BY <1>2 DEF UrlsOf
  <1>4. UrlsOf(w) \subseteq UrlsOf(r.wave) \cup UrlsOf(rest)
    <2>1. ASSUME NEW i \in DOMAIN w
          PROVE  w[i].url \in UrlsOf(r.wave) \cup UrlsOf(rest)
      <3>1. CASE i <= Len(r.wave)
        <4>1. i \in DOMAIN r.wave /\ r.wave[i] = w[i]
          BY <1>1, <1>2, <3>1
        <4> QED
          BY <4>1 DEF UrlsOf
      <3>2. CASE i > Len(r.wave)
        <4> DEFINE m == Len(r.wave)
        <4>1. m \in Nat /\ i \in Nat /\ i > m /\ i \in DOMAIN w /\ w \in Seq(Entries)
          BY <1>1, <1>2, <3>2
        <4> HIDE DEF m, w
        <4>2. i - m \in DOMAIN Rest(w, m) /\ Rest(w, m)[i - m] = w[(i - m) + m]
          BY <4>1, RestIs
        <4>3. (i - m) + m = i
          BY <4>1
        <4> QED
          BY <4>2, <4>3 DEF UrlsOf, m
      <3> QED
        BY <1>1, <1>2, <3>1, <3>2
    <2> QED
      BY <2>1 DEF UrlsOf
  <1>5. Waiting(r, done)
    BY <1>2, <1>3 DEF Waiting
  <1>6. Excused(r, done, dropped \cup UrlsOf(rest))
    BY <1>4 DEF Excused, FullFor
  <1>7. UrlsOf(rest) # {} => Len(r.wave) = n
    <2>1. Len(r.wave) = Len(w) => rest = <<>>
      BY <1>1, RestIs
    <2> QED
      BY <1>2, <2>1 DEF UrlsOf
  <1> QED
    BY <1>1, <1>2, <1>5, <1>6, <1>7

-----------------------------------------------------------------------------
(* Budgets                                                                 *)

LEMMA ClampIs ==
  ASSUME NEW n \in Int
  PROVE  Clamp(n) \in 1..HardMax
  <1>1. HardMax \in Nat /\ HardMax >= 1
    BY BudgetAssumption
  <1>2. Min({n, HardMax}) \in Int /\ Min({n, HardMax}) <= HardMax
    BY <1>1, MinOfTwo
  <1> QED
    BY <1>1, <1>2, MaxOfTwo DEF Clamp

LEMMA AdaptiveIs ==
  ASSUME NEW products \in Nat, NEW total \in Nat, NEW configured \in Int
  PROVE  AdaptiveBudget(products, total, configured) \in Int
  <1>1. BudgetFloor \in Int /\ 2 * products + Overhead \in Int
    BY BudgetAssumption
  <1>2. Max({BudgetFloor, 2 * products + Overhead}) \in Int /\ Max({BudgetFloor, total}) \in Int
    BY <1>1, MaxOfTwo
  <1> QED
    BY <1>2 DEF AdaptiveBudget

LEMMA RoomIs ==
  ASSUME NEW got \in Seq(Pages), NEW budget \in 1..HardMax
  PROVE  /\ Room(got, budget) \in Nat
         /\ Len(got) <= budget => Room(got, budget) = budget - Len(got)
         /\ Len(got) > budget => Room(got, budget) = 0
  <1>1. budget \in Int /\ Len(got) \in Nat /\ budget - Len(got) \in Int
    BY BudgetAssumption
  <1> QED
    BY <1>1, MaxOfTwo DEF Room

-----------------------------------------------------------------------------
(* The invariant                                                           *)

\* A crawl as a queue whose wave is the one being fetched.
QueueOf(c) == [barred |-> barred[c], seen |-> seen[c], count |-> count[c], wave |-> wave[c]]

PagesOnce(c) == \A i, j \in DOMAIN pages[c] : pages[c][i].url = pages[c][j].url => i = j

\* Nothing was done yet.
Untouched(c) ==
  /\ wave[c] = <<>> /\ seen[c] = {} /\ pages[c] = <<>> /\ count[c] = [k \in Keys |-> 0]
  /\ barred[c] = {} /\ listed[c] = <<>> /\ later[c] = <<>> /\ cut[c] = {}

Stages(c) ==
  /\ pc[c] \in {"idle", "new"} => Untouched(c)
  /\ pc[c] = "fetch" => wave[c] # <<>>
  /\ pc[c] \in {"probe", "done"} => wave[c] = <<>>
  /\ pages[c] # <<>> => later[c] = <<>>

\* What a crawl fetched and fetches fits its budgets.
Within(c) ==
  LET size == Len(pages[c]) + Len(wave[c]) IN
  /\ size <= HardMax
  /\ mode[c] # "app" => size <= own[c] /\ (cut[c] # {} => size = own[c])

CrawlInv(c) ==
  /\ Waiting(QueueOf(c), Fetched(c))
  /\ Excused(QueueOf(c), Fetched(c), cut[c])
  /\ PagesOnce(c)
  /\ Known(c) \subseteq seen[c] \cup Range(later[c])
  /\ Stages(c)
  /\ Within(c)

Inv == TypeOK /\ \A c \in Crawls : CrawlInv(c)

\* The two page caps, and what is cut, are parts of it.
LEMMA InvBudgets ==
  Inv => PageCap /\ CutWhenFull
  BY DEF Inv, CrawlInv, Within, PageCap, CutWhenFull

LEMMA InvOnce ==
  ASSUME Inv
  PROVE  FetchedOnce
  <1> SUFFICES ASSUME NEW c \in Crawls
               PROVE  LET all == pages[c] \o [i \in DOMAIN wave[c] |-> [url |-> wave[c][i].url]]
                      IN \A i, j \in DOMAIN all : all[i].url = all[j].url => i = j
    BY DEF FetchedOnce
  <1> DEFINE p == pages[c]
             w == wave[c]
             v == [i \in DOMAIN w |-> [url |-> w[i].url]]
             all == p \o v
  <1>1. p \in Seq(Pages) /\ w \in Seq(Entries)
    BY DEF Inv, TypeOK
  <1>2. /\ \A i, j \in DOMAIN p : p[i].url = p[j].url => i = j
        /\ \A i, j \in DOMAIN w : w[i].url = w[j].url => i = j
        /\ \A i \in DOMAIN p, j \in DOMAIN w : p[i].url # w[j].url
    <2>1. QueueOf(c).wave = w
      BY DEF QueueOf
    <2>2. Waiting(QueueOf(c), Fetched(c)) /\ PagesOnce(c)
      BY DEF Inv, CrawlInv
    <2>3. Fetched(c) \cap UrlsOf(w) = {}
      BY <2>1, <2>2 DEF Waiting
    <2>4. \A i \in DOMAIN p : p[i].url \in Fetched(c)
      BY DEF Fetched, UrlsOf
    <2>5. \A j \in DOMAIN w : w[j].url \in UrlsOf(w)
      BY DEF UrlsOf
    <2>6. \A i, j \in DOMAIN w : w[i].url = w[j].url => i = j
      BY <2>1, <2>2 DEF Waiting
    <2> HIDE DEF w
    <2> QED
      BY <2>2, <2>3, <2>4, <2>5, <2>6 DEF PagesOnce
  <1> HIDE DEF p, w
  <1>3. /\ DOMAIN p = 1..Len(p) /\ Len(p) \in Nat
        /\ DOMAIN w = 1..Len(w) /\ Len(w) \in Nat
    BY <1>1
  <1>4. /\ DOMAIN v = 1..Len(w) /\ Len(v) = Len(w)
        /\ \A i \in 1..Len(w) : v[i].url = w[i].url
    BY <1>3
  <1> HIDE DEF v
  <1>5. /\ DOMAIN all = 1..(Len(p) + Len(w))
        /\ \A i \in 1..Len(p) : all[i] = p[i]
        /\ \A i \in 1..(Len(p) + Len(w)) : i > Len(p) => all[i] = v[i - Len(p)]
    BY <1>3, <1>4
  <1> HIDE DEF all
  <1>6. ASSUME NEW i \in DOMAIN all, i > Len(p)
        PROVE  i - Len(p) \in DOMAIN w /\ all[i].url = w[i - Len(p)].url
    BY <1>3, <1>4, <1>5, <1>6
  <1>7. ASSUME NEW i \in DOMAIN all, i <= Len(p)
        PROVE  i \in DOMAIN p /\ all[i] = p[i]
    BY <1>3, <1>5, <1>7
  <1>8. ASSUME NEW i \in DOMAIN all, NEW j \in DOMAIN all, all[i].url = all[j].url
        PROVE  i = j
    <2>1. i \in Nat /\ j \in Nat
      BY <1>3, <1>5
    <2>2. CASE i > Len(p) /\ j > Len(p)
      <3>1. i - Len(p) = j - Len(p)
        BY <1>2, <1>6, <1>8, <2>2
      <3> QED
        BY <1>3, <2>1, <3>1
    <2>3. CASE i <= Len(p) /\ j <= Len(p)
      BY <1>2, <1>7, <1>8, <2>3
    <2>4. CASE i <= Len(p) /\ j > Len(p)
      BY <1>2, <1>6, <1>7, <1>8, <2>4
    <2>5. CASE i > Len(p) /\ j <= Len(p)
      <3>1. p[j].url # w[i - Len(p)].url
        BY <1>2, <1>6, <1>7, <2>5
      <3> QED
        BY <1>6, <1>7, <1>8, <2>5, <3>1
    <2> QED
      BY <1>3, <2>1, <2>2, <2>3, <2>4, <2>5
  <1> QED
    BY <1>8 DEF all, v, p, w

\* A finished crawl that fetched anything holds nothing back.
LEMMA InvForgotten ==
  ASSUME Inv
  PROVE  NothingForgotten
  <1> SUFFICES ASSUME NEW c \in Crawls, pc[c] = "done", pages[c] # <<>>,
                      NEW u \in Known(c) \ (Fetched(c) \cup barred[c] \cup cut[c])
               PROVE  u \in ProductLike /\ \E k \in Categories(c, u) : count[c][k] = CategoryCap
    BY DEF NothingForgotten
  <1>1. CrawlInv(c)
    BY DEF Inv
  <1>2. wave[c] = <<>> /\ later[c] = <<>>
    BY <1>1 DEF CrawlInv, Stages
  <1>3. Range(later[c]) = {} /\ UrlsOf(wave[c]) = {}
    BY <1>2 DEF Range, UrlsOf
  <1>4. u \in seen[c]
    BY <1>1, <1>3 DEF CrawlInv
  <1>5. u \in ProductLike /\ FullFor(QueueOf(c), Fetched(c), u)
    BY <1>1, <1>3, <1>4 DEF CrawlInv, Excused, QueueOf
  <1> QED
    BY <1>5 DEF FullFor, QueueOf, Categories

-----------------------------------------------------------------------------
(* The steps                                                               *)

\* A crawl that did nothing yet, or lost all it did, satisfies the invariant.
Blank(c) == Untouched(c) /\ pc[c] \in {"idle", "new", "raised"} /\ own[c] \in 1..HardMax

BlankSound == \A c \in Crawls : Blank(c) => CrawlInv(c)

LEMMA UntouchedInv == BlankSound
  <1> SUFFICES ASSUME NEW c \in Crawls, Untouched(c), pc[c] \in {"idle", "new", "raised"},
                      own[c] \in 1..HardMax
               PROVE  CrawlInv(c)
    BY DEF BlankSound, Blank
  <1>1. UrlsOf(wave[c]) = {} /\ Fetched(c) = {} /\ Range(later[c]) = {} /\ DOMAIN wave[c] = {}
    BY DEF Untouched, UrlsOf, Fetched, Range
  <1>2. Waiting(QueueOf(c), Fetched(c))
    BY <1>1 DEF Waiting, QueueOf, Untouched
  <1>3. Excused(QueueOf(c), Fetched(c), cut[c])
    BY <1>1, BudgetAssumption DEF Excused, QueueOf, Untouched
  <1>4. Known(c) = {}
    BY DEF Known, Untouched
  <1>5. PagesOnce(c) /\ Stages(c)
    BY DEF PagesOnce, Stages, Untouched
  <1>6. Within(c)
    BY BudgetAssumption DEF Within, Untouched
  <1> QED
    BY <1>2, <1>3, <1>4, <1>5, <1>6 DEF CrawlInv

LEMMA InitInv ==
  Init => Inv
  <1> SUFFICES ASSUME Init
               PROVE  Inv
    OBVIOUS
  <1>1. TypeOK
    <2>1. Default \in 1..HardMax
      BY BudgetAssumption
    <2> QED
      BY <2>1 DEF Init, TypeOK
  <1>2. ASSUME NEW c \in Crawls
        PROVE  Blank(c)
    BY BudgetAssumption DEF Init, Untouched, Blank
  <1> QED
    BY <1>1, <1>2, UntouchedInv DEF Inv, BlankSound

\* The invariant of a crawl speaks of nothing else, not even of the
\* settings that crawls share.
SameCrawl(c) ==
  /\ own'[c] = own[c] /\ mode'[c] = mode[c] /\ pc'[c] = pc[c] /\ wave'[c] = wave[c]
  /\ seen'[c] = seen[c] /\ pages'[c] = pages[c] /\ count'[c] = count[c] /\ barred'[c] = barred[c]
  /\ listed'[c] = listed[c] /\ later'[c] = later[c] /\ cut'[c] = cut[c]

LEMMA SameInv ==
  ASSUME NEW c \in Crawls, CrawlInv(c), SameCrawl(c)
  PROVE  CrawlInv(c)'
  <1>1. /\ QueueOf(c)' = QueueOf(c) /\ Fetched(c)' = Fetched(c) /\ Known(c)' = Known(c)
        /\ cut'[c] = cut[c] /\ seen'[c] = seen[c] /\ later'[c] = later[c]
    BY DEF SameCrawl, QueueOf, Fetched, Known
  <1>2. Waiting(QueueOf(c), Fetched(c))' /\ Excused(QueueOf(c), Fetched(c), cut[c])'
    BY <1>1 DEF CrawlInv, Waiting, Excused, FullFor
  <1>3. (Known(c) \subseteq seen[c] \cup Range(later[c]))'
    BY <1>1 DEF CrawlInv
  <1>4. PagesOnce(c)' /\ Stages(c)' /\ Within(c)'
    BY DEF CrawlInv, SameCrawl, PagesOnce, Stages, Untouched, Within
  <1> QED
    BY <1>2, <1>3, <1>4 DEF CrawlInv

\* So it is enough to look at the crawl that makes a step.
LEMMA OneCrawl ==
  ASSUME Inv, TypeOK', NEW c \in Crawls, CrawlInv(c)',
         \A d \in Crawls \ {c} : SameCrawl(d)
  PROVE  Inv'
  <1>1. ASSUME NEW d \in Crawls \ {c}
        PROVE  CrawlInv(d)'
    BY <1>1, SameInv DEF Inv
  <1> QED
    BY <1>1 DEF Inv

LEMMA LaunchKeeps ==
  ASSUME Inv, NEW c \in Crawls, Launch(c)
  PROVE  Inv'
  <1>1. TypeOK /\ CrawlInv(c) /\ pc[c] = "idle"
    BY DEF Inv, Launch
  <1>2. /\ pc' = [pc EXCEPT ![c] = "new"]
        /\ own' = [own EXCEPT ![c] = IF mode[c] = "explicit" THEN Requested ELSE app]
        /\ UNCHANGED <<app, mode, wave, seen, pages, count, barred, listed, later, cut>>
    BY DEF Launch
  <1>3. Requested \in 1..HardMax /\ app \in 1..HardMax
    BY <1>1, BudgetAssumption DEF TypeOK
  <1>4. TypeOK'
    BY <1>1, <1>2, <1>3 DEF TypeOK
  <1>5. Untouched(c)
    BY <1>1 DEF CrawlInv, Stages
  <1>6. Blank(c)'
    BY <1>1, <1>2, <1>3, <1>5 DEF Blank, Untouched, TypeOK
  <1>7. BlankSound'
    BY UntouchedInv, PTL
  <1>8. CrawlInv(c)'
    BY <1>6, <1>7 DEF BlankSound
  <1>9. \A d \in Crawls \ {c} : SameCrawl(d)
    BY <1>1, <1>2 DEF SameCrawl, TypeOK
  <1> QED
    BY <1>4, <1>8, <1>9, OneCrawl

LEMMA RaiseKeeps ==
  ASSUME Inv, NEW c \in Crawls, Raise(c)
  PROVE  Inv'
  <1>1. TypeOK
    BY DEF Inv
  <1>2. TypeOK'
    BY <1>1 DEF TypeOK, Raise
  <1>3. Blank(c)'
    BY <1>1 DEF Blank, Untouched, TypeOK, Raise
  <1>4. BlankSound'
    BY UntouchedInv, PTL
  <1>5. CrawlInv(c)'
    BY <1>3, <1>4 DEF BlankSound
  <1>6. \A d \in Crawls \ {c} : SameCrawl(d)
    BY <1>1 DEF SameCrawl, TypeOK, Raise
  <1> QED
    BY <1>2, <1>5, <1>6, OneCrawl

LEMMA BarredKeeps ==
  ASSUME Inv, NEW c \in Crawls, Barred(c)
  PROVE  Inv'
  <1>1. TypeOK /\ CrawlInv(c) /\ pc[c] = "new"
    BY DEF Inv, Barred
  <1>2. PICK rules \in Robots : barred' = [barred EXCEPT ![c] = rules]
    BY DEF Barred
  <1>3. rules \in SUBSET Urls
    BY StoreAssumption
  <1>4. /\ pc' = [pc EXCEPT ![c] = "done"]
        /\ UNCHANGED <<app, own, mode, wave, seen, pages, count, listed, later, cut>>
    BY DEF Barred
  <1>5. TypeOK'
    BY <1>1, <1>2, <1>3, <1>4 DEF TypeOK
  <1>6. Untouched(c)
    BY <1>1 DEF CrawlInv, Stages
  <1>7. /\ Fetched(c)' = {} /\ UrlsOf(wave[c])' = {} /\ Range(later[c])' = {} /\ Known(c)' = {}
        /\ wave'[c] = <<>> /\ pages'[c] = <<>> /\ seen'[c] = {} /\ cut'[c] = {}
        /\ count'[c] = [k \in Keys |-> 0]
    BY <1>4, <1>6 DEF Untouched, Fetched, UrlsOf, Range, Known
  <1>8. Waiting(QueueOf(c), Fetched(c))'
    BY <1>7 DEF Waiting, QueueOf, UrlsOf
  <1>9. Excused(QueueOf(c), Fetched(c), cut[c])'
    BY <1>7, BudgetAssumption DEF Excused, QueueOf
  <1>10. PagesOnce(c)' /\ Stages(c)'
    BY <1>1, <1>4, <1>7 DEF PagesOnce, Stages, TypeOK
  <1>11. Within(c)'
    <2>1. own'[c] \in 1..HardMax
      BY <1>5 DEF TypeOK
    <2> QED
      BY <1>7, <2>1, BudgetAssumption DEF Within
  <1>12. CrawlInv(c)'
    BY <1>7, <1>8, <1>9, <1>10, <1>11 DEF CrawlInv
  <1>13. \A d \in Crawls \ {c} : SameCrawl(d)
    BY <1>1, <1>2, <1>4 DEF SameCrawl, TypeOK
  <1> QED
    BY <1>5, <1>12, <1>13, OneCrawl

LEMMA ProbeKeeps ==
  ASSUME Inv, NEW c \in Crawls, Probe(c)
  PROVE  Inv'
  <1>1. TypeOK /\ CrawlInv(c) /\ pc[c] = "probe"
    BY DEF Inv, Probe
  <1>2. /\ pc' = [pc EXCEPT ![c] = "done"]
        /\ UNCHANGED <<app, own, mode, wave, seen, pages, count, barred, listed, later, cut>>
    BY DEF Probe
  <1>3. TypeOK' /\ pc'[c] = "done"
    BY <1>1, <1>2 DEF TypeOK
  <1>4. QueueOf(c)' = QueueOf(c) /\ Fetched(c)' = Fetched(c) /\ Known(c)' = Known(c)
    BY <1>2 DEF QueueOf, Fetched, Known
  <1>5. Waiting(QueueOf(c), Fetched(c))' /\ Excused(QueueOf(c), Fetched(c), cut[c])'
    BY <1>1, <1>2, <1>4 DEF CrawlInv, Waiting, Excused, FullFor
  <1>6. PagesOnce(c)' /\ Within(c)' /\ (Known(c) \subseteq seen[c] \cup Range(later[c]))'
    BY <1>1, <1>2, <1>4 DEF CrawlInv, PagesOnce, Within
  <1>7. Stages(c)'
    BY <1>1, <1>2, <1>3 DEF CrawlInv, Stages
  <1>8. CrawlInv(c)'
    BY <1>5, <1>6, <1>7 DEF CrawlInv
  <1>9. \A d \in Crawls \ {c} : SameCrawl(d)
    BY <1>1, <1>2 DEF SameCrawl, TypeOK
  <1> QED
    BY <1>3, <1>8, <1>9, OneCrawl

LEMMA SeqOf ==
  ASSUME NEW S, NEW T, NEW s \in Seq(S), \A i \in DOMAIN s : s[i] \in T
  PROVE  s \in Seq(T)
  <1>1. s = [i \in 1..Len(s) |-> s[i]] /\ Len(s) \in Nat /\ DOMAIN s = 1..Len(s)
    OBVIOUS
  <1> QED
    BY <1>1

\* One sequence after the other: the elements of both.
LEMMA ConcatIs ==
  ASSUME NEW S, NEW s \in Seq(S), NEW t \in Seq(S)
  PROVE  /\ s \o t \in Seq(S)
         /\ Len(s \o t) = Len(s) + Len(t)
         /\ Range(s \o t) = Range(s) \cup Range(t)
         /\ UrlsOf(s \o t) = UrlsOf(s) \cup UrlsOf(t)
         /\ \A i \in DOMAIN s : i \in DOMAIN (s \o t) /\ (s \o t)[i] = s[i]
         /\ \A i \in DOMAIN (s \o t) :
              \/ i \in DOMAIN s /\ (s \o t)[i] = s[i]
              \/ i - Len(s) \in DOMAIN t /\ (s \o t)[i] = t[i - Len(s)]
  <1> DEFINE st == s \o t
  <1>1. /\ st \in Seq(S) /\ Len(st) = Len(s) + Len(t)
        /\ DOMAIN s = 1..Len(s) /\ DOMAIN t = 1..Len(t) /\ DOMAIN st = 1..(Len(s) + Len(t))
        /\ Len(s) \in Nat /\ Len(t) \in Nat
    OBVIOUS
  <1>2. \A i \in DOMAIN s : i \in DOMAIN st /\ st[i] = s[i]
    BY <1>1
  <1>3. \A i \in DOMAIN t : Len(s) + i \in DOMAIN st /\ st[Len(s) + i] = t[i]
    BY <1>1
  <1>4. \A i \in DOMAIN st :
          \/ i \in DOMAIN s /\ st[i] = s[i]
          \/ i - Len(s) \in DOMAIN t /\ st[i] = t[i - Len(s)]
    BY <1>1
  <1> HIDE DEF st
  <1>5. Range(st) = Range(s) \cup Range(t)
    BY <1>2, <1>3, <1>4 DEF Range
  <1>6. UrlsOf(st) = UrlsOf(s) \cup UrlsOf(t)
    BY <1>2, <1>3, <1>4 DEF UrlsOf
  <1> QED
    BY <1>1, <1>2, <1>4, <1>5, <1>6 DEF st

\* At the end of a turn the queue is the crawl's, cut to the room there is.
LEMMA TurnKeeps ==
  ASSUME TypeOK, NEW c \in Crawls, NEW q \in Queues, NEW got \in Seq(Pages),
         NEW budget \in 1..HardMax, Turn(c, q, got, budget), barred'[c] = q.barred,
         Waiting(q, UrlsOf(got)), Excused(q, UrlsOf(got), cut[c])
  PROVE  /\ pages' \in [Crawls -> Seq(Pages)] /\ seen' \in [Crawls -> SUBSET Urls]
         /\ count' \in [Crawls -> [Keys -> Nat]] /\ wave' \in [Crawls -> Seq(Entries)]
         /\ cut' \in [Crawls -> SUBSET Urls]
         /\ pc' \in [Crawls -> {"idle", "new", "fetch", "probe", "done", "raised"}]
         /\ pages'[c] = got /\ seen'[c] = q.seen
         /\ pc'[c] = IF wave'[c] = <<>> THEN "probe" ELSE "fetch"
         /\ Waiting(QueueOf(c), Fetched(c))'
         /\ Excused(QueueOf(c), Fetched(c), cut[c])'
         /\ Len(wave'[c]) \in Nat /\ Len(wave'[c]) <= Room(got, budget)
         /\ cut'[c] # {} => cut[c] # {} \/ Len(wave'[c]) = Room(got, budget)
         /\ \A d \in Crawls \ {c} :
              /\ pages'[d] = pages[d] /\ seen'[d] = seen[d] /\ count'[d] = count[d]
              /\ wave'[d] = wave[d] /\ cut'[d] = cut[d] /\ pc'[d] = pc[d]
  <1> DEFINE room == Room(got, budget)
             next == Prefix(q.wave, room)
             rest == Rest(q.wave, Len(next))
             r == [barred |-> q.barred, seen |-> q.seen, count |-> q.count, wave |-> next]
  <1>1. /\ q.wave \in Seq(Entries) /\ q.seen \in SUBSET Urls /\ q.count \in [Keys -> Nat]
        /\ room \in Nat
    BY RoomIs DEF Queues
  <1>2. /\ pages' = [pages EXCEPT ![c] = got]
        /\ seen' = [seen EXCEPT ![c] = q.seen]
        /\ count' = [count EXCEPT ![c] = q.count]
        /\ wave' = [wave EXCEPT ![c] = next]
        /\ cut' = [cut EXCEPT ![c] = @ \cup UrlsOf(rest)]
        /\ pc' = [pc EXCEPT ![c] = IF next = <<>> THEN "probe" ELSE "fetch"]
    BY DEF Turn
  <1> HIDE DEF room
  <1>3. next \in Seq(Entries) /\ Len(next) \in Nat
    BY <1>1, PrefixIs
  <1>4. rest \in Seq(Entries)
    <2> HIDE DEF next
    <2> QED
      BY <1>1, <1>3, RestIs
  <1>5. UrlsOf(rest) \subseteq Urls
    <2> HIDE DEF rest
    <2>1. \A i \in DOMAIN rest : rest[i] \in Entries
      BY <1>4
    <2>2. \A e \in Entries : e.url \in Urls
      BY DEF Entries
    <2> QED
      BY <2>1, <2>2 DEF UrlsOf
  <1>6. /\ Waiting(r, UrlsOf(got))
        /\ Excused(r, UrlsOf(got), cut[c] \cup UrlsOf(rest))
        /\ Len(next) <= room
        /\ UrlsOf(rest) # {} => Len(next) = room
    <2>1. r.barred = q.barred /\ r.seen = q.seen /\ r.count = q.count /\ r.wave = next
      OBVIOUS
    <2> HIDE DEF r
    <2> QED
      BY <1>1, <2>1, CutKeeps
  <1> HIDE DEF next, rest
  <1>7. /\ pages'[c] = got /\ seen'[c] = q.seen /\ count'[c] = q.count /\ wave'[c] = next
        /\ cut'[c] = cut[c] \cup UrlsOf(rest)
        /\ pc'[c] = IF next = <<>> THEN "probe" ELSE "fetch"
    BY <1>2 DEF TypeOK
  <1>8. /\ pages' \in [Crawls -> Seq(Pages)] /\ seen' \in [Crawls -> SUBSET Urls]
        /\ count' \in [Crawls -> [Keys -> Nat]] /\ wave' \in [Crawls -> Seq(Entries)]
    BY <1>1, <1>2, <1>3 DEF TypeOK
  <1>9. /\ cut' \in [Crawls -> SUBSET Urls]
        /\ pc' \in [Crawls -> {"idle", "new", "fetch", "probe", "done", "raised"}]
    BY <1>2, <1>5 DEF TypeOK
  <1>10. QueueOf(c)' = r /\ Fetched(c)' = UrlsOf(got)
    BY <1>7 DEF QueueOf, Fetched
  <1> HIDE DEF r
  <1>11. Waiting(QueueOf(c), Fetched(c))'
    BY <1>6, <1>10 DEF Waiting
  <1>12. Excused(QueueOf(c), Fetched(c), cut[c])'
    BY <1>6, <1>7, <1>10 DEF Excused, FullFor
  <1>13. \A d \in Crawls \ {c} :
           /\ pages'[d] = pages[d] /\ seen'[d] = seen[d] /\ count'[d] = count[d]
           /\ wave'[d] = wave[d] /\ cut'[d] = cut[d] /\ pc'[d] = pc[d]
    BY <1>2 DEF TypeOK
  <1>14. cut'[c] # {} => cut[c] # {} \/ Len(wave'[c]) = room
    BY <1>6, <1>7
  <1> QED
    BY <1>3, <1>6, <1>7, <1>8, <1>9, <1>11, <1>12, <1>13, <1>14 DEF room

\* The wave is fetched: its pages are new, their children and what was held
\* back are queued, and with that all they link to was seen.
LEMMA GatherKeeps ==
  ASSUME Inv, NEW c \in Crawls, Gather(c)
  PROVE  Inv'
  <1> DEFINE w == wave[c]
             p == pages[c]
             all == Fetched(c) \cup UrlsOf(w)
             T == {e \in Entries : e.key \in (Listings \cap all) \cup {NoKey}}
             rest == AtDepth(later[c], w[1].depth + 1)
             queue == [barred |-> barred[c], seen |-> seen[c], count |-> count[c], wave |-> <<>>]
  <1>1. TypeOK /\ CrawlInv(c) /\ pc[c] = "fetch"
    BY DEF Inv, Gather
  <1>2. PICK found \in [DOMAIN w -> UNION {Links[u] : u \in Urls}] :
          /\ \A i \in DOMAIN w : found[i] \in Links[w[i].url]
          /\ LET kids == RoundRobin([i \in DOMAIN w |-> Children(w[i], found[i])])
                 got == [i \in DOMAIN w |-> [url |-> w[i].url, depth |-> w[i].depth, links |-> found[i]]]
             IN Turn(c, EnqueueAll(queue, kids \o rest), p \o got, Budget(c))
    BY DEF Gather
  <1>3. later' = [later EXCEPT ![c] = <<>>] /\ UNCHANGED <<app, own, mode, barred, listed>>
    BY DEF Gather
  <1> DEFINE lists == [i \in DOMAIN w |-> Children(w[i], found[i])]
             kids == RoundRobin(lists)
             got == [i \in DOMAIN w |-> [url |-> w[i].url, depth |-> w[i].depth, links |-> found[i]]]
             q == EnqueueAll(queue, kids \o rest)
  <1>4. /\ w \in Seq(Entries) /\ w # <<>> /\ p \in Seq(Pages) /\ later[c] \in Seq(Urls)
        /\ DOMAIN w = 1..Len(w) /\ Len(w) \in Nat /\ 1 \in DOMAIN w
    <2>1. w \in Seq(Entries) /\ w # <<>> /\ p \in Seq(Pages) /\ later[c] \in Seq(Urls)
      BY <1>1 DEF TypeOK, CrawlInv, Stages
    <2> HIDE DEF w
    <2> QED
      BY <2>1
  <1>5. /\ Waiting(QueueOf(c), Fetched(c)) /\ Excused(QueueOf(c), Fetched(c), cut[c])
        /\ QueueOf(c).wave = w
    BY <1>1 DEF CrawlInv, QueueOf
  <1>6. /\ \A i \in DOMAIN w : w[i] \in Entries /\ w[i].url \in Urls /\ w[i].depth \in Nat
        /\ \A i \in DOMAIN w : w[i].key \in (Listings \cap Fetched(c)) \cup {NoKey}
        /\ \A i \in DOMAIN w : w[i].url \in UrlsOf(w)
    <2>1. \A i \in DOMAIN w : w[i] \in Entries
      <3> HIDE DEF w
      <3> QED
        BY <1>4
    <2>2. \A e \in Entries : e.url \in Urls /\ e.depth \in Nat
      BY DEF Entries
    <2> HIDE DEF w
    <2>3. \A i \in DOMAIN w : w[i].key \in (Listings \cap Fetched(c)) \cup {NoKey}
      BY <1>5 DEF Waiting
    <2> QED
      BY <2>1, <2>2, <2>3 DEF UrlsOf
  <1>7. \A i \in DOMAIN w : found[i] \in Seq(Names)
    BY <1>2, <1>6, StoreAssumption
  <1> HIDE DEF w, p, rest
  <1>8. \A i \in DOMAIN w : /\ Children(w[i], found[i]) \in Seq(T)
                            /\ w[i].depth < MaxDepth =>
                                 \A j \in DOMAIN found[i] :
                                   /\ j \in DOMAIN Children(w[i], found[i])
                                   /\ Children(w[i], found[i])[j].url = Norm[found[i][j]]
    <2> TAKE i \in DOMAIN w
    <2> DEFINE kid == Children(w[i], found[i])
    <2>1. /\ kid \in Seq(Entries)
          /\ \A j \in DOMAIN kid : kid[j].key \in ({w[i].url} \cap Listings) \cup {w[i].key}
          /\ w[i].depth < MaxDepth =>
               \A j \in DOMAIN found[i] : j \in DOMAIN kid /\ kid[j].url = Norm[found[i][j]]
      BY <1>6, <1>7, ChildrenAre
    <2> HIDE DEF kid
    <2>2. \A j \in DOMAIN kid : kid[j] \in Entries
      BY <2>1
    <2>3. \A j \in DOMAIN kid : kid[j] \in T
      BY <1>6, <2>1, <2>2
    <2> HIDE DEF T
    <2>4. kid \in Seq(T)
      BY <2>1, <2>3, SeqOf
    <2> QED
      BY <2>1, <2>4 DEF kid
  <1>9. lists \in Seq(Seq(T)) /\ DOMAIN lists = DOMAIN w
    <2> HIDE DEF T
    <2> QED
      BY <1>4, <1>8
  <1>10. /\ kids \in Seq(T)
         /\ \A i \in DOMAIN w : w[i].depth < MaxDepth =>
              \A j \in DOMAIN found[i] : Norm[found[i][j]] \in UrlsOf(kids)
    <2>1. /\ kids \in Seq(T)
          /\ \A i \in DOMAIN lists : \A m \in DOMAIN lists[i] : lists[i][m] \in Range(kids)
      <3> HIDE DEF T, lists
      <3> QED
        BY <1>9, RoundRobinIs
    <2> HIDE DEF kids, T
    <2>2. \A e \in Range(kids) : e.url \in UrlsOf(kids)
      BY DEF Range, UrlsOf
    <2> QED
      BY <1>8, <2>1, <2>2
  <1> HIDE DEF kids, lists
  <1>11. rest \in Seq(T) /\ UrlsOf(rest) = Range(later[c])
    <2>1. w[1].depth + 1 \in Nat
      BY <1>4, <1>6
    <2>2. /\ rest \in Seq(Entries) /\ UrlsOf(rest) = Range(later[c])
          /\ \A i \in DOMAIN rest : rest[i].key = NoKey
      BY <1>4, <2>1, AtDepthIs DEF rest
    <2>3. \A i \in DOMAIN rest : rest[i] \in Entries
      BY <2>2
    <2>4. \A i \in DOMAIN rest : rest[i] \in T
      BY <2>2, <2>3
    <2> HIDE DEF T
    <2> QED
      BY <2>2, <2>4, SeqOf
  <1>12. /\ kids \o rest \in Seq(Entries)
         /\ \A i \in DOMAIN (kids \o rest) : (kids \o rest)[i].key \in (Listings \cap all) \cup {NoKey}
         /\ UrlsOf(kids \o rest) = UrlsOf(kids) \cup Range(later[c])
    <2> DEFINE es == kids \o rest
    <2>1. es \in Seq(T) /\ UrlsOf(es) = UrlsOf(kids) \cup UrlsOf(rest)
      <3> HIDE DEF T
      <3> QED
        BY <1>10, <1>11, ConcatIs
    <2> HIDE DEF es
    <2>2. \A i \in DOMAIN es : es[i] \in T
      <3> HIDE DEF T
      <3> QED
        BY <2>1
    <2>3. \A i \in DOMAIN es : es[i] \in Entries /\ es[i].key \in (Listings \cap all) \cup {NoKey}
      BY <2>2
    <2>4. es \in Seq(Entries)
      <3> HIDE DEF T
      <3> QED
        BY <2>1, <2>3, SeqOf
    <2> QED
      BY <1>11, <2>1, <2>3, <2>4 DEF es
  <1>13. queue \in Queues /\ Waiting(queue, all) /\ Excused(queue, all, cut[c])
    <2>1. queue \in Queues
      BY <1>1 DEF TypeOK, Queues
    <2>2. /\ queue.barred = QueueOf(c).barred /\ queue.seen = QueueOf(c).seen
          /\ queue.count = QueueOf(c).count /\ queue.wave = <<>>
      BY DEF QueueOf
    <2>3. queue.seen = seen[c]
      OBVIOUS
    <2> HIDE DEF queue
    <2> QED
      BY <1>5, <2>1, <2>2, FetchKeeps
  <1>14. queue.seen = seen[c] /\ queue.barred = barred[c]
    OBVIOUS
  <1> HIDE DEF queue, all
  <1>15. /\ q \in Queues /\ q.barred = barred[c]
         /\ seen[c] \cup UrlsOf(kids) \cup Range(later[c]) \subseteq q.seen
         /\ Waiting(q, all) /\ Excused(q, all, cut[c])
    BY <1>12, <1>13, <1>14, EnqueueAllKeeps
  <1> HIDE DEF q
  <1>16. /\ got \in Seq(Pages) /\ DOMAIN got = DOMAIN w /\ Len(got) = Len(w)
         /\ \A i \in DOMAIN w : /\ got[i].url = w[i].url /\ got[i].depth = w[i].depth
                                /\ got[i].links = found[i]
         /\ UrlsOf(got) = UrlsOf(w)
    <2> DEFINE page(i) == [url |-> w[i].url, depth |-> w[i].depth, links |-> found[i]]
    <2>1. \A i \in DOMAIN w : page(i) \in Pages
      BY <1>6, <1>7 DEF Pages
    <2>2. got = [i \in DOMAIN w |-> page(i)]
      OBVIOUS
    <2>3. \A i \in DOMAIN w : page(i).url = w[i].url /\ page(i).depth = w[i].depth /\ page(i).links = found[i]
      OBVIOUS
    <2> HIDE DEF page, got
    <2>4. got \in Seq(Pages) /\ DOMAIN got = DOMAIN w /\ Len(got) = Len(w)
      BY <1>4, <2>1, <2>2
    <2> QED
      BY <2>2, <2>3, <2>4 DEF UrlsOf
  <1> HIDE DEF got
  <1> DEFINE ps == p \o got
  <1>17. /\ ps \in Seq(Pages) /\ Len(ps) = Len(p) + Len(w) /\ UrlsOf(ps) = all
         /\ \A i \in DOMAIN ps :
              \/ i \in DOMAIN p /\ ps[i] = p[i]
              \/ i - Len(p) \in DOMAIN w /\ ps[i] = got[i - Len(p)]
    <2>1. UrlsOf(p) = Fetched(c)
      BY DEF Fetched, p
    <2>2. p \in Seq(Pages) /\ got \in Seq(Pages)
      BY <1>4, <1>16
    <2>3. /\ p \o got \in Seq(Pages)
          /\ Len(p \o got) = Len(p) + Len(got)
          /\ UrlsOf(p \o got) = UrlsOf(p) \cup UrlsOf(got)
          /\ \A i \in DOMAIN (p \o got) :
               \/ i \in DOMAIN p /\ (p \o got)[i] = p[i]
               \/ i - Len(p) \in DOMAIN got /\ (p \o got)[i] = got[i - Len(p)]
      BY <2>2, ConcatIs
    <2> HIDE DEF ps
    <2> QED
      BY <1>16, <2>1, <2>3 DEF all, ps
  <1>18. Budget(c) \in 1..HardMax
    BY <1>1 DEF Budget, TypeOK
  <1>19. PICK n \in 1..HardMax : n = Budget(c)
    BY <1>18
  <1>20. Turn(c, q, ps, n)
    BY <1>2, <1>19 DEF q, kids, lists, got, rest, p, w
  <1> HIDE DEF ps
  <1>21. barred'[c] = q.barred
    BY <1>3, <1>15
  <1>22. /\ pages' \in [Crawls -> Seq(Pages)] /\ seen' \in [Crawls -> SUBSET Urls]
         /\ count' \in [Crawls -> [Keys -> Nat]] /\ wave' \in [Crawls -> Seq(Entries)]
         /\ cut' \in [Crawls -> SUBSET Urls]
         /\ pc' \in [Crawls -> {"idle", "new", "fetch", "probe", "done", "raised"}]
         /\ pages'[c] = ps /\ seen'[c] = q.seen
         /\ pc'[c] = IF wave'[c] = <<>> THEN "probe" ELSE "fetch"
         /\ Waiting(QueueOf(c), Fetched(c))'
         /\ Excused(QueueOf(c), Fetched(c), cut[c])'
         /\ Len(wave'[c]) \in Nat /\ Len(wave'[c]) <= Room(ps, n)
         /\ cut'[c] # {} => cut[c] # {} \/ Len(wave'[c]) = Room(ps, n)
         /\ \A d \in Crawls \ {c} :
              /\ pages'[d] = pages[d] /\ seen'[d] = seen[d] /\ count'[d] = count[d]
              /\ wave'[d] = wave[d] /\ cut'[d] = cut[d] /\ pc'[d] = pc[d]
    BY <1>1, <1>15, <1>17, <1>20, <1>21, TurnKeeps
  <1>23. TypeOK'
    <2>1. /\ app' \in 1..HardMax /\ own' \in [Crawls -> 1..HardMax] /\ mode' \in [Crawls -> Modes]
          /\ barred' \in [Crawls -> SUBSET Urls] /\ listed' \in [Crawls -> Seq(Names)]
      BY <1>1, <1>3 DEF TypeOK
    <2>2. later' \in [Crawls -> Seq(Urls)]
      BY <1>1, <1>3 DEF TypeOK
    <2> QED
      BY <1>22, <2>1, <2>2 DEF TypeOK
  <1>24. later'[c] = <<>> /\ listed'[c] = listed[c] /\ own'[c] = own[c] /\ mode'[c] = mode[c]
    BY <1>1, <1>3 DEF TypeOK
  <1>25. PagesOnce(c)'
    <2>1. /\ \A i, j \in DOMAIN p : p[i].url = p[j].url => i = j
          /\ \A i, j \in DOMAIN w : w[i].url = w[j].url => i = j
          /\ \A i \in DOMAIN p, j \in DOMAIN w : p[i].url # w[j].url
      <3>1. \A i \in DOMAIN p : p[i].url \in Fetched(c)
        BY DEF Fetched, UrlsOf, p
      <3>2. Fetched(c) \cap UrlsOf(w) = {} /\ \A i, j \in DOMAIN w : w[i].url = w[j].url => i = j
        BY <1>5 DEF Waiting
      <3>3. \A i, j \in DOMAIN p : p[i].url = p[j].url => i = j
        BY <1>1 DEF CrawlInv, PagesOnce, p
      <3> QED
        BY <1>6, <3>1, <3>2, <3>3
    <2>2. \A i \in DOMAIN ps :
            \/ i \in DOMAIN p /\ ps[i].url = p[i].url
            \/ i - Len(p) \in DOMAIN w /\ ps[i].url = w[i - Len(p)].url
      BY <1>16, <1>17
    <2>3. DOMAIN ps \subseteq Int /\ Len(p) \in Int
      BY <1>4, <1>17
    <2>4. \A i, j \in DOMAIN ps : i - Len(p) = j - Len(p) => i = j
      BY <2>3
    <2>5. ASSUME NEW i \in DOMAIN ps, NEW j \in DOMAIN ps, ps[i].url = ps[j].url
          PROVE  i = j
      BY <2>1, <2>2, <2>4, <2>5
    <2> QED
      BY <1>22, <2>5 DEF PagesOnce
  <1>26. (Known(c) \subseteq seen[c] \cup Range(later[c]))'
    <2>1. Known(c) \subseteq q.seen
      BY <1>1, <1>15 DEF CrawlInv
    <2>2. \A i \in DOMAIN listed[c] : Norm[listed[c][i]] \in q.seen \cup External
      BY <2>1 DEF Known
    <2>3. \A i \in DOMAIN p : p[i].depth < MaxDepth =>
            \A j \in DOMAIN p[i].links : Norm[p[i].links[j]] \in q.seen \cup External
      BY <2>1 DEF Known, p
    <2>4. \A i \in DOMAIN w : got[i].depth < MaxDepth =>
            \A j \in DOMAIN got[i].links : Norm[got[i].links[j]] \in q.seen
      BY <1>10, <1>15, <1>16
    <2>5. \A i \in DOMAIN ps : ps[i].depth < MaxDepth =>
            \A j \in DOMAIN ps[i].links : Norm[ps[i].links[j]] \in q.seen \cup External
      BY <1>17, <2>3, <2>4
    <2>6. Known(c)' \subseteq q.seen
      BY <1>22, <1>24, <2>2, <2>5 DEF Known
    <2> QED
      BY <1>22, <2>6
  <1>27. Stages(c)'
    BY <1>22, <1>24 DEF Stages
  <1>28. Within(c)'
    <2>1. /\ Len(ps) <= HardMax /\ Len(ps) \in Nat /\ n \in Nat /\ n <= HardMax /\ HardMax \in Nat
          /\ mode[c] # "app" => Len(ps) <= own[c] /\ (cut[c] # {} => Len(ps) = own[c]) /\ n = own[c]
      <3>1. Len(p) + Len(w) <= HardMax
        BY <1>1 DEF CrawlInv, Within, p, w
      <3>2. mode[c] # "app" => Len(p) + Len(w) <= own[c] /\ (cut[c] # {} => Len(p) + Len(w) = own[c])
        BY <1>1 DEF CrawlInv, Within, p, w
      <3>3. mode[c] # "app" => n = own[c]
        BY <1>19 DEF Budget
      <3>4. Len(ps) \in Nat /\ n \in Nat /\ n <= HardMax /\ HardMax \in Nat
        BY <1>17, BudgetAssumption
      <3> QED
        BY <1>17, <3>1, <3>2, <3>3, <3>4
    <2>2. /\ Len(ps) <= n => Room(ps, n) = n - Len(ps)
          /\ Len(ps) > n => Room(ps, n) = 0
      BY <1>17, <1>19, RoomIs
    <2> DEFINE m == Len(wave'[c])
    <2>3. m \in Nat /\ m <= Room(ps, n)
      BY <1>22
    <2>4. cut'[c] # {} => cut[c] # {} \/ m = Room(ps, n)
      BY <1>22
    <2>5. Len(pages'[c]) = Len(ps)
      BY <1>22
    <2> HIDE DEF m
    <2>6. Len(ps) + m <= HardMax
      BY <2>1, <2>2, <2>3
    <2>7. ASSUME mode[c] # "app"
          PROVE  Len(ps) + m <= own[c] /\ (cut'[c] # {} => Len(ps) + m = own[c])
      BY <2>1, <2>2, <2>3, <2>4, <2>7
    <2> QED
      BY <1>24, <2>5, <2>6, <2>7 DEF Within, m
  <1>29. CrawlInv(c)'
    BY <1>22, <1>25, <1>26, <1>27, <1>28 DEF CrawlInv
  <1>30. \A d \in Crawls \ {c} : SameCrawl(d)
    BY <1>1, <1>3, <1>22 DEF SameCrawl, TypeOK
  <1> QED
    BY <1>23, <1>29, <1>30, OneCrawl

\* Every URL of the store that the sitemap lists is seeded or held back.
LEMMA SeedingIs ==
  ASSUME NEW list \in Seq(Names), NEW priority \in Nat, NEW spare \in Nat
  PROVE  LET us == Among([i \in DOMAIN list |-> Norm[list[i]]], Urls \ External)
             overview == Among(us, OverviewLike)
             catalog == Among(us, ProductLike \ OverviewLike)
             others == Among(us, Urls \ (ProductLike \cup OverviewLike))
             first == Prefix(overview, priority) \o Prefix(catalog, spare)
             held == Rest(overview, priority) \o Rest(catalog, spare) \o others
         IN /\ first \in Seq(Urls) /\ held \in Seq(Urls)
            /\ \A i \in DOMAIN list : Norm[list[i]] \in External \cup Range(first) \cup Range(held)
  <1> DEFINE names == [i \in DOMAIN list |-> Norm[list[i]]]
             us == Among(names, Urls \ External)
             A == OverviewLike
             B == ProductLike \ OverviewLike
             C == Urls \ (ProductLike \cup OverviewLike)
             overview == Among(us, A)
             catalog == Among(us, B)
             others == Among(us, C)
             p1 == Prefix(overview, priority)
             p2 == Prefix(catalog, spare)
             r1 == Rest(overview, priority)
             r2 == Rest(catalog, spare)
             first == p1 \o p2
             r12 == r1 \o r2
             held == r12 \o others
  <1>1. /\ names \in Seq(Urls) /\ DOMAIN names = DOMAIN list
        /\ \A i \in DOMAIN list : names[i] = Norm[list[i]]
    <2>1. DOMAIN list = 1..Len(list) /\ Len(list) \in Nat /\ \A i \in DOMAIN list : list[i] \in Names
      OBVIOUS
    <2>2. \A i \in DOMAIN list : Norm[list[i]] \in Urls
      BY <2>1, StoreAssumption
    <2> QED
      BY <2>1, <2>2
  <1> HIDE DEF names
  <1>2. /\ us \in Seq(Urls)
        /\ \A i \in DOMAIN names : names[i] \in Urls \ External => names[i] \in Range(us)
        /\ \A i \in DOMAIN us : us[i] \in Urls
    <2>1. /\ us \in Seq(Urls \cap (Urls \ External))
          /\ \A i \in DOMAIN names : names[i] \in Urls \ External => names[i] \in Range(us)
      BY <1>1, AmongIs
    <2> HIDE DEF us
    <2>2. \A i \in DOMAIN us : us[i] \in Urls
      BY <2>1
    <2>3. us \in Seq(Urls)
      BY <2>1, <2>2, SeqOf
    <2> QED
      BY <2>1, <2>2, <2>3
  <1> HIDE DEF us
  <1>3. ASSUME NEW K
        PROVE  /\ Among(us, K) \in Seq(Urls)
               /\ \A i \in DOMAIN us : us[i] \in K => us[i] \in Range(Among(us, K))
    <2> DEFINE s == Among(us, K)
    <2>1. /\ s \in Seq(Urls \cap K)
          /\ \A i \in DOMAIN us : us[i] \in K => us[i] \in Range(s)
      BY <1>2, AmongIs
    <2> HIDE DEF s
    <2>2. \A i \in DOMAIN s : s[i] \in Urls
      BY <2>1
    <2>3. s \in Seq(Urls)
      BY <2>1, <2>2, SeqOf
    <2> QED
      BY <2>1, <2>3 DEF s
  <1>4. /\ overview \in Seq(Urls) /\ catalog \in Seq(Urls) /\ others \in Seq(Urls)
        /\ \A i \in DOMAIN us : us[i] \in Range(overview) \cup Range(catalog) \cup Range(others)
    <2>1. overview \in Seq(Urls) /\ \A i \in DOMAIN us : us[i] \in A => us[i] \in Range(overview)
      BY <1>3
    <2>2. catalog \in Seq(Urls) /\ \A i \in DOMAIN us : us[i] \in B => us[i] \in Range(catalog)
      BY <1>3
    <2>3. others \in Seq(Urls) /\ \A i \in DOMAIN us : us[i] \in C => us[i] \in Range(others)
      BY <1>3
    <2> HIDE DEF overview, catalog, others
    <2>4. \A i \in DOMAIN us : us[i] \in A \/ us[i] \in B \/ us[i] \in C
      BY <1>2
    <2> HIDE DEF A, B, C
    <2> QED
      BY <2>1, <2>2, <2>3, <2>4
  <1> HIDE DEF overview, catalog, others
  <1>5. /\ p1 \in Seq(Urls) /\ p2 \in Seq(Urls) /\ r1 \in Seq(Urls) /\ r2 \in Seq(Urls)
        /\ Range(overview) = Range(p1) \cup Range(r1)
        /\ Range(catalog) = Range(p2) \cup Range(r2)
    BY <1>4, PrefixIs, RestIs, PrefixAndRest
  <1> HIDE DEF p1, p2, r1, r2
  <1>6. first \in Seq(Urls) /\ Range(first) = Range(p1) \cup Range(p2)
    BY <1>5, ConcatIs
  <1>7. r12 \in Seq(Urls) /\ Range(r12) = Range(r1) \cup Range(r2)
    BY <1>5, ConcatIs
  <1> HIDE DEF r12
  <1>8. held \in Seq(Urls) /\ Range(held) = Range(r1) \cup Range(r2) \cup Range(others)
    BY <1>4, <1>7, ConcatIs
  <1> HIDE DEF first, held
  <1>9. ASSUME NEW i \in DOMAIN list
        PROVE  Norm[list[i]] \in External \cup Range(first) \cup Range(held)
    <2>1. names[i] \in Urls /\ names[i] = Norm[list[i]]
      BY <1>1
    <2>2. CASE names[i] \in External
      BY <2>1, <2>2
    <2>3. CASE names[i] \notin External
      <3>1. PICK j \in DOMAIN us : us[j] = names[i]
        BY <1>1, <1>2, <2>1, <2>3 DEF Range
      <3> QED
        BY <1>4, <1>5, <1>6, <1>8, <2>1, <3>1
    <2> QED
      BY <2>2, <2>3
  <1> QED
    BY <1>6, <1>8, <1>9 DEF first, held, r12, p1, p2, r1, r2, overview, catalog, others, us, names

\* The queue a crawl starts with.
Seed(rules, counted) ==
  [barred |-> rules, seen |-> {Home}, count |-> counted,
   wave |-> <<[url |-> Home, depth |-> 0, key |-> NoKey]>>]

\* What a start comes to: a budget for the crawl, and a sitemap whose URLs
\* are seeded or held back.
LEMMA StartIs ==
  ASSUME TypeOK, NEW c \in Crawls, Start(c)
  PROVE  \E rules \in SUBSET Urls, list \in Seq(Names), budget \in 1..HardMax,
            first \in Seq(Urls), held \in Seq(Urls) :
           /\ \A i \in DOMAIN list : Norm[list[i]] \in External \cup Range(first) \cup Range(held)
           /\ barred' = [barred EXCEPT ![c] = rules]
           /\ listed' = [listed EXCEPT ![c] = list]
           /\ later' = [later EXCEPT ![c] = held]
           /\ app' = (IF mode[c] = "app" THEN budget ELSE app)
           /\ own' = (IF mode[c] = "app" THEN own ELSE [own EXCEPT ![c] = budget])
           /\ Turn(c, EnqueueAll(Seed(rules, count[c]), AtDepth(first, 1)), <<>>, budget)
  <1> DEFINE us(list) == Among([i \in DOMAIN list |-> Norm[list[i]]], Urls \ External)
             overview(list) == Among(us(list), OverviewLike)
             catalog(list) == Among(us(list), ProductLike \ OverviewLike)
             others(list) == Among(us(list), Urls \ (ProductLike \cup OverviewLike))
             products(list, reported) == IF reported = NoCount THEN Len(catalog(list)) ELSE reported
             budgetOf(list, reported) ==
               IF mode[c] = "explicit" THEN own[c]
               ELSE Clamp(AdaptiveBudget(products(list, reported), Len(list), Budget(c)))
             priorityOf(b) == Max({PriorityFloor, b \div 3})
             spareOf(list, b) == Max({0, priorityOf(b) - Len(overview(list))})
  <1>1. PICK rules \in Robots, list \in Sitemaps, reported \in Counts \cup {NoCount} :
          LET b == budgetOf(list, reported)
              priority == priorityOf(b)
              spare == spareOf(list, b)
          IN /\ Home \notin rules
             /\ barred' = [barred EXCEPT ![c] = rules]
             /\ listed' = [listed EXCEPT ![c] = list]
             /\ later' = [later EXCEPT ![c] =
                            Rest(overview(list), priority) \o Rest(catalog(list), spare) \o others(list)]
             /\ app' = IF mode[c] = "app" THEN b ELSE app
             /\ own' = IF mode[c] = "app" THEN own ELSE [own EXCEPT ![c] = b]
             /\ Turn(c, EnqueueAll(Seed(rules, count[c]),
                          AtDepth(Prefix(overview(list), priority) \o Prefix(catalog(list), spare), 1)),
                     <<>>, b)
    BY DEF Start, Seed
  <1>2. rules \in SUBSET Urls /\ list \in Seq(Names)
    BY StoreAssumption
  <1>3. us(list) \in Seq(Urls) /\ overview(list) \in Seq(Urls) /\ catalog(list) \in Seq(Urls)
    <2> DEFINE names == [i \in DOMAIN list |-> Norm[list[i]]]
    <2>1. names \in Seq(Urls)
      <3>1. DOMAIN list = 1..Len(list) /\ Len(list) \in Nat /\ \A i \in DOMAIN list : list[i] \in Names
        BY <1>2
      <3>2. \A i \in DOMAIN list : Norm[list[i]] \in Urls
        BY <3>1, StoreAssumption
      <3> QED
        BY <3>1, <3>2
    <2>2. ASSUME NEW t \in Seq(Urls), NEW K
          PROVE  Among(t, K) \in Seq(Urls)
      <3>1. Among(t, K) \in Seq(Urls \cap K)
        BY AmongIs
      <3>2. \A i \in DOMAIN Among(t, K) : Among(t, K)[i] \in Urls
        BY <3>1
      <3> QED
        BY <3>1, <3>2, SeqOf
    <2> HIDE DEF names
    <2>3. us(list) \in Seq(Urls)
      BY <2>1, <2>2 DEF names
    <2> HIDE DEF us
    <2> QED
      BY <2>2, <2>3
  <1>4. Len(list) \in Nat /\ Len(catalog(list)) \in Nat /\ Len(overview(list)) \in Nat
    <2> HIDE DEF catalog, overview
    <2> QED
      BY <1>2, <1>3
  <1>5. PICK b \in 1..HardMax : b = budgetOf(list, reported)
    <2>1. products(list, reported) \in Nat
      <3> HIDE DEF catalog
      <3> QED
        BY <1>4, BudgetAssumption
    <2> HIDE DEF products
    <2>2. own[c] \in 1..HardMax /\ app \in 1..HardMax
      BY DEF TypeOK
    <2>3. Budget(c) \in Int
      BY <2>2 DEF Budget
    <2>4. AdaptiveBudget(products(list, reported), Len(list), Budget(c)) \in Int
      BY <1>4, <2>1, <2>3, AdaptiveIs
    <2>5. Clamp(AdaptiveBudget(products(list, reported), Len(list), Budget(c))) \in 1..HardMax
      BY <2>4, ClampIs
    <2> QED
      BY <2>2, <2>5
  <1> HIDE DEF budgetOf
  <1>6. PICK priority \in Nat : priority = priorityOf(b)
    <2>1. PriorityFloor \in Nat /\ b \div 3 \in Nat
      BY BudgetAssumption
    <2>2. Max({PriorityFloor, b \div 3}) \in Nat
      BY <2>1, MaxOfTwo
    <2> QED
      BY <2>2
  <1> HIDE DEF priorityOf
  <1>7. PICK spare \in Nat : spare = spareOf(list, b)
    <2> HIDE DEF overview
    <2>1. priorityOf(b) - Len(overview(list)) \in Int
      BY <1>4, <1>6
    <2>2. Max({0, priorityOf(b) - Len(overview(list))}) \in Nat
      BY <2>1, MaxOfTwo
    <2> QED
      BY <2>2
  <1> HIDE DEF spareOf
  <1> DEFINE first == Prefix(overview(list), priority) \o Prefix(catalog(list), spare)
             held == Rest(overview(list), priority) \o Rest(catalog(list), spare) \o others(list)
  <1>8. /\ first \in Seq(Urls) /\ held \in Seq(Urls)
        /\ \A i \in DOMAIN list : Norm[list[i]] \in External \cup Range(first) \cup Range(held)
    BY <1>2, SeedingIs
  <1>9. /\ barred' = [barred EXCEPT ![c] = rules]
        /\ listed' = [listed EXCEPT ![c] = list]
        /\ later' = [later EXCEPT ![c] = held]
        /\ app' = (IF mode[c] = "app" THEN b ELSE app)
        /\ own' = (IF mode[c] = "app" THEN own ELSE [own EXCEPT ![c] = b])
        /\ Turn(c, EnqueueAll(Seed(rules, count[c]), AtDepth(first, 1)), <<>>, b)
    <2> HIDE DEF us, overview, catalog, others
    <2> QED
      BY <1>1, <1>5, <1>6, <1>7
  <1> HIDE DEF first, held
  <1> QED
    BY <1>2, <1>8, <1>9

\* Before anything else the homepage waits to be fetched.
LEMMA SeedKeeps ==
  ASSUME NEW rules \in SUBSET Urls, NEW counted \in [Keys -> Nat],
         \A k \in Keys : counted[k] <= CategoryCap
  PROVE  LET q == Seed(rules, counted)
         IN /\ q \in Queues /\ q.barred = rules
            /\ Waiting(q, {}) /\ Excused(q, {}, {})
  <1> DEFINE home == [url |-> Home, depth |-> 0, key |-> NoKey]
             q == Seed(rules, counted)
  <1>1. home \in Entries /\ home.url = Home /\ home.key = NoKey
    BY StoreAssumption DEF Entries
  <1> HIDE DEF home
  <1>2. <<home>> \in Seq(Entries) /\ DOMAIN <<home>> = {1} /\ <<home>>[1] = home
    BY <1>1
  <1>3. PICK w : w = <<home>>
    OBVIOUS
  <1>4. /\ q.barred = rules /\ q.seen = {Home} /\ q.count = counted /\ q.wave = w
    BY <1>3 DEF Seed, home
  <1>5. UrlsOf(w) = {Home}
    BY <1>1, <1>2, <1>3 DEF UrlsOf
  <1>6. Waiting(q, {})
    <2> HIDE DEF q
    <2> QED
      BY <1>1, <1>2, <1>3, <1>4, <1>5 DEF Waiting
  <1>7. Excused(q, {}, {})
    <2> HIDE DEF q
    <2> QED
      BY <1>4, <1>5 DEF Excused
  <1>8. q \in Queues
    BY <1>2, StoreAssumption DEF Queues, Seed, home
  <1> QED
    BY <1>4, <1>6, <1>7, <1>8

LEMMA StartKeeps ==
  ASSUME Inv, NEW c \in Crawls, Start(c)
  PROVE  Inv'
  <1>1. TypeOK /\ CrawlInv(c) /\ pc[c] = "new" /\ mode' = mode
    BY DEF Inv, Start
  <1>2. Untouched(c)
    BY <1>1 DEF CrawlInv, Stages
  <1>3. PICK rules \in SUBSET Urls, list \in Seq(Names), budget \in 1..HardMax,
            first \in Seq(Urls), held \in Seq(Urls) :
           /\ \A i \in DOMAIN list : Norm[list[i]] \in External \cup Range(first) \cup Range(held)
           /\ barred' = [barred EXCEPT ![c] = rules]
           /\ listed' = [listed EXCEPT ![c] = list]
           /\ later' = [later EXCEPT ![c] = held]
           /\ app' = (IF mode[c] = "app" THEN budget ELSE app)
           /\ own' = (IF mode[c] = "app" THEN own ELSE [own EXCEPT ![c] = budget])
           /\ Turn(c, EnqueueAll(Seed(rules, count[c]), AtDepth(first, 1)), <<>>, budget)
    BY <1>1, StartIs
  <1> DEFINE s == Seed(rules, count[c])
             es == AtDepth(first, 1)
             q == EnqueueAll(s, es)
  <1>4. /\ es \in Seq(Entries) /\ UrlsOf(es) = Range(first)
        /\ \A i \in DOMAIN es : es[i].key \in (Listings \cap {}) \cup {NoKey}
    BY AtDepthIs
  <1>5. /\ s \in Queues /\ s.barred = rules /\ Waiting(s, {}) /\ Excused(s, {}, {})
    <2>1. count[c] \in [Keys -> Nat] /\ \A k \in Keys : count[c][k] <= CategoryCap
      BY <1>1, <1>2, BudgetAssumption DEF TypeOK, Untouched
    <2> QED
      BY <2>1, SeedKeeps
  <1> HIDE DEF s, es
  <1>6. /\ q \in Queues /\ q.barred = rules /\ Range(first) \subseteq q.seen
        /\ Waiting(q, {}) /\ Excused(q, {}, {})
    BY <1>4, <1>5, EnqueueAllKeeps
  <1>7. Turn(c, q, <<>>, budget)
    BY <1>3 DEF q, s, es
  <1> HIDE DEF q
  <1>8. PICK got \in Seq(Pages) : got = <<>>
    <2>1. <<>> \in Seq(Pages)
      OBVIOUS
    <2> QED
      BY <2>1
  <1>9. /\ barred'[c] = q.barred /\ UrlsOf(got) = {} /\ cut[c] = {}
    BY <1>1, <1>2, <1>3, <1>6, <1>8 DEF TypeOK, UrlsOf, Untouched
  <1>10. Waiting(q, UrlsOf(got)) /\ Excused(q, UrlsOf(got), cut[c]) /\ Turn(c, q, got, budget)
    BY <1>6, <1>7, <1>8, <1>9
  <1>11. /\ pages' \in [Crawls -> Seq(Pages)] /\ seen' \in [Crawls -> SUBSET Urls]
         /\ count' \in [Crawls -> [Keys -> Nat]] /\ wave' \in [Crawls -> Seq(Entries)]
         /\ cut' \in [Crawls -> SUBSET Urls]
         /\ pc' \in [Crawls -> {"idle", "new", "fetch", "probe", "done", "raised"}]
         /\ pages'[c] = got /\ seen'[c] = q.seen
         /\ pc'[c] = IF wave'[c] = <<>> THEN "probe" ELSE "fetch"
         /\ Waiting(QueueOf(c), Fetched(c))'
         /\ Excused(QueueOf(c), Fetched(c), cut[c])'
         /\ Len(wave'[c]) \in Nat /\ Len(wave'[c]) <= Room(got, budget)
         /\ cut'[c] # {} => cut[c] # {} \/ Len(wave'[c]) = Room(got, budget)
         /\ \A d \in Crawls \ {c} :
              /\ pages'[d] = pages[d] /\ seen'[d] = seen[d] /\ count'[d] = count[d]
              /\ wave'[d] = wave[d] /\ cut'[d] = cut[d] /\ pc'[d] = pc[d]
    BY <1>1, <1>6, <1>9, <1>10, TurnKeeps
  <1>12. TypeOK'
    <2>1. app' \in 1..HardMax /\ own' \in [Crawls -> 1..HardMax] /\ mode' \in [Crawls -> Modes]
      BY <1>1, <1>3 DEF TypeOK
    <2>2. barred' \in [Crawls -> SUBSET Urls] /\ listed' \in [Crawls -> Seq(Names)]
      BY <1>1, <1>3 DEF TypeOK
    <2>3. later' \in [Crawls -> Seq(Urls)]
      BY <1>1, <1>3 DEF TypeOK
    <2> QED
      BY <1>11, <2>1, <2>2, <2>3 DEF TypeOK
  <1>13. /\ later'[c] = held /\ listed'[c] = list /\ mode'[c] = mode[c]
         /\ mode[c] # "app" => own'[c] = budget
    BY <1>1, <1>3 DEF TypeOK
  <1>14. PagesOnce(c)'
    BY <1>8, <1>11 DEF PagesOnce
  <1>15. (Known(c) \subseteq seen[c] \cup Range(later[c]))'
    <2>1. \A i \in DOMAIN list : Norm[list[i]] \in External \cup q.seen \cup Range(held)
      BY <1>3, <1>6
    <2>2. Known(c)' \subseteq q.seen \cup Range(held)
      BY <1>8, <1>11, <1>13, <2>1 DEF Known
    <2> QED
      BY <1>11, <1>13, <2>2
  <1>16. Stages(c)'
    BY <1>8, <1>11 DEF Stages
  <1>17. Within(c)'
    <2> DEFINE m == Len(wave'[c])
    <2>1. m \in Nat /\ m <= Room(got, budget)
      BY <1>11
    <2>2. cut'[c] # {} => m = Room(got, budget)
      BY <1>9, <1>11
    <2>3. Len(pages'[c]) = 0 /\ Len(got) = 0
      BY <1>8, <1>11
    <2>4. Room(got, budget) = budget /\ budget \in Nat /\ budget <= HardMax /\ HardMax \in Nat
      <3>1. budget \in Nat /\ budget <= HardMax /\ HardMax \in Nat
        BY BudgetAssumption
      <3>2. Len(got) <= budget => Room(got, budget) = budget - Len(got)
        BY RoomIs
      <3> HIDE DEF m
      <3> QED
        BY <2>3, <3>1, <3>2
    <2> HIDE DEF m
    <2>5. m <= HardMax /\ m <= budget /\ (cut'[c] # {} => m = budget) /\ 0 + m = m
      BY <2>1, <2>2, <2>4
    <2> QED
      BY <1>13, <2>3, <2>5 DEF Within, m
  <1>18. CrawlInv(c)'
    BY <1>11, <1>14, <1>15, <1>16, <1>17 DEF CrawlInv
  <1>19. \A d \in Crawls \ {c} : SameCrawl(d)
    BY <1>1, <1>3, <1>11 DEF SameCrawl, TypeOK
  <1> QED
    BY <1>12, <1>18, <1>19, OneCrawl

LEMMA NextKeeps ==
  ASSUME Inv, [Next]_vars
  PROVE  Inv'
  <1>1. ASSUME NEW c \in Crawls, CrawlStep(c)
        PROVE  Inv'
    BY <1>1, LaunchKeeps, StartKeeps, BarredKeeps, GatherKeeps, ProbeKeeps, RaiseKeeps DEF CrawlStep
  <1>2. CASE UNCHANGED vars
    <2>1. TypeOK'
      BY <1>2 DEF Inv, TypeOK, vars
    <2>2. \A c \in Crawls : SameCrawl(c)
      BY <1>2 DEF SameCrawl, vars
    <2>3. \A c \in Crawls : CrawlInv(c)'
      BY <2>2, SameInv DEF Inv
    <2> QED
      BY <2>1, <2>3 DEF Inv
  <1> QED
    BY <1>1, <1>2 DEF Next, Over

\* The inductive invariant of a crawl: its budgets, its queue, and what it knows.
THEOREM Invariance == Spec => []Inv
  <1> QED
    BY InitInv, NextKeeps, PTL DEF Spec

\* Every variable keeps its type.
THEOREM TypeOKHolds == Spec => []TypeOK
  <1>1. Inv => TypeOK
    BY DEF Inv
  <1> QED
    BY <1>1, Invariance, PTL

\* Whatever crawls do to the settings they share, none fetches more pages
\* than HARD_MAX_PAGES.
THEOREM PageCapHolds == Spec => []PageCap
  BY Invariance, InvBudgets, PTL

\* A crawl that does not share its settings cuts a wave only to fill its
\* budget to the last page.
THEOREM CutWhenFullHolds == Spec => []CutWhenFull
  BY Invariance, InvBudgets, PTL

\* In whatever spelling and from wherever a page is linked to, a crawl
\* fetches it once.
THEOREM FetchedOnceHolds == Spec => []FetchedOnce
  BY Invariance, InvOnce, PTL

\* What a finished crawl knew of and did not fetch is barred, was cut from a
\* wave, or is a product of a category that is full.
THEOREM NothingForgottenHolds == Spec => []NothingForgotten
  BY Invariance, InvForgotten, PTL
=============================================================================
