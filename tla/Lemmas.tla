-------------------------------- MODULE Lemmas --------------------------------
(***************************************************************************)
(* What the proofs need of numbers: induction, stated of a set instead of  *)
(* a predicate, the greatest and the least element, the functions that are *)
(* defined by recursion, and the folds and concatenations of sequences.    *)
(*                                                                         *)
(* The induction theorems of the library take the predicate as an operator *)
(* parameter, which no installed prover can instantiate; a least element   *)
(* exists by WFMin, whose parameters are sets.                             *)
(***************************************************************************)
EXTENDS Integers, SequencesExt, WellFoundedInduction, TLAPS

LEMMA LeastOfNats ==
    ASSUME NEW T \in SUBSET Nat, T # {}
    PROVE  \E x \in T : \A y \in T : x <= y
  <1> DEFINE R == OpToRel(<, Nat)
  <1>1. IsWellFoundedOn(R, Nat)
    BY NatLessThanWellFounded
  <1>2. PICK x \in T : \A y \in T : ~(<<y, x>> \in R)
    <2> HIDE DEF R
    <2> QED
      BY <1>1, WFMin
  <1>3. ASSUME NEW y \in T PROVE x <= y
    <2>1. x \in Nat /\ y \in Nat
      OBVIOUS
    <2>2. ~(y < x)
      BY <1>2, <2>1 DEF OpToRel
    <2> QED
      BY <2>1, <2>2
  <1> QED
    BY <1>3

LEMMA MinOfPlaces ==
    ASSUME NEW T \in SUBSET Nat, T # {}
    PROVE  Min(T) \in T
  BY LeastOfNats DEF Min

LEMMA GreatestOfPlaces ==
    ASSUME NEW n \in Nat, NEW T \in SUBSET (0 .. n), T # {}
    PROVE  \E x \in T : \A y \in T : x >= y
  <1> DEFINE U == {n - x : x \in T}
  <1>1. \A x \in T : n - x \in Nat
    OBVIOUS
  <1>2. U \in SUBSET Nat /\ U # {}
    BY <1>1
  <1>3. PICK u \in U : \A v \in U : u <= v
    <2> HIDE DEF U
    <2> QED
      BY <1>2, LeastOfNats
  <1>4. PICK x \in T : u = n - x
    OBVIOUS
  <1>5. ASSUME NEW y \in T PROVE x >= y
    <2>1. n - x <= n - y
      BY <1>3, <1>4
    <2>2. x \in 0 .. n /\ y \in 0 .. n
      OBVIOUS
    <2> QED
      BY <2>1, <2>2
  <1> QED
    BY <1>5

LEMMA MaxOfPlaces ==
    ASSUME NEW n \in Nat, NEW T \in SUBSET (0 .. n), T # {}
    PROVE  Max(T) \in T /\ \A y \in T : y <= Max(T)
  BY GreatestOfPlaces DEF Max

\* Induction from 0 on.
LEMMA ForwardInduction ==
    ASSUME NEW n \in Nat, NEW Good, 0 \in Good,
           \A k \in 1 .. n : (\A j \in 0 .. k - 1 : j \in Good) => k \in Good
    PROVE  0 .. n \subseteq Good
  <1> DEFINE Bad == {k \in 0 .. n : k \notin Good}
  <1>1. SUFFICES ASSUME Bad # {} PROVE FALSE
    OBVIOUS
  <1>2. Bad \in SUBSET Nat
    OBVIOUS
  <1>3. PICK k \in Bad : \A j \in Bad : k <= j
    <2> HIDE DEF Bad
    <2> QED
      BY <1>1, <1>2, LeastOfNats
  <1>4. k \in 1 .. n
    OBVIOUS
  <1>5. ASSUME NEW j \in 0 .. k - 1 PROVE j \in Good
    <2>1. j \in 0 .. n /\ ~(k <= j)
      BY <1>4
    <2> QED
      BY <1>3, <2>1
  <1> QED
    BY <1>4, <1>5

\* Induction down to 1.
LEMMA BackwardInduction ==
    ASSUME NEW n \in Nat, NEW Good, n + 1 \in Good,
           \A i \in 1 .. n : (\A j \in i + 1 .. n + 1 : j \in Good) => i \in Good
    PROVE  1 .. n + 1 \subseteq Good
  <1> DEFINE Turned == {k \in 0 .. n : n + 1 - k \in Good}
  <1>1. 0 \in Turned
    OBVIOUS
  <1>2. ASSUME NEW k \in 1 .. n, \A j \in 0 .. k - 1 : j \in Turned PROVE k \in Turned
    <2>1. n + 1 - k \in 1 .. n
      OBVIOUS
    <2>2. ASSUME NEW j \in n + 1 - k + 1 .. n + 1 PROVE j \in Good
      <3>1. n + 1 - j \in 0 .. k - 1 /\ n + 1 - (n + 1 - j) = j
        OBVIOUS
      <3>2. n + 1 - j \in Turned
        BY <1>2, <3>1
      <3> QED
        BY <3>1, <3>2
    <2> QED
      BY <2>1, <2>2
  <1>3. 0 .. n \subseteq Turned
    <2> HIDE DEF Turned
    <2> QED
      BY <1>1, <1>2, ForwardInduction
  <1>4. ASSUME NEW i \in 1 .. n + 1 PROVE i \in Good
    <2>1. n + 1 - i \in 0 .. n /\ n + 1 - (n + 1 - i) = i
      OBVIOUS
    <2>2. n + 1 - i \in Turned
      BY <1>3, <2>1
    <2> QED
      BY <2>1, <2>2
  <1> QED
    BY <1>4

\* A function computed from the end exists: each place is a step from a later one.
Later(n, next) == \A i \in 1 .. n : i < next[i] /\ next[i] <= n + 1
FromEnd(f, n, base, next, step) ==
    f[n + 1] = base /\ \A i \in 1 .. n : f[i] = step[i][f[next[i]]]

LEMMA BackwardExists ==
    ASSUME NEW n \in Nat, NEW X, NEW base \in X, NEW next \in [1 .. n -> Nat],
           NEW step \in [1 .. n -> [X -> X]], Later(n, next)
    PROVE  \E f \in [1 .. n + 1 -> X] : FromEnd(f, n, base, next, step)
  <1> USE DEF Later, FromEnd
  <1> DEFINE From(m, f) == f[n + 1] = base /\ \A i \in m .. n : f[i] = step[i][f[next[i]]]
             Good == {m \in 1 .. n + 1 : \E f \in [m .. n + 1 -> X] : From(m, f)}
  <1>1. n + 1 \in Good
    <2> DEFINE g == [i \in n + 1 .. n + 1 |-> base]
    <2>1. g \in [n + 1 .. n + 1 -> X] /\ g[n + 1] = base /\ n + 1 .. n = {}
      OBVIOUS
    <2> HIDE DEF g
    <2> QED
      BY <2>1
  <1>2. ASSUME NEW m \in 1 .. n, \A j \in m + 1 .. n + 1 : j \in Good PROVE m \in Good
    <2>1. m + 1 \in m + 1 .. n + 1
      OBVIOUS
    <2>2. PICK f \in [m + 1 .. n + 1 -> X] : From(m + 1, f)
      BY <1>2, <2>1
    <2> DEFINE g == [i \in m .. n + 1 |-> IF i = m THEN step[m][f[next[m]]] ELSE f[i]]
    <2>3. next[m] \in m + 1 .. n + 1
      OBVIOUS
    <2>4. step[m][f[next[m]]] \in X
      BY <2>2, <2>3
    <2>5. g \in [m .. n + 1 -> X]
      BY <2>2, <2>4
    <2>6. g[n + 1] = base
      BY <2>2
    <2>7. ASSUME NEW i \in m .. n PROVE g[i] = step[i][g[next[i]]]
      <3>1. i \in 1 .. n
        OBVIOUS
      <3>2. next[i] \in m + 1 .. n + 1
        BY <3>1
      <3>3. g[next[i]] = f[next[i]]
        BY <3>2
      <3>4. CASE i = m
        BY <3>3, <3>4
      <3>5. CASE i # m
        BY <3>3, <3>5, <2>2
      <3> QED
        BY <3>4, <3>5
    <2> HIDE DEF g
    <2>8. From(m, g)
      BY <2>6, <2>7
    <2> HIDE DEF From
    <2> QED
      BY <2>5, <2>8
  <1>3. 1 \in Good
    <2>1. 1 .. n + 1 \subseteq Good
      <3> HIDE DEF Good
      <3> QED
        BY <1>1, <1>2, BackwardInduction
    <2> QED
      BY <2>1
  <1> QED
    BY <1>3

\* One computed from the beginning exists as well.
FromStart(f, n, base, step) == f[0] = base /\ \A k \in 1 .. n : f[k] = step[k][f[k - 1]]

LEMMA ForwardExists ==
    ASSUME NEW n \in Nat, NEW X, NEW base \in X, NEW step \in [1 .. n -> [X -> X]]
    PROVE  \E f \in [0 .. n -> X] : FromStart(f, n, base, step)
  <1> USE DEF FromStart
  <1> DEFINE Upto(m, f) == f[0] = base /\ \A k \in 1 .. m : f[k] = step[k][f[k - 1]]
             Good == {m \in 0 .. n : \E f \in [0 .. m -> X] : Upto(m, f)}
  <1>1. 0 \in Good
    <2> DEFINE g == [k \in 0 .. 0 |-> base]
    <2>1. g \in [0 .. 0 -> X] /\ g[0] = base /\ 1 .. 0 = {}
      OBVIOUS
    <2> HIDE DEF g
    <2> QED
      BY <2>1
  <1>2. ASSUME NEW m \in 1 .. n, \A j \in 0 .. m - 1 : j \in Good PROVE m \in Good
    <2>1. m - 1 \in 0 .. m - 1
      OBVIOUS
    <2>2. PICK f \in [0 .. m - 1 -> X] : Upto(m - 1, f)
      BY <1>2, <2>1
    <2> DEFINE g == [k \in 0 .. m |-> IF k = m THEN step[m][f[m - 1]] ELSE f[k]]
    <2>3. step[m][f[m - 1]] \in X
      BY <2>2, <2>1
    <2>4. g \in [0 .. m -> X]
      BY <2>2, <2>3
    <2>5. g[0] = base
      BY <2>2
    <2>6. ASSUME NEW k \in 1 .. m PROVE g[k] = step[k][g[k - 1]]
      <3>1. k - 1 \in 0 .. m - 1 /\ g[k - 1] = f[k - 1]
        OBVIOUS
      <3>2. CASE k = m
        BY <3>1, <3>2
      <3>3. CASE k # m
        BY <3>1, <3>3, <2>2
      <3> QED
        BY <3>2, <3>3
    <2> HIDE DEF g
    <2> QED
      BY <2>4, <2>5, <2>6
  <1>3. n \in Good
    <2>1. 0 .. n \subseteq Good
      <3> HIDE DEF Good
      <3> QED
        BY <1>1, <1>2, ForwardInduction
    <2> QED
      BY <2>1
  <1> QED
    BY <1>3

-----------------------------------------------------------------------------
\* The folds of the community modules take the elements of a sequence by the sets of
\* their places, the greatest last.
FromSets(f, n, base, step) ==
    \A T \in SUBSET (1 .. n) : f[T] = IF T = {} THEN base ELSE step[Max(T)][f[T \ {Max(T)}]]

LEMMA MaxOfSome ==
    ASSUME NEW n \in Nat, NEW T \in SUBSET (1 .. n), T # {}
    PROVE  Max(T) \in T /\ Max(T) \in 1 .. n /\ \A y \in T : y <= Max(T)
  <1>1. T \in SUBSET (0 .. n)
    OBVIOUS
  <1> QED
    BY <1>1, MaxOfPlaces

LEMMA FoldExists ==
    ASSUME NEW n \in Nat, NEW X, NEW base \in X, NEW step \in [1 .. n -> [X -> X]]
    PROVE  \E f \in [SUBSET (1 .. n) -> X] : FromSets(f, n, base, step)
  <1> DEFINE Upto(m, f) == \A T \in SUBSET (1 .. m) :
                               f[T] = IF T = {} THEN base ELSE step[Max(T)][f[T \ {Max(T)}]]
             Good == {m \in 0 .. n : \E f \in [SUBSET (1 .. m) -> X] : Upto(m, f)}
  <1>1. 0 \in Good
    <2> DEFINE g == [T \in SUBSET (1 .. 0) |-> base]
    <2>1. g \in [SUBSET (1 .. 0) -> X] /\ \A T \in SUBSET (1 .. 0) : T = {} /\ g[T] = base
      OBVIOUS
    <2> HIDE DEF g
    <2>2. Upto(0, g)
      BY <2>1
    <2>4. 0 \in 0 .. n
      OBVIOUS
    <2>3. \E f \in [SUBSET (1 .. 0) -> X] : Upto(0, f)
      BY <2>1, <2>2
    <2> HIDE DEF Upto
    <2> QED
      BY <2>3, <2>4
  <1>2. ASSUME NEW m \in 1 .. n, \A j \in 0 .. m - 1 : j \in Good PROVE m \in Good
    <2>1. m - 1 \in 0 .. m - 1
      OBVIOUS
    <2>2. PICK f \in [SUBSET (1 .. m - 1) -> X] : Upto(m - 1, f)
      BY <1>2, <2>1
    <2> DEFINE g == [T \in SUBSET (1 .. m) |-> IF m \in T THEN step[m][f[T \ {m}]] ELSE f[T]]
    <2>3. \A T \in SUBSET (1 .. m) : /\ T \ {m} \in SUBSET (1 .. m - 1)
                                     /\ m \notin T => T \in SUBSET (1 .. m - 1)
      OBVIOUS
    <2>4. g \in [SUBSET (1 .. m) -> X]
      BY <2>2, <2>3
    <2>5. ASSUME NEW T \in SUBSET (1 .. m)
          PROVE  g[T] = IF T = {} THEN base ELSE step[Max(T)][g[T \ {Max(T)}]]
      <3>1. CASE T = {}
        <4>1. m \notin T /\ g[T] = f[T]
          BY <3>1
        <4> QED
          BY <2>2, <2>3, <3>1, <4>1
      <3>2. CASE T # {} /\ m \in T
        <4>1. Max(T) = m
          <5>1. Max(T) \in T /\ Max(T) \in 1 .. m /\ \A y \in T : y <= Max(T)
            BY <3>2, MaxOfSome
          <5> QED
            BY <3>2, <5>1
        <4>2. T \ {m} \in SUBSET (1 .. m) /\ m \notin T \ {m}
          OBVIOUS
        <4>3. g[T \ {m}] = f[T \ {m}] /\ g[T] = step[m][f[T \ {m}]]
          BY <3>2, <4>2
        <4> QED
          BY <3>2, <4>1, <4>3
      <3>3. CASE T # {} /\ m \notin T
        <4>1. T \in SUBSET (1 .. m - 1) /\ T \ {Max(T)} \in SUBSET (1 .. m) /\ m \notin T \ {Max(T)}
          BY <2>3, <3>3
        <4>2. g[T] = f[T] /\ g[T \ {Max(T)}] = f[T \ {Max(T)}]
          BY <3>3, <4>1
        <4>3. f[T] = step[Max(T)][f[T \ {Max(T)}]]
          BY <2>2, <3>3, <4>1
        <4> QED
          BY <3>3, <4>2, <4>3
      <3> QED
        BY <3>1, <3>2, <3>3
    <2> HIDE DEF g
    <2>6. Upto(m, g)
      BY <2>5
    <2>7. m \in 0 .. n
      OBVIOUS
    <2> HIDE DEF Upto
    <2> QED
      BY <2>4, <2>6, <2>7
  <1>3. n \in Good
    <2>1. 0 .. n \subseteq Good
      <3> HIDE DEF Good
      <3> QED
        BY <1>1, <1>2, ForwardInduction
    <2>2. n \in 0 .. n
      OBVIOUS
    <2> HIDE DEF Good
    <2> QED
      BY <2>1, <2>2
  <1> QED
    BY <1>3 DEF FromSets

\* So what a fold has made of the first k elements is one step from what it made of the
\* first k - 1.
LEMMA FoldedPlaces ==
    ASSUME NEW n \in Nat
    PROVE  /\ 1 .. 0 = {}
           /\ \A k \in 1 .. n : /\ 1 .. k \in SUBSET (1 .. n) /\ 1 .. k # {}
                                /\ Max(1 .. k) = k /\ (1 .. k) \ {k} = 1 .. k - 1
  <1>1. ASSUME NEW k \in 1 .. n
        PROVE  /\ 1 .. k \in SUBSET (1 .. n) /\ 1 .. k # {}
               /\ Max(1 .. k) = k /\ (1 .. k) \ {k} = 1 .. k - 1
    <2>1. 1 .. k \in SUBSET (1 .. n) /\ k \in 1 .. k /\ (1 .. k) \ {k} = 1 .. k - 1
      OBVIOUS
    <2>2. Max(1 .. k) \in 1 .. k /\ \A y \in 1 .. k : y <= Max(1 .. k)
      BY <2>1, MaxOfSome
    <2> QED
      BY <2>1, <2>2
  <1> QED
    BY <1>1
-----------------------------------------------------------------------------
Cat(x, y) == x \o y

LEMMA Concatenated ==
    ASSUME NEW S
    PROVE  /\ <<>> \in Seq(S)
           /\ \A x \in Seq(S) : Cat(<<>>, x) = x /\ Cat(x, <<>>) = x
           /\ \A x, y \in Seq(S) : Cat(x, y) \in Seq(S)
           /\ \A x, y, z \in Seq(S) : Cat(Cat(x, y), z) = Cat(x, Cat(y, z))
  BY DEF Cat

LEMMA GrownPrefix ==
    ASSUME NEW S, NEW x \in Seq(S), NEW d \in 1 .. Len(x)
    PROVE  /\ SubSeq(x, 1, d - 1) \in Seq(S) /\ <<x[d]>> \in Seq(S)
           /\ SubSeq(x, 1, d) = SubSeq(x, 1, d - 1) \o <<x[d]>>
  OBVIOUS

\* FlattenSeq is a concatenation from the front.
Flattens(f, n, s) ==
    /\ f[0] = <<>> /\ f[n] = FlattenSeq(s)
    /\ \A k \in 1 .. n : f[k] = Cat(f[k - 1], s[k])

LEMMA Flattened ==
    ASSUME NEW S, NEW n \in Nat, NEW s \in [1 .. n -> Seq(S)]
    PROVE  \E f \in [0 .. n -> Seq(S)] : Flattens(f, n, s)
  <1> DEFINE step == [k \in 1 .. n |-> [x \in Seq(S) |-> Cat(x, s[k])]]
             none == <<>>
             Scan(g) == g = [i \in 1 .. n |-> IF i = 1 THEN s[i] ELSE Cat(g[i - 1], s[i])]
             found == CHOOSE g : Scan(g)
  <1>1. none \in Seq(S)
    OBVIOUS
  <1>2. \A k \in 1 .. n : s[k] \in Seq(S)
    OBVIOUS
  <1>3. \A k \in 1 .. n : \A x \in Seq(S) : Cat(x, s[k]) \in Seq(S)
    BY <1>2, Concatenated
  <1>4. step \in [1 .. n -> [Seq(S) -> Seq(S)]]
    BY <1>3
  <1>5. PICK f \in [0 .. n -> Seq(S)] : FromStart(f, n, none, step)
    <2> HIDE DEF none, step
    <2> QED
      BY <1>1, <1>4, ForwardExists
  <1>6. f[0] = none /\ \A k \in 1 .. n : f[k] = Cat(f[k - 1], s[k])
    <2>1. f[0] = none /\ \A k \in 1 .. n : f[k] = step[k][f[k - 1]]
      BY <1>5 DEF FromStart
    <2>2. \A k \in 1 .. n : f[k - 1] \in Seq(S)
      OBVIOUS
    <2> QED
      BY <2>1, <2>2
  <1>7. Len(s) = n
    OBVIOUS
  <1>8. ASSUME n = 0 PROVE f[n] = FlattenSeq(s)
    <2>1. s = <<>> /\ FlattenSeq(s) = s
      BY <1>7, <1>8 DEF FlattenSeq
    <2> QED
      BY <1>6, <1>8, <2>1
  <1>9. ASSUME n # 0 PROVE f[n] = FlattenSeq(s)
    <2> DEFINE h == [i \in 1 .. n |-> f[i]]
    <2>1. FlattenSeq(s) = found[n]
      BY <1>7, <1>9 DEF FlattenSeq, Cat
    <2>2. Scan(h)
      <3>1. ASSUME NEW i \in 1 .. n PROVE f[i] = IF i = 1 THEN s[i] ELSE Cat(h[i - 1], s[i])
        <4>1. CASE i = 1
          <5>1. f[i] = Cat(f[i - 1], s[i]) /\ i - 1 = 0
            BY <1>6, <4>1
          <5>2. f[i] = Cat(<<>>, s[i])
            BY <1>6, <5>1
          <5> QED
            BY <1>2, <4>1, <5>2, Concatenated
        <4>2. CASE i # 1
          <5>1. i - 1 \in 1 .. n
            BY <4>2
          <5> QED
            BY <1>6, <4>2, <5>1
        <4> QED
          BY <4>1, <4>2
      <3> QED
        BY <3>1
    <2>3. Scan(found)
      <3> HIDE DEF Scan, h
      <3> QED
        BY <2>2
    <2>4. \A i \in 1 .. n : found[i] = IF i = 1 THEN s[i] ELSE Cat(found[i - 1], s[i])
      <3> HIDE DEF found
      <3> QED
        BY <2>3
    <2> DEFINE Good == {k \in 0 .. n : k = 0 \/ found[k] = f[k]}
    <2> HIDE DEF found
    <2>5. 0 \in Good
      OBVIOUS
    <2>6. ASSUME NEW k \in 1 .. n, \A j \in 0 .. k - 1 : j \in Good PROVE k \in Good
      <3>1. CASE k = 1
        <4>1. f[k] = Cat(f[k - 1], s[k]) /\ k - 1 = 0
          BY <1>6, <3>1
        <4>2. f[k] = Cat(<<>>, s[k])
          BY <1>6, <4>1
        <4>3. found[k] = s[k]
          BY <2>4, <3>1
        <4>4. Cat(<<>>, s[k]) = s[k]
          BY <1>2, Concatenated
        <4> QED
          BY <4>2, <4>3, <4>4
      <3>2. CASE k # 1
        <4>1. k - 1 \in 0 .. k - 1 /\ k - 1 # 0
          BY <3>2
        <4>2. found[k - 1] = f[k - 1]
          BY <2>6, <4>1
        <4> QED
          BY <1>6, <2>4, <3>2, <4>2
      <3> QED
        BY <3>1, <3>2
    <2>7. 0 .. n \subseteq Good
      <3> HIDE DEF Good
      <3> QED
        BY <2>5, <2>6, ForwardInduction
    <2>8. found[n] = f[n]
      BY <1>9, <2>7
    <2> QED
      BY <1>6, <2>1, <2>8
  <1>10. f[n] = FlattenSeq(s)
    BY <1>8, <1>9
  <1> QED
    BY <1>6, <1>10 DEF Flattens

LEMMA FlattenedTyped ==
    ASSUME NEW S, NEW n \in Nat, NEW s \in [1 .. n -> Seq(S)]
    PROVE  FlattenSeq(s) \in Seq(S)
  <1>1. PICK f \in [0 .. n -> Seq(S)] : Flattens(f, n, s)
    BY Flattened
  <1> QED
    BY <1>1 DEF Flattens

Agree(s, t, n) == \A k \in 1 .. n : s[k] = t[k]
OneByOne(t, n, x) == \A k \in 1 .. Len(x) : t[n + k] = <<x[k]>>

\* t has the n sequences of s, and then p - n others: any, or those of the elements of x.
Extended(S, n, p, s, t) ==
    /\ n \in Nat /\ p \in Nat /\ n <= p
    /\ s \in [1 .. n -> Seq(S)] /\ t \in [1 .. p -> Seq(S)] /\ Agree(s, t, n)
ExtendedBy(S, n, p, s, t, x) ==
    Extended(S, n, p, s, t) /\ x \in Seq(S) /\ p = n + Len(x) /\ OneByOne(t, n, x)

\* b begins with a.
Continues(S, a, b) == a \in Seq(S) /\ \E rest \in Seq(S) : b = a \o rest

\* What comes after does not change what is before, ...
LEMMA FlattenedLonger ==
    ASSUME NEW S, NEW n, NEW m, NEW s, NEW t, Extended(S, n, m, s, t)
    PROVE  Continues(S, FlattenSeq(s), FlattenSeq(t))
  <1> n \in Nat /\ m \in Nat /\ n <= m
    BY DEF Extended
  <1> s \in [1 .. n -> Seq(S)] /\ t \in [1 .. m -> Seq(S)] /\ \A k \in 1 .. n : s[k] = t[k]
    BY DEF Extended, Agree
  <1>0. PICK f \in [0 .. n -> Seq(S)] : Flattens(f, n, s)
    BY Flattened
  <1>1. f[0] = <<>> /\ f[n] = FlattenSeq(s) /\ \A k \in 1 .. n : f[k] = Cat(f[k - 1], s[k])
    BY <1>0 DEF Flattens
  <1>g. PICK g \in [0 .. m -> Seq(S)] : Flattens(g, m, t)
    BY Flattened
  <1>2. g[0] = <<>> /\ g[m] = FlattenSeq(t) /\ \A k \in 1 .. m : g[k] = Cat(g[k - 1], t[k])
    BY <1>g DEF Flattens
  <1> DEFINE a == FlattenSeq(s)
             Same == {k \in 0 .. n : g[k] = f[k]}
             Extends(y) == \E rest \in Seq(S) : y = Cat(a, rest)
             From == {k \in 0 .. m : k >= n => Extends(g[k])}
  <1>3. a \in Seq(S) /\ a = f[n]
    BY <1>1
  <1> HIDE DEF a
  <1>4. 0 \in Same
    BY <1>1, <1>2
  <1>5. ASSUME NEW k \in 1 .. n, \A j \in 0 .. k - 1 : j \in Same PROVE k \in Same
    <2>1. g[k - 1] = f[k - 1]
      BY <1>5
    <2>2. g[k] = Cat(g[k - 1], t[k])
      BY <1>2
    <2> QED
      BY <1>1, <2>1, <2>2
  <1>6. 0 .. n \subseteq Same
    <2> HIDE DEF Same
    <2> QED
      BY <1>4, <1>5, ForwardInduction
  <1>7. g[n] = a
    BY <1>3, <1>6
  <1>8. Extends(a)
    <2> DEFINE none == <<>>
    <2>1. none \in Seq(S) /\ a = Cat(a, none)
      BY <1>3, Concatenated
    <2> HIDE DEF none
    <2> QED
      BY <2>1
  <1>9. 0 \in From
    <2>1. 0 >= n => g[0] = a
      BY <1>7
    <2> HIDE DEF Extends
    <2> QED
      BY <1>8, <2>1
  <1>10. ASSUME NEW k \in 1 .. m, \A j \in 0 .. k - 1 : j \in From PROVE k \in From
    <2>1. CASE k <= n
      <3>1. k >= n => g[k] = a
        BY <1>7, <2>1
      <3> HIDE DEF Extends
      <3> QED
        BY <1>8, <3>1
    <2>2. CASE k > n
      <3>1. k - 1 \in From /\ k - 1 >= n
        BY <1>10, <2>2
      <3>2. PICK rest \in Seq(S) : g[k - 1] = Cat(a, rest)
        BY <3>1
      <3> DEFINE more == t[k]
                 all == Cat(rest, more)
      <3>3. more \in Seq(S) /\ g[k] = Cat(g[k - 1], more)
        BY <1>2
      <3> HIDE DEF more
      <3>4. all \in Seq(S) /\ Cat(Cat(a, rest), more) = Cat(a, all)
        BY <1>3, <3>3, Concatenated
      <3>5. g[k] = Cat(a, all)
        BY <3>2, <3>3, <3>4
      <3> HIDE DEF all
      <3>6. Extends(g[k])
        BY <3>4, <3>5
      <3> HIDE DEF Extends
      <3> QED
        BY <3>6
    <2> QED
      BY <2>1, <2>2
  <1>11. 0 .. m \subseteq From
    <2> HIDE DEF From
    <2> QED
      BY <1>9, <1>10, ForwardInduction
  <1>12. Extends(g[m])
    <2> HIDE DEF Extends
    <2> QED
      BY <1>11
  <1>13. \E rest \in Seq(S) : g[m] = a \o rest
    BY <1>12 DEF Cat
  <1> QED
    BY <1>2, <1>3, <1>13 DEF a, Continues

\* ... and what is added one by one comes after it.
LEMMA FlattenedMore ==
    ASSUME NEW S, NEW n, NEW p, NEW s, NEW t, NEW x, ExtendedBy(S, n, p, s, t, x)
    PROVE  FlattenSeq(t) = FlattenSeq(s) \o x
  <1> n \in Nat /\ p \in Nat /\ n <= p /\ x \in Seq(S) /\ p = n + Len(x) /\ OneByOne(t, n, x)
    BY DEF ExtendedBy, Extended
  <1> s \in [1 .. n -> Seq(S)] /\ t \in [1 .. p -> Seq(S)] /\ \A k \in 1 .. n : s[k] = t[k]
    BY DEF ExtendedBy, Extended, Agree
  <1>0. PICK f \in [0 .. n -> Seq(S)] : Flattens(f, n, s)
    BY Flattened
  <1>1. f[0] = <<>> /\ f[n] = FlattenSeq(s) /\ \A k \in 1 .. n : f[k] = Cat(f[k - 1], s[k])
    BY <1>0 DEF Flattens
  <1> DEFINE m == Len(x)
             a == FlattenSeq(s)
  <1>2. /\ m \in Nat /\ a \in Seq(S) /\ a = f[n] /\ p = n + m
        /\ \A k \in 1 .. m : t[n + k] = <<x[k]>>
    BY <1>1 DEF OneByOne
  <1> HIDE DEF a
  <1>g. PICK g \in [0 .. p -> Seq(S)] : Flattens(g, p, t)
    BY <1>2, Flattened
  <1>3. g[0] = <<>> /\ g[p] = FlattenSeq(t) /\ \A k \in 1 .. p : g[k] = Cat(g[k - 1], t[k])
    BY <1>g DEF Flattens
  <1> DEFINE Same == {k \in 0 .. n : g[k] = f[k]}
             From == {k \in 0 .. p : k >= n => g[k] = Cat(a, SubSeq(x, 1, k - n))}
  <1>4. 0 \in Same
    BY <1>1, <1>3
  <1>5. ASSUME NEW k \in 1 .. n, \A j \in 0 .. k - 1 : j \in Same PROVE k \in Same
    <2>1. g[k - 1] = f[k - 1]
      BY <1>5
    <2>2. g[k] = Cat(g[k - 1], t[k])
      BY <1>2, <1>3
    <2>3. f[k] = Cat(f[k - 1], s[k]) /\ s[k] = t[k]
      BY <1>1
    <2> QED
      BY <2>1, <2>2, <2>3
  <1>6. 0 .. n \subseteq Same
    <2> HIDE DEF Same
    <2> QED
      BY <1>4, <1>5, ForwardInduction
  <1>7. g[n] = a
    BY <1>2, <1>6
  <1>8. a = Cat(a, SubSeq(x, 1, 0))
    <2>1. SubSeq(x, 1, 0) = <<>>
      OBVIOUS
    <2>2. Cat(a, <<>>) = a
      BY <1>2, Concatenated
    <2> QED
      BY <2>1, <2>2
  <1>9. \A k \in 0 .. n : k >= n => k - n = 0 /\ g[k] = a
    BY <1>7
  <1>10. 0 \in From
    BY <1>2, <1>8, <1>9
  <1>11. ASSUME NEW k \in 1 .. p, \A j \in 0 .. k - 1 : j \in From PROVE k \in From
    <2>1. CASE k <= n
      BY <1>2, <1>8, <1>9, <2>1
    <2>2. CASE k > n
      <3> DEFINE d == k - n
                 u == SubSeq(x, 1, d - 1)
                 v == <<x[d]>>
      <3>1. d \in 1 .. m /\ n + d = k /\ (k - 1) - n = d - 1
        BY <1>2, <2>2
      <3> HIDE DEF d
      <3>2. g[k - 1] = Cat(a, u)
        BY <1>2, <1>11, <2>2, <3>1
      <3>3. t[k] = v
        BY <1>2, <3>1
      <3>4. u \in Seq(S) /\ v \in Seq(S) /\ SubSeq(x, 1, d) = u \o v
        BY <3>1, GrownPrefix
      <3> HIDE DEF u, v
      <3>5. SubSeq(x, 1, d) = Cat(u, v)
        BY <3>4 DEF Cat
      <3>6. g[k] = Cat(Cat(a, u), v)
        BY <1>3, <3>2, <3>3
      <3>7. Cat(Cat(a, u), v) = Cat(a, Cat(u, v))
        BY <1>2, <3>4, Concatenated
      <3>8. g[k] = Cat(a, SubSeq(x, 1, d))
        BY <3>5, <3>6, <3>7
      <3> QED
        BY <3>8 DEF d
    <2> QED
      BY <2>1, <2>2
  <1>12. 0 .. p \subseteq From
    <2> HIDE DEF From
    <2> QED
      BY <1>2, <1>10, <1>11, ForwardInduction
  <1>13. g[p] = Cat(a, SubSeq(x, 1, m))
    <2>1. p \in 0 .. p /\ p >= n /\ p - n = m
      BY <1>2
    <2>2. g[p] = Cat(a, SubSeq(x, 1, p - n))
      BY <1>12, <2>1
    <2> QED
      BY <2>1, <2>2
  <1>14. SubSeq(x, 1, m) = x
    OBVIOUS
  <1> QED
    BY <1>2, <1>3, <1>13, <1>14 DEF a, Cat

\* Nothing comes of nothings.
LEMMA FlattenedNone ==
    ASSUME NEW S, NEW n \in Nat, NEW s \in [1 .. n -> Seq(S)], \A k \in 1 .. n : s[k] = <<>>
    PROVE  FlattenSeq(s) = <<>>
  <1> DEFINE none == <<>>
  <1>1. none \in Seq(S) /\ Cat(none, none) = none
    BY Concatenated
  <1>2. \A k \in 1 .. n : s[k] = none
    OBVIOUS
  <1>3. PICK f \in [0 .. n -> Seq(S)] : Flattens(f, n, s)
    BY Flattened
  <1>4. f[0] = none /\ f[n] = FlattenSeq(s) /\ \A k \in 1 .. n : f[k] = Cat(f[k - 1], s[k])
    BY <1>3 DEF Flattens
  <1> HIDE DEF none
  <1> DEFINE Good == {k \in 0 .. n : f[k] = none}
  <1>5. 0 \in Good
    BY <1>4
  <1>6. ASSUME NEW k \in 1 .. n, \A j \in 0 .. k - 1 : j \in Good PROVE k \in Good
    BY <1>1, <1>2, <1>4, <1>6
  <1>7. 0 .. n \subseteq Good
    <2> HIDE DEF Good
    <2> QED
      BY <1>5, <1>6, ForwardInduction
  <1> QED
    BY <1>4, <1>7 DEF none

\* w has the n sequences of s, and then the m of u.
InTwo(S, n, m, s, u, w) ==
    /\ n \in Nat /\ m \in Nat
    /\ s \in [1 .. n -> Seq(S)] /\ u \in [1 .. m -> Seq(S)] /\ w \in [1 .. n + m -> Seq(S)]
    /\ Agree(s, w, n) /\ \A k \in 1 .. m : w[n + k] = u[k]

LEMMA FlattenedBoth ==
    ASSUME NEW S, NEW n, NEW m, NEW s, NEW u, NEW w, InTwo(S, n, m, s, u, w)
    PROVE  FlattenSeq(w) = FlattenSeq(s) \o FlattenSeq(u)
  <1> n \in Nat /\ m \in Nat
    BY DEF InTwo
  <1> DEFINE p == n + m
  <1> p \in Nat
    OBVIOUS
  <1>s. PICK f \in [0 .. n -> Seq(S)] : Flattens(f, n, s)
    BY Flattened DEF InTwo
  <1>u. PICK g \in [0 .. m -> Seq(S)] : Flattens(g, m, u)
    BY Flattened DEF InTwo
  <1>w. PICK h \in [0 .. p -> Seq(S)] : Flattens(h, p, w)
    <2>1. w \in [1 .. p -> Seq(S)]
      BY DEF InTwo
    <2> HIDE DEF p
    <2> QED
      BY <2>1, Flattened
  <1> DEFINE none == <<>>
             a == f[n]
  <1>1. f[0] = none /\ a = FlattenSeq(s) /\ \A k \in 1 .. n : f[k] = Cat(f[k - 1], s[k])
    BY <1>s DEF Flattens
  <1>2. g[0] = none /\ g[m] = FlattenSeq(u) /\ \A k \in 1 .. m : g[k] = Cat(g[k - 1], u[k])
    BY <1>u DEF Flattens
  <1>3. h[0] = none /\ h[p] = FlattenSeq(w) /\ \A k \in 1 .. p : h[k] = Cat(h[k - 1], w[k])
    BY <1>w DEF Flattens
  <1>4. /\ a \in Seq(S) /\ \A k \in 1 .. n : s[k] = w[k]
        /\ \A k \in 1 .. m : w[n + k] = u[k] /\ u[k] \in Seq(S) /\ g[k - 1] \in Seq(S)
    <2>1. a \in Seq(S) /\ \A k \in 1 .. m : g[k - 1] \in Seq(S)
      OBVIOUS
    <2>2. \A k \in 1 .. n : s[k] = w[k]
      BY DEF InTwo, Agree
    <2>3. \A k \in 1 .. m : w[n + k] = u[k] /\ u[k] \in Seq(S)
      BY DEF InTwo
    <2> QED
      BY <2>1, <2>2, <2>3
  <1> HIDE DEF p, none, a
  <1> DEFINE Same == {k \in 0 .. n : h[k] = f[k]}
             From == {k \in 0 .. m : h[n + k] = Cat(a, g[k])}
  <1>5. 0 \in Same
    BY <1>1, <1>3
  <1>6. ASSUME NEW k \in 1 .. n, \A j \in 0 .. k - 1 : j \in Same PROVE k \in Same
    <2>1. h[k - 1] = f[k - 1]
      BY <1>6
    <2>2. h[k] = Cat(h[k - 1], w[k])
      BY <1>3 DEF p
    <2>3. f[k] = Cat(f[k - 1], w[k])
      BY <1>1, <1>4
    <2> QED
      BY <2>1, <2>2, <2>3
  <1>7. 0 .. n \subseteq Same
    <2> HIDE DEF Same
    <2> QED
      BY <1>5, <1>6, ForwardInduction
  <1>8. h[n] = a
    BY <1>7 DEF a
  <1>9. 0 \in From
    <2>1. Cat(a, none) = a
      BY <1>4, Concatenated DEF none
    <2> QED
      BY <1>2, <1>8, <2>1
  <1>10. ASSUME NEW k \in 1 .. m, \A j \in 0 .. k - 1 : j \in From PROVE k \in From
    <2>1. h[n + (k - 1)] = Cat(a, g[k - 1])
      BY <1>10
    <2>2. n + k \in 1 .. p /\ (n + k) - 1 = n + (k - 1)
      BY DEF p
    <2>3. h[n + k] = Cat(h[(n + k) - 1], w[n + k])
      BY <1>3, <2>2
    <2>4. h[n + k] = Cat(Cat(a, g[k - 1]), u[k])
      BY <1>4, <2>1, <2>2, <2>3
    <2>5. Cat(Cat(a, g[k - 1]), u[k]) = Cat(a, Cat(g[k - 1], u[k]))
      <3> DEFINE x == g[k - 1]
                 y == u[k]
      <3>1. x \in Seq(S) /\ y \in Seq(S)
        BY <1>4
      <3> HIDE DEF x, y
      <3>2. Cat(Cat(a, x), y) = Cat(a, Cat(x, y))
        BY <1>4, <3>1, Concatenated
      <3> QED
        BY <3>2 DEF x, y
    <2> QED
      BY <1>2, <2>4, <2>5
  <1>11. 0 .. m \subseteq From
    <2> HIDE DEF From
    <2> QED
      BY <1>9, <1>10, ForwardInduction
  <1>12. h[p] = Cat(a, g[m])
    BY <1>11 DEF p
  <1> QED
    BY <1>1, <1>2, <1>3, <1>12 DEF Cat
\* A sequence of sequences of at most one element: p[k] is how many of the first k have
\* one, which is the place where the k-th lands if it has.
LandsAt(p, n, s, u) ==
    /\ p[0] = 0 /\ p[n] = Len(u)
    /\ \A k \in 1 .. n : s[k] = <<>> => p[k] = p[k - 1]
    /\ \A k \in 1 .. n : s[k] # <<>> => p[k] = p[k - 1] + 1 /\ u[p[k]] = s[k][1]

LEMMA OneMore ==
    ASSUME NEW S, NEW a \in Seq(S), NEW b \in Seq(S), Len(b) <= 1
    PROVE  /\ Cat(a, b) \in Seq(S) /\ Len(a) \in Nat
           /\ b = <<>> => Cat(a, b) = a
           /\ b # <<>> => Len(Cat(a, b)) = Len(a) + 1 /\ Cat(a, b)[Len(a) + 1] = b[1]
           /\ \A i \in 1 .. Len(a) : Cat(a, b)[i] = a[i] /\ i <= Len(Cat(a, b))
  <1> DEFINE none == <<>>
             ab == a \o b
  <1>1. ab \in Seq(S) /\ Len(ab) = Len(a) + Len(b) /\ Len(a) \in Nat /\ Len(b) \in Nat
    OBVIOUS
  <1>2. \A i \in 1 .. Len(a) : ab[i] = a[i] /\ i <= Len(ab)
    OBVIOUS
  <1>3. b = none => ab = a
    OBVIOUS
  <1>4. b # none => Len(b) = 1 /\ ab[Len(a) + 1] = b[1]
    <2>1. Len(b) = 0 => b = none
      OBVIOUS
    <2>2. \A i \in 1 .. Len(b) : ab[Len(a) + i] = b[i]
      OBVIOUS
    <2> HIDE DEF none, ab
    <2>3. ASSUME b # none PROVE Len(b) = 1
      <3> DEFINE m == Len(b)
      <3>1. m \in Nat /\ m # 0 /\ m <= 1
        BY <1>1, <2>1, <2>3
      <3> HIDE DEF m
      <3>2. m = 1
        BY <3>1
      <3> QED
        BY <3>2 DEF m
    <2>4. Len(b) = 1 => ab[Len(a) + 1] = b[1]
      BY <2>2
    <2> QED
      BY <2>3, <2>4
  <1>5. Cat(a, b) = ab
    BY DEF Cat
  <1> HIDE DEF ab
  <1> QED
    BY <1>1, <1>2, <1>3, <1>4, <1>5

LEMMA FlattenedPlaces ==
    ASSUME NEW S, NEW n \in Nat, NEW s \in [1 .. n -> Seq(S)], \A k \in 1 .. n : Len(s[k]) <= 1
    PROVE  FlattenSeq(s) \in Seq(S) /\ \E p \in [0 .. n -> Nat] : LandsAt(p, n, s, FlattenSeq(s))
  <1>1. PICK f \in [0 .. n -> Seq(S)] : Flattens(f, n, s)
    BY Flattened
  <1> DEFINE none == <<>>
             p == [k \in 0 .. n |-> Len(f[k])]
  <1>2. f[0] = none /\ f[n] = FlattenSeq(s) /\ \A k \in 1 .. n : f[k] = Cat(f[k - 1], s[k])
    BY <1>1 DEF Flattens
  <1>3. ASSUME NEW k \in 1 .. n
        PROVE  /\ k - 1 \in 0 .. n /\ p[k] = Len(f[k]) /\ p[k - 1] = Len(f[k - 1])
               /\ p[k - 1] \in Nat /\ p[k] \in Nat
               /\ s[k] = none => f[k] = f[k - 1]
               /\ s[k] # none => p[k] = p[k - 1] + 1 /\ f[k][p[k]] = s[k][1]
               /\ \A i \in 1 .. p[k - 1] : f[k][i] = f[k - 1][i] /\ i <= p[k]
    <2> DEFINE a == f[k - 1]
               b == s[k]
    <2>1. k - 1 \in 0 .. n
      OBVIOUS
    <2>2. a \in Seq(S) /\ b \in Seq(S) /\ Len(b) <= 1 /\ f[k] = Cat(a, b)
      BY <1>2, <2>1
    <2>3. p[k] = Len(f[k]) /\ p[k - 1] = Len(a)
      BY <2>1
    <2>4. f[k] \in Seq(S)
      OBVIOUS
    <2> HIDE DEF a, b, p
    <2>5. /\ Len(a) \in Nat
          /\ b = none => Cat(a, b) = a
          /\ b # none => Len(Cat(a, b)) = Len(a) + 1 /\ Cat(a, b)[Len(a) + 1] = b[1]
          /\ \A i \in 1 .. Len(a) : Cat(a, b)[i] = a[i] /\ i <= Len(Cat(a, b))
      BY <2>2, OneMore
    <2>6. Len(f[k]) \in Nat
      BY <2>4
    <2>7. /\ p[k - 1] \in Nat /\ p[k] \in Nat
          /\ b = none => f[k] = a
          /\ b # none => p[k] = p[k - 1] + 1 /\ f[k][p[k]] = b[1]
          /\ \A i \in 1 .. p[k - 1] : f[k][i] = a[i] /\ i <= p[k]
      BY <2>2, <2>3, <2>5, <2>6
    <2> QED
      BY <2>1, <2>3, <2>7 DEF a, b
  <1>4. p \in [0 .. n -> Nat] /\ p[0] = 0
    <2>1. \A k \in 0 .. n : Len(f[k]) \in Nat
      OBVIOUS
    <2>2. Len(none) = 0 /\ 0 \in 0 .. n
      OBVIOUS
    <2> HIDE DEF none
    <2> QED
      BY <1>2, <2>1, <2>2
  <1>5. p[n] = Len(FlattenSeq(s)) /\ FlattenSeq(s) \in Seq(S)
    BY <1>2
  <1> HIDE DEF none, p
  <1> DEFINE Good == {j \in 0 .. n : \A k \in 1 .. j : s[k] # none => p[k] \in 1 .. p[j] /\ f[j][p[k]] = s[k][1]}
  <1>6. 0 \in Good
    OBVIOUS
  <1>7. ASSUME NEW j \in 1 .. n, \A i \in 0 .. j - 1 : i \in Good PROVE j \in Good
    <2>1. j - 1 \in Good
      BY <1>7
    <2>2. ASSUME NEW k \in 1 .. j, s[k] # none PROVE p[k] \in 1 .. p[j] /\ f[j][p[k]] = s[k][1]
      <3>1. CASE k = j
        <4>1. p[j] = p[j - 1] + 1 /\ f[j][p[j]] = s[j][1] /\ p[j - 1] \in Nat
          BY <1>3, <2>2, <3>1
        <4>2. p[j] \in 1 .. p[j]
          BY <4>1
        <4>3. p[k] = p[j] /\ s[k] = s[j]
          BY <3>1
        <4> HIDE DEF Good
        <4> QED
          BY <4>1, <4>2, <4>3, Zenon
      <3>2. CASE k # j
        <4>1. k \in 1 .. j - 1
          BY <3>2
        <4>2. p[k] \in 1 .. p[j - 1] /\ f[j - 1][p[k]] = s[k][1]
          BY <2>1, <2>2, <4>1
        <4>3. f[j][p[k]] = f[j - 1][p[k]] /\ p[k] <= p[j]
          BY <1>3, <4>2
        <4>4. p[j] \in Nat /\ p[j - 1] \in Nat
          BY <1>3
        <4> QED
          BY <4>2, <4>3, <4>4
      <3> QED
        BY <3>1, <3>2
    <2> QED
      BY <2>2
  <1>8. 0 .. n \subseteq Good
    <2> HIDE DEF Good
    <2> QED
      BY <1>6, <1>7, ForwardInduction
  <1>9. \A k \in 1 .. n : s[k] # none => f[n][p[k]] = s[k][1]
    BY <1>8
  <1>10. LandsAt(p, n, s, FlattenSeq(s))
    <2>1. \A k \in 1 .. n : s[k] = none => p[k] = p[k - 1]
      BY <1>3
    <2> QED
      BY <1>2, <1>3, <1>4, <1>5, <1>9, <2>1 DEF LandsAt, none
  <1> QED
    BY <1>4, <1>5, <1>10

\* The places from i to j land on the places after p[i], up to p[j].
LandsBetween(p, s, u, i, j) ==
    \A q \in p[i] + 1 .. p[j] : \E k \in i + 1 .. j : s[k] # <<>> /\ p[k] = q /\ u[q] = s[k][1]

LEMMA PlacesBetween ==
    ASSUME NEW n \in Nat, NEW p \in [0 .. n -> Nat], NEW s, NEW u, LandsAt(p, n, s, u),
           NEW i \in 0 .. n, NEW j \in i .. n
    PROVE  p[i] <= p[j] /\ LandsBetween(p, s, u, i, j)
  <1> DEFINE none == <<>>
  <1>1. \A k \in 1 .. n : /\ s[k] = none => p[k] = p[k - 1]
                          /\ s[k] # none => p[k] = p[k - 1] + 1 /\ u[p[k]] = s[k][1]
    BY DEF LandsAt
  <1> HIDE DEF none
  <1> DEFINE Lands(q, m) == \E k \in i + 1 .. m : s[k] # none /\ p[k] = q /\ u[q] = s[k][1]
             Good == {m \in 0 .. n : m >= i => p[i] <= p[m] /\ \A q \in p[i] + 1 .. p[m] : Lands(q, m)}
  <1>2. 0 \in Good
    <2>1. ASSUME 0 >= i PROVE p[i] <= p[0] /\ \A q \in p[i] + 1 .. p[0] : Lands(q, 0)
      <3>1. i = 0 /\ p[0] \in Nat
        BY <2>1
      <3> HIDE DEF Lands
      <3> QED
        BY <3>1
    <2> HIDE DEF Lands
    <2> QED
      BY <2>1
  <1>3. ASSUME NEW m \in 1 .. n, \A k \in 0 .. m - 1 : k \in Good PROVE m \in Good
    <2>1. p[m] \in Nat /\ p[m - 1] \in Nat /\ p[i] \in Nat /\ m - 1 \in 0 .. n
      OBVIOUS
    <2>2. CASE m = i
      <3> HIDE DEF Lands
      <3> QED
        BY <2>1, <2>2
    <2>3. CASE m < i
      BY <2>3
    <2>4. CASE m > i
      <3>1. m - 1 \in Good /\ m - 1 >= i
        BY <1>3, <2>4
      <3>2. p[i] <= p[m - 1] /\ \A q \in p[i] + 1 .. p[m - 1] : Lands(q, m - 1)
        BY <3>1
      <3>3. \A q : Lands(q, m - 1) => Lands(q, m)
        BY <2>4
      <3>4. s[m] # none => Lands(p[m], m)
        BY <1>1, <2>4
      <3>5. s[m] = none => p[m] = p[m - 1]
        BY <1>1
      <3>6. s[m] # none => p[m] = p[m - 1] + 1
        BY <1>1
      <3> HIDE DEF Lands
      <3>7. p[i] <= p[m] /\ \A q \in p[i] + 1 .. p[m] : Lands(q, m)
        <4>1. CASE s[m] = none
          BY <3>2, <3>3, <3>5, <4>1
        <4>2. CASE s[m] # none
          <5>1. ASSUME NEW q \in p[i] + 1 .. p[m] PROVE Lands(q, m)
            <6>1. q = p[m] \/ q \in p[i] + 1 .. p[m - 1]
              BY <2>1, <3>6, <4>2
            <6> QED
              BY <3>2, <3>3, <3>4, <4>2, <6>1
          <5> QED
            BY <2>1, <3>2, <3>6, <4>2, <5>1
        <4> QED
          BY <4>1, <4>2
      <3> QED
        BY <3>7
    <2> QED
      BY <2>2, <2>3, <2>4
  <1>4. 0 .. n \subseteq Good
    <2> HIDE DEF Good
    <2> QED
      BY <1>2, <1>3, ForwardInduction
  <1>5. j \in Good /\ j >= i
    BY <1>4
  <1> QED
    BY <1>5 DEF LandsBetween, none
=============================================================================
