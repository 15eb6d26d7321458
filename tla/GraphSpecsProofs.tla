-------------------------- MODULE GraphSpecsProofs --------------------------
(***************************************************************************)
(* Proofs about graph specifications, for any nodes and edges.             *)
(*                                                                         *)
(* What validation and resume eligibility compute is defined by recursion  *)
(* over the natural numbers: the rounds of the reachability matrix, the    *)
(* frontiers of a walk, the chain.  Least turns the library's              *)
(* well-foundedness of < into the principle Induction, and RoundsExist     *)
(* gives the function that a recursion describes; both are about sets, so  *)
(* that they can be cited like any fact.  RoundsFollow says of any such    *)
(* recursion how a value follows from the one before.                      *)
(*                                                                         *)
(* MatrixClosure: an entry of the matrix stands for a path.  A matrix that *)
(* was closed under the first k nodes has a path whenever there is one     *)
(* with inner nodes among them.  EligibleIsOneChain: the chain of an       *)
(* eligible graph has every node once, each led to by the one before only. *)
(*                                                                         *)
(* The last part says of each built-in graph what its lists of nodes and   *)
(* edges amount to: which nodes it has, and what the edges of each lead    *)
(* to.                                                                     *)
(***************************************************************************)
EXTENDS Templates, FiniteSetTheorems, WellFoundedInduction, TLAPS

-----------------------------------------------------------------------------
(* Induction and recursion over the natural numbers. *)

LEMMA Least ==
  ASSUME NEW T, T \subseteq Nat, T # {}
  PROVE  \E x \in T : \A y \in T : x <= y
<1>1. PICK x \in T : \A y \in T : ~ (<<y, x>> \in OpToRel(<, Nat))
  BY Zenon, WFMin, NatLessThanWellFounded
<1>2. \A y \in T : ~(y < x)
  BY Zenon, <1>1 DEF OpToRel
<1>3. QED
  BY <1>2

LEMMA Induction ==
  ASSUME NEW S, 0 \in S, \A n \in Nat : n \in S => n + 1 \in S
  PROVE  Nat \subseteq S
<1> DEFINE T == Nat \ S
<1>1. ASSUME T # {} PROVE FALSE
  <2>1. PICK x \in T : \A y \in T : x <= y
    BY <1>1, Least
  <2>2. x - 1 \in Nat /\ x - 1 \in S
    BY <2>1
  <2>3. QED
    BY <2>1, <2>2
<1>2. QED
  BY <1>1

\* Up to a bound.
LEMMA InductionUpTo ==
  ASSUME NEW m \in Nat, NEW S, 0 \in S, \A n \in 0 .. m - 1 : n \in S => n + 1 \in S
  PROVE  0 .. m \subseteq S
<1> DEFINE T == {n \in Nat : n \in 0 .. m => n \in S}
<1>1. 0 \in T
  OBVIOUS
<1>2. ASSUME NEW n \in Nat, n \in T PROVE n + 1 \in T
  BY <1>2
<1> HIDE DEF T
<1>3. Nat \subseteq T
  BY <1>1, <1>2, Induction
<1>4. QED
  BY <1>3 DEF T

\* A recursion over the members of X: its n-th round is g[n].
Steps(X) == [Nat -> [X -> X]]

\* The first n rounds from a.
Rounds(X, a, g, n) ==
  {f \in [0 .. n -> X] : f[0] = a /\ \A i \in 0 .. n - 1 : f[i + 1] = g[i][f[i]]}

LEMMA RoundsExist ==
  ASSUME NEW X, NEW a \in X, NEW g \in Steps(X), NEW n \in Nat
  PROVE  \E f : f \in Rounds(X, a, g, n)
<1> DEFINE S == {k \in Nat : Rounds(X, a, g, k) # {}}
<1>1. 0 \in S
  <2>1. [i \in 0 .. 0 |-> a] \in Rounds(X, a, g, 0)
    BY DEF Rounds
  <2>2. QED
    BY <2>1
<1>2. ASSUME NEW k \in Nat, k \in S PROVE k + 1 \in S
  <2>1. PICK f : f \in Rounds(X, a, g, k)
    BY <1>2
  <2> DEFINE e == [i \in 0 .. k + 1 |-> IF i = k + 1 THEN g[k][f[k]] ELSE f[i]]
  <2>2. /\ \A i \in 0 .. k : f[i] \in X /\ f[0] = a /\ k \in 0 .. k
        /\ \A i \in 0 .. k - 1 : f[i + 1] = g[i][f[i]]
        /\ \A i \in Nat : \A x \in X : g[i][x] \in X
    BY <2>1 DEF Rounds, Steps
  <2>3. g[k][f[k]] \in X
    BY <2>2
  <2>4. e \in [0 .. k + 1 -> X]
    BY <2>2, <2>3
  <2>5. e[0] = a
    BY <2>2
  <2>6. ASSUME NEW i \in 0 .. (k + 1) - 1 PROVE e[i + 1] = g[i][e[i]]
    <3>1. i \in 0 .. k /\ i + 1 \in 0 .. k + 1 /\ i \in 0 .. k + 1 /\ i # k + 1
      OBVIOUS
    <3>2. CASE i = k
      BY <3>1, <3>2
    <3>3. CASE i # k
      <4>1. i \in 0 .. k - 1 /\ i + 1 # k + 1
        BY <3>1, <3>3
      <4>2. QED
        BY <2>2, <3>1, <4>1
    <3>4. QED
      BY <3>2, <3>3
  <2> HIDE DEF e
  <2>7. e \in Rounds(X, a, g, k + 1)
    BY <2>4, <2>5, <2>6 DEF Rounds
  <2>8. QED
    BY <2>7
<1> HIDE DEF S
<1>3. Nat \subseteq S
  BY <1>1, <1>2, Induction
<1>4. QED
  BY <1>3 DEF S

\* What the rounds look like as a function that is defined by recursion.
LEMMA RoundsUnfold ==
  ASSUME NEW X, NEW a, NEW g, NEW n \in Nat, NEW f \in Rounds(X, a, g, n)
  PROVE  /\ f = [k \in 0 .. n |-> IF k = 0 THEN a ELSE g[k - 1][f[k - 1]]]
         /\ \A k \in 0 .. n : f[k] \in X
<1>1. \A k \in 0 .. n : f[k] = IF k = 0 THEN a ELSE g[k - 1][f[k - 1]]
  <2> SUFFICES ASSUME NEW k \in 0 .. n, k # 0 PROVE f[k] = g[k - 1][f[k - 1]]
    BY DEF Rounds
  <2>1. k - 1 \in 0 .. n - 1 /\ (k - 1) + 1 = k
    OBVIOUS
  <2>2. QED
    BY <2>1 DEF Rounds
<1>2. f = [k \in 0 .. n |-> f[k]]
  BY DEF Rounds
<1>3. QED
  BY <1>1, <1>2 DEF Rounds

\* A function that follows the rounds as long as it stays in X is the rounds.
LEMMA RoundsOnly ==
  ASSUME NEW X, NEW a \in X, NEW g \in Steps(X), NEW n \in Nat,
         NEW f, f = [k \in 0 .. n |-> f[k]], f[0] = a,
         \A k \in 0 .. n - 1 : f[k] \in X => f[k + 1] = g[k][f[k]]
  PROVE  f \in Rounds(X, a, g, n)
<1> DEFINE S == {k \in 0 .. n : f[k] \in X}
<1>1. 0 \in S
  OBVIOUS
<1>2. ASSUME NEW k \in 0 .. n - 1, k \in S PROVE k + 1 \in S
  <2>1. k \in Nat /\ k + 1 \in 0 .. n
    OBVIOUS
  <2>2. f[k] \in X /\ f[k + 1] = g[k][f[k]]
    BY <1>2
  <2>3. \A i \in Nat : \A x \in X : g[i][x] \in X
    BY DEF Steps
  <2>4. f[k + 1] \in X
    BY Zenon, <2>1, <2>2, <2>3
  <2>5. QED
    BY <2>1, <2>4
<1> HIDE DEF S
<1>3. 0 .. n \subseteq S
  BY <1>1, <1>2, InductionUpTo
<1>4. \A k \in 0 .. n : f[k] \in X
  BY <1>3 DEF S
<1>5. f \in [0 .. n -> X]
  BY <1>4
<1>6. \A k \in 0 .. n - 1 : f[k + 1] = g[k][f[k]]
  <2>1. \A k \in 0 .. n - 1 : k \in 0 .. n
    OBVIOUS
  <2>2. QED
    BY <1>4, <2>1
<1>7. QED
  BY <1>5, <1>6 DEF Rounds

\* Longer rounds begin like shorter ones.
LEMMA RoundsAgree ==
  ASSUME NEW X, NEW a, NEW g,
         NEW k \in Nat, NEW f \in Rounds(X, a, g, k),
         NEW h \in Nat, NEW e \in Rounds(X, a, g, h), k <= h
  PROVE  \A n \in 0 .. k : f[n] = e[n]
<1> DEFINE S == {n \in 0 .. k : f[n] = e[n]}
<1>1. 0 \in S
  BY DEF Rounds
<1>2. ASSUME NEW n \in 0 .. k - 1, n \in S PROVE n + 1 \in S
  <2>1. n \in 0 .. h - 1 /\ n + 1 \in 0 .. k
    OBVIOUS
  <2>2. f[n + 1] = g[n][f[n]] /\ e[n + 1] = g[n][e[n]]
    BY <2>1 DEF Rounds
  <2>3. QED
    BY <1>2, <2>1, <2>2
<1> HIDE DEF S
<1>3. 0 .. k \subseteq S
  BY <1>1, <1>2, InductionUpTo
<1>4. QED
  BY <1>3 DEF S

\* A family of recursions that are cut off at different rounds.
LEMMA RoundsFollow ==
  ASSUME NEW X, NEW a \in X, NEW g \in Steps(X), NEW F,
         \A k \in Nat : \E f \in Rounds(X, a, g, k) : F[k] = f[k]
  PROVE  F[0] = a /\ \A k \in Nat : F[k] \in X /\ F[k + 1] = g[k][F[k]]
<1>1. ASSUME NEW k \in Nat, NEW e \in Rounds(X, a, g, k + 1)
      PROVE  F[k] = e[k] /\ F[k + 1] = e[k + 1]
  <2>1. k + 1 \in Nat /\ k + 1 \in 0 .. k + 1 /\ k \in 0 .. k /\ k <= k + 1 /\ k + 1 <= k + 1
    OBVIOUS
  <2>2. PICK f \in Rounds(X, a, g, k) : F[k] = f[k]
    OBVIOUS
  <2>3. PICK h \in Rounds(X, a, g, k + 1) : F[k + 1] = h[k + 1]
    BY <2>1
  <2>4. f[k] = e[k]
    BY <2>1, RoundsAgree
  <2>5. h[k + 1] = e[k + 1]
    BY <2>1, RoundsAgree
  <2>6. QED
    BY <2>2, <2>3, <2>4, <2>5
<1>2. ASSUME NEW k \in Nat PROVE F[k] \in X /\ F[k + 1] = g[k][F[k]]
  <2>1. k + 1 \in Nat /\ k \in 0 .. k + 1 /\ k \in 0 .. (k + 1) - 1
    OBVIOUS
  <2>2. PICK e : e \in Rounds(X, a, g, k + 1)
    BY <2>1, RoundsExist
  <2>3. e[k] \in X /\ e[k + 1] = g[k][e[k]]
    BY <2>1, <2>2 DEF Rounds
  <2>4. QED
    BY <1>1, <2>2, <2>3
<1>3. F[0] = a
  <2>1. PICK f \in Rounds(X, a, g, 0) : F[0] = f[0]
    OBVIOUS
  <2>2. QED
    BY <2>1 DEF Rounds
<1>4. QED
  BY <1>2, <1>3

\* What contains 1 and predecessors is 1 .. n.
LEMMA InitialSegment ==
  ASSUME NEW m \in Nat, NEW A, A \subseteq 1 .. m, 1 \in A,
         \A i \in A : i > 1 => i - 1 \in A
  PROVE  Cardinality(A) \in Nat /\ A = 1 .. Cardinality(A)
<1> DEFINE T == {k \in Nat : \A i \in A : i <= k}
<1>1. PICK k \in T : \A l \in T : k <= l
  <2>1. m \in T
    OBVIOUS
  <2> HIDE DEF T
  <2>2. T \subseteq Nat
    BY DEF T
  <2>3. QED
    BY <2>1, <2>2, Least
<1>2. k \in A
  <2> SUFFICES ASSUME k \notin A PROVE k - 1 \in T
    BY <1>1
  <2>1. QED
    BY <1>1
<1>3. ASSUME NEW i \in 1 .. k PROVE i \in A
  <2> DEFINE S == {d \in 0 .. k - 1 : k - d \in A}
  <2>1. 0 \in S /\ k - 1 \in Nat
    BY <1>1, <1>2
  <2>2. ASSUME NEW d \in 0 .. (k - 1) - 1, d \in S PROVE d + 1 \in S
    <3>1. k - d \in A /\ k - d > 1 /\ (k - d) - 1 = k - (d + 1) /\ d + 1 \in 0 .. k - 1
      BY <1>1, <2>2
    <3>2. (k - d) - 1 \in A
      BY <3>1
    <3>3. QED
      BY <3>1, <3>2
  <2> HIDE DEF S
  <2>3. 0 .. k - 1 \subseteq S
    BY <2>1, <2>2, InductionUpTo
  <2>4. k - i \in 0 .. k - 1 /\ k - (k - i) = i
    BY <1>1
  <2>5. QED
    BY <2>3, <2>4 DEF S
<1>4. A = 1 .. k
  <2>1. \A i \in A : i \in 1 .. k
    BY <1>1
  <2>2. QED
    BY <1>3, <2>1
<1>5. Cardinality(1 .. k) = k
  BY <1>1, <1>2, FS_Interval
<1>6. QED
  BY <1>1, <1>4, <1>5

-----------------------------------------------------------------------------
(* Valid specifications. *)

LEMMA IdsAreFinite ==
  ASSUME NEW s, s.nodes \in Seq(RangeOf(s.nodes)), NEW A, A \subseteq Ids(s)
  PROVE  IsFiniteSet(A) /\ Cardinality(A) \in Nat
<1> DEFINE f == [i \in 1 .. Len(s.nodes) |-> s.nodes[i].id]
<1>1. Ids(s) = {f[i] : i \in 1 .. Len(s.nodes)}
  <2>1. DOMAIN s.nodes = 1 .. Len(s.nodes)
    OBVIOUS
  <2>2. \A i \in 1 .. Len(s.nodes) : f[i] = s.nodes[i].id
    OBVIOUS
  <2> HIDE DEF f
  <2>3. QED
    BY <2>1, <2>2 DEF Ids
<1>2. IsFiniteSet(1 .. Len(s.nodes))
  BY FS_Interval
<1>3. IsFiniteSet(Ids(s))
  <2>1. f \in Surjection(1 .. Len(s.nodes), Ids(s))
    BY <1>1 DEF f, Surjection
  <2>2. QED
    BY <1>2, <2>1, FS_Surjection
<1>4. QED
  BY <1>3, FS_Subset, FS_CardinalityType

LEMMA IterationsBounded ==
  ASSUME NEW s, Valid(s)
  PROVE  /\ Iterations(s) \in Nat /\ Iterations(s) >= 1
         /\ Iterations(s) <= MaxIterations /\ MaxIterations \in Nat
<1>1. s.iterations \in 0 .. MaxIterations
  BY DEF Valid
<1>2. s.iterations \in Nat /\ s.iterations <= 64
  BY <1>1 DEF MaxIterations
<1>3. QED
  BY <1>2 DEF Iterations, MaxIterations

-----------------------------------------------------------------------------
(* The reachability matrix. *)

\* The round of the triple loop that adds what leads through position k.
Through(n, M, k) == M \cup {ij \in (1 .. n) \X (1 .. n) : <<ij[1], k>> \in M /\ <<k, ij[2]>> \in M}

\* The rounds of the triple loop close the edges under composition.
LEMMA Warshall ==
  ASSUME NEW n \in Nat, NEW M, M[0] \subseteq (1 .. n) \X (1 .. n),
         \A k \in 0 .. n - 1 : M[k + 1] = Through(n, M[k], k + 1)
  PROVE  /\ M[0] \subseteq M[n] /\ M[n] \subseteq (1 .. n) \X (1 .. n)
         /\ \A i, p, j \in 1 .. n : <<i, p>> \in M[n] /\ <<p, j>> \in M[n] => <<i, j>> \in M[n]
<1> DEFINE S == {k \in 0 .. n :
                   /\ M[0] \subseteq M[k] /\ M[k] \subseteq (1 .. n) \X (1 .. n)
                   /\ \A i, j \in 1 .. n : \A p \in 1 .. k :
                        <<i, p>> \in M[k] /\ <<p, j>> \in M[k] => <<i, j>> \in M[k]}
<1>1. 0 \in S
  OBVIOUS
<1>2. ASSUME NEW k \in 0 .. n - 1, k \in S PROVE k + 1 \in S
  <2> DEFINE A == M[k]
             B == M[k + 1]
             q == k + 1
  <2>1. q \in 1 .. n /\ q \in 0 .. n
    OBVIOUS
  <2>2. \A i, j \in 1 .. n :
          <<i, j>> \in B <=> <<i, j>> \in A \/ (<<i, q>> \in A /\ <<q, j>> \in A)
    BY DEF Through
  <2>3. M[0] \subseteq B /\ B \subseteq (1 .. n) \X (1 .. n)
    <3>1. M[0] \subseteq A /\ A \subseteq (1 .. n) \X (1 .. n)
      BY <1>2
    <3>2. B = Through(n, A, q)
      OBVIOUS
    <3> HIDE DEF A, B, q
    <3>3. QED
      BY <3>1, <3>2 DEF Through
  <2>4. \A i, j \in 1 .. n : \A p \in 1 .. k : <<i, p>> \in A /\ <<p, j>> \in A => <<i, j>> \in A
    BY <1>2
  <2> HIDE DEF A, B, q
  <2>5. ASSUME NEW i \in 1 .. n, NEW j \in 1 .. n, NEW p \in 1 .. n, p \in 1 .. k \/ p = q,
               <<i, p>> \in B, <<p, j>> \in B
        PROVE  <<i, j>> \in B
    <3>1. CASE p = q
      BY <2>1, <2>2, <2>5, <3>1
    <3>2. CASE p \in 1 .. k
      <4>1. <<i, p>> \in A \/ (<<i, q>> \in A /\ <<q, p>> \in A)
        BY <2>2, <2>5
      <4>2. <<p, j>> \in A \/ (<<p, q>> \in A /\ <<q, j>> \in A)
        BY <2>2, <2>5
      <4>3. <<i, j>> \in A \/ (<<i, q>> \in A /\ <<q, j>> \in A)
        BY <2>1, <2>4, <3>2, <4>1, <4>2
      <4>4. QED
        BY <2>2, <4>3
    <3>3. QED
      BY <2>5, <3>1, <3>2
  <2>6. \A p \in 1 .. q : p \in 1 .. n /\ (p \in 1 .. k \/ p = q)
    BY <2>1 DEF q
  <2>7. \A i, j \in 1 .. n : \A p \in 1 .. q : <<i, p>> \in B /\ <<p, j>> \in B => <<i, j>> \in B
    BY <2>5, <2>6
  <2>8. QED
    BY <2>1, <2>3, <2>7 DEF B, q
<1> HIDE DEF S
<1>3. n \in S
  <2>1. 0 .. n \subseteq S
    BY <1>1, <1>2, InductionUpTo
  <2>2. QED
    BY <2>1
<1>4. QED
  BY <1>3 DEF S

\* They add nothing that a transitive relation with the edges does not have.
LEMMA WarshallLeast ==
  ASSUME NEW n \in Nat, NEW M,
         \A k \in 0 .. n - 1 : M[k + 1] = Through(n, M[k], k + 1),
         NEW R, M[0] \subseteq R,
         \A i, p, j \in 1 .. n : <<i, p>> \in R /\ <<p, j>> \in R => <<i, j>> \in R
  PROVE  M[n] \subseteq R
<1> DEFINE S == {k \in 0 .. n : M[k] \subseteq R}
<1>1. 0 \in S
  OBVIOUS
<1>2. ASSUME NEW k \in 0 .. n - 1, k \in S PROVE k + 1 \in S
  <2>1. k + 1 \in 1 .. n /\ k + 1 \in 0 .. n
    OBVIOUS
  <2>2. ASSUME NEW i \in 1 .. n, NEW j \in 1 .. n, <<i, k + 1>> \in M[k], <<k + 1, j>> \in M[k]
        PROVE  <<i, j>> \in R
    BY <1>2, <2>1, <2>2
  <2>3. M[k + 1] \subseteq R
    <3> SUFFICES ASSUME NEW ij \in (1 .. n) \X (1 .. n),
                        <<ij[1], k + 1>> \in M[k], <<k + 1, ij[2]>> \in M[k]
                 PROVE  ij \in R
      BY <1>2 DEF Through
    <3>1. ij = <<ij[1], ij[2]>> /\ ij[1] \in 1 .. n /\ ij[2] \in 1 .. n
      OBVIOUS
    <3>2. QED
      BY <2>2, <3>1
  <2>4. QED
    BY <2>1, <2>3
<1> HIDE DEF S
<1>3. n \in S
  <2>1. 0 .. n \subseteq S
    BY <1>1, <1>2, InductionUpTo
  <2>2. QED
    BY <2>1
<1>4. QED
  BY <1>3 DEF S

\* The edges between positions: the first round.
PositionEdges(s) ==
  {ij \in (DOMAIN s.nodes) \X (DOMAIN s.nodes) :
     \E e \in RangeOf(s.edges) : e[2] # "END" /\ e = <<s.nodes[ij[1]].id, s.nodes[ij[2]].id>>}

\* The rounds that ReachMatrix takes its result from.
LEMMA MatrixRounds ==
  ASSUME NEW s, s.nodes \in Seq(RangeOf(s.nodes))
  PROVE  \E M : /\ M[0] = PositionEdges(s)
                /\ \A k \in 0 .. Len(s.nodes) - 1 : M[k + 1] = Through(Len(s.nodes), M[k], k + 1)
                /\ ReachMatrix(s) =
                     {<<s.nodes[ij[1]].id, s.nodes[ij[2]].id>> : ij \in M[Len(s.nodes)]}
<1> DEFINE n == Len(s.nodes)
           I == DOMAIN s.nodes
           Edge(i, j) ==
             \E e \in RangeOf(s.edges) : e[2] # "END" /\ e = <<s.nodes[i].id, s.nodes[j].id>>
           First == {ij \in I \X I : Edge(ij[1], ij[2])}
           Add(A, k) == A \cup {ij \in I \X I : <<ij[1], k>> \in A /\ <<k, ij[2]>> \in A}
           After[k \in 0 .. n] == IF k = 0 THEN First ELSE Add(After[k - 1], k)
           X == SUBSET (I \X I)
           g == [k \in Nat |-> [A \in X |-> Add(A, k + 1)]]
<1>1. ReachMatrix(s) = {<<s.nodes[ij[1]].id, s.nodes[ij[2]].id>> : ij \in After[n]}
  BY DEF ReachMatrix
<1>2. First \in X /\ First = PositionEdges(s)
  BY DEF PositionEdges
<1>3. /\ \A k : \A A \in X : Add(A, k) \in X
      /\ \A k, A : Add(A, k) = Through(n, A, k)
  BY DEF Through
<1>4. n \in Nat
  OBVIOUS
<1> HIDE DEF n, First, Add, X
<1>5. g \in Steps(X) /\ \A k \in Nat : \A A \in X : g[k][A] = Add(A, k + 1)
  BY <1>3 DEF Steps
<1> HIDE DEF g
<1>6. PICK h : h \in Rounds(X, First, g, n)
  BY <1>2, <1>4, <1>5, RoundsExist
<1>7. h = [k \in 0 .. n |-> IF k = 0 THEN First ELSE Add(h[k - 1], k)]
  <2>1. /\ h = [k \in 0 .. n |-> IF k = 0 THEN First ELSE g[k - 1][h[k - 1]]]
        /\ \A k \in 0 .. n : h[k] \in X
    BY <1>4, <1>6, RoundsUnfold
  <2>2. ASSUME NEW k \in 0 .. n, k # 0 PROVE g[k - 1][h[k - 1]] = Add(h[k - 1], k)
    <3>1. k - 1 \in Nat /\ k - 1 \in 0 .. n /\ (k - 1) + 1 = k
      BY <1>4, <2>2
    <3>2. g[k - 1][h[k - 1]] = Add(h[k - 1], (k - 1) + 1)
      BY <1>5, <2>1, <3>1
    <3>3. QED
      BY <3>1, <3>2
  <2>3. QED
    BY <2>1, <2>2
<1>8. After = [k \in 0 .. n |-> IF k = 0 THEN First ELSE Add(After[k - 1], k)]
  BY <1>7 DEF After
<1> HIDE DEF After
<1>9. After[0] = PositionEdges(s)
  BY <1>2, <1>4, <1>8
<1>10. ASSUME NEW k \in 0 .. n - 1 PROVE After[k + 1] = Through(n, After[k], k + 1)
  <2>1. k + 1 \in 0 .. n /\ k + 1 # 0 /\ (k + 1) - 1 = k
    BY <1>4
  <2>2. After[k + 1] = Add(After[(k + 1) - 1], k + 1)
    BY <1>8, <2>1
  <2>3. QED
    BY <1>3, <2>1, <2>2
<1>11. QED
  BY <1>1, <1>9, <1>10 DEF n

LEMMA ReachableIsTransitive ==
  ASSUME NEW s, NEW a, NEW b \in Reachable(s, a), NEW c \in Reachable(s, b)
  PROVE  c \in Reachable(s, a)
<1> SUFFICES ASSUME NEW S \in SUBSET Ids(s),
                    Successors(s, {a} \cup S) \cap Ids(s) \subseteq S
             PROVE  c \in S
  BY DEF Reachable
<1>1. b \in S
  BY DEF Reachable
<1>2. Successors(s, {b} \cup S) \subseteq Successors(s, {a} \cup S)
  BY <1>1 DEF Successors
<1>3. QED
  BY <1>2 DEF Reachable

LEMMA SuccessorsAreReachable ==
  ASSUME NEW s, NEW a
  PROVE  Successors(s, {a}) \cap Ids(s) \subseteq Reachable(s, a)
<1> SUFFICES ASSUME NEW c \in Successors(s, {a}) \cap Ids(s), NEW S \in SUBSET Ids(s),
                    Successors(s, {a} \cup S) \cap Ids(s) \subseteq S
             PROVE  c \in S
  BY DEF Reachable
<1>1. c \in Successors(s, {a} \cup S)
  BY DEF Successors
<1>2. QED
  BY <1>1

\* The edges between positions are those that Successors follows.
LEMMA EdgesBetween ==
  ASSUME NEW s, s.edges \in Seq(STRING \X STRING)
  PROVE  \A i, j \in DOMAIN s.nodes :
           <<i, j>> \in PositionEdges(s) <=> s.nodes[j].id \in Successors(s, {s.nodes[i].id})
<1>1. \A e \in RangeOf(s.edges) : e = <<e[1], e[2]>>
  BY DEF RangeOf
<1>2. QED
  BY <1>1 DEF PositionEdges, Successors

\* The triple loop computes what edges lead to, whatever the edges.
THEOREM MatrixClosure ==
  ASSUME NEW s, s.nodes \in Seq(RangeOf(s.nodes)), s.edges \in Seq(STRING \X STRING)
  PROVE  ReachMatrix(s) = {ab \in Ids(s) \X Ids(s) : ab[2] \in Reachable(s, ab[1])}
<1> DEFINE n == Len(s.nodes)
           id(i) == s.nodes[i].id
<1>1. n \in Nat /\ DOMAIN s.nodes = 1 .. n
  OBVIOUS
<1>2. PICK M : /\ M[0] = PositionEdges(s)
               /\ \A k \in 0 .. n - 1 : M[k + 1] = Through(n, M[k], k + 1)
               /\ ReachMatrix(s) = {<<id(ij[1]), id(ij[2])>> : ij \in M[n]}
  BY MatrixRounds
<1>3. Ids(s) = {id(i) : i \in 1 .. n}
  BY <1>1 DEF Ids
<1>4. M[0] \subseteq (1 .. n) \X (1 .. n)
  BY <1>1, <1>2 DEF PositionEdges
<1>5. \A i, j \in 1 .. n : <<i, j>> \in M[0] <=> id(j) \in Successors(s, {id(i)})
  <2>1. \A i, j \in DOMAIN s.nodes : <<i, j>> \in PositionEdges(s) <=> id(j) \in Successors(s, {id(i)})
    BY Zenon, EdgesBetween
  <2> HIDE DEF n, id
  <2>2. DOMAIN s.nodes = 1 .. n /\ M[0] = PositionEdges(s)
    BY <1>1, <1>2
  <2> SUFFICES ASSUME NEW i \in 1 .. n, NEW j \in 1 .. n
               PROVE  <<i, j>> \in M[0] <=> id(j) \in Successors(s, {id(i)})
    OBVIOUS
  <2>3. i \in DOMAIN s.nodes /\ j \in DOMAIN s.nodes
    BY <2>2
  <2>4. <<i, j>> \in PositionEdges(s) <=> id(j) \in Successors(s, {id(i)})
    BY <2>1, <2>3
  <2>5. QED
    BY <2>2, <2>4
<1> HIDE DEF n, id
<1>6. /\ M[0] \subseteq M[n] /\ M[n] \subseteq (1 .. n) \X (1 .. n)
      /\ \A i, p, j \in 1 .. n : <<i, p>> \in M[n] /\ <<p, j>> \in M[n] => <<i, j>> \in M[n]
  BY <1>1, <1>2, <1>4, Warshall
<1>7. ASSUME NEW i \in 1 .. n, NEW j \in 1 .. n, <<i, j>> \in M[n]
      PROVE  id(j) \in Reachable(s, id(i))
  <2> DEFINE R == {ij \in (1 .. n) \X (1 .. n) : id(ij[2]) \in Reachable(s, id(ij[1]))}
  <2>1. M[0] \subseteq R
    <3> SUFFICES ASSUME NEW k \in 1 .. n, NEW l \in 1 .. n, <<k, l>> \in M[0]
                 PROVE  id(l) \in Reachable(s, id(k))
      BY <1>4
    <3>1. QED
      BY <1>3, <1>5, SuccessorsAreReachable
  <2>2. \A k, p, l \in 1 .. n : <<k, p>> \in R /\ <<p, l>> \in R => <<k, l>> \in R
    BY ReachableIsTransitive
  <2> HIDE DEF R
  <2>3. M[n] \subseteq R
    BY <1>1, <1>2, <2>1, <2>2, WarshallLeast
  <2>4. QED
    BY <1>7, <2>3 DEF R
<1>8. ASSUME NEW i \in 1 .. n, NEW b \in Reachable(s, id(i))
      PROVE  \E j \in 1 .. n : b = id(j) /\ <<i, j>> \in M[n]
  <2> DEFINE S == {id(j) : j \in {k \in 1 .. n : <<i, k>> \in M[n]}}
  <2>1. S \in SUBSET Ids(s)
    BY <1>3
  <2>2. ASSUME NEW c \in Successors(s, {id(i)} \cup S) \cap Ids(s) PROVE c \in S
    <3>1. PICK l \in 1 .. n : c = id(l)
      BY <1>3
    <3>2. PICK a \in {id(i)} \cup S : c \in Successors(s, {a})
      BY DEF Successors
    <3>3. CASE a = id(i)
      <4>1. <<i, l>> \in M[n]
        BY <1>5, <1>6, <3>1, <3>2, <3>3
      <4>2. QED
        BY <3>1, <4>1
    <3>4. CASE a \in S
      <4>1. PICK k \in 1 .. n : a = id(k) /\ <<i, k>> \in M[n]
        BY <3>4
      <4>2. <<k, l>> \in M[n]
        BY <1>5, <1>6, <3>1, <3>2, <4>1
      <4>3. <<i, l>> \in M[n]
        BY <1>6, <4>1, <4>2
      <4>4. QED
        BY <3>1, <4>3
    <3>5. QED
      BY <3>3, <3>4
  <2> HIDE DEF S
  <2>3. b \in S
    BY <2>1, <2>2 DEF Reachable
  <2>4. QED
    BY <2>3 DEF S
<1>9. ASSUME NEW a \in Ids(s), NEW b \in Ids(s)
      PROVE  <<a, b>> \in ReachMatrix(s) <=> b \in Reachable(s, a)
  <2>1. ASSUME <<a, b>> \in ReachMatrix(s) PROVE b \in Reachable(s, a)
    <3>1. PICK ij \in M[n] : <<a, b>> = <<id(ij[1]), id(ij[2])>>
      BY <1>2, <2>1
    <3>2. ij[1] \in 1 .. n /\ ij[2] \in 1 .. n /\ <<ij[1], ij[2]>> \in M[n]
      BY <1>6
    <3>3. QED
      BY <1>7, <3>1, <3>2
  <2>2. ASSUME b \in Reachable(s, a) PROVE <<a, b>> \in ReachMatrix(s)
    <3>1. PICK i \in 1 .. n : a = id(i)
      BY <1>3
    <3>2. PICK j \in 1 .. n : b = id(j) /\ <<i, j>> \in M[n]
      BY <1>8, <2>2, <3>1
    <3>3. QED
      BY <1>2, <3>1, <3>2
  <2>3. QED
    BY <2>1, <2>2
<1>10. ReachMatrix(s) \subseteq Ids(s) \X Ids(s)
  BY <1>2, <1>3, <1>6
<1>11. QED
  BY <1>9, <1>10

-----------------------------------------------------------------------------
(* The chain of a graph that may be resumed. *)

\* The one edge that leaves a node of a linear graph.
OneEdge(s, id, next) ==
  /\ next \in Ids(s) \cup {"END"}
  /\ Successors(s, {id}) = {next} \ {"END"}
  /\ \E i \in DOMAIN s.edges : s.edges[i] = <<id, next>>

LEMMA OneSuccessor ==
  ASSUME NEW s, Valid(s), Linear(s), s.edges \in Seq(STRING \X STRING), NEW id \in Ids(s)
  PROVE  OneEdge(s, id, OnlySuccessor(s, id))
<1>1. Cardinality(OutEdges(s, id)) = 1
  BY DEF Linear
<1>2. IsFiniteSet(OutEdges(s, id))
  <2>1. Len(s.edges) \in Nat /\ DOMAIN s.edges = 1 .. Len(s.edges)
    OBVIOUS
  <2>2. IsFiniteSet(1 .. Len(s.edges))
    BY <2>1, FS_Interval
  <2>3. OutEdges(s, id) \subseteq 1 .. Len(s.edges)
    BY <2>1 DEF OutEdges
  <2>4. QED
    BY <2>2, <2>3, FS_Subset
<1>3. PICK i : OutEdges(s, id) = {i}
  BY <1>1, <1>2, FS_Singleton
<1>4. OnlySuccessor(s, id) = s.edges[i][2]
  BY <1>3 DEF OnlySuccessor
<1>5. i \in DOMAIN s.edges /\ s.edges[i][1] = id /\ s.edges[i] \in STRING \X STRING
  BY <1>3 DEF OutEdges
<1>6. EdgeOk(s, s.edges[i])
  BY <1>5 DEF Valid, RangeOf
<1>7. \A j \in DOMAIN s.edges : s.edges[j][1] = id => j = i
  BY <1>3 DEF OutEdges
<1>8. Successors(s, {id}) = {s.edges[i][2]} \ {"END"}
  BY <1>5, <1>7 DEF Successors, RangeOf
<1>9. s.edges[i] = <<id, s.edges[i][2]>>
  BY <1>5
<1>10. QED
  BY <1>4, <1>5, <1>6, <1>8, <1>9 DEF EdgeOk, TargetExists, OneEdge

\* No two edges of a linear graph end in one node, and none in the entry.
LEMMA OnePredecessor ==
  ASSUME NEW s, Valid(s), Linear(s), s.edges \in Seq(STRING \X STRING), s.entry # "END",
         NEW b \in Ids(s), NEW i \in DOMAIN s.edges, s.edges[i][2] = b
  PROVE  b # s.entry /\ \A j \in DOMAIN s.edges : s.edges[j][2] = b => j = i
<1>0. b # "END"
  <2> SUFFICES ASSUME b = "END" PROVE FALSE
    OBVIOUS
  <2>1. InEdges(s, b) = {}
    BY DEF InEdges
  <2>2. Cardinality(InEdges(s, b)) = 1
    BY DEF Linear
  <2>3. Cardinality({}) = 0
    BY FS_EmptySet
  <2>4. Cardinality(InEdges(s, b)) = 0
    BY Zenon, <2>1, <2>3
  <2>5. QED
    BY <2>2, <2>4
<1>1. i \in InEdges(s, b)
  BY <1>0 DEF InEdges
<1>2. b # s.entry
  BY <1>1 DEF Linear
<1>3. Cardinality(InEdges(s, b)) = 1
  BY <1>2 DEF Linear
<1>4. IsFiniteSet(InEdges(s, b))
  <2>1. Len(s.edges) \in Nat /\ DOMAIN s.edges = 1 .. Len(s.edges)
    OBVIOUS
  <2>2. IsFiniteSet(1 .. Len(s.edges))
    BY <2>1, FS_Interval
  <2>3. InEdges(s, b) \subseteq 1 .. Len(s.edges)
    BY <2>1 DEF InEdges
  <2>4. QED
    BY <2>2, <2>3, FS_Subset
<1>5. PICK k : InEdges(s, b) = {k}
  BY <1>3, <1>4, FS_Singleton
<1>6. QED
  BY <1>0, <1>1, <1>2, <1>5 DEF InEdges

\* A sequence that follows the edges from the entry.
Follows(s, c, n) ==
  /\ c[1] = s.entry
  /\ \A i \in 1 .. n : c[i] \in Ids(s) /\ c[i] # "END" /\ c[i + 1] = OnlySuccessor(s, c[i])

\* It meets no node twice.
LEMMA FollowsOnce ==
  ASSUME NEW s, Valid(s), Linear(s), s.edges \in Seq(STRING \X STRING),
         NEW n \in Nat, NEW c, Follows(s, c, n)
  PROVE  \A i, j \in 1 .. n + 1 : i < j /\ c[j] \in Ids(s) => c[i] # c[j]
<1>1. \A k \in 1 .. n + 1 : k # 1 /\ c[k] \in Ids(s) =>
        \E e \in DOMAIN s.edges : s.edges[e] = <<c[k - 1], c[k]>>
  <2> SUFFICES ASSUME NEW k \in 1 .. n + 1, k # 1, c[k] \in Ids(s)
               PROVE  \E e \in DOMAIN s.edges : s.edges[e] = <<c[k - 1], c[k]>>
    OBVIOUS
  <2>1. k - 1 \in 1 .. n /\ (k - 1) + 1 = k
    OBVIOUS
  <2>2. c[k - 1] \in Ids(s) /\ c[k] = OnlySuccessor(s, c[k - 1])
    BY <2>1 DEF Follows
  <2>3. OneEdge(s, c[k - 1], c[k])
    BY <2>2, OneSuccessor
  <2>4. QED
    BY <2>3 DEF OneEdge
<1> DEFINE T == {i \in 1 .. n + 1 : \E j \in 1 .. n + 1 : i < j /\ c[j] \in Ids(s) /\ c[i] = c[j]}
<1>2. ASSUME T # {} PROVE FALSE
  <2>1. T \subseteq Nat
    OBVIOUS
  <2>2. PICK i \in T : \A k \in T : i <= k
    <3> HIDE DEF T
    <3>1. QED
      BY <1>2, <2>1, Least
  <2>3. PICK j \in 1 .. n + 1 : i < j /\ c[j] \in Ids(s) /\ c[i] = c[j]
    BY <2>2
  <2>4. j # 1 /\ i \in 1 .. n + 1 /\ i \in 1 .. n /\ j - 1 \in 1 .. n
    BY <2>3
  <2>5. PICK e \in DOMAIN s.edges : s.edges[e] = <<c[j - 1], c[j]>>
    BY <1>1, <2>3, <2>4
  <2>6. /\ c[j] # s.entry
        /\ \A f \in DOMAIN s.edges : s.edges[f][2] = c[j] => f = e
    <3>1. 1 \in 1 .. n
      BY <2>4
    <3>2. s.entry # "END"
      BY <3>1 DEF Follows
    <3>3. QED
      BY <2>3, <2>5, <3>2, OnePredecessor
  <2>7. i # 1
    BY <2>3, <2>6 DEF Follows
  <2>8. PICK f \in DOMAIN s.edges : s.edges[f] = <<c[i - 1], c[i]>>
    BY <1>1, <2>3, <2>4, <2>7
  <2>9. c[i - 1] = c[j - 1]
    <3>1. s.edges[f][2] = c[j]
      BY <2>3, <2>8
    <3>2. s.edges[f] = s.edges[e]
      BY <2>6, <3>1
    <3>3. QED
      BY <2>5, <2>8, <3>2
  <2>10. i - 1 \in 1 .. n + 1 /\ j - 1 \in 1 .. n + 1 /\ i - 1 < j - 1 /\ ~(i <= i - 1)
    BY <2>3, <2>4, <2>7
  <2>11. c[j - 1] \in Ids(s)
    BY <2>4 DEF Follows
  <2>12. i - 1 \in T
    BY <2>9, <2>10, <2>11
  <2>13. QED
    BY <2>2, <2>10, <2>12
<1>3. QED
  BY <1>2

\* As many steps as there are nodes: every node, and then the end.
LEMMA FollowsAll ==
  ASSUME NEW s, Valid(s), Linear(s), s.edges \in Seq(STRING \X STRING),
         s.nodes \in Seq(RangeOf(s.nodes)), NEW c, Follows(s, c, Len(s.nodes))
  PROVE  {c[i] : i \in 1 .. Len(s.nodes)} = Ids(s) /\ c[Len(s.nodes) + 1] = "END"
<1> DEFINE n == Len(s.nodes)
           f == [i \in 1 .. n |-> c[i]]
           B == {c[i] : i \in 1 .. n}
<1>1. n \in Nat /\ Cardinality(Ids(s)) = n /\ n # 0
  BY DEF Valid
<1> HIDE DEF n
<1>2. Follows(s, c, n)
  BY DEF n
<1>3. IsFiniteSet(Ids(s))
  BY IdsAreFinite
<1>4. B \subseteq Ids(s)
  BY <1>2 DEF Follows
<1>5. \A i, j \in 1 .. n + 1 : i < j /\ c[j] \in Ids(s) => c[i] # c[j]
  BY <1>1, <1>2, FollowsOnce
<1>6. \A i, j \in 1 .. n : c[i] = c[j] => i = j
  BY <1>1, <1>2, <1>5 DEF Follows
<1>7. f \in Injection(1 .. n, B) /\ IsFiniteSet(1 .. n) /\ Cardinality(1 .. n) = n
  <2>1. f \in Injection(1 .. n, B)
    BY <1>6 DEF Injection, IsInjective
  <2>2. IsFiniteSet(1 .. n) /\ Cardinality(1 .. n) = n
    BY <1>1, FS_Interval
  <2>3. QED
    BY <2>1, <2>2
<1>8. IsFiniteSet(B) /\ Cardinality(B) \in Nat /\ Cardinality(B) <= n
  BY <1>1, <1>3, <1>4, FS_Subset, FS_CardinalityType
<1>9. n <= Cardinality(B)
  BY <1>7, <1>8, FS_Injection
<1>10. B = Ids(s)
  BY <1>1, <1>3, <1>4, <1>8, <1>9, FS_Subset
<1>11. c[n + 1] \notin Ids(s)
  <2> SUFFICES ASSUME c[n + 1] \in Ids(s) PROVE FALSE
    OBVIOUS
  <2>1. PICK i \in 1 .. n : c[n + 1] = c[i]
    BY <1>10
  <2>2. QED
    BY <1>1, <1>5, <2>1
<1>12. c[n + 1] \in Ids(s) \cup {"END"}
  <2>1. n \in 1 .. n
    BY <1>1
  <2>2. c[n] \in Ids(s) /\ c[n + 1] = OnlySuccessor(s, c[n])
    BY <1>2, <2>1 DEF Follows
  <2>3. OneEdge(s, c[n], c[n + 1])
    BY <2>2, OneSuccessor
  <2>4. QED
    BY <2>3 DEF OneEdge
<1>13. QED
  BY <1>10, <1>11, <1>12 DEF n

\* The walk of Chain, as rounds: its k-th is no longer than k + 1, and follows
\* the edges as long as it is that long.
LEMMA WalkFollows ==
  ASSUME NEW s, Valid(s), Linear(s), s.edges \in Seq(STRING \X STRING), NEW n \in Nat,
         NEW w, w[0] = <<s.entry>>,
         \A k \in 0 .. n - 1 : w[k + 1] = IF w[k][Len(w[k])] = "END" THEN w[k]
                                        ELSE Append(w[k], OnlySuccessor(s, w[k][Len(w[k])]))
  PROVE  /\ w[n] \in Seq(Ids(s) \cup {"END"}) /\ w[n] # <<>>
         /\ Len(w[n]) <= n + 1
         /\ Len(w[n]) = n + 1 => Follows(s, w[n], n)
<1> DEFINE Good(q, k) ==
             /\ q \in Seq(Ids(s) \cup {"END"}) /\ q # <<>> /\ Len(q) <= k + 1
             /\ Len(q) = k + 1 => Follows(s, q, k)
           S == {k \in 0 .. n : Good(w[k], k)}
<1>1. 0 \in S
  <2>1. w[0] = <<s.entry>> /\ s.entry \in Ids(s)
    BY DEF Valid
  <2>2. w[0] \in Seq(Ids(s) \cup {"END"}) /\ w[0] # <<>> /\ Len(w[0]) = 1 /\ w[0][1] = s.entry
    BY <2>1
  <2>3. Follows(s, w[0], 0)
    BY <2>2 DEF Follows
  <2>4. Good(w[0], 0)
    BY <2>2, <2>3
  <2> HIDE DEF Good
  <2>5. QED
    BY <2>4
<1>2. ASSUME NEW k \in 0 .. n - 1, k \in S PROVE k + 1 \in S
  <2> DEFINE q == w[k]
             last == q[Len(q)]
  <2>1. k \in Nat /\ k + 1 \in 0 .. n
    OBVIOUS
  <2>2. Good(q, k)
    BY <1>2
  <2>3. w[k + 1] = IF last = "END" THEN q ELSE Append(q, OnlySuccessor(s, last))
    OBVIOUS
  <2> HIDE DEF q
  <2>4. Len(q) \in Nat /\ Len(q) >= 1 /\ last \in Ids(s) \cup {"END"}
    BY <2>2
  <2>5. Good(w[k + 1], k + 1)
    <3>1. CASE last = "END"
      BY <2>1, <2>2, <2>3, <2>4, <3>1
    <3>2. CASE last # "END"
      <4> DEFINE b == OnlySuccessor(s, last)
                 r == Append(q, b)
      <4>1. last \in Ids(s) /\ b \in Ids(s) \cup {"END"}
        BY <2>4, <3>2, OneSuccessor DEF OneEdge
      <4>2. w[k + 1] = r
        BY <2>3, <3>2
      <4> HIDE DEF b, last
      <4>3. /\ r \in Seq(Ids(s) \cup {"END"}) /\ r # <<>> /\ Len(r) = Len(q) + 1
            /\ \A i \in 1 .. Len(q) : r[i] = q[i]
            /\ r[Len(q) + 1] = b
        <5> DEFINE U == Ids(s) \cup {"END"}
        <5>1. q \in Seq(U) /\ b \in U
          BY <2>2, <4>1
        <5> HIDE DEF U
        <5>2. r \in Seq(U) /\ Len(r) = Len(q) + 1
          BY <5>1
        <5>3. r[Len(q) + 1] = b
          BY <5>1
        <5>4. \A i \in 1 .. Len(q) : r[i] = q[i]
          BY <5>1
        <5>5. r # <<>>
          BY <2>4, <5>2
        <5>6. QED
          BY <5>2, <5>3, <5>4, <5>5 DEF U
      <4> HIDE DEF r
      <4>4. ASSUME Len(r) = (k + 1) + 1 PROVE Follows(s, r, k + 1)
        <5>1. Len(q) = k + 1 /\ Follows(s, q, k)
          BY <2>1, <2>2, <2>4, <4>3, <4>4
        <5>2. r[1] = s.entry
          BY <2>4, <4>3, <5>1 DEF Follows
        <5>3. ASSUME NEW i \in 1 .. k + 1
              PROVE  r[i] \in Ids(s) /\ r[i] # "END" /\ r[i + 1] = OnlySuccessor(s, r[i])
          <6>1. CASE i = k + 1
            BY <3>2, <4>1, <4>3, <5>1, <6>1 DEF last, b
          <6>2. CASE i # k + 1
            <7>1. i \in 1 .. k /\ i \in 1 .. Len(q) /\ i + 1 \in 1 .. Len(q)
              BY <2>1, <5>1, <6>2
            <7>2. QED
              BY <4>3, <5>1, <7>1 DEF Follows
          <6>3. QED
            BY <6>1, <6>2
        <5>4. QED
          BY <5>2, <5>3 DEF Follows
      <4>5. QED
        BY <2>1, <2>2, <2>4, <4>2, <4>3, <4>4
    <3>3. QED
      BY <3>1, <3>2
  <2>6. QED
    BY <2>1, <2>5
<1> HIDE DEF S
<1>3. n \in S
  <2>1. 0 .. n \subseteq S
    BY <1>1, <1>2, InductionUpTo
  <2>2. QED
    BY <2>1
<1>4. QED
  BY <1>3 DEF S

\* The rounds that Chain takes its result from.
LEMMA ChainRounds ==
  ASSUME NEW s, Valid(s), Linear(s), s.edges \in Seq(STRING \X STRING), Len(s.nodes) \in Nat
  PROVE  \E w : /\ w[0] = <<s.entry>>
                /\ \A k \in 0 .. Len(s.nodes) - 1 :
                     w[k + 1] = IF w[k][Len(w[k])] = "END" THEN w[k]
                                ELSE Append(w[k], OnlySuccessor(s, w[k][Len(w[k])]))
                /\ Chain(s) = SubSeq(w[Len(s.nodes)], 1, Len(w[Len(s.nodes)]) - 1)
<1> DEFINE n == Len(s.nodes)
           Longer(q) == IF q[Len(q)] = "END" THEN q ELSE Append(q, OnlySuccessor(s, q[Len(q)]))
           Walk[k \in 0 .. n] ==
             IF k = 0 THEN <<s.entry>>
             ELSE LET last == Walk[k - 1][Len(Walk[k - 1])] IN
                  IF last = "END" THEN Walk[k - 1]
                  ELSE Append(Walk[k - 1], OnlySuccessor(s, last))
           X == Seq(Ids(s) \cup {"END"}) \ {<<>>}
           g == [k \in Nat |-> [q \in X |-> Longer(q)]]
           a == <<s.entry>>
<1>1. Chain(s) = SubSeq(Walk[n], 1, Len(Walk[n]) - 1)
  BY DEF Chain
<1>2. a \in X
  BY DEF Valid
<1>3. ASSUME NEW q \in X PROVE Longer(q) \in X
  <2>1. q \in Seq(Ids(s) \cup {"END"}) /\ q[Len(q)] \in Ids(s) \cup {"END"}
    OBVIOUS
  <2>2. CASE q[Len(q)] # "END"
    <3>1. OnlySuccessor(s, q[Len(q)]) \in Ids(s) \cup {"END"}
      BY <2>1, <2>2, OneSuccessor DEF OneEdge
    <3>2. Append(q, OnlySuccessor(s, q[Len(q)])) \in X
      BY <2>1, <3>1
    <3>3. QED
      BY <2>2, <3>2
  <2>3. QED
    BY <2>2
<1>4. n \in Nat
  OBVIOUS
<1>5. \A q : Longer(q) = IF q[Len(q)] = "END" THEN q ELSE Append(q, OnlySuccessor(s, q[Len(q)]))
  OBVIOUS
<1> HIDE DEF n, Longer, X, a
<1>6. g \in Steps(X) /\ \A k \in Nat : \A q \in X : g[k][q] = Longer(q)
  BY <1>3 DEF Steps
<1> HIDE DEF g
<1>7. PICK h : h \in Rounds(X, a, g, n)
  BY <1>2, <1>4, <1>6, RoundsExist
<1>8. h = [k \in 0 .. n |-> IF k = 0 THEN a ELSE Longer(h[k - 1])]
  <2>1. /\ h = [k \in 0 .. n |-> IF k = 0 THEN a ELSE g[k - 1][h[k - 1]]]
        /\ \A k \in 0 .. n : h[k] \in X
    BY <1>4, <1>7, RoundsUnfold
  <2>2. \A k \in 0 .. n : k # 0 => k - 1 \in Nat /\ k - 1 \in 0 .. n
    BY <1>4
  <2>3. QED
    BY <1>6, <2>1, <2>2
<1>9. Walk = [k \in 0 .. n |-> IF k = 0 THEN a ELSE Longer(Walk[k - 1])]
  BY <1>8, Zenon DEF Walk, Longer, a
<1> HIDE DEF Walk
<1>10. Walk[0] = a
  BY <1>4, <1>9
<1>11. ASSUME NEW k \in 0 .. n - 1 PROVE Walk[k + 1] = Longer(Walk[k])
  <2>1. k + 1 \in 0 .. n /\ k + 1 # 0 /\ (k + 1) - 1 = k
    BY <1>4
  <2>2. QED
    BY <1>9, <2>1
<1>12. QED
  BY <1>1, <1>5, <1>10, <1>11 DEF n, a

\* A graph that may be resumed is one chain through all its nodes: from the
\* entry, each node leads to the next alone, and the last to the end.
THEOREM EligibleIsOneChain ==
  ASSUME NEW s, Valid(s), Eligible(s),
         s.nodes \in Seq(RangeOf(s.nodes)), s.edges \in Seq(STRING \X STRING)
  PROVE  LET c == Chain(s)
             n == Len(s.nodes)
         IN /\ Len(c) = n /\ c[1] = s.entry
            /\ {c[i] : i \in 1 .. n} = Ids(s)
            /\ \A i \in 1 .. n - 1 : Successors(s, {c[i]}) = {c[i + 1]}
            /\ Successors(s, {c[n]}) = {}
<1> DEFINE c == Chain(s)
           n == Len(s.nodes)
<1>1. Linear(s) /\ Len(c) = n
  BY DEF Eligible
<1>2. n \in Nat /\ n # 0
  BY DEF Valid
<1>3. PICK w : /\ w[0] = <<s.entry>>
               /\ \A k \in 0 .. n - 1 : w[k + 1] = IF w[k][Len(w[k])] = "END" THEN w[k]
                                                 ELSE Append(w[k], OnlySuccessor(s, w[k][Len(w[k])]))
               /\ c = SubSeq(w[n], 1, Len(w[n]) - 1)
  BY <1>1, <1>2, ChainRounds
<1> DEFINE q == w[n]
<1> HIDE DEF n
<1>4. /\ q \in Seq(Ids(s) \cup {"END"}) /\ q # <<>> /\ Len(q) <= n + 1
      /\ Len(q) = n + 1 => Follows(s, q, n)
  BY <1>1, <1>2, <1>3, WalkFollows
<1> HIDE DEF c, q
<1>5. c = SubSeq(q, 1, Len(q) - 1)
  BY <1>3 DEF q
<1>6. Len(q) = n + 1 /\ \A i \in 1 .. n : c[i] = q[i]
  BY <1>1, <1>2, <1>4, <1>5
<1>7. Follows(s, q, n)
  BY <1>4, <1>6
<1>8. {q[i] : i \in 1 .. n} = Ids(s) /\ q[n + 1] = "END"
  BY <1>1, <1>7, FollowsAll DEF n
<1>9. c[1] = s.entry /\ {c[i] : i \in 1 .. n} = Ids(s)
  <2>1. 1 \in 1 .. n
    BY <1>2
  <2>2. c[1] = s.entry
    BY <1>6, <1>7, <2>1 DEF Follows
  <2>3. \A i \in 1 .. n : c[i] = q[i]
    BY <1>6
  <2>4. {c[i] : i \in 1 .. n} = {q[i] : i \in 1 .. n}
    BY Zenon, <2>3
  <2>5. QED
    BY Zenon, <1>8, <2>2, <2>4
<1>10. ASSUME NEW i \in 1 .. n PROVE Successors(s, {q[i]}) = {q[i + 1]} \ {"END"}
  <2>1. q[i] \in Ids(s) /\ q[i + 1] = OnlySuccessor(s, q[i])
    BY <1>7 DEF Follows
  <2>2. OneEdge(s, q[i], q[i + 1])
    BY <1>1, <2>1, OneSuccessor
  <2>3. QED
    BY <2>2 DEF OneEdge
<1>11. ASSUME NEW i \in 1 .. n - 1 PROVE Successors(s, {c[i]}) = {c[i + 1]}
  <2>1. i \in 1 .. n /\ i + 1 \in 1 .. n
    BY <1>2
  <2>2. q[i + 1] # "END"
    BY <1>7, <2>1 DEF Follows
  <2>3. QED
    BY <1>6, <1>10, <2>1, <2>2
<1>12. Successors(s, {c[n]}) = {}
  <2>1. n \in 1 .. n
    BY <1>2
  <2>2. QED
    BY <1>6, <1>8, <1>10, <2>1
<1>13. QED
  BY <1>1, <1>9, <1>11, <1>12 DEF c, n

-----------------------------------------------------------------------------
(* The built-in graphs: their nodes and what their edges lead to. *)

LEMMA NodeOfId ==
  ASSUME NEW s, NEW id \in Ids(s)
  PROVE  NodeOf(s, id) \in RangeOf(s.nodes) /\ NodeOf(s, id).id = id
BY DEF Ids, NodeOf, RangeOf

\* A sequence of its own elements.
IsList(seq) == seq \in Seq(RangeOf(seq))

LEMMA FunctionIsList ==
  ASSUME NEW n \in Nat, NEW s, s = [i \in 1 .. n |-> s[i]]
  PROVE  IsList(s) /\ Len(s) = n /\ DOMAIN s = 1 .. n
<1> DEFINE T == RangeOf(s)
<1>1. \A i \in 1 .. n : s[i] \in T
  BY DEF RangeOf
<1> HIDE DEF T
<1>2. s \in [1 .. n -> T]
  BY <1>1
<1>3. s \in Seq(T)
  BY <1>2
<1>4. DOMAIN s = 1 .. n
  OBVIOUS
<1>5. Len(s) = n
  BY <1>2
<1>6. QED
  BY <1>3, <1>4, <1>5 DEF IsList, T

LEMMA Concatenated ==
  ASSUME NEW p, NEW q, IsList(p), IsList(q)
  PROVE  IsList(p \o q) /\ RangeOf(p \o q) = RangeOf(p) \cup RangeOf(q)
<1> DEFINE pq == p \o q
           T == RangeOf(p) \cup RangeOf(q)
<1>0. p \in Seq(T) /\ q \in Seq(T)
  BY DEF IsList
<1> HIDE DEF T
<1>1. /\ pq \in Seq(T) /\ Len(pq) = Len(p) + Len(q) /\ Len(p) \in Nat /\ Len(q) \in Nat
      /\ DOMAIN pq = 1 .. Len(p) + Len(q) /\ DOMAIN p = 1 .. Len(p) /\ DOMAIN q = 1 .. Len(q)
  BY <1>0
<1>2. /\ \A i \in 1 .. Len(p) : pq[i] = p[i]
      /\ \A i \in 1 .. Len(q) : pq[Len(p) + i] = q[i]
  BY <1>0
<1> HIDE DEF pq
<1>3. \A i \in DOMAIN pq : i \in 1 .. Len(p) \/ \E j \in 1 .. Len(q) : i = Len(p) + j
  <2> TAKE i \in DOMAIN pq
  <2>1. CASE i > Len(p)
    <3>1. i - Len(p) \in 1 .. Len(q) /\ i = Len(p) + (i - Len(p))
      BY <1>1, <2>1
    <3>2. QED
      BY <3>1
  <2>2. QED
    BY <1>1, <2>1
<1>4. \A j \in 1 .. Len(q) : Len(p) + j \in DOMAIN pq
  BY <1>1
<1>5. \A i \in 1 .. Len(p) : i \in DOMAIN pq
  BY <1>1
<1>6. \A i \in DOMAIN pq : pq[i] \in RangeOf(p) \cup RangeOf(q)
  BY <1>1, <1>2, <1>3 DEF RangeOf
<1>7. \A i \in 1 .. Len(p) : p[i] \in RangeOf(pq)
  BY <1>2, <1>5 DEF RangeOf
<1>8. \A i \in 1 .. Len(q) : q[i] \in RangeOf(pq)
  BY <1>2, <1>4 DEF RangeOf
<1>9. RangeOf(pq) = RangeOf(p) \cup RangeOf(q)
  BY <1>1, <1>6, <1>7, <1>8 DEF RangeOf
<1>10. QED
  BY <1>1, <1>9 DEF pq, T, IsList

LEMMA RangeOfLists ==
  /\ \A a : RangeOf(<<a>>) = {a}
  /\ \A a, b : RangeOf(<<a, b>>) = {a, b}
  /\ \A a, b, c : RangeOf(<<a, b, c>>) = {a, b, c}
  /\ \A a, b, c, d : RangeOf(<<a, b, c, d>>) = {a, b, c, d}
  /\ \A a, b, c, d, e : RangeOf(<<a, b, c, d, e>>) = {a, b, c, d, e}
  /\ \A a, b, c, d, e, f : RangeOf(<<a, b, c, d, e, f>>) = {a, b, c, d, e, f}
  /\ \A a, b, c, d, e, f, g : RangeOf(<<a, b, c, d, e, f, g>>) = {a, b, c, d, e, f, g}
  /\ \A a, b, c, d, e, f, g, h : RangeOf(<<a, b, c, d, e, f, g, h>>) = {a, b, c, d, e, f, g, h}
BY DEF RangeOf

LEMMA ShortLists ==
  /\ \A a : IsList(<<a>>)
  /\ \A a, b : IsList(<<a, b>>)
  /\ \A a, b, c : IsList(<<a, b, c>>)
  /\ \A a, b, c, d : IsList(<<a, b, c, d>>)
<1>1. ASSUME NEW a PROVE IsList(<<a>>)
  <2>1. <<a>> \in Seq({a})
    OBVIOUS
  <2>2. QED
    BY <2>1, RangeOfLists DEF IsList
<1>2. ASSUME NEW a, NEW b PROVE IsList(<<a, b>>)
  <2>1. <<a, b>> \in Seq({a, b})
    OBVIOUS
  <2>2. QED
    BY <2>1, RangeOfLists DEF IsList
<1>3. ASSUME NEW a, NEW b, NEW c PROVE IsList(<<a, b, c>>)
  <2>1. <<a, b, c>> \in Seq({a, b, c})
    OBVIOUS
  <2>2. QED
    BY <2>1, RangeOfLists DEF IsList
<1>4. ASSUME NEW a, NEW b, NEW c, NEW d PROVE IsList(<<a, b, c, d>>)
  <2>1. <<a, b, c, d>> \in Seq({a, b, c, d})
    OBVIOUS
  <2>2. QED
    BY <2>1, RangeOfLists DEF IsList
<1>5. QED
  BY <1>1, <1>2, <1>3, <1>4

\* The edges of a path, and of one node to many or many to one.
LEMMA PathOf2 ==
  ASSUME NEW a, NEW b
  PROVE  /\ IsList(Path(<<a, b>>))
         /\ RangeOf(Path(<<a, b>>)) = { <<a, b>> }
<1> DEFINE s == <<a, b>>
           p == Path(s)
<1>1. Len(s) = 2 /\ s[1] = a /\ s[2] = b
  OBVIOUS
<1> HIDE DEF s
<1>2. p = [i \in 1 .. 1 |-> <<s[i], s[i + 1]>>]
  BY <1>1 DEF Path
<1> HIDE DEF p
<1>3. IsList(p) /\ DOMAIN p = 1 .. 1
  BY <1>2, FunctionIsList
<1>4. DOMAIN p = {1}
  BY <1>3
<1>5. p[1] = <<s[1], s[1 + 1]>>
  BY <1>2
<1>6. 1 + 1 = 2
  OBVIOUS
<1>7. p[1] = <<a, b>>
  BY <1>1, <1>5, <1>6
<1>8. RangeOf(p) = { <<a, b>> }
  BY <1>4, <1>7 DEF RangeOf
<1>9. QED
  BY <1>3, <1>8 DEF s, p

LEMMA PathOf3 ==
  ASSUME NEW a, NEW b, NEW c
  PROVE  /\ IsList(Path(<<a, b, c>>))
         /\ RangeOf(Path(<<a, b, c>>)) = { <<a, b>>, <<b, c>> }
<1> DEFINE s == <<a, b, c>>
           p == Path(s)
<1>1. Len(s) = 3 /\ s[1] = a /\ s[2] = b /\ s[3] = c
  OBVIOUS
<1> HIDE DEF s
<1>2. p = [i \in 1 .. 2 |-> <<s[i], s[i + 1]>>]
  BY <1>1 DEF Path
<1> HIDE DEF p
<1>3. IsList(p) /\ DOMAIN p = 1 .. 2
  BY <1>2, FunctionIsList
<1>4. DOMAIN p = {1, 2}
  BY <1>3
<1>5. p[1] = <<s[1], s[1 + 1]>> /\ p[2] = <<s[2], s[2 + 1]>>
  BY <1>2
<1>6. 1 + 1 = 2 /\ 2 + 1 = 3
  OBVIOUS
<1>7. p[1] = <<a, b>> /\ p[2] = <<b, c>>
  BY <1>1, <1>5, <1>6
<1>8. RangeOf(p) = { <<a, b>>, <<b, c>> }
  BY <1>4, <1>7 DEF RangeOf
<1>9. QED
  BY <1>3, <1>8 DEF s, p

LEMMA PathOf4 ==
  ASSUME NEW a, NEW b, NEW c, NEW d
  PROVE  /\ IsList(Path(<<a, b, c, d>>))
         /\ RangeOf(Path(<<a, b, c, d>>)) = { <<a, b>>, <<b, c>>, <<c, d>> }
<1> DEFINE s == <<a, b, c, d>>
           p == Path(s)
<1>1. Len(s) = 4 /\ s[1] = a /\ s[2] = b /\ s[3] = c /\ s[4] = d
  OBVIOUS
<1> HIDE DEF s
<1>2. p = [i \in 1 .. 3 |-> <<s[i], s[i + 1]>>]
  BY <1>1 DEF Path
<1> HIDE DEF p
<1>3. IsList(p) /\ DOMAIN p = 1 .. 3
  BY <1>2, FunctionIsList
<1>4. DOMAIN p = {1, 2, 3}
  BY <1>3
<1>5. p[1] = <<s[1], s[1 + 1]>> /\ p[2] = <<s[2], s[2 + 1]>> /\ p[3] = <<s[3], s[3 + 1]>>
  BY <1>2
<1>6. 1 + 1 = 2 /\ 2 + 1 = 3 /\ 3 + 1 = 4
  OBVIOUS
<1>7. p[1] = <<a, b>> /\ p[2] = <<b, c>> /\ p[3] = <<c, d>>
  BY <1>1, <1>5, <1>6
<1>8. RangeOf(p) = { <<a, b>>, <<b, c>>, <<c, d>> }
  BY <1>4, <1>7 DEF RangeOf
<1>9. QED
  BY <1>3, <1>8 DEF s, p

LEMMA PathOf6 ==
  ASSUME NEW a, NEW b, NEW c, NEW d, NEW e, NEW f
  PROVE  /\ IsList(Path(<<a, b, c, d, e, f>>))
         /\ RangeOf(Path(<<a, b, c, d, e, f>>)) =
               { <<a, b>>, <<b, c>>, <<c, d>>, <<d, e>>, <<e, f>> }
<1> DEFINE s == <<a, b, c, d, e, f>>
           p == Path(s)
<1>1. Len(s) = 6 /\ s[1] = a /\ s[2] = b /\ s[3] = c /\ s[4] = d /\ s[5] = e /\ s[6] = f
  OBVIOUS
<1> HIDE DEF s
<1>2. p = [i \in 1 .. 5 |-> <<s[i], s[i + 1]>>]
  BY <1>1 DEF Path
<1> HIDE DEF p
<1>3. IsList(p) /\ DOMAIN p = 1 .. 5
  BY <1>2, FunctionIsList
<1>4. DOMAIN p = {1, 2, 3, 4, 5}
  BY <1>3
<1>5. /\ p[1] = <<s[1], s[1 + 1]>> /\ p[2] = <<s[2], s[2 + 1]>> /\ p[3] = <<s[3], s[3 + 1]>>
      /\ p[4] = <<s[4], s[4 + 1]>> /\ p[5] = <<s[5], s[5 + 1]>>
  BY <1>2
<1>6. 1 + 1 = 2 /\ 2 + 1 = 3 /\ 3 + 1 = 4 /\ 4 + 1 = 5 /\ 5 + 1 = 6
  OBVIOUS
<1>7. /\ p[1] = <<a, b>> /\ p[2] = <<b, c>> /\ p[3] = <<c, d>>
      /\ p[4] = <<d, e>> /\ p[5] = <<e, f>>
  BY <1>1, <1>5, <1>6
<1>8. RangeOf(p) = { <<a, b>>, <<b, c>>, <<c, d>>, <<d, e>>, <<e, f>> }
  BY <1>4, <1>7 DEF RangeOf
<1>9. QED
  BY <1>3, <1>8 DEF s, p

LEMMA Stars ==
  ASSUME NEW a, NEW ids, IsList(ids), Len(ids) \in {2, 3, 4}
  PROVE  /\ IsList(Edges(<<a>>, ids)) /\ RangeOf(Edges(<<a>>, ids)) = {a} \X RangeOf(ids)
         /\ IsList(Edges(ids, <<a>>)) /\ RangeOf(Edges(ids, <<a>>)) = RangeOf(ids) \X {a}
<1> DEFINE n == Len(ids)
           one == <<a>>
<1>1. n \in Nat /\ DOMAIN ids = 1 .. n /\ n * 1 = n /\ 1 * n = n
  BY DEF IsList
<1>2. Len(one) = 1 /\ one[1] = a
  OBVIOUS
<1>3. \A i \in 1 .. n : ((i - 1) \div 1) + 1 = i /\ ((i - 1) % 1) + 1 = 1
  BY <1>1
<1>4. \A i \in 1 .. n : ((i - 1) \div n) + 1 = 1 /\ ((i - 1) % n) + 1 = i
  <2>1. CASE n = 2
    BY <2>1
  <2>2. CASE n = 3
    BY <2>2
  <2>3. CASE n = 4
    <3>1. \A i \in 1 .. 4 : i = 1 \/ i = 2 \/ i = 3 \/ i = 4
      OBVIOUS
    <3>2. /\ 0 \div 4 = 0 /\ 1 \div 4 = 0 /\ 2 \div 4 = 0 /\ 3 \div 4 = 0
          /\ 0 % 4 = 0 /\ 1 % 4 = 1 /\ 2 % 4 = 2 /\ 3 % 4 = 3
      OBVIOUS
    <3>3. /\ 1 - 1 = 0 /\ 2 - 1 = 1 /\ 3 - 1 = 2 /\ 4 - 1 = 3
          /\ 0 + 1 = 1 /\ 1 + 1 = 2 /\ 2 + 1 = 3 /\ 3 + 1 = 4
      OBVIOUS
    <3>4. /\ ((1 - 1) \div 4) + 1 = 1 /\ ((1 - 1) % 4) + 1 = 1
          /\ ((2 - 1) \div 4) + 1 = 1 /\ ((2 - 1) % 4) + 1 = 2
          /\ ((3 - 1) \div 4) + 1 = 1 /\ ((3 - 1) % 4) + 1 = 3
          /\ ((4 - 1) \div 4) + 1 = 1 /\ ((4 - 1) % 4) + 1 = 4
      BY <3>2, <3>3
    <3>5. QED
      BY <2>3, <3>1, <3>4
  <2>4. QED
    BY <2>1, <2>2, <2>3
<1> HIDE DEF n, one
<1>5. Edges(ids, one) = [i \in 1 .. n |-> <<ids[i], a>>]
  <2> DEFINE from(i) == ids[((i - 1) \div 1) + 1]
             to(i) == one[((i - 1) % 1) + 1]
  <2>1. Edges(ids, one) = [i \in 1 .. n |-> <<from(i), to(i)>>]
    BY <1>1, <1>2 DEF Edges, n
  <2>2. \A i \in 1 .. n : from(i) = ids[i] /\ to(i) = a
    BY <1>2, <1>3
  <2> HIDE DEF from, to
  <2>3. QED
    BY <2>1, <2>2, ZenonT(40)
<1>6. Edges(one, ids) = [i \in 1 .. n |-> <<a, ids[i]>>]
  <2> DEFINE from(i) == one[((i - 1) \div n) + 1]
             to(i) == ids[((i - 1) % n) + 1]
  <2>1. Edges(one, ids) = [i \in 1 .. n |-> <<from(i), to(i)>>]
    BY <1>1, <1>2 DEF Edges, n
  <2>2. \A i \in 1 .. n : from(i) = a /\ to(i) = ids[i]
    BY <1>2, <1>4
  <2> HIDE DEF from, to
  <2>3. QED
    BY <2>1, <2>2, ZenonT(40)
<1>7. IsList(Edges(ids, one)) /\ IsList(Edges(one, ids))
  BY <1>1, <1>5, <1>6, FunctionIsList
<1>8. RangeOf(Edges(one, ids)) = {<<a, ids[i]>> : i \in 1 .. n}
  BY <1>6 DEF RangeOf
<1>9. RangeOf(Edges(ids, one)) = {<<ids[i], a>> : i \in 1 .. n}
  BY <1>5 DEF RangeOf
<1>10. RangeOf(ids) = {ids[i] : i \in 1 .. n}
  BY <1>1 DEF RangeOf
<1>11. /\ RangeOf(Edges(one, ids)) = {a} \X RangeOf(ids)
       /\ RangeOf(Edges(ids, one)) = RangeOf(ids) \X {a}
  BY <1>8, <1>9, <1>10
<1>12. QED
  BY <1>7, <1>11 DEF one

\* What edges lead to from one node.
LEMMA SuccessorsByEdges ==
  ASSUME NEW s, \A e \in RangeOf(s.edges) : e = <<e[1], e[2]>>, NEW id
  PROVE  \A b : b \in Successors(s, {id}) <=> b # "END" /\ <<id, b>> \in RangeOf(s.edges)
BY DEF Successors

\* Nodes of different ids are found by them.
LEMMA NodesById ==
  ASSUME NEW s, \A m, n \in RangeOf(s.nodes) : m.id = n.id => m = n
  PROVE  /\ Ids(s) = {n.id : n \in RangeOf(s.nodes)}
         /\ \A n \in RangeOf(s.nodes) : NodeOf(s, n.id) = n
BY DEF Ids, NodeOf, RangeOf

\* What the lists of each built-in graph say.
LEMMA PlanCritiqueRefineGraph ==
  ASSUME NEW s, s = PlanCritiqueRefine
  PROVE  /\ s.entry = "plan" /\ s.output = "final" /\ Iterations(s) = 12
         /\ Ids(s) = {"plan", "critique", "refine"}
         /\ NodeOf(s, "plan") = Llm("plan", Input, "draft")
         /\ NodeOf(s, "critique") = Llm("critique", "draft", "critique")
         /\ NodeOf(s, "refine") = Llm("refine", "critique", "final")
         /\ Successors(s, {"plan"}) = {"critique"}
         /\ Successors(s, {"critique"}) = {"refine"}
         /\ Successors(s, {"refine"}) = {}
<1> DEFINE n1 == Llm("plan", Input, "draft")
           n2 == Llm("critique", "draft", "critique")
           n3 == Llm("refine", "critique", "final")
           E == { <<"plan", "critique">>, <<"critique", "refine">>, <<"refine", "END">> }
           Arc(id, b) ==
             \/ id = "plan" /\ b = "critique"
             \/ id = "critique" /\ b = "refine"
             \/ id = "refine" /\ b = "END"
<1>1. s.entry = "plan" /\ s.output = "final" /\ Iterations(s) = 12
  BY DEF PlanCritiqueRefine, Template, Iterations
<1>2. RangeOf(s.nodes) = {n1, n2, n3}
  <2>1. s.nodes = <<n1, n2, n3>>
    BY DEF PlanCritiqueRefine, Template
  <2> HIDE DEF n1, n2, n3
  <2>2. QED
    BY <2>1, RangeOfLists
<1>3. RangeOf(s.edges) = E
  <2> DEFINE e1 == Path(<<"plan", "critique", "refine", "END">>)
  <2>1. s.edges = e1
    BY DEF PlanCritiqueRefine, Template
  <2>2. IsList(e1) /\ RangeOf(e1) =
          { <<"plan", "critique">>, <<"critique", "refine">>, <<"refine", "END">> }
    BY PathOf4
  <2> HIDE DEF e1
  <2>3. QED
    BY <2>1, <2>2
<1>4. /\ n1.id = "plan" /\ n2.id = "critique" /\ n3.id = "refine"
  BY DEF Llm
<1> HIDE DEF n1, n2, n3
<1>5. \A m, n \in RangeOf(s.nodes) : m.id = n.id => m = n
  BY <1>2, <1>4
<1>6. /\ Ids(s) = {n.id : n \in RangeOf(s.nodes)}
      /\ \A n \in RangeOf(s.nodes) : NodeOf(s, n.id) = n
  BY <1>5, NodesById
<1>7. /\ Ids(s) = {"plan", "critique", "refine"}
      /\ NodeOf(s, "plan") = n1 /\ NodeOf(s, "critique") = n2
      /\ NodeOf(s, "refine") = n3
  BY <1>2, <1>4, <1>6
<1>8. \A id, b : b \in Successors(s, {id}) <=> b # "END" /\ Arc(id, b)
  <2>1. (\A e \in E : e = <<e[1], e[2]>>) /\ \A id, b : <<id, b>> \in E <=> Arc(id, b)
    OBVIOUS
  <2> HIDE DEF E, Arc
  <2>2. QED
    BY <1>3, <2>1, SuccessorsByEdges
<1>9. Successors(s, {"plan"}) = {"critique"}
  <2>1. \A b : b # "END" /\ Arc("plan", b) <=> b \in {"critique"}
    OBVIOUS
  <2> HIDE DEF Arc
  <2>2. QED
    BY <1>8, <2>1
<1>10. Successors(s, {"critique"}) = {"refine"}
  <2>1. \A b : b # "END" /\ Arc("critique", b) <=> b \in {"refine"}
    OBVIOUS
  <2> HIDE DEF Arc
  <2>2. QED
    BY <1>8, <2>1
<1>11. Successors(s, {"refine"}) = {}
  <2>1. \A b : Arc("refine", b) => b = "END"
    OBVIOUS
  <2> HIDE DEF Arc
  <2>2. QED
    BY <1>8, <2>1
<1>12. QED
  BY <1>1, <1>7, <1>9, <1>10, <1>11
  DEF n1, n2, n3

LEMMA ParallelCouncilGraph ==
  ASSUME NEW s, s = ParallelCouncil
  PROVE  /\ s.entry = "fanout" /\ s.output = "decision" /\ Iterations(s) = 8
         /\ Ids(s) = {"fanout", "optimist", "skeptic", "join", "judge"}
         /\ NodeOf(s, "fanout") = Pass("fanout")
         /\ NodeOf(s, "optimist") = Llm("optimist", Input, "optimist")
         /\ NodeOf(s, "skeptic") = Llm("skeptic", Input, "skeptic")
         /\ NodeOf(s, "join") = Collect("join", <<"optimist", "skeptic">>, "council")
         /\ NodeOf(s, "judge") = Llm("judge", "council", "decision")
         /\ Successors(s, {"fanout"}) = {"optimist", "skeptic"}
         /\ Successors(s, {"optimist"}) = {"join"}
         /\ Successors(s, {"skeptic"}) = {"join"}
         /\ Successors(s, {"join"}) = {"judge"}
         /\ Successors(s, {"judge"}) = {}
<1> DEFINE n1 == Pass("fanout")
           n2 == Llm("optimist", Input, "optimist")
           n3 == Llm("skeptic", Input, "skeptic")
           n4 == Collect("join", <<"optimist", "skeptic">>, "council")
           n5 == Llm("judge", "council", "decision")
           E == { <<"fanout", "optimist">>, <<"fanout", "skeptic">>,
                  <<"optimist", "join">>, <<"skeptic", "join">>, <<"join", "judge">>,
                  <<"judge", "END">> }
           Arc(id, b) ==
             \/ id = "fanout" /\ b = "optimist"
             \/ id = "fanout" /\ b = "skeptic"
             \/ id = "optimist" /\ b = "join"
             \/ id = "skeptic" /\ b = "join"
             \/ id = "join" /\ b = "judge"
             \/ id = "judge" /\ b = "END"
<1>1. s.entry = "fanout" /\ s.output = "decision" /\ Iterations(s) = 8
  BY DEF ParallelCouncil, Template, Iterations
<1>2. RangeOf(s.nodes) = {n1, n2, n3, n4, n5}
  <2>1. s.nodes = <<n1, n2, n3, n4, n5>>
    BY DEF ParallelCouncil, Template
  <2> HIDE DEF n1, n2, n3, n4, n5
  <2>2. QED
    BY <2>1, RangeOfLists
<1>3. RangeOf(s.edges) = E
  <2> DEFINE e1 == Edges(<<"fanout">>, <<"optimist", "skeptic">>)
             e2 == Edges(<<"optimist", "skeptic">>, <<"join">>)
             e3 == Path(<<"join", "judge", "END">>)
  <2>1. s.edges = e1 \o e2 \o e3
    BY DEF ParallelCouncil, Template
  <2>2. IsList(e1) /\ RangeOf(e1) =
          { <<"fanout", "optimist">>, <<"fanout", "skeptic">> }
    <3> DEFINE many == <<"optimist", "skeptic">>
    <3>1. IsList(many) /\ Len(many) = 2
      BY ShortLists
    <3>2. RangeOf(many) =
            {"optimist", "skeptic"}
      BY RangeOfLists
    <3>3. QED
      BY <3>1, <3>2, Stars
  <2>3. IsList(e2) /\ RangeOf(e2) =
          { <<"optimist", "join">>, <<"skeptic", "join">> }
    <3> DEFINE many == <<"optimist", "skeptic">>
    <3>1. IsList(many) /\ Len(many) = 2
      BY ShortLists
    <3>2. RangeOf(many) =
            {"optimist", "skeptic"}
      BY RangeOfLists
    <3>3. QED
      BY <3>1, <3>2, Stars
  <2>4. IsList(e3) /\ RangeOf(e3) =
          { <<"join", "judge">>, <<"judge", "END">> }
    BY PathOf3
  <2> HIDE DEF e1, e2, e3
  <2>5. IsList(e1 \o e2) /\ RangeOf(e1 \o e2) =
          RangeOf(e1) \cup RangeOf(e2)
    BY <2>2, <2>3, Concatenated
  <2>6. RangeOf(s.edges) = RangeOf(e1 \o e2) \cup RangeOf(e3)
    BY <2>1, <2>5, <2>4, Concatenated
  <2>7. QED
    BY <2>2, <2>3, <2>4, <2>5, <2>6
<1>4. /\ n1.id = "fanout" /\ n2.id = "optimist" /\ n3.id = "skeptic"
      /\ n4.id = "join" /\ n5.id = "judge"
  BY DEF Collect, Llm, Pass
<1> HIDE DEF n1, n2, n3, n4, n5
<1>5. \A m, n \in RangeOf(s.nodes) : m.id = n.id => m = n
  BY <1>2, <1>4
<1>6. /\ Ids(s) = {n.id : n \in RangeOf(s.nodes)}
      /\ \A n \in RangeOf(s.nodes) : NodeOf(s, n.id) = n
  BY <1>5, NodesById
<1>7. /\ Ids(s) = {"fanout", "optimist", "skeptic", "join", "judge"}
      /\ NodeOf(s, "fanout") = n1 /\ NodeOf(s, "optimist") = n2
      /\ NodeOf(s, "skeptic") = n3 /\ NodeOf(s, "join") = n4
      /\ NodeOf(s, "judge") = n5
  BY <1>2, <1>4, <1>6
<1>8. \A id, b : b \in Successors(s, {id}) <=> b # "END" /\ Arc(id, b)
  <2>1. (\A e \in E : e = <<e[1], e[2]>>) /\ \A id, b : <<id, b>> \in E <=> Arc(id, b)
    OBVIOUS
  <2> HIDE DEF E, Arc
  <2>2. QED
    BY <1>3, <2>1, SuccessorsByEdges
<1>9. Successors(s, {"fanout"}) = {"optimist", "skeptic"}
  <2>1. \A b : b # "END" /\ Arc("fanout", b) <=> b \in {"optimist", "skeptic"}
    OBVIOUS
  <2> HIDE DEF Arc
  <2>2. QED
    BY <1>8, <2>1
<1>10. Successors(s, {"optimist"}) = {"join"}
  <2>1. \A b : b # "END" /\ Arc("optimist", b) <=> b \in {"join"}
    OBVIOUS
  <2> HIDE DEF Arc
  <2>2. QED
    BY <1>8, <2>1
<1>11. Successors(s, {"skeptic"}) = {"join"}
  <2>1. \A b : b # "END" /\ Arc("skeptic", b) <=> b \in {"join"}
    OBVIOUS
  <2> HIDE DEF Arc
  <2>2. QED
    BY <1>8, <2>1
<1>12. Successors(s, {"join"}) = {"judge"}
  <2>1. \A b : b # "END" /\ Arc("join", b) <=> b \in {"judge"}
    OBVIOUS
  <2> HIDE DEF Arc
  <2>2. QED
    BY <1>8, <2>1
<1>13. Successors(s, {"judge"}) = {}
  <2>1. \A b : Arc("judge", b) => b = "END"
    OBVIOUS
  <2> HIDE DEF Arc
  <2>2. QED
    BY <1>8, <2>1
<1>14. QED
  BY <1>1, <1>7, <1>9, <1>10, <1>11, <1>12, <1>13
  DEF n1, n2, n3, n4, n5

LEMMA CouncilDeliberationGraph ==
  ASSUME NEW s, s = CouncilDeliberation
  PROVE  /\ s.entry = "coordinator" /\ s.output = "final_report" /\ Iterations(s) = 16
         /\ Ids(s) = {"coordinator", "fanout", "analyst_0", "analyst_1", "analyst_2", "join",
                      "synthesize"}
         /\ NodeOf(s, "coordinator") = Llm("coordinator", Input, "workstreams")
         /\ NodeOf(s, "fanout") = Pass("fanout")
         /\ NodeOf(s, "analyst_0") = Llm("analyst_0", "workstreams", "ws0_result")
         /\ NodeOf(s, "analyst_1") = Llm("analyst_1", "workstreams", "ws1_result")
         /\ NodeOf(s, "analyst_2") = Llm("analyst_2", "workstreams", "ws2_result")
         /\ NodeOf(s, "join") =
              Collect("join", <<"ws0_result", "ws1_result", "ws2_result">>, "findings")
         /\ NodeOf(s, "synthesize") = Llm("synthesize", "findings", "final_report")
         /\ Successors(s, {"coordinator"}) = {"fanout"}
         /\ Successors(s, {"fanout"}) = {"analyst_0", "analyst_1", "analyst_2"}
         /\ Successors(s, {"analyst_0"}) = {"join"}
         /\ Successors(s, {"analyst_1"}) = {"join"}
         /\ Successors(s, {"analyst_2"}) = {"join"}
         /\ Successors(s, {"join"}) = {"synthesize"}
         /\ Successors(s, {"synthesize"}) = {}
<1> DEFINE n1 == Llm("coordinator", Input, "workstreams")
           n2 == Pass("fanout")
           n3 == Llm("analyst_0", "workstreams", "ws0_result")
           n4 == Llm("analyst_1", "workstreams", "ws1_result")
           n5 == Llm("analyst_2", "workstreams", "ws2_result")
           n6 == Collect("join", <<"ws0_result", "ws1_result", "ws2_result">>, "findings")
           n7 == Llm("synthesize", "findings", "final_report")
           E == { <<"coordinator", "fanout">>, <<"fanout", "analyst_0">>,
                  <<"fanout", "analyst_1">>, <<"fanout", "analyst_2">>,
                  <<"analyst_0", "join">>, <<"analyst_1", "join">>,
                  <<"analyst_2", "join">>, <<"join", "synthesize">>,
                  <<"synthesize", "END">> }
           Arc(id, b) ==
             \/ id = "coordinator" /\ b = "fanout"
             \/ id = "fanout" /\ b = "analyst_0"
             \/ id = "fanout" /\ b = "analyst_1"
             \/ id = "fanout" /\ b = "analyst_2"
             \/ id = "analyst_0" /\ b = "join"
             \/ id = "analyst_1" /\ b = "join"
             \/ id = "analyst_2" /\ b = "join"
             \/ id = "join" /\ b = "synthesize"
             \/ id = "synthesize" /\ b = "END"
<1>1. s.entry = "coordinator" /\ s.output = "final_report" /\ Iterations(s) = 16
  BY DEF CouncilDeliberation, Template, Iterations
<1>2. RangeOf(s.nodes) = {n1, n2, n3, n4, n5, n6, n7}
  <2>1. s.nodes = <<n1, n2, n3, n4, n5, n6, n7>>
    BY DEF CouncilDeliberation, Template
  <2> HIDE DEF n1, n2, n3, n4, n5, n6, n7
  <2>2. QED
    BY <2>1, RangeOfLists
<1>3. RangeOf(s.edges) = E
  <2> DEFINE e1 == Path(<<"coordinator", "fanout">>)
             e2 == Edges(<<"fanout">>, <<"analyst_0", "analyst_1", "analyst_2">>)
             e3 == Edges(<<"analyst_0", "analyst_1", "analyst_2">>, <<"join">>)
             e4 == Path(<<"join", "synthesize", "END">>)
  <2>1. s.edges = e1 \o e2 \o e3 \o e4
    BY DEF CouncilDeliberation, Template
  <2>2. IsList(e1) /\ RangeOf(e1) =
          { <<"coordinator", "fanout">> }
    BY PathOf2
  <2>3. IsList(e2) /\ RangeOf(e2) =
          { <<"fanout", "analyst_0">>, <<"fanout", "analyst_1">>,
            <<"fanout", "analyst_2">> }
    <3> DEFINE many == <<"analyst_0", "analyst_1", "analyst_2">>
    <3>1. IsList(many) /\ Len(many) = 3
      BY ShortLists
    <3>2. RangeOf(many) =
            {"analyst_0", "analyst_1", "analyst_2"}
      BY RangeOfLists
    <3>3. QED
      BY <3>1, <3>2, Stars
  <2>4. IsList(e3) /\ RangeOf(e3) =
          { <<"analyst_0", "join">>, <<"analyst_1", "join">>,
            <<"analyst_2", "join">> }
    <3> DEFINE many == <<"analyst_0", "analyst_1", "analyst_2">>
    <3>1. IsList(many) /\ Len(many) = 3
      BY ShortLists
    <3>2. RangeOf(many) =
            {"analyst_0", "analyst_1", "analyst_2"}
      BY RangeOfLists
    <3>3. QED
      BY <3>1, <3>2, Stars
  <2>5. IsList(e4) /\ RangeOf(e4) =
          { <<"join", "synthesize">>, <<"synthesize", "END">> }
    BY PathOf3
  <2> HIDE DEF e1, e2, e3, e4
  <2>6. IsList(e1 \o e2) /\ RangeOf(e1 \o e2) =
          RangeOf(e1) \cup RangeOf(e2)
    BY <2>2, <2>3, Concatenated
  <2>7. IsList(e1 \o e2 \o e3) /\ RangeOf(e1 \o e2 \o e3) =
          RangeOf(e1) \cup RangeOf(e2) \cup RangeOf(e3)
    BY <2>6, <2>4, Concatenated
  <2>8. RangeOf(s.edges) = RangeOf(e1 \o e2 \o e3) \cup RangeOf(e4)
    BY <2>1, <2>7, <2>5, Concatenated
  <2>9. QED
    BY <2>2, <2>3, <2>4, <2>5, <2>7, <2>8
<1>4. /\ n1.id = "coordinator" /\ n2.id = "fanout" /\ n3.id = "analyst_0"
      /\ n4.id = "analyst_1" /\ n5.id = "analyst_2" /\ n6.id = "join"
      /\ n7.id = "synthesize"
  BY DEF Collect, Llm, Pass
<1> HIDE DEF n1, n2, n3, n4, n5, n6, n7
<1>5. \A m, n \in RangeOf(s.nodes) : m.id = n.id => m = n
  BY <1>2, <1>4
<1>6. /\ Ids(s) = {n.id : n \in RangeOf(s.nodes)}
      /\ \A n \in RangeOf(s.nodes) : NodeOf(s, n.id) = n
  BY <1>5, NodesById
<1>7. /\ Ids(s) = {"coordinator", "fanout", "analyst_0", "analyst_1", "analyst_2", "join",
                   "synthesize"}
      /\ NodeOf(s, "coordinator") = n1 /\ NodeOf(s, "fanout") = n2
      /\ NodeOf(s, "analyst_0") = n3 /\ NodeOf(s, "analyst_1") = n4
      /\ NodeOf(s, "analyst_2") = n5 /\ NodeOf(s, "join") = n6
      /\ NodeOf(s, "synthesize") = n7
  BY <1>2, <1>4, <1>6
<1>8. \A id, b : b \in Successors(s, {id}) <=> b # "END" /\ Arc(id, b)
  <2>1. (\A e \in E : e = <<e[1], e[2]>>) /\ \A id, b : <<id, b>> \in E <=> Arc(id, b)
    OBVIOUS
  <2> HIDE DEF E, Arc
  <2>2. QED
    BY <1>3, <2>1, SuccessorsByEdges
<1>9. Successors(s, {"coordinator"}) = {"fanout"}
  <2>1. \A b : b # "END" /\ Arc("coordinator", b) <=> b \in {"fanout"}
    OBVIOUS
  <2> HIDE DEF Arc
  <2>2. QED
    BY <1>8, <2>1
<1>10. Successors(s, {"fanout"}) = {"analyst_0", "analyst_1", "analyst_2"}
  <2>1. \A b : b # "END" /\ Arc("fanout", b) <=> b \in {"analyst_0", "analyst_1", "analyst_2"}
    OBVIOUS
  <2> HIDE DEF Arc
  <2>2. QED
    BY <1>8, <2>1
<1>11. Successors(s, {"analyst_0"}) = {"join"}
  <2>1. \A b : b # "END" /\ Arc("analyst_0", b) <=> b \in {"join"}
    OBVIOUS
  <2> HIDE DEF Arc
  <2>2. QED
    BY <1>8, <2>1
<1>12. Successors(s, {"analyst_1"}) = {"join"}
  <2>1. \A b : b # "END" /\ Arc("analyst_1", b) <=> b \in {"join"}
    OBVIOUS
  <2> HIDE DEF Arc
  <2>2. QED
    BY <1>8, <2>1
<1>13. Successors(s, {"analyst_2"}) = {"join"}
  <2>1. \A b : b # "END" /\ Arc("analyst_2", b) <=> b \in {"join"}
    OBVIOUS
  <2> HIDE DEF Arc
  <2>2. QED
    BY <1>8, <2>1
<1>14. Successors(s, {"join"}) = {"synthesize"}
  <2>1. \A b : b # "END" /\ Arc("join", b) <=> b \in {"synthesize"}
    OBVIOUS
  <2> HIDE DEF Arc
  <2>2. QED
    BY <1>8, <2>1
<1>15. Successors(s, {"synthesize"}) = {}
  <2>1. \A b : Arc("synthesize", b) => b = "END"
    OBVIOUS
  <2> HIDE DEF Arc
  <2>2. QED
    BY <1>8, <2>1
<1>16. QED
  BY <1>1, <1>7, <1>9, <1>10, <1>11, <1>12, <1>13, <1>14, <1>15
  DEF n1, n2, n3, n4, n5, n6, n7

LEMMA AnalysisPipelineGraph ==
  ASSUME NEW s, s = AnalysisPipeline
  PROVE  /\ s.entry = "planner" /\ s.output = "final" /\ Iterations(s) = 20
         /\ Ids(s) = {"planner", "researcher", "extractor", "synthesizer", "validator",
                      "validation_router", "corrector", "formatter"}
         /\ NodeOf(s, "planner") = Llm("planner", Input, "plan")
         /\ NodeOf(s, "researcher") = Llm("researcher", "plan", "research")
         /\ NodeOf(s, "extractor") = Llm("extractor", "research", "claims")
         /\ NodeOf(s, "synthesizer") = Llm("synthesizer", "claims", "summary")
         /\ NodeOf(s, "validator") = Llm("validator", "summary", "validation")
         /\ NodeOf(s, "validation_router") =
              Router("validation_router",
                     <<Rule("validation.valid", "eq", Yes, "formatter"),
                       Rule("validation.valid", "eq", No, "corrector")>>,
                     <<"formatter">>)
         /\ NodeOf(s, "corrector") = Llm("corrector", "validation", "summary")
         /\ NodeOf(s, "formatter") = Llm("formatter", Input, "final")
         /\ Successors(s, {"planner"}) = {"researcher"}
         /\ Successors(s, {"researcher"}) = {"extractor"}
         /\ Successors(s, {"extractor"}) = {"synthesizer"}
         /\ Successors(s, {"synthesizer"}) = {"validator"}
         /\ Successors(s, {"validator"}) = {"validation_router"}
         /\ Successors(s, {"validation_router"}) = {"formatter", "corrector"}
         /\ Successors(s, {"corrector"}) = {"validator"}
         /\ Successors(s, {"formatter"}) = {}
<1> DEFINE n1 == Llm("planner", Input, "plan")
           n2 == Llm("researcher", "plan", "research")
           n3 == Llm("extractor", "research", "claims")
           n4 == Llm("synthesizer", "claims", "summary")
           n5 == Llm("validator", "summary", "validation")
           n6 == Router("validation_router",
                        <<Rule("validation.valid", "eq", Yes, "formatter"),
                          Rule("validation.valid", "eq", No, "corrector")>>,
                        <<"formatter">>)
           n7 == Llm("corrector", "validation", "summary")
           n8 == Llm("formatter", Input, "final")
           E == { <<"planner", "researcher">>, <<"researcher", "extractor">>,
                  <<"extractor", "synthesizer">>, <<"synthesizer", "validator">>,
                  <<"validator", "validation_router">>,
                  <<"validation_router", "formatter">>,
                  <<"validation_router", "corrector">>, <<"corrector", "validator">>,
                  <<"formatter", "END">> }
           Arc(id, b) ==
             \/ id = "planner" /\ b = "researcher"
             \/ id = "researcher" /\ b = "extractor"
             \/ id = "extractor" /\ b = "synthesizer"
             \/ id = "synthesizer" /\ b = "validator"
             \/ id = "validator" /\ b = "validation_router"
             \/ id = "validation_router" /\ b = "formatter"
             \/ id = "validation_router" /\ b = "corrector"
             \/ id = "corrector" /\ b = "validator"
             \/ id = "formatter" /\ b = "END"
<1>1. s.entry = "planner" /\ s.output = "final" /\ Iterations(s) = 20
  BY DEF AnalysisPipeline, Template, Iterations
<1>2. RangeOf(s.nodes) = {n1, n2, n3, n4, n5, n6, n7, n8}
  <2>1. s.nodes = <<n1, n2, n3, n4, n5, n6, n7, n8>>
    BY DEF AnalysisPipeline, Template
  <2> HIDE DEF n1, n2, n3, n4, n5, n6, n7, n8
  <2>2. QED
    BY <2>1, RangeOfLists
<1>3. RangeOf(s.edges) = E
  <2> DEFINE e1 == Path(<<"planner", "researcher", "extractor", "synthesizer", "validator",
                          "validation_router">>)
             e2 == Edges(<<"validation_router">>, <<"formatter", "corrector">>)
             e3 == << <<"corrector", "validator">>, <<"formatter", "END">> >>
  <2>1. s.edges = e1 \o e2 \o e3
    BY DEF AnalysisPipeline, Template
  <2>2. IsList(e1) /\ RangeOf(e1) =
          { <<"planner", "researcher">>, <<"researcher", "extractor">>,
            <<"extractor", "synthesizer">>, <<"synthesizer", "validator">>,
            <<"validator", "validation_router">> }
    BY PathOf6
  <2>3. IsList(e2) /\ RangeOf(e2) =
          { <<"validation_router", "formatter">>,
            <<"validation_router", "corrector">> }
    <3> DEFINE many == <<"formatter", "corrector">>
    <3>1. IsList(many) /\ Len(many) = 2
      BY ShortLists
    <3>2. RangeOf(many) =
            {"formatter", "corrector"}
      BY RangeOfLists
    <3>3. QED
      BY <3>1, <3>2, Stars
  <2>4. IsList(e3) /\ RangeOf(e3) =
          { <<"corrector", "validator">>, <<"formatter", "END">> }
    BY ShortLists, RangeOfLists
  <2> HIDE DEF e1, e2, e3
  <2>5. IsList(e1 \o e2) /\ RangeOf(e1 \o e2) =
          RangeOf(e1) \cup RangeOf(e2)
    BY <2>2, <2>3, Concatenated
  <2>6. RangeOf(s.edges) = RangeOf(e1 \o e2) \cup RangeOf(e3)
    BY <2>1, <2>5, <2>4, Concatenated
  <2>7. QED
    BY <2>2, <2>3, <2>4, <2>5, <2>6
<1>4. /\ n1.id = "planner" /\ n2.id = "researcher" /\ n3.id = "extractor"
      /\ n4.id = "synthesizer" /\ n5.id = "validator" /\ n6.id = "validation_router"
      /\ n7.id = "corrector" /\ n8.id = "formatter"
  BY DEF Llm, Router
<1> HIDE DEF n1, n2, n3, n4, n5, n6, n7, n8
<1>5. \A m, n \in RangeOf(s.nodes) : m.id = n.id => m = n
  BY <1>2, <1>4
<1>6. /\ Ids(s) = {n.id : n \in RangeOf(s.nodes)}
      /\ \A n \in RangeOf(s.nodes) : NodeOf(s, n.id) = n
  BY <1>5, NodesById
<1>7. /\ Ids(s) = {"planner", "researcher", "extractor", "synthesizer", "validator",
                   "validation_router", "corrector", "formatter"}
      /\ NodeOf(s, "planner") = n1 /\ NodeOf(s, "researcher") = n2
      /\ NodeOf(s, "extractor") = n3 /\ NodeOf(s, "synthesizer") = n4
      /\ NodeOf(s, "validator") = n5 /\ NodeOf(s, "validation_router") = n6
      /\ NodeOf(s, "corrector") = n7 /\ NodeOf(s, "formatter") = n8
  BY <1>2, <1>4, <1>6
<1>8. \A id, b : b \in Successors(s, {id}) <=> b # "END" /\ Arc(id, b)
  <2>1. (\A e \in E : e = <<e[1], e[2]>>) /\ \A id, b : <<id, b>> \in E <=> Arc(id, b)
    OBVIOUS
  <2> HIDE DEF E, Arc
  <2>2. QED
    BY <1>3, <2>1, SuccessorsByEdges
<1>9. Successors(s, {"planner"}) = {"researcher"}
  <2>1. \A b : b # "END" /\ Arc("planner", b) <=> b \in {"researcher"}
    OBVIOUS
  <2> HIDE DEF Arc
  <2>2. QED
    BY <1>8, <2>1
<1>10. Successors(s, {"researcher"}) = {"extractor"}
  <2>1. \A b : b # "END" /\ Arc("researcher", b) <=> b \in {"extractor"}
    OBVIOUS
  <2> HIDE DEF Arc
  <2>2. QED
    BY <1>8, <2>1
<1>11. Successors(s, {"extractor"}) = {"synthesizer"}
  <2>1. \A b : b # "END" /\ Arc("extractor", b) <=> b \in {"synthesizer"}
    OBVIOUS
  <2> HIDE DEF Arc
  <2>2. QED
    BY <1>8, <2>1
<1>12. Successors(s, {"synthesizer"}) = {"validator"}
  <2>1. \A b : b # "END" /\ Arc("synthesizer", b) <=> b \in {"validator"}
    OBVIOUS
  <2> HIDE DEF Arc
  <2>2. QED
    BY <1>8, <2>1
<1>13. Successors(s, {"validator"}) = {"validation_router"}
  <2>1. \A b : b # "END" /\ Arc("validator", b) <=> b \in {"validation_router"}
    OBVIOUS
  <2> HIDE DEF Arc
  <2>2. QED
    BY <1>8, <2>1
<1>14. Successors(s, {"validation_router"}) = {"formatter", "corrector"}
  <2>1. \A b : b # "END" /\ Arc("validation_router", b) <=> b \in {"formatter", "corrector"}
    OBVIOUS
  <2> HIDE DEF Arc
  <2>2. QED
    BY <1>8, <2>1
<1>15. Successors(s, {"corrector"}) = {"validator"}
  <2>1. \A b : b # "END" /\ Arc("corrector", b) <=> b \in {"validator"}
    OBVIOUS
  <2> HIDE DEF Arc
  <2>2. QED
    BY <1>8, <2>1
<1>16. Successors(s, {"formatter"}) = {}
  <2>1. \A b : Arc("formatter", b) => b = "END"
    OBVIOUS
  <2> HIDE DEF Arc
  <2>2. QED
    BY <1>8, <2>1
<1>17. QED
  BY <1>1, <1>7, <1>9, <1>10, <1>11, <1>12, <1>13, <1>14, <1>15, <1>16
  DEF n1, n2, n3, n4, n5, n6, n7, n8

LEMMA ClassifierRouterGraph ==
  ASSUME NEW s, s = ClassifierRouter
  PROVE  /\ s.entry = "classifier" /\ s.output = "response" /\ Iterations(s) = 8
         /\ Ids(s) = {"classifier", "router", "bug_handler", "feature_handler",
                      "question_handler", "general_handler"}
         /\ NodeOf(s, "classifier") = Llm("classifier", Input, "classification.label")
         /\ NodeOf(s, "router") =
              Router("router",
                     <<Rule("classification.label", "contains", <<"text", "bug">>,
                            "bug_handler"),
                       Rule("classification.label", "contains", <<"text", "feature">>,
                            "feature_handler"),
                       Rule("classification.label", "contains", <<"text", "question">>,
                            "question_handler")>>,
                     <<"general_handler">>)
         /\ NodeOf(s, "bug_handler") = Llm("bug_handler", Input, "response")
         /\ NodeOf(s, "feature_handler") = Llm("feature_handler", Input, "response")
         /\ NodeOf(s, "question_handler") = Llm("question_handler", Input, "response")
         /\ NodeOf(s, "general_handler") = Llm("general_handler", Input, "response")
         /\ Successors(s, {"classifier"}) = {"router"}
         /\ Successors(s, {"router"}) = {}
         /\ Successors(s, {"bug_handler"}) = {}
         /\ Successors(s, {"feature_handler"}) = {}
         /\ Successors(s, {"question_handler"}) = {}
         /\ Successors(s, {"general_handler"}) = {}
<1> DEFINE n1 == Llm("classifier", Input, "classification.label")
           n2 == Router("router",
                        <<Rule("classification.label", "contains", <<"text", "bug">>,
                               "bug_handler"),
                          Rule("classification.label", "contains", <<"text", "feature">>,
                               "feature_handler"),
                          Rule("classification.label", "contains", <<"text", "question">>,
                               "question_handler")>>,
                        <<"general_handler">>)
           n3 == Llm("bug_handler", Input, "response")
           n4 == Llm("feature_handler", Input, "response")
           n5 == Llm("question_handler", Input, "response")
           n6 == Llm("general_handler", Input, "response")
           E == { <<"classifier", "router">>, <<"bug_handler", "END">>,
                  <<"feature_handler", "END">>, <<"question_handler", "END">>,
                  <<"general_handler", "END">> }
           Arc(id, b) ==
             \/ id = "classifier" /\ b = "router"
             \/ id = "bug_handler" /\ b = "END"
             \/ id = "feature_handler" /\ b = "END"
             \/ id = "question_handler" /\ b = "END"
             \/ id = "general_handler" /\ b = "END"
<1>1. s.entry = "classifier" /\ s.output = "response" /\ Iterations(s) = 8
  BY DEF ClassifierRouter, Template, Iterations
<1>2. RangeOf(s.nodes) = {n1, n2, n3, n4, n5, n6}
  <2> DEFINE first == <<n1, n2>>
             handlers == <<"bug_handler", "feature_handler", "question_handler",
                           "general_handler">>
             second == [i \in DOMAIN handlers |-> Llm(handlers[i], Input, "response")]
  <2>1. s.nodes = first \o second
    BY DEF ClassifierRouter, Template
  <2>2. /\ DOMAIN handlers = 1 .. 4
        /\ handlers[1] = "bug_handler" /\ handlers[2] = "feature_handler"
        /\ handlers[3] = "question_handler" /\ handlers[4] = "general_handler"
    OBVIOUS
  <2> HIDE DEF handlers
  <2>3. IsList(second) /\ DOMAIN second = {1, 2, 3, 4}
    <3>1. DOMAIN second = {1, 2, 3, 4}
      BY <2>2
    <3>2. IsList(second)
      BY <2>2, FunctionIsList
    <3>3. QED
      BY <3>1, <3>2
  <2>4. second[1] = n3 /\ second[2] = n4 /\ second[3] = n5 /\ second[4] = n6
    BY <2>2
  <2> HIDE DEF n1, n2, n3, n4, n5, n6, second
  <2>5. RangeOf(second) = {n3, n4, n5, n6}
    BY <2>3, <2>4 DEF RangeOf
  <2>6. IsList(first) /\ RangeOf(first) = {n1, n2}
    BY ShortLists, RangeOfLists
  <2> HIDE DEF first
  <2>7. QED
    BY <2>1, <2>3, <2>5, <2>6, Concatenated
<1>3. RangeOf(s.edges) = E
  <2> DEFINE e1 == Path(<<"classifier", "router">>)
             e2 == Edges(<<"bug_handler", "feature_handler", "question_handler",
                           "general_handler">>,
                        <<"END">>)
  <2>1. s.edges = e1 \o e2
    BY DEF ClassifierRouter, Template
  <2>2. IsList(e1) /\ RangeOf(e1) =
          { <<"classifier", "router">> }
    BY PathOf2
  <2>3. IsList(e2) /\ RangeOf(e2) =
          { <<"bug_handler", "END">>, <<"feature_handler", "END">>,
            <<"question_handler", "END">>, <<"general_handler", "END">> }
    <3> DEFINE many == <<"bug_handler", "feature_handler", "question_handler",
                         "general_handler">>
    <3>1. IsList(many) /\ Len(many) = 4
      BY ShortLists
    <3>2. RangeOf(many) =
            {"bug_handler", "feature_handler", "question_handler", "general_handler"}
      BY RangeOfLists
    <3>3. QED
      BY <3>1, <3>2, Stars
  <2> HIDE DEF e1, e2
  <2>4. QED
    BY <2>1, <2>2, <2>3, Concatenated
<1>4. /\ n1.id = "classifier" /\ n2.id = "router" /\ n3.id = "bug_handler"
      /\ n4.id = "feature_handler" /\ n5.id = "question_handler" /\ n6.id = "general_handler"
  BY DEF Llm, Router
<1> HIDE DEF n1, n2, n3, n4, n5, n6
<1>5. \A m, n \in RangeOf(s.nodes) : m.id = n.id => m = n
  BY <1>2, <1>4
<1>6. /\ Ids(s) = {n.id : n \in RangeOf(s.nodes)}
      /\ \A n \in RangeOf(s.nodes) : NodeOf(s, n.id) = n
  BY <1>5, NodesById
<1>7. /\ Ids(s) = {"classifier", "router", "bug_handler", "feature_handler", "question_handler",
                   "general_handler"}
      /\ NodeOf(s, "classifier") = n1 /\ NodeOf(s, "router") = n2
      /\ NodeOf(s, "bug_handler") = n3 /\ NodeOf(s, "feature_handler") = n4
      /\ NodeOf(s, "question_handler") = n5 /\ NodeOf(s, "general_handler") = n6
  BY <1>2, <1>4, <1>6
<1>8. \A id, b : b \in Successors(s, {id}) <=> b # "END" /\ Arc(id, b)
  <2>1. (\A e \in E : e = <<e[1], e[2]>>) /\ \A id, b : <<id, b>> \in E <=> Arc(id, b)
    OBVIOUS
  <2> HIDE DEF E, Arc
  <2>2. QED
    BY <1>3, <2>1, SuccessorsByEdges
<1>9. Successors(s, {"classifier"}) = {"router"}
  <2>1. \A b : b # "END" /\ Arc("classifier", b) <=> b \in {"router"}
    OBVIOUS
  <2> HIDE DEF Arc
  <2>2. QED
    BY <1>8, <2>1
<1>10. Successors(s, {"router"}) = {}
  <2>1. \A b : Arc("router", b) => b = "END"
    OBVIOUS
  <2> HIDE DEF Arc
  <2>2. QED
    BY <1>8, <2>1
<1>11. Successors(s, {"bug_handler"}) = {}
  <2>1. \A b : Arc("bug_handler", b) => b = "END"
    OBVIOUS
  <2> HIDE DEF Arc
  <2>2. QED
    BY <1>8, <2>1
<1>12. Successors(s, {"feature_handler"}) = {}
  <2>1. \A b : Arc("feature_handler", b) => b = "END"
    OBVIOUS
  <2> HIDE DEF Arc
  <2>2. QED
    BY <1>8, <2>1
<1>13. Successors(s, {"question_handler"}) = {}
  <2>1. \A b : Arc("question_handler", b) => b = "END"
    OBVIOUS
  <2> HIDE DEF Arc
  <2>2. QED
    BY <1>8, <2>1
<1>14. Successors(s, {"general_handler"}) = {}
  <2>1. \A b : Arc("general_handler", b) => b = "END"
    OBVIOUS
  <2> HIDE DEF Arc
  <2>2. QED
    BY <1>8, <2>1
<1>15. QED
  BY <1>1, <1>7, <1>9, <1>10, <1>11, <1>12, <1>13, <1>14
  DEF n1, n2, n3, n4, n5, n6

LEMMA CodeAuditGraph ==
  ASSUME NEW s, s = CodeAudit
  PROVE  /\ s.entry = "coordinator" /\ s.output = "audit_report" /\ Iterations(s) = 16
         /\ Ids(s) = {"coordinator", "fanout", "arch_auditor", "security_auditor",
                      "quality_auditor", "join", "synthesize"}
         /\ NodeOf(s, "coordinator") = Llm("coordinator", Input, "audit_dimensions")
         /\ NodeOf(s, "fanout") = Pass("fanout")
         /\ NodeOf(s, "arch_auditor") = Llm("arch_auditor", "audit_dimensions", "arch_result")
         /\ NodeOf(s, "security_auditor") =
              Llm("security_auditor", "audit_dimensions", "security_result")
         /\ NodeOf(s, "quality_auditor") =
              Llm("quality_auditor", "audit_dimensions", "quality_result")
         /\ NodeOf(s, "join") =
              Collect("join", <<"arch_result", "security_result", "quality_result">>,
                                "findings")
         /\ NodeOf(s, "synthesize") = Llm("synthesize", "findings", "audit_report")
         /\ Successors(s, {"coordinator"}) = {"fanout"}
         /\ Successors(s, {"fanout"}) = {"arch_auditor", "security_auditor", "quality_auditor"}
         /\ Successors(s, {"arch_auditor"}) = {"join"}
         /\ Successors(s, {"security_auditor"}) = {"join"}
         /\ Successors(s, {"quality_auditor"}) = {"join"}
         /\ Successors(s, {"join"}) = {"synthesize"}
         /\ Successors(s, {"synthesize"}) = {}
<1> DEFINE n1 == Llm("coordinator", Input, "audit_dimensions")
           n2 == Pass("fanout")
           n3 == Llm("arch_auditor", "audit_dimensions", "arch_result")
           n4 == Llm("security_auditor", "audit_dimensions", "security_result")
           n5 == Llm("quality_auditor", "audit_dimensions", "quality_result")
           n6 == Collect("join", <<"arch_result", "security_result", "quality_result">>,
                                   "findings")
           n7 == Llm("synthesize", "findings", "audit_report")
           E == { <<"coordinator", "fanout">>, <<"fanout", "arch_auditor">>,
                  <<"fanout", "security_auditor">>, <<"fanout", "quality_auditor">>,
                  <<"arch_auditor", "join">>, <<"security_auditor", "join">>,
                  <<"quality_auditor", "join">>, <<"join", "synthesize">>,
                  <<"synthesize", "END">> }
           Arc(id, b) ==
             \/ id = "coordinator" /\ b = "fanout"
             \/ id = "fanout" /\ b = "arch_auditor"
             \/ id = "fanout" /\ b = "security_auditor"
             \/ id = "fanout" /\ b = "quality_auditor"
             \/ id = "arch_auditor" /\ b = "join"
             \/ id = "security_auditor" /\ b = "join"
             \/ id = "quality_auditor" /\ b = "join"
             \/ id = "join" /\ b = "synthesize"
             \/ id = "synthesize" /\ b = "END"
<1>1. s.entry = "coordinator" /\ s.output = "audit_report" /\ Iterations(s) = 16
  BY DEF CodeAudit, Template, Iterations
<1>2. RangeOf(s.nodes) = {n1, n2, n3, n4, n5, n6, n7}
  <2>1. s.nodes = <<n1, n2, n3, n4, n5, n6, n7>>
    BY DEF CodeAudit, Template
  <2> HIDE DEF n1, n2, n3, n4, n5, n6, n7
  <2>2. QED
    BY <2>1, RangeOfLists
<1>3. RangeOf(s.edges) = E
  <2> DEFINE e1 == Path(<<"coordinator", "fanout">>)
             e2 == Edges(<<"fanout">>, <<"arch_auditor", "security_auditor",
                                         "quality_auditor">>)
             e3 == Edges(<<"arch_auditor", "security_auditor", "quality_auditor">>, <<"join">>)
             e4 == Path(<<"join", "synthesize", "END">>)
  <2>1. s.edges = e1 \o e2 \o e3 \o e4
    BY DEF CodeAudit, Template
  <2>2. IsList(e1) /\ RangeOf(e1) =
          { <<"coordinator", "fanout">> }
    BY PathOf2
  <2>3. IsList(e2) /\ RangeOf(e2) =
          { <<"fanout", "arch_auditor">>, <<"fanout", "security_auditor">>,
            <<"fanout", "quality_auditor">> }
    <3> DEFINE many == <<"arch_auditor", "security_auditor", "quality_auditor">>
    <3>1. IsList(many) /\ Len(many) = 3
      BY ShortLists
    <3>2. RangeOf(many) =
            {"arch_auditor", "security_auditor", "quality_auditor"}
      BY RangeOfLists
    <3>3. QED
      BY <3>1, <3>2, Stars
  <2>4. IsList(e3) /\ RangeOf(e3) =
          { <<"arch_auditor", "join">>, <<"security_auditor", "join">>,
            <<"quality_auditor", "join">> }
    <3> DEFINE many == <<"arch_auditor", "security_auditor", "quality_auditor">>
    <3>1. IsList(many) /\ Len(many) = 3
      BY ShortLists
    <3>2. RangeOf(many) =
            {"arch_auditor", "security_auditor", "quality_auditor"}
      BY RangeOfLists
    <3>3. QED
      BY <3>1, <3>2, Stars
  <2>5. IsList(e4) /\ RangeOf(e4) =
          { <<"join", "synthesize">>, <<"synthesize", "END">> }
    BY PathOf3
  <2> HIDE DEF e1, e2, e3, e4
  <2>6. IsList(e1 \o e2) /\ RangeOf(e1 \o e2) =
          RangeOf(e1) \cup RangeOf(e2)
    BY <2>2, <2>3, Concatenated
  <2>7. IsList(e1 \o e2 \o e3) /\ RangeOf(e1 \o e2 \o e3) =
          RangeOf(e1) \cup RangeOf(e2) \cup RangeOf(e3)
    BY <2>6, <2>4, Concatenated
  <2>8. RangeOf(s.edges) = RangeOf(e1 \o e2 \o e3) \cup RangeOf(e4)
    BY <2>1, <2>7, <2>5, Concatenated
  <2>9. QED
    BY <2>2, <2>3, <2>4, <2>5, <2>7, <2>8
<1>4. /\ n1.id = "coordinator" /\ n2.id = "fanout" /\ n3.id = "arch_auditor"
      /\ n4.id = "security_auditor" /\ n5.id = "quality_auditor" /\ n6.id = "join"
      /\ n7.id = "synthesize"
  BY DEF Collect, Llm, Pass
<1> HIDE DEF n1, n2, n3, n4, n5, n6, n7
<1>5. \A m, n \in RangeOf(s.nodes) : m.id = n.id => m = n
  BY <1>2, <1>4
<1>6. /\ Ids(s) = {n.id : n \in RangeOf(s.nodes)}
      /\ \A n \in RangeOf(s.nodes) : NodeOf(s, n.id) = n
  BY <1>5, NodesById
<1>7. /\ Ids(s) = {"coordinator", "fanout", "arch_auditor", "security_auditor",
                   "quality_auditor", "join", "synthesize"}
      /\ NodeOf(s, "coordinator") = n1 /\ NodeOf(s, "fanout") = n2
      /\ NodeOf(s, "arch_auditor") = n3 /\ NodeOf(s, "security_auditor") = n4
      /\ NodeOf(s, "quality_auditor") = n5 /\ NodeOf(s, "join") = n6
      /\ NodeOf(s, "synthesize") = n7
  BY <1>2, <1>4, <1>6
<1>8. \A id, b : b \in Successors(s, {id}) <=> b # "END" /\ Arc(id, b)
  <2>1. (\A e \in E : e = <<e[1], e[2]>>) /\ \A id, b : <<id, b>> \in E <=> Arc(id, b)
    OBVIOUS
  <2> HIDE DEF E, Arc
  <2>2. QED
    BY <1>3, <2>1, SuccessorsByEdges
<1>9. Successors(s, {"coordinator"}) = {"fanout"}
  <2>1. \A b : b # "END" /\ Arc("coordinator", b) <=> b \in {"fanout"}
    OBVIOUS
  <2> HIDE DEF Arc
  <2>2. QED
    BY <1>8, <2>1
<1>10. Successors(s, {"fanout"}) = {"arch_auditor", "security_auditor", "quality_auditor"}
  <2>1. \A b : b # "END" /\ Arc("fanout", b) <=>
               b \in {"arch_auditor", "security_auditor", "quality_auditor"}
    OBVIOUS
  <2> HIDE DEF Arc
  <2>2. QED
    BY <1>8, <2>1
<1>11. Successors(s, {"arch_auditor"}) = {"join"}
  <2>1. \A b : b # "END" /\ Arc("arch_auditor", b) <=> b \in {"join"}
    OBVIOUS
  <2> HIDE DEF Arc
  <2>2. QED
    BY <1>8, <2>1
<1>12. Successors(s, {"security_auditor"}) = {"join"}
  <2>1. \A b : b # "END" /\ Arc("security_auditor", b) <=> b \in {"join"}
    OBVIOUS
  <2> HIDE DEF Arc
  <2>2. QED
    BY <1>8, <2>1
<1>13. Successors(s, {"quality_auditor"}) = {"join"}
  <2>1. \A b : b # "END" /\ Arc("quality_auditor", b) <=> b \in {"join"}
    OBVIOUS
  <2> HIDE DEF Arc
  <2>2. QED
    BY <1>8, <2>1
<1>14. Successors(s, {"join"}) = {"synthesize"}
  <2>1. \A b : b # "END" /\ Arc("join", b) <=> b \in {"synthesize"}
    OBVIOUS
  <2> HIDE DEF Arc
  <2>2. QED
    BY <1>8, <2>1
<1>15. Successors(s, {"synthesize"}) = {}
  <2>1. \A b : Arc("synthesize", b) => b = "END"
    OBVIOUS
  <2> HIDE DEF Arc
  <2>2. QED
    BY <1>8, <2>1
<1>16. QED
  BY <1>1, <1>7, <1>9, <1>10, <1>11, <1>12, <1>13, <1>14, <1>15
  DEF n1, n2, n3, n4, n5, n6, n7

LEMMA ReleaseVerificationGraph ==
  ASSUME NEW s, s = ReleaseVerification
  PROVE  /\ s.entry = "planner" /\ s.output = "verification_report" /\ Iterations(s) = 12
         /\ Ids(s) = {"planner", "executor", "validator", "validation_router", "reporter",
                      "formatter"}
         /\ NodeOf(s, "planner") = Llm("planner", Input, "plan")
         /\ NodeOf(s, "executor") = Llm("executor", "plan", "results")
         /\ NodeOf(s, "validator") = Llm("validator", "results", "validation")
         /\ NodeOf(s, "validation_router") =
              Router("validation_router",
                     <<Rule("validation.verified", "eq", Yes, "formatter"),
                       Rule("validation.verified", "eq", No, "reporter")>>,
                     <<"reporter">>)
         /\ NodeOf(s, "reporter") = Llm("reporter", "validation", "verification_report")
         /\ NodeOf(s, "formatter") = Llm("formatter", "validation", "verification_report")
         /\ Successors(s, {"planner"}) = {"executor"}
         /\ Successors(s, {"executor"}) = {"validator"}
         /\ Successors(s, {"validator"}) = {"validation_router"}
         /\ Successors(s, {"validation_router"}) = {"formatter", "reporter"}
         /\ Successors(s, {"reporter"}) = {}
         /\ Successors(s, {"formatter"}) = {}
<1> DEFINE n1 == Llm("planner", Input, "plan")
           n2 == Llm("executor", "plan", "results")
           n3 == Llm("validator", "results", "validation")
           n4 == Router("validation_router",
                        <<Rule("validation.verified", "eq", Yes, "formatter"),
                          Rule("validation.verified", "eq", No, "reporter")>>,
                        <<"reporter">>)
           n5 == Llm("reporter", "validation", "verification_report")
           n6 == Llm("formatter", "validation", "verification_report")
           E == { <<"planner", "executor">>, <<"executor", "validator">>,
                  <<"validator", "validation_router">>,
                  <<"validation_router", "formatter">>,
                  <<"validation_router", "reporter">>, <<"reporter", "END">>,
                  <<"formatter", "END">> }
           Arc(id, b) ==
             \/ id = "planner" /\ b = "executor"
             \/ id = "executor" /\ b = "validator"
             \/ id = "validator" /\ b = "validation_router"
             \/ id = "validation_router" /\ b = "formatter"
             \/ id = "validation_router" /\ b = "reporter"
             \/ id = "reporter" /\ b = "END"
             \/ id = "formatter" /\ b = "END"
<1>1. s.entry = "planner" /\ s.output = "verification_report" /\ Iterations(s) = 12
  BY DEF ReleaseVerification, Template, Iterations
<1>2. RangeOf(s.nodes) = {n1, n2, n3, n4, n5, n6}
  <2>1. s.nodes = <<n1, n2, n3, n4, n5, n6>>
    BY DEF ReleaseVerification, Template
  <2> HIDE DEF n1, n2, n3, n4, n5, n6
  <2>2. QED
    BY <2>1, RangeOfLists
<1>3. RangeOf(s.edges) = E
  <2> DEFINE e1 == Path(<<"planner", "executor", "validator", "validation_router">>)
             e2 == Edges(<<"validation_router">>, <<"formatter", "reporter">>)
             e3 == Edges(<<"reporter", "formatter">>, <<"END">>)
  <2>1. s.edges = e1 \o e2 \o e3
    BY DEF ReleaseVerification, Template
  <2>2. IsList(e1) /\ RangeOf(e1) =
          { <<"planner", "executor">>, <<"executor", "validator">>,
            <<"validator", "validation_router">> }
    BY PathOf4
  <2>3. IsList(e2) /\ RangeOf(e2) =
          { <<"validation_router", "formatter">>,
            <<"validation_router", "reporter">> }
    <3> DEFINE many == <<"formatter", "reporter">>
    <3>1. IsList(many) /\ Len(many) = 2
      BY ShortLists
    <3>2. RangeOf(many) =
            {"formatter", "reporter"}
      BY RangeOfLists
    <3>3. QED
      BY <3>1, <3>2, Stars
  <2>4. IsList(e3) /\ RangeOf(e3) =
          { <<"reporter", "END">>, <<"formatter", "END">> }
    <3> DEFINE many == <<"reporter", "formatter">>
    <3>1. IsList(many) /\ Len(many) = 2
      BY ShortLists
    <3>2. RangeOf(many) =
            {"reporter", "formatter"}
      BY RangeOfLists
    <3>3. QED
      BY <3>1, <3>2, Stars
  <2> HIDE DEF e1, e2, e3
  <2>5. IsList(e1 \o e2) /\ RangeOf(e1 \o e2) =
          RangeOf(e1) \cup RangeOf(e2)
    BY <2>2, <2>3, Concatenated
  <2>6. RangeOf(s.edges) = RangeOf(e1 \o e2) \cup RangeOf(e3)
    BY <2>1, <2>5, <2>4, Concatenated
  <2>7. QED
    BY <2>2, <2>3, <2>4, <2>5, <2>6
<1>4. /\ n1.id = "planner" /\ n2.id = "executor" /\ n3.id = "validator"
      /\ n4.id = "validation_router" /\ n5.id = "reporter" /\ n6.id = "formatter"
  BY DEF Llm, Router
<1> HIDE DEF n1, n2, n3, n4, n5, n6
<1>5. \A m, n \in RangeOf(s.nodes) : m.id = n.id => m = n
  BY <1>2, <1>4
<1>6. /\ Ids(s) = {n.id : n \in RangeOf(s.nodes)}
      /\ \A n \in RangeOf(s.nodes) : NodeOf(s, n.id) = n
  BY <1>5, NodesById
<1>7. /\ Ids(s) = {"planner", "executor", "validator", "validation_router", "reporter",
                   "formatter"}
      /\ NodeOf(s, "planner") = n1 /\ NodeOf(s, "executor") = n2
      /\ NodeOf(s, "validator") = n3 /\ NodeOf(s, "validation_router") = n4
      /\ NodeOf(s, "reporter") = n5 /\ NodeOf(s, "formatter") = n6
  BY <1>2, <1>4, <1>6
<1>8. \A id, b : b \in Successors(s, {id}) <=> b # "END" /\ Arc(id, b)
  <2>1. (\A e \in E : e = <<e[1], e[2]>>) /\ \A id, b : <<id, b>> \in E <=> Arc(id, b)
    OBVIOUS
  <2> HIDE DEF E, Arc
  <2>2. QED
    BY <1>3, <2>1, SuccessorsByEdges
<1>9. Successors(s, {"planner"}) = {"executor"}
  <2>1. \A b : b # "END" /\ Arc("planner", b) <=> b \in {"executor"}
    OBVIOUS
  <2> HIDE DEF Arc
  <2>2. QED
    BY <1>8, <2>1
<1>10. Successors(s, {"executor"}) = {"validator"}
  <2>1. \A b : b # "END" /\ Arc("executor", b) <=> b \in {"validator"}
    OBVIOUS
  <2> HIDE DEF Arc
  <2>2. QED
    BY <1>8, <2>1
<1>11. Successors(s, {"validator"}) = {"validation_router"}
  <2>1. \A b : b # "END" /\ Arc("validator", b) <=> b \in {"validation_router"}
    OBVIOUS
  <2> HIDE DEF Arc
  <2>2. QED
    BY <1>8, <2>1
<1>12. Successors(s, {"validation_router"}) = {"formatter", "reporter"}
  <2>1. \A b : b # "END" /\ Arc("validation_router", b) <=> b \in {"formatter", "reporter"}
    OBVIOUS
  <2> HIDE DEF Arc
  <2>2. QED
    BY <1>8, <2>1
<1>13. Successors(s, {"reporter"}) = {}
  <2>1. \A b : Arc("reporter", b) => b = "END"
    OBVIOUS
  <2> HIDE DEF Arc
  <2>2. QED
    BY <1>8, <2>1
<1>14. Successors(s, {"formatter"}) = {}
  <2>1. \A b : Arc("formatter", b) => b = "END"
    OBVIOUS
  <2> HIDE DEF Arc
  <2>2. QED
    BY <1>8, <2>1
<1>15. QED
  BY <1>1, <1>7, <1>9, <1>10, <1>11, <1>12, <1>13, <1>14
  DEF n1, n2, n3, n4, n5, n6
=============================================================================
