--------------------------- MODULE TransSysProofs ---------------------------
(***************************************************************************)
(* What the proofs about the engines use of natural numbers and of paths:  *)
(* induction, functions defined by recursion on a number, extending and    *)
(* cutting paths, and shortest counterexamples.                            *)
(***************************************************************************)
EXTENDS TransSys, FiniteSetTheorems, WellFoundedInduction, TLAPS

-----------------------------------------------------------------------------
(* Induction, for sets of numbers: the library's induction theorems take   *)
(* an operator, which the provers do not instantiate.                      *)

\* A set of numbers that is not empty has a least element.
LEMMA LeastNat ==
  ASSUME NEW T, T \subseteq Nat, T # {}
  PROVE  \E x \in T : \A y \in T : x <= y
<1> DEFINE Less == OpToRel(<, Nat)
<1>1. IsWellFoundedOn(Less, Nat)
  BY NatLessThanWellFounded
<1> HIDE DEF Less
<1>2. PICK x \in T : \A y \in T : ~ (<<y, x>> \in Less)
  BY <1>1, WFMin
<1>3. \A y \in T : y < x => <<y, x>> \in Less
  BY DEF Less, OpToRel
<1>4. \A y \in T : ~ (y < x)
  BY <1>2, <1>3
<1>5. x \in Nat /\ \A y \in T : y \in Nat
  OBVIOUS
<1>6. \A y \in T : x <= y
  BY <1>4, <1>5
<1> QED
  BY <1>6

\* A set of numbers that holds 0 and the successors of its members holds all.
LEMMA NatSetInduction ==
  ASSUME NEW T, 0 \in T, \A n \in Nat : n \in T => n + 1 \in T
  PROVE  Nat \subseteq T
<1>1. SUFFICES ASSUME Nat \ T # {}
               PROVE  FALSE
  OBVIOUS
<1>2. PICK x \in Nat \ T : \A y \in Nat \ T : x <= y
  BY <1>1, LeastNat
<1>3. x # 0 /\ x - 1 \in Nat /\ x - 1 \notin Nat \ T
  BY <1>2
<1> QED
  BY <1>2, <1>3

\* The same up to a bound.
LEMMA IntervalInduction ==
  ASSUME NEW n \in Nat, NEW T, 0 \in T,
         \A k \in 0..n : k \in T /\ k + 1 \in 0..n => k + 1 \in T
  PROVE  0..n \subseteq T
<1> DEFINE U == T \cup { k \in Nat : k > n }
<1>1. \A k \in Nat : k \in U => k + 1 \in U
  <2> SUFFICES ASSUME NEW k \in Nat, k \in U
               PROVE  k + 1 \in U
    OBVIOUS
  <2>1. CASE k + 1 > n
    BY <2>1
  <2>2. CASE k + 1 <= n
    <3>1. k \in 0..n /\ k + 1 \in 0..n
      BY <2>2
    <3>2. k \in T
      BY <2>2
    <3> QED
      BY <3>1, <3>2
  <2> QED
    BY <2>1, <2>2
<1>2. 0 \in U
  OBVIOUS
<1>3. Nat \subseteq U
  <2> HIDE DEF U
  <2> QED
    BY <1>1, <1>2, NatSetInduction
<1> QED
  BY <1>3

\* A function defined by recursion on a number exists.
Recursive(f, n, start, step) ==
  /\ f[0] = start
  /\ \A k \in 0..n : k + 1 \in 0..n => f[k + 1] = step[f[k]]

LEMMA RecursionExists ==
  ASSUME NEW n, n \in Nat, NEW A, NEW start, start \in A, NEW step, step \in [A -> A]
  PROVE  \E f : f \in [0..n -> A] /\ Recursive(f, n, start, step)
<1> USE DEF Recursive
<1> DEFINE Defines(f, m) ==
      /\ f[0] = start
      /\ \A k \in 0..m : k + 1 \in 0..m => f[k + 1] = step[f[k]]
<1> DEFINE T == { m \in Nat : \E f \in [0..m -> A] : Defines(f, m) }
<1>1. 0 \in T
  <2> DEFINE g == [k \in 0..0 |-> start]
  <2>1. g \in [0..0 -> A] /\ Defines(g, 0)
    OBVIOUS
  <2> QED
    BY <2>1
<1>2. \A m \in Nat : m \in T => m + 1 \in T
  <2> SUFFICES ASSUME NEW m \in Nat, m \in T
               PROVE  m + 1 \in T
    OBVIOUS
  <2>1. PICK f \in [0..m -> A] : Defines(f, m)
    OBVIOUS
  <2> DEFINE g == [k \in 0..(m + 1) |-> IF k = m + 1 THEN step[f[m]] ELSE f[k]]
  <2>2. g \in [0..(m + 1) -> A]
    OBVIOUS
  <2>3. Defines(g, m + 1)
    BY <2>1
  <2>4. m + 1 \in Nat
    OBVIOUS
  <2> HIDE DEF g, Defines
  <2> QED
    BY <2>2, <2>3, <2>4
<1>3. Nat \subseteq T
  <2> HIDE DEF T
  <2> QED
    BY <1>1, <1>2, NatSetInduction
<1> QED
  BY <1>3

-----------------------------------------------------------------------------
(* Paths.                                                                  *)

\* The part of a path from time a to time b.
Cut(p, a, b) == [t \in 0..(b - a) |-> p[a + t]]

LEMMA CutPath ==
  ASSUME NEW sy, NEW n \in Nat, NEW p \in Paths(sy, n),
         NEW a \in Nat, NEW b \in Nat, a <= b, b <= n
  PROVE  /\ b - a \in Nat
         /\ Cut(p, a, b) \in Paths(sy, b - a)
         /\ \A t \in 0..(b - a) : Cut(p, a, b)[t] = p[a + t]
<1> DEFINE c == Cut(p, a, b)
<1>1. p \in [0..n -> States]
  BY DEF Paths
<1>2. \A t \in 0..(b - a) : a + t \in 0..n /\ c[t] = p[a + t]
  BY DEF Cut
<1>3. c \in [0..(b - a) -> States]
  BY <1>1, <1>2 DEF Cut
<1>4. \A t \in 0..(b - a) : t + 1 \in 0..(b - a) => <<c[t], c[t + 1]>> \in sy.trans
  <2> SUFFICES ASSUME NEW t \in 0..(b - a), t + 1 \in 0..(b - a)
               PROVE  <<c[t], c[t + 1]>> \in sy.trans
    OBVIOUS
  <2>1. a + t \in 0..n /\ (a + t) + 1 \in 0..n
    OBVIOUS
  <2>2. <<p[a + t], p[(a + t) + 1]>> \in sy.trans
    BY <2>1 DEF Paths
  <2>3. c[t] = p[a + t] /\ c[t + 1] = p[a + (t + 1)] /\ a + (t + 1) = (a + t) + 1
    BY <1>2
  <2> QED
    BY <2>2, <2>3
<1> QED
  BY <1>2, <1>3, <1>4 DEF Paths

LEMMA PathPrefix ==
  ASSUME NEW sy, NEW n \in Nat, NEW p \in Paths(sy, n), NEW t \in Nat, t <= n
  PROVE  /\ Cut(p, 0, t) \in Paths(sy, t)
         /\ \A k \in 0..t : Cut(p, 0, t)[k] = p[k]
<1>1. /\ Cut(p, 0, t) \in Paths(sy, t - 0)
      /\ \A k \in 0..(t - 0) : Cut(p, 0, t)[k] = p[0 + k]
  <2>1. 0 <= t
    OBVIOUS
  <2> QED
    BY <2>1, CutPath
<1>2. t - 0 = t /\ \A k \in 0..t : 0 + k = k
  OBVIOUS
<1> QED
  BY <1>1, <1>2

LEMMA PathSuffix ==
  ASSUME NEW sy, NEW n \in Nat, NEW p \in Paths(sy, n), NEW t \in Nat, t <= n
  PROVE  /\ n - t \in Nat
         /\ Cut(p, t, n) \in Paths(sy, n - t)
         /\ \A k \in 0..(n - t) : Cut(p, t, n)[k] = p[t + k]
         /\ Cut(p, t, n)[0] = p[t] /\ Cut(p, t, n)[n - t] = p[n]
<1>1. /\ n - t \in Nat
      /\ Cut(p, t, n) \in Paths(sy, n - t)
      /\ \A k \in 0..(n - t) : Cut(p, t, n)[k] = p[t + k]
  <2>1. n <= n
    OBVIOUS
  <2> QED
    BY <2>1, CutPath
<1>2. 0 \in 0..(n - t) /\ n - t \in 0..(n - t) /\ t + 0 = t /\ t + (n - t) = n
  BY <1>1
<1> QED
  BY <1>1, <1>2

\* A path of m steps and one of n steps from where it ends.
Joint(p, m, q, n) == [t \in 0..(m + n) |-> IF t <= m THEN p[t] ELSE q[t - m]]

LEMMA JoinPaths ==
  ASSUME NEW sy, NEW m \in Nat, NEW n \in Nat,
         NEW p \in Paths(sy, m), NEW q \in Paths(sy, n), p[m] = q[0]
  PROVE  /\ Joint(p, m, q, n) \in Paths(sy, m + n)
         /\ \A t \in 0..m : Joint(p, m, q, n)[t] = p[t]
         /\ \A t \in 0..n : Joint(p, m, q, n)[m + t] = q[t]
<1> DEFINE c == Joint(p, m, q, n)
<1>1. p \in [0..m -> States] /\ q \in [0..n -> States]
  BY DEF Paths
<1>2. \A t \in 0..m : c[t] = p[t]
  BY DEF Joint
<1>3. \A t \in 0..n : c[m + t] = q[t]
  <2> SUFFICES ASSUME NEW t \in 0..n
               PROVE  c[m + t] = q[t]
    OBVIOUS
  <2>1. c[m + t] = IF m + t <= m THEN p[m + t] ELSE q[(m + t) - m]
    BY DEF Joint
  <2>2. CASE t = 0
    BY <2>1, <2>2
  <2>3. CASE t > 0
    BY <2>1, <2>3
  <2> QED
    BY <2>2, <2>3
<1>4. c \in [0..(m + n) -> States]
  BY <1>1 DEF Joint
<1>5. \A t \in 0..(m + n) : t + 1 \in 0..(m + n) => <<c[t], c[t + 1]>> \in sy.trans
  <2> SUFFICES ASSUME NEW t \in 0..(m + n), t + 1 \in 0..(m + n)
               PROVE  <<c[t], c[t + 1]>> \in sy.trans
    OBVIOUS
  <2>1. CASE t + 1 <= m
    <3>1. t \in 0..m /\ t + 1 \in 0..m
      BY <2>1
    <3>2. <<p[t], p[t + 1]>> \in sy.trans
      BY <3>1 DEF Paths
    <3> QED
      BY <1>2, <3>1, <3>2
  <2>2. CASE t + 1 > m
    <3>1. t - m \in 0..n /\ (t - m) + 1 \in 0..n
      BY <2>2
    <3>2. <<q[t - m], q[(t - m) + 1]>> \in sy.trans
      BY <3>1 DEF Paths
    <3>3. m + (t - m) = t /\ m + ((t - m) + 1) = t + 1
      OBVIOUS
    <3>4. c[t] = q[t - m] /\ c[t + 1] = q[(t - m) + 1]
      BY <1>3, <3>1, <3>3
    <3> QED
      BY <3>2, <3>4
  <2> QED
    BY <2>1, <2>2
<1> QED
  BY <1>2, <1>3, <1>4, <1>5 DEF Paths

\* One step is a path.
LEMMA StepPath ==
  ASSUME NEW sy, NEW s \in States, NEW t \in States, <<s, t>> \in sy.trans
  PROVE  \E p \in Paths(sy, 1) : p[0] = s /\ p[1] = t
<1> DEFINE p == [k \in 0..1 |-> IF k = 0 THEN s ELSE t]
<1>1. p \in [0..1 -> States] /\ p[0] = s /\ p[1] = t
  OBVIOUS
<1>2. \A k \in 0..1 : k + 1 \in 0..1 => <<p[k], p[k + 1]>> \in sy.trans
  <2> SUFFICES ASSUME NEW k \in 0..1, k + 1 \in 0..1
               PROVE  <<p[k], p[k + 1]>> \in sy.trans
    OBVIOUS
  <2>1. k = 0
    OBVIOUS
  <2> QED
    BY <2>1
<1> QED
  BY <1>1, <1>2 DEF Paths

\* No step is a path too.
LEMMA PointPath ==
  ASSUME NEW sy, NEW s \in States
  PROVE  \E p \in Paths(sy, 0) : p[0] = s
<1> DEFINE p == [k \in 0..0 |-> s]
<1>1. p \in [0..0 -> States] /\ p[0] = s
  OBVIOUS
<1>2. \A k \in 0..0 : ~ (k + 1 \in 0..0)
  OBVIOUS
<1> QED
  BY <1>1, <1>2 DEF Paths

\* A path stays in a set that is closed under the transition relation.
LEMMA PathStays ==
  ASSUME NEW sy, NEW n \in Nat, NEW p \in Paths(sy, n), NEW X,
         \A e \in sy.trans : e[1] \in X => e[2] \in X, p[0] \in X
  PROVE  \A t \in 0..n : p[t] \in X
<1> DEFINE T == { t \in Nat : t \in 0..n => p[t] \in X }
<1>1. 0 \in T
  OBVIOUS
<1>2. \A t \in 0..n : t \in T /\ t + 1 \in 0..n => t + 1 \in T
  <2> SUFFICES ASSUME NEW t \in 0..n, t \in T, t + 1 \in 0..n
               PROVE  t + 1 \in T
    OBVIOUS
  <2>1. <<p[t], p[t + 1]>> \in sy.trans
    BY DEF Paths
  <2>2. p[t] \in X
    OBVIOUS
  <2>3. p[t + 1] \in X
    BY <2>1, <2>2
  <2> QED
    BY <2>3
<1>3. 0..n \subseteq T
  <2> HIDE DEF T
  <2> QED
    BY <1>1, <1>2, IntervalInduction
<1> QED
  BY <1>3

\* Where every state has a successor, a path can have any length.
LEMMA PathOfAnyLength ==
  ASSUME NEW sy, NEW s \in States, NEW n \in Nat,
         \A u \in States : \E v \in States : <<u, v>> \in sy.trans
  PROVE  \E p \in Paths(sy, n) : p[0] = s
<1> DEFINE T == { k \in Nat : \E p \in Paths(sy, k) : p[0] = s }
<1>1. 0 \in T
  BY PointPath
<1>2. \A k \in Nat : k \in T => k + 1 \in T
  <2> SUFFICES ASSUME NEW k \in Nat, k \in T
               PROVE  k + 1 \in T
    OBVIOUS
  <2>1. PICK p \in Paths(sy, k) : p[0] = s
    OBVIOUS
  <2>2. p[k] \in States
    BY DEF Paths
  <2>3. PICK v \in States : <<p[k], v>> \in sy.trans
    BY <2>2
  <2>4. PICK q \in Paths(sy, 1) : q[0] = p[k] /\ q[1] = v
    BY <2>2, <2>3, StepPath
  <2>5. /\ Joint(p, k, q, 1) \in Paths(sy, k + 1)
        /\ \A t \in 0..k : Joint(p, k, q, 1)[t] = p[t]
    BY <2>4, JoinPaths
  <2>6. Joint(p, k, q, 1)[0] = s
    BY <2>1, <2>5
  <2> QED
    BY <2>5, <2>6
<1>3. Nat \subseteq T
  <2> HIDE DEF T
  <2> QED
    BY <1>1, <1>2, NatSetInduction
<1> QED
  BY <1>3

-----------------------------------------------------------------------------
(* Images computed one step at a time are sets of path ends.               *)

ImgOf(sy, X) == { t \in States : \E s \in X : <<s, t>> \in sy.trans }
PreOf(sy, X) == { s \in States : \E t \in X : <<s, t>> \in sy.trans }

\* Where the paths of n steps from X end, and where those into X start.
Ends(sy, X, n)   == { s \in States : \E p \in Paths(sy, n) : p[0] \in X /\ p[n] = s }
Starts(sy, X, n) == { s \in States : \E p \in Paths(sy, n) : p[n] \in X /\ p[0] = s }

LEMMA EndsStep ==
  ASSUME NEW sy, sy.trans \subseteq States \X States, NEW X \in SUBSET States
  PROVE  /\ Ends(sy, X, 0) = X
         /\ \A n \in Nat : Ends(sy, X, n + 1) = ImgOf(sy, Ends(sy, X, n))
<1>1. Ends(sy, X, 0) = X
  BY PointPath DEF Ends
<1>2. ASSUME NEW n \in Nat
      PROVE  Ends(sy, X, n + 1) = ImgOf(sy, Ends(sy, X, n))
  <2>1. ASSUME NEW t \in ImgOf(sy, Ends(sy, X, n))
        PROVE  t \in Ends(sy, X, n + 1)
    <3>1. PICK p \in Paths(sy, n) : p[0] \in X /\ <<p[n], t>> \in sy.trans
      BY <2>1 DEF ImgOf, Ends
    <3>2. p[n] \in States /\ t \in States
      BY <3>1
    <3>3. PICK q \in Paths(sy, 1) : q[0] = p[n] /\ q[1] = t
      BY <3>1, <3>2, StepPath
    <3>4. /\ Joint(p, n, q, 1) \in Paths(sy, n + 1)
          /\ Joint(p, n, q, 1)[0] = p[0]
          /\ Joint(p, n, q, 1)[n + 1] = t
      BY <3>3, JoinPaths
    <3> QED
      BY <3>1, <3>2, <3>4 DEF Ends
  <2>2. ASSUME NEW t \in Ends(sy, X, n + 1)
        PROVE  t \in ImgOf(sy, Ends(sy, X, n))
    <3>1. PICK p \in Paths(sy, n + 1) : p[0] \in X /\ p[n + 1] = t
      BY DEF Ends
    <3>2. <<p[n], p[n + 1]>> \in sy.trans
      BY DEF Paths
    <3>3. /\ Cut(p, 0, n) \in Paths(sy, n)
          /\ Cut(p, 0, n)[0] = p[0] /\ Cut(p, 0, n)[n] = p[n]
      <4>1. n <= n + 1
        OBVIOUS
      <4> QED
        BY <4>1, PathPrefix
    <3>4. p[n] \in States /\ t \in States
      BY <3>1, <3>2
    <3>5. p[n] \in Ends(sy, X, n)
      BY <3>1, <3>3, <3>4 DEF Ends
    <3> QED
      BY <3>1, <3>2, <3>4, <3>5 DEF ImgOf
  <2> QED
    BY <2>1, <2>2
<1> QED
  BY <1>1, <1>2

LEMMA StartsStep ==
  ASSUME NEW sy, sy.trans \subseteq States \X States, NEW X \in SUBSET States
  PROVE  /\ Starts(sy, X, 0) = X
         /\ \A n \in Nat : Starts(sy, X, n + 1) = PreOf(sy, Starts(sy, X, n))
<1>1. Starts(sy, X, 0) = X
  BY PointPath DEF Starts
<1>2. ASSUME NEW n \in Nat
      PROVE  Starts(sy, X, n + 1) = PreOf(sy, Starts(sy, X, n))
  <2>1. ASSUME NEW s \in PreOf(sy, Starts(sy, X, n))
        PROVE  s \in Starts(sy, X, n + 1)
    <3>1. PICK p \in Paths(sy, n) : p[n] \in X /\ <<s, p[0]>> \in sy.trans
      BY <2>1 DEF PreOf, Starts
    <3>2. p[0] \in States /\ s \in States
      BY <3>1
    <3>3. PICK q \in Paths(sy, 1) : q[0] = s /\ q[1] = p[0]
      BY <3>1, <3>2, StepPath
    <3>4. /\ Joint(q, 1, p, n) \in Paths(sy, 1 + n)
          /\ Joint(q, 1, p, n)[0] = s
          /\ Joint(q, 1, p, n)[1 + n] = p[n]
      BY <3>3, JoinPaths
    <3>5. 1 + n = n + 1
      OBVIOUS
    <3> QED
      BY <3>1, <3>2, <3>4, <3>5 DEF Starts
  <2>2. ASSUME NEW s \in Starts(sy, X, n + 1)
        PROVE  s \in PreOf(sy, Starts(sy, X, n))
    <3>1. PICK p \in Paths(sy, n + 1) : p[n + 1] \in X /\ p[0] = s
      BY DEF Starts
    <3>2. <<p[0], p[1]>> \in sy.trans
      <4>1. 0 \in 0..(n + 1) /\ 0 + 1 \in 0..(n + 1)
        OBVIOUS
      <4>2. <<p[0], p[0 + 1]>> \in sy.trans
        BY <4>1 DEF Paths
      <4> QED
        BY <4>2
    <3>3. /\ Cut(p, 1, n + 1) \in Paths(sy, n)
          /\ Cut(p, 1, n + 1)[0] = p[1] /\ Cut(p, 1, n + 1)[n] = p[n + 1]
      <4>1. 1 <= n + 1 /\ (n + 1) - 1 = n
        OBVIOUS
      <4>2. /\ Cut(p, 1, n + 1) \in Paths(sy, (n + 1) - 1)
            /\ Cut(p, 1, n + 1)[0] = p[1]
            /\ Cut(p, 1, n + 1)[(n + 1) - 1] = p[n + 1]
        BY <4>1, PathSuffix
      <4> QED
        BY <4>1, <4>2
    <3>4. p[1] \in States /\ s \in States
      BY <3>1, <3>2
    <3>5. p[1] \in Starts(sy, X, n)
      BY <3>1, <3>3, <3>4 DEF Starts
    <3> QED
      BY <3>1, <3>2, <3>4, <3>5 DEF PreOf
  <2> QED
    BY <2>1, <2>2
<1> QED
  BY <1>1, <1>2

\* A recursive function that takes images, and one that takes pre-images.
LEMMA ForwardFunction ==
  ASSUME NEW sy, sy.trans \subseteq States \X States,
         NEW X \in SUBSET States, NEW n \in Nat, NEW f, f[0] = X,
         \A k \in 0..n : k + 1 \in 0..n => f[k + 1] = ImgOf(sy, f[k])
  PROVE  \A k \in 0..n : f[k] = Ends(sy, X, k)
<1> DEFINE T == { k \in Nat : f[k] = Ends(sy, X, k) }
<1>1. 0 \in T
  BY EndsStep
<1>2. \A k \in 0..n : k \in T /\ k + 1 \in 0..n => k + 1 \in T
  BY EndsStep
<1>3. 0..n \subseteq T
  <2> HIDE DEF T
  <2> QED
    BY <1>1, <1>2, IntervalInduction
<1> QED
  BY <1>3

\* The states that exactly n steps lead to, as the abstract prover defines them.
AfterSteps(sy, n) ==
  LET after[k \in 0..n] == IF k = 0 THEN sy.init ELSE ImgOf(sy, after[k - 1])
  IN  after[n]

LEMMA AfterStepsEnds ==
  ASSUME NEW sy, sy.trans \subseteq States \X States, sy.init \in SUBSET States,
         NEW n \in Nat
  PROVE  AfterSteps(sy, n) = Ends(sy, sy.init, n)
<1> DEFINE A == SUBSET States
           X == sy.init
           step == [Y \in A |-> ImgOf(sy, Y)]
           after == CHOOSE after :
             after = [k \in 0..n |-> IF k = 0 THEN sy.init ELSE ImgOf(sy, after[k - 1])]
<1>1. step \in [A -> A] /\ X \in A
  BY DEF ImgOf
<1>2. PICK f : f \in [0..n -> A] /\ Recursive(f, n, X, step)
  <2> HIDE DEF step, A, X
  <2> QED
    BY <1>1, RecursionExists
<1>3. \E g : g = [k \in 0..n |-> IF k = 0 THEN sy.init ELSE ImgOf(sy, g[k - 1])]
  <2>1. \A k \in 0..n : k # 0 => k - 1 \in 0..n /\ (k - 1) + 1 = k
    OBVIOUS
  <2>2. \A k \in 0..n : k # 0 => f[k] = step[f[k - 1]] /\ f[k - 1] \in A
    BY <1>2, <2>1 DEF Recursive
  <2>3. \A k \in 0..n : k # 0 => f[k] = ImgOf(sy, f[k - 1])
    BY <2>2
  <2>4. f = [k \in 0..n |-> IF k = 0 THEN sy.init ELSE ImgOf(sy, f[k - 1])]
    BY <1>2, <2>3 DEF Recursive
  <2> QED
    BY <2>4
<1>4. after = [k \in 0..n |-> IF k = 0 THEN sy.init ELSE ImgOf(sy, after[k - 1])]
  BY <1>3
<1>5. AfterSteps(sy, n) = after[n]
  BY DEF AfterSteps
<1> HIDE DEF after
<1>6. after[0] = X
  BY <1>4
<1>7. \A k \in 0..n : k + 1 \in 0..n => after[k + 1] = ImgOf(sy, after[k])
  <2> SUFFICES ASSUME NEW k \in 0..n, k + 1 \in 0..n
               PROVE  after[k + 1] = ImgOf(sy, after[k])
    OBVIOUS
  <2>1. k + 1 # 0 /\ (k + 1) - 1 = k
    OBVIOUS
  <2>2. after[k + 1] = ImgOf(sy, after[(k + 1) - 1])
    BY <1>4, <2>1
  <2> QED
    BY <2>1, <2>2
<1>8. \A k \in 0..n : after[k] = Ends(sy, X, k)
  BY <1>6, <1>7, ForwardFunction
<1> QED
  BY <1>5, <1>8

LEMMA BackwardFunction ==
  ASSUME NEW sy, sy.trans \subseteq States \X States,
         NEW X \in SUBSET States, NEW n \in Nat, NEW f, f[0] = X,
         \A k \in 0..n : k + 1 \in 0..n => f[k + 1] = PreOf(sy, f[k])
  PROVE  \A k \in 0..n : f[k] = Starts(sy, X, k)
<1> DEFINE T == { k \in Nat : f[k] = Starts(sy, X, k) }
<1>1. 0 \in T
  BY StartsStep
<1>2. \A k \in 0..n : k \in T /\ k + 1 \in 0..n => k + 1 \in T
  BY StartsStep
<1>3. 0..n \subseteq T
  <2> HIDE DEF T
  <2> QED
    BY <1>1, <1>2, IntervalInduction
<1> QED
  BY <1>3

-----------------------------------------------------------------------------
(* Counterexamples.                                                        *)

\* The paths of n steps from an initial to a bad state.
Cexs(sy, n) == { p \in Paths(sy, n) : p[0] \in sy.init /\ p[n] \in sy.bad }

\* n is the length of the shortest ones.
Shortest(sy, n) == Cexs(sy, n) # {} /\ \A m \in Nat : m < n => Cexs(sy, m) = {}

\* No counterexample of at most n steps.
Clear(sy, n) == \A m \in Nat : m <= n => Cexs(sy, m) = {}

LEMMA ClearNone ==
  ASSUME NEW sy
  PROVE  Clear(sy, -1)
BY DEF Clear

LEMMA ClearNext ==
  ASSUME NEW sy, NEW n \in Int, n >= -1, Clear(sy, n), Cexs(sy, n + 1) = {}
  PROVE  Clear(sy, n + 1)
<1>1. \A m \in Nat : m <= n + 1 => m <= n \/ m = n + 1
  OBVIOUS
<1> QED
  BY <1>1 DEF Clear

LEMMA ShortestExists ==
  ASSUME NEW sy, NEW n \in Nat, Cexs(sy, n) # {}
  PROVE  \E m \in Nat : m <= n /\ Shortest(sy, m)
<1> DEFINE T == { m \in Nat : Cexs(sy, m) # {} }
<1>1. PICK m \in T : \A k \in T : m <= k
  <2>1. T \subseteq Nat /\ T # {}
    OBVIOUS
  <2> HIDE DEF T
  <2> QED
    BY <2>1, LeastNat
<1>2. Shortest(sy, m)
  <2>1. \A k \in Nat : k < m => k \notin T
    BY <1>1
  <2> QED
    BY <2>1 DEF Shortest
<1> QED
  BY <1>1, <1>2

\* A shortest counterexample is bad only at its end, initial only at its start.
LEMMA ShortestEnds ==
  ASSUME NEW sy, NEW n \in Nat, Shortest(sy, n), NEW p \in Cexs(sy, n)
  PROVE  /\ \A t \in 0..n : t < n => p[t] \notin sy.bad
         /\ \A t \in 1..n : p[t] \notin sy.init
<1> p \in Paths(sy, n) /\ p[0] \in sy.init /\ p[n] \in sy.bad
  BY DEF Cexs
<1>1. ASSUME NEW t \in 0..n, t < n, p[t] \in sy.bad
      PROVE  FALSE
  <2>1. t \in Nat /\ t <= n
    OBVIOUS
  <2>2. Cut(p, 0, t) \in Cexs(sy, t)
    BY <1>1, <2>1, PathPrefix DEF Cexs
  <2> QED
    BY <1>1, <2>1, <2>2 DEF Shortest
<1>2. ASSUME NEW t \in 1..n, p[t] \in sy.init
      PROVE  FALSE
  <2>1. t \in Nat /\ t <= n
    OBVIOUS
  <2>2. n - t \in Nat /\ Cut(p, t, n) \in Cexs(sy, n - t)
    BY <1>2, <2>1, PathSuffix DEF Cexs
  <2>3. n - t < n
    OBVIOUS
  <2> QED
    BY <2>2, <2>3 DEF Shortest
<1> QED
  BY <1>1, <1>2

\* Nor can it be cut short: p[u] is not p[t], and not where a step of the
\* path from an earlier time could have gone.
LEMMA ShortestSkips ==
  ASSUME NEW sy, NEW n \in Nat, Shortest(sy, n), NEW p \in Cexs(sy, n),
         NEW t \in Nat, NEW u \in Nat, t < u, u <= n
  PROVE  /\ p[t] # p[u]
         /\ u > t + 1 => <<p[t], p[u]>> \notin sy.trans
<1> p \in Paths(sy, n) /\ p[0] \in sy.init /\ p[n] \in sy.bad
  BY DEF Cexs
<1> DEFINE a == Cut(p, 0, t)
           b == Cut(p, u, n)
<1>1. /\ a \in Paths(sy, t) /\ a[0] = p[0] /\ a[t] = p[t]
  <2>1. t <= n
    OBVIOUS
  <2> QED
    BY <2>1, PathPrefix
<1>2. /\ n - u \in Nat
      /\ b \in Paths(sy, n - u) /\ b[0] = p[u] /\ b[n - u] = p[n]
  BY PathSuffix
<1> HIDE DEF a, b
<1>3. ASSUME p[t] = p[u]
      PROVE  FALSE
  <2> DEFINE m == n - u
             c == Joint(a, t, b, m)
  <2>1. /\ c \in Paths(sy, t + m)
        /\ \A k \in 0..t : c[k] = a[k]
        /\ \A k \in 0..m : c[t + k] = b[k]
    BY <1>1, <1>2, <1>3, JoinPaths
  <2>2. c[0] = p[0] /\ c[t + m] = p[n]
    BY <1>1, <1>2, <2>1
  <2>3. t + m \in Nat /\ t + m < n
    BY <1>2
  <2> HIDE DEF c, m
  <2>4. c \in Cexs(sy, t + m)
    BY <2>1, <2>2 DEF Cexs
  <2> QED
    BY <2>3, <2>4 DEF Shortest
<1>4. ASSUME u > t + 1, <<p[t], p[u]>> \in sy.trans
      PROVE  FALSE
  <2>1. p[t] \in States /\ p[u] \in States
    BY DEF Paths
  <2>2. PICK q \in Paths(sy, 1) : q[0] = p[t] /\ q[1] = p[u]
    BY <1>4, <2>1, StepPath
  <2> DEFINE m == n - u
             d == Joint(a, t, q, 1)
             c == Joint(d, t + 1, b, m)
  <2>3. d \in Paths(sy, t + 1) /\ d[0] = p[0] /\ d[t + 1] = p[u]
    BY <1>1, <2>2, JoinPaths
  <2>4. t + 1 \in Nat /\ m \in Nat /\ (t + 1) + m \in Nat /\ (t + 1) + m < n
    BY <1>2, <1>4
  <2> HIDE DEF d
  <2>5. c \in Paths(sy, (t + 1) + m) /\ c[0] = d[0] /\ c[(t + 1) + m] = b[m]
    BY <1>2, <2>3, <2>4, JoinPaths
  <2>6. c \in Cexs(sy, (t + 1) + m)
    BY <1>2, <2>3, <2>5 DEF Cexs
  <2> QED
    BY <2>4, <2>6 DEF Shortest
<1> QED
  BY <1>3, <1>4

\* The states that some path from an initial state ends in.
Reached(sy) ==
  { s \in States : \E n \in Nat : \E p \in Paths(sy, n) : p[0] \in sy.init /\ p[n] = s }

LEMMA ReachedInductive ==
  ASSUME NEW sy, sy.trans \subseteq States \X States, sy.init \subseteq States
  PROVE  Inductive(sy, Reached(sy))
<1>1. sy.init \subseteq Reached(sy)
  <2> SUFFICES ASSUME NEW s \in sy.init
               PROVE  s \in Reached(sy)
    OBVIOUS
  <2>1. PICK p \in Paths(sy, 0) : p[0] = s
    BY PointPath
  <2> QED
    BY <2>1 DEF Reached
<1>2. ASSUME NEW e \in sy.trans, e[1] \in Reached(sy)
      PROVE  e[2] \in Reached(sy)
  <2>1. PICK n \in Nat : \E p \in Paths(sy, n) : p[0] \in sy.init /\ p[n] = e[1]
    BY <1>2 DEF Reached
  <2>5. PICK p \in Paths(sy, n) : p[0] \in sy.init /\ p[n] = e[1]
    BY <2>1
  <2>2. e[1] \in States /\ e[2] \in States /\ <<e[1], e[2]>> \in sy.trans
    <3>1. e \in States \X States
      OBVIOUS
    <3>2. e = <<e[1], e[2]>>
      BY <3>1
    <3> QED
      BY <3>1, <3>2
  <2>3. PICK q \in Paths(sy, 1) : q[0] = e[1] /\ q[1] = e[2]
    BY <2>2, StepPath
  <2>4. /\ Joint(p, n, q, 1) \in Paths(sy, n + 1)
        /\ Joint(p, n, q, 1)[0] = p[0] /\ Joint(p, n, q, 1)[n + 1] = e[2]
    BY <2>3, <2>5, JoinPaths
  <2> QED
    BY <2>2, <2>4, <2>5 DEF Reached
<1> QED
  BY <1>1, <1>2 DEF Inductive

\* s is in every closed set that holds X.
Closes(g, X, s) ==
  \A C \in SUBSET States :
    X \subseteq C /\ (\A e \in g.trans : e[1] \in C => e[2] \in C) => s \in C

\* Then it is at the end of a path from X that meets no state twice.
LEMMA DirectWay ==
  ASSUME NEW g, g.trans \subseteq States \X States, NEW X \in SUBSET States,
         NEW s \in States, Closes(g, X, s)
  PROVE  \E n \in Nat : \E p \in Paths(g, n) :
           /\ p[0] \in X /\ p[n] = s
           /\ \A j, l \in 0..n : j < l => p[j] # p[l]
<1> DEFINE sy == [init |-> X, bad |-> {s}, trans |-> g.trans]
<1>1. sy.init = X /\ sy.bad = {s} /\ sy.trans = g.trans
  OBVIOUS
<1>2. \A n \in Nat : Paths(sy, n) = Paths(g, n)
  BY DEF Paths
<1> HIDE DEF sy
<1>3. Inductive(sy, Reached(sy)) /\ Reached(sy) \in SUBSET States
  BY <1>1, ReachedInductive DEF Reached
<1>4. s \in Reached(sy)
  BY <1>1, <1>3 DEF Inductive, Closes
<1>5. PICK n \in Nat : Cexs(sy, n) # {}
  BY <1>1, <1>4 DEF Reached, Cexs
<1>6. PICK m \in Nat : Shortest(sy, m)
  BY <1>5, ShortestExists
<1>7. PICK p : p \in Cexs(sy, m)
  BY <1>6 DEF Shortest
<1>8. p \in Paths(sy, m) /\ p[0] \in X /\ p[m] = s /\ p \in [0..m -> States]
  BY <1>1, <1>7 DEF Cexs, Paths
<1>9. ASSUME NEW j \in 0..m, NEW l \in 0..m, j < l
      PROVE  p[j] # p[l]
  <2>1. j \in Nat /\ l \in Nat /\ l <= m
    OBVIOUS
  <2> QED
    BY <1>6, <1>7, <1>9, <2>1, ShortestSkips
<1> QED
  BY <1>2, <1>8, <1>9

\* A system without counterexamples is safe.
LEMMA SafeWithoutCex ==
  ASSUME NEW sy, sy.trans \subseteq States \X States, sy.init \subseteq States,
         \A n \in Nat : Cexs(sy, n) = {}
  PROVE  Safe(sy)
<1>1. Reached(sy) \cap sy.bad = {}
  BY DEF Reached, Cexs
<1>2. Reached(sy) \in SUBSET States
  BY DEF Reached
<1> QED
  BY <1>1, <1>2, ReachedInductive DEF Safe
=============================================================================
