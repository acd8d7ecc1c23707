--------------------------- MODULE LivenessProofs ----------------------------
(***************************************************************************)
(* FALSE of a liveness prover is a lasso of the system that meets every    *)
(* justice condition, whether it was cut out of a counterexample of the    *)
(* counter or found in the system translated to safety; TRUE of one means  *)
(* that there is no such lasso; and a count above the number of states     *)
(* decides.  For every system, option and bound; the last two for finitely *)
(* many states.                                                            *)
(***************************************************************************)
EXTENDS Liveness, FiniteSetTheorems, TLAPS

TS == INSTANCE TransSysProofs

-----------------------------------------------------------------------------
(* The runs the models are made from.  A set defined by recursion on the   *)
(* length exists: what defines it up to a length can be extended by one.   *)

LEMMA InstrumentedRuns ==
  ASSUME NEW n \in Nat, NEW p \in Runs(InstrumentedInit, InstrumentTs, n)
  PROVE  /\ DOMAIN p = 0..n
         /\ p[0] \in InstrumentedInit
         /\ \A t \in 0..n : t + 1 \in 0..n => p[t + 1] \in InstrumentTs(p[t])
<1> DEFINE First == { [t \in 0..0 |-> x] : x \in InstrumentedInit }
           More(R, k) ==
             UNION { { [t \in 0..k |-> IF t < k THEN q[t] ELSE x] : x \in InstrumentTs(q[k - 1]) } :
                       q \in R }
           Defines(f, m) == f = [k \in 0..m |-> IF k = 0 THEN First ELSE More(f[k - 1], k)]
           T == { m \in Nat : \E f : Defines(f, m) }
           IsRun(q, k) ==
             /\ DOMAIN q = 0..k
             /\ q[0] \in InstrumentedInit
             /\ \A t \in 0..k : t + 1 \in 0..k => q[t + 1] \in InstrumentTs(q[t])
           runs == CHOOSE f : Defines(f, n)
           U == { k \in Nat : k \in 0..n => \A q \in runs[k] : IsRun(q, k) }
<1>1. Runs(InstrumentedInit, InstrumentTs, n) = runs[n]
  BY DEF Runs
<1>2. n \in T
  <2>1. 0 \in T
    <3> HIDE DEF First, More
    <3>1. Defines([k \in 0..0 |-> First], 0)
      OBVIOUS
    <3> QED
      BY <3>1
  <2>2. ASSUME NEW m \in Nat, m \in T
        PROVE  m + 1 \in T
    <3> HIDE DEF First, More
    <3>1. PICK f : Defines(f, m)
      BY <2>2
    <3> DEFINE g == [k \in 0..(m + 1) |-> IF k <= m THEN f[k] ELSE More(f[m], m + 1)]
    <3>2. \A k \in 0..(m + 1) : g[k] = IF k = 0 THEN First ELSE More(g[k - 1], k)
      <4> SUFFICES ASSUME NEW k \in 0..(m + 1)
                   PROVE  g[k] = IF k = 0 THEN First ELSE More(g[k - 1], k)
        OBVIOUS
      <4>1. CASE k = 0
        <5>1. f[0] = First
          BY <3>1
        <5> QED
          BY <4>1, <5>1
      <4>2. CASE k # 0 /\ k <= m
        <5>1. k \in 0..m /\ k - 1 \in 0..(m + 1) /\ k - 1 <= m
          BY <4>2
        <5>2. f[k] = More(f[k - 1], k)
          BY <3>1, <4>2, <5>1
        <5>3. g[k] = f[k] /\ g[k - 1] = f[k - 1]
          BY <4>2, <5>1
        <5> QED
          BY <4>2, <5>2, <5>3
      <4>3. CASE k = m + 1
        <5>1. g[m] = f[m] /\ g[m + 1] = More(f[m], m + 1) /\ (m + 1) - 1 = m /\ m + 1 # 0
          OBVIOUS
        <5> QED
          BY <4>3, <5>1
      <4> QED
        BY <4>1, <4>2, <4>3
    <3>3. g = [k \in 0..(m + 1) |-> g[k]]
      OBVIOUS
    <3> HIDE DEF g
    <3>4. Defines(g, m + 1)
      BY <3>2, <3>3
    <3>5. m + 1 \in Nat
      OBVIOUS
    <3> HIDE DEF Defines
    <3> QED
      BY <3>4, <3>5
  <2> HIDE DEF T
  <2>3. Nat \subseteq T
    BY <2>1, <2>2, TS!NatSetInduction
  <2> QED
    BY <2>3
<1>3. Defines(runs, n)
  <2> HIDE DEF Defines
  <2> QED
    BY <1>2
<1> HIDE DEF runs
<1>4. 0 \in U
  <2>1. runs[0] = First
    <3> HIDE DEF First, More
    <3> QED
      BY <1>3
  <2>2. ASSUME NEW x \in InstrumentedInit
        PROVE  IsRun([t \in 0..0 |-> x], 0)
    <3>1. \A t \in 0..0 : ~ (t + 1 \in 0..0)
      OBVIOUS
    <3> QED
      BY <3>1
  <2> HIDE DEF IsRun
  <2> QED
    BY <2>1, <2>2
<1>5. ASSUME NEW k \in 0..n, k \in U, k + 1 \in 0..n
      PROVE  k + 1 \in U
  <2>1. runs[k + 1] = More(runs[k], k + 1)
    <3>1. k + 1 # 0 /\ (k + 1) - 1 = k
      OBVIOUS
    <3> HIDE DEF First, More
    <3> QED
      BY <1>3, <1>5, <3>1
  <2>2. ASSUME NEW q \in runs[k + 1]
        PROVE  IsRun(q, k + 1)
    <3>1. (k + 1) - 1 = k
      OBVIOUS
    <3>2. PICK r \in runs[k] : \E x \in InstrumentTs(r[k]) :
            q = [t \in 0..(k + 1) |-> IF t < k + 1 THEN r[t] ELSE x]
      BY <2>1, <3>1
    <3>3. PICK x \in InstrumentTs(r[k]) :
            q = [t \in 0..(k + 1) |-> IF t < k + 1 THEN r[t] ELSE x]
      BY <3>2
    <3>4. IsRun(r, k)
      <4> HIDE DEF IsRun
      <4> QED
        BY <1>5
    <3>5. q[0] = r[0] /\ q[k + 1] = x /\ (\A t \in 0..k : q[t] = r[t]) /\ DOMAIN q = 0..(k + 1)
      BY <3>3
    <3>6. ASSUME NEW t \in 0..(k + 1), t + 1 \in 0..(k + 1)
          PROVE  q[t + 1] \in InstrumentTs(q[t])
      <4>1. t \in 0..k /\ (t = k \/ t + 1 \in 0..k)
        BY <3>6
      <4> QED
        BY <3>3, <3>4, <3>5, <4>1
    <3> QED
      BY <3>4, <3>5, <3>6
  <2>3. k + 1 \in Nat
    OBVIOUS
  <2> HIDE DEF IsRun
  <2> QED
    BY <2>2, <2>3
<1>6. 0..n \subseteq U
  <2> HIDE DEF U
  <2> QED
    BY <1>4, <1>5, TS!IntervalInduction
<1>7. n \in U
  BY <1>6
<1> QED
  BY <1>1, <1>7

TranslatedStart == { [t \in 0..0 |-> x] : x \in L2SInit }

TranslatedMore(R, k) ==
  UNION { { [t \in 0..k |-> IF t < k THEN q[t] ELSE x] : x \in L2STranslate(q[k - 1]) } : q \in R }

LEMMA TranslatedRunSets ==
  ASSUME NEW n \in Nat
  PROVE  \E runs : /\ Runs(L2SInit, L2STranslate, n) = runs[n]
                   /\ runs[0] = TranslatedStart
                   /\ \A k \in 0..n : k + 1 \in 0..n =>
                        runs[k + 1] = TranslatedMore(runs[k], k + 1)
<1> DEFINE First == TranslatedStart
           More(R, k) == TranslatedMore(R, k)
           Defines(f, m) == f = [k \in 0..m |-> IF k = 0 THEN First ELSE More(f[k - 1], k)]
           T == { m \in Nat : \E f : Defines(f, m) }
           runs == CHOOSE f : Defines(f, n)
<1>1. Runs(L2SInit, L2STranslate, n) = runs[n]
  BY DEF Runs, TranslatedStart, TranslatedMore
<1>2. n \in T
  <2>1. 0 \in T
    <3> HIDE DEF First, More
    <3>1. Defines([k \in 0..0 |-> First], 0)
      OBVIOUS
    <3> QED
      BY <3>1
  <2>2. ASSUME NEW m \in Nat, m \in T
        PROVE  m + 1 \in T
    <3> HIDE DEF First, More
    <3>1. PICK f : Defines(f, m)
      BY <2>2
    <3> DEFINE g == [k \in 0..(m + 1) |-> IF k <= m THEN f[k] ELSE More(f[m], m + 1)]
    <3>2. \A k \in 0..(m + 1) : g[k] = IF k = 0 THEN First ELSE More(g[k - 1], k)
      <4> SUFFICES ASSUME NEW k \in 0..(m + 1)
                   PROVE  g[k] = IF k = 0 THEN First ELSE More(g[k - 1], k)
        OBVIOUS
      <4>1. CASE k = 0
        <5>1. f[0] = First
          BY <3>1
        <5> QED
          BY <4>1, <5>1
      <4>2. CASE k # 0 /\ k <= m
        <5>1. k \in 0..m /\ k - 1 \in 0..(m + 1) /\ k - 1 <= m
          BY <4>2
        <5>2. f[k] = More(f[k - 1], k)
          BY <3>1, <4>2, <5>1
        <5>3. g[k] = f[k] /\ g[k - 1] = f[k - 1]
          BY <4>2, <5>1
        <5> QED
          BY <4>2, <5>2, <5>3
      <4>3. CASE k = m + 1
        <5>1. g[m] = f[m] /\ g[m + 1] = More(f[m], m + 1) /\ (m + 1) - 1 = m /\ m + 1 # 0
          OBVIOUS
        <5> QED
          BY <4>3, <5>1
      <4> QED
        BY <4>1, <4>2, <4>3
    <3>3. g = [k \in 0..(m + 1) |-> g[k]]
      OBVIOUS
    <3> HIDE DEF g
    <3>4. Defines(g, m + 1)
      BY <3>2, <3>3
    <3>5. m + 1 \in Nat
      OBVIOUS
    <3> HIDE DEF Defines
    <3> QED
      BY <3>4, <3>5
  <2> HIDE DEF T
  <2>3. Nat \subseteq T
    BY <2>1, <2>2, TS!NatSetInduction
  <2> QED
    BY <2>3
<1>3. Defines(runs, n)
  <2> HIDE DEF Defines
  <2> QED
    BY <1>2
<1> HIDE DEF runs
<1>4. runs[0] = First
  <2> HIDE DEF First, More
  <2> QED
    BY <1>3
<1>5. ASSUME NEW k \in 0..n, k + 1 \in 0..n
      PROVE  runs[k + 1] = More(runs[k], k + 1)
  <2>1. k + 1 # 0 /\ (k + 1) - 1 = k
    OBVIOUS
  <2> HIDE DEF First, More
  <2> QED
    BY <1>3, <1>5, <2>1
<1> QED
  BY <1>1, <1>4, <1>5

\* Every run of the model is a sequence of steps, and every such sequence a run.
LEMMA TranslatedRuns ==
  ASSUME NEW n \in Nat, NEW p \in Runs(L2SInit, L2STranslate, n)
  PROVE  /\ DOMAIN p = 0..n
         /\ p[0] \in L2SInit
         /\ \A t \in 0..n : t + 1 \in 0..n => p[t + 1] \in L2STranslate(p[t])
<1>1. PICK runs : /\ Runs(L2SInit, L2STranslate, n) = runs[n]
                  /\ runs[0] = TranslatedStart
                  /\ \A k \in 0..n : k + 1 \in 0..n =>
                       runs[k + 1] = TranslatedMore(runs[k], k + 1)
  BY TranslatedRunSets
<1> DEFINE IsRun(q, k) ==
             /\ DOMAIN q = 0..k
             /\ q[0] \in L2SInit
             /\ \A t \in 0..k : t + 1 \in 0..k => q[t + 1] \in L2STranslate(q[t])
           U == { k \in Nat : k \in 0..n => \A q \in runs[k] : IsRun(q, k) }
<1>4. 0 \in U
  <2>1. runs[0] = TranslatedStart
    BY <1>1
  <2>2. ASSUME NEW x \in L2SInit
        PROVE  IsRun([t \in 0..0 |-> x], 0)
    <3>1. \A t \in 0..0 : ~ (t + 1 \in 0..0)
      OBVIOUS
    <3> QED
      BY <3>1
  <2> HIDE DEF IsRun
  <2> QED
    BY <2>1, <2>2 DEF TranslatedStart
<1>5. ASSUME NEW k \in 0..n, k \in U, k + 1 \in 0..n
      PROVE  k + 1 \in U
  <2>1. runs[k + 1] = TranslatedMore(runs[k], k + 1)
    BY <1>1, <1>5
  <2>2. ASSUME NEW q \in runs[k + 1]
        PROVE  IsRun(q, k + 1)
    <3>1. (k + 1) - 1 = k
      OBVIOUS
    <3>2. PICK r \in runs[k] : \E x \in L2STranslate(r[k]) :
            q = [t \in 0..(k + 1) |-> IF t < k + 1 THEN r[t] ELSE x]
      BY <2>1, <3>1 DEF TranslatedMore
    <3>3. PICK x \in L2STranslate(r[k]) :
            q = [t \in 0..(k + 1) |-> IF t < k + 1 THEN r[t] ELSE x]
      BY <3>2
    <3>4. IsRun(r, k)
      <4> HIDE DEF IsRun
      <4> QED
        BY <1>5
    <3>5. q[0] = r[0] /\ q[k + 1] = x /\ (\A t \in 0..k : q[t] = r[t]) /\ DOMAIN q = 0..(k + 1)
      BY <3>3
    <3>6. ASSUME NEW t \in 0..(k + 1), t + 1 \in 0..(k + 1)
          PROVE  q[t + 1] \in L2STranslate(q[t])
      <4>1. t \in 0..k /\ (t = k \/ t + 1 \in 0..k)
        BY <3>6
      <4> QED
        BY <3>3, <3>4, <3>5, <4>1
    <3> QED
      BY <3>4, <3>5, <3>6
  <2>3. k + 1 \in Nat
    OBVIOUS
  <2> HIDE DEF IsRun
  <2> QED
    BY <2>2, <2>3
<1>6. 0..n \subseteq U
  <2> HIDE DEF U
  <2> QED
    BY <1>4, <1>5, TS!IntervalInduction
<1>7. n \in U
  BY <1>6
<1>8. p \in runs[n]
  BY <1>1
<1>9. IsRun(p, n)
  <2> HIDE DEF IsRun
  <2> QED
    BY <1>7, <1>8
<1> QED
  BY <1>9

LEMMA StepsAreTranslated ==
  ASSUME NEW n \in Nat, NEW p, p = [t \in 0..n |-> p[t]], p[0] \in L2SInit,
         \A t \in 0..n : t + 1 \in 0..n => p[t + 1] \in L2STranslate(p[t])
  PROVE  p \in Runs(L2SInit, L2STranslate, n)
<1>1. PICK runs : /\ Runs(L2SInit, L2STranslate, n) = runs[n]
                  /\ runs[0] = TranslatedStart
                  /\ \A k \in 0..n : k + 1 \in 0..n =>
                       runs[k + 1] = TranslatedMore(runs[k], k + 1)
  BY TranslatedRunSets
<1> DEFINE part(k) == [t \in 0..k |-> p[t]]
           T == { k \in Nat : part(k) \in runs[k] }
<1>2. 0 \in T
  <2>1. part(0) = [t \in 0..0 |-> p[0]]
    OBVIOUS
  <2> HIDE DEF part
  <2> QED
    BY <1>1, <2>1 DEF TranslatedStart
<1>3. ASSUME NEW k \in 0..n, k \in T, k + 1 \in 0..n
      PROVE  k + 1 \in T
  <2>1. /\ (k + 1) - 1 = k /\ k + 1 \in Nat /\ part(k)[k] = p[k]
        /\ p[k + 1] \in L2STranslate(p[k])
    BY <1>3
  <2>2. part(k + 1) = [t \in 0..(k + 1) |-> IF t < k + 1 THEN part(k)[t] ELSE p[k + 1]]
    <3>1. ASSUME NEW t \in 0..(k + 1)
          PROVE  p[t] = IF t < k + 1 THEN part(k)[t] ELSE p[k + 1]
      <4>1. t < k + 1 => t \in 0..k
        OBVIOUS
      <4>2. ~(t < k + 1) => t = k + 1
        OBVIOUS
      <4> QED
        BY <4>1, <4>2
    <3> QED
      BY <3>1
  <2>3. part(k) \in runs[k]
    BY <1>3
  <2> DEFINE q == part(k)
             longer == { [t \in 0..(k + 1) |-> IF t < k + 1 THEN q[t] ELSE x] :
                           x \in L2STranslate(q[(k + 1) - 1]) }
  <2> HIDE DEF part
  <2>5. part(k + 1) \in longer
    BY <2>1, <2>2
  <2>6. longer \subseteq TranslatedMore(runs[k], k + 1)
    <3>1. q \in runs[k]
      BY <2>3
    <3> DEFINE all == { { [t \in 0..(k + 1) |-> IF t < k + 1 THEN r[t] ELSE x] :
                            x \in L2STranslate(r[(k + 1) - 1]) } : r \in runs[k] }
    <3>2. TranslatedMore(runs[k], k + 1) = UNION all
      BY DEF TranslatedMore
    <3> HIDE DEF q
    <3>3. longer \in all
      BY <3>1, Zenon
    <3> QED
      BY <3>2, <3>3
  <2>4. part(k + 1) \in TranslatedMore(runs[k], k + 1)
    BY <2>5, <2>6
  <2> QED
    BY <1>1, <1>3, <2>1, <2>4
<1>4. 0..n \subseteq T
  <2> HIDE DEF T
  <2> QED
    BY <1>2, <1>3, TS!IntervalInduction
<1>5. part(n) = p
  OBVIOUS
<1> HIDE DEF part
<1> QED
  BY <1>1, <1>4, <1>5

-----------------------------------------------------------------------------
(* Lassos.                                                                 *)

\* A run of n steps whose last state repeats an earlier one, with every
\* condition met in between.
Lasso(w, n) ==
  /\ w[0] \in sys.init
  /\ \A t \in 1..n : <<w[t - 1], w[t]>> \in sys.trans
  /\ \E i \in 0..n - 1 :
       /\ sys.updated[w[i]] = sys.updated[w[n]]
       /\ \A J \in sys.justice : \E t \in i..n - 1 : w[t] \in J

LEMMA SuccessorIsStep ==
  ASSUME sys \in Systems, NEW s, NEW u \in Successors(sys, s)
  PROVE  <<s, u>> \in sys.trans /\ s \in States /\ u \in States
<1>1. PICK e \in sys.trans : e[1] = s /\ u = e[2]
  BY DEF Successors
<1>2. e \in States \X States
  BY LivenessSystemsAssumption DEF SystemType
<1> QED
  BY <1>1, <1>2

LEMMA IntervalCard ==
  ASSUME NEW n \in Nat
  PROVE  Cardinality(0..n) - 1 = n
<1>1. Cardinality(0..n) = IF 0 > n THEN 0 ELSE n - 0 + 1
  BY FS_Interval
<1> QED
  BY <1>1

\* k-liveness is for at most one condition.
LEMMA OneCondition ==
  ASSUME sys \in Systems, ~(Cardinality(sys.justice) > 1), NEW J \in sys.justice
  PROVE  J = JusticeProp
<1>1. IsFiniteSet(sys.justice)
  BY JusticeAssumption
<1>2. JusticeProp \in sys.justice
  BY DEF JusticeProp
<1> DEFINE rest == sys.justice \ {J}
<1>3. IsFiniteSet(rest) /\ Cardinality(rest) = Cardinality(sys.justice) - 1
  BY <1>1, FS_RemoveElement
<1>4. Cardinality(rest) \in Nat /\ Cardinality(sys.justice) \in Nat
  BY <1>1, <1>3, FS_CardinalityType
<1>5. Cardinality(rest) = 0
  BY <1>3, <1>4
<1>6. rest = {}
  <2> HIDE DEF rest
  <2> QED
    BY <1>3, <1>5, FS_EmptySet
<1> QED
  BY <1>2, <1>6

\* What is stored of a run of a system made from sys is a run of sys.
LEMMA StoredRun ==
  ASSUME sys \in Systems, NEW n \in Nat, NEW p,
         p[0].state \in sys.init,
         \A t \in 0..n : t + 1 \in 0..n => p[t + 1].state \in Successors(sys, p[t].state),
         NEW w, w = [t \in 0..n |-> p[t].state]
  PROVE  /\ w[0] \in sys.init
         /\ \A t \in 1..n : <<w[t - 1], w[t]>> \in sys.trans
<1>1. ASSUME NEW t \in 1..n
      PROVE  <<w[t - 1], w[t]>> \in sys.trans
  <2> DEFINE u == t - 1
  <2>1. u \in 0..n /\ u + 1 \in 0..n /\ u + 1 = t
    OBVIOUS
  <2> HIDE DEF u
  <2>2. p[u + 1].state \in Successors(sys, p[u].state)
    BY <2>1
  <2>3. <<p[u].state, p[u + 1].state>> \in sys.trans
    BY <2>2, SuccessorIsStep
  <2>4. w[u] = p[u].state /\ w[u + 1] = p[u + 1].state
    BY <2>1
  <2> QED
    BY <2>1, <2>3, <2>4 DEF u
<1>2. w[0] = p[0].state
  BY 0 \in 0..n
<1> QED
  BY <1>1, <1>2

LEMMA InstrumentStep ==
  ASSUME NEW x, NEW y \in InstrumentTs(x)
  PROVE  /\ y.state \in Successors(sys, x.state)
         /\ x.state \notin JusticeProp => y.counter = x.counter
<1>1. PICK s \in Successors(sys, x.state) :
        y = [ state |-> s,
              counter |-> IF x.state \in JusticeProp THEN CounterIncr(x.counter) ELSE x.counter ]
  BY Zenon DEF InstrumentTs
<1>2. /\ y.state = s
      /\ y.counter = IF x.state \in JusticeProp THEN CounterIncr(x.counter) ELSE x.counter
  BY <1>1
<1> QED
  BY <1>2

\* A run of the counter, cut after a justice step that repeats another.
LEMMA RevisitIsLasso ==
  ASSUME sys \in Systems, ~(Cardinality(sys.justice) > 1),
         NEW n \in Nat, DOMAIN cex = 0..n,
         cex[0] \in InstrumentedInit,
         \A t \in 0..n : t + 1 \in 0..n => cex[t + 1] \in InstrumentTs(cex[t]),
         NEW t \in Revisits,
         NEW w, w = [k \in 0..t |-> cex[k].state]
  PROVE  t \in 0..n /\ Lasso(w, t)
<1>1. CexLen = n
  BY IntervalCard DEF CexLen
<1>2. PICK u \in JusticeSteps :
        u < t /\ sys.updated[cex[u].state] = sys.updated[cex[t].state]
  BY DEF Revisits
<1>3. t \in 0..n - 1 /\ u \in 0..n - 1 /\ u < t
  BY <1>1, <1>2 DEF Revisits, JusticeSteps
<1>4. t \in Nat /\ \A k \in 0..t : k + 1 \in 0..t => k \in 0..n /\ k + 1 \in 0..n
  BY <1>3
<1>5. ASSUME NEW k \in 0..n, k + 1 \in 0..n
      PROVE  cex[k + 1].state \in Successors(sys, cex[k].state)
  BY <1>5, InstrumentStep
<1>6. cex[0].state \in sys.init
  BY DEF InstrumentedInit
<1>7. /\ w[0] \in sys.init
      /\ \A k \in 1..t : <<w[k - 1], w[k]>> \in sys.trans
  BY <1>4, <1>5, <1>6, StoredRun
<1>8. w[u] = cex[u].state /\ w[t] = cex[t].state /\ u \in 0..t - 1
  BY <1>3
<1>9. cex[u].state \in JusticeProp
  <2>1. u + 1 \in 0..n /\ u \in 0..n /\ cex[u].counter # cex[u + 1].counter
    BY <1>1, <1>2, <1>3 DEF JusticeSteps
  <2>2. cex[u + 1] \in InstrumentTs(cex[u])
    BY <2>1
  <2>3. cex[u].state \notin JusticeProp => cex[u + 1].counter = cex[u].counter
    BY <2>2, InstrumentStep
  <2> QED
    BY <2>1, <2>3
<1>10. \A J \in sys.justice : w[u] \in J
  BY <1>8, <1>9, OneCondition
<1>11. u \in u..t - 1
  BY <1>3
<1>12. \A J \in sys.justice : \E k \in u..t - 1 : w[k] \in J
  BY <1>10, <1>11
<1>13. sys.updated[w[u]] = sys.updated[w[t]]
  BY <1>2, <1>8
<1>14. t \in 0..n
  BY <1>3
<1>15. Lasso(w, t)
  BY <1>7, <1>8, <1>12, <1>13 DEF Lasso
<1> QED
  BY <1>14, <1>15

\* Once a state was saved it is that of an earlier time, and the conditions
\* that were met are those met since.
Saved(p, t) ==
  /\ ~p[t].saved => p[t].justice = {}
  /\ p[t].saved =>
       \E i \in 0..t - 1 :
         /\ p[t].loop = sys.all[p[i].state]
         /\ \A J \in p[t].justice : \E u \in i..t - 1 : p[u].state \in J

LEMMA TranslateStep ==
  ASSUME NEW x, NEW y \in L2STranslate(x)
  PROVE  /\ y.state \in Successors(sys, x.state)
         /\ \E save \in BOOLEAN :
              /\ y.saved = (x.saved \/ save)
              /\ y.loop = IF save /\ ~x.saved THEN sys.all[x.state] ELSE x.loop
              /\ y.justice = IF save \/ x.saved
                             THEN x.justice \cup { J \in sys.justice : x.state \in J }
                             ELSE x.justice
<1>1. PICK s \in Successors(sys, x.state), save \in BOOLEAN :
        y = [ state   |-> s,
              saved   |-> x.saved \/ save,
              loop    |-> IF save /\ ~x.saved THEN sys.all[x.state] ELSE x.loop,
              justice |-> IF save \/ x.saved
                          THEN x.justice \cup { J \in sys.justice : x.state \in J }
                          ELSE x.justice ]
  BY DEF L2STranslate
<1>2. /\ y.state = s
      /\ y.saved = (x.saved \/ save)
      /\ y.loop = IF save /\ ~x.saved THEN sys.all[x.state] ELSE x.loop
      /\ y.justice = IF save \/ x.saved
                     THEN x.justice \cup { J \in sys.justice : x.state \in J }
                     ELSE x.justice
  BY <1>1
<1> QED
  BY <1>2

LEMMA SavedStep ==
  ASSUME NEW p, NEW t \in Nat, Saved(p, t), p[t + 1] \in L2STranslate(p[t])
  PROVE  Saved(p, t + 1)
<1> DEFINE x == p[t]
           y == p[t + 1]
<1>1. PICK save \in BOOLEAN :
        /\ y.saved = (x.saved \/ save)
        /\ y.loop = IF save /\ ~x.saved THEN sys.all[x.state] ELSE x.loop
        /\ y.justice = IF save \/ x.saved
                       THEN x.justice \cup { J \in sys.justice : x.state \in J } ELSE x.justice
  BY TranslateStep
<1>2. (t + 1) - 1 = t /\ t \in 0..t
  OBVIOUS
<1>3. CASE x.saved
  <2>1. PICK i \in 0..t - 1 :
          /\ x.loop = sys.all[p[i].state]
          /\ \A J \in x.justice : \E u \in i..t - 1 : p[u].state \in J
    BY <1>3 DEF Saved
  <2>2. y.saved /\ y.loop = x.loop /\ y.justice = x.justice \cup { J \in sys.justice : x.state \in J }
    BY <1>1, <1>3
  <2>3. i \in 0..t /\ t \in i..t /\ \A u \in i..t - 1 : u \in i..t
    OBVIOUS
  <2>4. \A J \in y.justice : \E u \in i..t : p[u].state \in J
    BY <2>1, <2>2, <2>3
  <2> HIDE DEF x, y
  <2> QED
    BY <1>2, <2>1, <2>2, <2>3, <2>4 DEF Saved, y
<1>4. CASE ~x.saved /\ save
  <2>1. x.justice = {}
    BY <1>4 DEF Saved
  <2>2. y.saved /\ y.loop = sys.all[x.state] /\ y.justice = { J \in sys.justice : x.state \in J }
    BY <1>1, <1>4, <2>1
  <2>3. \A J \in y.justice : \E u \in t..t : p[u].state \in J
    BY <2>2
  <2> HIDE DEF y
  <2> QED
    BY <1>2, <2>2, <2>3 DEF Saved, y
<1>5. CASE ~x.saved /\ ~save
  BY <1>1, <1>5 DEF Saved
<1> QED
  BY <1>3, <1>4, <1>5

LEMMA TranslatedIsLasso ==
  ASSUME sys \in Systems, NEW n \in Nat, NEW p \in L2SCounterexamples(n),
         NEW w, w = [t \in 0..n |-> p[t].state]
  PROVE  Lasso(w, n)
<1>1. /\ p[0] \in L2SInit
      /\ \A t \in 0..n : t + 1 \in 0..n => p[t + 1] \in L2STranslate(p[t])
      /\ p[n].saved /\ sys.all[p[n].state] = p[n].loop /\ p[n].justice = sys.justice
  BY TranslatedRuns DEF L2SCounterexamples, L2SBad
<1>2. ASSUME NEW t \in 0..n, t + 1 \in 0..n
      PROVE  p[t + 1].state \in Successors(sys, p[t].state)
  BY <1>1, <1>2, TranslateStep
<1>3. p[0].state \in sys.init
  BY <1>1 DEF L2SInit
<1>4. /\ w[0] \in sys.init
      /\ \A t \in 1..n : <<w[t - 1], w[t]>> \in sys.trans
  BY <1>2, <1>3, StoredRun
<1> DEFINE T == { t \in Nat : t \in 0..n => Saved(p, t) }
<1>5. 0 \in T
  BY <1>1 DEF Saved, L2SInit
<1>6. ASSUME NEW t \in 0..n, t \in T, t + 1 \in 0..n
      PROVE  t + 1 \in T
  BY <1>1, <1>6, SavedStep
<1>7. 0..n \subseteq T
  <2> HIDE DEF T
  <2> QED
    BY <1>5, <1>6, TS!IntervalInduction
<1>8. Saved(p, n)
  BY <1>7
<1>9. PICK i \in 0..n - 1 :
        /\ p[n].loop = sys.all[p[i].state]
        /\ \A J \in p[n].justice : \E u \in i..n - 1 : p[u].state \in J
  BY <1>1, <1>8 DEF Saved
<1>10. \A t \in 0..n : w[t] = p[t].state /\ w[t] \in States
  <2>1. sys.init \subseteq States /\ sys.trans \subseteq States \X States
    BY LivenessSystemsAssumption DEF SystemType
  <2>2. ASSUME NEW t \in 0..n, t # 0
        PROVE  w[t] \in States
    <3>1. <<w[t - 1], w[t]>> \in sys.trans
      BY <1>4, <2>2
    <3> QED
      BY <2>1, <3>1
  <2> QED
    BY <1>4, <2>1, <2>2
<1>11. i \in 0..n /\ n \in 0..n
  BY <1>9
<1>12. sys.updated[w[i]] = sys.updated[w[n]]
  BY <1>1, <1>9, <1>10, <1>11, UpdatedAssumption
<1>13. \A J \in sys.justice : \E u \in i..n - 1 : w[u] \in J
  <2>1. \A u \in i..n - 1 : u \in 0..n
    BY <1>9
  <2> QED
    BY <1>1, <1>9, <1>10, <2>1
<1> QED
  BY <1>4, <1>9, <1>12, <1>13 DEF Lasso

-----------------------------------------------------------------------------
(* The inductive invariant.                                                *)

LassoInv ==
  /\ sys \in Systems
  /\ bmcReached \in Int /\ bmcReached >= -1
  \* The constructor let the conditions through.
  /\ opts.mode = "klive" /\ pc \notin {"construct", "done"} => ~(Cardinality(sys.justice) > 1)
  /\ pc \in {"loop", "safety", "revisit", "lockstep"} => opts.mode = "klive"
  \* The counterexample at hand is a run of the counter.
  /\ pc \in {"revisit", "lockstep"} =>
       \E n \in Nat :
         /\ DOMAIN cex = 0..n
         /\ cex[0] \in InstrumentedInit
         /\ \A t \in 0..n : t + 1 \in 0..n => cex[t + 1] \in InstrumentTs(cex[t])
  /\ result = "FALSE" =>
       /\ pc = "done"
       /\ \E n \in Nat : DOMAIN witness = 0..n /\ Lasso(witness, n)

LEMMA LassoInvInit == Init => LassoInv
  BY DEF Init, LassoInv

\* A step that gives no answer FALSE and leaves the counterexample behind.
LEMMA LassoStays ==
  ASSUME LassoInv, UNCHANGED <<sys, opts>>, pc \notin {"construct", "done"},
         bmcReached' \in Int, bmcReached' >= -1,
         pc' \notin {"construct", "revisit", "lockstep"},
         pc' \in {"loop", "safety"} => opts.mode = "klive",
         result' # "FALSE"
  PROVE  LassoInv'
BY DEF LassoInv

\* A step that keeps the counterexample.
LEMMA CexStays ==
  ASSUME LassoInv, UNCHANGED <<sys, opts, live_count, cex, bmcReached, result>>,
         pc \in {"revisit", "lockstep"}, pc' \in {"lockstep", "error"}
  PROVE  LassoInv'
<1>1. InstrumentedInit' = InstrumentedInit /\ \A x : InstrumentTs(x)' = InstrumentTs(x)
  BY DEF InstrumentedInit, InstrumentTs, CounterInit, CounterIncr, Width, JusticeProp
<1> QED
  BY <1>1 DEF LassoInv

LEMMA FalseAnswer ==
  ASSUME LassoInv, UNCHANGED <<sys, opts, bmcReached>>, Return("FALSE"),
         NEW n \in Nat, DOMAIN witness' = 0..n, Lasso(witness', n)
  PROVE  LassoInv'
<1>1. pc' = "done" /\ result' = "FALSE"
  BY DEF Return
<1>2. Lasso(witness, n)'
  BY DEF Lasso
<1> QED
  BY <1>1, <1>2 DEF LassoInv

LEMMA DetectRevisitKeeps == LassoInv /\ DetectRevisitInCex => LassoInv'
<1> SUFFICES ASSUME LassoInv, DetectRevisitInCex
             PROVE  LassoInv'
  OBVIOUS
<1>1. pc = "revisit" /\ UNCHANGED <<sys, opts, live_count, bmcReached, bound, cex>>
  BY DEF DetectRevisitInCex
<1>2. CASE pc' \in {"lockstep", "error"} /\ UNCHANGED result
  BY <1>1, <1>2, CexStays
<1>3. CASE /\ \E t \in Revisits : (\A u \in Revisits : t <= u) /\ StoreCex(cex, t + 1)
           /\ Return("FALSE")
  <2>1. PICK t \in Revisits : StoreCex(cex, t + 1)
    BY <1>3
  <2>2. PICK n \in Nat :
          /\ DOMAIN cex = 0..n
          /\ cex[0] \in InstrumentedInit
          /\ \A k \in 0..n : k + 1 \in 0..n => cex[k + 1] \in InstrumentTs(cex[k])
    BY <1>1 DEF LassoInv
  <2>3. sys \in Systems /\ ~(Cardinality(sys.justice) > 1)
    BY <1>1 DEF LassoInv
  <2> DEFINE w == [k \in 0..t |-> cex[k].state]
  <2>4. t \in 0..n /\ Lasso(w, t)
    <3> HIDE DEF w
    <3>1. w = [k \in 0..t |-> cex[k].state]
      BY DEF w
    <3> QED
      BY <2>2, <2>3, <3>1, RevisitIsLasso
  <2>5. t \in Nat /\ t + 1 - 1 = t
    BY <2>4
  <2>6. witness' = w /\ DOMAIN w = 0..t
    BY <2>1, <2>5 DEF StoreCex
  <2> HIDE DEF w
  <2> QED
    BY <1>1, <1>3, <2>4, <2>5, <2>6, FalseAnswer
<1> QED
  BY <1>2, <1>3 DEF DetectRevisitInCex

\* A lasso of the translated system, stored.
LEMMA TranslatedKeeps ==
  ASSUME LassoInv, UNCHANGED <<sys, opts, bmcReached>>, Return("FALSE"),
         NEW n \in Nat, NEW p \in L2SCounterexamples(n), StoreCex(p, n + 1)
  PROVE  LassoInv'
<1> DEFINE w == [t \in 0..n |-> p[t].state]
<1>1. n + 1 - 1 = n
  OBVIOUS
<1>2. witness' = w /\ DOMAIN w = 0..n
  BY <1>1 DEF StoreCex
<1>3. Lasso(w, n)
  <2>1. w = [t \in 0..n |-> p[t].state]
    OBVIOUS
  <2> HIDE DEF w
  <2> QED
    BY <2>1, TranslatedIsLasso DEF LassoInv
<1> HIDE DEF w
<1> QED
  BY <1>2, <1>3, FalseAnswer

LEMMA CexLenNat ==
  ASSUME LassoInv, pc \in {"revisit", "lockstep"}
  PROVE  CexLen \in Nat
BY IntervalCard DEF LassoInv, CexLen

LEMMA LassoInvNext == LassoInv /\ [Next]_vars => LassoInv'
<1> SUFFICES ASSUME LassoInv, [Next]_vars
             PROVE  LassoInv'
  OBVIOUS
<1>0. pc # "done" => result # "FALSE"
  BY DEF LassoInv
<1>1. CASE Construct
  BY <1>1 DEF Construct, LassoInv
<1>2. CASE \E k \in Bounds : CheckUntil(k)
  <2>1. /\ pc = "idle" /\ result' = "NONE" /\ UNCHANGED <<sys, opts, bmcReached>>
        /\ pc' = IF opts.mode = "klive" THEN "loop" ELSE "l2s"
    BY <1>2 DEF CheckUntil
  <2>2. bmcReached \in Int /\ bmcReached >= -1
    BY DEF LassoInv
  <2> QED
    BY <2>1, <2>2, LassoStays
<1>3. CASE LoopTest
  <2>1. pc = "loop" /\ UNCHANGED <<sys, opts, bmcReached>> /\ opts.mode = "klive"
    BY <1>3 DEF LoopTest, LassoInv
  <2>2. pc' \in {"idle", "safety"} /\ result' # "FALSE"
    BY <1>0, <1>3, <2>1 DEF LoopTest, Return
  <2>3. bmcReached \in Int /\ bmcReached >= -1
    BY DEF LassoInv
  <2> QED
    BY <2>1, <2>2, <2>3, LassoStays
<1>4. CASE SafetyTrue
  BY <1>4, LassoStays DEF SafetyTrue, Return, LassoInv
<1>5. CASE SafetyUnknown
  BY <1>0, <1>5, LassoStays DEF SafetyUnknown, NextRound, LassoInv
<1>6. CASE SafetyFalse
  <2>1. /\ pc = "safety" /\ pc' = "revisit"
        /\ UNCHANGED <<sys, opts, live_count, bmcReached, witness, result>>
    BY <1>6 DEF SafetyFalse
  <2>2. PICK n \in 0..bound : cex' \in Counterexamples(n)
    BY <1>6 DEF SafetyFalse
  <2>3. n \in Nat /\ cex' \in Runs(InstrumentedInit, InstrumentTs, n)
    BY <2>2 DEF Counterexamples
  <2>4. /\ DOMAIN cex' = 0..n
        /\ cex'[0] \in InstrumentedInit
        /\ \A t \in 0..n : t + 1 \in 0..n => cex'[t + 1] \in InstrumentTs(cex'[t])
    BY <2>3, InstrumentedRuns
  <2>5. InstrumentedInit' = InstrumentedInit /\ \A x : InstrumentTs(x)' = InstrumentTs(x)
    BY <2>1 DEF InstrumentedInit, InstrumentTs, CounterInit, CounterIncr, Width, JusticeProp
  <2> QED
    BY <1>0, <2>1, <2>3, <2>4, <2>5 DEF LassoInv
<1>7. CASE DetectRevisitInCex
  BY <1>7, DetectRevisitKeeps
<1>8. CASE FindLassoByBmc
  <2>1. /\ pc = "lockstep" /\ UNCHANGED <<sys, opts, bmcReached>> /\ Return("FALSE")
    BY <1>8 DEF FindLassoByBmc
  <2>2. PICK n \in bmcReached + 1..CexLen : \E p \in L2SCounterexamples(n) : StoreCex(p, n + 1)
    BY <1>8 DEF FindLassoByBmc
  <2>3. n \in Nat
    BY <2>1, <2>2, CexLenNat DEF LassoInv
  <2> QED
    BY <2>1, <2>2, <2>3, TranslatedKeeps
<1>9. CASE NoLassoByBmc
  <2>1. /\ pc = "lockstep" /\ pc' = "loop" /\ UNCHANGED <<sys, opts, result>>
        /\ bmcReached' \in {CexLen, bmcReached}
    BY <1>9 DEF NoLassoByBmc, NextRound
  <2>2. bmcReached' \in Int /\ bmcReached' >= -1
    BY <2>1, CexLenNat DEF LassoInv
  <2>3. opts.mode = "klive"
    BY <2>1 DEF LassoInv
  <2> QED
    BY <1>0, <2>1, <2>2, <2>3, LassoStays
<1>10. CASE L2SProve
  <2>1. pc = "l2s" /\ UNCHANGED <<sys, opts, bmcReached>>
    BY <1>10 DEF L2SProve
  <2>2. CASE \E n \in 0..bound : \E p \in L2SCounterexamples(n) :
               StoreCex(p, n + 1) /\ Return("FALSE")
    BY <2>1, <2>2, TranslatedKeeps
  <2>3. CASE Return("UNKNOWN") \/ Return("TRUE")
    <3>1. pc' \in {"idle", "done"} /\ result' # "FALSE"
      BY <2>3 DEF Return
    <3>2. bmcReached \in Int /\ bmcReached >= -1
      BY DEF LassoInv
    <3> QED
      BY <2>1, <3>1, <3>2, LassoStays
  <2> QED
    BY <1>10, <2>2, <2>3 DEF L2SProve
<1>11. CASE UNCHANGED vars
  <2>1. InstrumentedInit' = InstrumentedInit /\ \A x : InstrumentTs(x)' = InstrumentTs(x)
    BY <1>11 DEF vars, InstrumentedInit, InstrumentTs, CounterInit, CounterIncr, Width, JusticeProp
  <2> QED
    BY <1>11, <2>1 DEF vars, LassoInv, Lasso
<1> QED
  BY <1>1, <1>2, <1>3, <1>4, <1>5, <1>6, <1>7, <1>8, <1>9, <1>10, <1>11 DEF Next, Step

\* FALSE of k-liveness, with or without the lockstep BMC, and of the translation
\* to safety comes with a run that is a lasso and fair (kliveness.cpp:
\* detect_revisit_in_cex and find_lasso_by_bmc;
\* liveness_to_safety_translator.cpp: translate).
THEOREM LivenessFalseIsLasso == Spec => []FalseIsLasso
<1>1. Init => LassoInv
  BY LassoInvInit
<1>2. LassoInv /\ [Next]_vars => LassoInv'
  BY LassoInvNext
<1>3. LassoInv => FalseIsLasso
  <2> SUFFICES ASSUME LassoInv, result = "FALSE"
               PROVE  FalseIsLasso
    BY DEF FalseIsLasso
  <2>1. PICK n \in Nat : DOMAIN witness = 0..n /\ Lasso(witness, n)
    BY DEF LassoInv
  <2>2. Cardinality(DOMAIN witness) - 1 = n
    BY <2>1, IntervalCard
  <2> QED
    BY <2>1, <2>2 DEF FalseIsLasso, Lasso
<1> QED
  BY <1>1, <1>2, <1>3, PTL DEF Spec

-----------------------------------------------------------------------------
(* Powers of two, and the counter.                                         *)

\* 2^n is the number of subsets of n elements.
LEMMA PowerOfTwo ==
  ASSUME NEW n \in Nat
  PROVE  2^n \in Nat /\ 2^(n + 1) = 2^n + 2^n
<1> DEFINE S == 1..n
           A == SUBSET S
           B == { T \cup {n + 1} : T \in A }
<1>1. /\ IsFiniteSet(S) /\ Cardinality(S) = n
      /\ IsFiniteSet(1..(n + 1)) /\ Cardinality(1..(n + 1)) = n + 1
  <2>1. 1 \in Int /\ n \in Int /\ n + 1 \in Int /\ (1 > n => n = 0) /\ ~(1 > n + 1)
        /\ n - 1 + 1 = n /\ (n + 1) - 1 + 1 = n + 1
    OBVIOUS
  <2> QED
    BY <2>1, FS_Interval
<1>2. IsFiniteSet(A) /\ Cardinality(A) = 2^n /\ Cardinality(A) \in Nat
  BY <1>1, FS_SUBSET, FS_CardinalityType
<1>3. IsFiniteSet(SUBSET (1..(n + 1))) /\ Cardinality(SUBSET (1..(n + 1))) = 2^(n + 1)
  BY <1>1, FS_SUBSET
<1>4. IsFiniteSet(B) /\ Cardinality(B) = Cardinality(A)
  <2> DEFINE f == [T \in A |-> T \cup {n + 1}]
  <2>1. f \in Bijection(A, B)
    <3>1. \A T, U \in A : f[T] = f[U] => T = U
      <4> SUFFICES ASSUME NEW T \in A, NEW U \in A, f[T] = f[U]
                   PROVE  T = U
        OBVIOUS
      <4>1. T \cup {n + 1} = U \cup {n + 1}
        OBVIOUS
      <4>2. n + 1 \notin T /\ n + 1 \notin U
        OBVIOUS
      <4> QED
        BY <4>1, <4>2
    <3>2. f \in [A -> B] /\ \A b \in B : \E T \in A : f[T] = b
      OBVIOUS
    <3> HIDE DEF f, A, B
    <3> QED
      BY <3>1, <3>2 DEF Bijection, Injection, IsInjective, Surjection
  <2>2. ExistsBijection(A, B)
    BY <2>1 DEF ExistsBijection
  <2> HIDE DEF A, B
  <2> QED
    BY <1>2, <2>2, FS_Bijection
<1>5. A \cup B = SUBSET (1..(n + 1)) /\ A \cap B = {}
  <2>1. ASSUME NEW T \in SUBSET (1..(n + 1)), n + 1 \in T
        PROVE  T \in B
    <3>1. T \ {n + 1} \in A /\ T = (T \ {n + 1}) \cup {n + 1}
      BY <2>1
    <3> QED
      BY <3>1
  <2>2. ASSUME NEW T \in SUBSET (1..(n + 1)), n + 1 \notin T
        PROVE  T \in A
    BY <2>2
  <2>3. \A T \in A : T \in SUBSET (1..(n + 1)) /\ n + 1 \notin T
    OBVIOUS
  <2>4. \A T \in B : T \in SUBSET (1..(n + 1)) /\ n + 1 \in T
    OBVIOUS
  <2> HIDE DEF A, B
  <2> QED
    BY <2>1, <2>2, <2>3, <2>4
<1>6. Cardinality(A \cap B) = 0
  BY <1>5, FS_EmptySet
<1>7. Cardinality(A \cup B) = Cardinality(A) + Cardinality(B) - Cardinality(A \cap B)
  <2> HIDE DEF A, B
  <2> QED
    BY <1>2, <1>4, FS_Union
<1>8. Cardinality(SUBSET (1..(n + 1))) = Cardinality(A) + Cardinality(A) - 0
  <2> HIDE DEF A, B
  <2> QED
    BY <1>4, <1>5, <1>6, <1>7
<1>9. Cardinality(A) \in Nat /\ Cardinality(A) = 2^n
  BY <1>2
<1> HIDE DEF A
<1> QED
  BY <1>3, <1>8, <1>9

\* Every number is below its power of two.
LEMMA BelowPower ==
  ASSUME NEW n \in Nat
  PROVE  n < 2^n
<1> DEFINE T == { m \in Nat : m < 2^m }
<1>1. 0 \in T
  BY 2^0 = 1
<1>2. \A m \in Nat : m \in T => m + 1 \in T
  <2> SUFFICES ASSUME NEW m \in Nat, m < 2^m
               PROVE  m + 1 < 2^(m + 1)
    OBVIOUS
  <2>1. 2^m \in Nat /\ 2^(m + 1) = 2^m + 2^m
    BY PowerOfTwo
  <2> QED
    BY <2>1
<1>3. Nat \subseteq T
  <2> HIDE DEF T
  <2> QED
    BY <1>1, <1>2, TS!NatSetInduction
<1> QED
  BY <1>3

\* A larger exponent has the larger power.
LEMMA PowersGrow ==
  ASSUME NEW a \in Nat, NEW b \in Nat, a < b
  PROVE  2^a < 2^b
<1> DEFINE T == { d \in Nat : 2^a < 2^(a + 1 + d) }
<1>1. \A m \in Nat : 2^m \in Nat /\ 2^m > 0 /\ 2^(m + 1) = 2^m + 2^m
  BY PowerOfTwo, BelowPower
<1>2. 0 \in T
  <2>1. a + 1 + 0 = a + 1
    OBVIOUS
  <2> QED
    BY <1>1, <2>1
<1>3. \A d \in Nat : d \in T => d + 1 \in T
  <2> SUFFICES ASSUME NEW d \in Nat, 2^a < 2^(a + 1 + d)
               PROVE  2^a < 2^(a + 1 + (d + 1))
    OBVIOUS
  <2> DEFINE m == a + 1 + d
  <2>1. m \in Nat /\ a + 1 + (d + 1) = m + 1
    OBVIOUS
  <2> HIDE DEF m
  <2>2. 2^m \in Nat /\ 2^a \in Nat /\ 2^(m + 1) = 2^m + 2^m /\ 2^a < 2^m
    BY <1>1, <2>1 DEF m
  <2> QED
    BY <2>1, <2>2
<1>4. Nat \subseteq T
  <2> HIDE DEF T
  <2> QED
    BY <1>2, <1>3, TS!NatSetInduction
<1> DEFINE d == b - a - 1
<1>5. d \in Nat /\ a + 1 + d = b
  OBVIOUS
<1>6. d \in T
  BY <1>4, <1>5
<1> QED
  BY <1>5, <1>6

\* The counter has bits enough for the count it is to reach.
LEMMA WidthHolds ==
  ASSUME opts.encoding # "BV_ONE_HOT", NEW k \in Nat \ {0}
  PROVE  Width(k) \in Nat /\ k < 2^Width(k)
<1> DEFINE T == { w \in Nat : k < 2^w }
<1>1. PICK w \in T : \A v \in T : w <= v
  <2>1. T \subseteq Nat /\ T # {}
    BY BelowPower
  <2> HIDE DEF T
  <2> QED
    BY <2>1, TS!LeastNat
<1>2. w # 0
  <2>1. 2^0 = 1
    OBVIOUS
  <2>2. 0 \notin T
    BY <2>1
  <2> HIDE DEF T
  <2> QED
    BY <2>2
<1>3. w <= k
  <2>1. k \in T
    BY BelowPower
  <2> QED
    BY <1>1, <2>1
<1>4. 2^(w - 1) <= k
  <2>1. w - 1 \in Nat /\ w - 1 \notin T
    BY <1>1, <1>2
  <2>2. 2^(w - 1) \in Nat
    BY <2>1, PowerOfTwo
  <2> QED
    BY <2>1, <2>2
<1>5. w \in 1..k /\ 2^(w - 1) <= k /\ k < 2^w
  BY <1>1, <1>2, <1>3, <1>4
<1>6. Width(k) \in 1..k /\ k < 2^Width(k)
  BY <1>5 DEF Width
<1> QED
  BY <1>6

\* The value of the counter after m counted steps.
Val(m) == IF opts.encoding = "BV_ONE_HOT" THEN 2^m ELSE m

\* A remainder below the modulus.
LEMMA SmallMod ==
  ASSUME NEW a \in Nat, NEW b \in Nat, a < b
  PROVE  a % b = a
OBVIOUS

\* Up to its target the counter counts, in each encoding.
LEMMA CounterCounts ==
  ASSUME opts \in OptionType, live_count \in Nat \ {0}
  PROVE  /\ CounterInit = Val(0) /\ CountToVal = Val(live_count)
         /\ \A m \in 0..live_count - 1 : CounterIncr(Val(m)) = Val(m + 1) /\ Val(m + 1) # Val(m)
<1>1. CounterInit = Val(0) /\ CountToVal = Val(live_count)
  <2>1. 2^0 = 1
    OBVIOUS
  <2> QED
    BY <2>1 DEF CounterInit, CountToVal, Val
<1>2. ASSUME NEW m \in 0..live_count - 1
      PROVE  CounterIncr(Val(m)) = Val(m + 1) /\ Val(m + 1) # Val(m)
  <2>0. m \in Nat /\ m + 1 \in Nat /\ m + 1 <= live_count
    OBVIOUS
  <2>1. CASE opts.encoding = "BV_BINARY"
    <3>1. Width(live_count) \in Nat /\ live_count < 2^Width(live_count)
      BY <2>1, WidthHolds
    <3>2. 2^Width(live_count) \in Nat
      BY <3>1, PowerOfTwo
    <3>3. (m + 1) % 2^Width(live_count) = m + 1
      BY <2>0, <3>1, <3>2, SmallMod
    <3>4. CounterIncr(m) = (m + 1) % 2^Width(live_count)
      BY <2>1, Zenon DEF CounterIncr
    <3> QED
      BY <2>0, <2>1, <3>3, <3>4 DEF Val
  <2>2. CASE opts.encoding = "BV_ONE_HOT"
    <3>1. Width(live_count) = live_count + 1
      BY <2>2 DEF Width
    <3>2. 2^m \in Nat /\ 2^(m + 1) \in Nat /\ 2^(m + 1) = 2 * 2^m
      BY <2>0, PowerOfTwo
    <3>3. live_count + 1 \in Nat /\ m + 1 < live_count + 1 /\ m < m + 1
      BY <2>0
    <3>4. 2^(live_count + 1) \in Nat /\ 2^(m + 1) < 2^(live_count + 1) /\ 2^m < 2^(m + 1)
      BY <2>0, <3>3, PowersGrow, PowerOfTwo
    <3>5. (2 * 2^m) % 2^Width(live_count) = 2^(m + 1)
      BY <3>1, <3>2, <3>4, SmallMod
    <3>6. "BV_BINARY" # "BV_ONE_HOT"
      OBVIOUS
    <3>7. CounterIncr(2^m) = (2 * 2^m) % 2^Width(live_count)
      BY <2>2, <3>6, Zenon DEF CounterIncr
    <3> QED
      BY <2>2, <3>2, <3>4, <3>5, <3>7 DEF Val
  <2>3. CASE opts.encoding = "INTEGER"
    <3>1. "BV_BINARY" # "INTEGER" /\ "BV_ONE_HOT" # "INTEGER"
      OBVIOUS
    <3>2. CounterIncr(m) = m + 1
      BY <2>3, <3>1, Zenon DEF CounterIncr
    <3> QED
      BY <2>0, <2>3, <3>2 DEF Val
  <2> QED
    BY <2>1, <2>2, <2>3 DEF OptionType
<1> QED
  BY <1>1, <1>2


-----------------------------------------------------------------------------
(* Fair runs as cycles.                                                    *)

\* The parts of a system stay within its states.
LEMMA SystemParts ==
  ASSUME sys \in Systems
  PROVE  /\ sys.trans \in SUBSET (States \X States)
         /\ sys.init \in SUBSET States
         /\ \A s : Successors(sys, s) \in SUBSET States
<1>1. sys.trans \in SUBSET (States \X States) /\ sys.init \in SUBSET States
  BY LivenessSystemsAssumption DEF SystemType
<1> QED
  BY <1>1, SuccessorIsStep

\* The closure holds the states it starts from, and what follows its states.
LEMMA ClosureHolds ==
  ASSUME sys \in Systems, NEW X \in SUBSET States
  PROVE  /\ X \subseteq Closure(sys, X) /\ Closure(sys, X) \subseteq States
         /\ \A e \in sys.trans : e[1] \in Closure(sys, X) => e[2] \in Closure(sys, X)
<1>1. ASSUME NEW e \in sys.trans, e[1] \in Closure(sys, X)
      PROVE  e[2] \in Closure(sys, X)
  <2>1. e[2] \in States
    BY SystemParts
  <2> QED
    BY <1>1, <2>1 DEF Closure
<1> QED
  BY <1>1 DEF Closure

\* It holds the closure of its subsets.
LEMMA ClosureLeast ==
  ASSUME sys \in Systems, NEW X \in SUBSET States, NEW Y, Y \subseteq Closure(sys, X)
  PROVE  Closure(sys, Y) \subseteq Closure(sys, X)
<1>1. /\ Closure(sys, X) \in SUBSET States
      /\ \A e \in sys.trans : e[1] \in Closure(sys, X) => e[2] \in Closure(sys, X)
  BY ClosureHolds
<1> HIDE DEF Closure
<1> SUFFICES ASSUME NEW s \in Closure(sys, Y)
             PROVE  s \in Closure(sys, X)
  OBVIOUS
<1>2. \A C \in SUBSET States :
        Y \subseteq C /\ (\A e \in sys.trans : e[1] \in C => e[2] \in C) => s \in C
  BY DEF Closure
<1> QED
  BY <1>1, <1>2

\* What a successor of s reaches, s reaches.
LEMMA SuccessorsClosed ==
  ASSUME sys \in Systems, NEW X \in SUBSET States, NEW s \in Closure(sys, X)
  PROVE  Closure(sys, Successors(sys, s)) \subseteq Closure(sys, X)
<1>1. ASSUME NEW t \in Successors(sys, s)
      PROVE  t \in Closure(sys, X)
  <2>1. <<s, t>> \in sys.trans
    BY SuccessorIsStep
  <2>2. <<s, t>>[1] = s /\ <<s, t>>[2] = t
    OBVIOUS
  <2> QED
    BY <2>1, <2>2, ClosureHolds
<1> QED
  BY <1>1, ClosureLeast

\* A fair run gives a cycle: from s the conditions hold at states u, each on a
\* way from s back to s.
LEMMA FairCycle ==
  ASSUME sys \in Systems, FairRun(sys)
  PROVE  \E s \in Closure(sys, sys.init) :
           /\ s \in Closure(sys, Successors(sys, s))
           /\ \A J \in sys.justice : \E u \in J :
                /\ u \in Closure(sys, sys.init)
                /\ u \in Closure(sys, Successors(sys, s))
                /\ s \in Closure(sys, Successors(sys, u))
                /\ u \in Closure(sys, Successors(sys, u))
<1> DEFINE after(t) == Closure(sys, Successors(sys, t))
<1>1. PICK s \in Closure(sys, sys.init) :
        /\ s \in after(s)
        /\ \A J \in sys.justice : \E u \in J \cap after(s) : s = u \/ s \in after(u)
  BY DEF FairRun
<1> HIDE DEF after
<1>2. ASSUME NEW J \in sys.justice
      PROVE  \E u \in J : /\ u \in Closure(sys, sys.init) /\ u \in after(s)
                          /\ s \in after(u) /\ u \in after(u)
  <2>1. PICK u \in J \cap after(s) : s = u \/ s \in after(u)
    BY <1>1
  <2>2. after(s) \subseteq Closure(sys, sys.init)
    BY SystemParts, SuccessorsClosed DEF after
  <2>3. s \in after(u)
    BY <1>1, <2>1
  <2>4. after(s) \subseteq after(u)
    BY <2>3, SystemParts, SuccessorsClosed DEF after
  <2> QED
    BY <2>1, <2>2, <2>3, <2>4
<1> QED
  BY <1>1, <1>2 DEF after

\* A path without repetitions.
LEMMA DistinctStates ==
  ASSUME IsFiniteSet(States), NEW n \in Nat, NEW p \in [0..n -> States],
         \A j, l \in 0..n : j < l => p[j] # p[l]
  PROVE  n < Cardinality(States)
<1>1. Cardinality(States) \in Nat
  BY FS_CardinalityType
<1>2. IsFiniteSet(0..n) /\ Cardinality(0..n) = n + 1
  <2>1. 0 \in Int /\ n \in Int /\ ~(0 > n) /\ n - 0 + 1 = n + 1
    OBVIOUS
  <2> QED
    BY <2>1, FS_Interval
<1>3. ASSUME Cardinality(States) < n + 1
      PROVE  FALSE
  <2>1. Cardinality(States) < Cardinality(0..n)
    BY <1>2, <1>3
  <2>2. PICK x, y \in 0..n : x # y /\ p[x] = p[y]
    BY <1>2, <2>1, FS_PigeonHole
  <2>3. x < y \/ y < x
    BY <2>2
  <2> QED
    BY <2>2, <2>3
<1> QED
  BY <1>1, <1>3

\* Ways within the closure of X are shorter than the number of states.
LEMMA ShortWay ==
  ASSUME sys \in Systems, IsFiniteSet(States), NEW X \in SUBSET States,
         NEW s \in Closure(sys, X)
  PROVE  \E n \in Nat : /\ n < Cardinality(States)
                       /\ \E p \in TS!Paths(sys, n) : p[0] \in X /\ p[n] = s
<1>1. s \in States
  BY ClosureHolds
<1>2. TS!Closes(sys, X, s)
  BY DEF Closure, TS!Closes
<1>3. sys.trans \subseteq States \X States
  BY SystemParts
<1>4. PICK n \in Nat : \E p \in TS!Paths(sys, n) :
        /\ p[0] \in X /\ p[n] = s
        /\ \A j, l \in 0..n : j < l => p[j] # p[l]
  BY <1>1, <1>2, <1>3, TS!DirectWay
<1>5. PICK p \in TS!Paths(sys, n) :
        /\ p[0] \in X /\ p[n] = s
        /\ \A j, l \in 0..n : j < l => p[j] # p[l]
  BY <1>4
<1>6. p \in [0..n -> States]
  BY DEF TS!Paths
<1>7. n < Cardinality(States)
  BY <1>5, <1>6, DistinctStates
<1> QED
  BY <1>5, <1>7

\* A way is followed step by step within the system.
LEMMA WayStep ==
  ASSUME sys \in Systems, NEW n \in Nat, NEW p \in TS!Paths(sys, n),
         NEW k \in 0..n, k + 1 \in 0..n
  PROVE  p[k + 1] \in Successors(sys, p[k])
<1>1. <<p[k], p[k + 1]>> \in sys.trans
  BY DEF TS!Paths
<1>2. <<p[k], p[k + 1]>>[1] = p[k] /\ <<p[k], p[k + 1]>>[2] = p[k + 1]
  OBVIOUS
<1> QED
  BY <1>1, <1>2 DEF Successors

\* What is in the closure of the successors of u is in that of one of them.
LEMMA WayCloses ==
  ASSUME sys \in Systems, NEW u, NEW s \in Closure(sys, Successors(sys, u))
  PROVE  \E t \in Successors(sys, u) : s \in Closure(sys, {t})
<1> DEFINE C == { v \in States : \E t \in Successors(sys, u) : v \in Closure(sys, {t}) }
<1>1. Successors(sys, u) \subseteq States
  BY SystemParts
<1>2. Successors(sys, u) \subseteq C
  <2>1. \A t \in Successors(sys, u) : t \in Closure(sys, {t})
    BY <1>1, ClosureHolds
  <2> QED
    BY <1>1, <2>1
<1>3. \A e \in sys.trans : e[1] \in C => e[2] \in C
  <2> SUFFICES ASSUME NEW e \in sys.trans, e[1] \in C
               PROVE  e[2] \in C
    OBVIOUS
  <2>1. PICK t \in Successors(sys, u) : e[1] \in Closure(sys, {t})
    OBVIOUS
  <2>2. e[2] \in Closure(sys, {t}) /\ e[2] \in States
    BY <1>1, <2>1, ClosureHolds
  <2> QED
    BY <2>2
<1>4. C \in SUBSET States
  OBVIOUS
<1> HIDE DEF C
<1>5. s \in C
  BY <1>2, <1>3, <1>4 DEF Closure
<1> QED
  BY <1>5 DEF C

-----------------------------------------------------------------------------
(* What the system with the counter reaches.                               *)

\* f[k] holds the states of the instrumented system after k steps or fewer.
CounterSets(f, n) ==
  /\ f[0] = InstrumentedInit
  /\ \A k \in 0..n : k + 1 \in 0..n =>
       f[k + 1] = UNION { {x} \cup InstrumentTs(x) : x \in f[k] }

\* They are what the reachability of the safety prover computes.
LEMMA CounterReached ==
  ASSUME NEW n \in Nat
  PROVE  \E f : CounterSets(f, n) /\ f[n] = Reached(InstrumentedInit, InstrumentTs, n)
<1> DEFINE Grow(R) == UNION { {x} \cup InstrumentTs(x) : x \in R }
           Defines(f, m) ==
             f = [k \in 0..m |-> IF k = 0 THEN InstrumentedInit ELSE Grow(f[k - 1])]
           T == { m \in Nat : \E f : Defines(f, m) }
           reached == CHOOSE f : Defines(f, n)
<1>1. Reached(InstrumentedInit, InstrumentTs, n) = reached[n]
  BY DEF Reached
<1>2. n \in T
  <2> HIDE DEF Grow
  <2>1. 0 \in T
    <3>1. Defines([k \in 0..0 |-> InstrumentedInit], 0)
      OBVIOUS
    <3> QED
      BY <3>1
  <2>2. ASSUME NEW m \in Nat, m \in T
        PROVE  m + 1 \in T
    <3>1. PICK f : Defines(f, m)
      BY <2>2
    <3> DEFINE g == [k \in 0..(m + 1) |-> IF k <= m THEN f[k] ELSE Grow(f[m])]
    <3>2. \A k \in 0..(m + 1) : g[k] = IF k = 0 THEN InstrumentedInit ELSE Grow(g[k - 1])
      <4> SUFFICES ASSUME NEW k \in 0..(m + 1)
                   PROVE  g[k] = IF k = 0 THEN InstrumentedInit ELSE Grow(g[k - 1])
        OBVIOUS
      <4>1. CASE k = 0
        <5>1. f[0] = InstrumentedInit
          BY <3>1
        <5> QED
          BY <4>1, <5>1
      <4>2. CASE k # 0 /\ k <= m
        <5>1. k \in 0..m /\ k - 1 \in 0..(m + 1) /\ k - 1 <= m
          BY <4>2
        <5>2. f[k] = Grow(f[k - 1])
          BY <3>1, <4>2, <5>1
        <5>3. g[k] = f[k] /\ g[k - 1] = f[k - 1]
          BY <4>2, <5>1
        <5> QED
          BY <4>2, <5>2, <5>3
      <4>3. CASE k = m + 1
        <5>1. g[m] = f[m] /\ g[m + 1] = Grow(f[m]) /\ (m + 1) - 1 = m /\ m + 1 # 0
          OBVIOUS
        <5> QED
          BY <4>3, <5>1
      <4> QED
        BY <4>1, <4>2, <4>3
    <3>3. g = [k \in 0..(m + 1) |-> g[k]]
      OBVIOUS
    <3> HIDE DEF g
    <3>4. Defines(g, m + 1)
      BY <3>2, <3>3
    <3>5. m + 1 \in Nat
      OBVIOUS
    <3> HIDE DEF Defines
    <3> QED
      BY <3>4, <3>5
  <2> HIDE DEF T
  <2>3. Nat \subseteq T
    BY <2>1, <2>2, TS!NatSetInduction
  <2> QED
    BY <2>3
<1>3. Defines(reached, n)
  <2> HIDE DEF Defines
  <2> QED
    BY <1>2
<1> HIDE DEF reached
<1>4. reached[0] = InstrumentedInit
  BY <1>3
<1>5. ASSUME NEW k \in 0..n, k + 1 \in 0..n
      PROVE  reached[k + 1] = Grow(reached[k])
  <2>1. k + 1 # 0 /\ (k + 1) - 1 = k
    OBVIOUS
  <2> HIDE DEF Grow
  <2> QED
    BY <1>3, <1>5, <2>1
<1> QED
  BY <1>1, <1>4, <1>5 DEF CounterSets

\* Time k sees a state s that was reached with m counted steps or more, and
\* nothing so far has counted to the target.
CountedTo(f, k, s, m) ==
  \E x \in f[k] : x.state = s /\ \E c \in m..live_count - 1 : x.counter = Val(c)

\* What was reached stays reached.
LEMMA CountStays ==
  ASSUME NEW f, NEW n \in Nat, CounterSets(f, n), NEW k \in 0..n, k + 1 \in 0..n
  PROVE  f[k] \subseteq f[k + 1]
BY DEF CounterSets

\* The sets of an earlier time lie in those of a later one.
LEMMA CountWaits ==
  ASSUME NEW f, NEW n \in Nat, CounterSets(f, n), NEW j \in 0..n, NEW k \in j..n
  PROVE  f[j] \subseteq f[k]
<1> DEFINE T == { d \in Nat : f[j] \subseteq f[j + d] }
<1>1. 0 \in T
  <2>1. j + 0 = j
    OBVIOUS
  <2> QED
    BY <2>1
<1>2. ASSUME NEW d \in 0..(n - j), d \in T, d + 1 \in 0..(n - j)
      PROVE  d + 1 \in T
  <2>1. j + d \in 0..n /\ (j + d) + 1 \in 0..n /\ (j + d) + 1 = j + (d + 1) /\ d + 1 \in Nat
    BY <1>2
  <2>2. f[j + d] \subseteq f[(j + d) + 1]
    BY <2>1, CountStays
  <2> QED
    BY <1>2, <2>1, <2>2
<1>3. 0..(n - j) \subseteq T
  <2>1. n - j \in Nat
    OBVIOUS
  <2> HIDE DEF T
  <2> QED
    BY <1>1, <1>2, <2>1, TS!IntervalInduction
<1>4. k - j \in 0..(n - j) /\ j + (k - j) = k
  OBVIOUS
<1> QED
  BY <1>3, <1>4

\* A step from a state counted to m, where the target is never met.
LEMMA CountStep ==
  ASSUME opts \in OptionType, live_count \in Nat \ {0},
         NEW f, NEW n \in Nat, CounterSets(f, n),
         \A k \in 0..n : \A x \in f[k] : ~CountReached(x),
         NEW k \in 0..n, k + 1 \in 0..n, NEW s, NEW m \in Nat, CountedTo(f, k, s, m),
         NEW t \in Successors(sys, s)
  PROVE  /\ CountedTo(f, k + 1, t, m)
         /\ s \in JusticeProp => CountedTo(f, k + 1, t, m + 1)
<1>1. PICK x \in f[k] : x.state = s /\ \E c \in m..live_count - 1 : x.counter = Val(c)
  BY DEF CountedTo
<1>2. PICK c \in m..live_count - 1 : x.counter = Val(c)
  BY <1>1
<1> DEFINE v == IF s \in JusticeProp THEN CounterIncr(x.counter) ELSE x.counter
           y == [state |-> t, counter |-> v]
<1>3. y \in InstrumentTs(x)
  BY <1>1 DEF InstrumentTs
<1>4. y \in f[k + 1] /\ y.state = t /\ y.counter = v
  BY <1>3 DEF CounterSets
<1>5. c \in 0..live_count - 1 /\ c + 1 \in 0..live_count
  OBVIOUS
<1>6. CASE s \in JusticeProp
  <2>1. y.counter = Val(c + 1)
    BY <1>2, <1>4, <1>5, <1>6, CounterCounts
  <2>2. c + 1 # live_count
    <3>1. y.counter # Val(live_count)
      BY <1>4, CounterCounts DEF CountReached
    <3> QED
      BY <2>1, <3>1
  <2>3. c + 1 \in m..live_count - 1 /\ c + 1 \in (m + 1)..live_count - 1
    BY <1>5, <2>2
  <2> HIDE DEF y, v
  <2> QED
    BY <1>4, <2>1, <2>3 DEF CountedTo
<1>7. CASE s \notin JusticeProp
  <2>1. y.counter = Val(c)
    BY <1>2, <1>4, <1>7
  <2> HIDE DEF y, v
  <2> QED
    BY <1>4, <1>7, <2>1 DEF CountedTo
<1> QED
  BY <1>6, <1>7

\* A way of d steps is followed in d steps, and the count does not fall.
LEMMA CountWay ==
  ASSUME sys \in Systems, opts \in OptionType, live_count \in Nat \ {0},
         NEW f, NEW n \in Nat, CounterSets(f, n),
         \A k \in 0..n : \A x \in f[k] : ~CountReached(x),
         NEW k \in 0..n, NEW d \in Nat, k + d \in 0..n, NEW p \in TS!Paths(sys, d),
         NEW m \in Nat, CountedTo(f, k, p[0], m)
  PROVE  CountedTo(f, k + d, p[d], m)
<1> DEFINE T == { i \in Nat : CountedTo(f, k + i, p[i], m) }
<1>1. 0 \in T
  <2>1. k + 0 = k
    OBVIOUS
  <2> QED
    BY <2>1
<1>2. ASSUME NEW i \in 0..d, i \in T, i + 1 \in 0..d
      PROVE  i + 1 \in T
  <2>1. k + i \in 0..n /\ (k + i) + 1 \in 0..n /\ (k + i) + 1 = k + (i + 1) /\ i + 1 \in Nat
    BY <1>2
  <2>2. p[i + 1] \in Successors(sys, p[i])
    BY <1>2, WayStep
  <2>3. CountedTo(f, k + i, p[i], m)
    BY <1>2
  <2>4. CountedTo(f, (k + i) + 1, p[i + 1], m)
    BY <2>1, <2>2, <2>3, CountStep
  <2> QED
    BY <2>1, <2>4
<1>3. 0..d \subseteq T
  <2> HIDE DEF T
  <2> QED
    BY <1>1, <1>2, TS!IntervalInduction
<1> QED
  BY <1>3


\* What was counted by time j is counted by any later time.
LEMMA CountedLater ==
  ASSUME NEW f, NEW n \in Nat, CounterSets(f, n), NEW j \in 0..n, NEW k \in j..n,
         NEW s, NEW m, CountedTo(f, j, s, m)
  PROVE  CountedTo(f, k, s, m)
<1>1. f[j] \subseteq f[k]
  BY CountWaits
<1> QED
  BY <1>1 DEF CountedTo

\* Rounds of N steps.
LEMMA RoundsGrow ==
  ASSUME NEW N \in Nat, NEW c \in Nat, NEW r \in 0..c
  PROVE  /\ r * N \in 0..c * N
         /\ (r + 1) * N = r * N + N
<1>1. r * N \in Nat /\ c * N \in Nat /\ (r + 1) * N = r * N + N
  OBVIOUS
<1> DEFINE d == c - r
<1>2. d \in Nat /\ c = r + d
  OBVIOUS
<1> HIDE DEF d
<1>3. d * N \in Nat /\ c * N = r * N + d * N
  BY <1>2
<1> QED
  BY <1>1, <1>3

\* With a fair run every round meets the condition once more, so that the
\* counter arrives at its target in the steps the safety prover looks at.
LEMMA CounterTrue ==
  ASSUME sys \in Systems, opts \in OptionType, live_count \in Nat \ {0},
         IsFiniteSet(States), ~(Cardinality(sys.justice) > 1), NeverReached
  PROVE  ~FairRun(sys)
<1> SUFFICES ASSUME FairRun(sys)
             PROVE  FALSE
  OBVIOUS
<1> DEFINE N == Cardinality(States)
           n == (live_count + 1) * N
<1>1. N \in Nat /\ n \in Nat
  BY FS_CardinalityType
<1>2. PICK f : CounterSets(f, n) /\ f[n] = Reached(InstrumentedInit, InstrumentTs, n)
  BY <1>1, CounterReached
<1>3. \A k \in 0..n : \A x \in f[k] : ~CountReached(x)
  <2>1. \A x \in f[n] : ~CountReached(x)
    BY <1>2 DEF NeverReached
  <2> SUFFICES ASSUME NEW k \in 0..n
               PROVE  f[k] \subseteq f[n]
    BY <2>1
  <2>2. n \in k..n
    BY <1>1
  <2> HIDE DEF n
  <2> QED
    BY <1>1, <1>2, <2>2, CountWaits
<1>4. PICK u \in JusticeProp :
        u \in Closure(sys, sys.init) /\ u \in Closure(sys, Successors(sys, u))
  <2>1. JusticeProp \in sys.justice
    BY JusticeAssumption DEF JusticeProp
  <2> QED
    BY <2>1, FairCycle
<1> HIDE DEF N, n
<1>5. PICK a \in Nat : a < N /\ \E p \in TS!Paths(sys, a) : p[0] \in sys.init /\ p[a] = u
  BY <1>4, SystemParts, ShortWay DEF N
<1>6. PICK p \in TS!Paths(sys, a) : p[0] \in sys.init /\ p[a] = u
  BY <1>5
<1>7. PICK b \in Nat : /\ b < N
                       /\ \E q \in TS!Paths(sys, b) : q[0] \in Successors(sys, u) /\ q[b] = u
  BY <1>4, SystemParts, ShortWay DEF N
<1>8. PICK q \in TS!Paths(sys, b) : q[0] \in Successors(sys, u) /\ q[b] = u
  BY <1>7
<1> DEFINE T == { r \in Nat : CountedTo(f, (r + 1) * N, u, r) }
<1>9. 0 \in T
  <2>1. CountedTo(f, 0, p[0], 0)
    <3> DEFINE x == [state |-> p[0], counter |-> CounterInit]
    <3>1. x \in f[0]
      BY <1>2, <1>6 DEF CounterSets, InstrumentedInit
    <3>2. x.state = p[0] /\ x.counter = Val(0) /\ 0 \in 0..live_count - 1
      BY CounterCounts
    <3> HIDE DEF x
    <3> QED
      BY <3>1, <3>2 DEF CountedTo
  <2>2. 0 \in 0..n /\ 0 + a = a /\ (0 + 1) * N = N /\ N \in 0..n /\ a \in 0..n /\ N \in a..n
    <3>1. 0 \in 0..live_count /\ live_count \in Nat /\ live_count + 1 \in Nat
      OBVIOUS
    <3>2. (0 + 1) * N = N
      BY <1>1
    <3>3. 1 \in 0..(live_count + 1)
      OBVIOUS
    <3>4. 1 * N \in 0..(live_count + 1) * N
      BY <1>1, <3>1, <3>3, RoundsGrow
    <3>5. N \in 0..n
      BY <1>1, <3>4 DEF n
    <3> QED
      BY <1>1, <1>5, <3>2, <3>5
  <2>3. CountedTo(f, 0 + a, p[a], 0)
    BY <1>1, <1>2, <1>3, <2>1, <2>2, CountWay
  <2>4. CountedTo(f, N, u, 0)
    BY <1>1, <1>2, <1>6, <2>2, <2>3, CountedLater
  <2> QED
    BY <2>2, <2>4
<1>10. ASSUME NEW r \in 0..live_count, r \in T, r + 1 \in 0..live_count
       PROVE  r + 1 \in T
  <2> DEFINE k == (r + 1) * N
             l == ((r + 1) + 1) * N
  <2>1. k \in Nat /\ l \in 0..n /\ l = k + N /\ r + 1 \in Nat
    <3>1. r + 1 \in 0..(live_count + 1) /\ (r + 1) + 1 \in 0..(live_count + 1)
          /\ live_count + 1 \in Nat
      BY <1>10
    <3> QED
      BY <1>1, <3>1, RoundsGrow DEF n
  <2>2. CountedTo(f, k, u, r)
    BY <1>10
  <2> HIDE DEF k, l
  <2>3. /\ k \in 0..n /\ k + 1 \in 0..n
        /\ (k + 1) + b \in 0..n /\ l \in ((k + 1) + b)..n
    BY <1>1, <1>7, <2>1
  <2>4. CountedTo(f, k + 1, q[0], r + 1)
    BY <1>1, <1>2, <1>3, <1>8, <1>10, <2>2, <2>3, CountStep
  <2>5. CountedTo(f, (k + 1) + b, q[b], r + 1)
    BY <1>1, <1>2, <1>3, <2>1, <2>3, <2>4, CountWay
  <2>6. CountedTo(f, l, u, r + 1)
    BY <1>1, <1>2, <1>8, <2>3, <2>5, CountedLater
  <2> QED
    BY <2>1, <2>6 DEF l
<1>11. live_count \in T
  <2>1. live_count \in Nat /\ live_count \in 0..live_count
    OBVIOUS
  <2> HIDE DEF T
  <2> QED
    BY <1>9, <1>10, <2>1, TS!IntervalInduction
<1>12. \E c \in live_count..live_count - 1 : TRUE
  BY <1>11 DEF CountedTo
<1> QED
  BY <1>12


-----------------------------------------------------------------------------
(* What the system translated to safety reaches.                           *)

\* f[k] holds the states of the translated system after k steps or fewer.
SavedSets(f, n) ==
  /\ f[0] = L2SInit
  /\ \A k \in 0..n : k + 1 \in 0..n =>
       f[k + 1] = UNION { {x} \cup L2STranslate(x) : x \in f[k] }

\* They are what the reachability of the safety prover computes.
LEMMA SavedReached ==
  ASSUME NEW n \in Nat
  PROVE  \E f : SavedSets(f, n) /\ f[n] = Reached(L2SInit, L2STranslate, n)
<1> DEFINE Grow(R) == UNION { {x} \cup L2STranslate(x) : x \in R }
           Defines(f, m) ==
             f = [k \in 0..m |-> IF k = 0 THEN L2SInit ELSE Grow(f[k - 1])]
           T == { m \in Nat : \E f : Defines(f, m) }
           reached == CHOOSE f : Defines(f, n)
<1>1. Reached(L2SInit, L2STranslate, n) = reached[n]
  BY DEF Reached
<1>2. n \in T
  <2> HIDE DEF Grow
  <2>1. 0 \in T
    <3>1. Defines([k \in 0..0 |-> L2SInit], 0)
      OBVIOUS
    <3> QED
      BY <3>1
  <2>2. ASSUME NEW m \in Nat, m \in T
        PROVE  m + 1 \in T
    <3>1. PICK f : Defines(f, m)
      BY <2>2
    <3> DEFINE g == [k \in 0..(m + 1) |-> IF k <= m THEN f[k] ELSE Grow(f[m])]
    <3>2. \A k \in 0..(m + 1) : g[k] = IF k = 0 THEN L2SInit ELSE Grow(g[k - 1])
      <4> SUFFICES ASSUME NEW k \in 0..(m + 1)
                   PROVE  g[k] = IF k = 0 THEN L2SInit ELSE Grow(g[k - 1])
        OBVIOUS
      <4>1. CASE k = 0
        <5>1. f[0] = L2SInit
          BY <3>1
        <5> QED
          BY <4>1, <5>1
      <4>2. CASE k # 0 /\ k <= m
        <5>1. k \in 0..m /\ k - 1 \in 0..(m + 1) /\ k - 1 <= m
          BY <4>2
        <5>2. f[k] = Grow(f[k - 1])
          BY <3>1, <4>2, <5>1
        <5>3. g[k] = f[k] /\ g[k - 1] = f[k - 1]
          BY <4>2, <5>1
        <5> QED
          BY <4>2, <5>2, <5>3
      <4>3. CASE k = m + 1
        <5>1. g[m] = f[m] /\ g[m + 1] = Grow(f[m]) /\ (m + 1) - 1 = m /\ m + 1 # 0
          OBVIOUS
        <5> QED
          BY <4>3, <5>1
      <4> QED
        BY <4>1, <4>2, <4>3
    <3>3. g = [k \in 0..(m + 1) |-> g[k]]
      OBVIOUS
    <3> HIDE DEF g
    <3>4. Defines(g, m + 1)
      BY <3>2, <3>3
    <3>5. m + 1 \in Nat
      OBVIOUS
    <3> HIDE DEF Defines
    <3> QED
      BY <3>4, <3>5
  <2> HIDE DEF T
  <2>3. Nat \subseteq T
    BY <2>1, <2>2, TS!NatSetInduction
  <2> QED
    BY <2>3
<1>3. Defines(reached, n)
  <2> HIDE DEF Defines
  <2> QED
    BY <1>2
<1> HIDE DEF reached
<1>4. reached[0] = L2SInit
  BY <1>3
<1>5. ASSUME NEW k \in 0..n, k + 1 \in 0..n
      PROVE  reached[k + 1] = Grow(reached[k])
  <2>1. k + 1 # 0 /\ (k + 1) - 1 = k
    OBVIOUS
  <2> HIDE DEF Grow
  <2> QED
    BY <1>3, <1>5, <2>1
<1> QED
  BY <1>1, <1>4, <1>5 DEF SavedSets


\* The three ways a step keeps what is saved.
LEMMA TranslateGives ==
  ASSUME NEW x, NEW t \in Successors(sys, x.state), NEW save \in BOOLEAN
  PROVE  [ state   |-> t,
           saved   |-> x.saved \/ save,
           loop    |-> IF save /\ ~x.saved THEN sys.all[x.state] ELSE x.loop,
           justice |-> IF save \/ x.saved
                       THEN x.justice \cup { J \in sys.justice : x.state \in J }
                       ELSE x.justice ] \in L2STranslate(x)
<1> DEFINE y(v, b) ==
      [ state   |-> v,
        saved   |-> x.saved \/ b,
        loop    |-> IF b /\ ~x.saved THEN sys.all[x.state] ELSE x.loop,
        justice |-> IF b \/ x.saved
                    THEN x.justice \cup { J \in sys.justice : x.state \in J }
                    ELSE x.justice ]
<1>1. L2STranslate(x) = { y(v, b) : v \in Successors(sys, x.state), b \in BOOLEAN }
  BY DEF L2STranslate
<1>2. y(t, save) \in { y(v, b) : v \in Successors(sys, x.state), b \in BOOLEAN }
  <2> HIDE DEF y
  <2> QED
    OBVIOUS
<1> QED
  BY <1>1, <1>2

\* The sets of an earlier time lie in those of a later one.
LEMMA SavedWaits ==
  ASSUME NEW f, NEW n \in Nat, SavedSets(f, n), NEW j \in 0..n, NEW k \in j..n
  PROVE  f[j] \subseteq f[k]
<1> DEFINE T == { d \in Nat : f[j] \subseteq f[j + d] }
<1>1. 0 \in T
  <2>1. j + 0 = j
    OBVIOUS
  <2> QED
    BY <2>1
<1>2. ASSUME NEW d \in 0..(n - j), d \in T, d + 1 \in 0..(n - j)
      PROVE  d + 1 \in T
  <2>1. j + d \in 0..n /\ (j + d) + 1 \in 0..n /\ (j + d) + 1 = j + (d + 1) /\ d + 1 \in Nat
    BY <1>2
  <2>2. f[j + d] \subseteq f[(j + d) + 1]
    BY <2>1 DEF SavedSets
  <2> QED
    BY <1>2, <2>1, <2>2
<1>3. 0..(n - j) \subseteq T
  <2>1. n - j \in Nat
    OBVIOUS
  <2> HIDE DEF T
  <2> QED
    BY <1>1, <1>2, <2>1, TS!IntervalInduction
<1>4. k - j \in 0..(n - j) /\ j + (k - j) = k
  OBVIOUS
<1> QED
  BY <1>3, <1>4

\* Before anything is saved only the state matters.
NotSaved(f, k, s) == \E x \in f[k] : x.state = s /\ x.saved = FALSE /\ x.justice = {}

\* Time k sees the state t, with l saved and the conditions of K met since.
Collected(f, k, t, l, K) ==
  \E x \in f[k] :
    /\ x.state = t /\ x.saved = TRUE /\ x.loop = l
    /\ K \subseteq x.justice /\ x.justice \subseteq sys.justice

\* A step before anything is saved.
LEMMA NotSavedStep ==
  ASSUME NEW f, NEW n \in Nat, SavedSets(f, n), NEW k \in 0..n, k + 1 \in 0..n,
         NEW s, NotSaved(f, k, s), NEW t \in Successors(sys, s)
  PROVE  NotSaved(f, k + 1, t) /\ Collected(f, k + 1, t, sys.all[s], {})
<1>1. PICK x \in f[k] : x.state = s /\ x.saved = FALSE /\ x.justice = {}
  BY DEF NotSaved
<1>2. \A y \in L2STranslate(x) : y \in f[k + 1]
  BY DEF SavedSets
<1> DEFINE y(save) ==
      [ state   |-> t,
        saved   |-> x.saved \/ save,
        loop    |-> IF save /\ ~x.saved THEN sys.all[x.state] ELSE x.loop,
        justice |-> IF save \/ x.saved
                    THEN x.justice \cup { J \in sys.justice : x.state \in J }
                    ELSE x.justice ]
<1>3. y(FALSE) \in f[k + 1] /\ y(TRUE) \in f[k + 1]
  BY <1>1, <1>2, TranslateGives
<1>4. y(FALSE).state = t /\ y(FALSE).saved = FALSE /\ y(FALSE).justice = {}
  BY <1>1
<1>5. /\ y(TRUE).state = t /\ y(TRUE).saved = TRUE /\ y(TRUE).loop = sys.all[s]
      /\ y(TRUE).justice = { J \in sys.justice : s \in J }
  BY <1>1
<1> HIDE DEF y
<1> QED
  BY <1>3, <1>4, <1>5 DEF NotSaved, Collected

\* A step with l saved: a condition that holds is collected, none is lost.
LEMMA CollectedStep ==
  ASSUME NEW f, NEW n \in Nat, SavedSets(f, n), NEW k \in 0..n, k + 1 \in 0..n,
         NEW s, NEW l, NEW K, Collected(f, k, s, l, K), NEW t \in Successors(sys, s)
  PROVE  Collected(f, k + 1, t, l, K \cup { J \in sys.justice : s \in J })
<1>1. PICK x \in f[k] :
        /\ x.state = s /\ x.saved = TRUE /\ x.loop = l
        /\ K \subseteq x.justice /\ x.justice \subseteq sys.justice
  BY DEF Collected
<1>2. \A y \in L2STranslate(x) : y \in f[k + 1]
  BY DEF SavedSets
<1> DEFINE y ==
      [ state   |-> t,
        saved   |-> x.saved \/ FALSE,
        loop    |-> IF FALSE /\ ~x.saved THEN sys.all[x.state] ELSE x.loop,
        justice |-> IF FALSE \/ x.saved
                    THEN x.justice \cup { J \in sys.justice : x.state \in J }
                    ELSE x.justice ]
<1>3. y \in f[k + 1]
  BY <1>1, <1>2, TranslateGives
<1>4. /\ y.state = t /\ y.saved = TRUE /\ y.loop = l
      /\ y.justice = x.justice \cup { J \in sys.justice : s \in J }
  BY <1>1
<1> HIDE DEF y
<1> QED
  BY <1>1, <1>3, <1>4 DEF Collected

\* A way of d steps before anything is saved.
LEMMA NotSavedWay ==
  ASSUME sys \in Systems, NEW f, NEW n \in Nat, SavedSets(f, n),
         NEW d \in 0..n, NEW p \in TS!Paths(sys, d), NotSaved(f, 0, p[0])
  PROVE  NotSaved(f, d, p[d])
<1> DEFINE T == { i \in Nat : NotSaved(f, i, p[i]) }
<1>1. 0 \in T
  OBVIOUS
<1>2. ASSUME NEW i \in 0..d, i \in T, i + 1 \in 0..d
      PROVE  i + 1 \in T
  <2>1. i \in 0..n /\ i + 1 \in 0..n /\ i + 1 \in Nat
    BY <1>2
  <2>2. p[i + 1] \in Successors(sys, p[i])
    BY <1>2, WayStep
  <2> QED
    BY <1>2, <2>1, <2>2, NotSavedStep
<1>3. 0..d \subseteq T
  <2> HIDE DEF T
  <2> QED
    BY <1>1, <1>2, TS!IntervalInduction
<1> QED
  BY <1>3

\* A way of d steps with l saved.
LEMMA CollectedWay ==
  ASSUME sys \in Systems, NEW f, NEW n \in Nat, SavedSets(f, n),
         NEW k \in 0..n, NEW d \in Nat, k + d \in 0..n, NEW p \in TS!Paths(sys, d),
         NEW l, NEW K, Collected(f, k, p[0], l, K)
  PROVE  Collected(f, k + d, p[d], l, K)
<1> DEFINE T == { i \in Nat : Collected(f, k + i, p[i], l, K) }
<1>1. 0 \in T
  <2>1. k + 0 = k
    OBVIOUS
  <2> QED
    BY <2>1
<1>2. ASSUME NEW i \in 0..d, i \in T, i + 1 \in 0..d
      PROVE  i + 1 \in T
  <2>1. k + i \in 0..n /\ (k + i) + 1 \in 0..n /\ (k + i) + 1 = k + (i + 1) /\ i + 1 \in Nat
    BY <1>2
  <2>2. p[i + 1] \in Successors(sys, p[i])
    BY <1>2, WayStep
  <2>3. Collected(f, k + i, p[i], l, K)
    BY <1>2
  <2>4. Collected(f, (k + i) + 1, p[i + 1], l, K \cup { J \in sys.justice : p[i] \in J })
    BY <2>1, <2>2, <2>3, CollectedStep
  <2>5. Collected(f, (k + i) + 1, p[i + 1], l, K)
    BY <2>4 DEF Collected
  <2> QED
    BY <2>1, <2>5
<1>3. 0..d \subseteq T
  <2> HIDE DEF T
  <2> QED
    BY <1>1, <1>2, TS!IntervalInduction
<1> QED
  BY <1>3

\* With a fair run the translated system collects one condition a round, and
\* then comes back to what it saved.
LEMMA TranslatedTrue ==
  ASSUME sys \in Systems, IsFiniteSet(States), L2SSafe
  PROVE  ~FairRun(sys)
<1> SUFFICES ASSUME FairRun(sys)
             PROVE  FALSE
  OBVIOUS
<1> DEFINE N == Cardinality(States)
           h == Cardinality(sys.justice)
           n == (h + 2) * N
<1>1. N \in Nat /\ h \in Nat /\ n \in Nat /\ IsFiniteSet(sys.justice)
  <2>1. IsFiniteSet(sys.justice)
    BY JusticeAssumption
  <2> QED
    BY <2>1, FS_CardinalityType
<1>2. PICK f : SavedSets(f, n) /\ f[n] = Reached(L2SInit, L2STranslate, n)
  BY <1>1, SavedReached
<1>3. \A x \in f[n] : ~L2SBad(x)
  BY <1>2 DEF L2SSafe
<1> HIDE DEF N, h, n
<1>4. PICK s \in Closure(sys, sys.init) :
        /\ s \in Closure(sys, Successors(sys, s))
        /\ \A J \in sys.justice : \E u \in J :
             /\ u \in Closure(sys, sys.init)
             /\ u \in Closure(sys, Successors(sys, s))
             /\ s \in Closure(sys, Successors(sys, u))
             /\ u \in Closure(sys, Successors(sys, u))
  BY FairCycle
<1> DEFINE l == sys.all[s]
           Round(r) ==
             \E K \in SUBSET sys.justice : \E t \in States :
               /\ Cardinality(K) = r
               /\ s \in Closure(sys, {t})
               /\ Collected(f, (r + 1) * N, t, l, K)
           T == { r \in Nat : Round(r) }
<1>5. \A r \in 0..(h + 2) : r * N \in 0..n /\ (r + 1) * N = r * N + N
  BY <1>1, RoundsGrow DEF n
<1>6. 0 \in T
  <2>1. PICK a \in Nat : a < N /\ \E p \in TS!Paths(sys, a) : p[0] \in sys.init /\ p[a] = s
    BY <1>4, SystemParts, ShortWay DEF N
  <2>2. PICK p \in TS!Paths(sys, a) : p[0] \in sys.init /\ p[a] = s
    BY <2>1
  <2>3. PICK b \in Nat : \E q \in TS!Paths(sys, b) : q[0] \in Successors(sys, s) /\ q[b] = s
    BY <1>4, SystemParts, ShortWay
  <2>4. PICK t \in Successors(sys, s) : s \in Closure(sys, {t})
    BY <1>4, WayCloses
  <2>5. NotSaved(f, 0, p[0])
    <3> DEFINE x == [state |-> p[0], saved |-> FALSE, loop |-> sys.all[p[0]], justice |-> {}]
    <3>1. x \in f[0]
      BY <1>2, <2>2 DEF SavedSets, L2SInit
    <3>2. x.state = p[0] /\ x.saved = FALSE /\ x.justice = {}
      OBVIOUS
    <3> HIDE DEF x
    <3> QED
      BY <3>1, <3>2 DEF NotSaved
  <2>6. /\ (0 + 1) * N = N /\ N \in 0..n /\ a \in 0..n /\ a + 1 \in 0..n /\ N \in (a + 1)..n
    <3>1. 1 \in 0..(h + 2) /\ 1 * N = N /\ (0 + 1) * N = N
      BY <1>1
    <3>2. N \in 0..n
      BY <1>5, <3>1
    <3> QED
      BY <1>1, <2>1, <3>1, <3>2
  <2>7. NotSaved(f, a, s)
    BY <1>1, <1>2, <2>2, <2>5, <2>6, NotSavedWay
  <2>8. Collected(f, a + 1, t, l, {})
    BY <1>1, <1>2, <2>4, <2>6, <2>7, NotSavedStep
  <2>9. Collected(f, N, t, l, {})
    BY <1>1, <1>2, <2>6, <2>8, SavedWaits DEF Collected
  <2>10. t \in States /\ Cardinality({}) = 0
    BY <2>4, SuccessorIsStep, FS_EmptySet
  <2> HIDE DEF l
  <2> QED
    BY <2>4, <2>6, <2>9, <2>10
<1>7. ASSUME NEW r \in 0..h, r \in T, r + 1 \in 0..h
      PROVE  r + 1 \in T
  <2>1. PICK K \in SUBSET sys.justice :
          \E t \in States : /\ Cardinality(K) = r
                            /\ s \in Closure(sys, {t})
                            /\ Collected(f, (r + 1) * N, t, l, K)
    BY <1>7
  <2>2. PICK t \in States : /\ Cardinality(K) = r
                            /\ s \in Closure(sys, {t})
                            /\ Collected(f, (r + 1) * N, t, l, K)
    BY <2>1
  <2>3. PICK J \in sys.justice : J \notin K
    <3>1. K # sys.justice
      BY <1>1, <1>7, <2>2 DEF h
    <3> QED
      BY <3>1
  <2>4. PICK u \in J : u \in Closure(sys, Successors(sys, s)) /\ s \in Closure(sys, Successors(sys, u))
    BY <1>4
  <2>5. u \in Closure(sys, {t})
    BY <2>2, <2>4, SuccessorsClosed
  <2>6. PICK d \in Nat : d < N /\ \E p \in TS!Paths(sys, d) : p[0] \in {t} /\ p[d] = u
    BY <2>5, ShortWay DEF N
  <2>7. PICK p \in TS!Paths(sys, d) : p[0] \in {t} /\ p[d] = u
    BY <2>6
  <2>8. PICK v \in Successors(sys, u) : s \in Closure(sys, {v})
    BY <2>4, WayCloses
  <2> DEFINE k == (r + 1) * N
             e == ((r + 1) + 1) * N
  <2>9. k \in 0..n /\ e \in 0..n /\ e = k + N /\ r + 1 \in Nat
    <3>1. r + 1 \in 0..(h + 2) /\ (r + 1) + 1 \in 0..(h + 2)
      BY <1>1, <1>7
    <3> QED
      BY <1>5, <3>1
  <2>10. Collected(f, k, p[0], l, K)
    BY <2>2, <2>7
  <2> HIDE DEF k, e, l
  <2>11. k + d \in 0..n /\ (k + d) + 1 \in 0..n /\ e \in ((k + d) + 1)..n
    BY <1>1, <2>6, <2>9
  <2>12. Collected(f, k + d, u, l, K)
    BY <1>1, <1>2, <2>7, <2>9, <2>10, <2>11, CollectedWay
  <2>13. Collected(f, (k + d) + 1, v, l, K \cup { I \in sys.justice : u \in I })
    BY <1>1, <1>2, <2>8, <2>11, <2>12, CollectedStep
  <2>14. Collected(f, (k + d) + 1, v, l, K \cup {J})
    BY <2>3, <2>4, <2>13 DEF Collected
  <2>15. Collected(f, e, v, l, K \cup {J})
    BY <1>1, <1>2, <2>11, <2>14, SavedWaits DEF Collected
  <2>16. Cardinality(K \cup {J}) = r + 1
    <3>1. IsFiniteSet(K)
      BY <1>1, FS_Subset
    <3> QED
      BY <2>2, <2>3, <3>1, FS_AddElement
  <2>17. v \in States /\ K \cup {J} \in SUBSET sys.justice
    BY <2>8, SuccessorIsStep
  <2> QED
    BY <2>8, <2>9, <2>15, <2>16, <2>17 DEF e
<1>8. Round(h)
  <2> HIDE DEF Round
  <2>1. 0..h \subseteq T
    <3> HIDE DEF T
    <3> QED
      BY <1>1, <1>6, <1>7, TS!IntervalInduction
  <2> QED
    BY <1>1, <2>1
<1>9. PICK K \in SUBSET sys.justice :
        \E t \in States : /\ Cardinality(K) = h
                          /\ s \in Closure(sys, {t})
                          /\ Collected(f, (h + 1) * N, t, l, K)
  BY <1>8
<1>10. PICK t \in States : /\ Cardinality(K) = h
                           /\ s \in Closure(sys, {t})
                           /\ Collected(f, (h + 1) * N, t, l, K)
  BY <1>9
<1>11. K = sys.justice
  BY <1>1, <1>10, FS_Subset DEF h
<1>12. PICK d \in Nat : d < N /\ \E p \in TS!Paths(sys, d) : p[0] \in {t} /\ p[d] = s
  BY <1>10, ShortWay DEF N
<1>13. PICK p \in TS!Paths(sys, d) : p[0] \in {t} /\ p[d] = s
  BY <1>12
<1> DEFINE k == (h + 1) * N
<1>14. k \in 0..n /\ n = k + N
  <2>1. h + 1 \in 0..(h + 2) /\ (h + 1) + 1 = h + 2
    BY <1>1
  <2>2. k \in 0..n /\ ((h + 1) + 1) * N = k + N
    BY <1>5, <2>1
  <2> QED
    BY <2>1, <2>2 DEF n
<1>15. Collected(f, k, p[0], l, K)
  BY <1>10, <1>13
<1> HIDE DEF k, l
<1>16. k + d \in 0..n /\ n \in (k + d)..n
  BY <1>1, <1>12, <1>14
<1>17. Collected(f, k + d, s, l, K)
  BY <1>1, <1>2, <1>13, <1>14, <1>15, <1>16, CollectedWay
<1>18. Collected(f, n, s, l, K)
  BY <1>1, <1>2, <1>16, <1>17, SavedWaits DEF Collected
<1>19. PICK x \in f[n] :
         /\ x.state = s /\ x.saved = TRUE /\ x.loop = l
         /\ K \subseteq x.justice /\ x.justice \subseteq sys.justice
  BY <1>18 DEF Collected
<1>20. x.justice = sys.justice
  BY <1>11, <1>19
<1> QED
  BY <1>3, <1>19, <1>20 DEF L2SBad, l


\* The inductive invariant: TRUE is only said of a system without a fair run.
TrueInv ==
  /\ opts \in Options /\ live_count \in Nat \ {0}
  /\ result = "TRUE" => ~FairRun(sys)

\* It holds at first,
LEMMA TrueInvInit == Init => TrueInv
<1> SUFFICES ASSUME Init
             PROVE  TrueInv
  OBVIOUS
<1>1. opts \in OptionType
  BY LivenessOptionsAssumption DEF Init
<1> QED
  BY <1>1 DEF Init, TrueInv, OptionType

\* The target of the next round is a positive count again.
LEMMA NextRoundCounts ==
  ASSUME TrueInv, UNCHANGED opts, NextRound
  PROVE  live_count' \in Nat \ {0}
<1>1. opts \in OptionType
  BY LivenessOptionsAssumption DEF TrueInv
<1> QED
  BY <1>1 DEF TrueInv, NextRound, OptionType

\* A step that does not answer TRUE.
LEMMA TrueStays ==
  ASSUME TrueInv, UNCHANGED <<sys, opts>>, live_count' \in Nat \ {0},
         result' = "TRUE" => result = "TRUE"
  PROVE  TrueInv'
<1>1. FairRun(sys)' <=> FairRun(sys)
  <2>1. FairRun(sys') <=> FairRun(sys)
    OBVIOUS
  <2> QED
    BY <2>1 DEF FairRun, Closure, Successors
<1> QED
  BY <1>1 DEF TrueInv

\* Of a system without a fair run TRUE may be said.
LEMMA TrueAnswer ==
  ASSUME TrueInv, UNCHANGED <<sys, opts, live_count>>, ~FairRun(sys)
  PROVE  TrueInv'
<1>1. FairRun(sys)' <=> FairRun(sys)
  <2>1. FairRun(sys') <=> FairRun(sys)
    OBVIOUS
  <2> QED
    BY <2>1 DEF FairRun, Closure, Successors
<1> QED
  BY <1>1 DEF TrueInv

\* and every step keeps it.
LEMMA TrueInvNext ==
  ASSUME IsFiniteSet(States), LassoInv, TrueInv, [Next]_vars
  PROVE  TrueInv'
<1>0. /\ opts \in OptionType /\ live_count \in Nat \ {0} /\ sys \in Systems
      /\ "TRUE" # "FALSE" /\ "TRUE" # "UNKNOWN" /\ "TRUE" # "NONE" /\ "TRUE" # "throws"
  BY LivenessOptionsAssumption DEF TrueInv, LassoInv
<1>1. CASE Construct
  BY <1>0, <1>1, TrueStays DEF Construct
<1>2. CASE \E k \in Bounds : CheckUntil(k)
  BY <1>0, <1>2, TrueStays DEF CheckUntil
<1>3. CASE LoopTest
  BY <1>0, <1>3, TrueStays DEF LoopTest, Return
<1>4. CASE SafetyTrue
  <2>1. UNCHANGED <<sys, opts, live_count>> /\ NeverReached /\ pc = "safety"
    BY <1>4 DEF SafetyTrue
  <2>2. ~(Cardinality(sys.justice) > 1)
    BY <2>1 DEF LassoInv
  <2>3. ~FairRun(sys)
    BY <1>0, <2>1, <2>2, CounterTrue
  <2> QED
    BY <2>1, <2>3, TrueAnswer
<1>5. CASE SafetyUnknown
  BY <1>5, NextRoundCounts, TrueStays DEF SafetyUnknown
<1>6. CASE SafetyFalse
  BY <1>0, <1>6, TrueStays DEF SafetyFalse
<1>7. CASE DetectRevisitInCex
  BY <1>0, <1>7, TrueStays DEF DetectRevisitInCex, Return
<1>8. CASE FindLassoByBmc
  BY <1>0, <1>8, TrueStays DEF FindLassoByBmc, Return
<1>9. CASE NoLassoByBmc
  BY <1>9, NextRoundCounts, TrueStays DEF NoLassoByBmc
<1>10. CASE L2SProve
  <2>1. UNCHANGED <<sys, opts, live_count>>
    BY <1>10 DEF L2SProve
  <2>2. CASE Return("FALSE") \/ Return("UNKNOWN")
    BY <1>0, <2>1, <2>2, TrueStays DEF Return
  <2>3. CASE L2SSafe /\ Return("TRUE")
    <3>1. ~FairRun(sys)
      BY <1>0, <2>3, TranslatedTrue
    <3> QED
      BY <2>1, <3>1, TrueAnswer
  <2> QED
    BY <1>10, <2>2, <2>3 DEF L2SProve
<1>11. CASE UNCHANGED vars
  BY <1>0, <1>11, TrueStays DEF vars
<1> QED
  BY <1>1, <1>2, <1>3, <1>4, <1>5, <1>6, <1>7, <1>8, <1>9, <1>10, <1>11 DEF Next, Step

\* TRUE of k-liveness, with each encoding of its counter, and of the
\* translation to safety means that no run meets the justice conditions
\* infinitely often (kliveness.cpp: check_until and instrument_ts;
\* liveness_to_safety_translator.cpp: translate).
THEOREM LivenessTrueIsSound ==
  ASSUME IsFiniteSet(States)
  PROVE  Spec => []TrueIsSound
<1>1. Init => LassoInv /\ TrueInv
  BY LassoInvInit, TrueInvInit
<1>2. LassoInv /\ TrueInv /\ [Next]_vars => LassoInv' /\ TrueInv'
  BY LassoInvNext, TrueInvNext
<1>3. TrueInv => TrueIsSound
  BY DEF TrueInv, TrueIsSound
<1> QED
  BY <1>1, <1>2, <1>3, PTL DEF Spec

-----------------------------------------------------------------------------
(* Counting past the number of states decides.                             *)

\* The counterexample at hand is a run of the counter that reaches its target.
CountingRun(n) ==
  /\ DOMAIN cex = 0..n
  /\ cex[0] \in InstrumentedInit
  /\ \A t \in 0..n : t + 1 \in 0..n => cex[t + 1] \in InstrumentTs(cex[t])
  /\ \E t \in 0..n : CountReached(cex[t])

\* A step of the counter's run is a step of the system that counts.
LEMMA CounterOf ==
  ASSUME NEW x, NEW y \in InstrumentTs(x)
  PROVE  /\ y.state \in Successors(sys, x.state)
         /\ y.counter = IF x.state \in JusticeProp THEN CounterIncr(x.counter) ELSE x.counter
<1>1. PICK s \in Successors(sys, x.state) :
        y = [ state |-> s,
              counter |-> IF x.state \in JusticeProp THEN CounterIncr(x.counter) ELSE x.counter ]
  BY Zenon DEF InstrumentTs
<1> QED
  BY <1>1

\* Different counts have different values, in each encoding.
LEMMA ValsDiffer ==
  ASSUME NEW a \in Nat, NEW b \in Nat, a < b
  PROVE  Val(a) # Val(b)
<1>1. 2^a \in Nat /\ 2^b \in Nat /\ 2^a < 2^b
  BY PowersGrow, PowerOfTwo
<1> QED
  BY <1>1 DEF Val

\* The counted steps of a run: those at which the counter moves.
LEMMA JusticeStepsOf ==
  ASSUME NEW n \in Nat, CountingRun(n)
  PROVE  /\ JusticeSteps = { t \in 0..n - 1 : cex[t].counter # cex[t + 1].counter }
         /\ IsFiniteSet(JusticeSteps)
<1>1. CexLen = n
  BY IntervalCard DEF CexLen, CountingRun
<1>2. JusticeSteps = { t \in 0..n - 1 : cex[t].counter # cex[t + 1].counter }
  BY <1>1 DEF JusticeSteps
<1>3. JusticeSteps \in SUBSET (0..n)
  BY <1>2
<1>4. IsFiniteSet(0..n)
  BY FS_Interval
<1> QED
  BY <1>2, <1>3, <1>4, FS_Subset

\* The target is counted step by step.
LEMMA EnoughJusticeSteps ==
  ASSUME opts \in OptionType, live_count \in Nat \ {0}, NEW n \in Nat, CountingRun(n)
  PROVE  live_count <= Cardinality(JusticeSteps)
<1> DEFINE D(t) == { j \in JusticeSteps : j < t }
           Counted(t) ==
             \/ live_count <= Cardinality(D(t))
             \/ \E m \in 0..live_count - 1 :
                  cex[t].counter = Val(m) /\ m <= Cardinality(D(t))
           T == { t \in Nat : Counted(t) }
<1>1. ASSUME NEW t
      PROVE  D(t) \subseteq JusticeSteps /\ IsFiniteSet(D(t)) /\ Cardinality(D(t)) \in Nat
             /\ Cardinality(D(t)) <= Cardinality(JusticeSteps)
  <2>1. D(t) \in SUBSET JusticeSteps
    OBVIOUS
  <2> HIDE DEF D
  <2> QED
    BY <2>1, JusticeStepsOf, FS_Subset, FS_CardinalityType
<1>2. 0 \in T
  <2>1. cex[0].counter = Val(0)
    BY CounterCounts DEF CountingRun, InstrumentedInit
  <2>2. 0 \in 0..live_count - 1 /\ 0 <= Cardinality(D(0))
    BY <1>1
  <2> HIDE DEF D
  <2> QED
    BY <2>1, <2>2
<1>3. ASSUME NEW t \in 0..n, t \in T, t + 1 \in 0..n
      PROVE  t + 1 \in T
  <2>1. D(t) \in SUBSET D(t + 1)
    <3>1. \A j \in JusticeSteps : j < t => j < t + 1
      BY JusticeStepsOf
    <3> QED
      BY <3>1
  <2>2. Cardinality(D(t)) <= Cardinality(D(t + 1))
    <3> HIDE DEF D
    <3> QED
      BY <1>1, <2>1, FS_Subset
  <2>3. Cardinality(D(t)) \in Nat /\ Cardinality(D(t + 1)) \in Nat /\ t + 1 \in Nat
    <3> HIDE DEF D
    <3> QED
      BY <1>1
  <2>4. CASE live_count <= Cardinality(D(t))
    <3>1. live_count <= Cardinality(D(t + 1))
      <4> HIDE DEF D
      <4> QED
        BY <2>2, <2>3, <2>4
    <3> HIDE DEF D
    <3> QED
      BY <2>3, <3>1
  <2>5. CASE \E m \in 0..live_count - 1 : cex[t].counter = Val(m) /\ m <= Cardinality(D(t))
    <3>1. PICK m \in 0..live_count - 1 : cex[t].counter = Val(m) /\ m <= Cardinality(D(t))
      BY <2>5
    <3>2. cex[t + 1].counter = IF cex[t].state \in JusticeProp THEN CounterIncr(cex[t].counter)
                               ELSE cex[t].counter
      BY <1>3, CounterOf DEF CountingRun
    <3>3. CASE cex[t].state \notin JusticeProp
      <4>1. cex[t + 1].counter = Val(m)
        BY <3>1, <3>2, <3>3
      <4>2. m <= Cardinality(D(t + 1))
        <5> HIDE DEF D
        <5> QED
          BY <2>2, <2>3, <3>1
      <4> HIDE DEF D
      <4> QED
        BY <2>3, <4>1, <4>2
    <3>4. CASE cex[t].state \in JusticeProp
      <4>1. cex[t + 1].counter = Val(m + 1) /\ Val(m + 1) # Val(m)
        BY <3>1, <3>2, <3>4, CounterCounts
      <4>2. t \in JusticeSteps
        <5>1. t \in 0..n - 1
          BY <1>3
        <5> QED
          BY <3>1, <4>1, <5>1, JusticeStepsOf
      <4>3. D(t + 1) = D(t) \cup {t}
        <5>1. \A j \in JusticeSteps : j < t + 1 <=> j < t \/ j = t
          BY JusticeStepsOf
        <5> QED
          BY <4>2, <5>1
      <4>4. t \notin D(t)
        OBVIOUS
      <4>5. Cardinality(D(t + 1)) = Cardinality(D(t)) + 1
        <5> HIDE DEF D
        <5> QED
          BY <1>1, <4>3, <4>4, FS_AddElement
      <4>6. m + 1 <= Cardinality(D(t + 1)) /\ m + 1 \in Nat
        <5> HIDE DEF D
        <5> QED
          BY <2>3, <3>1, <4>5
      <4>7. CASE m + 1 = live_count
        <5> HIDE DEF D
        <5> QED
          BY <2>3, <4>6, <4>7
      <4>8. CASE m + 1 # live_count
        <5>1. m + 1 \in 0..live_count - 1
          BY <4>8
        <5> HIDE DEF D
        <5> QED
          BY <2>3, <4>1, <4>6, <5>1
      <4> QED
        BY <4>7, <4>8
    <3> QED
      BY <3>3, <3>4
  <2> QED
    BY <1>3, <2>4, <2>5
<1>4. 0..n \subseteq T
  <2> HIDE DEF T
  <2> QED
    BY <1>2, <1>3, TS!IntervalInduction
<1>5. PICK t \in 0..n : cex[t].counter = Val(live_count)
  BY CounterCounts DEF CountingRun, CountReached
<1>6. Counted(t)
  BY <1>4
<1>7. \A m \in 0..live_count - 1 : cex[t].counter # Val(m)
  <2>1. ASSUME NEW m \in 0..live_count - 1
        PROVE  Val(m) # Val(live_count)
    <3>1. m \in Nat /\ m < live_count /\ live_count \in Nat
      OBVIOUS
    <3> QED
      BY <3>1, ValsDiffer
  <2> QED
    BY <1>5, <2>1
<1>8. live_count <= Cardinality(D(t))
  <2> HIDE DEF D
  <2> QED
    BY <1>6, <1>7
<1>9. Cardinality(JusticeSteps) \in Nat
  BY JusticeStepsOf, FS_CardinalityType
<1>10. Cardinality(D(t)) \in Nat /\ Cardinality(D(t)) <= Cardinality(JusticeSteps)
  BY <1>1
<1> HIDE DEF D
<1> QED
  BY <1>8, <1>9, <1>10

\* A run of the counter passes through states of the system.
LEMMA RunStates ==
  ASSUME sys \in Systems, NEW n \in Nat, CountingRun(n)
  PROVE  \A t \in 0..n : cex[t].state \in States
<1>1. cex[0].state \in States
  BY SystemParts DEF CountingRun, InstrumentedInit
<1>2. ASSUME NEW t \in 0..n, t # 0
      PROVE  cex[t].state \in States
  <2> DEFINE u == t - 1
  <2>1. u \in 0..n /\ u + 1 = t /\ u + 1 \in 0..n
    BY <1>2
  <2> HIDE DEF u
  <2>2. cex[u + 1].state \in Successors(sys, cex[u].state)
    BY <2>1, CounterOf DEF CountingRun
  <2> QED
    BY <2>1, <2>2, SystemParts
<1> QED
  BY <1>1, <1>2

\* What the update functions give for the states: revisits are looked for there.
Updates == { sys.updated[s] : s \in States }

\* Finitely many states have finitely many updates.
LEMMA UpdatesFinite ==
  ASSUME IsFiniteSet(States)
  PROVE  IsFiniteSet(Updates) /\ Cardinality(Updates) \in Nat
<1> DEFINE f == [s \in States |-> sys.updated[s]]
<1>1. f \in Surjection(States, Updates)
  BY DEF Surjection, Updates
<1> HIDE DEF f
<1> QED
  BY <1>1, FS_Surjection, FS_CardinalityType

\* Two counted steps from the same state.
LEMMA RevisitForced ==
  ASSUME IsFiniteSet(States), sys \in Systems, NEW n \in Nat, CountingRun(n),
         Cardinality(Updates) < Cardinality(JusticeSteps)
  PROVE  Revisits # {}
<1> DEFINE f == [t \in JusticeSteps |-> sys.updated[cex[t].state]]
<1>1. f \in [JusticeSteps -> Updates]
  <2>1. \A t \in JusticeSteps : cex[t].state \in States
    BY JusticeStepsOf, RunStates
  <2> QED
    BY <2>1 DEF Updates
<1>2. PICK x, y \in JusticeSteps : x # y /\ f[x] = f[y]
  <2> HIDE DEF f
  <2> QED
    BY <1>1, UpdatesFinite, JusticeStepsOf, FS_PigeonHole
<1>3. x < y \/ y < x
  BY <1>2, JusticeStepsOf
<1> QED
  BY <1>2, <1>3 DEF Revisits


\* A repeated step is a lasso that BMC finds in the translated system: save at
\* the first, and end in the state of the first instead of the second.
LEMMA RevisitTranslated ==
  ASSUME sys \in Systems, ~(Cardinality(sys.justice) > 1),
         NEW n \in Nat, CountingRun(n), NEW t \in Revisits
  PROVE  t \in 0..n - 1 /\ L2SCounterexamples(t) # {}
<1>1. PICK u \in JusticeSteps : u < t /\ sys.updated[cex[u].state] = sys.updated[cex[t].state]
  BY DEF Revisits
<1>2. t \in JusticeSteps
  BY DEF Revisits
<1>3. t \in 0..n - 1 /\ u \in 0..n - 1 /\ t \in Nat /\ u \in Nat /\ t # 0
  BY <1>1, <1>2, JusticeStepsOf
<1>4. cex[u].state \in JusticeProp
  <2>1. cex[u].counter # cex[u + 1].counter
    BY JusticeStepsOf
  <2>2. u \in 0..n /\ u + 1 \in 0..n
    BY <1>3
  <2> QED
    BY <2>1, <2>2, CounterOf DEF CountingRun
<1> DEFINE a == cex[u].state
           st(k) == IF k < t THEN cex[k].state ELSE a
           met(k) == { J \in sys.justice : \E j \in u..k - 1 : cex[j].state \in J }
           p == [ k \in 0..t |->
                   [ state   |-> st(k),
                     saved   |-> u < k,
                     loop    |-> IF u < k THEN sys.all[a] ELSE sys.all[cex[0].state],
                     justice |-> IF u < k THEN met(k) ELSE {} ] ]
<1>5. ASSUME NEW k \in 0..t
      PROVE  /\ p[k].state = st(k)
             /\ p[k].saved = (u < k)
             /\ p[k].loop = IF u < k THEN sys.all[a] ELSE sys.all[cex[0].state]
             /\ p[k].justice = IF u < k THEN met(k) ELSE {}
  <2> HIDE DEF st, met, a
  <2> QED
    OBVIOUS
<1>6. p[0] \in L2SInit
  <2>1. cex[0].state \in sys.init
    BY DEF CountingRun, InstrumentedInit
  <2>2. 0 \in 0..t /\ ~(u < 0) /\ 0 < t
    BY <1>3
  <2>3. p[0] = [ state |-> cex[0].state, saved |-> FALSE, loop |-> sys.all[cex[0].state],
                 justice |-> {} ]
    <3>1. st(0) = cex[0].state /\ (u < 0) = FALSE
      BY <2>2
    <3> HIDE DEF st, met, a
    <3> QED
      BY <2>2, <3>1
  <2> HIDE DEF p
  <2> QED
    BY <2>1, <2>3 DEF L2SInit
<1>7. ASSUME NEW k \in 0..t, k + 1 \in 0..t
      PROVE  p[k + 1] \in L2STranslate(p[k])
  <2>1. k < t /\ k \in 0..n /\ k + 1 \in 0..n
    BY <1>3, <1>7
  <2>2. st(k) = cex[k].state
    BY <2>1
  <2>3. cex[k + 1].state \in Successors(sys, cex[k].state)
    BY <2>1, CounterOf DEF CountingRun
  <2>4. st(k + 1) \in Successors(sys, st(k))
    <3>1. CASE k + 1 < t
      BY <2>2, <2>3, <3>1
    <3>2. CASE k + 1 = t
      <4>1. <<cex[k].state, cex[t].state>> \in sys.trans
        BY <2>3, <3>2, SuccessorIsStep
      <4>2. a \in States
        BY <1>3, RunStates
      <4>3. sys.updated[a] = sys.updated[cex[t].state]
        BY <1>1
      <4> DEFINE e == <<cex[k].state, cex[t].state>>
                 d == <<cex[k].state, a>>
      <4>4. e[1] = cex[k].state /\ e[2] = cex[t].state /\ d[1] = cex[k].state /\ d[2] = a
        OBVIOUS
      <4>5. e \in sys.trans /\ sys.updated[a] = sys.updated[e[2]]
        BY <4>1, <4>3, <4>4
      <4> HIDE DEF e, a
      <4>6. <<e[1], a>> \in sys.trans
        BY <4>2, <4>5, FreeAssumption
      <4>7. d \in sys.trans
        BY <4>4, <4>6
      <4>8. a \in Successors(sys, cex[k].state)
        <5> HIDE DEF d
        <5> QED
          BY <4>4, <4>7 DEF Successors
      <4>9. st(k + 1) = a
        BY <3>2
      <4> QED
        BY <2>2, <4>8, <4>9
    <3> QED
      BY <1>3, <1>7, <3>1, <3>2
  <2> DEFINE save == (k = u)
             y == [ state   |-> st(k + 1),
                    saved   |-> p[k].saved \/ save,
                    loop    |-> IF save /\ ~p[k].saved THEN sys.all[p[k].state] ELSE p[k].loop,
                    justice |-> IF save \/ p[k].saved
                                THEN p[k].justice \cup { J \in sys.justice : p[k].state \in J }
                                ELSE p[k].justice ]
  <2>5. y \in L2STranslate(p[k])
    <3>1. st(k + 1) \in Successors(sys, p[k].state)
      <4> HIDE DEF p, st
      <4> QED
        BY <1>5, <2>4
    <3>2. save \in BOOLEAN
      OBVIOUS
    <3> HIDE DEF p, st, save
    <3> QED
      BY <3>1, <3>2, TranslateGives
  <2>6. /\ (u < k + 1) = (u < k \/ k = u)
        /\ k = u => ~(u < k)
    BY <1>3
  <2>7. k = u => st(k) = a /\ met(k + 1) = { J \in sys.justice : a \in J }
    <3> SUFFICES ASSUME k = u
                 PROVE  st(k) = a /\ met(k + 1) = { J \in sys.justice : a \in J }
      OBVIOUS
    <3>1. \A j : j \in u..(k + 1) - 1 <=> j = u
      BY <1>3
    <3> QED
      BY <2>2, <3>1
  <2>8. u < k => met(k + 1) = met(k) \cup { J \in sys.justice : st(k) \in J }
    <3> SUFFICES ASSUME u < k
                 PROVE  met(k + 1) = met(k) \cup { J \in sys.justice : st(k) \in J }
      OBVIOUS
    <3>1. \A j : j \in u..(k + 1) - 1 <=> j \in u..k - 1 \/ j = k
      BY <1>3
    <3> QED
      BY <2>2, <3>1
  <2>9. p[k + 1] = y
    <3>1. CASE k = u
      <4>1. ~p[k].saved /\ save /\ u < k + 1 /\ p[k].justice = {} /\ p[k].state = a
        <5> HIDE DEF p, st, met, a
        <5> QED
          BY <1>5, <2>6, <2>7, <3>1
      <4>2. y = [ state |-> st(k + 1), saved |-> TRUE, loop |-> sys.all[a], justice |-> met(k + 1) ]
        <5>1. p[k].justice \cup { J \in sys.justice : p[k].state \in J } = met(k + 1)
          <6> HIDE DEF p, st, met, a
          <6> QED
            BY <2>7, <3>1, <4>1
        <5> HIDE DEF p, st, met, save, a
        <5> QED
          BY <4>1, <5>1
      <4>3. p[k + 1] = [ state |-> st(k + 1), saved |-> TRUE, loop |-> sys.all[a],
                         justice |-> met(k + 1) ]
        <5>1. (u < k + 1) = TRUE
          BY <4>1
        <5> HIDE DEF st, met, a
        <5> QED
          BY <1>7, <5>1
      <4> HIDE DEF p, y
      <4> QED
        BY <4>2, <4>3
    <3>2. CASE u < k
      <4>1. p[k].saved /\ ~save /\ u < k + 1 /\ p[k].justice = met(k) /\ p[k].state = st(k)
            /\ p[k].loop = sys.all[a]
        <5>1. u < k + 1 /\ k # u
          BY <1>3, <3>2
        <5> HIDE DEF p, st, met, a
        <5> QED
          BY <1>5, <3>2, <5>1
      <4>2. y = [ state |-> st(k + 1), saved |-> TRUE, loop |-> sys.all[a], justice |-> met(k + 1) ]
        <5>1. p[k].justice \cup { J \in sys.justice : p[k].state \in J } = met(k + 1)
          <6> HIDE DEF p, st, met, a
          <6> QED
            BY <2>8, <3>2, <4>1
        <5> HIDE DEF p, st, met, save, a
        <5> QED
          BY <4>1, <5>1
      <4>3. p[k + 1] = [ state |-> st(k + 1), saved |-> TRUE, loop |-> sys.all[a],
                         justice |-> met(k + 1) ]
        <5>1. (u < k + 1) = TRUE
          BY <4>1
        <5> HIDE DEF st, met, a
        <5> QED
          BY <1>7, <5>1
      <4> HIDE DEF p, y
      <4> QED
        BY <4>2, <4>3
    <3>3. CASE k < u
      <4>0. ~(u < k) /\ k # u /\ ~(u < k + 1)
        BY <1>3, <3>3
      <4>1. p[k].saved = FALSE /\ ~save /\ p[k].justice = {} /\ p[k].loop = sys.all[cex[0].state]
        <5> HIDE DEF p, st, met, a
        <5>1. (u < k) = FALSE /\ ~save
          BY <4>0
        <5>2. p[k].saved = (u < k)
          BY <1>5
        <5>3. p[k].justice = {} /\ p[k].loop = sys.all[cex[0].state]
          BY <1>5, <4>0
        <5> QED
          BY <5>1, <5>2, <5>3
      <4>2. y = [ state |-> st(k + 1), saved |-> FALSE, loop |-> sys.all[cex[0].state],
                  justice |-> {} ]
        <5> HIDE DEF p, st, met, save, a
        <5> QED
          BY <4>1
      <4>3. p[k + 1] = [ state |-> st(k + 1), saved |-> FALSE, loop |-> sys.all[cex[0].state],
                         justice |-> {} ]
        <5>1. (u < k + 1) = FALSE
          BY <4>0
        <5> HIDE DEF st, met, a
        <5> QED
          BY <1>7, <5>1
      <4> HIDE DEF p, y
      <4> QED
        BY <4>2, <4>3
    <3>4. k < u \/ k = u \/ u < k
      BY <1>3
    <3> QED
      BY <3>1, <3>2, <3>3, <3>4
  <2> HIDE DEF p, y
  <2> QED
    BY <2>5, <2>9
<1>8. L2SBad(p[t])
  <2>1. t \in 0..t /\ u < t /\ st(t) = a /\ u \in u..t - 1
    BY <1>1, <1>3
  <2>2. met(t) = sys.justice
    <3>1. \A J \in sys.justice : cex[u].state \in J
      BY <1>4, OneCondition
    <3> QED
      BY <2>1, <3>1
  <2>3. p[t].state = a /\ p[t].saved /\ p[t].loop = sys.all[a] /\ p[t].justice = sys.justice
    <3> HIDE DEF p, st, met, a
    <3> QED
      BY <1>5, <2>1, <2>2
  <2> HIDE DEF p, a
  <2> QED
    BY <2>3 DEF L2SBad
<1>9. p \in Runs(L2SInit, L2STranslate, t)
  <2>1. p = [k \in 0..t |-> p[k]]
    OBVIOUS
  <2> HIDE DEF p
  <2> QED
    BY <1>3, <1>6, <1>7, <2>1, StepsAreTranslated
<1> HIDE DEF p
<1> QED
  BY <1>3, <1>8, <1>9 DEF L2SCounterexamples

\* No lasso of m steps in the translated system, said by its steps.
NoLasso(m) ==
  \A p : p[0] \in L2SInit /\ (\A t \in 0..m : t + 1 \in 0..m => p[t + 1] \in L2STranslate(p[t]))
         => ~L2SBad(p[m])

\* No bad state after m steps: BMC finds no counterexample of that length.
LEMMA NoLassoMeans ==
  ASSUME NEW m \in Nat
  PROVE  NoLasso(m) <=> L2SCounterexamples(m) = {}
<1>1. ASSUME NoLasso(m), NEW p \in L2SCounterexamples(m)
      PROVE  FALSE
  <2>1. p \in Runs(L2SInit, L2STranslate, m) /\ L2SBad(p[m])
    BY DEF L2SCounterexamples
  <2>2. p[0] \in L2SInit /\ \A t \in 0..m : t + 1 \in 0..m => p[t + 1] \in L2STranslate(p[t])
    BY <2>1, TranslatedRuns
  <2> QED
    BY <1>1, <2>1, <2>2 DEF NoLasso
<1>2. ASSUME L2SCounterexamples(m) = {}, NEW p, p[0] \in L2SInit,
             \A t \in 0..m : t + 1 \in 0..m => p[t + 1] \in L2STranslate(p[t])
      PROVE  ~L2SBad(p[m])
  <2> DEFINE q == [t \in 0..m |-> p[t]]
  <2>1. q[0] \in L2SInit /\ q[m] = p[m] /\ q = [t \in 0..m |-> q[t]]
    BY <1>2
  <2>2. \A t \in 0..m : t + 1 \in 0..m => q[t + 1] \in L2STranslate(q[t])
    BY <1>2
  <2> HIDE DEF q
  <2>3. q \in Runs(L2SInit, L2STranslate, m)
    BY <2>1, <2>2, StepsAreTranslated
  <2> QED
    BY <1>2, <2>1, <2>3 DEF L2SCounterexamples
<1> QED
  BY <1>1, <1>2 DEF NoLasso

\* The inductive invariant: the counterexample at hand runs the counter of the
\* system at hand, and BMC has looked for lassos up to bmcReached.
DecideInv ==
  /\ opts \in Options /\ live_count \in Nat \ {0}
  /\ pc \in {"revisit", "lockstep"} => \E n \in Nat : CountingRun(n)
  /\ pc = "lockstep" /\ opts.checkLasso /\ live_count # 1 => Revisits = {}
  \* BMC has missed nothing up to the bound it reached.
  /\ opts.cexKind # "single" => \A m \in 0..bmcReached : NoLasso(m)

\* A counterexample of the safety prover is a run that reaches the target.
LEMMA CounterexampleCounts ==
  ASSUME opts \in OptionType, NEW n \in Nat, NEW p \in Counterexamples(n)
  PROVE  \E t \in 0..n : CountReached(p[t])
<1>1. n \in 0..n
  OBVIOUS
<1>2. CASE opts.cexKind = "first"
  <2>1. { t \in 0..n : CountReached(p[t]) } = {n}
    BY <1>2, Zenon DEF Counterexamples
  <2> QED
    BY <2>1
<1>3. CASE opts.cexKind = "single"
  <2>0. "single" # "first"
    OBVIOUS
  <2>1. CountReached(p[n])
    BY <1>3, <2>0, Zenon DEF Counterexamples
  <2> QED
    BY <1>1, <2>1
<1>4. CASE opts.cexKind = "nonminimal"
  <2>0. "nonminimal" # "first" /\ "nonminimal" # "single"
    OBVIOUS
  <2> QED
    BY <1>4, <2>0, Zenon DEF Counterexamples
<1> QED
  BY <1>2, <1>3, <1>4 DEF OptionType

\* It holds at first,
LEMMA DecideInvInit == Init => DecideInv
<1> SUFFICES ASSUME Init
             PROVE  DecideInv
  OBVIOUS
<1>1. opts \in OptionType
  BY LivenessOptionsAssumption DEF Init
<1>2. \A m : m \notin 0..-1
  OBVIOUS
<1> QED
  BY <1>1, <1>2 DEF Init, DecideInv, OptionType

\* A step that leaves the counterexample behind.
LEMMA DecideStays ==
  ASSUME DecideInv, UNCHANGED <<sys, opts>>, live_count' \in Nat \ {0},
         pc' \notin {"revisit", "lockstep"},
         opts.cexKind # "single" => \A m \in 0..bmcReached' : NoLasso(m)
  PROVE  DecideInv'
<1>1. \A m : NoLasso(m)' <=> NoLasso(m)
  BY DEF NoLasso, L2SInit, L2STranslate, L2SBad, Successors
<1> QED
  BY <1>1 DEF DecideInv

\* A step that keeps the counterexample.
LEMMA DecideKeeps ==
  ASSUME DecideInv, UNCHANGED <<sys, opts, live_count, cex, bmcReached>>,
         pc' \in {"revisit", "lockstep"} => pc \in {"revisit", "lockstep"},
         pc' = "lockstep" => pc = "lockstep"
                             \/ (opts.checkLasso /\ live_count # 1 => Revisits = {})
  PROVE  DecideInv'
<1>1. \A m : NoLasso(m)' <=> NoLasso(m)
  BY DEF NoLasso, L2SInit, L2STranslate, L2SBad, Successors
<1>2. InstrumentedInit' = InstrumentedInit /\ CountToVal' = CountToVal
  BY DEF InstrumentedInit, CounterInit, CountToVal
<1>3. \A x : InstrumentTs(x)' = InstrumentTs(x)
  BY DEF InstrumentTs, CounterIncr, Width, JusticeProp, Successors
<1>4. \A n : CountingRun(n)' <=> CountingRun(n)
  BY <1>2, <1>3 DEF CountingRun, CountReached
<1>5. Revisits' = Revisits
  BY DEF Revisits, JusticeSteps, CexLen
<1> QED
  BY <1>1, <1>4, <1>5 DEF DecideInv

\* and every step keeps it.
LEMMA DecideInvNext ==
  ASSUME LassoInv, DecideInv, [Next]_vars
  PROVE  DecideInv'
<1>0. /\ opts \in OptionType /\ live_count \in Nat \ {0} /\ sys \in Systems
      /\ bmcReached \in Int /\ bmcReached >= -1
      /\ opts.cexKind # "single" => \A m \in 0..bmcReached : NoLasso(m)
  BY LivenessOptionsAssumption DEF DecideInv, LassoInv
<1>1. CASE Construct
  BY <1>0, <1>1, DecideStays DEF Construct
<1>2. CASE \E k \in Bounds : CheckUntil(k)
  <2>1. UNCHANGED <<sys, opts, live_count, bmcReached>> /\ pc' \in {"loop", "l2s"}
    BY <1>2 DEF CheckUntil
  <2> QED
    BY <1>0, <2>1, DecideStays
<1>3. CASE LoopTest
  <2>1. UNCHANGED <<sys, opts, live_count, bmcReached>> /\ pc' \in {"idle", "done", "safety"}
    BY <1>3 DEF LoopTest, Return
  <2> QED
    BY <1>0, <2>1, DecideStays
<1>4. CASE SafetyTrue
  <2>1. UNCHANGED <<sys, opts, live_count, bmcReached>> /\ pc' \in {"idle", "done"}
    BY <1>4 DEF SafetyTrue, Return
  <2> QED
    BY <1>0, <2>1, DecideStays
<1>5. CASE SafetyUnknown
  <2>1. UNCHANGED <<sys, opts, bmcReached>> /\ NextRound
    BY <1>5 DEF SafetyUnknown
  <2>2. live_count' \in Nat \ {0} /\ pc' = "loop"
    BY <1>0, <2>1 DEF NextRound, OptionType
  <2> QED
    BY <1>0, <2>1, <2>2, DecideStays
<1>6. CASE SafetyFalse
  <2>1. /\ pc = "safety" /\ pc' = "revisit"
        /\ UNCHANGED <<sys, opts, live_count, bmcReached>>
    BY <1>6 DEF SafetyFalse
  <2>2. PICK n \in 0..bound : cex' \in Counterexamples(n)
    BY <1>6 DEF SafetyFalse
  <2>3. n \in Nat /\ cex' \in Runs(InstrumentedInit, InstrumentTs, n)
    BY <2>2 DEF Counterexamples
  <2>4. /\ DOMAIN cex' = 0..n
        /\ cex'[0] \in InstrumentedInit
        /\ \A t \in 0..n : t + 1 \in 0..n => cex'[t + 1] \in InstrumentTs(cex'[t])
    BY <2>3, InstrumentedRuns
  <2>5. \E t \in 0..n : CountReached(cex'[t])
    BY <1>0, <2>2, <2>3, CounterexampleCounts
  <2>6. InstrumentedInit' = InstrumentedInit /\ CountToVal' = CountToVal
    BY <2>1 DEF InstrumentedInit, CounterInit, CountToVal
  <2>7. \A x : InstrumentTs(x)' = InstrumentTs(x)
    BY <2>1 DEF InstrumentTs, CounterIncr, Width, JusticeProp, Successors
  <2>8. CountingRun(n)'
    BY <2>4, <2>5, <2>6, <2>7 DEF CountingRun, CountReached
  <2>9. \A m : NoLasso(m)' <=> NoLasso(m)
    BY <2>1 DEF NoLasso, L2SInit, L2STranslate, L2SBad, Successors
  <2> QED
    BY <1>0, <2>1, <2>3, <2>8, <2>9 DEF DecideInv
<1>7. CASE DetectRevisitInCex
  <2>1. pc = "revisit" /\ UNCHANGED <<sys, opts, live_count, bmcReached, cex>>
    BY <1>7 DEF DetectRevisitInCex
  <2>2. /\ pc' \in {"done", "error", "lockstep"}
        /\ pc' = "lockstep" => (opts.checkLasso /\ live_count # 1 => Revisits = {})
    <3>1. CASE opts.checkLasso /\ live_count # 1
      <4>1. CASE ~opts.ndebug /\ Cardinality(JusticeSteps) # live_count
        BY <1>7, <3>1, <4>1 DEF DetectRevisitInCex
      <4>2. CASE ~(~opts.ndebug /\ Cardinality(JusticeSteps) # live_count) /\ Revisits # {}
        <5>1. Return("FALSE")
          BY <1>7, <3>1, <4>2 DEF DetectRevisitInCex
        <5> QED
          BY <5>1 DEF Return
      <4>3. CASE ~(~opts.ndebug /\ Cardinality(JusticeSteps) # live_count) /\ Revisits = {}
        BY <1>7, <3>1, <4>3 DEF DetectRevisitInCex
      <4> QED
        BY <4>1, <4>2, <4>3
    <3>2. CASE ~(opts.checkLasso /\ live_count # 1)
      BY <1>7, <3>2 DEF DetectRevisitInCex
    <3> QED
      BY <3>1, <3>2
  <2> QED
    BY <2>1, <2>2, DecideKeeps
<1>8. CASE FindLassoByBmc
  <2>1. UNCHANGED <<sys, opts, live_count, bmcReached>> /\ pc' \in {"idle", "done"}
    BY <1>8 DEF FindLassoByBmc, Return
  <2> QED
    BY <1>0, <2>1, DecideStays
<1>9. CASE NoLassoByBmc
  <2>1. /\ pc = "lockstep" /\ UNCHANGED <<sys, opts>> /\ NextRound
        /\ bmcReached' = IF opts.lockstep /\ CexLen > bmcReached THEN CexLen ELSE bmcReached
        /\ opts.lockstep /\ opts.cexKind # "single" =>
             \A n \in bmcReached + 1..CexLen : L2SCounterexamples(n) = {}
    BY <1>9 DEF NoLassoByBmc
  <2>2. live_count' \in Nat \ {0} /\ pc' = "loop"
    BY <1>0, <2>1 DEF NextRound, OptionType
  <2>3. CexLen \in Nat
    BY <2>1, CexLenNat
  <2>4. ASSUME opts.cexKind # "single", NEW m \in 0..bmcReached'
        PROVE  NoLasso(m)
    <3>1. CASE m <= bmcReached
      BY <1>0, <2>4, <3>1
    <3>2. CASE m > bmcReached
      <4>1. m \in Nat /\ opts.lockstep /\ m \in bmcReached + 1..CexLen
        BY <1>0, <2>1, <2>3, <3>2
      <4> QED
        BY <2>1, <2>4, <4>1, NoLassoMeans
    <3>3. m \in Int
      BY <1>0, <2>1, <2>3
    <3> QED
      BY <1>0, <3>1, <3>2, <3>3
  <2> QED
    BY <2>1, <2>2, <2>4, DecideStays
<1>10. CASE L2SProve
  <2>1. UNCHANGED <<sys, opts, live_count, bmcReached>> /\ pc' \in {"idle", "done"}
    BY <1>10 DEF L2SProve, Return
  <2> QED
    BY <1>0, <2>1, DecideStays
<1>11. CASE UNCHANGED vars
  BY <1>11, DecideKeeps DEF vars
<1> QED
  BY <1>1, <1>2, <1>3, <1>4, <1>5, <1>6, <1>7, <1>8, <1>9, <1>10, <1>11 DEF Next, Step

\* One step: the count goes up only while it is at most the number of updates.
LEMMA CountDecides ==
  ASSUME IsFiniteSet(States), LassoInv, DecideInv, Next,
         live_count' # live_count, pc = "lockstep",
         opts.checkLasso \/ (opts.lockstep /\ opts.cexKind = "first")
  PROVE  live_count <= Cardinality(Updates)
<1>0. /\ opts \in OptionType /\ live_count \in Nat \ {0} /\ sys \in Systems
      /\ bmcReached \in Int /\ bmcReached >= -1
  BY LivenessOptionsAssumption DEF DecideInv, LassoInv
<1>1. NoLassoByBmc
  BY DEF Next, Step, Construct, CheckUntil, LoopTest, SafetyTrue, SafetyUnknown, SafetyFalse,
         DetectRevisitInCex, FindLassoByBmc, L2SProve
<1>2. PICK n \in Nat : CountingRun(n)
  BY DEF DecideInv
<1>3. CexLen = n
  BY <1>2, IntervalCard DEF CexLen, CountingRun
<1>4. live_count <= Cardinality(JusticeSteps) /\ Cardinality(JusticeSteps) \in Nat
  BY <1>0, <1>2, EnoughJusticeSteps, JusticeStepsOf, FS_CardinalityType
<1>5. IsFiniteSet(Updates) /\ Cardinality(Updates) \in Nat
  BY UpdatesFinite
<1> SUFFICES ASSUME Cardinality(Updates) < live_count
             PROVE  FALSE
  BY <1>0, <1>5
<1>6. PICK t : t \in Revisits
  <2>1. Cardinality(Updates) < Cardinality(JusticeSteps)
    BY <1>0, <1>4, <1>5
  <2> QED
    BY <1>0, <1>2, <2>1, RevisitForced
<1>7. CASE opts.checkLasso
  <2>1. live_count = 1
    BY <1>6, <1>7 DEF DecideInv
  <2>2. Cardinality(Updates) = 0
    BY <1>5, <2>1
  <2>3. Updates = {}
    BY <1>5, <2>2, FS_EmptySet
  <2>4. cex[0].state \in States
    BY <1>0, <1>2, RunStates
  <2> QED
    BY <2>3, <2>4 DEF Updates
<1>8. CASE opts.lockstep /\ opts.cexKind = "first"
  <2>1. ~(Cardinality(sys.justice) > 1)
    BY DEF LassoInv
  <2>2. t \in 0..n - 1 /\ L2SCounterexamples(t) # {}
    BY <1>0, <1>2, <1>6, <2>1, RevisitTranslated
  <2>3. t \in Nat /\ ~NoLasso(t)
    BY <2>2, NoLassoMeans
  <2>4. ~(t <= bmcReached)
    BY <1>0, <1>8, <2>3 DEF DecideInv
  <2>5. t \in bmcReached + 1..CexLen
    BY <1>0, <1>3, <2>2, <2>3, <2>4
  <2> QED
    BY <1>1, <1>8, <2>2, <2>5 DEF NoLassoByBmc
<1> QED
  BY <1>7, <1>8

\* k-liveness never counts on from a count above the number of the system's
\* states, if the revisit test or a BMC that looks for a shortest lasso is asked:
\* so long a counterexample meets the justice condition twice in one state, which
\* the test finds in it, or BMC in the translated system (kliveness.cpp:
\* check_until, detect_revisit_in_cex, find_lasso_by_bmc).
THEOREM LivenessEnoughCountsDecide ==
  ASSUME IsFiniteSet(States)
  PROVE  Spec => EnoughCountsDecide
<1> DEFINE Decides ==
      live_count' # live_count /\ pc = "lockstep"
      /\ (opts.checkLasso \/ (opts.lockstep /\ opts.cexKind = "first"))
      => live_count <= Cardinality({ sys.updated[s] : s \in States })
<1>1. Init => LassoInv /\ DecideInv
  BY LassoInvInit, DecideInvInit
<1>2. LassoInv /\ DecideInv /\ [Next]_vars => LassoInv' /\ DecideInv'
  BY LassoInvNext, DecideInvNext
<1>3. LassoInv /\ DecideInv /\ [Next]_vars => [Decides]_vars
  BY CountDecides DEF Updates
<1>4. EnoughCountsDecide <=> [][Decides]_vars
  BY DEF EnoughCountsDecide
<1> HIDE DEF Decides
<1> QED
  BY <1>1, <1>2, <1>3, <1>4, PTL DEF Spec
=============================================================================
