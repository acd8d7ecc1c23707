---------------------------- MODULE EngineProofs ----------------------------
(***************************************************************************)
(* Proofs about the engines that Engines composes - k-induction and the    *)
(* three interpolation engines: their assertions hold, what they prove is  *)
(* true and their invariants are inductive, reached_k_ and the             *)
(* counterexamples are what a prover promises, they decide at the diameter *)
(* of the system, and behind the interface of a prover each of them        *)
(* implements SafetyProver.                                                *)
(***************************************************************************)
EXTENDS Engines, TransSysProofs, SequenceTheorems

-----------------------------------------------------------------------------
(* The queries, in terms of paths.                                         *)

LEMMA SystemParts ==
  ASSUME NEW sy \in Systems
  PROVE  /\ sy.init \subseteq States /\ sy.bad \subseteq States
         /\ sy.trans \subseteq States \X States
BY InterpSystemsAssumption DEF SystemType

\* BackTo is where the paths of that length start.
LEMMA BackToStarts ==
  ASSUME sys.trans \subseteq States \X States, NEW X \in SUBSET States, NEW n \in Nat
  PROVE  BackTo(X, n) = Starts(sys, X, n)
<1> DEFINE A == SUBSET States
           step == [Y \in A |-> Pre(Y)]
           before == CHOOSE before :
             before = [k \in 0..n |-> IF k = 0 THEN X ELSE Pre(before[k - 1])]
<1>1. step \in [A -> A] /\ X \in A
  BY DEF Pre
<1>2. PICK f : f \in [0..n -> A] /\ Recursive(f, n, X, step)
  <2> HIDE DEF step, A
  <2> QED
    BY <1>1, RecursionExists
<1>3. \E g : g = [k \in 0..n |-> IF k = 0 THEN X ELSE Pre(g[k - 1])]
  <2>1. \A k \in 0..n : k # 0 => k - 1 \in 0..n /\ (k - 1) + 1 = k
    OBVIOUS
  <2>2. \A k \in 0..n : k # 0 => f[k] = step[f[k - 1]] /\ f[k - 1] \in A
    BY <1>2, <2>1 DEF Recursive
  <2>3. \A k \in 0..n : k # 0 => f[k] = Pre(f[k - 1])
    BY <2>2
  <2>4. f = [k \in 0..n |-> IF k = 0 THEN X ELSE Pre(f[k - 1])]
    BY <1>2, <2>3 DEF Recursive
  <2> QED
    BY <2>4
<1>4. before = [k \in 0..n |-> IF k = 0 THEN X ELSE Pre(before[k - 1])]
  BY <1>3
<1>5. BackTo(X, n) = before[n]
  BY DEF BackTo
<1> HIDE DEF before
<1>6. before[0] = X
  BY <1>4
<1>7. \A k \in 0..n : k + 1 \in 0..n => before[k + 1] = PreOf(sys, before[k])
  <2> SUFFICES ASSUME NEW k \in 0..n, k + 1 \in 0..n
               PROVE  before[k + 1] = PreOf(sys, before[k])
    OBVIOUS
  <2>1. k + 1 # 0 /\ (k + 1) - 1 = k
    OBVIOUS
  <2>2. before[k + 1] = Pre(before[(k + 1) - 1])
    BY <1>4, <2>1
  <2> QED
    BY <2>1, <2>2 DEF Pre, PreOf
<1>8. \A k \in 0..n : before[k] = Starts(sys, X, k)
  BY <1>6, <1>7, BackwardFunction
<1> QED
  BY <1>5, <1>8

\* ReachedIn of the abstract prover is where they end.
LEMMA ReachedInEnds ==
  ASSUME NEW sy, sy.trans \subseteq States \X States, sy.init \in SUBSET States,
         NEW n \in Nat
  PROVE  Prover!ReachedIn(sy, n) = Ends(sy, sy.init, n)
<1>1. \A Y : Prover!Img(sy, Y) = ImgOf(sy, Y)
  BY DEF Prover!Img, ImgOf
<1>2. Prover!ReachedIn(sy, n) = AfterSteps(sy, n)
  BY <1>1 DEF Prover!ReachedIn, AfterSteps, Prover!Img, ImgOf
<1> QED
  BY <1>2, AfterStepsEnds

LEMMA ViolatedIsCex ==
  ASSUME NEW sy, sy.trans \subseteq States \X States, sy.init \in SUBSET States,
         NEW n \in Nat
  PROVE  Prover!Violated(sy, n) <=> Cexs(sy, n) # {}
<1>1. Prover!ReachedIn(sy, n) = Ends(sy, sy.init, n)
  BY ReachedInEnds
<1>2. \A p \in Paths(sy, n) : p[n] \in States
  BY DEF Paths
<1> QED
  BY <1>1, <1>2 DEF Prover!Violated, Ends, Cexs

LEMMA NoCexIsClear ==
  ASSUME NEW sy, sy.trans \subseteq States \X States, sy.init \in SUBSET States,
         NEW n \in Int
  PROVE  Prover!NoCexUpTo(sy, n) <=> Clear(sy, n)
<1>1. \A k \in 0..n : k \in Nat /\ k <= n
  OBVIOUS
<1>2. \A k \in Nat : k <= n => k \in 0..n
  OBVIOUS
<1>3. \A k \in Nat : Prover!Violated(sy, k) <=> Cexs(sy, k) # {}
  BY ViolatedIsCex
<1> QED
  BY <1>1, <1>2, <1>3 DEF Prover!NoCexUpTo, Clear

-----------------------------------------------------------------------------
(* The part of the invariant the interpolation engines share.              *)

Busy == {"interp", "chain", "forward", "backward"}

\* What an engine that answered TRUE has shown.
Shown ==
  /\ Safe(sys)
  /\ Inductive(sys, invar)
  /\ (opts.engine = "interp" => Total) => invar \cap sys.bad = {}

\* The bounds that are covered, the loop counter, and what the answers mean.
CallInv ==
  /\ sys \in Systems /\ opts \in Options
  /\ reachedK \in Int /\ reachedK >= -1 /\ i \in Nat
  /\ pc \in Busy \cup {"idle", "loop", "done", "failed"}
  /\ Clear(sys, reachedK)
  /\ pc = "loop" => i <= reachedK + 1 /\ result = "NONE"
  /\ pc \in Busy => i = reachedK + 1 /\ reachedK >= 0 /\ result = "NONE"
  /\ pc \in {"idle", "failed"} => result \in {"NONE", "UNKNOWN"}
  /\ pc = "done" => result \in {"TRUE", "FALSE"}
  /\ result = "TRUE" => Shown
  /\ result = "FALSE" => Cexs(sys, reachedK + 1) # {}

\* What a step may do to the interface, with counterexamples as paths.
PromisedStep ==
  \/ UNCHANGED <<sys, reachedK, result>>
  \/ result = "UNKNOWN" /\ result' = "NONE" /\ UNCHANGED <<sys, reachedK>>
  \/ result = "NONE" /\ reachedK' > reachedK /\ Clear(sys, reachedK') /\ UNCHANGED <<sys, result>>
  \/ result = "NONE" /\ result' = "UNKNOWN" /\ UNCHANGED <<sys, reachedK>>
  \/ result = "NONE" /\ Safe(sys) /\ result' = "TRUE" /\ reachedK' >= reachedK /\ UNCHANGED sys
  \/ /\ result = "NONE" /\ reachedK' >= reachedK /\ Clear(sys, reachedK')
     /\ Cexs(sys, reachedK' + 1) # {} /\ result' = "FALSE" /\ UNCHANGED sys
  \/ result = "FALSE" /\ sys' # sys /\ reachedK' = -1 /\ result' = "NONE"

LEMMA WitnessesAreCexs ==
  ASSUME NEW n
  PROVE  Witnesses(n) = Cexs(sys, n)
BY DEF Witnesses, Cexs

\* The actions all engines share keep the invariant and the promises.
LEMMA CallInit ==
  ASSUME EngineInit
  PROVE  CallInv
<1>1. Clear(sys, -1)
  BY ClearNone
<1> QED
  BY <1>1 DEF EngineInit, CallInv, Busy

LEMMA EngineStepKeeps ==
  ASSUME CallInv, EngineStep
  PROVE  CallInv' /\ PromisedStep
<1> USE DEF Busy
<1> sys \in Systems /\ opts \in Options /\ reachedK \in Int /\ reachedK >= -1 /\ i \in Nat
  BY DEF CallInv
<1>1. CASE LoopExit
  BY <1>1 DEF LoopExit, CallInv, PromisedStep
<1>2. CASE StepCovered
  BY <1>2 DEF StepCovered, CallInv, PromisedStep
<1>3. CASE Step0Bad
  <2>1. reachedK = -1 /\ result = "NONE" /\ pc = "loop"
    BY <1>3 DEF Step0Bad, CallInv
  <2>2. Cexs(sys, 0) # {}
    BY <1>3, WitnessesAreCexs DEF Step0Bad, Refuted
  <2>3. Cexs(sys, reachedK + 1) # {}
    BY <2>1, <2>2
  <2>4. /\ UNCHANGED <<sys, opts, reachedK, i, invar>>
        /\ result' = "FALSE" /\ pc' = "done"
    BY <1>3 DEF Step0Bad, Refuted
  <2> QED
    BY <2>1, <2>3, <2>4 DEF CallInv, PromisedStep
<1>4. CASE Step0Good
  <2>1. reachedK = -1 /\ result = "NONE" /\ i = 0
    BY <1>4 DEF Step0Good, CallInv
  <2>2. Clear(sys, 0)
    <3>1. Cexs(sys, 0) = {}
      BY <1>4, WitnessesAreCexs DEF Step0Good
    <3> QED
      BY <3>1, <2>1, ClearNext DEF CallInv
  <2>3. /\ UNCHANGED <<sys, opts, invar, result>>
        /\ reachedK' = 0 /\ i' = i + 1 /\ pc' = "loop"
    BY <1>4 DEF Step0Good, ToNextBound
  <2> QED
    BY <2>1, <2>2, <2>3 DEF CallInv, PromisedStep
<1>5. CASE InterpolatorFails
  BY <1>5 DEF InterpolatorFails, CallInv, PromisedStep
<1> QED
  BY <1>1, <1>2, <1>3, <1>4, <1>5 DEF EngineStep

LEMMA CheckUntilKeeps ==
  ASSUME CallInv, NEW k \in Bounds, CheckUntil(k)
  PROVE  CallInv' /\ PromisedStep
BY DEF CheckUntil, CallInv, Busy, PromisedStep

\* A refined system has no counterexample of the length that was reported.
LEMMA ResetEnvKeeps ==
  ASSUME CallInv, ResetEnv
  PROVE  CallInv' /\ PromisedStep
<1>1. PICK sy \in Systems :
        /\ ~\E p \in Paths(sy, reachedK + 1) : p[0] \in sy.init /\ p[reachedK + 1] \in sy.bad
        /\ sys' = sy
  BY DEF ResetEnv
<1>2. Cexs(sy, reachedK + 1) = {}
  BY <1>1 DEF Cexs
<1>3. /\ pc = "done" /\ result = "FALSE" /\ reachedK' = -1 /\ result' = "NONE"
      /\ pc' = "idle" /\ UNCHANGED <<opts, i>>
  BY DEF ResetEnv
<1>4. sys' # sys
  BY <1>1, <1>2, <1>3 DEF CallInv
<1>5. Clear(sys', -1)
  BY ClearNone
<1> QED
  BY <1>1, <1>3, <1>4, <1>5 DEF CallInv, Busy, PromisedStep

-----------------------------------------------------------------------------
(* Sequences of sets of states, and their fixed points.                    *)

LEMMA MinOfNats ==
  ASSUME NEW T, T \subseteq Nat, T # {}
  PROVE  Min(T) \in T /\ \A x \in T : Min(T) <= x
BY LeastNat DEF Min

LEMMA FunctionIsSeq ==
  ASSUME NEW n \in Nat, NEW S, NEW f \in [1..n -> S]
  PROVE  f \in Seq(S) /\ Len(f) = n
<1>1. f \in Seq(S)
  BY SeqDef
<1>2. Len(f) \in Nat /\ DOMAIN f = 1..Len(f) /\ DOMAIN f = 1..n
  BY <1>1, LenProperties
<1>3. 1..Len(f) = 1..n
  BY <1>2
<1>4. ASSUME Len(f) < n PROVE FALSE
  BY <1>2, <1>3, <1>4
<1>5. ASSUME Len(f) > n PROVE FALSE
  BY <1>2, <1>3, <1>5
<1> QED
  BY <1>2, <1>4, <1>5

LEMMA AppendSeq ==
  ASSUME NEW S, NEW s \in Seq(S), NEW x \in S
  PROVE  /\ Append(s, x) \in Seq(S) /\ Len(Append(s, x)) = Len(s) + 1
         /\ \A j \in 1..Len(s) : Append(s, x)[j] = s[j]
         /\ Append(s, x)[Len(s) + 1] = x
OBVIOUS

LEMMA SingleSeq ==
  ASSUME NEW S, NEW x \in S
  PROVE  <<x>> \in Seq(S) /\ Len(<<x>>) = 1 /\ <<x>>[1] = x
OBVIOUS

\* A set that the sets of a sequence before it cover makes them closed under
\* the transition relation, or under its inverse.
LEMMA JoinedClosed ==
  ASSUME sys.trans \subseteq States \X States,
         NEW seq \in Seq(SUBSET States), NEW m \in FixedPoints(seq),
         \A j \in 1..Len(seq) - 1 : Img(seq[j]) \subseteq seq[j + 1]
  PROVE  \A e \in sys.trans : e[1] \in Joined(seq, m) => e[2] \in Joined(seq, m)
<1>1. m \in 1..Len(seq) - 1 /\ Len(seq) \in Nat /\ seq[m + 1] \subseteq Joined(seq, m)
  BY DEF FixedPoints
<1> SUFFICES ASSUME NEW e \in sys.trans, e[1] \in Joined(seq, m)
             PROVE  e[2] \in Joined(seq, m)
  OBVIOUS
<1>2. PICK j \in 1..m : e[1] \in seq[j]
  BY DEF Joined
<1>3. e = <<e[1], e[2]>> /\ e[2] \in States
  OBVIOUS
<1>4. e[2] \in Img(seq[j])
  BY <1>2, <1>3 DEF Img
<1>5. e[2] \in seq[j + 1]
  BY <1>1, <1>2, <1>4
<1>6. CASE j = m
  BY <1>1, <1>5, <1>6
<1>7. CASE j < m
  <2>1. j + 1 \in 1..m
    BY <1>1, <1>7
  <2> QED
    BY <1>5, <2>1 DEF Joined
<1> QED
  BY <1>1, <1>2, <1>6, <1>7

LEMMA JoinedClosedBack ==
  ASSUME sys.trans \subseteq States \X States,
         NEW seq \in Seq(SUBSET States), NEW m \in FixedPoints(seq),
         \A j \in 1..Len(seq) - 1 : Pre(seq[j]) \subseteq seq[j + 1]
  PROVE  \A e \in sys.trans : e[2] \in Joined(seq, m) => e[1] \in Joined(seq, m)
<1>1. m \in 1..Len(seq) - 1 /\ Len(seq) \in Nat /\ seq[m + 1] \subseteq Joined(seq, m)
  BY DEF FixedPoints
<1> SUFFICES ASSUME NEW e \in sys.trans, e[2] \in Joined(seq, m)
             PROVE  e[1] \in Joined(seq, m)
  OBVIOUS
<1>2. PICK j \in 1..m : e[2] \in seq[j]
  BY DEF Joined
<1>3. e = <<e[1], e[2]>> /\ e[1] \in States
  OBVIOUS
<1>4. e[1] \in Pre(seq[j])
  BY <1>2, <1>3 DEF Pre
<1>5. e[1] \in seq[j + 1]
  BY <1>1, <1>2, <1>4
<1>6. CASE j = m
  BY <1>1, <1>5, <1>6
<1>7. CASE j < m
  <2>1. j + 1 \in 1..m
    BY <1>1, <1>7
  <2> QED
    BY <1>5, <2>1 DEF Joined
<1> QED
  BY <1>1, <1>2, <1>6, <1>7

-----------------------------------------------------------------------------
(* McMillan's interpolation.  What is not in the last interpolant has all  *)
(* its successors in R already, R has a state of every path of at most     *)
(* count steps, and apart from the initial states nothing in R can reach a *)
(* bad state at one of badTimes.                                           *)

InterpTypes ==
  /\ level \in {0, 1}
  /\ bTrans \in Nat /\ count \in Nat
  /\ badTimes \subseteq 1..bTrans + 1
  /\ bTrans = IF reachedK >= 0 THEN reachedK ELSE 0
  /\ reachedK >= 1 => 1 \in badTimes

InterpLevels ==
  /\ pc \in {"idle", "loop"} => level = 0
  /\ pc = "interp" => level = (IF count > 0 THEN 1 ELSE 0)
  /\ result = "FALSE" => level = 1

InterpReached ==
  pc = "interp" =>
    /\ 1 \in badTimes /\ i \in badTimes
    /\ R \subseteq States /\ sys.init \subseteq R /\ Ri \subseteq R
    /\ count = 0 => R = sys.init /\ Ri = sys.init
    /\ \A s \in R \ sys.init : s \notin Interp!FormulaB
    /\ \A s \in R \ Ri : Img({s}) \subseteq R /\ Img({s}) \cap Interp!FormulaB = {}
    /\ Ends(sys, sys.init, count) \subseteq Ri
    /\ \A j \in 1..count : Ends(sys, sys.init, j) \cap Interp!FormulaB = {}

InterpInv == InterpTypes /\ InterpLevels /\ InterpReached

LEMMA InterpSteps ==
  /\ \A sy, n : Interp!Paths(sy, n) = Paths(sy, n)
  /\ \A n : Interp!Witnesses(n) = Witnesses(n)
  /\ Interp!EngineStep => EngineStep
  /\ Interp!ResetEnv => ResetEnv
  /\ Interp!NewBound => NewBound
<1>1. \A sy, n : Interp!Paths(sy, n) = Paths(sy, n)
  BY DEF Interp!Paths, Paths
<1>2. \A n : Interp!Witnesses(n) = Witnesses(n)
  BY <1>1 DEF Interp!Witnesses, Witnesses
<1>3. Interp!EngineStep => EngineStep
  <2>1. Interp!LoopExit => LoopExit
    BY DEF Interp!LoopExit, LoopExit
  <2>2. Interp!StepCovered => StepCovered
    BY DEF Interp!StepCovered, StepCovered
  <2>3. Interp!Step0Bad => Step0Bad
    BY <1>2 DEF Interp!Step0Bad, Step0Bad, Interp!Refuted, Refuted
  <2>4. Interp!Step0Good => Step0Good
    BY <1>2 DEF Interp!Step0Good, Step0Good, Interp!ToNextBound, ToNextBound
  <2>5. Interp!InterpolatorFails => InterpolatorFails
    BY DEF Interp!InterpolatorFails, InterpolatorFails
  <2> QED
    BY <2>1, <2>2, <2>3, <2>4, <2>5 DEF Interp!EngineStep, EngineStep
<1>4. Interp!ResetEnv => ResetEnv
  BY <1>1 DEF Interp!ResetEnv, ResetEnv
<1>5. Interp!NewBound => NewBound
  BY DEF Interp!NewBound, NewBound
<1> QED
  BY <1>1, <1>2, <1>3, <1>4, <1>5

LEMMA InterpOps ==
  /\ \A X : Interp!Img(X) = Img(X)
  /\ \A A, B : Interp!Interpolants(A, B) = { X \in SUBSET States : A \subseteq X /\ X \cap B = {} }
BY DEF Interp!Img, Img, Interp!Interpolants

LEMMA InterpInit ==
  ASSUME Interp!Init
  PROVE  InterpInv
BY DEF Interp!Init, Interp!EngineInit, InterpInv, InterpTypes, InterpLevels, InterpReached

LEMMA InterpStartBound ==
  ASSUME CallInv, InterpInv, Interp!StartBound
  PROVE  CallInv' /\ InterpInv' /\ PromisedStep
<1> USE DEF Busy
<1>1. pc = "loop" /\ i > reachedK /\ i > 0 /\ i <= reachedK + 1 /\ result = "NONE"
  BY InterpSteps DEF Interp!StartBound, NewBound, CallInv
<1>2. /\ badTimes' = IF opts.firstLast THEN {1, i} ELSE badTimes \cup {i}
      /\ R' = sys.init /\ Ri' = sys.init /\ count' = 0 /\ pc' = "interp"
      /\ UNCHANGED <<sys, opts, level, reachedK, bound, i, itps, path, invar, result, bTrans>>
  BY DEF Interp!StartBound
<1>3. reachedK \in Int /\ reachedK >= -1 /\ i \in Nat /\ sys \in Systems
  BY DEF CallInv
<1>4. i = reachedK + 1 /\ reachedK >= 0
  BY <1>1, <1>3
<1>5. CallInv' /\ PromisedStep
  BY <1>1, <1>2, <1>4 DEF CallInv, PromisedStep
<1>6. i = bTrans + 1 /\ bTrans \in Nat
  BY <1>4 DEF InterpInv, InterpTypes
<1>7. 1 \in badTimes' /\ i \in badTimes'
  <2>1. CASE i = 1
    BY <1>2, <2>1
  <2>2. CASE i # 1
    <3>1. reachedK >= 1
      BY <1>3, <1>4, <2>2
    <3> QED
      BY <1>2, <3>1 DEF InterpInv, InterpTypes
  <2> QED
    BY <2>1, <2>2
<1>8. badTimes' \subseteq 1..bTrans + 1
  BY <1>2, <1>6 DEF InterpInv, InterpTypes
<1>9. InterpTypes'
  BY <1>2, <1>7, <1>8 DEF InterpInv, InterpTypes
<1>10. InterpLevels'
  BY <1>1, <1>2 DEF InterpInv, InterpLevels
<1>11. InterpReached'
  <2>1. sys.init \subseteq States /\ sys.trans \subseteq States \X States
    BY <1>3, SystemParts
  <2>2. Ends(sys, sys.init, 0) = sys.init
    BY <2>1, EndsStep
  <2>3. (Ends(sys, sys.init, count))' = sys.init
    BY <1>2, <2>2
  <2>4. \A j \in 1..count' : FALSE
    BY <1>2
  <2> QED
    BY <1>2, <1>7, <2>1, <2>3, <2>4 DEF InterpReached
<1> QED
  BY <1>5, <1>9, <1>10, <1>11 DEF InterpInv

\* In a query: the facts the cases below start from.
LEMMA InterpQuery ==
  ASSUME CallInv, InterpInv, pc = "interp"
  PROVE  /\ sys \in Systems /\ sys.init \subseteq States /\ sys.bad \subseteq States
         /\ sys.trans \subseteq States \X States
         /\ reachedK \in Nat /\ i = reachedK + 1 /\ bTrans = reachedK /\ i = bTrans + 1
         /\ result = "NONE" /\ count \in Nat
         /\ 1 \in badTimes /\ i \in badTimes /\ badTimes \subseteq 1..i
         /\ Clear(sys, reachedK)
<1>1. sys \in Systems
  BY DEF CallInv
<1>2. reachedK \in Nat /\ i = reachedK + 1 /\ result = "NONE" /\ Clear(sys, reachedK)
  BY DEF CallInv, Busy
<1>3. bTrans = reachedK /\ count \in Nat /\ badTimes \subseteq 1..bTrans + 1
  BY <1>2 DEF InterpInv, InterpTypes
<1>4. 1 \in badTimes /\ i \in badTimes
  BY DEF InterpInv, InterpReached
<1> QED
  BY <1>1, <1>2, <1>3, <1>4, SystemParts

\* formulaB in terms of paths.
LEMMA InFormulaB ==
  ASSUME NEW p \in Paths(sys, bTrans), NEW t \in badTimes, p[t - 1] \in sys.bad
  PROVE  p[0] \in Interp!FormulaB
BY InterpSteps DEF Interp!FormulaB

\* A counterexample that leaves X for good with a step into a state that is
\* bTrans steps before its end goes through FormulaB.
LEMMA CexThroughFormulaB ==
  ASSUME CallInv, InterpInv, pc = "interp",
         NEW n \in Nat, n >= bTrans, NEW p \in Cexs(sys, n)
  PROVE  n - bTrans \in 0..n /\ p[n - bTrans] \in Interp!FormulaB
<1>1. bTrans \in Nat /\ i \in badTimes /\ i - 1 = bTrans
  BY InterpQuery
<1>2. n - bTrans \in Nat /\ n - bTrans <= n /\ n - (n - bTrans) = bTrans
  BY <1>1
<1>3. p \in Paths(sys, n) /\ p[n] \in sys.bad
  BY DEF Cexs
<1> DEFINE m == n - bTrans
           q == Cut(p, m, n)
<1>4. q \in Paths(sys, bTrans) /\ q[0] = p[m] /\ q[bTrans] = p[n]
  <2>1. m \in Nat /\ m <= n /\ n - m = bTrans
    BY <1>2
  <2> HIDE DEF m
  <2> QED
    BY <1>3, <2>1, PathSuffix
<1>5. q[i - 1] \in sys.bad
  BY <1>1, <1>3, <1>4
<1> QED
  BY <1>1, <1>2, <1>4, <1>5, InFormulaB

LEMMA InterpConverge ==
  ASSUME CallInv, InterpInv, Interp!Converge, opts.engine = "interp"
  PROVE  CallInv' /\ InterpInv' /\ PromisedStep
<1> USE DEF Busy
<1>1. /\ pc = "interp" /\ Interp!FormulaA \cap Interp!FormulaB = {}
      /\ Ri' \in Interp!Interpolants(Interp!FormulaA, Interp!FormulaB) /\ Ri' \subseteq R
      /\ level' = 0 /\ count' = count + 1 /\ invar' = R /\ result' = "TRUE" /\ pc' = "done"
      /\ UNCHANGED <<sys, opts, reachedK, bound, i, itps, path, bTrans, badTimes, R>>
  BY DEF Interp!Converge, Interp!Unsat, Interp!Proved
<1>2. /\ sys \in Systems /\ sys.init \subseteq States /\ sys.bad \subseteq States
      /\ sys.trans \subseteq States \X States
      /\ reachedK \in Nat /\ i = reachedK + 1 /\ bTrans = reachedK /\ i = bTrans + 1
      /\ result = "NONE" /\ count \in Nat
      /\ 1 \in badTimes /\ i \in badTimes /\ badTimes \subseteq 1..i
      /\ Clear(sys, reachedK)
  BY <1>1, InterpQuery
<1>3. /\ R \subseteq States /\ sys.init \subseteq R /\ Ri \subseteq R
      /\ \A s \in R \ sys.init : s \notin Interp!FormulaB
      /\ \A s \in R \ Ri : Img({s}) \subseteq R /\ Img({s}) \cap Interp!FormulaB = {}
  BY <1>1 DEF InterpInv, InterpReached
<1>4. /\ Interp!FormulaA \subseteq Ri'
      /\ \A s \in Ri : Img({s}) \subseteq Interp!FormulaA
  <2>1. Interp!FormulaA \subseteq Ri'
    BY <1>1, InterpOps
  <2>2. \A s \in Ri : Img({s}) \subseteq Img(Ri) /\ Img({s}) \subseteq Img(R)
    BY <1>3 DEF Img
  <2> QED
    BY <2>1, <2>2, InterpOps DEF Interp!FormulaA
<1>5. \A s \in R : Img({s}) \subseteq R /\ Img({s}) \cap Interp!FormulaB = {}
  BY <1>1, <1>3, <1>4
<1>6. \A e \in sys.trans : e[1] \in R => e[2] \in R /\ e[2] \notin Interp!FormulaB
  <2> SUFFICES ASSUME NEW e \in sys.trans, e[1] \in R
               PROVE  e[2] \in R /\ e[2] \notin Interp!FormulaB
    OBVIOUS
  <2>1. e = <<e[1], e[2]>> /\ e[2] \in States
    BY <1>2
  <2>2. e[2] \in Img({e[1]})
    BY <2>1 DEF Img
  <2> QED
    BY <1>5, <2>2
<1>7. Inductive(sys, R)
  BY <1>3, <1>6 DEF Inductive
<1>8. Safe(sys)
  <2> SUFFICES ASSUME NEW n \in Nat, Cexs(sys, n) # {}
               PROVE  FALSE
    BY <1>2, SafeWithoutCex
  <2>1. PICK p : p \in Cexs(sys, n)
    OBVIOUS
  <2>2. n > reachedK
    BY <1>2 DEF Clear
  <2> DEFINE m == n - bTrans
  <2>3. m \in 0..n /\ p[m] \in Interp!FormulaB
    BY <1>1, <1>2, <2>1, <2>2, CexThroughFormulaB
  <2>4. m - 1 \in 0..n /\ (m - 1) + 1 = m
    BY <1>2, <2>2
  <2>5. p \in Paths(sys, n) /\ p[0] \in R
    BY <1>3, <2>1 DEF Cexs
  <2>6. p[m - 1] \in R
    <3>1. \A e \in sys.trans : e[1] \in R => e[2] \in R
      BY <1>6
    <3>2. \A t \in 0..n : p[t] \in R
      BY <2>5, <3>1, PathStays
    <3> QED
      BY <2>4, <3>2
  <2>7. <<p[m - 1], p[m]>> \in sys.trans
    <3>1. <<p[m - 1], p[(m - 1) + 1]>> \in sys.trans
      BY <2>3, <2>4, <2>5 DEF Paths
    <3> QED
      BY <2>4, <3>1
  <2> QED
    BY <1>6, <2>3, <2>6, <2>7
<1>9. ASSUME Total
      PROVE  R \cap sys.bad = {}
  <2> SUFFICES ASSUME NEW s \in R, s \in sys.bad
               PROVE  FALSE
    OBVIOUS
  <2>1. \A u \in States : \E v \in States : <<u, v>> \in sys.trans
    BY <1>9 DEF Total, Img
  <2>2. CASE s \in sys.init
    <3>1. PICK p \in Paths(sys, 0) : p[0] = s
      BY <1>3, PointPath
    <3>2. p \in Cexs(sys, 0)
      BY <2>2, <3>1 DEF Cexs
    <3> QED
      BY <1>2, <3>2 DEF Clear
  <2>3. CASE s \notin sys.init
    <3>1. PICK p \in Paths(sys, bTrans) : p[0] = s
      BY <1>2, <1>3, <2>1, PathOfAnyLength
    <3>2. p[1 - 1] \in sys.bad
      BY <3>1
    <3>3. s \in Interp!FormulaB
      BY <1>2, <3>1, <3>2, InFormulaB
    <3> QED
      BY <1>3, <2>3, <3>3
  <2> QED
    BY <2>2, <2>3
<1>10. Shown'
  <2>1. Total' <=> Total
    BY <1>1 DEF Total, Img
  <2>2. Safe(sys)' /\ Inductive(sys, invar)'
    BY <1>1, <1>7, <1>8
  <2> QED
    BY <1>1, <1>9, <2>1, <2>2 DEF Shown
<1>11. CallInv' /\ PromisedStep
  <2>1. PromisedStep
    BY <1>1, <1>2, <1>8 DEF PromisedStep
  <2>2. CallInv'
    BY <1>1, <1>2, <1>10 DEF CallInv
  <2> QED
    BY <2>1, <2>2
<1>12. InterpInv'
  BY <1>1, <1>2 DEF InterpInv, InterpTypes, InterpLevels, InterpReached
<1> QED
  BY <1>11, <1>12

LEMMA InterpExtendReached ==
  ASSUME CallInv, InterpInv, Interp!ExtendReached
  PROVE  CallInv' /\ InterpInv' /\ PromisedStep
<1> USE DEF Busy
<1>1. /\ pc = "interp" /\ Interp!FormulaA \cap Interp!FormulaB = {}
      /\ Ri' \in Interp!Interpolants(Interp!FormulaA, Interp!FormulaB)
      /\ R' = R \cup Ri' /\ count' = count + 1 /\ level' = 1
      /\ UNCHANGED <<sys, opts, reachedK, bound, i, pc, itps, path, invar, result,
                     bTrans, badTimes>>
  BY DEF Interp!ExtendReached, Interp!Unsat
<1>2. /\ sys \in Systems /\ sys.init \subseteq States /\ sys.bad \subseteq States
      /\ sys.trans \subseteq States \X States
      /\ reachedK \in Nat /\ i = reachedK + 1 /\ bTrans = reachedK /\ i = bTrans + 1
      /\ result = "NONE" /\ count \in Nat
      /\ 1 \in badTimes /\ i \in badTimes /\ badTimes \subseteq 1..i
      /\ Clear(sys, reachedK)
  BY <1>1, InterpQuery
<1>3. /\ R \subseteq States /\ sys.init \subseteq R /\ Ri \subseteq R
      /\ \A s \in R \ sys.init : s \notin Interp!FormulaB
      /\ \A s \in R \ Ri : Img({s}) \subseteq R /\ Img({s}) \cap Interp!FormulaB = {}
      /\ Ends(sys, sys.init, count) \subseteq Ri
      /\ \A j \in 1..count : Ends(sys, sys.init, j) \cap Interp!FormulaB = {}
  BY <1>1 DEF InterpInv, InterpReached
<1>4. CallInv' /\ PromisedStep
  BY <1>1, <1>2 DEF CallInv, PromisedStep, Shown
<1>5. Ri' \subseteq States /\ Interp!FormulaA \subseteq Ri' /\ Ri' \cap Interp!FormulaB = {}
  BY <1>1, InterpOps
<1>6. Img(Ri) \subseteq Interp!FormulaA
  <2>1. Img(Ri) \subseteq Img(R)
    BY <1>3 DEF Img
  <2> QED
    BY <2>1, InterpOps DEF Interp!FormulaA
<1>7. Interp!FormulaB' = Interp!FormulaB
  BY <1>1 DEF Interp!FormulaB
<1>9. \A s \in R' \ Ri' : Img({s}) \subseteq R' /\ Img({s}) \cap Interp!FormulaB = {}
  <2> SUFFICES ASSUME NEW s \in R' \ Ri'
               PROVE  Img({s}) \subseteq R' /\ Img({s}) \cap Interp!FormulaB = {}
    OBVIOUS
  <2>1. s \in R
    BY <1>1
  <2>2. CASE s \in Ri
    <3>1. Img({s}) \subseteq Img(Ri)
      BY <2>2 DEF Img
    <3> QED
      BY <1>1, <1>5, <1>6, <3>1
  <2>3. CASE s \notin Ri
    BY <1>1, <1>3, <2>1, <2>3
  <2> QED
    BY <2>2, <2>3
<1>10. Ends(sys, sys.init, count + 1) \subseteq Ri'
  <2>1. Ends(sys, sys.init, count + 1) = ImgOf(sys, Ends(sys, sys.init, count))
    BY <1>2, EndsStep
  <2>2. ImgOf(sys, Ends(sys, sys.init, count)) \subseteq Img(Ri)
    BY <1>3 DEF ImgOf, Img
  <2> QED
    BY <1>5, <1>6, <2>1, <2>2
<1>11. \A j \in 1..count + 1 : Ends(sys, sys.init, j) \cap Interp!FormulaB = {}
  <2>1. \A j \in 1..count + 1 : j \in 1..count \/ j = count + 1
    BY <1>2
  <2> QED
    BY <1>3, <1>5, <1>10, <2>1
<1>12. InterpReached'
  <2>1. /\ 1 \in badTimes' /\ i' \in badTimes'
        /\ R' \subseteq States /\ sys'.init \subseteq R' /\ Ri' \subseteq R'
        /\ count' # 0
    BY <1>1, <1>2, <1>3, <1>5
  <2>2. \A s \in R' \ sys'.init : s \notin Interp!FormulaB'
    BY <1>1, <1>3, <1>5, <1>7
  <2>3. \A s \in R' \ Ri' : Img({s})' \subseteq R' /\ Img({s})' \cap Interp!FormulaB' = {}
    BY <1>1, <1>7, <1>9 DEF Img
  <2>4. Ends(sys, sys.init, count)' \subseteq Ri'
    BY <1>1, <1>10
  <2>5. \A j \in 1..count' : Ends(sys, sys.init, j)' \cap Interp!FormulaB' = {}
    BY <1>1, <1>7, <1>11
  <2> QED
    BY <2>1, <2>2, <2>3, <2>4, <2>5 DEF InterpReached
<1>13. InterpTypes' /\ InterpLevels'
  BY <1>1, <1>2 DEF InterpInv, InterpTypes, InterpLevels
<1> QED
  BY <1>4, <1>12, <1>13 DEF InterpInv

\* A state that can reach a bad one at a bad time, one step from the initial
\* states, is on a counterexample of i steps: shorter ones are ruled out.
LEMMA InterpReplays ==
  ASSUME CallInv, InterpInv, pc = "interp", count = 0, Interp!Sat
  PROVE  Interp!Replays # {}
<1>1. /\ sys \in Systems /\ sys.init \subseteq States
      /\ sys.trans \subseteq States \X States
      /\ reachedK \in Nat /\ i = reachedK + 1 /\ bTrans = reachedK /\ i = bTrans + 1
      /\ badTimes \subseteq 1..i /\ Clear(sys, reachedK)
  BY InterpQuery
<1>2. R = sys.init /\ Ri = sys.init
  BY DEF InterpInv, InterpReached
<1>3. Interp!FormulaA = Img(sys.init)
  BY <1>2, InterpOps DEF Interp!FormulaA
<1>4. PICK v : v \in Img(sys.init) /\ v \in Interp!FormulaB
  BY <1>3 DEF Interp!Sat
<1>5. PICK u \in sys.init : <<u, v>> \in sys.trans
  BY <1>4 DEF Img
<1>6. PICK p \in Paths(sys, bTrans) : p[0] = v /\ \E t \in badTimes : p[t - 1] \in sys.bad
  BY <1>4, InterpSteps DEF Interp!FormulaB
<1>7. PICK t \in badTimes : p[t - 1] \in sys.bad
  BY <1>6
<1>8. u \in States /\ v \in States
  BY <1>1, <1>5
<1>9. PICK q \in Paths(sys, 1) : q[0] = u /\ q[1] = v
  BY <1>5, <1>8, StepPath
<1> DEFINE c == Joint(q, 1, p, bTrans)
<1>10. /\ c \in Paths(sys, 1 + bTrans) /\ c[0] = u
       /\ \A k \in 0..bTrans : c[1 + k] = p[k]
  BY <1>1, <1>6, <1>9, JoinPaths
<1> HIDE DEF c
<1>11. t \in Nat /\ t <= i /\ t - 1 \in 0..bTrans /\ 1 + (t - 1) = t /\ 1 + bTrans = i
  BY <1>1
<1>12. c \in Paths(sys, i) /\ c[t] \in sys.bad /\ c[0] \in sys.init
  BY <1>5, <1>7, <1>10, <1>11
<1>13. t = i
  <2>1. i \in Nat
    BY <1>1
  <2>2. /\ Cut(c, 0, t) \in Paths(sys, t)
        /\ \A k \in 0..t : Cut(c, 0, t)[k] = c[k]
    BY <1>11, <1>12, <2>1, PathPrefix
  <2>3. Cut(c, 0, t) \in Cexs(sys, t)
    BY <1>11, <1>12, <2>2 DEF Cexs
  <2>4. ~ (t <= reachedK)
    BY <1>1, <1>11, <2>3 DEF Clear
  <2> QED
    BY <1>1, <1>11, <2>4
<1>14. c \in Interp!Paths(sys, bTrans + 1)
  BY <1>1, <1>12, InterpSteps
<1> QED
  BY <1>12, <1>13, <1>14 DEF Interp!Replays

LEMMA InterpConcrete ==
  ASSUME CallInv, InterpInv, Interp!Concrete
  PROVE  CallInv' /\ InterpInv' /\ PromisedStep
<1> USE DEF Busy
<1>1. pc = "interp" /\ count = 0 /\ Interp!Sat
  BY DEF Interp!Concrete, Interp!Sat
<1>2. Interp!Replays # {}
  BY <1>1, InterpReplays
<1>3. /\ path' \in Interp!Replays /\ level' = 1 /\ result' = "FALSE" /\ pc' = "done"
      /\ UNCHANGED <<sys, opts, reachedK, bound, i, itps, invar>>
      /\ UNCHANGED <<bTrans, badTimes, R, Ri, count>>
  BY <1>2 DEF Interp!Concrete, Interp!Refuted, Interp!mcVars
<1>4. /\ reachedK \in Nat /\ i = reachedK + 1 /\ i = bTrans + 1
      /\ result = "NONE" /\ Clear(sys, reachedK)
  BY <1>1, InterpQuery
<1>5. path' \in Cexs(sys, reachedK + 1)
  BY <1>3, <1>4, InterpSteps DEF Interp!Replays, Cexs
<1>6. CallInv' /\ PromisedStep
  BY <1>1, <1>3, <1>4, <1>5 DEF CallInv, PromisedStep
<1>7. InterpInv'
  BY <1>1, <1>3 DEF InterpInv, InterpTypes, InterpLevels, InterpReached
<1> QED
  BY <1>6, <1>7

\* The bounds that extend_unrolling skips have no counterexample: count
\* interpolants separate the states that many steps reach from FormulaB.
LEMMA InterpExtendUnrolling ==
  ASSUME CallInv, InterpInv, Interp!ExtendUnrolling
  PROVE  CallInv' /\ InterpInv' /\ PromisedStep
<1> USE DEF Busy
<1>1. /\ pc = "interp" /\ count > 0
      /\ bTrans' = bTrans + IF opts.eager THEN count ELSE 1
      /\ reachedK' = IF opts.eager THEN count + i - 1 ELSE i
      /\ level' = 0 /\ i' = i + 1 /\ pc' = "loop"
      /\ UNCHANGED <<sys, opts, bound, itps, path, invar, result, badTimes, R, Ri, count>>
  BY DEF Interp!ExtendUnrolling, Interp!Sat, Interp!ToNextBound
<1>2. /\ sys \in Systems
      /\ reachedK \in Nat /\ i = reachedK + 1 /\ bTrans = reachedK /\ i = bTrans + 1
      /\ result = "NONE" /\ count \in Nat
      /\ 1 \in badTimes /\ i \in badTimes /\ badTimes \subseteq 1..i
      /\ Clear(sys, reachedK)
  BY <1>1, InterpQuery
<1>3. \A j \in 1..count : Ends(sys, sys.init, j) \cap Interp!FormulaB = {}
  BY <1>1 DEF InterpInv, InterpReached
<1>4. PICK more \in 1..count :
        bTrans' = bTrans + more /\ reachedK' = reachedK + more
  <2>1. CASE opts.eager
    BY <1>1, <1>2, <2>1
  <2>2. CASE ~opts.eager
    BY <1>1, <1>2, <2>2
  <2> QED
    BY <2>1, <2>2
<1>5. Clear(sys, reachedK + more)
  <2> SUFFICES ASSUME NEW m \in Nat, m <= reachedK + more, Cexs(sys, m) # {}
               PROVE  FALSE
    BY DEF Clear
  <2>1. PICK p : p \in Cexs(sys, m)
    OBVIOUS
  <2>2. m > reachedK
    BY <1>2 DEF Clear
  <2>3. m - bTrans \in 0..m /\ p[m - bTrans] \in Interp!FormulaB
    BY <1>1, <1>2, <2>1, <2>2, CexThroughFormulaB
  <2> DEFINE j == m - bTrans
  <2>4. j \in 1..count /\ j \in Nat /\ j <= m
    BY <1>2, <1>4, <2>2
  <2>5. p[j] \in Ends(sys, sys.init, j)
    <3>1. p \in Paths(sys, m) /\ p[0] \in sys.init
      BY <2>1 DEF Cexs
    <3> HIDE DEF j
    <3>2. /\ Cut(p, 0, j) \in Paths(sys, j)
          /\ \A k \in 0..j : Cut(p, 0, j)[k] = p[k]
      BY <2>4, <3>1, PathPrefix
    <3>3. p[j] \in States
      BY <2>4, <3>1 DEF Paths
    <3> QED
      BY <2>4, <3>1, <3>2, <3>3 DEF Ends
  <2> QED
    BY <1>3, <2>3, <2>4, <2>5
<1>6. CallInv' /\ PromisedStep
  <2>1. /\ reachedK' \in Int /\ reachedK' >= -1 /\ reachedK' > reachedK
        /\ i' \in Nat /\ i' <= reachedK' + 1
    BY <1>1, <1>2, <1>4
  <2> QED
    BY <1>1, <1>2, <1>4, <1>5, <2>1 DEF CallInv, PromisedStep
<1>7. InterpInv'
  <2>1. InterpTypes'
    <3>1. bTrans' \in Nat /\ reachedK' >= 0 /\ bTrans' = reachedK'
      BY <1>2, <1>4
    <3>2. badTimes' \subseteq 1..bTrans' + 1
      BY <1>1, <1>2, <1>4
    <3> QED
      BY <1>1, <1>2, <3>1, <3>2 DEF InterpTypes
  <2>2. InterpLevels' /\ InterpReached'
    BY <1>1, <1>2 DEF InterpLevels, InterpReached
  <2> QED
    BY <2>1, <2>2 DEF InterpInv
<1> QED
  BY <1>6, <1>7

LEMMA InterpStepKeeps ==
  ASSUME CallInv, InterpInv, opts.engine = "interp", Interp!Step
  PROVE  CallInv' /\ InterpInv' /\ PromisedStep
<1>1. CASE Interp!EngineStep /\ UNCHANGED Interp!mcVars
  <2>1. EngineStep
    BY <1>1, InterpSteps
  <2>2. CallInv' /\ PromisedStep
    BY <2>1, EngineStepKeeps
  <2>3. UNCHANGED <<bTrans, badTimes, R, Ri, count>>
    BY <1>1 DEF Interp!mcVars
  <2>4. pc' # "interp"
    BY <2>1 DEF EngineStep, LoopExit, StepCovered, Step0Bad, Step0Good, Refuted,
                ToNextBound, InterpolatorFails
  <2>5. InterpTypes' /\ InterpLevels'
    <3>1. CASE LoopExit
      BY <2>3, <3>1 DEF LoopExit, InterpInv, InterpTypes, InterpLevels
    <3>2. CASE StepCovered
      BY <2>3, <3>2 DEF StepCovered, InterpInv, InterpTypes, InterpLevels
    <3>3. CASE Step0Bad
      BY <2>3, <3>3 DEF Step0Bad, Refuted, InterpInv, InterpTypes, InterpLevels
    <3>4. CASE Step0Good
      <4>1. reachedK = -1
        BY <3>4 DEF Step0Good, CallInv
      <4> QED
        BY <2>3, <3>4, <4>1 DEF Step0Good, ToNextBound, InterpInv, InterpTypes, InterpLevels, CallInv
    <3>5. CASE InterpolatorFails
      BY <2>3, <3>5 DEF InterpolatorFails, InterpInv, InterpTypes, InterpLevels
    <3> QED
      BY <2>1, <3>1, <3>2, <3>3, <3>4, <3>5 DEF EngineStep
  <2> QED
    BY <2>2, <2>4, <2>5 DEF InterpInv, InterpReached
<1>2. CASE Interp!StartBound
  BY <1>2, InterpStartBound
<1>3. CASE Interp!Converge
  BY <1>3, InterpConverge
<1>4. CASE Interp!ExtendReached
  BY <1>4, InterpExtendReached
<1>5. CASE Interp!Concrete
  BY <1>5, InterpConcrete
<1>6. CASE Interp!ExtendUnrolling
  BY <1>6, InterpExtendUnrolling
<1> QED
  BY <1>1, <1>2, <1>3, <1>4, <1>5, <1>6 DEF Interp!Step

LEMMA InterpResetKeeps ==
  ASSUME CallInv, InterpInv, Interp!Reset
  PROVE  CallInv' /\ InterpInv' /\ PromisedStep
<1>1. ResetEnv
  BY InterpSteps DEF Interp!Reset
<1>2. CallInv' /\ PromisedStep
  BY <1>1, ResetEnvKeeps
<1>3. InterpInv'
  BY <1>1 DEF ResetEnv, Interp!Reset, InterpInv, InterpTypes, InterpLevels, InterpReached
<1> QED
  BY <1>2, <1>3

LEMMA InterpCallKeeps ==
  ASSUME CallInv, InterpInv, NEW k \in Bounds, CheckUntil(k), UNCHANGED mcVars
  PROVE  InterpInv'
BY DEF CheckUntil, mcVars, CallInv, InterpInv, InterpTypes, InterpLevels, InterpReached

\* The assertions of the engine interp are the parts of its invariant.
LEMMA InterpAssertions ==
  ASSUME CallInv, InterpInv
  PROVE  Interp!AssertionsHold
<1>1. pc = "interp" => i = bTrans + 1 /\ i \in badTimes
  BY InterpQuery
<1>2. pc # "error"
  BY DEF CallInv, Busy
<1> QED
  BY <1>1, <1>2 DEF Interp!AssertionsHold, InterpInv, InterpLevels

-----------------------------------------------------------------------------
(* Interpolation sequences: each set holds the image of the one before it, *)
(* and all but the first exclude the bad states.                           *)

ReachSeqInv ==
  /\ reachSeq \in Seq(SUBSET States)
  /\ Len(reachSeq) = IF reachedK >= 0 THEN reachedK + 1 ELSE 1
  /\ reachSeq[1] = sys.init
  /\ \A j \in 1..Len(reachSeq) - 1 : Img(reachSeq[j]) \subseteq reachSeq[j + 1]
  /\ \A j \in 2..Len(reachSeq) : reachSeq[j] \cap sys.bad = {}

\* So does the sequence under construction, whose last set excludes them.
ChainInv ==
  /\ itps \in Seq(SUBSET States)
  /\ Len(itps) <= i
  /\ Len(itps) > 0 => Img(sys.init) \subseteq itps[1]
  /\ \A j \in 1..Len(itps) - 1 : Img(itps[j]) \subseteq itps[j + 1]
  /\ Len(itps) = i => itps[i] \cap sys.bad = {}

IsmcInv ==
  /\ level = IF result = "FALSE" THEN 1 ELSE 0
  /\ pc \in Busy => pc = "chain"
  /\ pc # "done" => ReachSeqInv
  /\ pc = "chain" => ChainInv /\ Cexs(sys, i) = {}

LEMMA IsmcSteps ==
  /\ \A sy, n : Ismc!Paths(sy, n) = Paths(sy, n)
  /\ \A n : Ismc!Witnesses(n) = Witnesses(n)
  /\ Ismc!EngineStep => EngineStep
  /\ Ismc!ResetEnv => ResetEnv
  /\ Ismc!NewBound => NewBound
<1>1. \A sy, n : Ismc!Paths(sy, n) = Paths(sy, n)
  BY DEF Ismc!Paths, Paths
<1>2. \A n : Ismc!Witnesses(n) = Witnesses(n)
  BY <1>1 DEF Ismc!Witnesses, Witnesses
<1>3. Ismc!EngineStep => EngineStep
  <2>1. Ismc!LoopExit => LoopExit
    BY DEF Ismc!LoopExit, LoopExit
  <2>2. Ismc!StepCovered => StepCovered
    BY DEF Ismc!StepCovered, StepCovered
  <2>3. Ismc!Step0Bad => Step0Bad
    BY <1>2 DEF Ismc!Step0Bad, Step0Bad, Ismc!Refuted, Refuted
  <2>4. Ismc!Step0Good => Step0Good
    BY <1>2 DEF Ismc!Step0Good, Step0Good, Ismc!ToNextBound, ToNextBound
  <2>5. Ismc!InterpolatorFails => InterpolatorFails
    BY DEF Ismc!InterpolatorFails, InterpolatorFails
  <2> QED
    BY <2>1, <2>2, <2>3, <2>4, <2>5 DEF Ismc!EngineStep, EngineStep
<1>4. Ismc!ResetEnv => ResetEnv
  BY <1>1 DEF Ismc!ResetEnv, ResetEnv
<1>5. Ismc!NewBound => NewBound
  BY DEF Ismc!NewBound, NewBound
<1> QED
  BY <1>1, <1>2, <1>3, <1>4, <1>5

LEMMA IsmcOps ==
  /\ \A X : Ismc!Img(X) = Img(X)
  /\ \A X : Ismc!Pre(X) = Pre(X)
  /\ \A A, B : Ismc!Interpolants(A, B) = { X \in SUBSET States : A \subseteq X /\ X \cap B = {} }
  /\ \A seq : Ismc!FixedPoints(seq) = FixedPoints(seq)
  /\ \A seq : Ismc!FixedPoint(seq) = FixedPoint(seq)
  /\ \A X, n : Ismc!BackTo(X, n) = BackTo(X, n)
<1>1. \A X : Ismc!Img(X) = Img(X) /\ Ismc!Pre(X) = Pre(X)
  BY DEF Ismc!Img, Img, Ismc!Pre, Pre
<1>2. \A A, B : Ismc!Interpolants(A, B) = { X \in SUBSET States : A \subseteq X /\ X \cap B = {} }
  BY DEF Ismc!Interpolants
<1>3. \A seq, m : Ismc!Joined(seq, m) = Joined(seq, m)
  BY DEF Ismc!Joined, Joined
<1>4. \A seq : Ismc!FixedPoints(seq) = FixedPoints(seq)
  BY <1>3 DEF Ismc!FixedPoints, FixedPoints
<1>5. \A seq : Ismc!FixedPoint(seq) = FixedPoint(seq)
  <2>1. \A T : Ismc!Min(T) = Min(T)
    BY DEF Ismc!Min, Min
  <2> QED
    BY <1>3, <1>4, <2>1 DEF Ismc!FixedPoint, FixedPoint
<1>6. \A X, n : Ismc!BackTo(X, n) = BackTo(X, n)
  BY DEF Ismc!BackTo, BackTo, Ismc!Pre, Pre
<1> QED
  BY <1>1, <1>2, <1>4, <1>5, <1>6

LEMMA IsmcInit ==
  ASSUME Ismc!Init
  PROVE  IsmcInv
<1>1. sys \in Systems /\ sys.init \subseteq States
  BY SystemParts DEF Ismc!Init, Ismc!EngineInit
<1>2. reachSeq = <<sys.init>> /\ reachedK = -1 /\ pc = "idle" /\ level = 0 /\ result = "NONE"
  BY DEF Ismc!Init, Ismc!EngineInit
<1>3. reachSeq \in Seq(SUBSET States) /\ Len(reachSeq) = 1 /\ reachSeq[1] = sys.init
  BY <1>1, <1>2, SingleSeq
<1>4. ReachSeqInv
  BY <1>2, <1>3 DEF ReachSeqInv
<1> QED
  BY <1>2, <1>4 DEF IsmcInv, Busy

\* At a new bound: i is the length of the sequence.
LEMMA NewBoundFacts ==
  ASSUME CallInv, NewBound
  PROVE  /\ reachedK \in Nat /\ i = reachedK + 1 /\ i \in Nat \ {0}
         /\ pc = "loop" /\ result = "NONE" /\ Clear(sys, reachedK)
         /\ sys \in Systems /\ sys.init \subseteq States /\ sys.bad \subseteq States
         /\ sys.trans \subseteq States \X States
<1>1. pc = "loop" /\ i > reachedK /\ i > 0
  BY DEF NewBound
<1>2. /\ sys \in Systems /\ reachedK \in Int /\ reachedK >= -1 /\ i \in Nat
      /\ i <= reachedK + 1 /\ result = "NONE" /\ Clear(sys, reachedK)
  BY <1>1 DEF CallInv
<1>3. i = reachedK + 1 /\ reachedK \in Nat
  BY <1>1, <1>2
<1> QED
  BY <1>1, <1>2, <1>3, SystemParts

LEMMA IsmcConcrete ==
  ASSUME CallInv, IsmcInv, Ismc!Concrete
  PROVE  CallInv' /\ IsmcInv' /\ PromisedStep
<1>1. NewBound
  BY IsmcSteps DEF Ismc!Concrete
<1>2. /\ path' \in Witnesses(i) /\ level' = 1 /\ result' = "FALSE" /\ pc' = "done"
      /\ UNCHANGED <<sys, opts, reachedK, bound, i, itps, invar, reachSeq>>
  BY IsmcSteps DEF Ismc!Concrete, Ismc!Refuted
<1>3. reachedK \in Nat /\ i = reachedK + 1 /\ result = "NONE" /\ Clear(sys, reachedK)
  BY <1>1, NewBoundFacts
<1>4. Cexs(sys, reachedK + 1) # {}
  BY <1>2, <1>3, WitnessesAreCexs
<1> QED
  BY <1>2, <1>3, <1>4 DEF CallInv, IsmcInv, PromisedStep, Busy

LEMMA IsmcStartSequence ==
  ASSUME CallInv, IsmcInv, Ismc!StartSequence
  PROVE  CallInv' /\ IsmcInv' /\ PromisedStep
<1>1. NewBound
  BY IsmcSteps DEF Ismc!StartSequence
<1>2. /\ Witnesses(i) = {} /\ itps' = <<>> /\ pc' = "chain"
      /\ UNCHANGED <<sys, opts, level, reachedK, bound, i, path, invar, result, reachSeq>>
  BY IsmcSteps DEF Ismc!StartSequence
<1>3. /\ reachedK \in Nat /\ i = reachedK + 1 /\ i \in Nat \ {0} /\ result = "NONE"
      /\ pc = "loop"
  BY <1>1, NewBoundFacts
<1>4. itps' \in Seq(SUBSET States) /\ Len(itps') = 0
  BY <1>2, EmptySeq
<1>5. ChainInv'
  BY <1>2, <1>3, <1>4 DEF ChainInv
<1>6. ReachSeqInv'
  BY <1>2, <1>3 DEF IsmcInv, ReachSeqInv, Img
<1>7. Cexs(sys, i)' = {}
  BY <1>2, WitnessesAreCexs
<1> QED
  BY <1>2, <1>3, <1>5, <1>6, <1>7 DEF CallInv, IsmcInv, PromisedStep, Busy

\* The next interpolant holds the image of the one before it; the last one is
\* separated from the target itself, the one before it from its predecessors.
LEMMA NextItpsFacts ==
  ASSUME sys.trans \subseteq States \X States,
         itps \in Seq(SUBSET States), NEW from, NEW to \in SUBSET States, NEW n \in Nat,
         Len(itps) < n, NEW X \in NextItps(from, to, n)
  PROVE  /\ X \in SUBSET States
         /\ Len(itps) = 0 => Img(from) \subseteq X
         /\ Len(itps) > 0 => Img(itps[Len(itps)]) \subseteq X
         /\ Len(itps) = n - 1 => X \cap to = {}
         /\ Len(itps) = n - 2 => X \cap Pre(to) = {}
<1>1. /\ X \in SUBSET States
      /\ Img(IF itps = <<>> THEN from ELSE itps[Len(itps)]) \subseteq X
      /\ X \cap BackTo(to, n - 1 - Len(itps)) = {}
  BY DEF NextItps, Interpolants
<1>2. Len(itps) \in Nat /\ (Len(itps) = 0 <=> itps = <<>>)
  BY EmptySeq
<1>3. Starts(sys, to, 0) = to /\ Starts(sys, to, 1) = PreOf(sys, to)
  <2>1. Starts(sys, to, 0) = to /\ Starts(sys, to, 0 + 1) = PreOf(sys, Starts(sys, to, 0))
    BY StartsStep
  <2> QED
    BY <2>1
<1>4. Len(itps) = n - 1 => X \cap to = {}
  BY <1>1, <1>2, <1>3, BackToStarts
<1>5. Len(itps) = n - 2 => X \cap Pre(to) = {}
  <2> SUFFICES ASSUME Len(itps) = n - 2
               PROVE  X \cap Pre(to) = {}
    OBVIOUS
  <2>1. n - 1 - Len(itps) = 1
    BY <1>2
  <2>2. BackTo(to, 1) = Pre(to)
    BY <1>3, BackToStarts DEF Pre, PreOf
  <2> QED
    BY <1>1, <2>1, <2>2
<1> QED
  BY <1>1, <1>2, <1>4, <1>5

\* Appending it keeps what the sequence is built for.
LEMMA ChainGrows ==
  ASSUME itps \in Seq(SUBSET States), NEW from, NEW X \in SUBSET States,
         Len(itps) = 0 => Img(from) \subseteq X,
         Len(itps) > 0 => Img(itps[Len(itps)]) \subseteq X,
         Len(itps) > 0 => Img(from) \subseteq itps[1],
         \A j \in 1..Len(itps) - 1 : Img(itps[j]) \subseteq itps[j + 1],
         NEW seq, seq = Append(itps, X)
  PROVE  /\ seq \in Seq(SUBSET States) /\ Len(seq) = Len(itps) + 1
         /\ seq[Len(seq)] = X
         /\ \A j \in 1..Len(itps) : seq[j] = itps[j]
         /\ Img(from) \subseteq seq[1]
         /\ \A j \in 1..Len(seq) - 1 : Img(seq[j]) \subseteq seq[j + 1]
<1>1. /\ seq \in Seq(SUBSET States) /\ Len(seq) = Len(itps) + 1
      /\ \A j \in 1..Len(itps) : seq[j] = itps[j]
      /\ seq[Len(itps) + 1] = X
  BY AppendSeq
<1>2. Len(itps) \in Nat
  OBVIOUS
<1>3. Img(from) \subseteq seq[1]
  BY <1>1, <1>2
<1>4. ASSUME NEW j \in 1..Len(seq) - 1
      PROVE  Img(seq[j]) \subseteq seq[j + 1]
  <2>1. CASE j = Len(itps)
    BY <1>1, <1>2, <2>1
  <2>2. CASE j # Len(itps)
    <3>1. j \in 1..Len(itps) /\ j + 1 \in 1..Len(itps) /\ j \in 1..Len(itps) - 1
      BY <1>1, <1>2, <2>2
    <3> QED
      BY <1>1, <3>1
  <2> QED
    BY <2>1, <2>2
<1> QED
  BY <1>1, <1>3, <1>4

LEMMA IsmcNextInterpolant ==
  ASSUME CallInv, IsmcInv, Ismc!NextInterpolant
  PROVE  CallInv' /\ IsmcInv' /\ PromisedStep
<1>1. /\ pc = "chain" /\ Len(itps) < i
      /\ UNCHANGED <<sys, opts, level, reachedK, bound, i, pc, path, invar, result, reachSeq>>
  BY DEF Ismc!NextInterpolant
<1>2. PICK X \in NextItps(sys.init, sys.bad, i) : itps' = Append(itps, X)
  <2>1. Ismc!NextItps(sys.init, sys.bad, i) = NextItps(sys.init, sys.bad, i)
    BY IsmcOps DEF Ismc!NextItps, NextItps, Interpolants
  <2> QED
    BY <2>1 DEF Ismc!NextInterpolant
<1>3. sys \in Systems /\ i \in Nat /\ result = "NONE"
  BY <1>1 DEF CallInv, Busy
<1>4. /\ sys.init \subseteq States /\ sys.bad \subseteq States
      /\ sys.trans \subseteq States \X States
  BY <1>3, SystemParts
<1>5. ChainInv /\ ReachSeqInv /\ Cexs(sys, i) = {}
  BY <1>1 DEF IsmcInv
<1>6. itps \in Seq(SUBSET States) /\ Len(itps) \in Nat
  BY <1>5 DEF ChainInv
<1>7. /\ X \in SUBSET States
      /\ Len(itps) = 0 => Img(sys.init) \subseteq X
      /\ Len(itps) > 0 => Img(itps[Len(itps)]) \subseteq X
      /\ Len(itps) = i - 1 => X \cap sys.bad = {}
  <2> DEFINE from == sys.init
             to == sys.bad
             n == i
  <2>1. X \in NextItps(from, to, n) /\ to \in SUBSET States /\ n \in Nat /\ Len(itps) < n
    BY <1>1, <1>2, <1>3, <1>4
  <2> HIDE DEF from, to, n
  <2>2. /\ X \in SUBSET States
        /\ Len(itps) = 0 => Img(from) \subseteq X
        /\ Len(itps) > 0 => Img(itps[Len(itps)]) \subseteq X
        /\ Len(itps) = n - 1 => X \cap to = {}
    BY <2>1, <1>4, <1>6, NextItpsFacts, ZenonT(60)
  <2> QED
    BY <2>2 DEF from, to, n
<1>8. /\ itps' \in Seq(SUBSET States) /\ Len(itps') = Len(itps) + 1
      /\ itps'[Len(itps')] = X
      /\ Img(sys.init) \subseteq itps'[1]
      /\ \A j \in 1..Len(itps') - 1 : Img(itps'[j]) \subseteq itps'[j + 1]
  BY <1>2, <1>5, <1>6, <1>7, ChainGrows DEF ChainInv
<1>9. ChainInv'
  <2>1. Len(itps') <= i'
    BY <1>1, <1>3, <1>6, <1>8
  <2>2. Len(itps') = i' => itps'[i'] \cap sys'.bad = {}
    BY <1>1, <1>3, <1>6, <1>7, <1>8
  <2>3. /\ Len(itps') > 0 => Img(sys.init)' \subseteq itps'[1]
        /\ \A j \in 1..Len(itps') - 1 : Img(itps[j])' \subseteq itps'[j + 1]
    BY <1>1, <1>8 DEF Img
  <2> QED
    BY <1>8, <2>1, <2>2, <2>3 DEF ChainInv
<1>10. ReachSeqInv'
  BY <1>1, <1>5 DEF ReachSeqInv, Img
<1> QED
  BY <1>1, <1>3, <1>5, <1>9, <1>10 DEF CallInv, IsmcInv, PromisedStep, Shown

\* The first fixed point of a sequence that starts at the initial states, or
\* the negation of the first one that starts at the bad states, proves the
\* property.
LEMMA FixedPointJoins ==
  ASSUME NEW seq, Len(seq) \in Nat, FixedPoints(seq) # {}
  PROVE  \E m \in FixedPoints(seq) : FixedPoint(seq) = Joined(seq, m)
<1>1. FixedPoints(seq) \subseteq Nat
  BY DEF FixedPoints
<1>2. Min(FixedPoints(seq)) \in FixedPoints(seq)
  BY <1>1, MinOfNats
<1> QED
  BY <1>2 DEF FixedPoint

LEMMA ClearInit ==
  ASSUME NEW sy, sy.init \in SUBSET States, NEW n \in Nat, Clear(sy, n)
  PROVE  sy.init \cap sy.bad = {}
<1> SUFFICES ASSUME NEW s \in sy.init, s \in sy.bad
             PROVE  FALSE
  OBVIOUS
<1>1. PICK p \in Paths(sy, 0) : p[0] = s
  BY PointPath
<1>2. p \in Cexs(sy, 0)
  BY <1>1 DEF Cexs
<1>3. Cexs(sy, 0) = {}
  BY DEF Clear
<1> QED
  BY <1>2, <1>3

LEMMA ForwardInvariant ==
  ASSUME sys.init \subseteq States, sys.trans \subseteq States \X States,
         NEW seq \in Seq(SUBSET States), seq[1] = sys.init,
         \A j \in 1..Len(seq) - 1 : Img(seq[j]) \subseteq seq[j + 1],
         sys.init \cap sys.bad = {},
         \A j \in 2..Len(seq) - 1 : seq[j] \cap sys.bad = {},
         FixedPoints(seq) # {}
  PROVE  /\ Inductive(sys, FixedPoint(seq))
         /\ FixedPoint(seq) \cap sys.bad = {}
         /\ Safe(sys)
<1>1. PICK m \in FixedPoints(seq) : FixedPoint(seq) = Joined(seq, m)
  BY FixedPointJoins
<1>2. m \in 1..Len(seq) - 1 /\ Len(seq) \in Nat
  BY DEF FixedPoints
<1>3. Joined(seq, m) \in SUBSET States
  BY <1>2 DEF Joined
<1>4. sys.init \subseteq Joined(seq, m)
  BY <1>2 DEF Joined
<1>5. \A e \in sys.trans : e[1] \in Joined(seq, m) => e[2] \in Joined(seq, m)
  BY JoinedClosed
<1>6. Joined(seq, m) \cap sys.bad = {}
  <2> SUFFICES ASSUME NEW j \in 1..m
               PROVE  seq[j] \cap sys.bad = {}
    BY DEF Joined
  <2>1. j = 1 \/ j \in 2..Len(seq) - 1
    BY <1>2
  <2> QED
    BY <2>1
<1> QED
  BY <1>1, <1>3, <1>4, <1>5, <1>6 DEF Inductive, Safe

LEMMA BackwardInvariant ==
  ASSUME sys.init \subseteq States, sys.bad \subseteq States,
         sys.trans \subseteq States \X States,
         NEW seq \in Seq(SUBSET States), seq[1] = sys.bad,
         \A j \in 1..Len(seq) - 1 : Pre(seq[j]) \subseteq seq[j + 1],
         sys.init \cap sys.bad = {},
         \A j \in 2..Len(seq) - 1 : seq[j] \cap sys.init = {},
         FixedPoints(seq) # {}
  PROVE  /\ Inductive(sys, Neg(FixedPoint(seq)))
         /\ Neg(FixedPoint(seq)) \cap sys.bad = {}
         /\ Safe(sys)
<1>1. PICK m \in FixedPoints(seq) : FixedPoint(seq) = Joined(seq, m)
  BY FixedPointJoins
<1>2. m \in 1..Len(seq) - 1 /\ Len(seq) \in Nat
  BY DEF FixedPoints
<1> DEFINE X == Neg(Joined(seq, m))
<1>3. X \in SUBSET States /\ \A s \in States : s \in X <=> s \notin Joined(seq, m)
  BY DEF Neg
<1>4. sys.bad \subseteq Joined(seq, m)
  BY <1>2 DEF Joined
<1>5. \A e \in sys.trans : e[2] \in Joined(seq, m) => e[1] \in Joined(seq, m)
  BY JoinedClosedBack
<1>6. sys.init \cap Joined(seq, m) = {}
  <2> SUFFICES ASSUME NEW j \in 1..m
               PROVE  seq[j] \cap sys.init = {}
    BY DEF Joined
  <2>1. j = 1 \/ j \in 2..Len(seq) - 1
    BY <1>2
  <2> QED
    BY <2>1
<1> HIDE DEF X
<1>7. sys.init \subseteq X /\ X \cap sys.bad = {}
  BY <1>3, <1>4, <1>6
<1>8. \A e \in sys.trans : e[1] \in X => e[2] \in X
  <2> SUFFICES ASSUME NEW e \in sys.trans, e[1] \in X
               PROVE  e[2] \in X
    OBVIOUS
  <2>1. e[1] \in States /\ e[2] \in States
    OBVIOUS
  <2> QED
    BY <1>3, <1>5, <2>1
<1>9. Inductive(sys, X) /\ Safe(sys)
  BY <1>3, <1>7, <1>8 DEF Inductive, Safe
<1> QED
  BY <1>1, <1>7, <1>9 DEF X

\* Strengthening keeps the images and excludes the bad states from the new set.
LEMMA IsmcStrengthened ==
  ASSUME sys.init \subseteq States, ReachSeqInv, ChainInv, reachedK \in Nat,
         i = reachedK + 1, Len(itps) = i, NEW seq, seq = Ismc!Strengthened
  PROVE  /\ seq \in Seq(SUBSET States) /\ Len(seq) = i + 1 /\ seq[1] = sys.init
         /\ \A j \in 1..Len(seq) - 1 : Img(seq[j]) \subseteq seq[j + 1]
         /\ \A j \in 2..Len(seq) : seq[j] \cap sys.bad = {}
<1>1. /\ reachSeq \in Seq(SUBSET States) /\ Len(reachSeq) = i /\ reachSeq[1] = sys.init
      /\ \A j \in 1..i - 1 : Img(reachSeq[j]) \subseteq reachSeq[j + 1]
      /\ \A j \in 2..i : reachSeq[j] \cap sys.bad = {}
  BY DEF ReachSeqInv
<1>2. /\ itps \in Seq(SUBSET States) /\ Img(sys.init) \subseteq itps[1]
      /\ \A j \in 1..i - 1 : Img(itps[j]) \subseteq itps[j + 1]
      /\ itps[i] \cap sys.bad = {}
  BY DEF ChainInv
<1>3. \A j \in 1..i : reachSeq[j] \in SUBSET States /\ itps[j] \in SUBSET States
  BY <1>1, <1>2
<1>4. seq = [ j \in 1..i + 1 |->
                IF j = 1 THEN reachSeq[1]
                ELSE itps[j - 1] \cap (IF j <= i THEN reachSeq[j] ELSE States) ]
  BY DEF Ismc!Strengthened
<1>5. seq \in [1..i + 1 -> SUBSET States]
  <2>1. \A j \in 1..i + 1 : j # 1 => j - 1 \in 1..i
    OBVIOUS
  <2>2. \A j \in 1..i + 1 :
          (IF j = 1 THEN reachSeq[1]
           ELSE itps[j - 1] \cap (IF j <= i THEN reachSeq[j] ELSE States)) \in SUBSET States
    BY <1>3, <2>1
  <2> QED
    BY <1>4, <2>2
<1>6. seq \in Seq(SUBSET States) /\ Len(seq) = i + 1
  <2>1. i + 1 \in Nat
    OBVIOUS
  <2> QED
    BY <1>5, <2>1, FunctionIsSeq
<1>7. seq[1] = sys.init
  BY <1>1, <1>4
<1>8. ASSUME NEW j \in 1..Len(seq) - 1
      PROVE  Img(seq[j]) \subseteq seq[j + 1]
  <2>1. j \in 1..i /\ j + 1 \in 1..i + 1 /\ j + 1 # 1 /\ (j + 1) - 1 = j
    BY <1>6
  <2>2. seq[j + 1] = itps[j] \cap (IF j + 1 <= i THEN reachSeq[j + 1] ELSE States)
    BY <1>4, <2>1
  <2>3. /\ j # 1 => seq[j] \subseteq itps[j - 1]
        /\ seq[j] \subseteq reachSeq[j]
    <3>1. j \in 1..i + 1 /\ j <= i
      BY <2>1
    <3>2. seq[j] = IF j = 1 THEN reachSeq[1] ELSE itps[j - 1] \cap reachSeq[j]
      BY <1>4, <3>1
    <3> QED
      BY <3>2
  <2>4. Img(seq[j]) \subseteq itps[j]
    <3>1. CASE j = 1
      BY <1>2, <1>7, <3>1
    <3>2. CASE j # 1
      <4>1. j - 1 \in 1..i - 1 /\ (j - 1) + 1 = j
        BY <2>1, <3>2
      <4>2. seq[j] \subseteq itps[j - 1]
        BY <2>3, <3>2
      <4>3. Img(itps[j - 1]) \subseteq itps[j]
        BY <1>2, <4>1
      <4> QED
        BY <4>2, <4>3 DEF Img
    <3> QED
      BY <3>1, <3>2
  <2>5. ASSUME j + 1 <= i
        PROVE  Img(seq[j]) \subseteq reachSeq[j + 1]
    <3>1. seq[j] \subseteq reachSeq[j]
      BY <2>3
    <3>2. j \in 1..i - 1
      BY <2>1, <2>5
    <3>3. Img(reachSeq[j]) \subseteq reachSeq[j + 1]
      BY <1>1, <3>2
    <3> QED
      BY <3>1, <3>3 DEF Img
  <2>6. Img(seq[j]) \subseteq States
    BY DEF Img
  <2> QED
    BY <2>2, <2>4, <2>5, <2>6
<1>9. ASSUME NEW j \in 2..Len(seq)
      PROVE  seq[j] \cap sys.bad = {}
  <2>1. j \in 1..i + 1 /\ j # 1
    BY <1>6
  <2>2. CASE j <= i
    <3>1. j \in 2..i /\ seq[j] \subseteq reachSeq[j]
      BY <1>4, <2>1, <2>2
    <3> QED
      BY <1>1, <3>1
  <2>3. CASE j > i
    <3>1. j - 1 = i /\ seq[j] \subseteq itps[j - 1]
      BY <1>4, <2>1, <2>3
    <3> QED
      BY <1>2, <3>1
  <2> QED
    BY <2>1, <2>2, <2>3
<1> QED
  BY <1>6, <1>7, <1>8, <1>9

LEMMA IsmcStrengthen ==
  ASSUME CallInv, IsmcInv, Ismc!Strengthen, opts.engine = "ismc"
  PROVE  CallInv' /\ IsmcInv' /\ PromisedStep
<1>1. /\ pc = "chain" /\ Len(itps) = i /\ reachSeq' = Ismc!Strengthened
      /\ UNCHANGED <<sys, opts, level, bound, itps, path>>
  BY DEF Ismc!Strengthen
<1>2. /\ sys \in Systems /\ i \in Nat /\ result = "NONE" /\ reachedK \in Nat
      /\ i = reachedK + 1 /\ Clear(sys, reachedK)
  BY <1>1 DEF CallInv, Busy
<1>3. /\ sys.init \subseteq States /\ sys.bad \subseteq States
      /\ sys.trans \subseteq States \X States
  BY <1>2, SystemParts
<1>4. ChainInv /\ ReachSeqInv /\ Cexs(sys, i) = {}
  BY <1>1 DEF IsmcInv
<1>5. /\ reachSeq' \in Seq(SUBSET States) /\ Len(reachSeq') = i + 1 /\ reachSeq'[1] = sys.init
      /\ \A j \in 1..Len(reachSeq') - 1 : Img(reachSeq'[j]) \subseteq reachSeq'[j + 1]
      /\ \A j \in 2..Len(reachSeq') : reachSeq'[j] \cap sys.bad = {}
  BY <1>1, <1>2, <1>3, <1>4, IsmcStrengthened
<1>6. CASE FixedPoints(reachSeq') # {}
  <2>1. /\ invar' = FixedPoint(reachSeq') /\ result' = "TRUE" /\ pc' = "done"
        /\ UNCHANGED <<i, reachedK>>
    BY <1>6, IsmcOps DEF Ismc!Strengthen, Ismc!Proved
  <2>2. sys.init \cap sys.bad = {}
    BY <1>2, <1>3, ClearInit
  <2>3. \A j \in 2..Len(reachSeq') - 1 : reachSeq'[j] \cap sys.bad = {}
    <3>1. \A j \in 2..Len(reachSeq') - 1 : j \in 2..Len(reachSeq')
      BY <1>5
    <3> QED
      BY <1>5, <3>1
  <2>4. /\ Inductive(sys, FixedPoint(reachSeq')) /\ FixedPoint(reachSeq') \cap sys.bad = {}
        /\ Safe(sys)
    BY <1>3, <1>5, <1>6, <2>2, <2>3, ForwardInvariant
  <2>5. Shown'
    BY <1>1, <2>1, <2>4 DEF Shown
  <2> QED
    BY <1>1, <1>2, <2>1, <2>4, <2>5 DEF CallInv, IsmcInv, PromisedStep, Busy
<1>7. CASE FixedPoints(reachSeq') = {}
  <2>1. /\ i' = i + 1 /\ pc' = "loop" /\ UNCHANGED <<invar, result>> /\ reachedK' = reachedK + 1
    BY <1>7, IsmcOps DEF Ismc!Strengthen, Ismc!ToNextBound
  <2>2. Clear(sys, reachedK + 1)
    BY <1>2, <1>4, ClearNext
  <2>3. ReachSeqInv'
    <3>1. Len(reachSeq') = (IF reachedK' >= 0 THEN reachedK' + 1 ELSE 1)
      BY <1>2, <1>5, <2>1
    <3> QED
      BY <1>1, <1>5, <3>1 DEF ReachSeqInv, Img
  <2> QED
    BY <1>1, <1>2, <2>1, <2>2, <2>3 DEF CallInv, IsmcInv, PromisedStep, Busy
<1> QED
  BY <1>6, <1>7

LEMMA ReachSeqKept ==
  ASSUME ReachSeqInv, UNCHANGED <<sys, reachSeq>>,
         reachedK' = reachedK \/ (reachedK = -1 /\ reachedK' = 0)
  PROVE  ReachSeqInv'
<1>1. Len(reachSeq') = IF reachedK' >= 0 THEN reachedK' + 1 ELSE 1
  <2>1. Len(reachSeq') = IF reachedK >= 0 THEN reachedK + 1 ELSE 1
    BY DEF ReachSeqInv
  <2>2. CASE reachedK' = reachedK
    BY <2>1, <2>2
  <2>3. CASE reachedK = -1 /\ reachedK' = 0
    BY <2>1, <2>3
  <2> QED
    BY <2>2, <2>3
<1> QED
  BY <1>1 DEF ReachSeqInv, Img

LEMMA IsmcStepKeeps ==
  ASSUME CallInv, IsmcInv, opts.engine = "ismc", Ismc!Step
  PROVE  CallInv' /\ IsmcInv' /\ PromisedStep
<1>1. CASE Ismc!EngineStep /\ UNCHANGED reachSeq
  <2>1. EngineStep
    BY <1>1, IsmcSteps
  <2>2. CallInv' /\ PromisedStep
    BY <2>1, EngineStepKeeps
  <2>3. IsmcInv'
    <3>1. CASE LoopExit
      <4>1. ReachSeqInv'
        BY <1>1, <3>1, ReachSeqKept DEF LoopExit, IsmcInv
      <4> QED
        BY <3>1, <4>1 DEF LoopExit, CallInv, IsmcInv, Busy
    <3>2. CASE StepCovered
      <4>1. ReachSeqInv'
        BY <1>1, <3>2, ReachSeqKept DEF StepCovered, IsmcInv
      <4> QED
        BY <3>2, <4>1 DEF StepCovered, IsmcInv, Busy
    <3>3. CASE Step0Bad
      BY <3>3 DEF Step0Bad, Refuted, IsmcInv, Busy
    <3>4. CASE Step0Good
      <4>1. reachedK = -1 /\ pc = "loop" /\ result = "NONE"
        BY <3>4 DEF Step0Good, CallInv
      <4>2. reachedK' = 0 /\ pc' = "loop" /\ result' = result /\ level' = level /\ sys' = sys
        BY <3>4 DEF Step0Good, ToNextBound
      <4>3. ReachSeqInv'
        BY <1>1, <4>1, <4>2, ReachSeqKept DEF IsmcInv
      <4> QED
        BY <4>1, <4>2, <4>3 DEF IsmcInv, Busy
    <3>5. CASE InterpolatorFails
      <4>1. pc \in Busy /\ pc = "chain" /\ result = "NONE"
        BY <3>5 DEF InterpolatorFails, CallInv, IsmcInv, Busy
      <4>2. ReachSeqInv'
        BY <1>1, <3>5, <4>1, ReachSeqKept DEF InterpolatorFails, IsmcInv
      <4> QED
        BY <3>5, <4>1, <4>2 DEF InterpolatorFails, IsmcInv, Busy
    <3> QED
      BY <2>1, <3>1, <3>2, <3>3, <3>4, <3>5 DEF EngineStep
  <2> QED
    BY <2>2, <2>3
<1>2. CASE Ismc!Concrete
  BY <1>2, IsmcConcrete
<1>3. CASE Ismc!StartSequence
  BY <1>3, IsmcStartSequence
<1>4. CASE Ismc!NextInterpolant
  BY <1>4, IsmcNextInterpolant
<1>5. CASE Ismc!Strengthen
  BY <1>5, IsmcStrengthen
<1> QED
  BY <1>1, <1>2, <1>3, <1>4, <1>5 DEF Ismc!Step

LEMMA IsmcResetKeeps ==
  ASSUME CallInv, IsmcInv, Ismc!Reset
  PROVE  CallInv' /\ IsmcInv' /\ PromisedStep
<1>1. ResetEnv
  BY IsmcSteps DEF Ismc!Reset
<1>2. CallInv' /\ PromisedStep
  BY <1>1, ResetEnvKeeps
<1>3. sys' \in Systems /\ level' = 0 /\ reachedK' = -1 /\ result' = "NONE" /\ pc' = "idle"
  BY <1>1 DEF ResetEnv
<1>4. reachSeq' = <<sys'.init>> /\ sys'.init \in SUBSET States
  BY <1>3, SystemParts DEF Ismc!Reset
<1>5. reachSeq' \in Seq(SUBSET States) /\ Len(reachSeq') = 1 /\ reachSeq'[1] = sys'.init
  BY <1>4, SingleSeq
<1>6. ReachSeqInv'
  BY <1>3, <1>5 DEF ReachSeqInv
<1> QED
  BY <1>2, <1>3, <1>6 DEF IsmcInv, Busy

LEMMA IsmcCallKeeps ==
  ASSUME CallInv, IsmcInv, NEW k \in Bounds, CheckUntil(k), UNCHANGED reachSeq
  PROVE  IsmcInv'
BY DEF CheckUntil, CallInv, IsmcInv, ReachSeqInv, Img, Busy

\* The assertions of the engine ismc follow from its invariant.
LEMMA IsmcAssertions ==
  ASSUME CallInv, IsmcInv
  PROVE  Ismc!AssertionsHold
<1>1. ASSUME pc = "chain"
      PROVE  Len(reachSeq) = i /\ i = reachedK + 1
  BY <1>1 DEF CallInv, IsmcInv, ReachSeqInv, Busy
<1>2. pc # "error"
  BY DEF CallInv, Busy
<1> QED
  BY <1>1, <1>2 DEF Ismc!AssertionsHold, IsmcInv

-----------------------------------------------------------------------------
(* The two sequences of dual approximated reachability: images stay inside *)
(* the forward one, predecessors inside the backward one.  Strengthening   *)
(* only replaces the last set of a pair, so both hold in between as well.  *)

ForwardChain ==
  /\ forwardSeq \in Seq(SUBSET States) /\ Len(forwardSeq) >= 1
  /\ forwardSeq[1] = sys.init
  /\ \A j \in 1..Len(forwardSeq) - 1 : Img(forwardSeq[j]) \subseteq forwardSeq[j + 1]

BackwardChain ==
  /\ backwardSeq \in Seq(SUBSET States) /\ Len(backwardSeq) >= 1
  /\ backwardSeq[1] = sys.bad
  /\ \A j \in 1..Len(backwardSeq) - 1 : Pre(backwardSeq[j]) \subseteq backwardSeq[j + 1]

\* The sets before position n exclude the bad, or the initial, states.
ForwardExcludes(n) == \A j \in 2..n : forwardSeq[j] \cap sys.bad = {}
BackwardExcludes(n) == \A j \in 2..n : backwardSeq[j] \cap sys.init = {}

\* At most the last set does not yet: the one a pass still has to strengthen.
DarLengths ==
  LET len == IF reachedK >= 0 THEN reachedK + 1 ELSE 1
  IN  /\ Len(forwardSeq) = IF pc \in {"forward", "backward"} THEN len + 1 ELSE len
      /\ Len(backwardSeq) = IF pc = "backward" THEN len + 1 ELSE len

DarSequences ==
  /\ ForwardChain /\ BackwardChain
  /\ ForwardExcludes(IF pc = "forward" /\ pos <= reachedK THEN reachedK + 1
                     ELSE Len(forwardSeq))
  /\ BackwardExcludes(IF pc = "backward" /\ pos <= reachedK THEN reachedK + 1
                      ELSE Len(backwardSeq))

\* The index that was found, and how far a pass is.  A step from the forward
\* set at idx into the backward set opposite is impossible, and a pass hands
\* this on from position to position.
DarPass ==
  /\ pc \in {"chain", "forward", "backward"} => idx \in 0..reachedK
  /\ pc = "forward" =>
       /\ Img(forwardSeq[idx + 1]) \cap backwardSeq[reachedK + 1 - idx] = {}
       /\ pos \in idx..reachedK + 1
       /\ pos <= reachedK => Img(forwardSeq[pos + 1]) \cap backwardSeq[reachedK + 1 - pos] = {}
  /\ pc = "backward" =>
       /\ pos \in reachedK - idx..reachedK + 1
       /\ pos <= reachedK => Pre(backwardSeq[pos + 1]) \cap forwardSeq[reachedK + 1 - pos] = {}

\* The interpolants from the initial states towards the backward set opposite.
DarChain ==
  pc = "chain" =>
    /\ idx \in 1..reachedK
    /\ itps \in Seq(SUBSET States) /\ Len(itps) <= idx + 1
    /\ Len(itps) > 0 => Img(sys.init) \subseteq itps[1]
    /\ \A j \in 1..Len(itps) - 1 : Img(itps[j]) \subseteq itps[j + 1]
    /\ Len(itps) >= idx => itps[idx] \cap Pre(backwardSeq[reachedK + 1 - idx]) = {}

DarInv ==
  /\ level = IF result = "FALSE" THEN reachedK + 2 ELSE 0
  /\ pc \in Busy => pc \in {"chain", "forward", "backward"}
  /\ pc \notin {"done", "failed"} => DarLengths /\ DarSequences
  /\ DarPass /\ DarChain
  /\ pc = "backward" => Cexs(sys, reachedK + 1) = {}

LEMMA DarSteps ==
  /\ \A sy, n : Dar!Paths(sy, n) = Paths(sy, n)
  /\ \A n : Dar!Witnesses(n) = Witnesses(n)
  /\ Dar!EngineStep => EngineStep
  /\ Dar!ResetEnv => ResetEnv
  /\ Dar!NewBound => NewBound
<1>1. \A sy, n : Dar!Paths(sy, n) = Paths(sy, n)
  BY DEF Dar!Paths, Paths
<1>2. \A n : Dar!Witnesses(n) = Witnesses(n)
  BY <1>1 DEF Dar!Witnesses, Witnesses
<1>3. Dar!EngineStep => EngineStep
  <2>1. Dar!LoopExit => LoopExit
    BY DEF Dar!LoopExit, LoopExit
  <2>2. Dar!StepCovered => StepCovered
    BY DEF Dar!StepCovered, StepCovered
  <2>3. Dar!Step0Bad => Step0Bad
    BY <1>2 DEF Dar!Step0Bad, Step0Bad, Dar!Refuted, Refuted
  <2>4. Dar!Step0Good => Step0Good
    BY <1>2 DEF Dar!Step0Good, Step0Good, Dar!ToNextBound, ToNextBound
  <2>5. Dar!InterpolatorFails => InterpolatorFails
    BY DEF Dar!InterpolatorFails, InterpolatorFails
  <2> QED
    BY <2>1, <2>2, <2>3, <2>4, <2>5 DEF Dar!EngineStep, EngineStep
<1>4. Dar!ResetEnv => ResetEnv
  BY <1>1 DEF Dar!ResetEnv, ResetEnv
<1>5. Dar!NewBound => NewBound
  BY DEF Dar!NewBound, NewBound
<1> QED
  BY <1>1, <1>2, <1>3, <1>4, <1>5

LEMMA DarOps ==
  /\ \A X : Dar!Img(X) = Img(X)
  /\ \A X : Dar!Pre(X) = Pre(X)
  /\ \A X, Y : Dar!Interpolants(X, Y) = { Z \in SUBSET States : X \subseteq Z /\ Z \cap Y = {} }
  /\ \A seq : Dar!FixedPoints(seq) = FixedPoints(seq)
  /\ \A seq : Dar!FixedPoint(seq) = FixedPoint(seq)
  /\ \A X, n : Dar!BackTo(X, n) = BackTo(X, n)
  /\ \A T : Dar!Min(T) = Min(T)
<1>1. \A X : Dar!Img(X) = Img(X) /\ Dar!Pre(X) = Pre(X)
  BY DEF Dar!Img, Img, Dar!Pre, Pre
<1>2. \A X, Y : Dar!Interpolants(X, Y) = { Z \in SUBSET States : X \subseteq Z /\ Z \cap Y = {} }
  BY DEF Dar!Interpolants
<1>3. \A seq, m : Dar!Joined(seq, m) = Joined(seq, m)
  BY DEF Dar!Joined, Joined
<1>4. \A seq : Dar!FixedPoints(seq) = FixedPoints(seq)
  BY <1>3 DEF Dar!FixedPoints, FixedPoints
<1>5. \A T : Dar!Min(T) = Min(T)
  BY DEF Dar!Min, Min
<1>6. \A seq : Dar!FixedPoint(seq) = FixedPoint(seq)
  BY <1>3, <1>4, <1>5 DEF Dar!FixedPoint, FixedPoint
<1>7. \A X, n : Dar!BackTo(X, n) = BackTo(X, n)
  BY DEF Dar!BackTo, BackTo, Dar!Pre, Pre
<1> QED
  BY <1>1, <1>2, <1>4, <1>5, <1>6, <1>7

LEMMA StrengthenedAt ==
  ASSUME NEW seq \in Seq(SUBSET States), NEW p \in Nat, p + 1 \in 1..Len(seq), NEW X,
         NEW new, new = Dar!StrengthenAt(seq, p, X)
  PROVE  /\ new \in Seq(SUBSET States) /\ Len(new) = Len(seq)
         /\ new[p + 1] = seq[p + 1] \cap X
         /\ \A j \in 1..Len(seq) : j # p + 1 => new[j] = seq[j]
         /\ \A j \in 1..Len(seq) : new[j] \subseteq seq[j]
<1>1. new = [seq EXCEPT ![p + 1] = seq[p + 1] \cap X]
  BY DEF Dar!StrengthenAt
<1>2. seq[p + 1] \in SUBSET States
  OBVIOUS
<1> DEFINE e == seq[p + 1] \cap X
           q == p + 1
<1>3. e \in SUBSET States /\ q \in 1..Len(seq)
  BY <1>2
<1>4. new = [seq EXCEPT ![q] = e]
  BY <1>1
<1> HIDE DEF e, q
<1>5. /\ new \in Seq(SUBSET States) /\ Len(new) = Len(seq)
      /\ \A j \in 1..Len(seq) : new[j] = IF j = q THEN e ELSE seq[j]
  BY <1>3, <1>4, ExceptSeq
<1> QED
  BY <1>3, <1>5 DEF e, q

LEMMA ForwardChainGrows ==
  ASSUME NEW seq \in Seq(SUBSET States), Len(seq) >= 1, seq[1] = sys.init,
         \A j \in 1..Len(seq) - 1 : Img(seq[j]) \subseteq seq[j + 1],
         NEW new, new = Append(seq, States)
  PROVE  /\ new \in Seq(SUBSET States) /\ Len(new) = Len(seq) + 1
         /\ new[1] = sys.init
         /\ \A j \in 1..Len(new) - 1 : Img(new[j]) \subseteq new[j + 1]
         /\ \A j \in 1..Len(seq) : new[j] = seq[j]
<1>1. Len(seq) \in Nat
  OBVIOUS
<1>2. /\ new \in Seq(SUBSET States) /\ Len(new) = Len(seq) + 1
      /\ \A j \in 1..Len(seq) : new[j] = seq[j]
      /\ new[Len(seq) + 1] = States
  BY <1>1, AppendSeq
<1>3. new[1] = sys.init
  BY <1>1, <1>2
<1>4. ASSUME NEW j \in 1..Len(new) - 1
      PROVE  Img(new[j]) \subseteq new[j + 1]
  <2>1. CASE j = Len(seq)
    BY <1>2, <2>1 DEF Img
  <2>2. CASE j # Len(seq)
    <3>1. j \in 1..Len(seq) - 1 /\ j \in 1..Len(seq) /\ j + 1 \in 1..Len(seq)
      BY <1>1, <1>2, <2>2
    <3> QED
      BY <1>2, <3>1
  <2> QED
    BY <2>1, <2>2
<1> QED
  BY <1>2, <1>3, <1>4

\* Strengthening the set after position p with an interpolant of its image.
LEMMA ForwardChainStrengthened ==
  ASSUME ForwardChain, NEW p \in Nat, p + 2 <= Len(forwardSeq),
         NEW X, Img(forwardSeq[p + 1]) \subseteq X,
         NEW new, new = Dar!StrengthenAt(forwardSeq, p + 1, X)
  PROVE  /\ new \in Seq(SUBSET States) /\ Len(new) = Len(forwardSeq)
         /\ new[1] = sys.init
         /\ \A j \in 1..Len(new) - 1 : Img(new[j]) \subseteq new[j + 1]
         /\ \A j \in 1..Len(new) : new[j] \subseteq forwardSeq[j]
         /\ new[p + 2] \subseteq X
<1>1. forwardSeq \in Seq(SUBSET States) /\ Len(forwardSeq) \in Nat
  BY DEF ForwardChain
<1>2. p + 1 \in Nat /\ (p + 1) + 1 = p + 2 /\ (p + 1) + 1 \in 1..Len(forwardSeq)
  BY <1>1
<1>3. /\ new \in Seq(SUBSET States) /\ Len(new) = Len(forwardSeq)
      /\ new[(p + 1) + 1] = forwardSeq[(p + 1) + 1] \cap X
      /\ \A j \in 1..Len(forwardSeq) : j # (p + 1) + 1 => new[j] = forwardSeq[j]
      /\ \A j \in 1..Len(forwardSeq) : new[j] \subseteq forwardSeq[j]
  <2> DEFINE q == p + 1
  <2>1. q \in Nat /\ q + 1 \in 1..Len(forwardSeq)
    BY <1>2
  <2>2. new = Dar!StrengthenAt(forwardSeq, q, X)
    OBVIOUS
  <2> HIDE DEF q
  <2>3. /\ new \in Seq(SUBSET States) /\ Len(new) = Len(forwardSeq)
        /\ new[q + 1] = forwardSeq[q + 1] \cap X
        /\ \A j \in 1..Len(forwardSeq) : j # q + 1 => new[j] = forwardSeq[j]
        /\ \A j \in 1..Len(forwardSeq) : new[j] \subseteq forwardSeq[j]
    BY <1>1, <2>1, <2>2, StrengthenedAt
  <2> QED
    BY <2>3 DEF q
<1>4. new[p + 2] = forwardSeq[p + 2] \cap X
  BY <1>2, <1>3
<1>5. new[1] = sys.init
  <2>1. 1 \in 1..Len(forwardSeq) /\ 1 # (p + 1) + 1
    BY <1>1, <1>2
  <2> QED
    BY <1>3, <2>1 DEF ForwardChain
<1>6. ASSUME NEW j \in 1..Len(new) - 1
      PROVE  Img(new[j]) \subseteq new[j + 1]
  <2>1. j \in 1..Len(forwardSeq) - 1 /\ j \in 1..Len(forwardSeq) /\ j + 1 \in 1..Len(forwardSeq)
    BY <1>1, <1>3
  <2>2. new[j] \subseteq forwardSeq[j] /\ Img(forwardSeq[j]) \subseteq forwardSeq[j + 1]
    BY <1>3, <2>1 DEF ForwardChain
  <2>3. Img(new[j]) \subseteq Img(forwardSeq[j])
    BY <2>2 DEF Img
  <2>4. CASE j = p + 1
    <3>1. j + 1 = p + 2
      BY <2>4
    <3> QED
      BY <1>4, <2>2, <2>3, <2>4, <3>1
  <2>5. CASE j # p + 1
    <3>1. j + 1 # (p + 1) + 1
      BY <2>1, <2>5
    <3> QED
      BY <1>3, <2>1, <2>2, <2>3, <3>1
  <2> QED
    BY <2>4, <2>5
<1> QED
  BY <1>3, <1>4, <1>5, <1>6

LEMMA BackwardChainGrows ==
  ASSUME NEW seq \in Seq(SUBSET States), Len(seq) >= 1, seq[1] = sys.bad,
         \A j \in 1..Len(seq) - 1 : Pre(seq[j]) \subseteq seq[j + 1],
         NEW new, new = Append(seq, States)
  PROVE  /\ new \in Seq(SUBSET States) /\ Len(new) = Len(seq) + 1
         /\ new[1] = sys.bad
         /\ \A j \in 1..Len(new) - 1 : Pre(new[j]) \subseteq new[j + 1]
         /\ \A j \in 1..Len(seq) : new[j] = seq[j]
<1>1. Len(seq) \in Nat
  OBVIOUS
<1>2. /\ new \in Seq(SUBSET States) /\ Len(new) = Len(seq) + 1
      /\ \A j \in 1..Len(seq) : new[j] = seq[j]
      /\ new[Len(seq) + 1] = States
  BY <1>1, AppendSeq
<1>3. new[1] = sys.bad
  BY <1>1, <1>2
<1>4. ASSUME NEW j \in 1..Len(new) - 1
      PROVE  Pre(new[j]) \subseteq new[j + 1]
  <2>1. CASE j = Len(seq)
    BY <1>2, <2>1 DEF Pre
  <2>2. CASE j # Len(seq)
    <3>1. j \in 1..Len(seq) - 1 /\ j \in 1..Len(seq) /\ j + 1 \in 1..Len(seq)
      BY <1>1, <1>2, <2>2
    <3> QED
      BY <1>2, <3>1
  <2> QED
    BY <2>1, <2>2
<1> QED
  BY <1>2, <1>3, <1>4

\* Strengthening the set after position p with an interpolant of its predecessors.
LEMMA BackwardChainStrengthened ==
  ASSUME BackwardChain, NEW p \in Nat, p + 2 <= Len(backwardSeq),
         NEW X, Pre(backwardSeq[p + 1]) \subseteq X,
         NEW new, new = Dar!StrengthenAt(backwardSeq, p + 1, X)
  PROVE  /\ new \in Seq(SUBSET States) /\ Len(new) = Len(backwardSeq)
         /\ new[1] = sys.bad
         /\ \A j \in 1..Len(new) - 1 : Pre(new[j]) \subseteq new[j + 1]
         /\ \A j \in 1..Len(new) : new[j] \subseteq backwardSeq[j]
         /\ new[p + 2] \subseteq X
<1>1. backwardSeq \in Seq(SUBSET States) /\ Len(backwardSeq) \in Nat
  BY DEF BackwardChain
<1>2. p + 1 \in Nat /\ (p + 1) + 1 = p + 2 /\ (p + 1) + 1 \in 1..Len(backwardSeq)
  BY <1>1
<1>3. /\ new \in Seq(SUBSET States) /\ Len(new) = Len(backwardSeq)
      /\ new[(p + 1) + 1] = backwardSeq[(p + 1) + 1] \cap X
      /\ \A j \in 1..Len(backwardSeq) : j # (p + 1) + 1 => new[j] = backwardSeq[j]
      /\ \A j \in 1..Len(backwardSeq) : new[j] \subseteq backwardSeq[j]
  <2> DEFINE q == p + 1
  <2>1. q \in Nat /\ q + 1 \in 1..Len(backwardSeq)
    BY <1>2
  <2>2. new = Dar!StrengthenAt(backwardSeq, q, X)
    OBVIOUS
  <2> HIDE DEF q
  <2>3. /\ new \in Seq(SUBSET States) /\ Len(new) = Len(backwardSeq)
        /\ new[q + 1] = backwardSeq[q + 1] \cap X
        /\ \A j \in 1..Len(backwardSeq) : j # q + 1 => new[j] = backwardSeq[j]
        /\ \A j \in 1..Len(backwardSeq) : new[j] \subseteq backwardSeq[j]
    BY <1>1, <2>1, <2>2, StrengthenedAt
  <2> QED
    BY <2>3 DEF q
<1>4. new[p + 2] = backwardSeq[p + 2] \cap X
  BY <1>2, <1>3
<1>5. new[1] = sys.bad
  <2>1. 1 \in 1..Len(backwardSeq) /\ 1 # (p + 1) + 1
    BY <1>1, <1>2
  <2> QED
    BY <1>3, <2>1 DEF BackwardChain
<1>6. ASSUME NEW j \in 1..Len(new) - 1
      PROVE  Pre(new[j]) \subseteq new[j + 1]
  <2>1. j \in 1..Len(backwardSeq) - 1 /\ j \in 1..Len(backwardSeq) /\ j + 1 \in 1..Len(backwardSeq)
    BY <1>1, <1>3
  <2>2. new[j] \subseteq backwardSeq[j] /\ Pre(backwardSeq[j]) \subseteq backwardSeq[j + 1]
    BY <1>3, <2>1 DEF BackwardChain
  <2>3. Pre(new[j]) \subseteq Pre(backwardSeq[j])
    BY <2>2 DEF Pre
  <2>4. CASE j = p + 1
    <3>1. j + 1 = p + 2
      BY <2>4
    <3> QED
      BY <1>4, <2>2, <2>3, <2>4, <3>1
  <2>5. CASE j # p + 1
    <3>1. j + 1 # (p + 1) + 1
      BY <2>1, <2>5
    <3> QED
      BY <1>3, <2>1, <2>2, <2>3, <3>1
  <2> QED
    BY <2>4, <2>5
<1> QED
  BY <1>3, <1>4, <1>5, <1>6

LEMMA DarInit ==
  ASSUME Dar!Init
  PROVE  DarInv
<1>1. sys \in Systems /\ sys.init \in SUBSET States /\ sys.bad \in SUBSET States
  BY SystemParts DEF Dar!Init, Dar!EngineInit
<1>2. /\ forwardSeq = <<sys.init>> /\ backwardSeq = <<sys.bad>>
      /\ reachedK = -1 /\ pc = "idle" /\ level = 0 /\ result = "NONE"
  BY DEF Dar!Init, Dar!EngineInit
<1>3. /\ forwardSeq \in Seq(SUBSET States) /\ Len(forwardSeq) = 1 /\ forwardSeq[1] = sys.init
      /\ backwardSeq \in Seq(SUBSET States) /\ Len(backwardSeq) = 1 /\ backwardSeq[1] = sys.bad
  BY <1>1, <1>2, SingleSeq
<1>4. DarLengths
  BY <1>2, <1>3 DEF DarLengths
<1>5. DarSequences
  BY <1>2, <1>3 DEF DarSequences, ForwardChain, BackwardChain, ForwardExcludes, BackwardExcludes
<1> QED
  BY <1>2, <1>4, <1>5 DEF DarInv, DarPass, DarChain, Busy

\* The sequences when step starts.
LEMMA DarLoop ==
  ASSUME CallInv, DarInv, NewBound \/ pc = "chain"
  PROVE  /\ reachedK \in Nat /\ i = reachedK + 1 /\ i \in Nat \ {0}
         /\ result = "NONE" /\ Clear(sys, reachedK) /\ pc \in {"loop", "chain"}
         /\ sys \in Systems /\ sys.init \subseteq States /\ sys.bad \subseteq States
         /\ sys.trans \subseteq States \X States
         /\ Len(forwardSeq) = reachedK + 1 /\ Len(backwardSeq) = reachedK + 1
         /\ Dar!SeqLen = reachedK + 1
         /\ ForwardChain /\ BackwardChain
         /\ ForwardExcludes(reachedK + 1) /\ BackwardExcludes(reachedK + 1)
<1>1. /\ reachedK \in Nat /\ i = reachedK + 1 /\ i \in Nat \ {0} /\ pc \in {"loop", "chain"}
      /\ result = "NONE" /\ Clear(sys, reachedK) /\ sys \in Systems
  <2>1. CASE NewBound
    BY <2>1, NewBoundFacts
  <2>2. CASE pc = "chain"
    BY <2>2 DEF CallInv, Busy
  <2> QED
    BY <2>1, <2>2
<1>2. DarLengths /\ DarSequences
  BY <1>1 DEF DarInv
<1>3. Len(forwardSeq) = reachedK + 1 /\ Len(backwardSeq) = reachedK + 1
  BY <1>1, <1>2 DEF DarLengths
<1>4. Dar!SeqLen = reachedK + 1
  BY <1>1, <1>3 DEF Dar!SeqLen
<1>5. ForwardExcludes(reachedK + 1) /\ BackwardExcludes(reachedK + 1)
  BY <1>1, <1>2, <1>3 DEF DarSequences, ForwardExcludes, BackwardExcludes
<1>6. /\ sys.init \subseteq States /\ sys.bad \subseteq States
      /\ sys.trans \subseteq States \X States
  BY <1>1, SystemParts
<1> QED
  BY <1>1, <1>2, <1>3, <1>4, <1>5, <1>6 DEF DarSequences

\* pairwise_strengthen starts at a position from which no step leads into the
\* backward set opposite.
LEMMA DarForwardStarts ==
  ASSUME CallInv, DarInv, NewBound \/ pc = "chain",
         NEW p \in 0..reachedK, NEW seq \in Seq(SUBSET States), Len(seq) = reachedK + 1,
         seq[1] = sys.init,
         \A j \in 1..Len(seq) - 1 : Img(seq[j]) \subseteq seq[j + 1],
         \A j \in 1..Len(seq) : seq[j] \subseteq forwardSeq[j],
         Img(seq[p + 1]) \cap backwardSeq[reachedK + 1 - p] = {},
         Dar!StartForward(p, seq),
         UNCHANGED <<sys, opts, level, reachedK, bound, i, itps, path, invar, result,
                     backwardSeq>>
  PROVE  CallInv' /\ DarInv' /\ PromisedStep
<1>1. idx' = p /\ pos' = p /\ forwardSeq' = Append(seq, States) /\ pc' = "forward"
  BY DEF Dar!StartForward
<1>2. /\ reachedK \in Nat /\ i = reachedK + 1 /\ i \in Nat \ {0} /\ result = "NONE"
      /\ pc \in {"loop", "chain"} /\ Len(backwardSeq) = reachedK + 1
      /\ BackwardChain /\ ForwardExcludes(reachedK + 1) /\ BackwardExcludes(reachedK + 1)
  BY DarLoop
<1>3. /\ forwardSeq' \in Seq(SUBSET States) /\ Len(forwardSeq') = Len(seq) + 1
      /\ forwardSeq'[1] = sys.init
      /\ \A j \in 1..Len(forwardSeq') - 1 : Img(forwardSeq'[j]) \subseteq forwardSeq'[j + 1]
      /\ \A j \in 1..Len(seq) : forwardSeq'[j] = seq[j]
  <2> DEFINE new == Append(seq, States)
  <2>1. Len(seq) >= 1
    BY <1>2
  <2>2. /\ new \in Seq(SUBSET States) /\ Len(new) = Len(seq) + 1
        /\ new[1] = sys.init
        /\ \A j \in 1..Len(new) - 1 : Img(new[j]) \subseteq new[j + 1]
        /\ \A j \in 1..Len(seq) : new[j] = seq[j]
    BY <2>1, ForwardChainGrows, ZenonT(60)
  <2>3. forwardSeq' = new
    BY <1>1
  <2> HIDE DEF new
  <2> QED
    BY <2>2, <2>3
<1>4. DarLengths'
  BY <1>1, <1>2, <1>3 DEF DarLengths
<1>5. ForwardChain'
  <2>1. Len(forwardSeq') >= 1
    BY <1>2, <1>3
  <2> QED
    BY <1>3, <2>1 DEF ForwardChain, Img
<1>6. BackwardChain' /\ BackwardExcludes(Len(backwardSeq))'
  BY <1>2 DEF BackwardChain, BackwardExcludes, Pre
<1>7. \A j \in 2..reachedK + 1 : forwardSeq'[j] \cap sys.bad = {}
  <2> SUFFICES ASSUME NEW j \in 2..reachedK + 1
               PROVE  forwardSeq'[j] \cap sys.bad = {}
    OBVIOUS
  <2>1. j \in 1..Len(seq)
    BY <1>2
  <2> QED
    BY <1>2, <1>3, <2>1 DEF ForwardExcludes
<1>8. DarSequences'
  <2>1. pos' <= reachedK'
    BY <1>1, <1>2
  <2>2. ForwardExcludes(IF pc = "forward" /\ pos <= reachedK THEN reachedK + 1
                        ELSE Len(forwardSeq))'
    BY <1>1, <1>2, <1>7, <2>1 DEF ForwardExcludes
  <2>3. BackwardExcludes(IF pc = "backward" /\ pos <= reachedK THEN reachedK + 1
                         ELSE Len(backwardSeq))'
    BY <1>1, <1>6 DEF BackwardExcludes
  <2> QED
    BY <1>5, <1>6, <2>2, <2>3 DEF DarSequences
<1>9. DarPass'
  <2>1. p + 1 \in 1..Len(seq)
    BY <1>2
  <2>2. forwardSeq'[p + 1] = seq[p + 1]
    BY <1>3, <2>1
  <2>3. p \in p..reachedK + 1
    BY <1>2
  <2> QED
    BY <1>1, <2>2, <2>3 DEF DarPass, Img
<1>10. DarChain'
  BY <1>1 DEF DarChain
<1>11. CallInv' /\ PromisedStep
  BY <1>1, <1>2 DEF CallInv, PromisedStep, Busy, Shown
<1> QED
  BY <1>1, <1>2, <1>4, <1>8, <1>9, <1>10, <1>11 DEF DarInv, Busy

LEMMA DarLocalStrengthen ==
  ASSUME CallInv, DarInv, Dar!LocalStrengthen
  PROVE  CallInv' /\ DarInv' /\ PromisedStep
<1> DEFINE u == Dar!Min(Dar!LocalUnsat)
           p == Dar!SeqLen - 1 - u
<1>1. /\ NewBound /\ Dar!LocalUnsat # {} /\ Dar!StartForward(p, forwardSeq)
      /\ UNCHANGED <<sys, opts, level, reachedK, bound, i, itps, path, invar, result, backwardSeq>>
  BY DarSteps DEF Dar!LocalStrengthen
<1>2. /\ reachedK \in Nat /\ Len(forwardSeq) = reachedK + 1 /\ Dar!SeqLen = reachedK + 1
      /\ ForwardChain
  BY <1>1, DarLoop
<1>3. Dar!LocalUnsat =
        { k \in 0..reachedK : Img(forwardSeq[(reachedK + 1 - 1 - k) + 1])
                                \cap backwardSeq[k + 1] = {} }
  <2>1. reachedK + 1 - 1 = reachedK
    BY <1>2
  <2> QED
    BY <1>2, <2>1, DarOps DEF Dar!LocalUnsat, Dar!F, Dar!B
<1>4. u \in Dar!LocalUnsat
  BY <1>1, <1>3, DarOps, MinOfNats
<1> HIDE DEF u
<1>5. /\ u \in 0..reachedK
      /\ Img(forwardSeq[(reachedK + 1 - 1 - u) + 1]) \cap backwardSeq[u + 1] = {}
  BY <1>3, <1>4
<1>6. /\ p \in 0..reachedK
      /\ (reachedK + 1 - 1 - u) + 1 = p + 1 /\ u + 1 = reachedK + 1 - p
  BY <1>2, <1>5
<1>7. Img(forwardSeq[p + 1]) \cap backwardSeq[reachedK + 1 - p] = {}
  BY <1>5, <1>6
<1> HIDE DEF p
<1>8. /\ forwardSeq \in Seq(SUBSET States) /\ forwardSeq[1] = sys.init
      /\ \A j \in 1..Len(forwardSeq) - 1 : Img(forwardSeq[j]) \subseteq forwardSeq[j + 1]
  BY <1>2 DEF ForwardChain
<1> QED
  BY <1>1, <1>2, <1>6, <1>7, <1>8, DarForwardStarts

\* A satisfied query is left on one level more than it has transitions.
LEMMA DarConcrete ==
  ASSUME CallInv, DarInv, Dar!LocalConcrete \/ Dar!GlobalConcrete
  PROVE  CallInv' /\ DarInv' /\ PromisedStep
<1>1. NewBound
  BY DarSteps DEF Dar!LocalConcrete, Dar!GlobalConcrete, Dar!TryGlobal
<1>2. /\ reachedK \in Nat /\ i = reachedK + 1 /\ result = "NONE" /\ Clear(sys, reachedK)
      /\ Dar!SeqLen = reachedK + 1
  BY <1>1, DarLoop
<1>3. /\ path' \in Witnesses(reachedK + 1) /\ level' = reachedK + 2
      /\ result' = "FALSE" /\ pc' = "done"
      /\ UNCHANGED <<sys, opts, reachedK, bound, i, itps, invar>>
      /\ UNCHANGED Dar!darVars
  <2>1. CASE Dar!LocalConcrete
    <3>1. reachedK + 1 = 1 /\ reachedK + 2 = 2
      BY <1>2, <2>1 DEF Dar!LocalConcrete
    <3> QED
      BY <2>1, <3>1, DarSteps DEF Dar!LocalConcrete, Dar!Refuted
  <2>2. CASE Dar!GlobalConcrete
    <3>1. (reachedK + 1) + 1 = reachedK + 2
      BY <1>2
    <3> QED
      BY <1>2, <2>2, <3>1, DarSteps DEF Dar!GlobalConcrete, Dar!Refuted
  <2> QED
    BY <2>1, <2>2
<1>4. Cexs(sys, reachedK + 1) # {}
  BY <1>3, WitnessesAreCexs
<1>5. CallInv' /\ PromisedStep
  BY <1>2, <1>3, <1>4 DEF CallInv, PromisedStep, Busy
<1> QED
  BY <1>3, <1>5 DEF DarInv, DarPass, DarChain, Busy

LEMMA DarGlobalFound ==
  ASSUME CallInv, DarInv, Dar!GlobalFound
  PROVE  CallInv' /\ DarInv' /\ PromisedStep
<1>1. /\ NewBound /\ Dar!GlobalUnsat # {} /\ idx' = Dar!Min(Dar!GlobalUnsat)
      /\ itps' = <<>> /\ pc' = "chain"
      /\ UNCHANGED <<sys, opts, level, reachedK, bound, i, path, invar, result,
                     forwardSeq, backwardSeq, pos>>
  BY DarSteps DEF Dar!GlobalFound, Dar!TryGlobal
<1>2. /\ reachedK \in Nat /\ i = reachedK + 1 /\ result = "NONE" /\ pc = "loop"
      /\ Dar!SeqLen = reachedK + 1
  BY <1>1, DarLoop, NewBoundFacts
<1>3. idx' \in 1..reachedK
  <2>1. Dar!GlobalUnsat \subseteq 1..Dar!SeqLen - 1
    BY DEF Dar!GlobalUnsat
  <2>2. Dar!GlobalUnsat \subseteq Nat /\ Dar!GlobalUnsat \subseteq 1..reachedK
    BY <1>2, <2>1
  <2> QED
    BY <1>1, <2>2, DarOps, MinOfNats
<1>4. itps' \in Seq(SUBSET States) /\ Len(itps') = 0
  BY <1>1, EmptySeq
<1>5. DarChain'
  <2>1. idx' \in Nat /\ idx' >= 1
    BY <1>3
  <2>2. Len(itps') <= idx' + 1 /\ ~(Len(itps') >= idx')
    <3>1. \A n \in Nat : n >= 1 => 0 <= n + 1 /\ ~(0 >= n)
      OBVIOUS
    <3>2. 0 <= idx' + 1 /\ ~(0 >= idx')
      BY <2>1, <3>1
    <3>3. Len(itps') = 0
      BY <1>4
    <3> QED
      BY <3>2, <3>3, Zenon
  <2>3. \A j \in 1..Len(itps') - 1 : FALSE
    BY <1>4
  <2> QED
    BY <1>1, <1>3, <1>4, <2>2, <2>3 DEF DarChain
<1>6. DarPass'
  BY <1>1, <1>2, <1>3 DEF DarPass
<1>7. DarLengths' /\ DarSequences'
  BY <1>1, <1>2 DEF DarInv, DarLengths, DarSequences, ForwardChain, BackwardChain,
                    ForwardExcludes, BackwardExcludes, Img, Pre
<1>8. CallInv' /\ PromisedStep
  BY <1>1, <1>2 DEF CallInv, PromisedStep, Busy, Shown
<1> QED
  BY <1>1, <1>2, <1>5, <1>6, <1>7, <1>8 DEF DarInv, Busy

LEMMA DarNextInterpolant ==
  ASSUME CallInv, DarInv, Dar!NextInterpolant
  PROVE  CallInv' /\ DarInv' /\ PromisedStep
<1>1. /\ pc = "chain" /\ Len(itps) < idx + 1
      /\ UNCHANGED <<sys, opts, level, reachedK, bound, i, pc, path, invar, result>>
      /\ UNCHANGED <<forwardSeq, backwardSeq, idx, pos>>
  BY DEF Dar!NextInterpolant, Dar!darVars
<1>2. /\ reachedK \in Nat /\ i = reachedK + 1 /\ result = "NONE"
      /\ Dar!SeqLen = reachedK + 1 /\ Len(backwardSeq) = reachedK + 1 /\ BackwardChain
      /\ sys.init \subseteq States /\ sys.trans \subseteq States \X States
  BY <1>1, DarLoop
<1>3. /\ idx \in 1..reachedK
      /\ itps \in Seq(SUBSET States) /\ Len(itps) <= idx + 1
      /\ Len(itps) > 0 => Img(sys.init) \subseteq itps[1]
      /\ \A j \in 1..Len(itps) - 1 : Img(itps[j]) \subseteq itps[j + 1]
      /\ Len(itps) >= idx => itps[idx] \cap Pre(backwardSeq[reachedK + 1 - idx]) = {}
  BY <1>1 DEF DarInv, DarChain
<1>4. idx \in Nat /\ Len(itps) \in Nat /\ idx >= 1
  BY <1>3
<1> DEFINE to == backwardSeq[reachedK + 1 - idx]
           from == sys.init
           n == idx + 1
<1>5. to \in SUBSET States /\ n \in Nat
  <2>1. reachedK + 1 - idx \in 1..Len(backwardSeq)
    BY <1>2, <1>3
  <2> QED
    BY <1>2, <1>4, <2>1 DEF BackwardChain
<1>6. PICK X \in NextItps(from, to, n) : itps' = Append(itps, X)
  <2>1. (reachedK + 1) - 1 - idx + 1 = reachedK + 1 - idx
    BY <1>2, <1>4
  <2>2. Dar!B(Dar!SeqLen - 1 - idx) = to
    BY <1>2, <2>1 DEF Dar!B
  <2>3. Dar!NextItps(from, to, n) = NextItps(from, to, n)
    BY DarOps DEF Dar!NextItps, NextItps, Interpolants
  <2> QED
    BY <2>2, <2>3 DEF Dar!NextInterpolant
<1> HIDE DEF to, from
<1>7. /\ X \in SUBSET States
      /\ Len(itps) = 0 => Img(from) \subseteq X
      /\ Len(itps) > 0 => Img(itps[Len(itps)]) \subseteq X
      /\ Len(itps) = n - 2 => X \cap Pre(to) = {}
  <2> HIDE DEF n
  <2>1. Len(itps) < n
    BY <1>1 DEF n
  <2> QED
    BY <2>1, <1>2, <1>3, <1>5, <1>6, NextItpsFacts, ZenonT(60)
<1>8. /\ itps' \in Seq(SUBSET States) /\ Len(itps') = Len(itps) + 1
      /\ itps'[Len(itps')] = X
      /\ \A j \in 1..Len(itps) : itps'[j] = itps[j]
      /\ Img(from) \subseteq itps'[1]
      /\ \A j \in 1..Len(itps') - 1 : Img(itps'[j]) \subseteq itps'[j + 1]
  <2>1. Len(itps) > 0 => Img(from) \subseteq itps[1]
    BY <1>3 DEF from
  <2> QED
    BY <1>3, <1>6, <1>7, <2>1, ChainGrows
<1>9. Len(itps') >= idx => itps'[idx] \cap Pre(to) = {}
  <2> SUFFICES ASSUME Len(itps') >= idx
               PROVE  itps'[idx] \cap Pre(to) = {}
    OBVIOUS
  <2>1. CASE Len(itps) >= idx
    <3>1. idx \in 1..Len(itps)
      BY <1>3, <1>4, <2>1
    <3> QED
      BY <1>3, <1>8, <2>1, <3>1 DEF to
  <2>2. CASE Len(itps) < idx
    <3>1. Len(itps') = idx /\ Len(itps) = n - 2
      BY <1>4, <1>8, <2>2
    <3> QED
      BY <1>7, <1>8, <3>1
  <2> QED
    BY <1>4, <2>1, <2>2
<1>10. DarChain'
  <2>1. Len(itps') <= idx + 1
    BY <1>1, <1>4, <1>8
  <2>2. /\ Len(itps') > 0 => Img(sys.init)' \subseteq itps'[1]
        /\ \A j \in 1..Len(itps') - 1 : Img(itps[j])' \subseteq itps'[j + 1]
        /\ Len(itps') >= idx => itps'[idx] \cap Pre(backwardSeq[reachedK + 1 - idx])' = {}
    BY <1>1, <1>8, <1>9 DEF Img, Pre, from, to
  <2> QED
    BY <1>1, <1>3, <1>8, <2>1, <2>2 DEF DarChain
<1>11. DarLengths' /\ DarSequences' /\ DarPass'
  BY <1>1 DEF DarInv, DarPass, DarLengths, DarSequences, ForwardChain, BackwardChain,
              ForwardExcludes, BackwardExcludes, Img, Pre
<1>12. CallInv' /\ PromisedStep
  BY <1>1, <1>2 DEF CallInv, PromisedStep, Busy, Shown
<1> QED
  BY <1>1, <1>2, <1>10, <1>11, <1>12 DEF DarInv, Busy

LEMMA DarGlobalStrengthen ==
  ASSUME CallInv, DarInv, Dar!GlobalStrengthen
  PROVE  CallInv' /\ DarInv' /\ PromisedStep
<1> DEFINE seq == [ j \in 1..Dar!SeqLen |->
                      IF j \in 2..idx + 2 THEN forwardSeq[j] \cap itps[j - 1] ELSE forwardSeq[j] ]
<1>1. /\ pc = "chain" /\ Len(itps) = idx + 1 /\ Dar!StartForward(idx, seq)
      /\ UNCHANGED <<sys, opts, level, reachedK, bound, i, itps, path, invar, result, backwardSeq>>
  BY DEF Dar!GlobalStrengthen
<1>2. /\ reachedK \in Nat /\ Len(forwardSeq) = reachedK + 1 /\ Dar!SeqLen = reachedK + 1
      /\ ForwardChain
  BY <1>1, DarLoop
<1>3. /\ idx \in 1..reachedK
      /\ itps \in Seq(SUBSET States)
      /\ Len(itps) > 0 => Img(sys.init) \subseteq itps[1]
      /\ \A j \in 1..Len(itps) - 1 : Img(itps[j]) \subseteq itps[j + 1]
      /\ Len(itps) >= idx => itps[idx] \cap Pre(backwardSeq[reachedK + 1 - idx]) = {}
  BY <1>1 DEF DarInv, DarChain
<1>4. idx \in Nat /\ idx >= 1 /\ idx <= reachedK /\ idx \in 0..reachedK
  BY <1>3
<1>5. /\ Img(sys.init) \subseteq itps[1]
      /\ \A j \in 1..idx : Img(itps[j]) \subseteq itps[j + 1]
      /\ itps[idx] \cap Pre(backwardSeq[reachedK + 1 - idx]) = {}
  BY <1>1, <1>3, <1>4
<1>6. /\ forwardSeq \in Seq(SUBSET States) /\ forwardSeq[1] = sys.init
      /\ \A j \in 1..reachedK : Img(forwardSeq[j]) \subseteq forwardSeq[j + 1]
      /\ \A j \in 1..reachedK + 1 : forwardSeq[j] \in SUBSET States
  BY <1>2 DEF ForwardChain
<1>7. \A j \in 1..reachedK + 1 :
        seq[j] = IF j \in 2..idx + 2 THEN forwardSeq[j] \cap itps[j - 1] ELSE forwardSeq[j]
  BY <1>2
<1>8. seq \in Seq(SUBSET States) /\ Len(seq) = reachedK + 1
  <2>1. seq \in [1..reachedK + 1 -> SUBSET States]
    BY <1>2, <1>6
  <2>2. reachedK + 1 \in Nat
    BY <1>2
  <2> HIDE DEF seq
  <2> QED
    BY <2>1, <2>2, FunctionIsSeq
<1> HIDE DEF seq
<1>9. \A j \in 1..reachedK + 1 : seq[j] \subseteq forwardSeq[j]
  BY <1>7
<1>10. \A j \in 1..reachedK + 1 : j \in 2..idx + 2 => seq[j] \subseteq itps[j - 1]
  BY <1>7
<1>11. seq[1] = sys.init
  <2>1. 1 \in 1..reachedK + 1 /\ 1 \notin 2..idx + 2
    BY <1>2
  <2> QED
    BY <1>6, <1>7, <2>1
<1>12. ASSUME NEW j \in 1..Len(seq) - 1
       PROVE  Img(seq[j]) \subseteq seq[j + 1]
  <2>1. j \in 1..reachedK /\ j \in 1..reachedK + 1 /\ j + 1 \in 1..reachedK + 1
    BY <1>2, <1>8
  <2>2. Img(seq[j]) \subseteq forwardSeq[j + 1]
    BY <1>6, <1>9, <2>1 DEF Img
  <2>3. CASE j + 1 \in 2..idx + 2
    <3>1. seq[j + 1] = forwardSeq[j + 1] \cap itps[j]
      <4>1. (j + 1) - 1 = j
        BY <2>1
      <4>2. seq[j + 1] = forwardSeq[j + 1] \cap itps[(j + 1) - 1]
        BY <1>7, <2>1, <2>3
      <4> QED
        BY <4>1, <4>2
    <3>2. Img(seq[j]) \subseteq itps[j]
      <4>1. CASE j = 1
        BY <1>5, <1>11, <4>1
      <4>2. CASE j # 1
        <5>1. j \in 2..idx + 2 /\ j - 1 \in 1..idx /\ (j - 1) + 1 = j
          BY <1>4, <2>1, <2>3, <4>2
        <5>2. seq[j] \subseteq itps[j - 1]
          BY <1>10, <2>1, <5>1
        <5>3. Img(itps[j - 1]) \subseteq itps[j]
          BY <1>5, <5>1
        <5> QED
          BY <5>2, <5>3 DEF Img
      <4> QED
        BY <4>1, <4>2
    <3> QED
      BY <2>2, <3>1, <3>2
  <2>4. CASE j + 1 \notin 2..idx + 2
    BY <1>7, <2>1, <2>2, <2>4
  <2> QED
    BY <2>3, <2>4
<1>13. Img(seq[idx + 1]) \cap backwardSeq[reachedK + 1 - idx] = {}
  <2>1. idx + 1 \in 2..idx + 2 /\ idx + 1 \in 1..reachedK + 1 /\ (idx + 1) - 1 = idx
    BY <1>2, <1>4
  <2>2. seq[idx + 1] \subseteq itps[idx] /\ seq[idx + 1] \subseteq States
    BY <1>6, <1>9, <1>10, <2>1
  <2> QED
    BY <1>5, <2>2 DEF Img, Pre
<1>14. \A j \in 1..Len(seq) : seq[j] \subseteq forwardSeq[j]
  BY <1>8, <1>9
<1> QED
  BY <1>1, <1>4, <1>8, <1>11, <1>12, <1>13, <1>14, DarForwardStarts

\* The sequences during a pass.
LEMMA DarPassing ==
  ASSUME CallInv, DarInv, pc \in {"forward", "backward"}
  PROVE  /\ reachedK \in Nat /\ i = reachedK + 1 /\ i \in Nat \ {0}
         /\ result = "NONE" /\ Clear(sys, reachedK)
         /\ sys \in Systems /\ sys.init \subseteq States /\ sys.bad \subseteq States
         /\ sys.trans \subseteq States \X States
         /\ Len(forwardSeq) = reachedK + 2
         /\ Len(backwardSeq) = IF pc = "forward" THEN reachedK + 1 ELSE reachedK + 2
         /\ Dar!SeqLen = reachedK + 1
         /\ ForwardChain /\ BackwardChain
         /\ ForwardExcludes(reachedK + 1) /\ BackwardExcludes(reachedK + 1)
         /\ idx \in Nat /\ idx <= reachedK /\ pos \in Nat /\ pos <= reachedK + 1
<1>1. /\ reachedK \in Nat /\ i = reachedK + 1 /\ i \in Nat \ {0}
      /\ result = "NONE" /\ Clear(sys, reachedK) /\ sys \in Systems
  BY DEF CallInv, Busy
<1>2. DarLengths /\ DarSequences
  BY DEF DarInv
<1>3. /\ Len(forwardSeq) = reachedK + 2
      /\ Len(backwardSeq) = IF pc = "forward" THEN reachedK + 1 ELSE reachedK + 2
  BY <1>1, <1>2 DEF DarLengths
<1>4. Dar!SeqLen = reachedK + 1
  BY <1>1, <1>3 DEF Dar!SeqLen
<1>5. ForwardExcludes(reachedK + 1) /\ BackwardExcludes(reachedK + 1)
  BY <1>1, <1>2, <1>3 DEF DarSequences, ForwardExcludes, BackwardExcludes
<1>6. idx \in Nat /\ idx <= reachedK /\ pos \in Nat /\ pos <= reachedK + 1
  BY <1>1 DEF DarInv, DarPass
<1>7. /\ sys.init \subseteq States /\ sys.bad \subseteq States
      /\ sys.trans \subseteq States \X States
  BY <1>1, SystemParts
<1> QED
  BY <1>1, <1>2, <1>3, <1>4, <1>5, <1>6, <1>7 DEF DarSequences

\* The next set of the pass excludes the set opposite, so that the one after it
\* can be strengthened as well.
LEMMA DarForwardPair ==
  ASSUME CallInv, DarInv, pc = "forward", pos <= reachedK,
         NEW X, X \subseteq States, Img(forwardSeq[pos + 1]) \subseteq X,
         X \cap backwardSeq[reachedK + 1 - pos] = {},
         NEW new, new = Dar!StrengthenAt(forwardSeq, pos + 1, X)
  PROVE  /\ new \in Seq(SUBSET States) /\ Len(new) = reachedK + 2
         /\ new[1] = sys.init
         /\ \A j \in 1..Len(new) - 1 : Img(new[j]) \subseteq new[j + 1]
         /\ \A j \in 2..reachedK + 1 : new[j] \cap sys.bad = {}
         /\ pos = reachedK => new[reachedK + 2] \cap sys.bad = {}
         /\ pos < reachedK => Img(new[pos + 2]) \cap backwardSeq[reachedK - pos] = {}
         /\ \A j \in 1..Len(new) : new[j] \subseteq forwardSeq[j]
<1>1. /\ reachedK \in Nat /\ pos \in Nat /\ Len(forwardSeq) = reachedK + 2
      /\ ForwardChain /\ BackwardChain /\ ForwardExcludes(reachedK + 1)
  BY DarPassing
<1>2. /\ new \in Seq(SUBSET States) /\ Len(new) = Len(forwardSeq)
      /\ new[1] = sys.init
      /\ \A j \in 1..Len(new) - 1 : Img(new[j]) \subseteq new[j + 1]
      /\ \A j \in 1..Len(new) : new[j] \subseteq forwardSeq[j]
      /\ new[pos + 2] \subseteq X
  <2>1. pos + 2 <= Len(forwardSeq)
    BY <1>1
  <2> QED
    BY <1>1, <2>1, ForwardChainStrengthened
<1>3. \A j \in 2..reachedK + 1 : new[j] \cap sys.bad = {}
  <2>1. \A j \in 2..reachedK + 1 : j \in 1..Len(new)
    BY <1>1, <1>2
  <2> QED
    BY <1>1, <1>2, <2>1 DEF ForwardExcludes
<1>4. ASSUME pos = reachedK
      PROVE  new[reachedK + 2] \cap sys.bad = {}
  <2>1. reachedK + 1 - pos = 1 /\ pos + 2 = reachedK + 2
    BY <1>1, <1>4
  <2>2. X \cap backwardSeq[1] = {}
    BY <2>1
  <2> QED
    BY <1>1, <1>2, <2>1, <2>2 DEF BackwardChain
<1>5. ASSUME pos < reachedK
      PROVE  Img(new[pos + 2]) \cap backwardSeq[reachedK - pos] = {}
  <2> DEFINE k == reachedK - pos
  <2>1. k \in 1..Len(backwardSeq) - 1 /\ k + 1 = reachedK + 1 - pos
    <3>1. Len(backwardSeq) >= reachedK + 1 /\ Len(backwardSeq) \in Nat
      BY DarPassing DEF BackwardChain
    <3> QED
      BY <1>1, <1>5, <3>1
  <2>2. Pre(backwardSeq[k]) \subseteq backwardSeq[k + 1]
    BY <1>1, <2>1 DEF BackwardChain
  <2>3. X \cap Pre(backwardSeq[k]) = {}
    BY <2>1, <2>2
  <2> HIDE DEF k
  <2>4. Img(new[pos + 2]) \cap backwardSeq[k] = {}
    BY <1>2, <2>3 DEF Img, Pre
  <2> QED
    BY <2>4 DEF k
<1> QED
  BY <1>1, <1>2, <1>3, <1>4, <1>5

LEMMA DarBackwardPair ==
  ASSUME CallInv, DarInv, pc = "backward", pos <= reachedK,
         NEW X, X \subseteq States, Pre(backwardSeq[pos + 1]) \subseteq X,
         X \cap forwardSeq[reachedK + 1 - pos] = {},
         NEW new, new = Dar!StrengthenAt(backwardSeq, pos + 1, X)
  PROVE  /\ new \in Seq(SUBSET States) /\ Len(new) = reachedK + 2
         /\ new[1] = sys.bad
         /\ \A j \in 1..Len(new) - 1 : Pre(new[j]) \subseteq new[j + 1]
         /\ \A j \in 2..reachedK + 1 : new[j] \cap sys.init = {}
         /\ pos = reachedK => new[reachedK + 2] \cap sys.init = {}
         /\ pos < reachedK => Pre(new[pos + 2]) \cap forwardSeq[reachedK - pos] = {}
         /\ \A j \in 1..Len(new) : new[j] \subseteq backwardSeq[j]
<1>1. /\ reachedK \in Nat /\ pos \in Nat /\ Len(backwardSeq) = reachedK + 2
      /\ BackwardChain /\ ForwardChain /\ BackwardExcludes(reachedK + 1)
  BY DarPassing
<1>2. /\ new \in Seq(SUBSET States) /\ Len(new) = Len(backwardSeq)
      /\ new[1] = sys.bad
      /\ \A j \in 1..Len(new) - 1 : Pre(new[j]) \subseteq new[j + 1]
      /\ \A j \in 1..Len(new) : new[j] \subseteq backwardSeq[j]
      /\ new[pos + 2] \subseteq X
  <2>1. pos + 2 <= Len(backwardSeq)
    BY <1>1
  <2> QED
    BY <1>1, <2>1, BackwardChainStrengthened
<1>3. \A j \in 2..reachedK + 1 : new[j] \cap sys.init = {}
  <2>1. \A j \in 2..reachedK + 1 : j \in 1..Len(new)
    BY <1>1, <1>2
  <2> QED
    BY <1>1, <1>2, <2>1 DEF BackwardExcludes
<1>4. ASSUME pos = reachedK
      PROVE  new[reachedK + 2] \cap sys.init = {}
  <2>1. reachedK + 1 - pos = 1 /\ pos + 2 = reachedK + 2
    BY <1>1, <1>4
  <2>2. X \cap forwardSeq[1] = {}
    BY <2>1
  <2> QED
    BY <1>1, <1>2, <2>1, <2>2 DEF ForwardChain
<1>5. ASSUME pos < reachedK
      PROVE  Pre(new[pos + 2]) \cap forwardSeq[reachedK - pos] = {}
  <2> DEFINE k == reachedK - pos
  <2>1. k \in 1..Len(forwardSeq) - 1 /\ k + 1 = reachedK + 1 - pos
    <3>1. Len(forwardSeq) >= reachedK + 1 /\ Len(forwardSeq) \in Nat
      BY DarPassing DEF ForwardChain
    <3> QED
      BY <1>1, <1>5, <3>1
  <2>2. Img(forwardSeq[k]) \subseteq forwardSeq[k + 1]
    BY <1>1, <2>1 DEF ForwardChain
  <2>3. X \cap Img(forwardSeq[k]) = {}
    BY <2>1, <2>2
  <2> HIDE DEF k
  <2>4. Pre(new[pos + 2]) \cap forwardSeq[k] = {}
    BY <1>2, <2>3 DEF Img, Pre
  <2> QED
    BY <2>4 DEF k
<1> QED
  BY <1>1, <1>2, <1>3, <1>4, <1>5

LEMMA DarForward ==
  ASSUME CallInv, DarInv, Dar!Forward
  PROVE  CallInv' /\ DarInv' /\ PromisedStep
<1>1. /\ pc = "forward" /\ pos < Dar!SeqLen /\ pos' = pos + 1
      /\ UNCHANGED <<sys, opts, level, reachedK, bound, i, pc, itps, path, invar, result>>
      /\ UNCHANGED <<backwardSeq, idx>>
  BY DEF Dar!Forward, Dar!engineVars
<1>2. /\ reachedK \in Nat /\ pos \in Nat /\ idx \in Nat /\ idx <= reachedK /\ pos <= reachedK
      /\ Dar!SeqLen = reachedK + 1 /\ Len(forwardSeq) = reachedK + 2 /\ result = "NONE"
  BY <1>1, DarPassing
<1>3. PICK X \in Dar!ForwardItps : forwardSeq' = Dar!StrengthenAt(forwardSeq, pos + 1, X)
  BY DEF Dar!Forward
<1>4. /\ X \subseteq States /\ Img(forwardSeq[pos + 1]) \subseteq X
      /\ X \cap backwardSeq[reachedK + 1 - pos] = {}
  <2>1. (reachedK + 1) - 1 - pos + 1 = reachedK + 1 - pos
    BY <1>2
  <2> QED
    BY <1>2, <1>3, <2>1, DarOps DEF Dar!ForwardItps, Dar!F, Dar!B
<1>5. /\ forwardSeq' \in Seq(SUBSET States) /\ Len(forwardSeq') = reachedK + 2
      /\ forwardSeq'[1] = sys.init
      /\ \A j \in 1..Len(forwardSeq') - 1 : Img(forwardSeq'[j]) \subseteq forwardSeq'[j + 1]
      /\ \A j \in 2..reachedK + 1 : forwardSeq'[j] \cap sys.bad = {}
      /\ pos = reachedK => forwardSeq'[reachedK + 2] \cap sys.bad = {}
      /\ pos < reachedK => Img(forwardSeq'[pos + 2]) \cap backwardSeq[reachedK - pos] = {}
      /\ \A j \in 1..Len(forwardSeq') : forwardSeq'[j] \subseteq forwardSeq[j]
  <2> DEFINE new == Dar!StrengthenAt(forwardSeq, pos + 1, X)
  <2>1. /\ new \in Seq(SUBSET States) /\ Len(new) = reachedK + 2
        /\ new[1] = sys.init
        /\ \A j \in 1..Len(new) - 1 : Img(new[j]) \subseteq new[j + 1]
        /\ \A j \in 2..reachedK + 1 : new[j] \cap sys.bad = {}
        /\ pos = reachedK => new[reachedK + 2] \cap sys.bad = {}
        /\ pos < reachedK => Img(new[pos + 2]) \cap backwardSeq[reachedK - pos] = {}
        /\ \A j \in 1..Len(new) : new[j] \subseteq forwardSeq[j]
    BY <1>1, <1>2, <1>4, DarForwardPair, ZenonT(60)
  <2> HIDE DEF new
  <2> QED
    BY <1>3, <2>1 DEF new
<1>6. DarLengths'
  BY <1>1, <1>2, <1>5 DEF DarInv, DarLengths
<1>7. DarSequences'
  <2>1. ForwardChain'
    <3>1. Len(forwardSeq') >= 1
      BY <1>2, <1>5
    <3> QED
      BY <1>1, <1>5, <3>1 DEF ForwardChain, Img
  <2>2. ForwardExcludes(IF pc = "forward" /\ pos <= reachedK THEN reachedK + 1
                        ELSE Len(forwardSeq))'
    <3>1. CASE pos' <= reachedK'
      BY <1>1, <1>5, <3>1 DEF ForwardExcludes
    <3>2. CASE ~(pos' <= reachedK')
      <4>1. pos = reachedK
        BY <1>1, <1>2, <3>2
      <4>2. \A j \in 2..reachedK + 2 : j \in 2..reachedK + 1 \/ j = reachedK + 2
        BY <1>2
      <4>3. \A j \in 2..reachedK + 2 : forwardSeq'[j] \cap sys.bad = {}
        BY <1>5, <4>1, <4>2
      <4> QED
        BY <1>1, <1>5, <3>2, <4>3 DEF ForwardExcludes
    <3> QED
      BY <3>1, <3>2
  <2>3. BackwardChain' /\ BackwardExcludes(Len(backwardSeq))'
    BY <1>1 DEF DarInv, DarSequences, BackwardChain, BackwardExcludes, Pre
  <2> QED
    BY <1>1, <2>1, <2>2, <2>3 DEF DarSequences
<1>8. DarPass'
  <2>1. /\ idx \in 0..reachedK /\ pos \in idx..reachedK + 1
        /\ Img(forwardSeq[idx + 1]) \cap backwardSeq[reachedK + 1 - idx] = {}
    BY <1>1 DEF DarInv, DarPass
  <2>2. pos + 1 \in idx..reachedK + 1
    BY <1>2, <2>1
  <2>3. Img(forwardSeq'[idx + 1]) \cap backwardSeq[reachedK + 1 - idx] = {}
    <3>1. idx + 1 \in 1..Len(forwardSeq')
      BY <1>2, <1>5
    <3>2. forwardSeq'[idx + 1] \subseteq forwardSeq[idx + 1]
      BY <1>5, <3>1
    <3> QED
      BY <2>1, <3>2 DEF Img
  <2>4. pos + 1 <= reachedK =>
          Img(forwardSeq'[(pos + 1) + 1]) \cap backwardSeq[reachedK + 1 - (pos + 1)] = {}
    <3>1. (pos + 1) + 1 = pos + 2 /\ reachedK + 1 - (pos + 1) = reachedK - pos
      BY <1>2
    <3>2. pos + 1 <= reachedK => pos < reachedK
      BY <1>2
    <3> QED
      BY <1>5, <3>1, <3>2
  <2> QED
    BY <1>1, <2>1, <2>2, <2>3, <2>4 DEF DarPass, Img
<1>9. CallInv' /\ PromisedStep
  BY <1>1, <1>2 DEF CallInv, PromisedStep, Busy, Shown
<1> QED
  BY <1>1, <1>2, <1>6, <1>7, <1>8, <1>9 DEF DarInv, DarChain, Busy

\* What n steps reach is in the n-th forward set.
LEMMA ForwardReaches ==
  ASSUME sys.init \subseteq States, sys.trans \subseteq States \X States, ForwardChain,
         NEW n \in Nat, n < Len(forwardSeq)
  PROVE  Ends(sys, sys.init, n) \subseteq forwardSeq[n + 1]
<1> DEFINE T == { k \in Nat : Ends(sys, sys.init, k) \subseteq forwardSeq[k + 1] }
<1>1. 0 \in T
  <2>1. Ends(sys, sys.init, 0) = sys.init
    BY EndsStep
  <2> QED
    BY <2>1 DEF ForwardChain
<1>2. ASSUME NEW k \in 0..n, k \in T, k + 1 \in 0..n
      PROVE  k + 1 \in T
  <2>1. k \in Nat /\ k + 1 \in 1..Len(forwardSeq) - 1
    BY <1>2 DEF ForwardChain
  <2>2. Ends(sys, sys.init, k + 1) = ImgOf(sys, Ends(sys, sys.init, k))
    BY <2>1, EndsStep
  <2>3. Img(forwardSeq[k + 1]) \subseteq forwardSeq[(k + 1) + 1]
    BY <2>1 DEF ForwardChain
  <2>4. Ends(sys, sys.init, k) \subseteq forwardSeq[k + 1]
    BY <1>2
  <2>5. Ends(sys, sys.init, k + 1) \subseteq forwardSeq[(k + 1) + 1]
    BY <2>2, <2>3, <2>4 DEF ImgOf, Img
  <2> QED
    BY <2>1, <2>5
<1> HIDE DEF T
<1>3. 0..n \subseteq T
  BY <1>1, <1>2, IntervalInduction
<1>4. n \in T
  BY <1>3
<1> QED
  BY <1>4 DEF T

\* With the forward pass complete no counterexample has the new length.
LEMMA DarTurnBackward ==
  ASSUME CallInv, DarInv, Dar!TurnBackward
  PROVE  CallInv' /\ DarInv' /\ PromisedStep
<1>1. /\ pc = "forward" /\ pos = Dar!SeqLen /\ backwardSeq' = Append(backwardSeq, States)
      /\ pos' = Dar!SeqLen - 1 - idx /\ pc' = "backward"
      /\ UNCHANGED <<sys, opts, level, reachedK, bound, i, itps, path, invar, result, forwardSeq, idx>>
  BY DEF Dar!TurnBackward
<1>2. /\ reachedK \in Nat /\ i = reachedK + 1 /\ result = "NONE" /\ Clear(sys, reachedK)
      /\ sys.init \subseteq States /\ sys.bad \subseteq States
      /\ sys.trans \subseteq States \X States
      /\ Len(forwardSeq) = reachedK + 2 /\ Len(backwardSeq) = reachedK + 1
      /\ Dar!SeqLen = reachedK + 1 /\ ForwardChain /\ BackwardChain
      /\ BackwardExcludes(reachedK + 1)
      /\ idx \in Nat /\ idx <= reachedK /\ pos \in Nat
  BY <1>1, DarPassing
<1>3. pos = reachedK + 1 /\ pos' = reachedK - idx
  BY <1>1, <1>2
<1>4. \A j \in 2..reachedK + 2 : forwardSeq[j] \cap sys.bad = {}
  <2>1. ~(pos <= reachedK)
    BY <1>2, <1>3
  <2> QED
    BY <1>1, <1>2, <2>1 DEF DarInv, DarSequences, ForwardExcludes
<1>5. Cexs(sys, reachedK + 1) = {}
  <2> SUFFICES ASSUME NEW p \in Cexs(sys, reachedK + 1)
               PROVE  FALSE
    OBVIOUS
  <2>1. reachedK + 1 \in Nat /\ (reachedK + 1) + 1 = reachedK + 2 /\ reachedK + 1 < Len(forwardSeq)
    BY <1>2
  <2>2. p[reachedK + 1] \in Ends(sys, sys.init, reachedK + 1) /\ p[reachedK + 1] \in sys.bad
    BY <1>2 DEF Cexs, Ends
  <2>3. Ends(sys, sys.init, reachedK + 1) \subseteq forwardSeq[(reachedK + 1) + 1]
    <3> DEFINE n == reachedK + 1
    <3>1. n \in Nat /\ n < Len(forwardSeq)
      BY <2>1
    <3> HIDE DEF n
    <3>2. Ends(sys, sys.init, n) \subseteq forwardSeq[n + 1]
      BY <1>2, <3>1, ForwardReaches
    <3> QED
      BY <3>2 DEF n
  <2>4. forwardSeq[(reachedK + 1) + 1] \cap sys.bad = {}
    <3>1. reachedK + 2 \in 2..reachedK + 2
      BY <1>2
    <3> QED
      BY <1>4, <2>1, <3>1
  <2> QED
    BY <2>2, <2>3, <2>4
<1>6. /\ backwardSeq' \in Seq(SUBSET States) /\ Len(backwardSeq') = reachedK + 2
      /\ backwardSeq'[1] = sys.bad
      /\ \A j \in 1..Len(backwardSeq') - 1 : Pre(backwardSeq'[j]) \subseteq backwardSeq'[j + 1]
      /\ \A j \in 1..reachedK + 1 : backwardSeq'[j] = backwardSeq[j]
  <2> DEFINE new == Append(backwardSeq, States)
  <2>1. /\ backwardSeq \in Seq(SUBSET States) /\ Len(backwardSeq) >= 1
        /\ backwardSeq[1] = sys.bad
        /\ \A j \in 1..Len(backwardSeq) - 1 : Pre(backwardSeq[j]) \subseteq backwardSeq[j + 1]
    BY <1>2 DEF BackwardChain
  <2>2. /\ new \in Seq(SUBSET States) /\ Len(new) = Len(backwardSeq) + 1
        /\ new[1] = sys.bad
        /\ \A j \in 1..Len(new) - 1 : Pre(new[j]) \subseteq new[j + 1]
        /\ \A j \in 1..Len(backwardSeq) : new[j] = backwardSeq[j]
    BY <2>1, BackwardChainGrows, ZenonT(60)
  <2>3. backwardSeq' = new
    BY <1>1
  <2>4. (reachedK + 1) + 1 = reachedK + 2
    BY <1>2
  <2> HIDE DEF new
  <2> QED
    BY <1>2, <2>2, <2>3, <2>4
<1>7. DarLengths'
  <2>1. (reachedK + 1) + 1 = reachedK + 2 /\ reachedK >= 0
    BY <1>2
  <2> QED
    BY <1>1, <1>2, <1>6, <2>1 DEF DarLengths
<1>8. DarSequences'
  <2>1. ForwardChain'
    BY <1>1, <1>2 DEF ForwardChain, Img
  <2>2. ForwardExcludes(Len(forwardSeq))'
    BY <1>1, <1>2, <1>4 DEF ForwardExcludes
  <2>3. BackwardChain'
    <3>1. Len(backwardSeq') >= 1
      BY <1>2, <1>6
    <3> QED
      BY <1>1, <1>6, <3>1 DEF BackwardChain, Pre
  <2>4. BackwardExcludes(reachedK + 1)'
    <3>1. \A j \in 2..reachedK + 1 : j \in 1..reachedK + 1
      BY <1>2
    <3>2. \A j \in 2..reachedK + 1 : backwardSeq'[j] \cap sys.init = {}
      BY <1>2, <1>6, <3>1 DEF BackwardExcludes
    <3> QED
      BY <1>1, <3>2 DEF BackwardExcludes
  <2>5. pos' <= reachedK'
    BY <1>1, <1>2, <1>3
  <2> QED
    BY <1>1, <2>1, <2>2, <2>3, <2>4, <2>5 DEF DarSequences
<1>9. DarPass'
  <2>1. Img(forwardSeq[idx + 1]) \cap backwardSeq[reachedK + 1 - idx] = {}
    BY <1>1 DEF DarInv, DarPass
  <2>2. pos' + 1 = reachedK + 1 - idx /\ reachedK + 1 - pos' = idx + 1
    BY <1>2, <1>3
  <2>3. pos' + 1 \in 1..reachedK + 1
    BY <1>2, <2>2
  <2>4. backwardSeq'[pos' + 1] = backwardSeq[reachedK + 1 - idx]
    BY <1>6, <2>2, <2>3
  <2>5. forwardSeq[idx + 1] \subseteq States
    <3>1. idx + 1 \in 1..Len(forwardSeq)
      BY <1>2
    <3> QED
      BY <1>2, <3>1 DEF ForwardChain
  <2>6. Pre(backwardSeq'[pos' + 1]) \cap forwardSeq[reachedK + 1 - pos'] = {}
    <3>1. backwardSeq[reachedK + 1 - idx] \subseteq States
      <4>1. reachedK + 1 - idx \in 1..Len(backwardSeq)
        BY <1>2
      <4> QED
        BY <1>2, <4>1 DEF BackwardChain
    <3> DEFINE Y == backwardSeq[reachedK + 1 - idx]
               Z == forwardSeq[idx + 1]
    <3>2. Img(Z) \cap Y = {} /\ Y \subseteq States /\ Z \subseteq States
      BY <2>1, <2>5, <3>1
    <3>3. Pre(backwardSeq'[pos' + 1]) \cap forwardSeq[reachedK + 1 - pos'] = Pre(Y) \cap Z
      BY <2>2, <2>4
    <3> HIDE DEF Y, Z
    <3>4. Pre(Y) \cap Z = {}
      BY <3>2 DEF Img, Pre
    <3> QED
      BY <3>3, <3>4
  <2>7. pos' \in reachedK - idx..reachedK + 1 /\ idx \in 0..reachedK
    BY <1>2, <1>3
  <2> QED
    BY <1>1, <2>6, <2>7 DEF DarPass, Pre
<1>10. CallInv' /\ PromisedStep
  BY <1>1, <1>2 DEF CallInv, PromisedStep, Busy, Shown
<1>11. DarChain' /\ Cexs(sys, reachedK + 1)' = {}
  BY <1>1, <1>5 DEF DarChain
<1> QED
  BY <1>1, <1>2, <1>7, <1>8, <1>9, <1>10, <1>11 DEF DarInv, Busy

LEMMA DarBackward ==
  ASSUME CallInv, DarInv, Dar!Backward
  PROVE  CallInv' /\ DarInv' /\ PromisedStep
<1>1. /\ pc = "backward" /\ pos < Dar!SeqLen /\ pos' = pos + 1
      /\ UNCHANGED <<sys, opts, level, reachedK, bound, i, pc, itps, path, invar, result>>
      /\ UNCHANGED <<forwardSeq, idx>>
  BY DEF Dar!Backward, Dar!engineVars
<1>2. /\ reachedK \in Nat /\ pos \in Nat /\ idx \in Nat /\ idx <= reachedK /\ pos <= reachedK
      /\ Dar!SeqLen = reachedK + 1 /\ Len(backwardSeq) = reachedK + 2 /\ result = "NONE"
  BY <1>1, DarPassing
<1>3. PICK X \in Dar!BackwardItps : backwardSeq' = Dar!StrengthenAt(backwardSeq, pos + 1, X)
  BY DEF Dar!Backward
<1>4. /\ X \subseteq States /\ Pre(backwardSeq[pos + 1]) \subseteq X
      /\ X \cap forwardSeq[reachedK + 1 - pos] = {}
  <2>1. (reachedK + 1) - 1 - pos + 1 = reachedK + 1 - pos
    BY <1>2
  <2> QED
    BY <1>2, <1>3, <2>1, DarOps DEF Dar!BackwardItps, Dar!F, Dar!B
<1>5. /\ backwardSeq' \in Seq(SUBSET States) /\ Len(backwardSeq') = reachedK + 2
      /\ backwardSeq'[1] = sys.bad
      /\ \A j \in 1..Len(backwardSeq') - 1 : Pre(backwardSeq'[j]) \subseteq backwardSeq'[j + 1]
      /\ \A j \in 2..reachedK + 1 : backwardSeq'[j] \cap sys.init = {}
      /\ pos = reachedK => backwardSeq'[reachedK + 2] \cap sys.init = {}
      /\ pos < reachedK => Pre(backwardSeq'[pos + 2]) \cap forwardSeq[reachedK - pos] = {}
      /\ \A j \in 1..Len(backwardSeq') : backwardSeq'[j] \subseteq backwardSeq[j]
  <2> DEFINE new == Dar!StrengthenAt(backwardSeq, pos + 1, X)
  <2>1. /\ new \in Seq(SUBSET States) /\ Len(new) = reachedK + 2
        /\ new[1] = sys.bad
        /\ \A j \in 1..Len(new) - 1 : Pre(new[j]) \subseteq new[j + 1]
        /\ \A j \in 2..reachedK + 1 : new[j] \cap sys.init = {}
        /\ pos = reachedK => new[reachedK + 2] \cap sys.init = {}
        /\ pos < reachedK => Pre(new[pos + 2]) \cap forwardSeq[reachedK - pos] = {}
        /\ \A j \in 1..Len(new) : new[j] \subseteq backwardSeq[j]
    BY <1>1, <1>2, <1>4, DarBackwardPair, ZenonT(60)
  <2> HIDE DEF new
  <2> QED
    BY <1>3, <2>1 DEF new
<1>6. DarLengths'
  BY <1>1, <1>2, <1>5 DEF DarInv, DarLengths
<1>7. DarSequences'
  <2>1. BackwardChain'
    <3>1. Len(backwardSeq') >= 1
      BY <1>2, <1>5
    <3> QED
      BY <1>1, <1>5, <3>1 DEF BackwardChain, Pre
  <2>2. BackwardExcludes(IF pc = "backward" /\ pos <= reachedK THEN reachedK + 1
                        ELSE Len(backwardSeq))'
    <3>1. CASE pos' <= reachedK'
      BY <1>1, <1>5, <3>1 DEF BackwardExcludes
    <3>2. CASE ~(pos' <= reachedK')
      <4>1. pos = reachedK
        BY <1>1, <1>2, <3>2
      <4>2. \A j \in 2..reachedK + 2 : j \in 2..reachedK + 1 \/ j = reachedK + 2
        BY <1>2
      <4>3. \A j \in 2..reachedK + 2 : backwardSeq'[j] \cap sys.init = {}
        BY <1>5, <4>1, <4>2
      <4> QED
        BY <1>1, <1>5, <3>2, <4>3 DEF BackwardExcludes
    <3> QED
      BY <3>1, <3>2
  <2>3. ForwardChain' /\ ForwardExcludes(Len(forwardSeq))'
    BY <1>1 DEF DarInv, DarSequences, ForwardChain, ForwardExcludes, Img
  <2> QED
    BY <1>1, <2>1, <2>2, <2>3 DEF DarSequences
<1>8. DarPass'
  <2>1. idx \in 0..reachedK /\ pos \in reachedK - idx..reachedK + 1
    BY <1>1 DEF DarInv, DarPass
  <2>2. pos + 1 \in reachedK - idx..reachedK + 1
    BY <1>2, <2>1
  <2>3. pos + 1 <= reachedK =>
          Pre(backwardSeq'[(pos + 1) + 1]) \cap forwardSeq[reachedK + 1 - (pos + 1)] = {}
    <3>1. (pos + 1) + 1 = pos + 2 /\ reachedK + 1 - (pos + 1) = reachedK - pos
      BY <1>2
    <3>2. pos + 1 <= reachedK => pos < reachedK
      BY <1>2
    <3> QED
      BY <1>5, <3>1, <3>2
  <2> QED
    BY <1>1, <2>1, <2>2, <2>3 DEF DarPass, Pre
<1>9. CallInv' /\ PromisedStep
  BY <1>1, <1>2 DEF CallInv, PromisedStep, Busy, Shown
<1>10. Cexs(sys, reachedK + 1) = {}
  BY <1>1 DEF DarInv
<1> QED
  BY <1>1, <1>2, <1>6, <1>7, <1>8, <1>9, <1>10 DEF DarInv, DarChain, Busy

\* The set that a fixed point gives proves the property, from either side.
LEMMA DarProved ==
  ASSUME CallInv, DarInv, pc = "backward", pos = Dar!SeqLen
  PROVE  /\ FixedPoints(forwardSeq) # {} =>
              /\ Inductive(sys, FixedPoint(forwardSeq))
              /\ FixedPoint(forwardSeq) \cap sys.bad = {}
              /\ Safe(sys)
         /\ FixedPoints(backwardSeq) # {} =>
              /\ Inductive(sys, Neg(FixedPoint(backwardSeq)))
              /\ Neg(FixedPoint(backwardSeq)) \cap sys.bad = {}
              /\ Safe(sys)
<1>1. /\ reachedK \in Nat /\ Clear(sys, reachedK)
      /\ sys.init \subseteq States /\ sys.bad \subseteq States
      /\ sys.trans \subseteq States \X States
      /\ Len(forwardSeq) = reachedK + 2 /\ Len(backwardSeq) = reachedK + 2
      /\ ForwardChain /\ BackwardChain
      /\ ForwardExcludes(reachedK + 1) /\ BackwardExcludes(reachedK + 1)
  BY DarPassing
<1>2. sys.init \cap sys.bad = {}
  BY <1>1, ClearInit
<1>3. \A j \in 2..Len(forwardSeq) - 1 : forwardSeq[j] \cap sys.bad = {}
  <2>1. Len(forwardSeq) - 1 = reachedK + 1
    BY <1>1
  <2> QED
    BY <1>1, <2>1 DEF ForwardExcludes
<1>4. \A j \in 2..Len(backwardSeq) - 1 : backwardSeq[j] \cap sys.init = {}
  <2>1. Len(backwardSeq) - 1 = reachedK + 1
    BY <1>1
  <2> QED
    BY <1>1, <2>1 DEF BackwardExcludes
<1>5. /\ forwardSeq \in Seq(SUBSET States) /\ forwardSeq[1] = sys.init
      /\ \A j \in 1..Len(forwardSeq) - 1 : Img(forwardSeq[j]) \subseteq forwardSeq[j + 1]
      /\ backwardSeq \in Seq(SUBSET States) /\ backwardSeq[1] = sys.bad
      /\ \A j \in 1..Len(backwardSeq) - 1 : Pre(backwardSeq[j]) \subseteq backwardSeq[j + 1]
  BY <1>1 DEF ForwardChain, BackwardChain
<1>6. ASSUME FixedPoints(forwardSeq) # {}
      PROVE  /\ Inductive(sys, FixedPoint(forwardSeq))
             /\ FixedPoint(forwardSeq) \cap sys.bad = {}
             /\ Safe(sys)
  BY <1>1, <1>2, <1>3, <1>5, <1>6, ForwardInvariant
<1>7. ASSUME FixedPoints(backwardSeq) # {}
      PROVE  /\ Inductive(sys, Neg(FixedPoint(backwardSeq)))
             /\ Neg(FixedPoint(backwardSeq)) \cap sys.bad = {}
             /\ Safe(sys)
  BY <1>1, <1>2, <1>4, <1>5, <1>7, BackwardInvariant
<1> QED
  BY <1>6, <1>7

LEMMA DarCheckFixedPoint ==
  ASSUME CallInv, DarInv, Dar!CheckFixedPoint
  PROVE  CallInv' /\ DarInv' /\ PromisedStep
<1>1. /\ pc = "backward" /\ pos = Dar!SeqLen /\ reachedK' = reachedK + 1
      /\ UNCHANGED <<sys, opts, level, bound, itps, path, forwardSeq, backwardSeq, idx, pos>>
  BY DEF Dar!CheckFixedPoint, Dar!darVars
<1>2. /\ reachedK \in Nat /\ i = reachedK + 1 /\ i \in Nat /\ result = "NONE"
      /\ Clear(sys, reachedK) /\ sys \in Systems /\ pos = reachedK + 1
      /\ Len(forwardSeq) = reachedK + 2 /\ Len(backwardSeq) = reachedK + 2
  BY <1>1, DarPassing
<1>3. Clear(sys, reachedK + 1)
  <2>1. Cexs(sys, reachedK + 1) = {}
    BY <1>1 DEF DarInv
  <2> QED
    BY <1>2, <2>1, ClearNext
<1>4. ASSUME NEW X, Inductive(sys, X), X \cap sys.bad = {}, Safe(sys),
             invar' = X, result' = "TRUE", pc' = "done", i' = i
      PROVE  CallInv' /\ DarInv' /\ PromisedStep
  <2>1. Shown'
    BY <1>1, <1>4 DEF Shown
  <2>2. CallInv' /\ PromisedStep
    BY <1>1, <1>2, <1>3, <1>4, <2>1 DEF CallInv, PromisedStep, Busy
  <2>3. level' = 0
    BY <1>1, <1>2 DEF DarInv
  <2> QED
    BY <1>4, <2>2, <2>3 DEF DarInv, DarPass, DarChain, Busy
<1>5. CASE FixedPoints(forwardSeq) # {}
  <2>1. /\ invar' = FixedPoint(forwardSeq) /\ result' = "TRUE" /\ pc' = "done" /\ i' = i
    BY <1>5, DarOps DEF Dar!CheckFixedPoint, Dar!Proved
  <2>2. /\ Inductive(sys, FixedPoint(forwardSeq)) /\ FixedPoint(forwardSeq) \cap sys.bad = {}
        /\ Safe(sys)
    BY <1>1, <1>5, DarProved
  <2> QED
    BY <1>4, <2>1, <2>2
<1>6. CASE FixedPoints(forwardSeq) = {} /\ FixedPoints(backwardSeq) # {}
  <2>1. /\ invar' = Neg(FixedPoint(backwardSeq)) /\ result' = "TRUE" /\ pc' = "done" /\ i' = i
    BY <1>6, DarOps DEF Dar!CheckFixedPoint, Dar!Proved, Dar!BackwardInvar, Dar!Neg, Neg
  <2>2. /\ Inductive(sys, Neg(FixedPoint(backwardSeq)))
        /\ Neg(FixedPoint(backwardSeq)) \cap sys.bad = {} /\ Safe(sys)
    BY <1>1, <1>6, DarProved
  <2> QED
    BY <1>4, <2>1, <2>2
<1>7. CASE FixedPoints(forwardSeq) = {} /\ FixedPoints(backwardSeq) = {}
  <2>1. i' = i + 1 /\ pc' = "loop" /\ UNCHANGED <<invar, result>>
    BY <1>7, DarOps DEF Dar!CheckFixedPoint, Dar!ToNextBound
  <2>2. CallInv' /\ PromisedStep
    BY <1>1, <1>2, <1>3, <2>1 DEF CallInv, PromisedStep, Busy
  <2>3. DarLengths'
    <3>1. reachedK' + 1 = reachedK + 2 /\ reachedK' >= 0
      BY <1>1, <1>2
    <3> QED
      BY <1>1, <1>2, <2>1, <3>1 DEF DarLengths
  <2>4. DarSequences'
    <3>1. ~(pos <= reachedK)
      BY <1>2
    <3>2. ForwardChain /\ BackwardChain /\ ForwardExcludes(Len(forwardSeq))
          /\ BackwardExcludes(Len(backwardSeq))
      BY <1>1, <3>1 DEF DarInv, DarSequences
    <3>3. ForwardChain' /\ BackwardChain' /\ ForwardExcludes(Len(forwardSeq))'
          /\ BackwardExcludes(Len(backwardSeq))'
      BY <1>1, <3>2 DEF ForwardChain, BackwardChain, ForwardExcludes, BackwardExcludes, Img, Pre
    <3> QED
      BY <2>1, <3>3 DEF DarSequences
  <2>5. level' = IF result' = "FALSE" THEN reachedK' + 2 ELSE 0
    BY <1>1, <1>2, <2>1 DEF DarInv
  <2> QED
    BY <2>1, <2>2, <2>3, <2>4, <2>5 DEF DarInv, DarPass, DarChain, Busy
<1> QED
  BY <1>5, <1>6, <1>7

LEMMA DarKept ==
  ASSUME DarLengths, DarSequences, pc \notin {"forward", "backward"},
         pc' \notin {"forward", "backward"},
         UNCHANGED <<sys, forwardSeq, backwardSeq>>,
         reachedK' = reachedK \/ (reachedK = -1 /\ reachedK' = 0)
  PROVE  DarLengths' /\ DarSequences'
<1>1. DarLengths'
  <2>1. CASE reachedK' = reachedK
    BY <2>1 DEF DarLengths
  <2>2. CASE reachedK = -1 /\ reachedK' = 0
    BY <2>2 DEF DarLengths
  <2> QED
    BY <2>1, <2>2
<1>2. DarSequences'
  BY DEF DarSequences, ForwardChain, BackwardChain, ForwardExcludes, BackwardExcludes, Img, Pre
<1> QED
  BY <1>1, <1>2

LEMMA DarEngineStep ==
  ASSUME CallInv, DarInv, EngineStep, UNCHANGED <<forwardSeq, backwardSeq, idx, pos>>
  PROVE  DarInv'
<1>1. CASE LoopExit
  <2>1. DarLengths' /\ DarSequences'
    BY <1>1, DarKept DEF LoopExit, DarInv
  <2> QED
    BY <1>1, <2>1 DEF LoopExit, CallInv, DarInv, DarPass, DarChain, Busy
<1>2. CASE StepCovered
  <2>1. DarLengths' /\ DarSequences'
    BY <1>2, DarKept DEF StepCovered, DarInv
  <2> QED
    BY <1>2, <2>1 DEF StepCovered, CallInv, DarInv, DarPass, DarChain, Busy
<1>3. CASE Step0Bad
  <2>1. reachedK = -1
    BY <1>3 DEF Step0Bad, CallInv
  <2>2. level' = 1 /\ result' = "FALSE" /\ pc' = "done" /\ reachedK' = reachedK
    BY <1>3 DEF Step0Bad, Refuted
  <2>3. level' = reachedK' + 2
    BY <2>1, <2>2
  <2> QED
    BY <2>2, <2>3 DEF DarInv, DarPass, DarChain, Busy
<1>4. CASE Step0Good
  <2>1. reachedK = -1 /\ pc = "loop" /\ result = "NONE"
    BY <1>4 DEF Step0Good, CallInv
  <2>2. reachedK' = 0 /\ pc' = "loop" /\ result' = result /\ level' = level /\ sys' = sys
    BY <1>4 DEF Step0Good, ToNextBound
  <2>3. DarLengths' /\ DarSequences'
    BY <2>1, <2>2, DarKept DEF DarInv
  <2> QED
    BY <2>1, <2>2, <2>3 DEF DarInv, DarPass, DarChain, Busy
<1>5. CASE InterpolatorFails
  <2>1. result = "NONE"
    BY <1>5 DEF InterpolatorFails, CallInv, Busy
  <2> QED
    BY <1>5, <2>1 DEF InterpolatorFails, DarInv, DarPass, DarChain, Busy
<1> QED
  BY <1>1, <1>2, <1>3, <1>4, <1>5 DEF EngineStep

LEMMA DarStepKeeps ==
  ASSUME CallInv, DarInv, opts.engine = "dar", Dar!Step
  PROVE  CallInv' /\ DarInv' /\ PromisedStep
<1>1. CASE Dar!EngineStep /\ UNCHANGED Dar!darVars
  <2>1. EngineStep /\ UNCHANGED <<forwardSeq, backwardSeq, idx, pos>>
    BY <1>1, DarSteps DEF Dar!darVars
  <2> QED
    BY <2>1, DarEngineStep, EngineStepKeeps
<1>2. CASE Dar!LocalStrengthen
  BY <1>2, DarLocalStrengthen
<1>3. CASE Dar!LocalConcrete \/ Dar!GlobalConcrete
  BY <1>3, DarConcrete
<1>4. CASE Dar!GlobalFound
  BY <1>4, DarGlobalFound
<1>5. CASE Dar!NextInterpolant
  BY <1>5, DarNextInterpolant
<1>6. CASE Dar!GlobalStrengthen
  BY <1>6, DarGlobalStrengthen
<1>7. CASE Dar!Forward
  BY <1>7, DarForward
<1>8. CASE Dar!TurnBackward
  BY <1>8, DarTurnBackward
<1>9. CASE Dar!Backward
  BY <1>9, DarBackward
<1>10. CASE Dar!CheckFixedPoint
  BY <1>10, DarCheckFixedPoint
<1> QED
  BY <1>1, <1>2, <1>3, <1>4, <1>5, <1>6, <1>7, <1>8, <1>9, <1>10 DEF Dar!Step

LEMMA DarResetKeeps ==
  ASSUME CallInv, DarInv, Dar!Reset
  PROVE  CallInv' /\ DarInv' /\ PromisedStep
<1>1. ResetEnv
  BY DarSteps DEF Dar!Reset
<1>2. CallInv' /\ PromisedStep
  BY <1>1, ResetEnvKeeps
<1>3. sys' \in Systems /\ level' = 0 /\ reachedK' = -1 /\ result' = "NONE" /\ pc' = "idle"
  BY <1>1 DEF ResetEnv
<1>4. /\ forwardSeq' = <<sys'.init>> /\ sys'.init \in SUBSET States
      /\ backwardSeq' = <<sys'.bad>> /\ sys'.bad \in SUBSET States
  BY <1>3, SystemParts DEF Dar!Reset
<1>5. /\ forwardSeq' \in Seq(SUBSET States) /\ Len(forwardSeq') = 1 /\ forwardSeq'[1] = sys'.init
      /\ backwardSeq' \in Seq(SUBSET States) /\ Len(backwardSeq') = 1 /\ backwardSeq'[1] = sys'.bad
  BY <1>4, SingleSeq
<1>6. DarLengths'
  BY <1>3, <1>5 DEF DarLengths
<1>7. DarSequences'
  BY <1>3, <1>5 DEF DarSequences, ForwardChain, BackwardChain, ForwardExcludes, BackwardExcludes
<1> QED
  BY <1>2, <1>3, <1>6, <1>7 DEF DarInv, DarPass, DarChain, Busy

LEMMA DarCallKeeps ==
  ASSUME CallInv, DarInv, NEW k \in Bounds, CheckUntil(k),
         UNCHANGED <<forwardSeq, backwardSeq, idx, pos>>
  PROVE  DarInv'
<1>1. /\ pc = "idle" /\ pc' = "loop" /\ result' = "NONE"
      /\ UNCHANGED <<sys, level, reachedK>>
  BY DEF CheckUntil
<1>2. result # "FALSE"
  BY <1>1 DEF CallInv
<1>3. DarLengths' /\ DarSequences'
  BY <1>1, DarKept DEF DarInv
<1> QED
  BY <1>1, <1>2, <1>3 DEF DarInv, DarPass, DarChain, Busy

\* The assertions of the engine dar follow from its invariant: what a pass asks
\* the interpolator for is unsatisfiable.
LEMMA DarAssertions ==
  ASSUME CallInv, DarInv
  PROVE  Dar!AssertionsHold
<1>1. pc = "loop" /\ reachedK >= 0 => Len(forwardSeq) = reachedK + 1
  BY DEF DarInv, DarLengths
<1>2. pc \in {"chain", "forward", "backward"} => i = reachedK + 1
  BY DEF CallInv, Busy
<1>3. pc \in {"loop", "chain"} => Len(forwardSeq) = Len(backwardSeq)
  BY DEF DarInv, DarLengths
<1>4. level = IF result = "FALSE" THEN reachedK + 2 ELSE 0
  BY DEF DarInv
<1>5. ASSUME pc = "forward", pos < Dar!SeqLen
      PROVE  Dar!ForwardItps # {}
  <2>1. reachedK \in Nat /\ pos \in Nat /\ Dar!SeqLen = reachedK + 1 /\ pos <= reachedK
    BY <1>5, DarPassing
  <2>2. (reachedK + 1) - 1 - pos + 1 = reachedK + 1 - pos
    BY <2>1
  <2>3. Img(forwardSeq[pos + 1]) \cap backwardSeq[reachedK + 1 - pos] = {}
    BY <1>5, <2>1 DEF DarInv, DarPass
  <2>4. Img(forwardSeq[pos + 1]) \in Dar!ForwardItps
    <3>1. Img(forwardSeq[pos + 1]) \in SUBSET States
      BY DEF Img
    <3> QED
      BY <2>1, <2>2, <2>3, <3>1, DarOps DEF Dar!ForwardItps, Dar!F, Dar!B
  <2> QED
    BY <2>4
<1>6. ASSUME pc = "backward", pos < Dar!SeqLen
      PROVE  Dar!BackwardItps # {}
  <2>1. reachedK \in Nat /\ pos \in Nat /\ Dar!SeqLen = reachedK + 1 /\ pos <= reachedK
    BY <1>6, DarPassing
  <2>2. (reachedK + 1) - 1 - pos + 1 = reachedK + 1 - pos
    BY <2>1
  <2>3. Pre(backwardSeq[pos + 1]) \cap forwardSeq[reachedK + 1 - pos] = {}
    BY <1>6, <2>1 DEF DarInv, DarPass
  <2>4. Pre(backwardSeq[pos + 1]) \in Dar!BackwardItps
    <3>1. Pre(backwardSeq[pos + 1]) \in SUBSET States
      BY DEF Pre
    <3> QED
      BY <2>1, <2>2, <2>3, <3>1, DarOps DEF Dar!BackwardItps, Dar!F, Dar!B
  <2> QED
    BY <2>4
<1> QED
  BY <1>1, <1>2, <1>3, <1>4, <1>5, <1>6 DEF Dar!AssertionsHold

-----------------------------------------------------------------------------
(* K-induction.  What its checks exclude are the shortest counterexamples. *)

KindStart == {"idle", "loop", "simple", "indinit", "indprop", "base"}

\* No shortest counterexample has i steps or more.
NoLong == \A n \in Nat : n >= i => ~Shortest(sys, n)

KindTypes ==
  /\ sys \in KindSystems /\ opts \in KindOptions
  /\ i \in Nat /\ bound \in Nat /\ reachedK \in Int
  /\ reachedK >= -1 /\ reachedK < i /\ (i > 0 => reachedK >= 0)
  /\ pc \in KindStart \cup {"final", "done"}

KindClauses ==
  /\ pairs \subseteq { q \in Nat \X Nat : q[1] < q[2] /\ q[2] <= i }
  /\ negInit \subseteq 1..i

KindAnswers ==
  /\ Kind!Stepwise => reachedK = i - 1 /\ Clear(sys, reachedK)
  /\ pc = "idle" => result = "NONE" \/ (result = "UNKNOWN" /\ reachedK >= 0)
  /\ pc \in (KindStart \ {"idle"}) \cup {"final"} => result = "NONE"
  /\ pc = "final" => opts.oneTime /\ NoLong
  /\ pc = "done" => result \in {"TRUE", "FALSE"}
  /\ result = "TRUE" => Safe(sys)
  /\ result = "FALSE" => \E n \in Nat : n <= i /\ Cexs(sys, n) # {}
  /\ result = "FALSE" /\ Kind!Stepwise => Cexs(sys, i) # {}

KindInv == KindTypes /\ KindClauses /\ KindAnswers

LEMMA KindParts ==
  ASSUME NEW sy \in KindSystems
  PROVE  /\ sy.init \subseteq States /\ sy.bad \subseteq States
         /\ sy.trans \subseteq States \X States
BY KindEngineAssumption DEF Kind!KindAssumption, Kind!KindSystemType

LEMMA KindOptionParts ==
  ASSUME NEW o \in KindOptions
  PROVE  /\ o.engine = "ind" /\ o.step \in Nat \ {0} /\ o.oneTime \in BOOLEAN
         /\ o.step # 1 => o.oneTime /\ o.simplePath # "eager"
BY KindEngineAssumption DEF Kind!KindAssumption, Kind!OptionType

LEMMA KindPaths ==
  \A sy, n : Kind!Paths(sy, n) = Paths(sy, n)
BY DEF Kind!Paths, Paths

\* Part of a shortest counterexample, i steps long: what the solver knows of
\* the times before i is true of it.
LEMMA PartIsRun ==
  ASSUME sys \in KindSystems, i \in Nat, KindClauses,
         NEW n \in Nat, Shortest(sys, n), NEW p \in Cexs(sys, n),
         NEW a \in Nat, a + i <= n
  PROVE  Cut(p, a, a + i) \in Kind!Runs
<1> DEFINE c == Cut(p, a, a + i)
<1>1. p \in Paths(sys, n)
  BY DEF Cexs
<1>2. /\ c \in Paths(sys, i)
      /\ \A t \in 0..i : c[t] = p[a + t]
  <2>1. (a + i) - a = i /\ a <= a + i /\ a + i \in Nat
    OBVIOUS
  <2>2. /\ Cut(p, a, a + i) \in Paths(sys, (a + i) - a)
        /\ \A t \in 0..((a + i) - a) : Cut(p, a, a + i)[t] = p[a + t]
    <3> DEFINE b == a + i
    <3>1. b \in Nat /\ a <= b /\ b <= n
      BY <2>1
    <3> HIDE DEF b
    <3>2. /\ Cut(p, a, b) \in Paths(sys, b - a)
          /\ \A t \in 0..(b - a) : Cut(p, a, b)[t] = p[a + t]
      BY <1>1, <3>1, CutPath
    <3> QED
      BY <3>2 DEF b
  <2> QED
    BY <2>1, <2>2
<1> HIDE DEF c
<1>3. ASSUME NEW t \in 0..i - 1
      PROVE  c[t] \notin sys.bad
  <2>1. t \in 0..i /\ a + t \in 0..n /\ a + t < n
    OBVIOUS
  <2>2. \A u \in 0..n : u < n => p[u] \notin sys.bad
    BY ShortestEnds
  <2> QED
    BY <1>2, <2>1, <2>2
<1>4. ASSUME NEW q \in pairs
      PROVE  Kind!Differ(c, q[1], q[2])
  <2> DEFINE j == q[1]
             l == q[2]
  <2>1. j \in Nat /\ l \in Nat /\ j < l /\ l <= i
    BY DEF KindClauses
  <2> HIDE DEF j, l
  <2>2. c[j] = p[a + j] /\ c[l] = p[a + l]
    BY <1>2, <2>1
  <2>3. a + j \in Nat /\ a + l \in Nat /\ a + j < a + l /\ a + l <= n
    BY <2>1
  <2>4. p[a + j] # p[a + l]
    <3> DEFINE t == a + j
               u == a + l
    <3>1. t \in Nat /\ u \in Nat /\ t < u /\ u <= n
      BY <2>3
    <3> HIDE DEF t, u
    <3>2. p[t] # p[u]
      BY <3>1, ShortestSkips
    <3> QED
      BY <3>2 DEF t, u
  <2>5. ASSUME j > 0, <<p[a + j], p[a + l]>> \in sys.same
        PROVE  FALSE
    <3> DEFINE t == a + j - 1
               u == a + l
               w == a + l - 1
    <3>1. /\ t \in Nat /\ u \in Nat /\ w \in Nat /\ t < u /\ u > t + 1 /\ u <= n
          /\ t + 1 = a + j /\ w + 1 = u /\ t \in 0..n /\ t + 1 \in 0..n
          /\ w \in 0..n /\ w + 1 \in 0..n
      BY <2>1, <2>3, <2>5
    <3> HIDE DEF t, u, w
    <3>2. <<p[t], p[t + 1]>> \in sys.trans /\ <<p[w], p[w + 1]>> \in sys.trans
      BY <1>1, <3>1 DEF Paths
    <3>3. p[t] \in States /\ p[w] \in States
      BY <1>1, <3>1 DEF Paths
    <3>4. <<p[t + 1], p[u]>> \in sys.same
      BY <2>5, <3>1 DEF u
    <3>5. <<p[t], p[u]>> \in sys.trans
      <4>1. \A e \in sys.same : \A x, y \in States :
              <<x, e[1]>> \in sys.trans /\ <<y, e[2]>> \in sys.trans => <<x, e[2]>> \in sys.trans
        BY KindEngineAssumption DEF Kind!KindAssumption
      <4> DEFINE e == <<p[t + 1], p[u]>>
      <4>2. e \in sys.same /\ e[1] = p[t + 1] /\ e[2] = p[u]
        BY <3>4
      <4> HIDE DEF e
      <4> QED
        BY <3>1, <3>2, <3>3, <4>1, <4>2
    <3>6. <<p[t], p[u]>> \notin sys.trans
      BY <3>1, ShortestSkips
    <3> QED
      BY <3>5, <3>6
  <2>6. Kind!Differ(c, j, l)
    BY <2>1, <2>2, <2>4, <2>5 DEF Kind!Differ
  <2> QED
    BY <2>6 DEF j, l
<1>5. c \in Kind!Runs
  BY <1>2, <1>3, <1>4, KindPaths DEF Kind!Runs
<1> QED
  BY <1>5 DEF c

\* An unsatisfiable check: no shortest counterexample has a part for it.
LEMMA ChecksExclude ==
  ASSUME KindTypes, KindClauses,
         \/ Kind!Runs = {}
         \/ i >= 1 /\ Kind!InitRuns = {}
         \/ Kind!BadRuns = {}
  PROVE  NoLong
<1> SUFFICES ASSUME NEW n \in Nat, n >= i, Shortest(sys, n)
             PROVE  FALSE
  BY DEF NoLong
<1>1. PICK p \in Cexs(sys, n) : TRUE
  BY DEF Shortest
<1>2. p \in Paths(sys, n) /\ p[0] \in sys.init /\ p[n] \in sys.bad
  BY DEF Cexs
<1>3. sys \in KindSystems /\ i \in Nat
  BY DEF KindTypes
<1> DEFINE first == Cut(p, 0, 0 + i)
           last == Cut(p, n - i, n - i + i)
<1>4. first \in Kind!Runs
  <2>1. 0 + i <= n
    BY <1>3
  <2> QED
    BY <1>3, <2>1, PartIsRun
<1>5. last \in Kind!Runs
  <2> DEFINE a == n - i
  <2>1. a \in Nat /\ a + i <= n
    BY <1>3
  <2> HIDE DEF a
  <2>2. Cut(p, a, a + i) \in Kind!Runs
    BY <1>3, <2>1, PartIsRun
  <2> QED
    BY <2>2 DEF a
<1>6. \A t \in 0..i : first[t] = p[t]
  <2>1. 0 + i = i /\ i - 0 = i
    BY <1>3
  <2>2. \A t \in 0..i : 0 + t = t
    BY <1>3
  <2> QED
    BY <2>1, <2>2 DEF Cut
<1>7. last[i] = p[n]
  <2>1. n - i + i = n /\ n - (n - i) = i /\ i \in 0..i
    BY <1>3
  <2> QED
    BY <2>1 DEF Cut
<1> HIDE DEF first, last
<1>8. last \in Kind!BadRuns
  BY <1>2, <1>5, <1>7 DEF Kind!BadRuns
<1>9. ASSUME i >= 1
      PROVE  first \in Kind!InitRuns
  <2>1. first[0] \in sys.init
    BY <1>2, <1>3, <1>6
  <2>2. Kind!NegatedInit \subseteq 1..i
    BY <1>9 DEF Kind!NegatedInit, KindTypes, KindClauses
  <2>3. \A t \in 1..i : first[t] \notin sys.init
    <3>1. \A t \in 1..n : p[t] \notin sys.init
      BY ShortestEnds
    <3>2. \A t \in 1..i : t \in 1..n /\ t \in 0..i
      BY <1>3
    <3> QED
      BY <1>6, <3>1, <3>2
  <2> QED
    BY <1>4, <2>1, <2>2, <2>3 DEF Kind!InitRuns
<1> QED
  BY <1>4, <1>8, <1>9

\* With no counterexample before i, the base case is complete.
LEMMA BaseCaseComplete ==
  ASSUME KindTypes, KindClauses, Clear(sys, i - 1), Kind!BaseRuns = {}
  PROVE  Cexs(sys, i) = {}
<1> SUFFICES ASSUME NEW p \in Cexs(sys, i)
             PROVE  FALSE
  OBVIOUS
<1>1. sys \in KindSystems /\ i \in Nat
  BY DEF KindTypes
<1>2. Shortest(sys, i)
  <2>1. \A m \in Nat : m < i => m <= i - 1
    BY <1>1
  <2> QED
    BY <2>1 DEF Shortest, Clear
<1>3. p[0] \in sys.init /\ p[i] \in sys.bad
  BY DEF Cexs
<1> DEFINE c == Cut(p, 0, 0 + i)
<1>4. c \in Kind!Runs
  <2>1. 0 + i <= i
    BY <1>1
  <2> QED
    BY <1>1, <1>2, <2>1, PartIsRun
<1>5. c[0] = p[0] /\ c[i] = p[i]
  <2>1. 0 + i = i /\ i - 0 = i /\ 0 + 0 = 0 /\ 0 \in 0..i /\ i \in 0..i
    BY <1>1
  <2> QED
    BY <2>1 DEF Cut
<1> HIDE DEF c
<1>6. c \in Kind!BaseRuns
  BY <1>3, <1>4, <1>5 DEF Kind!BaseRuns, Kind!BadRuns
<1> QED
  BY <1>6

\* What the base case finds is a counterexample.
LEMMA BaseRunsAreCexs ==
  Kind!BaseRuns \subseteq Cexs(sys, i)
BY KindPaths DEF Kind!BaseRuns, Kind!BadRuns, Kind!Runs, Cexs

\* The final base case check is satisfiable exactly when some counterexample has
\* at most i steps.
LEMMA FinalRunsContain ==
  ASSUME KindTypes, NEW p \in Kind!FinalRuns
  PROVE  \E n \in Nat : n <= i /\ Cexs(sys, n) # {}
<1>1. i \in Nat
  BY DEF KindTypes
<1>2. CASE sys.total
  <2>1. PICK t \in 0..i : p \in Paths(sys, i) /\ p[0] \in sys.init /\ p[t] \in sys.bad
    BY <1>2, KindPaths DEF Kind!FinalRuns
  <2>2. t \in Nat /\ t <= i
    BY <1>1
  <2>3. Cut(p, 0, t) \in Cexs(sys, t)
    BY <1>1, <2>1, <2>2, PathPrefix DEF Cexs
  <2> QED
    BY <2>2, <2>3
<1>3. CASE ~sys.total
  <2>1. PICK t \in 0..i : /\ p \in [0..i -> States] /\ p[0] \in sys.init /\ p[t] \in sys.bad
                         /\ \A u \in 1..t : <<p[u - 1], p[u]>> \in sys.trans
    BY <1>3 DEF Kind!FinalRuns
  <2> DEFINE c == [u \in 0..t |-> p[u]]
  <2>2. t \in Nat /\ t <= i /\ c \in [0..t -> States]
    BY <1>1, <2>1
  <2>3. ASSUME NEW u \in 0..t, u + 1 \in 0..t
        PROVE  <<c[u], c[u + 1]>> \in sys.trans
    <3>1. u + 1 \in 1..t /\ (u + 1) - 1 = u
      BY <2>3
    <3>2. <<p[(u + 1) - 1], p[u + 1]>> \in sys.trans
      BY <2>1, <3>1
    <3> QED
      BY <2>3, <3>1, <3>2
  <2>4. c[0] \in sys.init /\ c[t] \in sys.bad
    BY <2>1, <2>2
  <2> HIDE DEF c
  <2>5. c \in Cexs(sys, t)
    BY <2>2, <2>3, <2>4 DEF Cexs, Paths
  <2> QED
    BY <2>2, <2>5
<1> QED
  BY <1>2, <1>3

LEMMA FinalCheckComplete ==
  ASSUME KindTypes, Kind!FinalRuns = {}
  PROVE  Clear(sys, i)
<1>1. i \in Nat /\ sys \in KindSystems
  BY DEF KindTypes
<1> SUFFICES ASSUME NEW n \in Nat, n <= i, NEW p \in Cexs(sys, n)
             PROVE  FALSE
  BY DEF Clear
<1>2. p \in Paths(sys, n) /\ p[0] \in sys.init /\ p[n] \in sys.bad /\ p \in [0..n -> States]
  BY DEF Cexs, Paths
<1>3. CASE sys.total
  <2>1. \A s \in States : \E t \in States : <<s, t>> \in sys.trans
    BY <1>1, <1>3, KindEngineAssumption DEF Kind!KindAssumption
  <2>2. i - n \in Nat /\ p[n] \in States /\ n + (i - n) = i
    BY <1>1, <1>2
  <2>3. PICK r \in Paths(sys, i - n) : r[0] = p[n]
    <3> DEFINE k == i - n
               s == p[n]
    <3>1. k \in Nat /\ s \in States
      BY <2>2
    <3> HIDE DEF k, s
    <3>2. \E r \in Paths(sys, k) : r[0] = s
      BY <2>1, <3>1, PathOfAnyLength
    <3> QED
      BY <3>2 DEF k, s
  <2> DEFINE c == Joint(p, n, r, i - n)
  <2>4. c \in Paths(sys, i) /\ c[0] = p[0] /\ c[n] = p[n]
    <3>1. c \in Paths(sys, n + (i - n)) /\ \A t \in 0..n : c[t] = p[t]
      <4> DEFINE k == i - n
      <4>1. k \in Nat /\ r \in Paths(sys, k)
        BY <2>2
      <4> HIDE DEF k
      <4>2. /\ Joint(p, n, r, k) \in Paths(sys, n + k)
            /\ \A t \in 0..n : Joint(p, n, r, k)[t] = p[t]
        BY <1>2, <2>3, <4>1, JoinPaths
      <4> QED
        BY <4>2 DEF k
    <3> QED
      BY <2>2, <3>1
  <2> HIDE DEF c
  <2>5. n \in 0..i
    BY <1>1
  <2>6. c \in Kind!FinalRuns
    BY <1>2, <1>3, <2>4, <2>5, KindPaths DEF Kind!FinalRuns
  <2> QED
    BY <2>6
<1>4. CASE ~sys.total
  <2> DEFINE c == [t \in 0..i |-> IF t <= n THEN p[t] ELSE p[n]]
  <2>1. c \in [0..i -> States]
    BY <1>1, <1>2
  <2>2. \A t \in 0..n : t \in 0..i /\ c[t] = p[t]
    BY <1>1
  <2>3. n \in 0..i /\ c[0] \in sys.init /\ c[n] \in sys.bad
    BY <1>1, <1>2, <2>2
  <2>4. ASSUME NEW u \in 1..n
        PROVE  <<c[u - 1], c[u]>> \in sys.trans
    <3>1. u - 1 \in 0..n /\ (u - 1) + 1 = u /\ u \in 0..n
      BY <2>4
    <3>2. <<p[u - 1], p[(u - 1) + 1]>> \in sys.trans
      BY <1>2, <3>1 DEF Paths
    <3> QED
      BY <2>2, <3>1, <3>2
  <2> HIDE DEF c
  <2>5. c \in Kind!FinalRuns
    BY <1>4, <2>1, <2>3, <2>4 DEF Kind!FinalRuns
  <2> QED
    BY <2>5
<1> QED
  BY <1>3, <1>4

\* No counterexample up to some bound, and no shortest one from there.
LEMMA NoneLeft ==
  ASSUME KindTypes, NoLong, Clear(sys, i - 1)
  PROVE  Safe(sys)
<1>1. sys \in KindSystems /\ i \in Nat
  BY DEF KindTypes
<1>2. ASSUME NEW n \in Nat, Cexs(sys, n) # {}
      PROVE  FALSE
  <2>1. PICK m \in Nat : m <= n /\ Shortest(sys, m)
    BY <1>2, ShortestExists
  <2>2. m < i
    BY <1>1, <2>1 DEF NoLong
  <2>3. m <= i - 1
    BY <1>1, <2>2
  <2> QED
    BY <2>1, <2>3 DEF Clear, Shortest
<1> QED
  BY <1>1, <1>2, KindParts, SafeWithoutCex

LEMMA KindInit ==
  ASSUME Kind!Init
  PROVE  KindInv
<1>1. /\ sys \in KindSystems /\ opts \in KindOptions /\ pairs = {} /\ negInit = {}
      /\ reachedK = -1 /\ bound = 0 /\ i = 0 /\ pc = "idle" /\ result = "NONE"
  BY DEF Kind!Init
<1>2. Clear(sys, -1)
  BY ClearNone
<1> QED
  BY <1>1, <1>2 DEF KindInv, KindTypes, KindClauses, KindAnswers, KindStart

LEMMA KindCallKeeps ==
  ASSUME KindInv, NEW k \in Bounds, Kind!CheckUntil(k)
  PROVE  KindInv' /\ PromisedStep
<1>1. /\ pc = "idle" /\ reachedK = -1 /\ bound' = k /\ pc' = "loop"
      /\ UNCHANGED <<sys, opts, pairs, negInit, reachedK, i, path, result>>
  BY DEF Kind!CheckUntil
<1>2. k \in Nat
  BY InterpBoundsAssumption
<1>3. result = "NONE"
  BY <1>1 DEF KindInv, KindAnswers
<1>4. KindTypes' /\ KindClauses'
  BY <1>1, <1>2 DEF KindInv, KindTypes, KindClauses, KindStart
<1>5. KindAnswers'
  BY <1>1, <1>3 DEF KindInv, KindAnswers, KindStart, Kind!Stepwise
<1> QED
  BY <1>1, <1>4, <1>5 DEF KindInv, PromisedStep

\* What all steps keep.
LEMMA KindConclude ==
  ASSUME KindInv, pc \in {"simple", "indinit", "indprop"}, NoLong, Kind!Conclude,
         negInit' \subseteq 1..i
  PROVE  KindInv' /\ (Kind!Stepwise => PromisedStep)
<1>1. /\ pc' = (IF opts.oneTime THEN "final" ELSE "done")
      /\ result' = (IF opts.oneTime THEN result ELSE "TRUE")
      /\ UNCHANGED <<sys, opts, pairs, reachedK, bound, i, path>>
  BY DEF Kind!Conclude
<1>2. /\ KindTypes /\ KindClauses /\ KindAnswers /\ result = "NONE"
      /\ opts.step \in Nat \ {0} /\ opts.oneTime \in BOOLEAN
      /\ opts.step # 1 => opts.oneTime
  BY KindOptionParts DEF KindInv, KindTypes, KindAnswers, KindStart
<1>3. KindTypes' /\ KindClauses'
  BY <1>1, <1>2 DEF KindTypes, KindClauses, KindStart
<1>4. CASE opts.oneTime
  <2>1. NoLong'
    BY <1>1 DEF NoLong
  <2>2. pc' = "final" /\ result' = "NONE" /\ ~Kind!Stepwise /\ ~Kind!Stepwise'
    BY <1>1, <1>2, <1>4 DEF Kind!Stepwise
  <2>3. KindAnswers'
    BY <1>1, <1>4, <2>1, <2>2 DEF KindAnswers, KindStart
  <2> QED
    BY <1>3, <2>2, <2>3 DEF KindInv
<1>5. CASE ~opts.oneTime
  <2>1. Kind!Stepwise /\ Kind!Stepwise' /\ pc' = "done" /\ result' = "TRUE"
    BY <1>1, <1>2, <1>5 DEF Kind!Stepwise
  <2>2. Clear(sys, i - 1) /\ reachedK = i - 1
    BY <1>2, <2>1 DEF KindAnswers
  <2>3. Safe(sys)
    BY <1>2, <2>2, NoneLeft
  <2>4. KindAnswers'
    BY <1>1, <2>1, <2>2, <2>3 DEF KindAnswers, KindStart
  <2>5. PromisedStep
    BY <1>1, <1>2, <2>1, <2>3 DEF PromisedStep, KindTypes
  <2> QED
    BY <1>3, <2>4, <2>5 DEF KindInv
<1> QED
  BY <1>2, <1>4, <1>5

\* The steps that answer nothing and reach no bound.
LEMMA KindGoesOn ==
  ASSUME KindInv, pc \in KindStart \ {"idle"}, pc' \in KindStart \ {"idle"},
         UNCHANGED <<sys, opts, reachedK, bound, i, path, result>>,
         pairs' \subseteq { q \in Nat \X Nat : q[1] < q[2] /\ q[2] <= i },
         negInit' \subseteq 1..i
  PROVE  KindInv' /\ PromisedStep
<1>1. KindTypes' /\ KindClauses'
  BY DEF KindInv, KindTypes, KindClauses
<1>2. result = "NONE"
  BY DEF KindInv, KindAnswers
<1>3. KindAnswers'
  BY <1>2 DEF KindInv, KindAnswers, KindStart, Kind!Stepwise
<1> QED
  BY <1>1, <1>3 DEF KindInv, PromisedStep

LEMMA KindExtend ==
  ASSUME KindInv, Kind!Extend
  PROVE  KindInv' /\ (Kind!Stepwise => PromisedStep)
<1>1. /\ pc = "base" /\ (opts.oneTime \/ Kind!BaseRuns = {})
      /\ reachedK' = i /\ i' = i + opts.step /\ pc' = "loop"
      /\ UNCHANGED <<sys, opts, pairs, negInit, bound, path, result>>
  BY DEF Kind!Extend
<1>2. /\ KindTypes /\ KindClauses /\ KindAnswers /\ i \in Nat /\ result = "NONE"
      /\ reachedK \in Int /\ reachedK < i
      /\ opts.step \in Nat \ {0}
  BY <1>1, KindOptionParts DEF KindInv, KindTypes, KindAnswers, KindStart
<1>3. i' \in Nat /\ i < i' /\ i' > 0
  BY <1>1, <1>2
<1>4. KindTypes'
  BY <1>1, <1>2, <1>3 DEF KindTypes, KindStart
<1>5. KindClauses'
  <2>1. \A q \in Nat \X Nat : q[2] <= i => q[2] <= i'
    BY <1>2, <1>3
  <2>2. 1..i \subseteq 1..i'
    BY <1>2, <1>3
  <2> QED
    BY <1>1, <1>2, <2>1, <2>2 DEF KindClauses
<1>6. ASSUME Kind!Stepwise
      PROVE  reachedK' = i' - 1 /\ Clear(sys, i)
  <2>1. opts.step = 1 /\ ~opts.oneTime /\ Kind!BaseRuns = {}
    BY <1>1, <1>6 DEF Kind!Stepwise
  <2>2. reachedK = i - 1 /\ Clear(sys, i - 1)
    BY <1>2, <1>6 DEF KindAnswers
  <2>3. Cexs(sys, i) = {}
    BY <1>2, <2>1, <2>2, BaseCaseComplete
  <2>4. Clear(sys, i)
    <3> DEFINE n == i - 1
    <3>1. n \in Int /\ n >= -1 /\ Clear(sys, n) /\ n + 1 = i
      BY <1>2, <2>2
    <3> HIDE DEF n
    <3>2. Clear(sys, n + 1)
      BY <2>3, <3>1, ClearNext
    <3> QED
      BY <3>1, <3>2
  <2> QED
    BY <1>1, <1>2, <2>1, <2>4
<1>7. KindAnswers'
  BY <1>1, <1>2, <1>6 DEF KindAnswers, KindStart, Kind!Stepwise
<1>8. Kind!Stepwise => PromisedStep
  BY <1>1, <1>2, <1>6 DEF PromisedStep
<1> QED
  BY <1>4, <1>5, <1>7, <1>8 DEF KindInv

LEMMA KindBaseSat ==
  ASSUME KindInv, Kind!BaseSat
  PROVE  KindInv' /\ (Kind!Stepwise => PromisedStep)
<1>1. /\ pc = "base" /\ ~opts.oneTime /\ path' \in Kind!BaseRuns
      /\ result' = "FALSE" /\ pc' = "done"
      /\ UNCHANGED <<sys, opts, pairs, negInit, reachedK, bound, i>>
  BY DEF Kind!BaseSat
<1>2. KindTypes /\ KindClauses /\ KindAnswers /\ i \in Nat /\ result = "NONE"
  BY <1>1 DEF KindInv, KindTypes, KindAnswers, KindStart
<1>3. Cexs(sys, i) # {}
  BY <1>1, BaseRunsAreCexs
<1>4. KindTypes' /\ KindClauses'
  BY <1>1, <1>2 DEF KindTypes, KindClauses, KindStart
<1>5. KindAnswers'
  BY <1>1, <1>2, <1>3 DEF KindAnswers, KindStart, Kind!Stepwise
<1>6. ASSUME Kind!Stepwise
      PROVE  PromisedStep
  <2>1. reachedK = i - 1 /\ reachedK + 1 = i /\ Clear(sys, reachedK)
    BY <1>2, <1>6 DEF KindAnswers
  <2> QED
    BY <1>1, <1>2, <1>3, <2>1 DEF PromisedStep
<1> QED
  BY <1>4, <1>5, <1>6 DEF KindInv

LEMMA KindFinal ==
  ASSUME KindInv, Kind!FinalSat \/ Kind!FinalUnsat
  PROVE  KindInv' /\ (Kind!Stepwise => PromisedStep)
<1>1. /\ pc = "final" /\ pc' = "done"
      /\ UNCHANGED <<sys, opts, pairs, negInit, reachedK, bound, i>>
  BY DEF Kind!FinalSat, Kind!FinalUnsat
<1>2. /\ KindTypes /\ KindClauses /\ KindAnswers /\ i \in Nat
      /\ opts.oneTime /\ NoLong /\ ~Kind!Stepwise /\ ~Kind!Stepwise'
  BY <1>1 DEF KindInv, KindTypes, KindAnswers, Kind!Stepwise
<1>3. KindTypes' /\ KindClauses'
  BY <1>1, <1>2 DEF KindTypes, KindClauses, KindStart
<1>4. CASE Kind!FinalSat
  <2>1. path' \in Kind!FinalRuns /\ result' = "FALSE"
    BY <1>4 DEF Kind!FinalSat
  <2>2. \E n \in Nat : n <= i /\ Cexs(sys, n) # {}
    BY <1>2, <2>1, FinalRunsContain
  <2> QED
    BY <1>1, <1>2, <1>3, <2>1, <2>2 DEF KindInv, KindAnswers, KindStart
<1>5. CASE Kind!FinalUnsat
  <2>1. Kind!FinalRuns = {} /\ result' = "TRUE"
    BY <1>5 DEF Kind!FinalUnsat
  <2>2. Clear(sys, i)
    BY <1>2, <2>1, FinalCheckComplete
  <2>3. Clear(sys, i - 1)
    <3>1. \A m \in Nat : m <= i - 1 => m <= i
      BY <1>2
    <3> QED
      BY <2>2, <3>1 DEF Clear
  <2>4. Safe(sys)
    BY <1>2, <2>3, NoneLeft
  <2> QED
    BY <1>1, <1>2, <1>3, <2>1, <2>4 DEF KindInv, KindAnswers, KindStart
<1> QED
  BY <1>4, <1>5

LEMMA KindStepKeeps ==
  ASSUME KindInv, Kind!Step
  PROVE  KindInv' /\ (Kind!Stepwise => PromisedStep)
<1>1. /\ KindTypes /\ KindClauses /\ KindAnswers /\ i \in Nat
  BY DEF KindInv, KindTypes
<1>2. CASE Kind!LoopExit
  <2>1. /\ pc = "loop" /\ i > bound /\ result' = "UNKNOWN" /\ pc' = "idle"
        /\ UNCHANGED <<sys, opts, pairs, negInit, reachedK, bound, i, path>>
    BY <1>2 DEF Kind!LoopExit
  <2>2. result = "NONE" /\ reachedK >= 0
    BY <1>1, <2>1 DEF KindTypes, KindAnswers, KindStart
  <2>3. KindTypes' /\ KindClauses'
    BY <1>1, <2>1 DEF KindTypes, KindClauses, KindStart
  <2>4. KindAnswers'
    BY <1>1, <2>1, <2>2 DEF KindAnswers, KindStart, Kind!Stepwise
  <2> QED
    BY <2>1, <2>2, <2>3, <2>4 DEF KindInv, PromisedStep
<1>3. CASE Kind!StartBound
  <2>1. /\ pc = "loop" /\ pc' \in {"indinit", "simple"}
        /\ pairs' \subseteq pairs \cup (0..i - 1) \X {i}
        /\ UNCHANGED <<sys, opts, negInit, reachedK, bound, i, path, result>>
    BY <1>3 DEF Kind!StartBound
  <2>2. pairs' \subseteq { q \in Nat \X Nat : q[1] < q[2] /\ q[2] <= i }
    <3>1. (0..i - 1) \X {i} \subseteq { q \in Nat \X Nat : q[1] < q[2] /\ q[2] <= i }
      BY <1>1
    <3> QED
      BY <1>1, <2>1, <3>1 DEF KindClauses
  <2> QED
    BY <1>1, <2>1, <2>2, KindGoesOn DEF KindStart, KindClauses
<1>4. CASE Kind!SimpleUnsat
  <2>1. pc = "simple" /\ Kind!Runs = {} /\ Kind!Conclude /\ negInit' = negInit
    BY <1>4 DEF Kind!SimpleUnsat
  <2>2. NoLong
    BY <1>1, <2>1, ChecksExclude
  <2> QED
    BY <1>1, <2>1, <2>2, KindConclude DEF KindClauses
<1>5. CASE Kind!SimpleDone
  BY <1>1, <1>5, KindGoesOn DEF Kind!SimpleDone, KindStart, KindClauses
<1>6. CASE Kind!SimpleAdd
  <2>1. /\ pc = "simple" /\ UNCHANGED <<sys, opts, negInit, reachedK, bound, i, pc, path, result>>
    BY <1>6 DEF Kind!SimpleAdd
  <2>2. pairs' \subseteq pairs \cup { q \in (0..i) \X (0..i) : q[1] < q[2] }
    BY <1>6 DEF Kind!SimpleAdd, Kind!Repeats
  <2>3. pairs' \subseteq { q \in Nat \X Nat : q[1] < q[2] /\ q[2] <= i }
    <3>1. { q \in (0..i) \X (0..i) : q[1] < q[2] }
            \subseteq { q \in Nat \X Nat : q[1] < q[2] /\ q[2] <= i }
      BY <1>1
    <3> QED
      BY <1>1, <2>2, <3>1 DEF KindClauses
  <2> QED
    BY <1>1, <2>1, <2>3, KindGoesOn DEF KindStart, KindClauses
<1>7. ASSUME Kind!InitCheck
      PROVE  i >= 1 /\ Kind!NegatedInit \subseteq 1..i
  BY <1>1, <1>7 DEF Kind!InitCheck, Kind!NegatedInit, KindTypes, KindClauses
<1>8. CASE Kind!InitUnsat
  <2>1. /\ pc = "indinit" /\ Kind!InitCheck /\ Kind!InitRuns = {} /\ Kind!Conclude
        /\ negInit' = Kind!NegatedInit
    BY <1>8 DEF Kind!InitUnsat
  <2>2. NoLong /\ negInit' \subseteq 1..i
    BY <1>1, <1>7, <2>1, ChecksExclude
  <2> QED
    BY <2>1, <2>2, KindConclude
<1>9. CASE Kind!InitPassed
  <2>1. /\ pc = "indinit" /\ pc' = "indprop"
        /\ negInit' = (IF Kind!InitCheck THEN Kind!NegatedInit ELSE negInit)
        /\ UNCHANGED <<sys, opts, pairs, reachedK, bound, i, path, result>>
    BY <1>9 DEF Kind!InitPassed
  <2>2. negInit' \subseteq 1..i
    BY <1>1, <1>7, <2>1 DEF KindClauses
  <2> QED
    BY <1>1, <2>1, <2>2, KindGoesOn DEF KindStart, KindClauses
<1>10. CASE Kind!PropUnsat
  <2>1. pc = "indprop" /\ Kind!BadRuns = {} /\ Kind!Conclude /\ negInit' = negInit
    BY <1>10 DEF Kind!PropUnsat
  <2>2. NoLong
    BY <1>1, <2>1, ChecksExclude
  <2> QED
    BY <1>1, <2>1, <2>2, KindConclude DEF KindClauses
<1>11. CASE Kind!PropPassed
  BY <1>1, <1>11, KindGoesOn DEF Kind!PropPassed, KindStart, KindClauses
<1>12. CASE Kind!BaseSat
  BY <1>12, KindBaseSat
<1>13. CASE Kind!Extend
  BY <1>13, KindExtend
<1>14. CASE Kind!FinalSat \/ Kind!FinalUnsat
  BY <1>14, KindFinal
<1> QED
  BY <1>2, <1>3, <1>4, <1>5, <1>6, <1>8, <1>9, <1>10, <1>11, <1>12, <1>13, <1>14 DEF Kind!Step

-----------------------------------------------------------------------------
(* The simple path check: a bound it has passed is less than the number of *)
(* states, for some run of that length repeats none.                       *)

\* The eager check has the clauses of all pairs of times of the bound.
AllPairs ==
  opts.simplePath = "eager" =>
    \A j, l \in Nat : j < l /\ l <= (IF pc \in {"idle", "loop"} THEN i - 1 ELSE i) =>
      <<j, l>> \in pairs

WithinDiameter ==
  opts.simplePath # "none" =>
    /\ reachedK < Cardinality(States)
    /\ pc \in {"indinit", "indprop", "base"} => i < Cardinality(States)

\* A path without repetitions.
LEMMA DistinctStates ==
  ASSUME IsFiniteSet(States), NEW n \in Nat, NEW p \in [0..n -> States],
         \A j, l \in 0..n : j < l => p[j] # p[l]
  PROVE  n < Cardinality(States)
<1>1. Cardinality(States) \in Nat
  BY FS_CardinalityType
<1>2. IsFiniteSet(0..n) /\ Cardinality(0..n) = n + 1
  <2>1. 0 \in Int /\ n \in Int /\ ~(0 > n) /\ n - 0 + 1 = n + 1
    OBVIOUS
  <2> QED
    BY <2>1, FS_Interval
<1>3. ASSUME Cardinality(States) < n + 1
      PROVE  FALSE
  <2>1. Cardinality(States) < Cardinality(0..n)
    BY <1>2, <1>3
  <2>2. PICK x, y \in 0..n : x # y /\ p[x] = p[y]
    BY <1>2, <2>1, FS_PigeonHole
  <2>3. x < y \/ y < x
    BY <2>2
  <2> QED
    BY <2>2, <2>3
<1> QED
  BY <1>1, <1>3

LEMMA DifferMeansUnequal ==
  ASSUME sys \in KindSystems, NEW p \in [0..i -> States], i \in Nat,
         NEW j \in 0..i, NEW l \in 0..i, Kind!Differ(p, j, l)
  PROVE  p[j] # p[l]
<1>1. \A s \in States : <<s, s>> \in sys.same
  BY KindEngineAssumption DEF Kind!KindAssumption
<1>2. p[j] \in States
  OBVIOUS
<1> QED
  BY <1>1, <1>2 DEF Kind!Differ

LEMMA SimpleDoneWithin ==
  ASSUME IsFiniteSet(States), KindInv, AllPairs, Kind!SimpleDone
  PROVE  i < Cardinality(States)
<1>1. PICK p \in Kind!Runs : opts.simplePath = "eager" \/ Kind!Repeats(p) = {}
  BY DEF Kind!SimpleDone
<1>2. i \in Nat /\ sys \in KindSystems /\ pc = "simple"
  BY DEF KindInv, KindTypes, Kind!SimpleDone
<1>3. p \in [0..i -> States] /\ \A q \in pairs : Kind!Differ(p, q[1], q[2])
  BY <1>1, KindPaths DEF Kind!Runs, Paths
<1>4. ASSUME NEW j \in 0..i, NEW l \in 0..i, j < l
      PROVE  Kind!Differ(p, j, l)
  <2> DEFINE q == <<j, l>>
  <2>1. q[1] = j /\ q[2] = l /\ q \in (0..i) \X (0..i) /\ j \in Nat /\ l \in Nat /\ l <= i
    BY <1>2
  <2>2. CASE opts.simplePath = "eager"
    <3>1. q \in pairs
      BY <1>2, <1>4, <2>1, <2>2 DEF AllPairs
    <3> QED
      BY <1>3, <2>1, <3>1
  <2>3. CASE Kind!Repeats(p) = {}
    BY <1>4, <2>1, <2>3 DEF Kind!Repeats
  <2> QED
    BY <1>1, <2>2, <2>3
<1>5. \A j, l \in 0..i : j < l => p[j] # p[l]
  BY <1>2, <1>3, <1>4, DifferMeansUnequal
<1> QED
  BY <1>2, <1>3, <1>5, DistinctStates

LEMMA DiameterInit ==
  ASSUME IsFiniteSet(States), Kind!Init
  PROVE  AllPairs /\ WithinDiameter
<1>1. reachedK = -1 /\ i = 0 /\ pc = "idle"
  BY DEF Kind!Init
<1>2. \A j, l \in Nat : ~(j < l /\ l <= 0 - 1)
  OBVIOUS
<1>3. Cardinality(States) \in Nat
  BY FS_CardinalityType
<1> QED
  BY <1>1, <1>2, <1>3 DEF AllPairs, WithinDiameter

LEMMA DiameterKept ==
  ASSUME IsFiniteSet(States), KindInv, AllPairs, WithinDiameter,
         Kind!Step \/ \E k \in Bounds : Kind!CheckUntil(k)
  PROVE  AllPairs' /\ WithinDiameter'
<1>1. /\ i \in Nat /\ opts.step \in Nat \ {0}
      /\ opts.simplePath = "eager" => opts.step = 1
  BY KindOptionParts DEF KindInv, KindTypes
<1>2. ASSUME pc \in {"idle", "loop"} <=> pc' \in {"idle", "loop"},
             pc' \in {"indinit", "indprop", "base"} =>
               pc \in {"indinit", "indprop", "base"} \/ opts.simplePath = "none"
                 \/ i < Cardinality(States),
             pairs \subseteq pairs', UNCHANGED <<opts, i, reachedK>>
      PROVE  AllPairs' /\ WithinDiameter'
  BY <1>2 DEF AllPairs, WithinDiameter
<1>3. CASE \E k \in Bounds : Kind!CheckUntil(k)
  BY <1>2, <1>3 DEF Kind!CheckUntil
<1>4. CASE Kind!LoopExit
  BY <1>2, <1>4 DEF Kind!LoopExit
<1>5. CASE Kind!StartBound
  <2>1. /\ pc = "loop" /\ pc' = (IF opts.simplePath = "none" THEN "indinit" ELSE "simple")
        /\ pairs' = (IF opts.simplePath = "eager" THEN pairs \cup (0..i - 1) \X {i} ELSE pairs)
        /\ UNCHANGED <<opts, i, reachedK>>
    BY <1>5 DEF Kind!StartBound
  <2>2. AllPairs'
    <3> SUFFICES ASSUME opts.simplePath = "eager", NEW j \in Nat, NEW l \in Nat, j < l, l <= i
                 PROVE  <<j, l>> \in pairs'
      BY <2>1 DEF AllPairs
    <3>1. CASE l = i
      <4>1. j \in 0..i - 1
        BY <1>1, <3>1
      <4> QED
        BY <2>1, <3>1, <4>1
    <3>2. CASE l # i
      <4>1. l <= i - 1
        BY <1>1, <3>2
      <4> QED
        BY <2>1, <4>1 DEF AllPairs
    <3> QED
      BY <3>1, <3>2
  <2>3. WithinDiameter'
    BY <2>1 DEF WithinDiameter
  <2> QED
    BY <2>2, <2>3
<1>6. CASE Kind!SimpleUnsat
  BY <1>2, <1>6 DEF Kind!SimpleUnsat, Kind!Conclude
<1>7. CASE Kind!SimpleDone
  <2>1. i < Cardinality(States)
    BY <1>7, SimpleDoneWithin
  <2> QED
    BY <1>2, <1>7, <2>1 DEF Kind!SimpleDone
<1>8. CASE Kind!SimpleAdd
  BY <1>2, <1>8 DEF Kind!SimpleAdd
<1>9. CASE Kind!InitUnsat
  BY <1>2, <1>9 DEF Kind!InitUnsat, Kind!Conclude
<1>10. CASE Kind!InitPassed
  BY <1>2, <1>10 DEF Kind!InitPassed
<1>11. CASE Kind!PropUnsat
  BY <1>2, <1>11 DEF Kind!PropUnsat, Kind!Conclude
<1>12. CASE Kind!PropPassed
  BY <1>2, <1>12 DEF Kind!PropPassed
<1>13. CASE Kind!BaseSat
  BY <1>2, <1>13 DEF Kind!BaseSat
<1>14. CASE Kind!Extend
  <2>1. /\ pc = "base" /\ pc' = "loop" /\ reachedK' = i /\ i' = i + opts.step
        /\ UNCHANGED <<opts, pairs>>
    BY <1>14 DEF Kind!Extend
  <2>2. WithinDiameter'
    BY <2>1 DEF WithinDiameter
  <2>3. AllPairs'
    <3>1. opts.simplePath = "eager" => i' - 1 = i
      BY <1>1, <2>1
    <3> QED
      BY <2>1, <3>1 DEF AllPairs
  <2> QED
    BY <2>2, <2>3
<1>15. CASE Kind!FinalSat \/ Kind!FinalUnsat
  BY <1>2, <1>15 DEF Kind!FinalSat, Kind!FinalUnsat
<1> QED
  BY <1>3, <1>4, <1>5, <1>6, <1>7, <1>8, <1>9, <1>10, <1>11, <1>12, <1>13, <1>14, <1>15 DEF Kind!Step

-----------------------------------------------------------------------------
(* One engine behind the interface of a prover: its own invariant holds.   *)

EngineInv ==
  \/ opts.engine = "interp" /\ CallInv /\ InterpInv
  \/ opts.engine = "ismc" /\ CallInv /\ IsmcInv
  \/ opts.engine = "dar" /\ CallInv /\ DarInv
  \/ opts.engine = "ind" /\ KindInv

LEMMA EngineNames ==
  /\ \A o \in Options : o.engine \in {"interp", "ismc", "dar"}
  /\ \A o \in KindOptions : o.engine = "ind"
BY InterpOptionsAssumption, KindOptionParts DEF OptionType

LEMMA EngineInvInit == Init => EngineInv
<1> SUFFICES ASSUME Init PROVE EngineInv
  OBVIOUS
<1>1. CASE Interp!Init /\ Ismc!Init /\ Dar!Init /\ NoKind
  <2>1. EngineInit
    BY <1>1 DEF Interp!Init, Interp!EngineInit, EngineInit
  <2>2. CallInv /\ InterpInv /\ IsmcInv /\ DarInv
    BY <1>1, <2>1, CallInit, InterpInit, IsmcInit, DarInit
  <2>3. opts.engine \in {"interp", "ismc", "dar"}
    BY <2>1, EngineNames DEF EngineInit
  <2> QED
    BY <2>2, <2>3 DEF EngineInv
<1>2. CASE Kind!Init /\ NoInterp
  <2>1. KindInv
    BY <1>2, KindInit
  <2>2. opts.engine = "ind"
    BY <2>1, EngineNames DEF KindInv, KindTypes
  <2> QED
    BY <2>1, <2>2 DEF EngineInv
<1> QED
  BY <1>1, <1>2 DEF Init

\* What a step of the selected engine does to the interface; k-induction
\* promises it with one transition and a base case per bound only.
EnginePromise == Promised => PromisedStep

LEMMA OptionsKept ==
  ASSUME Next
  PROVE  opts' = opts
<1>1. Interp!Step \/ Interp!Reset => opts' = opts
  BY DEF Interp!Step, Interp!Reset, Interp!EngineStep, Interp!LoopExit, Interp!StepCovered,
         Interp!Step0Bad, Interp!Step0Good, Interp!InterpolatorFails, Interp!Refuted,
         Interp!Throws, Interp!ResetEnv, Interp!Proved, Interp!ToNextBound,
         Interp!engineVars, Interp!NewBound, Interp!StartBound, Interp!Converge,
         Interp!ExtendReached, Interp!Concrete, Interp!ExtendUnrolling
<1>2. Ismc!Step \/ Ismc!Reset => opts' = opts
  BY DEF Ismc!Step, Ismc!Reset, Ismc!EngineStep, Ismc!LoopExit, Ismc!StepCovered,
         Ismc!Step0Bad, Ismc!Step0Good, Ismc!InterpolatorFails, Ismc!Refuted, Ismc!Throws,
         Ismc!ResetEnv, Ismc!Proved, Ismc!ToNextBound, Ismc!engineVars, Ismc!NewBound,
         Ismc!Concrete, Ismc!StartSequence, Ismc!NextInterpolant, Ismc!Strengthen
<1>3. Dar!Step \/ Dar!Reset => opts' = opts
  BY DEF Dar!Step, Dar!Reset, Dar!EngineStep, Dar!LoopExit, Dar!StepCovered, Dar!Step0Bad,
         Dar!Step0Good, Dar!InterpolatorFails, Dar!Refuted, Dar!Throws, Dar!ResetEnv,
         Dar!Proved, Dar!ToNextBound, Dar!engineVars, Dar!NewBound, Dar!LocalStrengthen,
         Dar!LocalConcrete, Dar!GlobalConcrete, Dar!GlobalFound, Dar!TryGlobal,
         Dar!NextInterpolant, Dar!GlobalStrengthen, Dar!StartForward, Dar!Forward,
         Dar!TurnBackward, Dar!Backward, Dar!CheckFixedPoint
<1>4. Kind!Step => opts' = opts
  BY DEF Kind!Step, Kind!LoopExit, Kind!StartBound, Kind!SimpleUnsat,
         Kind!SimpleDone, Kind!SimpleAdd, Kind!InitUnsat, Kind!InitPassed, Kind!PropUnsat,
         Kind!PropPassed, Kind!BaseSat, Kind!Extend, Kind!FinalSat, Kind!FinalUnsat,
         Kind!Conclude
<1>5. \A k \in Bounds : CheckUntil(k) \/ Kind!CheckUntil(k) => opts' = opts
  BY DEF CheckUntil, Kind!CheckUntil
<1> QED
  BY <1>1, <1>2, <1>3, <1>4, <1>5 DEF Next, Step, Reset, Call

LEMMA EngineNext ==
  ASSUME EngineInv, Next
  PROVE  EngineInv' /\ EnginePromise
<1>1. opts' = opts
  BY OptionsKept
<1>2. CASE opts.engine = "interp" /\ CallInv /\ InterpInv
  <2>1. Interp!Step \/ Interp!Reset => CallInv' /\ InterpInv' /\ PromisedStep
    BY <1>2, InterpStepKeeps, InterpResetKeeps
  <2>2. \A k \in Bounds : CheckUntil(k) /\ UNCHANGED mcVars =>
          CallInv' /\ InterpInv' /\ PromisedStep
    BY <1>2, CheckUntilKeeps, InterpCallKeeps
  <2>3. CallInv' /\ InterpInv' /\ PromisedStep
    BY <1>2, <2>1, <2>2 DEF Next, Step, Reset, Call
  <2> QED
    BY <1>1, <1>2, <2>3 DEF EngineInv, EnginePromise
<1>3. CASE opts.engine = "ismc" /\ CallInv /\ IsmcInv
  <2>1. Ismc!Step \/ Ismc!Reset => CallInv' /\ IsmcInv' /\ PromisedStep
    BY <1>3, IsmcStepKeeps, IsmcResetKeeps
  <2>2. \A k \in Bounds : CheckUntil(k) /\ UNCHANGED reachSeq =>
          CallInv' /\ IsmcInv' /\ PromisedStep
    BY <1>3, CheckUntilKeeps, IsmcCallKeeps
  <2>3. CallInv' /\ IsmcInv' /\ PromisedStep
    BY <1>3, <2>1, <2>2 DEF Next, Step, Reset, Call
  <2> QED
    BY <1>1, <1>3, <2>3 DEF EngineInv, EnginePromise
<1>4. CASE opts.engine = "dar" /\ CallInv /\ DarInv
  <2>1. Dar!Step \/ Dar!Reset => CallInv' /\ DarInv' /\ PromisedStep
    BY <1>4, DarStepKeeps, DarResetKeeps
  <2>2. \A k \in Bounds : CheckUntil(k) /\ UNCHANGED darVars =>
          CallInv' /\ DarInv' /\ PromisedStep
    BY <1>4, CheckUntilKeeps, DarCallKeeps DEF darVars
  <2>3. CallInv' /\ DarInv' /\ PromisedStep
    BY <1>4, <2>1, <2>2 DEF Next, Step, Reset, Call
  <2> QED
    BY <1>1, <1>4, <2>3 DEF EngineInv, EnginePromise
<1>5. CASE opts.engine = "ind" /\ KindInv
  <2>1. Kind!Step => KindInv' /\ (Kind!Stepwise => PromisedStep)
    BY <1>5, KindStepKeeps
  <2>2. \A k \in Bounds : Kind!CheckUntil(k) => KindInv' /\ PromisedStep
    BY <1>5, KindCallKeeps
  <2>3. KindInv' /\ (Kind!Stepwise => PromisedStep)
    BY <1>5, <2>1, <2>2 DEF Next, Step, Reset, Call
  <2> QED
    BY <1>1, <1>5, <2>3 DEF EngineInv, EnginePromise, Promised
<1> QED
  BY <1>2, <1>3, <1>4, <1>5 DEF EngineInv

LEMMA EngineStutters ==
  ASSUME EngineInv, UNCHANGED vars
  PROVE  EngineInv' /\ UNCHANGED <<sys, opts, reachedK, result>>
<1>1. UNCHANGED <<sys, opts, level, reachedK, bound, i, pc, itps, path, invar, result>>
  BY DEF vars, engineVars
<1>2. UNCHANGED <<bTrans, badTimes, R, Ri, count>>
  BY DEF vars, mcVars
<1>3. UNCHANGED <<reachSeq, forwardSeq, backwardSeq, idx, pos, pairs, negInit>>
  BY DEF vars, darVars, kindVars
<1>4. CallInv => CallInv'
  BY <1>1 DEF CallInv, Shown, Total, Img
<1>5. InterpInv => InterpInv'
  BY <1>1, <1>2, InterpOps DEF InterpInv, InterpTypes, InterpLevels, InterpReached,
     Img, Interp!FormulaB, Interp!Paths
<1>6. IsmcInv => IsmcInv'
  BY <1>1, <1>3 DEF IsmcInv, ReachSeqInv, ChainInv, Img
<1>7. DarInv => DarInv'
  BY <1>1, <1>3 DEF DarInv, DarLengths, DarSequences, ForwardChain, BackwardChain,
     ForwardExcludes, BackwardExcludes, DarPass, DarChain, Img, Pre
<1>8. KindInv => KindInv'
  BY <1>1, <1>3 DEF KindInv, KindTypes, KindClauses, KindAnswers, Kind!Stepwise, NoLong
<1> QED
  BY <1>1, <1>4, <1>5, <1>6, <1>7, <1>8 DEF EngineInv

\* The invariant of the engine that make_prover chose holds in every state.
THEOREM EngineInvariance == Spec => []EngineInv
<1>1. EngineInv /\ [Next]_vars => EngineInv'
  BY EngineNext, EngineStutters
<1> QED
  BY <1>1, EngineInvInit, PTL DEF Spec

\* No assertion or internal error of the interpolation engines fires, whatever
\* interpolants the solver returns: solver levels and sequences match
\* reached_k_, and the queries of pairwise_strengthen are unsatisfiable.
THEOREM EngineAssertionsHold == Spec => []AssertionsHold
<1>1. EngineInv => AssertionsHold
  BY InterpAssertions, IsmcAssertions, DarAssertions DEF EngineInv, AssertionsHold, ForEngine
<1> QED
  BY <1>1, EngineInvariance, PTL

\* After TRUE, invar() is an inductive invariant that excludes the bad states;
\* the engine interp may leave the property out on a system with dead ends.
THEOREM EngineInvarInductive == Spec => []InvarInductive
<1>1. EngineInv => InvarInductive
  BY DEF EngineInv, InvarInductive, CallInv, Shown
<1> QED
  BY <1>1, EngineInvariance, PTL

\* What an answer of any engine means, one-time base checks included: TRUE
\* that no reachable state is bad, FALSE that a path leads to a bad state.
AnswersRight ==
  /\ result = "TRUE" => Safe(sys)
  /\ result = "FALSE" => \E n \in Nat : Cexs(sys, n) # {}

\* Both answers of check_until are right, for every engine and option.
THEOREM EngineAnswersRight == Spec => []AnswersRight
<1>1. EngineInv => AnswersRight
  <2>1. CallInv => AnswersRight
    <3>1. CallInv => reachedK + 1 \in Nat
      BY DEF CallInv
    <3> QED
      BY <3>1 DEF CallInv, Shown, AnswersRight
  <2>2. KindInv => AnswersRight
    BY DEF KindInv, KindAnswers, AnswersRight
  <2> QED
    BY <2>1, <2>2 DEF EngineInv
<1> QED
  BY <1>1, EngineInvariance, PTL

\* The simple path check is complete: with it, k-induction gives up at a bound
\* only when the bound is less than the number of states.
THEOREM EngineDecidedAtDiameter ==
  ASSUME IsFiniteSet(States)
  PROVE  Spec => []DecidedAtDiameter
<1> DEFINE Within == opts.engine = "ind" => AllPairs /\ WithinDiameter
<1>1. Init => Within
  <2>1. Interp!Init => opts.engine # "ind"
    BY EngineNames DEF Interp!Init, Interp!EngineInit
  <2>2. Kind!Init => AllPairs /\ WithinDiameter
    BY DiameterInit
  <2> QED
    BY <2>1, <2>2 DEF Init
<1>2. EngineInv /\ Within /\ [Next]_vars => Within'
  <2> SUFFICES ASSUME EngineInv, Within, [Next]_vars, opts'.engine = "ind"
               PROVE  AllPairs' /\ WithinDiameter'
    OBVIOUS
  <2>1. CASE Next
    <3>1. opts.engine = "ind" /\ KindInv /\ AllPairs /\ WithinDiameter
      BY <2>1, OptionsKept DEF EngineInv
    <3>2. Kind!Step \/ \E k \in Bounds : Kind!CheckUntil(k)
      BY <2>1, <3>1 DEF Next, Step, Reset, Call
    <3> QED
      BY <3>1, <3>2, DiameterKept
  <2>2. CASE UNCHANGED vars
    BY <2>2 DEF vars, engineVars, kindVars, AllPairs, WithinDiameter
  <2> QED
    BY <2>1, <2>2
<1>3. Within => DecidedAtDiameter
  <2>1. Kind!Cardinality(States) = Cardinality(States)
    BY DEF Kind!Cardinality, Cardinality, Kind!IsFiniteSet, IsFiniteSet
  <2> QED
    BY <2>1 DEF WithinDiameter, DecidedAtDiameter, Kind!DecidedAtDiameter
<1> QED
  <2> HIDE DEF Within
  <2> QED
    BY <1>1, <1>2, <1>3, EngineInvariance, PTL DEF Spec

-----------------------------------------------------------------------------
(* Each engine implements the abstract prover.                             *)

LEMMA EngineSystem ==
  ASSUME EngineInv
  PROVE  /\ sys.init \in SUBSET States /\ sys.trans \subseteq States \X States
         /\ reachedK \in Int /\ reachedK >= -1
<1>1. sys \in Systems \cup KindSystems /\ reachedK \in Int /\ reachedK >= -1
  BY DEF EngineInv, CallInv, KindInv, KindTypes
<1> QED
  BY <1>1, SystemParts, KindParts

\* The promises are the steps of the abstract prover, in terms of paths.
LEMMA PromisedIsProver ==
  ASSUME EngineInv, EngineInv', PromisedStep, Promised, Promised'
  PROVE  [Prover!Next]_(Prover!proverVars)
<1> DEFINE k == IF Promised THEN reachedK ELSE -1
           r == IF Promised THEN result ELSE "NONE"
<1>1. k = reachedK /\ r = result /\ k' = reachedK' /\ r' = result'
  OBVIOUS
<1>2. /\ sys.init \in SUBSET States /\ sys.trans \subseteq States \X States
      /\ reachedK \in Int /\ reachedK' \in Int /\ reachedK' >= -1
  <2>1. reachedK' \in Int /\ reachedK' >= -1
    BY DEF EngineInv, CallInv, KindInv, KindTypes
  <2> QED
    BY <2>1, EngineSystem
<1>3. Clear(sys, reachedK') => Prover!NoCexUpTo(sys, reachedK')
  BY <1>2, NoCexIsClear
<1>4. Cexs(sys, reachedK' + 1) # {} => Prover!Violated(sys, reachedK' + 1)
  <2>1. \A m \in Int : m >= -1 => m + 1 \in Nat
    OBVIOUS
  <2>2. reachedK' + 1 \in Nat
    BY <1>2, <2>1
  <2> QED
    BY <1>2, <2>2, ViolatedIsCex
<1>5. Safe(sys) => Prover!Safe(sys)
  BY DEF Safe, Prover!Safe, Inductive, Prover!Inductive
<1>6. CASE UNCHANGED <<sys, reachedK, result>>
  BY <1>1, <1>6 DEF Prover!proverVars
<1>7. CASE result = "UNKNOWN" /\ result' = "NONE" /\ UNCHANGED <<sys, reachedK>>
  BY <1>1, <1>7 DEF Prover!Next, Prover!Call
<1>8. CASE /\ result = "NONE" /\ reachedK' > reachedK /\ Clear(sys, reachedK')
           /\ UNCHANGED <<sys, result>>
  BY <1>1, <1>3, <1>8 DEF Prover!Next, Prover!Reach
<1>9. CASE result = "NONE" /\ result' = "UNKNOWN" /\ UNCHANGED <<sys, reachedK>>
  BY <1>1, <1>9 DEF Prover!Next, Prover!GiveUp
<1>10. CASE /\ result = "NONE" /\ Safe(sys) /\ result' = "TRUE" /\ reachedK' >= reachedK
            /\ UNCHANGED sys
  BY <1>1, <1>5, <1>10 DEF Prover!Next, Prover!AnswerTrue
<1>11. CASE /\ result = "NONE" /\ reachedK' >= reachedK /\ Clear(sys, reachedK')
            /\ Cexs(sys, reachedK' + 1) # {} /\ result' = "FALSE" /\ UNCHANGED sys
  BY <1>1, <1>3, <1>4, <1>11 DEF Prover!Next, Prover!AnswerFalse
<1>12. CASE result = "FALSE" /\ sys' # sys /\ reachedK' = -1 /\ result' = "NONE"
  BY <1>1, <1>12 DEF Prover!Next, Prover!ResetEnv
<1> QED
  BY <1>6, <1>7, <1>8, <1>9, <1>10, <1>11, <1>12 DEF PromisedStep

\* A prover that promises nothing shows nothing: k-induction keeps its system.
LEMMA KindSystemKept ==
  ASSUME EngineInv, Next, opts.engine = "ind"
  PROVE  sys' = sys
<1>1. Kind!Step => sys' = sys
  BY DEF Kind!Step, Kind!LoopExit, Kind!StartBound, Kind!SimpleUnsat, Kind!SimpleDone,
         Kind!SimpleAdd, Kind!InitUnsat, Kind!InitPassed, Kind!PropUnsat, Kind!PropPassed,
         Kind!BaseSat, Kind!Extend, Kind!FinalSat, Kind!FinalUnsat, Kind!Conclude
<1> QED
  BY <1>1 DEF Next, Step, Reset, Call, Kind!CheckUntil

\* Init of an engine is the initial state of a prover and each of its steps
\* a step of the prover or none: TRUE only for safe systems, FALSE only with
\* the length of a shortest counterexample, and no counterexample within
\* reached_k_, for every system, every option and all solver answers.
THEOREM EngineImplementsProver == Spec => ImplementsProver
<1>1. Init => Prover!Init
  <2> SUFFICES ASSUME Init PROVE reachedK = -1 /\ result = "NONE"
    BY DEF Prover!Init
  <2> QED
    BY DEF Init, Interp!Init, Interp!EngineInit, Kind!Init
<1>2. EngineInv /\ EngineInv' /\ [Next]_vars => [Prover!Next]_(Prover!proverVars)
  <2> SUFFICES ASSUME EngineInv, EngineInv', [Next]_vars
               PROVE  [Prover!Next]_(Prover!proverVars)
    OBVIOUS
  <2>1. CASE UNCHANGED vars
    <3>1. UNCHANGED <<sys, opts, reachedK, result>>
      BY <2>1, EngineStutters
    <3> QED
      BY <3>1 DEF Prover!proverVars, Promised, Kind!Stepwise
  <2>2. CASE Next
    <3>1. opts' = opts /\ EnginePromise
      BY <2>2, OptionsKept, EngineNext
    <3>2. Promised' = Promised
      BY <3>1 DEF Promised, Kind!Stepwise
    <3>3. CASE Promised
      BY <3>1, <3>2, <3>3, PromisedIsProver DEF EnginePromise
    <3>4. CASE ~Promised
      <4>1. sys' = sys
        BY <2>2, <3>4, KindSystemKept DEF Promised
      <4> QED
        BY <3>2, <3>4, <4>1 DEF Prover!proverVars
    <3> QED
      BY <3>3, <3>4
  <2> QED
    BY <2>1, <2>2
<1> QED
  BY <1>1, <1>2, EngineInvariance, PTL DEF Spec, ImplementsProver, Prover!Spec

=============================================================================
