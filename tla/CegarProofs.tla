---------------------------- MODULE CegarProofs ------------------------------
(***************************************************************************)
(* TRUE and FALSE of a CEGAR loop are about the concrete system, and each  *)
(* refinement excludes the trace it came from, for every system, every     *)
(* stack of loops and every bound.  Whatever was conjoined to the abstract *)
(* system is an axiom, an axiom over one time, or an axiom over a prophecy *)
(* variable, and each of those holds on every concrete run; a run on which *)
(* no axiom is violated is a concrete one.                                 *)
(***************************************************************************)
EXTENDS CegarEngines, TLAPS

TS == INSTANCE TransSysProofs

\* What may be conjoined to the abstract system.
Known ==
  OuterAxioms \cup sys.arrays \cup sys.lambdas
  \cup { Consecutive(index) : index \in sys.indices }
  \cup { Prophecy(index, d) : index \in sys.indices, d \in Nat }

\* The instances asserted in an enumeration are of known axioms, and an index
\* was read at the bound or before.
AssertedKnown ==
  \A x \in enum.asserted :
    /\ x.ax \in Known
    /\ cegpK = -1 => ~OverStep(x.ax)
    /\ x.from # x.at => /\ IndexOf(x.ax) \in sys.indices
                        /\ x.from \in 0..cegpK + 1

\* The inductive invariant.
SoundInv ==
  /\ sys \in Systems
  /\ cegpK \in Int
  /\ cegpK >= -1
  /\ initAx \subseteq { a \in Known : ~OverStep(a) }
  /\ transAx \subseteq Known
  /\ enum = [asserted |-> enum.asserted, second |-> enum.second, prophs |-> enum.prophs]
  /\ enum.prophs \subseteq sys.indices \X Nat
  /\ pc = "enum" => AssertedKnown
  /\ result = "TRUE" => pc = "done" /\ NoAbsCexUpTo(MaxLen)

-----------------------------------------------------------------------------
\* Every known axiom holds on a concrete counterexample.
LEMMA KnownHolds ==
  ASSUME sys \in Systems, NEW n \in Nat, NEW p \in ConcreteCex(n), NEW a \in Known
  PROVE  Holds(a, p, n)
<1>1. ArraysHold(p, n) /\ \A b \in OuterAxioms : Holds(b, p, n)
  BY DEF ConcreteCex
<1>2. CASE a \in OuterAxioms \cup sys.arrays \cup sys.lambdas
  BY <1>1, <1>2 DEF ArraysHold
<1>3. CASE a \in { Consecutive(index) : index \in sys.indices }
  <2>1. PICK index \in sys.indices : a = Consecutive(index)
    BY <1>3
  <2>2. \A u, t \in 0..n : (index.next => t > 0) => <<p[u], p[t]>> \in index.rel
    BY <1>1 DEF ArraysHold, IndexHolds
  <2>3. a.rel = index.rel
    BY <2>1 DEF Consecutive
  <2>4. CASE index.next
    <3>1. a.kind = "step"
      BY <2>1, <2>4 DEF Consecutive
    <3>2. ASSUME NEW t \in 0..n - 1
          PROVE  <<p[t], p[t + 1]>> \in a.rel
      <4>1. t \in 0..n /\ t + 1 \in 0..n /\ t + 1 > 0
        OBVIOUS
      <4> QED
        BY <2>2, <2>3, <4>1
    <3> QED
      BY <3>1, <3>2 DEF Holds
  <2>5. CASE ~index.next
    <3>1. a.kind = "curr"
      BY <2>1, <2>5 DEF Consecutive
    <3> QED
      BY <2>2, <2>3, <2>5, <3>1 DEF Holds
  <2> QED
    BY <2>4, <2>5
<1>4. CASE a \in { Prophecy(index, d) : index \in sys.indices, d \in Nat }
  <2>1. PICK index \in sys.indices, d \in Nat : a = Prophecy(index, d)
    BY <1>4
  <2>2. \A u, t \in 0..n : (index.next => t > 0) => <<p[u], p[t]>> \in index.rel
    BY <1>1 DEF ArraysHold, IndexHolds
  <2>3. a.rel = index.rel /\ a.delay = d
    BY <2>1 DEF Prophecy
  <2>4. PICK s \in Predicted(p, n, d) :
          \A t \in 0..n : (index.next => t > 0) => <<s, p[t]>> \in index.rel
    <3>1. CASE d <= n
      <4>1. n - d \in 0..n
        BY <3>1
      <4> QED
        BY <2>2, <3>1, <4>1 DEF Predicted
    <3>2. CASE ~(d <= n)
      <4>1. sys.bad \subseteq States
        BY CegarSystemsAssumption DEF CegarSystem
      <4>2. p[n] \in States
        BY <4>1 DEF ConcreteCex, Counterexamples
      <4> QED
        BY <2>2, <3>2, <4>2 DEF Predicted
    <3> QED
      BY <3>1, <3>2
  <2>5. CASE index.next
    <3>1. a.kind = "after"
      BY <2>1, <2>5 DEF Prophecy
    <3>2. ASSUME NEW t \in 0..n - 1
          PROVE  <<s, p[t + 1]>> \in a.rel
      <4>1. t + 1 \in 0..n /\ t + 1 > 0
        OBVIOUS
      <4> QED
        BY <2>3, <2>4, <4>1
    <3> QED
      BY <2>3, <3>1, <3>2 DEF Holds
  <2>6. CASE ~index.next
    <3>1. a.kind = "proph"
      BY <2>1, <2>6 DEF Prophecy
    <3> QED
      BY <2>3, <2>4, <2>6, <3>1 DEF Holds
  <2> QED
    BY <2>5, <2>6
<1> QED
  BY <1>2, <1>3, <1>4 DEF Known

\* An axiom that is not over a step holds in the first state with itself.
LEMMA KnownHoldsInitially ==
  ASSUME sys \in Systems, NEW n \in Nat, NEW p \in ConcreteCex(n),
         NEW a \in Known, ~OverStep(a)
  PROVE  <<p[0], p[0]>> \in a.rel
<1>1. ArraysHold(p, n)
  BY DEF ConcreteCex
<1>2. 0 \in 0..n
  OBVIOUS
<1>3. ASSUME NEW index \in sys.indices, ~index.next
      PROVE  <<p[0], p[0]>> \in index.rel
  BY <1>1, <1>2, <1>3 DEF ArraysHold, IndexHolds
<1>4. CASE a \in OuterAxioms \cup sys.arrays \cup sys.lambdas
  <2>1. a.kind = "curr"
    BY <1>4, CegarSystemsAssumption DEF CegarSystem, Axiom, OuterAxioms, OverStep
  <2>2. Holds(a, p, n)
    BY KnownHolds
  <2>3. \A t \in 0..n : <<p[t], p[t]>> \in a.rel
    BY <2>1, <2>2 DEF Holds
  <2> QED
    BY <2>3, <1>2
<1>5. CASE a \in { Consecutive(index) : index \in sys.indices }
  BY <1>3, <1>5 DEF Consecutive, OverStep
<1>6. CASE a \in { Prophecy(index, d) : index \in sys.indices, d \in Nat }
  BY <1>3, <1>6 DEF Prophecy, OverStep
<1> QED
  BY <1>4, <1>5, <1>6 DEF Known

\* Refinement excludes no concrete counterexample.
LEMMA ConcreteIsAbstract ==
  ASSUME sys \in Systems, transAx \subseteq Known,
         initAx \subseteq { a \in Known : ~OverStep(a) }, NEW n \in Nat
  PROVE  ConcreteCex(n) \subseteq AbsCex(n)
<1> SUFFICES ASSUME NEW p \in ConcreteCex(n)
             PROVE  p \in AbsCex(n)
  OBVIOUS
<1>1. \A a \in initAx : <<p[0], p[0]>> \in a.rel
  BY KnownHoldsInitially
<1>2. \A a \in transAx : Holds(a, p, n)
  BY KnownHolds
<1> QED
  BY <1>1, <1>2 DEF AbsCex, Refined, ConcreteCex

-----------------------------------------------------------------------------
(* The invariant.                                                          *)

LEMMA SoundInvInit == Init => SoundInv
  BY DEF Init, SoundInv, Known, NoEnum, AssertedKnown

\* Instances the enumeration looks at are of known axioms.
LEMMA ConsecutiveKnown ==
  ASSUME enum.prophs \subseteq sys.indices \X Nat, cegpK \in Int, cegpK >= -1,
         NEW x \in ConsecutiveInstances
  PROVE  x.ax \in Known /\ x.from = x.at /\ (cegpK = -1 => ~OverStep(x.ax))
<1>1. \A a \in OneTimeAxioms : a \in Known
  BY DEF OneTimeAxioms, Known
<1>2. PICK a \in OneTimeAxioms :
        x \in { [ax |-> a, from |-> t, at |-> t] : t \in 0..LastTime(a) }
  BY DEF ConsecutiveInstances
<1>3. PICK t \in 0..LastTime(a) : x = [ax |-> a, from |-> t, at |-> t]
  BY <1>2
<1>4. OverStep(a) => cegpK # -1
  BY <1>3 DEF LastTime
<1> QED
  BY <1>1, <1>3, <1>4

LEMMA LatestKnown ==
  ASSUME sys \in Systems, cegpK \in Int, NEW p, NEW x \in LatestViolations(p)
  PROVE  /\ x.ax \in Known /\ cegpK # -1
         /\ IndexOf(x.ax) \in sys.indices /\ x.from \in 0..cegpK + 1
<1>1. x \in NonconsecutiveInstances
  BY DEF LatestViolations, ViolatedBy
<1>2. PICK index \in sys.indices, u \in 0..cegpK + 1, t \in 0..cegpK :
        x = [ax |-> Consecutive(index), from |-> u, at |-> t]
  BY <1>1 DEF NonconsecutiveInstances
<1>3. IndexOf(Consecutive(index)) = index
  BY CegarSystemsAssumption DEF IndexOf, Consecutive, CegarSystem, Index
<1> QED
  BY <1>2, <1>3 DEF Known

\* The enumeration asserts known instances.
LEMMA EnumerateKeeps == SoundInv /\ Enumerate => SoundInv'
<1> SUFFICES ASSUME SoundInv, Enumerate
             PROVE  SoundInv'
  OBVIOUS
<1>1. PICK p \in Traces :
        enum' = [enum EXCEPT !.asserted = @ \cup
                   (IF ViolatedBy(p, ConsecutiveInstances) # {}
                    THEN ViolatedBy(p, ConsecutiveInstances) ELSE LatestViolations(p))]
  BY DEF Enumerate
<1>2. \A x \in ViolatedBy(p, ConsecutiveInstances) \cup LatestViolations(p) :
        /\ x.ax \in Known
        /\ x.from # x.at => IndexOf(x.ax) \in sys.indices /\ x.from \in 0..cegpK + 1
        /\ cegpK = -1 => ~OverStep(x.ax)
  BY ConsecutiveKnown, LatestKnown DEF SoundInv, ViolatedBy
<1>3. pc = "enum" /\ pc' = pc /\ result' = result /\ AssertedKnown
  BY DEF Enumerate, SoundInv
<1>4. /\ enum' = [asserted |-> enum'.asserted, second |-> enum'.second, prophs |-> enum'.prophs]
      /\ enum'.prophs = enum.prophs
      /\ enum'.asserted \subseteq enum.asserted \cup ViolatedBy(p, ConsecutiveInstances)
                                \cup LatestViolations(p)
  BY <1>1 DEF SoundInv
<1>5. \A x \in enum'.asserted :
        /\ x.ax \in Known
        /\ x.from # x.at => IndexOf(x.ax) \in sys.indices /\ x.from \in 0..cegpK + 1
        /\ cegpK = -1 => ~OverStep(x.ax)
  BY <1>2, <1>3, <1>4 DEF AssertedKnown
<1>6. Known' = Known /\ cegpK' = cegpK
  BY DEF Enumerate, Known, OuterAxioms
<1>7. AssertedKnown'
  BY <1>5, <1>6 DEF AssertedKnown, Enumerate
<1>8. result' # "TRUE"
  BY <1>3 DEF SoundInv
<1> QED
  BY <1>3, <1>4, <1>6, <1>7, <1>8 DEF SoundInv, Enumerate

\* Prophecy variables are about indices, a number of steps back.
LEMMA AddPropheciesKeeps == SoundInv /\ AddProphecies => SoundInv'
<1> SUFFICES ASSUME SoundInv, AddProphecies
             PROVE  SoundInv'
  OBVIOUS
<1>1. PICK D \in IndexChoices :
        /\ enum' = [asserted |-> {}, second |-> TRUE, prophs |-> enum.prophs \cup D]
        /\ pc' = IF D \cap enum.prophs = {} THEN pc ELSE "error"
  BY DEF AddProphecies
<1>2. TimedIndices \subseteq sys.indices \X Nat
  <2>1. AssertedKnown
    BY DEF SoundInv, AddProphecies, AllTracesExcluded
  <2>2. \A x \in enum.asserted : x.from # x.at =>
          IndexOf(x.ax) \in sys.indices /\ cegpK + 1 - x.from \in Nat
    BY <2>1 DEF AssertedKnown, SoundInv
  <2> QED
    BY <2>2 DEF TimedIndices
<1>3. D \subseteq sys.indices \X Nat
  BY <1>1, <1>2 DEF IndexChoices
<1>4. Known' = Known
  BY DEF AddProphecies, Known, OuterAxioms
<1>5. pc = "enum" /\ result' = result /\ result # "TRUE"
  BY DEF AddProphecies, AllTracesExcluded, SoundInv
<1> QED
  BY <1>1, <1>3, <1>4, <1>5 DEF SoundInv, AddProphecies, AssertedKnown

\* What the array loop conjoins was found by the enumeration.
LEMMA RefineKeeps == SoundInv /\ Refine => SoundInv'
<1> SUFFICES ASSUME SoundInv, Refine
             PROVE  SoundInv'
  OBVIOUS
<1>1. PICK axioms \in Cores({ x.ax : x \in enum.asserted }) : 
        /\ RefineTs(axioms)
        /\ pc' = IF axioms # {} /\ cegpK < bound THEN "enum" ELSE "engine"
  BY DEF Refine
<1>2. axioms \subseteq { x.ax : x \in enum.asserted }
  BY DEF Cores
<1>3. AssertedKnown /\ result # "TRUE" /\ result' = result
  BY DEF Refine, AllTracesExcluded, SoundInv
<1>4. axioms \subseteq Known /\ (cegpK = -1 => \A a \in axioms : ~OverStep(a))
  BY <1>2, <1>3 DEF AssertedKnown
<1>5. Known' = Known
  BY DEF Refine, Known, OuterAxioms
<1>6. /\ enum' = [asserted |-> enum'.asserted, second |-> enum'.second, prophs |-> enum'.prophs]
      /\ enum'.asserted = {} /\ enum'.prophs = enum.prophs
  BY DEF Refine, SoundInv
<1> QED
  BY <1>1, <1>3, <1>4, <1>5, <1>6 DEF SoundInv, Refine, RefineTs, AssertedKnown

\* So was what an outer loop conjoins: the core is one of its equalities.
LEMMA RefineOuterKeeps == SoundInv /\ RefineOuter => SoundInv'
<1> SUFFICES ASSUME SoundInv, RefineOuter
             PROVE  SoundInv'
  OBVIOUS
<1>1. PICK core \in UnsatCores :
        /\ transAx' = transAx \cup core
        /\ initAx' = IF ConstrainsInit
                     THEN initAx \cup { a \in core : a.kind = "curr" } ELSE initAx
  BY DEF RefineOuter
<1>2. core \subseteq Known
  BY <1>1 DEF UnsatCores, AbstractTerms, Known, OuterAxioms
<1>3. pc' # "enum" /\ result' = result /\ result # "TRUE"
  BY DEF RefineOuter, CallInner, SoundInv
<1>4. Known' = Known
  BY DEF RefineOuter, Known, OuterAxioms
<1> QED
  BY <1>1, <1>2, <1>3, <1>4 DEF SoundInv, RefineOuter, OverStep

\* TRUE is an answer about the system as it was refined.
LEMMA EngineTrueKeeps == SoundInv /\ EngineTrue => SoundInv'
<1> SUFFICES ASSUME SoundInv, EngineTrue
             PROVE  SoundInv'
  OBVIOUS
<1>1. pc' = "done" /\ result' = "TRUE" /\ NoAbsCexUpTo(MaxLen)
  BY DEF EngineTrue, InnerReturns
<1>2. Known' = Known /\ UNCHANGED <<sys, loopVars>>
  BY DEF EngineTrue, Known, OuterAxioms
<1>3. NoAbsCexUpTo(MaxLen)'
  BY <1>1, <1>2 DEF NoAbsCexUpTo, AbsCex, Refined, Counterexamples, loopVars
<1> QED
  BY <1>1, <1>2, <1>3 DEF SoundInv, loopVars

\* The other steps conjoin nothing, and no call follows TRUE.
LEMMA OthersKeep ==
  ASSUME SoundInv, pc # "done",
         UNCHANGED <<sys, initAx, transAx>>, cegpK' \in Int, cegpK' >= -1,
         enum' = [asserted |-> enum'.asserted, second |-> enum'.second, prophs |-> enum'.prophs],
         enum'.prophs = enum.prophs,
         pc' = "enum" => enum'.asserted = {},
         result' # "TRUE"
  PROVE  SoundInv'
<1>1. Known' = Known
  BY DEF Known, OuterAxioms
<1> QED
  BY <1>1 DEF SoundInv, AssertedKnown

LEMMA InnerAnswer ==
  ASSUME NEW r \in {"UNKNOWN", "FALSE"}, InnerReturns(r), result # "TRUE"
  PROVE  pc' # "enum" /\ result' # "TRUE"
  BY DEF InnerReturns

LEMMA SoundInvNext == SoundInv /\ [Next]_vars => SoundInv'
<1> SUFFICES ASSUME SoundInv, [Next]_vars
             PROVE  SoundInv'
  OBVIOUS
<1>0. pc # "done" => result # "TRUE"
  BY DEF SoundInv
<1>1. CASE \E k \in Bounds : CheckUntil(k)
  <2>1. pc = "idle" /\ pc' # "enum" /\ result' = "NONE" /\ UNCHANGED <<sys, loopVars>>
    BY <1>1 DEF CheckUntil, CallInner
  <2> QED
    BY <2>1, OthersKeep DEF loopVars, SoundInv
<1>2. CASE EngineTrue
  BY <1>2, EngineTrueKeeps
<1>3. CASE EngineUnknown
  <2>1. pc # "done" /\ UNCHANGED <<sys, initAx, transAx, cegpK, enum>> /\ InnerReturns("UNKNOWN")
    BY <1>3 DEF EngineUnknown
  <2> QED
    BY <1>0, <2>1, InnerAnswer, OthersKeep DEF SoundInv
<1>4. CASE EngineFalse
  <2>1. pc # "done" /\ UNCHANGED <<sys, initAx, transAx, cegpK, enum>> /\ InnerReturns("FALSE")
    BY <1>4 DEF EngineFalse
  <2> QED
    BY <1>0, <2>1, InnerAnswer, OthersKeep DEF SoundInv
<1>5. CASE LoopTest
  <2>1. /\ pc # "done" /\ UNCHANGED <<sys, initAx, transAx, cegpK>>
        /\ enum' = [enum EXCEPT !.asserted = {}, !.second = FALSE]
    BY <1>5 DEF LoopTest
  <2>2. result' # "TRUE"
    BY <1>0, <1>5, InnerAnswer DEF LoopTest
  <2> QED
    BY <2>1, <2>2, OthersKeep DEF SoundInv
<1>6. CASE Enumerate
  BY <1>6, EnumerateKeeps
<1>7. CASE Concrete
  <2>1. pc # "done" /\ UNCHANGED <<sys, initAx, transAx, cegpK, enum>>
    BY <1>7 DEF Concrete
  <2>2. pc' # "enum" /\ result' # "TRUE"
    BY <1>0, <1>7, InnerAnswer DEF Concrete
  <2> QED
    BY <2>1, <2>2, OthersKeep DEF SoundInv
<1>8. CASE AddProphecies
  BY <1>8, AddPropheciesKeeps
<1>9. CASE Refine
  BY <1>9, RefineKeeps
<1>10. CASE EngineFalseOverArrays
  <2>1. /\ pc = "engine" /\ pc' = "loop" /\ UNCHANGED <<sys, initAx, transAx, enum, result>>
        /\ cegpK' \in Int /\ cegpK' >= -1
    <3>1. PICK k \in -1..bound, n \in 0..MaxLen :
            cegpK' = IF opts.restart THEN n - 1 ELSE k
      BY <1>10 DEF EngineFalseOverArrays
    <3>2. k \in Int /\ k >= -1 /\ n - 1 \in Int /\ n - 1 >= -1
      OBVIOUS
    <3> QED
      BY <1>10, <3>1, <3>2 DEF EngineFalseOverArrays
  <2> QED
    BY <1>0, <2>1, OthersKeep DEF SoundInv
<1>11. CASE ReturnFalse
  <2>1. pc = "outer" /\ pc' = "done" /\ result' = "FALSE" /\ UNCHANGED <<sys, initAx, transAx, cegpK, enum>>
    BY <1>11 DEF ReturnFalse
  <2> QED
    BY <2>1, OthersKeep DEF SoundInv
<1>12. CASE RefineOuter
  BY <1>12, RefineOuterKeeps
<1>13. CASE UNCHANGED vars
  <2>1. Known' = Known
    BY <1>13 DEF vars, Known, OuterAxioms
  <2> QED
    BY <1>13, <2>1 DEF vars, loopVars, SoundInv, AssertedKnown, NoAbsCexUpTo, AbsCex,
                       Refined, Counterexamples
<1> QED
  BY <1>1, <1>2, <1>3, <1>4, <1>5, <1>6, <1>7, <1>8, <1>9, <1>10, <1>11, <1>12, <1>13
     DEF Next, Step

LEMMA SoundInvImplies == SoundInv => TrueIsSound
<1> SUFFICES ASSUME SoundInv, result = "TRUE", NEW n \in 0..MaxLen
             PROVE  ConcreteCex(n) = {}
  BY DEF TrueIsSound
<1>1. AbsCex(n) = {}
  BY DEF SoundInv, NoAbsCexUpTo
<1>2. n \in Nat
  BY MaxLenAssumption
<1> QED
  BY <1>1, <1>2, ConcreteIsAbstract DEF SoundInv

\* TRUE, returned through any stack of loops over an abstract system whose
\* property was changed by prophecy variables, holds of the concrete system
\* (cegar_ops_uf.cpp, cegar_values.cpp, ceg_prophecy_arrays.cpp: check_until).
THEOREM CegarTrueIsSound == Spec => []TrueIsSound
<1>1. Init => SoundInv
  BY SoundInvInit
<1>2. SoundInv /\ [Next]_vars => SoundInv'
  BY SoundInvNext
<1>3. SoundInv => TrueIsSound
  BY SoundInvImplies
<1> QED
  BY <1>1, <1>2, <1>3, PTL DEF Spec
-----------------------------------------------------------------------------
(* The runs the models are made from.                                      *)

\* The runs, as what is defined by recursion on their length.
RunSet(sy, k) ==
  { p \in [0..k -> States] :
      p[0] \in sy.init /\ \A t \in 0..k : t + 1 \in 0..k => <<p[t], p[t + 1]>> \in sy.trans }

LEMMA RunSetStep ==
  ASSUME NEW sy, sy.init \in SUBSET States, sy.trans \in SUBSET (States \X States), NEW k \in Nat
  PROVE  RunSet(sy, k + 1) = UNION { { Extend(p, k + 1, s) : s \in Succ(sy, p[(k + 1) - 1]) } :
                                       p \in RunSet(sy, k) }
<1>0. (k + 1) - 1 = k /\ k \in 0..k /\ k + 1 \in Nat
  OBVIOUS
<1>1. ASSUME NEW p \in RunSet(sy, k), NEW s \in Succ(sy, p[k])
      PROVE  Extend(p, k + 1, s) \in RunSet(sy, k + 1)
  <2> DEFINE e == Extend(p, k + 1, s)
  <2>1. /\ p \in [0..k -> States] /\ p[0] \in sy.init
        /\ \A t \in 0..k : t + 1 \in 0..k => <<p[t], p[t + 1]>> \in sy.trans
        /\ s \in States /\ <<p[k], s>> \in sy.trans
    BY DEF RunSet, Succ
  <2>2. \A t \in 0..(k + 1) : t < k + 1 <=> t \in 0..k
    OBVIOUS
  <2>3. /\ e \in [0..(k + 1) -> States]
        /\ \A t \in 0..k : e[t] = p[t]
        /\ e[k + 1] = s
    BY <2>1, <2>2 DEF Extend
  <2> HIDE DEF e
  <2>4. ASSUME NEW t \in 0..(k + 1), t + 1 \in 0..(k + 1)
        PROVE  <<e[t], e[t + 1]>> \in sy.trans
    <3>1. t \in 0..k /\ (t = k \/ t + 1 \in 0..k)
      BY <2>4
    <3> QED
      BY <2>1, <2>3, <3>1
  <2>5. e[0] \in sy.init
    BY <2>1, <2>3
  <2> QED
    BY <2>3, <2>4, <2>5 DEF RunSet, e
<1>2. ASSUME NEW q \in RunSet(sy, k + 1)
      PROVE  \E p \in RunSet(sy, k) : \E s \in Succ(sy, p[k]) : q = Extend(p, k + 1, s)
  <2> DEFINE p == [t \in 0..k |-> q[t]]
  <2>1. /\ q \in [0..(k + 1) -> States] /\ q[0] \in sy.init
        /\ \A t \in 0..(k + 1) : t + 1 \in 0..(k + 1) => <<q[t], q[t + 1]>> \in sy.trans
    BY DEF RunSet
  <2>2. \A t \in 0..k : t \in 0..(k + 1) /\ p[t] = q[t]
    OBVIOUS
  <2>3. p \in [0..k -> States]
    BY <2>1, <2>2
  <2> HIDE DEF p
  <2>4. p \in RunSet(sy, k)
    <3>1. \A t \in 0..k : t + 1 \in 0..k => <<p[t], p[t + 1]>> \in sy.trans
      BY <2>1, <2>2
    <3> QED
      BY <2>1, <2>2, <2>3, <3>1 DEF RunSet
  <2>5. q[k + 1] \in Succ(sy, p[k])
    <3>1. k \in 0..(k + 1) /\ k + 1 \in 0..(k + 1)
      OBVIOUS
    <3>2. <<q[k], q[k + 1]>> \in sy.trans /\ q[k + 1] \in States
      BY <2>1, <3>1
    <3> QED
      BY <2>2, <3>2 DEF Succ
  <2>6. q = Extend(p, k + 1, q[k + 1])
    <3>1. q = [t \in 0..(k + 1) |-> q[t]]
      BY <2>1
    <3>2. \A t \in 0..(k + 1) : q[t] = IF t < k + 1 THEN p[t] ELSE q[k + 1]
      BY <2>2
    <3> QED
      BY <3>1, <3>2 DEF Extend
  <2> QED
    BY <2>4, <2>5, <2>6
<1> QED
  BY <1>0, <1>1, <1>2

LEMMA RunsAreRunSets ==
  ASSUME NEW sy, sy.init \in SUBSET States, sy.trans \in SUBSET (States \X States), NEW n \in Nat
  PROVE  Runs(sy, n) = RunSet(sy, n)
<1> DEFINE Next0(R, k) == UNION { { Extend(p, k, s) : s \in Succ(sy, p[k - 1]) } : p \in R }
           First == { [t \in 0..0 |-> s] : s \in sy.init }
           runs == CHOOSE runs : runs = [k \in 0..n |-> IF k = 0 THEN First ELSE Next0(runs[k - 1], k)]
           f == [k \in 0..n |-> RunSet(sy, k)]
<1>1. RunSet(sy, 0) = First
  <2>1. ASSUME NEW p \in RunSet(sy, 0)
        PROVE  p \in First
    <3>1. p \in [0..0 -> States] /\ p[0] \in sy.init
      BY DEF RunSet
    <3>2. p = [t \in 0..0 |-> p[0]]
      BY <3>1
    <3> QED
      BY <3>1, <3>2
  <2>2. ASSUME NEW s \in sy.init
        PROVE  [t \in 0..0 |-> s] \in RunSet(sy, 0)
    <3>1. \A t \in 0..0 : ~ (t + 1 \in 0..0)
      OBVIOUS
    <3> QED
      BY <3>1 DEF RunSet
  <2> QED
    BY <2>1, <2>2
<1>2. \A k \in 0..n : k # 0 => RunSet(sy, k) = Next0(RunSet(sy, k - 1), k)
  <2> SUFFICES ASSUME NEW k \in 0..n, k # 0
               PROVE  RunSet(sy, k) = Next0(RunSet(sy, k - 1), k)
    OBVIOUS
  <2> DEFINE m == k - 1
  <2>1. m \in Nat /\ m + 1 = k
    OBVIOUS
  <2> HIDE DEF m
  <2>2. RunSet(sy, m + 1) = UNION { { Extend(p, m + 1, s) : s \in Succ(sy, p[(m + 1) - 1]) } :
                                       p \in RunSet(sy, m) }
    BY <2>1, RunSetStep
  <2> QED
    BY <2>1, <2>2 DEF m
<1>3. f = [k \in 0..n |-> IF k = 0 THEN First ELSE Next0(f[k - 1], k)]
  <2>1. \A k \in 0..n : k # 0 => k - 1 \in 0..n /\ f[k - 1] = RunSet(sy, k - 1)
    OBVIOUS
  <2> HIDE DEF Next0, First
  <2> QED
    BY <1>1, <1>2, <2>1
<1> HIDE DEF f
<1>4. runs = [k \in 0..n |-> IF k = 0 THEN First ELSE Next0(runs[k - 1], k)]
  <2> HIDE DEF Next0, First
  <2> QED
    BY <1>3
<1>5. Runs(sy, n) = runs[n]
  BY DEF Runs
<1> HIDE DEF runs
<1> DEFINE T == { k \in Nat : k \in 0..n => runs[k] = RunSet(sy, k) }
<1>6. 0 \in T
  <2> HIDE DEF Next0, First
  <2> QED
    BY <1>1, <1>4
<1>7. \A k \in 0..n : k \in T /\ k + 1 \in 0..n => k + 1 \in T
  <2> SUFFICES ASSUME NEW k \in 0..n, k \in T, k + 1 \in 0..n
               PROVE  k + 1 \in T
    OBVIOUS
  <2>1. k \in Nat /\ k + 1 # 0 /\ (k + 1) - 1 = k /\ runs[k] = RunSet(sy, k)
    OBVIOUS
  <2>2. runs[k + 1] = Next0(runs[(k + 1) - 1], k + 1)
    <3> HIDE DEF Next0, First
    <3> QED
      BY <1>4, <2>1
  <2>3. RunSet(sy, k + 1) = Next0(RunSet(sy, (k + 1) - 1), k + 1)
    <3> HIDE DEF Next0
    <3> QED
      BY <1>2, <2>1
  <2>4. runs[k + 1] = RunSet(sy, k + 1)
    <3> HIDE DEF Next0
    <3> QED
      BY <2>1, <2>2, <2>3
  <2> QED
    BY <2>1, <2>4
<1>8. 0..n \subseteq T
  <2> HIDE DEF T
  <2> QED
    BY <1>6, <1>7, TS!IntervalInduction
<1> QED
  BY <1>5, <1>8

-----------------------------------------------------------------------------
(* FALSE is about the concrete system, too.                                *)

\* No axiom over an index of another time is violated by a bad state: the
\* enumeration does not look at such an axiom in the last state.
EndIsNotIndexed ==
  \A sy \in Systems : \A index \in sy.indices :
    ~index.next => \A s \in States, t \in sy.bad : <<s, t>> \in index.rel

FalseInv ==
  /\ sys \in Systems /\ opts \in Options
  /\ Abstracts(opts, sys)
  /\ cexLen \in Nat
  /\ pc = "outer" => opts.outer # "none"
  /\ result = "FALSE" =>
       /\ pc = "done"
       /\ IF opts.inner = "cegp" \/ opts.outer # "none" THEN path \in ConcreteCex(cexLen)
          ELSE AbsCex(cexLen) # {}

LEMMA AnswerStays ==
  ASSUME FalseInv, UNCHANGED <<sys, opts>>, cexLen' \in Nat, result' # "FALSE",
         pc' = "outer" => opts.outer # "none"
  PROVE  FalseInv'
BY DEF FalseInv, Abstracts

\* A trace without violated instances is a concrete counterexample.
LEMMA NoViolationIsConcrete ==
  ASSUME EndIsNotIndexed, sys \in Systems, cegpK \in Int, cegpK >= -1,
         Abstracts(opts, sys), opts.outer = "none", ~sys.finite, ~enum.second,
         NEW p \in Traces,
         ViolatedBy(p, ConsecutiveInstances) = {}, LatestViolations(p) = {}
  PROVE  p \in ConcreteCex(cegpK + 1)
<1> DEFINE n == cegpK + 1
<1>0. n \in Nat /\ n = cegpK + 1
  OBVIOUS
<1>1. sys \in CegarSystem
  BY CegarSystemsAssumption
<1>2. p \in Counterexamples(n)
  BY DEF Traces, AbsCex
<1>3. \A x \in ConsecutiveInstances : InstanceHolds(x, p)
  BY DEF ViolatedBy
<1>4. \A x \in NonconsecutiveInstances : InstanceHolds(x, p)
  <2> DEFINE violated == ViolatedBy(p, NonconsecutiveInstances)
  <2>1. \A x \in violated : x.from \in 0..n
    BY DEF ViolatedBy, NonconsecutiveInstances
  <2>2. SUFFICES ASSUME violated # {}
                 PROVE  FALSE
    BY DEF ViolatedBy
  <2> DEFINE T == { n - x.from : x \in violated }
  <2>3. T \subseteq Nat /\ T # {}
    BY <1>0, <2>1, <2>2
  <2>4. PICK least \in T : \A y \in T : least <= y
    <3> HIDE DEF T
    <3> QED
      BY <2>3, TS!LeastNat
  <2>5. PICK x \in violated : least = n - x.from
    BY <2>4
  <2>6. \A y \in violated : y.from <= x.from
    <3> SUFFICES ASSUME NEW y \in violated
                 PROVE  y.from <= x.from
      OBVIOUS
    <3>1. n - x.from <= n - y.from
      BY <2>4, <2>5
    <3>2. x.from \in Int /\ y.from \in Int
      BY <2>1
    <3> QED
      BY <1>0, <3>1, <3>2
  <2>7. x \in LatestViolations(p)
    BY <2>6 DEF LatestViolations
  <2> QED
    BY <2>7
<1>5. ASSUME NEW a \in sys.arrays \cup sys.lambdas
      PROVE  Holds(a, p, n)
  <2>1. a \in OneTimeAxioms /\ a \in Axiom
    BY <1>1 DEF OneTimeAxioms, CegarSystem
  <2>2. ASSUME NEW t \in 0..LastTime(a)
        PROVE  InstanceHolds([ax |-> a, from |-> t, at |-> t], p)
    BY <1>3, <2>1 DEF ConsecutiveInstances
  <2>3. CASE a.kind = "curr"
    <3>1. LastTime(a) = n
      BY <2>3 DEF LastTime, OverStep
    <3>2. ASSUME NEW t \in 0..n
          PROVE  <<p[t], p[t]>> \in a.rel
      <4>1. t \in 0..LastTime(a)
        BY <3>1
      <4> QED
        BY <2>2, <2>3, <4>1 DEF InstanceHolds
    <3> QED
      BY <2>3, <3>2 DEF Holds
  <2>4. CASE a.kind = "step"
    <3>1. LastTime(a) = cegpK /\ n - 1 = cegpK
      BY <2>4 DEF LastTime, OverStep
    <3>2. ASSUME NEW t \in 0..n - 1
          PROVE  <<p[t], p[t + 1]>> \in a.rel
      <4>1. t \in 0..LastTime(a)
        BY <3>1
      <4> QED
        BY <2>2, <2>4, <4>1 DEF InstanceHolds
    <3> QED
      BY <2>4, <3>2 DEF Holds
  <2> QED
    BY <2>1, <2>3, <2>4 DEF Axiom
<1>6. ASSUME NEW index \in sys.indices
      PROVE  IndexHolds(index, p, n)
  <2> SUFFICES ASSUME NEW u \in 0..n, NEW t \in 0..n, index.next => t > 0
               PROVE  <<p[u], p[t]>> \in index.rel
    BY DEF IndexHolds
  <2>1. index \in Index /\ p[n] \in sys.bad
    BY <1>1, <1>2 DEF CegarSystem, Counterexamples
  <2>2. ASSUME NEW v \in 0..cegpK
        PROVE  InstanceHolds([ax |-> Consecutive(index), from |-> u, at |-> v], p)
    <3>1. u \in 0..cegpK + 1
      OBVIOUS
    <3> QED
      BY <1>4, <3>1 DEF NonconsecutiveInstances
  <2>3. CASE index.next
    <3> DEFINE v == t - 1
    <3>1. v \in 0..cegpK /\ v + 1 = t
      BY <2>3
    <3> HIDE DEF v
    <3>2. InstanceHolds([ax |-> Consecutive(index), from |-> u, at |-> v], p)
      BY <2>2, <3>1
    <3>3. Consecutive(index).kind = "step" /\ Consecutive(index).rel = index.rel
      BY <2>3 DEF Consecutive
    <3>4. <<p[u], p[v + 1]>> \in index.rel
      BY <3>2, <3>3 DEF InstanceHolds
    <3> QED
      BY <3>1, <3>4
  <2>4. CASE ~index.next /\ t # n
    <3>1. t \in 0..cegpK
      BY <2>4
    <3>2. InstanceHolds([ax |-> Consecutive(index), from |-> u, at |-> t], p)
      BY <2>2, <2>4, <1>0
    <3>3. Consecutive(index).kind = "curr" /\ Consecutive(index).rel = index.rel
      BY <2>4 DEF Consecutive
    <3> QED
      BY <3>2, <3>3 DEF InstanceHolds
  <2>5. CASE ~index.next /\ t = n
    <3>1. p[u] \in States
      <4>1. p \in RunSet(sys, n)
        BY <1>0, <1>1, <1>2, RunsAreRunSets DEF Counterexamples, CegarSystem
      <4> QED
        BY <4>1 DEF RunSet
    <3> QED
      BY <2>1, <2>5, <3>1 DEF EndIsNotIndexed
  <2> QED
    BY <2>3, <2>4, <2>5
<1>7. OuterAxioms = {}
  BY DEF OuterAxioms, Abstracts
<1> QED
  BY <1>2, <1>5, <1>6, <1>7 DEF ConcreteCex, ArraysHold

\* A frozen value keeps what an axiom says of it along a run.
LEMMA FrozenHolds ==
  ASSUME sys \in Systems, NEW n \in Nat, NEW p \in Counterexamples(n),
         NEW a \in sys.vals, <<p[0], p[0]>> \in a.rel
  PROVE  Holds(a, p, n)
<1>1. sys \in CegarSystem
  BY CegarSystemsAssumption
<1>2. p \in RunSet(sys, n)
  BY <1>1, RunsAreRunSets DEF Counterexamples, CegarSystem
<1> DEFINE T == { t \in Nat : t \in 0..n => <<p[t], p[t]>> \in a.rel }
<1>3. 0 \in T
  OBVIOUS
<1>4. \A t \in 0..n : t \in T /\ t + 1 \in 0..n => t + 1 \in T
  <2> SUFFICES ASSUME NEW t \in 0..n, t \in T, t + 1 \in 0..n
               PROVE  t + 1 \in T
    OBVIOUS
  <2> DEFINE e == <<p[t], p[t + 1]>>
  <2>1. e \in sys.trans /\ e[1] = p[t] /\ e[2] = p[t + 1] /\ <<p[t], p[t]>> \in a.rel
    BY <1>2 DEF RunSet
  <2> HIDE DEF e
  <2>2. <<e[1], e[1]>> \in a.rel <=> <<e[2], e[2]>> \in a.rel
    BY <2>1, FrozenAssumption
  <2> QED
    BY <2>1, <2>2
<1>5. 0..n \subseteq T
  <2> HIDE DEF T
  <2> QED
    BY <1>3, <1>4, TS!IntervalInduction
<1>6. a.kind = "curr"
  BY FrozenAssumption
<1> QED
  BY <1>5, <1>6 DEF Holds

\* The answer of the inner prover is the caller's only without an outer loop.
LEMMA InnerFalse ==
  ASSUME NEW r \in {"TRUE", "UNKNOWN", "FALSE"}, InnerReturns(r), result # "FALSE"
  PROVE  /\ result' = "FALSE" => r = "FALSE" /\ opts.outer = "none" /\ pc' = "done"
         /\ pc' = "outer" => opts.outer # "none"
  BY DEF InnerReturns

\* A model of the query with every label is a concrete counterexample.
LEMMA LabelledIsConcrete ==
  ASSUME FalseInv, NEW p \in Labelled(AbstractTerms)
  PROVE  p \in ConcreteCex(cexLen)
<1>1. sys \in CegarSystem /\ opts \in OptionType /\ sys \in Systems /\ cexLen \in Nat
  BY CegarSystemsAssumption, CegarOptionsAssumption DEF FalseInv
<1>2. /\ p \in Counterexamples(cexLen)
      /\ ArraysHold(p, cexLen)
      /\ \A a \in AbstractTerms : LabelHolds(a, p)
  BY DEF Labelled, CopyRefined
<1>3. ASSUME NEW a \in OuterAxioms
      PROVE  Holds(a, p, cexLen)
  <2>1. CASE opts.outer = "ops"
    <3>1. a \in AbstractTerms /\ a \in Axiom
      BY <1>1, <2>1 DEF OuterAxioms, AbstractTerms, FalseInv, Abstracts, CegarSystem
    <3>2. CASE a.kind = "step" /\ cexLen = 0
      <4>1. \A t \in 0..cexLen - 1 : <<p[t], p[t + 1]>> \in a.rel
        BY <3>2
      <4> QED
        BY <3>2, <4>1 DEF Holds
    <3>3. CASE ~(a.kind = "step" /\ cexLen = 0)
      <4>1. LabelHolds(a, p) = Holds(a, p, cexLen)
        BY <2>1, <3>3 DEF LabelHolds
      <4> QED
        BY <1>2, <3>1, <4>1
    <3> QED
      BY <3>2, <3>3
  <2>2. CASE opts.outer = "vals"
    <3>1. a \in sys.vals /\ a \in AbstractTerms
      BY <2>2 DEF OuterAxioms, AbstractTerms, FalseInv, Abstracts
    <3>2. LabelHolds(a, p) = (<<p[0], p[0]>> \in a.rel)
      BY <2>2 DEF LabelHolds
    <3> QED
      BY <1>1, <1>2, <3>1, <3>2, FrozenHolds
  <2>3. CASE opts.outer = "none"
    BY <2>3 DEF OuterAxioms, FalseInv, Abstracts
  <2> QED
    BY <1>1, <2>1, <2>2, <2>3 DEF OptionType
<1> QED
  BY <1>2, <1>3 DEF ConcreteCex

LEMMA FalseInvInit == Init => FalseInv
  BY DEF Init, FalseInv

\* The engine's run is a run of the abstract system, which is the concrete
\* one when no loop is stacked on the engine.
LEMMA EngineFalseKeeps == FalseInv /\ EngineFalse => FalseInv'
<1> SUFFICES ASSUME FalseInv, EngineFalse
             PROVE  FalseInv'
  OBVIOUS
<1>1. PICK k \in -1..bound, n \in 0..MaxLen : EngineCex(k, n) /\ cexLen' = n
  BY DEF EngineFalse
<1>2. n \in Nat /\ AbsCex(n) # {}
  BY <1>1, MaxLenAssumption DEF EngineCex
<1>3. /\ UNCHANGED <<sys, opts, initAx, transAx>> /\ opts.inner = "engine"
      /\ result # "FALSE" /\ InnerReturns("FALSE")
  BY DEF EngineFalse, FalseInv
<1>4. AbsCex(cexLen)' # {}
  BY <1>1, <1>2, <1>3 DEF AbsCex, Refined, Counterexamples
<1>5. /\ result' = "FALSE" => opts.outer = "none" /\ pc' = "done"
      /\ pc' = "outer" => opts.outer # "none"
  BY <1>3, InnerFalse
<1> QED
  BY <1>1, <1>2, <1>3, <1>4, <1>5 DEF FalseInv, Abstracts

\* The model in which the enumeration finds no violation.
LEMMA ConcreteKeeps ==
  ASSUME EndIsNotIndexed, SoundInv, FalseInv, Concrete
  PROVE  FalseInv'
<1>1. PICK p \in Traces :
        /\ ViolatedBy(p, ConsecutiveInstances) = {} /\ LatestViolations(p) = {}
        /\ path' = p
  BY DEF Concrete
<1>2. /\ UNCHANGED <<sys, opts>> /\ cexLen' = cegpK + 1 /\ result # "FALSE" /\ pc = "enum"
      /\ cexLen' \in Nat
  BY DEF Concrete, FalseInv, SoundInv
<1>3. CASE result' # "FALSE"
  <2>1. pc' = "outer" => opts.outer # "none"
    BY <1>2, InnerFalse DEF Concrete
  <2> QED
    BY <1>2, <1>3, <2>1, AnswerStays
<1>4. CASE result' = "FALSE"
  <2>1. ~enum.second /\ ~sys.finite /\ opts.outer = "none" /\ pc' = "done"
    BY <1>2, <1>4, InnerFalse DEF Concrete
  <2>2. p \in ConcreteCex(cegpK + 1)
    BY <1>1, <2>1, NoViolationIsConcrete DEF FalseInv, SoundInv
  <2>3. ConcreteCex(cexLen)' = ConcreteCex(cegpK + 1)
    BY <1>2 DEF ConcreteCex, Counterexamples, ArraysHold, OuterAxioms
  <2>4. AbsCex(cexLen)' # {}
    <3>1. p \in AbsCex(cegpK + 1)
      BY <1>1 DEF Traces
    <3>2. UNCHANGED <<initAx, transAx>>
      BY DEF Concrete
    <3>3. AbsCex(cexLen)' = AbsCex(cegpK + 1)
      BY <1>2, <3>2 DEF AbsCex, Refined, Counterexamples
    <3> QED
      BY <3>1, <3>3
  <2> QED
    BY <1>1, <1>2, <2>1, <2>2, <2>3, <2>4 DEF FalseInv, Abstracts
<1> QED
  BY <1>3, <1>4

\* The run an outer loop stores.
LEMMA ReturnFalseKeeps == FalseInv /\ ReturnFalse => FalseInv'
<1> SUFFICES ASSUME FalseInv, ReturnFalse
             PROVE  FalseInv'
  OBVIOUS
<1>1. /\ pc = "outer" /\ path' \in Labelled(AbstractTerms) /\ pc' = "done"
      /\ UNCHANGED <<sys, opts, cexLen>>
  BY DEF ReturnFalse
<1>2. path' \in ConcreteCex(cexLen)
  BY <1>1, LabelledIsConcrete
<1>3. ConcreteCex(cexLen)' = ConcreteCex(cexLen)
  BY <1>1 DEF ConcreteCex, Counterexamples, ArraysHold, OuterAxioms
<1>4. opts.outer # "none"
  BY <1>1 DEF FalseInv
<1> QED
  BY <1>1, <1>2, <1>3, <1>4 DEF FalseInv, Abstracts

LEMMA FalseInvNext ==
  ASSUME EndIsNotIndexed, SoundInv, FalseInv, [Next]_vars
  PROVE  FalseInv'
<1>0. pc # "done" => result # "FALSE"
  BY DEF FalseInv
<1>1. CASE \E k \in Bounds : CheckUntil(k)
  <2>1. UNCHANGED <<sys, opts, cexLen>> /\ result' = "NONE" /\ pc' # "outer"
    BY <1>1 DEF CheckUntil, CallInner, loopVars
  <2> QED
    BY <2>1, AnswerStays DEF FalseInv
<1>2. CASE EngineTrue
  <2>1. UNCHANGED <<sys, opts, cexLen>> /\ InnerReturns("TRUE") /\ pc # "done"
    BY <1>2 DEF EngineTrue, loopVars
  <2> QED
    BY <1>0, <2>1, InnerFalse, AnswerStays DEF FalseInv
<1>3. CASE EngineUnknown
  <2>1. UNCHANGED <<sys, opts, cexLen>> /\ InnerReturns("UNKNOWN") /\ pc # "done"
    BY <1>3 DEF EngineUnknown
  <2> QED
    BY <1>0, <2>1, InnerFalse, AnswerStays DEF FalseInv
<1>4. CASE EngineFalse
  BY <1>4, EngineFalseKeeps
<1>5. CASE LoopTest
  <2>1. UNCHANGED <<sys, opts, cexLen>> /\ pc # "done"
    BY <1>5 DEF LoopTest
  <2>2. result' # "FALSE" /\ (pc' = "outer" => opts.outer # "none")
    BY <1>0, <1>5, <2>1, InnerFalse DEF LoopTest
  <2> QED
    BY <2>1, <2>2, AnswerStays DEF FalseInv
<1>6. CASE Enumerate
  <2>1. UNCHANGED <<sys, opts, cexLen, pc, result>> /\ pc = "enum"
    BY <1>6 DEF Enumerate
  <2> QED
    BY <1>0, <2>1, AnswerStays DEF FalseInv
<1>7. CASE Concrete
  BY <1>7, ConcreteKeeps
<1>8. CASE AddProphecies
  <2>1. UNCHANGED <<sys, opts, cexLen, result>> /\ pc = "enum" /\ pc' # "outer"
    BY <1>8 DEF AddProphecies, AllTracesExcluded
  <2> QED
    BY <1>0, <2>1, AnswerStays DEF FalseInv
<1>9. CASE Refine
  <2>1. UNCHANGED <<sys, opts, cexLen, result>> /\ pc = "enum" /\ pc' # "outer"
    BY <1>9 DEF Refine, AllTracesExcluded
  <2> QED
    BY <1>0, <2>1, AnswerStays DEF FalseInv
<1>10. CASE EngineFalseOverArrays
  <2>1. UNCHANGED <<sys, opts, result>> /\ pc = "engine" /\ pc' # "outer" /\ cexLen' \in Nat
    BY <1>10, MaxLenAssumption DEF EngineFalseOverArrays
  <2> QED
    BY <1>0, <2>1, AnswerStays
<1>11. CASE ReturnFalse
  BY <1>11, ReturnFalseKeeps
<1>12. CASE RefineOuter
  <2>1. UNCHANGED <<sys, opts, cexLen, result>> /\ pc = "outer" /\ pc' # "outer"
    BY <1>12 DEF RefineOuter, CallInner
  <2> QED
    BY <1>0, <2>1, AnswerStays DEF FalseInv
<1>13. CASE UNCHANGED vars
  BY <1>13 DEF vars, loopVars, FalseInv, Abstracts, AbsCex, Refined, Counterexamples,
               ConcreteCex, ArraysHold, OuterAxioms
<1> QED
  BY <1>1, <1>2, <1>3, <1>4, <1>5, <1>6, <1>7, <1>8, <1>9, <1>10, <1>11, <1>12, <1>13
     DEF Next, Step

\* FALSE of any stack of loops comes with a run of the system itself, on which
\* no axiom of an operator, a value or an array is violated
\* (cegar_ops_uf.cpp, cegar_values.cpp: cegar_refine; ceg_prophecy_arrays.cpp:
\* cegar_refine).  The array loop does not look at an axiom over an earlier
\* index in the last state (array_axiom_enumerator.cpp: nonconsecutive axioms
\* are unrolled below the bound), whence the assumption.
THEOREM CegarFalseIsConcrete ==
  ASSUME EndIsNotIndexed
  PROVE  Spec => []FalseIsConcrete
<1>1. Init => SoundInv /\ FalseInv
  BY SoundInvInit, FalseInvInit
<1>2. SoundInv /\ FalseInv /\ [Next]_vars => SoundInv' /\ FalseInv'
  BY SoundInvNext, FalseInvNext
<1>3. FalseInv => FalseIsConcrete
  BY DEF FalseInv, FalseIsConcrete
<1> QED
  BY <1>1, <1>2, <1>3, PTL DEF Spec

-----------------------------------------------------------------------------
(* A refinement of an outer loop is enough.                                *)

\* An operator over the next states can be evaluated as it is in some state
\* after any initial one: its arguments are not bound by a transition.
StepsAgree ==
  \A sy \in Systems : \A a \in sy.ops :
    a.kind = "step" => \A s \in sy.init : \E t \in States : <<s, t>> \in a.rel

LEMMA RefineOuterExcludes ==
  ASSUME StepsAgree, FalseInv, RefineOuter
  PROVE  (Labelled({}) = {})'
<1> SUFFICES ASSUME NEW p \in Labelled({})'
             PROVE  FALSE
  OBVIOUS
<1>0. UNCHANGED <<sys, opts, cexLen>>
  BY DEF RefineOuter
<1>1. PICK core \in UnsatCores :
        /\ transAx' = transAx \cup core
        /\ initAx' = IF ConstrainsInit
                     THEN initAx \cup { a \in core : a.kind = "curr" } ELSE initAx
  BY DEF RefineOuter
<1>2. core \subseteq AbstractTerms /\ Labelled(core) = {}
  BY <1>1 DEF UnsatCores
<1>3. /\ sys \in CegarSystem /\ opts \in OptionType /\ sys \in Systems /\ cexLen \in Nat
      /\ opts.outer # "none"
  BY CegarSystemsAssumption, CegarOptionsAssumption DEF FalseInv, RefineOuter
<1>4. /\ p \in Counterexamples(cexLen)
      /\ ArraysHold(p, cexLen)
      /\ \A a \in initAx' \cap AbstractTerms : <<p[0], p[0]>> \in a.rel
      /\ cexLen > 0 \/ opts.outer = "vals" \/ "copy" \in opts.functional =>
           \A a \in transAx' \cap AbstractTerms : Holds(a, p, cexLen)
  BY <1>0 DEF Labelled, CopyRefined, Counterexamples, ArraysHold, AbstractTerms
<1>5. CopyRefined(p)
  BY <1>1, <1>4 DEF CopyRefined
<1>6. ASSUME NEW a \in core
      PROVE  LabelHolds(a, p)
  <2>0. a \in AbstractTerms /\ a \in transAx'
    BY <1>1, <1>2
  <2>1. CASE opts.outer = "vals"
    <3>1. a \in sys.vals /\ Holds(a, p, cexLen)
      BY <1>4, <2>0, <2>1 DEF AbstractTerms
    <3>2. a.kind = "curr"
      BY <1>3, <3>1, FrozenAssumption
    <3>3. \A t \in 0..cexLen : <<p[t], p[t]>> \in a.rel
      BY <3>1, <3>2 DEF Holds
    <3>4. <<p[0], p[0]>> \in a.rel
      BY <1>3, <3>3
    <3> QED
      BY <2>1, <3>4 DEF LabelHolds
  <2>2. CASE opts.outer = "ops"
    <3>0. a \in sys.ops /\ a \in Axiom
      BY <1>3, <2>0, <2>2 DEF AbstractTerms, CegarSystem
    <3>1. CASE cexLen > 0
      <4>1. ~ (opts.outer = "ops" /\ a.kind = "step" /\ cexLen = 0)
        BY <1>3, <3>1
      <4>2. LabelHolds(a, p) = Holds(a, p, cexLen)
        BY <2>2, <4>1 DEF LabelHolds
      <4> QED
        BY <1>4, <2>0, <3>1, <4>2
    <3>2. CASE cexLen = 0 /\ a.kind = "step"
      <4>1. p[0] \in sys.init
        <5>1. p \in RunSet(sys, cexLen)
          BY <1>3, <1>4, RunsAreRunSets DEF Counterexamples, CegarSystem
        <5> QED
          BY <5>1 DEF RunSet
      <4>2. \E s \in States : <<p[0], s>> \in a.rel
        BY <1>3, <3>0, <3>2, <4>1 DEF StepsAgree
      <4>3. LabelHolds(a, p) = (\E s \in States : <<p[0], s>> \in a.rel)
        BY <2>2, <3>2 DEF LabelHolds
      <4> QED
        BY <4>2, <4>3
    <3>3. CASE cexLen = 0 /\ a.kind = "curr"
      <4>1. a \in initAx'
        BY <1>1, <3>3 DEF ConstrainsInit
      <4>2. <<p[0], p[0]>> \in a.rel
        BY <1>4, <2>0, <4>1
      <4>3. \A t \in 0..cexLen : t = 0
        BY <3>3
      <4>4. \A t \in 0..cexLen : <<p[t], p[t]>> \in a.rel
        BY <4>2, <4>3
      <4>5. Holds(a, p, cexLen)
        BY <3>3, <4>4 DEF Holds
      <4>6. LabelHolds(a, p) = Holds(a, p, cexLen)
        BY <2>2, <3>3 DEF LabelHolds
      <4> QED
        BY <4>5, <4>6
    <3> QED
      BY <1>3, <3>0, <3>1, <3>2, <3>3 DEF Axiom
  <2> QED
    BY <1>3, <2>1, <2>2 DEF OptionType
<1> QED
  BY <1>2, <1>4, <1>5, <1>6 DEF Labelled

\* Whatever unsatisfiable core the solver gives, the copy has no counterexample
\* of the length it was refined for (cegar_ops_uf.cpp: refine_subprover_ts and
\* cegar_values.cpp: refine_subprover_ts): the loop makes progress.
THEOREM CegarRefinementExcludesCex ==
  ASSUME EndIsNotIndexed, StepsAgree
  PROVE  Spec => RefinementExcludesCex
<1>1. Init => SoundInv /\ FalseInv
  BY SoundInvInit, FalseInvInit
<1>2. SoundInv /\ FalseInv /\ [Next]_vars => SoundInv' /\ FalseInv'
  BY SoundInvNext, FalseInvNext
<1>3. ASSUME FalseInv, [Next]_vars, pc = "outer", pc' # "done"
      PROVE  (Labelled({}) = {})' \/ UNCHANGED vars
  <2>1. RefineOuter \/ UNCHANGED vars
    BY <1>3 DEF Next, Step, CheckUntil, EngineTrue, EngineUnknown, EngineFalse, LoopTest,
                Enumerate, Concrete, AddProphecies, AllTracesExcluded, Refine,
                EngineFalseOverArrays, ReturnFalse
  <2> QED
    BY <1>3, <2>1, RefineOuterExcludes
<1>4. FalseInv /\ [Next]_vars =>
        [pc = "outer" /\ pc' # "done" => (Labelled({}) = {})']_vars
  BY <1>3
<1> QED
  BY <1>1, <1>2, <1>4, PTL DEF Spec, RefinementExcludesCex
=============================================================================
