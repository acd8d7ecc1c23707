----------------------------- MODULE IC3IAProofs -----------------------------
(***************************************************************************)
(* Theorems about IC3IA, for every system whose predicates come from its   *)
(* initial condition and its property, every predicate file, every choice  *)
(* of interpolants and every option but --ic3ia-skip-init-predicates:      *)
(* refinement in the middle of the search, with the frames kept, does not  *)
(* disturb what IC3 relies on.                                             *)
(***************************************************************************)
EXTENDS IC3IA, IC3Proofs

\* The relation is the abstraction by the predicates that are registered.
IAInv == IInv /\ trans = AbsTrans(sys, preds)

\* The initial predicates determine init and bad.
LEMMA IAInitInv ==
  ASSUME ~SkipInitPreds, IAInit
  PROVE  IAInv
<1>1. /\ sys \in Systems /\ sys \in SystemType
      /\ preds = InitialPreds /\ trans = AbsTrans(sys, preds)
  BY SystemsAssumption DEF IAInit, BaseInit
<1>2. /\ sys.boolPreds \cup sys.initPreds \subseteq preds
      /\ sys.boolPreds \cup sys.badPreds \subseteq preds
  BY <1>1 DEF InitialPreds
<1>3. Definable(sys.init, preds) /\ Definable(sys.bad, preds)
  BY <1>1, <1>2, AtomsAssumption, MorePredicates
<1>4. AbstractionInv
  BY <1>1, <1>3, AbstractionCovers DEF AbstractionInv
<1>5. preds \in SUBSET SUBSET States
  BY <1>1 DEF InitialPreds, SystemType
<1>6. trans \in SUBSET (States \X States)
  BY <1>1 DEF AbsTrans
<1>7. QED  BY <1>1, <1>4, <1>5, <1>6, BaseInitInv DEF IAInit, IAInv

\* A refinement adds predicates and shrinks the abstract relation.
LEMMA RefinementRefines ==
  ASSUME IAInv, RefineSuccess
  PROVE  /\ preds \subseteq preds'
         /\ preds' \in SUBSET SUBSET States
         /\ trans' = AbsTrans(sys, preds')
         /\ trans' \subseteq trans
<1>1. PICK itp \in Interpolants :
        \E new \in Reduced(FreshPreds(itp)) : preds' = preds \cup new
  BY DEF RefineSuccess
<1>2. PICK new \in Reduced(FreshPreds(itp)) : preds' = preds \cup new
  BY <1>1
<1>3. FreshPreds(itp) \subseteq SUBSET States
  BY ItpTermsAssumption DEF FreshPreds, Interpolants
<1>4. new \subseteq FreshPreds(itp)
  BY DEF Reduced
<1>5. preds \in SUBSET SUBSET States
  BY DEF IAInv, IInv, TypeOK
<1>6. preds \subseteq preds' /\ preds' \in SUBSET SUBSET States
  BY <1>2, <1>3, <1>4, <1>5
<1>7. trans' = AbsTrans(sys, preds')
  BY DEF RefineSuccess
<1>8. AbsTrans(sys, preds') \subseteq trans
  BY <1>6, MorePredicates DEF IAInv
<1>9. QED  BY <1>6, <1>7, <1>8

\* Frames, labels and depth survive a refinement.
LEMMA RefinementStep ==
  ASSUME IAInv, RefineSuccess
  PROVE  /\ IAInv'
         /\ \A k \in Nat : F(k)' = F(k)
         /\ reachedK' = reachedK
<1> USE DEF IAInv, IInv
<1>1. /\ preds \subseteq preds' /\ preds' \in SUBSET SUBSET States
      /\ trans' = AbsTrans(sys, preds') /\ trans' \subseteq trans
  BY RefinementRefines
<1>2. /\ pc = "refine" /\ pc' = "loop"
      /\ UNCHANGED <<sys, frontier, frames, asserted, reachedK, bound, i, goals,
                     cur, todo, at, cex, result, invar, terminate>>
  BY DEF RefineSuccess, frameVars, callVars, blockVars, propVars, verdictVars
<1>3. goals = {}
  BY <1>2 DEF PhaseInv, Blocking
<1>4. \A k \in Nat : F(k)' = F(k)
  BY <1>2 DEF F, FrameStates
<1>5. sys \in SystemType
  BY BadCubeType
<1>6. TypeOK'
  <2>1. trans' \in SUBSET (States \X States)
    BY <1>1 DEF AbsTrans
  <2>2. pc' \in Phases
    BY <1>2 DEF Phases
  <2>3. QED  BY <1>1, <1>2, <2>1, <2>2 DEF TypeOK
<1>7. AbstractionInv'
  <2>1. sys.trans \subseteq AbsTrans(sys, preds')
    BY <1>5, AbstractionCovers
  <2>2. Definable(sys.init, preds') /\ Definable(sys.bad, preds')
    BY <1>1, MorePredicates DEF AbstractionInv
  <2>3. QED  BY <1>1, <1>2, <2>1, <2>2 DEF AbstractionInv, Definable, Agree
<1>8. AtomsInv'
  <2>1. Lits(preds) \subseteq Lits(preds')
    BY <1>1, MorePredicates
  <2>2. QED  BY <1>2, <2>1 DEF AtomsInv, Lits
<1>9. LabelsInv'
  BY <1>2 DEF LabelsInv
<1>10. FramesSound'
  BY <1>1, <1>2 DEF FramesSound, IntersectsInit, Steps, F, FrameStates
<1>11. SafeBelowInv'
  <2>1. \A k \in Nat : Steps(F(k), sys.bad)' => Steps(F(k), sys.bad)
    BY <1>1, <1>2 DEF Steps, F, FrameStates
  <2>2. ASSUME reachedK >= 1, NEW k \in 0..frontier - 1, Steps(F(k), sys.bad)'
        PROVE  (terminate /\ k = frontier - 1 /\ pc \notin Blocking)'
    <3>1. terminate /\ k = frontier - 1
      BY <2>1, <2>2 DEF SafeBelowInv
    <3>2. pc' \notin Blocking
      BY <1>2 DEF Blocking
    <3>3. QED  BY <1>2, <3>1, <3>2
  <2>3. QED  BY <1>2, <2>2 DEF SafeBelowInv
<1>12. PhaseInv' /\ GoalsInv' /\ GoalsOutsideLowerFrame'
  BY <1>2, <1>3 DEF PhaseInv, GoalsInv, GoalsOutsideLowerFrame, Blocking
<1>13. CollateralInv' /\ TrueIsSound'
  BY <1>2 DEF CollateralInv, TrueIsSound
<1>14. trans' = AbsTrans(sys', preds')
  BY <1>1, <1>2
<1>15. QED
  BY <1>2, <1>4, <1>6, <1>7, <1>8, <1>9, <1>10, <1>11, <1>12, <1>13, <1>14

\* Every step of IC3IA is a refinement or a step of IC3.
LEMMA NextCases ==
  ASSUME IAInv, [IANext]_vars
  PROVE  RefineSuccess \/ [SharedNext]_vars
BY SearchIsShared DEF IAInv, IANext, SharedNext, CommonStep, RefineNone, RefineFail

LEMMA IAStepInv ==
  ASSUME IAInv, [IANext]_vars
  PROVE  IAInv'
<1>1. CASE RefineSuccess
  BY <1>1, RefinementStep
<1>2. CASE [SharedNext]_vars
  <2>1. IInv'
    BY <1>2, SharedStep DEF IAInv
  <2>2. UNCHANGED <<sys, preds, trans>>
    BY <1>2, FrameCases DEF IAInv, IInv
  <2>3. trans' = AbsTrans(sys', preds')
    BY <2>2 DEF IAInv
  <2>4. QED  BY <2>1, <2>3 DEF IAInv
<1>3. QED  BY <1>1, <1>2, NextCases

-----------------------------------------------------------------------------
(* The theorems.  All need the predicates of the initial condition.        *)

\* The inductive invariant holds in every reachable state.
THEOREM IAInvariance ==
  ASSUME ~SkipInitPreds
  PROVE  IASpec => []IAInv
<1>1. IAInit => IAInv
  BY IAInitInv
<1>2. IAInv /\ [IANext]_vars => IAInv'
  BY IAStepInv
<1>3. QED  BY <1>1, <1>2, PTL DEF IASpec

\* The state stays well typed.
THEOREM IATypeCorrect ==
  ASSUME ~SkipInitPreds
  PROVE  IASpec => []TypeOK
<1>1. IAInv => TypeOK
  BY DEF IAInv, IInv
<1>2. QED  BY <1>1, IAInvariance, PTL

\* Clauses stay inductive relative to the frame below although refine() keeps
\* the frames and changes the relation under them.
THEOREM IAFramesAreSound ==
  ASSUME ~SkipInitPreds
  PROVE  IASpec => []FramesSound
<1>1. IAInv => FramesSound
  BY DEF IAInv, IInv
<1>2. QED  BY <1>1, IAInvariance, PTL

\* The assertions of rel_ind_check hold for every pending goal.
THEOREM IAGoalsAreOutside ==
  ASSUME ~SkipInitPreds
  PROVE  IASpec => []GoalsOutsideLowerFrame
<1>1. IAInv => GoalsOutsideLowerFrame
  BY DEF IAInv, IInv
<1>2. QED  BY <1>1, IAInvariance, PTL

\* TRUE on the abstraction means that the concrete system is safe, and the
\* abstract fixed point is an invariant of the concrete system.
THEOREM IATrueIsRight ==
  ASSUME ~SkipInitPreds
  PROVE  IASpec => []TrueIsSound
<1>1. IAInv => TrueIsSound
  BY DEF IAInv, IInv
<1>2. QED  BY <1>1, IAInvariance, PTL

\* reached_k_ counts bounds that have no concrete counterexample, through
\* refinements that keep it.
THEOREM IAReachedClear ==
  ASSUME ~SkipInitPreds
  PROVE  IASpec => []ReachedIsClear
<1>1. IAInit => DepthInv
  BY DEF IAInit, BaseInit, DepthInv
<1>2. IAInv /\ DepthInv /\ [IANext]_vars => DepthInv'
  <2>1. RefineSuccess /\ DepthInv => DepthInv'
    BY DEF RefineSuccess, DepthInv, frameVars, callVars
  <2>2. IAInv /\ DepthInv /\ [SharedNext]_vars => DepthInv'
    BY DepthStep DEF IAInv
  <2>3. QED  BY <2>1, <2>2, NextCases
<1>3. IAInv /\ DepthInv => ReachedIsClear
  BY DepthClears DEF IAInv
<1>4. QED  BY <1>1, <1>2, <1>3, IAInvariance, PTL DEF IASpec

\* No step, refinements included, widens a frame or gives depth back.
THEOREM IAFramesStrengthen ==
  ASSUME ~SkipInitPreds
  PROVE  IASpec => FramesOnlyStrengthen
<1>1. ASSUME IAInv, [IANext]_vars
      PROVE  [ /\ \A k \in 0..frontier : F(k)' \subseteq F(k)
               /\ reachedK' >= reachedK ]_vars
  <2>1. CASE RefineSuccess
    <3>1. /\ \A k \in Nat : F(k)' \subseteq F(k)
          /\ reachedK' >= reachedK
      BY <1>1, <2>1, RefinementStep DEF IAInv, IInv, TypeOK
    <3>2. QED  BY <1>1, <3>1 DEF IAInv, IInv, TypeOK
  <2>2. CASE [SharedNext]_vars
    <3>1. /\ \A k \in Nat : F(k)' \subseteq F(k)
          /\ reachedK' >= reachedK
      BY <1>1, <2>2, FramesStep DEF IAInv
    <3>2. QED  BY <1>1, <3>1 DEF IAInv, IInv, TypeOK
  <2>3. QED  BY <1>1, <2>1, <2>2, NextCases
<1>2. QED  BY <1>1, IAInvariance, PTL DEF IASpec, FramesOnlyStrengthen

-----------------------------------------------------------------------------
(* FALSE is concrete.                                                      *)

\* The states of the cube are one valuation of the predicates.
Exact(c) == \A u, v \in Cube(c) : Agree(preds, u, v)

\* Its first target is exact, and none has bad states.
ExactTrace(trace) ==
  /\ Exact(trace[1])
  /\ \A j \in 1..Len(trace) : Cube(trace[j]) \cap sys.bad = {}

\* A trace to be refined comes from the initial states and ends in bad, where
\* it gets for the first time.
CexShape ==
  /\ Len(cex) > 0
  /\ Cube(cex[Len(cex)]) = sys.bad
  /\ \A j \in 2..Len(cex) - 1 : Cube(cex[j]) \cap sys.bad = {}
  /\ IF Len(cex) = 1 THEN sys.init \cap sys.bad # {}
                     ELSE Cube(cex[1]) \subseteq sys.init

\* Predecessors are not generalised, so that targets are exact and the first one
\* of a trace is inside init.
IATracesInv ==
  /\ \A g \in goals : ExactTrace(g.trace)
  /\ pc \in {"indgen", "highest"} => ExactTrace(cur.trace)
  /\ pc = "refine" => CexShape
  /\ result = "FALSE" => pc = "done"
  /\ FalseHasWitness

\* An exact cube that meets init is inside of it.
LEMMA ExactInside ==
  ASSUME IAInv, NEW c, Exact(c), IntersectsInit(c)
  PROVE  Cube(c) \subseteq sys.init
<1>1. Definable(sys.init, preds) /\ sys \in SystemType
  BY BadCubeType DEF IAInv, IInv, AbstractionInv
<1>2. PICK s \in Cube(c) : s \in sys.init
  BY DEF IntersectsInit
<1>3. \A u \in Cube(c) : Agree(preds, s, u) /\ u \in States /\ s \in States
  BY DEF Exact, Cube
<1>4. QED  BY <1>1, <1>2, <1>3 DEF Definable

\* Without predecessor generalisation what replaces a model is exact, and no
\* more bad than the model.
LEMMA SubstitutesExact ==
  ASSUME IAInv, NEW k, NEW c, NEW s \in Models(k, c), NEW p \in Substitutes(k, c, s)
  PROVE  Exact(p) /\ Cube(p) \cap sys.bad = {} /\ p \in Cubes
<1>1. s \in Cube(p) /\ \A u \in Cube(p) : Agree(preds, s, u)
  BY IAOptionsAssumption DEF Substitutes
<1>2. Exact(p)
  BY <1>1 DEF Exact, Agree
<1>3. s \in States /\ s \notin sys.bad
  BY DEF Models, F, FrameStates
<1>4. Definable(sys.bad, preds)
  BY DEF IAInv, IInv, AbstractionInv
<1>5. Cube(p) \cap sys.bad = {}
  BY <1>1, <1>3, <1>4 DEF Definable, Cube
<1>6. p \in SUBSET Lits(preds) /\ preds \in SUBSET SUBSET States
  BY DEF Substitutes, IAInv, IInv, TypeOK
<1>7. p \in Cubes
  BY <1>6 DEF Lits, Neg, Cubes
<1>8. QED  BY <1>2, <1>5, <1>7

LEMMA ExactGoalsStep ==
  ASSUME IAInv, IATracesInv, [SharedNext]_vars
  PROVE  \A h \in goals' : ExactTrace(h.trace)
<1> SUFFICES ASSUME NEW h \in goals' PROVE ExactTrace(h.trace)
  OBVIOUS
<1>1. CASE SomeReachesBadGoal
  <2>1. PICK s \in Models(frontier + 1, BadCube) :
          \E c \in Substitutes(frontier + 1, BadCube, s) :
            goals' = {[idx |-> frontier, trace |-> <<c>>]}
    BY <1>1 DEF SomeReachesBadGoal
  <2>2. PICK c \in Substitutes(frontier + 1, BadCube, s) :
          goals' = {[idx |-> frontier, trace |-> <<c>>]}
    BY <2>1
  <2>3. h.trace = <<c>> /\ Exact(c) /\ Cube(c) \cap sys.bad = {}
    BY <2>2, SubstitutesExact
  <2>4. <<c>>[1] = c /\ Len(<<c>>) = 1
    OBVIOUS
  <2>5. QED  BY <2>3, <2>4 DEF ExactTrace
<1>2. ASSUME NEW g \in goals, SomeGoalPredecessor(g), h \notin goals
      PROVE  ExactTrace(h.trace)
  <2>1. PICK s \in Models(g.idx, Target(g)) :
          \E c \in Substitutes(g.idx, Target(g), s) :
            goals' = goals \cup {[idx |-> g.idx - 1, trace |-> <<c>> \o g.trace]}
    BY <1>2 DEF SomeGoalPredecessor
  <2>2. PICK c \in Substitutes(g.idx, Target(g), s) :
          goals' = goals \cup {[idx |-> g.idx - 1, trace |-> <<c>> \o g.trace]}
    BY <2>1
  <2>3. h.trace = <<c>> \o g.trace
    BY <1>2, <2>2
  <2>4. Exact(c) /\ Cube(c) \cap sys.bad = {} /\ c \in Cubes
    BY <2>2, SubstitutesExact
  <2>5. g.trace \in Seq(Cubes)
    <3>1. goals \in SUBSET GoalType
      BY DEF IAInv, IInv, TypeOK
    <3>2. QED  BY <3>1 DEF GoalType
  <2>6. /\ h.trace[1] = c /\ Len(h.trace) = Len(g.trace) + 1 /\ Len(g.trace) \in Nat
        /\ \A j \in 1..Len(g.trace) : h.trace[j + 1] = g.trace[j]
    BY <2>3, <2>4, <2>5
  <2>7. ASSUME NEW j \in 1..Len(h.trace)
        PROVE  Cube(h.trace[j]) \cap sys.bad = {}
    <3>1. CASE j = 1
      BY <2>4, <2>6, <3>1
    <3>2. CASE j # 1
      <4>1. j - 1 \in 1..Len(g.trace) /\ (j - 1) + 1 = j
        BY <2>6, <3>2
      <4>2. h.trace[j] = g.trace[j - 1]
        BY <2>6, <4>1
      <4>3. QED  BY <4>1, <4>2 DEF IATracesInv, ExactTrace
    <3>3. QED  BY <3>1, <3>2
  <2>8. QED  BY <2>4, <2>6, <2>7 DEF ExactTrace
<1>3. CASE LearnClause
  <2>1. /\ pc = "highest"
        /\ h \in goals \/ h = [idx |-> cur.idx + 1, trace |-> cur.trace]
    BY <1>3 DEF LearnClause
  <2>2. QED  BY <2>1 DEF IATracesInv
<1>4. CASE h \in goals
  BY <1>4 DEF IATracesInv
<1>5. QED  BY <1>1, <1>2, <1>3, <1>4, GoalCases

LEMMA ExactCollateralStep ==
  ASSUME IAInv, IATracesInv, [SharedNext]_vars, pc' \in {"indgen", "highest"}
  PROVE  ExactTrace(cur'.trace)
<1>1. TypeOK
  BY DEF IAInv, IInv
<1>2. ASSUME NEW g \in goals, SomeGoalBlocked(g)
      PROVE  ExactTrace(cur'.trace)
  <2>1. cur'.trace = g.trace
    BY <1>2 DEF SomeGoalBlocked
  <2>2. QED  BY <2>1 DEF IATracesInv
<1>3. ASSUME pc \in {"indgen", "highest"}, cur'.trace = cur.trace
      PROVE  ExactTrace(cur'.trace)
  BY <1>3 DEF IATracesInv
<1>4. ASSUME NEW l \in cur.cube, DropLiteral(l) \/ KeepLiteral(l)
      PROVE  pc \in {"indgen", "highest"} /\ cur'.trace = cur.trace
  BY <1>1, <1>4 DEF DropLiteral, KeepLiteral, TypeOK
<1>5. CASE GeneralizationDone \/ PushCollateral
  <2>1. pc \in {"indgen", "highest"} /\ cur'.trace = cur.trace
    BY <1>1, <1>5 DEF GeneralizationDone, PushCollateral, blockVars, TypeOK
  <2>2. QED  BY <1>3, <2>1
<1>6. CASE UNCHANGED <<sys, preds, trans, pc, frameVars, cur>>
  BY <1>3, <1>6
<1>7. QED  BY <1>2, <1>3, <1>4, <1>5, <1>6, CollateralCases

LEMMA CexShapeStep ==
  ASSUME IAInv, IATracesInv, [SharedNext]_vars, pc' = "refine"
  PROVE  /\ Len(cex') > 0
         /\ Cube(cex'[Len(cex')]) = sys.bad
         /\ \A j \in 2..Len(cex') - 1 : Cube(cex'[j]) \cap sys.bad = {}
         /\ IF Len(cex') = 1 THEN sys.init \cap sys.bad # {}
                             ELSE Cube(cex'[1]) \subseteq sys.init
<1> USE DEF IAInv
<1>1. TypeOK /\ Cube(BadCube) = sys.bad
  BY BadCubeType DEF IInv
<1>2. CASE InitIsBad
  <2>1. Cube(BadCube) \cap sys.init # {} /\ cex' = <<BadCube>>
    BY <1>2 DEF InitIsBad, IntersectsInit
  <2>2. Len(cex') = 1 /\ cex'[1] = BadCube
    BY <2>1
  <2>3. QED  BY <1>1, <2>1, <2>2
<1>3. CASE SomeInitStepsIntoBad
  <2>1. PICK s \in sys.init, c \in Cubes :
          (\A u \in Cube(c) : Agree(preds, s, u)) /\ cex' = <<c, BadCube>>
    BY <1>3 DEF SomeInitStepsIntoBad
  <2>2. Len(cex') = 2 /\ cex'[1] = c /\ cex'[2] = BadCube
    BY <2>1
  <2>3. Cube(c) \subseteq sys.init
    <3>1. Definable(sys.init, preds) /\ s \in States
      BY BadCubeType DEF IInv, AbstractionInv, SystemType
    <3>2. QED  BY <2>1, <3>1 DEF Definable, Cube
  <2>4. QED  BY <1>1, <2>2, <2>3
<1>4. ASSUME NEW g \in goals, GoalInitial(g)
      PROVE  /\ Len(cex') > 1
             /\ Cube(cex'[Len(cex')]) = sys.bad
             /\ \A j \in 2..Len(cex') - 1 : Cube(cex'[j]) \cap sys.bad = {}
             /\ Cube(cex'[1]) \subseteq sys.init
  <2>1. ~terminate /\ g.idx = 0 /\ cex' = Append(g.trace, BadCube)
    BY <1>4 DEF GoalInitial, Handle
  <2>2. IntersectsInit(Target(g)) /\ Exact(Target(g))
    BY <2>1 DEF IInv, GoalsOutsideLowerFrame, IATracesInv, ExactTrace, Target
  <2>3. g.trace \in Seq(Cubes) /\ Len(g.trace) > 0
    BY <1>1 DEF TypeOK, GoalType, IInv, GoalsInv
  <2>4. /\ Len(cex') = Len(g.trace) + 1 /\ Len(g.trace) \in Nat
        /\ cex'[Len(g.trace) + 1] = BadCube
        /\ \A j \in 1..Len(g.trace) : cex'[j] = g.trace[j]
    BY <2>1, <2>3
  <2>5. Cube(Target(g)) \subseteq sys.init
    BY <2>2, ExactInside
  <2>6. \A j \in 2..Len(cex') - 1 : Cube(cex'[j]) \cap sys.bad = {}
    BY <2>3, <2>4 DEF IATracesInv, ExactTrace
  <2>7. QED  BY <1>1, <2>3, <2>4, <2>5, <2>6 DEF Target
<1>5. CASE pc = "refine" /\ cex' = cex
  BY <1>5 DEF IATracesInv, CexShape
<1>6. QED  BY <1>2, <1>3, <1>4, <1>5, RefineCases

\* No step of the search is taken where a trace waits to be refined.
LEMMA SearchElsewhere ==
  ASSUME SearchStep
  PROVE  pc # "refine"
<1>1. CASE \/ LoopExit \/ StepCovered \/ InitIsBad \/ InitStepsIntoBad
           \/ StepBaseHolds \/ EnterBlockAll
  BY <1>1
  DEF LoopExit, StepCovered, InitIsBad, InitStepsIntoBad, StepBaseHolds,
      EnterBlockAll, InLoop
<1>2. CASE \/ ReachesBadGoal \/ BlockedAll \/ TerminateBlocking
  BY <1>2 DEF ReachesBadGoal, BlockedAll, TerminateBlocking
<1>3. ASSUME NEW g \in goals, \/ GoalInitial(g) \/ GoalAlreadyBlocked(g)
                              \/ GoalBlocked(g) \/ GoalPredecessor(g)
      PROVE  pc # "refine"
  BY <1>3
  DEF GoalInitial, GoalAlreadyBlocked, GoalBlocked, GoalPredecessor, Handle
<1>4. ASSUME NEW l \in cur.cube, DropLiteral(l) \/ KeepLiteral(l)
      PROVE  pc # "refine"
  BY <1>4 DEF DropLiteral, KeepLiteral
<1>5. CASE GeneralizationDone \/ PushCollateral \/ LearnClause
  BY <1>5 DEF GeneralizationDone, PushCollateral, LearnClause
<1>6. ASSUME NEW c \in todo, PropagateClause(c) \/ KeepClause(c)
      PROVE  pc # "refine"
  BY <1>6 DEF PropagateClause, KeepClause
<1>7. CASE FixedPoint \/ NextFrame \/ PropagationDone
  BY <1>7 DEF FixedPoint, NextFrame, PropagationDone
<1>8. QED  BY <1>1, <1>2, <1>3, <1>4, <1>5, <1>6, <1>7 DEF SearchStep

\* The trace of a concretizable counterexample is a path from init to bad.
LEMMA RefineNoneWitness ==
  ASSUME IAInv, IATracesInv, RefineNone
  PROVE  \E path \in Paths(sys, Len(cex) - 1) :
           path[0] \in sys.init /\ path[Len(cex) - 1] \in sys.bad
<1> DEFINE n == Len(cex) - 1
<1>1. CexShape /\ cex \in Seq(Cubes)
  BY DEF RefineNone, ReturnFalse, IATracesInv, IAInv, IInv, TypeOK
<1>2. n \in Nat /\ (Len(cex) = 1 <=> n = 0) /\ Len(cex) = n + 1
  BY <1>1 DEF CexShape
<1> HIDE DEF n
<1>3. CASE n = 0
  <2>1. PICK s \in sys.init : s \in sys.bad
    BY <1>1, <1>2, <1>3 DEF CexShape
  <2>2. s \in States
    BY BadCubeType DEF IAInv, IInv, SystemType
  <2>3. [t \in 0..0 |-> s] \in Paths(sys, 0) /\ [t \in 0..0 |-> s][0] = s
    BY <2>2 DEF Paths
  <2>4. \E path \in Paths(sys, n) : path[0] \in sys.init /\ path[n] \in sys.bad
    BY <1>3, <2>1, <2>3
  <2>5. QED  BY <2>4 DEF n
<1>4. CASE n # 0
  <2>1. PICK path \in Paths(sys, n) : \A t \in 0..n : path[t] \in Layer(t)
    BY <1>2, <1>4 DEF RefineNone, Concretizable, n
  <2>2. Layer(0) \subseteq sys.init
    BY <1>1, <1>2, <1>4 DEF Layer, CexShape
  <2>3. Layer(n) \subseteq sys.bad
    BY <1>1, <1>2, <1>4 DEF Layer, CexShape, n
  <2>4. path[0] \in sys.init /\ path[n] \in sys.bad
    BY <1>2, <2>1, <2>2, <2>3
  <2>5. QED  BY <2>1, <2>4 DEF n
<1>5. QED  BY <1>3, <1>4

LEMMA IATracesStep ==
  ASSUME IAInv, IATracesInv, [IANext]_vars
  PROVE  IATracesInv'
<1>1. CASE RefineSuccess
  <2>1. /\ pc = "refine" /\ pc' = "loop"
        /\ UNCHANGED <<sys, goals, cur, cex, result>>
    BY <1>1 DEF RefineSuccess, blockVars, verdictVars
  <2>2. goals' = {} /\ result' # "FALSE"
    BY <2>1 DEF IAInv, IInv, PhaseInv, Blocking, IATracesInv
  <2>3. QED  BY <2>1, <2>2 DEF IATracesInv, FalseHasWitness
<1>2. CASE [SharedNext]_vars
  <2>1. UNCHANGED <<sys, preds, trans>>
    BY <1>2, FrameCases DEF IAInv, IInv
  <2>2. \A trace : ExactTrace(trace)' <=> ExactTrace(trace)
    BY <2>1 DEF ExactTrace, Exact, Agree
  <2>3. (\A g \in goals : ExactTrace(g.trace))'
    BY <1>2, <2>2, ExactGoalsStep
  <2>4. (pc \in {"indgen", "highest"} => ExactTrace(cur.trace))'
    BY <1>2, <2>2, ExactCollateralStep
  <2>5. (pc = "refine" => CexShape)'
    BY <1>2, <2>1, CexShapeStep DEF CexShape
  <2>6. ASSUME result' = "FALSE"
        PROVE  pc' = "done" /\ FalseHasWitness'
    <3>1. CASE ReturnFalse
      <4>1. pc = "refine" /\ pc' = "done" /\ cex' = cex /\ result' = "FALSE"
        BY <3>1 DEF ReturnFalse
      <4>2. ~SearchStep /\ ~Environment /\ ~RefineFail /\ ~UNCHANGED vars /\ ~RefineSuccess
        BY <4>1, SearchElsewhere
        DEF Environment, CheckUntil, Signal, RefineFail, ReturnUnknown, vars, RefineSuccess
      <4>3. RefineNone
        BY <4>2 DEF IANext
      <4>4. QED  BY <2>1, <4>1, <4>3, RefineNoneWitness DEF FalseHasWitness
    <3>2. CASE result = "FALSE"
      <4>1. pc = "done"
        BY <3>2 DEF IATracesInv
      <4>2. cex' = cex /\ pc' = "done"
        BY <1>2, <2>6, <3>1, <4>1, RefineCases
        DEF InitIsBad, SomeInitStepsIntoBad, GoalInitial, Handle, InLoop, ReturnFalse
      <4>3. QED  BY <2>1, <3>2, <4>2 DEF IATracesInv, FalseHasWitness
    <3>3. QED
      BY <1>2, <2>6, <3>1, <3>2, RefineCases
      DEF InitIsBad, SomeInitStepsIntoBad, GoalInitial
  <2>7. QED  BY <2>3, <2>4, <2>5, <2>6 DEF IATracesInv, FalseHasWitness
<1>3. QED  BY <1>1, <1>2, NextCases

LEMMA TracesInit ==
  ASSUME IAInit
  PROVE  IATracesInv
BY DEF IAInit, BaseInit, IATracesInv, FalseHasWitness

LEMMA TracesInvariance ==
  ASSUME ~SkipInitPreds
  PROVE  IASpec => [](IAInv /\ IATracesInv)
<1>1. IAInit => IATracesInv
  BY TracesInit
<1>2. IAInv /\ IATracesInv /\ [IANext]_vars => IATracesInv'
  BY IATracesStep
<1>3. QED  BY <1>1, <1>2, IAInvariance, PTL DEF IASpec

\* FALSE is returned for concrete counterexamples only, of witness_length()
\* steps: whether refine() looked at the cubes of the trace or at its length.
THEOREM IAFalseIsWitnessed ==
  ASSUME ~SkipInitPreds
  PROVE  IASpec => []FalseHasWitness
<1>1. IATracesInv => FalseHasWitness
  BY DEF IATracesInv
<1>2. QED  BY <1>1, TracesInvariance, PTL

-----------------------------------------------------------------------------
(* Refinement makes progress.                                              *)

\* An interpolant cannot tell states apart that agree on all its atoms.
LEMMA InterpolantsAgree ==
  ASSUME TypeOK, NEW itp \in Interpolants, NEW t \in 1..Len(cex) - 1,
         NEW u \in States, NEW v \in States,
         Agree(preds \cup FreshPreds(itp), u, v)
  PROVE  u \in itp[t] => v \in itp[t]
<1>1. itp[t] \in SUBSET States /\ t \in DOMAIN itp
  BY ItpTermsAssumption DEF Interpolants
<1>2. CASE itp[t] = {} \/ itp[t] = States
  BY <1>2
<1>3. CASE itp[t] \in Lits(preds)
  BY <1>3 DEF Lits, Neg, Agree
<1>4. CASE itp[t] \in FreshPreds(itp)
  BY <1>4 DEF Agree
<1>5. QED  BY <1>1, <1>2, <1>3, <1>4 DEF FreshPreds

\* With all the predicates of an interpolation sequence no abstract path goes
\* through the trace: its states are in the interpolants one after the other,
\* and the last one excludes the end of the trace.
LEMMA FreshPredicatesRuleOut ==
  ASSUME IAInv, CexShape, Len(cex) > 1, NEW itp \in Interpolants
  PROVE  RuledOut(AbsTrans(sys, preds \cup FreshPreds(itp)))
<1> DEFINE n == Len(cex) - 1
           P == preds \cup FreshPreds(itp)
<1>1. TypeOK /\ cex \in Seq(Cubes)
  BY DEF IAInv, IInv, TypeOK
<1>2. n \in Nat /\ n >= 1 /\ Len(cex) \in Nat /\ Len(cex) = n + 1 /\ Len(cex) - 2 = n - 1
  BY <1>1
<1> SUFFICES ASSUME NEW path \in [0..n -> States],
                    \A t \in 0..n : path[t] \in Cube(cex[t + 1]),
                    \A t \in 0..n - 1 : <<path[t], path[t + 1]>> \in AbsTrans(sys, P)
             PROVE  FALSE
  BY <1>2 DEF RuledOut
<1>3. /\ Image(Layer(0)) \subseteq itp[1]
      /\ \A t \in 1..n - 1 : Image(itp[t] \cap Layer(t)) \subseteq itp[t + 1]
      /\ itp[n] \cap Layer(n) = {}
  BY <1>2 DEF Interpolants
<1>4. ASSUME NEW t \in 1..n, NEW u \in States, NEW v \in States, Agree(P, u, v)
      PROVE  u \in itp[t] => v \in itp[t]
  BY <1>1, <1>4, InterpolantsAgree
<1>5. ASSUME NEW t \in 0..n
      PROVE  path[t] \in Layer(t)
  <2>1. path[t] \in Cube(cex[t + 1]) /\ path[t] \in States
    OBVIOUS
  <2>2. CASE SimCex
    BY <2>1, <2>2 DEF Layer
  <2>3. CASE ~SimCex /\ t = 0
    BY <1>2, <2>1, <2>3 DEF Layer, CexShape
  <2>4. CASE ~SimCex /\ t = n
    BY <1>2, <2>1, <2>4 DEF Layer, CexShape
  <2>5. CASE ~SimCex /\ t # 0 /\ t # n
    <3>1. t + 1 \in 2..Len(cex) - 1
      <4> HIDE DEF n
      <4>1. t \in 0..n /\ Len(cex) - 1 = n
        BY DEF n
      <4>2. QED  BY <1>2, <2>5, <4>1
    <3>2. path[t] \notin sys.bad
      BY <2>1, <3>1 DEF CexShape
    <3>3. QED  BY <1>2, <2>1, <2>5, <3>2 DEF Layer
  <2>6. QED  BY <2>2, <2>3, <2>4, <2>5
<1> HIDE DEF n, P
<1>6. ASSUME NEW t \in 0..n - 1, NEW X, path[t] \in X, Image(X) \subseteq itp[t + 1]
      PROVE  path[t + 1] \in itp[t + 1]
  <2>1. <<path[t], path[t + 1]>> \in AbsTrans(sys, P) /\ t + 1 \in 1..n
    BY <1>2
  <2>2. PICK u \in States : <<path[t], u>> \in sys.trans /\ Agree(P, u, path[t + 1])
    BY <2>1 DEF AbsTrans
  <2>3. u \in Image(X)
    BY <1>6, <2>2 DEF Image
  <2>4. path[t + 1] \in States
    BY <1>2, <2>1
  <2>5. QED  BY <1>4, <1>6, <2>1, <2>2, <2>3, <2>4
<1> DEFINE T == { t \in Nat : t + 1 \in 1..n => path[t + 1] \in itp[t + 1] }
<1>7. 0 \in T
  <2>1. 0 \in 0..n - 1 /\ 0 + 1 = 1
    BY <1>2
  <2>2. path[0] \in Layer(0) /\ Image(Layer(0)) \subseteq itp[0 + 1]
    BY <1>2, <1>3, <1>5, <2>1
  <2>3. path[0 + 1] \in itp[0 + 1]
    BY <1>6, <2>1, <2>2
  <2>4. QED  BY <2>3
<1>8. ASSUME NEW t \in Nat, t \in T
      PROVE  t + 1 \in T
  <2>1. CASE t + 1 \in 1..n - 1
    <3>1. path[t + 1] \in itp[t + 1] /\ path[t + 1] \in Layer(t + 1)
      BY <1>2, <1>5, <1>8, <2>1
    <3>2. Image(itp[t + 1] \cap Layer(t + 1)) \subseteq itp[(t + 1) + 1]
      BY <1>3, <2>1
    <3>3. path[(t + 1) + 1] \in itp[(t + 1) + 1]
      BY <1>2, <1>6, <2>1, <3>1, <3>2
    <3>4. QED  BY <3>3
  <2>2. CASE t + 1 \notin 1..n - 1
    BY <1>2, <2>2
  <2>3. QED  BY <2>1, <2>2
<1> HIDE DEF T
<1>9. Nat \subseteq T
  BY <1>7, <1>8, NatSetInduction
<1>10. path[n] \in itp[n]
  <2>1. n - 1 \in T /\ (n - 1) + 1 = n
    BY <1>2, <1>9
  <2>2. QED  BY <1>2, <2>1 DEF T
<1>11. QED  BY <1>2, <1>3, <1>5, <1>10

\* A successful refinement rules out the counterexample it was computed for,
\* whichever interpolants the solver gives and whichever predicates are kept.
THEOREM IARefinementProgresses ==
  ASSUME ~SkipInitPreds
  PROVE  IASpec => RefinementRulesOutCex
<1>1. ASSUME IAInv, IATracesInv, [IANext]_vars, pc = "refine", pc' = "loop"
      PROVE  RuledOut(trans')
  <2>1. RefineSuccess
    BY <1>1, SearchElsewhere
    DEF IANext, RefineNone, RefineFail, ReturnFalse, ReturnUnknown, Environment,
        CheckUntil, Signal, vars
  <2>2. PICK itp \in Interpolants :
          \E new \in Reduced(FreshPreds(itp)) : preds' = preds \cup new
    BY <2>1 DEF RefineSuccess
  <2>3. PICK new \in Reduced(FreshPreds(itp)) : preds' = preds \cup new
    BY <2>2
  <2>4. trans' = AbsTrans(sys, preds \cup new)
    BY <2>1, <2>3 DEF RefineSuccess
  <2>5. RuledOut(AbsTrans(sys, preds \cup FreshPreds(itp)))
    BY <1>1, <2>1, FreshPredicatesRuleOut DEF IATracesInv, RefineSuccess
  <2>6. RuledOut(AbsTrans(sys, preds \cup new))
    BY <2>3, <2>5 DEF Reduced
  <2>7. QED  BY <2>4, <2>6
<1>2. IAInv /\ IATracesInv /\ [IANext]_vars
        => [(pc = "refine" /\ pc' = "loop") => RuledOut(trans')]_vars
  BY <1>1
<1>3. QED  BY <1>2, TracesInvariance, PTL DEF IASpec, RefinementRulesOutCex
=============================================================================
