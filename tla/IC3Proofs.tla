------------------------------ MODULE IC3Proofs ------------------------------
(***************************************************************************)
(* Theorems about bit-level IC3 and IC3 over words, for every system,      *)
(* every bound and every option but the functional preimage of MBIC3:      *)
(* their frames are sound, they only get stronger, every goal steps into   *)
(* the one it was made for, and both verdicts are right (TRUE as long as   *)
(* no signal came).  The steps shared with IC3IA come first: the inductive *)
(* invariant of IC3Base and that each of them preserves it.                *)
(***************************************************************************)
EXTENDS IC3, MBIC3, TransSysProofs

-----------------------------------------------------------------------------
(* The inductive invariant, part by part.                                  *)

\* The places of the call inside block_all.
Blocking == {"blocking", "goal", "indgen", "highest"}

\* The abstract system covers the concrete one, and init and bad are
\* combinations of the predicates.
AbstractionInv ==
  /\ sys.trans \subseteq trans
  /\ Definable(sys.init, preds)
  /\ Definable(sys.bad, preds)

\* Every clause the solver holds is over the predicates.
AtomsInv == \A k \in 1..frontier : \A c \in asserted[k] : c \subseteq Lits(preds)

\* Every clause the solver holds is implied by a stored clause at the same
\* frame or above, and every stored clause is held.
LabelsInv ==
  /\ \A k \in 0..frontier : frames[k] \subseteq asserted[k]
  /\ \A k \in 0..frontier : \A c \in asserted[k] :
       \E j \in k..frontier : \E d \in frames[j] : d \subseteq c
  /\ asserted[0] = {}

\* Below the frontier no frame steps into bad.  Only the frame that block_all
\* pushed after a signal may, and then no blocking follows.
SafeBelowInv ==
  /\ reachedK >= 0 => sys.init \cap sys.bad = {}
  /\ reachedK >= 1 => \A k \in 0..frontier - 1 :
       Steps(F(k), sys.bad) => terminate /\ k = frontier - 1 /\ pc \notin Blocking

\* What holds of the call at each place.
PhaseInv ==
  /\ reachedK < 1 => frontier = 1
  /\ pc \in Blocking \cup {"propagate"} => reachedK >= 1
  /\ pc = "propagate" => at \in 1..frontier - 1 /\ todo \subseteq frames[at]
  /\ goals # {} => pc \in Blocking

\* A goal is at a frame, and its target is over the predicates.
GoalsInv ==
  \A g \in goals :
    /\ g.idx \in 0..frontier
    /\ Len(g.trace) > 0
    /\ Target(g) \subseteq Lits(preds)

\* The collateral excludes the initial states, is inductive relative to the
\* frame below, and covers the goal it was made from.
CollateralInv ==
  pc \in {"indgen", "highest"} =>
    /\ cur.idx \in 1..frontier
    /\ Len(cur.trace) > 0
    /\ Cube(cur.trace[1]) \subseteq Cube(cur.cube)
    /\ cur.trace[1] \in SUBSET Lits(preds) /\ cur.cube \in SUBSET Lits(preds)
    /\ ~IntersectsInit(cur.cube)
    /\ RelInd(cur.idx, cur.cube)

IInv ==
  /\ TypeOK
  /\ AbstractionInv
  /\ AtomsInv
  /\ LabelsInv
  /\ FramesSound
  /\ SafeBelowInv
  /\ PhaseInv
  /\ GoalsInv
  /\ GoalsOutsideLowerFrame
  /\ CollateralInv
  /\ TrueIsSound

-----------------------------------------------------------------------------
(* Lemmas about cubes and frames.                                          *)

\* Fewer literals, more states.
LEMMA CubeAntitone ==
  ASSUME NEW c, NEW d, c \subseteq d
  PROVE  Cube(d) \subseteq Cube(c)
BY DEF Cube

\* The cube of a model contains it, and only states that agree with it.
LEMMA ModelCubeAgree ==
  ASSUME NEW P \in SUBSET SUBSET States, NEW s \in States
  PROVE  /\ ModelCube(P, s) \subseteq Lits(P)
         /\ s \in Cube(ModelCube(P, s))
         /\ \A u \in Cube(ModelCube(P, s)) : Agree(P, s, u)
<1>1. ModelCube(P, s) \subseteq Lits(P)
  BY DEF ModelCube, Lits
<1>2. s \in Cube(ModelCube(P, s))
  BY DEF ModelCube, Cube, Neg
<1>3. ASSUME NEW u \in Cube(ModelCube(P, s)), NEW p \in P
      PROVE  s \in p <=> u \in p
  <2>1. CASE s \in p
    <3>1. p \in ModelCube(P, s)
      BY <2>1 DEF ModelCube
    <3>2. QED  BY <2>1, <3>1 DEF Cube
  <2>2. CASE s \notin p
    <3>1. Neg(p) \in ModelCube(P, s)
      BY <2>2 DEF ModelCube
    <3>2. QED  BY <2>2, <3>1 DEF Cube, Neg
  <2>3. QED  BY <2>1, <2>2
<1>4. QED  BY <1>1, <1>2, <1>3 DEF Agree

\* States that agree on the predicates satisfy the same cubes over them.
LEMMA AgreeOnCubes ==
  ASSUME NEW P \in SUBSET SUBSET States, NEW s \in States, NEW t \in States,
         Agree(P, s, t), NEW c \in SUBSET Lits(P)
  PROVE  s \in Cube(c) <=> t \in Cube(c)
BY DEF Agree, Cube, Lits, Neg

\* Adding predicates keeps literals and definability and shrinks the relation.
LEMMA MorePredicates ==
  ASSUME NEW P, NEW Q, P \subseteq Q, NEW sy
  PROVE  /\ Lits(P) \subseteq Lits(Q)
         /\ \A X : Definable(X, P) => Definable(X, Q)
         /\ AbsTrans(sy, Q) \subseteq AbsTrans(sy, P)
<1>1. Lits(P) \subseteq Lits(Q)
  BY DEF Lits
<1>2. \A s, t : Agree(Q, s, t) => Agree(P, s, t)
  BY DEF Agree
<1>3. QED  BY <1>1, <1>2 DEF Definable, AbsTrans

\* The abstraction contains the system it abstracts.
LEMMA AbstractionCovers ==
  ASSUME NEW sy \in SystemType, NEW P
  PROVE  sy.trans \subseteq AbsTrans(sy, P)
BY DEF SystemType, AbsTrans, Agree

\* A frame contains the frames below it.
LEMMA FramesGrow ==
  ASSUME frontier \in Nat, NEW k \in Nat, NEW j \in Nat, j <= k
  PROVE  F(j) \subseteq F(k)
BY DEF F, FrameStates

\* Frames are sets of good states that satisfy their clauses.
LEMMA FrameMember ==
  ASSUME NEW k \in Nat, NEW s \in F(k)
  PROVE  /\ s \in States /\ s \notin sys.bad
         /\ k = 0 => s \in sys.init
         /\ \A j \in 0..frontier : j >= k => \A c \in asserted[j] : s \notin Cube(c)
BY DEF F, FrameStates

\* The stored clauses describe the frames the solver uses.
LEMMA StoredFrames ==
  ASSUME TypeOK, LabelsInv, NEW k \in 1..frontier
  PROVE  FrameTerm(k) = F(k)
<1>1. ASSUME NEW s \in F(k) PROVE s \in FrameTerm(k)
  BY <1>1 DEF F, FrameTerm, FrameStates, LabelsInv, TypeOK
<1>2. ASSUME NEW s \in FrameTerm(k) PROVE s \in F(k)
  <2>1. s \in States /\ s \notin sys.bad
    BY <1>2 DEF FrameTerm, FrameStates
  <2>2. ASSUME NEW j \in 0..frontier, j >= k, NEW c \in asserted[j]
        PROVE  s \notin Cube(c)
    <3>1. PICK h \in j..frontier : \E d \in frames[h] : d \subseteq c
      BY <2>2 DEF LabelsInv
    <3>2. PICK d \in frames[h] : d \subseteq c
      BY <3>1
    <3>3. s \notin Cube(d)
      BY <1>2, <2>2, <3>1, <3>2 DEF FrameTerm, FrameStates, TypeOK
    <3>4. QED  BY <3>2, <3>3, CubeAntitone
  <2>3. QED  BY <2>1, <2>2 DEF F, FrameStates
<1>3. QED  BY <1>1, <1>2

\* Once the base case has been checked, every frame contains the initial
\* states.
LEMMA InitInFrames ==
  ASSUME TypeOK, FramesSound, SafeBelowInv, LabelsInv, reachedK >= 1, NEW k \in Nat
  PROVE  sys.init \subseteq F(k)
<1>1. ASSUME NEW s \in sys.init, NEW j \in 0..frontier, NEW c \in asserted[j]
      PROVE  s \notin Cube(c)
  <2>1. j \in 1..frontier
    BY <1>1 DEF LabelsInv, TypeOK
  <2>2. QED  BY <1>1, <2>1 DEF FramesSound, IntersectsInit
<1>2. sys.init \subseteq States
  BY SystemsAssumption DEF TypeOK, SystemType
<1>3. sys.init \cap sys.bad = {}
  BY DEF SafeBelowInv, TypeOK
<1>4. QED  BY <1>1, <1>2, <1>3 DEF F, FrameStates

\* A step from frame k - 1 lands in frame k: always while blocking or without
\* a signal, and below the last frame in any case.
LEMMA Consecution ==
  ASSUME TypeOK, FramesSound, SafeBelowInv, reachedK >= 1,
         NEW k \in 1..frontier, ~terminate \/ pc \in Blocking \/ k < frontier,
         NEW e \in trans, e[1] \in F(k - 1)
  PROVE  e[2] \in F(k)
<1>1. e[2] \in States
  BY DEF TypeOK
<1>2. e[2] \notin sys.bad
  <2>1. k - 1 \in 0..frontier - 1 /\ (k - 1 = frontier - 1 => k = frontier)
    BY DEF TypeOK
  <2>2. k < frontier => k - 1 # frontier - 1
    BY DEF TypeOK
  <2>3. ~Steps(F(k - 1), sys.bad)
    BY <2>1, <2>2 DEF SafeBelowInv
  <2>4. QED  BY <2>3 DEF Steps
<1>3. ASSUME NEW j \in 0..frontier, j >= k, NEW c \in asserted[j]
      PROVE  e[2] \notin Cube(c)
  <2>1. e[1] \in F(j - 1)
    BY <1>3, FramesGrow DEF TypeOK
  <2>2. QED  BY <1>3, <2>1 DEF FramesSound, Steps
<1>4. QED  BY <1>1, <1>2, <1>3 DEF F, FrameStates

-----------------------------------------------------------------------------
(* How one step may change the frames.                                     *)

\* What a flavour may put in place of the model s of F[k-1] /\ -c /\ T /\ c': a
\* cube over the predicates, of s and states they do not tell from s, or, where
\* it need not meet the initial states and the option says so, of states that
\* step into c.
Substitutes(k, c, s) ==
  { p \in SUBSET Lits(preds) :
      \/ s \in Cube(p) /\ \A u \in Cube(p) : Agree(preds, s, u)
      \/ PreGen /\ k # 1 /\ \A u \in Cube(p) : Steps({u}, Cube(c)) }

\* What it may learn from a goal that is blocked: a cube over the predicates
\* that covers the goal, and excludes the initial states where the goal does.
Generalizations(k, c) ==
  { d \in SUBSET Lits(preds) :
      /\ Cube(c) \subseteq Cube(d)
      /\ RelInd(k, d)
      /\ IntersectsInit(d) => IntersectsInit(c) }

\* The steps that ask for a model or generalise, in any flavour.
SomeInitStepsIntoBad ==
  /\ InLoop
  /\ i > reachedK /\ reachedK < 1
  /\ reachedK < 0 => ~IntersectsInit(BadCube)
  /\ \E s \in sys.init :
       /\ Steps({s}, sys.bad)
       /\ \E c \in Cubes : /\ \A u \in Cube(c) : Agree(preds, s, u)
                          /\ cex' = <<c, BadCube>>
  /\ reachedK' = 0
  /\ pc' = "refine"
  /\ UNCHANGED <<sys, preds, trans, frameVars, bound, i, blockVars, propVars,
                 result, invar, terminate>>

SomeReachesBadGoal ==
  /\ pc = "blocking"
  /\ \E s \in Models(frontier + 1, BadCube) :
       \E c \in Substitutes(frontier + 1, BadCube, s) :
         goals' = {[idx |-> frontier, trace |-> <<c>>]}
  /\ pc' = "goal"
  /\ UNCHANGED <<sys, preds, trans, frameVars, callVars, cur, propVars,
                 verdictVars, terminate>>

SomeGoalBlocked(g) ==
  /\ Handle(g)
  /\ g.idx > 0
  /\ goals' = goals \ {g}
  /\ \E c \in Generalizations(g.idx, Target(g)) :
       cur' = [trace |-> g.trace, cube |-> c, idx |-> g.idx, needed |-> {}]
  /\ pc' \in {"indgen", "highest"}
  /\ UNCHANGED <<sys, preds, trans, frameVars, callVars, propVars,
                 verdictVars, terminate>>

SomeGoalPredecessor(g) ==
  /\ Handle(g)
  /\ g.idx > 0
  /\ \E s \in Models(g.idx, Target(g)) :
       \E c \in Substitutes(g.idx, Target(g), s) :
         goals' = goals \cup {[idx |-> g.idx - 1, trace |-> <<c>> \o g.trace]}
  /\ UNCHANGED <<sys, preds, trans, frameVars, callVars, pc, cur, propVars,
                 verdictVars, terminate>>

\* The steps that are IC3Base's in every flavour.
CommonStep ==
  \/ LoopExit \/ StepCovered \/ InitIsBad \/ StepBaseHolds \/ EnterBlockAll
  \/ BlockedAll \/ TerminateBlocking
  \/ \E g \in goals : GoalInitial(g) \/ GoalAlreadyBlocked(g)
  \/ \E l \in cur.cube : DropLiteral(l) \/ KeepLiteral(l)
  \/ GeneralizationDone \/ PushCollateral \/ LearnClause
  \/ \E c \in todo : PropagateClause(c) \/ KeepClause(c)
  \/ FixedPoint \/ NextFrame \/ PropagationDone
  \/ ReturnFalse \/ (pc = "refine" /\ ReturnUnknown) \/ Environment

\* The steps the flavours share, each with its models and generalisations.
SharedNext ==
  \/ CommonStep \/ SomeInitStepsIntoBad \/ SomeReachesBadGoal
  \/ \E g \in goals : SomeGoalBlocked(g) \/ SomeGoalPredecessor(g)

\* Only four steps touch the frames; none of the shared ones touches the
\* system or the predicates, takes the flag back or loses depth.
LEMMA FrameCases ==
  ASSUME TypeOK, [SharedNext]_vars
  PROVE  /\ UNCHANGED <<sys, preds, trans>>
         /\ terminate => terminate'
         /\ reachedK' >= reachedK
         /\ \/ UNCHANGED frameVars
            \/ StartPropagation
            \/ pc = "highest" /\ LearnClause
            \/ \E c \in todo : PropagateClause(c)
            \/ PropagationDone
<1>1. CASE UNCHANGED vars
  BY <1>1 DEF vars, frameVars, callVars, TypeOK
<1>2. CASE Environment
  BY <1>2 DEF Environment, CheckUntil, Signal, frameVars, callVars, TypeOK
<1>3. CASE ReturnFalse \/ ReturnUnknown \/ LoopExit \/ StepCovered
  BY <1>3 DEF ReturnFalse, ReturnUnknown, LoopExit, StepCovered, frameVars,
              callVars, TypeOK
<1>4. CASE InitIsBad \/ SomeInitStepsIntoBad \/ StepBaseHolds \/ EnterBlockAll
  BY <1>4 DEF InitIsBad, SomeInitStepsIntoBad, StepBaseHolds, EnterBlockAll,
              frameVars, callVars, TypeOK
<1>5. CASE SomeReachesBadGoal \/ BlockedAll \/ TerminateBlocking
  BY <1>5 DEF SomeReachesBadGoal, BlockedAll, TerminateBlocking, StartPropagation,
              frameVars, callVars, TypeOK
<1>6. ASSUME NEW g \in goals, GoalInitial(g) \/ GoalAlreadyBlocked(g)
                               \/ SomeGoalBlocked(g) \/ SomeGoalPredecessor(g)
      PROVE  UNCHANGED <<sys, preds, trans, terminate, frameVars, callVars>>
  BY <1>6 DEF GoalInitial, GoalAlreadyBlocked, SomeGoalBlocked, SomeGoalPredecessor
<1>7. ASSUME NEW l \in cur.cube, DropLiteral(l) \/ KeepLiteral(l)
      PROVE  UNCHANGED <<sys, preds, trans, terminate, frameVars, callVars>>
  BY <1>7 DEF DropLiteral, KeepLiteral
<1>8. CASE GeneralizationDone \/ PushCollateral
  <2>1. UNCHANGED <<sys, preds, trans, frameVars, callVars, terminate>>
    BY <1>8 DEF GeneralizationDone, PushCollateral
  <2>2. QED  BY <2>1 DEF callVars, TypeOK
<1>9. CASE LearnClause
  <2>1. /\ pc = "highest"
        /\ UNCHANGED <<sys, preds, trans, reachedK, terminate>>
    BY <1>9 DEF LearnClause, callVars
  <2>2. QED  BY <1>9, <2>1 DEF TypeOK
<1>10. ASSUME NEW c \in todo, PropagateClause(c) \/ KeepClause(c)
      PROVE  /\ UNCHANGED <<sys, preds, trans, terminate, reachedK>>
             /\ PropagateClause(c) \/ UNCHANGED frameVars
  BY <1>10 DEF PropagateClause, KeepClause, callVars
<1>11. CASE FixedPoint \/ NextFrame \/ PropagationDone
  BY <1>11 DEF FixedPoint, NextFrame, PropagationDone, AfterReset, frameVars, callVars, TypeOK
<1>12. QED
  BY <1>1, <1>2, <1>3, <1>4, <1>5, <1>6, <1>7, <1>8, <1>9, <1>10, <1>11
  DEF SharedNext, CommonStep, callVars, TypeOK

\* If every clause stays implied at its frame or above, frames shrink.
LEMMA FramesShrink ==
  ASSUME frontier \in Nat, frontier' \in Nat, frontier <= frontier', sys' = sys,
         \A j \in 0..frontier : \A c \in asserted[j] :
           \E h \in j..frontier' : \E d \in asserted'[h] : d \subseteq c,
         NEW k \in Nat
  PROVE  F(k)' \subseteq F(k)
<1> SUFFICES ASSUME NEW s \in F(k)' PROVE s \in F(k)
  OBVIOUS
<1>1. ASSUME NEW j \in 0..frontier, j >= k, NEW c \in asserted[j]
      PROVE  s \notin Cube(c)
  <2>1. PICK h \in j..frontier' : \E d \in asserted'[h] : d \subseteq c
    BY <1>1
  <2>2. PICK d \in asserted'[h] : d \subseteq c
    BY <2>1
  <2>3. s \notin Cube(d)
    BY <1>1, <2>1, <2>2 DEF F, FrameStates
  <2>4. QED  BY <2>2, <2>3, CubeAntitone
<1>2. QED  BY <1>1 DEF F, FrameStates

\* A core of a cube that excludes the initial states is a cube that does, and
\* is inductive at the same frame.
LEMMA CoreIsInductive ==
  ASSUME NEW k, NEW c, NEW g \in Cores(k, c), ~IntersectsInit(c)
  PROVE  /\ g \subseteq c
         /\ ~IntersectsInit(g)
         /\ RelInd(k, g)
<1>1. Cube(c) \subseteq Cube(g)
  BY CubeAntitone DEF Cores
<1>2. QED  BY <1>1 DEF Cores, RelInd, Steps

\* Clauses that were held before or are inductive now make sound frames.
LEMMA SoundFrames ==
  ASSUME TypeOK, FramesSound, sys' = sys, trans' = trans, frontier' \in Nat,
         \A k \in Nat : F(k)' \subseteq F(k),
         \A k \in 1..frontier' : \A c \in asserted'[k] :
           \/ k \in 1..frontier /\ c \in asserted[k]
           \/ k \in 1..frontier /\ ~IntersectsInit(c) /\ RelInd(k, c)
  PROVE  FramesSound'
<1> SUFFICES ASSUME NEW k \in 1..frontier', NEW c \in asserted'[k]
             PROVE  ~IntersectsInit(c)' /\ ~Steps(F(k - 1), Cube(c))'
  BY DEF FramesSound
<1>1. ~IntersectsInit(c)
  BY DEF FramesSound
<1>2. F(k - 1)' \subseteq F(k - 1)
  OBVIOUS
<1>3. ASSUME NEW s \in F(k - 1)' PROVE s \notin Cube(c)
  BY <1>3 DEF F, FrameStates
<1>4. ~Steps(F(k - 1)', Cube(c))
  <2>1. CASE c \in asserted[k] /\ k \in 1..frontier
    BY <1>2, <2>1 DEF FramesSound, Steps
  <2>2. CASE RelInd(k, c)
    BY <1>2, <1>3, <2>2 DEF RelInd, Steps
  <2>3. QED  BY <2>1, <2>2
<1>5. QED  BY <1>1, <1>4 DEF IntersectsInit, Steps

-----------------------------------------------------------------------------
(* Types.                                                                  *)

\* The cube that replaces a model is over the predicates.
LEMMA PredecessorType ==
  ASSUME preds \in SUBSET SUBSET States,
         NEW k, NEW c, NEW s, NEW p \in Substitutes(k, c, s)
  PROVE  /\ p \in Cubes
         /\ p \subseteq Lits(preds)
<1>1. Lits(preds) \subseteq SUBSET States
  BY DEF Lits, Neg
<1>2. QED  BY <1>1 DEF Cubes, Substitutes

\* A bad state, and the cube of the property literal, are what they should be.
LEMMA BadCubeType ==
  ASSUME TypeOK
  PROVE  /\ sys \in SystemType
         /\ BadCube \in Cubes
         /\ Cube(BadCube) = sys.bad
<1>1. sys \in SystemType
  BY SystemsAssumption DEF TypeOK
<1>2. sys.bad \subseteq States
  BY <1>1 DEF SystemType
<1>3. QED  BY <1>1, <1>2 DEF BadCube, Cubes, Cube

\* The types of the frames after the steps that change them.
LEMMA FrameTypes ==
  ASSUME TypeOK, PhaseInv,
         \/ PushFrame
         \/ \E k \in 1..frontier, c \in Cubes : ConstrainFrame(k, c)
         \/ \E c \in todo : PropagateClause(c)
         \/ PropagationDone
  PROVE  /\ frontier' \in Nat \ {0}
         /\ frames' \in [0..frontier' -> SUBSET Cubes]
         /\ asserted' \in [0..frontier' -> SUBSET Cubes]
<1>1. CASE PushFrame
  BY <1>1 DEF PushFrame, TypeOK
<1>2. ASSUME NEW k \in 1..frontier, NEW c \in Cubes, ConstrainFrame(k, c)
      PROVE  /\ frontier' \in Nat \ {0}
             /\ frames' \in [0..frontier' -> SUBSET Cubes]
             /\ asserted' \in [0..frontier' -> SUBSET Cubes]
  BY <1>2 DEF ConstrainFrame, TypeOK
<1>3. ASSUME NEW c \in todo, PropagateClause(c)
      PROVE  /\ frontier' \in Nat \ {0}
             /\ frames' \in [0..frontier' -> SUBSET Cubes]
             /\ asserted' \in [0..frontier' -> SUBSET Cubes]
  <2>1. PICK g \in Cores(at + 1, c) :
          /\ frames' = [frames EXCEPT ![at] = @ \ {c}, ![at + 1] = @ \cup {g}]
          /\ asserted' = [asserted EXCEPT ![at + 1] = @ \cup {g}]
    BY <1>3 DEF PropagateClause
  <2>2. g \in Cubes /\ frontier' = frontier
    BY <1>3 DEF PropagateClause, Cores, TypeOK, Cubes
  <2>3. QED  BY <2>1, <2>2 DEF TypeOK
<1>4. CASE PropagationDone
  BY <1>4 DEF PropagationDone, AfterReset, TypeOK
<1>5. QED  BY <1>1, <1>2, <1>3, <1>4

\* Every shared step keeps the types.
LEMMA TypeStep ==
  ASSUME TypeOK, PhaseInv, GoalsInv, CollateralInv, [SharedNext]_vars
  PROVE  TypeOK'
<1>1. CASE UNCHANGED vars
  BY <1>1 DEF vars, frameVars, callVars, blockVars, propVars, verdictVars, TypeOK
<1>2. CASE Environment
  <2>1. ASSUME NEW k \in Bounds, CheckUntil(k)
        PROVE  TypeOK'
    BY <2>1, BoundsAssumption
    DEF CheckUntil, frameVars, blockVars, propVars, TypeOK, Phases
  <2>2. CASE Signal
    <3>1. terminate' \in BOOLEAN
      BY <2>2 DEF Signal
    <3>2. QED
      BY <2>2, <3>1
      DEF Signal, frameVars, callVars, blockVars, propVars, verdictVars, TypeOK,
          Phases
  <2>3. QED  BY <1>2, <2>1, <2>2 DEF Environment
<1>3. CASE ReturnFalse \/ ReturnUnknown \/ LoopExit \/ StepCovered
  BY <1>3
  DEF ReturnFalse, ReturnUnknown, LoopExit, StepCovered, frameVars, callVars,
      blockVars, propVars, verdictVars, TypeOK, Phases
<1>4. CASE InitIsBad
  BY <1>4, BadCubeType
  DEF InitIsBad, frameVars, callVars, blockVars, propVars, verdictVars, TypeOK,
      Phases
<1>5. CASE SomeInitStepsIntoBad
  <2>1. cex' \in Seq(Cubes)
    BY <1>5, BadCubeType DEF SomeInitStepsIntoBad
  <2>2. QED
    BY <1>5, <2>1
    DEF SomeInitStepsIntoBad, frameVars, callVars, blockVars, propVars,
        verdictVars, TypeOK, Phases
<1>6. CASE StepBaseHolds \/ EnterBlockAll
  BY <1>6
  DEF StepBaseHolds, EnterBlockAll, frameVars, callVars, blockVars, propVars,
      verdictVars, TypeOK, Phases
<1>7. CASE SomeReachesBadGoal
  <2>1. PICK s \in Models(frontier + 1, BadCube) :
          \E c \in Substitutes(frontier + 1, BadCube, s) :
            goals' = {[idx |-> frontier, trace |-> <<c>>]}
    BY <1>7 DEF SomeReachesBadGoal
  <2>2. PICK c \in Substitutes(frontier + 1, BadCube, s) :
          goals' = {[idx |-> frontier, trace |-> <<c>>]}
    BY <2>1
  <2>3. s \in States
    BY <2>1 DEF Models, F, FrameStates
  <2>4. c \in Cubes
    BY <2>3, PredecessorType DEF TypeOK
  <2>5. goals' \in SUBSET GoalType
    BY <2>2, <2>4 DEF GoalType, TypeOK
  <2>6. QED
    BY <1>7, <2>5
    DEF SomeReachesBadGoal, frameVars, callVars, propVars, verdictVars, TypeOK, Phases
<1>8. CASE StartPropagation
  <2>1. /\ at' \in Nat /\ todo' \in SUBSET Cubes /\ goals' \in SUBSET GoalType
        /\ pc' \in Phases
    BY <1>8 DEF StartPropagation, TypeOK, Phases
  <2>2. PushFrame
    BY <1>8 DEF StartPropagation
  <2>3. QED
    BY <1>8, <2>1, <2>2, FrameTypes
    DEF StartPropagation, callVars, verdictVars, TypeOK
<1>9. ASSUME NEW g \in goals, GoalInitial(g)
      PROVE  TypeOK'
  <2>1. cex' \in Seq(Cubes)
    BY <1>9, BadCubeType DEF GoalInitial, TypeOK, GoalType
  <2>2. QED
    BY <1>9, <2>1
    DEF GoalInitial, frameVars, callVars, propVars, verdictVars, TypeOK, Phases
<1>10. ASSUME NEW g \in goals, GoalAlreadyBlocked(g)
       PROVE  TypeOK'
  BY <1>10
  DEF GoalAlreadyBlocked, QueueLoop, frameVars, callVars, propVars, verdictVars,
      TypeOK, Phases
<1>11. ASSUME NEW g \in goals, SomeGoalBlocked(g)
       PROVE  TypeOK'
  <2>1. PICK c \in Generalizations(g.idx, Target(g)) :
          cur' = [trace |-> g.trace, cube |-> c, idx |-> g.idx, needed |-> {}]
    BY <1>11 DEF SomeGoalBlocked
  <2>2. c \in Cubes
    <3>1. c \in SUBSET Lits(preds)
      BY DEF Generalizations
    <3>2. Lits(preds) \subseteq SUBSET States
      BY DEF Lits, Neg, TypeOK
    <3>3. QED  BY <3>1, <3>2 DEF Cubes
  <2>3. cur' \in [trace : Seq(Cubes), cube : Cubes, idx : Nat, needed : Cubes]
    <3>1. g.trace \in Seq(Cubes) /\ g.idx \in Nat /\ {} \in Cubes
      BY DEF TypeOK, GoalType, Cubes
    <3>2. QED  BY <2>1, <2>2, <3>1
  <2>4. pc' \in Phases /\ goals' \in SUBSET GoalType
    BY <1>11 DEF SomeGoalBlocked, TypeOK, Phases
  <2>5. UNCHANGED <<sys, preds, trans, frameVars, callVars, propVars, verdictVars,
                    terminate>>
    BY <1>11 DEF SomeGoalBlocked
  <2>6. QED
    BY <2>3, <2>4, <2>5 DEF frameVars, callVars, propVars, verdictVars, TypeOK
<1>12. ASSUME NEW g \in goals, SomeGoalPredecessor(g)
       PROVE  TypeOK'
  <2>1. PICK s \in Models(g.idx, Target(g)) :
          \E c \in Substitutes(g.idx, Target(g), s) :
            goals' = goals \cup {[idx |-> g.idx - 1, trace |-> <<c>> \o g.trace]}
    BY <1>12 DEF SomeGoalPredecessor
  <2>2. PICK c \in Substitutes(g.idx, Target(g), s) :
          goals' = goals \cup {[idx |-> g.idx - 1, trace |-> <<c>> \o g.trace]}
    BY <2>1
  <2>3. s \in States
    BY <2>1 DEF Models, F, FrameStates
  <2>4. c \in Cubes
    BY <2>3, PredecessorType DEF TypeOK
  <2>5. g.idx - 1 \in Nat /\ g.trace \in Seq(Cubes)
    BY <1>12 DEF SomeGoalPredecessor, TypeOK, GoalType
  <2>6. <<c>> \o g.trace \in Seq(Cubes)
    BY <2>4, <2>5
  <2>7. goals' \in SUBSET GoalType
    <3>1. [idx |-> g.idx - 1, trace |-> <<c>> \o g.trace] \in GoalType
      BY <2>5, <2>6 DEF GoalType
    <3>2. QED  BY <2>2, <3>1 DEF TypeOK
  <2>8. UNCHANGED <<sys, preds, trans, frameVars, callVars, pc, cur, propVars,
                    verdictVars, terminate>>
    BY <1>12 DEF SomeGoalPredecessor
  <2>9. QED
    BY <2>7, <2>8 DEF frameVars, callVars, propVars, verdictVars, TypeOK, Phases
<1>13. ASSUME NEW l \in cur.cube, DropLiteral(l) \/ KeepLiteral(l)
       PROVE  TypeOK'
  <2>1. CASE DropLiteral(l)
    <3>1. PICK c \in Cores(cur.idx, cur.cube \ {l}) : cur' = [cur EXCEPT !.cube = c]
      BY <2>1 DEF DropLiteral
    <3>2. c \in Cubes
      BY <3>1 DEF Cores, Cubes, TypeOK
    <3>3. cur' \in [trace : Seq(Cubes), cube : Cubes, idx : Nat, needed : Cubes]
      BY <3>1, <3>2 DEF TypeOK
    <3>4. UNCHANGED <<sys, preds, trans, frameVars, callVars, pc, goals,
                      propVars, verdictVars, terminate>>
      BY <2>1 DEF DropLiteral
    <3>5. QED
      BY <3>3, <3>4 DEF frameVars, callVars, propVars, verdictVars, TypeOK, Phases
  <2>2. CASE KeepLiteral(l)
    <3>1. cur' \in [trace : Seq(Cubes), cube : Cubes, idx : Nat, needed : Cubes]
      <4>1. cur.needed \cup {l} \in Cubes
        BY DEF TypeOK, Cubes
      <4>2. cur' = [cur EXCEPT !.needed = cur.needed \cup {l}]
        BY <2>2 DEF KeepLiteral
      <4>3. QED  BY <4>1, <4>2 DEF TypeOK
    <3>2. UNCHANGED <<sys, preds, trans, frameVars, callVars, pc, goals,
                      propVars, verdictVars, terminate>>
      BY <2>2 DEF KeepLiteral
    <3>3. QED
      BY <3>1, <3>2 DEF frameVars, callVars, propVars, verdictVars, TypeOK, Phases
  <2>3. QED  BY <1>13, <2>1, <2>2
<1>14. CASE GeneralizationDone
  BY <1>14
  DEF GeneralizationDone, frameVars, callVars, blockVars, propVars, verdictVars,
      TypeOK, Phases
<1>15. CASE PushCollateral
  <2>1. PICK c \in Cores(cur.idx + 1, cur.cube) :
          cur' = [cur EXCEPT !.cube = c, !.idx = @ + 1]
    BY <1>15 DEF PushCollateral
  <2>2. c \in Cubes
    BY <2>1 DEF Cores, Cubes, TypeOK
  <2>3. cur' \in [trace : Seq(Cubes), cube : Cubes, idx : Nat, needed : Cubes]
    <3>1. cur.idx + 1 \in Nat
      BY DEF TypeOK
    <3>2. cur' = [cur EXCEPT !.cube = c, !.idx = cur.idx + 1]
      BY <2>1
    <3>3. QED  BY <2>2, <3>1, <3>2 DEF TypeOK
  <2>4. UNCHANGED <<sys, preds, trans, frameVars, callVars, pc, goals, propVars,
                    verdictVars, terminate>>
    BY <1>15 DEF PushCollateral
  <2>5. QED
    BY <2>3, <2>4 DEF frameVars, callVars, propVars, verdictVars, TypeOK, Phases
<1>16. CASE LearnClause
  <2>1. cur.idx \in 1..frontier /\ cur.cube \in Cubes
    BY <1>16 DEF LearnClause, CollateralInv, TypeOK
  <2>2. ConstrainFrame(cur.idx, cur.cube)
    BY <1>16 DEF LearnClause
  <2>3. goals' \in SUBSET GoalType
    BY <1>16 DEF LearnClause, TypeOK, GoalType
  <2>4. cur' \in [trace : Seq(Cubes), cube : Cubes, idx : Nat, needed : Cubes]
    <3>1. {} \in Cubes /\ <<>> \in Seq(Cubes)
      BY DEF Cubes
    <3>2. QED  BY <1>16, <3>1 DEF LearnClause, NoCur
  <2>5. pc' \in Phases
    BY <1>16 DEF LearnClause, QueueLoop, Phases
  <2>6. QED
    BY <1>16, <2>1, <2>2, <2>3, <2>4, <2>5, FrameTypes
    DEF LearnClause, callVars, propVars, verdictVars, TypeOK
<1>17. ASSUME NEW c \in todo, PropagateClause(c) \/ KeepClause(c)
       PROVE  TypeOK'
  <2>1. CASE PropagateClause(c)
    BY <2>1, FrameTypes
    DEF PropagateClause, callVars, blockVars, verdictVars, TypeOK
  <2>2. CASE KeepClause(c)
    BY <2>2
    DEF KeepClause, frameVars, callVars, blockVars, verdictVars, TypeOK
  <2>3. QED  BY <1>17, <2>1, <2>2
<1>18. CASE FixedPoint
  <2>1. invar' \in SUBSET States
    BY <1>18, BadCubeType DEF FixedPoint, FrameTerm, FrameStates, SystemType
  <2>2. QED
    BY <1>18, <2>1
    DEF FixedPoint, frameVars, callVars, blockVars, propVars, TypeOK, Phases
<1>19. CASE NextFrame
  <2>1. at' \in 0..frontier /\ todo' = frames[at']
    BY <1>19 DEF NextFrame, TypeOK
  <2>2. QED
    BY <1>19, <2>1
    DEF NextFrame, frameVars, callVars, blockVars, verdictVars, TypeOK
<1>20. CASE PropagationDone
  BY <1>20, FrameTypes
  DEF PropagationDone, AfterReset, blockVars, propVars, verdictVars, TypeOK, Phases
<1>21. QED
  BY <1>1, <1>2, <1>3, <1>4, <1>5, <1>6, <1>7, <1>8, <1>9, <1>10, <1>11, <1>12,
     <1>13, <1>14, <1>15, <1>16, <1>17, <1>18, <1>19, <1>20
  DEF SharedNext, CommonStep, BlockedAll, TerminateBlocking

-----------------------------------------------------------------------------
(* Frames.                                                                 *)

\* What a step does to the clauses of the solver: each stays implied at its
\* frame or above, and each new one is inductive relative to the frame below.
ClausesCarryOver ==
  /\ frontier' \in Nat /\ frontier <= frontier'
  /\ \A j \in 0..frontier : \A c \in asserted[j] :
       \E h \in j..frontier' : \E d \in asserted'[h] : d \subseteq c
  /\ asserted'[0] = {}

NewClausesInductive ==
  \A k \in 1..frontier' : \A c \in asserted'[k] :
    /\ k \in 1..frontier
    /\ \/ c \in asserted[k]
       \/ ~IntersectsInit(c) /\ RelInd(k, c) /\ c \subseteq Lits(preds)

LEMMA ClauseStep ==
  ASSUME IInv, [SharedNext]_vars
  PROVE  ClausesCarryOver /\ NewClausesInductive
<1> USE DEF IInv
<1>1. CASE UNCHANGED frameVars
  BY <1>1 DEF frameVars, ClausesCarryOver, NewClausesInductive, TypeOK, LabelsInv
<1>2. CASE StartPropagation
  <2>1. /\ frontier' = frontier + 1
        /\ asserted' = [k \in 0..frontier + 1 |->
                          IF k > frontier THEN {} ELSE asserted[k]]
    BY <1>2 DEF StartPropagation, PushFrame
  <2>2. \A j \in 0..frontier : asserted'[j] = asserted[j]
    BY <2>1 DEF TypeOK
  <2>3. asserted'[frontier + 1] = {}
    BY <2>1 DEF TypeOK
  <2>4. ClausesCarryOver
    BY <2>1, <2>2 DEF ClausesCarryOver, TypeOK, LabelsInv
  <2>5. NewClausesInductive
    BY <2>1, <2>2, <2>3 DEF NewClausesInductive, TypeOK
  <2>6. QED  BY <2>4, <2>5
<1>3. CASE pc = "highest" /\ LearnClause
  <2>1. /\ frontier' = frontier
        /\ asserted' = [asserted EXCEPT ![cur.idx] = @ \cup {cur.cube}]
    BY <1>3 DEF LearnClause, ConstrainFrame
  <2>2. /\ cur.idx \in 1..frontier
        /\ ~IntersectsInit(cur.cube) /\ RelInd(cur.idx, cur.cube)
        /\ cur.cube \subseteq Lits(preds)
    BY <1>3 DEF CollateralInv
  <2>3. ClausesCarryOver
    BY <2>1, <2>2 DEF ClausesCarryOver, TypeOK, LabelsInv
  <2>4. NewClausesInductive
    BY <2>1, <2>2 DEF NewClausesInductive, TypeOK
  <2>5. QED  BY <2>3, <2>4
<1>4. ASSUME NEW c \in todo, PropagateClause(c)
      PROVE  ClausesCarryOver /\ NewClausesInductive
  <2>1. /\ at \in 1..frontier - 1
        /\ c \in asserted[at]
        /\ frontier' = frontier
    BY <1>4 DEF PropagateClause, PhaseInv, LabelsInv, TypeOK
  <2>2. PICK g \in Cores(at + 1, c) :
          asserted' = [asserted EXCEPT ![at + 1] = @ \cup {g}]
    BY <1>4 DEF PropagateClause
  <2>3. ~IntersectsInit(c) /\ c \subseteq Lits(preds)
    BY <2>1 DEF FramesSound, AtomsInv, TypeOK
  <2>4. ~IntersectsInit(g) /\ RelInd(at + 1, g) /\ g \subseteq Lits(preds)
    BY <2>2, <2>3, CoreIsInductive
  <2>5. ClausesCarryOver
    BY <2>1, <2>2 DEF ClausesCarryOver, TypeOK, LabelsInv
  <2>6. NewClausesInductive
    BY <2>1, <2>2, <2>4 DEF NewClausesInductive, TypeOK
  <2>7. QED  BY <2>5, <2>6
<1>5. CASE PropagationDone
  <2>1. frontier' = frontier /\ (asserted' = frames \/ asserted' = asserted)
    BY <1>5 DEF PropagationDone, AfterReset
  <2>2. ClausesCarryOver
    BY <2>1 DEF ClausesCarryOver, TypeOK, LabelsInv
  <2>3. NewClausesInductive
    BY <2>1 DEF NewClausesInductive, TypeOK, LabelsInv
  <2>4. QED  BY <2>2, <2>3
<1>6. QED  BY <1>1, <1>2, <1>3, <1>4, <1>5, FrameCases

\* Every shared step shrinks the frames, and never gives depth back.
LEMMA FramesStep ==
  ASSUME IInv, [SharedNext]_vars
  PROVE  /\ \A k \in Nat : F(k)' \subseteq F(k)
         /\ reachedK' >= reachedK
         /\ FramesSound'
         /\ AtomsInv'
<1>1. ClausesCarryOver /\ NewClausesInductive
  BY ClauseStep
<1>2. UNCHANGED <<sys, preds, trans>> /\ reachedK' >= reachedK
  BY FrameCases DEF IInv
<1>3. \A k \in Nat : F(k)' \subseteq F(k)
  BY <1>1, <1>2, FramesShrink DEF ClausesCarryOver, IInv, TypeOK
<1>4. FramesSound'
  BY <1>1, <1>2, <1>3, SoundFrames DEF ClausesCarryOver, NewClausesInductive, IInv
<1>5. AtomsInv'
  BY <1>1, <1>2 DEF NewClausesInductive, AtomsInv, IInv
<1>6. QED  BY <1>2, <1>3, <1>4, <1>5

\* The stored clauses and the labels keep describing the same frames.
LEMMA LabelsStep ==
  ASSUME IInv, [SharedNext]_vars
  PROVE  LabelsInv'
<1> USE DEF IInv
<1>1. CASE UNCHANGED frameVars
  BY <1>1 DEF frameVars, LabelsInv
<1>2. CASE StartPropagation
  <2>1. /\ frontier' = frontier + 1
        /\ frames' = [k \in 0..frontier + 1 |->
                        IF k > frontier THEN {} ELSE frames[k]]
        /\ asserted' = [k \in 0..frontier + 1 |->
                          IF k > frontier THEN {} ELSE asserted[k]]
    BY <1>2 DEF StartPropagation, PushFrame
  <2>2. \A j \in 0..frontier : asserted'[j] = asserted[j] /\ frames'[j] = frames[j]
    BY <2>1 DEF TypeOK
  <2>3. asserted'[frontier + 1] = {} /\ frames'[frontier + 1] = {}
    BY <2>1 DEF TypeOK
  <2>4. frontier' = frontier + 1 /\ 0..frontier' = (0..frontier) \cup {frontier + 1}
    BY <2>1 DEF TypeOK
  <2>5. asserted'[0] = {}
    BY <2>2 DEF LabelsInv, TypeOK
  <2>6. \A k \in 0..frontier' : frames'[k] \subseteq asserted'[k]
    BY <2>2, <2>3, <2>4 DEF LabelsInv
  <2>7. ASSUME NEW k \in 0..frontier', NEW c \in asserted'[k]
        PROVE  \E j \in k..frontier' : \E d \in frames'[j] : d \subseteq c
    <3>1. k \in 0..frontier /\ c \in asserted[k]
      BY <2>2, <2>3, <2>4, <2>7
    <3>2. PICK j \in k..frontier : \E d \in frames[j] : d \subseteq c
      BY <3>1 DEF LabelsInv
    <3>3. j \in 0..frontier /\ j \in k..frontier'
      BY <3>1, <3>2, <2>4 DEF TypeOK
    <3>4. QED  BY <3>2, <3>3, <2>2
  <2>8. QED  BY <2>5, <2>6, <2>7 DEF LabelsInv
<1>3. CASE pc = "highest" /\ LearnClause
  <2> DEFINE k == cur.idx
             c == cur.cube
  <2>1. k \in 1..frontier
    BY <1>3 DEF CollateralInv
  <2>2. /\ frontier' = frontier
        /\ asserted' = [asserted EXCEPT ![k] = @ \cup {c}]
        /\ frames' = [j \in 0..frontier |->
                        LET kept == IF j \in 1..k THEN {d \in frames[j] : ~(c \subseteq d)}
                                                  ELSE frames[j]
                        IN  IF j = k THEN kept \cup {c} ELSE kept]
    BY <1>3 DEF LearnClause, ConstrainFrame
  <2>3. \A j \in 0..frontier :
          frames'[j] \subseteq frames[j] \cup (IF j = k THEN {c} ELSE {})
    BY <2>2
  <2>4. \A j \in 0..frontier : \A d \in frames[j] :
          d \in frames'[j] \/ (j <= k /\ c \subseteq d)
    BY <2>2
  <2>5. c \in frames'[k]
    BY <2>1, <2>2
  <2>6. \A j \in 0..frontier : asserted'[j] = asserted[j] \cup (IF j = k THEN {c} ELSE {})
    BY <2>2 DEF TypeOK
  <2>7. \A j \in 0..frontier : frames'[j] \subseteq asserted'[j]
    BY <2>3, <2>6 DEF LabelsInv
  <2>8. ASSUME NEW j \in 0..frontier, NEW e \in asserted'[j]
        PROVE  \E h \in j..frontier : \E d \in frames'[h] : d \subseteq e
    <3>1. CASE e \in asserted[j]
      <4>1. PICK h \in j..frontier : \E d \in frames[h] : d \subseteq e
        BY <3>1 DEF LabelsInv
      <4>2. PICK d \in frames[h] : d \subseteq e
        BY <4>1
      <4>3. CASE d \in frames'[h]
        BY <4>1, <4>2, <4>3
      <4>4. CASE h <= k /\ c \subseteq d
        BY <2>1, <2>5, <4>1, <4>2, <4>4 DEF TypeOK
      <4>5. QED  BY <2>4, <4>1, <4>2, <4>3, <4>4
    <3>2. CASE j = k /\ e = c
      BY <2>1, <2>5, <3>2
    <3>3. QED  BY <2>6, <2>8, <3>1, <3>2
  <2>9. asserted'[0] = {}
    BY <2>1, <2>6 DEF LabelsInv, TypeOK
  <2>10. frontier' = frontier
    BY <2>2
  <2>11. QED  BY <2>7, <2>8, <2>9, <2>10 DEF LabelsInv
<1>4. ASSUME NEW c \in todo, PropagateClause(c)
      PROVE  LabelsInv'
  <2>1. at \in 1..frontier - 1 /\ frontier' = frontier
    BY <1>4 DEF PropagateClause, PhaseInv
  <2>2. PICK g \in Cores(at + 1, c) :
          /\ frames' = [frames EXCEPT ![at] = @ \ {c}, ![at + 1] = @ \cup {g}]
          /\ asserted' = [asserted EXCEPT ![at + 1] = @ \cup {g}]
    BY <1>4 DEF PropagateClause
  <2>3. g \subseteq c
    BY <2>2 DEF Cores
  <2>4. \A j \in 0..frontier :
          /\ frames'[j] \subseteq frames[j] \cup (IF j = at + 1 THEN {g} ELSE {})
          /\ asserted'[j] = asserted[j] \cup (IF j = at + 1 THEN {g} ELSE {})
          /\ \A d \in frames[j] : d \in frames'[j] \/ (j = at /\ d = c)
    BY <2>1, <2>2 DEF TypeOK
  <2>5. g \in frames'[at + 1]
    BY <2>1, <2>2 DEF TypeOK
  <2>6. ASSUME NEW j \in 0..frontier, NEW e \in asserted'[j]
        PROVE  \E h \in j..frontier : \E d \in frames'[h] : d \subseteq e
    <3>1. CASE e \in asserted[j]
      <4>1. PICK h \in j..frontier : \E d \in frames[h] : d \subseteq e
        BY <3>1 DEF LabelsInv
      <4>2. PICK d \in frames[h] : d \subseteq e
        BY <4>1
      <4>3. CASE d \in frames'[h]
        BY <4>1, <4>2, <4>3
      <4>4. CASE h = at /\ d = c
        BY <2>1, <2>3, <2>5, <4>1, <4>2, <4>4 DEF TypeOK
      <4>5. QED  BY <2>4, <4>1, <4>2, <4>3, <4>4
    <3>2. CASE j = at + 1 /\ e = g
      BY <2>1, <2>5, <3>2
    <3>3. QED  BY <2>4, <2>6, <3>1, <3>2
  <2>7. asserted'[0] = {}
    BY <2>1, <2>4 DEF LabelsInv, TypeOK
  <2>8. \A j \in 0..frontier : frames'[j] \subseteq asserted'[j]
    BY <2>4 DEF LabelsInv
  <2>9. QED  BY <2>1, <2>6, <2>7, <2>8 DEF LabelsInv
<1>5. CASE PropagationDone
  BY <1>5 DEF PropagationDone, AfterReset, LabelsInv, TypeOK
<1>6. QED  BY <1>1, <1>2, <1>3, <1>4, <1>5, FrameCases

\* A step from F[k - 1] into a cube the source is not in is a model of the
\* relative induction query.
LEMMA StepIsModel ==
  ASSUME NEW k, NEW c, NEW e \in trans,
         e[1] \in F(k - 1) \ Cube(c), e[2] \in Cube(c)
  PROVE  e[1] \in Models(k, c)
<1>1. Steps({e[1]}, Cube(c))
  BY DEF Steps
<1> DEFINE X == F(k - 1) \ Cube(c)
           P(s) == Steps({s}, Cube(c))
<1>2. e[1] \in X /\ P(e[1])
  BY <1>1
<1> HIDE DEF X, P
<1>3. e[1] \in { s \in X : P(s) }
  BY <1>2
<1>4. QED  BY <1>3 DEF Models, X, P

-----------------------------------------------------------------------------
(* Depth and phases.                                                       *)

\* Which steps change the depth or the number of frames, and how the other
\* ones come into block_all.
LEMMA DepthCases ==
  ASSUME TypeOK, [SharedNext]_vars
  PROVE  \/ StepBaseHolds \/ SomeInitStepsIntoBad \/ BlockedAll \/ TerminateBlocking
         \/ PropagationDone
         \/ /\ UNCHANGED <<reachedK, frontier>>
            /\ pc' \in Blocking => pc \in Blocking \/ ~terminate'
            /\ pc' = "propagate" => pc = "propagate"
<1> DEFINE Other == /\ UNCHANGED <<reachedK, frontier>>
                    /\ pc' \in Blocking => pc \in Blocking \/ ~terminate'
                    /\ pc' = "propagate" => pc = "propagate"
<1>1. CASE UNCHANGED vars
  BY <1>1 DEF vars, frameVars, callVars
<1>2. ASSUME NEW k \in Bounds, CheckUntil(k)
      PROVE  Other
  BY <1>2 DEF CheckUntil, frameVars, Blocking
<1>3. CASE Signal
  BY <1>3 DEF Signal, frameVars, callVars
<1>4. CASE ReturnFalse \/ ReturnUnknown \/ LoopExit
  BY <1>4 DEF ReturnFalse, ReturnUnknown, LoopExit, frameVars, callVars, Blocking
<1>5. CASE InitIsBad \/ StepCovered
  BY <1>5 DEF InitIsBad, StepCovered, InLoop, frameVars, callVars, Blocking
<1>6. CASE EnterBlockAll
  <2>1. ~terminate /\ pc' = "blocking" /\ UNCHANGED <<reachedK, frontier, terminate>>
    BY <1>6 DEF EnterBlockAll, InLoop, frameVars, callVars
  <2>2. QED  BY <2>1
<1>7. CASE SomeReachesBadGoal
  BY <1>7 DEF SomeReachesBadGoal, frameVars, callVars, Blocking
<1>8. ASSUME NEW g \in goals, GoalInitial(g) \/ GoalAlreadyBlocked(g)
                               \/ SomeGoalBlocked(g) \/ SomeGoalPredecessor(g)
      PROVE  Other
  <2>1. pc = "goal" /\ pc' # "propagate" /\ UNCHANGED <<frameVars, callVars>>
    BY <1>8
    DEF GoalInitial, GoalAlreadyBlocked, SomeGoalBlocked, SomeGoalPredecessor, Handle,
        QueueLoop
  <2>2. QED  BY <2>1 DEF frameVars, callVars, Blocking
<1>9. ASSUME NEW l \in cur.cube, DropLiteral(l) \/ KeepLiteral(l)
      PROVE  Other
  <2>1. pc = "indgen" /\ pc' = pc /\ UNCHANGED <<frameVars, callVars>>
    BY <1>9 DEF DropLiteral, KeepLiteral
  <2>2. QED  BY <2>1 DEF frameVars, callVars, Blocking
<1>10. CASE GeneralizationDone \/ PushCollateral
  <2>1. pc \in {"indgen", "highest"} /\ pc' = "highest" /\ UNCHANGED <<frameVars, callVars>>
    BY <1>10 DEF GeneralizationDone, PushCollateral
  <2>2. QED  BY <2>1 DEF frameVars, callVars, Blocking
<1>11. CASE LearnClause
  <2>1. pc = "highest" /\ pc' # "propagate" /\ UNCHANGED <<reachedK, frontier>>
    BY <1>11 DEF LearnClause, ConstrainFrame, callVars, QueueLoop
  <2>2. QED  BY <2>1 DEF Blocking
<1>12. ASSUME NEW c \in todo, PropagateClause(c) \/ KeepClause(c)
       PROVE  Other
  <2>1. pc = "propagate" /\ pc' = pc /\ UNCHANGED <<reachedK, frontier>>
    BY <1>12 DEF PropagateClause, KeepClause, frameVars, callVars
  <2>2. QED  BY <2>1 DEF Blocking
<1>13. CASE FixedPoint \/ NextFrame
  <2>1. pc = "propagate" /\ pc' \in {"done", "propagate"} /\ UNCHANGED <<reachedK, frontier>>
    BY <1>13 DEF FixedPoint, NextFrame, frameVars, callVars
  <2>2. QED  BY <2>1 DEF Blocking
<1>14. QED
  BY <1>1, <1>2, <1>3, <1>4, <1>5, <1>6, <1>7, <1>8, <1>9, <1>10, <1>11, <1>12,
     <1>13
  DEF SharedNext, CommonStep, Environment

\* No frame below the frontier steps into bad.
LEMMA SafeBelowStep ==
  ASSUME IInv, [SharedNext]_vars
  PROVE  SafeBelowInv'
<1> USE DEF IInv
<1>1. /\ UNCHANGED <<sys, preds, trans>>
      /\ terminate => terminate'
      /\ \A k \in Nat : F(k)' \subseteq F(k)
  BY FrameCases, FramesStep
<1>2. \A k \in Nat : Steps(F(k), sys.bad)' => Steps(F(k), sys.bad)
  BY <1>1 DEF Steps
<1>3. sys.bad \subseteq States /\ sys.init \subseteq States
  BY BadCubeType DEF SystemType
<1>4. (\E e \in trans : e[1] \in F(0)' /\ e[2] \in sys.bad) => Steps(sys.init, sys.bad)
  BY <1>1 DEF F, FrameStates, Steps
<1>5. CASE StepBaseHolds
  <2>1. /\ frontier = 1 /\ frontier' = 1
        /\ ~Steps(sys.init, sys.bad)
        /\ reachedK < 0 => ~IntersectsInit(BadCube)
    BY <1>5 DEF StepBaseHolds, PhaseInv, frameVars
  <2>2. sys.init \cap sys.bad = {}
    BY <1>3, <2>1, BadCubeType DEF IntersectsInit, SafeBelowInv, TypeOK
  <2>3. ~Steps(F(0), sys.bad)'
    BY <1>1, <1>4, <2>1 DEF Steps
  <2>4. QED  BY <1>1, <2>1, <2>2, <2>3 DEF SafeBelowInv
<1>6. CASE SomeInitStepsIntoBad
  <2>1. reachedK' = 0 /\ (reachedK < 0 => ~IntersectsInit(BadCube))
    BY <1>6 DEF SomeInitStepsIntoBad
  <2>2. sys.init \cap sys.bad = {}
    BY <1>3, <2>1, BadCubeType DEF IntersectsInit, SafeBelowInv, TypeOK
  <2>3. QED  BY <1>1, <2>1, <2>2 DEF SafeBelowInv
<1>7. CASE BlockedAll \/ TerminateBlocking
  <2>1. /\ pc \in Blocking /\ pc' = "propagate"
        /\ frontier' = frontier + 1 /\ UNCHANGED reachedK
    BY <1>7
    DEF BlockedAll, TerminateBlocking, StartPropagation, PushFrame, Blocking,
        callVars
  <2>2. reachedK >= 1
    BY <2>1 DEF PhaseInv
  <2>3. \A k \in 0..frontier - 1 : ~Steps(F(k), sys.bad)
    BY <2>1, <2>2 DEF SafeBelowInv
  <2>4. Steps(F(frontier), sys.bad) => terminate
    <3>1. CASE BlockedAll
      <4>1. Models(frontier + 1, BadCube) = {}
        BY <3>1 DEF BlockedAll
      <4>2. (frontier + 1) - 1 = frontier
        BY DEF TypeOK
      <4>3. ASSUME NEW e \in trans, e[1] \in F(frontier), e[2] \in sys.bad
            PROVE  FALSE
        <5>1. e[1] \notin sys.bad
          BY <4>3 DEF F, FrameStates
        <5>2. e[1] \in F((frontier + 1) - 1) \ Cube(BadCube)
          BY <4>2, <4>3, <5>1, BadCubeType
        <5>3. e[2] \in Cube(BadCube)
          BY <4>3, BadCubeType
        <5>4. e[1] \in Models(frontier + 1, BadCube)
          BY <5>2, <5>3, StepIsModel
        <5>5. QED  BY <4>1, <5>4
      <4>4. QED  BY <4>3 DEF Steps
    <3>2. CASE TerminateBlocking
      BY <3>2 DEF TerminateBlocking
    <3>3. QED  BY <1>7, <3>1, <3>2
  <2>5. ASSUME NEW k \in 0..frontier' - 1, Steps(F(k), sys.bad)'
        PROVE  (terminate /\ k = frontier - 1 /\ pc \notin Blocking)'
    <3>1. Steps(F(k), sys.bad)
      BY <1>2, <2>5
    <3>2. k = frontier
      BY <2>1, <2>3, <2>5, <3>1 DEF TypeOK
    <3>3. k = frontier' - 1 /\ pc' \notin Blocking
      BY <2>1, <3>2 DEF TypeOK, Blocking
    <3>4. QED  BY <1>1, <2>4, <3>1, <3>2, <3>3
  <2>6. reachedK' >= 0 => sys'.init \cap sys'.bad = {}
    BY <1>1, <2>1 DEF SafeBelowInv
  <2>7. QED  BY <2>5, <2>6 DEF SafeBelowInv
<1>8. CASE PropagationDone
  <2>1. /\ reachedK >= 1 /\ frontier' = frontier /\ pc' \notin Blocking
    BY <1>8 DEF PropagationDone, AfterReset, PhaseInv, Blocking
  <2>2. sys.init \cap sys.bad = {}
    BY <2>1 DEF SafeBelowInv, TypeOK
  <2>3. ASSUME NEW k \in 0..frontier - 1, Steps(F(k), sys.bad)'
        PROVE  (terminate /\ k = frontier - 1 /\ pc \notin Blocking)'
    <3>1. Steps(F(k), sys.bad)
      BY <1>2, <2>3
    <3>2. terminate /\ k = frontier - 1
      BY <2>1, <3>1 DEF SafeBelowInv
    <3>3. QED  BY <1>1, <2>1, <3>2
  <2>4. QED  BY <1>1, <2>1, <2>2, <2>3 DEF SafeBelowInv
<1>9. CASE /\ UNCHANGED <<reachedK, frontier>>
           /\ pc' \in Blocking => pc \in Blocking \/ ~terminate'
  <2>1. ASSUME reachedK >= 1, NEW k \in 0..frontier - 1, Steps(F(k), sys.bad)'
        PROVE  (terminate /\ k = frontier - 1 /\ pc \notin Blocking)'
    <3>1. Steps(F(k), sys.bad)
      BY <1>2, <2>1
    <3>2. terminate /\ k = frontier - 1 /\ pc \notin Blocking
      BY <2>1, <3>1 DEF SafeBelowInv
    <3>3. terminate' /\ pc' \notin Blocking
      BY <1>1, <1>9, <3>2
    <3>4. QED  BY <1>9, <3>2, <3>3
  <2>2. QED  BY <1>1, <1>9, <2>1 DEF SafeBelowInv
<1>10. QED  BY <1>5, <1>6, <1>7, <1>8, <1>9, DepthCases

\* What holds of the call at each place is kept.
LEMMA PhaseStep ==
  ASSUME IInv, [SharedNext]_vars
  PROVE  PhaseInv'
<1> USE DEF IInv
<1>1. CASE UNCHANGED vars
  BY <1>1 DEF vars, frameVars, callVars, blockVars, propVars, PhaseInv
<1>2. ASSUME NEW k \in Bounds, CheckUntil(k)
      PROVE  PhaseInv'
  BY <1>2 DEF CheckUntil, frameVars, blockVars, propVars, PhaseInv, Blocking
<1>3. CASE Signal
  BY <1>3 DEF Signal, frameVars, callVars, blockVars, propVars, PhaseInv
<1>4. CASE \/ ReturnFalse \/ (pc = "refine" /\ ReturnUnknown) \/ LoopExit
           \/ StepCovered \/ InitIsBad
  BY <1>4
  DEF ReturnFalse, ReturnUnknown, LoopExit, StepCovered, InitIsBad, InLoop,
      frameVars, callVars, blockVars, propVars, PhaseInv, Blocking
<1>5. CASE SomeInitStepsIntoBad \/ StepBaseHolds
  BY <1>5
  DEF SomeInitStepsIntoBad, StepBaseHolds, InLoop, frameVars, blockVars, propVars,
      PhaseInv, Blocking
<1>6. CASE EnterBlockAll
  BY <1>6
  DEF EnterBlockAll, InLoop, frameVars, callVars, blockVars, propVars, PhaseInv,
      Blocking
<1>7. CASE SomeReachesBadGoal
  BY <1>7 DEF SomeReachesBadGoal, frameVars, callVars, propVars, PhaseInv, Blocking
<1>8. CASE BlockedAll \/ TerminateBlocking
  <2>1. /\ pc \in Blocking
        /\ frontier' = frontier + 1
        /\ frames' = [k \in 0..frontier + 1 |->
                        IF k > frontier THEN {} ELSE frames[k]]
        /\ UNCHANGED reachedK
        /\ goals' = {} /\ at' = 1 /\ todo' = frames[1] /\ pc' = "propagate"
    BY <1>8
    DEF BlockedAll, TerminateBlocking, StartPropagation, PushFrame, Blocking,
        callVars
  <2>2. todo' = frames'[1] /\ at' \in 1..frontier' - 1
    BY <2>1 DEF TypeOK
  <2>3. reachedK >= 1
    BY <2>1 DEF PhaseInv
  <2>4. reachedK' < 1 => frontier' = 1
    BY <2>1, <2>3 DEF TypeOK
  <2>5. QED  BY <2>1, <2>2, <2>3, <2>4 DEF PhaseInv
<1>9. ASSUME NEW g \in goals, \/ GoalInitial(g) \/ GoalAlreadyBlocked(g)
                              \/ SomeGoalBlocked(g) \/ SomeGoalPredecessor(g)
      PROVE  PhaseInv'
  <2>1. /\ pc = "goal" /\ UNCHANGED <<frameVars, callVars, propVars>>
        /\ pc' \in Blocking \/ (pc' = "refine" /\ goals' = {})
    BY <1>9
    DEF GoalInitial, GoalAlreadyBlocked, SomeGoalBlocked, SomeGoalPredecessor, Handle,
        QueueLoop, Blocking
  <2>2. QED  BY <2>1 DEF frameVars, callVars, propVars, PhaseInv, Blocking
<1>10. ASSUME NEW l \in cur.cube, DropLiteral(l) \/ KeepLiteral(l)
       PROVE  PhaseInv'
  <2>1. pc' = pc /\ UNCHANGED <<frameVars, callVars, propVars, goals>>
    BY <1>10 DEF DropLiteral, KeepLiteral
  <2>2. QED  BY <2>1 DEF frameVars, callVars, propVars, PhaseInv
<1>11. CASE GeneralizationDone \/ PushCollateral
  <2>1. /\ pc \in {"indgen", "highest"} /\ pc' = "highest"
        /\ UNCHANGED <<frameVars, callVars, propVars, goals>>
    BY <1>11 DEF GeneralizationDone, PushCollateral, blockVars
  <2>2. QED  BY <2>1 DEF frameVars, callVars, propVars, PhaseInv, Blocking
<1>12. CASE LearnClause
  <2>1. /\ pc = "highest" /\ UNCHANGED <<frontier, callVars, propVars>>
        /\ pc' \in {"blocking", "goal"} /\ (goals' # {} => pc' = "goal")
    BY <1>12 DEF LearnClause, ConstrainFrame, QueueLoop
  <2>2. QED  BY <2>1 DEF callVars, propVars, PhaseInv, Blocking
<1>13. ASSUME NEW c \in todo, PropagateClause(c)
       PROVE  PhaseInv'
  <2>1. PICK g \in Cores(at + 1, c) :
          frames' = [frames EXCEPT ![at] = @ \ {c}, ![at + 1] = @ \cup {g}]
    BY <1>13 DEF PropagateClause
  <2>2. /\ pc = "propagate" /\ pc' = pc
        /\ UNCHANGED <<frontier, at, goals, reachedK>>
        /\ todo' = todo \ {c}
    BY <1>13 DEF PropagateClause, blockVars, callVars
  <2>3. at \in 1..frontier - 1 /\ todo \subseteq frames[at]
    BY <2>2 DEF PhaseInv
  <2>4. frames'[at] = frames[at] \ {c}
    BY <2>1, <2>3 DEF TypeOK
  <2>5. todo' \subseteq frames'[at]
    BY <2>2, <2>3, <2>4
  <2>6. QED  BY <2>2, <2>3, <2>5 DEF PhaseInv
<1>14. ASSUME NEW c \in todo, KeepClause(c)
       PROVE  PhaseInv'
  BY <1>14 DEF KeepClause, frameVars, callVars, blockVars, PhaseInv
<1>15. CASE FixedPoint
  BY <1>15
  DEF FixedPoint, frameVars, callVars, blockVars, propVars, PhaseInv, Blocking
<1>16. CASE NextFrame
  <2>1. /\ pc = "propagate" /\ pc' = pc /\ at + 1 < frontier
        /\ at' = at + 1 /\ todo' = frames[at + 1]
        /\ UNCHANGED <<frames, frontier, goals, reachedK>>
    BY <1>16 DEF NextFrame, frameVars, callVars, blockVars
  <2>2. at' \in 1..frontier' - 1 /\ todo' = frames'[at']
    BY <2>1 DEF PhaseInv, TypeOK
  <2>3. QED  BY <2>1, <2>2 DEF PhaseInv
<1>17. CASE PropagationDone
  <2>1. /\ pc = "propagate" /\ pc' = "loop" /\ reachedK' = reachedK + 1
        /\ UNCHANGED <<frontier, goals>>
    BY <1>17 DEF PropagationDone, AfterReset, blockVars
  <2>2. goals' = {} /\ ~(reachedK' < 1)
    BY <2>1 DEF PhaseInv, TypeOK, Blocking
  <2>3. QED  BY <2>1, <2>2 DEF PhaseInv, Blocking
<1>18. QED
  BY <1>1, <1>2, <1>3, <1>4, <1>5, <1>6, <1>7, <1>8, <1>9, <1>10, <1>11, <1>12,
     <1>13, <1>14, <1>15, <1>16, <1>17
  DEF SharedNext, CommonStep, Environment

-----------------------------------------------------------------------------
(* Proof goals.                                                            *)

\* The predicates tell whether a state is in a frame.
LEMMA FrameDefinable ==
  ASSUME TypeOK, AbstractionInv, AtomsInv, LabelsInv, NEW j \in Nat,
         NEW u \in F(j), NEW s \in States, Agree(preds, s, u)
  PROVE  s \in F(j)
<1>1. u \in States
  BY DEF F, FrameStates
<1>2. s \notin sys.bad /\ (j = 0 => s \in sys.init)
  BY <1>1 DEF F, FrameStates, AbstractionInv, Definable
<1>3. ASSUME NEW h \in 0..frontier, h >= j, NEW c \in asserted[h]
      PROVE  s \notin Cube(c)
  <2>1. h \in 1..frontier
    BY <1>3 DEF LabelsInv, TypeOK
  <2>2. c \in SUBSET Lits(preds)
    BY <2>1 DEF AtomsInv
  <2>3. u \notin Cube(c)
    BY <1>3 DEF F, FrameStates
  <2>4. preds \in SUBSET SUBSET States
    BY DEF TypeOK
  <2>5. QED  BY <1>1, <2>2, <2>3, <2>4, AgreeOnCubes
<1>4. QED  BY <1>2, <1>3 DEF F, FrameStates

\* If the frame two below cannot step into a cube, no predecessor of the cube
\* meets that frame, however the model was generalised.
LEMMA PredecessorOutside ==
  ASSUME TypeOK, AbstractionInv, AtomsInv, LabelsInv,
         NEW j \in Nat, NEW k, NEW T, NEW s \in Models(k, T),
         NEW p \in Substitutes(k, T, s), ~Steps(F(j), Cube(T))
  PROVE  Cube(p) \cap F(j) = {}
<1> SUFFICES ASSUME NEW u \in Cube(p), u \in F(j)
             PROVE  Steps(F(j), Cube(T))
  OBVIOUS
<1>1. s \in States /\ Steps({s}, Cube(T))
  BY DEF Models, F, FrameStates
<1>2. CASE Agree(preds, s, u)
  <2>1. s \in F(j)
    BY <1>1, <1>2, FrameDefinable
  <2>2. QED  BY <1>1, <2>1 DEF Steps
<1>3. CASE Steps({u}, Cube(T))
  BY <1>3 DEF Steps
<1>4. QED  BY <1>2, <1>3 DEF Substitutes

\* What a goal has to satisfy, for frames and flag as they are next.
GoodGoal(h) ==
  /\ h.idx \in 0..frontier'
  /\ Len(h.trace) > 0
  /\ Target(h) \subseteq Lits(preds)
  /\ ~terminate' =>
       IF h.idx = 0 THEN IntersectsInit(Target(h))
                    ELSE Cube(Target(h)) \cap F(h.idx - 1)' = {}

\* The first goal of a round.
LEMMA FirstGoalGood ==
  ASSUME IInv, [SharedNext]_vars, SomeReachesBadGoal, NEW h \in goals'
  PROVE  GoodGoal(h)
<1> USE DEF IInv
<1>1. PICK s \in Models(frontier + 1, BadCube) :
        \E c \in Substitutes(frontier + 1, BadCube, s) :
          goals' = {[idx |-> frontier, trace |-> <<c>>]}
  BY DEF SomeReachesBadGoal
<1>2. PICK c \in Substitutes(frontier + 1, BadCube, s) :
        goals' = {[idx |-> frontier, trace |-> <<c>>]}
  BY <1>1
<1>3. h.idx = frontier /\ Len(h.trace) = 1 /\ Target(h) = c
  BY <1>2 DEF Target
<1>4. s \in States
  BY <1>1 DEF Models, F, FrameStates
<1>5. c \subseteq Lits(preds)
  BY <1>4, PredecessorType DEF TypeOK
<1>6. frontier' = frontier
  BY DEF SomeReachesBadGoal, frameVars
<1>7. ~Steps(F(frontier - 1), sys.bad)
  <2>1. pc \in Blocking
    BY DEF SomeReachesBadGoal, Blocking
  <2>2. reachedK >= 1 /\ frontier - 1 \in 0..frontier - 1
    BY <2>1 DEF PhaseInv, TypeOK
  <2>3. QED  BY <2>1, <2>2 DEF SafeBelowInv
<1>8. ~Steps(F(frontier - 1), Cube(BadCube))
  BY <1>7, BadCubeType
<1>9. frontier - 1 \in Nat /\ frontier + 1 \in Nat /\ frontier + 1 = (frontier - 1) + 2
  BY DEF TypeOK
<1>10. Cube(c) \cap F(frontier - 1) = {}
  BY <1>2, <1>8, <1>9, PredecessorOutside
<1>11. F(frontier - 1)' = F(frontier - 1)
  BY DEF SomeReachesBadGoal, frameVars, F, FrameStates
<1>12. frontier # 0 /\ frontier \in 0..frontier
  BY DEF TypeOK
<1>13. QED  BY <1>3, <1>5, <1>6, <1>10, <1>11, <1>12 DEF GoodGoal

\* A goal made from a predecessor of another goal.
LEMMA PredecessorGoalGood ==
  ASSUME IInv, [SharedNext]_vars, NEW g \in goals, SomeGoalPredecessor(g),
         NEW h \in goals', h \notin goals
  PROVE  GoodGoal(h)
<1> USE DEF IInv
<1>1. /\ pc = "goal" /\ ~terminate /\ g.idx > 0
      /\ UNCHANGED <<sys, frameVars, terminate>>
  BY DEF SomeGoalPredecessor, Handle
<1>2. PICK s \in Models(g.idx, Target(g)) :
        \E c \in Substitutes(g.idx, Target(g), s) :
          goals' = goals \cup {[idx |-> g.idx - 1, trace |-> <<c>> \o g.trace]}
  BY DEF SomeGoalPredecessor
<1>3. PICK c \in Substitutes(g.idx, Target(g), s) :
        goals' = goals \cup {[idx |-> g.idx - 1, trace |-> <<c>> \o g.trace]}
  BY <1>2
<1>4. g.trace \in Seq(Cubes) /\ g.idx \in 1..frontier
  BY <1>1 DEF TypeOK, GoalType, GoalsInv
<1>5. s \in States
  BY <1>2 DEF Models, F, FrameStates
<1>6. c \in Cubes /\ c \subseteq Lits(preds)
  BY <1>5, PredecessorType DEF TypeOK
<1>7. h.idx = g.idx - 1 /\ Len(h.trace) > 0 /\ Target(h) = c
  <2>1. h = [idx |-> g.idx - 1, trace |-> <<c>> \o g.trace]
    BY <1>3
  <2>2. Len(<<c>> \o g.trace) > 0 /\ (<<c>> \o g.trace)[1] = c
    BY <1>4, <1>6
  <2>3. QED  BY <2>1, <2>2 DEF Target
<1>8. CASE g.idx = 1
  <2>1. s \in Cube(c)
    BY <1>3, <1>8 DEF Substitutes
  <2>2. s \in sys.init
    BY <1>2, <1>8 DEF Models, F, FrameStates
  <2>3. IntersectsInit(c)
    BY <2>1, <2>2 DEF IntersectsInit
  <2>4. IntersectsInit(Target(h)) /\ h.idx = 0
    BY <1>7, <1>8, <2>3
  <2>5. h.idx \in 0..frontier'
    BY <1>1, <2>4 DEF frameVars, TypeOK
  <2>6. QED  BY <1>6, <1>7, <2>4, <2>5 DEF GoodGoal
<1>9. CASE g.idx # 1
  <2> DEFINE j == g.idx - 2
  <2>1. j \in Nat /\ g.idx = j + 2 /\ j + 1 \in 1..frontier
    BY <1>4, <1>9 DEF TypeOK
  <2>2. reachedK >= 1 /\ pc \in Blocking
    BY <1>1 DEF PhaseInv, Blocking
  <2>3. Cube(Target(g)) \cap F(j + 1) = {}
    <3>1. g.idx - 1 = j + 1 /\ g.idx # 0
      BY <1>4
    <3>2. QED  BY <1>1, <3>1 DEF GoalsOutsideLowerFrame
  <2>4. ASSUME NEW e \in trans, e[1] \in F(j)
        PROVE  e[2] \notin Cube(Target(g))
    <3>1. (j + 1) - 1 = j
      BY <2>1
    <3>2. e[2] \in F(j + 1)
      BY <2>1, <2>2, <2>4, <3>1, Consecution
    <3>3. QED  BY <2>3, <3>2
  <2>5. ~Steps(F(j), Cube(Target(g)))
    BY <2>4 DEF Steps
  <2>6. Cube(c) \cap F(j) = {}
    BY <1>2, <1>3, <2>1, <2>5, PredecessorOutside
  <2>7. F(j)' = F(j)
    BY <1>1 DEF frameVars, F, FrameStates
  <2>8. h.idx # 0 /\ h.idx - 1 = j /\ h.idx \in 0..frontier'
    BY <1>1, <1>4, <1>7, <1>9 DEF frameVars, TypeOK
  <2>9. QED  BY <1>6, <1>7, <2>6, <2>7, <2>8 DEF GoodGoal
<1>10. QED  BY <1>8, <1>9

\* The goal that is handled again one frame higher.
LEMMA LearnedGoalGood ==
  ASSUME IInv, [SharedNext]_vars, LearnClause, NEW h \in goals', h \notin goals
  PROVE  GoodGoal(h)
<1> USE DEF IInv
<1>1. /\ pc = "highest" /\ cur.idx < frontier
      /\ h = [idx |-> cur.idx + 1, trace |-> cur.trace]
      /\ frontier' = frontier
      /\ asserted' = [asserted EXCEPT ![cur.idx] = @ \cup {cur.cube}]
  BY DEF LearnClause, ConstrainFrame
<1>2. /\ cur.idx \in 1..frontier /\ Len(cur.trace) > 0
      /\ Cube(cur.trace[1]) \subseteq Cube(cur.cube)
      /\ cur.trace[1] \subseteq Lits(preds)
  BY <1>1 DEF CollateralInv
<1>3. /\ h.idx = cur.idx + 1 /\ h.idx # 0 /\ h.idx - 1 = cur.idx
      /\ h.idx \in 0..frontier' /\ Target(h) = cur.trace[1] /\ Len(h.trace) > 0
  BY <1>1, <1>2 DEF Target, TypeOK
<1>4. cur.cube \in asserted'[cur.idx]
  BY <1>1, <1>2 DEF TypeOK
<1>5. ASSUME NEW u \in F(h.idx - 1)'
      PROVE  u \notin Cube(cur.cube)
  <2>1. h.idx - 1 \in 0..frontier' /\ cur.cube \in asserted'[h.idx - 1]
    BY <1>1, <1>2, <1>3, <1>4 DEF TypeOK
  <2>2. h.idx - 1 >= h.idx - 1
    BY <2>1
  <2>3. QED  BY <1>5, <2>1, <2>2 DEF F, FrameStates
<1>6. Cube(Target(h)) \subseteq Cube(cur.cube)
  BY <1>2, <1>3
<1>7. QED  BY <1>2, <1>3, <1>5, <1>6 DEF GoodGoal

\* Which steps put goals into the queue.
LEMMA GoalCases ==
  ASSUME [SharedNext]_vars
  PROVE  \/ SomeReachesBadGoal \/ LearnClause
         \/ \E g \in goals : SomeGoalPredecessor(g)
         \/ goals' \subseteq goals
<1>1. CASE UNCHANGED vars \/ Environment
  BY <1>1 DEF vars, Environment, CheckUntil, Signal, blockVars
<1>2. CASE \/ ReturnFalse \/ (pc = "refine" /\ ReturnUnknown) \/ LoopExit
           \/ StepCovered \/ InitIsBad \/ SomeInitStepsIntoBad \/ StepBaseHolds
           \/ EnterBlockAll
  BY <1>2
  DEF ReturnFalse, ReturnUnknown, LoopExit, StepCovered, InitIsBad,
      SomeInitStepsIntoBad, StepBaseHolds, EnterBlockAll, blockVars
<1>3. CASE BlockedAll \/ TerminateBlocking
  BY <1>3 DEF BlockedAll, TerminateBlocking, StartPropagation
<1>4. ASSUME NEW g \in goals, GoalInitial(g) \/ GoalAlreadyBlocked(g) \/ SomeGoalBlocked(g)
      PROVE  goals' \subseteq goals
  BY <1>4 DEF GoalInitial, GoalAlreadyBlocked, SomeGoalBlocked
<1>5. ASSUME NEW l \in cur.cube, DropLiteral(l) \/ KeepLiteral(l)
      PROVE  goals' \subseteq goals
  BY <1>5 DEF DropLiteral, KeepLiteral
<1>6. CASE GeneralizationDone \/ PushCollateral
  BY <1>6 DEF GeneralizationDone, PushCollateral, blockVars
<1>7. ASSUME NEW c \in todo, PropagateClause(c) \/ KeepClause(c)
      PROVE  goals' \subseteq goals
  BY <1>7 DEF PropagateClause, KeepClause, blockVars
<1>8. CASE FixedPoint \/ NextFrame \/ PropagationDone
  BY <1>8 DEF FixedPoint, NextFrame, PropagationDone, AfterReset, blockVars
<1>9. QED
  BY <1>1, <1>2, <1>3, <1>4, <1>5, <1>6, <1>7, <1>8 DEF SharedNext, CommonStep

\* Goals stay outside the frame below theirs.
LEMMA GoalsStep ==
  ASSUME IInv, [SharedNext]_vars
  PROVE  GoalsInv' /\ GoalsOutsideLowerFrame'
<1>1. /\ UNCHANGED <<sys, preds, trans>>
      /\ terminate => terminate'
      /\ \A k \in Nat : F(k)' \subseteq F(k)
      /\ frontier \in Nat /\ frontier' \in Nat /\ frontier <= frontier'
  BY FrameCases, FramesStep, ClauseStep DEF IInv, ClausesCarryOver, TypeOK
<1>2. ASSUME NEW h \in goals
      PROVE  GoodGoal(h)
  <2>1. /\ h.idx \in 0..frontier' /\ Len(h.trace) > 0
        /\ Target(h) \subseteq Lits(preds)
    BY <1>1 DEF GoalsInv, IInv
  <2>2. CASE h.idx = 0
    <3>1. ~terminate => IntersectsInit(Target(h))
      BY <2>2 DEF GoalsOutsideLowerFrame, IInv
    <3>2. QED  BY <1>1, <2>1, <2>2, <3>1 DEF GoodGoal
  <2>3. CASE h.idx # 0
    <3>1. ~terminate => Cube(Target(h)) \cap F(h.idx - 1) = {}
      BY <2>3 DEF GoalsOutsideLowerFrame, IInv
    <3>2. F(h.idx - 1)' \subseteq F(h.idx - 1)
      <4>1. h.idx - 1 \in Nat
        BY <1>1, <2>1, <2>3
      <4>2. QED  BY <1>1, <4>1
    <3>3. QED  BY <1>1, <2>1, <2>3, <3>1, <3>2 DEF GoodGoal
  <2>4. QED  BY <2>2, <2>3
<1>3. ASSUME NEW h \in goals', h \notin goals
      PROVE  GoodGoal(h)
  BY <1>3, GoalCases, FirstGoalGood, PredecessorGoalGood, LearnedGoalGood
<1>4. \A h \in goals' : GoodGoal(h)
  BY <1>2, <1>3
<1>5. GoalsInv'
  BY <1>1, <1>4 DEF GoalsInv, GoodGoal, Target
<1>6. GoalsOutsideLowerFrame'
  BY <1>1, <1>4 DEF GoalsOutsideLowerFrame, GoodGoal, Target, IntersectsInit
<1>7. QED  BY <1>5, <1>6

\* Which steps build or keep the collateral of a goal.
LEMMA CollateralCases ==
  ASSUME [SharedNext]_vars
  PROVE  \/ \E g \in goals : SomeGoalBlocked(g)
         \/ \E l \in cur.cube : DropLiteral(l) \/ KeepLiteral(l)
         \/ GeneralizationDone \/ PushCollateral
         \/ UNCHANGED <<sys, preds, trans, pc, frameVars, cur>>
         \/ pc' \notin {"indgen", "highest"}
<1> DEFINE Stays == UNCHANGED <<sys, preds, trans, pc, frameVars, cur>>
           Away == pc' \notin {"indgen", "highest"}
<1>1. CASE UNCHANGED vars
  BY <1>1 DEF vars, frameVars, blockVars
<1>2. CASE Environment
  BY <1>2 DEF Environment, CheckUntil, Signal, frameVars, blockVars
<1>3. CASE ReturnFalse \/ ReturnUnknown \/ LoopExit
  BY <1>3 DEF ReturnFalse, ReturnUnknown, LoopExit
<1>4. CASE StepCovered \/ StepBaseHolds
  <2>1. pc = "loop" /\ pc' = pc
    BY <1>4 DEF StepCovered, StepBaseHolds, InLoop
  <2>2. QED  BY <2>1
<1>5. CASE InitIsBad \/ SomeInitStepsIntoBad \/ EnterBlockAll \/ SomeReachesBadGoal
  BY <1>5 DEF InitIsBad, SomeInitStepsIntoBad, EnterBlockAll, SomeReachesBadGoal
<1>6. CASE BlockedAll \/ TerminateBlocking
  BY <1>6 DEF BlockedAll, TerminateBlocking, StartPropagation
<1>7. ASSUME NEW g \in goals,
             GoalInitial(g) \/ GoalAlreadyBlocked(g) \/ SomeGoalPredecessor(g)
      PROVE  Away
  BY <1>7 DEF GoalInitial, GoalAlreadyBlocked, SomeGoalPredecessor, Handle, QueueLoop
<1>8. CASE LearnClause
  BY <1>8 DEF LearnClause, QueueLoop
<1>9. ASSUME NEW c \in todo, PropagateClause(c) \/ KeepClause(c)
      PROVE  Away
  BY <1>9 DEF PropagateClause, KeepClause
<1>10. CASE FixedPoint \/ NextFrame \/ PropagationDone
  BY <1>10 DEF FixedPoint, NextFrame, PropagationDone, AfterReset
<1>11. QED
  BY <1>1, <1>2, <1>3, <1>4, <1>5, <1>6, <1>7, <1>8, <1>9, <1>10
  DEF SharedNext, CommonStep

\* The collateral stays inductive while literals are dropped and while it is
\* moved up.
LEMMA CollateralStep ==
  ASSUME IInv, [SharedNext]_vars
  PROVE  CollateralInv'
<1> USE DEF IInv
\* A new collateral that is a core of an inductive cube inside the target.
<1> DEFINE Good(k, c, trace) ==
             /\ k \in 1..frontier
             /\ Len(trace) > 0
             /\ Cube(trace[1]) \subseteq Cube(c)
             /\ trace[1] \in SUBSET Lits(preds) /\ c \in SUBSET Lits(preds)
             /\ ~IntersectsInit(c)
             /\ RelInd(k, c)
<1>1. ASSUME NEW g \in goals, SomeGoalBlocked(g)
      PROVE  CollateralInv'
  <2>1. /\ pc = "goal" /\ ~terminate /\ g.idx > 0
        /\ UNCHANGED <<sys, preds, trans, frameVars>>
    BY <1>1 DEF SomeGoalBlocked, Handle
  <2>2. PICK c \in Generalizations(g.idx, Target(g)) :
          cur' = [trace |-> g.trace, cube |-> c, idx |-> g.idx, needed |-> {}]
    BY <1>1 DEF SomeGoalBlocked
  <2>3. g.idx \in 1..frontier /\ Len(g.trace) > 0 /\ Target(g) \subseteq Lits(preds)
    BY <2>1 DEF GoalsInv, TypeOK
  <2>4. ~IntersectsInit(Target(g))
    <3>1. Cube(Target(g)) \cap F(g.idx - 1) = {}
      BY <2>1 DEF GoalsOutsideLowerFrame
    <3>2. reachedK >= 1 /\ g.idx - 1 \in Nat
      BY <2>1, <2>3 DEF PhaseInv, Blocking, TypeOK
    <3>3. sys.init \subseteq F(g.idx - 1)
      BY <3>2, InitInFrames
    <3>4. QED  BY <3>1, <3>3 DEF IntersectsInit
  <2>5. Good(g.idx, c, g.trace)
    BY <2>2, <2>3, <2>4 DEF Generalizations, Target
  <2>6. /\ cur'.idx = g.idx /\ cur'.cube = c /\ cur'.trace = g.trace
    BY <2>2
  <2>7. QED
    BY <2>1, <2>5, <2>6
    DEF CollateralInv, frameVars, IntersectsInit, RelInd, Steps, F, FrameStates
<1>2. ASSUME NEW l \in cur.cube, DropLiteral(l)
      PROVE  CollateralInv'
  <2>1. /\ pc = "indgen" /\ CanDrop(l)
        /\ UNCHANGED <<sys, preds, trans, frameVars>>
    BY <1>2 DEF DropLiteral
  <2>2. PICK c \in Cores(cur.idx, cur.cube \ {l}) : cur' = [cur EXCEPT !.cube = c]
    BY <1>2 DEF DropLiteral
  <2>3. c \subseteq cur.cube /\ ~IntersectsInit(c) /\ RelInd(cur.idx, c)
    BY <2>1, <2>2, CoreIsInductive DEF CanDrop
  <2>4. Good(cur.idx, c, cur.trace)
    BY <2>1, <2>3, CubeAntitone DEF CollateralInv
  <2>5. cur'.idx = cur.idx /\ cur'.cube = c /\ cur'.trace = cur.trace
    BY <2>2 DEF TypeOK
  <2>6. QED
    BY <2>1, <2>4, <2>5
    DEF CollateralInv, frameVars, IntersectsInit, RelInd, Steps, F, FrameStates
<1>3. ASSUME NEW l \in cur.cube, KeepLiteral(l)
      PROVE  CollateralInv'
  <2>1. /\ pc = "indgen"
        /\ UNCHANGED <<sys, preds, trans, frameVars>>
        /\ cur'.idx = cur.idx /\ cur'.cube = cur.cube /\ cur'.trace = cur.trace
    BY <1>3 DEF KeepLiteral, TypeOK
  <2>2. Good(cur.idx, cur.cube, cur.trace)
    BY <2>1 DEF CollateralInv
  <2>3. QED
    BY <2>1, <2>2
    DEF CollateralInv, frameVars, IntersectsInit, RelInd, Steps, F, FrameStates
<1>4. CASE GeneralizationDone
  <2>1. pc = "indgen" /\ UNCHANGED <<sys, preds, trans, frameVars, cur>>
    BY <1>4 DEF GeneralizationDone, blockVars
  <2>2. Good(cur.idx, cur.cube, cur.trace)
    BY <2>1 DEF CollateralInv
  <2>3. QED
    BY <2>1, <2>2
    DEF CollateralInv, frameVars, IntersectsInit, RelInd, Steps, F, FrameStates
<1>5. CASE PushCollateral
  <2>1. /\ pc = "highest" /\ cur.idx < frontier
        /\ UNCHANGED <<sys, preds, trans, frameVars>>
    BY <1>5 DEF PushCollateral, CanPush
  <2>2. PICK c \in Cores(cur.idx + 1, cur.cube) :
          cur' = [cur EXCEPT !.cube = c, !.idx = @ + 1]
    BY <1>5 DEF PushCollateral
  <2>3. Good(cur.idx, cur.cube, cur.trace)
    BY <2>1 DEF CollateralInv
  <2>4. c \subseteq cur.cube /\ ~IntersectsInit(c) /\ RelInd(cur.idx + 1, c)
    BY <2>2, <2>3, CoreIsInductive
  <2>5. cur.idx + 1 \in 1..frontier
    BY <2>1, <2>3 DEF TypeOK
  <2>6. Good(cur.idx + 1, c, cur.trace)
    BY <2>3, <2>4, <2>5, CubeAntitone
  <2>7. cur'.idx = cur.idx + 1 /\ cur'.cube = c /\ cur'.trace = cur.trace
    BY <2>2 DEF TypeOK
  <2>8. QED
    BY <2>1, <2>6, <2>7
    DEF CollateralInv, frameVars, IntersectsInit, RelInd, Steps, F, FrameStates
<1>6. CASE UNCHANGED <<sys, preds, trans, pc, frameVars, cur>>
  BY <1>6
  DEF CollateralInv, frameVars, IntersectsInit, RelInd, Steps, F, FrameStates
<1>7. CASE pc' \notin {"indgen", "highest"}
  BY <1>7 DEF CollateralInv
<1>8. QED  BY <1>1, <1>2, <1>3, <1>4, <1>5, <1>6, <1>7, CollateralCases

-----------------------------------------------------------------------------
(* Verdicts.                                                               *)

\* A frame whose clauses all moved up is an inductive invariant of the
\* concrete system that excludes bad.
LEMMA FixedPointInductive ==
  ASSUME IInv, FixedPoint, ~terminate
  PROVE  /\ FrameTerm(at + 1) \in SUBSET States
         /\ Inductive(sys, FrameTerm(at + 1))
         /\ FrameTerm(at + 1) \cap sys.bad = {}
<1> USE DEF IInv
<1> DEFINE X == F(at + 1)
<1>1. /\ pc = "propagate" /\ frames[at] = {}
      /\ at \in 1..frontier - 1 /\ reachedK >= 1
  BY DEF FixedPoint, PhaseInv
<1>2. at \in 1..frontier /\ at + 1 \in 1..frontier /\ (at + 1) - 1 = at
  BY <1>1 DEF TypeOK
<1>3. FrameTerm(at) = F(at) /\ FrameTerm(at + 1) = X
  BY <1>2, StoredFrames
<1>4. X \subseteq F(at)
  <2>1. ASSUME NEW s \in FrameTerm(at + 1)
        PROVE  s \in FrameTerm(at)
    <3>1. at # 0 /\ at + 1 # 0 /\ frontier \in Nat /\ at \in Nat
      BY <1>2 DEF TypeOK
    <3>2. s \in States /\ s \notin sys.bad
      BY <2>1, <3>1 DEF FrameTerm, FrameStates
    <3>3. ASSUME NEW j \in 0..frontier, j >= at, NEW c \in frames[j]
          PROVE  s \notin Cube(c)
      <4>1. j # at
        BY <1>1, <3>3
      <4>2. j >= at + 1
        BY <3>1, <3>3, <4>1
      <4>3. QED  BY <2>1, <3>1, <3>3, <4>2 DEF FrameTerm, FrameStates
    <3>4. QED  BY <3>1, <3>2, <3>3 DEF FrameTerm, FrameStates
  <2>2. QED  BY <1>3, <2>1
<1>5. sys.init \subseteq X
  BY <1>1, <1>2, InitInFrames
<1>6. ASSUME NEW e \in sys.trans, e[1] \in X
      PROVE  e[2] \in X
  <2>1. e \in trans
    BY DEF AbstractionInv
  <2>2. e[1] \in F((at + 1) - 1)
    BY <1>2, <1>4, <1>6
  <2>3. QED  BY <1>1, <1>2, <2>1, <2>2, Consecution
<1>7. X \subseteq States /\ X \cap sys.bad = {}
  BY DEF F, FrameStates
<1>8. QED  BY <1>3, <1>5, <1>6, <1>7 DEF Inductive

\* Which steps return TRUE.
LEMMA VerdictCases ==
  ASSUME [SharedNext]_vars
  PROVE  \/ FixedPoint
         \/ UNCHANGED <<result, invar>>
         \/ result' # "TRUE"
<1>1. CASE UNCHANGED vars
  BY <1>1 DEF vars, verdictVars
<1>2. CASE Environment
  BY <1>2 DEF Environment, CheckUntil, Signal, verdictVars
<1>3. CASE ReturnFalse \/ ReturnUnknown \/ LoopExit
  BY <1>3 DEF ReturnFalse, ReturnUnknown, LoopExit
<1>4. CASE \/ StepCovered \/ InitIsBad \/ SomeInitStepsIntoBad \/ StepBaseHolds
           \/ EnterBlockAll
  BY <1>4
  DEF StepCovered, InitIsBad, SomeInitStepsIntoBad, StepBaseHolds, EnterBlockAll,
      verdictVars
<1>5. CASE SomeReachesBadGoal \/ BlockedAll \/ TerminateBlocking
  BY <1>5
  DEF SomeReachesBadGoal, BlockedAll, TerminateBlocking, StartPropagation, verdictVars
<1>6. ASSUME NEW g \in goals, \/ GoalInitial(g) \/ GoalAlreadyBlocked(g)
                              \/ SomeGoalBlocked(g) \/ SomeGoalPredecessor(g)
      PROVE  UNCHANGED <<result, invar>>
  BY <1>6
  DEF GoalInitial, GoalAlreadyBlocked, SomeGoalBlocked, SomeGoalPredecessor, verdictVars
<1>7. ASSUME NEW l \in cur.cube, DropLiteral(l) \/ KeepLiteral(l)
      PROVE  UNCHANGED <<result, invar>>
  BY <1>7 DEF DropLiteral, KeepLiteral, verdictVars
<1>8. CASE GeneralizationDone \/ PushCollateral \/ LearnClause
  BY <1>8 DEF GeneralizationDone, PushCollateral, LearnClause, verdictVars
<1>9. ASSUME NEW c \in todo, PropagateClause(c) \/ KeepClause(c)
      PROVE  UNCHANGED <<result, invar>>
  BY <1>9 DEF PropagateClause, KeepClause, verdictVars
<1>10. CASE NextFrame \/ PropagationDone
  BY <1>10 DEF NextFrame, PropagationDone, AfterReset, verdictVars
<1>11. QED
  BY <1>1, <1>2, <1>3, <1>4, <1>5, <1>6, <1>7, <1>8, <1>9, <1>10
  DEF SharedNext, CommonStep

\* Which steps find a counterexample, and that nothing follows a verdict.
LEMMA RefineCases ==
  ASSUME [SharedNext]_vars
  PROVE  \/ InitIsBad \/ SomeInitStepsIntoBad
         \/ \E g \in goals : GoalInitial(g)
         \/ /\ pc' = "refine" => pc = "refine"
            /\ result' = "FALSE" =>
                 ReturnFalse \/ (result = "FALSE" /\ (pc = "done" => pc' = "done"))
            /\ cex' = cex
<1> DEFINE Other == /\ pc' = "refine" => pc = "refine"
                    /\ result' = "FALSE" =>
                         ReturnFalse \/ (result = "FALSE" /\ (pc = "done" => pc' = "done"))
                    /\ cex' = cex
<1>1. CASE UNCHANGED vars
  BY <1>1 DEF vars, verdictVars
<1>2. CASE Environment
  BY <1>2 DEF Environment, CheckUntil, Signal, verdictVars
<1>3. CASE ReturnFalse \/ ReturnUnknown
  BY <1>3 DEF ReturnFalse, ReturnUnknown
<1>4. CASE \/ LoopExit \/ StepCovered \/ StepBaseHolds \/ EnterBlockAll
  BY <1>4
  DEF LoopExit, ReturnUnknown, StepCovered, StepBaseHolds, EnterBlockAll, InLoop,
      verdictVars
<1>5. CASE SomeReachesBadGoal \/ BlockedAll \/ TerminateBlocking
  BY <1>5
  DEF SomeReachesBadGoal, BlockedAll, TerminateBlocking, StartPropagation, verdictVars
<1>6. ASSUME NEW g \in goals,
             GoalAlreadyBlocked(g) \/ SomeGoalBlocked(g) \/ SomeGoalPredecessor(g)
      PROVE  Other
  BY <1>6
  DEF GoalAlreadyBlocked, SomeGoalBlocked, SomeGoalPredecessor, Handle, QueueLoop,
      verdictVars
<1>7. ASSUME NEW l \in cur.cube, DropLiteral(l) \/ KeepLiteral(l)
      PROVE  Other
  BY <1>7 DEF DropLiteral, KeepLiteral, verdictVars
<1>8. CASE GeneralizationDone \/ PushCollateral \/ LearnClause
  BY <1>8
  DEF GeneralizationDone, PushCollateral, LearnClause, QueueLoop, verdictVars
<1>9. ASSUME NEW c \in todo, PropagateClause(c) \/ KeepClause(c)
      PROVE  Other
  BY <1>9 DEF PropagateClause, KeepClause, verdictVars
<1>10. CASE FixedPoint \/ NextFrame \/ PropagationDone
  BY <1>10 DEF FixedPoint, NextFrame, PropagationDone, AfterReset, verdictVars
<1>11. QED
  BY <1>1, <1>2, <1>3, <1>4, <1>5, <1>6, <1>7, <1>8, <1>9, <1>10
  DEF SharedNext, CommonStep

LEMMA VerdictStep ==
  ASSUME IInv, [SharedNext]_vars
  PROVE  TrueIsSound'
<1>1. /\ UNCHANGED <<sys, preds, trans>>
      /\ terminate => terminate'
  BY FrameCases DEF IInv
<1>2. CASE FixedPoint
  <2>1. invar' = FrameTerm(at + 1)
    BY <1>2 DEF FixedPoint
  <2>2. CASE terminate
    BY <1>1, <2>2 DEF TrueIsSound
  <2>3. CASE ~terminate
    <3>1. Safe(sys) /\ Inductive(sys, invar') /\ invar' \cap sys.bad = {}
      BY <1>2, <2>1, <2>3, FixedPointInductive DEF Safe
    <3>2. QED  BY <1>1, <3>1 DEF TrueIsSound
  <2>4. QED  BY <2>2, <2>3
<1>3. CASE UNCHANGED <<result, invar>>
  BY <1>1, <1>3 DEF TrueIsSound, IInv
<1>4. CASE result' # "TRUE"
  BY <1>4 DEF TrueIsSound
<1>5. QED  BY <1>2, <1>3, <1>4, VerdictCases

-----------------------------------------------------------------------------
(* Every step shared by the flavours preserves the inductive invariant.    *)

THEOREM SharedStep ==
  ASSUME IInv, [SharedNext]_vars
  PROVE  IInv'
<1>1. TypeOK'
  BY TypeStep DEF IInv
<1>2. AbstractionInv'
  BY FrameCases DEF IInv, AbstractionInv, Definable, Agree
<1>3. AtomsInv' /\ FramesSound'
  BY FramesStep
<1>4. LabelsInv' /\ SafeBelowInv' /\ PhaseInv'
  BY LabelsStep, SafeBelowStep, PhaseStep
<1>5. GoalsInv' /\ GoalsOutsideLowerFrame' /\ CollateralInv' /\ TrueIsSound'
  BY GoalsStep, CollateralStep, VerdictStep
<1>6. QED  BY <1>1, <1>2, <1>3, <1>4, <1>5 DEF IInv

\* The inductive invariant implies that solver and frames agree.
LEMMA LabelsAgree ==
  ASSUME IInv
  PROVE  LabelsMatchFrames
BY StoredFrames DEF IInv, LabelsMatchFrames

\* The initial frames of every flavour satisfy the invariant, whatever the
\* predicates are, as long as they determine init and bad.
LEMMA BaseInitInv ==
  ASSUME BaseInit, preds \in SUBSET SUBSET States,
         trans \in SUBSET (States \X States), AbstractionInv
  PROVE  IInv
<1>1. /\ sys \in Systems /\ frontier = 1 /\ reachedK = -1 /\ pc = "idle"
      /\ frames = [k \in 0..1 |-> {}] /\ asserted = [k \in 0..1 |-> {}]
      /\ goals = {} /\ result = "NONE"
  BY DEF BaseInit
<1>2. TypeOK
  <2>1. cur \in [trace : Seq(Cubes), cube : Cubes, idx : Nat, needed : Cubes]
    BY DEF BaseInit, NoCur, Cubes
  <2>2. frames \in [0..frontier -> SUBSET Cubes] /\ asserted \in [0..frontier -> SUBSET Cubes]
    BY <1>1
  <2>3. reachedK \in Nat \cup {-1} /\ frontier \in Nat \ {0} /\ pc \in Phases
    BY <1>1 DEF Phases
  <2>4. /\ bound \in Nat /\ i \in Nat /\ at \in Nat
        /\ todo \in SUBSET Cubes /\ invar \in SUBSET States
        /\ cex \in Seq(Cubes) /\ goals \in SUBSET GoalType
        /\ result \in {"NONE", "UNKNOWN", "FALSE", "TRUE"}
    BY DEF BaseInit
  <2>5. terminate \in BOOLEAN
    BY DEF BaseInit
  <2>6. QED  BY <1>1, <2>1, <2>2, <2>3, <2>4, <2>5 DEF TypeOK
<1>3. AtomsInv /\ LabelsInv /\ FramesSound
  BY <1>1 DEF AtomsInv, LabelsInv, FramesSound
<1>4. SafeBelowInv /\ PhaseInv /\ GoalsInv /\ GoalsOutsideLowerFrame
  BY <1>1 DEF SafeBelowInv, PhaseInv, GoalsInv, GoalsOutsideLowerFrame, Blocking
<1>5. CollateralInv /\ TrueIsSound
  BY <1>1 DEF CollateralInv, TrueIsSound
<1>6. QED  BY <1>2, <1>3, <1>4, <1>5 DEF IInv

-----------------------------------------------------------------------------
(* The bounds that are done.                                               *)

\* A frame is pushed before reached_k_ is counted up.
DepthInv ==
  /\ reachedK <= frontier
  /\ pc = "propagate" => reachedK < frontier

\* No counterexample of at most reached_k_ steps, as long as no signal came:
\* "the last bound reached with no counterexamples" (prover.h).
ReachedIsClear ==
  ~terminate => \A n \in 0..reachedK :
    ~ \E path \in Paths(sys, n) : path[0] \in sys.init /\ path[n] \in sys.bad

LEMMA DepthStep ==
  ASSUME IInv, DepthInv, [SharedNext]_vars
  PROVE  DepthInv'
<1>1. reachedK \in Int /\ frontier \in Nat \ {0} /\ (reachedK < 1 => frontier = 1)
  BY DEF IInv, TypeOK, PhaseInv
<1>2. CASE StepBaseHolds
  <2>1. reachedK' = 1 /\ frontier' = frontier /\ pc' = "loop"
    BY <1>2 DEF StepBaseHolds, InLoop, frameVars
  <2>2. QED  BY <1>1, <2>1 DEF DepthInv
<1>3. CASE SomeInitStepsIntoBad
  <2>1. reachedK' = 0 /\ frontier' = frontier /\ pc' = "refine"
    BY <1>3 DEF SomeInitStepsIntoBad, frameVars
  <2>2. QED  BY <1>1, <2>1 DEF DepthInv
<1>4. CASE BlockedAll \/ TerminateBlocking
  <2>1. frontier' = frontier + 1 /\ reachedK' = reachedK
    BY <1>4 DEF BlockedAll, TerminateBlocking, StartPropagation, PushFrame, callVars
  <2>2. QED  BY <1>1, <2>1 DEF DepthInv
<1>5. CASE PropagationDone
  <2>1. pc = "propagate" /\ reachedK' = reachedK + 1 /\ frontier' = frontier /\ pc' = "loop"
    BY <1>5 DEF PropagationDone
  <2>2. QED  BY <1>1, <2>1 DEF DepthInv
<1>6. CASE /\ UNCHANGED <<reachedK, frontier>>
           /\ pc' = "propagate" => pc = "propagate"
  BY <1>6 DEF DepthInv
<1>7. QED  BY <1>2, <1>3, <1>4, <1>5, <1>6, DepthCases DEF IInv

\* A path from an initial state passes through the frames one by one, and no
\* frame below the last steps into bad.
LEMMA DepthClears ==
  ASSUME IInv, DepthInv
  PROVE  ReachedIsClear
<1> USE DEF IInv
<1> SUFFICES ASSUME ~terminate, NEW n \in 0..reachedK, NEW path \in Paths(sys, n),
                    path[0] \in sys.init, path[n] \in sys.bad
             PROVE  FALSE
  BY DEF ReachedIsClear
<1>1. n \in Nat /\ n <= reachedK /\ reachedK \in Nat /\ n <= frontier /\ frontier \in Nat \ {0}
  BY DEF TypeOK, DepthInv
<1>2. sys.trans \subseteq trans
  BY DEF AbstractionInv
<1>3. CASE n = 0
  BY <1>1, <1>3 DEF SafeBelowInv
<1>4. CASE n # 0
  <2> DEFINE m == n - 1
             T == { k \in Nat : path[k] \in F(k) }
  <2>1. m \in Nat /\ m + 1 = n /\ m < frontier /\ reachedK >= 1 /\ n \in 0..n
    BY <1>1, <1>4
  <2>2. 0 \in T
    <3>1. sys.init \subseteq F(0)
      BY <2>1, InitInFrames
    <3>2. QED  BY <3>1
  <2>3. \A k \in 0..m : k \in T /\ k + 1 \in 0..m => k + 1 \in T
    <3> SUFFICES ASSUME NEW k \in 0..m, k \in T, k + 1 \in 0..m
                 PROVE  path[k + 1] \in F(k + 1)
      OBVIOUS
    <3>1. k \in 0..n /\ k + 1 \in 0..n /\ k + 1 \in 1..frontier /\ (k + 1) - 1 = k
      BY <1>1, <2>1
    <3> DEFINE e == <<path[k], path[k + 1]>>
    <3>2. e \in trans /\ e[1] \in F((k + 1) - 1)
      BY <1>2, <3>1 DEF Paths
    <3> HIDE DEF e
    <3>3. e[2] \in F(k + 1)
      BY <2>1, <3>1, <3>2, Consecution
    <3>4. QED  BY <3>3 DEF e
  <2>4. m \in T
    <3>1. 0..m \subseteq T
      <4> HIDE DEF T, m
      <4>1. QED  BY <2>1, <2>2, <2>3, IntervalInduction
    <3>2. QED  BY <2>1, <3>1
  <2>5. <<path[m], path[n]>> \in sys.trans
    <3>1. m \in 0..n /\ m + 1 \in 0..n
      BY <1>1, <2>1
    <3>2. <<path[m], path[m + 1]>> \in sys.trans
      BY <3>1 DEF Paths
    <3>3. QED  BY <2>1, <3>2
  <2>6. Steps(F(m), sys.bad)
    BY <1>2, <2>4, <2>5 DEF Steps
  <2>7. m \in 0..frontier - 1
    BY <1>1, <2>1
  <2>8. QED  BY <2>1, <2>6, <2>7 DEF SafeBelowInv
<1>5. QED  BY <1>3, <1>4

-----------------------------------------------------------------------------
(* The steps of IC3Base are shared ones.                                   *)

\* A cube of the model, or a generalised one, is a substitute.
LEMMA PredecessorsSubstitute ==
  ASSUME TypeOK, NEW k, NEW c, NEW s \in States
  PROVE  Predecessors(k, c, s) \subseteq Substitutes(k, c, s)
<1> SUFFICES ASSUME NEW p \in Predecessors(k, c, s)
             PROVE  p \in Substitutes(k, c, s)
  OBVIOUS
<1>1. /\ preds \in SUBSET SUBSET States
      /\ ModelCube(preds, s) \subseteq Lits(preds)
      /\ s \in Cube(ModelCube(preds, s))
      /\ \A u \in Cube(ModelCube(preds, s)) : Agree(preds, s, u)
  BY ModelCubeAgree DEF TypeOK
<1>2. CASE k = 1 \/ ~PreGen
  BY <1>1, <1>2 DEF Predecessors, Substitutes
<1>3. CASE ~(k = 1 \/ ~PreGen)
  <2>1. p \subseteq ModelCube(preds, s)
    BY <1>3 DEF Predecessors
  <2>2. ASSUME NEW u \in Cube(p)
        PROVE  Steps({u}, Cube(c))
    <3>1. CASE sys.det
      BY <1>3, <3>1 DEF Predecessors
    <3>2. CASE ~sys.det
      <4>1. PICK t \in Cube(c) : <<u, t>> \in trans
        BY <1>3, <3>2 DEF Predecessors
      <4>2. QED  BY <4>1 DEF Steps
    <3>3. QED  BY <3>1, <3>2
  <2>3. p \in SUBSET Lits(preds) /\ k # 1 /\ PreGen
    BY <1>1, <1>3, <2>1, OptionsAssumption
  <2>4. QED  BY <2>2, <2>3 DEF Substitutes
<1>4. QED  BY <1>2, <1>3

\* A core of a blocked goal is a generalisation of it.
LEMMA CoresGeneralize ==
  ASSUME NEW k, NEW c \in SUBSET Lits(preds)
  PROVE  Cores(k, c) \subseteq Generalizations(k, c)
<1> SUFFICES ASSUME NEW d \in Cores(k, c)
             PROVE  d \in Generalizations(k, c)
  OBVIOUS
<1>1. /\ d \subseteq c
      /\ ~Steps(F(k - 1) \ Cube(c), Cube(d))
      /\ IntersectsInit(d) => IntersectsInit(c)
  BY DEF Cores
<1>2. Cube(c) \subseteq Cube(d)
  BY <1>1, CubeAntitone
<1>3. RelInd(k, d)
  BY <1>1, <1>2 DEF RelInd, Steps
<1>4. QED  BY <1>1, <1>2, <1>3 DEF Generalizations

\* So every step of a running call is a shared one.
LEMMA SearchIsShared ==
  ASSUME IInv, SearchStep
  PROVE  SharedNext
<1> USE DEF IInv
<1>1. CASE InitStepsIntoBad
  <2>1. PICK s \in sys.init : Steps({s}, sys.bad) /\ cex' = <<ModelCube(preds, s), BadCube>>
    BY <1>1 DEF InitStepsIntoBad
  <2>2. /\ ModelCube(preds, s) \in Cubes
        /\ \A u \in Cube(ModelCube(preds, s)) : Agree(preds, s, u)
    <3>1. s \in States /\ preds \in SUBSET SUBSET States
      BY BadCubeType DEF SystemType, TypeOK
    <3>2. ModelCube(preds, s) \in Cubes
      BY <3>1 DEF ModelCube, Neg, Cubes
    <3>3. QED  BY <3>1, <3>2, ModelCubeAgree
  <2>3. SomeInitStepsIntoBad
    BY <1>1, <2>1, <2>2 DEF InitStepsIntoBad, SomeInitStepsIntoBad
  <2>4. QED  BY <2>3 DEF SharedNext
<1>2. CASE ReachesBadGoal
  <2>1. \A s \in Models(frontier + 1, BadCube) : s \in States
    BY DEF Models, F, FrameStates
  <2>2. SomeReachesBadGoal
    BY <1>2, <2>1, PredecessorsSubstitute DEF ReachesBadGoal, SomeReachesBadGoal
  <2>3. QED  BY <2>2 DEF SharedNext
<1>3. ASSUME NEW g \in goals, GoalBlocked(g)
      PROVE  SharedNext
  <2>1. Target(g) \in SUBSET Lits(preds)
    BY DEF GoalsInv
  <2>2. PICK c \in Cores(g.idx, Target(g)) :
          cur' = [trace |-> g.trace, cube |-> c, idx |-> g.idx, needed |-> {}]
    BY <1>3 DEF GoalBlocked
  <2>3. c \in Generalizations(g.idx, Target(g))
    BY <2>1, <2>2, CoresGeneralize
  <2>4. SomeGoalBlocked(g)
    BY <1>3, <2>2, <2>3 DEF GoalBlocked, SomeGoalBlocked
  <2>5. QED  BY <2>4 DEF SharedNext
<1>4. ASSUME NEW g \in goals, GoalPredecessor(g)
      PROVE  SharedNext
  <2>1. \A s \in Models(g.idx, Target(g)) : s \in States
    BY DEF Models, F, FrameStates
  <2>2. SomeGoalPredecessor(g)
    BY <1>4, <2>1, PredecessorsSubstitute DEF GoalPredecessor, SomeGoalPredecessor
  <2>3. QED  BY <2>2 DEF SharedNext
<1>5. CASE CommonStep
  BY <1>5 DEF SharedNext
<1>6. QED  BY <1>1, <1>2, <1>3, <1>4, <1>5 DEF SearchStep, CommonStep

-----------------------------------------------------------------------------
(* IC3 and IC3 over words.                                                 *)

\* The call runs on the given system, its states told apart by the cubes.
ConcreteInv ==
  /\ trans = sys.trans
  /\ Separating(preds)

\* From every state of the cube some n steps lead into bad.
LeadsToBad(c, n) == Cube(c) \subseteq Starts(sys, sys.bad, n)

\* From every state of its first cube there is a step into its second, or bad.
StepsOn(trace) ==
  \A u \in Cube(trace[1]) :
    Steps({u}, IF Len(trace) > 1 THEN Cube(trace[2]) ELSE sys.bad)

\* A target is as many steps from bad as its trace is long, by way of the next
\* one, and the trace that is reported is as long as a counterexample.
TracesInv ==
  /\ \A g \in goals : LeadsToBad(Target(g), Len(g.trace)) /\ StepsOn(g.trace)
  /\ pc \in {"indgen", "highest"} =>
       LeadsToBad(cur.trace[1], Len(cur.trace)) /\ StepsOn(cur.trace)
  /\ pc = "refine" \/ result = "FALSE" =>
       /\ Len(cex) - 1 \in Nat
       /\ sys.init \cap Starts(sys, sys.bad, Len(cex) - 1) # {}

IC3Inv == IInv /\ ConcreteInv /\ TracesInv

-----------------------------------------------------------------------------
(* Initial states.                                                         *)

\* Predicates that tell all states apart determine every set.
LEMMA SeparatingDefines ==
  ASSUME NEW P, Separating(P), NEW X
  PROVE  Definable(X, P)
BY DEF Separating, Definable

LEMMA ConcreteInit ==
  ASSUME BaseInit, ConcreteInv, preds \in SUBSET SUBSET States
  PROVE  IC3Inv
<1>1. sys \in SystemType
  BY SystemsAssumption DEF BaseInit
<1>2. AbstractionInv
  BY SeparatingDefines DEF ConcreteInv, AbstractionInv
<1>3. trans \in SUBSET (States \X States)
  BY <1>1 DEF ConcreteInv, SystemType
<1>4. IInv
  BY <1>2, <1>3, BaseInitInv
<1>5. TracesInv
  BY DEF BaseInit, TracesInv
<1>6. QED  BY <1>4, <1>5 DEF IC3Inv

-----------------------------------------------------------------------------
(* Targets lead to bad.                                                    *)

\* No steps lead from the bad states into bad, and one step more than from
\* its successors from a state.
LEMMA BadDistances ==
  ASSUME TypeOK, trans = sys.trans
  PROVE  /\ Starts(sys, sys.bad, 0) = sys.bad
         /\ \A n \in Nat : \A e \in trans :
              e[2] \in Starts(sys, sys.bad, n) => e[1] \in Starts(sys, sys.bad, n + 1)
<1>1. sys.trans \subseteq States \X States /\ sys.bad \in SUBSET States
  BY SystemsAssumption DEF TypeOK, SystemType
<1>2. /\ Starts(sys, sys.bad, 0) = sys.bad
      /\ \A n \in Nat : Starts(sys, sys.bad, n + 1) = PreOf(sys, Starts(sys, sys.bad, n))
  BY <1>1, StartsStep
<1>3. ASSUME NEW n \in Nat, NEW e \in trans, e[2] \in Starts(sys, sys.bad, n)
      PROVE  e[1] \in PreOf(sys, Starts(sys, sys.bad, n))
  <2>1. e = <<e[1], e[2]>> /\ e[1] \in States
    BY <1>1
  <2> QED
    BY <1>3, <2>1 DEF PreOf
<1> QED
  BY <1>2, <1>3

\* Predecessors of a target are one step further away, generalised or not.
LEMMA PredecessorLeads ==
  ASSUME TypeOK, ConcreteInv, NEW k, NEW T, NEW n \in Nat, LeadsToBad(T, n),
         NEW s \in Models(k, T), NEW p \in Substitutes(k, T, s)
  PROVE  /\ LeadsToBad(p, n + 1)
         /\ \A u \in Cube(p) : Steps({u}, Cube(T))
<1>1. s \in States /\ Steps({s}, Cube(T))
  BY DEF Models, F, FrameStates
<1>2. ASSUME NEW u \in Cube(p)
      PROVE  Steps({u}, Cube(T))
  <2>1. CASE Agree(preds, s, u)
    <3>1. u = s
      BY <1>1, <2>1 DEF ConcreteInv, Separating, Cube
    <3>2. QED  BY <1>1, <3>1
  <2>2. QED  BY <2>1 DEF Substitutes
<1>3. ASSUME NEW u \in Cube(p)
      PROVE  u \in Starts(sys, sys.bad, n + 1)
  <2>1. PICK e \in trans : e[1] = u /\ e[2] \in Cube(T)
    BY <1>2 DEF Steps
  <2>2. QED  BY <2>1, BadDistances DEF ConcreteInv, LeadsToBad
<1>4. QED  BY <1>2, <1>3 DEF LeadsToBad

\* What TracesInv says of a goal or the collateral of one.
GoodTrace(trace) == LeadsToBad(trace[1], Len(trace)) /\ StepsOn(trace)

\* A trace of one cube steps into bad; one that is put before a trace, into it.
LEMMA TraceExtends ==
  ASSUME IC3Inv, NEW c \in Cubes
  PROVE  /\ \A k : \A s \in Models(k, BadCube) :
              c \in Substitutes(k, BadCube, s) => GoodTrace(<<c>>)
         /\ \A k : \A trace \in Seq(Cubes) : \A s \in Models(k, trace[1]) :
              /\ c \in Substitutes(k, trace[1], s)
              /\ Len(trace) > 0 /\ GoodTrace(trace)
              => GoodTrace(<<c>> \o trace)
<1> USE DEF IC3Inv
<1>1. TypeOK /\ trans = sys.trans /\ Cube(BadCube) = sys.bad
  BY BadCubeType DEF IInv, ConcreteInv
<1>2. LeadsToBad(BadCube, 0)
  BY <1>1, BadDistances DEF LeadsToBad
<1>3. ASSUME NEW k, NEW s \in Models(k, BadCube), c \in Substitutes(k, BadCube, s)
      PROVE  GoodTrace(<<c>>)
  <2>1. LeadsToBad(c, 0 + 1) /\ \A u \in Cube(c) : Steps({u}, sys.bad)
    BY <1>1, <1>2, <1>3, PredecessorLeads
  <2>2. <<c>>[1] = c /\ Len(<<c>>) = 0 + 1 /\ ~(Len(<<c>>) > 1)
    OBVIOUS
  <2>3. QED  BY <2>1, <2>2 DEF GoodTrace, StepsOn
<1>4. ASSUME NEW k, NEW trace \in Seq(Cubes), NEW s \in Models(k, trace[1]),
             c \in Substitutes(k, trace[1], s), Len(trace) > 0, GoodTrace(trace)
      PROVE  GoodTrace(<<c>> \o trace)
  <2>1. Len(trace) \in Nat
    OBVIOUS
  <2>2. LeadsToBad(c, Len(trace) + 1) /\ \A u \in Cube(c) : Steps({u}, Cube(trace[1]))
    BY <1>1, <1>4, <2>1, PredecessorLeads DEF GoodTrace
  <2>3. /\ (<<c>> \o trace)[1] = c /\ (<<c>> \o trace)[2] = trace[1]
        /\ Len(<<c>> \o trace) = Len(trace) + 1 /\ Len(<<c>> \o trace) > 1
    BY <1>4
  <2> DEFINE longer == <<c>> \o trace
  <2>4. longer[1] = c /\ longer[2] = trace[1] /\ Len(longer) = Len(trace) + 1 /\ Len(longer) > 1
    BY <2>3
  <2> HIDE DEF longer
  <2>5. GoodTrace(longer)
    BY <2>2, <2>4 DEF GoodTrace, StepsOn
  <2>6. QED  BY <2>5 DEF longer
<1>5. QED  BY <1>3, <1>4

LEMMA GoalTracesStep ==
  ASSUME IC3Inv, [SharedNext]_vars, NEW h \in goals'
  PROVE  GoodTrace(h.trace)
<1> USE DEF IC3Inv
<1>1. TypeOK /\ sys \in SystemType
  BY BadCubeType DEF IInv
<1>2. \A k, c, s : Substitutes(k, c, s) \subseteq Cubes
  BY <1>1 DEF TypeOK, Substitutes, Lits, Neg, Cubes
<1>3. \A g \in goals : GoodTrace(g.trace) /\ g.trace \in Seq(Cubes) /\ Len(g.trace) > 0
  BY <1>1 DEF TracesInv, GoodTrace, Target, IInv, GoalsInv, TypeOK, GoalType
<1>4. CASE SomeReachesBadGoal
  <2>1. PICK s \in Models(frontier + 1, BadCube) :
          \E c \in Substitutes(frontier + 1, BadCube, s) :
            goals' = {[idx |-> frontier, trace |-> <<c>>]}
    BY <1>4 DEF SomeReachesBadGoal
  <2>2. PICK c \in Substitutes(frontier + 1, BadCube, s) :
          goals' = {[idx |-> frontier, trace |-> <<c>>]}
    BY <2>1
  <2>3. h.trace = <<c>> /\ c \in Cubes
    BY <1>2, <2>2
  <2>4. QED  BY <2>2, <2>3, TraceExtends
<1>5. ASSUME NEW g \in goals, SomeGoalPredecessor(g), h \notin goals
      PROVE  GoodTrace(h.trace)
  <2>1. PICK s \in Models(g.idx, Target(g)) :
          \E c \in Substitutes(g.idx, Target(g), s) :
            goals' = goals \cup {[idx |-> g.idx - 1, trace |-> <<c>> \o g.trace]}
    BY <1>5 DEF SomeGoalPredecessor
  <2>2. PICK c \in Substitutes(g.idx, Target(g), s) :
          goals' = goals \cup {[idx |-> g.idx - 1, trace |-> <<c>> \o g.trace]}
    BY <2>1
  <2>3. h.trace = <<c>> \o g.trace /\ c \in Cubes
    BY <1>2, <1>5, <2>2
  <2>4. Target(g) = g.trace[1]
    BY DEF Target
  <2>5. GoodTrace(<<c>> \o g.trace)
    BY <1>3, <2>1, <2>2, <2>3, <2>4, TraceExtends
  <2>6. QED  BY <2>3, <2>5
<1>6. CASE LearnClause
  <2>1. /\ pc = "highest"
        /\ h \in goals \/ h = [idx |-> cur.idx + 1, trace |-> cur.trace]
    BY <1>6 DEF LearnClause
  <2>2. CASE h \in goals
    BY <1>3, <2>2
  <2>3. CASE h = [idx |-> cur.idx + 1, trace |-> cur.trace]
    BY <2>1, <2>3 DEF TracesInv, GoodTrace
  <2>4. QED  BY <2>1, <2>2, <2>3
<1>7. CASE h \in goals
  BY <1>3, <1>7
<1>8. QED  BY <1>4, <1>5, <1>6, <1>7, GoalCases

LEMMA CollateralTraceStep ==
  ASSUME IC3Inv, [SharedNext]_vars, pc' \in {"indgen", "highest"}
  PROVE  GoodTrace(cur'.trace)
<1> USE DEF IC3Inv
<1>1. TypeOK
  BY DEF IInv
<1>2. ASSUME NEW g \in goals, SomeGoalBlocked(g)
      PROVE  GoodTrace(cur'.trace)
  <2>1. cur'.trace = g.trace
    BY <1>2 DEF SomeGoalBlocked
  <2>2. QED  BY <2>1 DEF TracesInv, GoodTrace, Target
<1>3. ASSUME pc \in {"indgen", "highest"}, cur'.trace = cur.trace
      PROVE  GoodTrace(cur'.trace)
  BY <1>3 DEF TracesInv, GoodTrace
<1>4. ASSUME NEW l \in cur.cube, DropLiteral(l) \/ KeepLiteral(l)
      PROVE  pc \in {"indgen", "highest"} /\ cur'.trace = cur.trace
  BY <1>1, <1>4 DEF DropLiteral, KeepLiteral, TypeOK
<1>5. CASE GeneralizationDone \/ PushCollateral
  <2>1. pc \in {"indgen", "highest"} /\ cur'.trace = cur.trace
    BY <1>1, <1>5 DEF GeneralizationDone, PushCollateral, blockVars, TypeOK
  <2>2. QED  BY <1>3, <2>1
<1>6. CASE UNCHANGED <<sys, preds, trans, pc, frameVars, cur>>
  BY <1>3, <1>6
<1>7. QED  BY <1>2, <1>3, <1>4, <1>5, <1>6, CollateralCases

LEMMA CexStep ==
  ASSUME IC3Inv, [SharedNext]_vars, pc' = "refine" \/ result' = "FALSE"
  PROVE  /\ Len(cex') - 1 \in Nat
         /\ sys.init \cap Starts(sys, sys.bad, Len(cex') - 1) # {}
<1> USE DEF IC3Inv
<1>1. TypeOK /\ Cube(BadCube) = sys.bad /\ trans = sys.trans
  BY BadCubeType DEF IInv, ConcreteInv
<1>2. CASE InitIsBad
  <2>1. Cube(BadCube) \cap sys.init # {} /\ cex' = <<BadCube>>
    BY <1>2 DEF InitIsBad, IntersectsInit
  <2>2. Len(cex') - 1 = 0
    BY <2>1
  <2>3. QED  BY <1>1, <2>1, <2>2, BadDistances
<1>3. CASE SomeInitStepsIntoBad
  <2>1. PICK s \in sys.init : Steps({s}, sys.bad)
    BY <1>3 DEF SomeInitStepsIntoBad
  <2>2. PICK e \in trans : e[1] = s /\ e[2] \in sys.bad
    BY <2>1 DEF Steps
  <2>3. Len(cex') - 1 = 1
    <3>1. PICK c \in Cubes : cex' = <<c, BadCube>>
      BY <1>3 DEF SomeInitStepsIntoBad
    <3>2. QED  BY <3>1
  <2>4. s \in Starts(sys, sys.bad, 0 + 1)
    BY <1>1, <2>2, BadDistances
  <2> DEFINE n == Len(cex') - 1
  <2>5. n = 0 + 1
    BY <2>3
  <2> HIDE DEF n
  <2>6. n \in Nat /\ s \in Starts(sys, sys.bad, n)
    BY <2>4, <2>5
  <2>7. QED  BY <2>6 DEF n
<1>4. ASSUME NEW g \in goals, GoalInitial(g)
      PROVE  /\ Len(cex') - 1 \in Nat
             /\ sys.init \cap Starts(sys, sys.bad, Len(cex') - 1) # {}
  <2>1. ~terminate /\ g.idx = 0 /\ cex' = Append(g.trace, BadCube)
    BY <1>4 DEF GoalInitial, Handle
  <2>2. IntersectsInit(Target(g)) /\ LeadsToBad(Target(g), Len(g.trace))
    BY <2>1 DEF IInv, GoalsOutsideLowerFrame, TracesInv
  <2>3. g.trace \in Seq(Cubes)
    BY <1>1 DEF TypeOK, GoalType
  <2>4. Len(cex') - 1 = Len(g.trace) /\ Len(g.trace) \in Nat
    BY <2>1, <2>3
  <2>5. QED  BY <2>2, <2>4 DEF IntersectsInit, LeadsToBad
<1>5. CASE /\ pc' = "refine" => pc = "refine"
           /\ result' = "FALSE" => pc = "refine" \/ result = "FALSE"
           /\ cex' = cex
  BY <1>5 DEF TracesInv
<1>6. QED  BY <1>2, <1>3, <1>4, <1>5, RefineCases DEF ReturnFalse

LEMMA TracesStep ==
  ASSUME IC3Inv, [SharedNext]_vars
  PROVE  TracesInv'
<1>1. UNCHANGED <<sys, preds, trans>>
  BY FrameCases DEF IC3Inv, IInv
<1>2. \A c, n : LeadsToBad(c, n)' <=> LeadsToBad(c, n)
  BY <1>1 DEF LeadsToBad, Starts
<1>3. \A trace : StepsOn(trace)' <=> StepsOn(trace)
  BY <1>1 DEF StepsOn, Steps
<1>4. \A h \in goals' : (LeadsToBad(Target(h), Len(h.trace)) /\ StepsOn(h.trace))'
  BY <1>2, <1>3, GoalTracesStep DEF Target, GoodTrace
<1>5. pc' \in {"indgen", "highest"} =>
        (LeadsToBad(cur.trace[1], Len(cur.trace)) /\ StepsOn(cur.trace))'
  BY <1>2, <1>3, CollateralTraceStep DEF GoodTrace
<1>6. (sys.init \cap Starts(sys, sys.bad, Len(cex) - 1))' =
         sys.init \cap Starts(sys, sys.bad, Len(cex') - 1)
  BY <1>1 DEF Starts
<1>7. QED  BY <1>4, <1>5, <1>6, CexStep DEF TracesInv

\* Every shared step keeps the invariant.
LEMMA StepInv ==
  ASSUME IC3Inv, [SharedNext]_vars
  PROVE  IC3Inv'
<1>1. IInv'
  BY SharedStep DEF IC3Inv
<1>2. ConcreteInv'
  BY FrameCases DEF IC3Inv, IInv, ConcreteInv, Separating, Agree
<1>3. TracesInv'
  BY TracesStep
<1>4. QED  BY <1>1, <1>2, <1>3 DEF IC3Inv

-----------------------------------------------------------------------------
(* What the invariant implies.                                             *)

\* A counterexample refutes that the system is safe.
FalseIsSound == result = "FALSE" => ~Safe(sys)

LEMMA InvariantImplies ==
  ASSUME IC3Inv
  PROVE  /\ TypeOK /\ FramesSound /\ LabelsMatchFrames /\ GoalsOutsideLowerFrame
         /\ TrueIsSound /\ FalseHasWitness /\ FalseIsSound /\ GoalsStepOn
<1> USE DEF IC3Inv
<1>1. TypeOK /\ FramesSound /\ LabelsMatchFrames /\ GoalsOutsideLowerFrame /\ TrueIsSound
  BY LabelsAgree DEF IInv
<1>2. FalseHasWitness
  BY DEF TracesInv, FalseHasWitness, Starts
<1>3. GoalsStepOn
  BY DEF TracesInv, GoalsStepOn, StepsOn, Target
<1>4. ASSUME result = "FALSE", NEW X \in SUBSET States,
             Inductive(sys, X), X \cap sys.bad = {}
      PROVE  FALSE
  <2> DEFINE n == Len(cex) - 1
  <2>1. n \in Nat
    BY <1>4 DEF TracesInv
  <2>2. PICK p \in Paths(sys, n) : p[0] \in sys.init /\ p[n] \in sys.bad
    BY <1>2, <1>4 DEF FalseHasWitness
  <2>3. (\A e \in sys.trans : e[1] \in X => e[2] \in X) /\ p[0] \in X
    BY <1>4, <2>2 DEF Inductive
  <2> HIDE DEF n
  <2>4. \A t \in 0..n : p[t] \in X
    BY <2>1, <2>2, <2>3, PathStays
  <2>5. QED  BY <1>4, <2>1, <2>2, <2>4
<1>5. QED  BY <1>1, <1>2, <1>3, <1>4 DEF FalseIsSound, Safe

LEMMA InvariantStrengthens ==
  ASSUME IC3Inv, [SharedNext]_vars
  PROVE  [ /\ \A k \in 0..frontier : F(k)' \subseteq F(k)
           /\ reachedK' >= reachedK ]_vars
<1>1. /\ \A k \in Nat : F(k)' \subseteq F(k)
      /\ reachedK' >= reachedK
  BY FramesStep DEF IC3Inv
<1>2. QED  BY <1>1 DEF IC3Inv, IInv, TypeOK

-----------------------------------------------------------------------------
(* Bit-level IC3.                                                          *)

LEMMA InitInv ==
  ASSUME Init
  PROVE  IC3Inv
<1>1. sys \in SystemType
  BY SystemsAssumption DEF Init, BaseInit
<1>2. ConcreteInv /\ preds \in SUBSET SUBSET States
  BY <1>1 DEF Init, ConcreteInv, SystemType
<1>3. QED  BY <1>2, ConcreteInit DEF Init

LEMMA NextIsShared ==
  ASSUME IC3Inv, [Next]_vars
  PROVE  [SharedNext]_vars
BY SearchIsShared DEF IC3Inv, Next, SharedNext, CommonStep

\* The inductive invariant holds in every reachable state.
THEOREM Invariance == Spec => []IC3Inv
<1>1. Init => IC3Inv
  BY InitInv
<1>2. IC3Inv /\ [Next]_vars => IC3Inv'
  BY NextIsShared, StepInv
<1>3. QED  BY <1>1, <1>2, PTL DEF Spec

\* The state stays well typed.
THEOREM TypeCorrect == Spec => []TypeOK
<1>1. IC3Inv => TypeOK
  BY InvariantImplies
<1>2. QED  BY <1>1, Invariance, PTL

\* Clauses under a frame label stay inductive relative to the frame below,
\* through learning, propagation, resets and signals.
THEOREM FramesAreSound == Spec => []FramesSound
<1>1. IC3Inv => FramesSound
  BY InvariantImplies
<1>2. QED  BY <1>1, Invariance, PTL

\* The solver and frames_ describe the same frames.
THEOREM LabelsAgreeAlways == Spec => []LabelsMatchFrames
<1>1. IC3Inv => LabelsMatchFrames
  BY InvariantImplies
<1>2. QED  BY <1>1, Invariance, PTL

\* The assertions of rel_ind_check hold for every pending goal.
THEOREM GoalsAreOutside == Spec => []GoalsOutsideLowerFrame
<1>1. IC3Inv => GoalsOutsideLowerFrame
  BY InvariantImplies
<1>2. QED  BY <1>1, Invariance, PTL

\* What is asked of predecessor_generalization: from every state of a goal
\* there is a step into the goal it was made for.
THEOREM GoalsAlwaysStepOn == Spec => []GoalsStepOn
<1>1. IC3Inv => GoalsStepOn
  BY InvariantImplies
<1>2. QED  BY <1>1, Invariance, PTL

\* TRUE without a signal means safe, with an inductive invariant.
THEOREM TrueIsRight == Spec => []TrueIsSound
<1>1. IC3Inv => TrueIsSound
  BY InvariantImplies
<1>2. QED  BY <1>1, Invariance, PTL

\* FALSE means a counterexample of witness_length() steps, so that the last
\* query of compute_witness has a model.
THEOREM FalseIsWitnessed == Spec => []FalseHasWitness
<1>1. IC3Inv => FalseHasWitness
  BY InvariantImplies
<1>2. QED  BY <1>1, Invariance, PTL

\* And that the system is not safe.
THEOREM FalseIsRight == Spec => []FalseIsSound
<1>1. IC3Inv => FalseIsSound
  BY InvariantImplies
<1>2. QED  BY <1>1, Invariance, PTL

\* reached_k_ counts bounds that have no counterexample: depth is only given for
\* frames that were blocked.
THEOREM ReachedClear == Spec => []ReachedIsClear
<1>1. Init => DepthInv
  BY DEF Init, BaseInit, DepthInv
<1>2. IC3Inv /\ DepthInv /\ [Next]_vars => DepthInv'
  BY NextIsShared, DepthStep DEF IC3Inv
<1>3. IC3Inv /\ DepthInv => ReachedIsClear
  BY DepthClears DEF IC3Inv
<1>4. QED  BY <1>1, <1>2, <1>3, Invariance, PTL DEF Spec

\* No step widens a frame or gives depth back.
THEOREM FramesStrengthen == Spec => FramesOnlyStrengthen
<1>1. ASSUME IC3Inv, [Next]_vars
      PROVE  [ /\ \A k \in 0..frontier : F(k)' \subseteq F(k)
               /\ reachedK' >= reachedK ]_vars
  BY <1>1, NextIsShared, InvariantStrengthens
<1>2. QED  BY <1>1, Invariance, PTL DEF Spec, FramesOnlyStrengthen
-----------------------------------------------------------------------------
(* IC3 over words: its cubes, predecessors and generalisations are shared  *)
(* ones, unless it takes the functional preimage.                          *)

LEMMA AtomsType ==
  /\ Atoms \in SUBSET SUBSET States
  /\ \A w \in mb.words : \A s \in States : EqualTo(w, w.value[s]) \in Atoms
  /\ \A v, w \in mb.words : Same(v, w) \in Atoms /\ NotAbove(v, w) \in Atoms
  /\ \A w \in mb.words : \A n \in 0..1 : EqualTo(w, n) \in Atoms
  /\ \A v, w \in mb.words : \A n \in Values(v) :
       AtMost(w, n) \in Atoms /\ AtLeast(w, n) \in Atoms
<1> DEFINE numbers == (UNION { Values(w) : w \in mb.words }) \cup 0..1
<1>1. Atoms = { EqualTo(w, n) : w \in mb.words, n \in numbers }
                \cup { AtMost(w, n) : w \in mb.words, n \in numbers }
                \cup { AtLeast(w, n) : w \in mb.words, n \in numbers }
                \cup { Same(v, w) : v, w \in mb.words }
                \cup { NotAbove(v, w) : v, w \in mb.words }
  BY DEF Atoms
<1> HIDE DEF numbers
<1>2. \A w \in mb.words : \A n \in Values(w) : n \in numbers
  <2>1. UNION { Values(w) : w \in mb.words } \subseteq numbers
    BY DEF numbers
  <2>2. \A w \in mb.words : Values(w) \in { Values(v) : v \in mb.words }
    OBVIOUS
  <2>3. QED  BY <2>1, <2>2
<1>3. /\ \A w \in mb.words : \A s \in States : w.value[s] \in numbers
      /\ \A n \in 0..1 : n \in numbers
  <2>1. \A w \in mb.words : \A s \in States : w.value[s] \in Values(w)
    BY DEF Values
  <2>2. \A n \in 0..1 : n \in numbers
    BY DEF numbers
  <2>3. QED  BY <1>2, <2>1, <2>2
<1>4. \A w \in mb.words : \A n \in numbers :
        EqualTo(w, n) \in Atoms /\ AtMost(w, n) \in Atoms /\ AtLeast(w, n) \in Atoms
  BY <1>1
<1>5. \A v, w \in mb.words : Same(v, w) \in Atoms /\ NotAbove(v, w) \in Atoms
  BY <1>1
<1>6. ASSUME NEW a \in Atoms
      PROVE  a \in SUBSET States
  <2>1. \/ \E w \in mb.words, n \in numbers :
             a = EqualTo(w, n) \/ a = AtMost(w, n) \/ a = AtLeast(w, n)
        \/ \E v, w \in mb.words : a = Same(v, w) \/ a = NotAbove(v, w)
    BY <1>1
  <2>2. QED  BY <2>1 DEF EqualTo, AtMost, AtLeast, Same, NotAbove
<1>7. QED  BY <1>2, <1>3, <1>4, <1>5, <1>6

\* The values of the words are the state.
LEMMA WordCubeExact ==
  ASSUME mb \in MbOptions, NEW s \in States
  PROVE  /\ Cube(WordCube(s)) = {s}
         /\ WordCube(s) \subseteq Atoms
<1>1. \A u \in States : (\A w \in mb.words : w.value[s] = w.value[u]) => s = u
  BY MbOptionsAssumption
<1>2. ASSUME NEW w \in mb.words
      PROVE  /\ Find(s, w) \in mb.words
             /\ s \in Same(Find(s, w), w)
  <2>1. w \in ClassOf(s, w)
    BY DEF ClassOf
  <2>2. Find(s, w) \in ClassOf(s, w)
    BY <2>1 DEF Find
  <2>3. QED  BY <2>2 DEF ClassOf, Same
<1>3. \A l \in WordCube(s) :
        \/ \E w \in mb.words : l = EqualTo(w, w.value[s])
        \/ \E w \in mb.words : l = Same(Find(s, w), w)
  BY DEF WordCube
<1>4. s \in Cube(WordCube(s))
  BY <1>2, <1>3 DEF EqualTo, Cube
<1>5. ASSUME NEW u \in Cube(WordCube(s))
      PROVE  u = s
  <2>1. \A w \in mb.words : EqualTo(w, w.value[s]) \in WordCube(s)
    BY DEF WordCube
  <2>2. \A w \in mb.words : w.value[u] = w.value[s]
    BY <2>1 DEF Cube, EqualTo
  <2>3. u \in States
    BY DEF Cube
  <2>4. QED  BY <1>1, <2>2, <2>3
<1>6. WordCube(s) \subseteq Atoms
  BY <1>2, <1>3, AtomsType
<1>7. QED  BY <1>4, <1>5, <1>6

\* Splitting the equalities of a cube weakens it, by other atoms.
LEMMA SplitWeakens ==
  ASSUME mb \in MbOptions, NEW c
  PROVE  /\ SplitEq(c) \subseteq Atoms \cup c
         /\ Cube(c) \subseteq Cube(SplitEq(c))
<1>1. \A w \in mb.words : \A s \in States : w.value[s] \in Nat
  BY MbOptionsAssumption DEF WordType
<1>2. ASSUME NEW l, NEW m \in SplitLiteral(l)
      PROVE  /\ m \in Atoms \/ m = l
             /\ \A s \in States : s \in l => s \in m
  <2> DEFINE values == UNION { Values(w) : w \in Numeric }
             byValue == { p \in Numeric \X values : l = EqualTo(p[1], p[2]) }
             byWord == { p \in Numeric \X Numeric :
                           p[1] # p[2] /\ p[1].sort = p[2].sort /\ l = Same(p[1], p[2]) }
             Bounds2(p) == {AtMost(p[1], p[2]), AtLeast(p[1], p[2])}
             Orders(p) == {NotAbove(p[1], p[2]), NotAbove(p[2], p[1])}
             Bs == { Bounds2(p) : p \in byValue }
             Os == { Orders(p) : p \in byWord }
  <2>1. SplitLiteral(l) = IF byValue \cup byWord = {} THEN {l}
                          ELSE (UNION Bs) \cup (UNION Os)
    BY DEF SplitLiteral
  <2>2. ASSUME NEW p \in byValue, m \in Bounds2(p)
        PROVE  /\ m \in Atoms
               /\ \A s \in States : s \in l => s \in m
    <3>1. p[1] \in Numeric /\ p[2] \in values /\ l = EqualTo(p[1], p[2])
      OBVIOUS
    <3>2. PICK v \in Numeric : p[2] \in Values(v)
      BY <3>1
    <3>3. v \in mb.words /\ p[1] \in mb.words
      BY <3>1 DEF Numeric
    <3>4. m \in Atoms
      BY <2>2, <3>2, <3>3, AtomsType
    <3>5. p[2] \in Nat
      BY <1>1, <3>2, <3>3 DEF Values
    <3>6. ASSUME NEW s \in States, s \in l
          PROVE  s \in m
      <4>1. p[1].value[s] = p[2]
        BY <3>1, <3>6 DEF EqualTo
      <4>2. p[1].value[s] <= p[2] /\ p[1].value[s] >= p[2]
        BY <3>5, <4>1
      <4>3. QED  BY <2>2, <4>2 DEF AtMost, AtLeast
    <3>7. QED  BY <3>4, <3>6
  <2>3. ASSUME NEW p \in byWord, m \in Orders(p)
        PROVE  /\ m \in Atoms
               /\ \A s \in States : s \in l => s \in m
    <3>1. p[1] \in mb.words /\ p[2] \in mb.words /\ l = Same(p[1], p[2])
      BY DEF Numeric
    <3>2. m \in Atoms
      BY <2>3, <3>1, AtomsType
    <3>3. ASSUME NEW s \in States, s \in l
          PROVE  s \in m
      <4>1. p[1].value[s] = p[2].value[s] /\ p[1].value[s] \in Nat
        BY <1>1, <3>1, <3>3 DEF Same
      <4>2. p[1].value[s] <= p[2].value[s] /\ p[2].value[s] <= p[1].value[s]
        BY <4>1
      <4>3. QED  BY <2>3, <4>2 DEF NotAbove
    <3>4. QED  BY <3>2, <3>3
  <2> HIDE DEF byValue, byWord, Bounds2, Orders, Bs, Os
  <2>4. \/ m = l
        \/ \E p \in byValue : m \in Bounds2(p)
        \/ \E p \in byWord : m \in Orders(p)
    <3>1. CASE byValue \cup byWord = {}
      <4>1. m \in {l}
        BY <1>2, <2>1, <3>1
      <4>2. QED  BY <4>1
    <3>2. CASE byValue \cup byWord # {}
      <4>1. m \in UNION Bs \/ m \in UNION Os
        BY <1>2, <2>1, <3>2
      <4>2. /\ \A X \in Bs : \E p \in byValue : X = Bounds2(p)
            /\ \A X \in Os : \E p \in byWord : X = Orders(p)
        BY DEF Bs, Os
      <4>3. QED  BY <4>1, <4>2
    <3>3. QED  BY <3>1, <3>2
  <2>5. QED  BY <2>2, <2>3, <2>4
<1>3. \A m \in SplitEq(c) : \E l \in c : m \in SplitLiteral(l)
  BY DEF SplitEq
<1>4. QED  BY <1>2, <1>3 DEF Cube

\* A cube made for a model stands for it, or for states that step into the
\* goal, although it may be split and reduced.
LEMMA WordPredecessorsSubstitute ==
  ASSUME TypeOK, mb \in MbOptions, ~mb.preimage, preds = Atoms,
         NEW k, NEW c, NEW s \in States
  PROVE  WordPredecessors(k, c, s) \subseteq Substitutes(k, c, s)
<1> SUFFICES ASSUME NEW p \in WordPredecessors(k, c, s)
             PROVE  p \in Substitutes(k, c, s)
  OBVIOUS
<1>1. Cube(WordCube(s)) = {s} /\ WordCube(s) \subseteq preds /\ preds \subseteq Lits(preds)
  BY WordCubeExact DEF Lits
<1>2. CASE k = 1 \/ ~PreGen
  <2>1. p = WordCube(s)
    BY <1>2 DEF WordPredecessors
  <2>2. s \in Cube(p) /\ \A u \in Cube(p) : Agree(preds, s, u)
    BY <1>1, <2>1 DEF Agree
  <2>3. QED  BY <1>1, <2>1, <2>2 DEF Substitutes
<1>3. CASE ~(k = 1 \/ ~PreGen)
  <2>1. p \subseteq SplitEq(WordCube(s))
    BY <1>3 DEF WordPredecessors
  <2>2. p \subseteq preds
    BY <1>1, <2>1, SplitWeakens
  <2>3. ASSUME NEW u \in Cube(p)
        PROVE  Steps({u}, Cube(c))
    <3>1. CASE sys.det
      BY <1>3, <3>1 DEF WordPredecessors
    <3>2. CASE ~sys.det
      <4>1. PICK t \in Cube(c) : <<u, t>> \in trans
        BY <1>3, <3>2 DEF WordPredecessors
      <4>2. QED  BY <4>1 DEF Steps
    <3>3. QED  BY <3>1, <3>2
  <2>4. PreGen /\ k # 1
    BY <1>3, OptionsAssumption
  <2>5. QED  BY <1>1, <2>2, <2>3, <2>4 DEF Substitutes
<1>4. QED  BY <1>2, <1>3

\* Bounds that are kept, and disjuncts of an interpolant, cover the cube they
\* were made from and exclude what it excluded, in every mode.
LEMMA GeneralizedGeneralizes ==
  ASSUME IInv, mb \in MbOptions, preds = Atoms, NEW k \in 1..frontier,
         NEW T \in SUBSET Lits(preds), NEW c \in Cores(k, T),
         NEW d \in Generalized(k, c)
  PROVE  d \in Generalizations(k, T)
<1>1. c \in Generalizations(k, T) /\ c \subseteq Lits(preds)
  BY CoresGeneralize DEF Generalizations
<1>2. ASSUME Excluded(k, c, d), Cube(c) \subseteq Cube(d), d \subseteq Lits(preds)
      PROVE  d \in Generalizations(k, T)
  <2>1. F(k - 1) \subseteq FrameTerm(k - 1)
    <3>1. CASE k = 1
      <4>1. k - 1 = 0
        BY <3>1
      <4>2. QED  BY <4>1 DEF F, FrameStates, FrameTerm
    <3>2. CASE k # 1
      <4>1. k - 1 \in 1..frontier
        BY <3>2 DEF IInv, TypeOK
      <4>2. QED  BY <4>1, StoredFrames DEF IInv
    <3>3. QED  BY <3>1, <3>2
  <2>2. RelInd(k, d)
    BY <1>2, <2>1 DEF Excluded, RelInd, Steps
  <2>3. Cube(T) \subseteq Cube(d) /\ ~IntersectsInit(d)
    BY <1>1, <1>2 DEF Generalizations, Excluded
  <2>4. QED  BY <1>2, <2>2, <2>3 DEF Generalizations
<1>3. CASE mb.mode = 1
  <2>1. d \subseteq SplitEq(c) /\ Excluded(k, c, d)
    BY <1>3 DEF Generalized, BoundCores
  <2>2. Cube(c) \subseteq Cube(d)
    BY <2>1, SplitWeakens, CubeAntitone
  <2>3. d \subseteq Lits(preds)
    BY <1>1, <2>1, SplitWeakens DEF Lits
  <2>4. QED  BY <1>2, <2>1, <2>2, <2>3
<1>4. CASE mb.mode = 2
  <2>1. d \in BoundInterpolants(k, c)
    BY <1>4 DEF Generalized
  <2>2. /\ Cube(c) \subseteq Cube(d) /\ Excluded(k, c, d)
        /\ \E l, m, n \in Bounding \ {States} : d = {l, m, n}
    BY <2>1 DEF BoundInterpolants
  <2>3. Bounding \subseteq Atoms
    <3> DEFINE AtValue(w, n) == {AtMost(w, n), AtLeast(w, n)}
               AtWord(w) == UNION { AtValue(w, n) : n \in Values(w) }
               Bs == { AtWord(w) : w \in Numeric }
               Es == { EqualTo(w, n) : w \in mb.words \ Numeric, n \in 0..1 }
    <3>1. Bounding = (UNION Bs) \cup Es
      BY DEF Bounding
    <3>2. \A w \in Numeric : \A n \in Values(w) : AtValue(w, n) \subseteq Atoms
      BY AtomsType DEF Numeric
    <3>3. \A X \in Bs : \E w \in Numeric : X = AtWord(w)
      OBVIOUS
    <3>4. Es \subseteq Atoms
      BY AtomsType
    <3> HIDE DEF AtValue, Bs, Es
    <3>5. \A w \in Numeric : AtWord(w) \subseteq Atoms
      BY <3>2
    <3> HIDE DEF AtWord
    <3>6. UNION Bs \subseteq Atoms
      BY <3>3, <3>5
    <3>7. QED  BY <3>1, <3>4, <3>6
  <2>4. d \subseteq Lits(preds)
    BY <2>2, <2>3 DEF Lits
  <2>5. QED  BY <1>2, <2>2, <2>4
<1>5. CASE mb.mode \notin {1, 2}
  BY <1>1, <1>5 DEF Generalized
<1>6. QED  BY <1>3, <1>4, <1>5
-----------------------------------------------------------------------------
(* Its steps and its theorems.                                             *)

\* The words of the call stay, and cubes are made of their atoms.
MbInv ==
  /\ IC3Inv
  /\ mb \in MbOptions
  /\ preds = Atoms

LEMMA MbInitInv ==
  ASSUME MbInit
  PROVE  MbInv
<1>1. mb \in MbOptions /\ preds = Atoms /\ preds \in SUBSET SUBSET States
  BY AtomsType DEF MbInit
<1>2. ASSUME NEW s \in States, NEW u \in States, Agree(preds, s, u)
      PROVE  s = u
  <2>1. ASSUME NEW w \in mb.words
        PROVE  w.value[s] = w.value[u]
    <3>1. EqualTo(w, w.value[s]) \in preds
      BY <1>1, AtomsType
    <3>2. s \in EqualTo(w, w.value[s]) => u \in EqualTo(w, w.value[s])
      BY <1>2, <3>1 DEF Agree
    <3>3. QED  BY <3>2 DEF EqualTo
  <2>2. QED  BY <1>1, <2>1, MbOptionsAssumption
<1>3. ConcreteInv
  BY <1>2 DEF MbInit, ConcreteInv, Separating
<1>4. QED  BY <1>1, <1>3, ConcreteInit DEF MbInit, MbInv

LEMMA MbStepIsShared ==
  ASSUME MbInv, ~mb.preimage, MbStep
  PROVE  SharedNext
<1> USE DEF MbInv, IC3Inv
<1>1. TypeOK /\ sys \in SystemType
  BY BadCubeType DEF IInv
<1>2. CASE WordInitStepsIntoBad
  <2>1. PICK s \in sys.init : Steps({s}, sys.bad) /\ cex' = <<WordCube(s), BadCube>>
    BY <1>2 DEF WordInitStepsIntoBad
  <2>2. s \in States
    BY <1>1 DEF SystemType
  <2>3. Cube(WordCube(s)) = {s} /\ WordCube(s) \in Cubes
    BY <2>2, WordCubeExact, AtomsType DEF Cubes
  <2>4. \A u \in Cube(WordCube(s)) : Agree(preds, s, u)
    BY <2>3 DEF Agree
  <2>5. SomeInitStepsIntoBad
    BY <1>2, <2>1, <2>3, <2>4 DEF WordInitStepsIntoBad, SomeInitStepsIntoBad
  <2>6. QED  BY <2>5 DEF SharedNext
<1>3. \A k, c : \A s \in Models(k, c) :
        s \in States /\ WordPredecessors(k, c, s) \subseteq Substitutes(k, c, s)
  BY <1>1, WordPredecessorsSubstitute DEF Models, F, FrameStates
<1>4. CASE WordReachesBadGoal
  <2>1. SomeReachesBadGoal
    BY <1>3, <1>4 DEF WordReachesBadGoal, SomeReachesBadGoal
  <2>2. QED  BY <2>1 DEF SharedNext
<1>5. ASSUME NEW g \in goals, WordGoalBlocked(g)
      PROVE  SharedNext
  <2>1. PICK c \in Cores(g.idx, Target(g)) :
          \E d \in IF IndGen THEN Generalized(g.idx, c) ELSE {c} :
            cur' = [trace |-> g.trace, cube |-> d, idx |-> g.idx, needed |-> {}]
    BY <1>5 DEF WordGoalBlocked
  <2>2. PICK d \in IF IndGen THEN Generalized(g.idx, c) ELSE {c} :
          cur' = [trace |-> g.trace, cube |-> d, idx |-> g.idx, needed |-> {}]
    BY <2>1
  <2>3. Target(g) \in SUBSET Lits(preds) /\ g.idx \in 1..frontier
    BY <1>1, <1>5 DEF IInv, GoalsInv, WordGoalBlocked, TypeOK
  <2>4. d \in Generalizations(g.idx, Target(g))
    <3>1. CASE IndGen
      <4>1. d \in Generalized(g.idx, c)
        BY <2>2, <3>1
      <4>2. QED  BY <2>1, <2>3, <4>1, GeneralizedGeneralizes
    <3>2. CASE ~IndGen
      <4>1. d = c
        BY <2>2, <3>2
      <4>2. QED  BY <2>1, <2>3, <4>1, CoresGeneralize
    <3>3. QED  BY <3>1, <3>2
  <2>5. SomeGoalBlocked(g)
    BY <1>5, <2>2, <2>4 DEF WordGoalBlocked, SomeGoalBlocked
  <2>6. QED  BY <2>5 DEF SharedNext
<1>6. ASSUME NEW g \in goals, WordGoalPredecessor(g)
      PROVE  SharedNext
  <2>1. SomeGoalPredecessor(g)
    BY <1>3, <1>6 DEF WordGoalPredecessor, SomeGoalPredecessor
  <2>2. QED  BY <2>1 DEF SharedNext
<1>7. CASE CommonStep
  BY <1>7 DEF SharedNext
<1>8. QED  BY <1>2, <1>4, <1>5, <1>6, <1>7 DEF MbStep, CommonStep

LEMMA MbStepInv ==
  ASSUME MbInv, ~mb.preimage, [MbNext]_<<vars, mb>>
  PROVE  MbInv' /\ [SharedNext]_vars
<1>1. [SharedNext]_vars /\ mb' = mb
  <2>1. CASE MbStep
    BY <2>1, MbStepIsShared DEF MbStep
  <2>2. CASE Environment /\ UNCHANGED mb
    BY <2>2 DEF SharedNext, CommonStep
  <2>3. QED  BY <2>1, <2>2 DEF MbNext
<1>2. IC3Inv'
  BY <1>1, StepInv DEF MbInv
<1>3. preds' = preds
  BY <1>1, FrameCases DEF MbInv, IC3Inv, IInv
<1>4. Atoms' = Atoms
  BY <1>1 DEF Atoms, EqualTo, AtMost, AtLeast, Same, NotAbove, Values
<1>5. QED  BY <1>1, <1>2, <1>3, <1>4 DEF MbInv

\* The options without --ic3-functional-preimage; with it TRUE and FALSE are
\* both wrong.
NoPreimage == \A o \in MbOptions : ~o.preimage

\* The inductive invariant of bit-level IC3 holds over words.
THEOREM MbInvariance ==
  ASSUME NoPreimage
  PROVE  MbSpec => []MbInv
<1>1. MbInit => MbInv
  BY MbInitInv
<1>2. MbInv /\ [MbNext]_<<vars, mb>> => MbInv'
  BY MbStepInv DEF NoPreimage, MbInv
<1>3. QED  BY <1>1, <1>2, PTL DEF MbSpec

\* The state stays well typed, frames are sound, and solver and frames_ agree,
\* whatever the mode of generalisation.
THEOREM MbFramesAreSound ==
  ASSUME NoPreimage
  PROVE  MbSpec => [](TypeOK /\ FramesSound /\ LabelsMatchFrames)
<1>1. MbInv => TypeOK /\ FramesSound /\ LabelsMatchFrames
  BY InvariantImplies DEF MbInv
<1>2. QED  BY <1>1, MbInvariance, PTL

\* From every state of a goal there is a step into the goal it was made for,
\* although equalities were split into bounds and reduced.
THEOREM MbGoalsAlwaysStepOn ==
  ASSUME NoPreimage
  PROVE  MbSpec => []GoalsStepOn
<1>1. MbInv => GoalsStepOn
  BY InvariantImplies DEF MbInv
<1>2. QED  BY <1>1, MbInvariance, PTL

\* TRUE without a signal means safe, with an inductive invariant.
THEOREM MbTrueIsRight ==
  ASSUME NoPreimage
  PROVE  MbSpec => []TrueIsSound
<1>1. MbInv => TrueIsSound
  BY InvariantImplies DEF MbInv
<1>2. QED  BY <1>1, MbInvariance, PTL

\* FALSE means a counterexample of witness_length() steps.
THEOREM MbFalseIsWitnessed ==
  ASSUME NoPreimage
  PROVE  MbSpec => []FalseHasWitness
<1>1. MbInv => FalseHasWitness
  BY InvariantImplies DEF MbInv
<1>2. QED  BY <1>1, MbInvariance, PTL

\* reached_k_ counts bounds that have no counterexample.
THEOREM MbReachedClear ==
  ASSUME NoPreimage
  PROVE  MbSpec => []ReachedIsClear
<1>1. MbInit => DepthInv
  BY DEF MbInit, Init, BaseInit, DepthInv
<1>2. MbInv /\ DepthInv /\ [MbNext]_<<vars, mb>> => DepthInv'
  BY MbStepInv, DepthStep DEF NoPreimage, MbInv, IC3Inv
<1>3. MbInv /\ DepthInv => ReachedIsClear
  BY DepthClears DEF MbInv, IC3Inv
<1>4. QED  BY <1>1, <1>2, <1>3, MbInvariance, PTL DEF MbSpec

\* No step widens a frame or gives depth back.
THEOREM MbFramesStrengthen ==
  ASSUME NoPreimage
  PROVE  MbSpec => FramesOnlyStrengthen
<1>1. ASSUME MbInv, [MbNext]_<<vars, mb>>
      PROVE  [ /\ \A k \in 0..frontier : F(k)' \subseteq F(k)
               /\ reachedK' >= reachedK ]_vars
  BY <1>1, MbStepInv, InvariantStrengthens DEF NoPreimage, MbInv
<1>2. QED  BY <1>1, MbInvariance, PTL DEF MbSpec, FramesOnlyStrengthen
=============================================================================
