-------------------------------- MODULE MBIC3 --------------------------------
(***************************************************************************)
(* IC3 over words (engines/mbic3.cpp): a cube says which values the state  *)
(* variables have and which of them are equal; generalisation splits the   *)
(* equalities into bounds and keeps an unsat core of these, or takes a     *)
(* clause from an interpolant.  All else is IC3Base.                       *)
(***************************************************************************)
EXTENDS IC3Base

CONSTANTS
  MbOptions,       \* the words and options the prover may be given
  MaxDisjuncts     \* bound: the disjuncts of an interpolant

VARIABLE mb        \* the one that is used; never changes

\* A term is the function of its values; equalities and bounds compare terms
\* of one sort.
WordType == [sort : {"BOOL", "BV1", "BV2", "INT"}, value : [States -> Nat]]

\*   mode      options_.mbic3_indgen_mode
\*   preimage  options_.ic3_functional_preimage_; the other modes would give
\*             the reducer or the interpolator a label it does not know
MbOptionType ==
  { o \in [words : SUBSET WordType, mode : 0..2, preimage : BOOLEAN] : o.preimage => o.mode = 0 }

\* The words are all the state variables, so that their values are the state.
ASSUME MbOptionsAssumption ==
  \A o \in MbOptions :
    /\ o.mode \in 0..2 /\ (o.preimage => o.mode = 0)
    /\ \A w \in o.words : w \in WordType
    /\ \A s, u \in States : (\A w \in o.words : w.value[s] = w.value[u]) => s = u

-----------------------------------------------------------------------------
(* Cubes.                                                                  *)

EqualTo(w, n) == { s \in States : w.value[s] = n }
Same(v, w)    == { s \in States : v.value[s] = w.value[s] }

\* The words a disjoint set of the model's values puts together.
ClassOf(s, w) == { v \in mb.words : v.sort = w.sort /\ v.value[s] = w.value[s] }

\* ds.find: a word is preferred to the value.
Find(s, w) == CHOOSE v \in ClassOf(s, w) : TRUE

\* get_model_ic3formula
WordCube(s) ==
  { EqualTo(w, w.value[s]) : w \in mb.words }
    \cup { Same(Find(s, w), w) : w \in { v \in mb.words : Find(s, v) # v } }

\* The bounds an equality is split into; those that always hold are left out.
AtMost(v, n)  == { s \in States : v.value[s] <= n }
AtLeast(v, n) == { s \in States : v.value[s] >= n }
NotAbove(v, w) == { s \in States : v.value[s] <= w.value[s] }

Values(w) == { w.value[s] : s \in States }

Numeric == { w \in mb.words : w.sort # "BOOL" }

SplitLiteral(l) ==
  LET byValue == { p \in Numeric \X UNION { Values(w) : w \in Numeric } :
                     l = EqualTo(p[1], p[2]) }
      byWord  == { p \in Numeric \X Numeric :
                     p[1] # p[2] /\ p[1].sort = p[2].sort /\ l = Same(p[1], p[2]) }
  IN  IF byValue \cup byWord = {} THEN {l}
      ELSE (UNION { {AtMost(p[1], p[2]), AtLeast(p[1], p[2])} : p \in byValue })
             \cup (UNION { {NotAbove(p[1], p[2]), NotAbove(p[2], p[1])} : p \in byWord })

\* split_eq
SplitEq(c) == (UNION { SplitLiteral(l) : l \in c }) \ {States}

\* All that cubes may be made of: words that are compared with numbers, of a
\* model or Boolean ones, and with each other.
Atoms ==
  LET numbers == (UNION { Values(w) : w \in mb.words }) \cup 0..1
  IN  { EqualTo(w, n) : w \in mb.words, n \in numbers }
        \cup { AtMost(w, n) : w \in mb.words, n \in numbers }
        \cup { AtLeast(w, n) : w \in mb.words, n \in numbers }
        \cup { Same(v, w) : v, w \in mb.words }
        \cup { NotAbove(v, w) : v, w \in mb.words }

-----------------------------------------------------------------------------
(* predecessor_generalization.                                             *)

\* The functional preimage substitutes the model in trans_label_, which is a
\* symbol of its own and not the relation it stands for: the cube is the label.
\* Wherever a cube meets the relation the label is asserted, so that as a
\* literal it excludes nothing and its negation everything.
TransLabel == States

\* Seeded fault: the last frame is left out of the preimage formula.
WordPredecessorsUnframed(k, c, s) ==
  IF k = 1 \/ ~PreGen THEN {WordCube(s)}
  ELSE { red \in SUBSET SplitEq(WordCube(s)) :
           red # {} /\ \E u \in Cube(red) : Steps({u}, Cube(c)) }

\* The cubes that may replace the model s of F[k-1] /\ -c /\ T /\ c'.
WordPredecessors(k, c, s) ==
  IF k = 1 \/ ~PreGen THEN {WordCube(s)}
  ELSE IF mb.preimage THEN {{TransLabel}}
  ELSE { red \in SUBSET SplitEq(WordCube(s)) :
           /\ red # {}
           /\ IF sys.det
              THEN \A u \in Cube(red) : Steps({u}, Cube(c))
              ELSE \E t \in Cube(c) : \A u \in Cube(red) :
                     /\ u \in FrameTerm(k - 1) \ Cube(c)
                     /\ <<u, t>> \in trans }

-----------------------------------------------------------------------------
(* inductive_generalization.                                               *)

\* ((frame /\ trans /\ -c) \/ init') /\ d' is unsatisfiable.
Excluded(k, c, d) ==
  ~IntersectsInit(d) /\ ~Steps(FrameTerm(k - 1) \ Cube(c), Cube(d))

\* Mode 1: an unsat core of the bounds.
BoundCores(k, c) == { d \in SUBSET SplitEq(c) : d # {} /\ Excluded(k, c, d) }

\* Mode 2: the negated disjuncts of an interpolant, any that bounds can say.
Bounding ==
  (UNION { UNION { {AtMost(w, n), AtLeast(w, n)} : n \in Values(w) } : w \in Numeric })
    \cup { EqualTo(w, n) : w \in mb.words \ Numeric, n \in 0..1 }

BoundInterpolants(k, c) ==
  { d \in UNION { { {l, m, n} : l, m, n \in Bounding \ {States} } } :
      Cardinality(d) <= MaxDisjuncts /\ Cube(c) \subseteq Cube(d) /\ Excluded(k, c, d) }

Generalized(k, c) ==
  CASE mb.mode = 1 -> BoundCores(k, c)
    [] mb.mode = 2 -> BoundInterpolants(k, c)
    [] OTHER       -> {c}

-----------------------------------------------------------------------------
(* The steps that ask for a model or generalise.                           *)

WordInitStepsIntoBad ==
  /\ InLoop
  /\ i > reachedK /\ reachedK < 1
  /\ reachedK < 0 => ~IntersectsInit(BadCube)
  /\ \E s \in sys.init :
       /\ Steps({s}, sys.bad)
       /\ cex' = <<WordCube(s), BadCube>>
  /\ reachedK' = 0
  /\ pc' = "refine"
  /\ UNCHANGED <<sys, preds, trans, frameVars, bound, i, blockVars, propVars,
                 result, invar, terminate>>

WordReachesBadGoal ==
  /\ pc = "blocking"
  /\ \E s \in Models(frontier + 1, BadCube) :
       \E c \in WordPredecessors(frontier + 1, BadCube, s) :
         goals' = {[idx |-> frontier, trace |-> <<c>>]}
  /\ pc' = "goal"
  /\ UNCHANGED <<sys, preds, trans, frameVars, callVars, cur, propVars,
                 verdictVars, terminate>>

\* Modes 1 and 2 generalise in one query, mode 0 literal by literal.
WordGoalBlocked(g) ==
  /\ Handle(g)
  /\ g.idx > 0
  /\ ~IsBlocked(g)
  /\ RelInd(g.idx, Target(g))
  /\ goals' = goals \ {g}
  /\ \E c \in Cores(g.idx, Target(g)) :
       \E d \in IF IndGen THEN Generalized(g.idx, c) ELSE {c} :
         cur' = [trace |-> g.trace, cube |-> d, idx |-> g.idx, needed |-> {}]
  /\ pc' = IF IndGen /\ mb.mode = 0 THEN "indgen" ELSE "highest"
  /\ UNCHANGED <<sys, preds, trans, frameVars, callVars, propVars,
                 verdictVars, terminate>>

WordGoalPredecessor(g) ==
  /\ Handle(g)
  /\ g.idx > 0
  /\ ~IsBlocked(g)
  /\ \E s \in Models(g.idx, Target(g)) :
       \E c \in WordPredecessors(g.idx, Target(g), s) :
         goals' = goals \cup {[idx |-> g.idx - 1, trace |-> <<c>> \o g.trace]}
  /\ UNCHANGED <<sys, preds, trans, frameVars, callVars, pc, cur, propVars,
                 verdictVars, terminate>>

-----------------------------------------------------------------------------
\* The functional preimage asserts that the system is deterministic.
MbInit ==
  /\ BaseInit
  /\ mb \in MbOptions
  /\ mb.preimage => sys.det
  /\ preds = Atoms
  /\ trans = sys.trans

MbStep ==
  /\ \/ LoopExit \/ StepCovered \/ InitIsBad \/ WordInitStepsIntoBad
     \/ StepBaseHolds \/ EnterBlockAll
     \/ WordReachesBadGoal \/ BlockedAll \/ TerminateBlocking
     \/ \E g \in goals : \/ GoalInitial(g) \/ GoalAlreadyBlocked(g)
                         \/ WordGoalBlocked(g) \/ WordGoalPredecessor(g)
     \/ \E l \in cur.cube : DropLiteral(l) \/ KeepLiteral(l)
     \/ GeneralizationDone \/ PushCollateral \/ LearnClause
     \/ \E c \in todo : PropagateClause(c) \/ KeepClause(c)
     \/ FixedPoint \/ NextFrame \/ PropagationDone \/ ReturnFalse
  /\ UNCHANGED mb

MbNext == MbStep \/ (Environment /\ UNCHANGED mb)

MbSpec == MbInit /\ [][MbNext]_<<vars, mb>>

-----------------------------------------------------------------------------
\* What ic3base.h:335-338 asks of predecessor_generalization: from every state
\* of a pending goal there is a step into the goal it was made for, so that a
\* chain of goals that comes down to the initial states is a counterexample.
GoalsStepOn ==
  \A g \in goals :
    LET next == IF Len(g.trace) > 1 THEN Cube(g.trace[2]) ELSE sys.bad
    IN  \A u \in Cube(Target(g)) : Steps({u}, next)
=============================================================================
