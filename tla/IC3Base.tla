------------------------------- MODULE IC3Base -------------------------------
(***************************************************************************)
(* The IC3 algorithm of engines/ic3base.cpp, shared by every flavour of    *)
(* IC3: frames, proof goals, relative induction, generalisation,           *)
(* propagation, the check_until loop and the termination flag that pono's  *)
(* SIGTERM handler sets.  IC3 (bit level) and IC3IA (predicate             *)
(* abstraction) extend this module with their initial predicates and their *)
(* refine().                                                               *)
(*                                                                         *)
(* The SMT solver is exact and external: a satisfiable query returns any   *)
(* of its models, an unsatisfiable one any of its unsat cores.  One step   *)
(* of the model is the code between two places where the solver's answer   *)
(* decides what happens next or the flag is polled.                        *)
(***************************************************************************)
EXTENDS TransSys, Integers, Sequences, FiniteSets

CONSTANTS
  Systems,          \* the systems and properties the prover may be given
  Bounds,           \* the values of k check_until may be called with
  PreGen,           \* options_.ic3_pregen_
  IndGen,           \* options_.ic3_indgen_
  SolverCanReset,   \* does the solver support reset_assertions?
  Signals           \* is the SIGTERM / SIGINT handler registered?

ASSUME SystemsAssumption == Systems \subseteq SystemType
ASSUME BoundsAssumption  == Bounds \subseteq Nat
ASSUME OptionsAssumption ==
  {PreGen, IndGen, SolverCanReset, Signals} \subseteq BOOLEAN

VARIABLES
  sys,        \* the (concrete) system and property; never changes
  preds,      \* the atoms cubes are made of (statevars, or predset_)
  trans,      \* ts_.trans(): abstract in IC3IA, the concrete one in IC3
  frontier,   \* frames_.size() - 1
  frames,     \* frames_[k]: the clauses kept at frame k
  asserted,   \* the clauses the solver holds under frame_labels_[k]
  reachedK,   \* reached_k_
  bound,      \* the argument of the check_until call
  i,          \* its loop counter
  pc,         \* where the call is
  goals,      \* ProofGoalQueue: index, and targets from this goal to bad
  cur,        \* the collateral of the goal being blocked
  todo,       \* propagate(at): the clauses not yet looked at
  at,         \* the frame being propagated
  cex,        \* cex_
  result,     \* what check_until returned
  invar,      \* invar_
  terminate   \* g_terminate_requested

frameVars == <<frontier, frames, asserted>>
callVars  == <<reachedK, bound, i>>
blockVars == <<goals, cur>>
propVars  == <<todo, at>>
verdictVars == <<cex, result, invar>>
vars == <<sys, preds, trans, frameVars, callVars, pc, blockVars, propVars,
          verdictVars, terminate>>

NoCur == [trace |-> <<>>, cube |-> {}, idx |-> 0, needed |-> {}]

\* The property literal bad_ as a cube of its own.
BadCube == {sys.bad}

-----------------------------------------------------------------------------
(* Frames.  A clause is stored in the highest frame where it is known to   *)
(* hold and asserting F[k] activates the labels of k and all frames above. *)

FrameStates(fs, k) ==
  { s \in States :
      /\ k = 0 => s \in sys.init
      /\ s \notin sys.bad
      /\ \A j \in 0..frontier : j >= k => \A c \in fs[j] : s \notin Cube(c) }

\* What assert_frame_labels(k) makes the solver assume.
F(k) == FrameStates(asserted, k)

\* What get_frame_term(k) builds from the stored clauses.
FrameTerm(k) == IF k = 0 THEN sys.init ELSE FrameStates(frames, k)

\* Seeded fault: the new frame gets no solver label.
PushFrameUnlabelled ==
  /\ frontier' = frontier + 1
  /\ frames'   = [k \in 0..frontier + 1 |-> IF k > frontier THEN {} ELSE frames[k]]
  /\ UNCHANGED asserted

\* push_frame: a new frame holds no clause, only the property.
PushFrame ==
  /\ frontier' = frontier + 1
  /\ frames'   = [k \in 0..frontier + 1 |-> IF k > frontier THEN {} ELSE frames[k]]
  /\ asserted' = [k \in 0..frontier + 1 |-> IF k > frontier THEN {} ELSE asserted[k]]

\* Seeded fault: the clause removes what it subsumes in the frames above, too.
ConstrainFrameEverywhere(k, c) ==
  /\ frames' = [j \in 0..frontier |->
                  LET kept == {d \in frames[j] : ~(c \subseteq d)}
                  IN  IF j = k THEN kept \cup {c} ELSE kept]
  /\ asserted' = [asserted EXCEPT ![k] = @ \cup {c}]
  /\ UNCHANGED frontier

\* constrain_frame with new_constraint: drop what the clause subsumes.
ConstrainFrame(k, c) ==
  /\ frames' = [j \in 0..frontier |->
                  LET kept == IF j \in 1..k THEN {d \in frames[j] : ~(c \subseteq d)}
                                            ELSE frames[j]
                  IN  IF j = k THEN kept \cup {c} ELSE kept]
  /\ asserted' = [asserted EXCEPT ![k] = @ \cup {c}]
  /\ UNCHANGED frontier

-----------------------------------------------------------------------------
(* Solver queries.                                                         *)

IntersectsInit(c) == Cube(c) \cap sys.init # {}

\* Some state of X steps into Y.
Steps(X, Y) == \E e \in trans : e[1] \in X /\ e[2] \in Y

\* rel_ind_check(k, c): F[k-1] /\ -c /\ T /\ c' is unsatisfiable.
RelInd(k, c) == ~Steps(F(k - 1) \ Cube(c), Cube(c))

\* Seeded fault: cores are used without fix_if_intersects_initial.
CoresUnfixed(k, c) ==
  { g \in SUBSET c : g # {} /\ ~Steps(F(k - 1) \ Cube(c), Cube(g)) }

(* The out argument of an unsatisfiable rel_ind_check: an unsat core of c, *)
(* with literals put back by fix_if_intersects_initial until it excludes   *)
(* the initial states.  When c itself does not, the reducer fails and the  *)
(* core is returned as it is.                                              *)
Cores(k, c) ==
  { g \in SUBSET c :
      /\ g # {}
      /\ ~Steps(F(k - 1) \ Cube(c), Cube(g))
      /\ IntersectsInit(g) => IntersectsInit(c) }

(* predecessor_generalization: the cubes that may replace the model s of   *)
(* F[k-1] /\ -c /\ T /\ c'.                                                *)
Predecessors(k, c, s) ==
  IF k = 1 \/ ~PreGen THEN {ModelCube(preds, s)}
  ELSE { red \in SUBSET ModelCube(preds, s) :
           /\ red # {}
           /\ IF sys.det
              THEN \A u \in Cube(red) : Steps({u}, Cube(c))
              ELSE \E t \in Cube(c) : \A u \in Cube(red) :
                     /\ u \in FrameTerm(k - 1) \ Cube(c)
                     /\ <<u, t>> \in trans }

\* The states that can be the current-state part of such a model.
Models(k, c) == { s \in F(k - 1) \ Cube(c) : Steps({s}, Cube(c)) }
-----------------------------------------------------------------------------
(* The check_until loop.                                                   *)

BaseInit ==
  /\ sys \in Systems
  /\ frontier = 1
  /\ frames = [k \in 0..1 |-> {}]
  /\ asserted = [k \in 0..1 |-> {}]
  /\ reachedK = -1
  /\ bound = 0
  /\ i = 0
  /\ pc = "idle"
  /\ goals = {}
  /\ cur = NoCur
  /\ todo = {}
  /\ at = 0
  /\ cex = <<>>
  /\ result = "NONE"
  /\ invar = {}
  /\ terminate = FALSE

\* check_until(k) is called; an UNKNOWN call may be followed by another one.
CheckUntil(k) ==
  /\ pc = "idle"
  /\ bound' = k
  /\ i' = reachedK + 1
  /\ result' = "NONE"
  /\ pc' = "loop"
  /\ UNCHANGED <<sys, preds, trans, frameVars, reachedK, blockVars, propVars,
                 cex, invar, terminate>>

ReturnUnknown ==
  /\ result' = "UNKNOWN"
  /\ pc' = "idle"
  /\ UNCHANGED <<sys, preds, trans, frameVars, callVars, blockVars, propVars,
                 cex, invar, terminate>>

\* The loop ends at the bound, or at the flag: termination is a clean UNKNOWN.
LoopExit ==
  /\ pc = "loop"
  /\ i > bound \/ terminate
  /\ ReturnUnknown

InLoop ==
  /\ pc = "loop"
  /\ i <= bound
  /\ ~terminate

\* step(i) for a depth that is already covered.
StepCovered ==
  /\ InLoop
  /\ i <= reachedK
  /\ i' = i + 1
  /\ UNCHANGED <<sys, preds, trans, frameVars, reachedK, bound, pc, blockVars,
                 propVars, verdictVars, terminate>>

\* step_01, first query: an initial state is bad.
InitIsBad ==
  /\ InLoop
  /\ i > reachedK /\ reachedK < 0
  /\ IntersectsInit(BadCube)
  /\ cex' = <<BadCube>>
  /\ pc' = "refine"
  /\ UNCHANGED <<sys, preds, trans, frameVars, callVars, blockVars, propVars,
                 result, invar, terminate>>

\* step_01, second query: an initial state steps into bad.
InitStepsIntoBad ==
  /\ InLoop
  /\ i > reachedK /\ reachedK < 1
  /\ reachedK < 0 => ~IntersectsInit(BadCube)
  /\ \E s \in sys.init :
       /\ Steps({s}, sys.bad)
       /\ cex' = <<ModelCube(preds, s), BadCube>>
  /\ reachedK' = 0
  /\ pc' = "refine"
  /\ UNCHANGED <<sys, preds, trans, frameVars, bound, i, blockVars, propVars,
                 result, invar, terminate>>

\* step_01, both queries unsatisfiable.
StepBaseHolds ==
  /\ InLoop
  /\ i > reachedK /\ reachedK < 1
  /\ reachedK < 0 => ~IntersectsInit(BadCube)
  /\ ~Steps(sys.init, sys.bad)
  /\ reachedK' = 1
  /\ i' = i + 1
  /\ UNCHANGED <<sys, preds, trans, frameVars, bound, pc, blockVars, propVars,
                 verdictVars, terminate>>

\* step: the frames are set up, enter block_all.
EnterBlockAll ==
  /\ InLoop
  /\ i > reachedK /\ reachedK >= 1
  /\ pc' = "blocking"
  /\ UNCHANGED <<sys, preds, trans, frameVars, callVars, blockVars, propVars,
                 verdictVars, terminate>>
-----------------------------------------------------------------------------
(* block_all.  The queue holds goals [idx, trace]: trace[1] is the target, *)
(* the rest are the targets along the next pointers.  Equal goals are one. *)

Target(g) == g.trace[1]

\* A queue top: ties between equal indices may go either way.
IsTop(g) == g \in goals /\ \A h \in goals : g.idx <= h.idx

\* Inner while loop while there are goals, else ask reaches_bad again.
QueueLoop(gs) == IF gs = {} THEN "blocking" ELSE "goal"

\* reaches_bad is satisfiable: its predecessor of bad is the first goal.
ReachesBadGoal ==
  /\ pc = "blocking"
  /\ \E s \in Models(frontier + 1, BadCube) :
       \E c \in Predecessors(frontier + 1, BadCube, s) :
         goals' = {[idx |-> frontier, trace |-> <<c>>]}
  /\ pc' = "goal"
  /\ UNCHANGED <<sys, preds, trans, frameVars, callVars, cur, propVars,
                 verdictVars, terminate>>

\* block_all returned true: step pushes a frame and starts propagating.
StartPropagation ==
  /\ PushFrame
  /\ goals' = {}
  /\ at' = 1
  /\ todo' = frames[1]
  /\ pc' = "propagate"
  /\ UNCHANGED <<sys, preds, trans, callVars, cur, verdictVars, terminate>>

\* reaches_bad is unsatisfiable.
BlockedAll ==
  /\ pc = "blocking"
  /\ Models(frontier + 1, BadCube) = {}
  /\ StartPropagation

\* The flag is set while goals are pending: block_all returns true as well.
TerminateBlocking ==
  /\ pc = "goal"
  /\ terminate
  /\ StartPropagation

Handle(g) ==
  /\ pc = "goal"
  /\ ~terminate
  /\ IsTop(g)

\* Seeded fault: the trace is cut off one frame too early.
GoalInitialEarly(g) ==
  /\ Handle(g)
  /\ g.idx <= 1
  /\ cex' = Append(g.trace, BadCube)
  /\ goals' = {}
  /\ pc' = "refine"
  /\ UNCHANGED <<sys, preds, trans, frameVars, callVars, cur, propVars,
                 result, invar, terminate>>

\* The goal came down to the initial states: reconstruct_trace.
GoalInitial(g) ==
  /\ Handle(g)
  /\ g.idx = 0
  /\ cex' = Append(g.trace, BadCube)
  /\ goals' = {}
  /\ pc' = "refine"
  /\ UNCHANGED <<sys, preds, trans, frameVars, callVars, cur, propVars,
                 result, invar, terminate>>

\* is_blocked: a stored clause subsumes the goal, or its frame excludes it.
IsBlocked(g) ==
  \/ \E j \in g.idx..frontier : \E c \in frames[j] : c \subseteq Target(g)
  \/ Cube(Target(g)) \cap F(g.idx) = {}

\* Seeded fault: the blocked goal is not popped.
GoalAlreadyBlockedKept(g) ==
  /\ Handle(g)
  /\ g.idx > 0
  /\ IsBlocked(g)
  /\ UNCHANGED <<sys, preds, trans, frameVars, callVars, pc, goals, cur,
                 propVars, verdictVars, terminate>>

GoalAlreadyBlocked(g) ==
  /\ Handle(g)
  /\ g.idx > 0
  /\ IsBlocked(g)
  /\ goals' = goals \ {g}
  /\ pc' = QueueLoop(goals')
  /\ UNCHANGED <<sys, preds, trans, frameVars, callVars, cur, propVars,
                 verdictVars, terminate>>

\* rel_ind_check is unsatisfiable: pop the goal and generalise a core of it.
GoalBlocked(g) ==
  /\ Handle(g)
  /\ g.idx > 0
  /\ ~IsBlocked(g)
  /\ RelInd(g.idx, Target(g))
  /\ goals' = goals \ {g}
  /\ \E c \in Cores(g.idx, Target(g)) :
       cur' = [trace |-> g.trace, cube |-> c, idx |-> g.idx, needed |-> {}]
  /\ pc' = IF IndGen THEN "indgen" ELSE "highest"
  /\ UNCHANGED <<sys, preds, trans, frameVars, callVars, propVars,
                 verdictVars, terminate>>

\* rel_ind_check is satisfiable: the predecessor is a goal one frame lower.
GoalPredecessor(g) ==
  /\ Handle(g)
  /\ g.idx > 0
  /\ ~IsBlocked(g)
  /\ \E s \in Models(g.idx, Target(g)) :
       \E c \in Predecessors(g.idx, Target(g), s) :
         goals' = goals \cup {[idx |-> g.idx - 1, trace |-> <<c>> \o g.trace]}
  /\ UNCHANGED <<sys, preds, trans, frameVars, callVars, pc, cur, propVars,
                 verdictVars, terminate>>

-----------------------------------------------------------------------------
(* inductive_generalization: try to drop each literal once more after every *)
(* success; a literal that could not be dropped stays.                     *)

Droppable == IF Cardinality(cur.cube) > 1 THEN cur.cube \ cur.needed ELSE {}

CanDrop(l) ==
  LET rest == cur.cube \ {l}
  IN  ~IntersectsInit(rest) /\ RelInd(cur.idx, rest)

DropLiteral(l) ==
  /\ pc = "indgen"
  /\ l \in Droppable
  /\ CanDrop(l)
  /\ \E c \in Cores(cur.idx, cur.cube \ {l}) : cur' = [cur EXCEPT !.cube = c]
  /\ UNCHANGED <<sys, preds, trans, frameVars, callVars, pc, goals, propVars,
                 verdictVars, terminate>>

KeepLiteral(l) ==
  /\ pc = "indgen"
  /\ l \in Droppable
  /\ ~CanDrop(l)
  /\ cur' = [cur EXCEPT !.needed = @ \cup {l}]
  /\ UNCHANGED <<sys, preds, trans, frameVars, callVars, pc, goals, propVars,
                 verdictVars, terminate>>

GeneralizationDone ==
  /\ pc = "indgen"
  /\ Droppable = {}
  /\ pc' = "highest"
  /\ UNCHANGED <<sys, preds, trans, frameVars, callVars, blockVars, propVars,
                 verdictVars, terminate>>

-----------------------------------------------------------------------------
(* find_highest_frame, then constrain_frame and the goal's next index.     *)

CanPush == cur.idx < frontier /\ RelInd(cur.idx + 1, cur.cube)

PushCollateral ==
  /\ pc = "highest"
  /\ CanPush
  /\ \E c \in Cores(cur.idx + 1, cur.cube) :
       cur' = [cur EXCEPT !.cube = c, !.idx = @ + 1]
  /\ UNCHANGED <<sys, preds, trans, frameVars, callVars, pc, goals, propVars,
                 verdictVars, terminate>>

\* Seeded fault: the goal is requeued two frames above the one just blocked.
LearnClauseSkips ==
  /\ pc = "highest"
  /\ ~CanPush
  /\ ConstrainFrame(cur.idx, cur.cube)
  /\ goals' = IF cur.idx < frontier
              THEN goals \cup {[idx |-> cur.idx + 2, trace |-> cur.trace]}
              ELSE goals
  /\ cur' = NoCur
  /\ pc' = QueueLoop(goals')
  /\ UNCHANGED <<sys, preds, trans, callVars, propVars, verdictVars, terminate>>

LearnClause ==
  /\ pc = "highest"
  /\ ~CanPush
  /\ ConstrainFrame(cur.idx, cur.cube)
  /\ goals' = IF cur.idx < frontier
              THEN goals \cup {[idx |-> cur.idx + 1, trace |-> cur.trace]}
              ELSE goals
  /\ cur' = NoCur
  /\ pc' = QueueLoop(goals')
  /\ UNCHANGED <<sys, preds, trans, callVars, propVars, verdictVars, terminate>>

-----------------------------------------------------------------------------
(* Propagation phase of step.                                              *)

\* Seeded fault: a clause the next frame implies is dropped instead of moved.
PropagateClauseLost(c) ==
  /\ pc = "propagate"
  /\ c \in todo
  /\ RelInd(at + 1, c)
  /\ frames' = [frames EXCEPT ![at] = @ \ {c}]
  /\ todo' = todo \ {c}
  /\ UNCHANGED <<sys, preds, trans, frontier, asserted, callVars, pc, blockVars,
                 at, verdictVars, terminate>>

\* propagate(at): the clause also holds one frame up.
PropagateClause(c) ==
  /\ pc = "propagate"
  /\ c \in todo
  /\ RelInd(at + 1, c)
  /\ \E g \in Cores(at + 1, c) :
       /\ frames' = [frames EXCEPT ![at] = @ \ {c}, ![at + 1] = @ \cup {g}]
       /\ asserted' = [asserted EXCEPT ![at + 1] = @ \cup {g}]
  /\ todo' = todo \ {c}
  /\ UNCHANGED <<sys, preds, trans, frontier, callVars, pc, blockVars, at,
                 verdictVars, terminate>>

\* propagate(at): the clause has to stay.
KeepClause(c) ==
  /\ pc = "propagate"
  /\ c \in todo
  /\ ~RelInd(at + 1, c)
  /\ todo' = todo \ {c}
  /\ UNCHANGED <<sys, preds, trans, frameVars, callVars, pc, blockVars, at,
                 verdictVars, terminate>>

\* Seeded fault: one propagated clause is enough for a fixed point.
FixedPointTooSoon ==
  /\ pc = "propagate"
  /\ todo = {}
  /\ invar' = FrameTerm(at + 1)
  /\ result' = "TRUE"
  /\ pc' = "done"
  /\ UNCHANGED <<sys, preds, trans, frameVars, callVars, blockVars, propVars,
                 cex, terminate>>

\* propagate(at) returned true: the next frame is the inductive invariant.
FixedPoint ==
  /\ pc = "propagate"
  /\ todo = {}
  /\ frames[at] = {}
  /\ invar' = FrameTerm(at + 1)
  /\ result' = "TRUE"
  /\ pc' = "done"
  /\ UNCHANGED <<sys, preds, trans, frameVars, callVars, blockVars, propVars,
                 cex, terminate>>

NextFrame ==
  /\ pc = "propagate"
  /\ todo = {}
  /\ frames[at] # {}
  /\ at + 1 < frontier
  /\ at' = at + 1
  /\ todo' = frames[at + 1]
  /\ UNCHANGED <<sys, preds, trans, frameVars, callVars, pc, blockVars,
                 verdictVars, terminate>>

\* reset_solver: the frames are asserted again from frames_; a solver without
\* reset_assertions keeps what it holds.
AfterReset == IF SolverCanReset THEN frames ELSE asserted

\* No frame is a fixed point: reset the solver and go one frame deeper.
PropagationDone ==
  /\ pc = "propagate"
  /\ todo = {}
  /\ frames[at] # {}
  /\ at + 1 = frontier
  /\ asserted' = AfterReset
  /\ reachedK' = reachedK + 1
  /\ i' = i + 1
  /\ pc' = "loop"
  /\ UNCHANGED <<sys, preds, trans, frontier, frames, bound, blockVars,
                 propVars, verdictVars, terminate>>

-----------------------------------------------------------------------------
\* refine() = REFINE_NONE: the trace is a real counterexample.
ReturnFalse ==
  /\ pc = "refine"
  /\ result' = "FALSE"
  /\ pc' = "done"
  /\ UNCHANGED <<sys, preds, trans, frameVars, callVars, blockVars, propVars,
                 cex, invar, terminate>>

\* terminate_signal_handler: the signal may arrive at any moment.
Signal ==
  /\ Signals
  /\ ~terminate
  /\ terminate' = TRUE
  /\ UNCHANGED <<sys, preds, trans, frameVars, callVars, pc, blockVars,
                 propVars, verdictVars>>

\* Every step of a running check_until call except refine().
SearchStep ==
  \/ LoopExit \/ StepCovered \/ InitIsBad \/ InitStepsIntoBad
  \/ StepBaseHolds \/ EnterBlockAll
  \/ ReachesBadGoal \/ BlockedAll \/ TerminateBlocking
  \/ \E g \in goals : \/ GoalInitial(g) \/ GoalAlreadyBlocked(g)
                      \/ GoalBlocked(g) \/ GoalPredecessor(g)
  \/ \E l \in cur.cube : DropLiteral(l) \/ KeepLiteral(l)
  \/ GeneralizationDone \/ PushCollateral \/ LearnClause
  \/ \E c \in todo : PropagateClause(c) \/ KeepClause(c)
  \/ FixedPoint \/ NextFrame \/ PropagationDone

\* What happens around the call.
Environment == (\E k \in Bounds : CheckUntil(k)) \/ Signal

-----------------------------------------------------------------------------
(* Properties, for every flavour.                                          *)

Phases == {"idle", "loop", "blocking", "goal", "indgen", "highest",
           "propagate", "refine", "done"}

Cubes == SUBSET SUBSET States

GoalType == [idx : Nat, trace : Seq(Cubes)]

\* The type invariant: frames and solver labels stay the same length, the
\* queue holds finite chains of targets, reached_k_ starts at -1.
TypeOK ==
  /\ sys \in Systems
  /\ preds \in SUBSET SUBSET States
  /\ trans \in SUBSET (States \X States)
  /\ frontier \in Nat \ {0}
  /\ frames \in [0..frontier -> SUBSET Cubes]
  /\ asserted \in [0..frontier -> SUBSET Cubes]
  /\ reachedK \in Nat \cup {-1}
  /\ bound \in Nat
  /\ i \in Nat
  /\ pc \in Phases
  /\ goals \in SUBSET GoalType
  /\ cur \in [trace : Seq(Cubes), cube : Cubes, idx : Nat, needed : Cubes]
  /\ todo \in SUBSET Cubes
  /\ at \in Nat
  /\ cex \in Seq(Cubes)
  /\ result \in {"NONE", "UNKNOWN", "FALSE", "TRUE"}
  /\ invar \in SUBSET States
  /\ terminate \in BOOLEAN

\* Frame soundness: every clause the solver holds under a frame label holds
\* initially and is inductive relative to the frame below, at every moment,
\* so F[k] contains what k steps can reach.  A signal does not disturb it.
FramesSound ==
  \A k \in 1..frontier : \A c \in asserted[k] :
    ~IntersectsInit(c) /\ ~Steps(F(k - 1), Cube(c))

\* Solver and data structure agree: subsumption, propagation and the solver
\* reset never make frame_labels_ and frames_ describe different frames.
LabelsMatchFrames ==
  \A k \in 1..frontier : F(k) = FrameTerm(k)

\* A pending goal is outside the frame below it (the assertions of
\* rel_ind_check, ic3base.cpp:641-648); one at index 0 meets the initial states.
GoalsOutsideLowerFrame ==
  ~terminate => \A g \in goals :
    IF g.idx = 0 THEN IntersectsInit(Target(g))
                 ELSE Cube(Target(g)) \cap F(g.idx - 1) = {}

\* TRUE is only returned for a safe system, with an inductive invariant that
\* excludes bad, as long as no signal came.
TrueIsSound ==
  (result = "TRUE" /\ ~terminate) =>
    Safe(sys) /\ Inductive(sys, invar) /\ invar \cap sys.bad = {}

\* What prover.h says of invar(): after TRUE it is an inductive invariant.
InvarIsInductive ==
  result = "TRUE" => Inductive(sys, invar) /\ invar \cap sys.bad = {}

\* FALSE is only returned when the concrete system has a counterexample of
\* witness_length() steps: the last query of compute_witness has a model.
FalseHasWitness ==
  result = "FALSE" =>
    \E path \in Paths(sys, Len(cex) - 1) :
      path[0] \in sys.init /\ path[Len(cex) - 1] \in sys.bad

\* Frames only get stronger and depth is never given back, whatever happens:
\* learning, subsumption, propagation, solver resets, refinement, signals.
FramesOnlyStrengthen ==
  [][ /\ \A k \in 0..frontier : F(k)' \subseteq F(k)
      /\ reachedK' >= reachedK ]_vars

\* Every call returns: blocking, propagation and refinement do not diverge,
\* with or without a signal.
CallsReturn == pc = "loop" ~> pc \in {"idle", "done"}
=============================================================================
