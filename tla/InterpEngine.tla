---------------------------- MODULE InterpEngine ----------------------------
(***************************************************************************)
(* What the interpolation engines share: check_until, step_0 and reset_env *)
(* (the same code in engines/interpolantmc.cpp, interp_seq_mc.cpp and      *)
(* dual_approx_reach.cpp), and what their queries mean.                    *)
(*                                                                         *)
(* Solver and interpolator are exact and external: an interpolant is any   *)
(* set of states with the defining property, and the interpolator may      *)
(* throw.  A step of the model is the code from one answer to the next.    *)
(* Terms are untimed: a query about times j and j + 1 is an image.         *)
(***************************************************************************)
EXTENDS TransSys, Integers, Sequences, FiniteSetsExt

CONSTANTS
  Systems,   \* the systems and properties the prover may be given
  Bounds,    \* the values of k check_until may be called with
  Options

\* frontier .. eager: the --interp-* options of the engine interp.
\* fails: the interpolator may throw.  cegar: a CEGAR loop's base engine.
OptionType ==
  [ engine : {"interp", "ismc", "dar"}, frontier : BOOLEAN, firstLast : BOOLEAN,
    eager : BOOLEAN, fails : BOOLEAN, cegar : BOOLEAN ]

ASSUME InterpSystemsAssumption == Systems \subseteq SystemType
ASSUME InterpBoundsAssumption  == Bounds \subseteq Nat
ASSUME InterpOptionsAssumption == Options \subseteq OptionType

VARIABLES
  sys,       \* the system and property
  opts,      \* the options; never change
  level,     \* the context level of solver_
  reachedK,  \* reached_k_
  bound,     \* the argument of the check_until call
  i,         \* its loop counter
  pc,        \* what the call waits for
  itps,      \* the interpolation sequence as far as it is computed
  path,      \* the model compute_witness read
  invar,     \* invar_
  result     \* what check_until returned

engineVars == <<sys, opts, level, reachedK, bound, i, pc, itps, path, invar, result>>

-----------------------------------------------------------------------------
(* Queries.                                                                *)

Img(X) == { t \in States : \E s \in X : <<s, t>> \in sys.trans }
Pre(X) == { s \in States : \E t \in X : <<s, t>> \in sys.trans }

\* The states from which exactly n steps lead into X.
BackTo(X, n) ==
  LET before[k \in 0..n] == IF k = 0 THEN X ELSE Pre(before[k - 1])
  IN  before[n]

\* A and B are unsatisfiable together and X is an interpolant.
Interpolants(A, B) == { X \in SUBSET States : A \subseteq X /\ X \cap B = {} }

\* get_sequence_interpolants over n transitions from one set to another: each
\* interpolant and the next transition imply the interpolant after it.
NextItps(from, to, n) ==
  Interpolants(Img(IF itps = <<>> THEN from ELSE itps[Len(itps)]),
               BackTo(to, n - 1 - Len(itps)))

\* The counterexamples of n steps.
Witnesses(n) ==
  { p \in Paths(sys, n) : p[0] \in sys.init /\ p[n] \in sys.bad }

\* The union of the first m sets of a sequence.
Joined(seq, m) == UNION { seq[j] : j \in 1..m }

\* check_fixed_point: a set that the ones before it cover.
FixedPoints(seq) == { m \in 1..Len(seq) - 1 : seq[m + 1] \subseteq Joined(seq, m) }

FixedPoint(seq) == Joined(seq, Min(FixedPoints(seq)))

-----------------------------------------------------------------------------
(* check_until.                                                            *)

EngineInit ==
  /\ sys \in Systems
  /\ opts \in Options
  /\ level = 0
  /\ reachedK = -1
  /\ bound = 0 /\ i = 0
  /\ pc = "idle"
  /\ itps = <<>> /\ path = <<>>
  /\ invar = {}
  /\ result = "NONE"

\* A call; after UNKNOWN there may be another one.
CheckUntil(k) ==
  /\ pc = "idle"
  /\ bound' = k
  /\ i' = 0
  /\ result' = "NONE"
  /\ pc' = "loop"
  /\ UNCHANGED <<sys, opts, level, reachedK, itps, path, invar>>

LoopExit ==
  /\ pc = "loop"
  /\ i > bound
  /\ result' = "UNKNOWN"
  /\ pc' = "idle"
  /\ UNCHANGED <<sys, opts, level, reachedK, bound, i, itps, path, invar>>

StepCovered ==
  /\ pc = "loop"
  /\ i <= bound /\ i <= reachedK
  /\ i' = i + 1
  /\ UNCHANGED <<sys, opts, level, reachedK, bound, pc, itps, path, invar, result>>

\* step goes on past reached_k_.
NewBound == pc = "loop" /\ i <= bound /\ i > reachedK /\ i > 0

\* step returned true.
Proved(X) ==
  /\ invar' = X
  /\ result' = "TRUE"
  /\ pc' = "done"
  /\ UNCHANGED i

\* step returned false.
ToNextBound ==
  /\ i' = i + 1
  /\ pc' = "loop"
  /\ UNCHANGED <<invar, result>>

\* concrete_cex_ is set with the satisfied query left on lvl levels:
\* compute_witness reads the model.
Refuted(paths, lvl) ==
  /\ path' \in paths
  /\ level' = lvl
  /\ result' = "FALSE"
  /\ pc' = "done"
  /\ UNCHANGED <<sys, opts, reachedK, bound, i, itps, invar>>

\* A PonoException: an internal error, the end of the run.
Throws ==
  /\ pc' = "error"
  /\ UNCHANGED <<sys, opts, level, reachedK, bound, i, itps, path, invar, result>>

Step0Bad ==
  /\ pc = "loop"
  /\ i = 0 /\ i > reachedK
  /\ Refuted(Witnesses(0), 1)

Step0Good ==
  /\ pc = "loop"
  /\ i = 0 /\ i > reachedK
  /\ Witnesses(0) = {}
  /\ reachedK' = 0
  /\ ToNextBound
  /\ UNCHANGED <<sys, opts, level, bound, itps, path>>

\* An InternalSolverException leaves everything as it is.  The engines do not
\* clean up, so this prover is not called again.
InterpolatorFails ==
  /\ pc \in {"interp", "chain", "forward", "backward"}
  /\ opts.fails
  /\ result' = "UNKNOWN"
  /\ pc' = "failed"
  /\ UNCHANGED <<sys, opts, level, reachedK, bound, i, itps, path, invar>>

EngineStep == LoopExit \/ StepCovered \/ Step0Bad \/ Step0Good \/ InterpolatorFails

\* A CEGAR loop refines the system: no counterexample is left at the reported
\* bound.  reset_env pops all levels and initializes the prover.
ResetEnv ==
  /\ pc = "done" /\ result = "FALSE" /\ opts.cegar
  /\ \E sy \in Systems :
       /\ sy.init = sys.init /\ sy.bad = sys.bad
       /\ sy.trans \subseteq sys.trans
       /\ ~\E p \in Paths(sy, reachedK + 1) :
             p[0] \in sy.init /\ p[reachedK + 1] \in sy.bad
       /\ sys' = sy
  /\ level' = 0
  /\ reachedK' = -1
  /\ path' = <<>>
  /\ result' = "NONE"
  /\ pc' = "idle"
  /\ UNCHANGED <<opts, bound, i, itps, invar>>

-----------------------------------------------------------------------------
=============================================================================
