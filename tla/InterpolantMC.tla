--------------------------- MODULE InterpolantMC ---------------------------
(***************************************************************************)
(* McMillan's interpolation (engines/interpolantmc.cpp).  At bound i the   *)
(* transition at time 0 and the reached states are one half of the query;  *)
(* transB_ (times 1 on) and the disjunction of bad states the other.       *)
(* --interp-backward swaps the halves and negates the result, which has    *)
(* the same interpolants.                                                  *)
(***************************************************************************)
EXTENDS InterpEngine

VARIABLES
  bTrans,    \* transB_ has the transitions at times 1 .. bTrans
  badTimes,  \* the times of bad_disjuncts_
  R, Ri,     \* the reached states, the last interpolant
  count      \* interp_count

mcVars == <<bTrans, badTimes, R, Ri, count>>
vars == <<engineVars, mcVars>>

Init ==
  /\ EngineInit
  /\ bTrans = 0 /\ badTimes = {}
  /\ R = {} /\ Ri = {}
  /\ count = 0

StartBound ==
  /\ NewBound
  /\ badTimes' = IF opts.firstLast THEN {1, i} ELSE badTimes \cup {i}
  /\ R' = sys.init /\ Ri' = sys.init
  /\ count' = 0
  /\ pc' = "interp"
  /\ UNCHANGED <<sys, opts, level, reachedK, bound, i, itps, path, invar, result, bTrans>>

\* formulaB: the states at time 1 that transB_ takes past a bad state.  The
\* whole of transB_ has to be passed.
FormulaB ==
  { p[0] : p \in { q \in Paths(sys, bTrans) : \E t \in badTimes : q[t - 1] \in sys.bad } }

FormulaA == Img(IF opts.frontier THEN Ri ELSE R)

Unsat == pc = "interp" /\ FormulaA \cap FormulaB = {}
Sat   == pc = "interp" /\ FormulaA \cap FormulaB # {}

\* has_converged: the solver holds the negation of all that is in R.
Converge ==
  /\ Unsat
  /\ Ri' \in Interpolants(FormulaA, FormulaB)
  /\ Ri' \subseteq R
  /\ count' = count + 1
  /\ level' = 0
  /\ Proved(R)
  /\ UNCHANGED <<sys, opts, reachedK, bound, itps, path, bTrans, badTimes, R>>

ExtendReached ==
  /\ Unsat
  /\ Ri' \in Interpolants(FormulaA, FormulaB)
  /\ ~(Ri' \subseteq R)
  /\ R' = R \cup Ri'
  /\ count' = count + 1
  /\ level' = 1
  /\ UNCHANGED <<sys, opts, reachedK, bound, i, pc, itps, path, invar, result,
                 bTrans, badTimes>>

\* The runs the replay in solver_ asks for: bad at the last time.
Replays ==
  { p \in Paths(sys, bTrans + 1) : p[0] \in sys.init /\ p[i] \in sys.bad }

\* From the initial states it is a counterexample ("Expecting satisfiable
\* result" otherwise).
Concrete ==
  /\ Sat
  /\ count = 0
  /\ IF Replays # {} THEN Refuted(Replays, 1) ELSE Throws
  /\ UNCHANGED mcVars

\* Seeded fault: the bound is extended one too far.
ExtendUnrollingTooFar ==
  /\ Sat
  /\ count > 0
  /\ bTrans' = bTrans + IF opts.eager THEN count ELSE 1
  /\ reachedK' = IF opts.eager THEN count + i ELSE i + 1
  /\ level' = 0
  /\ ToNextBound
  /\ UNCHANGED <<sys, opts, bound, itps, path, badTimes, R, Ri, count>>

\* The interpolants are too coarse: unroll further, eagerly by as many steps
\* as the interpolants have shown safe.
ExtendUnrolling ==
  /\ Sat
  /\ count > 0
  /\ bTrans' = bTrans + IF opts.eager THEN count ELSE 1
  /\ reachedK' = IF opts.eager THEN count + i - 1 ELSE i
  /\ level' = 0
  /\ ToNextBound
  /\ UNCHANGED <<sys, opts, bound, itps, path, badTimes, R, Ri, count>>

Step ==
  \/ EngineStep /\ UNCHANGED mcVars
  \/ StartBound \/ Converge \/ ExtendReached \/ Concrete
  \/ ExtendUnrolling

\* initialize makes transB_ true and bad_disjuncts_ false.
Reset ==
  /\ ResetEnv
  /\ bTrans' = 0 /\ badTimes' = {}
  /\ UNCHANGED <<R, Ri, count>>

-----------------------------------------------------------------------------
\* What the code asserts: step starts and has_converged works on level 0 and
\* 1, a counterexample leaves one level, the last bad time ends transB_.
AssertionsHold ==
  /\ pc = "loop" => level = 0
  /\ pc = "interp" => level = (IF count > 0 THEN 1 ELSE 0) /\ i = bTrans + 1 /\ i \in badTimes
  /\ result = "FALSE" => level = 1
  /\ pc # "error"
=============================================================================
