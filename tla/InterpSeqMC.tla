---------------------------- MODULE InterpSeqMC ----------------------------
(***************************************************************************)
(* Interpolation sequence model checking (engines/interp_seq_mc.cpp).      *)
(* The j-th set of the sequence over-approximates what j steps reach; each *)
(* bound strengthens all of them with a new interpolation sequence.        *)
(***************************************************************************)
EXTENDS InterpEngine

VARIABLES
  reachSeq   \* reach_seq_; reachSeq[j + 1] is for j steps

vars == <<engineVars, reachSeq>>

Init ==
  /\ EngineInit
  /\ reachSeq = <<sys.init>>

\* The unrolling to bound i with bad at i is satisfiable: the solver confirms
\* it and keeps the model.
Concrete ==
  /\ NewBound
  /\ Refuted(Witnesses(i), 1)
  /\ UNCHANGED reachSeq

\* It is not: the interpolator computes a sequence.
StartSequence ==
  /\ NewBound
  /\ Witnesses(i) = {}
  /\ itps' = <<>>
  /\ pc' = "chain"
  /\ UNCHANGED <<sys, opts, level, reachedK, bound, i, path, invar, result, reachSeq>>

NextInterpolant ==
  /\ pc = "chain"
  /\ Len(itps) < i
  /\ \E X \in NextItps(sys.init, sys.bad, i) : itps' = Append(itps, X)
  /\ UNCHANGED <<sys, opts, level, reachedK, bound, i, pc, path, invar, result, reachSeq>>

\* The sequence is extended by true, then every set but the first is
\* strengthened.
Strengthened ==
  [ j \in 1..i + 1 |->
      IF j = 1 THEN reachSeq[1]
      ELSE itps[j - 1] \cap (IF j <= i THEN reachSeq[j] ELSE States) ]

Strengthen ==
  /\ pc = "chain"
  /\ Len(itps) = i
  /\ reachSeq' = Strengthened
  /\ IF FixedPoints(reachSeq') # {}
     THEN Proved(FixedPoint(reachSeq')) /\ UNCHANGED reachedK
     ELSE ToNextBound /\ reachedK' = reachedK + 1
  /\ UNCHANGED <<sys, opts, level, bound, itps, path>>

Step ==
  \/ EngineStep /\ UNCHANGED reachSeq
  \/ Concrete \/ StartSequence \/ NextInterpolant \/ Strengthen

Reset ==
  /\ ResetEnv
  /\ reachSeq' = <<sys'.init>>

-----------------------------------------------------------------------------
\* What the code asserts: queries start on level 0, a counterexample leaves
\* one, and the sequences are as long as the bound.
AssertionsHold ==
  /\ level = IF result = "FALSE" THEN 1 ELSE 0
  /\ pc = "chain" => Len(reachSeq) = i /\ i = reachedK + 1
  /\ pc # "error"
=============================================================================
