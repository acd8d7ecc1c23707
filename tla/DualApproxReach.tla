-------------------------- MODULE DualApproxReach --------------------------
(***************************************************************************)
(* Dual approximated reachability (engines/dual_approx_reach.cpp): a       *)
(* forward sequence from the initial states and a backward one from the    *)
(* bad states, strengthened against each other.                            *)
(***************************************************************************)
EXTENDS InterpEngine

VARIABLES
  forwardSeq,   \* forward_seq_; element j of the code is forwardSeq[j + 1]
  backwardSeq,  \* backward_seq_
  idx,          \* the index that was found: the argument of pairwise_strengthen
  pos           \* its loop counter

darVars == <<forwardSeq, backwardSeq, idx, pos>>
vars == <<engineVars, darVars>>

F(j) == forwardSeq[j + 1]
B(j) == backwardSeq[j + 1]

Init ==
  /\ EngineInit
  /\ forwardSeq = <<sys.init>>
  /\ backwardSeq = <<sys.bad>>
  /\ idx = 0 /\ pos = 0

\* seq_len, the length the sequences had before pairwise_strengthen.
SeqLen == IF pc \in {"loop", "chain"} THEN Len(forwardSeq) ELSE Len(forwardSeq) - 1

-----------------------------------------------------------------------------
(* local_strengthen, global_strengthen.                                    *)

\* Seeded fault: the index is not mirrored.
LocalUnsatSameEnd == { u \in 0..SeqLen - 1 : Img(F(u)) \cap B(SeqLen - 1 - u) = {} }

\* unsat_idx such that a step from F to B is impossible.
LocalUnsat == { u \in 0..SeqLen - 1 : Img(F(SeqLen - 1 - u)) \cap B(u) = {} }

\* pairwise_strengthen starts at position p with a forward sequence that is
\* extended by true.
StartForward(p, seq) ==
  /\ idx' = p
  /\ pos' = p
  /\ forwardSeq' = Append(seq, States)
  /\ pc' = "forward"

LocalStrengthen ==
  /\ NewBound
  /\ LocalUnsat # {}
  /\ StartForward(SeqLen - 1 - Min(LocalUnsat), forwardSeq)
  /\ UNCHANGED <<sys, opts, level, reachedK, bound, i, itps, path, invar, result,
                 backwardSeq>>

\* Nothing found at bound 1: the query over one transition is a counterexample
\* and stays on two levels.
LocalConcrete ==
  /\ NewBound
  /\ LocalUnsat = {}
  /\ i = 1
  /\ Refuted(Witnesses(1), 2)
  /\ UNCHANGED darVars

\* unsat_idx such that the initial states cannot reach B in unsat_idx + 1 steps.
GlobalUnsat ==
  { u \in 1..SeqLen - 1 : sys.init \cap BackTo(B(SeqLen - 1 - u), u + 1) = {} }

TryGlobal == NewBound /\ LocalUnsat = {} /\ i > 1

GlobalConcrete ==
  /\ TryGlobal
  /\ GlobalUnsat = {}
  /\ Refuted(Witnesses(SeqLen), SeqLen + 1)
  /\ UNCHANGED darVars

GlobalFound ==
  /\ TryGlobal
  /\ GlobalUnsat # {}
  /\ idx' = Min(GlobalUnsat)
  /\ itps' = <<>>
  /\ pc' = "chain"
  /\ UNCHANGED <<sys, opts, level, reachedK, bound, i, path, invar, result,
                 forwardSeq, backwardSeq, pos>>

NextInterpolant ==
  /\ pc = "chain"
  /\ Len(itps) < idx + 1
  /\ \E X \in NextItps(sys.init, B(SeqLen - 1 - idx), idx + 1) : itps' = Append(itps, X)
  /\ UNCHANGED <<sys, opts, level, reachedK, bound, i, pc, path, invar, result, darVars>>

\* Position 0 stays as it is; the last interpolant is not used when it is
\* beyond the sequence.
GlobalStrengthen ==
  /\ pc = "chain"
  /\ Len(itps) = idx + 1
  /\ StartForward(idx, [ j \in 1..SeqLen |->
        IF j \in 2..idx + 2 THEN forwardSeq[j] \cap itps[j - 1] ELSE forwardSeq[j] ])
  /\ UNCHANGED <<sys, opts, level, reachedK, bound, i, itps, path, invar, result,
                 backwardSeq>>

-----------------------------------------------------------------------------
(* pairwise_strengthen and the fixed points.                               *)

StrengthenAt(seq, p, X) == [seq EXCEPT ![p + 1] = @ \cap X]

\* Strengthen F(pos + 1) with an interpolant of F(pos) and a transition, and
\* B(SeqLen - 1 - pos) ("expect UNSAT interpolation query" otherwise).
ForwardItps  == Interpolants(Img(F(pos)), B(SeqLen - 1 - pos))
BackwardItps == Interpolants(Pre(B(pos)), F(SeqLen - 1 - pos))

Forward ==
  /\ pc = "forward"
  /\ pos < SeqLen
  /\ \E X \in ForwardItps : forwardSeq' = StrengthenAt(forwardSeq, pos + 1, X)
  /\ pos' = pos + 1
  /\ UNCHANGED <<engineVars, backwardSeq, idx>>

TurnBackward ==
  /\ pc = "forward"
  /\ pos = SeqLen
  /\ backwardSeq' = Append(backwardSeq, States)
  /\ pos' = SeqLen - 1 - idx
  /\ pc' = "backward"
  /\ UNCHANGED <<sys, opts, level, reachedK, bound, i, itps, path, invar, result,
                 forwardSeq, idx>>

Backward ==
  /\ pc = "backward"
  /\ pos < SeqLen
  /\ \E X \in BackwardItps : backwardSeq' = StrengthenAt(backwardSeq, pos + 1, X)
  /\ pos' = pos + 1
  /\ UNCHANGED <<engineVars, forwardSeq, idx>>

\* Seeded fault: the backward fixed point is not negated.
BackwardInvarPositive == FixedPoint(backwardSeq)

BackwardInvar == Neg(FixedPoint(backwardSeq))

CheckFixedPoint ==
  /\ pc = "backward"
  /\ pos = SeqLen
  /\ reachedK' = reachedK + 1
  /\ IF FixedPoints(forwardSeq) # {} THEN Proved(FixedPoint(forwardSeq))
     ELSE IF FixedPoints(backwardSeq) # {} THEN Proved(BackwardInvar)
     ELSE ToNextBound
  /\ UNCHANGED <<sys, opts, level, bound, itps, path, darVars>>

Step ==
  \/ EngineStep /\ UNCHANGED darVars
  \/ LocalStrengthen \/ LocalConcrete \/ GlobalConcrete \/ GlobalFound
  \/ NextInterpolant \/ GlobalStrengthen
  \/ Forward \/ TurnBackward \/ Backward \/ CheckFixedPoint

Reset ==
  /\ ResetEnv
  /\ forwardSeq' = <<sys'.init>> /\ backwardSeq' = <<sys'.bad>>
  /\ UNCHANGED <<idx, pos>>

-----------------------------------------------------------------------------
\* What the code asserts: the sequences are as long as reached_k_ + 1, bounds
\* come one after the other, what a counterexample leaves on the solver is
\* what reset_env expects, and the queries of pairwise_strengthen are
\* unsatisfiable.
AssertionsHold ==
  /\ pc = "loop" /\ reachedK >= 0 => Len(forwardSeq) = reachedK + 1
  /\ pc \in {"chain", "forward", "backward"} => i = reachedK + 1
  /\ pc \in {"loop", "chain"} => Len(forwardSeq) = Len(backwardSeq)
  /\ level = IF result = "FALSE" THEN reachedK + 2 ELSE 0
  /\ pc \in {"forward", "backward"} /\ pos < SeqLen =>
       (IF pc = "forward" THEN ForwardItps ELSE BackwardItps) # {}
=============================================================================
