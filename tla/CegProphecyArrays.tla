------------------------- MODULE CegProphecyArrays ---------------------------
(***************************************************************************)
(* The array loop (engines/ceg_prophecy_arrays.cpp) and its enumeration of *)
(* violated axioms (refiners/array_axiom_enumerator.cpp): bounded checks   *)
(* of the abstract system, one bound after the other, whose models are     *)
(* excluded by axioms over one time (consecutive) or over an index read at *)
(* another time (nonconsecutive); the latter need a prophecy variable.     *)
(*                                                                         *)
(* A step of the model is the code from one solver answer to the next.     *)
(***************************************************************************)
EXTENDS CegarBase

-----------------------------------------------------------------------------
(* Timed instances of axioms: [ax, at] is ax unrolled at a time, and for a *)
(* nonconsecutive one [ax, from, at] is the index of time from in ax.      *)

Consecutive(index) ==
  [kind |-> IF index.next THEN "step" ELSE "curr", delay |-> 0, rel |-> index.rel]

\* The axioms over the terms of one time and over the prophecy variables.
OneTimeAxioms ==
  sys.arrays
  \cup (IF sys.finite THEN {} ELSE sys.lambdas)
  \cup { Consecutive(index) : index \in sys.indices }
  \cup { Prophecy(q[1], q[2]) : q \in enum.prophs }

\* The last time an axiom is unrolled at: one with next states ends earlier.
\* At bound 0 only axioms over current states are looked at.
LastTime(a) == IF OverStep(a) THEN cegpK ELSE cegpK + 1

InstanceHolds(x, p) ==
  LET n == cegpK + 1
  IN  CASE x.ax.kind = "curr"  -> <<p[x.from], p[x.at]>> \in x.ax.rel
        [] x.ax.kind = "step"  -> <<p[x.from], p[x.at + 1]>> \in x.ax.rel
        [] x.ax.kind = "proph" -> \E s \in Predicted(p, n, x.ax.delay) :
                                    <<s, p[x.at]>> \in x.ax.rel
        [] x.ax.kind = "after" -> \E s \in Predicted(p, n, x.ax.delay) :
                                    <<s, p[x.at + 1]>> \in x.ax.rel

ConsecutiveInstances ==
  UNION { { [ax |-> a, from |-> t, at |-> t] : t \in 0..LastTime(a) } : a \in OneTimeAxioms }

\* only_curr is asked of an axiom whose index is already timed: none is over
\* current states only, and all are unrolled as if they were over a step.
NonconsecutiveInstances ==
  { [ax |-> Consecutive(index), from |-> u, at |-> t] :
      index \in sys.indices, u \in 0..cegpK + 1, t \in 0..cegpK }

ViolatedBy(p, instances) == { x \in instances : ~InstanceHolds(x, p) }

\* Models of the bounded check and of the instances asserted so far.
Traces == { p \in AbsCex(cegpK + 1) : \A x \in enum.asserted : InstanceHolds(x, p) }

\* Seeded fault: indices are read at the bound only.
LateViolations(p) ==
  IF enum.second THEN {}
  ELSE { x \in ViolatedBy(p, NonconsecutiveInstances) : x.from = cegpK + 1 }

\* The violations over the index time that is the nearest to the bound.
LatestViolations(p) ==
  LET violated == ViolatedBy(p, NonconsecutiveInstances)
  IN  IF enum.second THEN {}
      ELSE { x \in violated : \A y \in violated : y.from <= x.from }

-----------------------------------------------------------------------------
\* check_until: while (res == FALSE && reached_k_ <= k), with res FALSE.
LoopTest ==
  /\ pc = "loop"
  /\ enum' = [enum EXCEPT !.asserted = {}, !.second = FALSE]
  /\ IF cegpK <= bound THEN pc' = "enum" /\ UNCHANGED result
                       ELSE InnerReturns("UNKNOWN")
  /\ UNCHANGED <<sys, opts, initAx, transAx, engineK, cegpK, cexLen, path, bound>>

\* A model of the trace: its violated axioms are asserted.
Enumerate ==
  /\ pc = "enum"
  /\ \E p \in Traces :
       LET now   == ViolatedBy(p, ConsecutiveInstances)
           found == IF now # {} THEN now ELSE LatestViolations(p)
       IN  /\ found # {}
           /\ path' = p
           /\ enum' = [enum EXCEPT !.asserted = @ \cup found]
  /\ UNCHANGED <<sys, opts, initAx, transAx, engineK, cegpK, cexLen, bound, pc, result>>

\* No axiom is violated: a concrete counterexample, unless the lambda axioms
\* were left out.  In the second enumeration this is assert(ok).
Concrete ==
  /\ pc = "enum"
  /\ \E p \in Traces :
       /\ ViolatedBy(p, ConsecutiveInstances) = {} /\ LatestViolations(p) = {}
       /\ path' = p
  /\ cexLen' = cegpK + 1
  /\ IF enum.second THEN pc' = "error" /\ UNCHANGED result
     ELSE InnerReturns(IF sys.finite THEN "UNKNOWN" ELSE "FALSE")
  /\ UNCHANGED <<sys, opts, initAx, transAx, engineK, cegpK, enum, bound>>

IndexOf(a) == [next |-> a.kind = "step", rel |-> a.rel]

TimedIndices == { <<IndexOf(x.ax), cegpK + 1 - x.from>> :
                    x \in { y \in enum.asserted : y.from # y.at } }

FoundAxioms == { x.ax : x \in { y \in enum.asserted : y.from = y.at } }

\* The axioms found, at every time, with those over some of the indices
\* exclude every trace.
Sufficient(axioms, indices) ==
  ~\E p \in AbsCex(cegpK + 1) :
     \A a \in axioms \cup { Prophecy(q[1], q[2]) : q \in indices } : Holds(a, p, cegpK + 1)

\* reduce_nonconsecutive_axioms drops one index after the other while what is
\* left is sufficient.
IndexChoices ==
  IF ~opts.reduce THEN {TimedIndices}
  ELSE { D \in SUBSET TimedIndices :
           /\ Sufficient(FoundAxioms, D)
           /\ \A q \in D : ~Sufficient(FoundAxioms, D \ {q}) }

AllTracesExcluded == pc = "enum" /\ Traces = {}

\* Seeded fault: the value the index had in the last model is not predicted
\* but taken for a constant.
AddTraceValues ==
  /\ AllTracesExcluded
  /\ ~enum.second /\ TimedIndices # {}
  /\ transAx' = transAx \cup
       { [kind |-> "curr", delay |-> 0,
          rel |-> { <<s, s>> : s \in { t \in States : <<path[cegpK + 1 - q[2]], t>> \in q[1].rel } }] :
           q \in TimedIndices }
  /\ enum' = [enum EXCEPT !.asserted = {}, !.second = TRUE]
  /\ UNCHANGED <<sys, opts, initAx, engineK, cegpK, cexLen, path, bound, pc, result>>

\* The trace is excluded with axioms over an earlier index: a prophecy (and
\* history) variable for each, and a second enumeration over those.  A second
\* variable for the same index and delay would have the name of the first.
AddProphecies ==
  /\ AllTracesExcluded
  /\ ~enum.second /\ TimedIndices # {}
  /\ \E D \in IndexChoices :
       /\ enum' = [asserted |-> {}, second |-> TRUE, prophs |-> enum.prophs \cup D]
       /\ pc' = IF D \cap enum.prophs = {} THEN pc ELSE "error"
  /\ UNCHANGED <<sys, opts, initAx, transAx, engineK, cegpK, cexLen, path, bound, result>>

\* reduce_consecutive_axioms: an unsatisfiable core of the axioms, each
\* unrolled at every time.
Cores(axioms) ==
  IF ~opts.reduce THEN {axioms}
  ELSE { core \in SUBSET axioms : Sufficient(core, {}) }

\* refine_ts: the initial states are constrained only at bound 0.
RefineTs(axioms) ==
  /\ transAx' = transAx \cup axioms
  /\ initAx' = IF cegpK = -1 THEN initAx \cup axioms ELSE initAx

\* cegar_refine returns true; the loop goes on to the next bound until no
\* axiom was needed.
Refine ==
  /\ AllTracesExcluded
  /\ enum.second \/ TimedIndices = {}
  /\ \E axioms \in Cores({ x.ax : x \in enum.asserted }) :
       /\ RefineTs(axioms)
       /\ pc' = IF axioms # {} /\ cegpK < bound THEN "enum" ELSE "engine"
  /\ cegpK' = cegpK + 1
  /\ enum' = [enum EXCEPT !.asserted = {}, !.second = FALSE]
  /\ UNCHANGED <<sys, opts, engineK, cexLen, path, bound, result>>

\* The engine's counterexample: a fresh engine reports its witness length,
\* the one the loop inherits from its reached_k_.
EngineFalseOverArrays ==
  /\ pc = "engine" /\ opts.inner = "cegp"
  /\ \E k \in -1..bound, n \in 0..MaxLen :
       /\ EngineCex(k, n)
       /\ engineK' = k
       /\ cegpK' = IF opts.restart THEN n - 1 ELSE k
       /\ cexLen' = n
  /\ pc' = "loop"
  /\ UNCHANGED <<sys, opts, initAx, transAx, enum, path, bound, result>>
=============================================================================
