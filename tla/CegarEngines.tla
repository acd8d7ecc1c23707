----------------------------- MODULE CegarEngines -----------------------------
(***************************************************************************)
(* The CEGAR provers make_provers.cpp can build: CegarOpsUf over an engine *)
(* or over the array loop, CegarValues over the array loop, and the array  *)
(* loop on its own.                                                        *)
(***************************************************************************)
EXTENDS CegProphecyArrays

(* The loops over abstracted operators (engines/cegar_ops_uf.cpp) and over *)
(* abstracted values (engines/cegar_values.cpp).  Both keep a copy of the  *)
(* abstract system in a solver of their own, check the counterexample of   *)
(* the inner prover with a label for each abstract term, and conjoin the   *)
(* axioms of the unsatisfiable core to the copy and to the prover's system.*)

AbstractTerms == IF opts.outer = "ops" THEN sys.ops ELSE sys.vals

-----------------------------------------------------------------------------
(* The query, at the length of the inner prover's counterexample.          *)

\* The copy has arrays, and the axioms added so far; a constraint on a frozen
\* value, or of a functional system, is added to its initial states as well.
CopyRefined(p) ==
  /\ ArraysHold(p, cexLen)
  /\ \A a \in initAx \cap AbstractTerms : <<p[0], p[0]>> \in a.rel
  /\ cexLen > 0 \/ opts.outer = "vals" \/ "copy" \in opts.functional =>
       \A a \in transAx \cap AbstractTerms : Holds(a, p, cexLen)

\* What the label of a term implies: the equality of an operator at every
\* time, at the last one only if it is over current state variables; that of
\* a frozen value at time 0.  At length 0 a term with next states is unrolled
\* once more than the run, from any next state.
LabelHolds(a, p) ==
  CASE opts.outer = "vals" -> <<p[0], p[0]>> \in a.rel
    [] opts.outer = "ops" /\ a.kind = "step" /\ cexLen = 0 ->
         \E s \in States : <<p[0], s>> \in a.rel
    [] OTHER -> Holds(a, p, cexLen)

Labelled(labels) ==
  { p \in Counterexamples(cexLen) :
      CopyRefined(p) /\ \A a \in labels : LabelHolds(a, p) }

\* The unsatisfiable cores the solver may give.
UnsatCores == { core \in SUBSET AbstractTerms : Labelled(core) = {} }

-----------------------------------------------------------------------------
\* cegar_refine returns false: a concrete counterexample, which CegarOpsUf
\* stores.  Without abstract terms the prover computes the witness itself.
ReturnFalse ==
  /\ pc = "outer"
  /\ path' \in Labelled(AbstractTerms)
  /\ result' = "FALSE"
  /\ pc' = "done"
  /\ UNCHANGED <<sys, opts, initAx, transAx, engineK, cegpK, cexLen, enum, bound>>

\* The axioms of CegarOpsUf constrain the initial states only when the
\* counterexample has no steps, those of a loop over arrays when it is at
\* bound 0: the transition relation holds them in both of its states.  A
\* functional system has them as constraints, which every state satisfies.
ConstrainsInit == cexLen = 0 \/ "prover" \in opts.functional

\* reset_env makes an engine start over; IC3IA and the array loop go on.
ResetEnv ==
  engineK' = IF opts.inner = "engine" /\ opts.restart THEN -1 ELSE engineK

\* Seeded fault: the initial states are never constrained.
RefineOuterSkipsInit ==
  /\ pc = "outer"
  /\ Labelled(AbstractTerms) = {}
  /\ \E core \in UnsatCores : transAx' = transAx \cup core
  /\ ResetEnv
  /\ CallInner
  /\ UNCHANGED <<sys, opts, initAx, cegpK, cexLen, enum, path, bound, result>>

RefineOuter ==
  /\ pc = "outer"
  /\ Labelled(AbstractTerms) = {}
  /\ \E core \in UnsatCores :
       /\ transAx' = transAx \cup core
       /\ initAx' = IF ConstrainsInit
                    THEN initAx \cup { a \in core : a.kind = "curr" } ELSE initAx
  /\ ResetEnv
  /\ CallInner
  /\ UNCHANGED <<sys, opts, cegpK, cexLen, enum, path, bound, result>>

-----------------------------------------------------------------------------

Step ==
  \/ EngineTrue \/ EngineUnknown \/ EngineFalse
  \/ LoopTest \/ Enumerate \/ Concrete \/ AddProphecies \/ Refine
  \/ EngineFalseOverArrays
  \/ ReturnFalse \/ RefineOuter

Next == Step \/ \E k \in Bounds : CheckUntil(k)

\* A call runs until it returns.
Spec == Init /\ [][Next]_vars /\ WF_vars(Step)

-----------------------------------------------------------------------------
(* Properties.                                                             *)

\* TRUE of the innermost prover, about a system with fewer constraints and a
\* changed property, is returned to the user as it is: no concrete
\* counterexample of any length may exist.
TrueIsSound == result = "TRUE" => \A n \in 0..MaxLen : ConcreteCex(n) = {}

\* FALSE means a concrete counterexample of witness_length() steps, and the
\* stored run is one.
FalseIsConcrete ==
  result = "FALSE" =>
    IF opts.inner = "cegp" \/ opts.outer # "none" THEN path \in ConcreteCex(cexLen)
    ELSE AbsCex(cexLen) # {}

\* A refinement of an outer loop leaves no counterexample of the length it was
\* made for (over arrays as they are): axioms over current states must bind the
\* last state, too, and the first one when the run has no steps.
RefinementExcludesCex ==
  [][pc = "outer" /\ pc' # "done" => (Labelled({}) = {})']_vars
===============================================================================
