----------------------------- MODULE CegarBase -------------------------------
(***************************************************************************)
(* What the CEGAR loops share (engines/cegar.h): the abstract system, the  *)
(* axioms that refine it, and the prover underneath.                       *)
(*                                                                         *)
(* A state is a valuation of the abstract system: of its variables, its    *)
(* uninterpreted functions and its frozen constants.  An axiom says that   *)
(* something abstract means what it stands for; the concrete runs are the  *)
(* abstract ones on which every axiom holds at every time.  The engine     *)
(* underneath is external and is known by what a safety prover promises.   *)
(***************************************************************************)
EXTENDS Integers, FiniteSets

CONSTANTS
  States,
  Systems,  \* the abstract systems and their axioms
  Bounds,   \* the values of k check_until may be called with
  Options,  \* the loops that are stacked and their options
  MaxLen    \* no system has a first counterexample longer than this

ASSUME MaxLenAssumption == MaxLen \in Nat /\ \A k \in Bounds : k \in Nat /\ k < MaxLen

VARIABLES
  sys,      \* the abstract system before any refinement, and the axioms
  opts,     \* the loops and their options; never change
  initAx,   \* axioms that were conjoined to the initial states
  transAx,  \* axioms that were conjoined to the transition relation
  engineK,  \* reached_k_ of the engine
  cegpK,    \* reached_k_ of CegProphecyArrays
  cexLen,   \* witness_length() of the prover that answered FALSE
  bound,    \* the argument of the check_until call
  pc,       \* where the call is
  enum,     \* the enumeration of array axioms that runs
  path,     \* the model of the last query
  result    \* what check_until returned

loopVars == <<initAx, transAx, engineK, cegpK, cexLen, enum, path>>
vars == <<sys, opts, loopVars, bound, pc, result>>

(* An axiom relates two states of a run.                                   *)
(*   curr   over current state variables only: a state and itself          *)
(*   step   with next states or inputs: a state and its successor          *)
(*   proph  over a prophecy variable: the state delay steps before the     *)
(*          violation, whose index it predicts, and every state            *)
(*   after  over a prophecy variable and the next state of every step      *)
Axiom == [ kind : {"curr", "step"}, delay : {0}, rel : SUBSET (States \X States) ]

\* An axiom over an index relates the state the index is read in to a state,
\* or (next) to the state after a step.
Index == [ next : BOOLEAN, rel : SUBSET (States \X States) ]

Prophecy(index, d) ==
  [kind |-> IF index.next THEN "after" ELSE "proph", delay |-> d, rel |-> index.rel]

OverStep(a) == a.kind \in {"step", "after"}

CegarSystem ==
  [ init : SUBSET States, trans : SUBSET (States \X States), bad : SUBSET States,
    ops : SUBSET Axiom,      \* a term with an abstracted operator
    vals : SUBSET Axiom,     \* an abstracted value
    arrays : SUBSET Axiom,   \* read, write and equality of arrays
    indices : SUBSET Index,  \* axioms over an index
    lambdas : SUBSET Axiom,  \* array axioms over the lambda index
    finite : BOOLEAN ]       \* has_finite_index_sort_: lambdas are left out

\*   outer  the loop on top      inner  the prover it calls
\*   restart  a fresh engine each time (forced, or not IC3IA)
\*   longCex  the engine answers FALSE as IC3 does: its proof goals are pushed
\*            to later frames, and the run may be longer than reached_k_ + 1
\*   functional  the systems of the loop over operators that are functional:
\*            its copy, and the prover's (not IC3SA's view, nor that of arrays)
OptionType ==
  [ outer : {"none", "ops", "vals"}, inner : {"engine", "cegp"},
    restart : BOOLEAN, longCex : BOOLEAN, reduce : BOOLEAN,
    functional : SUBSET {"copy", "prover"} ]

ASSUME CegarSystemsAssumption == Systems \subseteq CegarSystem
ASSUME CegarOptionsAssumption == Options \subseteq OptionType

\* The variable of an abstracted value is frozen.
ASSUME FrozenAssumption ==
  \A sy \in Systems : \A a \in sy.vals :
    /\ a.kind = "curr"
    /\ \A e \in sy.trans : <<e[1], e[1]>> \in a.rel <=> <<e[2], e[2]>> \in a.rel

-----------------------------------------------------------------------------
(* Runs of the abstract and of the concrete system.                        *)

Succ(sy, s) == { t \in States : <<s, t>> \in sy.trans }

Extend(p, n, s) == [t \in 0..n |-> IF t < n THEN p[t] ELSE s]

\* The runs of n steps, before any refinement.
Runs(sy, n) ==
  LET runs[k \in 0..n] ==
        IF k = 0 THEN { [t \in 0..0 |-> s] : s \in sy.init }
        ELSE UNION { { Extend(p, k, s) : s \in Succ(sy, p[k - 1]) } : p \in runs[k - 1] }
  IN  runs[n]

\* A history variable is free until it was first assigned, so a prophecy of
\* what was read delay steps ago is about any value on a shorter run.
Predicted(p, n, d) == IF d <= n THEN {p[n - d]} ELSE States

Holds(a, p, n) ==
  CASE a.kind = "curr"  -> \A t \in 0..n : <<p[t], p[t]>> \in a.rel
    [] a.kind = "step"  -> \A t \in 0..n - 1 : <<p[t], p[t + 1]>> \in a.rel
    [] a.kind = "proph" -> \E s \in Predicted(p, n, a.delay) :
                             \A t \in 0..n : <<s, p[t]>> \in a.rel
    [] a.kind = "after" -> \E s \in Predicted(p, n, a.delay) :
                             \A t \in 0..n - 1 : <<s, p[t + 1]>> \in a.rel

\* The index axiom holds wherever the index is read.
IndexHolds(index, p, n) ==
  \A u, t \in 0..n : (index.next => t > 0) => <<p[u], p[t]>> \in index.rel

ArraysHold(p, n) ==
  /\ \A a \in sys.arrays \cup sys.lambdas : Holds(a, p, n)
  /\ \A index \in sys.indices : IndexHolds(index, p, n)

OuterAxioms == sys.ops \cup sys.vals

\* The refined abstract system: there is no transition on a run of no steps.
Refined(p, n) ==
  /\ \A a \in initAx : <<p[0], p[0]>> \in a.rel
  /\ n > 0 => \A a \in transAx : Holds(a, p, n)

Counterexamples(n) == { p \in Runs(sys, n) : p[n] \in sys.bad }

AbsCex(n) == { p \in Counterexamples(n) : Refined(p, n) }

NoAbsCexUpTo(k) == \A n \in 0..k : AbsCex(n) = {}

ConcreteCex(n) ==
  { p \in Counterexamples(n) :
      ArraysHold(p, n) /\ \A a \in OuterAxioms : Holds(a, p, n) }

-----------------------------------------------------------------------------
NoEnum == [asserted |-> {}, second |-> FALSE, prophs |-> {}]

\* Only what a loop of the stack abstracts is abstract.
Abstracts(o, sy) ==
  /\ o.outer # "ops" => sy.ops = {}
  /\ o.outer # "vals" => sy.vals = {}
  /\ o.inner # "cegp" => sy.arrays = {} /\ sy.indices = {} /\ sy.lambdas = {}

Init ==
  /\ sys \in Systems
  /\ opts \in Options
  /\ Abstracts(opts, sys)
  /\ initAx = {} /\ transAx = {}
  /\ engineK = -1 /\ cegpK = -1
  /\ cexLen = 0
  /\ bound = 0
  /\ pc = "idle"
  /\ enum = NoEnum
  /\ path = <<>>
  /\ result = "NONE"

CallInner == pc' = IF opts.inner = "cegp" THEN "loop" ELSE "engine"

\* check_until(k) of the loop on top; a call may follow UNKNOWN.
CheckUntil(k) ==
  /\ pc = "idle"
  /\ bound' = k
  /\ result' = "NONE"
  /\ CallInner
  /\ UNCHANGED <<sys, opts, loopVars>>

\* check_until of the inner prover returns: a FALSE goes to the outer loop,
\* anything else to the caller.
InnerReturns(r) ==
  IF r = "FALSE" /\ opts.outer # "none"
  THEN pc' = "outer" /\ UNCHANGED result
  ELSE pc' = (IF r = "UNKNOWN" THEN "idle" ELSE "done") /\ result' = r

\* TRUE and UNKNOWN end the loop of CegProphecyArrays, too.
EngineTrue ==
  /\ pc = "engine"
  /\ NoAbsCexUpTo(MaxLen)
  /\ InnerReturns("TRUE")
  /\ UNCHANGED <<sys, opts, loopVars, bound>>

EngineUnknown ==
  /\ pc = "engine"
  /\ NoAbsCexUpTo(bound)
  /\ engineK' = bound
  /\ InnerReturns("UNKNOWN")
  /\ UNCHANGED <<sys, opts, initAx, transAx, cegpK, cexLen, enum, path, bound>>

\* The answers FALSE an engine may give: it completed bound k and has a run
\* of n steps.
EngineCex(k, n) ==
  /\ k >= (IF opts.restart THEN -1 ELSE engineK)
  /\ NoAbsCexUpTo(k)
  /\ AbsCex(n) # {}
  /\ IF opts.longCex THEN n > k ELSE n = k + 1

EngineFalse ==
  /\ pc = "engine" /\ opts.inner = "engine"
  /\ \E k \in -1..bound, n \in 0..MaxLen :
       EngineCex(k, n) /\ engineK' = k /\ cexLen' = n
  /\ InnerReturns("FALSE")
  /\ UNCHANGED <<sys, opts, initAx, transAx, cegpK, enum, path, bound>>
=============================================================================
