------------------------------ MODULE KInduction ------------------------------
(***************************************************************************)
(* K-induction (engines/kinduction.cpp): at every bound the simple path    *)
(* check, the two inductive checks and the base case, or, with             *)
(* --kind-one-time-base-check, one base case check at the end.             *)
(*                                                                         *)
(* The solver is exact and external.  A step of the model is the code from *)
(* one solver answer to the next.  At bound i the solver holds i           *)
(* transitions, the negated bad states before i, and the clauses below.    *)
(***************************************************************************)
EXTENDS TransSys, Integers, FiniteSets

CONSTANTS
  Systems,   \* the systems and properties the prover may be given
  Bounds,    \* the values of k check_until may be called with
  Options    \* the settings of the --kind-* options; the engine is ind

\* same: the pairs of states that agree on the variables with an update.
\* total: is_trans_total answers yes.
KindSystemType ==
  [ init : SUBSET States, trans : SUBSET (States \X States),
    bad : SUBSET States, same : SUBSET (States \X States), total : BOOLEAN ]

\* check_until throws on the combinations left out.
OptionType ==
  { o \in [ engine : {"ind"}, step : Nat \ {0}, oneTime : BOOLEAN,
            simplePath : {"none", "lazy", "eager"}, multiCall : BOOLEAN,
            indInit : BOOLEAN, indProp : BOOLEAN ] :
      o.step # 1 => o.oneTime /\ o.simplePath # "eager" }

\* What the module that makes the engine assumes of the constants.  A state
\* agrees with itself, a variable without an update takes any value in a state
\* that has a predecessor, and a system that is known to be total is.
KindAssumption ==
  /\ Systems \subseteq KindSystemType
  /\ Bounds \subseteq Nat
  /\ \A o \in Options : o \in OptionType
  /\ \A sy \in Systems : \A s \in States : <<s, s>> \in sy.same
  /\ \A sy \in Systems : \A e \in sy.same : \A u, w \in States :
       <<u, e[1]>> \in sy.trans /\ <<w, e[2]>> \in sy.trans => <<u, e[2]>> \in sy.trans
  /\ \A sy \in Systems :
       sy.total => \A s \in States : \E t \in States : <<s, t>> \in sy.trans

VARIABLES
  sys,       \* the system and property
  opts,      \* the options; never change
  pairs,     \* the times the simple path clauses were added for
  negInit,   \* the times the initial states are negated at
  reachedK,  \* reached_k_
  bound,     \* the argument of the check_until call
  i,         \* its loop counter
  pc,        \* the next check
  path,      \* the model compute_witness read
  result     \* what check_until returned

-----------------------------------------------------------------------------
(* The solver.                                                             *)

\* Seeded fault: variables without an update never count, not even at time 0.
DifferEverywhere(p, j, l) == <<p[j], p[l]>> \notin sys.same

\* simple_path_constraint: variables without an update count at time 0 only.
Differ(p, j, l) ==
  IF j > 0 /\ l > 0 THEN <<p[j], p[l]>> \notin sys.same ELSE p[j] # p[l]

Runs ==
  { p \in Paths(sys, i) :
      /\ \A t \in 0..i - 1 : p[t] \notin sys.bad
      /\ \A q \in pairs : Differ(p, q[1], q[2]) }

\* Seeded fault: neighbours only.
RepeatsAdjacent(p) ==
  { q \in (0..i) \X (0..i) : q[2] = q[1] + 1 /\ ~Differ(p, q[1], q[2]) }

\* The pairs of times a model does not tell apart.
Repeats(p) ==
  { q \in (0..i) \X (0..i) : q[1] < q[2] /\ ~Differ(p, q[1], q[2]) }

Earlier(q, r) == q[1] < r[1] \/ (q[1] = r[1] /\ q[2] <= r[2])

InitCheck == i >= 1 /\ opts.indInit

\* The initial states are negated at all times but 0.
NegatedInit == negInit \cup reachedK + 1..i

InitRuns ==
  { p \in Runs : p[0] \in sys.init /\ \A t \in NegatedInit : p[t] \notin sys.init }

BadRuns == { p \in Runs : p[i] \in sys.bad }

BaseRuns == { p \in BadRuns : p[0] \in sys.init }

\* final_base_case_check: a counterexample of at most i steps.  Without a
\* total transition relation the model is arbitrary after the bad state.
FinalRuns ==
  IF sys.total
  THEN { p \in Paths(sys, i) : p[0] \in sys.init /\ \E t \in 0..i : p[t] \in sys.bad }
  ELSE { p \in [0..i -> States] :
           /\ p[0] \in sys.init
           /\ \E t \in 0..i :
                /\ p[t] \in sys.bad
                /\ \A u \in 1..t : <<p[u - 1], p[u]>> \in sys.trans }

-----------------------------------------------------------------------------
(* check_until.                                                            *)

Init ==
  /\ sys \in Systems
  /\ opts \in Options
  /\ pairs = {} /\ negInit = {}
  /\ reachedK = -1
  /\ bound = 0 /\ i = 0
  /\ pc = "idle"
  /\ path = <<>>
  /\ result = "NONE"

\* assert(reached_k_ == -1): a prover takes one call.
CheckUntil(k) ==
  /\ pc = "idle" /\ reachedK = -1
  /\ bound' = k
  /\ pc' = "loop"
  /\ UNCHANGED <<sys, opts, pairs, negInit, reachedK, i, path, result>>

LoopExit ==
  /\ pc = "loop"
  /\ i > bound
  /\ result' = "UNKNOWN"
  /\ pc' = "idle"
  /\ UNCHANGED <<sys, opts, pairs, negInit, reachedK, bound, i, path>>

\* The eager check adds the pairs of the new bound at once.
StartBound ==
  /\ pc = "loop"
  /\ i <= bound
  /\ pairs' = IF opts.simplePath = "eager" THEN pairs \cup (0..i - 1) \X {i} ELSE pairs
  /\ pc' = IF opts.simplePath = "none" THEN "indinit" ELSE "simple"
  /\ UNCHANGED <<sys, opts, negInit, reachedK, bound, i, path, result>>

\* An inductive check is unsatisfiable: the property holds, unless the base
\* case is still to be checked.
Conclude ==
  /\ pc' = IF opts.oneTime THEN "final" ELSE "done"
  /\ result' = IF opts.oneTime THEN result ELSE "TRUE"
  /\ UNCHANGED <<sys, opts, pairs, reachedK, bound, i, path>>

SimpleUnsat ==
  /\ pc = "simple"
  /\ Runs = {}
  /\ Conclude
  /\ UNCHANGED negInit

\* The lazy check repeats until a model has no two equal states.
SimpleDone ==
  /\ pc = "simple"
  /\ \E p \in Runs : opts.simplePath = "eager" \/ Repeats(p) = {}
  /\ pc' = "indinit"
  /\ UNCHANGED <<sys, opts, pairs, negInit, reachedK, bound, i, path, result>>

\* It adds the first pair, or all the pairs of the model.
SimpleAdd ==
  /\ pc = "simple"
  /\ opts.simplePath = "lazy"
  /\ \E p \in Runs :
       /\ Repeats(p) # {}
       /\ pairs' = pairs \cup
            { q \in Repeats(p) : opts.multiCall => \A r \in Repeats(p) : Earlier(q, r) }
  /\ UNCHANGED <<sys, opts, negInit, reachedK, bound, i, pc, path, result>>

InitUnsat ==
  /\ pc = "indinit"
  /\ InitCheck
  /\ InitRuns = {}
  /\ negInit' = NegatedInit
  /\ Conclude

InitPassed ==
  /\ pc = "indinit"
  /\ InitCheck => InitRuns # {}
  /\ negInit' = IF InitCheck THEN NegatedInit ELSE negInit
  /\ pc' = "indprop"
  /\ UNCHANGED <<sys, opts, pairs, reachedK, bound, i, path, result>>

PropUnsat ==
  /\ pc = "indprop"
  /\ opts.indProp
  /\ BadRuns = {}
  /\ Conclude
  /\ UNCHANGED negInit

PropPassed ==
  /\ pc = "indprop"
  /\ opts.indProp => BadRuns # {}
  /\ pc' = "base"
  /\ UNCHANGED <<sys, opts, pairs, negInit, reachedK, bound, i, path, result>>

BaseSat ==
  /\ pc = "base"
  /\ ~opts.oneTime
  /\ path' \in BaseRuns
  /\ result' = "FALSE"
  /\ pc' = "done"
  /\ UNCHANGED <<sys, opts, pairs, negInit, reachedK, bound, i>>

\* The base case holds, or is put off: unroll to the next bound.
Extend ==
  /\ pc = "base"
  /\ opts.oneTime \/ BaseRuns = {}
  /\ reachedK' = i
  /\ i' = i + opts.step
  /\ pc' = "loop"
  /\ UNCHANGED <<sys, opts, pairs, negInit, bound, path, result>>

FinalSat ==
  /\ pc = "final"
  /\ path' \in FinalRuns
  /\ result' = "FALSE"
  /\ pc' = "done"
  /\ UNCHANGED <<sys, opts, pairs, negInit, reachedK, bound, i>>

FinalUnsat ==
  /\ pc = "final"
  /\ FinalRuns = {}
  /\ result' = "TRUE"
  /\ pc' = "done"
  /\ UNCHANGED <<sys, opts, pairs, negInit, reachedK, bound, i, path>>

Step ==
  \/ LoopExit \/ StartBound \/ SimpleUnsat \/ SimpleDone \/ SimpleAdd
  \/ InitUnsat \/ InitPassed \/ PropUnsat \/ PropPassed
  \/ BaseSat \/ Extend \/ FinalSat \/ FinalUnsat

Next == Step \/ \E k \in Bounds : CheckUntil(k)

-----------------------------------------------------------------------------
(* Properties.                                                             *)

\* One transition per bound and a base case at each: only then reached_k_ and
\* the length of the witness mean what the prover promises.
Stepwise == opts.step = 1 /\ ~opts.oneTime

\* Completeness of the simple path check: when every run of that length has
\* to repeat a state, the answer is not UNKNOWN.
DecidedAtDiameter ==
  result = "UNKNOWN" /\ opts.simplePath # "none" => reachedK < Cardinality(States)
=============================================================================
