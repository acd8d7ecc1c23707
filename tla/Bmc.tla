--------------------------------- MODULE Bmc ---------------------------------
(***************************************************************************)
(* Bounded model checking (engines/bmc.cpp): intervals of bounds, the      *)
(* constraints that are left in the solver between them, and the three     *)
(* searches for a shorter counterexample inside an interval.               *)
(*                                                                         *)
(* The solver is exact and external.  What it holds is the system unrolled *)
(* depth times from an initial state, plus a stack of assertion frames.  A *)
(* step of the model is the code from one solver answer to the next.       *)
(***************************************************************************)
EXTENDS TransSys, Integers, Sequences

CONSTANTS
  Systems,   \* the systems and properties the prover may be given
  Bounds,    \* the values of k check_until may be called with
  Options    \* the settings of the --bmc-* options

\* cegar: the engine is the base of a CEGAR loop that refines its system.
\* A linear search takes precedence over the less incremental one.
OptionType ==
  [ start : Nat, step : Nat \ {0}, exponential : BOOLEAN,
    negInit : BOOLEAN, singleBad : BOOLEAN, negBad : {"none", "last", "all"},
    search : {"binary", "lessinc", "linear"}, allowNonMinimal : BOOLEAN,
    cegar : BOOLEAN ]

ASSUME BmcSystemsAssumption == Systems \subseteq SystemType
ASSUME BmcBoundsAssumption  == Bounds \subseteq Nat
ASSUME BmcOptionsAssumption == Options \subseteq OptionType

VARIABLES
  sys,        \* the system and property
  opts,       \* the options; never change
  stack,      \* the solver's assertion frames over bad, the base level first
  depth,      \* transitions 0 .. depth - 1 are asserted
  reachedK,   \* reached_k_
  bound,      \* the argument of the check_until call
  i,          \* its loop counter
  pc,         \* where the call is
  low, high,  \* the search: the interval left (low is j in the linear one)
  ub,         \* cex_upper_bound
  saved,      \* reached_k_saved
  binFrames,  \* bin_search_frames_
  path,       \* the model of the last satisfiable query
  result      \* what check_until returned

searchVars == <<low, high, ub, saved>>
vars == <<sys, opts, stack, depth, reachedK, bound, i, pc, searchVars,
          binFrames, path, result>>

\* bin_search_frames_ is unsigned: 0 - 1 is 2^32 - 1.
Wrapped == -1

-----------------------------------------------------------------------------
(* The solver.  A frame holds clauses (bad holds at one of these times) and *)
(* times at which bad is negated.                                          *)

BaseFrame == [clauses |-> {}, never |-> {}]

PushFrame(stk, clauses, never) ==
  Append(stk, [clauses |-> clauses, never |-> never])

PopFrames(stk, n) == SubSeq(stk, 1, Len(stk) - n)

\* Assert at the current level that bad holds at none of the times.
Block(stk, times) ==
  [stk EXCEPT ![Len(stk)] = [clauses |-> @.clauses, never |-> @.never \cup times]]

\* The models of what is asserted: runs of n steps.
Models(stk, n) ==
  { p \in Paths(sys, n) :
      /\ p[0] \in sys.init
      /\ opts.negInit => \A t \in 1..n : p[t] \notin sys.init
      /\ \A f \in 1..Len(stk) :
           /\ \A times \in stk[f].clauses : \E t \in times : p[t] \in sys.bad
           /\ \A t \in stk[f].never : p[t] \notin sys.bad }

\* bmc_interval_get_cex_ub: the first bad time of the model from lb on.
FirstBad(p, lb) ==
  CHOOSE t \in DOMAIN p :
    /\ t >= lb /\ p[t] \in sys.bad
    /\ \A u \in DOMAIN p : u >= lb /\ p[u] \in sys.bad => t <= u

-----------------------------------------------------------------------------
(* check_until and step.                                                   *)

Init ==
  /\ sys \in Systems
  /\ opts \in Options
  /\ stack = <<BaseFrame>>
  /\ depth = 0
  /\ reachedK = -1
  /\ bound = 0
  /\ i = 0
  /\ pc = "idle"
  /\ low = 0 /\ high = 0 /\ ub = 0 /\ saved = -1
  /\ binFrames = 0
  /\ path = <<>>
  /\ result = "NONE"

\* check_until(k) is called; an UNKNOWN call may be followed by another one.
CheckUntil(k) ==
  /\ pc = "idle"
  /\ bound' = k
  /\ i' = opts.start
  /\ result' = "NONE"
  /\ pc' = "loop"
  /\ UNCHANGED <<sys, opts, stack, depth, reachedK, searchVars, binFrames, path>>

NextBound ==
  IF ~opts.exponential THEN i + opts.step ELSE IF i = 0 THEN 1 ELSE 2 * i

LoopExit ==
  /\ pc = "loop"
  /\ i > bound
  /\ result' = "UNKNOWN"
  /\ pc' = "idle"
  /\ UNCHANGED <<sys, opts, stack, depth, reachedK, bound, i, searchVars,
                 binFrames, path>>

StepCovered ==
  /\ pc = "loop"
  /\ i <= bound /\ i <= reachedK
  /\ i' = NextBound
  /\ UNCHANGED <<sys, opts, stack, depth, reachedK, bound, pc, searchVars,
                 binFrames, path, result>>

\* The bounds the bad state clause covers.
Tested == IF opts.singleBad THEN {i} ELSE reachedK + 1..i

Query == PushFrame(stack, {Tested}, {})

NewBound ==
  /\ pc = "loop"
  /\ i <= bound /\ i > reachedK

\* No counterexample: optionally negate bad for good, go to the next bound.
StepUnsat ==
  /\ NewBound
  /\ Models(Query, i) = {}
  /\ stack' = Block(stack, { t \in reachedK + 1..i :
                              \/ opts.negBad = "all"
                              \/ opts.negBad = "last" /\ t = i })
  /\ depth' = i
  /\ reachedK' = i
  /\ i' = NextBound
  /\ UNCHANGED <<sys, opts, bound, pc, searchVars, binFrames, path, result>>

\* compute_witness reads the current model and check_until returns FALSE.
ReturnFalse ==
  /\ result' = "FALSE"
  /\ pc' = "done"

\* A single bad state, a minimal counterexample not wanted, or the first
\* bound of the interval: step returns without a search.
NoSearch(p) ==
  opts.allowNonMinimal \/ opts.singleBad \/ FirstBad(p, reachedK + 1) = reachedK + 1

StepSat ==
  /\ NewBound
  /\ \E p \in Models(Query, i) : NoSearch(p) /\ path' = p
  /\ stack' = Query
  /\ depth' = i
  /\ reachedK' = i - 1
  /\ ReturnFalse
  /\ UNCHANGED <<sys, opts, bound, i, searchVars, binFrames>>

\* The bounds above the first bad one are blocked and a search starts.
StartSearch ==
  /\ NewBound
  /\ \E p \in Models(Query, i) :
       /\ ~NoSearch(p)
       /\ path' = p
       /\ ub' = FirstBad(p, reachedK + 1)
  /\ stack' = IF ub' < i THEN PushFrame(Query, {}, ub' + 1..i) ELSE Query
  /\ depth' = i
  /\ low' = reachedK + 1
  /\ high' = ub'
  /\ saved' = reachedK
  /\ pc' = IF opts.search = "linear" THEN "fallback" ELSE opts.search
  /\ UNCHANGED <<sys, opts, reachedK, bound, i, binFrames, result>>

-----------------------------------------------------------------------------
(* find_shortest_cex_binary_search: look in low .. mid, with bad negated   *)
(* above mid.                                                              *)

mid == low + (high - low) \div 2

BinaryQuery == PushFrame(stack, {}, mid + 1..high)

BinaryFound ==
  /\ pc = "binary"
  /\ low = mid
  /\ path' \in Models(BinaryQuery, depth)
  /\ stack' = BinaryQuery
  /\ binFrames' = binFrames + 1
  /\ ReturnFalse
  /\ UNCHANGED <<sys, opts, depth, reachedK, bound, i, searchVars>>

BinaryLower ==
  /\ pc = "binary"
  /\ low < mid
  /\ path' \in Models(BinaryQuery, depth)
  /\ high' = FirstBad(path', low)
  /\ stack' = Block(BinaryQuery, high' + 1..mid)
  /\ binFrames' = binFrames + 1
  /\ UNCHANGED <<sys, opts, depth, reachedK, bound, i, pc, low, ub, saved, result>>

\* Seeded fault: the same half is searched again.
BinaryUpperStays ==
  /\ pc = "binary"
  /\ low < high
  /\ Models(BinaryQuery, depth) = {}
  /\ stack' = Block(stack, low..mid)
  /\ reachedK' = mid
  /\ low' = mid
  /\ UNCHANGED <<sys, opts, depth, bound, i, pc, high, ub, saved, binFrames,
                 path, result>>

BinaryUpper ==
  /\ pc = "binary"
  /\ low < high
  /\ Models(BinaryQuery, depth) = {}
  /\ stack' = Block(stack, low..mid)
  /\ reachedK' = mid
  /\ low' = mid + 1
  /\ UNCHANGED <<sys, opts, depth, bound, i, pc, high, ub, saved, binFrames,
                 path, result>>

\* The negated bounds excluded every counterexample that is left.
BinaryOverconstrained ==
  /\ pc = "binary"
  /\ low >= high
  /\ Models(BinaryQuery, depth) = {}
  /\ stack' = BinaryQuery
  /\ binFrames' = binFrames + 1
  /\ pc' = "fallback"
  /\ UNCHANGED <<sys, opts, depth, reachedK, bound, i, searchVars, path, result>>

-----------------------------------------------------------------------------
(* find_shortest_cex_linear_search, after the frames of the upper bound    *)
(* and of a binary search that failed are popped.                          *)

\* Seeded fault: nothing is popped.
FallbackKeepsFrames ==
  /\ pc = "fallback"
  /\ reachedK' = saved
  /\ low' = saved + 1
  /\ binFrames' = Wrapped
  /\ pc' = "linear"
  /\ UNCHANGED <<sys, opts, stack, depth, bound, i, high, ub, saved, path, result>>

\* The loop counts bin_search_frames_ down past 0; popping more frames than
\* there are is an error of the solver.
Fallback ==
  LET blocks == IF ub < i THEN 1 ELSE 0
      enough == binFrames # Wrapped /\ blocks + binFrames < Len(stack)
  IN  /\ pc = "fallback"
      /\ reachedK' = saved
      /\ low' = saved + 1
      /\ binFrames' = Wrapped
      /\ stack' = IF enough THEN PopFrames(stack, blocks + binFrames) ELSE <<BaseFrame>>
      /\ pc' = IF enough THEN "linear" ELSE "error"
      /\ UNCHANGED <<sys, opts, depth, bound, i, high, ub, saved, path, result>>

LinearQuery == PushFrame(PopFrames(stack, 1), {{low}}, {})

LinearFound ==
  /\ pc = "linear"
  /\ path' \in Models(LinearQuery, depth)
  /\ stack' = LinearQuery
  /\ ReturnFalse
  /\ UNCHANGED <<sys, opts, depth, reachedK, bound, i, searchVars, binFrames>>

\* After the last bound the search throws.
LinearNext ==
  /\ pc = "linear"
  /\ Models(LinearQuery, depth) = {}
  /\ stack' = LinearQuery
  /\ reachedK' = low
  /\ low' = low + 1
  /\ pc' = IF low < ub THEN "linear" ELSE "error"
  /\ UNCHANGED <<sys, opts, depth, bound, i, high, ub, saved, binFrames,
                 path, result>>

-----------------------------------------------------------------------------
(* find_shortest_cex_binary_search_less_inc: a new clause for low .. mid.  *)

\* Seeded fault: the clause asks for the middle of the interval only.
LessIncQueryMiddle == PushFrame(PopFrames(stack, 1), {{mid}}, {})

LessIncQuery == PushFrame(PopFrames(stack, 1), {low..mid}, {})

LessIncFound ==
  /\ pc = "lessinc"
  /\ low = mid
  /\ path' \in Models(LessIncQuery, depth)
  /\ stack' = LessIncQuery
  /\ ReturnFalse
  /\ UNCHANGED <<sys, opts, depth, reachedK, bound, i, searchVars, binFrames>>

LessIncLower ==
  /\ pc = "lessinc"
  /\ low < mid
  /\ path' \in Models(LessIncQuery, depth)
  /\ high' = FirstBad(path', low)
  /\ stack' = LessIncQuery
  /\ UNCHANGED <<sys, opts, depth, reachedK, bound, i, pc, low, ub, saved,
                 binFrames, result>>

LessIncUpper ==
  /\ pc = "lessinc"
  /\ Models(LessIncQuery, depth) = {}
  /\ stack' = LessIncQuery
  /\ reachedK' = mid
  /\ low' = mid + 1
  /\ UNCHANGED <<sys, opts, depth, bound, i, pc, high, ub, saved, binFrames,
                 path, result>>

-----------------------------------------------------------------------------
\* Runs from an initial state that end in a bad one.
Counterexample(sy, n) ==
  \E p \in Paths(sy, n) : p[0] \in sy.init /\ p[n] \in sy.bad

\* The CEGAR loop (cegar_refine and refine_subprover_ts) finds the system
\* spurious at the reported bound: it adds constraints that leave no
\* counterexample of witness_length() steps and calls reset_env.
Refine ==
  /\ pc = "done" /\ opts.cegar
  /\ \E sy \in Systems :
       /\ sy.init = sys.init /\ sy.bad = sys.bad
       /\ sy.trans \subseteq sys.trans
       /\ ~Counterexample(sy, reachedK + 1)
       /\ sys' = sy
  /\ stack' = <<BaseFrame>>
  /\ depth' = 0
  /\ reachedK' = -1
  /\ path' = <<>>
  /\ result' = "NONE"
  /\ pc' = "idle"
  /\ UNCHANGED <<opts, bound, i, searchVars, binFrames>>

Step ==
  \/ LoopExit \/ StepCovered \/ StepUnsat \/ StepSat \/ StartSearch
  \/ BinaryFound \/ BinaryLower \/ BinaryUpper \/ BinaryOverconstrained
  \/ Fallback \/ LinearFound \/ LinearNext
  \/ LessIncFound \/ LessIncLower \/ LessIncUpper

Next == Step \/ (\E k \in Bounds : CheckUntil(k)) \/ Refine

\* A call runs until it returns; calls and refinements need never come.
Spec == Init /\ [][Next]_vars /\ WF_vars(Step)

-----------------------------------------------------------------------------
(* Properties.                                                             *)

\* Every state has a successor, so that a run can be extended to any bound.
Total == \A s \in States : \E t \in States : <<s, t>> \in sys.trans

\* An interval loses no counterexample: every bound is tested on its own, or
\* the clause covers the interval and every run can be extended to its end.
CoversAll ==
  \/ opts.start = 0 /\ opts.step = 1 /\ ~opts.exponential
  \/ Total /\ ~opts.negInit /\ ~opts.singleBad

\* The linear and the less incremental search return a run whose first bad
\* state is as near to the initial states as a bad state can be.
FirstBadIsShortest ==
  ( /\ result = "FALSE" /\ CoversAll
    /\ opts.search # "binary" /\ ~opts.allowNonMinimal ) =>
      \A n \in 0..depth : Counterexample(sys, n) => FirstBad(path, 0) <= n

\* The search always finds the counterexample it was started for: frames are
\* pushed and popped in pairs and nothing overconstrains the linear search.
SearchSucceeds == pc # "error"

\* Every call returns: the searches shrink their interval.
CallsReturn == pc = "loop" ~> pc \in {"idle", "done", "error"}
=============================================================================
