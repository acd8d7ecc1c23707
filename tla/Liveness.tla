------------------------------ MODULE Liveness -------------------------------
(***************************************************************************)
(* Liveness properties: k-liveness with its lockstep BMC                   *)
(* (engines/kliveness.cpp) and the translation to safety                   *)
(* (modifiers/liveness_to_safety_translator.cpp).                          *)
(*                                                                         *)
(* A justice condition is to hold infinitely often on a counterexample.    *)
(* KLiveness asks a fresh safety prover whether it can hold live_count_    *)
(* times; if it can, it looks for a lasso in the trace, or with BMC on the *)
(* translated system.  The safety provers are external and known by what   *)
(* they promise.  A state is a valuation of the state variables and of the *)
(* inputs.                                                                 *)
(***************************************************************************)
EXTENDS Integers, FiniteSets

CONSTANTS States, Systems, Options, Bounds

VARIABLES
  sys,           \* the system and its justice conditions
  opts,          \* options_, and how the engine's counterexamples are
  live_count,    \* live_count_
  bmcReached,    \* reached_k_ of the lockstep BMC
  bound,         \* the argument of check_until
  pc,            \* where check_until is
  cex,           \* the run the safety prover found, as a function of time
  witness,       \* witness_
  result         \* what check_until returned

vars == <<sys, opts, live_count, bmcReached, bound, pc, cex, witness, result>>

\*   updated  the values of the state variables with an update, in each state
\*   all      the values of all its state variables
SystemType ==
  [ init : SUBSET States, trans : SUBSET (States \X States),
    justice : SUBSET SUBSET States,
    updated : [States -> States], all : [States -> States] ]

\*   cexKind  "first": only the last state of a counterexample is bad;
\*            "single": bmc_single_bad_state_, bad states may be passed;
\*            "nonminimal": bmc_allow_non_minimal_cex_, the run may go on
OptionType ==
  [ mode : {"klive", "l2s"}, encoding : {"BV_BINARY", "BV_ONE_HOT", "INTEGER"},
    start : Nat \ {0}, step : Nat \ {0}, maxCount : Nat \ {0}, checkLasso : BOOLEAN,
    lockstep : BOOLEAN, cexKind : {"first", "single", "nonminimal"},
    ndebug : BOOLEAN ]

ASSUME LivenessSystemsAssumption == Systems \subseteq SystemType
ASSUME LivenessOptionsAssumption == Options \subseteq OptionType

\* The conditions are a vector that is not empty (front() is taken of it); a
\* variable with an update is a state variable.
ASSUME JusticeAssumption == \A sy \in Systems : IsFiniteSet(sy.justice) /\ sy.justice # {}
ASSUME UpdatedAssumption ==
  \A sy \in Systems, s, t \in States : sy.all[s] = sy.all[t] => sy.updated[s] = sy.updated[t]

\* Inputs and variables without an update are free in every state.
ASSUME FreeAssumption ==
  \A sy \in Systems : \A e \in sy.trans, s \in States :
    sy.updated[s] = sy.updated[e[2]] => <<e[1], s>> \in sy.trans

-----------------------------------------------------------------------------
Successors(sy, s) == { e[2] : e \in { d \in sy.trans : d[1] = s } }

\* What every set closed under the transitions that includes X has.
Closure(sy, X) ==
  { s \in States : \A C \in SUBSET States :
      X \subseteq C /\ (\A e \in sy.trans : e[1] \in C => e[2] \in C) => s \in C }

\* Some infinite run satisfies every justice condition infinitely often: it
\* stays on a cycle that passes through all of them.
FairRun(sy) ==
  \E s \in Closure(sy, sy.init) :
    LET after == Closure(sy, Successors(sy, s))
    IN  /\ s \in after
        /\ \A J \in sy.justice : \E u \in J \cap after :
             s = u \/ s \in Closure(sy, Successors(sy, u))

\* The runs of n steps, and what n steps reach, of a system made from sys.
Runs(init, Succ(_), n) ==
  LET runs[k \in 0..n] ==
        IF k = 0 THEN { [t \in 0..0 |-> x] : x \in init }
        ELSE UNION { { [t \in 0..k |-> IF t < k THEN p[t] ELSE x] : x \in Succ(p[k - 1]) } :
                       p \in runs[k - 1] }
  IN  runs[n]

Reached(init, Succ(_), n) ==
  LET reached[k \in 0..n] ==
        IF k = 0 THEN init ELSE UNION { {x} \cup Succ(x) : x \in reached[k - 1] }
  IN  reached[n]

-----------------------------------------------------------------------------
(* instrument_ts: a counter of the steps from states where the condition   *)
(* holds.                                                                  *)

\* Seeded fault: one bit too few to shift a one out to position k.
WidthTooSmall(k) ==
  IF opts.encoding = "BV_ONE_HOT" THEN k
  ELSE CHOOSE w \in 1..k : 2^(w - 1) <= k /\ k < 2^w

\* floor(log2(k)) + 1 bits, and k + 1 bits.
Width(k) ==
  IF opts.encoding = "BV_ONE_HOT" THEN k + 1
  ELSE CHOOSE w \in 1..k : 2^(w - 1) <= k /\ k < 2^w

CounterInit == IF opts.encoding = "BV_ONE_HOT" THEN 1 ELSE 0

CounterIncr(c) ==
  CASE opts.encoding = "BV_BINARY"  -> (c + 1) % 2^Width(live_count)
    [] opts.encoding = "BV_ONE_HOT" -> (2 * c) % 2^Width(live_count)
    [] opts.encoding = "INTEGER"    -> c + 1

CountToVal == IF opts.encoding = "BV_ONE_HOT" THEN 2^live_count ELSE live_count

JusticeProp == CHOOSE J \in sys.justice : TRUE

InstrumentedInit == { [state |-> s, counter |-> CounterInit] : s \in sys.init }

InstrumentTs(x) ==
  { [state |-> t,
     counter |-> IF x.state \in JusticeProp THEN CounterIncr(x.counter) ELSE x.counter] :
      t \in Successors(sys, x.state) }

CountReached(x) == x.counter = CountToVal

\* The counterexamples of n steps the engine may give.
Counterexamples(n) ==
  { p \in Runs(InstrumentedInit, InstrumentTs, n) :
      CASE opts.cexKind = "first"      -> { t \in 0..n : CountReached(p[t]) } = {n}
        [] opts.cexKind = "single"     -> CountReached(p[n])
        [] opts.cexKind = "nonminimal" -> \E t \in 0..n : CountReached(p[t]) }

\* On the way to its target the counter has each value for fewer than |States|
\* steps, or for ever.
NeverReached ==
  \A x \in Reached(InstrumentedInit, InstrumentTs,
                   (live_count + 1) * Cardinality(States)) : ~CountReached(x)

-----------------------------------------------------------------------------
(* LivenessToSafetyTranslator.  A step with input save saves the state;    *)
(* from then on justice has the conditions that held.  What loop is before *)
(* something is saved does not matter.                                     *)
L2SInit ==
  { [state |-> s, saved |-> FALSE, loop |-> sys.all[s], justice |-> {}] : s \in sys.init }

L2STranslate(x) ==
  { [ state   |-> t,
      saved   |-> x.saved \/ save,
      loop    |-> IF save /\ ~x.saved THEN sys.all[x.state] ELSE x.loop,
      justice |-> IF save \/ x.saved
                  THEN x.justice \cup { J \in sys.justice : x.state \in J }
                  ELSE x.justice ] :
      t \in Successors(sys, x.state), save \in BOOLEAN }

L2SBad(x) == x.saved /\ sys.all[x.state] = x.loop /\ x.justice = sys.justice

L2SCounterexamples(n) == { p \in Runs(L2SInit, L2STranslate, n) : L2SBad(p[n]) }

L2SSafe ==
  \A x \in Reached(L2SInit, L2STranslate,
                   (Cardinality(sys.justice) + 2) * Cardinality(States)) : ~L2SBad(x)

-----------------------------------------------------------------------------
Init ==
  /\ sys \in Systems
  /\ opts \in Options
  /\ live_count = opts.start
  /\ bmcReached = -1
  /\ bound = 0
  /\ pc = "construct"
  /\ cex = <<>>
  /\ witness = <<>>
  /\ result = "NONE"

\* The constructor: k-liveness is for one justice condition.
Construct ==
  /\ pc = "construct"
  /\ IF opts.mode = "klive" /\ Cardinality(sys.justice) > 1
     THEN pc' = "done" /\ result' = "throws"
     ELSE pc' = "idle" /\ UNCHANGED result
  /\ UNCHANGED <<sys, opts, live_count, bmcReached, bound, cex, witness>>

CheckUntil(k) ==
  /\ pc = "idle"
  /\ bound' = k
  /\ result' = "NONE"
  /\ pc' = IF opts.mode = "klive" THEN "loop" ELSE "l2s"
  /\ UNCHANGED <<sys, opts, live_count, bmcReached, cex, witness>>

Return(r) == pc' = (IF r = "UNKNOWN" THEN "idle" ELSE "done") /\ result' = r

\* The loop test, and the bound that is too small to count live_count_ times.
\* A call after UNKNOWN goes on with the live_count_ it left.
LoopTest ==
  /\ pc = "loop"
  /\ IF live_count > opts.maxCount \/ bound < live_count + 1
     THEN Return("UNKNOWN")
     ELSE pc' = "safety" /\ UNCHANGED result
  /\ UNCHANGED <<sys, opts, live_count, bmcReached, bound, cex, witness>>

NextRound == live_count' = live_count + opts.step /\ pc' = "loop"

\* safety_prover->check_until(k) on the instrumented system.
SafetyTrue ==
  /\ pc = "safety"
  /\ NeverReached
  /\ Return("TRUE")
  /\ UNCHANGED <<sys, opts, live_count, bmcReached, bound, cex, witness>>

SafetyUnknown ==
  /\ pc = "safety"
  /\ \A x \in Reached(InstrumentedInit, InstrumentTs, bound) : ~CountReached(x)
  /\ NextRound
  /\ UNCHANGED <<sys, opts, bmcReached, bound, cex, witness, result>>

SafetyFalse ==
  /\ pc = "safety"
  /\ \E n \in 0..bound : cex' \in Counterexamples(n)
  /\ pc' = "revisit"
  /\ UNCHANGED <<sys, opts, live_count, bmcReached, bound, witness, result>>

CexLen == Cardinality(DOMAIN cex) - 1

\* Seeded fault: every step is compared, whether or not it was counted.
EveryStep == 0..CexLen - 1

\* Seeded fault: the traversal starts one step late.
JusticeStepsButLast ==
  { t \in 0..CexLen - 2 : cex[t].counter # cex[t + 1].counter }

\* The steps after which the counter differs.
JusticeSteps ==
  { t \in 0..CexLen - 1 : cex[t].counter # cex[t + 1].counter }

\* A justice step whose state equals an earlier justice step's but for the
\* counter and the variables without an update.
Revisits ==
  { t \in JusticeSteps :
      \E u \in JusticeSteps : u < t /\ sys.updated[cex[u].state] = sys.updated[cex[t].state] }

\* store_cex: the first n states, over the variables of orig_ts_.
StoreCex(p, n) == witness' = [t \in 0..n - 1 |-> p[t].state]

\* detect_revisit_in_cex; the first revisit is reported.  The assertion on the
\* number of justice steps is checked in a Debug build only.
DetectRevisitInCex ==
  /\ pc = "revisit"
  /\ IF opts.checkLasso /\ live_count # 1
     THEN IF ~opts.ndebug /\ Cardinality(JusticeSteps) # live_count
          THEN pc' = "error" /\ UNCHANGED <<witness, result>>
          ELSE IF Revisits # {}
          THEN /\ \E t \in Revisits : (\A u \in Revisits : t <= u) /\ StoreCex(cex, t + 1)
               /\ Return("FALSE")
          ELSE pc' = "lockstep" /\ UNCHANGED <<witness, result>>
     ELSE pc' = "lockstep" /\ UNCHANGED <<witness, result>>
  /\ UNCHANGED <<sys, opts, live_count, bmcReached, bound, cex>>

\* find_lasso_by_bmc with the length of the safety prover's witness.  The BMC
\* prover is kept, goes on after the bound it reached and finds a shortest
\* lasso, unless it looks for a single bad state at every bound it tries: then
\* it may miss some.
FindLassoByBmc ==
  /\ pc = "lockstep" /\ opts.lockstep
  /\ \E n \in bmcReached + 1..CexLen :
       /\ opts.cexKind # "single" =>
            \A m \in bmcReached + 1..n - 1 : L2SCounterexamples(m) = {}
       /\ \E p \in L2SCounterexamples(n) : StoreCex(p, n + 1)
  /\ Return("FALSE")
  /\ UNCHANGED <<sys, opts, live_count, bmcReached, bound, cex>>

NoLassoByBmc ==
  /\ pc = "lockstep"
  /\ opts.lockstep /\ opts.cexKind # "single" =>
       \A n \in bmcReached + 1..CexLen : L2SCounterexamples(n) = {}
  /\ bmcReached' = IF opts.lockstep /\ CexLen > bmcReached THEN CexLen ELSE bmcReached
  /\ NextRound
  /\ UNCHANGED <<sys, opts, bound, cex, witness, result>>

\* With --justice-translator l2s the translated system goes to a safety prover.
L2SProve ==
  /\ pc = "l2s"
  /\ \/ \E n \in 0..bound : \E p \in L2SCounterexamples(n) :
          StoreCex(p, n + 1) /\ Return("FALSE")
     \/ /\ \A n \in 0..bound : L2SCounterexamples(n) = {}
        /\ Return("UNKNOWN") /\ UNCHANGED witness
     \/ /\ L2SSafe
        /\ Return("TRUE") /\ UNCHANGED witness
  /\ UNCHANGED <<sys, opts, live_count, bmcReached, bound, cex>>

Step ==
  \/ Construct \/ LoopTest \/ SafetyTrue \/ SafetyUnknown \/ SafetyFalse
  \/ DetectRevisitInCex \/ FindLassoByBmc \/ NoLassoByBmc \/ L2SProve

Next == Step \/ \E k \in Bounds : CheckUntil(k)

Spec == Init /\ [][Next]_vars /\ WF_vars(Step)

-----------------------------------------------------------------------------
(* Properties.                                                             *)

\* TRUE, of the counter or of the translated system, means that no run
\* satisfies the justice conditions infinitely often.
TrueIsSound == result = "TRUE" => ~FairRun(sys)

\* What is reported for FALSE is a run of the system whose last state repeats
\* an earlier one (but for what is free), with every justice condition met in
\* between, although it was cut out of a counterexample for another property.
FalseIsLasso ==
  result = "FALSE" =>
    LET n == Cardinality(DOMAIN witness) - 1
    IN  /\ witness[0] \in sys.init
        /\ \A t \in 1..n : <<witness[t - 1], witness[t]>> \in sys.trans
        /\ \E i \in 0..n - 1 :
             /\ sys.updated[witness[i]] = sys.updated[witness[n]]
             /\ \A J \in sys.justice : \E t \in i..n - 1 : witness[t] \in J

\* A counterexample that counts more steps than the system has states ends the
\* search: two of the states are the same, and BMC up to its length finds a
\* lasso as well, so that with a bound large enough no lasso is missed.
EnoughCountsDecide ==
  [][live_count' # live_count /\ pc = "lockstep"
     /\ (opts.checkLasso \/ (opts.lockstep /\ opts.cexKind = "first"))
     => live_count <= Cardinality({ sys.updated[s] : s \in States })]_vars
=============================================================================
