------------------------------ MODULE Engines -------------------------------
(***************************************************************************)
(* K-induction and the interpolation engines behind the interface of a     *)
(* prover: the option --engine selects one (utils/make_provers.cpp), the   *)
(* others are never made.  What is shown here is that each of them keeps   *)
(* the promises of SafetyProver.                                           *)
(***************************************************************************)
EXTENDS InterpEngine

CONSTANTS
  KindSystems,   \* the systems and properties k-induction may be given
  KindOptions    \* and its options

VARIABLES bTrans, badTimes, R, Ri, count, reachSeq, forwardSeq, backwardSeq, idx, pos,
          pairs, negInit

Interp == INSTANCE InterpolantMC
Ismc   == INSTANCE InterpSeqMC
Dar    == INSTANCE DualApproxReach
Kind   == INSTANCE KInduction WITH Systems <- KindSystems, Options <- KindOptions

ASSUME KindEngineAssumption == Kind!KindAssumption

mcVars   == <<bTrans, badTimes, R, Ri, count>>
darVars  == <<forwardSeq, backwardSeq, idx, pos>>
kindVars == <<pairs, negInit>>
itpVars  == <<level, itps, invar, mcVars, reachSeq, darVars>>
vars     == <<engineVars, mcVars, reachSeq, darVars, kindVars>>

\* The members of an engine that is not made have no value.
NoKind == pairs = {} /\ negInit = {}
NoInterp ==
  /\ level = 0 /\ itps = <<>> /\ invar = {}
  /\ bTrans = 0 /\ badTimes = {} /\ R = {} /\ Ri = {} /\ count = 0
  /\ reachSeq = <<>> /\ forwardSeq = <<>> /\ backwardSeq = <<>> /\ idx = 0 /\ pos = 0

Init ==
  \/ Interp!Init /\ Ismc!Init /\ Dar!Init /\ NoKind
  \/ Kind!Init /\ NoInterp

\* make_prover: one engine runs.
Step ==
  \/ opts.engine = "interp" /\ Interp!Step /\ UNCHANGED <<reachSeq, darVars, kindVars>>
  \/ opts.engine = "ismc" /\ Ismc!Step /\ UNCHANGED <<mcVars, darVars, kindVars>>
  \/ opts.engine = "dar" /\ Dar!Step /\ UNCHANGED <<mcVars, reachSeq, kindVars>>
  \/ opts.engine = "ind" /\ Kind!Step /\ UNCHANGED itpVars

\* reset_env of that engine.
Reset ==
  \/ opts.engine = "interp" /\ Interp!Reset /\ UNCHANGED <<reachSeq, darVars, kindVars>>
  \/ opts.engine = "ismc" /\ Ismc!Reset /\ UNCHANGED <<mcVars, darVars, kindVars>>
  \/ opts.engine = "dar" /\ Dar!Reset /\ UNCHANGED <<mcVars, reachSeq, kindVars>>

\* check_until(k) of that engine.
Call(k) ==
  \/ opts.engine # "ind" /\ CheckUntil(k)
       /\ UNCHANGED <<mcVars, reachSeq, darVars, kindVars>>
  \/ opts.engine = "ind" /\ Kind!CheckUntil(k) /\ UNCHANGED itpVars

Next == Step \/ Reset \/ \E k \in Bounds : Call(k)

\* A call runs until it returns; calls and refinements need never come.
Spec == Init /\ [][Next]_vars /\ WF_vars(Step)

-----------------------------------------------------------------------------
(* Properties.                                                             *)

ForEngine(interp, ismc, dar) ==
  CASE opts.engine = "interp" -> interp
    [] opts.engine = "ismc"   -> ismc
    [] opts.engine = "dar"    -> dar
    [] OTHER                  -> TRUE

\* The assertions and internal errors of the interpolation engines never fire: solver levels
\* and sequences match reached_k_ whenever step starts or reset_env is called.
AssertionsHold == ForEngine(Interp!AssertionsHold, Ismc!AssertionsHold, Dar!AssertionsHold)

\* Every state has a successor.
Total == \A s \in States : Img({s}) # {}

\* What prover.h says of invar() holds, but that the engine interp may leave the
\* property out on systems with dead ends.  K-induction has no invariant.
InvarInductive ==
  result = "TRUE" /\ opts.engine # "ind" =>
    /\ Inductive(sys, invar)
    /\ (opts.engine = "interp" => Total) => invar \cap sys.bad = {}

\* Each engine implements the abstract prover: TRUE only for safe systems,
\* FALSE with witness_length() the length of a shortest counterexample, and
\* reached_k_ covers every counterexample, eager unrolling included.  For
\* k-induction that is so with one transition and a base case per bound,
\* although the checks before the base case leave their clauses behind.
Promised == opts.engine = "ind" => Kind!Stepwise

Prover == INSTANCE SafetyProver WITH
            reachedK <- IF Promised THEN reachedK ELSE -1,
            result <- IF Promised THEN result ELSE "NONE"
ImplementsProver == Prover!Spec

\* Completeness of the simple path check: when every run of that length has
\* to repeat a state, k-induction does not answer UNKNOWN.
DecidedAtDiameter == opts.engine = "ind" => Kind!DecidedAtDiameter
=============================================================================
