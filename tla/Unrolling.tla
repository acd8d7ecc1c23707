----------------------------- MODULE Unrolling -----------------------------
(***************************************************************************)
(* The unrollers of an engine at work: times are asked for in any order,   *)
(* and the system the relational one refers to gets more variables.        *)
(***************************************************************************)
EXTENDS TransitionSystem

CONSTANTS UnrolledTs,      \* the systems an unroller is made for
          Intervals,       \* the interval of the functional one
          MaxTime,         \* bound: the largest time asked for
          LateVars         \* bound: the variables that may be added

VARIABLES uts, unroller, fts, funroller, interval, answer
unrollVars == <<uts, unroller, fts, funroller, interval, answer>>

NoAnswer == [kind |-> "none"]

UnrollStart(system, n) ==
  /\ uts = system
  /\ unroller = NewUnroller(uts)
  /\ fts = uts
  /\ funroller = NewUnroller(fts)
  /\ interval = n
  /\ answer = NoAnswer

UnrollersInit == \E system \in UnrolledTs, n \in Intervals : UnrollStart(system, n)

\* make_statevar or make_inputvar on the system the unroller refers to.
AddLate(v) ==
  /\ v \notin DOMAIN uts.sort
  /\ \/ uts' = MakeStatevar(uts, v, 1)
     \/ uts' = MakeInputvar(uts, v, 1)
  /\ answer' = NoAnswer
  /\ UNCHANGED <<unroller, fts, funroller, interval>>

UnrollAt(k) ==
  /\ unroller' = VarCacheAtTime(unroller, uts, k)
  /\ answer' = [kind |-> "relational", time |-> k,
                got |-> [v \in uts.statevars \cup uts.inputvars \cup NextVars(uts) |->
                           AtTime(unroller', Var(v), k)]]
  /\ UNCHANGED <<uts, fts, funroller, interval>>

UnrollFunctionallyAt(k) ==
  /\ funroller' = FunctionalCacheAtTime(funroller, fts, interval, k)
  /\ answer' = [kind |-> "functional", time |-> k,
                got |-> [v \in fts.statevars \cup fts.inputvars |-> AtTime(funroller', Var(v), k)]]
  /\ UNCHANGED <<uts, unroller, fts, interval>>

UnrollersNext ==
  \/ \E v \in LateVars : AddLate(v)
  \/ \E k \in 0..MaxTime : UnrollAt(k) \/ UnrollFunctionallyAt(k)

UnrollersSpec == UnrollersInit /\ [][UnrollersNext]_unrollVars

-----------------------------------------------------------------------------
\* A term at time k is over the symbols of times k and k + 1, all of them,
\* whenever its variables were added and whatever times were asked for before
\* (test_unroller.cpp, Unroller; the hazard at unroller.cpp:133).
TimedCopies ==
  answer.kind = "relational" =>
    \A v \in DOMAIN answer.got :
      answer.got[v] = Var(IF v \in NextVars(uts)
                          THEN Timed(CHOOSE w \in uts.statevars : uts.nextMap[w] = v, answer.time + 1)
                          ELSE Timed(v, answer.time))

\* The values of the state variables at time k of the run with the inputs of env.
RECURSIVE ValuesAt(_, _, _)
ValuesAt(ts, env, k) ==
  LET timed(v) == env[Timed(v, k)]
      before == ValuesAt(ts, env, k - 1)
  IN  [v \in ts.statevars \cup ts.inputvars |->
         IF k = 0 \/ ~HasUpdate(ts, v) THEN timed(v) ELSE Eval(ts.updates[v], before)]

\* Where the extra constraints up to k hold, a functionally unrolled variable
\* has the value of step k, in whatever order the times were asked for and
\* wherever fresh symbols were made (functional_unroller.h:34).
FunctionalMeansStep ==
  answer.kind = "functional" =>
    LET symbols == { Timed(v, t) : v \in fts.statevars \cup fts.inputvars, t \in 0..answer.time }
    IN  \A env \in Valuations(symbols, [s \in symbols |-> 1]) :
          (\A t \in 0..answer.time : HoldAll(funroller.extra[t + 1], env))
            => \A v \in fts.statevars :
                 Eval(answer.got[v], env) = ValuesAt(fts, env, answer.time)[v]
=============================================================================
