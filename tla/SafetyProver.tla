---------------------------- MODULE SafetyProver ----------------------------
(***************************************************************************)
(* What a safety prover promises (engines/prover.h): the abstract          *)
(* specification the engines implement.  reached_k_ is "the last bound     *)
(* reached with no counterexamples", witness_length() is reached_k_ + 1,   *)
(* and TRUE, FALSE and UNKNOWN mean what the names of ProverResult say.    *)
(***************************************************************************)
EXTENDS TransSys, Integers

VARIABLES
  sys,       \* the system and property
  reachedK,  \* reached_k_
  result     \* what check_until returned; NONE while it runs

proverVars == <<sys, reachedK, result>>

Img(sy, X) == { t \in States : \E s \in X : <<s, t>> \in sy.trans }

\* The states that exactly n steps lead to.
ReachedIn(sy, n) ==
  LET after[k \in 0..n] == IF k = 0 THEN sy.init ELSE Img(sy, after[k - 1])
  IN  after[n]

Violated(sy, n) == ReachedIn(sy, n) \cap sy.bad # {}

NoCexUpTo(sy, n) == \A k \in 0..n : ~Violated(sy, k)

-----------------------------------------------------------------------------
(* initialize: a prover has reached no bound.                              *)
Init == reachedK = -1 /\ result = "NONE"

\* check_until is called again after UNKNOWN.
Call ==
  /\ result = "UNKNOWN"
  /\ result' = "NONE"
  /\ UNCHANGED <<sys, reachedK>>

\* Bounds are completed without a counterexample.
Reach ==
  /\ result = "NONE"
  /\ reachedK' > reachedK
  /\ NoCexUpTo(sys, reachedK')
  /\ UNCHANGED <<sys, result>>

\* UNKNOWN may follow at any time.
GiveUp ==
  /\ result = "NONE"
  /\ result' = "UNKNOWN"
  /\ UNCHANGED <<sys, reachedK>>

AnswerTrue ==
  /\ result = "NONE"
  /\ Safe(sys)
  /\ result' = "TRUE"
  /\ reachedK' >= reachedK
  /\ UNCHANGED sys

\* The counterexample has witness_length() steps; no shorter one exists.
AnswerFalse ==
  /\ result = "NONE"
  /\ reachedK' >= reachedK
  /\ NoCexUpTo(sys, reachedK')
  /\ Violated(sys, reachedK' + 1)
  /\ result' = "FALSE"
  /\ UNCHANGED sys

\* A CEGAR loop refines the system after FALSE and calls reset_env.
ResetEnv ==
  /\ result = "FALSE"
  /\ sys' # sys
  /\ reachedK' = -1
  /\ result' = "NONE"

Next == Call \/ Reach \/ GiveUp \/ AnswerTrue \/ AnswerFalse \/ ResetEnv

Spec == Init /\ [][Next]_proverVars
=============================================================================
