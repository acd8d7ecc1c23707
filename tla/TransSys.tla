------------------------------ MODULE TransSys ------------------------------
(***************************************************************************)
(* Transition systems and the formulas over them, as sets of states.       *)
(*                                                                         *)
(* Pono keeps a system as SMT terms (core/ts.h: init_, trans_) and a       *)
(* property as a term (core/prop.h).  Everything an engine asks a solver   *)
(* about them is whether a formula has a model, so a formula over current  *)
(* state variables is the set of states that satisfy it and trans_ is a    *)
(* set of pairs.  Inputs are projected away: a pair is in trans when some  *)
(* input value allows the step.                                            *)
(*                                                                         *)
(* Nothing here is recursive: what is reachable is said with sets closed   *)
(* under the transition relation, so that the proofs need no induction.    *)
(***************************************************************************)

EXTENDS Integers

CONSTANT States

(* A system and its property: bad is the negation of the property.         *)
(*   det       deterministic_ of core/ts.h: functional, no constraints     *)
(*   boolPreds the atoms that are Boolean state variables                  *)
(*   initPreds, badPreds  the atoms of the initial condition / of bad      *)
(*   filePreds the predicates read from a predicate file                   *)
SystemType ==
  [ init : SUBSET States, trans : SUBSET (States \X States),
    bad : SUBSET States, det : BOOLEAN,
    boolPreds : SUBSET SUBSET States, initPreds : SUBSET SUBSET States,
    badPreds : SUBSET SUBSET States, filePreds : SUBSET SUBSET States ]

(* X holds initially and is closed under the transition relation.          *)
Inductive(sys, X) ==
  /\ sys.init \subseteq X
  /\ \A e \in sys.trans : e[1] \in X => e[2] \in X

(* No reachable state is bad: some inductive set excludes bad.  (The set   *)
(* of reachable states is the least inductive set.)                        *)
Safe(sys) == \E X \in SUBSET States : Inductive(sys, X) /\ X \cap sys.bad = {}

(* s can reach a bad state: it is in every set that holds bad and is       *)
(* closed under predecessors.                                              *)
ReachesBad(sys, s) ==
  \A X \in SUBSET States :
    /\ sys.bad \subseteq X
    /\ \A e \in sys.trans : e[2] \in X => e[1] \in X
    => s \in X

(* The finite paths of n + 1 states: states[t] is the state at time t.     *)
(* This is the system unrolled n times.                                    *)
Paths(sys, n) ==
  { path \in [0..n -> States] :
      \A t \in 0..n : t + 1 \in 0..n => <<path[t], path[t + 1]>> \in sys.trans }

-----------------------------------------------------------------------------
(* Literals, cubes and clauses.  A literal is the set of states where it   *)
(* holds, a cube (a conjunction) a set of literals.  A clause is kept as   *)
(* the cube it negates, so that frame clause c excludes the states of      *)
(* Cube(c).                                                                *)

Cube(c) == { s \in States : \A l \in c : s \in l }

Neg(p) == States \ p

Lits(P) == P \cup { Neg(p) : p \in P }

(* s and t satisfy the same predicates of P.                               *)
Agree(P, s, t) == \A p \in P : s \in p <=> t \in p

(* X is a Boolean combination of the predicates of P.                      *)
Definable(X, P) ==
  \A s, t \in States : Agree(P, s, t) => (s \in X <=> t \in X)

(* The predicates tell every two states apart.                             *)
Separating(P) == \A s, t \in States : Agree(P, s, t) => s = t

(* The cube of the predicate values a model gives.                         *)
ModelCube(P, s) == { p \in P : s \in p } \cup { Neg(p) : p \in { q \in P : s \notin q } }

(* Implicit predicate abstraction: the step lands on any state that agrees *)
(* with the concrete successor on the predicates.                          *)
AbsTrans(sys, P) ==
  { e \in States \X States :
      \E u \in States : <<e[1], u>> \in sys.trans /\ Agree(P, u, e[2]) }
=============================================================================
