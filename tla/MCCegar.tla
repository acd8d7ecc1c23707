------------------------------ MODULE MCCegar --------------------------------
(* The CEGAR loops on abstract systems of up to five states whose axioms are over *)
(* one state, over a step, and over an index read in another state.         *)
EXTENDS CegarEngines

MCStates == 0..4

Rel(f) == UNION { { <<i - 1, t>> : t \in f[i] } : i \in DOMAIN f }

Curr(ok) == [kind |-> "curr", delay |-> 0, rel |-> { <<s, s>> : s \in ok }]
StepAx(f) == [kind |-> "step", delay |-> 0, rel |-> Rel(f)]

Line  == Rel(<<{1}, {2}, {3}, {3}>>)
Fork  == Rel(<<{1, 2}, {3}, {2, 3}, {0}>>)
Hub   == Rel(<<{0, 1, 3}, {2}, {3}, {1}>>)

\* Only the longer way to 3 is not through 1.
Vee   == Rel(<<{4}, {2}, {3}, {3}, {2}>>)

\* Each makes some state or step an artefact of the abstraction.
NotOne   == Curr({0, 2, 3})
NotTwo   == Curr({0, 1, 3})
NotThree == Curr({0, 1, 2})
NotJump  == StepAx(<<{0, 1, 2}, {0, 1, 2, 3}, {0, 1, 2}, {0, 1, 2, 3}>>)

\* What was read in state 1 (or 0) says that the run does not get to 3 (2).
Not(next, u, v) ==
  [ next |-> next, rel |-> { <<s, t>> \in MCStates \X MCStates : ~(s = u /\ t = v) } ]

FromOne  == Not(TRUE, 1, 3)
FromZero == Not(FALSE, 0, 2)
ToTwo    == Not(TRUE, 0, 2)

MCSystem(init, trans, bad, ops, vals, arrays, indices, lambdas, finite) ==
  [ init |-> init, trans |-> trans, bad |-> bad, ops |-> ops, vals |-> vals,
    arrays |-> arrays, indices |-> indices, lambdas |-> lambdas, finite |-> finite ]

\* Runs from 2 have the wrong value.
Twins == Rel(<<{1}, {0, 1}, {3}, {3}>>)
Value == Curr({0, 1})
NotBack == StepAx(<<{1}, {1}, {2, 3}, {2, 3}>>)

MCSystems ==
  { MCSystem(init, trans, {3}, ops, {}, arrays, indices, {}, FALSE) :
      init \in {{0}, {0, 3}}, trans \in {Line, Fork, Hub},
      ops \in {{}, {NotThree, NotTwo}, {NotJump, NotOne}},
      arrays \in {{}, {NotTwo}}, indices \in {{}, {FromOne, FromZero}} }
  \cup { MCSystem({0, 2}, Twins, bad, {}, {Value}, arrays, indices, {}, FALSE) :
           bad \in {{3}, {2}, {1, 3}}, arrays \in {{}, {NotBack}},
           indices \in {{}, {ToTwo}} }
  \cup { MCSystem({0, 1}, Vee, {3}, {}, {}, {}, {FromOne}, {}, FALSE) }
  \cup { MCSystem({0}, Hub, {3}, {}, {}, {NotJump}, indices, {NotTwo}, finite) :
           indices \in {{}, {FromOne}}, finite \in BOOLEAN }

Opt(outer, inner, restart, longCex, reduce) ==
  [ outer |-> outer, inner |-> inner, restart |-> restart, longCex |-> longCex,
    reduce |-> reduce, functional |-> {} ]

\* Engines that use the prover's system, IC3SA with its view, and arrays.
Functional ==
  { [Opt("ops", "engine", restart, FALSE, FALSE) EXCEPT !.functional = systems] :
      restart \in BOOLEAN, systems \in {{"copy"}, {"copy", "prover"}} }
  \cup {[Opt("ops", "cegp", FALSE, FALSE, FALSE) EXCEPT !.functional = {"copy"}]}

MCOptions ==
  { Opt("ops", "engine", restart, longCex, FALSE) : restart, longCex \in BOOLEAN }
  \cup { Opt(outer, "cegp", restart, FALSE, reduce) :
           outer \in {"none", "ops", "vals"}, restart, reduce \in BOOLEAN }
  \cup { Opt(outer, "cegp", TRUE, TRUE, FALSE) : outer \in {"none", "vals"} }
  \cup Functional
=============================================================================
