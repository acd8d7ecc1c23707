----------------------------- MODULE MCEngines ------------------------------
(* The engines on systems over four states: the interpolation engines with *)
(* every interpolant the definition allows, and k-induction.               *)
EXTENDS Engines

MCStates == 0..3

Rel(f) == { <<s, t>> \in MCStates \X MCStates : t \in f[s + 1] }

MCSystem(steps, wrong) ==
  [ init |-> {0}, trans |-> steps, bad |-> wrong, det |-> FALSE,
    boolPreds |-> {}, initPreds |-> {}, badPreds |-> {}, filePreds |-> {} ]

Counter == Rel(<<{1}, {2}, {3}, {0}>>)
Fork    == Rel(<<{1, 2}, {0}, {3}, {1}>>)
Late    == Rel(<<{2}, {0}, {3}, {1}>>)          \* Fork, refined
Apart   == Rel(<<{1}, {0}, {3}, {2}>>)          \* 2 and 3 are not reached
DeadEnd == Rel(<<{0, 1}, {0}, {3}, {}>>)        \* nor here; 3 has no successor

MCSystems ==
  { MCSystem(steps, wrong) :
      steps \in {Counter, Fork, Late, Apart, DeadEnd}, wrong \in {{1}, {3}} }
  \cup { MCSystem(Apart, {0}) }

Opt(engine, frontier, firstLast, eager) ==
  [ engine |-> engine, frontier |-> frontier, firstLast |-> firstLast,
    eager |-> eager, fails |-> TRUE, cegar |-> TRUE ]

MCOptions ==
  { Opt(engine, TRUE, FALSE, FALSE) : engine \in {"ismc", "dar"} }
  \cup { Opt("interp", f, l, e) : f, l, e \in BOOLEAN }

-----------------------------------------------------------------------------
(* K-induction.  In the first family all variables have an update; in the  *)
(* second a state is 2 * x + n with a variable n that has none.            *)

Identity == { <<s, s>> : s \in MCStates }
SameX    == { <<s, t>> \in MCStates \X MCStates : s \div 2 = t \div 2 }

Updated(start, steps, wrong, known) ==
  [ init |-> start, trans |-> steps, bad |-> wrong, same |-> Identity, total |-> known ]

\* x goes to a member of f[s]; n is free.
Free(start, f, wrong) ==
  [ init |-> start, trans |-> { <<s, t>> \in MCStates \X MCStates : t \div 2 \in f[s + 1] },
    bad |-> wrong, same |-> SameX, total |-> TRUE ]

Choice  == Rel(<<{0, 1}, {2}, {2}, {3}>>)
Stay    == Rel(<<{1}, {0}, {2}, {3}>>)
Back    == Rel(<<{1}, {0}, {1, 3}, {2}>>)

MCKindSystems ==
  { Updated({0}, steps, wrong, TRUE) :
      steps \in {Counter, Choice, Stay, Back}, wrong \in {{0}, {1}, {2}, {3}} }
  \cup { Updated({0, 1}, Rel(<<{1}, {2}, f, {3}>>), wrong, FALSE) :
           f \in {{}, {3}}, wrong \in {{}, {2}, {3}} }
  \cup { Free(start, f, wrong) :
           start \in {{0}, {0, 1}}, f \in {<<{0}, {1}, {1}, {1}>>, <<{0}, {0}, {1}, {0}>>},
           wrong \in {{2}, {2, 3}} }

KindOpt(step, oneTime, simplePath, multiCall, indInit, indProp) ==
  [ engine |-> "ind", step |-> step, oneTime |-> oneTime, simplePath |-> simplePath,
    multiCall |-> multiCall, indInit |-> indInit, indProp |-> indProp ]

MCKindOptions ==
  { o \in { KindOpt(step, oneTime, simplePath, multiCall, inds[1], inds[2]) :
              step \in {1, 2}, oneTime, multiCall \in BOOLEAN,
              simplePath \in {"none", "lazy", "eager"},
              inds \in {<<TRUE, TRUE>>, <<TRUE, FALSE>>, <<FALSE, FALSE>>} } :
      /\ o.step # 1 => o.oneTime /\ o.simplePath # "eager"
      /\ o.simplePath # "lazy" => o.multiCall }
=============================================================================
