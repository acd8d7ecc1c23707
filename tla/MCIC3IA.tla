------------------------------- MODULE MCIC3IA -------------------------------
(* IC3IA on systems over one word x that takes five values and, in some,   *)
(* a Boolean variable that holds its lowest bit; the atoms of init and bad *)
(* are the equalities that occur in them, interpolants are comparisons and *)
(* equalities of x with a constant.                                        *)
EXTENDS IC3IA

MCStates == 0..4

Equalities(X) == { {x} : x \in X }

MCItpTerms ==
  { {}, MCStates } \cup Equalities(MCStates)
    \cup { 0..x : x \in MCStates } \cup { x..4 : x \in MCStates }

MCSystem(start, steps, wrong, bools, file) ==
  [ init |-> start, trans |-> steps, bad |-> wrong, det |-> FALSE,
    boolPreds |-> bools, initPreds |-> Equalities(start),
    badPreds |-> Equalities(wrong), filePreds |-> file ]

Rel(f) == { <<s, t>> \in MCStates \X MCStates : t \in f[s + 1] }

Chain  == Rel(<<{1}, {2}, {3}, {4}, {4}>>)     \* 0 1 2 3 4, stay at 4
Detour == Rel(<<{1}, {0}, {3}, {4}, {2}>>)     \* a loop below, a loop above
Stuck  == Rel(<<{1, 2}, {}, {1}, {4}, {3}>>)   \* 1 has no successor
Fork   == Rel(<<{0, 1}, {2}, {2, 3}, {}, {0}>>)
Swap   == Rel(<<{2}, {3}, {0}, {1}, {1, 4}>>)

MCSystems ==
  { MCSystem(start, steps, wrong, extra[1], extra[2]) :
      start \in {{0}, {0, 1}}, steps \in {Chain, Detour, Stuck, Fork, Swap},
      wrong \in {{4}, {3}},
      extra \in {<<{}, {}>>, <<{{1, 3}}, {}>>, <<{}, {{0, 1}}>>} }
  \cup { MCSystem({0, 3}, Chain, {3}, {}, {}) }
=============================================================================
