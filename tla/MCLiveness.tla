----------------------------- MODULE MCLiveness ------------------------------
(* Liveness over systems with a state variable of three values and one bit  *)
(* that is an input or a variable without an update.                        *)
EXTENDS Liveness

MCStates == 0..5

Value(s) == s \div 2

\* next[s + 1] is the next value from s.
MCSystem(init, next, justice, freeIsState) ==
  [ init |-> { s \in MCStates : Value(s) \in init },
    trans |-> { <<s, t>> \in MCStates \X MCStates : Value(t) = next[s + 1] },
    justice |-> justice,
    updated |-> [s \in MCStates |-> Value(s)],
    all |-> [s \in MCStates |-> IF freeIsState THEN s ELSE Value(s)] ]

Choose == <<1, 0, 2, 1, 2, 0>>   \* each value may go on or stay behind
Cycle  == <<1, 1, 2, 2, 0, 0>>
Chain  == <<1, 1, 2, 2, 2, 2>>
Trap   == <<0, 1, 0, 2, 2, 2>>

MCSystems ==
  { MCSystem({0}, next, {J}, freeIsState) :
      next \in {Choose, Chain, Trap}, J \in {{0, 1}, {3}, {2, 5}},
      freeIsState \in BOOLEAN }
  \cup { MCSystem({0, 1}, next, justice, TRUE) :
           next \in {Choose, Trap}, justice \in {{{0, 1}, {3}}, {{1}, {4}}} }
  \cup { MCSystem({0}, Cycle, {{0, 2, 3, 5}}, FALSE) }

Opt(mode, encoding, start, step, check, lockstep, kind) ==
  [ mode |-> mode, encoding |-> encoding, start |-> start, step |-> step,
    maxCount |-> 4, checkLasso |-> check, lockstep |-> lockstep, cexKind |-> kind,
    ndebug |-> TRUE ]

MCOptions ==
  { Opt("klive", encoding, 1, 1, check, lockstep, "first") :
      encoding \in {"BV_BINARY", "BV_ONE_HOT", "INTEGER"}, check, lockstep \in BOOLEAN }
  \cup { Opt("klive", "BV_BINARY", 2, 2, check, TRUE, kind) :
           kind \in {"single", "nonminimal"}, check \in BOOLEAN }
  \cup { Opt("l2s", "INTEGER", 1, 1, FALSE, FALSE, "first") }
=============================================================================
