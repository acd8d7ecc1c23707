----------------------------- MODULE MCFlavours -----------------------------
(* Two other flavours of IC3 over small systems of words x, y of two bits, a *)
(* Boolean b and an input i: IC3SA's refinement, and SyGuS-PDR.  A behaviour *)
(* is one flavour's; the other waits in an initial state.                    *)
EXTENDS IC3SA, SygusPdr

CONSTANT Flavours
VARIABLE flavour

x == Var("x")
y == Var("y")
b == Var("b")
i == Var("i")

-----------------------------------------------------------------------------
(* Systems for IC3SA; i is a variable without an update.                     *)

SaBlank == MakeStatevar(MakeStatevar(MakeStatevar(FreshTs(TRUE, <<>>), "x", 2), "b", 1), "i", 1)

SaSystem(init, nextX, nextB, constraints, bad) == {
  [ ts |-> AddConstraints(AssignNext(AssignNext(SetInit(SaBlank, init), "x", nextX), "b", nextB),
                          constraints),
    bools |-> {"b", "i"}, bad |-> bad, func |-> f ] : f \in BOOLEAN }

Up == BVInc(x, 2)
SaCounting == SaSystem({Equal(x, Val(0))}, Ite(i, Up, x), Or(b, Equal(x, Val(2))), <<>>,
                     And(Equal(x, Val(3)), b))
Waiting == SaSystem({Equal(x, Val(0)), Not(b)}, Ite(And(b, i), Up, x), Implies(b, i), <<>>,
                    Equal(x, Val(3)))
Held == SaSystem({Equal(x, Val(0)), Not(b)}, Ite(i, Up, x), And(b, i),
                 <<<<Implies(b, Not(Equal(x, Val(3)))), TRUE>>>>, And(b, Equal(x, Val(2))))
\* b is an input's echo: predecessors are projected on what controls them.
Echo == SaSystem({Equal(x, Val(0))}, Ite(Implies(b, i), x, Up), i, <<>>, Or(Equal(x, Val(3)), And(b, Equal(x, Val(2)))))

SaKept == SaSystem({Equal(x, Val(0))}, Ite(b, Up, x), Or(b, i), <<<<Not(And(b, i)), TRUE>>>>, Equal(x, Val(2)))

MCSaSystems == SaKept \cup SaCounting \cup Waiting \cup Held \cup Echo

-----------------------------------------------------------------------------
(* Systems for SyGuS-PDR; i is promoted: a state variable without an update. *)

C(n) == BVVal(n, 2)
Plus(t, u) == BV("add", 2, t, u)
Square(t) == BV("mul", 2, t, t)

Small == MakeStatevar(MakeStatevar(FreshTs(TRUE, <<>>), "x", 2), "i", 1)
Blank == MakeStatevar(Small, "b", 1)
Design(init, nextX, nextB) == AssignNext(AssignNext(SetInit(Blank, init), "x", nextX), "b", nextB)
Wide(init, nextX, nextY, nextB) ==
  AssignNext(AssignNext(AssignNext(SetInit(MakeStatevar(Blank, "y", 2), init), "x", nextX),
                        "y", nextY), "b", nextB)

Modes == {"FROM_DESIGN_LEARN_EXT", "VAR_C_EXT", "VAR_C_EQ_LT"}
Designs(ts, bad, modes) == { [conc |-> ts, bad |-> bad, mode |-> m, opLevel |-> 0] : m \in modes }
Zero == { Not(Equal(Extract(j, j, x), BVVal(1, 1))) : j \in 0..1 }

\* x is even for ever.
Even == Designs(Design({Equal(x, C(0)), Not(b)}, Ite(i, Plus(x, C(2)), x), b), Equal(x, C(3)), Modes)
\* x counts once i was there.
Counting == Designs(Design({Equal(x, C(0))}, Ite(b, Plus(x, C(1)), x), Or(b, i)),
                   Equal(x, C(3)), Modes)
\* Constraints on the input keep x from 3, and do not.
Kept == Designs(AddConstraints(Design({Equal(x, C(0)), Not(b)}, Ite(i, Plus(x, C(1)), x), Or(b, i)),
                              <<<<Implies(b, Not(i)), TRUE>>>>), Equal(x, C(3)), Modes)
Delayed == Designs(AddConstraints(Design({Equal(x, C(0)), Not(b)}, Ite(i, Plus(x, C(1)), x),
                                        Ite(b, i, Not(i))),
                                 <<<<Implies(i, Or(b, Not(Equal(x, C(1))))), TRUE>>>>),
                  And(b, Equal(x, C(3))), Modes)
\* b decides whether x is shifted.
Shifting == Designs(Design({Equal(x, C(0)), b}, Ite(b, BV("shl", 2, x, C(1)), Plus(x, C(2))), i),
                   And(b, Equal(Extract(0, 0, x), BVVal(1, 1))), Modes)
\* The parity of x is that of b, and no constant tells 1 from 0.
Parity == Designs(Design(Zero \cup {b}, Ite(i, Plus(x, C(3)), x), Ite(i, Not(b), b)),
                 And(b, Equal(Extract(0, 0, x), BVVal(1, 1))), Modes)
\* Two words that are 3, where no comparison of them tells 3 from 1.
Ones(t) == Equal(t, BV("concat", 1, b, b))
Threes == {b, Ones(x), Ones(y)}
AreOne == And(Equal(x, C(1)), Equal(y, C(1)))
Swapping == Designs(Wide(Threes, Ite(i, x, Plus(x, x)), Ite(i, y, x), i), And(b, AreOne),
                   {"FROM_DESIGN_LEARN_EXT", "VAR_C_EQ_LT"})
Adding == Designs(Wide(Threes, Ite(b, Plus(x, y), x), Ite(b, y, x), i), AreOne,
                 {"FROM_DESIGN_LEARN_EXT"})
\* Squares are 0 or 1; the multiplier is an input until a trace shows a value.
Squares == { [conc |-> AssignNext(SetInit(Small, {Equal(x, C(2))}), "x", Ite(i, Square(x), x)),
              bad |-> Equal(x, C(3)), mode |-> "FROM_DESIGN_LEARN_EXT", opLevel |-> 1],
             [conc |-> Design({Equal(x, C(1)), Not(b)}, Ite(b, BV("mul", 2, x, C(3)), x), i),
              bad |-> And(b, Equal(x, C(3))), mode |-> "FROM_DESIGN_LEARN_EXT", opLevel |-> 1] }
MCSystems == Even \cup Counting \cup Kept \cup Delayed \cup Shifting \cup Parity \cup Swapping
               \cup Adding \cup Squares

\* x is 1 for ever, and b is set when its square is 0.
Still == { [conc |-> Design({Equal(x, C(1)), Not(b)}, x, Equal(Square(x), C(0))), bad |-> b,
            mode |-> "FROM_DESIGN_LEARN_EXT", opLevel |-> 1] }

-----------------------------------------------------------------------------
FlavoursInit ==
  /\ flavour \in Flavours
  /\ IF flavour = "ic3sa" THEN SaInit
     ELSE SaStart(CHOOSE sy \in SaSystems : TRUE, CHOOSE level \in TermLevels : TRUE)
  /\ IF flavour = "sygus" THEN SgInit ELSE SgStart(CHOOSE sy \in AllPrepared : TRUE)

FlavoursNext ==
  /\ UNCHANGED flavour
  /\ \/ flavour = "ic3sa" /\ SaNext /\ UNCHANGED sgVars
     \/ flavour = "sygus" /\ SgNext /\ UNCHANGED saVars

FlavoursSpec == FlavoursInit /\ [][FlavoursNext]_<<flavour, saVars, sgVars>>
=============================================================================
