------------------------------ MODULE MCProgram ------------------------------
(* The program around the engines: the command line, the main program over   *)
(* files of the three formats, the unrollers over two systems, and the       *)
(* witness of a counter with a memory.  A behaviour is one part's; the       *)
(* others wait in an initial state.                                          *)
EXTENDS Options, PonoMain, Unrolling, Witness

CONSTANT Parts
VARIABLE part

-----------------------------------------------------------------------------
(* Command lines of up to four words.                                        *)

Opt(o, a) == [opt |-> o, arg |-> a]
FileArg == Opt("file", "")

\* Every option alone, with every argument; the options that share fields or
\* exclude each other, three at a time.
Arguments(o) == IF o \notin DOMAIN usage \/ usage[o].check = "None" THEN {""}
                ELSE IF usage[o].check = "Numeric" THEN Numerals \cup {"", "x"}
                ELSE {"", "x", "a:b", "a:b:c"} \cup
                     (IF usage[o].field \in DOMAIN Words THEN Words[usage[o].field] ELSE {})
AllOptions == (DOMAIN usage \cup {"help", "version", "unknown"})
                \ {"no-ic3ia-reduce-preds", "no-ic3ia-track-important-vars"}
Singles == UNION { { <<Opt(o, a), FileArg>>, <<Opt(o, a)>> } : <<o, a>> \in
                     UNION { {o} \X Arguments(o) : o \in AllOptions } }
Mixed == { Opt("witness", ""), Opt("vcd", "w.vcd"), Opt("bmc-neg-bad-step", ""),
           Opt("bmc-neg-bad-step-all", ""), Opt("no-kind-ind-check", ""),
           Opt("no-kind-ind-check-property", ""), Opt("no-ic3ia-sim-cex", ""),
           Opt("bound", "3"), Opt("bound", "5"), Opt("engine", "ind"), FileArg }
Triples == { <<a, b, c, d>> : a \in Mixed, b \in Mixed, c \in Mixed, d \in {FileArg, Opt("bound", "1")} }

MCCommandLines == Singles \cup Triples

-----------------------------------------------------------------------------
(* Small files and the options of the main program.                          *)

B(tag, v, width, t) == [tag |-> tag, symbol |-> v, width |-> width, next |-> "", term |-> t]
Decl(tag, v, width) == B(tag, v, width, True)
With(tag, t)        == B(tag, "", 0, t)
Set(tag, v, t)      == B(tag, v, 0, t)
VmtNext(v, w)       == [Set(":next", v, True) EXCEPT !.next = w]

File(format, lines) == [format |-> format, lines |-> lines]

x == Var("x")
y == Var("y")
e == Var("e")
Is(t, n) == Equal(t, Val(n))
IncIf(c) == Ite(c, BVInc(x, 2), x)

Counter == File("btor2", <<
  Decl("state", "x", 2), Set("init", "x", Val(0)), Decl("input", "e", 1),
  Set("next", "x", IncIf(e)), With("bad", Is(x, 1)), With("bad", Is(x, 3)), With("fair", e) >>)

\* z starts with a value and is outside the cone of the property; y is free.
Cones == File("btor2", <<
  Decl("state", "x", 2), Decl("state", "y", 1), Decl("state", "z", 1), Decl("input", "e", 1),
  Set("init", "x", Val(0)), Set("init", "z", Val(1)),
  Set("next", "x", IncIf(y)), Set("next", "z", Ite(e, Not(Var("z")), x)),
  With("bad", Is(x, 2)) >>)

\* The constraint is over an input and rules the bad states out.
Constrained == File("btor2", <<
  Decl("state", "x", 1), Decl("state", "y", 1), Decl("input", "e", 1),
  Set("init", "x", Val(0)), Set("init", "y", x), With("constraint", Or(e, Not(x))),
  Set("next", "x", e), Set("next", "y", Not(y)), With("bad", And(x, Not(e))) >>)

\* A property over an input; the constraint makes dead ends.
DeadEnds == File("btor2", <<
  Decl("state", "x", 2), Decl("state", "y", 1), Decl("input", "e", 1), Decl("input", "d", 1),
  With("constraint", Not(Is(x, 3))), Set("next", "x", IncIf(And(y, Var("d")))),
  Set("next", "y", Or(y, Var("d"))), Set("init", "y", Val(0)),
  With("bad", And(And(Is(x, 2), e), y)) >>)

\* Nothing but the reset gives x a value.
Resets(term) == File("btor2", <<
  Decl("state", "x", 2), Decl("input", "r", 1),
  Set("next", "x", Ite(term, Val(0), BVInc(x, 2))), With("bad", Is(x, 2)) >>)

\* What the clock does decides whether x is ever 2.
Clocked(kind) == File("btor2", <<
  Decl("state", "x", 2), Decl(kind, "clk", 1), Set("init", "x", Val(0)),
  Set("next", "x", Ite(Var("clk"), Ite(Is(x, 0), Val(1), Val(0)), IncIf(Is(x, 1)))),
  With("bad", Is(x, 3)) >>)

nx == Var("x.next")

Machine == File("smv", <<
  Decl("VAR", "x", 2), Decl("VAR", "y", 1), Decl("IVAR", "e", 1), Decl("FROZENVAR", "f", 1),
  Set("ASSIGN init", "x", Val(0)), Set("ASSIGN next", "x", IncIf(And(e, Var("f")))),
  Set("ASSIGN", "y", Is(x, 2)), With("INVAR", Implies(Var("f"), Not(Is(x, 3)))),
  With("INVARSPEC", Not(Is(x, 3))), With("INVARSPEC", Not(y)) >>)

\* The property is over a step, and over the input of the last state.
Stepping(spec) == File("smv", <<
  Decl("VAR", "x", 2), Decl("IVAR", "e", 1), With("INIT", Is(x, 0)),
  Set("ASSIGN next", "x", Ite(Is(x, 1), Val(2), Ite(Is(x, 2), Val(0), Val(1)))),
  With("TRANS", Implies(Is(x, 2), e)), With("INVARSPEC", spec) >>)

OverStep  == Stepping(Implies(Is(x, 2), BVUlt(x, nx)))
OverInput == Stepping(Not(And(Is(x, 2), e)))

Vmt == File("vmt", <<
  Decl("declare", "x", 2), Decl("declare", "w", 2), VmtNext("x", "w"),
  Decl("declare", "y", 1), VmtNext("y", "v"), Decl("declare", "e", 1),
  With(":init", And(Is(x, 0), y)), With(":trans", Equal(Var("w"), IncIf(e))),
  With(":trans", Equal(Var("v"), And(y, Not(e)))),
  With(":invar-property", Implies(y, Is(x, 0))), With(":invar-property", Or(y, Not(Is(x, 2)))) >>)

Plain ==
  [ propIdx |-> 0, bound |-> 5, engine |-> "exact", staticCoi |-> FALSE, pseudoInit |-> FALSE,
    promote |-> FALSE, assumeProp |-> FALSE, checkInvar |-> FALSE, simulate |-> 0,
    clock |-> "", reset |-> "", resetNegative |-> FALSE, resetBound |-> 1 ]

Passes == { [Plain EXCEPT !.staticCoi = c, !.pseudoInit = p, !.promote = q, !.assumeProp = a,
                          !.bound = b] :
              c, p, q, a \in BOOLEAN, b \in {2, 5} }

Functional == { [o EXCEPT !.propIdx = i] : o \in Passes, i \in {0, 1} }
Relational == { o \in Functional : ~o.staticCoi }

ResetOpts(neg) ==
  { [o EXCEPT !.reset = "r", !.resetNegative = neg, !.resetBound = n] :
      o \in { p \in Passes : p.bound = 5 /\ ~p.pseudoInit }, n \in 1..3 }

MCScenarios ==
  ({Counter} \X Functional)
  \cup ({Cones, Constrained, DeadEnds} \X { o \in Passes : o.bound = 5 \/ o.staticCoi })
  \cup ({Machine, Vmt} \X Relational)
  \cup ({OverStep} \X { o \in Passes : ~o.staticCoi /\ ~o.pseudoInit })
  \cup ({OverInput} \X { o \in Passes : ~o.staticCoi /\ ~o.pseudoInit })
  \cup ({Resets(Var("r"))} \X ResetOpts(FALSE)) \cup ({Resets(Not(Var("r")))} \X ResetOpts(TRUE))
  \cup ({Clocked("state")} \X { [o EXCEPT !.clock = "clk"] : o \in Passes })
  \cup ({Counter, Constrained, DeadEnds} \X { [Plain EXCEPT !.simulate = 2] })
  \cup ({Counter, Machine} \X
          { [Plain EXCEPT !.engine = "faulty", !.checkInvar = c, !.pseudoInit = p] :
              c, p \in BOOLEAN })
  \cup ({Constrained, Machine} \X { [Plain EXCEPT !.engine = "ic3sa"] })
  \cup ({Counter, Vmt} \X { [Plain EXCEPT !.propIdx = 2], [Plain EXCEPT !.clock = "none"],
                            [Plain EXCEPT !.staticCoi = TRUE] })

MCFiles == { sc[1] : sc \in MCScenarios }

-----------------------------------------------------------------------------
(* Systems to unroll: every variable updated, or one only.                   *)

Base == MakeInputvar(MakeStatevar(MakeStatevar(FreshTs(TRUE, <<>>), "x", 1), "y", 1), "i", 1)
Updated == [Base EXCEPT !.updates = "x" :> Xor(Var("x"), Var("i")) @@ "y" :> Ite(Var("x"), Var("y"), Var("i"))]
Partly == [Base EXCEPT !.updates = "x" :> And(Not(Var("y")), Var("x"))]
MCUnrolledTs == {Updated, Partly}

-----------------------------------------------------------------------------
(* A counter that stops at a bad value and writes an input into a memory of  *)
(* two elements.                                                             *)

Named(path, internal, location) == [path |-> path, internal |-> internal, location |-> location]
Mems == [0..1 -> 0..2]
Points == [x : 0..2, m : Mems]

\* x counts when the input is 1 or always, and element x mod 2 of m gets the
\* input or, in a third design, is cleared again.
Tally(always, written(_, _), names) ==
  [ states |-> Points, inputs |-> 0..1,
    init |-> { [x |-> 0, m |-> [j \in 0..1 |-> 2 * c]] : c \in 0..1 },
    next |-> [ p \in Points \X (0..1) |->
                 { [ x |-> IF always \/ p[2] = 1 THEN (p[1].x + 1) % 3 ELSE p[1].x,
                     m |-> [p[1].m EXCEPT ![p[1].x % 2] = written(p[1], p[2])] ] } ],
    bad |-> { s \in Points : s.x = 2 },
    goals |-> { { s \in Points : s.x = 0 }, { s \in Points : s.x = 1 } },
    statevars |-> {"x", "m"}, inputvars |-> {"i"}, nextvars |-> {"x.next"}, arrays |-> {"m"},
    indices |-> 0..1, width |-> 2, named |-> names.named, name |-> names.name,
    defined |-> "busy" :> [ p \in Points \X (0..1) |-> IF p[1].x = 1 /\ p[2] = 1 THEN 1 ELSE 0 ] ]

OwnNames == [ x |-> Named(<<"top", "x">>, FALSE, FALSE), m |-> Named(<<"top", "mem">>, FALSE, FALSE),
              i |-> Named(<<"i">>, FALSE, FALSE) ]

\* The names of a design as a front end gives them.
Plainly == [ name |-> OwnNames,
             named |-> { [term |-> "x", name |-> OwnNames.x], [term |-> "x.next", name |-> OwnNames.x],
                         [term |-> "busy", name |-> Named(<<"a.v">>, FALSE, TRUE)] } ]

\* A term whose name is the state's once colons are gone, and an internal one.
Clashing == [ name |-> [OwnNames EXCEPT !.x = Named(<<"u_x">>, FALSE, FALSE)],
              named |-> { [term |-> "busy", name |-> Named(<<"u:x">>, FALSE, FALSE)],
                          [term |-> "i", name |-> Named(<<"$0">>, TRUE, FALSE)] } ]

Write(s, i) == 2 * i
Clear(s, i) == IF s.x = 0 THEN i ELSE 0

MCPlainPart == [ p \in {"top", "x", "mem", "i", "a.v", "u_x", "u:x"} |-> IF p = "u:x" THEN "u_x" ELSE p ]
MCDesigns == { Tally(TRUE, Write, Plainly), Tally(FALSE, Clear, Clashing) }

-----------------------------------------------------------------------------
ProgramInit ==
  /\ part \in Parts
  /\ IF part = "options" THEN OptionsInit ELSE OptionsStart(<<>>)
  /\ IF part = "pono" THEN PonoInit ELSE PonoStart(CHOOSE sc \in Scenarios : TRUE)
  /\ IF part = "unrolling" THEN UnrollersInit ELSE UnrollStart(Partly, 0)
  /\ IF part = "witness" THEN WitnessInit
     ELSE WitnessStart(Tally(TRUE, Write, Plainly), "ic3", CHOOSE s \in Solvers : TRUE)

ProgramNext ==
  /\ UNCHANGED part
  /\ \/ part = "options" /\ OptionsNext /\ UNCHANGED <<ponoVars, unrollVars, witnessVars>>
     \/ part = "pono" /\ PonoNext /\ UNCHANGED <<optionVars, unrollVars, witnessVars>>
     \/ part = "unrolling" /\ UnrollersNext /\ UNCHANGED <<optionVars, ponoVars, witnessVars>>
     \/ part = "witness" /\ WitnessNext /\ UNCHANGED <<optionVars, ponoVars, unrollVars>>

ProgramSpec == ProgramInit /\ [][ProgramNext]_<<part, optionVars, ponoVars, unrollVars, witnessVars>>
=============================================================================
