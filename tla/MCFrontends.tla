---------------------------- MODULE MCFrontends ----------------------------
(* The front ends: the SMV encoder over small files, and the BTOR2 encoder    *)
(* over files with every pair of operators, one applied to what the other     *)
(* makes, and over files that build whole systems.  A behaviour is one front  *)
(* end's; the other waits before its file.                                    *)
EXTENDS SmvEncoder, Btor2Encoder

CONSTANT Parts
VARIABLE part

None == [op |-> "none"]
Item(tag, id, tree) == [ tag |-> tag, id |-> id, type |-> "", width |-> 0, mod |-> "",
                         args |-> <<>>, tree |-> tree ]
Var2(tag, id, type, w) == [Item(tag, id, None) EXCEPT !.type = type, !.width = w]
Bool(id)     == Var2("VAR", id, "Boolean", 0)
Word(id)     == Var2("VAR", id, "Unsigned", 2)
Instance(id, mod, args) == [Item("VAR", id, None) EXCEPT !.mod = mod, !.args = args]
Module(params, its) == [params |-> params, items |-> its]
Main(its)    == WrittenFile("main" :> Module(<<>>, its))

nm(id)        == NameTree(id)
o(op, e, f)  == Tree(op, <<e, f>>)
no(e)        == Tree("!", <<e>>)
par(e)       == Tree("()", <<e>>)
nxt(e)       == Tree("next", <<e>>)
wd(k)         == ConstTree("Unsigned", 2, k)
Spec2(e)     == Item("INVARSPEC", "", e)
true         == ConstTree("Boolean", 0, 1)

Specs(trees) == [i \in DOMAIN trees |-> Spec2(trees[i])]

\* Every pair of operators on booleans, nested on either side.
BoolOps == <<"&", "|", "xor", "->", "<->", "=", "!=">>
Nested(p) ==
  LET qs == BoolOps
      k == Len(qs)
  IN  [i \in 1..3 * k |->
         LET q == qs[((i - 1) % k) + 1]
         IN  CASE i <= k      -> o(p, o(q, nm("a"), nm("b")), nm("c"))
               [] i \in k + 1..2 * k -> o(p, nm("a"), o(q, nm("b"), nm("c")))
               [] i > 2 * k   -> o(p, no(o(q, nm("a"), nm("b"))), no(nm("c")))]
BoolFiles == { Main(<<Bool("a"), Bool("b"), Bool("c")>> \o Specs(Nested(p))) : p \in Range(BoolOps) }

\* Every pair of operators on words, and what makes a boolean or another width of them.
WordPairs == <<"+", "-", "*", "&", "|", ">>", "<<", "/", "mod">>
WordNested(p) ==
  LET qs == WordPairs
      k == Len(qs)
      e(i) == LET q == qs[((i - 1) % k) + 1]
              IN  IF i <= k THEN o(p, o(q, nm("u"), nm("v")), wd(3)) ELSE o(p, nm("u"), o(q, wd(3), nm("v")))
  IN  [i \in 1..2 * k |-> o("=", e(i), nm("v"))]
Others ==
  << o("&", o("<", o("+", nm("u"), wd(1)), nm("v")), o(">=", nm("u"), wd(2))),
     o("->", o("<=", nm("u"), nm("v")), o(">", Tree("neg", <<o("+", nm("u"), nm("v"))>>), wd(1))),
     o("=", SelectTree(2, 1, o("::", nm("u"), nm("v"))), no(nm("v"))),
     o("!=", o("::", SelectTree(0, 0, nm("u")), SelectTree(1, 1, nm("v"))), o("xor", nm("u"), wd(2))),
     o("=", Tree("?:", <<o("<", nm("u"), nm("v")), o("-", nm("u"), wd(1)),
                         par(o("+", nm("v"), wd(1)))>>), nm("u")),
     o("=", Tree("neg", <<nm("u")>>), o("-", wd(0), nm("u"))) >>
WordFiles == { Main(<<Word("u"), Word("v")>> \o Specs(t)) :
                 t \in { WordNested(p) : p \in Range(WordPairs) } \cup {Others} }

-----------------------------------------------------------------------------
\* Two instances of a module in main, one of which reads the other, and a
\* module between main and a third.
Cell(extra) == Module(<<"p", "q">>,
  << Bool("x"), Item("DEFINE", "d", o("xor", nm("p"), nm("x"))),
     Item("ASSIGN init", "x", nm("q")), Item("ASSIGN next", "x", o("&", nm("d"), nm("q"))) >> \o extra)

Between == Module(<<"p">>,
  << Instance("i", "cell", <<nm("p"), nm("t")>>), Var2("IVAR", "e", "Boolean", 0), Bool("t"),
     Item("TRANS", "", o("->", nm("e"), nxt(nm("i.x")))), Spec2(o("->", nm("i.x"), nm("p"))) >>)

TwoCells(first, second, extra) == WrittenFile(
  "main" :> Module(<<>>,
    << Bool("x"), Var2("FROZENVAR", "f", "Boolean", 0), Instance("a", "cell", <<first, nm("f")>>),
       Instance("b", "cell", <<nm("a.x"), second>>), Spec2(o("&", nm("a.x"), nm("b.x"))),
       Spec2(o("->", nm("x"), nm("b.x"))), Item("INIT", "", o("|", nm("x"), nm("f"))) >>)
  @@ "cell" :> Cell(extra))

Nests(arg) == WrittenFile(
  "main" :> Module(<<>>, << Bool("x"), Instance("m", "between", <<arg>>),
                            Item("ASSIGN next", "x", nm("m.i.x")), Spec2(no(nm("m.i.x"))) >>)
  @@ "between" :> Between
  @@ "cell" :> Cell(<<Spec2(o("->", nm("x"), nm("p")))>>))

Simple == { nm("x"), par(o("|", nm("x"), nm("f"))), no(nm("x")), par(o("->", nm("f"), nm("x"))) }
ModuleFiles ==
  { TwoCells(g, h, ex) : g \in Simple, h \in Simple,
      ex \in { <<>>, <<Spec2(nm("d"))>>, <<Item("INVAR", "", o("->", nm("x"), nm("q")))>> } }
  \cup { WrittenFile("main" :> Module(<<>>, << Bool("x"), Instance("a", "cell", <<nm("x"), g>>),
                                               Spec2(o("->", nm("a.d"), nm("a.x"))) >>)
                       @@ "cell" :> Cell(<<>>)) : g \in {nm("x"), no(nm("x"))} }
  \cup { Nests(g) : g \in { nm("x"), no(nm("x")), par(o("xor", nm("x"), nm("m.i.x"))) } }

\* Cases that cover and cases that do not, several in a file.
Case(branches) == Tree("case", FlattenSeq(branches))
c1 == Case(<< <<nm("a"), nm("b")>>, <<no(nm("a")), nm("c")>> >>)
c2 == Case(<< <<nm("a"), no(nm("b"))>>, <<nm("b"), nm("c")>> >>)
c3 == Case(<< <<o("&", nm("a"), nm("b")), nm("c")>>, <<nm("c"), nm("a")>>, <<true, nm("b")>> >>)
c4 == Case(<< <<nm("b"), Case(<< <<nm("a"), nm("c")>>, <<no(nm("a")), nm("b")>> >>)>>, <<true, nm("a")>> >>)
ThreeBools(its) == Main(<<Bool("a"), Bool("b"), Bool("c")>> \o its)
CaseFiles ==
  { ThreeBools(<<Item("ASSIGN next", "a", d), Item("DEFINE", "z", e), Spec2(o("<->", nm("z"), f))>>) :
      d \in {c1, c2, c3, c4}, e \in {c1, c2, c3, c4}, f \in {nm("a"), no(c1), par(c2)} }

Wrong ==
  { WrittenFile("top" :> Module(<<>>, <<Bool("a")>>)),
    WrittenFile("main" :> Module(<<>>, <<Bool("x"), Instance("m", "between", <<>>)>>)
                @@ "between" :> Between @@ "cell" :> Cell(<<>>)),
    WrittenFile("main" :> Module(<<>>, <<Bool("x"), Instance("a", "cell", <<nm("x"), nm("x")>>)>>)
                @@ "cell" :> Cell(<<Item("DEFINE", "q", nm("p"))>>)),
    WrittenFile("main" :> Module(<<>>, << Instance("a", "cell", <<true, true>>), Spec2(nm("a.x")) >>)
                @@ "cell" :> Cell(<<>>)),
    ThreeBools(<<Item("DEFINE", "y", nm("z")), Item("DEFINE", "z", nm("a")), Spec2(nm("y"))>>),
    ThreeBools(<<Item("DEFINE", "z", nm("a")), Item("DEFINE", "y", nm("z")), Spec2(nm("y"))>>),
    WrittenFile("main" :> Module(<<>>, << Bool("x"), Instance("a", "cell", <<nm("x"), nm("x")>>),
                                          Item("DEFINE", "y", nm("a.d")), Spec2(nm("y")) >>)
                @@ "cell" :> Cell(<<>>)) }

MCSmvFiles == BoolFiles \cup WordFiles \cup ModuleFiles \cup CaseFiles \cup Wrong

-----------------------------------------------------------------------------
(* BTOR2 files.                                                            *)

Entry(tag, args) == [ tag |-> tag, width |-> 0, symbol |-> "", args |-> args,
                      upper |-> 0, lower |-> 0 ]
Leaf(tag, w)   == [Entry(tag, <<>>) EXCEPT !.width = w]
Named(l, name) == [l EXCEPT !.symbol = name]
Numbered(tag, id, u, l) == [Entry(tag, <<id>>) EXCEPT !.upper = u, !.lower = l]
Set(tag, s, id, w) == [Entry(tag, <<s, id>>) EXCEPT !.width = w]

\* 1 has width 1, 2 and 3 have width 2.
Head3 == << Leaf("state", 1), Leaf("state", 2), Leaf("input", 2) >>

OneBit  == {"implies", "iff"}
Unaries == {"not", "neg", "inc", "dec", "redand", "redor", "redxor"}
TwoArgs == {"and", "or", "xor", "nand", "nor", "xnor", "add", "sub", "mul", "udiv", "urem",
            "sdiv", "srem", "smod", "sll", "srl", "sra", "eq", "neq", "ult", "ulte", "ugt",
            "ugte", "slt", "slte", "sgt", "sgte", "uaddo", "umulo", "sdivo", "ssubo"}
Operators == OneBit \cup Unaries \cup TwoArgs \cup {"concat", "ite", "slice", "sext", "uext"}

\* The lines that apply tag to the id and others of the leaves.
Over(tag, id, w) ==
  LET same == IF w = 1 THEN {1} ELSE IF w = 2 THEN {2, 3} ELSE {}
  IN  CASE tag \in Unaries -> <<Entry(tag, <<id>>)>>
        [] tag \in {"sext", "uext"} -> <<Numbered(tag, id, 1, 0)>>
        [] tag = "slice"  -> <<Numbered(tag, id, w - 1, w - 1), Numbered(tag, id, w - 1, 0)>>
        [] tag = "concat" -> <<Entry(tag, <<id, 2>>), Entry(tag, <<1, id>>)>>
        [] tag = "ite"    ->
             (IF w = 1 THEN <<Entry(tag, <<id, 2, 3>>), Entry(tag, <<1, id, -1>>)>> ELSE <<>>)
               \o (IF w = 2 THEN <<Entry(tag, <<-1, id, 3>>)>> ELSE <<>>)
        [] tag \in OneBit /\ w # 1 -> <<>>
        [] OTHER -> SetToSeq({ Entry(tag, <<id, x>>) : x \in same }
                             \cup { Entry(tag, <<x, id>>) : x \in same } \cup {Entry(tag, <<id, -id>>)})

WidthOf(file, l) ==
  LET width[i \in 0..Len(file)] ==
        IF i = 0 THEN 0
        ELSE IF file[i].args = <<>> THEN file[i].width
        ELSE LineWidth(file[i].tag, [k \in DOMAIN file[i].args |->
                                       width[IF file[i].args[k] < 0 THEN -file[i].args[k]
                                             ELSE file[i].args[k]]],
                       file[i].upper, file[i].lower)
  IN  width[l]

\* The first operator on the leaves, the second on the last two lines of those.
PairFile(p, q) ==
  LET first == Head3 \o Over(p, 1, 1) \o Over(p, -2, 2)
      n == Len(first)
      onto(i) == IF i > 3 THEN Over(q, i, WidthOf(first, i)) \o Over(q, -i, WidthOf(first, i))
                 ELSE <<>>
  IN  first \o onto(4) \o onto(n)

Pairs == { PairFile(p, q) : p \in Operators, q \in Operators }

-----------------------------------------------------------------------------
\* Constants, outputs, constraints, initial values and updates by Boolean terms.
Whole(cmp, names, c, outs) ==
  << Named(Leaf("state", 1), names[1]), Named(Leaf("state", 1), names[2]),
     Leaf("input", 2), Leaf("one", 2), [Leaf("const", 2) EXCEPT !.upper = 2], Leaf("zero", 1),
     Leaf("ones", 2), Entry(cmp, <<3, 4>>), Entry("redor", <<5>>), Entry("redand", <<7>>),
     Set("init", 1, 6, 1), Set("init", 2, 9, 1), Set("next", 1, 8, 1), Set("next", 2, -10, 1),
     Entry("or", <<8, 1>>), Entry("and", <<-8, 2>>), Entry("constraint", <<c>>) >>
  \o outs
  \o << Entry("bad", <<16>>), Entry("bad", <<-15>>), Entry("fair", <<1>>),
        Entry("justice", <<1, 8>>) >>

Outs == { <<>>,
          <<Named(Entry("output", <<1>>), "p"), Named(Entry("output", <<1>>), "q")>>,
          <<Named(Entry("output", <<2>>), "p"), Named(Entry("output", <<1>>), "p"),
            Entry("output", <<15>>)>>,
          <<Named(Entry("output", <<2>>), "state1")>> }
NamesSeen == { <<"", "">>, <<"p", "">>, <<"p", "p">>, <<"state2", "">>, <<"input3", "q">>,
               <<"output18", "state1.next">>, <<"state2.next", "">> }
Wholes == { Whole(cmp, names, c, outs) : cmp \in {"ugt", "eq", "neq"}, names \in NamesSeen,
              c \in {10, 15, -16}, outs \in Outs }

MCBtorFiles == Pairs \cup Wholes

-----------------------------------------------------------------------------
FrontendsInit ==
  /\ part \in Parts
  /\ IF part = "smv" THEN SmvInit ELSE SmvStart(Main(<<>>))
  /\ IF part = "btor2" THEN BtorInit ELSE BtorStart(<<>>)

FrontendsNext ==
  /\ UNCHANGED part
  /\ \/ part = "smv" /\ SmvNext /\ UNCHANGED btorVars
     \/ part = "btor2" /\ BtorNext /\ UNCHANGED smvVars

FrontendsSpec == FrontendsInit /\ [][FrontendsNext]_<<part, smvVars, btorVars>>
=============================================================================
