----------------------------- MODULE Btor2Encoder -----------------------------
(***************************************************************************)
(* The operators of BTOR2Encoder::parse (frontends/btor2_encoder.cpp): the *)
(* terms it builds for a line from those of the line's arguments.  BTOR2   *)
(* has only bit-vectors, the solver tells BOOL from bit-vectors of width   *)
(* 1, and the encoder converts between them where an operator needs it.    *)
(* An operand is a term with its sort, which is BOOL or a width; what the  *)
(* solver refuses to build is IllSorted.                                   *)
(*                                                                         *)
(* The BTOR2 encoder (frontends/btor2_encoder.cpp).  A file is a sequence  *)
(* of lines, whose ids are their positions: [tag, width, symbol, args,     *)
(* upper, lower], where args are ids, negative for a complement, symbol is *)
(* "" when the line has none, and upper and lower are its numbers.  One    *)
(* pass looks for names of states, another builds the system line by line. *)
(* The lines of sorts are the widths here; arrays are not modelled.        *)
(***************************************************************************)
EXTENDS Encoders

BOOL == 0
Operand(t, s) == [term |-> t, sort |-> s]
IllSorted == Operand(<<"ill-sorted">>, -1)
Constant(x, w) == Operand(Val(x), w)
Ones(w) == Constant(2^w - 1, w)

-----------------------------------------------------------------------------
(* What the solver builds, and of what sort.                               *)
AreWords(a, b) == a.sort > 0 /\ a.sort = b.sort

MakeBV(op, a, b) ==
  IF AreWords(a, b) THEN Operand(BV(op, a.sort, a.term, b.term), a.sort) ELSE IllSorted
MakeCompare(op, a, b) ==
  IF AreWords(a, b) THEN Operand(BV(op, a.sort, a.term, b.term), BOOL) ELSE IllSorted
MakeBVComp(a, b) == IF AreWords(a, b) THEN Operand(Equal(a.term, b.term), 1) ELSE IllSorted
MakeBVNot(a) == MakeBV("xor", a, Ones(a.sort))
MakeNot(a) == IF a.sort = BOOL THEN Operand(Not(a.term), BOOL) ELSE IllSorted
MakeEqual(a, b) ==
  IF a.sort = b.sort /\ a.sort >= 0 THEN Operand(Equal(a.term, b.term), BOOL) ELSE IllSorted
MakeDistinct(a, b) == MakeNot(MakeEqual(a, b))
MakeBool(op(_, _), a, b) ==
  IF a.sort = BOOL /\ b.sort = BOOL THEN Operand(op(a.term, b.term), BOOL) ELSE IllSorted
MakeExtract(hi, lo, a) ==
  IF a.sort > hi THEN Operand(Extract(hi, lo, a.term), hi - lo + 1) ELSE IllSorted
MakeConcat(a, b) ==
  IF a.sort > 0 /\ b.sort > 0
  THEN Operand(BV("concat", b.sort, a.term, b.term), a.sort + b.sort) ELSE IllSorted
MakeIte(c, a, b) ==
  IF c.sort = BOOL /\ a.sort = b.sort /\ a.sort > 0
  THEN Operand(Ite(c.term, a.term, b.term), a.sort) ELSE IllSorted
TopBit(a) == MakeExtract(a.sort - 1, a.sort - 1, a)
ZeroExtend(k, a) == IF k = 0 THEN a ELSE MakeConcat(Constant(0, k), a)

\* Seeded fault: the sign is not extended.
SignExtendZero(k, a) == ZeroExtend(k, a)

SignExtend(k, a) ==
  IF k = 0 THEN a
  ELSE MakeConcat(MakeIte(MakeEqual(TopBit(a), Constant(1, 1)), Ones(k), Constant(0, k)), a)

RotateLeft(k, a) ==
  LET by == k % a.sort
  IN  IF a.sort < 1 THEN IllSorted
      ELSE IF by = 0 THEN a
      ELSE MakeConcat(MakeExtract(a.sort - by - 1, 0, a),
                      MakeExtract(a.sort - 1, a.sort - by, a))
RotateRight(k, a) == RotateLeft(a.sort - (k % a.sort), a)

-----------------------------------------------------------------------------
(* The conversions.                                                        *)
BoolToBv(a) == IF a.sort = BOOL THEN MakeIte(a, Constant(1, 1), Constant(0, 1)) ELSE a
BvToBool(a) ==
  IF a.sort = BOOL THEN a ELSE IF a.sort # 1 THEN IllSorted ELSE MakeEqual(a, Constant(1, 1))

\* lazy_convert: of one or two arguments at most half are BOOL, so arguments
\* of different sorts become bit-vectors, whatever wide_bvs was left to be.
LazyConvert(args) ==
  IF Cardinality({ args[i].sort : i \in DOMAIN args }) > 1
  THEN [i \in DOMAIN args |-> BoolToBv(args[i])] ELSE args

\* An argument with a negative id.
Negated(a) == IF a.sort > 0 THEN MakeBVNot(a) ELSE MakeNot(a)

\* The arguments of eq, neq and implies.
OfOneSort(convert(_), args) ==
  IF args[1].sort # args[2].sort /\ BOOL \in {args[1].sort, args[2].sort}
  THEN <<convert(args[1]), convert(args[2])>> ELSE args

-----------------------------------------------------------------------------
(* The tables.                                                             *)
bvopmap ==
  [ add |-> "add", and |-> "and", mul |-> "mul", or |-> "or", sdiv |-> "sdiv", sll |-> "shl",
    smod |-> "smod", sra |-> "ashr", srem |-> "srem", srl |-> "lshr", sub |-> "sub",
    udiv |-> "udiv", urem |-> "urem", xor |-> "xor" ]
compareMap == [ slt |-> "slt", slte |-> "sle", ult |-> "ult", ulte |-> "ule" ]
swappedMap == [ sgt |-> "slt", sgte |-> "sle", ugt |-> "ult", ugte |-> "ule" ]
complementMap == [ nand |-> "and", nor |-> "or", xnor |-> "xor" ]

\* make_term of what bvopmap has for the tag
BvOp(tag, args) ==
  CASE tag \in DOMAIN bvopmap    -> MakeBV(bvopmap[tag], args[1], args[2])
    [] tag \in DOMAIN compareMap -> MakeCompare(compareMap[tag], args[1], args[2])
    [] tag \in DOMAIN swappedMap -> MakeCompare(swappedMap[tag], args[2], args[1])
    [] tag \in DOMAIN complementMap -> MakeBVNot(MakeBV(complementMap[tag], args[1], args[2]))
    [] tag = "concat" -> MakeConcat(args[1], args[2])
    [] tag = "iff"    -> MakeBVComp(args[1], args[2])
    [] tag = "neg"    -> MakeBV("sub", Constant(0, args[1].sort), args[1])
    [] tag = "not"    -> MakeBVNot(args[1])

\* make_term of what boolopmap has for the tag
boolopmap == {"and", "or", "xor", "not", "iff"}
BoolOp(tag, args) ==
  CASE tag = "and" -> MakeBool(And, args[1], args[2])
    [] tag = "or"  -> MakeBool(Or, args[1], args[2])
    [] tag = "xor" -> MakeBool(Xor, args[1], args[2])
    [] tag = "iff" -> MakeEqual(args[1], args[2])
    [] tag = "not" -> MakeNot(args[1])

\* The general case.
General(tag, args) ==
  LET converted == IF tag \in boolopmap THEN LazyConvert(args)
                   ELSE [i \in DOMAIN args |-> BoolToBv(args[i])]
  IN  IF tag \in boolopmap /\ converted[1].sort = BOOL
      THEN BoolOp(tag, converted) ELSE BvOp(tag, converted)

-----------------------------------------------------------------------------
(* The special cases.                                                      *)
Eq(args) ==
  LET a == OfOneSort(BoolToBv, args)
  IN  IF a[1].sort > 0 THEN MakeBVComp(a[1], a[2]) ELSE MakeEqual(a[1], a[2])

Neq(args) ==
  LET a == OfOneSort(BoolToBv, args)
  IN  IF a[1].sort > 0 THEN MakeBVNot(MakeBVComp(a[1], a[2])) ELSE MakeDistinct(a[1], a[2])

ImpliesOp(args) ==
  LET a == OfOneSort(BvToBool, args)
  IN  IF a[1].sort > 0 THEN MakeBV("or", MakeBVNot(a[1]), a[2]) ELSE MakeBool(Implies, a[1], a[2])

\* slice, sext, uext, rol and ror: the numbers are the line's own arguments.
Indexed(tag, arg, upper, lower) ==
  LET a == BoolToBv(arg)
  IN  CASE tag = "slice" -> MakeExtract(upper, lower, a)
        [] tag = "sext"  -> SignExtend(upper, a)
        [] tag = "uext"  -> ZeroExtend(upper, a)
        [] tag = "rol"   -> RotateLeft(upper, a)
        [] tag = "ror"   -> RotateRight(upper, a)

\* inc, dec, redand, redor and redxor
Unary(tag, arg) ==
  LET a == BoolToBv(arg)
      bit(i) == MakeExtract(i, i, a)
  IN  CASE tag = "inc"    -> MakeBV("add", a, Constant(1, a.sort))
        [] tag = "dec"    -> MakeBV("sub", a, Constant(1, a.sort))
        [] tag = "redand" -> MakeBVComp(a, Ones(a.sort))
        [] tag = "redor"  -> MakeDistinct(a, Constant(0, a.sort))
        [] tag = "redxor" -> FoldSet(LAMBDA i, res : MakeBV("xor", res, bit(i)),
                                     bit(a.sort - 1), 0..a.sort - 2)

IteOp(args) == MakeIte(BvToBool(args[1]), BoolToBv(args[2]), BoolToBv(args[3]))

\* The operators that say whether another overflows.
Overflow(tag, args) ==
  LET a == BoolToBv(args[1])
      b == BoolToBv(args[2])
      w == a.sort
      wide(op, k) == MakeBV(op, ZeroExtend(k, a), ZeroExtend(k, b))
      high == MakeExtract(2 * w - 1, w, wide("mul", w))
      low  == MakeExtract(w - 1, 0, wide("mul", w))
      sum  == MakeBV("add", a, b)
      diff == MakeBV("sub", a, b)
      plusOne == MakeBV("add", ZeroExtend(1, b), Constant(1, w + 1))
  IN  CASE tag = "uaddo" -> MakeExtract(w, w, wide("add", 1))
        [] tag = "saddo" -> MakeEqual(MakeEqual(TopBit(a), TopBit(b)),
                                      MakeDistinct(TopBit(a), TopBit(sum)))
        [] tag = "sdivo" -> MakeBool(And, MakeEqual(a, Constant(2^(w - 1), w)),
                                          MakeEqual(b, Ones(w)))
        [] tag = "umulo" -> MakeDistinct(high, Constant(0, w))
        [] tag = "smulo" -> MakeDistinct(high, MakeBV("ashr", low, Constant((w - 1) % 2^w, w)))
        [] tag = "usubo" ->
             MakeBVNot(MakeExtract(w, w, MakeBV("add", ZeroExtend(1, a), plusOne)))
        [] tag = "ssubo" -> MakeBool(And, MakeDistinct(TopBit(a), TopBit(b)),
                                          MakeEqual(TopBit(b), TopBit(diff)))

IndexedTags  == {"slice", "sext", "uext", "rol", "ror"}
UnaryTags    == {"inc", "dec", "redand", "redor", "redxor"}
OverflowTags == {"uaddo", "saddo", "sdivo", "umulo", "smulo", "usubo", "ssubo"}

\* The term of a line that is an operator.
MakeLine(tag, args, upper, lower) ==
  CASE tag = "eq"  -> Eq(args)
    [] tag = "neq" -> Neq(args)
    [] tag = "implies" -> ImpliesOp(args)
    [] tag = "ite" -> IteOp(args)
    [] tag \in IndexedTags  -> Indexed(tag, args[1], upper, lower)
    [] tag \in UnaryTags    -> Unary(tag, args[1])
    [] tag \in OverflowTags -> Overflow(tag, args)
    [] OTHER -> General(tag, args)

-----------------------------------------------------------------------------
CONSTANT BtorFiles

VARIABLES
  btorFile,   \* the file
  btorStep,   \* "preprocess", then the line that is read next, then "done"
  renaming,   \* state_renaming_table_
  nodes,      \* terms_
  btor,       \* the system, the properties and what the printers ask for
  fairness,   \* [justice |-> justicevec_, fair |-> fairvec_]
  refused     \* what the exception that ended the reading says, or "no"

btorVars == <<btorFile, btorStep, renaming, nodes, btor, fairness, refused>>

BtorStart(f) ==
  /\ btorFile = f
  /\ btorStep = 0
  /\ renaming = <<>>
  /\ nodes = <<>>
  /\ btor = NewEncoder(TRUE, <<>>)
  /\ fairness = [justice |-> <<>>, fair |-> <<>>]
  /\ refused = "no"

BtorInit == \E f \in BtorFiles : BtorStart(f)

\* Seeded fault: the last output that shows a state names it.
RenamingLast(file) ==
  LET shows(o, s) == file[o].tag = "output" /\ file[o].symbol # "" /\ file[o].args[1] = s
      unnamed == { s \in DOMAIN file : file[s].tag = "state" /\ file[s].symbol = "" }
  IN  [s \in { u \in unnamed : \E o \in DOMAIN file : shows(o, u) } |->
         file[Max({ o \in DOMAIN file : shows(o, s) })].symbol]

\* The state_renaming_table_ of a file: the outputs come after the states.
Renaming(file) ==
  LET shows(o, s) == file[o].tag = "output" /\ file[o].symbol # "" /\ file[o].args[1] = s
      unnamed == { s \in DOMAIN file : file[s].tag = "state" /\ file[s].symbol = "" }
  IN  [s \in { u \in unnamed : \E o \in DOMAIN file : shows(o, u) } |->
         file[Min({ o \in DOMAIN file : shows(o, s) })].symbol]

Preprocess2 ==
  /\ btorStep = 0
  /\ renaming' = Renaming(btorFile)
  /\ btorStep' = 1
  /\ UNCHANGED <<btorFile, nodes, btor, fairness, refused>>

-----------------------------------------------------------------------------
StateName(i) == "state" \o ToString(i)
InputName(i) == "input" \o ToString(i)

Reading(tags) == btorStep \in DOMAIN btorFile /\ btorFile[btorStep].tag \in tags
Line == btorFile[btorStep]

\* termargs
Argument(id) == IF id < 0 THEN Negated(nodes[-id]) ELSE nodes[id]
TermArgs == [i \in DOMAIN Line.args |-> Argument(Line.args[i])]

\* The line is read, unless something it called threw.
LineRead(node, encoder) ==
  LET ok == node.sort >= 0 /\ encoder.ts.failure = "none"
  IN  /\ refused' = IF ok THEN refused
                    ELSE IF node.sort < 0 THEN "ill-sorted" ELSE encoder.ts.failure
      /\ btorStep' = IF ok THEN btorStep + 1 ELSE Len(btorFile) + 1
      /\ nodes' = IF ok THEN Append(nodes, node) ELSE nodes
      /\ btor' = encoder
      /\ UNCHANGED <<btorFile, renaming>>

\* Reads a line that declares or assigns something in the system.
Declares(symbol, t) ==
  Btor2Line(btor, [tag |-> Line.tag, symbol |-> symbol, width |-> Line.width, term |-> t])

\* name_term of a name from the design, where a conflict is ignored.
NameFromDesign(ts, name, t) ==
  IF name \in DOMAIN ts.named \/ ts.failure # "none" THEN ts ELSE NameTerm(ts, name, t)

ReadState ==
  /\ Reading({"state"})
  /\ LET name  == StateName(btorStep)
         read  == Declares(name, True)
         shown == IF Line.symbol # "" THEN Line.symbol
                  ELSE IF btorStep \in DOMAIN renaming THEN renaming[btorStep] ELSE ""
     IN  LineRead(Operand(Var(name), Line.width),
                  IF shown = "" THEN read
                  ELSE [read EXCEPT !.ts = NameFromDesign(@, shown, Var(name))])
  /\ UNCHANGED fairness

ReadInput ==
  /\ Reading({"input"})
  /\ LineRead(Operand(Var(InputName(btorStep)), Line.width),
              Declares(InputName(btorStep), True))
  /\ UNCHANGED fairness

\* The name of the output, or another when that one is taken.
ReadOutput ==
  /\ Reading({"output"})
  /\ LET name  == "output" \o ToString(btorStep)
         taken == name \in DOMAIN btor.ts.named /\ btor.ts.named[name] # TermArgs[1].term
     IN  LineRead(TermArgs[1],
                  [btor EXCEPT !.ts = NameTerm(@, IF taken THEN "_out_" \o name ELSE name,
                                               TermArgs[1].term)])
  /\ UNCHANGED fairness

ReadConstraint ==
  /\ Reading({"constraint"})
  /\ LET c == BvToBool(TermArgs[1]) IN LineRead(c, Declares("", c.term))
  /\ UNCHANGED fairness

ReadInitial ==
  /\ Reading({"init"})
  /\ LET v == BoolToBv(TermArgs[2])
         same == v.sort = Line.width /\ TermArgs[1].sort = Line.width
     IN  LineRead(IF same THEN MakeEqual(TermArgs[1], v) ELSE IllSorted,
                  Declares(TermArgs[1].term[2], v.term))
  /\ UNCHANGED fairness

ReadNext ==
  /\ Reading({"next"})
  /\ LET v == IF TermArgs[1].sort = TermArgs[2].sort THEN TermArgs[2] ELSE BoolToBv(TermArgs[2])
     IN  LineRead(IF TermArgs[1].sort = v.sort THEN v ELSE IllSorted,
                  Declares(TermArgs[1].term[2], v.term))
  /\ UNCHANGED fairness

\* Seeded fault: inputs in a bad state property stay inputs.
ReadBadUnpromoted ==
  /\ Reading({"bad"})
  /\ LET bad == BvToBool(TermArgs[1])
     IN  LineRead(MakeNot(bad), [btor EXCEPT !.props = Append(@, Bad(bad.term))])
  /\ UNCHANGED fairness

ReadBad ==
  /\ Reading({"bad"})
  /\ LET bad == BvToBool(TermArgs[1]) IN LineRead(MakeNot(bad), Declares("", bad.term))
  /\ UNCHANGED fairness

\* justice leaves no term behind.
ReadLiveness ==
  /\ Reading({"justice", "fair"})
  /\ LineRead(TermArgs[1], btor)
  /\ fairness' =
       IF Line.tag = "fair" THEN [fairness EXCEPT !.fair = Append(@, TermArgs[1].term)]
       ELSE [fairness EXCEPT !.justice =
               Append(@, [i \in DOMAIN TermArgs |-> BvToBool(TermArgs[i]).term])]

ConstantTags == {"const", "one", "ones", "zero"}
ReadConstant ==
  /\ Reading(ConstantTags)
  /\ LineRead(CASE Line.tag = "const" -> Constant(Line.upper, Line.width)
                [] Line.tag = "one"   -> Constant(1, Line.width)
                [] Line.tag = "ones"  -> Ones(Line.width)
                [] Line.tag = "zero"  -> Constant(0, Line.width), btor)
  /\ UNCHANGED fairness

\* A rotation by a line is by its id, the line's second argument.
ReadOperator ==
  /\ btorStep \in DOMAIN btorFile
  /\ Line.tag \notin {"state", "input", "output", "constraint", "init", "next", "bad",
                      "justice", "fair"} \cup ConstantTags
  /\ LineRead(MakeLine(Line.tag, TermArgs,
                       IF Line.tag \in {"rol", "ror"} THEN Line.args[2] ELSE Line.upper,
                       Line.lower), btor)
  /\ UNCHANGED fairness

BtorNext ==
  \/ Preprocess2 \/ ReadState \/ ReadInput \/ ReadOutput \/ ReadConstraint \/ ReadInitial
  \/ ReadNext \/ ReadBad \/ ReadLiveness \/ ReadConstant \/ ReadOperator

BtorSpec == BtorInit /\ [][BtorNext]_btorVars

-----------------------------------------------------------------------------
(* What a BTOR2 file means: the number each line stands for, given those   *)
(* of the states and inputs; and what the encoder's system has to do with  *)
(* it.                                                                     *)

Truth(b) == IF b THEN 1 ELSE 0
Wide(tag) == tag \in {"and", "or", "xor", "nand", "nor", "xnor", "add", "sub", "mul", "udiv",
                      "urem", "sdiv", "srem", "smod", "sll", "srl", "sra"}
InRange(n, w) == -(2^(w - 1)) <= n /\ n < 2^(w - 1)

\* The width of what the operator makes of arguments of widths ws.
LineWidth(tag, ws, upper, lower) ==
  CASE Wide(tag) \/ tag \in {"not", "neg", "inc", "dec", "rol", "ror"} -> ws[1]
    [] tag = "concat" -> ws[1] + ws[2]
    [] tag = "ite"    -> ws[2]
    [] tag = "slice"  -> upper - lower + 1
    [] tag \in {"sext", "uext"} -> ws[1] + upper
    [] OTHER -> 1

\* The value of the operator for arguments xs of widths ws.
LineValue(tag, ws, xs, upper, lower) ==
  LET w == ws[1]
      x == xs[1]
      y == xs[2]
      sx == Signed(x, w)
      sy == Signed(y, w)
      bv(op) == BVValue(op, w, x, y)
      complement(n) == 2^w - 1 - n
      bits == { i \in 0..w - 1 : (x \div 2^i) % 2 = 1 }
      rotated(k) == ((x * 2^k) % 2^w) + x \div 2^(w - k)
  IN  CASE tag = "and"  -> bv("and")  [] tag = "nand" -> complement(bv("and"))
        [] tag = "or"   -> bv("or")   [] tag = "nor"  -> complement(bv("or"))
        [] tag = "xor"  -> bv("xor")  [] tag = "xnor" -> complement(bv("xor"))
        [] tag = "add"  -> (x + y) % 2^w
        [] tag = "sub"  -> (x - y) % 2^w
        [] tag = "mul"  -> (x * y) % 2^w
        [] tag \in {"udiv", "urem", "sdiv", "srem", "smod"} -> bv(tag)
        [] tag = "sll"  -> bv("shl")
        [] tag = "srl"  -> bv("lshr")
        [] tag = "sra"  -> bv("ashr")
        [] tag = "not"  -> complement(x)
        [] tag = "neg"  -> (-x) % 2^w
        [] tag = "inc"  -> (x + 1) % 2^w
        [] tag = "dec"  -> (x - 1) % 2^w
        [] tag = "rol"  -> rotated(y % w)
        [] tag = "ror"  -> rotated(w - (y % w))
        [] tag = "concat" -> x * 2^ws[2] + y
        [] tag = "slice"  -> (x \div 2^lower) % 2^(upper - lower + 1)
        [] tag = "uext"   -> x
        [] tag = "sext"   -> sx % 2^(w + upper)
        [] tag = "ite"    -> IF x = 1 THEN y ELSE xs[3]
        [] tag = "eq"   -> Truth(x = y)  [] tag = "neq"  -> Truth(x # y)
        [] tag = "iff"  -> Truth(x = y)  [] tag = "implies" -> Truth(x = 1 => y = 1)
        [] tag = "ult"  -> Truth(x < y)  [] tag = "ulte" -> Truth(x <= y)
        [] tag = "ugt"  -> Truth(x > y)  [] tag = "ugte" -> Truth(x >= y)
        [] tag = "slt"  -> Truth(sx < sy)  [] tag = "slte" -> Truth(sx <= sy)
        [] tag = "sgt"  -> Truth(sx > sy)  [] tag = "sgte" -> Truth(sx >= sy)
        [] tag = "redand" -> Truth(bits = 0..w - 1)
        [] tag = "redor"  -> Truth(bits # {})
        [] tag = "redxor" -> Cardinality(bits) % 2
        [] tag = "uaddo"  -> Truth(x + y >= 2^w)
        [] tag = "umulo"  -> Truth(x * y >= 2^w)
        [] tag = "usubo"  -> Truth(x < y)
        [] tag = "saddo"  -> Truth(~InRange(sx + sy, w))
        [] tag = "ssubo"  -> Truth(~InRange(sx - sy, w))
        [] tag = "smulo"  -> Truth(~InRange(sx * sy, w))
        [] tag = "sdivo"  -> Truth(sy # 0 /\ sx = -(2^(w - 1)) /\ sy = -1)

LineIds(tag) == { i \in DOMAIN btorFile : btorFile[i].tag = tag }
SameAsArgument == {"output", "constraint", "fair", "bad", "justice"}

\* The values of all lines, as <<width, value>>.  A line that makes no number
\* counts as its argument.
LineValues(env) ==
  LET value(done, l) ==
        LET i == Len(done) + 1
            arg(k) == LET of == done[IF l.args[k] < 0 THEN -l.args[k] ELSE l.args[k]]
                      IN  IF l.args[k] < 0 THEN <<of[1], 2^of[1] - 1 - of[2]>> ELSE of
            ws == [k \in DOMAIN l.args |-> arg(k)[1]]
            xs == [k \in 1..Max({2, Len(l.args)}) |-> IF k > Len(l.args) THEN 0 ELSE arg(k)[2]]
        IN  CASE l.tag = "state" -> <<l.width, env[StateName(i)]>>
              [] l.tag = "input" -> <<l.width, env[InputName(i)]>>
              [] l.tag = "const" -> <<l.width, l.upper>>
              [] l.tag = "one"   -> <<l.width, 1>>
              [] l.tag = "ones"  -> <<l.width, 2^l.width - 1>>
              [] l.tag = "zero"  -> <<l.width, 0>>
              [] l.tag \in SameAsArgument -> arg(1)
              [] l.tag \in {"init", "next"} -> arg(2)
              [] OTHER -> << LineWidth(l.tag, ws, l.upper, l.lower),
                             LineValue(l.tag, ws, xs, l.upper, l.lower) >>
  IN  FoldLeft(LAMBDA done, l : Append(done, value(done, l)), <<>>, btorFile)

Leaves == [ n \in { StateName(i) : i \in LineIds("state") }
                    \cup { InputName(i) : i \in LineIds("input") } |->
              (CHOOSE l \in Range([i \in LineIds("state") \cup LineIds("input") |->
                         [name |-> IF i \in LineIds("state") THEN StateName(i) ELSE InputName(i),
                          width |-> btorFile[i].width]]) : l.name = n).width ]
LeafValuations == Valuations(DOMAIN Leaves, Leaves)

Done == btorStep > Len(btorFile)
Read == Done /\ refused = "no"
MeaningTags(tags) == { i \in DOMAIN btorFile : btorFile[i].tag \in tags }

-----------------------------------------------------------------------------
\* The term of every line has the line's value, whatever the states and inputs
\* are, and its width.
LinesMean ==
  Read =>
    \A env \in LeafValuations : \E values \in {LineValues(env)} :
      \A i \in DOMAIN btorFile \ MeaningTags(SameAsArgument \cup {"init", "next"}) :
        /\ Eval(nodes[i].term, env) = values[i][2]
        /\ values[i][1] = IF nodes[i].sort = BOOL THEN 1 ELSE nodes[i].sort

\* The initial states, the constraints, the updates and the properties of the
\* system are those of the file; what the properties and the constraints are
\* about is a state of it.
SystemIsLines ==
  Read =>
    LET ts == btor.ts
        assigned(i) == StateName(btorFile[i].args[1])
        bads == SelectSeq([i \in DOMAIN btorFile |-> i], LAMBDA i : btorFile[i].tag = "bad")
    IN  /\ Len(btor.props) = Len(bads)
        /\ \A p \in Range(btor.props) : OnlyCurr(ts, p)
        /\ \A c \in Range(ts.constraints) : OnlyCurr(ts, c[1])
        /\ DOMAIN ts.updates = { assigned(i) : i \in LineIds("next") }
        /\ \A env \in LeafValuations : \E values \in {LineValues(env)} :
             LET legal == \A i \in LineIds("constraint") : values[i][2] = 1
             IN  /\ HoldAll({ c[1] : c \in Range(ts.constraints) }, env) = legal
                 /\ HoldAll(ts.init, env) =
                      (legal /\ \A i \in LineIds("init") : env[assigned(i)] = values[i][2])
                 /\ \A i \in LineIds("next") :
                      Eval(ts.updates[assigned(i)], env) = values[i][2]
                 /\ \A k \in DOMAIN bads :
                      Holds(btor.props[k], env) = (values[bads[k]][2] = 0)

\* A name of the design that predicates may use is the name of one state: the
\* first that has it as its symbol or, when it has none, on its first output;
\* unless it is a name the encoder gives to something before.
NamesAreDesigns ==
  Done =>
    \A s \in LineIds("state") \cap DOMAIN nodes :
      LET outputs(t) == { o \in LineIds("output") :
                            btorFile[o].args[1] = t /\ btorFile[o].symbol # "" }
          first(t) == CHOOSE o \in outputs(t) : \A p \in outputs(t) : o <= p
          shown(t) == IF btorFile[t].symbol # "" THEN btorFile[t].symbol
                      ELSE IF outputs(t) = {} THEN "" ELSE btorFile[first(t)].symbol
      IN  shown(s) # "" =>
            /\ shown(s) \in DOMAIN btor.ts.named
            /\ \/ \E t \in LineIds("state") :
                    /\ t <= s /\ shown(t) = shown(s)
                    /\ \A u \in LineIds("state") : u < t => shown(u) # shown(s)
                    /\ btor.ts.named[shown(s)] = Var(StateName(t))
               \/ btor.ts.named[shown(s)] = Var(shown(s))
=============================================================================
