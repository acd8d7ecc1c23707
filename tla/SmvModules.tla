------------------------------ MODULE SmvModules ------------------------------
(***************************************************************************)
(* The expressions of the SMV reader (frontends/smvparser.y): a text is a  *)
(* sequence of tokens, read by the tables bison makes of the grammar and   *)
(* its precedences, and every reduction builds a typed term.  Integers,    *)
(* reals, arrays and functions are left out.                               *)
(*                                                                         *)
(* How the SMV reader makes one module of the modules of a file            *)
(* (frontends/smv_node.h, smv_node.cpp): every instance's sections are     *)
(* written out as text, names with the prefix of the instance, parameters  *)
(* as the text of their argument.                                          *)
(* A module is [params, items]; an item has the tag of its section, the    *)
(* name id it declares or assigns, its type and width, the module and the  *)
(* arguments of an instance, and a text.                                   *)
(***************************************************************************)
EXTENDS Encoders

\* Tokens: punctuation, names, constants of a type and a width, bit selections.
Tok(s)                  == [t |-> "punct", s |-> s]
NameTok(n)              == [t |-> "name", s |-> n]
ConstTok(type, w, n)    == [t |-> "const", s |-> "", type |-> type, width |-> w, value |-> n]
SelectTok(hi, lo)       == [t |-> "select", s |-> "[", hi |-> hi, lo |-> lo]

\* The precedences, from the loosest.
Precedences ==
  << {"->"}, {"<->"}, {"?"}, {"|", "xor", "xnor"}, {"&"}, {"=", "!=", "<", ">", "<=", ">="},
     {"in"}, {"union"}, {">>", "<<"}, {"+", "-"}, {"*", "/", "mod"}, {"UMINUS"}, {"::"}, {"!"},
     {"[", ":", "]"} >>

Level(s) == IF \E i \in DOMAIN Precedences : s \in Precedences[i]
            THEN CHOOSE i \in DOMAIN Precedences : s \in Precedences[i] ELSE 0
RightAssociative == {"->"}

BooleanOps  == {"!", "&", "|", "xor", "xnor"}
Connectives == {"->", "<->"}
Equalities  == {"=", "!="}
Comparisons == {"<", ">", "<=", ">="}
Arithmetic  == {"+", "-", "*"}
Divisions   == {"/", "mod"}
Shifts      == {">>", "<<"}
BinaryOps   == (BooleanOps \ {"!"}) \cup Connectives \cup Equalities \cup Comparisons
               \cup Arithmetic \cup Divisions \cup Shifts \cup {"::"}

-----------------------------------------------------------------------------
(* SMVnode: a term and its SMV type.  An exception of the reader or of the *)
(* solver makes the node bad.                                              *)

Node(term, type, width) == [t |-> "expr", s |-> "", term |-> term, type |-> type, width |-> width]
BadNode                 == Node(True, "bad", 0)
Check(ok, node)         == IF ok THEN node ELSE BadNode

SameSort(a, b)    == a.width = b.width
IsWord(a)         == a.width > 0
Logical(a)        == a.type \in {"Unsigned", "Signed", "Boolean"}

NotExpr(a) ==
  Check(Logical(a),
        IF IsWord(a) THEN [a EXCEPT !.term = BV("sub", a.width, Val(2^a.width - 1), a.term)]
        ELSE [a EXCEPT !.term = Not(a.term)])

BooleanExpr(op, a, b) ==
  LET word == CASE op = "&" -> BV("and", a.width, a.term, b.term)
                [] op = "|" -> BV("or", a.width, a.term, b.term)
                [] op = "xor"  -> BV("xor", a.width, a.term, b.term)
                [] op = "xnor" -> BV("sub", a.width, Val(2^a.width - 1),
                                     BV("xor", a.width, a.term, b.term))
      bool == CASE op = "&" -> And(a.term, b.term)
                [] op = "|" -> Or(a.term, b.term)
                [] op = "xor"  -> Xor(a.term, b.term)
                [] op = "xnor" -> Not(Xor(a.term, b.term))
  IN  Check(Logical(a) /\ Logical(b) /\ a.type = b.type /\ SameSort(a, b),
            [a EXCEPT !.term = IF IsWord(a) THEN word ELSE bool])

ConnectiveExpr(op, a, b) ==
  Check(/\ Logical(a) /\ Logical(b) /\ a.type = b.type /\ SameSort(a, b)
        /\ op = "->" => ~IsWord(a),
        Node(IF op = "->" THEN Implies(a.term, b.term) ELSE Equal(a.term, b.term), a.type, 0))

EqualityExpr(op, a, b) ==
  Check(a.type = b.type /\ SameSort(a, b),
        Node(IF op = "=" THEN Equal(a.term, b.term) ELSE Not(Equal(a.term, b.term)),
             "Boolean", 0))

\* bvs_a == bvs_b == Unsigned compares the outcome of the first == with
\* Unsigned, which is 1, and Signed is 0: equal types are taken for unsigned,
\* different ones for signed, and the mismatch is never reported.
TakenForUnsigned(a, b) == a.type = b.type

ComparisonExpr(op, a, b) ==
  LET less == IF TakenForUnsigned(a, b) THEN "ult" ELSE "slt"
      leq  == IF TakenForUnsigned(a, b) THEN "ule" ELSE "sle"
      term == CASE op = "<"  -> BV(less, a.width, a.term, b.term)
                [] op = ">"  -> BV(less, a.width, b.term, a.term)
                [] op = "<=" -> BV(leq, a.width, a.term, b.term)
                [] op = ">=" -> BV(leq, a.width, b.term, a.term)
  IN  Check(IsWord(a) /\ SameSort(a, b), Node(term, "Boolean", 0))

UminusExpr(a) == Check(IsWord(a), [a EXCEPT !.term = BV("sub", a.width, Val(0), a.term)])

\* The Release build: a Debug build stops at - and *, and at a signed /, where the
\* result is asserted before it is made (smvparser.y:1045, 1070, 1096).
ArithmeticExpr(op, a, b) ==
  LET name == CASE op = "+" -> "add" [] op = "-" -> "sub" [] op = "*" -> "mul"
  IN  Check(IsWord(a) /\ SameSort(a, b) /\ a.type = b.type,
            [a EXCEPT !.term = BV(name, a.width, a.term, b.term)])

DivisionExpr(op, a, b) ==
  LET name == CASE op = "/" /\ TakenForUnsigned(a, b)    -> "udiv"
                [] op = "/" /\ ~TakenForUnsigned(a, b)   -> "sdiv"
                [] op = "mod" /\ TakenForUnsigned(a, b)  -> "urem"
                [] op = "mod" /\ ~TakenForUnsigned(a, b) -> "smod"
  IN  Check(IsWord(a) /\ SameSort(a, b),
            Node(BV(name, a.width, a.term, b.term),
                 IF TakenForUnsigned(a, b) THEN "Unsigned" ELSE "Signed", a.width))

ShiftExpr(op, a, b) ==
  Check(IsWord(a) /\ SameSort(a, b) /\ b.type = "Unsigned",
        [a EXCEPT !.term = BV(IF op = ">>" THEN "lshr" ELSE "shl", a.width, a.term, b.term)])

ConExpr(a, b) ==
  Check(a.type = b.type /\ IsWord(a) /\ IsWord(b),
        Node(BV("concat", b.width, a.term, b.term), "Unsigned", a.width + b.width))

BinaryExpr(op, a, b) ==
  CASE op \in BooleanOps  -> BooleanExpr(op, a, b)
    [] op \in Connectives -> ConnectiveExpr(op, a, b)
    [] op \in Equalities  -> EqualityExpr(op, a, b)
    [] op \in Comparisons -> ComparisonExpr(op, a, b)
    [] op \in Arithmetic  -> ArithmeticExpr(op, a, b)
    [] op \in Divisions   -> DivisionExpr(op, a, b)
    [] op \in Shifts      -> ShiftExpr(op, a, b)
    [] op = "::"          -> ConExpr(a, b)

SelExpr(a, tok) ==
  Check(a.type \in {"Unsigned", "Signed"} /\ tok.hi < a.width /\ tok.lo <= tok.hi,
        Node(Extract(tok.hi, tok.lo, a.term), "Unsigned", tok.hi - tok.lo + 1))

IteExpr(c, a, b) ==
  Check(~IsWord(c) /\ SameSort(a, b), [a EXCEPT !.term = Ite(c.term, a.term, b.term)])

\* signed ( ) and unsigned ( ) leave their argument as it is.
CallExpr(ts, f, a) ==
  IF f = "next" THEN [a EXCEPT !.term = NextTerm(ts, a.term)] ELSE a

\* A constant, or an identifier of terms_ with its type.
OperandExpr(terms, tok) ==
  IF tok.t = "const" THEN Node(Val(tok.value), tok.type, tok.width)
  ELSE IF tok.s \notin DOMAIN terms THEN BadNode
  ELSE LET a == terms[tok.s]
       IN  [a EXCEPT !.type = IF a.type \in {"Unsigned", "Signed"} THEN a.type ELSE "Boolean"]

-----------------------------------------------------------------------------
(* case_body and case_expr: the branches are collected in caseterm_, one   *)
(* list for all the cases, and the disjunction of the conditions goes to   *)
(* casecheck_.                                                             *)

\* The stack ends with a branch  condition : value ;  of a case.
CaseBranch(p) ==
  LET n      == Len(p.stack)
      branch == <<p.stack[n - 2], p.stack[n]>>
      first  == p.stack[n - 3].s = "case"
      below  == SubSeq(p.stack, 1, n - 3)
  IN  [p EXCEPT !.stack = IF first THEN Append(below, Tok("body")) ELSE below,
                !.caseterm = IF first THEN <<branch>> ELSE Append(@, branch)]

\* cond
CaseCondition(front, last) ==
  FoldRight(LAMBDA br, rest : Or(rest, br[1].term), front, last[1].term)

\* The stack ends with case and its body.  A single branch has no type.
CaseExpr(p) ==
  LET last  == Last(p.caseterm)
      front == Front(p.caseterm)
      value == FoldRight(LAMBDA br, rest : Ite(br[1].term, br[2].term, rest), front, last[2].term)
      cond  == CaseCondition(front, last)
      sorts == \A i \in DOMAIN front : ~IsWord(p.caseterm[i][1]) /\ SameSort(front[i][2], last[2])
      type  == IF front = <<>> THEN "Default" ELSE front[1][2].type
      below == SubSeq(p.stack, 1, Len(p.stack) - 2)
  IN  [p EXCEPT !.stack = Append(below, Check(sorts /\ ~IsWord(last[1]),
                                              Node(value, type, last[2].width))),
                !.caseterm = <<>>,
                !.casecheck = Append(@, cond)]

-----------------------------------------------------------------------------
(* The parser: what is on its stack is reduced while the rule at the top   *)
(* binds tighter than the next token.                                      *)

IsExpr(stack, i) == i >= 1 /\ i <= Len(stack) /\ stack[i].t = "expr"
IsTok(stack, i, s) == i >= 1 /\ i <= Len(stack) /\ stack[i].t = "punct" /\ stack[i].s = s

\* The rule whose right side ends the stack, by its operator; a rule has the
\* precedence of its last terminal, which is ":" for a conditional.
RuleOf(stack) ==
  LET n == Len(stack)
  IN  CASE ~IsExpr(stack, n) -> "none"
        [] /\ IsExpr(stack, n) /\ IsTok(stack, n - 1, ":") /\ IsExpr(stack, n - 2)
           /\ IsTok(stack, n - 3, "?") -> "?:"
        [] IsExpr(stack, n) /\ IsTok(stack, n - 1, "!") -> "!"
        [] IsExpr(stack, n) /\ IsTok(stack, n - 1, "-") /\ ~IsExpr(stack, n - 2) -> "UMINUS"
        [] IsExpr(stack, n) /\ IsExpr(stack, n - 2) /\ stack[n - 1].s \in BinaryOps
             -> stack[n - 1].s
        [] OTHER -> "none"

RuleLevel(rule) == Level(IF rule = "?:" THEN ":" ELSE rule)

MustReduce(rule, next) ==
  LET ahead == IF next.s \in {":", "]"} THEN 0 ELSE Level(next.s)
  IN  /\ rule # "none"
      /\ RuleLevel(rule) > ahead \/ (RuleLevel(rule) = ahead /\ rule \notin RightAssociative)

ReduceRule(p, rule) ==
  LET n == Len(p.stack)
      e(i) == p.stack[i]
      with(k, node) == [p EXCEPT !.stack = Append(SubSeq(p.stack, 1, n - k), node),
                                 !.ok = @ /\ node.type # "bad"]
  IN  CASE rule = "?:"     -> with(5, IteExpr(e(n - 4), e(n - 2), e(n)))
        [] rule = "!"      -> with(2, NotExpr(e(n)))
        [] rule = "UMINUS" -> with(2, UminusExpr(e(n)))
        [] OTHER           -> with(3, BinaryExpr(rule, e(n - 2), e(n)))

RECURSIVE ReduceFor(_, _)
ReduceFor(p, next) ==
  LET rule == RuleOf(p.stack)
  IN  IF MustReduce(rule, next) THEN ReduceFor(ReduceRule(p, rule), next) ELSE p

\* A token is shifted; one that ends a right side has it reduced.
Shift(ts, terms, p, tok) ==
  LET n == Len(p.stack)
      call == n > 2 /\ p.stack[n - 2].s \in {"next", "signed", "unsigned"}
      closed == IF call THEN Append(SubSeq(p.stack, 1, n - 3),
                                    CallExpr(ts, p.stack[n - 2].s, p.stack[n]))
                ELSE Append(SubSeq(p.stack, 1, n - 2), p.stack[n])
  IN  CASE tok.t \in {"name", "const"} ->
             [p EXCEPT !.stack = Append(@, OperandExpr(terms, tok))]
        [] tok.t = "select" -> [p EXCEPT !.stack[n] = SelExpr(@, tok)]
        [] tok.s = ")"      -> [p EXCEPT !.stack = closed]
        [] tok.s = ";"      -> CaseBranch(p)
        [] tok.s = "esac"   -> CaseExpr(p)
        [] OTHER            -> [p EXCEPT !.stack = Append(@, tok)]

\* The node of a text, the conditions of its cases, and whether nothing threw.
ParseExpr(ts, terms, text) ==
  LET read(p, tok) ==
        LET q == Shift(ts, terms, ReduceFor(p, tok), tok)
        IN  [q EXCEPT !.ok = @ /\ (Last(q.stack).t = "expr" => Last(q.stack).type # "bad")]
      start == [stack |-> <<>>, caseterm |-> <<>>, casecheck |-> <<>>, ok |-> TRUE]
      p == ReduceFor(FoldLeft(read, start, text), Tok("end"))
  IN  [node |-> p.stack[1], casecheck |-> p.casecheck, ok |-> p.ok]

-----------------------------------------------------------------------------
NamedTags == {"VAR", "IVAR", "FROZENVAR", "DEFINE", "ASSIGN", "ASSIGN init", "ASSIGN next"}
AssignTags == {"ASSIGN", "ASSIGN init", "ASSIGN next"}

\* The sections of a module, in the order they are written out.
Sections == << {"VAR"}, {"IVAR"}, {"FROZENVAR"}, {"DEFINE"}, AssignTags,
               {"INIT"}, {"TRANS"}, {"INVAR"}, {"INVARSPEC"} >>

SectionOf(module, tags) == SelectSeq(module.items, LAMBDA item : item.tag \in tags)

IsInstance(item) == item.mod # ""

\* The syntax tree of a text: xnor gets the node of xor.
TextNode(text) == [i \in DOMAIN text |-> IF text[i].s = "xnor" THEN Tok("xor") ELSE text[i]]

\* module_node: the items of a module as the first reading keeps them.
ModuleNode(module) ==
  [params |-> module.params,
   items  |-> [i \in DOMAIN module.items |->
                 [module.items[i] EXCEPT
                    !.text = TextNode(@), !.args = [j \in DOMAIN @ |-> TextNode(@[j])]]]]

\* What the modules' nodes keep by module name (new_par, par_name), new_prefix,
\* what was written so far, and whether a header stands there with nothing under it.
NothingWritten(modules) ==
  [ newPar |-> [name \in DOMAIN modules |-> <<>>], parName |-> [name \in DOMAIN modules |-> ""],
    prefix |-> ("main" :> ""), out |-> <<>>, bareHeader |-> FALSE, failure |-> "none" ]

PrefixOf(prefixes, name) == IF name \in DOMAIN prefixes THEN prefixes[name] ELSE ""

\* Seeded fault: the argument of a parameter is read in the instance itself.
ArgumentInPlace(f, prefixes, name, text) ==
  LET one(tok) ==
        CASE tok.t # "name" -> <<tok>>
          [] tok.t = "name" /\ tok.s \in DOMAIN f.newPar[name] ->
               [i \in DOMAIN f.newPar[name][tok.s] |->
                  LET a == f.newPar[name][tok.s][i]
                  IN  IF a.t = "name" THEN NameTok(PrefixOf(prefixes, name) \o a.s) ELSE a]
          [] OTHER -> <<NameTok(PrefixOf(prefixes, name) \o tok.s)>>
  IN  FoldLeft(LAMBDA acc, tok : acc \o one(tok), <<>>, text)

\* generate_ostream of an expression of the module name: the text of its tokens,
\* where a parameter is the text of its argument as the parent writes it.
RECURSIVE ExprText(_, _, _, _)
ExprText(f, prefixes, name, text) ==
  LET one(tok) ==
        CASE tok.t # "name" -> <<tok>>
          [] tok.t = "name" /\ tok.s \in DOMAIN f.newPar[name] ->
               ExprText(f, prefixes, f.parName[name], f.newPar[name][tok.s])
          [] OTHER -> <<NameTok(PrefixOf(prefixes, name) \o tok.s)>>
  IN  FoldLeft(LAMBDA acc, tok : acc \o one(tok), <<>>, text)

\* generate_ostream of an item.  A parameter cannot be declared or assigned.
ItemText(f, prefixes, name, item) ==
  IF f.failure # "none" \/ IsInstance(item) THEN f
  ELSE IF item.tag \in NamedTags /\ item.id \in DOMAIN f.newPar[name]
  THEN [f EXCEPT !.failure = "duplicately defined"]
  ELSE [f EXCEPT !.out = Append(@,
          [item EXCEPT !.id = IF item.tag \in NamedTags THEN PrefixOf(prefixes, name) \o @ ELSE @,
                       !.text = ExprText(f, prefixes, name, @)])]

\* generate_ostream of a section, from its last item to its first.  Its header
\* is written even when its items are instances, of which nothing is.
SectionText(f, prefixes, name, section) ==
  LET bare == section # <<>> /\ \A item \in Range(section) : IsInstance(item)
  IN  FoldLeft(LAMBDA acc, item : ItemText(acc, prefixes, name, item),
               [f EXCEPT !.bareHeader = @ \/ bare], Reverse(section))

\* The sections of a module, one after the other.
ModuleText(modules, f, prefixes, name) ==
  FoldLeft(LAMBDA acc, tags :
             SectionText(acc, prefixes, name, SectionOf(modules[name], tags)), f, Sections)

\* var_node::preprocess and module_node::preprocess: the instances in a module
\* are written out before the module itself.  An unknown module is no instance.
RECURSIVE Preprocess(_, _, _, _, _, _)

PreprocessVars(modules, f, name) ==
  LET one(acc, item) ==
        IF IsInstance(item) /\ item.mod \in DOMAIN modules
        THEN Preprocess(modules, acc, name, item.mod,
                        PrefixOf(acc.prefix, name) \o item.id \o ".", item.args)
        ELSE acc
  IN  FoldLeft(one, f, SectionOf(modules[name], {"VAR"}))

Preprocess(modules, f, parent, name, prefix, args) ==
  LET params == modules[name].params
      entered == [f EXCEPT
        !.newPar[name] = [p \in Range(params) |->
                            args[CHOOSE i \in DOMAIN params : params[i] = p]],
        !.parName[name] = parent,
        !.prefix = (name :> prefix) @@ @]
  IN  IF f.failure # "none" THEN f
      ELSE IF Len(params) # Len(args) THEN [f EXCEPT !.failure = "module declaration wrong"]
      ELSE ModuleText(modules, PreprocessVars(modules, entered, name), entered.prefix, name)

\* module_node::process_main
ProcessMain(modules) ==
  LET f == PreprocessVars(modules, NothingWritten(modules), "main")
  IN  ModuleText(modules, f, f.prefix, "main")

-----------------------------------------------------------------------------
(* What an SMV file means, from the trees of its expressions and without   *)
(* the reader: names are resolved in the instance they stand in, an        *)
(* argument is one operand, and the operators of words are those of their  *)
(* type.  Written gives the text of a tree, with the parentheses the       *)
(* language asks for and no others.                                        *)

NameTree(n)           == [op |-> "name", name |-> n]
ConstTree(type, w, n) == [op |-> "const", type |-> type, width |-> w, value |-> n]
Tree(op, args)        == [op |-> op, args |-> args]
SelectTree(hi, lo, a) == [op |-> "select", hi |-> hi, lo |-> lo, args |-> <<a>>]

\* Trees: "name", "const", "select", "()" (written parentheses), "case" (its
\* branches' conditions and values in turn), "?:", the unary "!", "neg", "next",
\* "signed" and "unsigned", and the binary operators.
Calls == {"next", "signed", "unsigned", "()", "case"}

TreeLevel(e) == CASE e.op \in {"name", "const", "select"} \cup Calls -> Len(Precedences)
                  [] e.op = "?:"  -> Level("?")
                  [] e.op = "neg" -> Level("UMINUS")
                  [] OTHER        -> Level(e.op)

RECURSIVE Written(_, _)
Written(e, atLeast) ==
  LET level == TreeLevel(e)
      arg(i, l) == Written(e.args[i], l)
      branch(i) == arg(2 * i - 1, 0) \o <<Tok(":")>> \o arg(2 * i, 0) \o <<Tok(";")>>
      text ==
        CASE e.op = "name"   -> <<NameTok(e.name)>>
          [] e.op = "const"  -> <<ConstTok(e.type, e.width, e.value)>>
          [] e.op = "select" -> Append(arg(1, level), SelectTok(e.hi, e.lo))
          [] e.op = "()"     -> <<Tok("(")>> \o arg(1, 0) \o <<Tok(")")>>
          [] e.op = "case"   ->
               <<Tok("case")>> \o FlattenSeq([i \in 1..Len(e.args) \div 2 |-> branch(i)])
                 \o <<Tok("esac")>>
          [] e.op \in Calls \ {"()", "case"} ->
               <<Tok(e.op), Tok("(")>> \o arg(1, 0) \o <<Tok(")")>>
          [] e.op = "?:"     ->
               arg(1, level + 1) \o <<Tok("?")>> \o arg(2, 0) \o <<Tok(":")>> \o arg(3, level)
          [] e.op = "!"      -> <<Tok("!")>> \o arg(1, level)
          [] e.op = "neg"    -> <<Tok("-")>> \o arg(1, level)
          [] e.op = "->"     -> arg(1, level + 1) \o <<Tok("->")>> \o arg(2, level)
          [] OTHER           -> arg(1, level) \o <<Tok(e.op)>> \o arg(2, level + 1)
  IN  IF level < atLeast THEN <<Tok("(")>> \o text \o <<Tok(")")>> ELSE text

\* The file with the texts of its trees.
WrittenFile(trees) ==
  [ trees |-> trees,
    modules |-> [name \in DOMAIN trees |->
      [params |-> trees[name].params,
       items |-> [i \in DOMAIN trees[name].items |->
         LET item == trees[name].items[i]
         IN  [ tag |-> item.tag, id |-> item.id, type |-> item.type, width |-> item.width,
               mod |-> item.mod,
               args |-> [j \in DOMAIN item.args |-> Written(item.args[j], 0)],
               text |-> IF item.tree.op = "none" THEN <<>> ELSE Written(item.tree, 0) ] ]] ] ]

-----------------------------------------------------------------------------
\* An instance: its module, its prefix, its arguments and the instance they
\* are to be read in.
RECURSIVE InstancesIn(_, _)
InstancesIn(trees, inst) ==
  LET sub(item) ==
        LET params == trees[item.mod].params
        IN  [ name |-> item.mod, prefix |-> inst.prefix \o item.id \o ".", up |-> <<inst>>,
              args |-> [p \in Range(params) |->
                          item.args[CHOOSE i \in DOMAIN params : params[i] = p]] ]
      below == SelectSeq(trees[inst.name].items, LAMBDA item : item.mod # "")
  IN  FoldLeft(LAMBDA acc, item : acc \o InstancesIn(trees, sub(item)), <<inst>>, below)

MainInstance == [name |-> "main", prefix |-> "", up |-> <<>>, args |-> <<>>]

RECURSIVE Subtrees(_)
Subtrees(e) ==
  {e} \cup (IF e.op \in {"name", "const"} THEN {} ELSE UNION { Subtrees(a) : a \in Range(e.args) })

\* A place is a tree and the instance it stands in.
Place(e, inst) == [tree |-> e, inst |-> inst]

\* The instances and items of a file, gathered: DEFINEs are numbered in the
\* order the reader meets them.
Elaborated(trees) ==
  LET insts == InstancesIn(trees, MainInstance)
      order == <<insts[1]>> \o Reverse(Tail(insts))
      all   == FlattenSeq([i \in DOMAIN order |->
                 [j \in DOMAIN trees[order[i].name].items |->
                    [item |-> trees[order[i].name].items[j], inst |-> order[i]]]])
      of(tags) == SelectSeq(all, LAMBDA p : p.item.tag \in tags /\ p.item.mod = "")
      full(p)  == p.inst.prefix \o p.item.id
      widths(tags) == [v \in { full(p) : p \in Range(of(tags)) } |->
                         LET p == CHOOSE q \in Range(of(tags)) : full(q) = v
                         IN  IF p.item.width = 0 THEN 1 ELSE p.item.width]
      typed == Range(of({"VAR", "IVAR", "FROZENVAR"}))
      defs  == of({"DEFINE"})
      places(tag) == { Place(p.item.tree, p.inst) : p \in Range(of({tag})) }
      exprs == { p \in Range(all) : p.item.tree.op # "none" }
      assigned(tag) == { [v |-> full(p), place |-> Place(p.item.tree, p.inst)] :
                           p \in Range(of({tag})) }
  IN  [ states |-> widths({"VAR", "FROZENVAR"}), inputs |-> widths({"IVAR"}),
        frozen |-> DOMAIN widths({"FROZENVAR"}),
        sorts  |-> [v \in { full(p) : p \in typed } |->
                      LET p == CHOOSE q \in typed : full(q) = v
                      IN  [type |-> p.item.type, width |-> p.item.width]],
        defines |-> [v \in { full(p) : p \in Range(defs) } |->
                       LET k == CHOOSE i \in DOMAIN defs : full(defs[i]) = v
                       IN  [tree |-> defs[k].item.tree, inst |-> defs[k].inst, order |-> k]],
        inits |-> places("INIT"), trans |-> places("TRANS"), invars |-> places("INVAR"),
        equal |-> assigned("ASSIGN"), start |-> assigned("ASSIGN init"),
        next  |-> assigned("ASSIGN next"),
        specs |-> places("INVARSPEC"),
        mainSpecs |-> LET own == SelectSeq(of({"INVARSPEC"}), LAMBDA p : p.inst.prefix = "")
                      IN  [i \in DOMAIN own |-> Place(own[i].item.tree, own[i].inst)],
        cases |-> UNION { { Place(c, p.inst) : c \in { d \in Subtrees(p.item.tree) : d.op = "case" } } :
                            p \in exprs } ]

\* The names a place uses, in full.
RECURSIVE RefNames(_, _)
RefNames(m, place) ==
  LET inst == place.inst
      of(n) == IF n \in DOMAIN inst.args THEN RefNames(m, Place(inst.args[n], inst.up[1]))
               ELSE {inst.prefix \o n}
  IN  UNION { of(e.name) : e \in { d \in Subtrees(place.tree) : d.op = "name" } }

\* The operator of words that op is for the type of its arguments.
WordOp(op, type) ==
  LET signed == type = "Signed"
  IN  CASE op = "&" -> "and" [] op = "|" -> "or" [] op = "xor" -> "xor"
        [] op = "+" -> "add" [] op = "-" -> "sub" [] op = "*" -> "mul"
        [] op = "<"  -> IF signed THEN "slt" ELSE "ult"
        [] op = "<=" -> IF signed THEN "sle" ELSE "ule"
        [] op = "/"  -> IF signed THEN "sdiv" ELSE "udiv"
        [] op = "mod" -> IF signed THEN "srem" ELSE "urem"
        [] op = ">>" -> IF signed THEN "ashr" ELSE "lshr"
        [] op = "<<" -> "shl"

\* The value of a place, with its type and width, where symbols have the values
\* now and those of the next step nxt.
RECURSIVE RefValue(_, _, _, _)
RefValue(m, place, now, nxt) ==
  LET e    == place.tree
      inst == place.inst
      v(i) == RefValue(m, Place(e.args[i], inst), now, nxt)
      bit(b) == [type |-> "Boolean", width |-> 0, value |-> IF b THEN 1 ELSE 0]
      bits(a) == IF a.width = 0 THEN 1 ELSE a.width
      word(a, op, b) == [a EXCEPT !.value = BVValue(WordOp(op, a.type), bits(a), @, b.value)]
      named ==
        LET n == inst.prefix \o e.name
        IN  CASE e.name \in DOMAIN inst.args ->
                   RefValue(m, Place(inst.args[e.name], inst.up[1]), now, nxt)
              [] n \in DOMAIN m.defines -> RefValue(m, m.defines[n], now, nxt)
              [] OTHER -> [type |-> m.sorts[n].type, width |-> m.sorts[n].width, value |-> now[n]]
      branches == 1..Len(e.args) \div 2
      taken == { i \in branches : v(2 * i - 1).value = 1 }
  IN  CASE e.op = "name"   -> named
        [] e.op = "const"  -> [type |-> e.type, width |-> e.width, value |-> e.value]
        [] e.op = "select" -> [type |-> "Unsigned", width |-> e.hi - e.lo + 1,
                               value |-> (v(1).value \div 2^e.lo) % 2^(e.hi - e.lo + 1)]
        [] e.op = "()"     -> v(1)
        [] e.op = "next"   -> RefValue(m, Place(e.args[1], inst), nxt, nxt)
        [] e.op = "signed"   -> [v(1) EXCEPT !.type = "Signed"]
        [] e.op = "unsigned" -> [v(1) EXCEPT !.type = "Unsigned"]
        [] e.op = "case"   -> IF taken = {} THEN v(Len(e.args)) ELSE v(2 * Min(taken))
        [] e.op = "?:"     -> IF v(1).value = 1 THEN v(2) ELSE v(3)
        [] e.op = "!"      -> LET a == v(1) IN [a EXCEPT !.value = 2^bits(a) - 1 - @]
        [] e.op = "neg"    -> LET a == v(1) IN [a EXCEPT !.value = (-@) % 2^a.width]
        [] e.op = "->"     -> bit(v(1).value = 1 => v(2).value = 1)
        [] e.op \in {"=", "<->"} -> bit(v(1).value = v(2).value)
        [] e.op = "!="     -> bit(v(1).value # v(2).value)
        [] e.op \in {"<", "<="} -> bit(word(v(1), e.op, v(2)).value = 1)
        [] e.op = ">"      -> bit(word(v(2), "<", v(1)).value = 1)
        [] e.op = ">="     -> bit(word(v(2), "<=", v(1)).value = 1)
        [] e.op = "xnor"   -> LET a == v(1) IN
                              [a EXCEPT !.value = 2^bits(a) - 1 - word(a, "xor", v(2)).value]
        [] e.op = "::"     -> LET a == v(1)
                                  b == v(2)
                              IN  [type |-> "Unsigned", width |-> a.width + b.width,
                                   value |-> a.value * 2^b.width + b.value]
        [] OTHER -> word(v(1), e.op, v(2))

RefHolds(m, place, now, nxt) == RefValue(m, place, now, nxt).value = 1

RefCovers(m, place, now) ==
  \E i \in 1..Len(place.tree.args) \div 2 :
    RefHolds(m, Place(place.tree.args[2 * i - 1], place.inst), now, now)

\* What holds in every state of a run.
RefAlways(m, s) ==
  /\ \A p \in m.invars : RefHolds(m, p, s, s)
  /\ \A a \in m.equal : s[a.v] = RefValue(m, a.place, s, s).value

RefStart(m, s) ==
  /\ RefAlways(m, s)
  /\ \A p \in m.inits : RefHolds(m, p, s, s)
  /\ \A a \in m.start : s[a.v] = RefValue(m, a.place, s, s).value

RefStep(m, s, in, t) ==
  /\ RefAlways(m, s) /\ RefAlways(m, t)
  /\ \A v \in m.frozen : t[v] = s[v]
  /\ \A p \in m.trans : RefHolds(m, p, s @@ in, t @@ in)
  /\ \A a \in m.next : t[a.v] = RefValue(m, a.place, s @@ in, t @@ in).value
=============================================================================
