------------------------------ MODULE SygusPdr ------------------------------
(***************************************************************************)
(* The terms SyGuS-PDR writes its lemmas with (utils/syntax_analysis.cpp,  *)
(* syntax_analysis_walker.cpp, sygus_predicate_constructor.cpp).  A set of *)
(* variables has a set of terms, which grows by stages; the predicates of  *)
(* a cube compare two terms, or a term and a constant, the way the cube's  *)
(* model does.  Values carry their width here: <<"val", n, w>>.            *)
(*                                                                         *)
(* SyGuS-PDR (engines/syguspdr.cpp): IC3 over partial models.  A goal is a *)
(* partial state; what blocks it is made of the predicates of the terms of *)
(* its variables.  Where they do not suffice, the step that slips through  *)
(* is tried as a goal that may be blocked, which again learns lemmas, and  *)
(* else the terms are extended.  With operator abstraction the results of  *)
(* costly operators are inputs, and refine() constrains them.              *)
(*                                                                         *)
(* A frame is a set of lemmas; a lemma is the set of predicates that do    *)
(* not hold together.  The control around it is that of IC3Base.           *)
(***************************************************************************)
EXTENDS Modifiers

CONSTANTS ExtractDepth,      \* options_.sygus_term_extract_depth_
          InitialWidth,      \* options_.sygus_initial_term_width_
          WidthInc,          \* options_.sygus_initial_term_inc_
          TermBound,         \* options_.sygus_accumulated_term_bound_
          WidestTerm         \* bound: no term of a system is wider

BVVal(n, w) == <<"val", n, w>>

BoolSorted == {"not", "and", "or", "implies", "equal", "ult", "xor"}
Comparisons == {"ult", "ule", "slt", "sle"}

\* get_width: a Boolean has width 1.
RECURSIVE WidthOf(_, _)
WidthOf(ts, t) ==
  CASE t[1] = "var"      -> ts.sort[t[2]]
    [] t[1] \in {"val", "inc"} -> t[3]
    [] t[1] = "ite"      -> WidthOf(ts, t[3])
    [] t[1] = "extract"  -> t[2] - t[3] + 1
    [] t[1] = "bv"       -> CASE t[2] = "concat" -> t[3] + WidthOf(ts, t[4])
                              [] t[2] \in Comparisons -> 1
                              [] OTHER -> t[3]
    [] t[1] \in BoolSorted -> 1

IsConst(t) == t[1] = "val"
IsLeaf(t) == ArgsOf(t) = {}
IsConcat(t) == t[1] = "bv" /\ t[2] = "concat"

RECURSIVE Parts(_)
Parts(t) == {t} \cup UNION { Parts(t[i]) : i \in ArgsOf(t) }

SumOver(S, f(_)) == FoldSet(LAMBDA x, sum : sum + f(x), 0, S)

\* TermScore: a constant is worth two symbols.
RECURSIVE ScoreOf(_, _)
ScoreOf(ts, t) ==
  IF IsConst(t) THEN 2 * WidthOf(ts, t)
  ELSE WidthOf(ts, t) + SumOver(ArgsOf(t), LAMBDA i : ScoreOf(ts, t[i]))

-----------------------------------------------------------------------------
(* The terms of the design.                                                *)

\* RegisterTermsToWalk: the updates, init, and the constraints on all states.
TermsToCheck(ts) ==
  { ts.updates[v] : v \in DOMAIN ts.updates } \cup ts.init
    \cup { ts.constraints[j][1] : j \in { n \in DOMAIN ts.constraints : ts.constraints[n][2] } }

Walked(ts) == UNION { Parts(t) : t \in TermsToCheck(ts) }

\* ConstantExtractor; width_to_constants_
DesignConstants(ts) == { t \in Walked(ts) : IsConst(t) }

\* ParentExtract: the terms whose arguments know them as a parent.
Parents(known, t) == { p \in known : \E i \in ArgsOf(p) : p[i] = t }

\* How deep a term is, where depths are counted.
RECURSIVE Level(_)
Level(t) ==
  IF IsLeaf(t) \/ ExtractDepth = 0 THEN 0
  ELSE 1 + FoldSet(LAMBDA i, m : IF Level(t[i]) > m THEN Level(t[i]) ELSE m, 0, ArgsOf(t))

\* TermExtractor: what is written with the variables of the set alone.
Extracted(ts, vars) ==
  { t \in Walked(ts) : /\ ~IsConst(t)
                       /\ FreeSymbols(t) \subseteq vars
                       /\ Level(t) <= ExtractDepth }

\* SliceExtractor: the slices that mention one of the variables, and for each
\* variable the same slice of it.
Slices(ts, vars) ==
  { t \in Walked(ts) : t[1] = "extract" /\ FreeSymbols(t) \cap vars # {} }
SlicesOfVars(ts, vars) ==
  { Extract(t[2], t[3], Var(v)) : <<t, v>> \in
      { p \in Slices(ts, vars) \X vars :
          p[2] \in FreeSymbols(p[1]) /\ p[1][2] < ts.sort[p[2]] } }

Bits(ts, v) ==
  IF ts.sort[v] > 1 THEN { Extract(j, j, Var(v)) : j \in 0..ts.sort[v] - 1 } ELSE {}

-----------------------------------------------------------------------------
(* PerVarsetInfo: the terms and constants in use, those in the buffer, and *)
(* those the learner may replace in (all_terms).                           *)

EmptyInfo(stage) ==
  [stage |-> stage, done |-> 0, terms |-> {}, consts |-> {}, buffer |-> {}, all |-> {}]

\* const_to_per_varset
WithConstants(ts, info, low, high) ==
  [info EXCEPT !.consts = @ \cup { c \in DesignConstants(ts) : WidthOf(ts, c) \in low..high - 1 }]

\* insert_from_termsmap_w_width
WithWidths(ts, info, low, high) ==
  WithConstants(ts, [info EXCEPT !.terms = @ \cup { t \in info.buffer :
                                                      WidthOf(ts, t) \in low..high - 1 }],
                low, high)

Inserted(info) == Cardinality(info.terms) + Cardinality(info.consts)

\* term_const_w1_const: there is a constant to compare a bit with.
WithBitConstant(ts, info) ==
  IF \E c \in info.consts : WidthOf(ts, c) = 1 THEN info
  ELSE [info EXCEPT !.consts = @ \cup {BVVal(0, 1)}]

\* The windows of widths that are taken before the search starts: more of them
\* until there are enough terms.
Windows(ts, info) ==
  LET upTo(m) == FoldSet(LAMBDA j, acc : WithWidths(ts, acc, j * WidthInc,
                                                     InitialWidth + j * WidthInc),
                         info, 0..m)
      m == CHOOSE m \in 0..WidestTerm : /\ Inserted(upTo(m)) > TermBound
                                        /\ \A j \in 0..m - 1 : Inserted(upTo(j)) <= TermBound
  IN  WithBitConstant(ts, [upTo(m) EXCEPT !.stage = "WPARTIAL", !.done = (m + 1) * WidthInc])

\* GetAllTermsForVarsInModel, for a set of variables that has no terms yet.
SetupTerms(ts, mode, vars) ==
  LET symbols == { Var(v) : v \in vars }
      all(info) == WithBitConstant(ts, WithConstants(ts, info, 0, WidestTerm + 1))
  IN  CASE mode = "FROM_DESIGN_LEARN_EXT" ->
             Windows(ts, [EmptyInfo("EMPTY") EXCEPT !.buffer = Extracted(ts, vars),
                                                    !.all = Extracted(ts, vars)])
        [] mode = "VAR_C_EXT" ->
             all([EmptyInfo("EXTRACTBITS") EXCEPT
                    !.terms = symbols \cup UNION { Bits(ts, v) : v \in vars }])
        [] mode = "SPLIT_FROM_DESIGN" ->
             all([EmptyInfo("WPARTIAL") EXCEPT
                    !.terms = symbols \cup SlicesOfVars(ts, vars), !.buffer = Slices(ts, vars)])
        [] mode = "VAR_C_EQ_LT" -> all([EmptyInfo("VCLTE") EXCEPT !.terms = symbols])

-----------------------------------------------------------------------------
(* TermLearner.  A pair [info, known] goes through it: known are the terms *)
(* the parents of others are looked up in.                                 *)

\* TermLearnerInsertTerm
InsertTerm(book, t) ==
  IF t \in book.info.terms \cup book.info.consts THEN book
  ELSE [book EXCEPT !.info = [@ EXCEPT !.all = @ \cup {t},
                                       !.terms = IF IsConst(t) THEN @ ELSE @ \cup {t},
                                       !.consts = IF IsConst(t) THEN @ \cup {t} ELSE @]]

\* RegisterNewParentRelation, for a term made of a known one.
InsertChild(book, t) == [InsertTerm(book, t) EXCEPT !.known = @ \cup {t}]
InsertChildren(book, ts) == FoldSet(LAMBDA t, acc : InsertChild(acc, t), book, ts)

\* vars_extract_bit_level
VarsExtractBitLevel(ts, book, vars) ==
  InsertChildren(book, UNION { Bits(ts, v) : v \in vars })

\* concat_to_extract: the terms of a width are cut where one of them is joined.
ConcatToExtract(ts, book) ==
  LET joined == { t \in book.info.terms : IsConcat(t) }
      cuts(t) == UNION { {Extract(c[3] - 1, 0, t), Extract(WidthOf(ts, c) - 1, c[3], t)} :
                           c \in { d \in joined : WidthOf(ts, d) = WidthOf(ts, t) } }
  IN  InsertChildren(book, UNION { cuts(t) : t \in book.info.terms })

\* replace_hierachically_w_parent: the replacement, in the parents that are
\* terms of the set, and the new parents in theirs.
RECURSIVE ReplaceInParents(_, _, _, _)
ReplaceInParents(ts, book, orig, repl) ==
  LET parents == Parents(book.known, orig) \cap book.info.all
      news(acc, p) == { ReplaceAt(p, i, repl) : i \in { j \in ArgsOf(p) : p[j] = orig } }
                        \ (acc.info.terms \cup acc.info.consts)
      upwards(acc, p, new) ==
        FoldSet(LAMBDA t, a : IF WidthOf(ts, p) = 1 THEN InsertTerm(a, t)
                              ELSE ReplaceInParents(ts, InsertTerm(a, t), p, t), acc, new)
  IN  FoldSet(LAMBDA p, acc : upwards(acc, p, news(acc, p)), book, parents)

\* replace_hierachically: not with a term that scores twice as high.
Replace(ts, book, orig, repl) ==
  IF orig = repl \/ ScoreOf(ts, repl) >= 2 * ScoreOf(ts, orig) THEN book
  ELSE LET learned == ReplaceInParents(ts, book, orig, repl)
       IN  [learned EXCEPT !.known = @ \cup (learned.info.all \ book.info.all)]

ReplaceEach(ts, book, pairs) ==
  FoldSet(LAMBDA p, acc : Replace(ts, acc, p[1], p[2]), book, pairs)

\* same_val_replace_ast: e is a step out of the cube; a term is replaced by one
\* that has the same value a step later.
SameValReplace(ts, book, e) ==
  LET wide == { t \in book.info.terms : WidthOf(ts, t) > 1 }
      olds == wide \cup { c \in book.info.consts : WidthOf(ts, c) > 1 }
  IN  ReplaceEach(ts, book, { p \in olds \X wide : /\ WidthOf(ts, p[1]) = WidthOf(ts, p[2])
                                                  /\ Eval(p[1], e[1]) = Eval(p[2], e[2]) })

\* same_val_replace_ast_same_frame
SameValReplaceSameFrame(ts, book, s) ==
  LET olds == { t \in book.info.terms \cup book.info.consts : WidthOf(ts, t) > 1 }
  IN  ReplaceEach(ts, book, { p \in olds \X olds : /\ WidthOf(ts, p[1]) = WidthOf(ts, p[2])
                                                  /\ Eval(p[1], s) = Eval(p[2], s) })

\* learn_terms_from_cex, learn_terms_from_cex_same_frame; extract_complement
\* has no effect.
LearnTerms(ts, book, e, sameFrame) ==
  LET cut == ConcatToExtract(ts, book)
  IN  IF sameFrame THEN SameValReplaceSameFrame(ts, cut, e[1]) ELSE SameValReplace(ts, cut, e)

Grew(book, new) == Inserted(new.info) > Inserted(book.info)

LearnedOrBits(ts, book, learned, vars) ==
  IF Grew(book, learned) THEN learned
  ELSE VarsExtractBitLevel(ts, [learned EXCEPT !.info.stage = "EXTRACTBITS"], vars)

\* GetMoreTerms: through the stages, until one has something new.
GetMoreTerms(ts, book, vars, e, sameFrame) ==
  LET wall == [book EXCEPT !.info = [WithWidths(ts, @, @.done, WidestTerm + 1)
                                       EXCEPT !.stage = "WALL"]]
      early == book.info.stage \in {"VCLTE", "WPARTIAL"}
      from == IF early THEN wall ELSE book
  IN  IF early /\ Grew(book, wall) THEN wall
      ELSE LearnedOrBits(ts, from,
             LearnTerms(ts, [from EXCEPT !.info.stage = "FROMCEX"], e, sameFrame), vars)

-----------------------------------------------------------------------------
(* PredConstructor.                                                        *)

\* The comparisons of two terms that hold where their values are x and y.
Compared(ts, useLte, t, u, x, y) ==
  {IF x = y THEN Equal(t, u) ELSE Not(Equal(t, u))}
    \cup (IF useLte /\ WidthOf(ts, t) > 1
          THEN (IF x <= y THEN {BV("ule", WidthOf(ts, t), t, u)} ELSE {})
                 \cup (IF y <= x THEN {BV("ule", WidthOf(ts, t), u, t)} ELSE {})
          ELSE {})

\* The pairs to compare; of width 1 only one constant is kept.
Comparable(ts, info) ==
  LET bits == { c \in info.consts : WidthOf(ts, c) = 1 }
      consts == { c \in info.consts : WidthOf(ts, c) > 1 \/ c = (CHOOSE b \in bits : TRUE) }
      seq == FoldSet(LAMBDA t, list : Append(list, t), <<>>, info.terms)
  IN  { p \in consts \X info.terms : WidthOf(ts, p[1]) = WidthOf(ts, p[2]) }
        \cup { <<seq[q[1]], seq[q[2]]>> : q \in
                 { r \in (DOMAIN seq) \X (DOMAIN seq) :
                     r[1] < r[2] /\ WidthOf(ts, seq[r[1]]) = WidthOf(ts, seq[r[2]]) } }

\* terms_to_predicates, for the pairs that were not there before.
Predicates(ts, info, pairs, value) ==
  UNION { Compared(ts, info.stage = "VCLTE", p[1], p[2], value[p[1]], value[p[2]]) : p \in pairs }

-----------------------------------------------------------------------------
CONSTANTS SgSystems,    \* systems [conc, bad, mode, opLevel]; inputs are promoted
          MaxFrames     \* bound: the frames of a run

VARIABLES
  sg,        \* the system, with ts (ts_), ops (op_abstracted) and its steps
  axioms,    \* op_uf_assumptions_
  k,         \* reached_k_
  frames,    \* frames_, from frame 1 on
  stack,     \* the proof goals of block_all, and of each may-block inside
  cache,     \* sygus_term_manager_: the terms of each set of variables
  known,     \* parent_of_terms_
  cexInfo,   \* cex_term_map_: values, predicates, and the terms they are of
  cex,       \* cex_: cubes, without bad at the end
  phase,     \* where the run is
  verdict    \* what check_until answers, or how it fails

sgVars == <<sg, axioms, k, frames, stack, cache, known, cexInfo, cex, phase, verdict>>
cegar == <<sg, axioms>>
terms == <<cache, known, cexInfo>>

-----------------------------------------------------------------------------
(* Partial models (utils/partial_model.cpp).                               *)

AllOnes(t, env) == Eval(t, env) = 2^WidthOf(sg.ts, t) - 1

\* Whether the value of one argument decides what the term is.
Decides(op, t, env) ==
  CASE op \in {"and", "nand", "mul"} -> Eval(t, env) = 0
    [] op \in {"or", "nor"}          -> AllOnes(t, env)

\* dfs_walk: the symbols that make a term have its value.
RECURSIVE NeededVars(_, _)
NeededVars(t, env) ==
  LET needed(S) == UNION { NeededVars(t[i], env) : i \in S }
      op == IF t[1] = "bv" THEN t[2] ELSE t[1]
      left == IF t[1] = "bv" THEN 4 ELSE 2
      right == left + 1
  IN  CASE t[1] = "var" -> {t[2]}
        [] t[1] = "ite" -> needed({2, IF Holds(t[2], env) THEN 3 ELSE 4})
        [] t[1] = "implies" ->
             needed(IF ~Holds(t[2], env) THEN {2} ELSE IF Holds(t[3], env) THEN {3} ELSE {2, 3})
        [] op \in {"and", "nand", "or", "nor", "mul"} ->
             needed(IF Decides(op, t[left], env) THEN {left}
                    ELSE IF Decides(op, t[right], env) THEN {right} ELSE {left, right})
        [] OTHER -> needed(ArgsOf(t))

NeededForAll(ts, env) == UNION { NeededVars(t, env) : t \in ts }

-----------------------------------------------------------------------------
(* The system.                                                             *)

\* TermOpCollector, over the state updates.
OpTerms(ts, ops) ==
  { t \in UNION { Parts(ts.updates[v]) : v \in DOMAIN ts.updates } : t[1] = "bv" /\ t[2] \in ops }

ReplaceableOps == {"mul", "udiv", "sdiv", "smod", "srem", "urem"}

RECURSIVE Replaced(_, _)
Replaced(t, by) ==
  IF t \in DOMAIN by THEN by[t]
  ELSE [j \in 1..Len(t) |-> IF j \in ArgsOf(t) THEN Replaced(t[j], by) ELSE t[j]]

\* replace_terms; the list of constraints is left as it is.
ReplaceTerms(ts, by) ==
  LET all(S) == { Replaced(t, by) : t \in S }
  IN  Try(ts, \A t \in all(ts.init) : OnlyCurr(ts, t),
          [ts EXCEPT !.init = all(@), !.trans = all(@),
                     !.named = [n \in DOMAIN @ |-> Replaced(@[n], by)],
                     !.updates = [v \in DOMAIN @ |-> Replaced(@[v], by)]])

DummyInput(j) == "_dummy_input_cnt_" \o ToString(j - 1)

\* OpInpAbstractor::abstract_ts
OpInpAbstract(ts, bad) ==
  LET found == FoldSet(LAMBDA t, list : Append(list, t), <<>>, OpTerms(ts, ReplaceableOps))
      named == FoldLeft(LAMBDA acc, j : MakeInputvar(acc, DummyInput(j), WidthOf(ts, found[j])),
                        ts, [j \in DOMAIN found |-> j])
      by == [t \in Range(found) |->
               Var(DummyInput(CHOOSE j \in DOMAIN found : found[j] = t))]
  IN  [ts  |-> StaticConeOfInfluence(ReplaceTerms(named, by), {bad}),
       ops |-> { [original |-> t, result |-> by[t][2]] : t \in Range(found) }]

\* initialize: the abstraction, and the inputs it made are promoted.
Prepared(sy) ==
  LET abs == OpInpAbstract(sy.conc, sy.bad)
      ts == IF sy.opLevel = 1 THEN PromoteInputvars(abs.ts, abs.ts.inputvars) ELSE sy.conc
      ops == IF sy.opLevel = 1 THEN abs.ops ELSE {}
      has(S) == OpTerms(sy.conc, S) # {}
      auto == CASE sy.opLevel = 1 -> IF ops # {} THEN "SPLIT_FROM_DESIGN"
                                     ELSE "FROM_DESIGN_LEARN_EXT"
                [] has(ReplaceableOps) -> "SPLIT_FROM_DESIGN"
                [] has({"add", "sub"}) -> "FROM_DESIGN_LEARN_EXT"
                [] OTHER -> "VAR_C_EXT"
  IN  [conc |-> sy.conc, bad |-> sy.bad, ts |-> ts, ops |-> ops,
       mode |-> IF sy.mode = "TERM_MODE_AUTO" THEN auto ELSE sy.mode]

\* The states and the steps the solver knows of a system.
Solved(sy) ==
  LET states == Valuations(sy.ts.statevars, sy.ts.sort)
  IN  sy @@ [states  |-> states,
             initial |-> InitialStates(sy.ts),
             steps   |-> UNION { { <<s, t>> : t \in Post(sy.ts, s, <<>>) } : s \in states }]

AllPrepared == { Solved(Prepared(sy)) : sy \in SgSystems }

States == sg.states
Rel == IF axioms = {} THEN sg.steps
       ELSE { e \in sg.steps : HoldAll(axioms, e[1]) /\ HoldAll(axioms, e[2]) }
Initial == { s \in sg.initial : HoldAll(axioms, s) }
Bad(s) == Holds(sg.bad, s)

NoNextVars == sg.ts.statevars \ DOMAIN sg.ts.updates

\* has_assumptions
HasAssumptions == sg.ts.constraints # <<>> \/ axioms # {}

\* constraints_curr_var_; next_curr_replace leaves the next inputs as they are.
NextCurrReplace(t) ==
  Substitute(NextTerm(sg.ts, t),
             [n \in { sg.ts.nextMap[v] : v \in DOMAIN sg.ts.updates } |->
                sg.ts.updates[CHOOSE v \in DOMAIN sg.ts.updates : sg.ts.nextMap[v] = n]])
ConstraintsCurrVar ==
  UNION { {c, NextCurrReplace(c)} : c \in { x[1] : x \in Range(sg.ts.constraints) } \cup axioms }

Both(e) == e[1] @@ Renamed(e[2], sg.ts.nextMap)

-----------------------------------------------------------------------------
(* Cubes, frames and goals.                                                *)

InCube(c, s) == \A v \in DOMAIN c : s[v] = c[v]
Cube(c) == { s \in States : InCube(c, s) }
CubeTerm(c) == { Equal(Var(v), BVVal(c[v], sg.ts.sort[v])) : v \in DOMAIN c }

InF(fs, i, s) ==
  IF i = 0 THEN s \in Initial
  ELSE ~Bad(s) /\ \A j \in i..Len(fs) : \A l \in fs[j] : ~HoldAll(l, s)
F(fs, i) == { s \in States : InF(fs, i, s) }

Frontier == Len(frames)

\* keep_var_in_partial_model
DummyInputs == { op.result : op \in sg.ops }
KeepVar(v) == v \in DummyInputs \/ (v \in sg.ts.statevars /\ (HasAssumptions \/ v \notin NoNextVars))

On(vars, s) == [v \in { x \in vars : x \in DOMAIN s } |-> s[v]]

\* Seeded fault: the constraints do not count.
PartialModelOfStepOnly(p, e) ==
  On({ v \in NeededVars(NextCurrReplace(p), Both(e)) : KeepVar(v) }, e[1])

\* ExtractPartialModel: where e steps to a state with p.
PartialModel(p, e) ==
  LET asts == {NextCurrReplace(p)} \cup (IF HasAssumptions THEN ConstraintsCurrVar ELSE {})
  IN  On({ v \in NeededForAll(asts, Both(e)) : KeepVar(v) }, e[1])

Conj(ts) == FoldSet(LAMBDA t, acc : IF acc = True THEN t ELSE And(acc, t), True, ts)

\* ExtractPartialAndFullModel: what the updates of the cube's variables need.
FullModel(c, e) ==
  On(NeededForAll({ sg.ts.updates[v] : v \in DOMAIN c \ NoNextVars }, e[1]), e[1])
KeptOf(full) == On({ v \in DOMAIN full : KeepVar(v) }, full)

\* ExtractInitPrimeModel
InitModel(s) == On(NeededVars(Conj(sg.ts.init \cup axioms), s), s)

Goal(c, i, next) == [cube |-> c, idx |-> i, next |-> next]
NoGen == [state |-> "none"]
Activation(goals) == [goals |-> goals, gen |-> NoGen]
Top == stack[Len(stack)]
Below == SubSeq(stack, 1, Len(stack) - 1)
WithTop(top) == Append(Below, top)
Lowest(g) == \A h \in Top.goals : g.idx <= h.idx

-----------------------------------------------------------------------------
(* Lemmas.                                                                 *)

\* Seeded fault: the initial states are not looked at.
TargetsOfSteps(from) == { e[2] : e \in { f \in Rel : f[1] \in from } }

\* What a lemma of frame i must hold of: F[i-1] and T, or Init'.
Targets(from) == { e[2] : e \in { f \in Rel : f[1] \in from } } \cup Initial

\* reduce_unsat_core_linear: one predicate after the other is left out where
\* the others are enough, the highest score first.
Reduced(preds, targets) ==
  LET excludes(ps) == \A t \in targets : ~HoldAll(ps, t)
      score(p) == ScoreOf(sg.ts, p)
      sorted == SortSeq(FoldSet(LAMBDA p, list : Append(list, p), <<>>, preds),
                        LAMBDA p, q : score(p) > score(q))
  IN  FoldLeft(LAMBDA ps, p : IF excludes(ps \ {p}) THEN ps \ {p} ELSE ps, preds, sorted)

\* rel_ind_check of a lemma, against the states of frame i - 1 out of its cube.
RelInd(fs, i, l) ==
  \A e \in Rel : InF(fs, i - 1, e[1]) /\ HoldAll(l, e[2]) => HoldAll(l, e[1])

\* The core may leave out predicates that are not needed at this frame.
Generalized(fs, i, l) ==
  Reduced(l, { e[2] : e \in { f \in Rel : InF(fs, i - 1, f[1]) /\ ~HoldAll(l, f[1]) } }
               \cup Initial)

\* find_highest_frame; small is whether cores are minimal.
RECURSIVE HighestFrame(_, _, _)
HighestFrame(i, l, small) ==
  IF i < Frontier /\ RelInd(frames, i + 1, l)
  THEN HighestFrame(i + 1, IF small THEN Generalized(frames, i + 1, l) ELSE l, small)
  ELSE <<i, l>>

\* constrain_frame: the new lemma replaces what it subsumes.
ConstrainFrame(fs, i, l) ==
  [j \in DOMAIN fs |->
     (IF j <= i THEN { m \in fs[j] : ~(l \subseteq m) } ELSE fs[j])
       \cup (IF j = i THEN {l} ELSE {})]

-----------------------------------------------------------------------------
(* setup_cex_info and the predicates of a cube.                            *)

ModelsOf(c) == { s \in Cube(c) : HoldAll(axioms, s) }

NoInfo == [vals |-> <<>>, preds |-> {}, seen |-> {}, axioms |-> Cardinality(axioms)]

\* The predicates of cube c with the terms info.  A term keeps the value it got
\* first; after a refinement the predicates are made anew.
CexInfos(infos, c, info) ==
  LET old == IF c \in DOMAIN infos THEN infos[c] ELSE NoInfo
      again == old.axioms < Cardinality(axioms)
      seen == IF again THEN {} ELSE old.seen
      new == (info.terms \cup info.consts) \ seen
      pairs == { p \in Comparable(sg.ts, info) : p[1] \in new \/ p[2] \in new }
      values == { [t \in new |-> Eval(t, s)] : s \in ModelsOf(c) }
  IN  { [vals |-> old.vals @@ value,
         preds |-> (IF again THEN {} ELSE old.preds)
                     \cup Predicates(sg.ts, info, pairs, old.vals @@ value),
         seen |-> info.terms \cup info.consts,
         axioms |-> Cardinality(axioms)] : value \in values }

InfoOf(c) ==
  IF DOMAIN c \in DOMAIN cache THEN cache[DOMAIN c] ELSE SetupTerms(sg.ts, sg.mode, DOMAIN c)

Stop(why) ==
  /\ verdict' = why
  /\ phase' = "done"
  /\ stack' = <<>>

SgStart(sy) ==
  /\ sg = sy
  /\ axioms = {}
  /\ k = -1
  /\ frames = <<{}>>
  /\ stack = <<>>
  /\ cache = <<>>
  /\ known = Walked(sg.ts)
  /\ cexInfo = <<>>
  /\ cex = <<>>
  /\ phase = "step"
  /\ verdict = "none"

SgInit == \E sy \in AllPrepared : SgStart(sy)

-----------------------------------------------------------------------------
(* step()                                                                  *)

\* step_01: bad is reached in no step, or in one.
Step01 ==
  /\ phase = "step" /\ k < 1
  /\ LET steps == { e \in Rel : e[1] \in Initial /\ Bad(e[2]) }
     IN  CASE k = -1 /\ \E s \in Initial : Bad(s) ->
                cex' = <<>> /\ phase' = "refine" /\ UNCHANGED <<k, stack>>
           [] steps # {} /\ ~(k = -1 /\ \E s \in Initial : Bad(s)) ->
                /\ \E e \in steps : cex' = <<e[1]>>
                /\ k' = 0
                /\ phase' = "refine"
                /\ UNCHANGED stack
           [] OTHER -> /\ k' = 1
                       /\ phase' = "block"
                       /\ stack' = <<Activation({})>>
                       /\ UNCHANGED cex
  /\ UNCHANGED <<cegar, frames, terms, verdict>>

\* reaches_bad, a step from the frontier, with the generalized predecessor.
ReachesBad ==
  /\ phase = "block" /\ stack = <<Activation({})>>
  /\ \E c \in { PartialModel(sg.bad, e) :
                  e \in { f \in Rel : InF(frames, Frontier, f[1]) /\ Bad(f[2]) } } :
       stack' = <<Activation({Goal(c, Frontier, <<>>)})>>
  /\ UNCHANGED <<cegar, k, frames, terms, cex, phase, verdict>>

\* propagate(j), each lemma in turn; what moves up leaves the frame.
Propagated(fs, j, small) ==
  LET core(acc, l) == IF small THEN Generalized(acc, j + 1, l) ELSE l
      up(l, acc) == IF RelInd(acc, j + 1, l)
                    THEN [acc EXCEPT ![j] = @ \ {l}, ![j + 1] = @ \cup {core(acc, l)}]
                    ELSE acc
  IN  FoldSet(up, fs, fs[j])

\* Nothing reaches bad: a new frame, and the lemmas are pushed, until a frame
\* has none left.
Propagate ==
  /\ phase = "block" /\ stack = <<Activation({})>>
  /\ ~\E e \in Rel : InF(frames, Frontier, e[1]) /\ Bad(e[2])
  /\ \E small \in BOOLEAN :
       LET fs == FoldLeft(LAMBDA acc, j : IF j > 1 /\ acc[j - 1] = {} THEN acc
                                          ELSE Propagated(acc, j, small),
                          Append(frames, {}), [j \in 1..Frontier |-> j])
       IN  /\ frames' = fs
           /\ k' = k + 1
           /\ IF \E j \in 1..Frontier : fs[j] = {} THEN Stop("TRUE")
              ELSE IF k + 1 >= MaxFrames THEN Stop("UNKNOWN")
              ELSE UNCHANGED <<verdict, phase, stack>>
  /\ UNCHANGED <<cegar, terms, cex>>

-----------------------------------------------------------------------------
(* Proof goals: those of block_all, and those that may be blocked.         *)

IsMay == Len(stack) > 1

\* The may-block ends, and the generalization that tried it goes on.
MayReturn(blocked) ==
  LET parent == stack[Len(stack) - 1]
      grown == Inserted(cache[DOMAIN parent.gen.cube]) > parent.gen.old
  IN  [Below EXCEPT ![Len(stack) - 1].gen.state =
         IF blocked \/ grown THEN "check" ELSE "propose"]

PopGoal(goals) == IF goals = {} /\ IsMay THEN MayReturn(TRUE) ELSE WithTop(Activation(goals))

\* What may step to the goal: out of its cube, unless it may be blocked.
Into(g) ==
  { e \in Rel : /\ InF(frames, g.idx - 1, e[1])
                /\ IsMay \/ ~InCube(g.cube, e[1])
                /\ InCube(g.cube, e[2]) }

TopGoal(g) ==
  /\ phase = "block" /\ Top.gen = NoGen /\ Lowest(g)
  /\ CASE g.idx = 0 ->
            IF IsMay THEN stack' = MayReturn(FALSE) /\ UNCHANGED <<cex, phase>>
            ELSE /\ cex' = <<g.cube>> \o g.next
                 /\ phase' = "refine"
                 /\ stack' = <<>>
       [] g.idx > 0 /\ Cube(g.cube) \cap F(frames, g.idx) = {} ->
            stack' = PopGoal(Top.goals \ {g}) /\ UNCHANGED <<cex, phase>>
       [] OTHER ->
            /\ IF Into(g) # {}
               THEN \E c \in { PartialModel(Conj(CubeTerm(g.cube)), e) : e \in Into(g) } :
                      stack' = WithTop([Top EXCEPT !.goals =
                                 @ \cup {Goal(c, g.idx - 1, <<g.cube>> \o g.next)}])
               ELSE IF IsMay /\ Cube(g.cube) \cap Initial # {}
               THEN stack' = MayReturn(FALSE)
               ELSE stack' = WithTop([goals |-> Top.goals \ {g},
                                      gen |-> [state |-> "check", i |-> g.idx, cube |-> g.cube,
                                               next |-> g.next]])
            /\ UNCHANGED <<cex, phase>>
  /\ UNCHANGED <<cegar, k, frames, terms, verdict>>

-----------------------------------------------------------------------------
(* inductive_generalization                                                *)

\* A lemma, at the frame found for it.  A goal of block_all is tried again a
\* frame above.
Learn(high) ==
  LET g == Top.gen
      again == IF ~IsMay /\ high[1] < Frontier THEN {Goal(g.cube, high[1] + 1, g.next)} ELSE {}
  IN  /\ frames' = ConstrainFrame(frames, high[1], high[2])
      /\ stack' = PopGoal(Top.goals \cup again)

\* The models of the predicates a lemma would have to exclude: a step from the
\* frame below, or an initial state.
SlipsThrough(preds) ==
  LET g == Top.gen
      steps == { e \in Rel : /\ InF(frames, g.i - 1, e[1])
                             /\ HoldAll(preds, e[2])
                             /\ e[2] \notin Initial }
      inits == { s \in Initial : HoldAll(preds, s) }
  IN  { [init |-> FALSE, pre |-> FullModel(g.cube, e)] : e \in steps }
        \cup { [init |-> TRUE, pre |-> InitModel(s)] : s \in inits }

TryAgain(m, old) ==
  LET gen == Top.gen @@ [pre |-> m.pre, init |-> m.init, old |-> old,
                         prev |-> F(frames, Top.gen.i - 1)]
      waiting == [Top EXCEPT !.gen = [gen EXCEPT !.state = IF m.init THEN "propose" ELSE "may"]]
  IN  stack' = WithTop(waiting)
                 \o (IF m.init THEN <<>>
                     ELSE <<Activation({Goal(KeptOf(m.pre), Top.gen.i - 1, <<>>)})>>)

\* The predicates are enough, or one of those that slip through is tried.
BlockWith(preds, slips, old) ==
  IF slips = {}
  THEN \E small \in BOOLEAN :
         Learn(HighestFrame(Top.gen.i, Reduced(preds, Targets(F(frames, Top.gen.i - 1))), small))
  ELSE /\ \E m \in slips : TryAgain(m, old)
       /\ UNCHANGED frames

CheckPredicates ==
  /\ phase = "block" /\ stack # <<>> /\ Top.gen.state = "check"
  /\ LET cube == Top.gen.cube
         info == InfoOf(cube)
     IN  \E ci \in CexInfos(cexInfo, cube, info) :
           /\ cache' = (DOMAIN cube :> info) @@ cache
           /\ cexInfo' = (cube :> ci) @@ cexInfo
           /\ BlockWith(ci.preds, SlipsThrough(ci.preds), Inserted(info))
  /\ UNCHANGED <<cegar, k, known, cex, phase, verdict>>

\* The models the learner takes the values from.
LearnerModels(g) ==
  IF g.init THEN { <<s, s>> : s \in { x \in States : InCube(g.pre, x) /\ ~InCube(g.cube, x) } }
  ELSE { e \in Rel : InCube(g.pre, e[1]) /\ ~InCube(g.cube, e[2]) }

\* The terms of the cube become those of b, and the predicates are tried.
UseTerms(g, b, targets) ==
  \E ci \in CexInfos(cexInfo, g.cube, b.info) :
    /\ cache' = (DOMAIN g.cube :> b.info) @@ cache
    /\ known' = b.known
    /\ cexInfo' = (g.cube :> ci) @@ cexInfo
    /\ IF \A t \in targets : ~HoldAll(ci.preds, t)
       THEN stack' = WithTop([Top EXCEPT !.gen =
              [state |-> "check", i |-> g.i, cube |-> g.cube, next |-> g.next]])
       ELSE UNCHANGED stack
    /\ UNCHANGED <<verdict, phase>>

\* The solver gives one of the models, which may teach nothing new.
UseOneOf(g, book, books) ==
  \/ /\ book.info.stage = "EXTRACTBITS" \/ books = {} \/ \E b \in books : ~Grew(book, b)
     /\ Stop("assertion") /\ UNCHANGED terms
  \/ /\ book.info.stage # "EXTRACTBITS"
     /\ \E b \in books : /\ Grew(book, b)
                         /\ UseTerms(g, b, Targets({ s \in g.prev : InCube(g.pre, s) }))

\* propose_new_terms, one round.
ProposeNewTerms ==
  /\ phase = "block" /\ stack # <<>> /\ Top.gen.state = "propose"
  /\ LET g == Top.gen
         book == [info |-> cache[DOMAIN g.cube], known |-> known]
     IN  UseOneOf(g, book, { GetMoreTerms(sg.ts, book, DOMAIN g.cube, e, g.init) :
                              e \in LearnerModels(g) })
  /\ UNCHANGED <<cegar, k, frames, cex>>

-----------------------------------------------------------------------------
(* refine() and OpInpAbstractor::refine_with_constraints                   *)

At(p) == IF p <= Len(cex) THEN Cube(cex[p]) ELSE { s \in States : Bad(s) }

\* The states of position p on the paths that fit the trace up to p + 1.
OnPath(p) ==
  LET posts(S) == { e[2] : e \in { f \in Rel : f[1] \in S } }
      after == FoldLeft(LAMBDA S, q : posts(S) \cap At(q), Initial \cap At(1),
                        [q \in 1..p - 1 |-> q + 1])
  IN  { e[1] : e \in { f \in Rel : f[1] \in after /\ f[2] \in At(p + 1) } }

ArgsAt(op, s) == [j \in ArgsOf(op.original) |-> Eval(op.original[j], s)]

\* The operators of position p that do not have the value of their arguments.
Impossible(p, s) ==
  { op \in sg.ops : op.result \in DOMAIN cex[p] /\ Eval(op.original, s) # s[op.result] }

AxiomOf(op, s) ==
  Implies(Conj({ Equal(op.original[j], BVVal(ArgsAt(op, s)[j], WidthOf(sg.ts, op.original[j]))) :
                   j \in ArgsOf(op.original) }),
          Equal(Var(op.result), BVVal(Eval(op.original, s), sg.ts.sort[op.result])))

\* At each position a model of its own is looked at.
Refine ==
  /\ phase = "refine"
  /\ LET none == /\ \A p \in DOMAIN cex : \E s \in OnPath(p) : Impossible(p, s) = {}
                 /\ Stop("FALSE")
                 /\ UNCHANGED axioms
         some(p) == /\ \A q \in 1..p - 1 : \E s \in OnPath(q) : Impossible(q, s) = {}
                    /\ \E s \in OnPath(p) :
                         /\ Impossible(p, s) # {}
                         /\ axioms' = axioms \cup { AxiomOf(op, s) : op \in Impossible(p, s) }
                    /\ phase' = IF k < 1 THEN "step" ELSE "block"
                    /\ stack' = IF k < 1 THEN <<>> ELSE <<Activation({})>>
                    /\ UNCHANGED verdict
     IN  none \/ \E p \in DOMAIN cex : some(p)
  /\ UNCHANGED <<sg, k, frames, terms, cex>>

SgNext ==
  \/ Step01
  \/ ReachesBad
  \/ Propagate
  \/ stack # <<>> /\ \E g \in Top.goals : TopGoal(g)
  \/ CheckPredicates
  \/ ProposeNewTerms
  \/ Refine

SgSpec == SgInit /\ [][SgNext]_sgVars

-----------------------------------------------------------------------------
\* The states the system is in after n steps, as it was before abstraction.
ConcAfter == [sy \in AllPrepared |->
  FoldLeft(LAMBDA acc, n : Append(acc, UNION { Post(sy.conc, s, <<>>) : s \in acc[n] }),
           <<InitialStates(sy.conc)>>, [n \in 1..MaxFrames + 2 |-> n])]

\* Whichever state of a goal of block_all the system is in, with some value of
\* what has no update and is not in the cube it steps into the next goal, and
\* from the last into bad: the partial model left out nothing a step needs (a
\* counterexample is a chain of goals).
GoalsReachBad ==
  stack # <<>> =>
    \A g \in stack[1].goals : \A s \in Cube(g.cube) : HoldAll(axioms, s) =>
      \E e \in Rel : /\ InCube(g.cube, e[1])
                     /\ \A v \in DOMAIN sg.ts.updates : e[1][v] = s[v]
                     /\ IF g.next = <<>> THEN Bad(e[2]) ELSE InCube(g.next[1], e[2])

\* TRUE only where no bad state can be reached.
TrueIsSound ==
  verdict = "TRUE" => \A reached \in Range(ConcAfter[sg]) : \A s \in reached : ~Bad(s)

\* "REFINE_NONE: no refinement necessary (e.g. concrete)"
\* (core/refineresult.h): the system has a run as long as the trace to bad.
FalseIsConcrete ==
  verdict = "FALSE" => \E s \in ConcAfter[sg][Len(cex) + 1] : Bad(s)
=============================================================================
