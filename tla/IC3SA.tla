------------------------------- MODULE IC3SA -------------------------------
(***************************************************************************)
(* IC3 with syntax-guided abstraction (engines/ic3sa.cpp).  A cube is the  *)
(* partition of the system's terms by their values in a model, projected   *)
(* on the variables that justify the step to the next cube; refine()       *)
(* unrolls a trace of cubes with concrete values, and what cannot be       *)
(* unrolled becomes a path axiom whose terms refine the partition.         *)
(*                                                                         *)
(* The search that asks for predecessors is that of IC3Base; here it is    *)
(* any chain of them, back from bad to an initial state.                   *)
(***************************************************************************)
EXTENDS TransitionSystem

CONSTANTS SaSystems,       \* systems [ts, bools, bad] (ts functional, without inputs) with
                           \* func, options_.ic3sa_func_refine_
          TermLevels,      \* options_.ic3sa_initial_terms_lvl_
          MaxTrace,        \* bound: the longest trace of cubes
          MaxLemmas        \* bound: the refinements of one run

VARIABLES
  sa,          \* the system: conc_ts_, its Boolean variables and bad_
  predset,     \* predset_
  termAbstraction,       \* term_abstraction_
  projection,  \* projection_set_
  lemmas,      \* the path axioms learned
  rel,         \* the pairs of states of ts_.trans()
  trace,       \* cex_, from the earliest cube on; a cube is a set of literals
  saPhase,       \* where the search or the refinement is
  pathStart,   \* ic3sa_refine_value: p, the values so far and the length
  outcome      \* what refine() answered last

saVars == <<sa, predset, termAbstraction, projection, lemmas, rel, trace, saPhase, pathStart, outcome>>

-----------------------------------------------------------------------------
(* Terms (utils/term_walkers.cpp, term_analysis.cpp).                      *)

RECURSIVE SubTerms(_)
SubTerms(t) == {t} \cup UNION { SubTerms(t[i]) : i \in ArgsOf(t) }

BoolOps == {"not", "and", "or", "implies", "xor"}

RECURSIVE IsBool(_, _)
IsBool(sy, t) ==
  CASE t[1] = "var" -> t[2] \in sy.bools \/ \E v \in sy.bools : sy.ts.nextMap[v] = t[2]
    [] t[1] = "ite" -> IsBool(sy, t[3])
    [] OTHER -> t[1] \in BoolOps \cup {"equal", "ult"}

\* is_predicate, symbols included; an equality of Booleans is an operator.
IsPredicate(sy, t) ==
  /\ IsBool(sy, t)
  /\ t[1] \notin BoolOps \cup {"ite"}
  /\ ~(t[1] = "equal" /\ IsBool(sy, t[2]))

Leaves(t) == { s \in SubTerms(t) : ArgsOf(s) = {} }

Conjunction(ts) == FoldSet(LAMBDA t, acc : IF acc = True THEN t ELSE And(acc, t), True, ts)

RECURSIVE ConjunctivePartition(_)
ConjunctivePartition(t) ==
  IF t[1] = "and" THEN ConjunctivePartition(t[2]) \cup ConjunctivePartition(t[3]) ELSE {t}

smart_not(t) == IF t[1] = "not" THEN t[2] ELSE Not(t)

\* Predicates and words of terms; ites are not collected, their parts are.
PredicatesIn(sy, ts) == { p \in UNION { SubTerms(t) : t \in ts } : IsPredicate(sy, p) }
Words(sy, ts) ==
  { t \in UNION { SubTerms(u) : u \in ts } : ~IsBool(sy, t) /\ t[1] # "ite" }

CurrOnly(sy, ts) == { t \in ts : OnlyCurr(sy.ts, t) }

-----------------------------------------------------------------------------
(* States and steps.                                                       *)

SaStates(sy) == Valuations(sy.ts.statevars, sy.ts.sort)
OfNext(sy, s) == Renamed(s, sy.ts.nextMap)
StepEnv(sy, e) == e[1] @@ OfNext(sy, e[2])

CubeStates(sy, c) == { s \in SaStates(sy) : HoldAll(c, s) }

SaInitial(sy) == { s \in SaStates(sy) : HoldAll(sy.ts.init, s) }

\* abstract(): ts_ has the meaning of conc_ts_ and can be constrained further.
Concrete(sy) ==
  { e \in SaStates(sy) \X SaStates(sy) : HoldAll(sy.ts.trans, StepEnv(sy, e)) }

\* Variables with no update are the inputs.
ImplicitInputs(sy) == { v \in sy.ts.statevars : ~HasUpdate(sy.ts, v) }

-----------------------------------------------------------------------------
(* justify_coi: the symbols that make a term have its value in a model.    *)

\* Seeded fault: an implication is taken for controlled when it is false.
IsControlledByFalse(op, value) ==
  (op \in {"and", "implies"} /\ value = 0) \/ (op = "or" /\ value = 1)

IsControlled(op, value) ==
  (op = "and" /\ value = 0) \/ (op \in {"or", "implies"} /\ value = 1)

\* The first argument with the controlling value.
GetControlling(t, env) ==
  LET first == IF t[1] = "implies" THEN smart_not(t[2]) ELSE t[2]
      controllingValue == IF t[1] = "and" THEN 0 ELSE 1
  IN  IF Eval(first, env) = controllingValue THEN first ELSE t[3]

\* A term that is neither an ite nor controlled adds all its symbols.
RECURSIVE JustifyCoi(_, _, _)
JustifyCoi(sy, t, env) ==
  LET updated == { v \in DOMAIN sy.ts.updates : t = Var(sy.ts.nextMap[v]) }
  IN  CASE t[1] = "ite" ->
             JustifyCoi(sy, t[2], env)
               \cup JustifyCoi(sy, IF Holds(t[2], env) THEN t[3] ELSE t[4], env)
        [] IsBool(sy, t) /\ IsControlled(t[1], Eval(t, env)) ->
             JustifyCoi(sy, GetControlling(t, env), env)
        [] OTHER ->
             UNION { JustifyCoi(sy, t[i], env) : i \in ArgsOf(t) }
               \cup UNION { JustifyCoi(sy, sy.ts.updates[v], env) : v \in updated }
               \cup FreeSymbols(t)

\* The constraints of the system and the axioms that became constraints.
Constraints(sy, axioms) ==
  { sy.ts.constraints[j] : j \in DOMAIN sy.ts.constraints }
    \cup { <<l, TRUE>> : l \in CurrOnly(sy, axioms) }

\* The variables to project on; e is the model of the step into the cube c.
CoiSymbols(sy, always, axioms, c, e) ==
  LET env == StepEnv(sy, e)
      justified(t) == JustifyCoi(sy, t, env)
  IN  (always
         \cup justified(NextTerm(sy.ts, Conjunction(c)))
         \cup UNION { justified(k[1])
                        \cup (IF k[2] THEN justified(NextTerm(sy.ts, k[1])) ELSE {}) :
                      k \in Constraints(sy, axioms) })
      \cap sy.ts.statevars

-----------------------------------------------------------------------------
(* Cubes.                                                                  *)

Listed(ts) == FoldSet(LAMBDA t, list : Append(list, t), <<>>, ts)

IsValue(t) == t[1] = "val"

\* The term that stands for a class of equal terms: a symbol, else no value.
Representative(class) ==
  LET ranked(R(_)) == SelectSeq(class, R)
      symbols == ranked(LAMBDA t : t[1] = "var")
      others  == ranked(LAMBDA t : ~IsValue(t))
  IN  IF symbols # <<>> THEN symbols[1] ELSE IF others # <<>> THEN others[1] ELSE class[1]

\* get_equivalence_classes_from_model: the terms over the variables kept.
Classes(sy, ts, kept, s) ==
  LET inProjection == { t \in ts : FreeSymbols(t) \subseteq kept }
  IN  { Listed({ t \in inProjection : Eval(t, s) = x }) :
          x \in { Eval(t, s) : t \in inProjection } }

\* construct_partition: a chain of equalities in each class, a disequality
\* between each two classes.
Partition(classes) ==
  LET reps == Listed({ Representative(class) : class \in classes })
  IN  UNION { { Equal(class[j], class[j + 1]) : j \in 1..Len(class) - 1 } : class \in classes }
        \cup { Not(Equal(reps[p[1]], reps[p[2]])) :
                 p \in { q \in (DOMAIN reps) \X (DOMAIN reps) :
                           q[1] < q[2] /\ ~(IsValue(reps[q[1]]) /\ IsValue(reps[q[2]])) } }

\* The literals over the variables kept that hold in s: get_model_ic3formula
\* keeps all of them, predecessor_generalization those that justify the step.
ProjectedCube(sy, preds, ts, kept, s) ==
  { IF Holds(p, s) THEN p ELSE Not(p) : p \in { q \in preds : FreeSymbols(q) \subseteq kept } }
    \cup Partition(Classes(sy, ts, kept, s))

ModelCube(s) == ProjectedCube(sa, predset, termAbstraction, sa.ts.statevars, s)

-----------------------------------------------------------------------------
(* initialize: the terms of the first partition, by level.                 *)

InitialTerms(sy, level) ==
  LET all == sy.ts.init \cup sy.ts.trans \cup {sy.bad}
      leaves == UNION { Leaves(t) : t \in all }
  IN  CASE level = 0 -> leaves
        [] level = 1 -> leaves \cup PredicatesIn(sy, {sy.bad})
        [] level = 2 -> leaves \cup PredicatesIn(sy, all)
        [] level = 3 -> sy.ts.init \cup {sy.bad}
        [] level = 4 -> all

BadTrace(sy) == <<{sy.bad}>>
NoPath == [p |-> {}, vals |-> <<>>, at |-> 0]

SaStart(sy, level) ==
  /\ sa = sy
  /\ predset = CurrOnly(sy, PredicatesIn(sy, InitialTerms(sy, level)))
  /\ termAbstraction = CurrOnly(sy, Words(sy, InitialTerms(sy, level)))
  /\ projection = {}
  /\ lemmas = {}
  /\ rel = Concrete(sa)
  /\ trace = BadTrace(sa)
  /\ saPhase = "search"
  /\ pathStart = NoPath
  /\ outcome = "none"

SaInit == \E sy \in SaSystems, level \in TermLevels : SaStart(sy, level)

-----------------------------------------------------------------------------
(* The search, backwards.                                                  *)

GoalStates == CubeStates(sa, trace[1])

\* Models of a step into the first cube from outside of it.
Models == { e \in rel : e[2] \in GoalStates /\ e[1] \notin GoalStates /\ ~Holds(sa.bad, e[1]) }

\* predecessor_generalization: the cube that takes the place of the model.
Generalize(e) ==
  /\ saPhase = "search"
  /\ Len(trace) + 1 < MaxTrace
  /\ trace' = <<ProjectedCube(sa, predset, termAbstraction,
                              CoiSymbols(sa, projection, lemmas, trace[1], e), e[1])>> \o trace
  /\ UNCHANGED <<sa, predset, termAbstraction, projection, lemmas, rel, saPhase, pathStart, outcome>>

\* At F[0] the model itself is the first cube, and the trace is complete.
ReachInitial(e) ==
  /\ saPhase = "search"
  /\ Holds(Conjunction(sa.ts.init), e[1])
  /\ trace' = <<ModelCube(e[1])>> \o trace
  /\ saPhase' = IF sa.func THEN "functional" ELSE "value"
  /\ pathStart' = [NoPath EXCEPT !.p = sa.ts.init]
  /\ UNCHANGED <<sa, predset, termAbstraction, projection, lemmas, rel, outcome>>

-----------------------------------------------------------------------------
(* refine()                                                                *)

RefineNone ==
  /\ outcome' = "REFINE_NONE"
  /\ saPhase' = "done"
  /\ UNCHANGED <<sa, predset, termAbstraction, projection, lemmas, rel, trace, pathStart>>

\* A lemma over current variables is made a constraint, of the next state too.
LemmaHolds(sy, lemma, e) ==
  /\ Holds(lemma, StepEnv(sy, e))
  /\ OnlyCurr(sy.ts, lemma) => Holds(lemma, e[2])

\* Assert the lemma, mine it for terms, and let the search start again.
LearnLemma(lemma) ==
  LET newPreds == CurrOnly(sa, PredicatesIn(sa, {lemma})) \ predset
      newTerms == CurrOnly(sa, Words(sa, {lemma})) \ termAbstraction
  IN  /\ lemmas' = lemmas \cup {lemma}
      /\ rel' = { e \in rel : LemmaHolds(sa, lemma, e) }
      /\ predset' = predset \cup newPreds
      /\ termAbstraction' = termAbstraction \cup newTerms
      /\ projection' = projection \cup UNION { FreeSymbols(t) : t \in newPreds \cup newTerms }
      /\ outcome' = "REFINE_SUCCESS"
      /\ trace' = BadTrace(sa)
      /\ saPhase' = "search"
      /\ pathStart' = NoPath
      /\ UNCHANGED sa

\* The unsat cores considered: all assumptions and one that is minimal.
Cores(assumps, Unsat(_)) ==
  {assumps, FoldSet(LAMBDA a, core : IF Unsat(core \ {a}) THEN core \ {a} ELSE core,
                    assumps, assumps)}

\* Seeded fault: each of the core is negated, instead of all together.
LemmaOfEach(core, vals) == Substitute(Conjunction({ smart_not(a) : a \in core }), vals)

LemmaOf(core, vals) == Substitute(smart_not(Conjunction(core)), vals)

\* ic3sa_refine_functional: what is assumed of time j.
UnrolledAt(u, j) ==
  LET at(ts) == UNION { ConjunctivePartition(AtTime(u, t, j)) : t \in ts }
  IN  at(trace[j + 1]) \cup at({ k[1] : k \in Constraints(sa, lemmas) })
        \cup (IF j = 0 THEN at(sa.ts.init) ELSE {})

\* Unroll the trace; the lemma is what contradicts it, with the old values of
\* the inputs in place of the inputs.  A lemma that is valid may be simplified
\* to a value: then the values refine it.
RefineFunctional ==
  /\ saPhase = "functional"
  /\ LET last == Len(trace) - 1
         u == FunctionalCacheAtTime(NewUnroller(sa.ts), sa.ts, 0, last)
         inputs(j) == { Timed(v, i) : v \in ImplicitInputs(sa), i \in 0..j }
         symbols == { Timed(v, 0) : v \in sa.ts.statevars } \cup inputs(last)
         envs == Valuations(symbols, [s \in symbols |-> sa.ts.sort[
                   CHOOSE v \in sa.ts.statevars : \E i \in 0..last : Timed(v, i) = s]])
         upTo(j) == UNION { UnrolledAt(u, i) : i \in 0..j }
         models == [j \in 0..last |-> { env \in envs : HoldAll(upTo(j), env) }]
         failing == { j \in 0..last : models[j] = {} }
         m == CHOOSE j \in failing : \A i \in failing : j <= i
         vals == IF m < 2 THEN {<<>>}
                 ELSE { [s \in inputs(m - 2) |-> Val(env[s])] : env \in models[m - 1] }
     IN  IF failing = {} THEN RefineNone
         ELSE \E value \in vals :
              \E core \in Cores(upTo(m), LAMBDA c : ~\E env \in envs : HoldAll(c, env)) :
                LET lemma == Untime(sa.ts, LemmaOf(core, value), last)
                IN  \/ LearnLemma(lemma)
                    \/ /\ \A e \in Concrete(sa) : Holds(lemma, StepEnv(sa, e))
                       /\ saPhase' = "value"
                       /\ UNCHANGED <<sa, predset, termAbstraction, projection, lemmas, rel, trace,
                                      pathStart, outcome>>

\* ic3sa_refine_value, one turn: the next cube is reached from the values p
\* has, or the lemma is what forbids it.
ValueModels(assumps) ==
  LET timed == UNION { FreeSymbols(t) : t \in pathStart.p } \ sa.ts.statevars
      envs == Valuations(timed, [s \in timed |-> sa.ts.sort[
                CHOOSE v \in sa.ts.statevars : s = Timed(v, pathStart.at - 1)]])
  IN  { <<e, env>> \in rel \X envs : HoldAll(assumps, StepEnv(sa, e) @@ env) }

ValueAssumps ==
  pathStart.p \cup trace[pathStart.at + 1]
    \cup { NextTerm(sa.ts, t) : t \in trace[pathStart.at + 2] }

ValueStep(e) ==
  LET subst == [v \in sa.ts.statevars |->
                  IF HasUpdate(sa.ts, v) THEN Val(e[1][v]) ELSE Var(Timed(v, pathStart.at))]
  IN  /\ pathStart' =
            [p    |-> { Equal(Var(v), Substitute(sa.ts.updates[v], subst)) :
                        v \in DOMAIN sa.ts.updates },
             vals |-> [s \in { Timed(v, pathStart.at) : v \in ImplicitInputs(sa) } |->
                        Val(e[1][CHOOSE v \in ImplicitInputs(sa) : Timed(v, pathStart.at) = s])],
             at   |-> pathStart.at + 1]
      /\ UNCHANGED <<sa, predset, termAbstraction, projection, lemmas, rel, trace, saPhase, outcome>>

RefineValue ==
  /\ saPhase = "value"
  /\ IF pathStart.at + 1 = Len(trace) THEN RefineNone
     ELSE IF ValueModels(ValueAssumps) # {}
     THEN \E e \in { model[1] : model \in ValueModels(ValueAssumps) } : ValueStep(e)
     ELSE \E core \in Cores(ValueAssumps, LAMBDA c : ValueModels(c) = {}) :
            LearnLemma(LemmaOf(core, pathStart.vals))

SaNext ==
  \/ \E e \in Models : Cardinality(lemmas) < MaxLemmas /\ (Generalize(e) \/ ReachInitial(e))
  \/ RefineFunctional
  \/ RefineValue

SaSpec == SaInit /\ [][SaNext]_saVars

-----------------------------------------------------------------------------
\* The variables a predecessor is projected on are enough: from every state
\* that agrees with the model on them the system can step into the cube
\* (ic3sa.h:164, "sufficient for a satisfying assignment").
JustifiedEnough ==
  saPhase = "search" =>
    \A e \in Models :
      LET kept == CoiSymbols(sa, projection, lemmas, trace[1], e)
      IN  \A s \in SaStates(sa) :
            (\A v \in kept : s[v] = e[1][v])
              => \E f \in Concrete(sa) : f[1] = s /\ f[2] \in GoalStates

Reachable(sy, relation) ==
  LET RECURSIVE Grow(_)
      Grow(seen) == LET more == seen \cup { e[2] : e \in { f \in relation : f[1] \in seen } }
                    IN  IF more = seen THEN seen ELSE Grow(more)
  IN  Grow(SaInitial(sy))

\* What the path axioms take away never hides a counterexample (the comment
\* at ic3sa.cpp:270; refinement adds axioms, not assumptions).
LemmasKeepBad ==
  (\E s \in Reachable(sa, Concrete(sa)) : Holds(sa.bad, s))
    => \E t \in Reachable(sa, rel) : Holds(sa.bad, t)
=============================================================================
