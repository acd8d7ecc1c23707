--------------------------- MODULE TransitionSystem ---------------------------
(***************************************************************************)
(* The class of transition systems (core/ts.cpp, core/rts.cpp): what each  *)
(* method does to an object, as an operator from an object to an object.   *)
(* init and trans are the sets of their conjuncts.  An exception or a      *)
(* failed assertion ends the caller: it is recorded in the object, and no  *)
(* method does anything after it.                                          *)
(*                                                                         *)
(* Timed copies of terms (core/unroller.cpp, core/functional_unroller.cpp).*)
(* An unroller keeps, for each time it was asked about, the map it         *)
(* substitutes with, and refers to a system that may get more variables.   *)
(* The functional one writes a state variable as a term over the symbols   *)
(* of earlier times; every interval steps it makes fresh symbols, which    *)
(* constraints give their meaning.                                         *)
(***************************************************************************)
EXTENDS Integers, Sequences, FiniteSets, FiniteSetsExt, SequencesExt, Functions, TLC

(* The terms of smt-switch, the solver interface outside the repository,   *)
(* as the code builds them: a symbol is <<"var", name>>, a value is        *)
(* <<"val", n>>, and an operator is applied as <<op, argument, ...>>.      *)
(* Booleans are the values 0 and 1, like bit-vectors of width 1.           *)

Var(v)       == <<"var", v>>
Val(n)       == <<"val", n>>
True         == Val(1)
Not(t)       == <<"not", t>>
And(t, u)    == <<"and", t, u>>
Or(t, u)     == <<"or", t, u>>
Implies(t, u) == <<"implies", t, u>>
Equal(t, u)  == <<"equal", t, u>>
Ite(c, t, u) == <<"ite", c, t, u>>
BVUlt(t, u)  == <<"ult", t, u>>
BVInc(t, w)  == <<"inc", t, w>>      \* t plus one, in w bits
Xor(t, u)    == <<"xor", t, u>>

\* A bit-vector operator over arguments of w bits; the value is BVValue's.
BV(op, w, t, u)    == <<"bv", op, w, t, u>>
Extract(hi, lo, t) == <<"extract", hi, lo, t>>

\* The arguments of a term that are terms.
ArgsOf(t) == CASE t[1] \in {"var", "val"} -> {}
               [] t[1] = "inc"            -> {2}
               [] t[1] = "bv"             -> {4, 5}
               [] t[1] = "extract"        -> {4}
               [] OTHER                   -> 2..Len(t)

\* get_free_symbolic_consts
RECURSIVE FreeSymbols(_)
FreeSymbols(t) ==
  IF t[1] = "var" THEN {t[2]} ELSE UNION { FreeSymbols(t[i]) : i \in ArgsOf(t) }

\* solver_->substitute, with a map from symbols to terms.
RECURSIVE Substitute(_, _)
Substitute(t, map) ==
  IF t[1] = "var" THEN IF t[2] \in DOMAIN map THEN map[t[2]] ELSE t
  ELSE [i \in 1..Len(t) |-> IF i \in ArgsOf(t) THEN Substitute(t[i], map) ELSE t[i]]

\* The signed value of a bit-vector of w bits.
Signed(x, w) == IF x >= 2^(w - 1) THEN x - 2^w ELSE x

\* The bits of x and y, from the lowest, combined by op.
BitsOf(op(_, _), w, x, y) ==
  FoldSet(LAMBDA i, sum : sum + 2^i * op((x \div 2^i) % 2, (y \div 2^i) % 2), 0, 0..w - 1)

Abs(n) == IF n < 0 THEN -n ELSE n

\* What SMT-LIB says of the operators, division by zero included: quotients are
\* truncated, and the sign of a remainder is that of the dividend.
Quotient(x, y) ==
  IF y = 0 THEN IF x < 0 THEN 1 ELSE -1
  ELSE (IF (x < 0) = (y < 0) THEN 1 ELSE -1) * (Abs(x) \div Abs(y))

Remainder(x, y) == IF y = 0 THEN x ELSE x - Quotient(x, y) * y
Modulo(r, y) == IF r # 0 /\ (r < 0) # (y < 0) THEN r + y ELSE r

\* With the arguments as signed numbers.
SignedValue(op, w, x, y) ==
  CASE op = "slt"  -> IF x < y THEN 1 ELSE 0
    [] op = "sle"  -> IF x <= y THEN 1 ELSE 0
    [] op = "sdiv" -> Quotient(x, y) % 2^w
    [] op = "srem" -> Remainder(x, y) % 2^w
    [] op = "smod" -> Modulo(Remainder(x, y), y) % 2^w

BVValue(op, w, x, y) ==
  CASE op = "add"  -> (x + y) % 2^w
    [] op = "sub"  -> (x - y) % 2^w
    [] op = "mul"  -> (x * y) % 2^w
    [] op = "and"  -> BitsOf(LAMBDA a, b : a * b, w, x, y)
    [] op = "or"   -> BitsOf(LAMBDA a, b : IF a + b > 0 THEN 1 ELSE 0, w, x, y)
    [] op = "xor"  -> BitsOf(LAMBDA a, b : (a + b) % 2, w, x, y)
    [] op = "ult"  -> IF x < y THEN 1 ELSE 0
    [] op = "ule"  -> IF x <= y THEN 1 ELSE 0
    [] op = "udiv" -> IF y = 0 THEN 2^w - 1 ELSE x \div y
    [] op = "urem" -> IF y = 0 THEN x ELSE x % y
    [] op = "shl"  -> IF y >= w THEN 0 ELSE (x * 2^y) % 2^w
    [] op = "lshr" -> IF y >= w THEN 0 ELSE x \div 2^y
    [] op = "ashr" -> (Signed(x, w) \div 2^(IF y >= w THEN w ELSE y)) % 2^w
    [] op = "concat" -> x * 2^w + y      \* w is the width of the second
    [] op \in {"slt", "sle", "sdiv", "srem", "smod"} -> SignedValue(op, w, Signed(x, w), Signed(y, w))

\* The value of a term where the symbols have the values env gives them.
RECURSIVE Eval(_, _)
Eval(t, env) ==
  LET e(i) == Eval(t[i], env)
      Bit(b) == IF b THEN 1 ELSE 0
  IN  CASE t[1] = "var"     -> env[t[2]]
        [] t[1] = "val"     -> t[2]
        [] t[1] = "not"     -> 1 - e(2)
        [] t[1] = "and"     -> Bit(e(2) = 1 /\ e(3) = 1)
        [] t[1] = "or"      -> Bit(e(2) = 1 \/ e(3) = 1)
        [] t[1] = "implies" -> Bit(e(2) = 1 => e(3) = 1)
        [] t[1] = "equal"   -> Bit(e(2) = e(3))
        [] t[1] = "ite"     -> IF e(2) = 1 THEN e(3) ELSE e(4)
        [] t[1] = "ult"     -> Bit(e(2) < e(3))
        [] t[1] = "inc"     -> (e(2) + 1) % 2^t[3]
        [] t[1] = "xor"     -> (e(2) + e(3)) % 2
        [] t[1] = "bv"      -> BVValue(t[2], t[3], e(4), e(5))
        [] t[1] = "extract" -> (e(4) \div 2^t[3]) % 2^(t[2] - t[3] + 1)

Holds(t, env) == Eval(t, env) = 1

HoldAll(terms, env) == \A t \in terms : Holds(t, env)

\* The valuations of a set of symbols of the given widths.
Valuations(symbols, width) ==
  FoldSet(LAMBDA v, envs : { (v :> x) @@ env : x \in 0..(2^width[v] - 1), env \in envs },
          {<<>>}, symbols)

-----------------------------------------------------------------------------

\* A system of the solver whose symbols have the widths sort.
FreshTs(functional, sort) ==
  [ init |-> {}, trans |-> {}, statevars |-> {}, inputvars |-> {},
    nextMap |-> <<>>, updates |-> <<>>, noUpdates |-> {}, constraints |-> <<>>,
    named |-> <<>>, functional |-> functional, deterministic |-> FALSE,
    sort |-> sort, failure |-> "none" ]

Fail(ts, kind) == IF ts.failure = "none" THEN [ts EXCEPT !.failure = kind] ELSE ts

\* The method goes on with new where ok holds and throws otherwise.
Try(ts, ok, new) ==
  IF ts.failure # "none" THEN ts ELSE IF ok THEN new ELSE Fail(ts, "exception")

NextVars(ts) == Range(ts.nextMap)
OnlyCurr(ts, t) == FreeSymbols(t) \subseteq ts.statevars
NoNext(ts, t) == FreeSymbols(t) \subseteq ts.statevars \cup ts.inputvars
KnownSymbols(ts, t) ==
  FreeSymbols(t) \subseteq ts.statevars \cup ts.inputvars \cup NextVars(ts)
NextTerm(ts, t) == Substitute(t, [v \in DOMAIN ts.nextMap |-> Var(ts.nextMap[v])])
NextName(v) == v \o ".next"

\* A valuation of symbols as one of the symbols the injection names gives them.
Renamed(env, names) ==
  [w \in { names[v] : v \in DOMAIN env } |-> env[CHOOSE v \in DOMAIN env : names[v] = w]]

-----------------------------------------------------------------------------
NameTerm(ts, name, t) ==
  Try(ts, name \in DOMAIN ts.named => ts.named[name] = t,
      [ts EXCEPT !.named = (name :> t) @@ @])

\* solver_->make_symbol: a name can be used once in a solver.
MakeSymbol(ts, v, width) ==
  Try(ts, v \notin DOMAIN ts.sort, [ts EXCEPT !.sort = (v :> width) @@ @])

AddStatevar(ts, cv, nv) ==
  LET added == [ts EXCEPT !.inputvars = @ \ {cv, nv},
                          !.statevars = @ \cup {cv},
                          !.noUpdates = @ \cup {cv},
                          !.nextMap = (cv :> nv) @@ @]
  IN  Try(ts, /\ cv \notin ts.statevars \cup NextVars(ts)
              /\ nv \notin ts.statevars \cup NextVars(ts),
          NameTerm(NameTerm(added, cv, Var(cv)), nv, Var(nv)))

MakeStatevar(ts, v, width) ==
  LET symbols == MakeSymbol(MakeSymbol([ts EXCEPT !.deterministic = FALSE], v, width),
                            NextName(v), width)
  IN  Try(ts, TRUE, AddStatevar(symbols, v, NextName(v)))

AddInputvar(ts, v) ==
  Try(ts, v \notin ts.statevars \cup ts.inputvars \cup NextVars(ts),
      NameTerm([ts EXCEPT !.inputvars = @ \cup {v}], v, Var(v)))

MakeInputvar(ts, v, width) == AddInputvar(MakeSymbol(ts, v, width), v)

\* promote_inputvar
PromoteInputvar(ts, v) ==
  LET symbol == MakeSymbol([ts EXCEPT !.inputvars = @ \ {v}, !.deterministic = FALSE],
                           NextName(v), ts.sort[v])
  IN  Try(ts, v \in ts.inputvars, AddStatevar(symbol, v, NextName(v)))

\* promote_inputvars_in
PromoteInputvarsIn(ts, t) ==
  FoldSet(LAMBDA v, acc : PromoteInputvar(acc, v), ts, FreeSymbols(t) \cap ts.inputvars)

-----------------------------------------------------------------------------
SetInit(ts, init) ==
  Try(ts, \A t \in init : OnlyCurr(ts, t), [ts EXCEPT !.init = init])

ConstrainInit(ts, t) == Try(ts, OnlyCurr(ts, t), [ts EXCEPT !.init = @ \cup {t}])

AssignNext(ts, v, t) ==
  LET updates == (v :> t) @@ ts.updates
      done == [ts EXCEPT
        !.updates = updates,
        !.noUpdates = @ \ {v},
        !.trans = @ \cup {Equal(Var(ts.nextMap[v]), t)},
        !.deterministic = IF ts.functional /\ ts.constraints = <<>>
                          THEN Cardinality(DOMAIN updates) = Cardinality(ts.statevars)
                          ELSE @ ]
  IN  Try(ts, v \in ts.statevars /\ NoNext(ts, t) /\ v \notin DOMAIN ts.updates,
          IF ts.functional /\ v \notin ts.noUpdates THEN Fail(ts, "assertion") ELSE done)

AddInvar(ts, t) ==
  Try(ts, OnlyCurr(ts, t),
      [ts EXCEPT !.deterministic = FALSE,
                 !.init = @ \cup {t},
                 !.trans = @ \cup {t, NextTerm(ts, t)},
                 !.constraints = Append(@, <<t, TRUE>>)])

ConstrainInputs(ts, t) ==
  Try(ts, NoNext(ts, t),
      [ts EXCEPT !.deterministic = FALSE,
                 !.trans = @ \cup {t},
                 !.constraints = Append(@, <<t, TRUE>>)])

\* add_constraint
AddConstraint(ts, t, toInitAndNext) ==
  LET everywhere == toInitAndNext /\ OnlyCurr(ts, t)
  IN  Try(ts, NoNext(ts, t),
          [ts EXCEPT !.deterministic = FALSE,
                     !.init = IF everywhere THEN @ \cup {t} ELSE @,
                     !.trans = @ \cup (IF everywhere THEN {t, NextTerm(ts, t)} ELSE {t}),
                     !.constraints = Append(@, <<t, toInitAndNext>>)])

AddConstraints(ts, cs) ==
  FoldLeft(LAMBDA acc, c : AddConstraint(acc, c[1], c[2]), ts, cs)

-----------------------------------------------------------------------------
\* RelationalTransitionSystem
ConstrainTrans(ts, t) ==
  Try(ts, KnownSymbols(ts, t),
      [ts EXCEPT !.trans = @ \cup {t},
                 !.noUpdates = { v \in @ : ts.nextMap[v] \notin FreeSymbols(t) }])

SetTrans(ts, terms) ==
  FoldSet(LAMBDA t, acc : ConstrainTrans(acc, t), [ts EXCEPT !.trans = {}], terms)

-----------------------------------------------------------------------------
\* rebuild_trans_based_on_coi: the symbols of init stay in the system, their
\* updates do not.
RebuildTransBasedOnCoi(ts, stateVars, inputVars) ==
  LET kept == stateVars \cap DOMAIN ts.updates
      rebuilt == AddConstraints(
        [ts EXCEPT !.trans = { Equal(Var(ts.nextMap[v]), ts.updates[v]) : v \in kept },
                   !.constraints = <<>>], ts.constraints)
      vars  == stateVars \cup UNION { FreeSymbols(t) : t \in rebuilt.init }
      names == { n \in DOMAIN ts.named : \A v \in FreeSymbols(ts.named[n]) :
                   v \in vars \cup inputVars \cup { ts.nextMap[w] : w \in vars } }
  IN  Try(ts, TRUE,
          [rebuilt EXCEPT !.statevars = vars, !.inputvars = inputVars,
                          !.updates = [v \in kept |-> ts.updates[v]],
                          !.noUpdates = stateVars \ kept,
                          !.named = [n \in names |-> ts.named[n]]])

-----------------------------------------------------------------------------
(* What a system means.                                                    *)

InitialStates(ts) == { s \in Valuations(ts.statevars, ts.sort) : HoldAll(ts.init, s) }

\* The states a system may be in after s under the inputs in: the conjuncts
\* with one next-state variable restrict it, the others relate several.
Post(ts, s, in) ==
  LET now     == s @@ in
      nexts   == [t \in ts.trans |-> FreeSymbols(t) \cap NextVars(ts)]
      ofNone  == { t \in ts.trans : nexts[t] = {} }
      of(v)   == { t \in ts.trans : nexts[t] = {ts.nextMap[v]} }
      several == { t \in ts.trans : Cardinality(nexts[t]) > 1 }
      can(v)  == { x \in 0..(2^ts.sort[v] - 1) :
                     HoldAll(of(v), (ts.nextMap[v] :> x) @@ now) }
      posts   == FoldSet(LAMBDA v, envs : { (v :> x) @@ env : x \in can(v), env \in envs },
                         {<<>>}, ts.statevars)
  IN  IF ~HoldAll(ofNone, now) THEN {}
      ELSE { post \in posts : HoldAll(several, now @@ Renamed(post, ts.nextMap)) }

-----------------------------------------------------------------------------
Times(k) == [i \in 1..k + 1 |-> i - 1]

\* var_at_time
Timed(v, k) == v \o "@" \o ToString(k)

NumVars(ts) == Cardinality(ts.statevars) + Cardinality(ts.inputvars)

NewUnroller(ts) == [cache |-> <<>>, extra |-> <<>>, numVars |-> NumVars(ts)]

\* The map of time t for the variables the system has now.
TimedVars(ts, t) ==
  [v \in ts.statevars \cup ts.inputvars |-> Var(Timed(v, t))]
    @@ [n \in { ts.nextMap[v] : v \in ts.statevars } |->
          Var(Timed(CHOOSE v \in ts.statevars : ts.nextMap[v] = n, t + 1))]

UpTo(ts, cache, k) ==
  FoldLeft(LAMBDA maps, t : IF t < Len(maps) THEN maps ELSE Append(maps, TimedVars(ts, t)),
           cache, Times(k))

\* Seeded fault: only the map that is asked for is brought up to date.
VarCacheAtTimeOnly(u, ts, k) ==
  LET grown == UpTo(ts, u.cache, k)
  IN  IF NumVars(ts) > u.numVars
      THEN [u EXCEPT !.cache = [i \in DOMAIN grown |->
                                  IF i = k + 1 THEN TimedVars(ts, k) @@ grown[i] ELSE grown[i]],
                     !.numVars = NumVars(ts)]
      ELSE [u EXCEPT !.cache = grown]

\* var_cache_at_time: when there are more variables, every map is overwritten.
VarCacheAtTime(u, ts, k) ==
  LET grown == UpTo(ts, u.cache, k)
  IN  IF NumVars(ts) > u.numVars
      THEN [u EXCEPT !.cache = [i \in DOMAIN grown |-> TimedVars(ts, i - 1) @@ grown[i]],
                     !.numVars = NumVars(ts)]
      ELSE [u EXCEPT !.cache = grown]

\* at_time, once the map is there.
AtTime(u, t, k) == Substitute(t, u.cache[k + 1])

\* untime: back to the variable itself, whatever its time.
Untime(ts, t, k) ==
  Substitute(t, LET timed == { <<v, j>> : v \in ts.statevars \cup ts.inputvars, j \in 0..k }
                IN  [s \in { Timed(p[1], p[2]) : p \in timed } |->
                       Var((CHOOSE p \in timed : Timed(p[1], p[2]) = s)[1])])

-----------------------------------------------------------------------------
(* The functional unroller.                                                *)

HasUpdate(ts, v) == v \in DOMAIN ts.updates

\* Whether the map of time t, made when time k is asked for, has fresh symbols.
CreateNew(interval, k, t) == t = 0 \/ (interval # 0 /\ k % interval = 0)

FromBefore(ts, cache, v) == Substitute(ts.updates[v], cache[Len(cache)])

FunctionalMap(ts, cache, createNew) ==
  [v \in ts.statevars \cup ts.inputvars |->
     IF createNew \/ ~HasUpdate(ts, v) THEN Var(Timed(v, Len(cache)))
     ELSE FromBefore(ts, cache, v)]

\* Seeded fault: fresh symbols without their constraints.
MeaningNone(ts, cache, createNew) == {}

Meaning(ts, cache, createNew) ==
  IF cache = <<>> \/ ~createNew THEN {}
  ELSE { Equal(Var(Timed(v, Len(cache))), FromBefore(ts, cache, v)) :
           v \in { x \in ts.statevars : HasUpdate(ts, x) } }

\* FunctionalUnroller::var_cache_at_time: no map is overwritten later.
FunctionalCacheAtTime(u, ts, interval, k) ==
  FoldLeft(LAMBDA acc, t :
             IF t < Len(acc.cache) THEN acc
             ELSE LET new == CreateNew(interval, k, t)
                  IN  [acc EXCEPT !.cache = Append(@, FunctionalMap(ts, acc.cache, new)),
                                  !.extra = Append(@, Meaning(ts, acc.cache, new))],
           u, Times(k))
=============================================================================
