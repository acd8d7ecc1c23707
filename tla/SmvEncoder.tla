----------------------------- MODULE SmvEncoder -----------------------------
(***************************************************************************)
(* The SMV encoder (frontends/smv_encoder.cpp): the file is read into      *)
(* modules, they are written out as one module and that is read again,     *)
(* twice: first into modules, then item by item into a transition system.  *)
(* At the end a solver is asked, in another thread and with a timeout,     *)
(* whether the conditions of each case cover all values.                   *)
(* A file here is [modules, trees]: the modules with the texts of their    *)
(* expressions and with the expressions themselves (see SmvMeaning).       *)
(***************************************************************************)
EXTENDS SmvModules

CONSTANT SmvFiles

VARIABLES
  smv,        \* the file
  step,       \* what the constructor does next
  modules,    \* module_list
  items,      \* what is left to read of the module written last
  enc,        \* the system and the properties so far
  terms,      \* terms_, signedbv_ and unsignedbv_: nodes by name
  casecheck,  \* casecheck_
  checked,    \* how many of them were found to cover
  asserted,   \* the formulas asserted in the solver, one at each level
  outcome     \* "none", "accepted" or what the exception says

smvVars == <<smv, step, modules, items, enc, terms, casecheck, checked, asserted, outcome>>

SmvStart(f) ==
  /\ smv = f
  /\ step = "parse"
  /\ modules = <<>>
  /\ items = <<>>
  /\ enc = NewEncoder(FALSE, <<>>)
  /\ terms = <<>>
  /\ casecheck = <<>>
  /\ checked = 0
  /\ asserted = <<>>
  /\ outcome = "none"

SmvInit == \E f \in SmvFiles : SmvStart(f)

Refuse(why) == step' = "done" /\ outcome' = why

\* parse, with module_flat = false
ParseModules ==
  /\ step = "parse"
  /\ modules' = [name \in DOMAIN smv.modules |-> ModuleNode(smv.modules[name])]
  /\ step' = "flatten"
  /\ UNCHANGED <<smv, items, enc, terms, casecheck, checked, asserted, outcome>>

\* preprocess, with module_flat = false: the flat module takes the place of main.
\* A declaration has to follow a header, or the parser ends the program.
Flatten ==
  /\ step = "flatten"
  /\ IF "main" \notin DOMAIN modules THEN Refuse("no main module found") /\ UNCHANGED modules
     ELSE LET f == ProcessMain(modules)
          IN  IF f.failure # "none" THEN Refuse(f.failure) /\ UNCHANGED modules
              ELSE IF f.bareHeader THEN Refuse("syntax error") /\ UNCHANGED modules
              ELSE /\ modules' = [modules EXCEPT
                                    !["main"] = ModuleNode([params |-> <<>>, items |-> f.out])]
                   /\ step' = "again" /\ UNCHANGED outcome
  /\ UNCHANGED <<smv, items, enc, terms, casecheck, checked, asserted>>

\* preprocess, with module_flat = true
FlattenAgain ==
  /\ step = "again"
  /\ items' = ProcessMain(modules).out
  /\ step' = "item"
  /\ UNCHANGED <<smv, modules, enc, terms, casecheck, checked, asserted, outcome>>

\* A declaration: the symbol and its node.  BOOL has width 0.
Declared(item) ==
  /\ enc' = SmvLine(enc, [tag |-> item.tag, symbol |-> item.id, term |-> True, next |-> "",
                          width |-> IF item.width = 0 THEN 1 ELSE item.width])
  /\ terms' = (item.id :> Node(Var(item.id), item.type, item.width)) @@ terms
  /\ UNCHANGED casecheck

\* The sorts the solver insists on where the item's term is used.
WellSorted(item, node) ==
  CASE item.tag \in AssignTags -> item.id \in DOMAIN terms /\ SameSort(terms[item.id], node)
    [] item.tag \in {"INIT", "TRANS", "INVAR"} -> ~IsWord(node)
    [] OTHER -> TRUE

\* The action of the rule of an item, module_flat = true.
ReadItem ==
  /\ step = "item" /\ items # <<>>
  /\ LET item == Head(items)
         read == ParseExpr(enc.ts, terms, item.text)
         ok   == item.text = <<>> \/ (read.ok /\ WellSorted(item, read.node))
     IN  /\ IF ~ok THEN UNCHANGED <<enc, terms, casecheck>>
            ELSE IF item.text = <<>> THEN Declared(item)
            ELSE /\ enc' = IF item.tag = "DEFINE" THEN enc
                           ELSE SmvLine(enc, [tag |-> item.tag, symbol |-> item.id, width |-> 0,
                                              next |-> "", term |-> read.node.term])
                 /\ terms' = IF item.tag = "DEFINE" THEN (item.id :> read.node) @@ terms
                             ELSE terms
                 /\ casecheck' = casecheck \o read.casecheck
         /\ IF ok /\ enc'.ts.failure = "none" THEN UNCHANGED <<step, outcome>>
            ELSE Refuse(IF item.tag = "DEFINE" THEN "define" ELSE "item")
  /\ items' = Tail(items)
  /\ UNCHANGED <<smv, modules, checked, asserted>>

-----------------------------------------------------------------------------
(* processCase                                                             *)

\* push, assert_formula and the thread that calls check_sat
StartCase ==
  /\ step = "item" /\ items = <<>>
  /\ IF checked = Len(casecheck) THEN Refuse("accepted") /\ UNCHANGED asserted
     ELSE /\ asserted' = Append(asserted, Not(casecheck[checked + 1]))
          /\ step' = "wait" /\ UNCHANGED outcome
  /\ UNCHANGED <<smv, modules, items, enc, terms, casecheck, checked>>

Unsatisfiable(formulas) ==
  LET symbols == UNION { FreeSymbols(t) : t \in formulas }
  IN  \A env \in Valuations(symbols, enc.ts.sort) : ~HoldAll(formulas, env)

\* Seeded fault: the solver keeps what was asserted for the cases before.
CaseReadyUnpopped ==
  /\ step = "wait"
  /\ IF Unsatisfiable(Range(asserted))
     THEN /\ checked' = checked + 1 /\ step' = "item" /\ UNCHANGED <<asserted, outcome>>
     ELSE Refuse("case error") /\ UNCHANGED <<asserted, checked>>
  /\ UNCHANGED <<smv, modules, items, enc, terms, casecheck>>

\* The answer is ready within five seconds.
CaseReady ==
  /\ step = "wait"
  /\ IF Unsatisfiable(Range(asserted))
     THEN /\ checked' = checked + 1 /\ asserted' = Front(asserted)
          /\ step' = "item" /\ UNCHANGED outcome
     ELSE Refuse("case error") /\ UNCHANGED <<asserted, checked>>
  /\ UNCHANGED <<smv, modules, items, enc, terms, casecheck>>

CaseTimeout ==
  /\ step = "wait"
  /\ Refuse("case timeout check error")
  /\ UNCHANGED <<smv, modules, items, enc, terms, casecheck, checked, asserted>>

SmvNext ==
  \/ ParseModules \/ Flatten \/ FlattenAgain \/ ReadItem \/ StartCase \/ CaseReady \/ CaseTimeout

SmvSpec == SmvInit /\ [][SmvNext]_smvVars

-----------------------------------------------------------------------------
(* Properties.                                                             *)

\* The system that is built for a file of several modules has the initial
\* states and the steps of the file, and the properties mean what they say:
\* main's come first, in their order.
SystemIsFiles ==
  outcome = "accepted" =>
    \E m \in {Elaborated(smv.trees)} :
      LET ts == enc.ts
          states == Valuations(DOMAIN m.states, m.states)
          inputs == Valuations(DOMAIN m.inputs, m.inputs)
          same(prop, spec) == \A s \in states, in \in inputs, t \in states :
                                Holds(prop, s @@ in @@ Renamed(t, ts.nextMap))
                                  = RefHolds(m, spec, s @@ in, t @@ in)
      IN  /\ DOMAIN m.states = ts.statevars /\ DOMAIN m.inputs = ts.inputvars
          /\ InitialStates(ts) = { s \in states : RefStart(m, s) }
          /\ \A s \in states, in \in inputs :
               Post(ts, s, in) = { t \in states : RefStep(m, s, in, t) }
          /\ Len(enc.props) = Cardinality(m.specs)
          /\ \A spec \in m.specs : \E i \in DOMAIN enc.props : same(enc.props[i], spec)
          /\ \A i \in DOMAIN m.mainSpecs : same(enc.props[i], m.mainSpecs[i])

\* A file is accepted only when in each of its cases some condition holds
\* whatever the values (smv_encoder.h:73).
CasesCover ==
  outcome = "accepted" =>
    \E m \in {Elaborated(smv.trees)} :
      \A c \in m.cases, s \in Valuations(DOMAIN m.states, m.states),
         in \in Valuations(DOMAIN m.inputs, m.inputs) : RefCovers(m, c, s @@ in)
=============================================================================
