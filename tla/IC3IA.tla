-------------------------------- MODULE IC3IA --------------------------------
(***************************************************************************)
(* IC3 with implicit predicate abstraction (engines/ic3ia.cpp with         *)
(* modifiers/implicit_predicate_abstractor.cpp): the IC3 of IC3Base runs   *)
(* on an abstract transition relation that knows its target only up to a   *)
(* set of predicates, and refine() adds predicates from interpolants until *)
(* the abstract counterexample is gone or is concrete.                     *)
(***************************************************************************)
EXTENDS IC3Base

CONSTANTS
  SkipInitPreds,    \* options_.ic3ia_skip_init_preds_
  SimCex,           \* options_.ic3ia_sim_cex_
  ReducePreds,      \* options_.ic3ia_reduce_preds_
  ItpTerms          \* the sets of states an interpolant can denote

ASSUME IAOptionsAssumption ==
  /\ {SkipInitPreds, SimCex, ReducePreds} \subseteq BOOLEAN
  /\ ~PreGen      \* initialize() switches predecessor generalisation off

ASSUME ItpTermsAssumption == ItpTerms \subseteq SUBSET States

\* get_predicates returns the atoms of init and bad: with the Boolean
\* variables they determine init and bad.
ASSUME AtomsAssumption == \A sy \in Systems :
  /\ Definable(sy.init, sy.boolPreds \cup sy.initPreds)
  /\ Definable(sy.bad, sy.boolPreds \cup sy.badPreds)

\* abstract() and initialize(): the predicates before the first refinement.
InitialPreds ==
  sys.boolPreds \cup sys.badPreds \cup sys.filePreds
    \cup (IF SkipInitPreds THEN {} ELSE sys.initPreds)

\* do_abstraction replaces the next state by a fresh copy, add_predicate ties
\* the copy to the next state on each predicate.
IAInit ==
  /\ BaseInit
  /\ preds = InitialPreds
  /\ trans = AbsTrans(sys, preds)

-----------------------------------------------------------------------------
(* refine(): the abstract trace cex_ has one formula per time step.        *)

\* The states allowed at time t of the query, next to the concrete steps.
Layer(t) ==
  LET last == Len(cex) - 1
  IN  IF SimCex THEN Cube(cex[t + 1])
      ELSE IF t = 0 THEN sys.init
      ELSE IF t = last THEN sys.bad
      ELSE States \ sys.bad

Concretizable ==
  \E path \in Paths(sys, Len(cex) - 1) : \A t \in 0..Len(cex) - 1 : path[t] \in Layer(t)

\* The states after one concrete step from X.
Image(X) == { e[2] : e \in { d \in sys.trans : d[1] \in X } }

\* Sequence interpolants of the layers: external, any that MathSAT may give.
Interpolants ==
  { itp \in [1..Len(cex) - 1 -> ItpTerms] :
      /\ Image(Layer(0)) \subseteq itp[1]
      /\ \A t \in 1..Len(cex) - 2 : Image(itp[t] \cap Layer(t)) \subseteq itp[t + 1]
      /\ itp[Len(cex) - 1] \cap Layer(Len(cex) - 1) = {} }

\* The atoms of interpolants that are not predicates already; an interpolant
\* counts as one atom, constants have none.
FreshPreds(itp) ==
  { p \in { itp[t] : t \in DOMAIN itp } :
      p \notin Lits(preds) /\ p # {} /\ p # States }

\* No path of the relation goes through the cubes of the trace.
RuledOut(rel) ==
  ~\E path \in [0..Len(cex) - 1 -> States] :
     /\ \A t \in 0..Len(cex) - 1 : path[t] \in Cube(cex[t + 1])
     /\ \A t \in 0..Len(cex) - 2 : <<path[t], path[t + 1]>> \in rel

\* Seeded fault: any of the new predicates is good enough.
ReducedBlindly(fresh) == IF ReducePreds THEN SUBSET fresh \ {{}} ELSE {fresh}

\* reduce_predicates keeps an unsat core of the new predicates; when it fails
\* all of them are added.
Reduced(fresh) ==
  LET cores == { red \in SUBSET fresh :
                   red # {} /\ RuledOut(AbsTrans(sys, preds \cup red)) }
  IN  IF ReducePreds /\ cores # {} THEN cores ELSE {fresh}

\* No transition, or a satisfiable query: the counterexample is concrete.
RefineNone ==
  /\ Len(cex) = 1 \/ Concretizable
  /\ ReturnFalse

\* New predicates rule the trace out; the frames stay and the step is retried.
RefineSuccess ==
  /\ pc = "refine"
  /\ Len(cex) > 1 /\ ~Concretizable
  /\ \E itp \in Interpolants :
       /\ FreshPreds(itp) # {}
       /\ \E new \in Reduced(FreshPreds(itp)) : preds' = preds \cup new
  /\ trans' = AbsTrans(sys, preds')
  /\ pc' = "loop"
  /\ UNCHANGED <<sys, frameVars, callVars, blockVars, propVars, verdictVars,
                 terminate>>

\* No new predicate, or the interpolator gave up.
RefineFail ==
  /\ pc = "refine"
  /\ Len(cex) > 1
  /\ ReturnUnknown

IANext == SearchStep \/ RefineNone \/ RefineSuccess \/ RefineFail \/ Environment

\* The prover is one thread that runs until it returns.
IAFairness == WF_vars(SearchStep \/ RefineNone \/ RefineSuccess \/ RefineFail)

IASpec == IAInit /\ [][IANext]_vars /\ IAFairness

-----------------------------------------------------------------------------
\* A successful refinement rules out the abstract counterexample it was
\* computed for (the comment at ic3ia.cpp:384), reduced predicates included.
RefinementRulesOutCex ==
  [][ (pc = "refine" /\ pc' = "loop") => RuledOut(trans') ]_vars
=============================================================================
