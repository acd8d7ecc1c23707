------------------------------ MODULE Modifiers ------------------------------
(***************************************************************************)
(* The passes the main program runs over a system and a property before an *)
(* engine sees them (modifiers/, utils/fcoi.cpp, utils/ts_manipulation.h): *)
(* operators from a system, or a record [ts, prop], to a new one.          *)
(***************************************************************************)
EXTENDS TransitionSystem


\* toggle_clock.  The state made for a clock that is an input is a local of
\* the branch that makes it: what follows is about the clock itself.
ToggleClock(ts, clock) ==
  LET state == clock \o "__state__"
      prepared == IF clock \in ts.statevars THEN ts
                  ELSE ConstrainInputs(MakeStatevar(ts, state, ts.sort[clock]),
                                       Equal(Var(clock), Var(state)))
      started == ConstrainInit(prepared, Equal(Var(clock), Val(0)))
  IN  Try(ts, ts.sort[clock] = 1, AssignNext(started, clock, Not(Var(clock))))

-----------------------------------------------------------------------------
ResetCounter == "__internal_cosa2_reset_cnt__"

CeilLog2(n) == CHOOSE b \in 0..n : n <= 2^b /\ \A c \in 0..b - 1 : 2^c < n

ResetBits(bound) == CeilLog2(bound) + 1

\* What add_reset_seq returns.
ResetDone(bound) == Not(BVUlt(Var(ResetCounter), Val(bound % 2^ResetBits(bound))))

\* add_reset_seq: reset is active for the first bound steps and not afterwards.
AddResetSeq(ts, active, bound) ==
  LET counter == Var(ResetCounter)
      counted == AssignNext(
        ConstrainInit(MakeStatevar(ts, ResetCounter, ResetBits(bound)), Equal(counter, Val(0))),
        ResetCounter,
        Ite(ResetDone(bound), counter, BVInc(counter, ResetBits(bound))))
  IN  ConstrainInputs(ConstrainInputs(counted, Implies(Not(ResetDone(bound)), active)),
                      Implies(ResetDone(bound), Not(active)))

-----------------------------------------------------------------------------
\* compute_coi: the symbols of the terms and of the constraints, and those
\* their next-state functions depend on.  init is ignored.
Cone(ts, terms) ==
  LET symbols == UNION { FreeSymbols(t) : t \in terms \cup { c[1] : c \in Range(ts.constraints) } }
      cone[k \in 0..Cardinality(ts.statevars)] ==
        IF k = 0 THEN symbols
        ELSE UNION { {v} \cup (IF v \in DOMAIN ts.updates
                               THEN FreeSymbols(ts.updates[v]) ELSE {}) : v \in cone[k - 1] }
  IN  cone[Cardinality(ts.statevars)]

StaticConeOfInfluence(ts, terms) ==
  LET cone == Cone(ts, terms)
  IN  Try(ts, ts.functional,
          RebuildTransBasedOnCoi(ts, cone \cap ts.statevars, cone \cap ts.inputvars))

-----------------------------------------------------------------------------
\* The copy pseudo_init_and_prop works on: a functional system is made
\* relational, without its updates and constraints.
RelationalCopy(ts) ==
  IF ~ts.functional THEN ts
  ELSE LET states == FoldSet(LAMBDA v, acc : AddStatevar(acc, v, ts.nextMap[v]),
                             FreshTs(FALSE, ts.sort), ts.statevars)
           inputs == FoldSet(LAMBDA v, acc : AddInputvar(acc, v), states, ts.inputvars)
       IN  SetTrans(SetInit(inputs, ts.init), ts.trans)

\* Out of the pseudo initial state the system goes to its initial states.
PseudoStep(rts, pseudo) ==
  { Implies(pseudo, NextTerm(rts, t)) : t \in rts.init }
  \cup { Implies(Not(pseudo), t) : t \in rts.trans }

PseudoInitAndProp(ts, prop) ==
  LET rts     == MakeStatevar(RelationalCopy(ts), "__pseudo_init", 1)
      pseudo  == Var("__pseudo_init")
      guarded == Implies(Not(pseudo), prop)
      stepped == AssignNext(SetInit(SetTrans(rts, PseudoStep(rts, pseudo)), {pseudo}),
                            "__pseudo_init", Val(0))
      monitor == Var("__prop_monitor")
      monitored == MakeStatevar(stepped, "__prop_monitor", 1)
      watched == IF OnlyCurr(monitored, guarded)
                 THEN AddInvar(monitored, Equal(monitor, guarded))
                 ELSE AssignNext(monitored, "__prop_monitor", guarded)
  IN  [ts |-> Try(ts, TRUE, ConstrainInit(watched, monitor)), prop |-> monitor]

-----------------------------------------------------------------------------
\* Seeded fault: constraints over former inputs stay as they were.
ReAddedAsTheyWere(promoted, ts) ==
  FoldLeft(LAMBDA acc, c : ConstrainInputs(acc, c[1]), promoted, ts.constraints)

\* The constraints that were over inputs are evaluated again.
ReAddConstraints(promoted, ts) == AddConstraints(promoted, ts.constraints)

\* promote_inputvars
PromoteInputvars(ts, inputs) ==
  LET states == FoldSet(LAMBDA v, acc : AddStatevar(acc, v, ts.nextMap[v]),
                        FreshTs(ts.functional, ts.sort), ts.statevars)
      added  == FoldSet(LAMBDA v, acc : IF v \in inputs
                                        THEN PromoteInputvar(AddInputvar(acc, v), v)
                                        ELSE AddInputvar(acc, v),
                        states, ts.inputvars)
      updated == FoldSet(LAMBDA v, acc : AssignNext(acc, v, ts.updates[v]),
                         SetInit(added, ts.init), DOMAIN ts.updates)
      stepped == IF ts.functional THEN updated ELSE SetTrans(updated, ts.trans)
  IN  Try(ts, TRUE, ReAddConstraints(stepped, ts))

-----------------------------------------------------------------------------
\* add_prop_monitor: the monitor starts true and is what the property was in
\* the step before.
AddPropMonitor(ts, prop) ==
  LET hasNext == ~NoNext(ts, prop)
      id      == CHOOSE n \in 0..Cardinality(DOMAIN ts.sort) :
                   /\ "_monitor_" \o ToString(n) \notin DOMAIN ts.sort
                   /\ \A k \in 0..n - 1 : "_monitor_" \o ToString(k) \in DOMAIN ts.sort
      name    == "_monitor_" \o ToString(id)
      started == ConstrainInit(MakeStatevar(ts, name, 1), Var(name))
  IN  [ ts |-> Try(ts, ~(ts.functional /\ hasNext),
                   IF hasNext
                   THEN ConstrainTrans(started, Equal(Var(started.nextMap[name]), prop))
                   ELSE AssignNext(started, name, prop)),
        prop |-> Var(name) ]

\* prop_in_trans
PropInTrans(ts, prop) == AddConstraint(ts, prop, FALSE)
=============================================================================
